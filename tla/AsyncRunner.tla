----------------------------- MODULE AsyncRunner -----------------------------
(***************************************************************************)
(* The asynchronous pipeline of the vLLM runner (GPUModelRunner): the host *)
(* prepares and launches a step while the GPU still runs the one before,   *)
(* so it works on optimistic lengths (every draft accepted), the GPU       *)
(* corrects them from the counts of the step before, and the host learns   *)
(* the counts later.  Sampled and drafted tokens stay on the GPU and are   *)
(* scattered into the next step's inputs by the row a request had one step *)
(* before.  The scheduler is modelled from how the runner uses it.         *)
(***************************************************************************)
EXTENDS Integers, Sequences, FiniteSets

CONSTANTS Reqs,       \* request ids
          Prompt,     \* tokens of a prompt
          MaxOut,     \* for each request, the output tokens after which it ends
          NumSpec,    \* num_spec_tokens
          Depth,      \* steps in flight (the engine's batch queue)
          Preempts,   \* bound: whether the scheduler preempts, and lets requests wait
          Forced      \* whether a request may be preempted and resumed with no step between
                      \* (reset_prefix_cache, or a step without tokens)

ASSUME Sizes ==
  /\ Prompt \in Nat \ {0} /\ MaxOut \in [Reqs -> Nat \ {0}] /\ NumSpec \in Nat
  /\ IsFiniteSet(Reqs) /\ Depth \in Nat \ {0} /\ Preempts \in BOOLEAN /\ Forced \in BOOLEAN

VARIABLES sched,     \* the scheduler's view of each request (external)
          plan,      \* the scheduler's output the host works on
          pc,        \* where the host is between execute_model and sample_tokens
          req,       \* CachedRequestState, with the row's copy of its length
          rows,      \* input_batch.req_ids
          prevRow,   \* input_batch.prev_req_id_to_index (0: none)
          inputs,    \* the pinned input buffers, as prepared for the last step
          queue,     \* what is launched and not yet run on the default stream
          gpuRows,   \* the rows of the forward pass on the GPU, with num_computed_tokens
          sampled,   \* prev_sampled_token_ids and valid_sampled_token_count, by row
          outputs,   \* outputs nobody has taken yet, oldest first
          truth      \* what the GPU has computed and sampled for each request

vars == <<sched, plan, pc, req, rows, prevRow, inputs, queue, gpuRows, sampled, outputs, truth>>

Members(s) == {s[i] : i \in DOMAIN s}
Least(a, b) == IF a < b THEN a ELSE b
MaxRows == Cardinality(Reqs)

-----------------------------------------------------------------------------
\* The scheduler: a request's known outputs, the placeholders of steps in flight, its
\* computed tokens, its draft placeholders, and whether its next output is dropped.

NewRequest ==
  [status |-> "new", known |-> 0, place |-> 0, comp |-> 0, spec |-> 0, drop |-> FALSE]

Length(s) == Prompt + s.known + s.place     \* the optimistic length

Schedulable(r) ==
  \/ sched[r].status \in {"new", "preempted"}
  \/ sched[r].status = "running" /\ sched[r].known + sched[r].place < MaxOut[r]

\* What a request may be given: part of what is not computed, or all of it with the drafts
\* of the step before, if it was in it.
Chunks(r) ==
  LET left == Length(sched[r]) - sched[r].comp
      spec == IF r \in Members(rows) THEN sched[r].spec ELSE 0
  IN [n : 1..(left - 1), d : {0}] \cup {[n |-> left + spec, d |-> spec]}

Samples(s, c) == s.comp + c.n >= Length(s)

Scheduled(s, c) ==
  [s EXCEPT !.status = "running", !.comp = @ + c.n,
            !.place = IF Samples(s, c) THEN @ + 1 + c.d ELSE @,
            !.spec = IF Samples(s, c) THEN NumSpec ELSE 0]

Preempted(s) == [s EXCEPT !.status = "preempted", !.comp = 0, !.spec = 0]

\* What the scheduler tells the runner of a scheduled request.
Order(s, c) ==
  [n |-> c.n, d |-> c.d, comp |-> s.comp, outs |-> s.known + s.place, known |-> s.known,
   new |-> s.status = "new", resumed |-> s.status = "preempted", samples |-> Samples(s, c)]

\* An output reaches the scheduler: the accepted drafts are known, the rejected ones undone.
Informed(s, most, d, a) ==
  IF s.drop THEN [s EXCEPT !.drop = FALSE]
  ELSE [s EXCEPT !.known = Least(@ + 1 + a, most), !.place = @ - (1 + d),
                 !.comp = IF s.status = "running" THEN @ - (d - a) ELSE @]

-----------------------------------------------------------------------------
\* _update_states: the rows that stay, the state of a request that is scheduled, and the
\* drafts a row of the step before is taken to have had accepted.

Kept(orders, done) ==
  {r \in Members(rows) : r \notin done /\ r \in DOMAIN orders /\ ~orders[r].resumed}

Deferred(kept) == {r \in kept : req[r].draft > 0}

\* A row that stays has its outputs extended by its drafts and cut to the scheduler's count;
\* a row that is added has them recovered from the scheduler's tokens.
UpdatedAdding(r, o, kept) ==
  [comp |-> o.comp,
   outs |-> IF r \in kept THEN Least(req[r].outs + req[r].draft, o.outs) ELSE o.outs,
   draft |-> req[r].draft + o.d,
   real |-> IF r \in kept THEN req[r].real ELSE Prompt + o.known]
Updated(r, o, kept) ==
  [comp |-> o.comp,
   outs |-> IF r \in kept THEN Least(req[r].outs + req[r].draft, o.outs) ELSE o.outs,
   draft |-> o.d,
   real |-> IF r \in kept THEN req[r].real ELSE Prompt + o.known]

\* prev_num_draft_tokens: zero but for the rows taken to have had their drafts accepted.
PrevDrafts(r, kept) == IF r \in Deferred(kept) /\ prevRow[r] # 0 THEN req[r].draft ELSE 0

Orderings(S) == {s \in [1..Cardinality(S) -> S] : \A i, j \in DOMAIN s : s[i] = s[j] => i = j}

\* _prepare_inputs: lengths, the mask of rows whose sample is discarded, and where each row's
\* tokens come from, in pinned buffers the GPU copies when it gets there.
_compute_prev_positions(s) == [i \in DOMAIN s |-> prevRow[s[i]]]
Discarded(state, o) == state.comp + o.n < Prompt + state.outs
Prepared(s, orders, kept) ==
  [i \in DOMAIN s |->
     LET r == s[i]  o == orders[r]  state == Updated(r, o, kept)
     IN [req |-> r, n |-> o.n, d |-> o.d, at |-> state.comp, pinned |-> state.comp,
         real |-> state.real, prev |-> _compute_prev_positions(s)[i], drafts |-> PrevDrafts(r, kept),
         discard |-> Discarded(state, o), fresh |-> o.new \/ o.resumed, known |-> o.known]]

\* synchronize_input_prep: the buffers are free once the GPU has copied the last step's.
BuffersFreeAny == TRUE
BuffersFree == "prepare" \notin Members(queue)

\* After a step without tokens the engine waits for the output in flight before the next.
MaySchedule ==
  /\ pc = "idle" /\ Len(outputs) < Depth /\ BuffersFree
  /\ rows = <<>> => outputs = <<>>

\* execute_model, up to the launch of the forward pass.
ExecuteModel(S, P) ==
  /\ MaySchedule
  /\ \E c \in [S -> UNION {Chunks(r) : r \in S}] :
       LET orders == [r \in S |-> Order(sched[r], c[r])]
           done == {r \in Reqs : sched[r].status = "finished"}
           kept == Kept(orders, done)
       IN /\ \A r \in S : c[r] \in Chunks(r)
          /\ plan' = [orders |-> orders,
                      deferred |-> [r \in Deferred(kept) |-> req[r].draft]]
          /\ sched' = [r \in Reqs |->
               IF r \in S THEN Scheduled(sched[r], c[r])
               ELSE IF r \in P THEN Preempted(sched[r]) ELSE sched[r]]
          /\ req' = [r \in Reqs |-> IF r \in S THEN Updated(r, orders[r], kept) ELSE req[r]]
          /\ \E s \in Orderings(S) : rows' = s /\ inputs' = Prepared(s, orders, kept)
  /\ queue' = Append(queue, "prepare")
  /\ pc' = "launched"
  /\ UNCHANGED <<prevRow, gpuRows, sampled, outputs, truth>>

\* A step without tokens only empties the batch.
ExecuteNothing(P) ==
  /\ MaySchedule
  /\ rows # <<>> /\ rows' = <<>>
  /\ sched' = [r \in Reqs |-> IF r \in P THEN Preempted(sched[r]) ELSE sched[r]]
  /\ UNCHANGED <<plan, pc, req, prevRow, inputs, queue, gpuRows, sampled, outputs, truth>>

Execute ==
  \E S \in SUBSET {r \in Reqs : Schedulable(r)} :
    LET others == {r \in Reqs \ S : sched[r].status = "running"}
    IN /\ ~Preempts => \A r \in others : ~Schedulable(r)
       /\ \E P \in (IF Preempts /\ (S # {} \/ Forced) THEN SUBSET others ELSE {{}}) :
            IF S = {} THEN ExecuteNothing(P) ELSE ExecuteModel(S, P)

-----------------------------------------------------------------------------
\* The end of execute_model: the deferred correction waits for the counts of the step before
\* and takes the rejected drafts off the lengths the host keeps.  The GPU may or may not have
\* copied these lengths by then.

CountsReadyAny == TRUE
CountsReadyOwn == pc = "idle" /\ "sample" \notin Members(queue)
CountsReady == "sample" \notin Members(queue)

Excess(r) ==
  IF r \in DOMAIN plan.deferred /\ prevRow[r] # 0
  THEN plan.deferred[r] - (sampled[prevRow[r]].count - 1) ELSE 0

Correct ==
  /\ pc = "launched"
  /\ DOMAIN plan.deferred # {} => CountsReady
  /\ req' = [r \in Reqs |-> [req[r] EXCEPT !.comp = @ - Excess(r)]]
  /\ inputs' = [i \in DOMAIN inputs |-> [inputs[i] EXCEPT !.pinned = @ - Excess(inputs[i].req)]]
  /\ pc' = "computed"
  /\ UNCHANGED <<sched, plan, rows, prevRow, queue, gpuRows, sampled, outputs, truth>>

\* sample_tokens: sampling, drafting and the copies are launched, the batch remembers the
\* rows that sampled, and each of them gets a placeholder.
SampledRows == {i \in DOMAIN rows : ~inputs[i].discard}

SampleTokens ==
  /\ pc = "computed"
  /\ queue' = Append(queue, "sample")
  /\ prevRow' = [r \in Reqs |->
       IF \E i \in SampledRows : rows[i] = r
       THEN CHOOSE i \in SampledRows : rows[i] = r ELSE 0]
  /\ req' = [r \in Reqs |->
       IF prevRow'[r] # 0 THEN [req[r] EXCEPT !.outs = @ + 1] ELSE req[r]]
  /\ outputs' = Append(outputs,
       [ready |-> FALSE,
        of |-> [r \in Members(rows) |->
                  [d |-> plan.orders[r].d, discard |-> prevRow'[r] = 0, accepted |-> 0]]])
  /\ pc' = "idle"
  /\ UNCHANGED <<sched, plan, rows, inputs, gpuRows, sampled, truth>>

-----------------------------------------------------------------------------
\* The GPU.  A row with drafts in the step before starts from what the GPU had for it plus
\* what was accepted; any other from the host's copy (update_num_computed_tokens_for_batch_change).

Start(x) ==
  IF x.prev # 0 /\ x.drafts > 0 THEN gpuRows[x.prev].len + sampled[x.prev].count ELSE x.pinned

\* _prepare_input_ids: the last tokens of a row of the step before, its sampled one and its
\* drafts, are scattered from the GPU's tensors; the others come from the host's buffer.
TokenSource(x, q) ==
  IF x.prev = 0 \/ q < x.n - 1 - x.d THEN "host"
  ELSE IF q = x.n - 1 - x.d THEN "sampled" ELSE "drafted"

Prepare ==
  /\ queue # <<>> /\ Head(queue) = "prepare"
  /\ queue' = Tail(queue)
  /\ gpuRows' = [i \in DOMAIN inputs |->
       [req |-> inputs[i].req, n |-> inputs[i].n, d |-> inputs[i].d,
        discard |-> inputs[i].discard, len |-> Start(inputs[i])]]
  /\ truth' = [r \in Reqs |->
       IF \E i \in DOMAIN inputs : inputs[i].req = r /\ inputs[i].fresh
       THEN LET i == CHOOSE j \in DOMAIN inputs : inputs[j].req = r
            IN [comp |-> inputs[i].pinned, out |-> inputs[i].known]
       ELSE truth[r]]
  /\ UNCHANGED <<sched, plan, pc, req, rows, prevRow, inputs, sampled, outputs>>

\* _get_cumsum_and_arange: the running sums of a sequence of counts, and the batched arange,
\* here with each row's first value added to it, as its callers do.
CumSum(counts) ==
  LET upto[i \in 0..Len(counts)] == IF i = 0 THEN 0 ELSE upto[i - 1] + counts[i]
  IN [i \in DOMAIN counts |-> upto[i]]
Arange(first, counts) ==
  LET upto[i \in 0..Len(counts)] ==
        IF i = 0 THEN <<>> ELSE upto[i - 1] \o [k \in 1..counts[i] |-> first[i] + (k - 1)]
  IN upto[Len(counts)]

\* _calc_spec_decode_metadata: of the flattened rows of a batch, the ones whose logits are
\* kept; of these, the ones drafts are verified by and the ones the bonus tokens come from;
\* and the input rows of the draft tokens.  All count from 0.
_calc_spec_decode_metadata(s) ==
  LET drafts == [i \in DOMAIN s |-> s[i].d]
      samples == [i \in DOMAIN s |-> s[i].d + 1]
      scheduled == CumSum([i \in DOMAIN s |-> s[i].n])
      cu == CumSum(samples)
      logits == Arange([i \in DOMAIN s |-> scheduled[i] - samples[i]], samples)
      target == Arange([i \in DOMAIN s |-> cu[i] - samples[i]], drafts)
  IN [cu_drafts |-> CumSum(drafts),
      logits_indices |-> logits,
      target_logits_indices |-> target,
      bonus_logits_indices |-> [i \in DOMAIN s |-> cu[i] - 1],
      draft_rows |-> [p \in DOMAIN target |-> logits[target[p] + 2]]]

\* The forward pass, sampling and rejection, and the copies of what they gave.
Accepts == {a \in [DOMAIN gpuRows -> 0..NumSpec] : \A i \in DOMAIN gpuRows : a[i] <= gpuRows[i].d}

Ran(t, x, a) ==
  IF x.discard THEN [t EXCEPT !.comp = @ + x.n]
  ELSE [comp |-> t.comp + x.n - x.d + a, out |-> t.out + 1 + a]

Sample ==
  /\ queue # <<>> /\ Head(queue) = "sample"
  /\ queue' = Tail(queue)
  /\ \E a \in Accepts :
       LET row(r) == CHOOSE i \in DOMAIN gpuRows : gpuRows[i].req = r
           here == {gpuRows[i].req : i \in DOMAIN gpuRows}
           oldest == CHOOSE k \in DOMAIN outputs :
                       ~outputs[k].ready /\ \A j \in 1..(k - 1) : outputs[j].ready
       IN /\ truth' = [r \in Reqs |->
               IF r \in here THEN Ran(truth[r], gpuRows[row(r)], a[row(r)]) ELSE truth[r]]
          /\ sampled' = [i \in DOMAIN gpuRows |->
               [req |-> gpuRows[i].req, pos |-> truth'[gpuRows[i].req].comp,
                count |-> IF gpuRows[i].discard THEN 0 ELSE 1 + a[i]]]
          /\ outputs' = [outputs EXCEPT ![oldest] =
               [ready |-> TRUE,
                of |-> [r \in DOMAIN @.of |-> [@.of[r] EXCEPT !.accepted = a[row(r)]]]]]
  /\ UNCHANGED <<sched, plan, pc, req, rows, prevRow, inputs, gpuRows>>

\* get_output, and the scheduler's update from it, when the queue is full or there was nothing
\* to schedule; a request may stop at any of its tokens.
TakeOutput ==
  /\ outputs # <<>> /\ Head(outputs).ready
  /\ Len(outputs) = Depth \/ rows = <<>>
  /\ \E stops \in SUBSET DOMAIN Head(outputs).of :
       LET o == Head(outputs).of
           seen == [r \in DOMAIN o |-> Informed(sched[r], MaxOut[r], o[r].d, o[r].accepted)]
           counts(r) == r \in DOMAIN o /\ ~o[r].discard /\ sched[r].status # "finished"
       IN /\ \A r \in stops : counts(r) /\ ~sched[r].drop
          /\ sched' = [r \in Reqs |->
               IF ~counts(r) THEN sched[r]
               ELSE IF r \in stops \/ seen[r].known = MaxOut[r]
                    THEN [seen[r] EXCEPT !.status = "finished"] ELSE seen[r]]
  /\ outputs' = Tail(outputs)
  /\ UNCHANGED <<plan, pc, req, rows, prevRow, inputs, queue, gpuRows, sampled, truth>>

\* reset_prefix_cache preempts all that runs; what is in flight for them will be dropped.
ForcePreempt ==
  /\ Forced /\ pc = "idle" /\ Len(outputs) < Depth
  /\ \E r \in Reqs : sched[r].status = "running"
  /\ sched' = [r \in Reqs |->
       IF sched[r].status = "running"
       THEN [Preempted(sched[r]) EXCEPT !.place = 0, !.drop = sched[r].place > 0]
       ELSE sched[r]]
  /\ UNCHANGED <<plan, pc, req, rows, prevRow, inputs, queue, gpuRows, sampled, outputs, truth>>

-----------------------------------------------------------------------------
Init ==
  /\ sched = [r \in Reqs |-> NewRequest]
  /\ plan = [orders |-> <<>>, deferred |-> <<>>]
  /\ pc = "idle"
  /\ req = [r \in Reqs |-> [comp |-> 0, outs |-> 0, draft |-> 0, real |-> 0]]
  /\ rows = <<>>
  /\ prevRow = [r \in Reqs |-> 0]
  /\ inputs = <<>>
  /\ queue = <<>>
  /\ gpuRows = <<>>
  /\ sampled = <<>>
  /\ outputs = <<>>
  /\ truth = [r \in Reqs |-> [comp |-> 0, out |-> 0]]

Host == Execute \/ Correct \/ SampleTokens
Gpu == Prepare \/ Sample
Next == Host \/ Gpu \/ TakeOutput

Spec == Init /\ [][Next]_vars
ForcedSpec == Init /\ [][Next \/ ForcePreempt]_vars
LiveSpec == Spec /\ WF_vars(Correct) /\ WF_vars(SampleTokens) /\ WF_vars(Gpu) /\ WF_vars(TakeOutput)

-----------------------------------------------------------------------------
\* Type correctness.
TypeOK ==
  /\ pc \in {"idle", "launched", "computed"}
  /\ \A r \in Reqs :
       /\ sched[r].status \in {"new", "running", "preempted", "finished"}
       /\ sched[r].known \in 0..MaxOut[r] /\ sched[r].place \in 0..(Depth * (1 + NumSpec))
       /\ req[r].comp \in Nat /\ req[r].outs \in Nat /\ req[r].draft \in 0..NumSpec
       /\ prevRow[r] \in 0..MaxRows
  /\ Members(rows) \subseteq Reqs /\ Len(rows) <= MaxRows
  /\ Members(queue) \subseteq {"prepare", "sample"} /\ Len(queue) <= 2 * Depth
  /\ Len(outputs) <= Depth

\* When the GPU comes to a step, each row starts where the GPU's own computation of the
\* request stopped, and every token it is fed is the request's token of that position: from
\* the host where the host knows it, else the one sampled for it, and drafts are its own.
RowIsTrue(x) ==
  LET start == Start(x)
      own == x.prev # 0 /\ sampled[x.prev].req = x.req
      True(q) ==
        CASE TokenSource(x, q) = "host" -> x.at + q = start + q /\ start + q < x.real
          [] TokenSource(x, q) = "sampled" -> own /\ sampled[x.prev].pos = start + q
          [] OTHER -> own
  IN /\ start = IF x.fresh THEN x.pinned ELSE truth[x.req].comp
     /\ \A q \in 0..(x.n - 1) : True(q)
RowsTrue == \A i \in DOMAIN inputs : RowIsTrue(inputs[i])
\* And whatever the rows of the others: each draft a row is fed is verified by the logits of
\* the token before it, and its bonus token comes from the logits of its last.
SampledFromOwn ==
  LET m == _calc_spec_decode_metadata(inputs)
      from(i) == CumSum([j \in DOMAIN inputs |-> inputs[j].n])[i] - inputs[i].n
      before(i) == m.cu_drafts[i] - inputs[i].d
  IN \A i \in DOMAIN inputs :
       /\ m.logits_indices[m.bonus_logits_indices[i] + 1] = from(i) + inputs[i].n - 1
       /\ \A j \in 1..inputs[i].d :
            LET row == from(i) + inputs[i].n - 1 - inputs[i].d + j
                p == before(i) + j
            IN /\ m.draft_rows[p] = row
               /\ m.logits_indices[m.target_logits_indices[p] + 1] = row - 1
InputsTrue ==
  queue # <<>> /\ Head(queue) = "prepare" => RowsTrue /\ SampledFromOwn

\* After the deferred correction the host's length of a request that had drafts is exactly
\* what the GPU has computed, though the batch's rows have moved since.
CorrectionExact ==
  pc = "computed" =>
    \A r \in DOMAIN plan.deferred : prevRow[r] # 0 => req[r].comp = truth[r].comp

\* The host's placeholders are the scheduler's, and a row's sample is discarded exactly when
\* the scheduler expects none.
PlaceholdersExact ==
  pc # "idle" =>
    \A i \in DOMAIN rows :
      /\ req[rows[i]].outs = plan.orders[rows[i]].outs
      /\ inputs[i].discard <=> ~plan.orders[rows[i]].samples

\* With nothing in flight, the scheduler knows every token sampled for a request that goes on,
\* and no other.
AllDelivered ==
  (outputs = <<>> /\ pc = "idle" /\ ~Forced) =>
    \A r \in Reqs :
      sched[r].status \in {"running", "preempted"} =>
        sched[r].known = truth[r].out /\ sched[r].place = 0

\* Host, scheduler and GPU come to the same lengths: after a correction, in
\* each step's placeholders and discards, and with nothing in flight.
LengthsExact == CorrectionExact /\ PlaceholdersExact /\ AllDelivered

\* A launched step is finished by the host, and a full queue of outputs drains: the waits for
\* the counts and the buffers of the step before never lock.
StepsFinish ==
  /\ pc = "launched" ~> pc = "idle"
  /\ Len(outputs) = Depth ~> Len(outputs) < Depth
=============================================================================
