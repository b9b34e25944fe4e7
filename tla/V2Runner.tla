------------------------------ MODULE V2Runner ------------------------------
(***************************************************************************)
(* The V2 model runner with the DFlash drafter (v1/worker/gpu/             *)
(* model_runner.py, spec_decode/dflash/speculator.py).  The scheduler runs *)
(* ahead: it plans a step before the outputs of earlier ones are known,    *)
(* counting every draft as accepted, while the device keeps the true       *)
(* lengths, the last sampled tokens and the drafts, by slot.               *)
(*                                                                         *)
(* A token is <<content class, position, 1>>: requests of one class have   *)
(* the same prompt and the same continuation.  A third field of 0 marks a  *)
(* draft the target will reject.  A cache holds, at each address, the      *)
(* token whose K/V was written there.  Target and drafter layers share one *)
(* KV-cache group, so one block table, with a tensor each.  The last       *)
(* pipeline rank only, without LoRA, encoders, DCP or a KV connector.      *)
(***************************************************************************)
EXTENDS V2Graphs

CONSTANTS
  Reqs,         \* requests
  Class,        \* Class[r]: what r's text is
  PromptLen,    \* PromptLen[r]
  Blocks,       \* KV-cache blocks, without the null block 0
  BS,           \* tokens in a block
  ModelLen,     \* max_model_len
  K,            \* num_speculative_steps
  FromAnchor,   \* sample_from_anchor: DSpark, not DFlash
  Chunk,        \* most prefill tokens in a step
  Depth,        \* most steps planned without their output
  Modes,        \* starts: cudagraph mode, breakable selection, draft support
  MaxAdds       \* bound: additions (new, resumed, streaming) in a behaviour

ASSUME RunnerSizes ==
  /\ PromptLen \in [Reqs -> 1 .. ModelLen - 1]
  /\ 0 \notin Blocks /\ BS \in Nat \ {0} /\ K \in Nat \ {0}
  /\ Chunk \in Nat \ {0} /\ Depth \in Nat \ {0} /\ FromAnchor \in BOOLEAN

VARIABLES
  phase,    \* "boot" until the graphs are captured
  target,   \* the target's graph manager
  drafter,  \* the drafter's
  sch,      \* the scheduler's view of each request
  adds,     \* additions made
  slot,     \* req_id_to_index, 0 for none
  host,     \* host side of each slot: np, prefilled, prefill_len, block row
  dev,      \* device side of each slot
  kv,       \* the target layers' cache
  dkv,      \* the drafter layers' cache
  exec,     \* execute_model_state
  out,      \* outputs not yet taken by the engine
  drafted   \* what the last drafting pass did

vars == <<phase, target, drafter, sch, adds, slot, host, dev, kv, dkv, exec, out, drafted>>

----------------------------------------------------------------------------
(* Tokens, addresses and caches. *)

\* f itself, which TLC then evaluates once and not at each application.
Once(f) == f @@ <<>>

\* The elements of a set in an order.
Sorted(S, before(_, _)) ==
  [i \in 1 .. Cardinality(S) |-> CHOOSE x \in S : Cardinality({y \in S : before(y, x)}) = i - 1]

Tok(c, p, v) == <<c, p, v>>
Junk == <<0, 0, 0>>
True_(r, p) == Tok(Class[r], p, 1)

decode_query_len == K + 1
num_query_per_req == IF FromAnchor THEN K ELSE K + 1

Ceil(a, b) == (a + (b - 1)) \div b
Greater(a, b) == IF a >= b THEN a ELSE b

\* Columns of a block-table row.
Width == Ceil(ModelLen, BS)

Addresses == Blocks \X (0 .. BS - 1)
Pad == <<0, 0>>

\* The slot of a position, the column clamped to the last one of the row.
SlotOf(row, p) ==
  LET col == Least(p \div BS, Width - 1) + 1
  IN <<IF col <= Len(row) THEN row[col] ELSE 0, p % BS>>

\* Writing values at addresses, PAD rows and the null block aside.
Put(cache, at, val) ==
  LET rows(a) == {i \in DOMAIN at : at[i] = a}
      last(a) == CHOOSE i \in rows(a) : \A j \in rows(a) : j <= i
  IN Once([a \in Addresses |-> IF rows(a) = {} THEN cache[a] ELSE val[last(a)]])

Get(cache, a) == IF a \in Addresses THEN cache[a] ELSE Junk

\* All the K/V of r below n, read through a row, is r's own text.
Holds(cache, row, r, n) ==
  \A p \in 0 .. n - 1 : Get(cache, SlotOf(row, p)) = True_(r, p)

----------------------------------------------------------------------------
(* The scheduler, as the runner sees it (external). *)

Running == {r \in Reqs : sch[r].st = "running"}

Owned(s, rs) == UNION {ToSet(s[r].blocks) : r \in rs}

\* Tokens of r known to be computed once what is planned has run.
Cached(r) == Least(sch[r].comp, sch[r].known)

\* Tokens a step may give r: a prefill chunk, or a token and its drafts.
Wanted(c) ==
  IF c.comp < c.pre THEN Least(Chunk, c.pre - c.comp)
  ELSE Least(K + 1, (ModelLen - 1) - c.comp)

DraftsOf(c) == IF c.comp < c.pre THEN 0 ELSE Wanted(c) - 1

\* Blocks up to the end of the drafter's queries, within the model length.
Needed(c) == Ceil(Least(c.comp + Wanted(c) + num_query_per_req, ModelLen), BS)

NewBlocks(c, free) ==
  LET n == Greater(Needed(c) - Len(c.blocks), 0)
  IN IF n <= Cardinality(free) THEN SubSeq(Sorted(free, <), 1, n) ELSE <<0>>

Unpending(q, r) ==
  [i \in DOMAIN q |-> [s \in DOMAIN q[i] \ {r} |-> q[i][s]]]

Pending(r) == \E i \in DOMAIN out : r \in DOMAIN out[i]

\* A request leaves: finished, or preempted and to be computed again.
Leave(r, st) ==
  [sch EXCEPT ![r] = [st |-> st, comp |-> 0, pre |-> 0, blocks |-> <<>>,
                      known |-> IF st = "done" THEN PromptLen[r] ELSE @.known]]

\* A request comes in with the first h tokens found in the blocks of q.
Enter(s, r, q, h) ==
  [s EXCEPT ![r].st = "running", ![r].comp = h, ![r].pre = s[r].known,
            ![r].blocks = SubSeq(s[q].blocks, 1, h \div BS)]

\* A streaming session's request: one more prompt token, its blocks kept.
Stream(r) == [sch EXCEPT ![r].known = @ + 1, ![r].pre = sch[r].known + 1]

\* What may happen besides running: [kind, req, from, hit].
Nothing == [kind |-> "none", req |-> 0, from |-> 0, hit |-> 0]

Events ==
  {Nothing}
  \union [kind : {"finish"}, req : Running, from : {0}, hit : {0}]
  \union [kind : {"preempt"}, req : {r \in Running : sch[r].known < ModelLen},
          from : {0}, hit : {0}]
  \union IF adds = MaxAdds THEN {} ELSE
    {[kind |-> "add", req |-> r, from |-> r, hit |-> 0] :
       r \in {x \in Reqs : sch[x].st = "waiting" /\ Cardinality(Running) < MaxReqs}}
    \union
    {[kind |-> "add", req |-> x[1], from |-> x[2],
      hit |-> Least(Cached(x[2]), sch[x[1]].known - 1)] :
       x \in {y \in Reqs \X Running :
                /\ sch[y[1]].st = "waiting" /\ Cardinality(Running) < MaxReqs
                /\ Class[y[1]] = Class[y[2]]}}
    \union
    {[kind |-> "stream", req |-> r, from |-> 0, hit |-> 0] :
       r \in {x \in Running : ~Pending(x) /\ sch[x].known < ModelLen - 1
                                /\ sch[x].comp >= sch[x].pre}}

AfterEvent(e) ==
  CASE e.kind = "finish" -> Leave(e.req, "done")
    [] e.kind = "preempt" -> Leave(e.req, "waiting")
    [] e.kind = "add" -> Enter(sch, e.req, e.from, e.hit)
    [] e.kind = "stream" -> Stream(e.req)
    [] OTHER -> sch

\* The plan of a step for the requests of a sequence: blocks and tokens.
Allocate(s, order) ==
  LET one(acc, r) ==
        LET c == acc.s[r]
            free == Blocks \ Owned(acc.s, {x \in Reqs : acc.s[x].st = "running"})
            new == NewBlocks(c, free)
        IN [s |-> [acc.s EXCEPT ![r].blocks = @ \o new, ![r].comp = @ + Wanted(c)],
            plan |-> acc.plan @@ (r :> [n |-> Wanted(c), nd |-> DraftsOf(c),
                                        np |-> c.comp, new |-> new])]
  IN FoldLeft(one, [s |-> s, plan |-> <<>>], order)

----------------------------------------------------------------------------
(* execute_model: request states. *)

KeepRequest(s, r) == s

_remove_request(s, r) == [s EXCEPT ![r] = 0]

FreeSlots(s) == (1 .. MaxReqs) \ {s[r] : r \in Reqs}

\* finish_requests, then the removal that opens a re-addition.
Slots1(e) == IF e.kind = "none" THEN slot ELSE _remove_request(slot, e.req)

Slots2(e) ==
  LET s == Slots1(e)
  IN IF e.kind \in {"add", "stream"}
     THEN [s EXCEPT ![e.req] = CHOOSE i \in FreeSlots(s) : \A j \in FreeSlots(s) : i <= j]
     ELSE s

\* add_request of the request states and the block table (external): the
\* last sampled token and the drafts of the slot stay what they were.
AddHost(h, i, c, row) ==
  [h EXCEPT ![i] = [np |-> c.comp, prefill |-> c.pre, row |-> row]]

AddDev(d, i, r, c) ==
  [d EXCEPT ![i].computed = c.comp,
            ![i].prefill = c.pre, ![i].text = Class[r]]

add_requests(e, s) ==
  LET i == Slots2(e)[e.req] IN
  IF e.kind \in {"add", "stream"}
  THEN [host |-> AddHost(host, i, s[e.req], s[e.req].blocks),
        dev |-> AddDev(dev, i, e.req, s[e.req])]
  ELSE [host |-> host, dev |-> dev]

\* update_requests: lengths from the scheduler, new blocks appended.
update_requests(h, slots, plan) ==
  [i \in DOMAIN h |->
     IF \E r \in DOMAIN plan : slots[r] = i
     THEN LET r == CHOOSE x \in DOMAIN plan : slots[x] = i
          IN [h[i] EXCEPT !.np = plan[r].np, !.row = @ \o plan[r].new]
     ELSE h[i]]

\* zero_block_ids, then copy_kv_cache_blocks_inplace.
CopyBeforeZero(cache, zero, copies) ==
  [a \in Addresses |->
     IF a[1] \in zero THEN Junk
     ELSE IF \E c \in copies : c[2] = a[1]
     THEN cache[<<(CHOOSE c \in copies : c[2] = a[1])[1], a[2]>>]
     ELSE cache[a]]

ZeroAndCopy(cache, zero, copies) ==
  [a \in Addresses |->
     IF \E c \in copies : c[2] = a[1]
     THEN LET src == (CHOOSE c \in copies : c[2] = a[1])[1]
          IN IF src \in zero THEN Junk ELSE cache[<<src, a[2]>>]
     ELSE IF a[1] \in zero THEN Junk ELSE cache[a]]

----------------------------------------------------------------------------
(* execute_model: the batch. *)

\* sort_batch_req_ids: full decodes first, then by length.
sort_batch_req_ids(plan) ==
  LET before(a, b) ==
        LET key(r) == <<IF plan[r].n = decode_query_len THEN 0 ELSE 1, plan[r].n>>
        IN \/ key(a)[1] < key(b)[1]
           \/ key(a)[1] = key(b)[1] /\ key(a)[2] < key(b)[2]
           \/ key(a) = key(b) /\ a < b
  IN Once(Sorted(DOMAIN plan, before))

\* prepare_prefill_inputs and combine_sampled_and_draft_tokens (external):
\* row i (from 0) of a request in slot state d, n rows of which nd drafts.
TokenFromRow(d, host_prefilling, n, nd, i) ==
  LET p == d.computed + i
      first == n - (nd + 1)
  IN IF d.computed + n > d.prefill /\ i >= first
     THEN IF i = first THEN d.last ELSE d.drafts[i - first]
     ELSE IF host_prefilling /\ d.computed < d.prefill /\ p < d.prefill
     THEN Tok(d.text, p, 1) ELSE Junk

\* prepare_inputs and prepare_attn for one request.
prepare_inputs(r, i, prefilling, q, h, d) ==
  [slot |-> i, base |-> d.computed, n |-> q.n, nd |-> q.nd,
   bound |-> h.np + q.n,
   prefilling |-> h.np < h.prefill,
   ids |-> Once([j \in 1 .. q.n |-> TokenFromRow(d, prefilling, q.n, q.nd, j - 1)]),
   slots |-> Once([j \in 1 .. q.n |-> SlotOf(h.row, d.computed + (j - 1))])]

\* The prefill kernel also notes the token that follows an unfinished chunk.
NextPrefill(d, i, batch, prefilling) ==
  IF prefilling /\ \E r \in DOMAIN batch :
       batch[r].slot = i /\ d.computed + batch[r].n < d.prefill
  THEN LET r == CHOOSE x \in DOMAIN batch : batch[x].slot = i
       IN [d EXCEPT !.nextp = Tok(d.text, d.computed + batch[r].n, 1)]
  ELSE d

\* The sampled rows of a pass: what each row stands for and what it predicts,
\* right when the row sees nothing but its own request's text.
Forward(r, b, row, cache) ==
  LET sees(j) == Holds(cache, row, r, b.base + j)
  IN [hid |-> [j \in 1 .. b.n |-> IF sees(j) THEN True_(r, b.base + (j - 1)) ELSE Junk],
      next |-> [j \in 1 .. b.n |-> IF sees(j) THEN True_(r, b.base + j) ELSE Junk]]

Idle == [order |-> <<>>]

\* The addresses of a pass over that many rows: padding rows write nothing.
SlotRows(slots, rows) == Once([i \in 1 .. rows |-> IF i <= Len(slots) THEN slots[i] ELSE Pad])

Rows(order, f) == FlattenSeq(Once([i \in DOMAIN order |-> f[order[i]]]))

\* The function that is f(r) for each request of a batch, row by row.
PerRequest(order, f(_)) == FoldLeft(LAMBDA g, r : g @@ (r :> f(r)), <<>>, order)

\* query_start_loc: a batch's first rows, the rows of padding requests empty.
query_start_loc(order, n, reqs) ==
  LET upto(i) == FoldLeft(+, 0, [k \in 1 .. i |-> n[order[k]]])
  IN [i \in 1 .. reqs + 1 |-> upto(Least(i - 1, Len(order)))]

\* The model state's prepare_attn: what the attention of a batch is built
\* for.  A graph that holds the attention takes its own sizes.
prepare_attn(desc, breakable, order, batch) ==
  LET n == [r \in DOMAIN batch |-> batch[r].n]
      padded == desc.mode = "FULL" \/ (desc.mode = "PIECEWISE" /\ breakable)
      reqs == IF padded /\ desc.reqs # 0 THEN desc.reqs ELSE Len(order)
      bounds == {batch[r].bound : r \in DOMAIN batch}
  IN [reqs |-> reqs,
      toks |-> IF padded THEN desc.toks ELSE FoldFunction(+, 0, n),
      starts |-> query_start_loc(order, n, reqs),
      max_seq_len |-> CHOOSE m \in bounds : \A b \in bounds : b <= m]

DispatchTarget(plan) ==
  LET toks == FoldFunction(+, 0, [r \in DOMAIN plan |-> plan[r].n])
  IN dispatch(target, Cardinality(DOMAIN plan), toks,
              get_uniform_token_count({plan[r].n : r \in DOMAIN plan}))

----------------------------------------------------------------------------
(* Start. *)

NoText == [computed |-> 0, prefill |-> 0, text |-> 0, last |-> Junk,
           drafts |-> [j \in 1 .. K |-> Junk],
           logits |-> [j \in 1 .. K |-> Junk], nextp |-> Junk]

\* The graph managers initialize_kv_cache makes for the resolved mode.
TargetManager(m) == Manager(Descs(m.mode, m.breakable, decode_query_len))

DraftManager(m) ==
  Manager(DraftDescs(m.mode, m.breakable, m.supports, num_query_per_req))

Breakable == \E d \in target.descs : d.mode = "PIECEWISE" /\ d.reqs # 0

Init ==
  /\ phase = "boot"
  /\ \E m \in Modes : target = TargetManager(m) /\ drafter = DraftManager(m)
  /\ sch = [r \in Reqs |-> [st |-> "waiting", known |-> PromptLen[r], comp |-> 0,
                            pre |-> 0, blocks |-> <<>>]]
  /\ adds = 0
  /\ slot = [r \in Reqs |-> 0]
  /\ host = [i \in 1 .. MaxReqs |-> [np |-> 0, prefill |-> 0, row |-> <<>>]]
  /\ dev = [i \in 1 .. MaxReqs |-> NoText]
  /\ kv = [a \in Addresses |-> Junk]
  /\ dkv = [a \in Addresses |-> Junk]
  /\ exec = Idle
  /\ out = <<>>
  /\ drafted = Idle

\* capture_model: the drafter is captured only if the target has anything to.
CaptureModel ==
  /\ phase = "boot"
  /\ phase' = "serve"
  /\ target' = IF needs_capture(target) THEN capture(target) ELSE target
  /\ drafter' = IF needs_capture(target) THEN capture(drafter) ELSE drafter
  /\ UNCHANGED <<sch, adds, slot, host, dev, kv, dkv, exec, out, drafted>>

\* A scheduler step and execute_model.
Step ==
  /\ phase = "serve"
  /\ exec = Idle
  /\ Len(out) < Depth
  /\ \E e \in Events :
     LET s0 == AfterEvent(e)
         ready == {r \in Reqs : s0[r].st = "running" /\ Wanted(s0[r]) > 0}
     IN \E S \in SUBSET ready :
        LET planned == Allocate(s0, Sorted(S, <))
            plan == planned.plan
            slots == Slots2(e)
            added == add_requests(e, s0)
            h == Once(update_requests(added.host, slots, plan))
            zero == UNION {ToSet(plan[r].new) : r \in S}
            copies == IF e.kind = "add" /\ e.hit % BS # 0
                      THEN {<<sch[e.from].blocks[e.hit \div BS + 1], plan[e.req].new[1]>>}
                      ELSE {}
            kv0 == ZeroAndCopy(kv, zero, copies)
            order == sort_batch_req_ids(plan)
            prefilling == \E r \in S : h[slots[r]].np < h[slots[r]].prefill
            batch == Once([r \in S |->
                             prepare_inputs(r, slots[r], prefilling, plan[r],
                                            h[slots[r]], added.dev[slots[r]])])
            desc == DispatchTarget(plan)
            kv1 == Put(kv0, SlotRows(Rows(order, [r \in S |-> batch[r].slots]), desc.toks),
                       Rows(order, [r \in S |-> batch[r].ids]))
        IN /\ e = Nothing => S # {}
           /\ e.kind \in {"add", "stream"} => e.req \in S
           /\ \A r \in S : 0 \notin ToSet(plan[r].new)
           /\ sch' = planned.s
           /\ adds' = adds + (IF e.kind \in {"add", "stream"} THEN 1 ELSE 0)
           /\ slot' = slots
           /\ host' = h
           /\ dev' = [i \in DOMAIN dev |-> NextPrefill(added.dev[i], i, batch, prefilling)]
           /\ dkv' = ZeroAndCopy(dkv, zero, copies)
           /\ out' = IF e.kind \in {"finish", "preempt"} THEN Unpending(out, e.req) ELSE out
           /\ drafted' = Idle
           /\ IF S = {} THEN kv' = kv0 /\ exec' = Idle
              ELSE /\ kv' = kv1
                   /\ exec' = [order |-> order, desc |-> desc,
                               batch |-> [r \in S |-> batch[r] @@
                                            Forward(r, batch[r], h[slots[r]].row, kv1)],
                               attn |-> prepare_attn(desc, Breakable, order, batch),
                               hidden |-> IF desc.mode = "FULL"
                                          THEN run_fullgraph(target, desc) ELSE desc.toks]
  /\ UNCHANGED <<phase, target, drafter>>

----------------------------------------------------------------------------
(* sample_tokens. *)

\* The rejection sampler (external): drafts are kept up to the first one the
\* target does not predict itself, and one more token follows them.
sample(b, d) ==
  LET first == b.n - b.nd
      kept == CHOOSE m \in 0 .. b.nd :
                /\ \A j \in 1 .. m : b.ids[first + j] = b.next[(first + j) - 1]
                /\ m < b.nd => b.ids[first + m + 1] # b.next[first + m]
  IN IF b.base + b.n < d.prefill THEN [toks |-> <<>>, rejected |-> 0]
     ELSE [toks |-> SubSeq(b.next, first, first + kept), rejected |-> b.nd - kept]

\* post_update (external).
PostprocessAllAccepted(d, b, o) ==
  [d EXCEPT !.computed = @ + b.n,
            !.last = IF o.toks = <<>> THEN @ ELSE Last(o.toks)]

postprocess_sampled(d, b, o) ==
  [d EXCEPT !.computed = @ + (b.n - o.rejected),
            !.last = IF o.toks = <<>> THEN @ ELSE Last(o.toks)]

\* The query rows of the shared slot mapping, padded to the end.
QueryMappingUnpadded(queries, before) ==
  [i \in 1 .. Greater(Len(queries), Len(before)) |->
     IF i <= Len(queries) THEN queries[i] ELSE before[i]]

QueryMapping(queries, before) == queries

\* prepare_dflash_inputs for one request: where its context and its queries
\* go, the token its first query carries, and the positions it samples.
prepare_dflash_inputs(r, b, o, d, row) ==
  LET last_valid == (b.base + b.n) - (1 + o.rejected)
  IN [context |-> b.slots,
      queries |-> [j \in 1 .. num_query_per_req |-> SlotOf(row, last_valid + j)],
      anchor |-> IF o.toks = <<>> THEN d.nextp ELSE d.last,
      end |-> last_valid + 1,
      seq_len |-> last_valid + 1 + num_query_per_req]

\* The rows a pass samples, request by request: their query row, and the
\* slot they are for.  Rows to the end are padded, with query row 0 and no
\* slot, for a graph that samples more requests than there are.
SampleRows(order, batch) ==
  [i \in 1 .. MaxReqs * K |->
     IF i <= Len(order) * K
     THEN LET j == (i - 1) \div K
          IN [row |-> j * num_query_per_req + ((i - 1) % K) + (IF FromAnchor THEN 0 ELSE 1),
              slot |-> batch[order[j + 1]].slot]
     ELSE [row |-> 0, slot |-> 0]]

\* The draft of a query row: the token of its position, or of the next from
\* an anchor, the first good of a request's the ones the target predicts.
Drawn(order, q, row, good) ==
  LET r == order[(row \div num_query_per_req) + 1]
      off == row % num_query_per_req
  IN Tok(Class[r], q[r].end + off + (IF FromAnchor THEN 1 ELSE 0),
         IF off < good[r] + (IF FromAnchor THEN 0 ELSE 1) THEN 1 ELSE 0)

\* _generate_draft for that many requests: a token for each sampled row, and
\* by slot what it was drawn from.
_generate_draft(order, batch, q, reqs, good, d) ==
  LET rows == Once(SampleRows(order, batch))
      toks == Once([i \in 1 .. reqs * K |-> Drawn(order, q, rows[i].row, good)])
      keep(l, i) == IF rows[i].slot = 0 THEN l
                    ELSE [l EXCEPT ![rows[i].slot][((i - 1) % K) + 1] = toks[i]]
  IN [tokens |-> toks,
      logits |-> FoldLeft(keep, [i \in DOMAIN d |-> d[i].logits], [i \in DOMAIN toks |-> i])]

\* DFlash's propose: the target's hidden states go into the context cache,
\* rejected rows included, then one pass over all queries, through a graph
\* when one fits.
propose(order, batch, o, d) ==
  LET rs == DOMAIN batch
      q == Once([r \in rs |-> prepare_dflash_inputs(r, batch[r], o[r], d[r],
                                                    host[batch[r].slot].row)])
      context == Put(dkv, Rows(order, [r \in rs |-> q[r].context]),
                     Rows(order, [r \in rs |-> batch[r].hid]))
      desc == dispatch(drafter, Cardinality(rs), Cardinality(rs) * num_query_per_req,
                       num_query_per_req)
      at == SlotRows(QueryMapping(Rows(order, [r \in rs |-> q[r].queries]),
                                  Rows(order, [r \in rs |-> batch[r].slots])),
                     desc.toks)
  IN [pass |-> q, desc |-> desc, cache |-> Put(context, at, [i \in DOMAIN at |-> Junk]),
      reqs |-> IF desc.reqs # 0 THEN desc.reqs ELSE Cardinality(rs)]

SampleTokens ==
  /\ exec # Idle
  /\ LET order == exec.order
         batch == exec.batch
         rs == DOMAIN batch
         o == Once([r \in rs |-> sample(batch[r], dev[batch[r].slot])])
         d == Once([r \in rs |-> postprocess_sampled(dev[batch[r].slot], batch[r], o[r])])
         p == propose(order, batch, o, d)
     IN /\ out' = Append(out, o)
        /\ dkv' = p.cache
        /\ \E good \in [rs -> 0 .. K] :
             LET g == _generate_draft(order, batch, p.pass, p.reqs, good, dev)
                 at(r) == CHOOSE j \in DOMAIN order : order[j] = r
             IN dev' = [i \in DOMAIN dev |->
                          IF \E r \in rs : batch[r].slot = i
                          THEN LET r == CHOOSE x \in rs : batch[x].slot = i
                               IN [d[r] EXCEPT !.logits = g.logits[i],
                                               !.drafts = SubSeq(g.tokens, (at(r) - 1) * K + 1,
                                                                 at(r) * K)]
                          ELSE [dev[i] EXCEPT !.logits = g.logits[i]]]
        /\ drafted' = [order |-> order, desc |-> p.desc, reqs |-> p.reqs,
                       pass |-> [r \in rs |->
                         p.pass[r] @@ [exact |-> Holds(p.cache, host[batch[r].slot].row,
                                                       r, p.pass[r].end)]]]
  /\ exec' = Idle
  /\ UNCHANGED <<phase, target, drafter, sch, adds, slot, host, kv>>

\* The engine takes the oldest output (external).
TakeOutput ==
  /\ out # <<>>
  /\ sch' = [r \in Reqs |->
               IF r \in DOMAIN Head(out)
               THEN [sch[r] EXCEPT !.known = @ + Len(Head(out)[r].toks),
                                   !.comp = @ - Head(out)[r].rejected]
               ELSE sch[r]]
  /\ out' = Tail(out)
  /\ UNCHANGED <<phase, target, drafter, adds, slot, host, dev, kv, dkv, exec, drafted>>

Next == CaptureModel \/ Step \/ SampleTokens \/ TakeOutput

Spec == Init /\ [][Next]_vars

----------------------------------------------------------------------------
(* Properties. *)

\* Every variable stays in its type.
TypeOK ==
  /\ phase \in {"boot", "serve"}
  /\ adds \in 0 .. MaxAdds
  /\ slot \in [Reqs -> 0 .. MaxReqs]
  /\ \A r \in Reqs :
       /\ sch[r].st \in {"waiting", "running", "done"}
       /\ sch[r].known \in PromptLen[r] .. ModelLen
       /\ sch[r].comp \in 0 .. ModelLen - 1
       /\ slot[r] = 0 <=> sch[r].st # "running"
       /\ \A q \in Reqs : slot[r] = slot[q] /\ slot[r] # 0 => r = q
  /\ \A i \in 1 .. MaxReqs : dev[i].computed \in 0 .. ModelLen - 1
  /\ Len(out) <= Depth

\* Every row of a batch carries its own request's token for its position:
\* the prompt's or the sampled one, and then the drafts made for exactly
\* those positions, whatever the slot held before, whatever was rejected,
\* preempted or added again meanwhile (model_runner.py:879-1000).
InputsExact ==
  \A r \in ToSet(exec.order) :
    LET b == exec.batch[r] IN
    \A j \in 1 .. b.n :
      /\ b.ids[j][1] = Class[r]
      /\ b.ids[j][2] = b.base + (j - 1)
      /\ j <= b.n - b.nd => b.ids[j][3] = 1

\* What the engine will be handed continues the text it knows: no token is
\* lost, repeated or wrong across rejections, preemptions, resumptions,
\* prefix hits and streaming updates.
OutputsExact ==
  \A r \in Running :
    LET toks == FlattenSeq([i \in DOMAIN out |->
                  IF r \in DOMAIN out[i] THEN out[i][r].toks ELSE <<>>])
    IN \A j \in DOMAIN toks : toks[j] = True_(r, sch[r].known + (j - 1))

\* The distribution kept for a draft, which the rejection sampler weighs it
\* by, is the one it was drawn from: padding rows of a replayed drafting pass
\* and other requests' passes leave it alone (speculator.py:599-608).
DraftsKeepLogits ==
  \A r \in ToSet(exec.order) :
    LET b == exec.batch[r] IN
    \A j \in 1 .. b.nd : dev[b.slot].logits[j] = b.ids[(b.n - b.nd) + j]

\* The text a request is fed and the text it is answered are its own.
TextExact == InputsExact /\ OutputsExact /\ DraftsKeepLogits

\* The lengths the host plans with, drafts counted as accepted, bound those
\* of the device, and both sides agree on who is still prefilling: the
\* attention kernels are chosen from the host's, and read by the device's.
HostBoundsDevice ==
  \A r \in ToSet(exec.order) :
    LET b == exec.batch[r] IN
    /\ b.bound >= b.base + b.n
    /\ b.prefilling <=> b.base < dev[b.slot].prefill

\* With nothing under way for a request, scheduler and device agree on how
\* much of it is computed (optimistic counts have all been corrected).
InStepAtRest ==
  \A r \in Running :
    (exec = Idle /\ ~Pending(r)) => dev[slot[r]].computed = sch[r].comp

\* The three counts of a request's computed tokens (scheduler's, host's and
\* device's) bound each other in flight and meet at rest.
LengthsAgree == HostBoundsDevice /\ InStepAtRest

\* The target writes only where its request alone keeps tokens, also with
\* shared and copied prefix blocks.
OwnBlock(r, a) ==
  a[1] \in ToSet(sch[r].blocks) \ Owned(sch, Running \ {r})

WritesOwn ==
  /\ \A r \in ToSet(exec.order) : \A a \in ToSet(exec.batch[r].slots) : OwnBlock(r, a)
  /\ \A r \in ToSet(drafted.order) :
       \A a \in ToSet(drafted.pass[r].queries) : OwnBlock(r, a)

\* A drafting pass whose queries fit the block table drafts from exactly the
\* accepted text: its own context K/V, none of a rejected token's or of a
\* padding row's, and the right anchor.
DraftsFromAccepted ==
  \A r \in ToSet(drafted.order) :
    LET q == drafted.pass[r] IN
    q.seq_len <= Width * BS =>
      q.exact /\ q.anchor = True_(r, q.end)

\* Both caches keep what later passes read: nobody writes into another
\* request's blocks, and drafting sees the accepted text alone.
CachesKept == WritesOwn /\ DraftsFromAccepted

\* A graph that is replayed was captured, and has room for the batch.
Replayable(m, desc, rows) ==
  desc.mode # "NONE" =>
    /\ m.captured
    /\ desc.mode = "FULL" => desc \in m.graphs
    /\ desc.toks >= FoldFunction(+, 0, rows)
    /\ desc.reqs # 0 => desc.reqs >= Cardinality(DOMAIN rows)
    /\ desc.uniform # 0 => \A r \in DOMAIN rows : rows[r] = desc.uniform

\* The attention of a batch covers its rows, request by request, padding
\* requests having none; its length bound holds on the device; and inside a
\* graph it has the sizes, and at most the length, it was captured with
\* (model_states/default.py:118-150).
AttnCovers ==
  LET a == exec.attn  o == exec.order  b == exec.batch IN
  /\ \A i \in 1 .. a.reqs :
       a.starts[i + 1] - a.starts[i] = IF i <= Len(o) THEN b[o[i]].n ELSE 0
  /\ a.reqs >= Len(o) /\ a.toks >= a.starts[a.reqs + 1]
  /\ \A r \in ToSet(o) : b[r].base + b[r].n <= a.max_seq_len
  /\ a.max_seq_len <= ModelLen
  /\ (exec.desc.mode = "FULL" \/ (exec.desc.mode = "PIECEWISE" /\ Breakable)) =>
       [reqs |-> a.reqs, toks |-> a.toks] = CapturedSize(exec.desc)

\* Whatever was captured in whatever order, a replayed graph holds the batch,
\* its attention is the captured one, and its buffer hands back a row of
\* hidden states for every token; a drafting pass samples every request.
ReplayFits ==
  /\ exec # Idle =>
       /\ Replayable(target, exec.desc, [r \in DOMAIN exec.batch |-> exec.batch[r].n])
       /\ AttnCovers
       /\ exec.hidden >= FoldFunction(+, 0, [r \in DOMAIN exec.batch |-> exec.batch[r].n])
  /\ drafted # Idle =>
       /\ Replayable(drafter, drafted.desc,
                     [r \in DOMAIN drafted.pass |-> num_query_per_req])
       /\ drafted.reqs \in Len(drafted.order) .. MaxReqs

=============================================================================
