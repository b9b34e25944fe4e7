---------------------------- MODULE GraphDispatch ----------------------------
(***************************************************************************)
(* CUDA graphs of the V1 runner, from its options to the batches it        *)
(* serves: the start profiles the memory of its graphs on a small KV cache *)
(* it throws away, resolves the graph mode against the attention backends  *)
(* each time a KV cache is made, captures a graph for every key of the     *)
(* dispatcher and then only replays (gpu_model_runner.py,                  *)
(* cudagraph_dispatcher.py, breakable_cudagraph.py).  With data parallelism*)
(* two ranks agree on the mode and the padding of each step.               *)
(***************************************************************************)
EXTENDS GraphConfig, SequencesExt

CONSTANTS Options,  \* the option records a start may have
          MaxLoops  \* bound: the steps served

\* Counts are those of a validated configuration; splitting_ops is unset or empty.
ASSUME OptionsAssumption ==
  \A o \in Options :
    /\ {o.maxSeqs, o.maxTokens, o.tp} \subseteq Nat \ {0} /\ {o.spec, o.maxSize, o.loras, o.spMin, o.draftSlots} \subseteq Nat
    /\ o.sizes \subseteq Nat \ {0} /\ o.endpoints \subseteq Nat /\ {o.sp, o.cascade} \subseteq BOOLEAN
    /\ o.gmode \in Modes \cup {"unset"} /\ o.support \in NEVER .. ALWAYS /\ o.split \in {"unset", "empty"}

VARIABLES at,       \* where the start is
          option,   \* its options
          config,   \* compilation_config, as resolved so far
          wrapper,  \* what load_model wrapped the model in
          ready,    \* the dispatcher's keys_initialized
          mode,     \* the dispatcher's cudagraph_mode
          keys,     \* the dispatcher's keys: <<mode, descriptor>>
          cache,    \* the KV cache the layers are bound to: none, profiling or real
          todo,     \* the keys still to be captured
          graphs,   \* the graphs captured: the key and the cache it was captured with
          served,   \* what each rank of the last step got
          loops     \* the steps served

vars == <<at, option, config, wrapper, ready, mode, keys, cache, todo, graphs, served, loops>>

Nothing == [kind |-> "nothing"]
GraphModes == {"PIECEWISE", "FULL"}
AnyMode == {"NONE"} \cup GraphModes

\* BatchDescriptor; reqs is 0 for None.
Desc(tokens, reqs, uniform, loras) ==
  [tokens |-> tokens, reqs |-> reqs, uniform |-> uniform, loras |-> loras]
Unpadded(tokens) == Desc(tokens, 0, FALSE, 0)
Relaxed(d) == [d EXCEPT !.reqs = 0, !.uniform = FALSE]

-----------------------------------------------------------------------------
\* The dispatcher.

\* _bs_to_padded_graph_size: the smallest captured size that holds the tokens.
PaddedBelow(c, n) == Largest({s \in c.sizes : s <= n})
Padded(c, n) == Min({s \in c.sizes \cup {c.max + 1} : s >= n})

\* get_captured_lora_counts and _get_lora_cases.
LoraCounts(o) == IF o.loraCounts THEN {k \in {1, 2, 4} : k <= o.loras} \cup {o.loras + 1} ELSE {o.loras + 1}
LoraCases(o) ==
  CASE o.loras = 0 -> {0}
    [] OTHER -> IF o.specializeLora THEN {0} \cup LoraCounts(o) ELSE {o.loras + 1}
AtLeast(s, k) == IF \E n \in s : n >= k THEN Min({n \in s : n >= k}) ELSE k
EffectiveLoras(o, k) ==
  CASE k = 0 -> 0
    [] OTHER -> IF o.loraCounts THEN AtLeast(LoraCases(o), k) ELSE o.loras + 1

\* _create_padded_batch_descriptor.
PaddedDesc(o, c, m, tokens, uniform, loras) ==
  LET padded == Padded(c, tokens)
      decodes == uniform /\ HasFull(m)
  IN Desc(padded, Smaller(IF decodes THEN padded \div Query(o) ELSE padded, o.maxSeqs), decodes, loras)

\* initialize_cudagraph_keys: mixed batches in every size, decodes where a batch can be one.
MixedKeysExact(o, c, m) ==
  IF MixedMode(m) = "NONE" THEN {}
  ELSE {<<MixedMode(m), PaddedDesc(o, c, m, s, FALSE, k)>> : s \in c.sizes, k \in LoraCases(o)}
MixedKeys(o, c, m) ==
  CASE MixedMode(m) = "NONE" -> {}
    [] MixedMode(m) = "PIECEWISE" -> {<<"PIECEWISE", Relaxed(key[2])>> : key \in MixedKeysExact(o, c, m)}
    [] OTHER -> MixedKeysExact(o, c, m)
DecodeSizes(o, c) == {s \in c.sizes : Query(o) <= s /\ s <= Query(o) * o.maxSeqs}
DecodeKeys(o, c, m) ==
  IF ~(DecodeMode(m) = "FULL" /\ Separate(m)) THEN {}
  ELSE {<<"FULL", PaddedDesc(o, c, m, s, TRUE, k)>> : s \in DecodeSizes(o, c), k \in LoraCases(o)}
KeysFor(o, c, m) == MixedKeys(o, c, m) \cup DecodeKeys(o, c, m)
CompileSizesRefused(c, m) ==
  m # "NONE" /\ \E s \in c.compileSizes : s <= c.max /\ Padded(c, s) # s

\* dispatch: a full graph if there is one, else a piecewise one, else none, or an assertion
\* fails.
Asserted == <<"assert", Unpadded(0)>>
Dispatch(tokens, uniform, loras, allowed) ==
  LET desc == PaddedDesc(option, config, mode, tokens, uniform /\ Separate(mode), EffectiveLoras(option, loras))
      full == <<"FULL", desc>>
      piecewise == <<"PIECEWISE", Relaxed(desc)>>
      eager == <<"NONE", Unpadded(tokens)>>
  IN CASE ~ready \/ mode = "NONE" \/ tokens > config.max \/ allowed \subseteq {"NONE"} -> eager
       [] OTHER ->
          IF desc.uniform /\ desc.tokens % Query(option) # 0 THEN Asserted
          ELSE IF "FULL" \in allowed /\ full \in keys THEN full
          ELSE IF "PIECEWISE" \in allowed /\ piecewise \in keys THEN piecewise
          ELSE IF "NONE" \in allowed THEN eager ELSE Asserted

PadForSequenceParallelism(o, n) == IF SequenceParallel(o) THEN RoundUp(n, o.tp) ELSE n

-----------------------------------------------------------------------------
\* The start.

Init ==
  /\ at = "options" /\ option \in Options
  /\ config = Nothing /\ wrapper = "none"
  /\ ready = FALSE /\ mode = "NONE" /\ keys = {}
  /\ cache = "none" /\ todo = {} /\ graphs = {} /\ served = <<>> /\ loops = 0

\* __post_init__ gives the configuration, or raises.
PostInit ==
  /\ at = "options"
  /\ IF Refused(option)
     THEN at' = "refused" /\ UNCHANGED config
     ELSE at' = "configured" /\ config' = Configured(option)
  /\ UNCHANGED <<option, wrapper, ready, mode, keys, cache, todo, graphs, served, loops>>

\* load_model wraps the model by the mode of that moment.
LoadModel ==
  /\ at = "configured"
  /\ wrapper' = CASE Implementation(option) = "breakable" /\ config.mode # "NONE" -> "breakable"
                  [] OTHER -> IF HasFull(config.mode) THEN "full" ELSE "none"
  /\ at' = IF option.strict /\ Implementation(option) = "breakable" /\ wrapper' # "breakable" THEN "refused" ELSE "loaded"
  /\ UNCHANGED <<option, config, ready, mode, keys, cache, todo, graphs, served, loops>>

\* initialize_kv_cache: the backends are asked what they support before anything is bound.
MakeCacheUnresolved(kind, next) ==
  /\ config' = Resolved(option, config)
  /\ mode' = config.mode
  /\ ready' = TRUE
  /\ keys' = keys \cup KeysFor(option, config', mode')
  /\ cache' = kind
  /\ at' = next
MakeCache(kind, next) ==
  LET c == Resolved(option, config)
  IN IF ResolveRefused(option, config) \/ CompileSizesRefused(c, c.mode)
     THEN at' = "refused" /\ UNCHANGED <<config, ready, mode, keys, cache>>
     ELSE /\ config' = c
          /\ mode' = c.mode
          /\ ready' = TRUE
          /\ keys' = keys \cup KeysFor(option, c, c.mode)
          /\ cache' = kind
          /\ at' = next
ProfileCache ==
  /\ at = "loaded"
  /\ MakeCache("profiling", "profiling")
  /\ UNCHANGED <<option, wrapper, todo, graphs, served, loops>>
Initialize ==
  /\ at \in {"loaded", "profiled"}
  /\ MakeCache("real", "initialized")
  /\ UNCHANGED <<option, wrapper, todo, graphs, served, loops>>

\* A dummy run to capture `key` builds a batch of its shape and dispatches again; it stops the
\* start when the batch cannot be built or gets another mode, and captures under what it got.
DummyReqs(o, d) ==
  Smaller(o.maxSeqs, IF d.uniform THEN (d.tokens + Query(o) - 1) \div Query(o) ELSE d.tokens)
DummyTokens(o, d) ==
  CASE ~d.uniform -> d.tokens
    [] d.uniform /\ d.tokens % Query(o) = 0 -> Query(o) * DummyReqs(o, d)
    [] OTHER -> Query(o) * (DummyReqs(o, d) - 1) + (d.tokens % Query(o))
DummyKey(d) ==
  Dispatch(PadForSequenceParallelism(option, d.tokens), d.uniform, d.loras, AnyMode)

\* What a forward pass runs: compute between the attention calls that may break a capture.
Operations == <<"compute", "attention", "compute", "attention", "compute">>

\* eager_break_during_capture and BreakableCUDAGraphCapture: an attention call ends the open
\* segment, runs eagerly between two, and opens the next; under a full graph it is captured.
Breaks(m, op) == op = "attention" /\ m # "FULL"
AddEager(segments, op) ==
  Append(Append(segments, [eager |-> TRUE, ops |-> <<op>>]), [eager |-> FALSE, ops |-> <<>>])
AddCaptured(segments, op) ==
  [segments EXCEPT ![Len(segments)].ops = Append(@, op)]
Segments(m) ==
  FoldLeft(LAMBDA segments, op : IF Breaks(m, op) THEN AddEager(segments, op) ELSE AddCaptured(segments, op),
           <<[eager |-> FALSE, ops |-> <<>>]>>, Operations)

\* What captures a forward pass in mode `m`: the wrapper, or the pieces of a compiled model.
Wrapped(m) ==
  \/ wrapper = "breakable"
  \/ IF m = "FULL" THEN wrapper = "full" ELSE Compilation(option) = "VLLM_COMPILE" /\ SplitOps(option) = "attention"
DummyRun(key) ==
  LET got == DummyKey(key[2])
      graph == [key |-> got, cache |-> cache, segments |-> Segments(got[1])]
  IN IF got[1] # key[1] \/ got[2].tokens > option.maxTokens \/ DummyTokens(option, key[2]) # key[2].tokens
     THEN at' = "dead" /\ UNCHANGED graphs
     ELSE /\ graphs' = IF Wrapped(got[1]) THEN graphs \cup {graph} ELSE graphs
          /\ UNCHANGED at

\* get_capture_descs: piecewise before full, the largest first.
Before(a, b) ==
  \/ a[1] = "PIECEWISE" /\ b[1] = "FULL"
  \/ a[1] = b[1] /\ a[2].tokens > b[2].tokens
  \/ a[1] = b[1] /\ a[2].tokens = b[2].tokens /\ a[2].loras > b[2].loras
First(ks) == CHOOSE k \in ks : \A l \in ks : ~Before(l, k)
TwoOf(ks) == IF ks = {} THEN {} ELSE {First(ks)} \cup (IF ks = {First(ks)} THEN {} ELSE {First(ks \ {First(ks)})})
OfMode(ks, m) == {k \in ks : k[1] = m}

CaptureNext(here) ==
  /\ at = here /\ todo # {}
  /\ DummyRun(First(todo))
  /\ todo' = todo \ {First(todo)}
  /\ UNCHANGED <<option, config, wrapper, ready, mode, keys, cache, served, loops>>

\* profile_cudagraph_memory: two graphs of each mode, then everything is thrown away.
ProfileDescs ==
  /\ at = "profiling"
  /\ at' = "sampling"
  /\ todo' = TwoOf(OfMode(keys, "PIECEWISE")) \cup TwoOf(OfMode(keys, "FULL"))
  /\ UNCHANGED <<option, config, wrapper, ready, mode, keys, cache, graphs, served, loops>>
ProfileCapture == CaptureNext("sampling")
ProfileEndsKeepingGraphs ==
  /\ at = "sampling" /\ todo = {}
  /\ at' = "profiled" /\ cache' = "none"
  /\ keys' = {} /\ ready' = FALSE
  /\ UNCHANGED <<option, config, wrapper, mode, todo, graphs, served, loops>>
ProfileEnds ==
  /\ at = "sampling" /\ todo = {}
  /\ at' = "profiled" /\ cache' = "none"
  /\ IF keys = {} THEN UNCHANGED <<keys, ready, graphs>>
     ELSE keys' = {} /\ ready' = FALSE /\ graphs' = {}
  /\ UNCHANGED <<option, config, wrapper, mode, todo, served, loops>>

\* capture_model; afterwards nothing may be captured any more.
StartCapture ==
  /\ at = "initialized"
  /\ at' = "capturing"
  /\ todo' = IF config.mode = "NONE" THEN {} ELSE keys
  /\ UNCHANGED <<option, config, wrapper, ready, mode, keys, cache, graphs, served, loops>>
Capture == CaptureNext("capturing")
CaptureEnds ==
  /\ at = "capturing" /\ todo = {}
  /\ at' = "serving"
  /\ UNCHANGED <<option, config, wrapper, ready, mode, keys, cache, todo, graphs, served, loops>>

-----------------------------------------------------------------------------
\* Serving.

\* What the scheduler may give a rank: requests, tokens, whether all have the query length
\* of a decode, adapters, and whether the step uses cascade attention.
Batches(o) ==
  {b \in [reqs : 1..o.maxSeqs, tokens : 1..ScheduledTokens(o), uniform : BOOLEAN, loras : 0..o.loras, cascade : {FALSE, o.cascade}] :
     /\ b.tokens >= b.reqs /\ b.loras <= b.reqs
     /\ b.uniform => b.tokens = Query(o) * b.reqs
     /\ Query(o) = 1 /\ b.tokens = b.reqs => b.uniform}

\* _determine_batch_execution_and_padding: the rank's own choice, then what the ranks of a
\* data-parallel group agree on.
Own(b) ==
  Dispatch(PadForSequenceParallelism(option, b.tokens), b.uniform, b.loras, IF b.cascade THEN AnyMode \ {"FULL"} ELSE AnyMode)
OwnTokens(b) == IF Own(b)[1] = "NONE" THEN PadForSequenceParallelism(option, b.tokens) ELSE Own(b)[2].tokens

\* coordinate_batch_across_dp: the least mode, and with graphs the most tokens.
Level(m) == CASE m = "NONE" -> 0 [] m = "PIECEWISE" -> 1 [] OTHER -> 2
Synced(bs) == CHOOSE m \in {Own(b)[1] : b \in bs} : \A b \in bs : Level(m) <= Level(Own(b)[1])
SyncedTokens(bs, b) == IF Synced(bs) = "NONE" THEN OwnTokens(b) ELSE Max({OwnTokens(a) : a \in bs})

AgainUnsynced(bs, b) == Dispatch(SyncedTokens(bs, b), b.uniform, b.loras, AnyMode)
Again(bs, b) == Dispatch(SyncedTokens(bs, b), b.uniform, b.loras, {Synced(bs)})
Chosen(bs, b) == IF option.dp > 1 THEN Again(bs, b) ELSE Own(b)

\* execute_model runs the chosen key; a key without its graph would be captured now, which is
\* no longer allowed.
Serve ==
  /\ at = "serving" /\ loops < MaxLoops
  /\ \E b1, b2 \in Batches(option) :
       /\ option.dp = 1 => b1 = b2
       /\ LET bs == {b1, b2}
              got(b) == Chosen(bs, b)
              fails(b) == got(b)[1] # "NONE" /\ ~\E g \in graphs : g.key = got(b)
          IN /\ served' = <<[batch |-> b1, got |-> got(b1)], [batch |-> b2, got |-> got(b2)]>>
             /\ at' = IF fails(b1) \/ fails(b2) THEN "dead" ELSE "serving"
  /\ loops' = loops + 1
  /\ UNCHANGED <<option, config, wrapper, ready, mode, keys, cache, todo, graphs>>

Next ==
  \/ PostInit \/ LoadModel \/ ProfileCache \/ Initialize
  \/ ProfileDescs \/ ProfileCapture \/ ProfileEnds
  \/ StartCapture \/ Capture \/ CaptureEnds \/ Serve

Spec == Init /\ [][Next]_vars

-----------------------------------------------------------------------------
\* Type correctness; a start that got a cache has the dispatcher of its configuration.
Keys == GraphModes \X [tokens : Nat, reqs : Nat, uniform : BOOLEAN, loras : Nat]
TypeOK ==
  /\ wrapper \in {"none", "full", "breakable"} /\ ready \in BOOLEAN /\ mode \in Modes
  /\ keys \subseteq Keys /\ todo \subseteq keys
  /\ \A g \in graphs : g.key \in Keys /\ g.cache \in {"profiling", "real"}
  /\ at \in {"initialized", "capturing", "serving"} => ready /\ mode = config.mode

\* The compile ranges cut 1..maxTokens without gap or overlap.
RangesPartition ==
  \A n \in 1..option.maxTokens : Cardinality({r \in CompileRanges(option) : n \in r}) = 1

\* No step of a start that came up fails: each capture's dummy run dispatches to the graph it
\* captures, each batch's key has its graph, no rank of a data-parallel group is left without
\* a key for what the group agreed on, and every number of tokens has its one compile range.
NeverDies == at # "dead" /\ RangesPartition

\* Each key of the dispatcher has exactly the graph captured for it, on the KV cache that
\* serves: nothing of the profiling cache survives the profile.
GraphsOfServing ==
  at = "serving" =>
    /\ {g.key : g \in graphs} = keys
    /\ \A g, h \in graphs : g.cache = "real" /\ (g.key = h.key => g = h)

\* The graph a batch replays holds it: its tokens, its requests and its adapters fit, a
\* decode graph runs decodes only, and cascade attention never runs a full graph.
GraphFits ==
  \A i \in 1..Len(served) :
    LET b == served[i].batch
        m == served[i].got[1]
        d == served[i].got[2]
    IN m \in GraphModes =>
         /\ d.tokens >= b.tokens /\ (d.reqs = 0 \/ d.reqs >= b.reqs)
         /\ d.uniform => b.uniform
         /\ d.loras >= b.loras /\ (b.loras > 0 <=> d.loras > 0)
         /\ b.cascade => m = "PIECEWISE"

\* Replaying a graph runs the whole model once and in order, and a piecewise graph, which
\* serves batches of any shape, holds no attention call.
ReplayRunsModel ==
  \A g \in graphs :
    /\ FlattenSeq([i \in 1..Len(g.segments) |-> g.segments[i].ops]) = Operations
    /\ g.key[1] = "PIECEWISE" =>
         \A i \in 1..Len(g.segments) : "attention" \in ToSet(g.segments[i].ops) => g.segments[i].eager

\* Making the KV cache a second time, after the profile, finds the configuration resolved.
ResolvedOnce == at = "profiled" => Resolved(option, config) = config

\* The graphs that serve are the dispatcher's, on the cache and in the configuration that
\* serve, and each replays the model as an eager step runs it.
GraphsExact == GraphsOfServing /\ ReplayRunsModel /\ ResolvedOnce

\* The ranks of a data-parallel group run each step in the same mode and, with a graph, with
\* the same number of tokens: their collectives pair up.
RanksAgree ==
  (served # <<>> /\ option.dp > 1 /\ at = "serving") =>
    /\ served[1].got[1] = served[2].got[1]
    /\ served[1].got[1] # "NONE" => served[1].got[2].tokens = served[2].got[2].tokens

\* compilation.py:628, cudagraph_strict: "Fail startup if the selected implementation cannot
\* remain active."
StrictStaysActive ==
  at = "serving" /\ option.strict => DecodeMode(config.mode) # "NONE" /\ graphs # {}

=============================================================================
