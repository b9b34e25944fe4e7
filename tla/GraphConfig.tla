----------------------------- MODULE GraphConfig -----------------------------
(***************************************************************************)
(* How the options of a vLLM start become its CUDA graph configuration     *)
(* (VllmConfig.__post_init__ and CompilationConfig): which implementation, *)
(* which compilation and graph modes, which sizes are captured, which      *)
(* runner and scheduler are used, or that the start is refused.  An option *)
(* record `o` is what the user, the environment and the model say; "unset" *)
(* is Python's None.  Sorted lists of sizes are finite sets.               *)
(***************************************************************************)
EXTENDS Integers, FiniteSets, FiniteSetsExt

\* CUDAGraphMode: the pair of what decode and mixed batches run in.
Modes == {"NONE", "PIECEWISE", "FULL", "FULL_DECODE_ONLY", "FULL_AND_PIECEWISE"}
Separate(m) == m \in {"FULL_DECODE_ONLY", "FULL_AND_PIECEWISE"}
DecodeMode(m) == IF Separate(m) THEN "FULL" ELSE m
MixedMode(m) ==
  CASE m = "FULL_DECODE_ONLY" -> "NONE"
    [] m = "FULL_AND_PIECEWISE" -> "PIECEWISE"
    [] OTHER -> m
HasMode(m, r) == r \in {DecodeMode(m), MixedMode(m)}
HasFull(m) == HasMode(m, "FULL")
HasPiecewise(m) == HasMode(m, "PIECEWISE")

\* AttentionCGSupport, in the order of its values.
NEVER == 0
UNIFORM_SINGLE_TOKEN_DECODE == 1
UNIFORM_BATCH == 2
ALWAYS == 3

RoundUp(n, k) == ((n + k - 1) \div k) * k
Smaller(a, b) == IF a <= b THEN a ELSE b
Larger(a, b) == IF a >= b THEN a ELSE b

-----------------------------------------------------------------------------
\* resolve_cudagraph_implementation: the request, the old variable, the architecture.
Breakables == {"DeepseekV4ForCausalLM", "DeepSeekV4MTPModel"}
SelectionsAgree(o) == o.impl = "auto" \/ o.legacy \in {"unset", o.impl}
Implementation(o) ==
  CASE o.impl # "auto" -> o.impl
    [] o.impl = "auto" /\ o.legacy # "unset" -> o.legacy
    [] OTHER -> IF o.arch \in Breakables THEN "breakable" ELSE "regular"

\* The compilation mode: eager execution and the breakable runner turn it off, and so does
\* DeepSeek-V4 unless its variable opts in.
AskedCompilation(o) ==
  IF o.eager \/ Implementation(o) = "breakable" THEN "NONE"
  ELSE IF o.comp # "unset" THEN o.comp
  ELSE IF o.level > 0 THEN "VLLM_COMPILE" ELSE "NONE"
Compilation(o) ==
  IF o.arch = "DeepseekV4ForCausalLM" /\ ~o.compileOptIn THEN "NONE" ELSE AskedCompilation(o)

\* Async scheduling: refused where asked for and not possible, chosen where it is possible.
AsyncPossible(o) ==
  o.method \in {"none", "mtp", "eagle", "dflash", "ngram_gpu", "dspark"} /\ ~o.unpaddedDrafts /\ o.asyncExecutor
AsyncRefused(o) ==
  o.async = "on" /\ ~(AsyncPossible([o EXCEPT !.method = IF @ = "draft_model" THEN "mtp" ELSE @]))

\* The model runner: the variable, then the drafters only V2 runs, then the architecture.
V2Unsupported(o) ==
  \/ o.sp /\ o.tp > 1
  \/ o.method \notin {"none", "eagle", "mtp", "dflash", "dspark"}
UsesV2(o) ==
  IF o.runner # "unset" THEN o.runner = "v2"
  ELSE o.method = "dspark" \/ (o.v2Model /\ ~V2Unsupported(o))
V2Refused(o) == UsesV2(o) /\ V2Unsupported(o)

\* Sequence parallelism needs several ranks.
SequenceParallel(o) == o.sp /\ o.tp > 1

-----------------------------------------------------------------------------
\* The graph mode through __post_init__: the level's default, dynamic drafts, the lack of a
\* piecewise runner, pooling, encoder-decoder models, layerwise connectors.
DefaultMode(o) ==
  CASE o.eager -> "NONE"
    [] ~o.eager /\ o.gmode # "unset" -> o.gmode
    [] OTHER -> IF o.level = 0 THEN "NONE" ELSE IF o.level = 1 THEN "PIECEWISE" ELSE "FULL_AND_PIECEWISE"

DynamicDrafts(o) == o.dynamic /\ o.dp = 1
AfterDynamic(o, m) ==
  IF DynamicDrafts(o) /\ HasFull(m) /\ ~UsesV2(o) THEN "PIECEWISE" ELSE m

PiecewiseRunner(o) == Compilation(o) = "VLLM_COMPILE" \/ Implementation(o) = "breakable"
AfterCompilation(o, m) == IF HasPiecewise(m) /\ ~PiecewiseRunner(o) THEN "NONE" ELSE m

AfterModel(o, m) ==
  CASE o.pooling /\ HasFull(m) -> "PIECEWISE"
    [] ~(o.pooling /\ HasFull(m)) /\ o.encoderDecoder /\ m \notin {"NONE", "FULL_DECODE_ONLY"} -> "FULL_DECODE_ONLY"
    [] OTHER -> m
AfterConnector(o, m) == IF o.layerwise /\ HasFull(m) THEN "PIECEWISE" ELSE m

ModeForSizes(o) ==
  AfterConnector(o, AfterModel(o, AfterCompilation(o, AfterDynamic(o, DefaultMode(o)))))

\* set_splitting_ops_for_v1: only a compiled model splits its graph.
SplitOps(o) ==
  IF Compilation(o) = "VLLM_COMPILE" /\ SequenceParallel(o) THEN "empty"
  ELSE IF o.split # "unset" THEN o.split
  ELSE IF Compilation(o) = "VLLM_COMPILE" THEN "attention" ELSE "empty"

AfterSplitting(o, m) ==
  CASE Compilation(o) # "VLLM_COMPILE" -> m
    [] Compilation(o) = "VLLM_COMPILE" /\ o.split = "empty" ->
         IF m = "PIECEWISE" THEN "NONE" ELSE IF m = "FULL_AND_PIECEWISE" THEN "FULL" ELSE m
    [] OTHER -> IF SequenceParallel(o) /\ HasPiecewise(m) THEN "FULL" ELSE m
AfterDeepEp(o, m) == IF Compilation(o) = "VLLM_COMPILE" /\ o.deepEp /\ o.dp > 1 THEN "NONE" ELSE m

ConfiguredMode(o) == AfterDeepEp(o, AfterSplitting(o, ModeForSizes(o)))

-----------------------------------------------------------------------------
\* _set_cudagraph_sizes: the sizes asked for that fit, or the default ladder.
Query(o) == 1 + o.spec
MaxSize(o) ==
  Smaller(o.maxTokens, IF o.maxSize # 0 THEN o.maxSize ELSE Smaller(o.maxSeqs * Query(o) * 2, 512))
Ladder(o) ==
  LET max == MaxSize(o)
      small == IF o.interactive THEN 1..Smaller(max, 32) ELSE {n \in {1, 2, 4} : n <= max}
      eights == {n \in 8..Smaller(max, 255) : n % 8 = 0}
      sixteens == {n \in 256..max : n % 16 = 0}
  IN small \cup eights \cup sixteens \cup (IF o.maxTokens <= max THEN {o.maxTokens} ELSE {})
CandidateSizes(o) ==
  IF o.sizes = {} THEN Ladder(o) ELSE {n \in o.sizes : n <= o.maxTokens}
Sizes(o) ==
  IF ModeForSizes(o) = "NONE" THEN {}
  ELSE {n \in CandidateSizes(o) : SequenceParallel(o) => n % o.tp = 0}
Largest(sizes) == IF sizes = {} THEN 0 ELSE Max(sizes)
SizesRefused(o) ==
  /\ ModeForSizes(o) # "NONE"
  /\ o.sizes # {} /\ o.maxSize # 0 /\ o.maxSize # Largest(Sizes(o))

\* _set_max_num_scheduled_tokens leaves room for the slots the drafter adds.
DraftSlots(o) == o.draftSlots * o.maxSeqs
ScheduledTokens(o) == IF o.method = "none" THEN o.maxTokens ELSE o.maxTokens - DraftSlots(o)

\* _set_compile_ranges and get_compile_ranges: 1..maxTokens cut after each endpoint.
Endpoints(o) ==
  {o.maxTokens}
    \cup {x \in o.endpoints : 1 < x /\ x < o.maxTokens}
    \cup (IF SequenceParallel(o) /\ 1 < o.spMin /\ o.spMin < o.maxTokens THEN {o.spMin - 1} ELSE {})
CompileRanges(o) ==
  LET e == Endpoints(o)
      start(x) == 1 + Largest({y \in e : y < x})
  IN {start(x)..x : x \in e}

\* The KV connector, which offloading to the host names itself; memory that may be remapped
\* is refused with one.
Connector(o) == IF o.offload THEN "OffloadingConnector" ELSE o.connector
ConnectorRefused(o) == Connector(o) # "none" /\ o.expandable

\* The hybrid KV cache manager cannot be asked for with chunked local attention.
HybridImpossible(o) == o.chunkedLocal
HybridRefused(o) == o.hybrid = "on" /\ HybridImpossible(o)

-----------------------------------------------------------------------------
\* validate_cudagraph_runtime_config and the refusals of the steps before it.
StrictRefused(o) == o.strict /\ (o.eager \/ DecodeMode(ConfiguredMode(o)) = "NONE")
PiecewiseRefused(o) == HasPiecewise(ConfiguredMode(o)) /\ ~PiecewiseRunner(o)
Refused(o) ==
  \/ ~SelectionsAgree(o) \/ AsyncRefused(o) \/ V2Refused(o) \/ SizesRefused(o)
  \/ ScheduledTokens(o) <= 0 \/ HybridRefused(o) \/ ConnectorRefused(o)
  \/ PiecewiseRefused(o) \/ StrictRefused(o)

\* The configuration a worker starts with.
Configured(o) ==
  [mode |-> ConfiguredMode(o), sizes |-> Sizes(o), max |-> Largest(Sizes(o)),
   compileSizes |-> IF o.compileSizes THEN Sizes(o) ELSE {}]

-----------------------------------------------------------------------------
\* adjust_cudagraph_sizes_for_spec_decode: multiples of the query length, no larger than before.
SizeStep(o) == IF SequenceParallel(o) THEN Larger(Query(o), o.tp) ELSE Query(o)
StepRefused(o) == SizeStep(o) % Query(o) # 0 \/ (SequenceParallel(o) /\ SizeStep(o) % o.tp # 0)
Rounded(o, c) ==
  LET up == {n \in {RoundUp(m, SizeStep(o)) : m \in c.sizes} : n <= c.max}
  IN IF up = {} /\ SizeStep(o) <= c.max THEN {SizeStep(o)} ELSE up
AdjustRefused(o, c) == StepRefused(o) \/ (c.sizes # {} /\ Rounded(o, c) = {})
AdjustedSizes(o, c) ==
  IF c.sizes = {} THEN c ELSE [c EXCEPT !.sizes = Rounded(o, c), !.max = Largest(Rounded(o, c))]

\* resolve_cudagraph_mode_and_sizes: what the attention backends support.
MixedSupported(o, m) ==
  CASE MixedMode(m) = "FULL" /\ o.support # ALWAYS ->
         IF SplitOps(o) = "attention" THEN "FULL_AND_PIECEWISE" ELSE "FULL_DECODE_ONLY"
    [] OTHER -> m
DecodeSupported(o, m) ==
  CASE DecodeMode(m) = "FULL" /\ o.support = NEVER ->
         IF Compilation(o) = "VLLM_COMPILE" /\ SplitOps(o) = "attention" THEN "PIECEWISE" ELSE "NONE"
    [] OTHER -> m
DraftsSupported(o, m) ==
  CASE DecodeMode(m) = "FULL" /\ Query(o) > 1 /\ o.support < UNIFORM_BATCH ->
         IF SplitOps(o) = "attention" THEN "PIECEWISE" ELSE "NONE"
    [] OTHER -> m
ResolvedMode(o, m) == DraftsSupported(o, DecodeSupported(o, MixedSupported(o, m)))

ResolveAdjusts(o, c) == DecodeMode(ResolvedMode(o, c.mode)) = "FULL" /\ Query(o) > 1
ResolveRefused(o, c) ==
  \/ MixedMode(c.mode) = "FULL" /\ o.support = NEVER
  \/ ResolveAdjusts(o, c) /\ AdjustRefused(o, c)
Resolved(o, c) ==
  [(IF ResolveAdjusts(o, c) THEN AdjustedSizes(o, c) ELSE c) EXCEPT !.mode = ResolvedMode(o, c.mode)]

=============================================================================
