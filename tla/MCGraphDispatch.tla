--------------------------- MODULE MCGraphDispatch ---------------------------
(* The options of the starts that TLC goes through: every combination of what decides the  *)
(* graph mode, and around one start the other choices one group at a time.                 *)
EXTENDS GraphDispatch

Plain ==
  [gmode |-> "unset", comp |-> "unset", impl |-> "regular", legacy |-> "unset", strict |-> FALSE,
   eager |-> FALSE, arch |-> "plain", compileOptIn |-> FALSE, level |-> 2, split |-> "unset",
   spec |-> 0, method |-> "none", draftSlots |-> 0, unpaddedDrafts |-> FALSE, dynamic |-> FALSE,
   async |-> "unset", asyncExecutor |-> TRUE, runner |-> "v1", v2Model |-> FALSE,
   tp |-> 1, sp |-> FALSE, spMin |-> 4, pp |-> 1, dp |-> 1, deepEp |-> FALSE,
   pooling |-> FALSE, encoderDecoder |-> FALSE, layerwise |-> FALSE, connector |-> "none",
   offload |-> FALSE, expandable |-> FALSE, hybrid |-> "unset", chunkedLocal |-> FALSE,
   maxSeqs |-> 3, maxTokens |-> 9, sizes |-> {}, maxSize |-> 0, interactive |-> FALSE,
   compileSizes |-> FALSE, endpoints |-> {}, loras |-> 0, specializeLora |-> TRUE, loraCounts |-> FALSE,
   support |-> ALWAYS, cascade |-> FALSE]

Drafting == [Plain EXCEPT !.spec = 1, !.method = "mtp"]

\* What decides the mode.
ModeOptions ==
  {[o EXCEPT !.gmode = g, !.comp = c, !.impl = i, !.split = s, !.support = a, !.strict = t] :
     o \in {Plain, Drafting}, g \in Modes \cup {"unset"}, c \in {"unset", "NONE"}, i \in {"regular", "breakable"},
     s \in {"unset", "empty"}, a \in {NEVER, UNIFORM_SINGLE_TOKEN_DECODE, UNIFORM_BATCH, ALWAYS}, t \in {FALSE}}
\* Where the selection and the level come from.
SelectionOptions ==
  {[Plain EXCEPT !.impl = i, !.legacy = l, !.arch = a, !.compileOptIn = k, !.level = v, !.eager = e, !.strict = t] :
     i \in {"auto", "regular", "breakable"}, l \in {"unset", "regular", "breakable"},
     a \in {"plain", "DeepseekV4ForCausalLM"}, k \in BOOLEAN, v \in 0..2, e \in BOOLEAN, t \in {FALSE}}
\* The sizes.
SizeOptions ==
  {[o EXCEPT !.sizes = z, !.maxSize = x, !.interactive = n, !.compileSizes = k, !.maxSeqs = q, !.gmode = g, !.endpoints = e] :
     o \in {Plain, Drafting, [Drafting EXCEPT !.draftSlots = 1]}, z \in {{}, {3}, {1, 4, 6}}, x \in {0, 6}, n \in BOOLEAN,
     k \in BOOLEAN, q \in {2, 4}, g \in {"unset", "FULL", "FULL_DECODE_ONLY"}, e \in {{}, {1, 4, 20}}}
\* Tensor and sequence parallelism on one data-parallel rank, then on two.
ParallelOptions ==
  {[o EXCEPT !.tp = t, !.sp = s, !.gmode = g, !.support = a, !.maxSeqs = 2, !.maxTokens = 6, !.loras = l, !.impl = i] :
     o \in {Plain, Drafting}, t \in {2, 3}, s \in BOOLEAN, g \in {"unset", "FULL", "FULL_DECODE_ONLY"},
     a \in {UNIFORM_BATCH, ALWAYS}, l \in {0, 1}, i \in {"regular", "breakable"}}
  \cup
  {[o EXCEPT !.tp = t, !.sp = t = 2, !.dp = 2, !.gmode = g, !.support = a, !.maxSeqs = 2, !.maxTokens = 5, !.loras = l, !.impl = i] :
     o \in {Plain, Drafting}, t \in {1, 2}, g \in {"unset", "FULL", "FULL_DECODE_ONLY"},
     a \in {UNIFORM_BATCH, ALWAYS}, l \in {0, 1}, i \in {"regular", "breakable"}}
  \cup
  {[o EXCEPT !.dp = 2, !.deepEp = TRUE, !.maxSeqs = 2, !.maxTokens = 4] : o \in {Plain, Drafting}}
\* Adapters, cascade attention and models.
ModelOptions ==
  {[o EXCEPT !.loras = l, !.specializeLora = z, !.loraCounts = n, !.cascade = c, !.pooling = p, !.encoderDecoder = e,
             !.layerwise = w, !.gmode = g] :
     o \in {Plain}, l \in {0, 3}, z \in BOOLEAN, n \in BOOLEAN, c \in BOOLEAN, p \in BOOLEAN, e \in BOOLEAN,
     w \in BOOLEAN, g \in {"unset", "FULL"}}
\* Runner, scheduling and KV transfer: the start is refused or is that of the plain options.
RunnerOptions ==
  {[Plain EXCEPT !.async = y, !.asyncExecutor = x, !.method = m, !.unpaddedDrafts = u, !.dynamic = d, !.dp = p,
                 !.connector = c, !.expandable = e, !.hybrid = h, !.chunkedLocal = k] :
     y \in {"unset", "on"}, x \in BOOLEAN, m \in {"none", "draft_model"}, u \in BOOLEAN, d \in BOOLEAN, p \in {1, 2},
     c \in {"none", "plain"}, e \in BOOLEAN, h \in {"unset", "on"}, k \in BOOLEAN}

MCOptions ==
  ModeOptions \cup SelectionOptions \cup SizeOptions \cup ParallelOptions \cup ModelOptions \cup RunnerOptions
StrictOptions == {[o EXCEPT !.strict = TRUE] : o \in ModeOptions}
=============================================================================
