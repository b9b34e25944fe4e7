------------------------------ MODULE V2Graphs ------------------------------
(***************************************************************************)
(* The CUDA-graph managers of the V2 model runner (v1/worker/gpu/          *)
(* cudagraph_utils.py): which batch descriptors a manager prepares for a   *)
(* mode and a query length, which one a batch is dispatched to, and what   *)
(* capture leaves behind.  The target model and the DFlash drafter have    *)
(* one manager each.  LoRA cases are left out: every batch has none.       *)
(***************************************************************************)
EXTENDS Integers, FiniteSets, Sequences, SequencesExt

CONSTANTS
  MaxReqs,        \* max_num_seqs
  CaptureSizes,   \* cudagraph_capture_sizes
  MaxCapture      \* max_cudagraph_capture_size

ASSUME GraphSizes ==
  /\ MaxReqs \in Nat \ {0}
  /\ MaxCapture \in Nat
  /\ CaptureSizes \subseteq 1 .. MaxCapture

\* CUDAGraphMode: what serves uniform decode batches and what serves the rest.
decode_mode(mode) ==
  CASE mode \in {"FULL", "FULL_DECODE_ONLY", "FULL_AND_PIECEWISE"} -> "FULL"
    [] mode = "PIECEWISE" -> "PIECEWISE"
    [] OTHER -> "NONE"

mixed_mode(mode) ==
  CASE mode \in {"PIECEWISE", "FULL_AND_PIECEWISE"} -> "PIECEWISE"
    [] mode = "FULL" -> "FULL"
    [] OTHER -> "NONE"

separate_routine(mode) == mode \in {"FULL_DECODE_ONLY", "FULL_AND_PIECEWISE"}

\* BatchExecutionDescriptor; reqs = 0 and uniform = 0 stand for None.
Desc(mode, toks, reqs, uniform) ==
  [mode |-> mode, toks |-> toks, reqs |-> reqs, uniform |-> uniform]

NoGraph(toks, reqs) == Desc("NONE", toks, reqs, 0)

RoundUp(n, q) == ((n + (q - 1)) \div q) * q

Least(a, b) == IF a <= b THEN a ELSE b

\* Uniform decode batches: sizes rounded up to whole requests, and dropped
\* when that many requests or tokens cannot occur.
DecodeDescs(mode, q) ==
  IF separate_routine(mode)
  THEN {Desc("FULL", n, n \div q, q) :
          n \in {m \in {RoundUp(s, q) : s \in CaptureSizes} :
                   m <= MaxReqs * q /\ m <= MaxCapture}}
  ELSE {}

\* Every other batch.  A PIECEWISE graph of torch.compile pads no requests;
\* a breakable one does, like a FULL one.
MixedDescs(mode, breakable) ==
  LET m == mixed_mode(mode)
      reqs(n) == IF m = "FULL" \/ breakable THEN Least(n, MaxReqs) ELSE 0
  IN IF m = "NONE" THEN {} ELSE {Desc(m, n, reqs(n), 0) : n \in CaptureSizes}

Descs(mode, breakable, q) == DecodeDescs(mode, q) \union MixedDescs(mode, breakable)

\* _candidates: a batch looks only at the descriptors of the next size up.
Candidates(descs, toks) ==
  LET up == {d \in descs : d.toks >= toks}
  IN {d \in up : \A e \in up : d.toks <= e.toks}

get_uniform_token_count(counts) ==
  IF Cardinality(counts) = 1 THEN CHOOSE n \in counts : TRUE ELSE 0

IsCompatibleIgnoringUniform(d, reqs, toks, uniform) ==
  /\ d.reqs = 0 \/ d.reqs >= reqs
  /\ d.toks >= toks

_is_compatible(d, reqs, toks, uniform) ==
  /\ d.uniform = 0 \/ d.uniform = uniform
  /\ d.reqs = 0 \/ d.reqs >= reqs
  /\ d.toks >= toks

\* The candidates are tried in order, the uniform one of a size first.
dispatch(m, reqs, toks, uniform) ==
  LET fit == {d \in Candidates(m.descs, toks) : _is_compatible(d, reqs, toks, uniform)}
  IN IF ~m.captured \/ fit = {} THEN NoGraph(toks, reqs)
     ELSE CHOOSE d \in fit : d.uniform # 0 \/ \A e \in fit : e.uniform = 0

\* A manager: FULL graphs are kept by descriptor, and their hidden states in
\* one buffer, of the rows of the first descriptor to run.
Manager(descs) == [descs |-> descs, captured |-> FALSE, graphs |-> {}, hidden |-> 0]

\* PIECEWISE before FULL, and the largest of a mode first.
CaptureOrder(descs) ==
  LET before(a, b) == IF a.mode = b.mode THEN a.toks > b.toks ELSE a.mode = "PIECEWISE"
  IN SetToSortSeq(descs, before)

\* The warm-up before a capture runs without a graph, so the first of them
\* makes the buffer of hidden states, whatever its mode.
CaptureOne(m, d) ==
  [m EXCEPT !.graphs = IF d.mode = "FULL" THEN @ \union {d} ELSE @,
            !.hidden = IF @ = 0 THEN d.toks ELSE @]

capture(m) ==
  [FoldLeft(CaptureOne, m, CaptureOrder(m.descs)) EXCEPT !.captured = TRUE]

\* Requests and tokens of the attention a descriptor is captured with: dummy
\* ones, whose slots are all PAD, so that capture writes nothing.
CapturedSize(d) ==
  [reqs |-> IF d.reqs # 0 THEN d.reqs ELSE Least(d.toks, MaxReqs), toks |-> d.toks]

\* Rows of hidden states a replay hands back.
run_fullgraph(m, d) == Least(m.hidden, d.toks)

needs_capture(m) == m.descs # {}

\* DFlash: FULL decode graphs when the target has them and the draft's
\* attention allows it, and never under a breakable selection.
DraftDescs(mode, breakable, supports, q) ==
  IF ~breakable /\ decode_mode(mode) = "FULL" /\ supports
  THEN Descs("FULL_DECODE_ONLY", FALSE, q)
  ELSE {}

=============================================================================
