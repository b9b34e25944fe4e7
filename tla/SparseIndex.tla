---- MODULE SparseIndex ----
(* Which cache rows each token of a step attends to: the index lists, lengths *)
(* and prefill plans that the metadata builders of the DeepSeek-V4 sparse     *)
(* attention compute before a step (sliding window, compressed entries,       *)
(* indexer), and the operations that turn them into one list per token.       *)
(*                                                                            *)
(* A batch b has one entry per request: b.query (tokens of this step),        *)
(* b.computed (tokens before it), b.ahead (drafts before it that were turned  *)
(* down and that the host still counts), b.swa and b.comp (block tables of the two   *)
(* cache groups), b.pad padding tokens after the last one, b.causal (not the  *)
(* drafting pass of DSpark) and b.flattening (no native MTP in the indexer).  *)
(* Requests and tokens are numbered from 1, positions, entries, rows and      *)
(* slots from 0. A row of indices is a sequence of slots, or None.            *)
EXTENDS Integers, Sequences, FiniteSets, SequencesExt, Functions

CONSTANTS
    Window,         \* tokens of the sliding window
    Block,          \* tokens of a cache block, in both cache groups
    TopK,           \* entries the indexer selects for a token
    MaxModelLen, MaxBatched, MaxTokens,
    PrefillChunk,   \* requests the prefill workspace is sized for
    Threshold,      \* the longest query counted as a decode
    Drafts,         \* speculative tokens of a request
    BufferFactor,   \* the indexer's gather limit, in contexts of full length
    MaxLogits       \* elements of the indexer's logits

None == -1
Least(a, b) == IF a < b THEN a ELSE b
Greatest(a, b) == IF a > b THEN a ELSE b
CeilDiv(a, b) == (a + b - 1) \div b
Largest(f, S) == IF S = {} THEN 0 ELSE CHOOSE x \in {f[i] : i \in S} : \A i \in S : f[i] <= x
Range0(from, to) == [i \in 1..(to - from) |-> from + i - 1]
Padded(seq, width) == [i \in 1..width |-> IF i <= Len(seq) THEN seq[i] ELSE None]

---------------------------------------------------------------------------
(* The common metadata of a batch, computed once: where each request's tokens *)
(* start, whose token each one is, and how many requests at the front count   *)
(* as decodes, for the window and for the indexer.                            *)

Requests(b) == 1..Len(b.query)
QueryStart(b, r) == b.start[r]
SeqLen(b, r) == b.computed[r] + b.query[r]
\* seq_lens_cpu_upper_bound
HostLen(b, r) == SeqLen(b, r) + b.ahead[r]
RealTokens(b) == Len(b.request)
NumTokens(b) == RealTokens(b) + b.pad
RequestOf(b, t) == b.request[t]
Position(b, t) == b.position[t]
SlotIn(table, size, p) == table[p \div size + 1] * size + (p % size)
CompressedBlock(ratio) == Block \div ratio

\* The short requests at the front count as decodes, and the tokens they have:
\* all of a batch with nothing else, padding included.
DecodesUpTo(b, short) ==
    LET n == CHOOSE n \in 0..Len(b.query) :
               /\ 1..n \subseteq short
               /\ n < Len(b.query) => n + 1 \notin short
    IN [reqs |-> n, tokens |-> IF n = Len(b.query) THEN NumTokens(b) ELSE b.start[n + 1]]
ThresholdSplit(b) == DecodesUpTo(b, {r \in Requests(b) : b.query[r] <= Threshold})
UniformSplit(b) ==
    IF \A r \in Requests(b) : b.query[r] \in {0, b.query[1]} /\ b.query[1] <= Threshold
    THEN DecodesUpTo(b, Requests(b))
    ELSE DecodesUpTo(b, {r \in Requests(b) : b.query[r] = b.query[1] /\ b.query[1] <= Threshold})

Common(given) ==
    LET start == [r \in 1..(Len(given.query) + 1) |-> SumFunctionOnSet(given.query, 1..(r - 1))]
        request == [t \in 1..start[Len(start)] |->
                      CHOOSE r \in 1..Len(given.query) : start[r] < t /\ t <= start[r + 1]]
    IN given @@ [start |-> start, request |-> request,
                 position |-> [t \in DOMAIN request |-> given.computed[request[t]] + t - start[request[t]] - 1]]
Batch(given) ==
    LET b == Common(given)
    IN b @@ [split |-> ThresholdSplit(b), indexer |-> IF b.flattening THEN ThresholdSplit(b) ELSE UniformSplit(b)]
Split(b) == b.split
IndexerSplit(b) == b.indexer

---------------------------------------------------------------------------
(* The sliding window (DeepseekSparseSWAMetadataBuilder). *)

IsValidToken(b, t) == t <= RealTokens(b)

\* The slots of the positions from..to-1 of request r, in a row of a fixed
\* width, and their number. The row of an invalid token keeps what it held.
WindowSlots(b, r, from, to) == [i \in 1..(to - from) |-> SlotIn(b.swa[r], Block, from + i - 1)]
SwaRow(b, t, old) ==
    IF ~IsValidToken(b, t) THEN [old EXCEPT !.len = 0]
    ELSE LET pos == Position(b, t)
             start == Greatest(pos - Window + 1, 0)
         IN [idx |-> Padded(WindowSlots(b, RequestOf(b, t), start, pos + 1), Window), len |-> pos + 1 - start]

NoncausalWidth == CeilDiv(Window + Drafts, 4) * 4
NoncausalRow(b, t, old) ==
    IF ~IsValidToken(b, t) THEN [old EXCEPT !.len = 0]
    ELSE LET r == RequestOf(b, t)
             start == Greatest(b.computed[r] - Window, 0)
         IN [idx |-> Padded(WindowSlots(b, r, start, SeqLen(b, r)), NoncausalWidth), len |-> SeqLen(b, r) - start]

\* build(): the decode rows from the first token, with no length left beyond
\* them; the prefill rows from the first prefill token, written from row 1.
DecodeWindow(b, old) ==
    LET n == Split(b).tokens IN
    IF n = 0 THEN old
    ELSE [t \in 1..MaxTokens |->
            IF t > n THEN [old[t] EXCEPT !.len = 0]
            ELSE IF b.causal THEN SwaRow(b, t, old[t]) ELSE NoncausalRow(b, t, old[t])]
PrefillWindow(b, old) ==
    LET n == Split(b).tokens IN
    [i \in 1..MaxTokens |-> IF n + i <= NumTokens(b) THEN SwaRow(b, n + i, old[i]) ELSE old[i]]

\* The prefills of a batch, and how many rows each one's window gathers.
Prefills(b) == (Split(b).reqs + 1)..Len(b.query)
GatherLen(b, r) == b.query[r] + Least(b.computed[r], Window - 1)

\* One tile schedule per layer type, none in a step without decodes.
TileSchedules(b, types) == IF Split(b).tokens = 0 THEN {} ELSE types

---------------------------------------------------------------------------
(* get_prefill_chunk_plan: the prefills in order, as many to a chunk as its   *)
(* rows, every request as wide as the widest, fit into the workspace.         *)

CompressedLen(b, r, ratio) == IF ratio <= 1 THEN 0 ELSE SeqLen(b, r) \div ratio
WorkspaceArea(ratio) ==
    PrefillChunk * ((IF ratio <= 1 THEN 0 ELSE CeilDiv(MaxModelLen, ratio)) + Window + MaxBatched)
PlanEntry(b, ratio, from, to) ==
    LET comp == Largest([r \in from..to |-> CompressedLen(b, r, ratio)], from..to)
    IN [from |-> from, to |-> to, N |-> comp,
        M |-> comp + Largest([r \in from..to |-> GatherLen(b, r)], from..to)]
FitsWorkspaceUngathered(b, ratio, from, to) ==
    (to - from + 1) * PlanEntry(b, ratio, from, to).N <= WorkspaceArea(ratio)
FitsWorkspace(b, ratio, from, to) ==
    (to - from + 1) * PlanEntry(b, ratio, from, to).M <= WorkspaceArea(ratio)
ChunkPlan(b, ratio) ==
    LET End(from) == CHOOSE to \in Prefills(b) :
            /\ to >= from
            /\ \A x \in (from + 1)..to : FitsWorkspace(b, ratio, from, x)
            /\ to < Len(b.query) => ~FitsWorkspace(b, ratio, from, to + 1)
        plan[from \in Nat] ==
            IF from > Len(b.query) THEN <<>>
            ELSE <<PlanEntry(b, ratio, from, End(from))>> \o plan[End(from) + 1]
    IN plan[Split(b).reqs + 1]

---------------------------------------------------------------------------
(* Compressed entries: all of them (C128A) or the indexer's choice (C4A).     *)

NumCompressed(b, t, ratio) == (Position(b, t) + 1) \div ratio
CompressedWidth(ratio) == CeilDiv(CeilDiv(MaxModelLen, ratio), 4) * 4
EntrySlotUncompressed(b, r, ratio, e) == SlotIn(b.comp[r], Block, e)
EntrySlot(b, r, ratio, e) == SlotIn(b.comp[r], CompressedBlock(ratio), e)

\* build_c128a_topk_metadata: slots and a length for decodes, entry numbers
\* for prefills.
C128Decode(b, ratio, old) ==
    [t \in 1..MaxTokens |->
        IF t > Split(b).tokens THEN old[t]
        ELSE IF ~IsValidToken(b, t) THEN [old[t] EXCEPT !.len = 0]
        ELSE LET n == Least(NumCompressed(b, t, ratio), CompressedWidth(ratio)) IN
             [idx |-> Padded([i \in 1..n |-> EntrySlot(b, RequestOf(b, t), ratio, i - 1)], CompressedWidth(ratio)),
              len |-> n]]
C128Prefill(b, ratio, old) ==
    LET d == Split(b).tokens IN
    [i \in 1..MaxTokens |->
        IF d + i > NumTokens(b) \/ ~IsValidToken(b, d + i) THEN old[i]
        ELSE Padded(Range0(0, Least(NumCompressed(b, d + i, ratio), CompressedWidth(ratio))), CompressedWidth(ratio))]

\* compute_global_topk_indices_and_lens: entries to slots, and how many.
GlobalTopK(b, t, ratio, local) ==
    LET r == IF IsValidToken(b, t) THEN RequestOf(b, t) ELSE 1
    IN [idx |-> [i \in DOMAIN local |-> IF local[i] = None THEN None ELSE EntrySlot(b, r, ratio, local[i])],
        len |-> IF IsValidToken(b, t) THEN Cardinality({i \in DOMAIN local : local[i] # None}) ELSE 0]

\* combine_topk_swa_indices: rows of the gathered buffer of a chunk, the
\* compressed rows of a token's choice before those of its window.
CombinedRow(b, t, c, ratio, topk, local) ==
    LET r == RequestOf(b, t)
        base == c.M * (r - c.from)
        pos == Position(b, t)
        topkLen == Least((pos + 1) \div Greatest(ratio, 1), topk)
        swaLen == Least(pos + 1, Window)
        gatherStart == SeqLen(b, r) - GatherLen(b, r)
    IN [idx |-> [i \in 1..topkLen |-> local[i] + base]
                \o [i \in 1..swaLen |-> base + c.N + (i - 1) + pos - swaLen + 1 - gatherStart],
        len |-> topkLen + swaLen]

\* build_flashinfer_mixed_sparse_indices: a window of full width, then the
\* compressed slots; a decode's window keeps its holes and the length covers
\* them. FlashInfer numbers the slots of a page by its stride, Span.
Remap(slot, size, span) == IF slot < 0 THEN None ELSE (slot \div size) * span + (slot % size)
MixedDecodeRow(window, comp, len, size, span) ==
    [idx |-> [i \in 1..Window |-> Remap(window.idx[i], Block, span * Block)]
             \o [i \in DOMAIN comp |-> Remap(comp[i], size, span * size)],
     len |-> Window + len]
MixedPrefillRow(b, t, ratio, topk, local, span) ==
    LET r == RequestOf(b, t)
        pos == Position(b, t)
        swaLen == Least(pos + 1, Window)
        topkLen == Least((pos + 1) \div Greatest(ratio, 1), topk)
        Entry(i) == IF i <= topkLen /\ local[i] # None THEN EntrySlot(b, r, ratio, local[i]) ELSE None
    IN [idx |-> [i \in 1..Window |->
                   Remap(IF i <= swaLen THEN SlotIn(b.swa[r], Block, pos - swaLen + i) ELSE None, Block, span * Block)]
                \o [i \in DOMAIN local |-> Remap(Entry(i), CompressedBlock(ratio), span * CompressedBlock(ratio))],
     len |-> Window + topkLen]

---------------------------------------------------------------------------
(* The indexer's metadata (DeepseekV32IndexerMetadataBuilder). *)

BufferLimit == MaxModelLen * BufferFactor
WorkspaceRows(ratio) == BufferLimit \div ratio

\* split_indexer_prefill_chunks: requests while their entries fit the buffer
\* and their logits the budget; a request too large alone is cut by queries.
Queries(b, from, to) == SumFunctionOnSet(b.query, from..to)
Entries(b, from, to, ratio) == SumFunctionOnSet([r \in from..to |-> SeqLen(b, r) \div ratio], from..to)
HostEntries(b, from, to, ratio) == SumFunctionOnSet([r \in from..to |-> HostLen(b, r) \div ratio], from..to)
FitsBudget(b, from, to, ratio) ==
    /\ HostEntries(b, from, to, ratio) <= BufferLimit
    /\ Queries(b, from, to) * HostEntries(b, from, to, ratio) <= MaxLogits
SubChunks(b, from, to, ratio) ==
    LET m == Queries(b, from, to)
        n == HostEntries(b, from, to, ratio)
        step == IF n > 0 THEN Greatest(1, MaxLogits \div n) ELSE Greatest(1, m)
    IN [k \in 1..CeilDiv(m, step) |->
          [from |-> from, to |-> to, start |-> (k - 1) * step, stop |-> Least(k * step, m), skip |-> k > 1]]
SplitChunks(b, ratio) ==
    LET first == IndexerSplit(b).reqs + 1
        End(from) == CHOOSE to \in from..Len(b.query) :
            /\ \A x \in from..to : x = from \/ FitsBudget(b, from, x, ratio)
            /\ \/ to = Len(b.query)
               \/ ~FitsBudget(b, from, to + 1, ratio)
               \/ to = from /\ ~FitsBudget(b, from, from, ratio)
        chunks[from \in Nat] ==
            IF from > Len(b.query) THEN <<>>
            ELSE SubChunks(b, from, End(from), ratio) \o chunks[End(from) + 1]
    IN chunks[first]

\* build_prefill_chunk_metadata: nothing for a chunk without entries, as the
\* host counts them; per query the rows of its own request's entries before
\* its position, by the lengths the device knows.
ChunkMetadata(b, c, ratio) ==
    IF HostEntries(b, c.from, c.to, ratio) = 0 THEN <<>>
    ELSE LET base == QueryStart(b, c.from)
             Row(t) == LET r == RequestOf(b, t)
                           ks == Entries(b, c.from, r - 1, ratio)
                       IN [token |-> t, ks |-> ks, ke |-> ks + NumCompressed(b, t, ratio)]
         IN <<[from |-> c.from, to |-> c.to, total |-> HostEntries(b, c.from, c.to, ratio), skip |-> c.skip,
               rows |-> [i \in 1..(c.stop - c.start) |-> Row(base + c.start + i)]]>>
PrefillChunks(b, ratio) ==
    FlattenSeq([i \in DOMAIN SplitChunks(b, ratio) |-> ChunkMetadata(b, SplitChunks(b, ratio)[i], ratio)])

\* _prepare_decode_tensors: one entry per token when decodes are flattened,
\* one per request and as many columns as the longest when they are not.
MaxDecode(b) == Largest(b.query, 1..IndexerSplit(b).reqs)
Native(b) == ~b.flattening /\ MaxDecode(b) <= 1 + Drafts
UniformEntries(b, ratio) ==
    LET w == MaxDecode(b) IN
    [i \in 1..(w * IndexerSplit(b).reqs) |->
        LET r == (i - 1) \div w + 1
        IN [table |-> b.comp[r], lens |-> <<(SeqLen(b, r) - w + ((i - 1) % w) + 1) \div ratio>>]]
VariableEntries(b, ratio) ==
    [i \in 1..IndexerSplit(b).tokens |->
        IF i > Queries(b, 1, IndexerSplit(b).reqs)
        THEN [table |-> [b.comp[1] EXCEPT ![1] = 0], lens |-> <<0>>]
        ELSE LET r == RequestOf(b, i)
             IN [table |-> b.comp[r],
                 lens |-> <<(SeqLen(b, r) - b.query[r] - QueryStart(b, r) + i) \div ratio>>]]
NativeEntries(b, ratio) ==
    LET w == MaxDecode(b) IN
    [r \in 1..IndexerSplit(b).reqs |->
        [table |-> b.comp[r],
         lens |-> IF 1 + Drafts > 1 THEN [j \in 1..w |-> (SeqLen(b, r) - w + j) \div ratio]
                  ELSE <<SeqLen(b, r) \div ratio>>]]
PlainEntries(b, ratio) ==
    [r \in 1..IndexerSplit(b).reqs |-> [table |-> b.comp[r], lens |-> <<SeqLen(b, r) \div ratio>>]]
SameDecodes(b) == \A r \in 1..IndexerSplit(b).reqs : b.query[r] = MaxDecode(b)
DecodeEntries(b, ratio) ==
    IF Native(b) THEN NativeEntries(b, ratio)
    ELSE IF MaxDecode(b) <= 1 THEN PlainEntries(b, ratio)
    ELSE IF SameDecodes(b) THEN UniformEntries(b, ratio) ELSE VariableEntries(b, ratio)
RequiresPadding(b) == (Native(b) \/ MaxDecode(b) <= 1) /\ ~SameDecodes(b)
====
