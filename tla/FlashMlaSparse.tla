---- MODULE FlashMlaSparse ----
(* The sparse attention of DeepSeek-V3.2 (flashmla_sparse.py): a paged cache  *)
(* with an entry per token, of which the indexer chooses at most TopK for     *)
(* each token. A BF16 cache is read in place. Of an FP8 cache, with few heads *)
(* on a rank, every token reads in place; otherwise only decodes do, while    *)
(* prefills read rows gathered into a workspace, chunk after chunk.           *)
(*                                                                            *)
(* Prefills are numbered from 1, rows of the workspace from 0.                *)
EXTENDS SparseIndex, SparseKernels

CONSTANT WorkspaceFactor    \* the workspace, in contexts of full length

PrefillWorkspaceSize == WorkspaceFactor * MaxModelLen

---------------------------------------------------------------------------
(* FlashMLASparseMetadataBuilder. The host knows an upper bound of a length   *)
(* only, where drafts may have been turned down since.                        *)

Total(lens, from, to) == SumFunctionOnSet(lens, from..to)

\* split_prefill_chunks: prefills in order, while their rows fit.
SplitPrefillChunks(lens) ==
    LET End(from) == CHOOSE to \in from..Len(lens) :
            /\ Total(lens, from, to) <= PrefillWorkspaceSize
            /\ to < Len(lens) => Total(lens, from, to + 1) > PrefillWorkspaceSize
        chunks[from \in Nat] ==
            IF from > Len(lens) THEN <<>>
            ELSE <<[from |-> from, to |-> End(from)]>> \o chunks[End(from) + 1]
    IN chunks[1]

\* Where the rows of a prefill start: the lengths added up, then each chunk
\* moved to the front of the workspace.
WorkspaceStarts(lens, chunks) ==
    LET Rebase(starts, c) ==
            [i \in DOMAIN starts |-> IF i \in c.from..c.to THEN starts[i] - starts[c.from] ELSE starts[i]]
    IN FoldLeft(Rebase, [i \in DOMAIN lens |-> Total(lens, 1, i - 1)], chunks)

\* The prefill a token belongs to, None for a decode's.
RequestIds(b, decodes) ==
    [t \in 1..NumTokens(b) |->
        IF IsValidToken(b, t) /\ RequestOf(b, t) > decodes THEN RequestOf(b, t) - decodes ELSE None]

\* _build_fp8_separate_prefill_decode
Separate(b) ==
    LET split == UniformSplit(b)
        lens == [i \in 1..(Len(b.query) - split.reqs) |-> HostLen(b, split.reqs + i)]
        chunks == SplitPrefillChunks(lens)
        Chunk(c) == [from |-> c.from, to |-> c.to, rows |-> Total(lens, c.from, c.to),
                     first |-> QueryStart(b, split.reqs + c.from) + 1,
                     last |-> QueryStart(b, split.reqs + c.to + 1)]
        perDecode == IF split.reqs = 0 THEN 1 ELSE b.query[1]
    IN [decodes |-> split.reqs, tokens |-> split.tokens,
        perDecode |-> perDecode, active |-> split.tokens \div perDecode,
        lens |-> lens, ids |-> RequestIds(b, split.reqs), starts |-> WorkspaceStarts(lens, chunks),
        chunks |-> [i \in DOMAIN chunks |-> Chunk(chunks[i])]]

---------------------------------------------------------------------------
(* FlashMLASparseImpl: a token's output from its choice of entries.           *)

NoSinks == [h \in Heads |-> NegInf]
Capacity(cache) == Cardinality(DOMAIN cache)

\* triton_convert_req_index_to_global_index, and the entries it counts
InCache(b, t, local) ==
    [i \in DOMAIN local |-> IF local[i] = None THEN None ELSE EntrySlot(b, RequestOf(b, t), 1, local[i])]
InWorkspace(m, t, local) ==
    [i \in DOMAIN local |-> IF local[i] = None THEN None ELSE m.starts[m.ids[t]] + local[i]]
ValidCount(row) == Cardinality({i \in DOMAIN row : row[i] # None})

\* _bf16_flash_mla_kernel and _fp8_flash_mla_kernel. Heads added to fill the
\* kernel are left out: a head's output depends on no other head.
Bf16Kernel(row, mem) == {SparseForward(row, ValidCount(row), Capacity(mem), mem, NoSinks)}
Fp8Kernel(row, cache) ==
    {WithKvCache(fused, row, Len(row), Capacity(cache), cache, NoSinks) : fused \in BOOLEAN}

Bf16Kv(b, topk, cache) ==
    [t \in 1..RealTokens(b) |-> Bf16Kernel(InCache(b, t, topk[t]), cache)]
MixedBatch(b, topk, cache) ==
    [t \in 1..RealTokens(b) |-> Fp8Kernel(InCache(b, t, topk[t]), cache)]

\* cp_gather_and_upconvert_fp8_kv_cache: a row is of the last prefill of the
\* chunk that starts at it or before.
GatheredRows(b, m, c, cache) ==
    [row \in 0..(c.rows - 1) |->
        LET i == CHOOSE i \in c.from..c.to :
                   /\ m.starts[i] <= row
                   /\ i < c.to => row < m.starts[i + 1]
        IN cache[EntrySlot(b, m.decodes + i, 1, row - m.starts[i])]]
SeparateDecodes(b, m, topk, cache) ==
    [t \in {t \in 1..RealTokens(b) : t <= m.tokens} |-> Fp8Kernel(InCache(b, t, topk[t]), cache)]
SeparatePrefills(b, m, topk, cache) ==
    LET OfChunk(c) ==
            LET space == GatheredRows(b, m, c, cache)
            IN [t \in c.first..c.last |-> Bf16Kernel(InWorkspace(m, t, topk[t]), space)]
    IN FoldLeft(LAMBDA out, c : OfChunk(c) @@ out, <<>>, m.chunks)
SeparatePrefillDecode(b, m, topk, cache) ==
    SeparateDecodes(b, m, topk, cache) @@ SeparatePrefills(b, m, topk, cache)

\* forward_mqa: each of the three ways a start may take.
ForwardMqa(b, m, topk, cache) ==
    [t \in 1..RealTokens(b) |->
        Bf16Kv(b, topk, cache)[t] \cup MixedBatch(b, topk, cache)[t]
        \cup SeparatePrefillDecode(b, m, topk, cache)[t]]

---------------------------------------------------------------------------
\* What the builder asserts, and what its chunks promise: decodes are equally
\* long, each prefill's tokens are in one chunk, whose rows lie one after the
\* other in the workspace.
SeparateFits(b, m) ==
    /\ m.perDecode > 0 /\ m.active * m.perDecode = m.tokens
    /\ FlattenSeq([i \in DOMAIN m.chunks |-> Range0(m.chunks[i].first, m.chunks[i].last + 1)])
         = Range0(Least(m.tokens, RealTokens(b)) + 1, RealTokens(b) + 1)
    /\ \A c \in Range(m.chunks) :
          /\ c.rows <= PrefillWorkspaceSize
          /\ \A i \in c.from..c.to :
                /\ SeqLen(b, m.decodes + i) <= m.lens[i]
                /\ m.starts[i] + m.lens[i] = IF i < c.to THEN m.starts[i + 1] ELSE c.rows
====
