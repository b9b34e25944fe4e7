---- MODULE SparseKernels ----
(* The sparse MLA kernels: how a token's list of cache rows becomes an        *)
(* attention output. A kernel keeps, per head, the running maximum of the     *)
(* scores, the denominator and the accumulated values, each weight relative   *)
(* to the maximum of the time; splits, chunks, merges and the attention sink  *)
(* must leave every weight relative to the same maximum.                      *)
(*                                                                            *)
(* Weights are symbolic: the term <<k, base>> stands for                      *)
(* exp(Score(h, k) - base), times the value of row k in the accumulator, and  *)
(* a sum is a bag of terms. A key k says which content the row holds.         *)
EXTENDS Integers, Sequences, FiniteSets, Bags, SequencesExt

CONSTANTS
    NumHeads,
    HeadBlock,      \* heads of one program of the multi-head kernels
    Tile,           \* candidates a kernel takes at a time
    Score(_, _),    \* of a head and a key
    SinkScore(_)    \* the attention sink of a head

Heads == 1..NumHeads
NegInf == -100
Sink == <<0, "sink", 0, 0>>
Zero == <<0, "zero", 0, 0>>     \* the row a masked load yields
NaN == <<0, "nan", 0, 0>>
Higher(a, b) == IF a > b THEN a ELSE b
Lower(a, b) == IF a < b THEN a ELSE b
Blocks(n, size) == (n + size - 1) \div size

\* b times exp(from - to)
Weighted(b, from, to) ==
    IF from # NegInf
    THEN [t \in {<<u[1], u[2] + to - from>> : u \in DOMAIN b} |-> b[<<t[1], t[2] - to + from>>]]
    ELSE IF to = NegInf THEN SetToBag({<<NaN, 0>>}) ELSE EmptyBag
Terms(seq) == FoldLeft(LAMBDA b, t : b (+) SetToBag({t}), EmptyBag, seq)
SinkWeight(sink, m) == Weighted(SetToBag({<<Sink, sink>>}), sink, m)

\* The quotient of two sums, in a form that does not depend on the maximum.
Quotient(num, den) ==
    IF den = EmptyBag THEN [num |-> EmptyBag, den |-> EmptyBag]
    ELSE LET low == CHOOSE x \in {t[2] : t \in DOMAIN den} : \A t \in DOMAIN den : x <= t[2]
         IN [num |-> Weighted(num, low, 0), den |-> Weighted(den, low, 0)]

\* What every kernel is to compute: the softmax over a set of rows and the
\* sink, where a head has one.
Softmax(keys, sink) ==
    [num |-> SetToBag({<<k, 0>> : k \in keys}),
     den |-> SetToBag({<<k, 0>> : k \in keys \cup (IF sink = NegInf THEN {} ELSE {Sink})})]

---------------------------------------------------------------------------
(* Online accumulation. *)

Empty == [max |-> NegInf, den |-> EmptyBag, acc |-> EmptyBag]
Add(h, s, k) ==
    LET next == Higher(s.max, Score(h, k)) IN
    [max |-> next,
     den |-> Weighted(s.den, s.max, next) (+) SetToBag({<<k, next>>}),
     acc |-> Weighted(s.acc, s.max, next) (+) SetToBag({<<k, next>>})]

\* The candidates at which a loop over n of them stops, offset in the list.
Effective(n, len, offset) == Lower(n, Higher(len - offset, 0))
Accumulate(h, s, keys) == FoldLeft(LAMBDA st, k : Add(h, st, k), s, keys)
\* The same for the heads of one program, which share the loop.
AccumulateBlock(S, keys) ==
    FoldLeft(LAMBDA st, k : [h \in DOMAIN st |-> Add(h, st[h], k)], S, keys)
HeadsOf(program, size) == {h \in Heads : (h - 1) \div size = program}
ByPrograms(size, S, keys) ==
    [h \in Heads |-> AccumulateBlock([g \in HeadsOf((h - 1) \div size, size) |-> S[g]], keys)[h]]

\* The rows a mask lets through, in order.
Masked(kv, valid) ==
    LET chosen == SelectSeq([i \in 1..Len(kv) |-> i], LAMBDA i : valid[i])
    IN [j \in DOMAIN chosen |-> kv[chosen[j]]]

\* accumulate_gathered: rows gathered beforehand, holes by their slot ids
GatheredChunk(S, kv, slots, len, offset) ==
    LET first == SubSeq(kv, 1, Effective(Len(kv), len, offset))
    IN [h \in Heads |-> Accumulate(h, S[h], Masked(first, [i \in DOMAIN first |-> slots = <<>> \/ slots[i] >= 0]))]

\* accumulate_indexed: rows of a flat buffer, an index outside it is skipped
InRange(index, rows) == 0 <= index /\ index < rows
IndexedKeys(row, len, offset, rows, mem) ==
    LET s == SelectSeq(SubSeq(row, 1, Effective(Len(row), len, offset)), LAMBDA x : InRange(x, rows))
    IN [i \in DOMAIN s |-> mem[s[i]]]
IndexedOne(S, row, len, offset, rows, mem) ==
    [h \in Heads |-> Accumulate(h, S[h], IndexedKeys(row, len, offset, rows, mem))]
IndexedBlocks(S, row, len, offset, rows, mem) ==
    ByPrograms(HeadBlock, S, IndexedKeys(row, len, offset, rows, mem))
IndexedChunk(S, row, len, offset, rows, mem) ==
    IF NumHeads >= HeadBlock THEN IndexedBlocks(S, row, len, offset, rows, mem)
    ELSE IndexedOne(S, row, len, offset, rows, mem)

\* accumulate_fp8ds_global_slots: slots of the paged cache, None skipped
SlotKeys(slots, len, offset, cache) ==
    LET s == SelectSeq(SubSeq(slots, 1, Effective(Len(slots), len, offset)), LAMBDA x : x >= 0)
    IN [i \in DOMAIN s |-> cache[s[i]]]
SlotsOne(S, slots, len, offset, cache) ==
    [h \in Heads |-> Accumulate(h, S[h], SlotKeys(slots, len, offset, cache))]
SlotsBlocks(S, slots, len, offset, cache) == ByPrograms(HeadBlock, S, SlotKeys(slots, len, offset, cache))

\* accumulate_fp8ds_paged: the last gatherLen positions, by the block table
PagedKey(table, size, pos, cache) == cache[table[pos \div size + 1] * size + (pos % size)]
PagedKeys(seqLen, gatherLen, table, size, offset, n, cache) ==
    [i \in 1..Effective(n, gatherLen, offset) |->
        PagedKey(table, size, seqLen - gatherLen + offset + i - 1, cache)]
PagedOne(S, seqLen, gatherLen, table, size, offset, n, cache) ==
    [h \in Heads |-> Accumulate(h, S[h], PagedKeys(seqLen, gatherLen, table, size, offset, n, cache))]
PagedBlocks(S, seqLen, gatherLen, table, size, offset, n, cache) ==
    ByPrograms(HeadBlock, S, PagedKeys(seqLen, gatherLen, table, size, offset, n, cache))

---------------------------------------------------------------------------
(* Finishing: with the sink, without it, and from two states. *)

HasTokens(s) == s.den # EmptyBag
ValidMax(s) == IF HasTokens(s) THEN s.max ELSE NegInf
MergeMax(s, sink) == Higher(ValidMax(s), sink)
Scaled(b, s, m) == IF HasTokens(s) THEN Weighted(b, s.max, m) ELSE EmptyBag
GuardedSink(sink, m) == IF sink > NegInf THEN SinkWeight(sink, m) ELSE EmptyBag

FinishWithSink(s, sink) ==
    LET m == MergeMax(s, sink)
    IN Quotient(Scaled(s.acc, s, m), Scaled(s.den, s, m) (+) GuardedSink(sink, m))
FinishTwoWithSink(s0, s1, sink) ==
    LET m == Higher(ValidMax(s0), MergeMax(s1, sink))
    IN Quotient(Scaled(s0.acc, s0, m) (+) Scaled(s1.acc, s1, m),
                Scaled(s0.den, s0, m) (+) Scaled(s1.den, s1, m) (+) GuardedSink(sink, m))

\* finish_gathered: the output of a subset and its log-sum-exp, which the
\* merges below weigh it by. They have no guard for a sum over nothing.
Subset(s) == [max |-> ValidMax(s), den |-> s.den, acc |-> s.acc]
MergeOne(s, sink) ==
    LET m == Higher(s.max, sink)
    IN Quotient(Weighted(s.acc, s.max, m), Weighted(s.den, s.max, m) (+) SinkWeight(sink, m))
MergeTwo(s0, s1, sink) ==
    LET m == Higher(Higher(s0.max, s1.max), sink)
    IN Quotient(Weighted(s0.acc, s0.max, m) (+) Weighted(s1.acc, s1.max, m),
                Weighted(s0.den, s0.max, m) (+) Weighted(s1.den, s1.max, m) (+) SinkWeight(sink, m))

---------------------------------------------------------------------------
(* Kernels that start from the sink: candidates with materialized scores. *)

\* build_combined_decode_valid_mask: compressed candidates, then the window
CombinedValid(slots, topkLen, width, swaLen) ==
    [i \in 1..(Len(slots) + width) |->
        IF i <= Len(slots) THEN i <= topkLen /\ slots[i] >= 0 ELSE i - Len(slots) <= swaLen]

FromSink(h) == [max |-> SinkScore(h), den |-> SetToBag({<<Sink, SinkScore(h)>>}), acc |-> EmptyBag]
Sequential(kv, valid) ==
    LET S == ByPrograms(HeadBlock, [h \in Heads |-> FromSink(h)], Masked(kv, valid))
    IN [h \in Heads |-> Quotient(S[h].acc, S[h].den)]
ByValues(kv, valid) ==
    [h \in Heads |->
        LET s == Accumulate(h, FromSink(h), Masked(kv, valid))
        IN Quotient(s.acc, s.den)]

\* Two passes over tiles of candidates: the maximum, then the sums.
TileOf(t, n) == {i \in 1..n : (i - 1) \div Tile = t}
TileMax(h, m, kv, valid, t) ==
    LET scores == {Score(h, kv[i]) : i \in {j \in TileOf(t, Len(kv)) : valid[j]}} \cup {m}
    IN CHOOSE x \in scores : \A y \in scores : y <= x
TileTerms(kv, valid, t, m) ==
    LET chosen == SelectSeq([i \in 1..Len(kv) |-> i], LAMBDA i : valid[i] /\ i \in TileOf(t, Len(kv)))
    IN Terms([j \in DOMAIN chosen |-> <<kv[chosen[j]], m>>])
ByCandidates(kv, valid) ==
    [h \in Heads |->
        LET tiles == [t \in 1..Blocks(Len(kv), Tile) |-> t - 1]
            m == FoldLeft(LAMBDA x, t : TileMax(h, x, kv, valid, t), SinkScore(h), tiles)
            sum == FoldLeft(LAMBDA b, t : b (+) TileTerms(kv, valid, t, m), EmptyBag, tiles)
        IN Quotient(sum, SinkWeight(SinkScore(h), m) (+) sum)]

\* matmul_sparse_mla_attention_with_sink: scores for all candidates at once,
\* then one of the three, by the block sizes asked for.
Finishers == {"heads", "values", "candidates"}
Materialized(finisher, kv, valid) ==
    CASE finisher = "heads" -> Sequential(kv, valid)
      [] finisher = "values" -> ByValues(kv, valid)
      [] finisher = "candidates" -> ByCandidates(kv, valid)

---------------------------------------------------------------------------
(* Kernels that write the output themselves: paged rows, and compressed slots *)
(* before paged rows.                                                         *)

PagedWithSink(seqLen, gatherLen, table, size, n, cache) ==
    LET S == PagedBlocks([h \in Heads |-> Empty], seqLen, gatherLen, table, size, 0, n, cache)
    IN [h \in Heads |-> FinishWithSink(S[h], SinkScore(h))]
GlobalPagedWithSink(slots, topkLen, extra, seqLen, gatherLen, table, size, n, cache) ==
    LET S0 == SlotsBlocks([h \in Heads |-> Empty], slots, topkLen, 0, extra)
        S1 == PagedBlocks(S0, seqLen, gatherLen, table, size, 0, n, cache)
    IN [h \in Heads |-> FinishWithSink(S1[h], SinkScore(h))]

---------------------------------------------------------------------------
(* The d512 split: scores of all candidates, their maximum and sum, then the  *)
(* values. A masked load yields a zero row, whose score is 0.                 *)

SplitCount(row, len) == Lower(len, Len(row))
SplitKey(row, i, rows, mem) == IF InRange(row[i], rows) THEN mem[row[i]] ELSE Zero
SplitMax(h, row, len, rows, mem) ==
    IF SplitCount(row, len) = 0 THEN NegInf
    ELSE LET scores == {Score(h, SplitKey(row, i, rows, mem)) : i \in 1..SplitCount(row, len)}
         IN CHOOSE x \in scores : \A y \in scores : y <= x
SafeMax(h, row, len, rows, mem) == IF len > 0 THEN SplitMax(h, row, len, rows, mem) ELSE 0
SplitStats(h, row, len, rows, mem) ==
    Terms([i \in 1..SplitCount(row, len) |-> <<SplitKey(row, i, rows, mem), SafeMax(h, row, len, rows, mem)>>])
SplitValues(h, row, len, rows, mem) ==
    Terms(SelectSeq([i \in 1..SplitCount(row, len) |-> <<SplitKey(row, i, rows, mem), SafeMax(h, row, len, rows, mem)>>],
                    LAMBDA t : t[1] # Zero))
Split512(row, len, rows, mem) ==
    [h \in Heads |-> [max |-> SplitMax(h, row, len, rows, mem),
                      den |-> SplitStats(h, row, len, rows, mem), acc |-> SplitValues(h, row, len, rows, mem)]]

\* The chunked form merges chunk after chunk, the values before the maximum
\* they are weighed by is replaced.
Factor(s, b, m) == IF s.max # NegInf THEN Weighted(b, s.max, m) ELSE EmptyBag
MergedValues(s, c) == LET m == Higher(s.max, c.max) IN Factor(s, s.acc, m) (+) Factor(c, c.acc, m)
MergedState(s, c) ==
    LET m == Higher(s.max, c.max)
    IN [s EXCEPT !.max = m, !.den = Factor(s, s.den, m) (+) Factor(c, c.den, m)]
Merged(s, c) == MergedState([s EXCEPT !.acc = MergedValues(s, c)], c)
Chunked512(row, len, rows, size, mem) ==
    FoldLeft(LAMBDA S, k :
        LET part == SubSeq(row, k * size + 1, Lower((k + 1) * size, Len(row)))
            C == Split512(part, Lower(Higher(len - k * size, 0), Len(part)), rows, mem)
        IN [h \in Heads |-> Merged(S[h], C[h])],
      [h \in Heads |-> Empty], [k \in 1..Blocks(Len(row), size) |-> k - 1])

---------------------------------------------------------------------------
(* The SM12x drop-ins for FlashMLA (sm12x_sparse_mla_attn.py); where there is *)
(* no sink, that of every head is NegInf.                                     *)

\* flash_mla_sparse_fwd_triton: prefill over gathered rows
SparseForward(row, len, rows, mem, sinks) ==
    LET S == IndexedChunk([h \in Heads |-> Empty], row, len, 0, rows, mem)
    IN [h \in Heads |-> FinishWithSink(S[h], sinks[h])]

\* _fused_gather_dequant_attend: tiles of candidates straight from the cache
FusedTile(h, s, slots, len, rows, cache, t) ==
    LET valid == {i \in TileOf(t, Len(slots)) : InRange(slots[i], rows) /\ i <= len}
        scores == {Score(h, cache[slots[i]]) : i \in valid} \cup {s.max}
        next == CHOOSE x \in scores : \A y \in scores : y <= x
        safe == IF next = NegInf THEN 0 ELSE next
        chosen == SelectSeq([i \in 1..Len(slots) |-> i], LAMBDA i : i \in valid)
        terms == Terms([j \in DOMAIN chosen |-> <<cache[slots[chosen[j]]], safe>>])
        Carried(b) == IF s.max = NegInf THEN EmptyBag ELSE Weighted(b, s.max, safe)
    IN [max |-> next, den |-> Carried(s.den) (+) terms, acc |-> Carried(s.acc) (+) terms]
Fused(slots, len, rows, cache) ==
    [h \in Heads |-> FoldLeft(LAMBDA s, t : FusedTile(h, s, slots, len, rows, cache, t),
                              Empty, [t \in 1..Blocks(Len(slots), Tile) |-> t - 1])]

\* _gather_dequant_fp8ds, then _materialized_indexed_accumulate
GatherRows(slots, rows, cache) ==
    [i \in DOMAIN slots |-> IF InRange(slots[i], rows) THEN cache[slots[i]] ELSE Zero]
GatherValid(slots, len, rows) == [i \in DOMAIN slots |-> InRange(slots[i], rows) /\ i <= len]
GatherThenAttend(slots, len, rows, cache) ==
    ByPrograms(IF NumHeads >= HeadBlock THEN HeadBlock ELSE 1, [h \in Heads |-> Empty],
               Masked(GatherRows(slots, rows, cache), GatherValid(slots, len, rows)))

\* flash_mla_with_kvcache_triton
WithKvCache(fused, slots, len, rows, cache, sinks) ==
    LET S == IF fused THEN Fused(slots, len, rows, cache) ELSE GatherThenAttend(slots, len, rows, cache)
    IN [h \in Heads |-> FinishWithSink(S[h], sinks[h])]
====
