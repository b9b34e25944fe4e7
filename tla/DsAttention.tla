---- MODULE DsAttention ----
(* The attention layers of DeepSeek-V4 or V3.2 through the steps of a batch:  *)
(* the metadata built for a step, then per layer the input GEMMs, the         *)
(* insertion into the cache, the compressor, the indexer and the attention    *)
(* itself, on the default CUDA stream and three auxiliary ones.               *)
(*                                                                            *)
(* The host issues a whole step before any of it runs: a sequence of          *)
(* commands, each on a stream, that run an operation, record an event or wait *)
(* for one. An operation may run once all that its stream and the events      *)
(* order before it has run; recording and waiting touch no memory, so only    *)
(* operations are steps of the model. A cache maps slots to keys, and a key   *)
(* says which layer, request, position and step wrote it.                     *)
EXTENDS FlashMlaSparse

CONSTANTS
    RatioOf,                    \* of a layer type: tokens per compressed entry
    Setups,                     \* how the process was started: the backend, streams to overlap
                                \* on, a flattening indexer, drafting or target, steps planned
                                \* before the last one's drafts are judged, and the type of
                                \* each layer: "c4a", "c128a", "swaonly", or "full" in V3.2
    GemmThreshold,              \* VLLM_MULTI_STREAM_GEMM_TOKEN_THRESHOLD
    Starts,                     \* tokens computed before the first step, per request
    Schedules,                  \* the scheduler's choices: sequences of <<request, tokens>>
    Reqs, Steps,
    SwaTable, CompTable,        \* blocks of a request in the two groups
    IndexScore(_, _)            \* of a query position and an indexer key

VARIABLES
    setup,
    ver,            \* request -> position -> the step that computed it last
    ahead,          \* request -> drafts of its last step the host still counts
    step, batch,
    meta,           \* what the builders wrote for the step
    topk,           \* topk_indices_buffer, shared by the layers
    mixed,          \* flashinfer_sparse_index_cache
    swa, comp, index,   \* caches: layer -> slot -> key
    ready,          \* intermediate results: <<layer, tensor>>
    ran,            \* operations of the step that have run
    out             \* layer -> token -> outputs of the kernels

caches == <<swa, comp, index>>
vars == <<setup, ver, ahead, step, batch, meta, topk, mixed, swa, comp, index, ready, ran, out>>

Default == 0
Aux == <<1, 2, 3>>      \* aux_stream_list
Streams == 0..3
layers == setup.layers
Ratio(l) == RatioOf[layers[l]]
HasWindow(kind) == kind # "full"
HasCompressor(kind) == kind \in {"c4a", "c128a"}
HasIndexer(kind) == kind \in {"c4a", "full"}
HasEntries(kind) == kind # "swaonly"        \* "full": an entry per token
Junk == <<0, "junk", 0, 0, 0>>
JunkOut == [h \in Heads |-> [num |-> EmptyBag, den |-> EmptyBag]]

---------------------------------------------------------------------------
(* What the host issues. A callable is a function of the stream it is called  *)
(* on.                                                                        *)

Op(l, name) == [s \in Streams |-> <<[do |-> "run", on |-> s, what |-> <<l, name>>]>>]
Record(s, e) == <<[do |-> "record", on |-> s, what |-> e]>>
Wait(s, e) == <<[do |-> "wait", on |-> s, what |-> e]>>
After(f, g) == [s \in Streams |-> f[s] \o g[s]]
Nothing == [s \in Streams |-> <<>>]

\* As a bug would have it: nobody waits for the side that ran beside.
MaybeParallelUnjoined(f, g, event0, event1, overlap, aux) ==
    IF ~overlap THEN After(f, g)
    ELSE [s \in Streams |-> Record(s, event0) \o f[s] \o Wait(aux, event0) \o g[aux] \o Record(aux, event1)]

\* maybe_execute_in_parallel
MaybeParallel(f, g, event0, event1, overlap, aux) ==
    IF ~overlap THEN After(f, g)
    ELSE [s \in Streams |-> Record(s, event0) \o f[s]
                            \o Wait(aux, event0) \o g[aux] \o Record(aux, event1) \o Wait(s, event1)]

\* execute_in_parallel: Nothing is an aux slot without a callable
ExecuteInParallel(f, fns, start, done, overlap) ==
    IF ~overlap THEN FoldLeft(After, f, fns)
    ELSE LET Slots == SelectSeq([i \in DOMAIN fns |-> i], LAMBDA i : fns[i] # Nothing)
             Launched == FlattenSeq([k \in DOMAIN Slots |-> LET i == Slots[k] IN
                            Wait(Aux[i], start) \o fns[i][Aux[i]] \o Record(Aux[i], done[i])])
         IN [s \in Streams |-> Record(s, start) \o Launched \o f[s]
                               \o FlattenSeq([k \in DOMAIN Slots |-> Wait(s, done[Slots[k]])])]

\* attn_gemm_parallel_execute, then the norms
Event(l, i) == <<l, "ln", i>>
IndexerEvent(l, i) == <<l, "indexer", i>>
InputGemms(l, kind, overlap, few) ==
    ExecuteInParallel(Op(l, "qkv"),
        << IF HasCompressor(kind) THEN Op(l, "kv_score") ELSE Nothing,
           IF HasIndexer(kind) THEN Op(l, "weights") ELSE Nothing,
           IF HasIndexer(kind) THEN Op(l, "indexer_score") ELSE Nothing >>,
        Event(l, 0), [i \in 1..3 |-> Event(l, i)], overlap /\ few)

\* DeepseekV4Indexer.forward
Indexer(l, overlap) ==
    After(MaybeParallel(Op(l, "indexer_q"), Op(l, "indexer_compress"),
                        IndexerEvent(l, 0), IndexerEvent(l, 1), overlap, Aux[3]),
          Op(l, "indexer_op"))

\* attention_impl
QueryAndInsert(l) == After(Op(l, "q"), Op(l, "insert"))
AttentionImpl(l, kind, overlap) ==
    LET Inputs == IF HasIndexer(kind)
                  THEN ExecuteInParallel(QueryAndInsert(l), <<Indexer(l, overlap), Op(l, "compress")>>,
                                         Event(l, 0), <<Event(l, 1), Event(l, 2)>>, overlap)
                  ELSE IF HasCompressor(kind)
                  THEN MaybeParallel(QueryAndInsert(l), Op(l, "compress"), Event(l, 0), Event(l, 1), overlap, Aux[1])
                  ELSE QueryAndInsert(l)
    IN After(Inputs, Op(l, "mqa"))

\* A layer of V3.2, on one stream.
FullLayer(l) ==
    FoldLeft(After, Nothing, <<Op(l, "qkv"), Op(l, "norm"), Op(l, "weights"), Op(l, "indexer_score"), Op(l, "indexer_q"),
                               Op(l, "indexer_compress"), Op(l, "indexer_op"), Op(l, "q"), Op(l, "insert"), Op(l, "mqa")>>)

\* forward, layer after layer
Layer(l, kind, overlap, few) ==
    IF kind = "full" THEN FullLayer(l)
    ELSE After(After(InputGemms(l, kind, overlap, few), Op(l, "norm")), AttentionImpl(l, kind, overlap))
Issued(kinds, overlap, few) ==
    FoldLeft(After, Nothing, [l \in DOMAIN kinds |-> Layer(l, kinds[l], overlap, few)])[Default]

\* What must have run before command i may: a stream is in order, and a wait
\* is for the event as last recorded when the wait was issued.
LastOf(S) == {j \in S : \A k \in S : k <= j}
Directly(p, i) ==
    LastOf({j \in 1..(i - 1) : p[j].on = p[i].on})
    \cup LastOf({j \in 1..(i - 1) : p[i].do = "wait" /\ p[j].do = "record" /\ p[j].what = p[i].what})
Ordered(p) ==
    LET before == FoldLeft(LAMBDA b, i : Append(b, UNION {{j} \cup b[j] : j \in Directly(p, i)}),
                           <<>>, Range0(1, Len(p) + 1))
    IN [i \in {j \in 1..Len(p) : p[j].do = "run"} |->
          [what |-> p[i].what, after |-> {j \in before[i] : p[j].do = "run"}]]

\* The programs of all starts, computed once.
Programs == [kinds \in {s.layers : s \in Setups}, overlap, few \in BOOLEAN |-> Ordered(Issued(kinds, overlap, few))]
Few == NumTokens(batch) <= GemmThreshold
Program == Programs[layers, setup.streams, Few]

---------------------------------------------------------------------------
(* A step: the scheduler's choice, decodes first, and what the builders write *)
(* for it. Rows beyond those written keep what an earlier step left.          *)

Kinds == {layers[l] : l \in DOMAIN layers}
Indexing == {k \in Kinds : HasIndexer(k)}
Computed(r) == Len(ver[r])
\* Blocks wholly before the window of the step's first token are given back; a
\* drafting pass follows a step that computed one token at least.
WindowTable(r) ==
    LET first == IF setup.drafting THEN Computed(r) - 1 ELSE Computed(r)
    IN [i \in DOMAIN SwaTable[r] |-> IF i * Block <= first - Window + 1 THEN 0 ELSE SwaTable[r][i]]
NoTable == [i \in 1..CeilDiv(MaxModelLen, Block) |-> 0]
DecodesFirst(s) == \A i, j \in DOMAIN s : s[i][2] > Threshold /\ s[j][2] <= Threshold => j < i
\* Only a graph of uniform decodes pads the requests.
MayPad(s) == ~setup.drafting /\ \A i \in DOMAIN s : s[i][2] = s[1][2] /\ s[1][2] <= Threshold
Scheduled(s, pads) ==
    LET Rows(F(_), none) == [i \in 1..(Len(s) + pads) |-> IF i <= Len(s) THEN F(s[i][1]) ELSE none]
    IN Batch([ids |-> Rows(LAMBDA r : r, 0), computed |-> Rows(Computed, 0),
        query |-> [i \in 1..(Len(s) + pads) |-> IF i <= Len(s) THEN s[i][2] ELSE 0],
        ahead |-> Rows(LAMBDA r : ahead[r], 0), swa |-> Rows(WindowTable, NoTable), comp |-> Rows(LAMBDA r : CompTable[r], NoTable),
        pad |-> pads * s[1][2], causal |-> ~setup.drafting, flattening |-> setup.flattening])

\* What the builders write: the window's, that of C128A, the indexer's, and
\* V3.2's instead of the first two.
C128Ratio == RatioOf["c128a"]
SwaBuilt(b) ==
    [decode |-> DecodeWindow(b, meta.decode), prefill |-> PrefillWindow(b, meta.prefill),
     tiles |-> TileSchedules(b, Kinds), plan |-> [k \in Kinds |-> ChunkPlan(b, RatioOf[k])]]
C128Built(b) ==
    IF "c128a" \in Kinds
    THEN [c128Decode |-> C128Decode(b, C128Ratio, meta.c128Decode), c128Prefill |-> C128Prefill(b, C128Ratio, meta.c128Prefill)]
    ELSE [c128Decode |-> meta.c128Decode, c128Prefill |-> meta.c128Prefill]
IndexerBuilt(b) ==
    [chunks |-> [k \in Indexing |-> PrefillChunks(b, RatioOf[k])],
     entries |-> [k \in Indexing |-> DecodeEntries(b, RatioOf[k])]]
Built(b) ==
    IF setup.backend = "flashmla_sparse" THEN [separate |-> Separate(b)] @@ IndexerBuilt(b) @@ meta
    ELSE SwaBuilt(b) @@ C128Built(b) @@ IndexerBuilt(b) @@ meta

AtRest == ran = {}
Step(s, pads) ==
    /\ AtRest /\ step < Steps
    /\ setup.drafting => \A i \in DOMAIN s : s[i][2] = Drafts
    /\ DecodesFirst(s) /\ pads > 0 => MayPad(s)
    /\ \A i \in DOMAIN s :
          /\ Computed(s[i][1]) + ahead[s[i][1]] + s[i][2] <= MaxModelLen
          /\ s[i][2] > Threshold => ahead[s[i][1]] = 0    \* no prompt follows a draft
    /\ batch' = Scheduled(s, pads)
    /\ NumTokens(batch') <= MaxBatched
    /\ step' = step + 1
    /\ meta' = Built(batch')
    /\ mixed' = [k \in Kinds |-> <<>>]
    /\ ran' = {0}
    /\ ready' = {} /\ out' = [l \in DOMAIN layers |-> <<>>]
    /\ UNCHANGED <<setup, ver, ahead, topk, caches>>

---------------------------------------------------------------------------
(* The operations. One whose inputs are not there yet computes from whatever  *)
(* the memory holds.                                                          *)

Needs == [qkv |-> {}, kv_score |-> {}, weights |-> {}, indexer_score |-> {}, norm |-> {"qkv"}, q |-> {"norm"},
          insert |-> {"norm", "q"}, indexer_q |-> {"norm", "weights"}, indexer_compress |-> {"indexer_score"},
          indexer_op |-> {"indexer_q"}, compress |-> {"kv_score"}, mqa |-> {"insert"}]
HasInputs(l, name) == \A n \in Needs[name] : <<l, n>> \in ready
Real == 1..RealTokens(batch)
Id(t) == batch.ids[RequestOf(batch, t)]

\* The window rows of the step's tokens; a padding token has no slot.
InsertSlot(t) == SlotIn(batch.swa[RequestOf(batch, t)], Block, Position(batch, t))
Insert(l) ==
    [s \in {InsertSlot(t) : t \in Real} |->
        IF ~HasInputs(l, "insert") THEN Junk
        ELSE LET t == CHOOSE t \in Real : InsertSlot(t) = s IN <<l, "swa", Id(t), Position(batch, t), step>>]

\* The compressor: an entry when its last token is computed.
EndsEntry(t, ratio) == (Position(batch, t) + 1) % ratio = 0
WrittenSlot(t, ratio) == EntrySlot(batch, RequestOf(batch, t), ratio, NumCompressed(batch, t, ratio) - 1)
Compress(l, name, kind) ==
    LET Ends == {t \in Real : EndsEntry(t, Ratio(l))} IN
    [s \in {WrittenSlot(t, Ratio(l)) : t \in Ends} |->
        IF ~HasInputs(l, name) THEN Junk
        ELSE LET t == CHOOSE t \in Ends : WrittenSlot(t, Ratio(l)) = s
             IN <<l, kind, Id(t), NumCompressed(batch, t, Ratio(l)) - 1, step>>]

\* _top_k_per_row_prefill_torch and its decode form: the best of some keys,
\* counted from the first, in order, then None.
BestOf(pos, keys) ==
    LET Best == {e \in 0..(Len(keys) - 1) :
                   Cardinality({f \in DOMAIN keys : IndexScore(pos, keys[f]) > IndexScore(pos, keys[e + 1])}) < TopK}
    IN Padded(SetToSortSeq(Best, <), TopK)
\* As a bug would have it: the last column is not filled.
ErasedShort == [i \in 1..(TopK - 1) |-> None]
Erased == [i \in 1..TopK |-> None]

\* sparse_attn_indexer, prefills: gather a chunk's keys unless the chunk before
\* had the same, then per query the best of its own rows.
ChunkKeys(l, c) ==
    FlattenSeq([i \in 1..(c.to - c.from + 1) |->
        LET r == c.from + i - 1 IN
        [e \in 1..(SeqLen(batch, r) \div Ratio(l)) |-> index[l][EntrySlot(batch, r, Ratio(l), e - 1)]]])
IndexChunk(l, st, c) ==
    LET keys == ChunkKeys(l, c)
        rows == IF c.skip THEN st.rows ELSE keys \o SubSeq(st.rows, Len(keys) + 1, Len(st.rows))
        Choice(q) == BestOf(Position(batch, q.token), SubSeq(rows, q.ks + 1, q.ke))
    IN [rows |-> rows,
        topk |-> [t \in {q.token : q \in Range(c.rows)} |->
                    Choice(CHOOSE q \in Range(c.rows) : q.token = t)] @@ st.topk]
PrefillIndexed(l, buffer) ==
    FoldLeft(LAMBDA st, c : IndexChunk(l, st, c), [rows |-> <<>>, topk |-> buffer],
             meta.chunks[layers[l]]).topk

\* Decodes: the tokens packed as entries by columns, their choice unpacked.
DecodeColumns(l) ==
    LET n == Len(meta.entries[layers[l]]) IN
    IF RequiresPadding(batch) THEN MaxDecode(batch) ELSE IndexerSplit(batch).tokens \div n
PackedAt(l, t) ==
    IF RequiresPadding(batch)
    THEN LET r == CHOOSE r \in 1..IndexerSplit(batch).reqs : QueryStart(batch, r) < t /\ t <= QueryStart(batch, r + 1)
         IN [entry |-> r, column |-> t - QueryStart(batch, r)]
    ELSE [entry |-> (t - 1) \div DecodeColumns(l) + 1, column |-> ((t - 1) % DecodeColumns(l)) + 1]
DecodeChoice(l, t) ==
    LET at == PackedAt(l, t)
        entry == meta.entries[layers[l]][at.entry]
        n == entry.lens[Least(at.column, Len(entry.lens))]
    IN BestOf(Position(batch, t),
              [e \in 1..n |-> index[l][SlotIn(entry.table, CompressedBlock(Ratio(l)), e - 1)]])
Decoded(l, buffer) ==
    IF IndexerSplit(batch).reqs = 0 THEN buffer
    ELSE [t \in 1..Least(IndexerSplit(batch).tokens, RealTokens(batch)) |-> DecodeChoice(l, t)] @@ buffer
Indexed(l) ==
    IF ~HasInputs(l, "indexer_op") THEN [t \in 1..NumTokens(batch) |-> [i \in 1..TopK |-> 0]] @@ topk
    ELSE Decoded(l, PrefillIndexed(l, [t \in 1..NumTokens(batch) |-> Erased] @@ topk))

---------------------------------------------------------------------------
(* The attention of a layer: prefills over rows gathered chunk by chunk,      *)
(* decodes straight from the caches. Each output is the set of what the       *)
(* kernels that can compute it return.                                        *)

Width(l) == CASE layers[l] = "c4a" -> TopK [] layers[l] = "c128a" -> CompressedWidth(Ratio(l)) [] OTHER -> 0
FirstPrefill == Split(batch).tokens + 1
Local(l, t) ==
    CASE layers[l] = "c4a" -> topk[t]
      [] layers[l] = "c128a" -> meta.c128Prefill[t - FirstPrefill + 1]
      [] OTHER -> <<>>

\* dequantize_and_gather_k_cache, twice: compressed rows from the front of a
\* request's area, its window from row N on.
Workspace(l, c) ==
    [row \in 0..((c.to - c.from + 1) * c.M - 1) |->
        LET r == c.from + row \div c.M
            at == row % c.M
            p == SeqLen(batch, r) - GatherLen(batch, r) + at - c.N
        IN IF at < CompressedLen(batch, r, Ratio(l)) THEN comp[l][EntrySlot(batch, r, Ratio(l), at)]
           ELSE IF at >= c.N /\ p < SeqLen(batch, r) THEN swa[l][SlotIn(batch.swa[r], Block, p)] ELSE Junk]
Sinks == [h \in Heads |-> SinkScore(h)]
Finished(S) == [h \in Heads |-> FinishWithSink(S[h], SinkScore(h))]
Fresh == [h \in Heads |-> Empty]
PrefillKernels(row, rows, mem) ==
    LET First == Lower(2, Len(row.idx))
        Kv == [i \in DOMAIN row.idx |-> mem[row.idx[i]]]
        Part == GatheredChunk(Fresh, SubSeq(Kv, 1, First), <<>>, row.len, 0)
        Whole == GatheredChunk(Part, SubSeq(Kv, First + 1, Len(Kv)), <<>>, row.len, First)
    IN {SparseForward(row.idx, row.len, rows, mem, Sinks),
        Finished(IndexedOne(Fresh, row.idx, row.len, 0, rows, mem)),
        Finished(Split512(row.idx, row.len, rows, mem)),
        Finished(Chunked512(row.idx, row.len, rows, 2, mem)),
        [h \in Heads |-> MergeOne(Subset(Whole[h]), SinkScore(h))]}
ChunkOutputs(l, c) ==
    LET space == Workspace(l, c)
        Tokens == {t \in Real : RequestOf(batch, t) \in c.from..c.to}
    IN [t \in Tokens |-> PrefillKernels(CombinedRow(batch, t, c, Ratio(l), Width(l), Local(l, t)),
                                        Cardinality(DOMAIN space), space)]
PrefillOutputs(l) ==
    FoldLeft(LAMBDA f, c : f @@ ChunkOutputs(l, c), <<>>, meta.plan[layers[l]])

\* _forward_decode
Extra(l, t) == IF layers[l] = "c4a" THEN GlobalTopK(batch, t, Ratio(l), topk[t]) ELSE meta.c128Decode[t]
End(t) == IF batch.causal THEN Position(batch, t) + 1 ELSE SeqLen(batch, RequestOf(batch, t))
WindowKernels(row, table, end, rows, cache) ==
    {WithKvCache(TRUE, row.idx, row.len, rows, cache, Sinks), WithKvCache(FALSE, row.idx, row.len, rows, cache, Sinks),
     Finished(SlotsOne(Fresh, row.idx, row.len, 0, cache)),
     PagedWithSink(end, row.len, table, Block, Len(row.idx), cache)}
ExtraKernels(row, extra, table, end, cache, entries) ==
    LET S0 == SlotsBlocks(Fresh, extra.idx, extra.len, 0, entries)
        S1 == PagedOne(Fresh, end, row.len, table, Block, 0, Window, cache)
        Both == [i \in 1..(Len(extra.idx) + Window) |->
                    IF i > Len(extra.idx) THEN (IF row.idx[i - Len(extra.idx)] < 0 THEN Zero ELSE cache[row.idx[i - Len(extra.idx)]])
                    ELSE IF extra.idx[i] < 0 THEN Zero ELSE entries[extra.idx[i]]]
        valid == CombinedValid(extra.idx, extra.len, Window, row.len)
    IN {[h \in Heads |-> FinishTwoWithSink(S0[h], S1[h], SinkScore(h))],
        [h \in Heads |-> MergeTwo(Subset(S0[h]), Subset(S1[h]), SinkScore(h))],
        GlobalPagedWithSink(extra.idx, extra.len, entries, end, row.len, table, Block, Window, cache)}
       \cup {Materialized(f, Both, valid) : f \in Finishers}
DecodeOutput(l, t) ==
    LET row == meta.decode[t]
        table == batch.swa[RequestOf(batch, t)]
    IN IF layers[l] \notin meta.tiles THEN {JunkOut}
       ELSE IF ~HasCompressor(layers[l]) THEN WindowKernels(row, table, End(t), Cardinality(DOMAIN swa[l]), swa[l])
       ELSE ExtraKernels(row, Extra(l, t), table, End(t), swa[l], comp[l])
FlashMla(l) ==
    [t \in {t \in Real : t < FirstPrefill} |-> DecodeOutput(l, t)] @@ PrefillOutputs(l)

\* FlashInfer: one row per token for both caches, kept for the other layers of
\* the type except where the indexer chooses anew.
Span == 2
MixedRow(l, t) ==
    LET extra == IF HasCompressor(layers[l]) THEN Extra(l, t) ELSE [idx |-> <<>>, len |-> 0] IN
    IF t < FirstPrefill THEN MixedDecodeRow(meta.decode[t], extra.idx, extra.len, CompressedBlock(Ratio(l)), Span)
    ELSE MixedPrefillRow(batch, t, Ratio(l), Width(l), Local(l, t), Span)
Uncached == {"c4a"}
MixedRows(l) == IF mixed[layers[l]] # <<>> THEN mixed[layers[l]] ELSE [t \in Real |-> MixedRow(l, t)]
AtSpan(x, size) == (x \div (Span * size)) * size + (x % (Span * size))
FlashInfer(l) ==
    [t \in Real |->
        LET row == MixedRows(l)[t]
            used == SelectSeq([i \in 1..Effective(Len(row.idx), row.len, 0) |-> i], LAMBDA i : row.idx[i] >= 0)
            keys == [j \in DOMAIN used |->
                        IF used[j] <= Window THEN swa[l][AtSpan(row.idx[used[j]], Block)]
                        ELSE comp[l][AtSpan(row.idx[used[j]], CompressedBlock(Ratio(l)))]]
        IN {[h \in Heads |-> FinishWithSink(Accumulate(h, Empty, keys), SinkScore(h))]}]

---------------------------------------------------------------------------
(* The operations as steps. *)

MayRun(i, name) ==
    /\ i \in DOMAIN Program \ ran /\ Program[i].what[2] = name
    /\ Program[i].after \subseteq ran
    /\ ran' = ran \cup {i}
    /\ ready' = IF HasInputs(Program[i].what[1], name) THEN ready \cup {Program[i].what} ELSE ready
    /\ UNCHANGED <<setup, ver, ahead, step, batch, meta>>
LayerOf(i) == Program[i].what[1]

Compute(i) ==
    /\ \E name \in {"qkv", "kv_score", "weights", "indexer_score", "norm", "q", "indexer_q"} : MayRun(i, name)
    /\ UNCHANGED <<topk, mixed, caches, out>>
InsertRows(i) ==
    /\ MayRun(i, "insert") /\ HasWindow(layers[LayerOf(i)])
    /\ swa' = [swa EXCEPT ![LayerOf(i)] = Insert(LayerOf(i)) @@ @]
    /\ UNCHANGED <<topk, mixed, comp, index, out>>
InsertTokens(i) ==
    /\ MayRun(i, "insert") /\ ~HasWindow(layers[LayerOf(i)])
    /\ comp' = [comp EXCEPT ![LayerOf(i)] = Compress(LayerOf(i), "insert", "comp") @@ @]
    /\ UNCHANGED <<topk, mixed, swa, index, out>>
CompressRows(i) ==
    /\ MayRun(i, "compress")
    /\ comp' = [comp EXCEPT ![LayerOf(i)] = Compress(LayerOf(i), "compress", "comp") @@ @]
    /\ UNCHANGED <<topk, mixed, swa, index, out>>
CompressKeys(i) ==
    /\ MayRun(i, "indexer_compress")
    /\ index' = [index EXCEPT ![LayerOf(i)] = Compress(LayerOf(i), "indexer_compress", "index") @@ @]
    /\ UNCHANGED <<topk, mixed, swa, comp, out>>
Select(i) ==
    /\ MayRun(i, "indexer_op")
    /\ topk' = Indexed(LayerOf(i))
    /\ UNCHANGED <<mixed, caches, out>>
Attend(i) ==
    /\ MayRun(i, "mqa")
    /\ LET l == LayerOf(i) IN
       /\ out' = [out EXCEPT ![l] = IF ~HasInputs(l, "mqa") THEN [t \in Real |-> {JunkOut}]
                                    ELSE CASE setup.backend = "flashmla" -> FlashMla(l)
                                           [] setup.backend = "flashinfer" -> FlashInfer(l)
                                           [] setup.backend = "flashmla_sparse" -> ForwardMqa(batch, meta.separate, topk, comp[l])]
       /\ mixed' = IF setup.backend # "flashinfer" \/ layers[l] \in Uncached THEN mixed
                   ELSE [mixed EXCEPT ![layers[l]] = MixedRows(l)]
    /\ UNCHANGED <<topk, caches>>

\* The step's output: drafts may be turned down, from the last one back. A
\* drafting pass leaves nothing.
MayReject(i) ==
    IF setup.drafting THEN {batch.query[i]}
    ELSE IF batch.query[i] \in 2..Threshold THEN 0..(batch.query[i] - 1) ELSE {0}
Finish ==
    /\ ran # {} /\ DOMAIN Program \subseteq ran
    /\ \E rejected \in [DOMAIN batch.ids -> 0..MaxBatched] :
          /\ \A i \in DOMAIN batch.ids : rejected[i] \in MayReject(i)
          /\ ver' = [r \in Reqs |->
                IF \E i \in DOMAIN batch.ids : batch.ids[i] = r
                THEN LET i == CHOOSE i \in DOMAIN batch.ids : batch.ids[i] = r
                     IN ver[r] \o [k \in 1..(batch.query[i] - rejected[i]) |-> step]
                ELSE ver[r]]
          /\ ahead' = [r \in Reqs |->
                IF setup.async /\ \E i \in DOMAIN batch.ids : batch.ids[i] = r
                THEN rejected[CHOOSE i \in DOMAIN batch.ids : batch.ids[i] = r]
                ELSE 0]
    /\ ran' = {} /\ out' = <<>> /\ ready' = {} /\ mixed' = <<>> /\ batch' = <<>>
    /\ UNCHANGED <<setup, step, meta, topk, caches>>
\* Nothing more to schedule.
Idle == AtRest /\ UNCHANGED vars

\* Before the first step a request has its start in the caches, and the
\* buffers hold rows of steps before.
OldRow(width) == [idx |-> [i \in 1..width |-> 0], len |-> width]
Slots(tables) == 0..((1 + Largest([r \in Reqs |-> Largest(tables[r], DOMAIN tables[r])], Reqs)) * Block - 1)
Held(l, kind, r, n, slot) == [s \in {slot} |-> <<l, kind, r, n, 0>>]
Filled(kinds, name, size, tables, length, skipped) ==
    [l \in DOMAIN kinds |->
        FoldSet(LAMBDA r, f :
                  FoldLeft(LAMBDA g, n : Held(l, name, r, n, SlotIn(tables[r], size[kinds[l]], n)) @@ g, f,
                           Range0(skipped[r], length[kinds[l], r])),
                [s \in Slots(tables) |-> Junk], Reqs)]
Init ==
    /\ setup \in Setups
    /\ \E start \in Starts :
          LET PerRow == [k \in DOMAIN RatioOf |-> Block]
              PerEntry == [k \in DOMAIN RatioOf |-> CompressedBlock(RatioOf[k])]
              EntriesOf(k, r) == IF HasEntries(k) THEN start[r] \div RatioOf[k] ELSE 0
          IN /\ ver = [r \in Reqs |-> [i \in 1..start[r] |-> 0]]
             /\ swa = Filled(layers, "swa", PerRow, SwaTable, [k \in DOMAIN RatioOf, r \in Reqs |-> start[r]],
                             [r \in Reqs |-> Greatest(start[r] - Window, 0)])
             /\ comp = Filled(layers, "comp", PerEntry, CompTable, [k \in DOMAIN RatioOf, r \in Reqs |-> EntriesOf(k, r)],
                              [r \in Reqs |-> 0])
             /\ index = Filled(layers, "index", PerEntry, CompTable,
                               [k \in DOMAIN RatioOf, r \in Reqs |-> IF HasIndexer(k) THEN EntriesOf(k, r) ELSE 0],
                               [r \in Reqs |-> 0])
    /\ ahead = [r \in Reqs |-> 0]
    /\ step = 0 /\ batch = <<>> /\ ran = {} /\ ready = {} /\ out = <<>> /\ mixed = <<>>
    /\ topk = [t \in 1..MaxTokens |-> [i \in 1..TopK |-> 0]]
    /\ LET rows(width) == [t \in 1..MaxTokens |-> OldRow(width)]
           wide == CompressedWidth(C128Ratio)
       IN meta = [decode |-> rows(Window), prefill |-> rows(Window), c128Decode |-> rows(wide),
                  c128Prefill |-> [t \in 1..MaxTokens |-> OldRow(wide).idx],
                  tiles |-> {}, plan |-> <<>>, chunks |-> <<>>, entries |-> <<>>, separate |-> <<>>]

Next ==
    \/ \E s \in Schedules, pads \in 0..1 : Step(s, pads)
    \/ ran # {} /\ \E i \in DOMAIN Program :
          \/ Compute(i) \/ InsertRows(i) \/ InsertTokens(i) \/ CompressRows(i) \/ CompressKeys(i) \/ Select(i) \/ Attend(i)
    \/ Finish
    \/ Idle

Spec == Init /\ [][Next]_vars

---------------------------------------------------------------------------
(* Properties. *)

\* The state has the shape the operations rely on: requests and layers have
\* their caches, and only operations of the step have run.
TypeOK ==
    /\ step \in 0..Steps /\ setup \in Setups
    /\ \A r \in Reqs : Computed(r) <= MaxModelLen /\ \A p \in 1..Computed(r) : ver[r][p] \in 0..step
    /\ DOMAIN topk = 1..MaxTokens /\ \A t \in 1..MaxTokens : Len(topk[t]) = TopK
    /\ \A l \in DOMAIN layers : /\ DOMAIN swa[l] = Slots(SwaTable)
                                /\ DOMAIN comp[l] = Slots(CompTable) /\ DOMAIN index[l] = Slots(CompTable)
    /\ ran # {} => ran \subseteq {0} \cup DOMAIN Program /\ NumTokens(batch) <= MaxBatched

\* The step that computed position p last.
Version(r, p) == IF p < Computed(r) THEN ver[r][p + 1] ELSE step
Entry(l, kind, r, e) == <<l, kind, r, e, Version(r, (e + 1) * Ratio(l) - 1)>>

\* What a token is to attend to: its window, and of the entries completed up
\* to it all, or those the indexer ranks highest.
ToAttend(l, t) ==
    LET r == Id(t)
        pos == Position(batch, t)
        From == IF batch.causal THEN Greatest(pos - Window + 1, 0) ELSE Greatest(Computed(r) - Window, 0)
        To == IF batch.causal THEN pos ELSE Computed(r) + batch.query[RequestOf(batch, t)] - 1
        Complete == 0..((pos + 1) \div Ratio(l) - 1)
        InWindow == IF HasWindow(layers[l]) THEN From..To ELSE {}
        Rank(e) == IndexScore(pos, Entry(l, "index", r, e))
        Chosen == CASE layers[l] = "swaonly" -> {}
                    [] layers[l] = "c128a" -> Complete
                    [] HasIndexer(layers[l]) -> {e \in Complete : Cardinality({f \in Complete : Rank(f) > Rank(e)}) < TopK}
    IN {<<l, "swa", r, p, Version(r, p)>> : p \in InWindow} \cup {Entry(l, "comp", r, e) : e \in Chosen}

\* Whatever the order in which streams run, the kernel, the chunks and what
\* earlier steps left in the shared buffers, every token of every layer gets
\* the softmax over exactly the rows it is to attend to, each once and as last
\* computed.
OutputsExact ==
    \A l \in DOMAIN out : \A t \in DOMAIN out[l] :
        out[l][t] = {[h \in Heads |-> Softmax(ToAttend(l, t), IF HasWindow(layers[l]) THEN SinkScore(h) ELSE NegInf)]}

\* The caches hold, for every token accepted so far, what was computed for it:
\* no step, padding token or draft turned down writes over a compressed entry
\* or an indexer key at any time, nor, between steps, over a row of the window
\* the next step reads.
CachesExact ==
    \A l \in DOMAIN layers, r \in Reqs :
        /\ \A p \in Greatest(Computed(r) - Window + 1, 0)..(Computed(r) - 1) :
              ran = {} /\ HasWindow(layers[l]) => swa[l][SlotIn(SwaTable[r], Block, p)] = <<l, "swa", r, p, ver[r][p + 1]>>
        /\ HasEntries(layers[l]) =>
              \A e \in 0..(Computed(r) \div Ratio(l) - 1) :
                  comp[l][SlotIn(CompTable[r], CompressedBlock(Ratio(l)), e)] = Entry(l, "comp", r, e)
        /\ HasIndexer(layers[l]) =>
              \A e \in 0..(Computed(r) \div Ratio(l) - 1) :
                  index[l][SlotIn(CompTable[r], CompressedBlock(Ratio(l)), e)] = Entry(l, "index", r, e)

\* The prefill plan takes every prefill once and in order, and each chunk's
\* rows, compressed and window, fit its area of the workspace.
PlanFits ==
    ran # {} => \A k \in {k \in Kinds : HasWindow(k)} :
        LET plan == meta.plan[k] IN
        /\ FlattenSeq([i \in DOMAIN plan |-> Range0(plan[i].from, plan[i].to + 1)]) = SetToSortSeq(Prefills(batch), <)
        /\ \A i \in DOMAIN plan :
              /\ (plan[i].to - plan[i].from + 1) * plan[i].M <= WorkspaceArea(RatioOf[k])
              /\ \A r \in plan[i].from..plan[i].to :
                    /\ CompressedLen(batch, r, RatioOf[k]) <= plan[i].N
                    /\ plan[i].N + GatherLen(batch, r) <= plan[i].M

\* The indexer's chunks take every prefill query that has entries once, keep
\* to the logits they may use unless they are down to one query, and reuse
\* gathered keys only right after a chunk over the same requests.
ChunksCover ==
    ran # {} => \A k \in Indexing :
        LET chunks == meta.chunks[k]
            tokens == FlattenSeq([i \in DOMAIN chunks |-> [j \in DOMAIN chunks[i].rows |-> chunks[i].rows[j].token]])
        IN /\ \A t \in Real : RequestOf(batch, t) > IndexerSplit(batch).reqs /\ NumCompressed(batch, t, RatioOf[k]) > 0
                  => Cardinality({j \in DOMAIN tokens : tokens[j] = t}) = 1
           /\ IsInjective(tokens)
           /\ \A i \in DOMAIN chunks :
                 /\ Len(chunks[i].rows) * chunks[i].total <= MaxLogits \/ Len(chunks[i].rows) = 1
                 /\ chunks[i].skip => i > 1 /\ chunks[i - 1].from = chunks[i].from /\ chunks[i - 1].to = chunks[i].to

\* The plans of a step cover its prefills once, within every buffer they are cut for.
PlansExact ==
    /\ PlanFits /\ ChunksCover
    /\ ran # {} /\ setup.backend = "flashmla_sparse" => SeparateFits(batch, meta.separate)

\* The keys a chunk gathers fit the rows the indexer allocates for them.
GatherFits ==
    ran # {} => \A k \in Indexing :
        \A c \in Range(meta.chunks[k]) : c.total <= WorkspaceRows(RatioOf[k])
====
