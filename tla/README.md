# A verification of the programs in these images

The repository builds inference images. Most of it is scripts, configuration and files of other
engines. Two bodies of code in it have logic of their own, and both are modelled here:

- Z = `src/images/nvidia/dgx-spark/deepseek-v41-flash-1017-tensorfold/pb1/overlay/zig/src`: a
  native server. Its hardest part is the *spill tier*: prompt states are kept on disk by every rank and
  come back to the device on every rank at once.
- V = `src/images/nvidia/dgx-spark/deepseek-v4-flash-0731/source-overlay/vllm`: files laid over a
  vLLM release. Modelled are the V1 runner's guards between tensor-parallel ranks and its overlapped steps, CUDA graphs from
  options to replay, the sparse attention of DeepSeek V4 and V3.2, and the V2 runner with its drafter.
  Below, `gpu_model_runner.py` is V1's, `v2/...` stands for `v1/worker/gpu/...`.

Contents: [the system](#the-system) · [the modules](#the-modules) · [runs](#what-the-runs-check) ·
[bounds](#why-the-bounds-are-enough) · [fairness](#fairness) · [proofs](#what-is-proved) ·
[disagreements](#disagreements-found) · [abstractions](#abstractions) · [not modelled](#not-modelled) ·
[hazards](#hazards) · [plan](#plan)

## The system

The native server (files under Z):

| Part | State | Operations | Talks to |
|---|---|---|---|
| Spill store, writes (`core/spill/store.zig`, `slots.zig`) | the index of points, references of blocks, names in flight, write jobs, the writer's queue, staging slots, byte counts; all under one mutex | `keep`, `captured`, `stage`, `staged`, `guard`, `cancel`, `beginRead`, `endRead`, `forget`, `markShared`; the writer thread's block, point, shared and unlink tasks | called by the engine thread; its writer thread does the disk work with the mutex released |
| Publication and recovery (`store.zig`, `fsio.zig`, `format.zig`) | files, directory entries not yet durable | put (temporary, fsync, rename), directory fsyncs, unlinks; `scan` and `recover` at an open | the file system; a kill or a power loss at any step |
| Spill store, reads (`store.zig`, `slots.zig`) | restores, blocks of each in their states, read slots and who holds them, pins | `beginRead`, `assign`, `readReady`, `readRelease`, `endRead`; the reader threads | reader threads on one queue; the side below |
| Side (`families/dsv41/spill_tier.zig`, `spill_state.zig`) | copies under way on the device, generations of rows, destinations of restores | `keepPoint`, `service`, `retire`, `rxStep`, `rxSmall`, `rxQuiesce`, `rxEnd`, `rxCommit` | the store, the device's events |
| Restore on all ranks (`spill_tier.zig` Leader and Follower) | rank 0's jobs; a follower's open and asked restores | `begin`, `poll`, `cancel`, `keep`; `has`, `reserve`, `start`, `progress`, `status`, `validate`, `commit`, `abort` | the rank link |
| Rank link (`families/dsv41/rank_wire.zig`, `link.zig`) | at each end a tracker of the stream; the ask that is out | `post`, `ask`, `collect`; `accept`, `serve` | one ordered stream to each follower |
| Prompt cache, lane host, lane engine (`core/prompt_cache.zig`, `core/lane_host.zig`, `core/lanes/`) | device entries, request queue, lanes | match, begin, cancel; submit, admit, drain; rounds | the tier, server threads, the model |

One engine thread drives the tier on each rank and never waits for the disk; the store has
a writer thread and some reader threads. Ranks share nothing but the link.

The vLLM overlay (files under V):

| Part | State | Operations | Talks to |
|---|---|---|---|
| Tensor-parallel guards (`v1/worker/gpu_model_runner.py`, "GLM52") | whether the guard is armed or dead, the last gate's decision | fingerprint exchange before the forward pass, gate exchange before the drafter, in steps with and without tokens | the other ranks, by blocking all-gathers that a gloo group matches by order only |
| V1 overlapped steps (`v1/worker/gpu_model_runner.py`) | cached requests, batch rows, the rows of the step before, pinned input buffers, counts copied back on a side stream | `_update_states`, `_prepare_inputs`, `_prepare_input_ids`, sampling, `correct_spec_decode_token_counts`, the asynchronous output | scheduler and engine (outside the overlay), the device's streams |
| Graph configuration (`config/vllm.py`, `config/compilation.py`) | the configuration, resolved step by step | `__post_init__` and what it calls, the runtime checks | read by everything below |
| Graphs of V1 (`v1/cudagraph_dispatcher.py`, `compilation/breakable_cudagraph.py`, `v1/worker/gpu_model_runner.py`) | dispatcher's keys and mode, captured graphs, the KV cache they were captured on | memory profile, initialisation, capture, dispatch, replay; agreement of data-parallel ranks | attention backends |
| Attention metadata (`v1/attention/backends/mla/sparse_swa.py`, `indexer.py`, `flashmla_sparse.py`, `models/deepseek_v4/sparse_mla.py`, `.../cache_utils.py`) | a step's index rows, plans, chunks | the builders, the index kernels | the layers |
| Attention layers (`models/deepseek_v4/attention.py`, `nvidia/flashmla.py`, `nvidia/flashinfer_sparse.py`, `model_executor/layers/sparse_attn_indexer.py`, `utils/multi_stream_utils.py`) | three caches per layer, shared buffers, events on four streams | GEMMs, insertions, compressor, indexer, attention | kernels |
| Kernels (`.../sparse_mla_kernels.py`, `sm12x_sparse_mla_attn.py`) | running maximum, denominator, accumulator | chunked and split online softmax, merges, sinks | |
| V2 runner (`v2/model_runner.py`, `v2/cudagraph_utils.py`, `v2/spec_decode/dflash/speculator.py`) | request states by slot on host and device, block tables, two graph managers, both caches | `execute_model`, `sample_tokens`, `propose`, capture, add and remove requests | scheduler (outside), device |

What is hard, and what makes each part correct:

- *Writes.* A write is many steps of two threads. Points share blocks, so a write skips a block
  that is stored or that another write has in flight, and depends on what it does not own. The index must never list a
  point whose files are not there; a file must never be deleted while something still needs it;
  slots, references and byte counts must survive every failure; every write must end.
- *Disk.* A crash may fall between any two steps and a power loss drops directory entries that
  were not synced. What was published must come back whole, and nothing else may stay.
- *Reads.* Slots go round between reader threads, the device and several restores. A slot has one
  use at a time; a point outlives its readers; no restore starves; what commits is whole.
- *Restore on all ranks.* Every rank installs it or none does; a failure on any rank ends it on
  all, in whatever state it is there; a point damaged anywhere is forgotten everywhere; a slow
  disk costs only the restore; nothing but a fault breaks the pair.
- *Guards.* A rank that leaves one exchange out has its next one gathered with another rank's previous. Exchanges must
  pair up and nobody may wait for ever, whatever raises, times out, dies or has no tokens.
- *Overlapped steps.* The host prepares a step while the device runs the one before, with lengths that
  count every draft as accepted. Rows move, requests come and go; the device must still be fed each request's own tokens.
- *Graphs.* A replay runs what was captured with the buffers of then: every batch must dispatch to a graph that was
  captured, that holds it and that the other ranks choose too.
- *Sparse attention.* Every token must attend exactly to its window and its entries, through block
  tables, compressed positions, chunks cut for workspaces, splits of a softmax, and streams that run in any order events allow.
- *V2.* Three counts of a request's length (scheduler, host, device) move at different times; slots and blocks
  are used again; drafter and target write caches that must hold accepted text.

Every component, modelled or not, is in `PROJECT.json` under `components`; each hazard, at its line, under `hazards`.

## The modules

| Module | Models | Correspondence |
|---|---|---|
| `SpillWrite` | the store's write path | `store` is what `Store.mutex` protects; `tickets` the copies to staging slots on the device's stream; `running` the task the writer has popped; `files`, `manifest` the disk; `reading` the points with a read open. One action per public operation. A task of the writer is two actions, since it releases the mutex around its disk work: `TakeBlock` then `BlockWritten`, `TakePoint` then `PointWritten`, `TakeShared` then `SharedWritten`. Helpers (`Gc`, `Unref`, `EndJob`, `Settle`, `Release`, `RecheckParked`) are functions from store to store named after the code's, so an action is their composition in the code's order. |
| `SpillDisk` (extends `SpillWrite`) | what the writer's disk work is made of, crashes, `scan` and `recover` | `live[f]` is what a read sees of file f, `may[f]` what it may be after a power loss; `SyncDir` makes the two agree. `step` is how far the writer is in its task. `Scan` decides on every point, `Sweep` deletes the orphans one by one, `Opened` ends the open. The engine's steps are `SpillWrite`'s own. |
| `DurablePoints` | abstract: a point once promised is listed whenever the store is up, until it is dropped | `SpillDisk` implements it (`KeepsItsPromise`, INSTANCE ... WITH) |
| `SpillRead` | reads on one rank and the side that copies them | `rs` is under the mutex; `rx` and `copies` belong to the engine; `engine` is where it is in `rxEnd`, which takes the lock three times. A reader's block is `TakeBlock` then `BlockRead`, likewise the small state. |
| `RestoreTxn` | a restore on all ranks | `rx[r][t]` is the Rx of restore t on rank r with its place in the maps `asked`, `restores` or `jobs`; `lead.track` and `fol[f].track` are the Trackers; `stream[f]` the link. A handler of rank 0 that asks is split at the ask (`Poll`, `StatusAnswered`, `ValidateAnswered`), as everybody else goes on meanwhile; `Serve` handles one command. `Posts` is the set of what a send may come to. |
| `RestoreAgreement` | abstract: each rank has one outcome for a restore, installed on all or on none | `RestoreTxn` implements it (`InstalledOnAllOrNone`) |
| `RankGate` | the two exchanges of a step on every tensor-parallel rank | `pc[r]` is where a rank's worker is; `post[r]` what it waits with, `got[r]` what the exchange gave it. A rank's step is split where it blocks. `Complete` is the group matching the n-th exchange of each; `TimesOut`, `Dies` are the faults. |
| `AsyncRunner` | the runner's pipeline | the host's actions follow `execute_model` and `sample_tokens`, split where the host waits for an event; `Gpu` runs the launched kernels in order. `rows`, `prevRow`, `inputs` are the batch, the row map of the step before, the pinned buffers; `truth` is what the device has really computed. The scheduler is external. |
| `GraphConfig` | options to configuration | operators named after the functions of `VllmConfig` and `CompilationConfig`; a configuration is a record, a refused start an outcome |
| `GraphDispatch` (extends it) | the start and the steps after it | one action per phase of the start (`PostInit` ... `CaptureEnds`), one per capture, `Serve` for a batch on each data-parallel rank |
| `SparseIndex`, `FlashMlaSparse` | metadata: index rows, plans, chunks of V4's two backends and of V3.2's | operators over a batch record, one per kernel or builder |
| `SparseKernels` | how an index row becomes an output | a softmax state is a maximum, and bags of the terms in the denominator and accumulator: splitting, rescaling and merging are exact on bags, a forgotten or doubled rescale is visible |
| `DsAttention` (extends these) | layers through the steps of a batch | `Program` is the sequence of commands (run, record, wait) the host issues for a step; an operation is an action and may run once all that stream order and events order before it has run. Caches map slots to keys that say which layer, request, position and step wrote them. |
| `V2Graphs` | the V2 graph managers | operators named after the methods |
| `V2Runner` (extends it) | the V2 runner with the drafter | `CaptureModel`, then `Step` (`execute_model` with what the scheduler sent), `SampleTokens` (`sample_tokens` and `propose`), `TakeOutput`. `sch`, `host` and `dev` are the three views of a request; `kv` and `dkv` the caches by address. The scheduler is external. |
| `MC...` | constants of the small instances | |
| `SpillWriteProofs`, `SpillIndexProofs`, `SpillDiskProofs`, `SpillReadProofs`, `RestoreTxnProofs`, `RankGateProofs`, `AsyncRunnerProofs`, `GraphDispatchProofs` | [theorems](#what-is-proved) | each about the module it extends |

`PROJECT.json` maps each definition to its lines. A few operators are wrong on purpose and used nowhere in the
specifications (`GcNone`, `SettleEarly`, `MaybeParallelUnjoined`, ...): each stands before the definition it
is a faulty variant of. Put in its place, a property of a run fails: this is how
each property is known to depend on the code. The pairs are listed under `mutants`.

## What the runs check

Every run is exhaustive within its bounds. `CHECK_DEADLOCK FALSE` where the bound on what happens (writes, restores,
additions, steps) or the end of the requests may stop the system; that nothing stops too early is what the
liveness properties are for. `sparse_attention` checks deadlock: a step's operations can always all run.

| Run | Instance | Shows |
|---|---|---|
| `spill_write_errors` | 2 writes out of 3 points that share a block (one has a tail of its own), one staging slot; copies, disk work, restores fail | `IndexExact`: references, orphans, byte counts, the cap, files of indexed points, no queued deletion of a wanted file; `WritesAccounted`: names in flight, slots, tasks and tickets each have a live owner; `ReadPointsStay`; `WritesEnd` |
| `spill_disk` | 2 writes, 2 crashes (killed process or lost machine), disk errors, damage, unreadable files | `SealedIsDurable`, `OpenLosesNothing`, `KeepsItsPromise` (refinement); `IndexIsDisk`: the disk steps add up to `SpillWrite`'s atomic ones, the rebuilt store is exact, nothing is left behind, an open write's blocks stay covered |
| `spill_read` | 2 restores of a 2-block point, one slot, one reader, every failure | `ReadsAccounted`: slots have one use and are counted, points outlive reads, nothing leaks; `CommitsAreWhole`; `RestoresEnd` |
| `restore_txn` | 3 ranks, one restore; stores write, evict, differ from the start; ranks die, answers come late | `PairInStep`: without a fault no rank refuses a command, all have the same restores open, what one forgets all forget; `InstalledOnAllOrNone` (refinement); `EveryRestoreEnds` |
| `rank_gate` | 2 ranks, 2 steps, both guards enforced, one fault | `Paired`, `RanksAgree`, `StepsEnd` |
| `async_runner` | 2 requests, drafts, chunked prefills, preemption; 2 steps in flight | `InputsTrue`: every row is fed its own tokens at its own position, drafts are verified by the right logits; `LengthsExact`; `StepsFinish` |
| `graph_startup` | about 2,000 combinations of options, 1 or 2 data-parallel ranks, any batch | `NeverDies`, `GraphsExact`, `GraphFits`, `RanksAgree` |
| `sparse_attention` | 3 requests, 2 steps, six set-ups: backend, streams, flattening, drafting, lengths over-counted | `OutputsExact`, `CachesExact`, `PlansExact` |
| `v2_serving` | 2 requests with a common prompt; prefix hits, aborts, preemption, streaming updates; two steps ahead; both graph modes | `TextExact`, `LengthsAgree`, `CachesKept`, `ReplayFits` |
| `async_runner_stale`, `graph_strict`, `indexer_gather` | smallest that shows it | [the disagreements](#disagreements-found) |

## Why the bounds are enough

*Spill tier.* The write path's rules are about a block shared by two writes: two
points that share a block, and two writes, give every order of keep, stage, write, cancel,
evict and publish around it, including a name deleted and written again. One staging slot makes them compete. The cap is small
enough for keeps to evict and to be refused. In `SpillDisk` the second crash falls into the
recovery from the first. In `SpillRead` the point has more blocks than there are slots, so the slot goes
round between two restores, each of which can have the other wait. In `RestoreTxn` a third rank is needed for two followers to
differ, in their answers or in what a cut send reached; more add nothing new, as the code treats all followers
alike.

*Guards.* What goes wrong between ranks goes wrong between two, in a step and the next; the theorem is for any number of both.

*Overlapped steps.* One request is long enough to have drafts rejected while two later steps are in flight; the
other comes and goes, so rows are added, condensed and swapped around it. With two rows every
permutation of the batch occurs; depth 2 is the engine's queue. The theorems are for any number of requests and drafts.

*Graphs.* The combinations are all of what decides the mode, and around one start the other choices a group at a
time (sizes, parallelism, adapters, runner and transfer). Sizes leave gaps on both sides of a batch: one
fits exactly, one is padded, one is above the largest.

*Sparse attention.* Window 3, blocks of 4, ratios 1, 2 and 4 and lengths up to 12 put positions just before, at and
after the end of an entry, a block and a window; top-k 2 leaves entries out; `PrefillChunk`, `MaxLogits` and `WorkspaceFactor`
are small enough for prefills to need several chunks and one to need sub-chunks. Schedules mix decodes of one to three
tokens, short prefills that count as decodes, and prefills. Two steps are needed for drafts of the first to be turned down before
the second, and for buffers to hold what the first left. Scores are chosen so that maxima move between tiles; one head has no sink.

*V2.* A block of 3 and a model length of 6 give partial, full and shared blocks and the end of the context;
four blocks for two requests with a common prompt have them shared, copied, freed and used again. `MaxAdds` 3
is a request that comes back once (preempted, resumed or a streaming update) beside the other. One draft, chunks of 3, graphs of 3 and 4 tokens.

## Fairness

Safety needs none. For liveness:

- `SpillWrite`: the writer runs while it has tasks; copies on the device complete; captures complete. `Stage` is strongly fair, because the engine
  tries again in every pump between rounds and a slot may come and go in between.
- `SpillRead`: the reader threads run; copies complete; the engine polls every open restore, and
  after a failure goes through `rxEnd`. No cancel is assumed.
- `RestoreTxn`: rank 0 polls each restore (strongly fair: another restore's ask may be out at any
  one moment) and its own reads end. A follower reads its stream. `GiveUp` is strongly fair: if the status is asked for ever, the clock
  (`status_wait_ns`) has run out at one of them. A follower's copies are *not* assumed to get on,
  nor followers to live. A dead follower's ask fails (the link closes).
- `RankGate`: a live worker goes on, the group completes an exchange that all have entered, and a rank *stuck* in an exchange
  that can no longer complete times out (the group's timeout). A time-out of any other exchange may happen but is not assumed.
- `AsyncRunner`: the device runs what was launched, the host goes on in a step it has begun, the engine takes outputs. That it schedules another step is not assumed.

## What is proved

Eight modules of proofs, each resting only on the named assumptions about constants of the module it is about, and two theorems on hypotheses of their own (`IndexIsDiskHolds`, `AsyncRowsTrue`).

`SpillWriteProofs`, for any points, blocks, slots, cap and number of writes:

- `TypeCorrect`: `Spec => []TypeOK`.
- `ReadPointsAreSafe`: `Spec => ReadPointsStay`: no eviction and no trim takes a point that a
  restore is reading out of the index; only `Forget`, the engine's verdict on damage, does.

They rest on `ConstantsAssumption` alone: finite sets of points, names and slots,
and every point a nonempty sequence of names. `TypeOK` is inductive as it stands. The argument is by composition, as is the
model: `Keeps(s, r)` says that s is a well-typed store which lists the points r lists, and there is one lemma
per helper: it returns a `Keeps` of what it got. Only two take points out, and have lemmas of
their own: `RemovePoints` (evictions) and `TrimPath`. Each action is a composition of helpers, so
its lemma (`KeepStep`, `StagedStep`, ...) chains theirs. `StepKeeps` collects
the actions: the state stays typed, and if the step is not a `Forget` a point that was listed and is
being read still is. For the last part one looks at where the removed sets come from: `Victims`
and the trimmed path leave out `reading`.

and in its second half:

- `WriteInvariant`: `Spec => []IInv`, the inductive invariant of the write path.
- `WritesAreAccounted`: `Spec => WritesAccounted` always: a name in flight is owned by one live write that has it to write,
  a slot is free or has one holder, every queued task and every copy under way belongs to a write that waits for it.

`WritesAccounted` counts what the engine's tickets and the writer's popped task hold together with what is in the
store, and helpers break it in the middle of an action, between giving something up and handing it on. The
invariant is therefore stated of a store with what surrounds it, `Sound(s, E, P, X)`: E the copies of tasks outside the
store (tickets, the running block), P the points whose publication the writer is at, X the names that a critical section
has let go of and not settled yet. Its parts are `JobsFit` (which fields of a write go with which state), `Flights`
(a name in flight has a copy, a slot or a task that brings it), `Owners` (the write registered for a name has it to
write, or has failed or been cancelled and still names it), `SlotsFit` (free slots, staged copies and held tails
are disjoint and each is there once) and `QueueFits`. Between actions X is empty. Each helper has a lemma saying which X it takes and
gives: `Gc`, `RemovePoints`, `TrimPath` leave all alone (`Alike`); `DropInflight` moves a name out of X;
`Settle`, `EndJob`, `GiveBack`, `Release`, `Fail`, `Cancel` go from some X to less; `RecheckParked` queues what no longer
waits. An action chains them as the model does.

`SpillIndexProofs`, under the same assumption, on top of these:

- `IndexIsExact`: `Spec => []IndexExact`: references count exactly the points and live writes that name a block, nothing
  is kept that nobody names, byte counts are exact and within the cap, an indexed point is whole on disk with its manifest, and no
  queued deletion names what the index lists.

`IndexExact` says nothing of what is on its way, so it is far from inductive: that a deletion names nothing in the index
once it *runs* depends on what is queued before and behind it, and that the cap holds once a block *lands* on what every write has reserved.
The invariant `Exact(s, D, N, B, P, m)` is again stated of a store with what surrounds it: B the block and P the point the
writer is at; and, inside a critical section only, names D with one reference too many, N in the index though still in flight, and m units of
space spoken for. Its parts are

- `RefsAre`, `StoredFits`, `PointsWhole`: the counts, and that an indexed point has its blocks;
- `WaitsOnce`: a key has one live write, and none when it is indexed, so a second publication cannot count a point twice;
- `HaveLanded`: what is in the index is not in flight, so a queued or running block is new;
- `TasksFit`: a queued block or point brings something new (`BringsNew`), a queued deletion names nothing that is indexed or
  that the writer is at (`Deletes`), and what it names can only come back by a task behind it (`After`): the FIFO is what keeps a name that is
  deleted and written again on disk;
- `RoomFits`: the room a write has asked for covers what it may still add (`Reserve`), `queued` is the sum of what was asked for,
  and `stored` with all reserves is within the cap. When a failed write hands blocks to another one, their reserve moves with them (`HandingRoom`).

The sums over writes are sizes of sets of pairs (`Rows`, `Total`), as induction over a fold is not available; `TotalAdd`, `TotalPut`
and `TotalTaken` are the three facts about them that are used. One lemma per helper again says what of D, N, B, P and m it takes and
gives (`RefExact`, `UnrefExact`, `GcExact`, `RemoveExact`, `EndJobExact`, `LandExact`, `PublishedExact`), and one per action chains them.

`SpillDiskProofs`, with `DiskAssumption` besides, for any number of crashes, disk errors, damage and unreadable files:

- `DiskInvariant`: `DiskSpec => []Core`, the inductive invariant; `DiskTypesHold`: `DiskSpec => []DiskTypeOK`.
- `PublishedSurvives`: `DiskSpec => []SealedIsDurable`: whatever a power loss takes, a published point is there whole, with the bytes its manifest
  has checksums of.
- `OpenIsHarmless`: `DiskSpec => OpenLosesNothing`: an open deletes no file of a whole point, whatever it could not read and wherever it is cut short.
- `PromiseKept`: `DiskSpec => KeepsItsPromise`: `SpillDisk` implements `DurablePoints`, step by step.
- `DirectoriesAreIndex`: `DiskSpec => [](ViewIsDisk /\ RebuiltIsExact /\ NothingLeftBehind)`: between two tasks the directories hold what
  `SpillWrite` says they hold, a reopened store is exact, and nothing is left in the directories that nobody names.
- `IndexIsDiskHolds`: `DiskSpec => []IndexIsDisk`, that is the same and `OpenCovered`, for an instance without engine errors (with them it is false:
  a failed capture hands nothing on, below) and with `TailsApart`: the block at a tail is of no other point. `blockNames` (format.zig:138) hashes
  a tail's length into its name. The run's instance has no tails.

`Core` joins the invariants of `SpillWrite` (`IInv`, `Indexed`), which hold while the store is open, with the directories. Its parts are
`Mapped` (what a process sees is among what a power loss may leave, and every outcome fits its file), `Listed` (what the index lists
is there), `WriterFits` (how far the running task is: `Progress` says which of a point's files are put and which can no longer be lost after each
step of a publication or of undoing one), `SweepFits` (what an open still deletes is of no whole point), `SealedFits`, `PhaseFits`, and
`IndexFits`: after a scan the rebuilt store satisfies `Exact` again (`RebuiltExact`), though with no bound on the room, as what reappears may
pass the cap. That is why `Indexed(m)` of `SpillIndexProofs` is inductive for every m <= 0 and not for 0 only.

Three arguments carry it. No step under the lock but a publication adds to the index, and what leaves the index has its deletion
queued (`Moves(s, z)`, a relation of stores that composes, with a lemma per helper and action). A step on the disk changes
files of one point that is not indexed, or of one block that is not (`Kept`, `Spares`). A crash makes files only more certain
(`KeptLasting`), and a point all of whose outcomes are whole is whole (`LastingComplete`), so the scan recovers it or leaves it (`VerdictIs`).

Three more invariants carry `IndexIsDisk`. `View`: `SpillWrite`'s disk is the files that are there, except those of the running task, for which
`Progress` counts. `Neat`: a file that the index does not list is of a queued or running deletion, of a publication under way, or is left to sweep
(`Tidy`); a rewrite of a manifest is queued for a point that is listed or has its deletion behind it (`RewritesHold`), so that it brings
nothing back; temporary files last no longer than an open (`NoTemps`). `Covered`, for `OpenCovered`: no write failed, and a
cancelled one has nothing left to stage (`Sane`); a name in flight is one its write has to stage or to write, or its tail (`Held`); and a
block an open write names is stored, in flight, or referenced by nobody (`Awaited`), which `RefsAre` excludes between actions. Inside one, a write that
ends hands on what others wait for before its references go (`ReleaseCovered`), and eviction lets go only of blocks without a reference (`Lets`).

`SpillReadProofs`, for any points, blocks, slots, readers and number of restores:

- `ReadTypes`: `Spec => []ReadTypeOK`.
- `ReadsAreAccounted`: `Spec => []ReadsAccounted`: no slot has two uses, counts of outstanding blocks and copies are what is
  outstanding, a point being read is in the index or forgotten with its files kept, nothing is left when a read is freed, and
  a wanted slot is idle only after a failed block.
- `CommitsWhole`: `Spec => CommitsAreWhole`: a restore commits only with every block and the small state copied.

They rest on `ReadAssumption`. The invariant `IInv` says of every read where it can be by the state of each
of its blocks (`Fits`), which slots it holds (`Held`), what its counters are (`Counted`); and of all together, that points read are
pinned (`PointsPinned`), that what is settled leaves nothing (`AllSettled`), that free slots and waiting blocks
exclude each other but after a failure (`NoneIdle`), and what `rxEnd`'s three critical sections may find
of each other (`EngineFits`). `Counted` is the hard part: each counter is the cardinality of a set, and each step moves a known element.

`RestoreTxnProofs`, for any ranks, restores and points, under `TxnAssumption`:

- `RestoreTypes`: `Spec => []TypeOK`.
- `PairStaysInStep`: `Spec => []PairInStep`: as long as there is no fault no rank refuses a command, rank 0 and its followers have the same
  restores open, and none remembers what another forgot.
- `RestoresAgree`: `RestoreTxn` implements `RestoreAgreement` (`Spec => InstalledOnAllOrNone`), step by step: each action maps to
  `Prepare`, `Install`, `Unprepare`, `Drop`, a fault, or to nothing.

What one end knows is what the other will have done *once it has read what is in the stream*. `IInv` therefore follows a
restore along the stream: `StreamsFit` says which commands may follow which, `FollowerFits` and `LeaderFits` what a rank's Rx may be
given its tracker and what is still to come (`GoneToCome`), `AskFits` what an ask that is out may be answered. With that
it can be said that a commit on the way finds the restore complete and prepared (`CompleteIsPrepared`, `CommitsHold`), that an abort
finds it uninstalled (`AbortsDropped`), that both ends speak of the same point (`SamePoint`), and that only a fault
breaks a link (`OnlyFaultsBreak`, `BrokenWaitsNot`). One lemma per handler.

What the abstract specification is worth follows for every instance: `OneOutcome` (`Spec => []Agreement!Agreed`): without a fault, a
restore installed on one rank is installed or prepared on all. `OutcomesAreFinal` (`Spec => Agreement!Final`): an outcome is never taken back,
fault or not. `Agreed` with the typing of `outcome` is inductive: `Install` looks at every rank, and after it `Unprepare` and `Drop` are closed.

`RankGateProofs`, for any ranks, plans, intents, number of steps and of faults, and any modes of the guards:

- `RankGateTypes`: `Spec => []TypeOK`.
- `ExchangesPair`: `Spec => []Paired`. Exchanges that are waited in at the same time are the same one.
- `LaunchesTheSame`: `Spec => []RanksAgree`. Ranks that got through the enforced guards launch the same drafter passes and graph mode.

`Paired` is not inductive: that two ranks wait in the same exchange depends on how many each has been
through, and on which of them may leave one out. The invariant `IInv` therefore says, besides the types,

- of each rank (`EachRank`) where in a step it is and what it can be waiting with or have got there, that a rank
  with a dead guard posts nothing, and that what it is past in the step is on record;
- of ranks whose guards work (`Together`) that they are due at the same exchange, counting two to a step
  (`AtFp`, `AtGate`): a step without tokens posts a stand-in at both, and an exception, a time-out or an
  exchange that a peer left kills the guard, so nobody who is behind still posts;
- of what was gathered that results held at the same time come from one exchange (`Same`), that a launch is what the
  vector still held says (`Launched`), and that past drafter passes are those of one vector (`Drafted`); with `LaunchesAgree` for the forward passes.

There is one lemma per action, and a few they share: only one rank moves, a rank that does not move keeps its
part, and `Complete` gives every waiting rank the same vector. TLC checked `IInv` first, with the guards in each mode.

`AsyncRunnerProofs`, for any requests, prompt, outputs, number of drafts and preemption, with two steps in flight:

- `AsyncInvariant`: `Spec => [](IInv /\ RowBound)`, the inductive invariant; `AsyncTypes`: `Spec => []TypeOK`.
- `AsyncLengthsExact`: `Spec => []LengthsExact`: the deferred correction takes the host's lengths to what the device has
  computed, placeholders and discards are the scheduler's, and with nothing in flight every sampled token is known to it.
- `AsyncRowsTrue`: `RowsTrue`, the part of `InputsTrue` about what rows are fed: each starts where the device's own computation of the request stopped,
  and each token is the host's, or sampled or drafted for this request.

They rest on `Sizes` and on `Depth = 2`, which is what `max_concurrent_batches` (config/vllm.py:539) gives this runner when scheduling is asynchronous;
`AsyncRowsTrue` also on `~Forced`, without which it is false (the first disagreement below). The invariant says

- `Shape`: which of six queues of kernels goes with which place of the host and which outputs wait. At most two steps are under way, the latest
  (`inputs`) and the one before (`gpuRows`, until the device copies the latest's);
- `OutsMatch`, `Batch`, `PrevRows`: an output has the requests and drafts of its step's rows, and the map of previous rows is that of the step before;
- `Lengths`: the device's lengths are the truth until the step is sampled, then short of it by what was sampled;
- `Incoming`: where the rows the device has not come to yet take their length and first token from. The host's copy when it is right, else the device's
  own row of the step before, which is then the same request's and sampled;
- `HostAgrees`, `Deferral`: the host against the scheduler's order, and what the correction will take off, whether the device has sampled yet or not;
- `Accounts`: what the scheduler counts of a request is the truth, plus what the two steps compute at most, less what it has not heard of
  yet. A placeholder stands for each token a step may bring, and is taken back with the output;
- `Chances`: a request is scheduled again only past all it computes, so a row's sample is expected exactly if it is not discarded.

`LengthsExact` follows from `Deferral`, `HostAgrees` and `Accounts` in turn, `RowsTrue` from `Incoming` and `Lengths`. There are one lemma per
action and part. TLC checked the invariant first.

`GraphDispatchProofs`, for any options that satisfy `OptionsAssumption` (counts are what the validated configuration makes them, `splitting_ops` is unset or
empty) and any number of steps:

- `StartInvariant`: `Spec => []IInv`, the inductive invariant; `StartTypes`: `Spec => []TypeOK`.
- `StartsNeverDie`: `Spec => []NeverDies`: a start that the options do not refuse does not die in a capture, no batch it serves lacks the graph
  of its key, no assertion of the dispatcher fails for what a data-parallel group agreed on, and the compile ranges cut the tokens exactly once.
- `GraphsAreExact`: `Spec => []GraphsExact`: there is exactly one graph for each key, on the cache that serves, it replays the whole model in order,
  and the second KV cache finds the configuration resolved.
- `GraphsHoldBatches`: `Spec => []GraphFits`; `RanksStayInStep`: `Spec => []RanksAgree`.

The invariant joins `ConfigKept` (what the options made of the configuration, and that the model's wrapper captures each of its modes), `KeysKept`
(while there is a KV cache the dispatcher's keys are exactly those of the resolved configuration), `GraphsKept` (the graphs are those of the keys captured
since the cache was made) and `ServedKept`. What makes it inductive is about sizes. `ResolvedFits`: whatever the backends support, the resolved sizes
are within the limits asked for, multiples of the ranks under sequence parallelism, and multiples of the query length where decodes have full graphs
(`Divides`); resolving again changes nothing. `PaddedIs`: padding goes to a captured size and is idempotent. `DummyGets`: hence the batch a
capture builds for a key has exactly the key's tokens and dispatches to that key. `DispatchGets`: hence what a batch gets is a key, or no graph. `AgainIs`: with the
group's tokens, and the least of the ranks' modes as the only one allowed, a rank still has a key, though its own first choice was a larger mode or a
smaller size; where the least is PIECEWISE this needs a relaxed key for each size and each number of adapters. `SegmentsSteps` and `FlattenSteps` take the folds of the capture and
of the replay apart, of which each has five elements at most. TLC checked the invariant first.

Only model-checked: the logits' indices (`SampledFromOwn` of `InputsTrue`, sums built by recursive functions); the sparse attention and V2. Out of the prover's reach and left to TLC: liveness (`WritesEnd`, `RestoresEnd`, `EveryRestoreEnds`, `StepsEnd`, `StepsFinish`), which needs fairness
and ENABLED, and induction over data (the recursive functions by which indices, chunks and softmax states are built).

## Disagreements found

Each of the first three has a run that shows it and an entry under `findings`.

1. `async_runner_stale` (gpu_model_runner.py:1554). A request preempted and resumed with no step between
   keeps its entry in the row map of the step before, and is fed a token and a length of before the preemption.
2. `graph_strict` (config/compilation.py:1448). A strict selection is validated before the attention
   backends have resolved the mode, which may turn it to NONE with a warning; the start then
   serves without decode graphs, though it should fail.
3. `indexer_gather` (indexer.py:631). Chunks are cut by compressed lengths against an uncompressed limit, so one
   may gather more rows than the indexer allocates.

Met while modelling, of the spill tier; each is left out of a property:

- `keep` answers `stored`, "Stored or on its way already", for a point whose write is cancelled
  or failed but not ended (store.zig:1423, :125). The next keep repairs it.
- A failed capture fails its write without `release` (store.zig:1480), so blocks it had not staged are not handed
  to another open write that names them, as the comment at :1645 promises. That write fails too, later (`WritesEnd`).
- A point that an open could not read is promised to keep its files until the next open (:595), but its blocks
  have no references: a later write of one, when cancelled, has `gc` delete it (:851).
- A reader whose block failed gives its slot back without `assign` (:2453), though a restore gets its blocks "into read slots as they come free"
  (:2320). A part of `ReadsAccounted` (`IdleOnlyByFailure`) shows that this is the only way a wanted slot is idle, `RestoresEnd` that nothing starves.

Of the guards: the header calls a step that all ranks skip always executable, but its path asserts metadata
when a count event exists (gpu_model_runner.py:~5011); the next step's fingerprint "should agree" after a
consensus, but still carries each rank's own verdict; a step forced to eager keeps each rank's padded size.

Of the graphs: the documentation of `cudagraph_specialize_lora` (compilation.py:692) is not what the code does; DeepEP high-throughput drops
graphs only when compiling, for an early return; splitting operations that contain attention, with
compilation NONE, resolve to FULL_AND_PIECEWISE without a piecewise runner; `compile_sizes` of "cudagraph_capture_sizes" with sizes rounded for drafts
refuses the start; a connector or a pooling model that turns FULL into PIECEWISE without
compilation meets an assertion; decode sizes padded above what all requests can have miss the decode graph. In V2,
mixed FULL counts whose next size up is decode-only run eagerly, and the buffer of hidden states is sized by the first warm-up,
which suffices only because the largest capture size is the limit.

Of the sparse attention, each harmless under what callers do today:

- the 512-wide split kernels give an invalid index inside the valid length a zero key with weight, where the comment says it is skipped (sparse_mla_kernels.py:~1750);
- three kernels that accumulate in place are tuned by running them without `restore_value` (:935, :1289, :2292);
- a top-k shorter than it could be (scores that are NaN) makes `combine_topk_swa_indices` name a row of the request before;
- on FlashInfer, padding tokens of a decode attend stale window slots (nobody reads them);
- `_compute_prefill_metadata_kernel` covers 16 prefills; beyond them gather lengths stay unset;
- merges without a guard give NaN where all is empty and the sink is -inf;
- the window of the non-causal drafting pass starts one token before what the cache manager keeps, and its rows are wider than the mixed builder's assertion allows;
- native decode lengths are too short for shorter decodes (safe by the uniform split), and padding decodes write rows past the real ones;
- "Upper bound is exact for prefill rows" (flashmla_sparse.py:393, indexer.py:623) is not so for short extends under asynchronous drafting, as indexer.py:606 says itself. Chunks only get larger: `OutputsExact` and `PlansExact` hold with over-counted lengths;
- a warm-up's "every reachable class" of widths (flashinfer_sparse_mla_warmup.py:~270) lacks one.

Of V2: draft positions beyond the block table wrap into the request's last block (`DraftsFromAccepted`, a part of
`CachesKept`, is about passes that fit); the drafter's lengths are not clamped to the model's though their maximum is; padding flags captured
as TRUE are refreshed only under `VLLM_MOE_SKIP_PADDING`; the scheduler must allocate for 1 + K tokens ahead (assumed).

## Abstractions

`SpillWrite`. A block is one byte and a point's own files `FileBytes`. Which points go first when room is made,
and in which order blocks are staged, is any order (the code's order is one of them). A refusal because of
backlog or free disk is the refusal for want of a slot. A point is read by at most one
restore (`SpillRead` has the counts), each kept state is the source of one write. `release` has a branch for a tail slot that cannot be reached, as the tail slot is held only while
the capture is pending.

`SpillDisk`. `put` is one step that changes an entry: it writes and fsyncs a temporary file before it renames it, so that
an entry's file is never torn. Temporaries are one flag. A write job's number is not used again after a
crash. What is promised is what was *sealed*: its directories were synced before the write was done. A
point that a killed process left and an open lists may still be lost in a power loss, since the open does not sync;
after a power loss an older manifest may reappear with a newer small state, which only the CRC at
read catches; and the cap may be passed by what reappears. None of these is claimed.

`SpillRead`. The readers' queue is a set (any order). A forgotten point is not kept again; a freed
read's record is reset.

`RestoreTxn`. A rank's store is two sets, of points it stores and points it is writing, and a
restore's reads and copies are how far they got. All points have the same number of blocks. Transaction ids of commands that
open no restore are not counted, and a command's point, which both ends compare with the
transaction's, is not repeated. Asks repeated inside one poll are polls. A follower's write may be lost at any time,
which is what the notices `write_staged` and `write_cancelled` may cause. A rank or link that dies stays so (the pair has to be
restarted); what was open there ends with it. A link that only one end sees die is a follower that died.

`RankGate`. A fingerprint is the graph mode and padded size with the last gate's verdict; a plan is any of a small set, so ranks may
disagree in whatever way. An exchange that one rank left or died in cannot complete for the others.

`AsyncRunner`. A token is the request and the position it stands for; how many drafts are accepted is any number. The pinned buffers hold what was prepared last; a copy reads them when
the device comes to it. The scheduler gives a request any chunk it may have, and takes an output only when its queue is full or nothing can be
scheduled: the exactness of the host's lengths relies on that order, which is the engine's.

`GraphConfig`, `GraphDispatch`. Sorted lists of sizes are sets. A model is five operations, two of them attention. An
option that does not meet the graphs is left out; `splitting_ops` is unset or empty, not a list of its own. A graph is its key, the cache it was captured on and its segments.

`SparseIndex`, `FlashMlaSparse`, `SparseKernels`, `DsAttention`. A key is who wrote it, so quantisation, rotation and numbers are its identity, and a wrong row is a wrong
key; a weight is a symbolic term, so that outputs are compared exactly without arithmetic on reals. The grid of a kernel is a
function of the token and head. Operations are atomic: two that may overlap may run in either order. Where a start or a launch picks one of
several kernels for the same job, all are computed and must agree. Kernels outside the overlay (DeepGEMM, FlashInfer, the gathers of vLLM's
extension) are taken to do what their callers assume. Tables, starts and schedules are those of the instance.

`V2Graphs`, `V2Runner`. A token is its text's class and its position, and whether it will be rejected. One KV-cache group is shared by target
and drafter layers. Request-state kernels outside the overlay are modelled from their callers. A rejected token's key stays in the cache until it is overwritten.

## Not modelled

- Spill tier: touch and sync tasks, hard links between equal blocks, per-conversation quotas (`trimOwn`), drain, close, `pruneBuilds`,
  failed allocations; `readAwait` and its time limit; the side's generations; of the link: share and touch, counters, the
  agreement at the start, KV shards, one rank without a wire.
- Native server above it: prompt cache, lane host, lane engine (planned); eviction order (a pure function); model execution, fingerprints,
  HTTP text: numerics, hashes and formatting.
- V1 runner: encoders, MRoPE, Mamba states, LoRA, pooling, pipeline parallelism, KV connectors, EPLB, structured output; KV-cache
  specifications. Compiler, passes and caches of torch.compile, microbatching.
- Attention: context parallelism, the builders' own graph buffers, V3.2's prefills through dense attention, the padding of heads, number formats; memory
  reuse by the allocator. `_forward_prefill_flashinfer` is not called.
- V2: LoRA, encoders, pooling, pipeline ranks but the last, DCP, KV connectors, EPLB, several KV-cache groups, dummy runs of an idle
  data-parallel rank, dynamic speculative decoding, shutdown.
- Networks and weight loading of DeepSeek V4 and its drafters, MoE back ends, HC kernels: data flow and numerics. Warm-ups, environment variables,
  image builds and CI: straight-line code without state.

## Hazards

`PROJECT.json` lists them with the properties that cover each. Five have none: an I/O error while a
shared flag is rewritten (the code does not try again), a block of an unreadable point that `gc` deletes (the
disagreement above), hard links and a forgotten block, `readAwait` with its callback, and a
row that changes generation while a pack request waits. The last three are planned.

## Plan

Done: the spill tier (`SpillWrite`, `SpillDisk`, `SpillRead`, `RestoreTxn`) and the vLLM overlay's control (`RankGate`, `AsyncRunner`,
`GraphConfig`, `GraphDispatch`, `SparseIndex`, `FlashMlaSparse`, `SparseKernels`, `DsAttention`, `V2Graphs`, `V2Runner`). Proved: `SpillWrite`, `SpillDisk`, `SpillRead`,
`RestoreTxn`, `RestoreAgreement`, `RankGate` and `GraphDispatch`, all the safety their runs check, and `AsyncRunner` but the logits' indices. Left, in order:

1. Proofs: `LengthsAgree` of `V2Runner`.
2. `SpillSide`: generations, pack requests and their events against row changes (`guard`, `bump`), composed with
   `SpillWrite` through `Stage`, `Staged` and `Guard`; what is published is what was kept. 2 kept states, 2 rows, 2 blocks.
3. `PromptCache` over the tier: entries, pins, a restore that a placement, a forget or a cancel overtakes.
4. `LaneHost`: server threads, queue, admission, shutdown; each request is answered. 3 requests, 2 lanes.
5. V2 with dummy runs of an idle data-parallel rank, and adapters in its graphs.
6. Hard links and `readAwait`, as extensions of `SpillDisk` and `SpillRead`.
