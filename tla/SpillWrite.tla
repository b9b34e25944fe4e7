------------------------------ MODULE SpillWrite ------------------------------
(***************************************************************************)
(* The write path of one rank's spill store (core/spill/store.zig).        *)
(*                                                                         *)
(* The engine thread keeps prompt states: a point is a list of block names *)
(* (shared with other points), a small state and a manifest.  Blocks stay  *)
(* in device memory until `stage` hands the engine a host slot to pack     *)
(* them into; one writer thread then works off a FIFO of tasks: blocks,    *)
(* the point itself, manifest rewrites, deletions.                         *)
(*                                                                         *)
(* `store` is what Store.mutex protects.  Each helper of the source that   *)
(* runs with the lock held is an operator from store to store, and each    *)
(* critical section is one action.  The disk work the writer does with the *)
(* lock released lies between two actions (Take... and ...Written), so the *)
(* engine's actions interleave with it.                                    *)
(*                                                                         *)
(* Data kept: block names, not bytes.  A block is one unit of space, a     *)
(* point's own files FileBytes units.  Blocks of a job to stage are a set  *)
(* (the code stages them in list order).                                   *)
(***************************************************************************)
EXTENDS Integers, Sequences, FiniteSets, Functions, SequencesExt

CONSTANTS
    Keys,           \* points, by the digest of their ids
    Names,          \* block names
    BlocksOf,       \* BlocksOf[k]: the names of point k's blocks, in order
    Tailed,         \* points whose last block is not whole (a mutable tail)
    Older,          \* Older[k]: points whose ids k's ids strictly extend
    MaxJobs,        \* bound: writes queued in one run of the store
    WriteSlots,     \* staging slots for blocks
    SmallSlots,     \* number of staging slots for small states
    CapBytes,       \* Config.cap_bytes
    FileBytes,      \* a point's .ids, .st and .man
    Turns,          \* Config.turns (0: no trim)
    EngineErrors,   \* whether device copies may fail
    DiskErrors,     \* whether disk work may fail
    Damage,         \* whether a restore may find a block damaged or missing
    NoJob, NoSlot

Jobs == 1 .. MaxJobs

Blocks(k) == Range(BlocksOf[k])

\* The tail block of k: captured at the keep, never staged.
TailBlock(k) == IF k \in Tailed THEN {Last(BlocksOf[k])} ELSE {}

ASSUME ConstantsAssumption ==
    /\ IsFiniteSet(Keys) /\ Keys # {} /\ IsFiniteSet(Names) /\ IsFiniteSet(WriteSlots)
    /\ Tailed \subseteq Keys
    /\ BlocksOf \in [Keys -> Seq(Names)]
    /\ \A k \in Keys : BlocksOf[k] # << >>
    /\ Older \in [Keys -> SUBSET Keys]
    /\ MaxJobs \in Nat /\ SmallSlots \in Nat /\ CapBytes \in Nat
    /\ FileBytes \in Nat /\ Turns \in Nat
    /\ EngineErrors \in BOOLEAN /\ DiskErrors \in BOOLEAN /\ Damage \in BOOLEAN
    /\ NoJob \notin Jobs /\ NoSlot \notin WriteSlots

VARIABLES
    store,      \* the fields of Store that its mutex protects
    reading,    \* points some restore reads (Store.reading)
    tickets,    \* staged blocks whose device copy is in flight
    running,    \* the writer's task while it does disk work
    files,      \* block files in the rank's directory
    manifest    \* the manifest of each point on disk

vars == <<store, reading, tickets, running, files, manifest>>

Manifests == {"none", "private", "shared"}

BlockTask == [kind : {"block"}, job : Jobs, name : Names, slot : WriteSlots]
PointTask == [kind : {"point"}, job : Jobs]
SharedTask == [kind : {"shared"}, key : Keys]
\* The deletions one call queues back to back: manifests first, then blocks.
UnlinkTask == [kind : {"unlink"}, keys : SUBSET Keys, names : SUBSET Names]
Task == BlockTask \cup PointTask \cup SharedTask \cup UnlinkTask

\* What the writer carries over its disk work: a point's manifest flag is the
\* one it saw when it took the task.
Writing == BlockTask \cup [kind : {"point"}, job : Jobs, flag : BOOLEAN]
Idle == [kind |-> "idle"]

LiveStates == {"open", "publishing", "failed", "cancelled"}

Job == [key : Keys,
        state : LiveStates \cup {"unused", "ended"},
        capture : {"pending", "ok", "failed"},
        left : SUBSET Names,          \* new[next..]: still to stage
        out : SUBSET Names,           \* outstanding: staged, not written
        tailSlot : WriteSlots \cup {NoSlot},
        parked : BOOLEAN,
        size : Nat]

\* Not in use (its key means nothing).
NoWrite == [key |-> CHOOSE k \in Keys : TRUE, state |-> "unused", capture |-> "pending",
            left |-> {}, out |-> {}, tailSlot |-> NoSlot, parked |-> FALSE,
            size |-> 0]

Store == [points : SUBSET Keys,       \* the index: what lookups may return
          shared : SUBSET Keys,       \* Point.shared, indexed or waiting
          have : SUBSET Names,
          refs : [Names -> Nat],
          inflight : [Names -> Jobs \cup {NoJob}],
          jobs : [Jobs -> Job],
          tasks : Seq(Task),
          free : SUBSET WriteSlots,
          stored : Int,
          queued : Int]

TypeOK ==
    /\ store \in Store
    /\ reading \subseteq Keys
    /\ tickets \subseteq [job : Jobs, name : Names, slot : WriteSlots]
    /\ running \in Writing \cup SharedTask \cup {Idle}
    /\ files \subseteq Names
    /\ manifest \in [Keys -> Manifests]

-----------------------------------------------------------------------------
(* Helpers that run with the lock held *)

Live(s) == {j \in Jobs : s.jobs[j].state \in LiveStates}
WaitingKeys(s) == {s.jobs[j].key : j \in Live(s)}
NamesOf(s, j) == Blocks(s.jobs[j].key)

Queue(s, t) == [s EXCEPT !.tasks = Append(@, t)]

Ref(s, S) == [s EXCEPT !.refs = [n \in Names |-> IF n \in S THEN @[n] + 1 ELSE @[n]]]

Unref(s, S) ==
    [s EXCEPT !.refs = [n \in Names |->
        IF n \in S /\ @[n] > 0 THEN @[n] - 1 ELSE @[n]]]

\* dropBlock of every name of S the index has.
DropBlocks(s, S) ==
    LET gone == S \cap s.have IN
    IF gone = {} THEN s
    ELSE [s EXCEPT !.have = @ \ gone,
                   !.stored = @ - Cardinality(gone),
                   !.tasks = Append(@, [kind |-> "unlink", keys |-> {}, names |-> gone])]

Unreferenced(s, S) == {n \in S \cap s.have : s.refs[n] = 0 /\ s.inflight[n] = NoJob}

Gc(s, S) == DropBlocks(s, Unreferenced(s, S))

\* `remove` of every point of V: out of the index, its files queued for the
\* writer, its references gone, then the blocks only V named.
RemovePoints(s, V) ==
    LET gone == V \cap s.points
        named(n) == Cardinality({k \in gone : n \in Blocks(k)})
        s1 == [s EXCEPT !.points = @ \ gone,
                        !.shared = @ \ gone,
                        !.refs = [n \in Names |->
                            IF named(n) < @[n] THEN @[n] - named(n) ELSE 0],
                        !.stored = @ - FileBytes * Cardinality(gone),
                        !.tasks = Append(@, [kind |-> "unlink", keys |-> gone, names |-> {}])]
    IN IF gone = {} THEN s ELSE Gc(s1, UNION {Blocks(k) : k \in gone})

AddBlock(s, n) ==
    [s EXCEPT !.have = @ \cup {n},
              !.stored = IF n \in s.have THEN @ ELSE @ + 1]

\* Every block j names is on disk or no longer being written by anyone.
BlocksSettled(s, j) == \A n \in NamesOf(s, j) : n \in s.have \/ s.inflight[n] = NoJob

RecheckNone(s) == s

RecheckParked(s) ==
    LET ready == {j \in Jobs : s.jobs[j].parked /\ BlocksSettled(s, j)}
        order == SetToSeq(ready)
    IN [s EXCEPT
          !.jobs = [j \in Jobs |-> IF j \in ready THEN [@[j] EXCEPT !.parked = FALSE] ELSE @[j]],
          !.tasks = @ \o [i \in DOMAIN order |-> [kind |-> "point", job |-> order[i]]]]

DropInflightNone(s, j, n) == s

DropInflight(s, j, n) ==
    IF s.inflight[n] = j THEN RecheckParked([s EXCEPT !.inflight[n] = NoJob]) ELSE s

GiveSlotAny(s, w) == [s EXCEPT !.free = @ \cup {w}]

GiveSlot(s, w) == [s EXCEPT !.free = @ \cup ({w} \ {NoSlot})]

\* Block n of j is no longer outstanding, its slot free.
GiveBack(s, j, n, w) == [GiveSlot(s, w) EXCEPT !.jobs[j].out = @ \ {n}]

\* j leaves: its references, names in flight, reservation and slots go.
EndJob(s, j, published) ==
    LET k == s.jobs[j].key
        s1 == GiveSlot(s, s.jobs[j].tailSlot)
        s2 == [s1 EXCEPT
                 !.inflight = [n \in Names |-> IF @[n] = j THEN NoJob ELSE @[n]],
                 !.queued = @ - s.jobs[j].size,
                 !.shared = IF published THEN @ ELSE @ \ {k},
                 !.jobs[j] = [NoWrite EXCEPT !.state = "ended"]]
    IN RecheckParked(Gc(Unref(s2, Blocks(k)), Blocks(k)))

\* A job ready to publish goes to the writer; a failed or cancelled one with
\* nothing outstanding ends.
Settle(s, j) ==
    LET r == s.jobs[j] IN
    IF /\ r.state = "open" /\ r.left = {} /\ r.out = {}
       /\ r.capture = "ok" /\ r.tailSlot = NoSlot
    THEN Queue([s EXCEPT !.jobs[j].state = "publishing"], [kind |-> "point", job |-> j])
    ELSE IF r.state \in {"failed", "cancelled"} /\ r.out = {} /\ r.capture # "pending"
    THEN EndJob(s, j, FALSE)
    ELSE s

\* Open jobs that name n as a whole block, other than j.
Takers(s, j, n) ==
    {i \in Jobs \ {j} : /\ s.jobs[i].state = "open"
                        /\ n \in NamesOf(s, i) \ TailBlock(s.jobs[i].key)}

\* The ways j's unstaged blocks can be handed over (the first taker of a hash
\* map's order: any of them).
HandOvers(s, j) ==
    {h \in [s.jobs[j].left -> Jobs \cup {NoJob}] :
        \A n \in s.jobs[j].left : IF Takers(s, j, n) = {} THEN h[n] = NoJob
                                  ELSE h[n] \in Takers(s, j, n)}

\* What the taker of a handed block reserves for it.
HandedBytes(h) == Cardinality({n \in DOMAIN h : h[n] # NoJob})

\* A job that will not publish gives its unstaged blocks to another open job
\* that names them, their reservation with them, else lets their names go.
\* (The tail slot is never given back here: it is held only while the capture
\* is pending.)
Release(s, j, h) ==
    LET taken(i) == {n \in DOMAIN h : h[n] = i}
        left(i) == IF i = j THEN {} ELSE s.jobs[i].left \cup taken(i)
        size(i) == s.jobs[i].size + (IF i = j THEN 0 ELSE Cardinality(taken(i)))
        s1 == [s EXCEPT
                 !.jobs = [i \in Jobs |-> [@[i] EXCEPT !.left = left(i), !.size = size(i)]],
                 !.inflight = [n \in Names |->
                     IF n \notin DOMAIN h THEN @[n]
                     ELSE IF h[n] # NoJob THEN h[n]
                     ELSE IF @[n] = j THEN NoJob ELSE @[n]],
                 !.queued = @ + HandedBytes(h)]
    IN RecheckParked(s1)

\* state := failed, its blocks released.
Fail(s, j, h) == Release([s EXCEPT !.jobs[j].state = "failed"], j, h)

CancelJob(s, j, h) == Settle(Release([s EXCEPT !.jobs[j].state = "cancelled"], j, h), j)

\* Whether another point or waiting write names n.
StillNamed(s, n) == s.refs[n] > 1

-----------------------------------------------------------------------------
(* Room *)

\* Units the cap is short by for a write of `need` (queued writes count).
Over(s, need) == s.stored + s.queued + need - CapBytes

\* What makeRoom may take: `need` units, oldest victims first, until enough
\* is free or no victim is left.  Which victims come first is the eviction
\* order's business (victims); here any prefix of any order.
VictimsRead(s, protect) == s.points \ protect
Victims(s, protect) == (s.points \ reading) \ protect

MakesRoom(s, nbytes, protect, V) ==
    LET target == s.stored - nbytes IN
    /\ V \subseteq Victims(s, protect)
    /\ V # {} => \E v \in V : RemovePoints(s, V \ {v}).stored > target
    /\ RemovePoints(s, V).stored <= target \/ V = Victims(s, protect)

\* On p's path (the points it extends, below a shared one) the newest Turns
\* points stay, older ones go unless a restore reads them.
Path(s, p) ==
    LET line == {p} \cup (Older[p] \cap s.points) IN
    {q \in line : \A r \in line :
        r \in s.shared => q # r /\ Len(BlocksOf[r]) < Len(BlocksOf[q])}

TrimPath(s, p) ==
    LET path == Path(s, p)
        newer(q) == {r \in path : Len(BlocksOf[r]) > Len(BlocksOf[q])}
    IN IF Turns = 0 \/ p \in s.shared THEN s
       ELSE RemovePoints(s, {q \in path \ reading : Cardinality(newer(q)) >= Turns})

-----------------------------------------------------------------------------
(* The engine thread *)

AlreadyIndexed(s, k) == k \in s.points

AlreadyKept(s, k) == k \in s.points \cup WaitingKeys(s)

\* The flag of a stored or waiting point, durable when it is indexed.
MarkShared(k) ==
    /\ AlreadyKept(store, k) /\ k \notin store.shared
    /\ store' = LET s == [store EXCEPT !.shared = @ \cup {k}] IN
                IF k \in s.points THEN Queue(s, [kind |-> "shared", key |-> k]) ELSE s
    /\ UNCHANGED <<reading, tickets, running, files, manifest>>

NextJob(s) == {j \in Jobs : s.jobs[j].state = "unused" /\ \A i \in Jobs : i < j => s.jobs[i].state # "unused"}

\* The write j of point k, whose blocks `new` nobody else writes, its tail
\* captured into w.
Register(s, j, k, isShared, new, w) ==
    LET size == Cardinality(new) + FileBytes IN
    [s EXCEPT
       !.jobs[j] = [NoWrite EXCEPT !.key = k, !.state = "open", !.left = new \ TailBlock(k),
                                   !.tailSlot = w, !.size = size],
       !.inflight = [n \in Names |-> IF n \in new THEN j ELSE @[n]],
       !.shared = IF isShared THEN @ \cup {k} ELSE @,
       !.free = @ \ {w},
       !.queued = @ + size]

\* keep, for a point neither stored nor on its way.  Its references are taken
\* before room is made; a refusal gives them back.
Keep(k, isShared, V) ==
    /\ ~AlreadyKept(store, k)
    /\ \E j \in NextJob(store) :
        LET new == {n \in Blocks(k) : n \notin store.have /\ store.inflight[n] = NoJob}
            tail == new \cap TailBlock(k)
            need == Cardinality(new) + FileBytes
            pinned == Ref(store, Blocks(k))
            over == Over(store, need)
            s == IF over > 0 /\ over <= store.stored THEN RemovePoints(pinned, V) ELSE pinned
            fits == Over(s, need) <= 0
            smallFree == Cardinality(Live(s)) < SmallSlots
            refused == Gc(Unref(s, Blocks(k)), Blocks(k))
        IN /\ IF over > 0 /\ over <= store.stored
              THEN MakesRoom(pinned, over, {k}, V) ELSE V = {}
           /\ IF fits /\ smallFree /\ (tail = {} \/ s.free # {})
              THEN \E w \in IF tail = {} THEN {NoSlot} ELSE s.free :
                        store' = Register(s, j, k, isShared, new, w)
              ELSE store' = refused
    /\ UNCHANGED <<reading, tickets, running, files, manifest>>

\* The engine's copy of j's small state and tail completed, or failed.
Captured(j, ok) ==
    /\ j \in Live(store) /\ store.jobs[j].capture = "pending"
    /\ ~ok => EngineErrors
    /\ store' =
        LET r == store.jobs[j]
            r1 == [r EXCEPT !.capture = IF ok THEN "ok" ELSE "failed",
                            !.state = IF ~ok /\ @ = "open" THEN "failed" ELSE @,
                            !.tailSlot = NoSlot]
            s1 == [store EXCEPT !.jobs[j] = r1]
            s2 == IF r.tailSlot = NoSlot THEN s1
                  ELSE IF s1.jobs[j].state = "open"
                  THEN LET t == Last(BlocksOf[r.key]) IN
                       Queue([s1 EXCEPT !.jobs[j].out = @ \cup {t}],
                             [kind |-> "block", job |-> j, name |-> t, slot |-> r.tailSlot])
                  ELSE GiveSlot(s1, r.tailSlot)
        IN Settle(s2, j)
    /\ UNCHANGED <<reading, tickets, running, files, manifest>>

\* Blocks S of j go into the slots W.
Hand(s, j, S, W) ==
    LET r == s.jobs[j] IN
    [s EXCEPT !.jobs[j] = [r EXCEPT !.left = r.left \ S, !.out = r.out \cup S],
              !.free = @ \ W]

\* Between rounds: a waiting block into a free slot, its device copy started.
Stage(j, n, w) ==
    /\ store.jobs[j].state = "open" /\ n \in store.jobs[j].left /\ w \in store.free
    /\ store' = Hand(store, j, {n}, {w})
    /\ tickets' = tickets \cup {[job |-> j, name |-> n, slot |-> w]}
    /\ UNCHANGED <<reading, running, files, manifest>>

\* That copy completed, or could not be made: to the writer, or not written.
Staged(t, ok) ==
    /\ t \in tickets /\ tickets' = tickets \ {t}
    /\ ~ok => EngineErrors
    /\ \E h \in HandOvers(store, t.job) :
        LET j == t.job
            s == IF ~ok /\ store.jobs[j].state = "open" THEN Fail(store, j, h) ELSE store
        IN store' = IF s.jobs[j].state = "open" \/ (ok /\ StillNamed(s, t.name))
                    THEN Queue(s, [kind |-> "block", job |-> j, name |-> t.name, slot |-> t.slot])
                    ELSE Settle(DropInflight(GiveBack(s, j, t.name, t.slot), j, t.name), j)
    /\ UNCHANGED <<reading, running, files, manifest>>

\* j's source rows from block `from` on are about to change (each kept state
\* is a source of its own): what j has left is staged now, or j is cancelled.
Guard(j, from) ==
    LET left == store.jobs[j].left
        reaches == \E i \in DOMAIN BlocksOf[store.jobs[j].key] :
                       i > from /\ BlocksOf[store.jobs[j].key][i] \in left
    IN /\ store.jobs[j].state = "open" /\ left # {} /\ reaches
       /\ \/ /\ Cardinality(left) <= Cardinality(store.free)
             /\ \E f \in {g \in [left -> store.free] : IsInjective(g)} :
                  /\ store' = Hand(store, j, left, Range(f))
                  /\ tickets' = tickets \cup {[job |-> j, name |-> n, slot |-> f[n]] : n \in left}
          \/ /\ Cardinality(left) > Cardinality(store.free)
             /\ \E h \in HandOvers(store, j) : store' = CancelJob(store, j, h)
             /\ UNCHANGED tickets
       /\ UNCHANGED <<reading, running, files, manifest>>

Cancel(j) ==
    /\ store.jobs[j].state = "open"
    /\ \E h \in HandOvers(store, j) : store' = CancelJob(store, j, h)
    /\ UNCHANGED <<reading, tickets, running, files, manifest>>

\* A restore pins its point against eviction.
BeginRead(k) ==
    /\ k \in store.points /\ k \notin reading /\ Blocks(k) \subseteq store.have
    /\ reading' = reading \cup {k}
    /\ UNCHANGED <<store, tickets, running, files, manifest>>

EndRead(k) ==
    /\ k \in reading /\ reading' = reading \ {k}
    /\ UNCHANGED <<store, tickets, running, files, manifest>>

\* A restore of k failed: k goes, and the damaged or missing blocks with every
\* point that names one, read or not.
Forget(k, gone) ==
    /\ Damage /\ k \in reading
    /\ store' = LET naming == {p \in store.points : Blocks(p) \cap gone # {}} IN
                DropBlocks(RemovePoints(store, {k} \cup naming), gone)
    /\ UNCHANGED <<reading, tickets, running, files, manifest>>

-----------------------------------------------------------------------------
(* The writer thread *)

Takes(kind) ==
    /\ running = Idle /\ store.tasks # << >> /\ Head(store.tasks).kind = kind

Popped == [store EXCEPT !.tasks = Tail(@)]

\* Cancelled meanwhile and nobody else names it: not written.
TakeBlock ==
    /\ Takes("block")
    /\ LET t == Head(store.tasks)
           wanted == store.jobs[t.job].state = "open" \/ StillNamed(store, t.name)
           s == GiveBack(Popped, t.job, t.name, t.slot)
       IN /\ running' = IF wanted THEN t ELSE Idle
          /\ store' = IF wanted THEN Popped
                      ELSE Settle(DropInflight(s, t.job, t.name), t.job)
    /\ UNCHANGED <<reading, tickets, files, manifest>>

\* A failure after the rename leaves the file, outside the index.
BlockWritten(ok) ==
    /\ running.kind = "block" /\ running' = Idle
    /\ ~ok => DiskErrors
    /\ \E h \in HandOvers(store, running.job) :
        LET j == running.job
            n == running.name
            s == GiveBack(store, j, n, running.slot)
            s1 == IF ok THEN AddBlock(s, n)
                  ELSE IF s.jobs[j].state = "open" THEN Fail(s, j, h) ELSE s
        IN store' = Settle(DropInflight(s1, j, n), j)
    /\ files' \in IF ok THEN {files \cup {running.name}}
                  ELSE {files, files \cup {running.name}}
    /\ UNCHANGED <<reading, tickets, manifest>>

\* A point whose blocks are all handed over: parked while a block another
\* write owns is on its way, failed when one it names is gone.
TakePoint ==
    /\ Takes("point")
    /\ LET j == Head(store.tasks).job
           k == store.jobs[j].key
       IN \/ /\ ~BlocksSettled(store, j)
             /\ store' = [Popped EXCEPT !.jobs[j].parked = TRUE]
             /\ UNCHANGED running
          \/ /\ BlocksSettled(store, j) /\ ~(Blocks(k) \subseteq store.have)
             /\ store' = EndJob(Popped, j, FALSE)
             /\ UNCHANGED running
          \/ /\ Blocks(k) \subseteq store.have
             /\ store' = Popped
             /\ running' = [kind |-> "point", job |-> j, flag |-> k \in store.shared]
    /\ UNCHANGED <<reading, tickets, files, manifest>>

Flag(isShared) == IF isShared THEN "shared" ELSE "private"

\* The files are on disk, the manifest last.  Indexed unless a block it names
\* was dropped meanwhile; a flag set meanwhile is written again.
PointWritten ==
    /\ running.kind = "point" /\ running' = Idle
    /\ LET j == running.job
           k == store.jobs[j].key
           s1 == [Ref(store, Blocks(k)) EXCEPT !.points = @ \cup {k},
                                               !.stored = @ + FileBytes]
           s2 == EndJob(s1, j, TRUE)
           s3 == IF k \in s2.shared /\ ~running.flag
                 THEN Queue(s2, [kind |-> "shared", key |-> k]) ELSE s2
       IN /\ manifest' = [manifest EXCEPT ![k] = Flag(running.flag)]
          /\ store' = IF Blocks(k) \subseteq store.have THEN TrimPath(s3, k)
                      ELSE EndJob(Queue(store, [kind |-> "unlink", keys |-> {k}, names |-> {}]),
                                  j, FALSE)
    /\ UNCHANGED <<reading, tickets, files>>

\* A step of the publication failed: its files are unlinked.
PointFailed ==
    /\ DiskErrors /\ running.kind = "point" /\ running' = Idle
    /\ store' = EndJob(store, running.job, FALSE)
    /\ manifest' = [manifest EXCEPT ![store.jobs[running.job].key] = "none"]
    /\ UNCHANGED <<reading, tickets, files>>

\* A point dropped before its rewrite is left alone.
TakeShared ==
    /\ Takes("shared")
    /\ store' = Popped
    /\ running' = IF Head(store.tasks).key \in store.points THEN Head(store.tasks) ELSE Idle
    /\ UNCHANGED <<reading, tickets, files, manifest>>

\* One dropped while its manifest was rewritten loses it again.  A failure
\* after the rename leaves the new manifest.
SharedWritten(ok) ==
    /\ running.kind = "shared" /\ running' = Idle
    /\ ~ok => DiskErrors
    /\ \E m \in IF running.key \notin store.points THEN {"none"}
                ELSE IF ok THEN {"shared"} ELSE {manifest[running.key], "shared"} :
          manifest' = [manifest EXCEPT ![running.key] = m]
    /\ UNCHANGED <<store, reading, tickets, files>>

Unlink ==
    /\ Takes("unlink")
    /\ store' = Popped
    /\ files' = files \ Head(store.tasks).names
    /\ manifest' = [k \in Keys |-> IF k \in Head(store.tasks).keys THEN "none" ELSE manifest[k]]
    /\ UNCHANGED <<reading, tickets, running>>

-----------------------------------------------------------------------------
Init ==
    /\ store = [points |-> {}, shared |-> {}, have |-> {},
                refs |-> [n \in Names |-> 0],
                inflight |-> [n \in Names |-> NoJob],
                jobs |-> [j \in Jobs |-> NoWrite],
                tasks |-> << >>, free |-> WriteSlots, stored |-> 0, queued |-> 0]
    /\ reading = {} /\ tickets = {} /\ running = Idle
    /\ files = {} /\ manifest = [k \in Keys |-> "none"]

Engine ==
    \/ \E k \in Keys : \/ MarkShared(k)
                       \/ \E b \in BOOLEAN, V \in SUBSET store.points : Keep(k, b, V)
                       \/ BeginRead(k)
                       \/ EndRead(k)
                       \/ \E gone \in SUBSET Blocks(k) : Forget(k, gone)
    \/ \E j \in Jobs : \/ \E ok \in BOOLEAN : Captured(j, ok)
                       \/ \E n \in Names, w \in WriteSlots : Stage(j, n, w)
                       \/ \E from \in 0 .. Cardinality(Names) : Guard(j, from)
                       \/ Cancel(j)
    \/ \E t \in tickets, ok \in BOOLEAN : Staged(t, ok)

Writer ==
    \/ TakeBlock \/ TakePoint \/ TakeShared \/ Unlink
    \/ PointWritten \/ PointFailed
    \/ \E ok \in BOOLEAN : BlockWritten(ok) \/ SharedWritten(ok)

Next == Engine \/ Writer

Spec == Init /\ [][Next]_vars
-----------------------------------------------------------------------------
(* Safety *)

\* References are exact: one for every indexed point and one for every live
\* write that names the block.  (ref, remove, keep, endJob: a lost reference
\* evicts a block in use, a leaked one keeps its file for ever.)
RefsExact ==
    \A n \in Names : store.refs[n] =
        Cardinality({k \in store.points : n \in Blocks(k)})
        + Cardinality({j \in Live(store) : n \in NamesOf(store, j)})

\* Whatever a restore may be offered is whole: every block of an indexed point
\* is in the index of blocks and on disk, and its manifest is there, although
\* deletions, rewrites and evictions are still queued behind each other.
IndexedIsOnDisk ==
    /\ store.have \subseteq files
    /\ \A k \in store.points : Blocks(k) \subseteq store.have /\ manifest[k] # "none"

\* No queued deletion names something the index lists: a name deleted and
\* written again is written after its deletion ran.
NoDeletionOfLive ==
    \A i \in DOMAIN store.tasks : store.tasks[i].kind = "unlink" =>
        /\ store.tasks[i].names \cap store.have = {}
        /\ store.tasks[i].keys \cap store.points = {}

\* Nothing is left behind: a block the index has is named by a point or a
\* live write (gc), so its space can be made free again.
NoOrphanBlock == \A n \in store.have : store.refs[n] > 0

\* A name in flight belongs to a live write that still has it to stage, to
\* write, or holds it until it ends; otherwise a parked point would wait for
\* a block nobody writes.
Owned(j, n) ==
    /\ j \in Live(store)
    /\ \/ n \in store.jobs[j].left \cup store.jobs[j].out
       \/ n \in TailBlock(store.jobs[j].key) /\ store.jobs[j].capture = "pending"
       \/ store.jobs[j].state \in {"failed", "cancelled"} /\ n \in NamesOf(store, j)

InflightOwned ==
    \A n \in Names : store.inflight[n] # NoJob => Owned(store.inflight[n], n)

\* The holders of write slots: device copies, queued or running block tasks,
\* tails being captured.
BlockTasks == {t \in Range(store.tasks) \cup {running} : t.kind = "block"}
Holders == {[job |-> t.job, name |-> t.name, slot |-> t.slot] : t \in tickets \cup BlockTasks}
TailSlots == {store.jobs[j].tailSlot : j \in Live(store)} \ {NoSlot}

\* Every slot is free or held by exactly one user (slots.zig asserts a slot
\* is never returned twice; two holders would overwrite each other's bytes).
SlotsOnce ==
    /\ \A x, y \in Holders : x.slot = y.slot => x = y
    /\ \A j \in Live(store) : store.jobs[j].tailSlot \notin {x.slot : x \in Holders}
    /\ store.free = WriteSlots \ ({x.slot : x \in Holders} \cup TailSlots)

\* The writer and the engine hold pointers to jobs: each is still live, and
\* counts the block as outstanding (Task.block.job, Task.point, a Ticket).
NoDanglingJob ==
    /\ \A x \in Holders : x.job \in Live(store) /\ x.name \in store.jobs[x.job].out
    /\ \A t \in Range(store.tasks) \cup {running} :
          t.kind = "point" => store.jobs[t.job].state = "publishing"
    /\ \A j \in Jobs : store.jobs[j].parked => store.jobs[j].state = "publishing"

\* The cap (Config.cap_bytes) holds whatever is evicted, handed over or
\* written for somebody else.
CapHolds == store.stored <= CapBytes

\* stored_bytes and queued_bytes are what they say: a drift would refuse
\* every keep for ever, or let the store grow past its cap.
BytesExact ==
    /\ store.stored = Cardinality(store.have) + FileBytes * Cardinality(store.points)
    /\ Live(store) = {} => store.queued = 0

\* The index, its references, its byte counts, the queued deletions and the
\* files stay one consistent store through every interleaving of keeps,
\* cancels, evictions, restores that forget and the writer's unlocked work.
IndexExact ==
    /\ RefsExact /\ NoOrphanBlock /\ BytesExact /\ CapHolds
    /\ IndexedIsOnDisk /\ NoDeletionOfLive

\* Every name in flight, slot and pointer to a job has exactly one live owner,
\* on every path on which a write fails, is cancelled or is handed over.
WritesAccounted == InflightOwned /\ SlotsOnce /\ NoDanglingJob

\* With no task left the disk is the index: nothing resurrected, nothing
\* leaked, every shared flag durable.  (Without disk errors: a failed rewrite
\* is not tried again.)
AtRest == store.tasks = << >> /\ running = Idle
DiskIsIndexAtRest ==
    AtRest =>
        /\ files = store.have
        /\ \A k \in Keys : manifest[k] =
              IF k \in store.points THEN Flag(k \in store.shared) ELSE "none"

\* While a write is open every block it names is stored or on its way: making
\* room never takes one (GLM 0110's pin), another write's end never drops one.
\* (Without copies or disk work that fail and without damage.)
OpenWritesCovered ==
    \A j \in Jobs : store.jobs[j].state = "open" =>
        \A n \in NamesOf(store, j) : n \in store.have \/ store.inflight[n] # NoJob

\* Only damage takes a point that a restore reads out of the index.
ReadPointsStay ==
    [][\A k \in reading : k \in store.points /\ k \notin store'.points =>
          \E p \in Keys, gone \in SUBSET Names : Forget(p, gone)]_vars

-----------------------------------------------------------------------------
(* Liveness *)

HasTask == running # Idle \/ store.tasks # << >>
Copies == \E t \in tickets, ok \in BOOLEAN : Staged(t, ok)

\* Device copies complete, the engine stages between rounds, the writer runs.
\* (The first and the last are weak fairness with ENABLED written out: a
\* writer that has a task, or a copy in flight, can always go on.)
Fairness ==
    /\ []<>~HasTask \/ []<><<Writer>>_vars
    /\ \A j \in Jobs : /\ WF_vars(Captured(j, TRUE))
                       /\ SF_vars(\E n \in Names, w \in WriteSlots : Stage(j, n, w))
    /\ []<>(tickets = {}) \/ []<><<Copies>>_vars

LiveSpec == Spec /\ Fairness

\* Every write ends: none is parked for ever on another's block, none waits
\* for a slot for ever.
WritesEnd == \A j \in Jobs : j \in Live(store) ~> j \notin Live(store)
=============================================================================
