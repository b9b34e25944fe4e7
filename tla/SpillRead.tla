------------------------------ MODULE SpillRead ------------------------------
(***************************************************************************)
(* Restores on one rank: the reads of the spill store (core/spill/         *)
(* store.zig) and the side of the tier that copies them to the device      *)
(* (families/dsv41/spill_tier.zig).                                        *)
(*                                                                         *)
(* A restore takes a point's blocks into read slots, as slots come free,   *)
(* and its small state into a restore slot.  Reader threads take tasks     *)
(* from one queue and read with the lock released.  The engine thread      *)
(* hands out the blocks in order, copies each to the device and gives its  *)
(* slot back when the copy's event completed; then it commits the restore, *)
(* or it aborts or cancels it while reads and copies are under way.        *)
(*                                                                         *)
(* `rs` is what Store.mutex protects.  The readers' queue is the set of    *)
(* blocks and small states in state "queued": any of them may be next.     *)
(* A point that leaves the index is not kept again here.                   *)
(***************************************************************************)
EXTENDS Integers, FiniteSets, FiniteSetsExt

CONSTANTS
    Keys,           \* points
    Total,          \* Total[k]: number of blocks of point k
    MaxBlocks,      \* bound: blocks of a point
    MaxReads,       \* Config.max_reads: restores in flight
    MaxIds,         \* bound: restores in one behavior
    ReadSlots,      \* slots for blocks
    RestoreSlots,   \* number of slots for small states
    Readers,        \* number of reader threads
    ReadErrors,     \* whether a listed point's files may fail to be read
    EngineErrors,   \* whether a copy to the device may fail to start
    Nobody          \* holder of a free slot

Ids == 1 .. MaxIds
Idx == 1 .. MaxBlocks

ASSUME ReadAssumption ==
    /\ IsFiniteSet(Keys) /\ Keys # {} /\ IsFiniteSet(ReadSlots)
    /\ MaxBlocks \in Nat /\ MaxIds \in Nat /\ Total \in [Keys -> 0 .. MaxBlocks]
    /\ MaxReads \in Nat /\ RestoreSlots \in Nat /\ Readers \in Nat
    /\ ReadErrors \in BOOLEAN /\ EngineErrors \in BOOLEAN
    /\ Nobody \notin Ids \X Idx

VARIABLES
    rs,         \* the store's reads, slots and points
    rx,         \* the engine's view of each restore (Rx)
    copies,     \* copies on the device whose event has not completed
    engine      \* what the engine thread is in the middle of (rxEnd)

rvars == <<rs, rx, copies, engine>>

BState == {"idle", "queued", "reading", "ready", "handed", "failed"}
Smalls == {"queued", "reading", "ready", "failed"}
Phases == {"unused", "live", "ended", "freed"}

Read == [phase : Phases, key : Keys,
         block : [Idx -> BState],
         assigned : 0 .. MaxBlocks,     \* next_assign
         handed : 0 .. MaxBlocks,       \* next_hand
         small : Smalls, err : BOOLEAN,
         disk : Nat, held : Nat]

NoRead == [phase |-> "unused", key |-> CHOOSE k \in Keys : TRUE,
           block |-> [i \in Idx |-> "idle"],
           assigned |-> 0, handed |-> 0, small |-> "queued", err |-> FALSE,
           disk |-> 0, held |-> 0]

\* holder: a read slot's owner and the block it was given for (ReadJob.slot).
\* point: in the index, removed while pinned, or freed.  Index 0 of a copy is
\* the small state.
ReadStore == [reads : [Ids -> Read],
              holder : [ReadSlots -> (Ids \X Idx) \cup {Nobody}],
              small : 0 .. RestoreSlots,    \* free restore slots
              point : [Keys -> {"listed", "removed", "freed"}],
              pins : [Keys -> Nat],
              reading : [Keys -> Nat]]

RxOf == [failed : BOOLEAN, small : {"none", "pending", "done"}]
NoRx == [failed |-> FALSE, small |-> "none"]
Copy == [read : Ids, index : Idx, slot : ReadSlots] \cup [read : Ids, index : {0}]
Ending == [pc : {"quiesce", "forget", "end"}, read : Ids, forget : BOOLEAN]
Free == [pc |-> "idle"]

ReadTypeOK ==
    /\ rs \in ReadStore
    /\ rx \in [Ids -> RxOf]
    /\ copies \subseteq Copy
    /\ engine \in Ending \cup {Free}

-----------------------------------------------------------------------------
(* Helpers that run with the lock held *)

LiveReads(s) == {r \in Ids : s.reads[r].phase = "live"}

FreeSlots(s) == {w \in ReadSlots : s.holder[w] = Nobody}

\* Blocks a free slot may go to: those of live restores that have not failed.
Wanted(s) ==
    UNION {{<<r, i>> : i \in s.reads[r].assigned + 1 .. Total[s.reads[r].key]} :
           r \in {q \in LiveReads(s) : ~s.reads[q].err}}

Got(g, r) == Cardinality({w \in DOMAIN g : g[w] # Nobody /\ g[w][1] = r})
Given(g) == {g[w] : w \in DOMAIN g} \ {Nobody}
More(s, g, r) == \E b \in Wanted(s) \ Given(g) : b[1] = r

\* Each slot to a restore that holds the fewest.
Fair(s, g) ==
    \A r \in LiveReads(s), q \in LiveReads(s) :
        Got(g, r) > 0 /\ More(s, g, q) =>
            s.reads[r].held + Got(g, r) <= s.reads[q].held + Got(g, q) + 1

\* Ways to give out the free slots: a restore's blocks in order, no slot idle
\* that a restore wants.
Allotments(s) ==
    {g \in [FreeSlots(s) -> Wanted(s) \cup {Nobody}] :
        /\ \A v, w \in FreeSlots(s) : g[v] = g[w] /\ g[v] # Nobody => v = w
        /\ \A b \in Given(g) : \A i \in s.reads[b[1]].assigned + 1 .. b[2] : <<b[1], i>> \in Given(g)
        /\ (\E w \in FreeSlots(s) : g[w] = Nobody) => Wanted(s) \subseteq Given(g)
        /\ Fair(s, g)}

\* assign
Queued(r, read, g) ==
    [read EXCEPT
       !.block = [i \in Idx |-> IF <<r, i>> \in Given(g) THEN "queued" ELSE @[i]],
       !.assigned = @ + Got(g, r), !.disk = @ + Got(g, r), !.held = @ + Got(g, r)]

Allot(s, g) ==
    [s EXCEPT !.reads = [r \in Ids |-> Queued(r, @[r], g)],
              !.holder = [w \in ReadSlots |->
                            IF w \in DOMAIN g THEN g[w] ELSE @[w]]]

Assign(s) == {Allot(s, g) : g \in Allotments(s)}

SlotsOf(s, r, S) == {w \in ReadSlots : s.holder[w] \in {r} \X S}

\* giveRead of every slot that blocks S of r have.
GiveRead(s, r, S) ==
    [s EXCEPT !.holder = [w \in ReadSlots |-> IF w \in SlotsOf(s, r, S) THEN Nobody ELSE @[w]],
              !.reads[r].held = @ - Cardinality(SlotsOf(s, r, S))]

\* maybeFreeRead: the last use of a point out of the index frees it.
MaybeFreeRead(s, r) ==
    LET k == s.reads[r].key IN
    IF s.reads[r].phase # "ended" \/ s.reads[r].disk # 0 \/ s.reads[r].held # 0 THEN s
    ELSE [s EXCEPT !.reads[r] = [NoRead EXCEPT !.phase = "freed", !.key = k],
                   !.pins[k] = @ - 1,
                   !.point[k] = IF s.pins[k] = 1 /\ @ = "removed" THEN "freed" ELSE @]

Remove(s, k) ==
    IF s.point[k] # "listed" THEN s
    ELSE [s EXCEPT !.point[k] = IF s.pins[k] > 0 THEN "removed" ELSE "freed"]

\* readRelease
ReleaseOnly(s, r, i) == {MaybeFreeRead(GiveRead(s, r, {i}), r)}
Release(s, r, i) == Assign(MaybeFreeRead(GiveRead(s, r, {i}), r))

-----------------------------------------------------------------------------
(* The engine thread *)

EngineFree == engine = Free

NextId(r) == rs.reads[r].phase = "unused" /\ \A q \in Ids : rs.reads[q].phase = "unused" => r <= q

\* beginRead; refused when too many restores run or no restore slot is free.
BeginRead(r, k) ==
    /\ EngineFree /\ NextId(r) /\ rs.point[k] = "listed"
    /\ Cardinality(LiveReads(rs)) < MaxReads /\ rs.small > 0
    /\ rs' \in Assign([rs EXCEPT
                !.reads[r] = [NoRead EXCEPT !.phase = "live", !.key = k, !.disk = 1],
                !.small = @ - 1, !.pins[k] = @ + 1, !.reading[k] = @ + 1])
    /\ UNCHANGED <<rx, copies, engine>>

Running(r) == EngineFree /\ rs.reads[r].phase = "live" /\ ~rx[r].failed

Next_(r) == rs.reads[r].handed + 1
AllHanded(r) == rs.reads[r].handed = Total[rs.reads[r].key]

HandOutSlot(s, r, i) ==
    [GiveRead(s, r, {i}) EXCEPT !.reads[r].block[i] = "handed", !.reads[r].handed = i]

HandOut(s, r, i) ==
    [s EXCEPT !.reads[r].block[i] = "handed", !.reads[r].handed = i]

\* rxStep, one block: readReady hands it, its copy starts (or cannot, and its
\* slot goes back at once).
RxStep(r) ==
    /\ Running(r) /\ ~AllHanded(r) /\ rs.reads[r].block[Next_(r)] = "ready"
    /\ LET s == HandOut(rs, r, Next_(r)) IN
          \/ /\ rs' = s /\ UNCHANGED rx
             /\ \E w \in SlotsOf(rs, r, {Next_(r)}) :
                   copies' = copies \cup {[read |-> r, index |-> Next_(r), slot |-> w]}
          \/ /\ EngineErrors /\ rs' \in Release(s, r, Next_(r))
             /\ rx' = [rx EXCEPT ![r].failed = TRUE] /\ UNCHANGED copies
    /\ UNCHANGED engine

\* rxSmall, after every block's copy started.
RxSmall(r) ==
    /\ Running(r) /\ AllHanded(r) /\ rx[r].small = "none" /\ rs.reads[r].small = "ready"
    /\ \/ /\ copies' = copies \cup {[read |-> r, index |-> 0]}
          /\ rx' = [rx EXCEPT ![r].small = "pending"]
       \/ /\ EngineErrors /\ rx' = [rx EXCEPT ![r].failed = TRUE] /\ UNCHANGED copies
    /\ UNCHANGED <<rs, engine>>

\* rxStep and rxSmall meet a read that failed.
RxFails(r) ==
    /\ Running(r)
    /\ IF AllHanded(r)
       THEN rx[r].small = "none" /\ rs.reads[r].small # "ready" /\ rs.reads[r].err
       ELSE \/ rs.reads[r].block[Next_(r)] = "failed"
            \/ rs.reads[r].err /\ rs.reads[r].block[Next_(r)] # "ready"
    /\ rx' = [rx EXCEPT ![r].failed = TRUE]
    /\ UNCHANGED <<rs, copies, engine>>

\* done: a copy's event completed (retire), or was waited for (rxQuiesce).
Done(c) ==
    /\ copies' = copies \ {c}
    /\ IF c.index = 0
       THEN rx' = [rx EXCEPT ![c.read].small = "done"] /\ UNCHANGED rs
       ELSE rs' \in Release(rs, c.read, c.index) /\ UNCHANGED rx

CopyDone(c) == EngineFree /\ Done(c) /\ UNCHANGED engine

\* endRead: blocks read and not handed give their slots back; the small slot
\* comes back from its reader if it is still at it.
EndedSmallTwice(s, r) ==
    LET back == {i \in Idx : s.reads[r].block[i] = "ready"} IN
    [GiveRead(s, r, back) EXCEPT
       !.reads[r].phase = "ended", !.small = @ + 1, !.reading[s.reads[r].key] = @ - 1,
       !.reads[r].block = [i \in Idx |-> IF i \in back THEN "failed" ELSE @[i]]]

Ended(s, r) ==
    LET back == {i \in Idx : s.reads[r].block[i] = "ready"} IN
    [GiveRead(s, r, back) EXCEPT
       !.reads[r].phase = "ended",
       !.reads[r].block = [i \in Idx |-> IF i \in back THEN "failed" ELSE @[i]],
       !.small = @ + (IF s.reads[r].small \in {"queued", "reading"} THEN 0 ELSE 1),
       !.reading[s.reads[r].key] = @ - 1]

RxReadyUnsettled(r) == AllHanded(r) /\ rx[r].small = "done"

RxReady(r) ==
    /\ AllHanded(r) /\ rx[r].small = "done"
    /\ \A c \in copies : c.read # r

\* rxCommit, once every block and the small state are installed; endRead
\* refuses a read that failed.
Commit(r) ==
    /\ Running(r) /\ RxReady(r) /\ ~rs.reads[r].err /\ rs.reads[r].small = "ready"
    /\ rs' \in Assign(MaybeFreeRead(Ended(rs, r), r))
    /\ rx' = [rx EXCEPT ![r] = NoRx]
    /\ UNCHANGED <<copies, engine>>

\* rxEnd: its copies waited for, the point forgotten when a rank found it
\* damaged, its reads ended.  The lock is taken for each part.
RxEnd(r, forget) ==
    /\ EngineFree /\ rs.reads[r].phase = "live"
    /\ engine' = [pc |-> "quiesce", read |-> r, forget |-> forget]
    /\ UNCHANGED <<rs, rx, copies>>

RxQuiesce ==
    /\ engine.pc = "quiesce"
    /\ \/ /\ \E c \in copies : c.read = engine.read /\ Done(c)
          /\ UNCHANGED engine
       \/ /\ \A c \in copies : c.read # engine.read
          /\ engine' = [engine EXCEPT !.pc = IF engine.forget THEN "forget" ELSE "end"]
          /\ UNCHANGED <<rs, rx, copies>>

\* Its point goes, and others whose blocks are bad or lost too.
RxForget ==
    /\ engine.pc = "forget" /\ engine' = [engine EXCEPT !.pc = "end"]
    /\ \E k2 \in Keys : rs' = Remove(Remove(rs, rs.reads[engine.read].key), k2)
    /\ UNCHANGED <<rx, copies>>

EndRead ==
    /\ engine.pc = "end" /\ engine' = Free
    /\ rs' \in Assign(MaybeFreeRead(Ended(rs, engine.read), engine.read))
    /\ rx' = [rx EXCEPT ![engine.read] = NoRx]
    /\ UNCHANGED copies

\* A write makes room, or trims: no point that is being read goes.
Evict(k) ==
    /\ EngineFree /\ rs.point[k] = "listed" /\ rs.reading[k] = 0
    /\ rs' = Remove(rs, k) /\ UNCHANGED <<rx, copies, engine>>

\* forget on another rank's word.
Forget(k) ==
    /\ EngineFree /\ rs.point[k] = "listed"
    /\ rs' = Remove(rs, k) /\ UNCHANGED <<rx, copies, engine>>

-----------------------------------------------------------------------------
(* A reader thread *)

Busy == Cardinality({b \in Ids \X Idx : rs.reads[b[1]].block[b[2]] = "reading"})
        + Cardinality({r \in Ids : rs.reads[r].small = "reading"})

HasTask(r) == rs.reads[r].phase \in {"live", "ended"}

\* A block of a restore that ended or failed is not read.
SkipBlock(r, i) ==
    /\ HasTask(r) /\ rs.reads[r].block[i] = "queued" /\ Busy < Readers
    /\ rs.reads[r].phase = "ended" \/ rs.reads[r].err
    /\ LET s == GiveRead(rs, r, {i})
       IN rs' \in Assign(MaybeFreeRead([s EXCEPT !.reads[r].block[i] = "failed",
                                                 !.reads[r].disk = @ - 1], r))
    /\ UNCHANGED <<rx, copies, engine>>

TakeBlock(r, i) ==
    /\ rs.reads[r].phase = "live" /\ ~rs.reads[r].err
    /\ rs.reads[r].block[i] = "queued" /\ Busy < Readers
    /\ rs' = [rs EXCEPT !.reads[r].block[i] = "reading"]
    /\ UNCHANGED <<rx, copies, engine>>

MayFail(r) == ReadErrors \/ rs.point[rs.reads[r].key] # "listed"

\* A failed block is never handed: its slot comes back now.
BlockRead(r, i, ok) ==
    /\ rs.reads[r].block[i] = "reading" /\ (ok \/ MayFail(r))
    /\ LET s == [rs EXCEPT !.reads[r].disk = @ - 1]
           failed == [GiveRead(s, r, {i}) EXCEPT !.reads[r].block[i] = "failed"]
       IN IF rs.reads[r].phase = "ended"
          THEN rs' \in Assign(MaybeFreeRead(failed, r))
          ELSE rs' = IF ok THEN [s EXCEPT !.reads[r].block[i] = "ready"]
                     ELSE [failed EXCEPT !.reads[r].err = TRUE]
    /\ UNCHANGED <<rx, copies, engine>>

\* The small state of a restore that ended: its reader gives the slot back
\* ("failed" here: no longer queued or being read).
SmallGone(s, r) ==
    [s EXCEPT !.reads[r].disk = @ - 1, !.reads[r].small = "failed", !.small = @ + 1]

SkipSmall(r) ==
    /\ rs.reads[r].phase = "ended" /\ rs.reads[r].small = "queued" /\ Busy < Readers
    /\ rs' \in Assign(MaybeFreeRead(SmallGone(rs, r), r))
    /\ UNCHANGED <<rx, copies, engine>>

TakeSmall(r) ==
    /\ rs.reads[r].phase = "live" /\ rs.reads[r].small = "queued" /\ Busy < Readers
    /\ rs' = [rs EXCEPT !.reads[r].small = "reading"]
    /\ UNCHANGED <<rx, copies, engine>>

SmallRead(r, ok) ==
    /\ rs.reads[r].small = "reading" /\ (ok \/ MayFail(r))
    /\ IF rs.reads[r].phase = "ended"
       THEN rs' \in Assign(MaybeFreeRead(SmallGone(rs, r), r))
       ELSE rs' = [rs EXCEPT !.reads[r].disk = @ - 1,
                             !.reads[r].small = IF ok THEN "ready" ELSE "failed",
                             !.reads[r].err = @ \/ ~ok]
    /\ UNCHANGED <<rx, copies, engine>>

-----------------------------------------------------------------------------
ReadInit ==
    /\ rs = [reads |-> [r \in Ids |-> NoRead],
             holder |-> [w \in ReadSlots |-> Nobody],
             small |-> RestoreSlots,
             point |-> [k \in Keys |-> "listed"],
             pins |-> [k \in Keys |-> 0], reading |-> [k \in Keys |-> 0]]
    /\ rx = [r \in Ids |-> NoRx]
    /\ copies = {} /\ engine = Free

Restoring ==
    \/ \E r \in Ids, k \in Keys : BeginRead(r, k)
    \/ \E r \in Ids : RxStep(r) \/ RxSmall(r) \/ RxFails(r) \/ Commit(r)
    \/ \E r \in Ids, forget \in BOOLEAN : RxEnd(r, forget)
    \/ \E c \in copies : CopyDone(c)
    \/ RxQuiesce \/ RxForget \/ EndRead
    \/ \E k \in Keys : Evict(k) \/ Forget(k)

Reader ==
    \/ \E r \in Ids, i \in Idx : SkipBlock(r, i) \/ TakeBlock(r, i)
    \/ \E r \in Ids, i \in Idx, ok \in BOOLEAN : BlockRead(r, i, ok)
    \/ \E r \in Ids : SkipSmall(r) \/ TakeSmall(r)
    \/ \E r \in Ids, ok \in BOOLEAN : SmallRead(r, ok)

ReadNext == Restoring \/ Reader

ReadSpec == ReadInit /\ [][ReadNext]_rvars

\* The engine polls every restore it began and ends one that failed; it may
\* never cancel one.  Events complete, and a reader always takes a next task.
ReadFairness ==
    /\ WF_rvars(Reader)
    /\ \A r \in Ids : WF_rvars(RxStep(r)) /\ WF_rvars(RxSmall(r)) /\ WF_rvars(Commit(r))
                      /\ WF_rvars(RxFails(r)) /\ WF_rvars(rx[r].failed /\ RxEnd(r, FALSE))
    /\ WF_rvars(\E c \in copies : CopyDone(c))
    /\ WF_rvars(RxQuiesce) /\ WF_rvars(RxForget) /\ WF_rvars(EndRead)

LiveReadSpec == ReadSpec /\ ReadFairness

-----------------------------------------------------------------------------
(* Safety *)

InUse(r) == rs.reads[r].phase \in {"live", "ended"}

Tasks(r) == Cardinality({i \in Idx : rs.reads[r].block[i] \in {"queued", "reading"}})
            + (IF rs.reads[r].small \in {"queued", "reading"} THEN 1 ELSE 0)

\* Every slot is free or counted by the restore that holds it, and the counts
\* that decide when a restore is freed are exact: what holds a slot and what a
\* reader still has to do, wherever a restore is cut short.
SlotsExact ==
    /\ \A r \in Ids : rs.reads[r].held = Cardinality(SlotsOf(rs, r, Idx))
    /\ \A r \in Ids : InUse(r) => rs.reads[r].disk = Tasks(r)
    /\ \A w \in ReadSlots : rs.holder[w] # Nobody => InUse(rs.holder[w][1])
    /\ rs.small + Cardinality({r \in Ids :
          \/ rs.reads[r].phase = "live"
          \/ rs.reads[r].phase = "ended" /\ rs.reads[r].small \in {"queued", "reading"}})
       = RestoreSlots

\* A slot's bytes have one use: the read of the block it was given for, or the
\* copy of that block.  A reader never overwrites what the device still copies.
SlotsExclusive ==
    /\ \A r \in Ids, i \in Idx :
          rs.reads[r].block[i] \in {"queued", "reading", "ready"} => SlotsOf(rs, r, {i}) # {}
    /\ \A c \in copies : c.index # 0 =>
          rs.holder[c.slot] = <<c.read, c.index>> /\ rs.reads[c.read].block[c.index] = "handed"
    /\ \A w \in ReadSlots : rs.holder[w] # Nobody =>
          LET r == rs.holder[w][1]
              i == rs.holder[w][2]
          IN \/ rs.reads[r].block[i] \in {"queued", "reading", "ready"}
             \/ \E c \in copies : c.read = r /\ c.index = i

\* The point a restore reads, in the index or not, lives until the restore is
\* freed, and is freed with the last: no reader or poll follows a pointer to a
\* freed point, none is leaked.
PointsOutliveReads ==
    /\ \A r \in Ids : InUse(r) => rs.point[rs.reads[r].key] # "freed"
    /\ \A k \in Keys : rs.point[k] = "removed" =>
          \E r \in Ids : InUse(r) /\ rs.reads[r].key = k

\* A freed restore has no copy on the device; one that ended is freed as soon
\* as no reader has a task of it.
FreedWhenDone ==
    \A r \in Ids :
        /\ rs.reads[r].phase = "freed" => \A c \in copies : c.read # r
        /\ rs.reads[r].phase = "ended" => Tasks(r) > 0

\* "its blocks, in order, into read slots as they come free" (store.zig:2320):
\* a read slot is idle while a restore wants one only if a block just failed
\* to read, as a reader gives its slot back without assign (store.zig:2453):
\* the restore it belonged to is then still to be ended.
IdleOnlyByFailure ==
    FreeSlots(rs) # {} /\ Wanted(rs) # {} => \E r \in LiveReads(rs) : rs.reads[r].err

\* Slots, counts, points and restores are accounted for wherever a restore is
\* cut short: no byte is overwritten while in use, nothing is leaked or freed
\* under a reader, and no slot idles while it is wanted.
ReadsAccounted ==
    /\ SlotsExact /\ SlotsExclusive /\ PointsOutliveReads
    /\ FreedWhenDone /\ IdleOnlyByFailure

\* A restore that commits has installed every block and the small state, each
\* from a read that succeeded, whatever failed or was forgotten beside it.
CommitsAreWhole ==
    [][\A r \in Ids : (rs.reads[r].phase = "live" /\ rs'.reads[r].phase \in {"ended", "freed"}
                       /\ EngineFree) =>
          /\ \A i \in 1 .. Total[rs.reads[r].key] : rs.reads[r].block[i] = "handed"
          /\ rx[r].small = "done" /\ ~rs.reads[r].err
          /\ \A c \in copies : c.read # r]_rvars

(* Liveness *)

\* Every restore that begins ends, its slots given back, while others share
\* the ring and points are evicted or forgotten beside it.
RestoresEnd == \A r \in Ids : rs.reads[r].phase = "live" ~> rs.reads[r].phase = "freed"
=============================================================================
