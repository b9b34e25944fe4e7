------------------------------ MODULE SpillDisk ------------------------------
(***************************************************************************)
(* The disk side of a rank's spill store: what the writer of SpillWrite    *)
(* does to the two directories between its critical sections, crashes at   *)
(* any point of it, and the scan that opens the store again.               *)
(*                                                                         *)
(* Every action is one of SpillWrite (whose `files` and `manifest` are     *)
(* what the directories hold when the writer is between two tasks), a step *)
(* of the writer on the disk, a crash, or a step of the next open.         *)
(*                                                                         *)
(* A directory entry set since the last fsync of its directory may be      *)
(* either value after a power loss.  Contents are named by the write that  *)
(* made them: two writes of one name need not have equal bytes.            *)
(***************************************************************************)
EXTENDS SpillWrite

CONSTANTS
    Unreadable,     \* whether an open may fail to read what is there
    MaxCrashes      \* bound: crashes

ASSUME DiskAssumption == Unreadable \in BOOLEAN /\ MaxCrashes \in Nat

VARIABLES
    live,       \* live[f]: what a process sees under the name f
    may,        \* may[f]: what f may be after a power loss
    temps,      \* whether a temporary file lies in a directory
    step,       \* the writer's steps through its running task
    phase,      \* "up", "down" or "sweep": open, not, deleting orphans
    sweep,      \* what the open still has to delete
    sealed,     \* history: points published and not removed since
    crashes,
    faulted     \* history: something failed that is no crash

diskVars == <<live, may, temps, step, phase, sweep, sealed, crashes, faulted>>
allVars == <<vars, diskVars>>

Blk(n) == <<"blk", n>>
Ids(k) == <<"ids", k>>
St(k) == <<"st", k>>
Man(k) == <<"man", k>>

BlockFiles == {Blk(n) : n \in Names}
PointFiles == UNION {{Ids(k), St(k), Man(k)} : k \in Keys}
Files == BlockFiles \cup PointFiles

\* A file's content: the write that made it; of a manifest also its flag and
\* the checksums of the blocks it names (here: whose write they are).
Plain(j) == [by |-> j, shared |-> FALSE, crc |-> << >>]
Absent == Plain(0)
Manifest(j, isShared, crc) == [by |-> j, shared |-> isShared, crc |-> crc]

Present(f) == live[f] # Absent
Checksums(k) == [n \in Blocks(k) |-> live[Blk(n)].by]

-----------------------------------------------------------------------------
(* One change of a directory entry, one fsync of a directory *)

\* A renamed file was fsynced before: its name has the old content or all of
\* the new one.
SurvivorsLost(c) == {Absent}
Survivors(c) == {c}

Entry(f, c) ==
    /\ live' = [live EXCEPT ![f] = c]
    /\ may' = [may EXCEPT ![f] = @ \cup Survivors(c)]

SyncDir(dir) ==
    /\ may' = [f \in Files |-> IF f \in dir THEN {live[f]} ELSE may[f]]
    /\ UNCHANGED live

-----------------------------------------------------------------------------
(* The writer, with the lock released *)

OnDisk == step' = step + 1 /\ UNCHANGED <<vars, temps, phase, sweep, sealed, crashes>>

PutBlock ==
    /\ running.kind = "block" /\ step = 0
    /\ Entry(Blk(running.name), Plain(running.job))
    /\ OnDisk

\* The order of a publication: the blocks durable, the point's files, these
\* durable, the manifest, the manifest durable.
PublicationBlocksUnsynced == <<"ids", "st", "points", "man", "points">>
PublicationManifestUnsynced == <<"blocks", "ids", "st", "points", "man">>
Publication == <<"blocks", "ids", "st", "points", "man", "points">>
Published == Len(Publication)

Publish ==
    /\ running.kind = "point" /\ step < Published
    /\ LET k == store.jobs[running.job].key
           op == Publication[step + 1]
       IN \/ op = "blocks" /\ SyncDir(BlockFiles)
          \/ op = "points" /\ SyncDir(PointFiles)
          \/ op = "ids" /\ Entry(Ids(k), Plain(running.job))
          \/ op = "st" /\ Entry(St(k), Plain(running.job))
          \/ op = "man" /\ Entry(Man(k), Manifest(running.job, running.flag, Checksums(k)))
    /\ OnDisk

\* A step failed: the point's files go, the manifest first.
Deletion(k) == <<Man(k), St(k), Ids(k)>>
Undone == Published + 4

PublishFails ==
    /\ DiskErrors /\ running.kind = "point" /\ step < Published
    /\ step' = Published + 1
    /\ UNCHANGED <<vars, live, may, temps, phase, sweep, sealed, crashes>>

Undo ==
    /\ running.kind = "point" /\ step \in Published + 1 .. Undone - 1
    /\ Entry(Deletion(store.jobs[running.job].key)[step - Published], Absent)
    /\ OnDisk

\* A manifest again, with its flag: put, then the directory fsynced.
Rewrite ==
    /\ running.kind = "shared" /\ step < 2
    /\ IF step = 0 THEN Entry(Man(running.key), [live[Man(running.key)] EXCEPT !.shared = TRUE])
       ELSE SyncDir(PointFiles)
    /\ OnDisk

\* What a deletion task has left, in the order it deletes a point's files.
NextDeletions(t) ==
    {f \in {Blk(n) : n \in t.names} : Present(f)}
    \cup {f \in PointFiles :
            \E k \in t.keys : \E i \in 1 .. Len(Deletion(k)) :
                /\ f = Deletion(k)[i] /\ Present(f)
                /\ \A h \in 1 .. i - 1 : ~Present(Deletion(k)[h])}

DeleteOne ==
    /\ phase = "up" /\ Takes("unlink")
    /\ \E f \in NextDeletions(Head(store.tasks)) : Entry(f, Absent)
    /\ UNCHANGED <<vars, temps, step, phase, sweep, sealed, crashes>>

-----------------------------------------------------------------------------
(* The critical sections of SpillWrite, at their place in the disk work *)

\* Points that left the index are no longer promised.
Locked ==
    /\ phase = "up" /\ step' = 0
    /\ sealed' = sealed \cap store'.points
    /\ UNCHANGED <<live, may, temps, phase, sweep, crashes>>

EngineStep == phase = "up" /\ Engine /\ sealed' = sealed \cap store'.points
              /\ UNCHANGED <<live, may, temps, step, phase, sweep, crashes>>

Take == (TakeBlock \/ TakePoint \/ TakeShared) /\ Locked

\* A failure after the rename (the block's stat) leaves the file.
BlockDone(ok) ==
    /\ running.kind = "block" /\ (ok => step = 1)
    /\ files' = IF step = 1 THEN files \cup {running.name} ELSE files
    /\ BlockWritten(ok) /\ Locked

PointDone ==
    /\ step = Published /\ phase = "up"
    /\ PointWritten
    /\ sealed' = (sealed \cup {store.jobs[running.job].key}) \cap store'.points
    /\ step' = 0 /\ UNCHANGED <<live, may, temps, phase, sweep, crashes>>

PointUndone == step = Undone /\ PointFailed /\ Locked

\* A point dropped meanwhile loses its manifest again.
SharedDone(ok) ==
    /\ running.kind = "shared" /\ (ok => step = 2)
    /\ LET k == running.key IN
       /\ manifest' = [manifest EXCEPT ![k] =
             IF k \notin store.points THEN "none" ELSE Flag(live[Man(k)].shared)]
       /\ IF k \in store.points THEN UNCHANGED <<live, may>> ELSE Entry(Man(k), Absent)
    /\ SharedWritten(ok)
    /\ phase = "up" /\ step' = 0
    /\ UNCHANGED <<temps, phase, sweep, sealed, crashes>>

Deleted ==
    /\ Takes("unlink") /\ NextDeletions(Head(store.tasks)) = {}
    /\ Unlink /\ Locked

-----------------------------------------------------------------------------
(* Crashes *)

\* The directory of the file the writer is putting, which may be left under
\* its temporary name.
Putting ==
    \/ running.kind = "block" /\ step = 0
    \/ running.kind = "shared" /\ step = 0
    \/ running.kind = "point" /\ step < Published /\ Publication[step + 1] \in {"ids", "st", "man"}

\* A write that was waiting is lost; jobs are used once (MaxJobs bounds all of
\* a behavior).
Closed ==
    [points |-> {}, shared |-> {}, have |-> {}, refs |-> [n \in Names |-> 0],
     inflight |-> [n \in Names |-> NoJob],
     jobs |-> [j \in Jobs |-> IF store.jobs[j].state = "unused" THEN NoWrite
                              ELSE [NoWrite EXCEPT !.state = "ended"]],
     tasks |-> << >>, free |-> WriteSlots, stored |-> 0, queued |-> 0]

Stops ==
    /\ crashes < MaxCrashes /\ crashes' = crashes + 1
    /\ phase \in {"up", "sweep"} /\ phase' = "down"
    /\ store' = Closed /\ reading' = {} /\ tickets' = {} /\ running' = Idle
    /\ files' = {} /\ manifest' = [k \in Keys |-> "none"]
    /\ sweep' = {} /\ step' = 0 /\ UNCHANGED sealed
    /\ temps' \in {temps, temps \/ Putting}

\* The process dies; the page cache lives.
Kill == Stops /\ UNCHANGED <<live, may>>

\* Every entry changed since its directory's fsync is lost or not.
Unsynced(kind) == {f \in Files : f[1] = kind /\ may[f] # {live[f]}}
Outcomes(kind) ==
    {g \in [Unsynced(kind) -> UNION {may[f] : f \in Unsynced(kind)}] :
        \A f \in Unsynced(kind) : g[f] \in may[f]}

PowerLoss ==
    /\ Stops
    /\ \E b \in Outcomes("blk"), i \in Outcomes("ids"), s \in Outcomes("st"), m \in Outcomes("man") :
          LET left == [blk |-> b, ids |-> i, st |-> s, man |-> m] IN
          live' = [f \in Files |-> IF may[f] = {live[f]} THEN live[f] ELSE left[f[1]][f]]
    /\ may' = [f \in Files |-> {live'[f]}]

-----------------------------------------------------------------------------
(* The scan of the next open *)

\* recover: of a point that has a manifest, whether it is whole, unreadable
\* or cut short.  Block files of `unsure` could not be looked at; the first
\* block that is not there for certain decides.
FilesThere(k) == Present(Ids(k)) /\ Present(St(k))

Intact(k) == Present(Man(k)) /\ FilesThere(k) /\ \A n \in Blocks(k) : Present(Blk(n))

VerdictDropsUnread(k, unread, unsure) ==
    IF k \notin unread /\ FilesThere(k) /\ \A n \in Blocks(k) : Present(Blk(n)) /\ n \notin unsure
    THEN "recovered" ELSE "dropped"

CutShort(k, unsure) ==
    \E i \in DOMAIN BlocksOf[k] : /\ ~Present(Blk(BlocksOf[k][i]))
                                 /\ \A h \in 1 .. i : BlocksOf[k][h] \notin unsure

Verdict(k, unread, unsure) ==
    IF k \in unread THEN "kept"
    ELSE IF ~FilesThere(k) \/ CutShort(k, unsure) THEN "dropped"
    ELSE IF Blocks(k) \cap unsure = {} THEN "recovered" ELSE "kept"

\* References rebuilt from the points found.
Rebuilt(R) ==
    [Closed EXCEPT
       !.points = R,
       !.shared = {k \in R : live[Man(k)].shared},
       !.have = UNION {Blocks(k) : k \in R},
       !.refs = [n \in Names |-> Cardinality({k \in R : n \in Blocks(k)})],
       !.stored = Cardinality(UNION {Blocks(k) : k \in R}) + FileBytes * Cardinality(R)]

OrphansOfPoints(R, kept, unsure) == {f \in PointFiles : Present(f) /\ f[2] \notin R \cup kept}

\* The files of no point, and unless a point or a block could not be read the
\* blocks no point names.
Orphans(R, kept, unsure) ==
    {f \in PointFiles : Present(f) /\ f[2] \notin R \cup kept}
    \cup IF kept = {} /\ unsure = {}
         THEN {Blk(n) : n \in {m \in Names : Present(Blk(m)) /\ \A k \in R : m \notin Blocks(k)}}
         ELSE {}

\* Temporary files go first, then everything is read; `unread` and `unsure`
\* are what could not be.
Scan(unread, unsure) ==
    LET found == {k \in Keys : Present(Man(k))}
        with(v) == {k \in found : Verdict(k, unread, unsure) = v}
    IN /\ phase = "down" /\ phase' = "sweep"
       /\ unread \subseteq found /\ unsure \subseteq {n \in Names : Present(Blk(n))}
       /\ Unreadable \/ (unread = {} /\ unsure = {})
       /\ temps' = FALSE
       /\ store' = Rebuilt(with("recovered"))
       /\ sweep' = Orphans(with("recovered"), with("kept"), unsure)
       /\ sealed' = sealed \ with("kept")
       /\ UNCHANGED <<reading, tickets, running, files, manifest, live, may, step, crashes>>

Sweep(f) ==
    /\ phase = "sweep" /\ f \in sweep
    /\ f \in BlockFiles => sweep \cap PointFiles = {}
    /\ sweep' = sweep \ {f} /\ Entry(f, Absent)
    /\ UNCHANGED <<vars, temps, step, phase, sealed, crashes>>

Opened ==
    /\ phase = "sweep" /\ sweep = {} /\ phase' = "up"
    /\ files' = {n \in Names : Present(Blk(n))}
    /\ manifest' = [k \in Keys |-> IF Present(Man(k)) THEN Flag(live[Man(k)].shared) ELSE "none"]
    /\ UNCHANGED <<store, reading, tickets, running, live, may, temps, step, sweep, sealed, crashes>>

-----------------------------------------------------------------------------
DiskInit ==
    /\ Init
    /\ live = [f \in Files |-> Absent] /\ may = [f \in Files |-> {Absent}]
    /\ temps = FALSE /\ step = 0 /\ phase = "up" /\ sweep = {}
    /\ sealed = {} /\ crashes = 0 /\ faulted = FALSE

DiskStep ==
    \/ Take \/ PointDone \/ PointUndone \/ Deleted
    \/ BlockDone(TRUE) \/ SharedDone(TRUE)
    \/ PutBlock \/ Publish \/ Undo \/ Rewrite \/ DeleteOne
    \/ Kill \/ PowerLoss
    \/ \E f \in sweep : Sweep(f)
    \/ Opened

\* Faults: disk work that fails, damage a restore finds, an open that for want
\* of a readable file decides otherwise.
DiskFails == BlockDone(FALSE) \/ SharedDone(FALSE) \/ PublishFails

DamageFound == \E p \in Keys, gone \in SUBSET Names : Forget(p, gone)

DiskNext ==
    \/ DiskStep /\ UNCHANGED faulted
    \/ DiskFails /\ faulted' = TRUE
    \/ EngineStep /\ faulted' = (faulted \/ DamageFound)
    \/ /\ \E unread \in SUBSET Keys, unsure \in SUBSET Names : Scan(unread, unsure)
       /\ faulted' = (faulted \/ ~Scan({}, {}))

DiskSpec == DiskInit /\ [][DiskNext]_allVars

DiskTypeOK ==
    /\ phase = "up" => TypeOK
    /\ phase \in {"up", "down", "sweep"} /\ step \in 0 .. Undone
    /\ temps \in BOOLEAN /\ faulted \in BOOLEAN /\ sweep \subseteq Files /\ sealed \subseteq Keys
    /\ \A f \in Files : live[f] \in may[f]

-----------------------------------------------------------------------------
(* Safety *)

\* A published point cannot be lost: whatever a power loss takes, its files
\* and all its blocks are there, with the bytes its manifest has checksums of.
SealedIsDurable ==
    \A k \in sealed : \A m \in may[Man(k)] :
        /\ m.by # Absent.by
        /\ may[St(k)] = {Plain(m.by)} /\ Absent \notin may[Ids(k)]
        /\ \A n \in Blocks(k) : may[Blk(n)] = {Plain(m.crc[n])} /\ m.crc[n] # Absent.by

\* "Only damage deletes" (scan): an open that cannot read a point or a block
\* deletes nothing of a point that is whole, wherever it is cut short itself.
OpenLosesNothing ==
    [][phase # "up" /\ phase' # "down" => \A k \in Keys : Intact(k) => Intact(k)']_allVars

\* Between two tasks the directories are what SpillWrite says they are: its
\* atomic writes and deletions are these steps, seen from under the lock.
Deleting == IF Takes("unlink") THEN Head(store.tasks) ELSE [keys |-> {}, names |-> {}]

ViewIsDisk ==
    phase = "up" /\ running = Idle =>
        /\ \A n \in Names \ Deleting.names : n \in files <=> Present(Blk(n))
        /\ \A k \in Keys \ Deleting.keys :
              manifest[k] = IF Present(Man(k)) THEN Flag(live[Man(k)].shared) ELSE "none"

\* What a scan rebuilds is a store like any other: its references, blocks and
\* byte counts are exact, so the writes that follow can rely on them.
RebuiltIsExact ==
    phase = "up" => RefsExact /\ BytesExact /\ IndexedIsOnDisk /\ NoOrphanBlock

\* Nothing is left behind by a crash or a deletion cut short: with no task
\* left the directories hold the index and no other file, every shared flag
\* among them.  (Unless disk work failed or a file was unreadable.)
NothingLeftBehind ==
    phase = "up" /\ AtRest /\ ~faulted =>
        /\ DiskIsIndexAtRest
        /\ ~temps
        /\ \A n \in Names : Present(Blk(n)) <=> n \in store.have
        /\ \A k \in Keys, f \in PointFiles : f[2] = k => (Present(f) <=> k \in store.points)

\* While nothing fails every block an open write names is stored or on its
\* way: making room never takes one (GLM 0110's pin), another write's end never
\* drops one, across crashes.
OpenCovered == ~faulted => OpenWritesCovered

\* The index and the two directories agree, seen from under the lock, after
\* every open, and with nothing left behind, and the blocks of an open write
\* stay covered: across crashes at every step of the writer's disk work.
IndexIsDisk == ViewIsDisk /\ RebuiltIsExact /\ NothingLeftBehind /\ OpenCovered

-----------------------------------------------------------------------------
(* The abstract store this implements *)

Durable == INSTANCE DurablePoints
    WITH up <- phase = "up", promised <- sealed,
         listed <- IF phase = "up" THEN store.points ELSE {}

KeepsItsPromise == Durable!Spec
=============================================================================
