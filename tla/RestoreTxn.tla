----------------------------- MODULE RestoreTxn -----------------------------
(***************************************************************************)
(* A restore on every rank (families/dsv41/spill_tier.zig, Leader and      *)
(* Follower, over families/dsv41/rank_wire.zig).                           *)
(*                                                                         *)
(* Rank 0 asks every follower whether it has the point, reserves, starts,  *)
(* copies its own blocks and allows the followers as many, asks for their  *)
(* status until all are complete, has them validate, commits.  Anything    *)
(* that fails on any rank aborts the restore on all, and when the stored   *)
(* point is damaged or missing somewhere every rank forgets it.  Commands  *)
(* go to each follower in one ordered stream; rank 0's engine thread waits *)
(* in an ask until all have answered.  Both ends run the same Tracker over *)
(* the stream.  A send or an ask that fails breaks the pair for good.      *)
(*                                                                         *)
(* A rank's store is the set of points it stores and the set it is writing *)
(* (SpillWrite and SpillRead have the inside).  Transaction ids of         *)
(* commands that open no restore are not counted, and a command's point,   *)
(* which both ends compare with the transaction's, is not repeated.        *)
(***************************************************************************)
EXTENDS Integers, Sequences, FiniteSets, FiniteSetsExt

CONSTANTS
    World,          \* number of ranks
    Points,
    Blocks,         \* blocks of a point
    MaxTxns,        \* bound: restores in one behavior
    MaxRestores,    \* Leader.max_restores
    WireRestores,   \* rank_wire.max_restores, the tracker's room
    MaxQueue,       \* bound: commands in a stream when rank 0 keeps a point
    Failures,       \* how a copy may fail, of {"crc", "read", "reserve"}
    Faults          \* whether a follower may die or an answer come too late

Followers == 1 .. World - 1
Ranks == {0} \cup Followers
Txns == 1 .. MaxTxns

ASSUME TxnAssumption ==
    /\ World \in Nat \ {0, 1} /\ Blocks \in Nat \ {0} /\ IsFiniteSet(Points) /\ Points # {}
    /\ MaxTxns \in Nat /\ MaxQueue \in Nat \ {0}
    /\ MaxRestores \in Nat \ {0} /\ WireRestores \in Nat /\ MaxRestores <= WireRestores
    /\ Failures \subseteq {"crc", "read", "reserve"} /\ Faults \in BOOLEAN

VARIABLES
    lead,       \* rank 0's end of the wire, and the ask its engine waits in
    rx,         \* rx[r][t]: restore t on rank r
    stored,     \* stored[r]: points a restore on r can read
    writing,    \* writing[r]: points whose write on r has not ended
    stream,     \* stream[f]: commands follower f has not read
    fol,        \* fol[f]: follower f's end of the wire, and its answer
    fault,      \* history: a follower died or answered too late
    gone        \* history, gone[r]: points every rank was told to forget, not written by r since

store == <<stored, writing, gone>>
tvars == <<lead, rx, store, stream, fol, fault>>

Phases == {"none", "has", "reserved", "started", "validating"}
Track == [phase : [Txns -> Phases], upto : [Txns -> 0 .. Blocks], last : 0 .. MaxTxns]
NoTrack == [phase |-> [t \in Txns |-> "none"], upto |-> [t \in Txns |-> 0], last |-> 0]

Whys == {"crc", "missing", "read", "reserve", "timeout"}
damage(why) == why \in {"crc", "missing"}

\* asked: before reserve.  copied: blocks on the device.  whole: the small
\* state too, and every copy completed.  started: the reads are under way.
Rx == [st : {"none", "asked", "open", "installed", "dropped"}, point : Points,
       started : BOOLEAN, copied : 0 .. Blocks, whole : BOOLEAN,
       allowed : 0 .. Blocks, why : Whys \cup {"none"}]
NoRx == [st |-> "none", point |-> CHOOSE p \in Points : TRUE, started |-> FALSE,
         copied |-> 0, whole |-> FALSE, allowed |-> 0, why |-> "none"]
Over(st) == [NoRx EXCEPT !.st = st]
Asked(p) == [NoRx EXCEPT !.st = "asked", !.point = p]

NoWait == [op |-> "none"]
Has(t, p) == [op |-> "has", t |-> t, point |-> p]
Keeps(p) == [op |-> "keep", point |-> p]
Command(op, t) == [op |-> op, t |-> t]
Progress(t, n) == [op |-> "progress", t |-> t, upto |-> n]
Abort(t, forget) == [op |-> "abort", t |-> t, forget |-> forget]

Msg == [op : {"has"}, t : Txns, point : Points] \cup [op : {"keep"}, point : Points]
    \cup [op : {"reserve", "start", "status", "validate", "commit"}, t : Txns]
    \cup [op : {"progress"}, t : Txns, upto : 0 .. Blocks] \cup [op : {"abort"}, t : Txns, forget : BOOLEAN]

Answers == {"", "present", "incomplete", "partial", "complete"} \cup Whys
Follower == [up : BOOLEAN, track : Track, reply : Answers]

-----------------------------------------------------------------------------
(* The order of the stream, checked by the sender and by each receiver.    *)

Open(tr) == {t \in Txns : tr.phase[t] # "none"}

Needs == [reserve |-> "has", start |-> "reserved", progress |-> "started",
          status |-> "started", validate |-> "started", commit |-> "validating"]
Moves == [has |-> "has", reserve |-> "reserved", start |-> "started", progress |-> "started",
          status |-> "started", validate |-> "validating", commit |-> "none", abort |-> "none"]

Admits(tr, m) ==
    CASE m.op = "keep"  -> TRUE
      [] m.op = "has"   -> m.t = tr.last + 1 /\ Cardinality(Open(tr)) < WireRestores
      [] m.op = "abort" -> tr.phase[m.t] # "none"
      [] OTHER -> /\ tr.phase[m.t] = Needs[m.op]
                  /\ m.op = "progress" => m.upto \in tr.upto[m.t] + 1 .. Blocks

Admitted(tr, m) ==
    IF m.op = "keep" THEN tr
    ELSE [phase |-> [tr.phase EXCEPT ![m.t] = Moves[m.op]],
          upto  |-> [tr.upto EXCEPT ![m.t] = CASE m.op = "progress" -> m.upto
                                               [] m.op = "validate" -> Blocks
                                               [] m.op \in {"commit", "abort"} -> 0
                                               [] OTHER -> @],
          last  |-> IF m.op = "has" THEN m.t ELSE tr.last]

\* The tracker after commands ms, at most two; ok is FALSE when one of them is
\* out of order.
Then(a, m) ==
    IF a.ok /\ Admits(a.track, m) THEN [track |-> Admitted(a.track, m), ok |-> TRUE]
    ELSE [a EXCEPT !.ok = FALSE]

Fit(tr, ms) ==
    LET before == [track |-> tr, ok |-> TRUE] IN
    CASE Len(ms) = 0 -> before
      [] Len(ms) = 1 -> Then(before, ms[1])
      [] OTHER       -> Then(Then(before, ms[1]), ms[2])

Up == {f \in Followers : fol[f].up}
Down == Followers \ Up

\* What rank 0 may find after it posts ms.  Each follower's link gets a
\* command in turn: when one fails, the others may have it or not.
Posts(ms) ==
    LET fit == Fit(lead.track, ms)
        sent(n) == [f \in Followers |-> IF f \in Up THEN stream[f] \o SubSeq(ms, 1, n[f]) ELSE stream[f]]
        all == [f \in Followers |-> Len(ms)]
    IN IF lead.broken THEN {[track |-> lead.track, broken |-> TRUE, stream |-> stream]}
       ELSE IF fit.ok
       THEN {[track |-> fit.track, broken |-> FALSE, stream |-> sent(all)]}
            \cup IF ms = <<>> \/ Down = {} THEN {}
                 ELSE {[track |-> lead.track, broken |-> TRUE, stream |-> sent(n)] :
                          n \in [Followers -> 0 .. Len(ms)]}
       ELSE {[track |-> lead.track, broken |-> TRUE, stream |-> sent([f \in Followers |-> 0])]}

-----------------------------------------------------------------------------
(* Work on one restore of one rank: rxStep, rxSmall and retire.            *)

Failed(x, why) == [x EXCEPT !.why = why]

\* Copies as far as `upto` allows; the small state once every block is.
Worked(x, upto) ==
    IF x.st # "open" \/ x.why # "none" \/ ~x.started \/ x.whole THEN {x}
    ELSE {[x EXCEPT !.copied = n] : n \in x.copied .. upto}
         \cup {Failed(x, why) : why \in Failures}
         \cup IF upto = Blocks THEN {[x EXCEPT !.copied = Blocks, !.whole = TRUE]} ELSE {}

\* The destination is checked (rxValid): its rows may have gone to someone else.
Checked(x) ==
    {x} \cup IF x.why = "none" /\ "reserve" \in Failures THEN {Failed(x, "reserve")} ELSE {}

Reading(r, p) == \E t \in Txns : rx[r][t].st \in {"asked", "open"} /\ rx[r][t].started /\ rx[r][t].point = p

-----------------------------------------------------------------------------
(* Rank 0: the engine thread.  It polls while no ask is out.               *)

Idle == lead.wait = NoWait /\ ~lead.broken
Jobs == {t \in Txns : rx[0][t].st = "open"}

Lead(x, wait) ==
    /\ lead' = [track |-> x.track, broken |-> x.broken, wait |-> IF x.broken THEN NoWait ELSE wait]
    /\ stream' = x.stream

\* The restore ends on rank 0; the followers hear it after ms, and drop the
\* point too if forget.
EndJob(t, ms, forget) ==
    LET p == rx[0][t].point IN
    \E x \in Posts(Append(ms, Abort(t, forget))) :
        /\ Lead(x, NoWait)
        /\ rx' = [rx EXCEPT ![0][t] = Over("dropped")]
        /\ stored' = IF forget THEN [stored EXCEPT ![0] = @ \ {p}] ELSE stored
        /\ gone' = [r \in Ranks |-> IF forget /\ (r = 0 \/ ~x.broken) THEN gone[r] \cup {p} ELSE gone[r]]
        /\ UNCHANGED writing

\* A restore that goes on: ms is posted and x is where rank 0's copies are.
\* When the pair broke it ends here.
GoOn(t, ms, wait, y) ==
    /\ \E x \in Posts(ms) :
        /\ Lead(x, wait)
        /\ rx' = [rx EXCEPT ![0][t] = IF x.broken THEN Over("dropped") ELSE y]
    /\ UNCHANGED store

\* Rank 0's reads are begun before anything is sent.
Begin(t, p) ==
    /\ Idle /\ t = lead.track.last + 1 /\ Cardinality(Jobs) < MaxRestores
    /\ p \in stored[0] /\ Admits(lead.track, Has(t, p))
    /\ \E x \in Posts(<<Has(t, p)>>) :
        /\ Lead(x, Command("has", t))
        /\ rx' = IF x.broken THEN rx ELSE [rx EXCEPT ![0][t] = [Asked(p) EXCEPT !.started = TRUE]]
    /\ UNCHANGED <<store, fol, fault>>

\* The ask that is out, when every follower has answered.
Collected(op, t) ==
    /\ lead.wait = Command(op, t) /\ \A f \in Followers : fol[f].reply # ""
    /\ fol' = [f \in Followers |-> [fol[f] EXCEPT !.reply = ""]]
    /\ UNCHANGED fault

Replies == {fol[f].reply : f \in Followers}

HasAnswered(t) ==
    /\ Collected("has", t)
    /\ IF Replies = {"present"}
       THEN \/ GoOn(t, <<Command("reserve", t), Command("start", t)>>, NoWait, [rx[0][t] EXCEPT !.st = "open"])
            \/ EndJob(t, <<>>, FALSE)       \* no room for it on rank 0
       ELSE EndJob(t, <<>>, "missing" \in Replies)

\* pollFn: rank 0's copies, then the followers are allowed as many.
Poll(t) ==
    /\ Idle /\ rx[0][t].st = "open"
    /\ \E x \in Worked(rx[0][t], Blocks) :
        LET grew == IF x.copied > lead.track.upto[t] THEN <<Progress(t, x.copied)>> ELSE <<>> IN
        \/ x.why # "none" /\ EndJob(t, <<>>, damage(x.why))
        \/ x.why = "none" /\ ~x.whole /\ GoOn(t, grew, NoWait, x)
        \/ x.why = "none" /\ x.whole /\ \E y \in Checked(x) :
              IF y.why = "none" THEN GoOn(t, Append(grew, Command("status", t)), Command("status", t), x)
              ELSE EndJob(t, grew, FALSE)
    /\ UNCHANGED <<fol, fault>>

\* The lowest rank that failed says why.
FirstFailure == fol[Min({f \in Followers : fol[f].reply \in Whys})].reply

StatusAnswered(t) ==
    /\ Collected("status", t)
    /\ IF Replies \cap Whys # {} THEN EndJob(t, <<>>, damage(FirstFailure))
       ELSE IF Replies = {"complete"}
       THEN GoOn(t, <<Command("validate", t)>>, Command("validate", t), rx[0][t])
       ELSE \* pending: it is polled, and its status asked, again
            GoOn(t, <<>>, NoWait, rx[0][t])

\* Timeouts.status_wait_ns after rank 0's own copies.
GiveUp(t) ==
    /\ Collected("status", t) /\ Replies \cap Whys = {} /\ Replies # {"complete"}
    /\ EndJob(t, <<>>, FALSE)

ValidateAnsweredAny(t) ==
    /\ Collected("validate", t)
    /\ IF "complete" \notin Replies THEN EndJob(t, <<>>, damage(FirstFailure))
       ELSE GoOn(t, <<Command("commit", t)>>, NoWait, Over("installed"))

ValidateAnswered(t) ==
    /\ Collected("validate", t)
    /\ IF Replies # {"complete"} THEN EndJob(t, <<>>, damage(FirstFailure))
       ELSE \/ GoOn(t, <<Command("commit", t)>>, NoWait, Over("installed"))
            \/ EndJob(t, <<>>, FALSE)       \* rank 0's own end of the read failed

\* A follower is gone, or its answer came too late: the pair is broken.
AskFails ==
    /\ lead.wait # NoWait
    /\ \E f \in Followers : fol[f].reply = "" /\ (fol[f].up => Faults) /\ fault' = (fault \/ fol[f].up)
    /\ lead' = [lead EXCEPT !.wait = NoWait, !.broken = TRUE]
    /\ rx' = [rx EXCEPT ![0][lead.wait.t] = Over("dropped")]
    /\ UNCHANGED <<store, stream, fol>>

CancelQuietly(t) ==
    /\ Idle /\ rx[0][t].st = "open"
    /\ rx' = [rx EXCEPT ![0][t] = Over("dropped")]
    /\ UNCHANGED <<lead, store, stream, fol, fault>>

\* cancelFn, and flushFn at a shutdown.
Cancel(t) ==
    /\ Idle /\ rx[0][t].st = "open" /\ EndJob(t, <<>>, FALSE)
    /\ UNCHANGED <<fol, fault>>

\* A poll or a cancel after the pair broke: nothing is sent.
DropBroken(t) ==
    /\ lead.broken /\ rx[0][t].st = "open"
    /\ rx' = [rx EXCEPT ![0][t] = Over("dropped")]
    /\ UNCHANGED <<lead, store, stream, fol, fault>>

KeepingUnpublished(r, p) == p \in writing[r]

\* keep does nothing for a point stored or being written.
Keeping(r, p) == p \in stored[r] \cup writing[r]

\* keepFn: the followers are told whether rank 0 writes the point or has it.
\* (A keep of a point that every rank has changes nothing and is left out.)
Keep(p) ==
    /\ Idle /\ \E r \in Ranks : ~Keeping(r, p)
    /\ \A f \in Followers : Len(stream[f]) < MaxQueue
    /\ writing' = IF Keeping(0, p) THEN writing ELSE [writing EXCEPT ![0] = @ \cup {p}]
    /\ \E x \in Posts(<<Keeps(p)>>) : Lead(x, NoWait)
    /\ UNCHANGED <<rx, stored, gone, fol, fault>>

-----------------------------------------------------------------------------
(* Any rank's store.                                                       *)

Published(r, p) ==
    /\ p \in writing[r]
    /\ writing' = [writing EXCEPT ![r] = @ \ {p}] /\ stored' = [stored EXCEPT ![r] = @ \cup {p}]
    /\ gone' = [gone EXCEPT ![r] = @ \ {p}]
    /\ UNCHANGED <<lead, rx, stream, fol, fault>>

\* A write is cancelled or fails.  (Rank 0 tells the followers of its own,
\* who cancel theirs if they still can: that may happen at any time here.)
WriteLost(r, p) ==
    /\ p \in writing[r] /\ writing' = [writing EXCEPT ![r] = @ \ {p}]
    /\ UNCHANGED <<lead, rx, stored, gone, stream, fol, fault>>

\* A store makes room: never with a point being read.
Evict(r, p) ==
    /\ p \in stored[r] /\ ~Reading(r, p) /\ stored' = [stored EXCEPT ![r] = @ \ {p}]
    /\ UNCHANGED <<lead, rx, writing, gone, stream, fol, fault>>

-----------------------------------------------------------------------------
(* Followers: one thread reads the stream and, between commands, copies.   *)

\* Command m, the next of f's stream, is admitted and handled: its restore
\* becomes x and answer is sent.
Handles(f, m, x, answer) ==
    /\ rx' = IF m.op = "keep" THEN rx ELSE [rx EXCEPT ![f][m.t] = x]
    /\ fol' = [fol EXCEPT ![f].track = Admitted(@, m), ![f].reply = answer]

Stays == UNCHANGED store

\* A handler's error, or a command out of order: this rank ends.
Ends(f) ==
    /\ fol' = [fol EXCEPT ![f].up = FALSE]
    /\ UNCHANGED <<rx, store>>

ServeHas(f, m) ==
    /\ Handles(f, m, Asked(m.point), IF m.point \in stored[f] THEN "present"
                                     ELSE IF m.point \in writing[f] THEN "incomplete" ELSE "missing")
    /\ Stays

ServeReserve(f, m) ==
    /\ \E x \in Checked([rx[f][m.t] EXCEPT !.st = "open"]) : Handles(f, m, x, "")
    /\ Stays

ServeStart(f, m) ==
    LET x == rx[f][m.t] IN
    /\ \/ x.why # "none" /\ Handles(f, m, x, "")
       \/ x.why = "none" /\ x.point \in stored[f] /\ Handles(f, m, [x EXCEPT !.started = TRUE], "")
       \/ x.why = "none" /\ x.point \notin stored[f] /\ Handles(f, m, Failed(x, "missing"), "")
       \/ x.why = "none" /\ "read" \in Failures /\ Handles(f, m, Failed(x, "read"), "")
    /\ Stays

ServeProgress(f, m) ==
    /\ \E x \in Worked([rx[f][m.t] EXCEPT !.allowed = m.upto], m.upto) : Handles(f, m, x, "")
    /\ Stays

Verdict(x, unfinished) == IF x.why # "none" THEN x.why ELSE IF x.whole THEN "complete" ELSE unfinished

ServeStatus(f, m) ==
    /\ \E x \in Worked(rx[f][m.t], rx[f][m.t].allowed) : \E y \in Checked(x) :
          Handles(f, m, y, Verdict(y, "partial"))
    /\ Stays

\* The rest is copied now; what is not whole at the deadline has timed out.
ServeValidate(f, m) ==
    /\ \E x \in Worked([rx[f][m.t] EXCEPT !.allowed = Blocks], Blocks) :
        LET z == IF x.whole \/ x.why # "none" THEN x ELSE Failed(x, "timeout") IN
        \E y \in Checked(z) : Handles(f, m, y, Verdict(y, "timeout"))
    /\ Stays

Prepared(x) == x.st = "open" /\ x.whole /\ x.why = "none"

ServeCommit(f, m) ==
    IF Prepared(rx[f][m.t])
    THEN Handles(f, m, Over("installed"), "") /\ Stays
    ELSE Ends(f)

ServeAbortOpen(f, m) ==
    LET x == rx[f][m.t] IN
    /\ Handles(f, m, Over("dropped"), "")
    /\ stored' = IF m.forget /\ x.st = "open" THEN [stored EXCEPT ![f] = @ \ {x.point}] ELSE stored
    /\ UNCHANGED <<writing, gone>>

ServeAbort(f, m) ==
    LET x == rx[f][m.t] IN
    /\ Handles(f, m, Over("dropped"), "")
    /\ stored' = IF m.forget THEN [stored EXCEPT ![f] = @ \ {x.point}] ELSE stored
    /\ UNCHANGED <<writing, gone>>

\* Skipped when this rank does not hold the ids or the state.
ServeKeep(f, m) ==
    /\ Handles(f, m, NoRx, "")
    /\ \/ Stays
       \/ /\ ~Keeping(f, m.point) /\ writing' = [writing EXCEPT ![f] = @ \cup {m.point}]
          /\ UNCHANGED <<stored, gone>>

Serve(f) ==
    /\ fol[f].up /\ stream[f] # <<>>
    /\ stream' = [stream EXCEPT ![f] = Tail(@)]
    /\ LET m == Head(stream[f]) IN
        IF ~Admits(fol[f].track, m) THEN Ends(f)
        ELSE \/ m.op = "has" /\ ServeHas(f, m)
             \/ m.op = "reserve" /\ ServeReserve(f, m)
             \/ m.op = "start" /\ ServeStart(f, m)
             \/ m.op = "progress" /\ ServeProgress(f, m)
             \/ m.op = "status" /\ ServeStatus(f, m)
             \/ m.op = "validate" /\ ServeValidate(f, m)
             \/ m.op = "commit" /\ ServeCommit(f, m)
             \/ m.op = "abort" /\ ServeAbort(f, m)
             \/ m.op = "keep" /\ ServeKeep(f, m)
    /\ UNCHANGED <<lead, fault>>

\* service, at every command and while idle.
Service(f, t) ==
    /\ fol[f].up
    /\ \E x \in Worked(rx[f][t], rx[f][t].allowed) : x # rx[f][t] /\ rx' = [rx EXCEPT ![f][t] = x]
    /\ UNCHANGED <<lead, store, stream, fol, fault>>

\* The rank or its link dies; what it had open ends with it.
Dies(f) ==
    /\ Faults /\ fol[f].up
    /\ fol' = [fol EXCEPT ![f].up = FALSE] /\ fault' = TRUE
    /\ UNCHANGED <<lead, rx, store, stream>>

-----------------------------------------------------------------------------
Init ==
    /\ lead = [track |-> NoTrack, wait |-> NoWait, broken |-> FALSE]
    /\ rx = [r \in Ranks |-> [t \in Txns |-> NoRx]]
    /\ stored \in [Ranks -> SUBSET Points]
    /\ writing = [r \in Ranks |-> {}] /\ gone = [r \in Ranks |-> {}]
    /\ stream = [f \in Followers |-> <<>>]
    /\ fol = [f \in Followers |-> [up |-> TRUE, track |-> NoTrack, reply |-> ""]]
    /\ fault = FALSE

Engine ==
    \/ \E p \in Points : Keep(p) \/ \E t \in Txns : Begin(t, p)
    \/ \E t \in Txns : Poll(t) \/ Cancel(t) \/ DropBroken(t)
    \/ \E t \in Txns : HasAnswered(t) \/ StatusAnswered(t) \/ GiveUp(t) \/ ValidateAnswered(t)
    \/ AskFails

Next ==
    \/ Engine
    \/ \E r \in Ranks, p \in Points : Published(r, p) \/ WriteLost(r, p) \/ Evict(r, p)
    \/ \E f \in Followers : Serve(f) \/ Dies(f) \/ \E t \in Txns : Service(f, t)

Spec == Init /\ [][Next]_tvars

\* Rank 0 polls every restore again and again, its own disk ends each read,
\* and each follower reads its stream: an ask is answered, or it fails.  A
\* follower's copies need not get on: the time rank 0 waits for them is up at
\* some status.
Fairness ==
    /\ \A t \in Txns : /\ SF_tvars(Poll(t)) /\ SF_tvars(GiveUp(t)) /\ WF_tvars(DropBroken(t))
                       /\ WF_tvars(HasAnswered(t) \/ StatusAnswered(t) \/ ValidateAnswered(t))
    /\ \A f \in Followers : WF_tvars(Serve(f))
    /\ WF_tvars(\E f \in Down : fol[f].reply = "" /\ AskFails)

LiveSpec == Spec /\ Fairness

-----------------------------------------------------------------------------
TypeOK ==
    /\ lead \in [track : Track, broken : BOOLEAN,
                 wait : [op : {"has", "status", "validate"}, t : Txns] \cup {NoWait}]
    /\ rx \in [Ranks -> [Txns -> Rx]]
    /\ stored \in [Ranks -> SUBSET Points] /\ writing \in [Ranks -> SUBSET Points]
    /\ \A r \in Ranks : stored[r] \cap writing[r] = {}
    /\ stream \in [Followers -> Seq(Msg)] /\ fol \in [Followers -> Follower]
    /\ fault \in BOOLEAN /\ gone \in [Ranks -> SUBSET Points]

\* Rank 0 sends nothing its own tracker or a follower's refuses, and commits
\* nothing a follower cannot: the pair breaks, and a rank ends, only after a
\* follower died or an answer came too late (rank_wire.serve, rule 3:
\* "a handler error is kept for a protocol or invariant break").
OnlyFaultsBreak == (lead.broken \/ Down # {}) => fault

\* Between rank 0's steps the restores open in its tracker are its jobs, and
\* a follower that has read its stream has exactly these open, in the same
\* phase: no end of a restore leaves one behind on any rank, where it would
\* keep its reads and a place of the tracker for ever.
OpenOn(r) == {t \in Txns : rx[r][t].st \in {"asked", "open"}}
InStep ==
    Idle => /\ Open(lead.track) = Jobs
            /\ \A t \in Jobs : lead.track.phase[t] = "started"
            /\ \A f \in Up : stream[f] = <<>> => OpenOn(f) = Jobs /\ fol[f].track = lead.track

\* A follower that has read what rank 0 sent no longer offers a point every
\* rank was to forget (a restore found it damaged or missing somewhere),
\* unless its own write of it ended since: whatever state the restore was in
\* on that follower when it was aborted.
ForgetReachesAll ==
    \A r \in Ranks : (r = 0 \/ (r \in Up /\ stream[r] = <<>>)) => gone[r] \cap stored[r] = {}

\* Without a fault no rank refuses what another sends, all ranks have the same
\* restores open between commands, and what one has to forget all forget.
PairInStep == OnlyFaultsBreak /\ InStep /\ ForgetReachesAll

\* What all this implements: one outcome for every rank.
Outcome(x) == IF x.st \in {"installed", "dropped"} THEN x.st ELSE IF Prepared(x) THEN "prepared" ELSE "working"
Agreement == INSTANCE RestoreAgreement WITH
    outcome <- [r \in Ranks |-> [t \in Txns |-> Outcome(rx[r][t])]], faulty <- fault

\* A restore is installed on every rank or on none, and only where every rank
\* has it whole, as long as no rank died and no answer was late.
InstalledOnAllOrNone == Agreement!Spec

\* Each restore ends on rank 0, even if a follower's disk never gets on, and
\* then on every follower that is still heard.
RestoresEnd == \A t \in Txns : t \in OpenOn(0) ~> t \notin OpenOn(0)
FollowersEnd == \A f \in Followers, t \in Txns :
    t \in OpenOn(f) ~> (t \notin OpenOn(f) \/ ~fol[f].up \/ lead.broken)
EveryRestoreEnds == RestoresEnd /\ FollowersEnd
=============================================================================
