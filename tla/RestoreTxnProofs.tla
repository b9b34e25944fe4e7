--------------------------- MODULE RestoreTxnProofs ---------------------------
(***************************************************************************)
(* Theorems about RestoreTxn, for any number of ranks, points, blocks and  *)
(* restores: its types, PairInStep, that it implements RestoreAgreement,   *)
(* and what follows from that for the outcomes on the ranks.               *)
(***************************************************************************)
EXTENDS RestoreTxn, SequenceTheorems, TLAPS

\* Restore t has been opened and has ended in the stream that tr follows.
Ended(tr, t) == tr.phase[t] = "none" /\ t <= tr.last

\* A tracker at tr that reads s admits every command and ends at end.
Leads(tr, s, end) ==
    \E path \in [0 .. Len(s) -> Track] :
        /\ path[0] = tr /\ path[Len(s)] = end
        /\ \A n \in 1 .. Len(s) : Admits(path[n - 1], s[n]) /\ path[n] = Admitted(path[n - 1], s[n])
        /\ \A i, j \in 0 .. Len(s), t \in Txns : i <= j /\ Ended(path[i], t) => Ended(path[j], t)

\* What a follower has not read takes it to where rank 0 is, or to where
\* rank 0 was when the pair broke.
StreamsFit ==
    \A f \in Up : \E end \in Track :
        Leads(fol[f].track, stream[f], end) /\ (~lead.broken => end = lead.track)

\* A rank's restore and the phase of its end of the wire.
RxFits(track, x, t) ==
    /\ track.phase[t] = "none" <=> x.st \in {"none", "installed", "dropped"}
    /\ track.phase[t] = "has" <=> x.st = "asked"
    /\ t > track.last => x.st = "none"

FollowerFits == \A f \in Up, t \in Txns : RxFits(fol[f].track, rx[f][t], t)

\* Where rank 0 is with t, and what it waits for.
LeaderAt(t) ==
    /\ RxFits(lead.track, rx[0][t], t)
    /\ lead.track.phase[t] # "reserved"
    /\ lead.track.phase[t] = "has" <=> lead.wait = Command("has", t)
    /\ lead.track.phase[t] = "validating" <=> lead.wait = Command("validate", t)
    /\ lead.wait = Command("status", t) => lead.track.phase[t] = "started"
    /\ lead.wait \in {Command("status", t), Command("validate", t)} => Prepared(rx[0][t])

LeaderFits == ~lead.broken => \A t \in Txns : LeaderAt(t)

\* The command rank 0 waits for.
IsAsk(m) == m.op \in {"has", "status", "validate"}
TheAsk == IF lead.wait.op = "has" THEN Has(lead.wait.t, rx[0][lead.wait.t].point) ELSE lead.wait

\* It is the last one in a stream, or it has been answered and nothing is.
AskFits ==
    ~lead.broken => \A f \in Up :
        LET s == stream[f] IN
        /\ \A n \in 1 .. Len(s) : IsAsk(s[n]) => n = Len(s) /\ lead.wait # NoWait
        /\ lead.wait = NoWait => fol[f].reply = ""
        /\ lead.wait # NoWait => IF fol[f].reply = "" THEN s # <<>> /\ s[Len(s)] = TheAsk ELSE s = <<>>

\* Who says it is complete has the restore whole, alive or not.
CompleteIsPrepared ==
    \A f \in Followers, t \in Txns :
        lead.wait = Command("validate", t) /\ fol[f].reply = "complete" => Prepared(rx[f][t])

\* A follower that has heard of a restore of rank 0 has it for the same point.
SamePoint ==
    ~lead.broken => \A f \in Up, t \in Txns :
        rx[0][t].st \in {"asked", "open"} =>
            \/ fol[f].track.phase[t] # "none" /\ rx[f][t].point = rx[0][t].point
            \/ lead.wait = Command("has", t) /\ fol[f].reply = ""

\* An abort to come: restores rank 0 has dropped.
AbortIn(f, t) == \E n \in 1 .. Len(stream[f]) : stream[f][n].op = "abort" /\ stream[f][n].t = t
CommitIn(f, t) == \E n \in 1 .. Len(stream[f]) : stream[f][n].op = "commit" /\ stream[f][n].t = t

AbortsDropped == \A f \in Up, t \in Txns : AbortIn(f, t) => rx[0][t].st = "dropped"

\* Rank 0 has decided to install t.
Committed(t) ==
    \/ rx[0][t].st = "installed"
    \/ \E f \in Followers : rx[f][t].st = "installed"
    \/ \E f \in Up : CommitIn(f, t)

CommitsHold ==
    \A t \in Txns : Committed(t) =>
        /\ rx[0][t].st = "installed" \/ (fault /\ rx[0][t].st = "dropped")
        /\ \A f \in Followers : rx[f][t].st = "installed" \/ Prepared(rx[f][t])
        /\ \A f \in Up : /\ Prepared(rx[f][t]) => fol[f].track.phase[t] = "validating"
                         /\ ~AbortIn(f, t)

\* What a follower still offers and was to forget, it will forget.
GoneToCome ==
    /\ gone[0] \cap stored[0] = {}
    /\ \A f \in Up : \A p \in gone[f] \cap stored[f] :
        \E n \in 1 .. Len(stream[f]) :
            LET m == stream[f][n] IN
            /\ m.op = "abort" /\ m.forget
            /\ fol[f].track.phase[m.t] # "none" /\ rx[f][m.t].point = p

BrokenWaitsNot == lead.broken => lead.wait = NoWait

IInv ==
    /\ TypeOK /\ OnlyFaultsBreak /\ BrokenWaitsNot
    /\ StreamsFit /\ FollowerFits /\ LeaderFits /\ AskFits
    /\ CompleteIsPrepared /\ SamePoint /\ AbortsDropped /\ CommitsHold /\ GoneToCome

-----------------------------------------------------------------------------
(* Commands and trackers *)

LEMMA MsgFields ==
    ASSUME NEW m \in Msg
    PROVE  /\ m.op \in {"has", "keep", "reserve", "start", "status", "validate", "commit", "progress", "abort"}
           /\ m.op # "keep" => m.t \in Txns
           /\ m.op \in {"has", "keep"} => m.point \in Points
           /\ m.op = "progress" => m.upto \in 0 .. Blocks
           /\ m.op = "abort" => m.forget \in BOOLEAN
BY DEF Msg

LEMMA MsgType ==
    /\ \A t \in Txns, p \in Points : Has(t, p) \in Msg /\ Keeps(p) \in Msg
    /\ \A t \in Txns, op \in {"reserve", "start", "status", "validate", "commit"} : Command(op, t) \in Msg
    /\ \A t \in Txns, n \in 0 .. Blocks : Progress(t, n) \in Msg
    /\ \A t \in Txns, b \in BOOLEAN : Abort(t, b) \in Msg
BY DEF Msg, Has, Keeps, Command, Progress, Abort

LEMMA TrackFields ==
    ASSUME NEW tr \in Track
    PROVE  /\ tr.phase \in [Txns -> Phases] /\ tr.upto \in [Txns -> 0 .. Blocks] /\ tr.last \in 0 .. MaxTxns
           /\ tr = [phase |-> tr.phase, upto |-> tr.upto, last |-> tr.last]
BY DEF Track

\* What a command changes: its restore's phase, and the last one opened.
LEMMA AdmittedIs ==
    ASSUME NEW tr \in Track, NEW m \in Msg
    PROVE  /\ Admitted(tr, m) \in Track
           /\ m.op = "keep" => Admitted(tr, m) = tr
           /\ m.op # "keep" => \A u \in Txns :
                Admitted(tr, m).phase[u] = IF u = m.t THEN Moves[m.op] ELSE tr.phase[u]
           /\ Admitted(tr, m).last = IF m.op = "has" THEN m.t ELSE tr.last
<1>1. CASE m.op = "keep"
  BY <1>1 DEF Admitted
<1>2. CASE m.op # "keep"
  <2>1. m.t \in Txns /\ Moves[m.op] \in Phases
    BY <1>2, MsgFields DEF Moves, Phases
  <2> DEFINE up == CASE m.op = "progress" -> m.upto
                      [] m.op = "validate" -> Blocks
                      [] m.op \in {"commit", "abort"} -> 0
                      [] OTHER -> tr.upto[m.t]
             phase == [tr.phase EXCEPT ![m.t] = Moves[m.op]]
             upto == [tr.upto EXCEPT ![m.t] = up]
             last == IF m.op = "has" THEN m.t ELSE tr.last
  <2>2. up \in 0 .. Blocks
    <3>1. tr.upto[m.t] \in 0 .. Blocks
      BY <2>1, TrackFields
    <3>2. m.op = "progress" => m.upto \in 0 .. Blocks
      BY MsgFields
    <3> QED
      BY <3>1, <3>2, TxnAssumption
  <2>3. last \in 0 .. MaxTxns
    BY <2>1, TrackFields, TxnAssumption DEF Txns
  <2>4. Admitted(tr, m) = [phase |-> phase, upto |-> upto, last |-> last]
    BY <1>2 DEF Admitted
  <2> HIDE DEF up
  <2>5. phase \in [Txns -> Phases] /\ upto \in [Txns -> 0 .. Blocks]
    BY <2>1, <2>2, TrackFields
  <2> QED
    BY <1>2, <2>1, <2>3, <2>4, <2>5, TrackFields DEF Track
<1> QED
  BY <1>1, <1>2

\* A restore that has ended does not open again.
LEMMA EndedStays ==
    ASSUME NEW tr \in Track, NEW m \in Msg, Admits(tr, m), NEW t \in Txns, Ended(tr, t)
    PROVE  /\ Ended(Admitted(tr, m), t)
           /\ m.op # "keep" => m.t # t
<1>1. m.op # "keep" => m.t # t
  BY MsgFields, TrackFields DEF Admits, Ended, Needs, Txns
<1> QED
  BY <1>1, AdmittedIs, MsgFields, TrackFields DEF Ended, Admits, Txns

-----------------------------------------------------------------------------
(* Walks of a tracker over a stream *)

Steps(path, tr, s, end) ==
    /\ path \in [0 .. Len(s) -> Track] /\ path[0] = tr /\ path[Len(s)] = end
    /\ \A n \in 1 .. Len(s) : Admits(path[n - 1], s[n]) /\ path[n] = Admitted(path[n - 1], s[n])
    /\ \A i, j \in 0 .. Len(s), t \in Txns : i <= j /\ Ended(path[i], t) => Ended(path[j], t)

LEMMA LeadsSteps ==
    ASSUME NEW tr, NEW s, NEW end
    PROVE  Leads(tr, s, end) <=> \E path : Steps(path, tr, s, end)
BY DEF Leads, Steps

LEMMA LeadsNowhere ==
    ASSUME NEW tr \in Track, NEW end
    PROVE  Leads(tr, << >>, end) <=> end = tr
<1>1. ASSUME end = tr
      PROVE  Leads(tr, << >>, end)
  <2> DEFINE path == [n \in 0 .. 0 |-> tr]
  <2>1. Steps(path, tr, << >>, end)
    BY <1>1 DEF Steps
  <2> QED
    BY <2>1, LeadsSteps
<1> QED
  BY <1>1 DEF Leads

\* The first command is admitted, and the rest goes on from there.
LEMMA LeadsTail ==
    ASSUME NEW tr \in Track, NEW s \in Seq(Msg), s # << >>, NEW end, Leads(tr, s, end)
    PROVE  /\ Admits(tr, Head(s))
           /\ Leads(Admitted(tr, Head(s)), Tail(s), end)
           /\ \A t \in Txns : Ended(Admitted(tr, Head(s)), t) => Ended(end, t)
<1>1. PICK path : Steps(path, tr, s, end)
  BY LeadsSteps
<1>2. /\ Len(s) \in Nat \ {0} /\ Head(s) = s[1] /\ Tail(s) \in Seq(Msg)
      /\ Len(Tail(s)) = Len(s) - 1 /\ \A n \in 1 .. Len(s) - 1 : Tail(s)[n] = s[n + 1]
  BY HeadTailProperties, EmptySeq, LenProperties
<1>3. Admits(path[0], s[1]) /\ path[1] = Admitted(path[0], s[1]) /\ path[0] = tr
  BY <1>1, <1>2 DEF Steps
<1> DEFINE rest == [n \in 0 .. Len(s) - 1 |-> path[n + 1]]
<1>4. Steps(rest, path[1], Tail(s), end)
  <2>1. rest \in [0 .. Len(Tail(s)) -> Track] /\ rest[0] = path[1] /\ rest[Len(Tail(s))] = end
    BY <1>1, <1>2 DEF Steps
  <2>2. ASSUME NEW n \in 1 .. Len(Tail(s))
        PROVE  Admits(rest[n - 1], Tail(s)[n]) /\ rest[n] = Admitted(rest[n - 1], Tail(s)[n])
    <3>1. /\ n + 1 \in 1 .. Len(s) /\ rest[n] = path[n + 1] /\ rest[n - 1] = path[n]
          /\ Tail(s)[n] = s[n + 1]
      BY <1>2
    <3>2. Admits(path[(n + 1) - 1], s[n + 1]) /\ path[n + 1] = Admitted(path[(n + 1) - 1], s[n + 1])
      BY <1>1, <3>1 DEF Steps
    <3>3. (n + 1) - 1 = n
      OBVIOUS
    <3> QED
      BY <3>1, <3>2, <3>3
  <2>3. ASSUME NEW i \in 0 .. Len(Tail(s)), NEW j \in 0 .. Len(Tail(s)), NEW t \in Txns, i <= j, Ended(rest[i], t)
        PROVE  Ended(rest[j], t)
    <3>1. /\ i + 1 \in 0 .. Len(s) /\ j + 1 \in 0 .. Len(s) /\ i + 1 <= j + 1
          /\ rest[i] = path[i + 1] /\ rest[j] = path[j + 1]
      BY <1>2, <2>3
    <3> QED
      BY <1>1, <2>3, <3>1 DEF Steps
  <2> HIDE DEF rest
  <2> QED
    BY <2>1, <2>2, <2>3 DEF Steps
<1>5. \A t \in Txns : Ended(path[1], t) => Ended(path[Len(s)], t)
  BY <1>1, <1>2 DEF Steps
<1> QED
  BY <1>1, <1>2, <1>3, <1>4, <1>5, LeadsSteps, ZenonT(30) DEF Steps

\* One more command, admitted at the end.
LEMMA LeadsAppend ==
    ASSUME NEW tr \in Track, NEW s \in Seq(Msg), NEW end \in Track, Leads(tr, s, end),
           NEW m \in Msg, Admits(end, m)
    PROVE  Leads(tr, Append(s, m), Admitted(end, m))
<1>1. PICK path : Steps(path, tr, s, end)
  BY LeadsSteps
<1> DEFINE new == Admitted(end, m)
           all == Append(s, m)
           more == [n \in 0 .. Len(s) + 1 |-> IF n <= Len(s) THEN path[n] ELSE new]
<1>2. /\ Len(s) \in Nat /\ Len(all) = Len(s) + 1 /\ all[Len(s) + 1] = m
      /\ \A n \in 1 .. Len(s) : all[n] = s[n]
  BY AppendProperties, LenProperties
<1>3. new \in Track /\ \A t \in Txns : Ended(end, t) => Ended(new, t)
  BY AdmittedIs, EndedStays
<1> HIDE DEF new, all
<1>4. more \in [0 .. Len(all) -> Track] /\ more[0] = tr /\ more[Len(all)] = new
  BY <1>1, <1>2, <1>3 DEF Steps
<1>5. ASSUME NEW n \in 1 .. Len(all)
      PROVE  Admits(more[n - 1], all[n]) /\ more[n] = Admitted(more[n - 1], all[n])
  <2>1. CASE n <= Len(s)
    <3>1. n \in 1 .. Len(s) /\ more[n - 1] = path[n - 1] /\ more[n] = path[n] /\ all[n] = s[n]
      BY <1>2, <2>1
    <3> QED
      BY <1>1, <3>1 DEF Steps
  <2>2. CASE n = Len(s) + 1
    <3>1. more[n - 1] = end /\ more[n] = new /\ all[n] = m
      BY <1>1, <1>2, <2>2 DEF Steps
    <3> QED
      BY <3>1 DEF new
  <2> QED
    BY <1>2, <2>1, <2>2
<1>6. ASSUME NEW i \in 0 .. Len(all), NEW j \in 0 .. Len(all), NEW t \in Txns, i <= j, Ended(more[i], t)
      PROVE  Ended(more[j], t)
  <2>1. CASE j <= Len(s)
    <3>1. i \in 0 .. Len(s) /\ j \in 0 .. Len(s) /\ more[i] = path[i] /\ more[j] = path[j]
      BY <1>2, <1>6, <2>1
    <3> QED
      BY <1>1, <1>6, <3>1 DEF Steps
  <2>2. CASE j = Len(s) + 1 /\ i <= Len(s)
    <3>1. /\ i \in 0 .. Len(s) /\ Len(s) \in 0 .. Len(s) /\ more[i] = path[i] /\ more[j] = new
      BY <1>2, <2>2
    <3>2. Ended(path[Len(s)], t)
      BY <1>1, <1>6, <3>1 DEF Steps
    <3> QED
      BY <1>1, <1>3, <3>1, <3>2 DEF Steps
  <2>3. CASE j = Len(s) + 1 /\ i = j
    BY <1>6, <2>3
  <2> QED
    BY <1>2, <1>6, <2>1, <2>2, <2>3
<1> HIDE DEF more
<1>7. Steps(more, tr, all, new)
  BY <1>4, <1>5, <1>6 DEF Steps
<1> QED
  BY <1>7, LeadsSteps DEF new, all

\* What has ended at the start does not come in the stream.
LEMMA LeadsEnded ==
    ASSUME NEW tr \in Track, NEW s \in Seq(Msg), NEW end, Leads(tr, s, end),
           NEW t \in Txns, Ended(tr, t)
    PROVE  \A n \in 1 .. Len(s) : s[n].op # "keep" => s[n].t # t
<1> SUFFICES ASSUME NEW n \in 1 .. Len(s)
             PROVE  s[n].op # "keep" => s[n].t # t
  OBVIOUS
<1>1. PICK path : Steps(path, tr, s, end)
  BY LeadsSteps
<1>2. Len(s) \in Nat /\ s[n] \in Msg /\ n - 1 \in 0 .. Len(s) /\ 0 \in 0 .. Len(s) /\ 0 <= n - 1
  BY LenProperties, ElementOfSeq
<1>3. path[n - 1] \in Track /\ Ended(path[n - 1], t) /\ Admits(path[n - 1], s[n])
  BY <1>1, <1>2 DEF Steps
<1> QED
  BY <1>2, <1>3, EndedStays

-----------------------------------------------------------------------------
(* What rank 0 posts *)

Fitting(tr, ms) == Fit(tr, ms).ok
Fitted(tr, ms) == Fit(tr, ms).track

LEMMA FitIs ==
    ASSUME NEW tr \in Track, NEW ms \in Seq(Msg), Len(ms) <= 2
    PROVE  /\ Len(ms) = 0 => Fitting(tr, ms) /\ Fitted(tr, ms) = tr
           /\ Len(ms) = 1 =>
                /\ Fitting(tr, ms) <=> Admits(tr, ms[1])
                /\ Fitting(tr, ms) => Fitted(tr, ms) = Admitted(tr, ms[1])
           /\ Len(ms) = 2 =>
                /\ Fitting(tr, ms) <=> Admits(tr, ms[1]) /\ Admits(Admitted(tr, ms[1]), ms[2])
                /\ Fitting(tr, ms) => Fitted(tr, ms) = Admitted(Admitted(tr, ms[1]), ms[2])
<1> DEFINE before == [track |-> tr, ok |-> TRUE]
           one == Then(before, ms[1])
           two == Then(one, ms[2])
<1>1. /\ one.ok <=> Admits(tr, ms[1])
      /\ one.ok => one.track = Admitted(tr, ms[1])
  BY DEF Then
<1>2. /\ two.ok <=> one.ok /\ Admits(one.track, ms[2])
      /\ two.ok => two.track = Admitted(one.track, ms[2])
  <2> HIDE DEF one
  <2>1. CASE one.ok /\ Admits(one.track, ms[2])
    BY <2>1 DEF Then
  <2>2. CASE ~(one.ok /\ Admits(one.track, ms[2]))
    <3>1. two = [one EXCEPT !.ok = FALSE]
      BY <2>2 DEF Then
    <3>2. one = [track |-> tr, ok |-> TRUE] \/ one = [track |-> Admitted(tr, ms[1]), ok |-> TRUE]
            \/ one = [track |-> tr, ok |-> FALSE]
      BY DEF Then, one
    <3> QED
      BY <2>2, <3>1, <3>2
  <2> QED
    BY <2>1, <2>2
<1>3. /\ Len(ms) = 0 => Fit(tr, ms) = before
      /\ Len(ms) = 1 => Fit(tr, ms) = one
      /\ Len(ms) = 2 => Fit(tr, ms) = two
  BY DEF Fit
<1> HIDE DEF one, two
<1> QED
  BY <1>1, <1>2, <1>3 DEF Fitting, Fitted

LEMMA Short ==
    ASSUME NEW ms \in Seq(Msg), Len(ms) <= 2
    PROVE  Len(ms) = 0 \/ Len(ms) = 1 \/ Len(ms) = 2
<1> DEFINE l == Len(ms)
<1>1. l \in Nat /\ l <= 2
  BY LenProperties
<1> HIDE DEF l
<1>2. l = 0 \/ l = 1 \/ l = 2
  BY <1>1
<1> QED
  BY <1>2 DEF l

\* s2 is s and the first k of ms.
Extends(s, s2, ms, k) ==
    /\ Len(s2) = Len(s) + k
    /\ \A n \in 1 .. Len(s) : s2[n] = s[n]
    /\ \A n \in 1 .. k : s2[Len(s) + n] = ms[n]

LEMMA SentIs ==
    ASSUME NEW s \in Seq(Msg), NEW ms \in Seq(Msg), Len(ms) <= 2, NEW k \in 0 .. Len(ms)
    PROVE  LET s2 == s \o SubSeq(ms, 1, k) IN
           /\ s2 \in Seq(Msg)
           /\ Extends(s, s2, ms, k)
           /\ k = 0 => s2 = s
           /\ k = 1 => s2 = Append(s, ms[1])
           /\ k = 2 => s2 = Append(Append(s, ms[1]), ms[2])
<1> DEFINE part == SubSeq(ms, 1, k)
           s2 == s \o part
<1>1. /\ Len(ms) \in Nat /\ Len(s) \in Nat /\ k \in Nat /\ \A n \in 1 .. k : ms[n] \in Msg
  BY LenProperties, ElementOfSeq
<1>2. part \in Seq(Msg) /\ Len(part) = k /\ \A n \in 1 .. k : part[n] = ms[n]
  <2>1. \A i \in 1 .. k : ms[i] \in Msg
    BY <1>1
  <2>2. /\ part \in Seq(Msg) /\ Len(part) = IF 1 <= k THEN k - 1 + 1 ELSE 0
        /\ \A i \in 1 .. k - 1 + 1 : part[i] = ms[1 + i - 1]
    BY <1>1, <2>1, SubSeqProperties
  <2> HIDE DEF part
  <2> QED
    BY <1>1, <2>2
<1> HIDE DEF part
<1>3. /\ s2 \in Seq(Msg) /\ Len(s2) = Len(s) + Len(part)
      /\ \A i \in 1 .. Len(s) + Len(part) : s2[i] = IF i <= Len(s) THEN s[i] ELSE part[i - Len(s)]
  BY <1>2, ConcatProperties
<1> HIDE DEF s2
<1>4. Extends(s, s2, ms, k)
  BY <1>1, <1>2, <1>3 DEF Extends
<1>5. k = 0 => s2 = s
  BY <1>1, <1>3, <1>4, SeqEqual DEF Extends
<1>6. k = 1 => s2 = Append(s, ms[1])
  <2> SUFFICES ASSUME k = 1 PROVE s2 = Append(s, ms[1])
    OBVIOUS
  <2>1. /\ Append(s, ms[1]) \in Seq(Msg) /\ Len(Append(s, ms[1])) = Len(s) + 1
        /\ \A i \in 1 .. Len(s) : Append(s, ms[1])[i] = s[i]
        /\ Append(s, ms[1])[Len(s) + 1] = ms[1]
    BY <1>1, AppendProperties
  <2>2. Len(s2) = Len(s) + 1 /\ s2[Len(s) + 1] = ms[1] /\ \A i \in 1 .. Len(s) : s2[i] = s[i]
    BY <1>4 DEF Extends
  <2>3. \A i \in 1 .. Len(s2) : s2[i] = Append(s, ms[1])[i]
    BY <1>1, <2>1, <2>2
  <2> QED
    BY <1>3, <2>1, <2>2, <2>3, SeqEqual
<1>7. k = 2 => s2 = Append(Append(s, ms[1]), ms[2])
  <2> SUFFICES ASSUME k = 2 PROVE s2 = Append(Append(s, ms[1]), ms[2])
    OBVIOUS
  <2> DEFINE s1 == Append(s, ms[1])
  <2>1. /\ s1 \in Seq(Msg) /\ Len(s1) = Len(s) + 1
        /\ \A i \in 1 .. Len(s) : s1[i] = s[i]
        /\ s1[Len(s) + 1] = ms[1]
    BY <1>1, AppendProperties
  <2> HIDE DEF s1
  <2>2. /\ Append(s1, ms[2]) \in Seq(Msg) /\ Len(Append(s1, ms[2])) = Len(s1) + 1
        /\ \A i \in 1 .. Len(s1) : Append(s1, ms[2])[i] = s1[i]
        /\ Append(s1, ms[2])[Len(s1) + 1] = ms[2]
    BY <1>1, <2>1, AppendProperties
  <2>3. /\ Len(s2) = Len(s) + 2 /\ s2[Len(s) + 1] = ms[1] /\ s2[Len(s) + 2] = ms[2]
        /\ \A i \in 1 .. Len(s) : s2[i] = s[i]
    BY <1>4 DEF Extends
  <2>4. \A i \in 1 .. Len(s2) : s2[i] = Append(s1, ms[2])[i]
    BY <1>1, <2>1, <2>2, <2>3
  <2> QED
    BY <1>3, <2>1, <2>2, <2>3, <2>4, SeqEqual DEF s1
<1> QED
  BY <1>3, <1>4, <1>5, <1>6, <1>7 DEF s2, part

\* A follower that got some of what rank 0 posted follows it that far.
LEMMA LeadsSent ==
    ASSUME NEW tr \in Track, NEW s \in Seq(Msg), NEW end \in Track, Leads(tr, s, end),
           NEW ms \in Seq(Msg), Len(ms) <= 2, Fitting(end, ms), NEW k \in 0 .. Len(ms)
    PROVE  \E to \in Track : /\ Leads(tr, s \o SubSeq(ms, 1, k), to)
                             /\ k = Len(ms) => to = Fitted(end, ms)
<1> DEFINE s2 == s \o SubSeq(ms, 1, k)
<1>1. /\ k = 0 => s2 = s
      /\ k = 1 => s2 = Append(s, ms[1])
      /\ k = 2 => s2 = Append(Append(s, ms[1]), ms[2])
  BY SentIs
<1> SUFFICES \E to \in Track : Leads(tr, s2, to) /\ (k = Len(ms) => to = Fitted(end, ms))
  OBVIOUS
<1>2. /\ Len(ms) = 0 \/ Len(ms) = 1 \/ Len(ms) = 2
      /\ k = 0 \/ k = 1 \/ k = 2
      /\ k = 1 => Len(ms) = 1 \/ Len(ms) = 2
      /\ k = 2 => Len(ms) = 2
  <2> DEFINE l == Len(ms)
  <2>1. l = 0 \/ l = 1 \/ l = 2
    BY Short
  <2>2. k \in 0 .. l
    OBVIOUS
  <2> HIDE DEF l
  <2>3. /\ k = 0 \/ k = 1 \/ k = 2
        /\ k = 1 => l = 1 \/ l = 2
        /\ k = 2 => l = 2
    BY <2>1, <2>2
  <2> QED
    BY <2>1, <2>3 DEF l
<1>3. /\ Len(ms) = 1 => ms[1] \in Msg
      /\ Len(ms) = 2 => ms[1] \in Msg /\ ms[2] \in Msg
  BY ElementOfSeq
<1> HIDE DEF s2
<1>4. CASE k = 0
  <2>1. Len(ms) = 0 => Fitted(end, ms) = end
    BY FitIs
  <2> QED
    BY <1>1, <1>4, <2>1
<1>5. CASE k = 1
  <2>1. ms[1] \in Msg /\ Admits(end, ms[1]) /\ (Len(ms) = 1 => Fitted(end, ms) = Admitted(end, ms[1]))
    BY <1>2, <1>3, <1>5, FitIs
  <2>2. Leads(tr, Append(s, ms[1]), Admitted(end, ms[1])) /\ Admitted(end, ms[1]) \in Track
    BY <2>1, LeadsAppend, AdmittedIs
  <2> QED
    BY <1>1, <1>5, <2>1, <2>2
<1>6. CASE k = 2
  <2> DEFINE mid == Admitted(end, ms[1])
             last == Admitted(mid, ms[2])
  <2>1. /\ ms[1] \in Msg /\ ms[2] \in Msg /\ Len(ms) = 2
        /\ Admits(end, ms[1]) /\ Admits(mid, ms[2]) /\ Fitted(end, ms) = last
    BY <1>2, <1>3, <1>6, FitIs
  <2>2. mid \in Track /\ Leads(tr, Append(s, ms[1]), mid) /\ Append(s, ms[1]) \in Seq(Msg)
    BY <2>1, LeadsAppend, AdmittedIs, AppendProperties
  <2> HIDE DEF mid
  <2>3. last \in Track /\ Leads(tr, Append(Append(s, ms[1]), ms[2]), last)
    BY <2>1, <2>2, LeadsAppend, AdmittedIs
  <2> QED
    BY <1>1, <1>6, <2>1, <2>3
<1> QED
  BY <1>2, <1>4, <1>5, <1>6

\* What posting ms, all of it admitted, may leave.
Posted(ms, x) ==
    /\ x.broken \in BOOLEAN /\ x.track \in Track
    /\ x.broken => fault /\ x.track = lead.track
    /\ ~x.broken => x.track = Fitted(lead.track, ms)
    /\ x.stream \in [Followers -> Seq(Msg)]
    /\ \A f \in Up : \E k \in 0 .. Len(ms) : Extends(stream[f], x.stream[f], ms, k) /\ (~x.broken => k = Len(ms))
    /\ \A f \in Up : \E end \in Track : Leads(fol[f].track, x.stream[f], end) /\ (~x.broken => end = x.track)

LEMMA PostsGive ==
    ASSUME TypeOK, OnlyFaultsBreak, StreamsFit, ~lead.broken,
           NEW ms \in Seq(Msg), Len(ms) <= 2, Fitting(lead.track, ms), NEW x \in Posts(ms)
    PROVE  Posted(ms, x)
<1> DEFINE sent(n) == [f \in Followers |-> IF f \in Up THEN stream[f] \o SubSeq(ms, 1, n[f]) ELSE stream[f]]
           whole == [f \in Followers |-> Len(ms)]
<1>1. /\ lead.track \in Track /\ stream \in [Followers -> Seq(Msg)] /\ Up \subseteq Followers
      /\ \A f \in Up : fol[f].track \in Track
  <2>1. lead.track \in Track
    BY DEF TypeOK
  <2>2. fol \in [Followers -> Follower] /\ stream \in [Followers -> Seq(Msg)]
    BY DEF TypeOK
  <2> QED
    BY <2>1, <2>2 DEF Up, Follower
<1>2. Len(ms) \in Nat
  BY LenProperties
<1>3. Fitted(lead.track, ms) \in Track
  <2>1. Leads(lead.track, << >>, lead.track)
    BY <1>1, LeadsNowhere
  <2>2. << >> \in Seq(Msg) /\ Len(ms) \in 0 .. Len(ms)
    BY <1>2, EmptySeq
  <2>3. \E to \in Track : to = Fitted(lead.track, ms)
    BY <1>1, <2>1, <2>2, LeadsSent
  <2> QED
    BY <2>3
\* A follower gets some of the commands, all unless the pair breaks.
<1>4. ASSUME NEW n \in [Followers -> 0 .. Len(ms)]
      PROVE  /\ sent(n) \in [Followers -> Seq(Msg)]
             /\ \A f \in Up : /\ Extends(stream[f], sent(n)[f], ms, n[f])
                              /\ \E end \in Track : /\ Leads(fol[f].track, sent(n)[f], end)
                                                    /\ ~lead.broken /\ n[f] = Len(ms) => end = Fitted(lead.track, ms)
  <2>1. ASSUME NEW f \in Followers
        PROVE  sent(n)[f] \in Seq(Msg)
    BY <1>1, <1>4, SentIs
  <2>2. ASSUME NEW f \in Up
        PROVE  /\ Extends(stream[f], sent(n)[f], ms, n[f])
               /\ \E end \in Track : /\ Leads(fol[f].track, sent(n)[f], end)
                                     /\ ~lead.broken /\ n[f] = Len(ms) => end = Fitted(lead.track, ms)
    <3>1. /\ f \in Followers /\ stream[f] \in Seq(Msg) /\ n[f] \in 0 .. Len(ms)
          /\ sent(n)[f] = stream[f] \o SubSeq(ms, 1, n[f])
      BY <1>1, <1>4
    <3>2. Leads(fol[f].track, stream[f], lead.track)
      BY DEF StreamsFit
    <3> HIDE DEF sent
    <3>3. Extends(stream[f], sent(n)[f], ms, n[f])
      BY <3>1, SentIs
    <3>4. \E to \in Track : /\ Leads(fol[f].track, sent(n)[f], to)
                            /\ n[f] = Len(ms) => to = Fitted(lead.track, ms)
      BY <1>1, <3>1, <3>2, LeadsSent
    <3> QED
      BY <3>3, <3>4
  <2> QED
    BY <2>1, <2>2
<1>5. \/ x = [track |-> Fitted(lead.track, ms), broken |-> FALSE, stream |-> sent(whole)]
      \/ /\ Down # {}
         /\ \E n \in [Followers -> 0 .. Len(ms)] : x = [track |-> lead.track, broken |-> TRUE, stream |-> sent(n)]
  <2>1. Fit(lead.track, ms).ok
    BY DEF Fitting
  <2> QED
    BY <2>1 DEF Posts, Fitted
<1> HIDE DEF sent
<1>6. CASE x = [track |-> Fitted(lead.track, ms), broken |-> FALSE, stream |-> sent(whole)]
  <2>1. whole \in [Followers -> 0 .. Len(ms)] /\ \A f \in Up : whole[f] = Len(ms)
    BY <1>1, <1>2
  <2> HIDE DEF whole
  <2>2. Len(ms) \in 0 .. Len(ms)
    BY <1>2
  <2>3. x.stream = sent(whole) /\ x.track = Fitted(lead.track, ms) /\ x.broken = FALSE
    BY <1>6
  <2> QED
    BY <1>3, <1>4, <2>1, <2>2, <2>3 DEF Posted
<1>7. ASSUME Down # {}, NEW n \in [Followers -> 0 .. Len(ms)],
             x = [track |-> lead.track, broken |-> TRUE, stream |-> sent(n)]
      PROVE  Posted(ms, x)
  <2>1. fault
    BY <1>7 DEF OnlyFaultsBreak
  <2>2. x.stream = sent(n) /\ x.track = lead.track /\ x.broken = TRUE /\ \A f \in Up : n[f] \in 0 .. Len(ms)
    BY <1>1, <1>7
  <2> QED
    BY <1>1, <1>4, <2>1, <2>2 DEF Posted
<1> QED
  BY <1>5, <1>6, <1>7

-----------------------------------------------------------------------------
(* One restore of one rank *)

\* y is x after some work: the same restore, open or not as before.
SameRestore(x, y) == y \in Rx /\ y.st = x.st /\ y.point = x.point /\ y.started = x.started /\ y.allowed = x.allowed

LEMMA RxFields ==
    ASSUME NEW x \in Rx
    PROVE  /\ x.st \in {"none", "asked", "open", "installed", "dropped"} /\ x.point \in Points
           /\ x.started \in BOOLEAN /\ x.copied \in 0 .. Blocks /\ x.whole \in BOOLEAN
           /\ x.allowed \in 0 .. Blocks /\ x.why \in Whys \cup {"none"}
BY DEF Rx

LEMMA NewRx ==
    /\ NoRx \in Rx /\ NoRx.st = "none"
    /\ \A st \in {"installed", "dropped"} : Over(st) \in Rx /\ Over(st).st = st
    /\ \A p \in Points : Asked(p) \in Rx /\ Asked(p).st = "asked" /\ Asked(p).point = p /\ ~Asked(p).whole
<1>1. (CHOOSE p \in Points : TRUE) \in Points
  BY TxnAssumption
<1>2. NoRx \in Rx /\ NoRx.st = "none" /\ ~NoRx.whole
  BY <1>1, TxnAssumption DEF NoRx, Rx
<1> HIDE DEF NoRx
<1> QED
  BY <1>2 DEF Over, Asked, Rx

LEMMA FailedIs ==
    ASSUME NEW x \in Rx, NEW why \in Whys
    PROVE  SameRestore(x, Failed(x, why)) /\ Failed(x, why).why = why /\ Failed(x, why).whole = x.whole
BY DEF Failed, SameRestore, Rx

LEMMA WorkedIs ==
    ASSUME NEW x \in Rx, NEW upto \in 0 .. Blocks, NEW y \in Worked(x, upto)
    PROVE  /\ SameRestore(x, y)
           /\ x.st # "open" \/ Prepared(x) => y = x
<1>1. CASE y = x
  BY <1>1 DEF SameRestore
<1>2. CASE x.st = "open" /\ ~x.whole /\ x.why = "none"
           /\ \/ \E n \in x.copied .. upto : y = [x EXCEPT !.copied = n]
              \/ \E why \in Failures : y = Failed(x, why)
              \/ y = [x EXCEPT !.copied = Blocks, !.whole = TRUE]
  <2>1. Failures \subseteq Whys
    BY TxnAssumption DEF Whys
  <2>2. ASSUME NEW n \in x.copied .. upto
        PROVE  n \in 0 .. Blocks
    <3>1. x.copied \in Nat /\ upto \in Nat /\ upto <= Blocks /\ Blocks \in Nat
      BY RxFields, TxnAssumption
    <3> QED
      BY <3>1
  <2>3. ASSUME NEW n \in 0 .. Blocks, y = [x EXCEPT !.copied = n]
        PROVE  SameRestore(x, y)
    BY <2>3 DEF SameRestore, Rx
  <2>4. y = [x EXCEPT !.copied = Blocks, !.whole = TRUE] => SameRestore(x, y)
    <3>1. Blocks \in 0 .. Blocks
      BY TxnAssumption
    <3> QED
      BY <3>1 DEF SameRestore, Rx
  <2> QED
    BY <1>2, <2>1, <2>2, <2>3, <2>4, FailedIs DEF Prepared
<1> QED
  BY <1>1, <1>2 DEF Worked

LEMMA CheckedIs ==
    ASSUME NEW x \in Rx, NEW y \in Checked(x)
    PROVE  SameRestore(x, y) /\ y.whole = x.whole /\ (x.why # "none" => y = x)
<1>1. "reserve" \in Whys
  BY DEF Whys
<1> QED
  BY <1>1, FailedIs DEF Checked, SameRestore

-----------------------------------------------------------------------------
(* Rank 0 posts ms and waits in w.  Only restores of T, at most one, change, *)
(* on rank 0; no ask is out, or all have answered one about T.               *)

PostFrame(T, ms, x, w) ==
    /\ ms \in Seq(Msg) /\ Posted(ms, x) /\ Lead(x, w)
    /\ T \subseteq Txns /\ ~lead.broken
    /\ lead.wait = NoWait \/ (lead.wait # NoWait /\ lead.wait.t \in T)
    /\ w = NoWait \/ (w \in [op : {"has", "status", "validate"}, t : Txns] /\ w.t \in T)
    /\ rx' \in [Ranks -> [Txns -> Rx]] /\ \A f \in Followers : rx'[f] = rx[f]
    /\ \A u \in Txns \ T : rx'[0][u] = rx[0][u]
    /\ fol' \in [Followers -> Follower] /\ fault' = fault
    /\ \A f \in Followers : fol'[f].up = fol[f].up /\ fol'[f].track = fol[f].track
    /\ \A f \in Up : fol'[f].reply = "" /\ \A n \in 1 .. Len(stream[f]) : ~IsAsk(stream[f][n])

LEMMA UpIs == Up \subseteq Followers /\ \A f \in Followers : f \in Up <=> fol[f].up
BY DEF Up

LEMMA RankIs == 0 \in Ranks /\ Followers \subseteq Ranks /\ 0 \notin Followers /\ \A f \in Followers : f # 0
BY TxnAssumption DEF Ranks, Followers

LEMMA PostLead ==
    ASSUME NEW T, NEW ms, NEW x, NEW w, PostFrame(T, ms, x, w)
    PROVE  /\ lead'.track = x.track /\ lead'.broken = x.broken /\ stream' = x.stream
           /\ lead'.wait = IF x.broken THEN NoWait ELSE w
           /\ x.broken \in BOOLEAN /\ x.track \in Track
           /\ Up' = Up /\ Down' = Down
BY DEF PostFrame, Posted, Lead, Up, Down

LEMMA PostRest ==
    ASSUME NEW T, NEW ms, NEW x, NEW w, PostFrame(T, ms, x, w)
    PROVE  /\ \A f \in Followers : rx'[f] = rx[f] /\ fol'[f].track = fol[f].track
           /\ \A u \in Txns : u \notin T => rx'[0][u] = rx[0][u]
           /\ \A u \in Txns : u \notin T => \A op : w # Command(op, u) /\ lead.wait # Command(op, u)
           /\ \A f \in Up : f \in Followers /\ fol'[f].reply = ""
           /\ \A f \in Up : \A n \in 1 .. Len(stream[f]) : ~IsAsk(stream[f][n])
           /\ fault' = fault /\ ~lead.broken
<1>1. ASSUME NEW u \in Txns, u \notin T
      PROVE  \A op : w # Command(op, u) /\ lead.wait # Command(op, u)
  <2>1. \A op : Command(op, u).t = u /\ Command(op, u) # NoWait
    BY DEF Command, NoWait
  <2>2. (w = NoWait \/ w.t # u) /\ (lead.wait = NoWait \/ lead.wait.t # u)
    BY <1>1, Zenon DEF PostFrame
  <2> QED
    BY <2>1, <2>2
<1>2. Up \subseteq Followers
  BY UpIs
<1> QED
  BY <1>1, <1>2, Zenon DEF PostFrame

LEMMA PostTypes ==
    ASSUME IInv, NEW T, NEW ms, NEW x, NEW w, PostFrame(T, ms, x, w),
           stored' \in [Ranks -> SUBSET Points], writing' \in [Ranks -> SUBSET Points],
           \A r \in Ranks : stored'[r] \cap writing'[r] = {},
           gone' \in [Ranks -> SUBSET Points]
    PROVE  TypeOK'
<1>1. lead' \in [track : Track, broken : BOOLEAN, wait : [op : {"has", "status", "validate"}, t : Txns] \cup {NoWait}]
  <2>1. x.track \in Track /\ x.broken \in BOOLEAN
    BY PostLead
  <2>2. w \in [op : {"has", "status", "validate"}, t : Txns] \cup {NoWait}
    BY DEF PostFrame
  <2> QED
    BY <2>1, <2>2 DEF PostFrame, Lead
<1>2. stream' \in [Followers -> Seq(Msg)] /\ fault' \in BOOLEAN
  BY DEF PostFrame, Posted, Lead, IInv, TypeOK
<1> QED
  BY <1>1, <1>2 DEF PostFrame, TypeOK

\* What is in the streams then.
LEMMA PostStream ==
    ASSUME TypeOK, NEW T, NEW ms, NEW x, NEW w, PostFrame(T, ms, x, w), NEW f \in Up
    PROVE  /\ Len(stream'[f]) \in Nat /\ Len(stream[f]) \in Nat /\ Len(stream[f]) <= Len(stream'[f])
           /\ \A n \in 1 .. Len(stream[f]) : n \in 1 .. Len(stream'[f]) /\ stream'[f][n] = stream[f][n]
           /\ \A n \in 1 .. Len(stream'[f]) :
                \/ n \in 1 .. Len(stream[f])
                \/ \E k \in 1 .. Len(ms) : n = Len(stream[f]) + k /\ stream'[f][n] = ms[k]
           /\ ~x.broken => /\ Len(stream'[f]) = Len(stream[f]) + Len(ms)
                           /\ \A k \in 1 .. Len(ms) : stream'[f][Len(stream[f]) + k] = ms[k]
<1>1. PICK k \in 0 .. Len(ms) : Extends(stream[f], stream'[f], ms, k) /\ (~x.broken => k = Len(ms))
  <2>1. \E k \in 0 .. Len(ms) : Extends(stream[f], x.stream[f], ms, k) /\ (~x.broken => k = Len(ms))
    BY DEF PostFrame, Posted
  <2>2. x.stream = stream'
    BY PostLead
  <2> QED
    BY <2>1, <2>2, Zenon
<1>2. Len(stream[f]) \in Nat /\ Len(stream'[f]) \in Nat /\ Len(ms) \in Nat
  <2>1. stream[f] \in Seq(Msg) /\ stream'[f] \in Seq(Msg) /\ ms \in Seq(Msg)
    BY UpIs DEF TypeOK, PostFrame, Posted, Lead
  <2> QED
    BY <2>1, LenProperties
<1> DEFINE a == Len(stream[f])
           b == Len(stream'[f])
           l == Len(ms)
<1> SUFFICES
      /\ b \in Nat /\ a \in Nat /\ a <= b
      /\ \A n \in 1 .. a : n \in 1 .. b /\ stream'[f][n] = stream[f][n]
      /\ \A n \in 1 .. b : n \in 1 .. a \/ \E i \in 1 .. l : n = a + i /\ stream'[f][n] = ms[i]
      /\ ~x.broken => b = a + l /\ \A i \in 1 .. l : stream'[f][a + i] = ms[i]
  OBVIOUS
<1>3. /\ b = a + k /\ \A n \in 1 .. a : stream'[f][n] = stream[f][n]
      /\ \A n \in 1 .. k : stream'[f][a + n] = ms[n]
      /\ a \in Nat /\ b \in Nat /\ l \in Nat /\ k \in 0 .. l /\ (~x.broken => k = l)
  BY <1>1, <1>2 DEF Extends
<1> HIDE DEF a, b, l
<1>4. ASSUME NEW n \in 1 .. b, n \notin 1 .. a
      PROVE  \E i \in 1 .. l : n = a + i /\ stream'[f][n] = ms[i]
  <2>1. n - a \in 1 .. k /\ n - a \in 1 .. l /\ n = a + (n - a)
    BY <1>3, <1>4
  <2> QED
    BY <1>3, <2>1
<1> QED
  BY <1>3, <1>4

LEMMA PostKeeps ==
    ASSUME IInv, NEW T, NEW ms, NEW x, NEW w, PostFrame(T, ms, x, w)
    PROVE  StreamsFit' /\ FollowerFits' /\ OnlyFaultsBreak' /\ BrokenWaitsNot'
<1>1. Up' = Up /\ Down' = Down /\ Up \subseteq Followers
  BY PostLead, UpIs
<1>2. StreamsFit'
  <2> SUFFICES ASSUME NEW f \in Up
               PROVE  \E end \in Track : Leads(fol'[f].track, stream'[f], end) /\ (~lead'.broken => end = lead'.track)
    BY <1>1 DEF StreamsFit
  <2>1. \E end \in Track : Leads(fol[f].track, x.stream[f], end) /\ (~x.broken => end = x.track)
    BY DEF PostFrame, Posted
  <2>2. fol'[f].track = fol[f].track
    BY <1>1 DEF PostFrame
  <2>3. x.stream = stream' /\ x.broken = lead'.broken /\ x.track = lead'.track
    BY PostLead
  <2> QED
    BY <2>1, <2>2, <2>3, Zenon
<1>3. FollowerFits'
  BY <1>1 DEF IInv, FollowerFits, PostFrame
<1>4. OnlyFaultsBreak'
  BY <1>1, PostLead DEF IInv, OnlyFaultsBreak, PostFrame, Posted
<1>5. BrokenWaitsNot'
  BY PostLead DEF BrokenWaitsNot
<1> QED
  BY <1>2, <1>3, <1>4, <1>5

\* An ask comes last and is waited for.
AsksLast(ms, w) ==
    /\ \A n \in 1 .. Len(ms) : IsAsk(ms[n]) => n = Len(ms) /\ w # NoWait
    /\ w # NoWait => /\ ms # << >>
                     /\ ms[Len(ms)] = IF w.op = "has" THEN Has(w.t, rx'[0][w.t].point) ELSE w

LEMMA PostAsks ==
    ASSUME IInv, NEW T, NEW ms, NEW x, NEW w, PostFrame(T, ms, x, w),
           ~x.broken => AsksLast(ms, w)
    PROVE  AskFits'
<1> SUFFICES ASSUME ~x.broken, NEW f \in Up
             PROVE  LET s == stream'[f] IN
                    /\ \A n \in 1 .. Len(s) : IsAsk(s[n]) => n = Len(s) /\ lead'.wait # NoWait
                    /\ lead'.wait = NoWait => fol'[f].reply = ""
                    /\ lead'.wait # NoWait => IF fol'[f].reply = "" THEN s # << >> /\ s[Len(s)] = TheAsk'
                                                                    ELSE s = << >>
  BY PostLead DEF AskFits
<1>9. AsksLast(ms, w)
  OBVIOUS
<1>1. lead'.wait = w /\ fol'[f].reply = ""
  <2>1. lead'.wait = w
    BY PostLead, Zenon
  <2>2. fol'[f].reply = ""
    BY PostRest, Zenon
  <2> QED
    BY <2>1, <2>2
<1>2. TypeOK
  BY DEF IInv
<1> DEFINE a == Len(stream[f])
           b == Len(stream'[f])
           l == Len(ms)
<1>3. /\ a \in Nat /\ b \in Nat /\ l \in Nat /\ b = a + l
      /\ \A n \in 1 .. b : n \in 1 .. a \/ \E i \in 1 .. l : n = a + i /\ stream'[f][n] = ms[i]
      /\ \A n \in 1 .. a : stream'[f][n] = stream[f][n] /\ ~IsAsk(stream[f][n])
      /\ \A i \in 1 .. l : stream'[f][a + i] = ms[i]
  <2>1. l \in Nat
    BY LenProperties DEF PostFrame
  <2>2. \A n \in 1 .. a : ~IsAsk(stream[f][n])
    BY PostRest
  <2> QED
    BY <1>2, <2>1, <2>2, PostStream
<1>4. w # NoWait => l # 0
  BY <1>9, EmptySeq DEF AsksLast, PostFrame
<1>5. stream'[f] \in Seq(Msg)
  BY UpIs DEF PostFrame, Posted, Lead
<1>6. stream'[f] = << >> => b = 0
  BY DEF b
<1>7. ASSUME NEW n \in 1 .. b, IsAsk(stream'[f][n])
      PROVE  n = b /\ w # NoWait
  <2>1. n \notin 1 .. a
    BY <1>3, <1>7
  <2>2. PICK i \in 1 .. l : n = a + i /\ stream'[f][n] = ms[i]
    BY <1>3, <2>1
  <2>3. i = l /\ w # NoWait
    BY <1>7, <1>9, <2>2 DEF AsksLast
  <2> HIDE DEF a, b, l
  <2> QED
    BY <1>3, <2>2, <2>3
<1>8. ASSUME w # NoWait
      PROVE  stream'[f] # << >> /\ stream'[f][b] = TheAsk'
  <2>1. l \in 1 .. l /\ b # 0
    <3> HIDE DEF a, b, l
    <3> QED
      BY <1>3, <1>4, <1>8
  <2>2. stream'[f][b] = ms[l]
    <3> HIDE DEF a, b, l
    <3> QED
      BY <1>3, <2>1
  <2>3. ms[l] = TheAsk'
    BY <1>1, <1>8, <1>9 DEF AsksLast, TheAsk
  <2> QED
    BY <1>6, <2>1, <2>2, <2>3
<1> QED
  BY <1>1, <1>7, <1>8

\* Every follower has heard of rank 0's restore t.
Heard(t) == \A f \in Up : fol[f].track.phase[t] # "none" /\ rx[f][t].point = rx[0][t].point

LEMMA HeardOf ==
    ASSUME SamePoint, ~lead.broken, NEW t \in Txns, rx[0][t].st \in {"asked", "open"},
           \A f \in Up : lead.wait # Command("has", t) \/ fol[f].reply # ""
    PROVE  Heard(t)
BY DEF SamePoint, Heard

LEMMA PostPoints ==
    ASSUME IInv, NEW T, NEW ms, NEW x, NEW w, PostFrame(T, ms, x, w),
           ~x.broken => \A t \in T : rx'[0][t].st \in {"asked", "open"} =>
                w = Command("has", t) \/ (Heard(t) /\ rx'[0][t].point = rx[0][t].point)
    PROVE  SamePoint'
<1> SUFFICES ASSUME ~x.broken, NEW f \in Up, NEW u \in Txns, rx'[0][u].st \in {"asked", "open"}
             PROVE  \/ fol'[f].track.phase[u] # "none" /\ rx'[f][u].point = rx'[0][u].point
                    \/ lead'.wait = Command("has", u) /\ fol'[f].reply = ""
  BY PostLead DEF SamePoint
<1>1. /\ f \in Followers /\ rx'[f] = rx[f] /\ fol'[f].track = fol[f].track /\ fol'[f].reply = ""
      /\ lead'.wait = w
  <2>1. lead'.wait = w
    BY PostLead, Zenon
  <2> QED
    BY <2>1, PostRest, Zenon
<1>2. CASE u \in T
  BY <1>1, <1>2 DEF Heard
<1>3. CASE u \notin T
  <2>1. lead.wait # Command("has", u)
    BY <1>3, PostRest
  <2>2. rx'[0][u] = rx[0][u]
    BY <1>3, PostRest
  <2>3. ~lead.broken /\ SamePoint
    BY PostRest DEF IInv
  <2>4. fol[f].track.phase[u] # "none" /\ rx[f][u].point = rx[0][u].point
    BY <2>1, <2>2, <2>3 DEF SamePoint
  <2> QED
    BY <1>1, <2>2, <2>4
<1> QED
  BY <1>2, <1>3

LEMMA PostAborts ==
    ASSUME IInv, NEW T, NEW ms, NEW x, NEW w, PostFrame(T, ms, x, w),
           \A t \in T : rx[0][t].st # "dropped",
           \A n \in 1 .. Len(ms) : ms[n].op = "abort" => ms[n].t \in T /\ rx'[0][ms[n].t].st = "dropped"
    PROVE  /\ AbortsDropped'
           /\ \A f \in Up, t \in Txns \ T : AbortIn(f, t)' => AbortIn(f, t)
<1>1. Up' = Up /\ TypeOK
  BY PostLead DEF IInv
<1>2. ASSUME NEW f \in Up, NEW t \in Txns, AbortIn(f, t)'
      PROVE  AbortIn(f, t) \/ (t \in T /\ rx'[0][t].st = "dropped")
  <2>1. PICK n \in 1 .. Len(stream'[f]) : stream'[f][n].op = "abort" /\ stream'[f][n].t = t
    BY <1>2 DEF AbortIn
  <2>2. CASE n \in 1 .. Len(stream[f])
    BY <1>1, <2>1, <2>2, PostStream DEF AbortIn
  <2>3. CASE \E k \in 1 .. Len(ms) : stream'[f][n] = ms[k]
    BY <2>1, <2>3
  <2> QED
    BY <1>1, <2>2, <2>3, PostStream
<1>3. ASSUME NEW f \in Up, NEW t \in Txns, AbortIn(f, t)'
      PROVE  rx'[0][t].st = "dropped"
  <2>1. CASE AbortIn(f, t)
    <3>1. rx[0][t].st = "dropped"
      BY <2>1 DEF IInv, AbortsDropped
    <3> QED
      BY <3>1 DEF PostFrame
  <2> QED
    BY <1>2, <1>3, <2>1
<1> QED
  BY <1>1, <1>2, <1>3 DEF AbortsDropped

LEMMA PostCommits ==
    ASSUME IInv, NEW T, NEW ms, NEW x, NEW w, PostFrame(T, ms, x, w),
           \A f \in Up, t \in Txns \ T : AbortIn(f, t)' => AbortIn(f, t),
           \A t \in T : rx[0][t].st \in {"none", "asked", "open"} /\ rx'[0][t].st # "installed",
           \A n \in 1 .. Len(ms) : ms[n].op # "commit"
    PROVE  CommitsHold'
<1>1. Up' = Up /\ TypeOK /\ Up \subseteq Followers
  BY PostLead, UpIs DEF IInv
<1>2. ASSUME NEW t \in Txns, Committed(t)'
      PROVE  Committed(t) /\ t \notin T
  <2>1. ASSUME NEW f \in Up, CommitIn(f, t)'
        PROVE  CommitIn(f, t)
    <3>1. PICK n \in 1 .. Len(stream'[f]) : stream'[f][n].op = "commit" /\ stream'[f][n].t = t
      BY <2>1 DEF CommitIn
    <3>2. \/ n \in 1 .. Len(stream[f])
          \/ \E k \in 1 .. Len(ms) : n = Len(stream[f]) + k /\ stream'[f][n] = ms[k]
      BY <1>1, PostStream
    <3>3. n \in 1 .. Len(stream[f]) /\ stream'[f][n] = stream[f][n]
      <4>1. \A k \in 1 .. Len(ms) : stream'[f][n] # ms[k]
        BY <3>1
      <4> QED
        BY <1>1, <3>2, <4>1, PostStream
    <3> QED
      BY <3>1, <3>3 DEF CommitIn
  <2>2. rx'[0][t].st = "installed" => rx[0][t].st = "installed" /\ t \notin T
    BY DEF PostFrame
  <2>3. Committed(t)
    BY <1>1, <1>2, <2>1, <2>2 DEF Committed, PostFrame
  <2>4. rx[0][t].st \in {"installed", "dropped"}
    BY <2>3 DEF IInv, CommitsHold
  <2> QED
    BY <2>3, <2>4
<1> SUFFICES ASSUME NEW t \in Txns, Committed(t)'
             PROVE  /\ rx'[0][t].st = "installed" \/ (fault' /\ rx'[0][t].st = "dropped")
                    /\ \A f \in Followers : rx'[f][t].st = "installed" \/ Prepared(rx'[f][t])
                    /\ \A f \in Up : /\ Prepared(rx'[f][t]) => fol'[f].track.phase[t] = "validating"
                                     /\ ~AbortIn(f, t)'
  BY <1>1 DEF CommitsHold
<1>3. Committed(t) /\ t \notin T
  BY <1>2
<1>4. /\ rx[0][t].st = "installed" \/ (fault /\ rx[0][t].st = "dropped")
      /\ \A f \in Followers : rx[f][t].st = "installed" \/ Prepared(rx[f][t])
      /\ \A f \in Up : (Prepared(rx[f][t]) => fol[f].track.phase[t] = "validating") /\ ~AbortIn(f, t)
  BY <1>3 DEF IInv, CommitsHold
<1>5. rx'[0][t] = rx[0][t] /\ fault' = fault
  BY <1>3 DEF PostFrame
<1>6. \A f \in Followers : rx'[f][t] = rx[f][t] /\ fol'[f].track = fol[f].track
  BY DEF PostFrame
<1>7. \A f \in Up : ~AbortIn(f, t)'
  BY <1>3, <1>4
<1> QED
  BY <1>1, <1>4, <1>5, <1>6, <1>7

LEMMA PostLeader ==
    ASSUME IInv, NEW T, NEW ms, NEW x, NEW w, PostFrame(T, ms, x, w),
           ~x.broken => /\ \A u \in Txns : u \notin T => x.track.phase[u] = lead.track.phase[u]
                        /\ lead.track.last <= x.track.last
                        /\ \A t \in T : LeaderAt(t)'
    PROVE  LeaderFits'
<1> SUFFICES ASSUME ~x.broken, NEW u \in Txns, u \notin T
             PROVE  LeaderAt(u)'
  BY PostLead DEF LeaderFits
<1>1. LeaderAt(u)
  BY PostRest DEF IInv, LeaderFits
<1>2. lead'.wait = w /\ lead'.track = x.track
  BY PostLead, ZenonT(30)
<1>3. rx'[0][u] = rx[0][u] /\ \A op : w # Command(op, u) /\ lead.wait # Command(op, u)
  BY PostRest, Zenon
<1>4. lead.track.phase[u] = x.track.phase[u]
  OBVIOUS
<1>5. u > x.track.last => u > lead.track.last
  <2>1. lead.track \in Track /\ x.track \in Track
    BY PostLead DEF IInv, TypeOK
  <2>2. lead.track.last \in Nat /\ x.track.last \in Nat /\ u \in Nat /\ lead.track.last <= x.track.last
    BY <2>1, TrackFields DEF Txns
  <2> QED
    BY <2>2
<1> QED
  BY <1>1, <1>2, <1>3, <1>4, <1>5 DEF LeaderAt, RxFits

LEMMA PostComplete ==
    ASSUME IInv, NEW T, NEW ms, NEW x, NEW w, PostFrame(T, ms, x, w),
           \A u \in Txns : w = Command("validate", u) => \A f \in Followers : fol'[f].reply = ""
    PROVE  CompleteIsPrepared'
<1>1. lead'.wait = IF x.broken THEN NoWait ELSE w
  BY PostLead, Zenon
<1>2. \A u \in Txns : NoWait # Command("validate", u)
  BY DEF NoWait, Command
<1> QED
  BY <1>1, <1>2 DEF CompleteIsPrepared

\* The stored points a rank is told to forget are p, if the pair holds.
PostForgets(T, ms, x) ==
    \/ gone' = gone /\ stored' = stored
    \/ \E t \in T, n \in 1 .. Len(ms) :
        /\ ms[n] = Abort(t, TRUE) /\ Heard(t)
        /\ stored' = [stored EXCEPT ![0] = @ \ {rx[0][t].point}]
        /\ gone' = [r \in Ranks |-> IF r = 0 \/ ~x.broken THEN gone[r] \cup {rx[0][t].point} ELSE gone[r]]

LEMMA PostGone ==
    ASSUME IInv, NEW T, NEW ms, NEW x, NEW w, PostFrame(T, ms, x, w), PostForgets(T, ms, x)
    PROVE  GoneToCome'
<1> DEFINE Comes(f, p) ==
      \E n \in 1 .. Len(stream[f]) :
          /\ stream[f][n].op = "abort" /\ stream[f][n].forget
          /\ fol[f].track.phase[stream[f][n].t] # "none" /\ rx[f][stream[f][n].t].point = p
<1>1. TypeOK /\ GoneToCome
  BY DEF IInv
<1>2. Up' = Up /\ \A f \in Up : f \in Followers /\ f \in Ranks /\ f # 0
  BY PostLead, UpIs, RankIs
<1>3. gone[0] \cap stored[0] = {} /\ \A f \in Up : \A p \in gone[f] \cap stored[f] : Comes(f, p)
  BY <1>1 DEF GoneToCome
<1>4. ASSUME NEW f \in Up, NEW p, Comes(f, p)
      PROVE  Comes(f, p)'
  <2>1. PICK n \in 1 .. Len(stream[f]) :
            /\ stream[f][n].op = "abort" /\ stream[f][n].forget
            /\ fol[f].track.phase[stream[f][n].t] # "none" /\ rx[f][stream[f][n].t].point = p
    BY <1>4
  <2>2. n \in 1 .. Len(stream'[f]) /\ stream'[f][n] = stream[f][n]
    BY <1>1, PostStream
  <2>3. rx'[f] = rx[f] /\ fol'[f].track = fol[f].track
    BY <1>2, PostRest
  <2> QED
    BY <2>1, <2>2, <2>3
<1>5. /\ gone'[0] \cap stored'[0] = {}
      /\ \A f \in Up : \A p \in gone'[f] \cap stored'[f] : Comes(f, p)'
  <2>1. CASE gone' = gone /\ stored' = stored
    <3> HIDE DEF Comes
    <3> QED
      BY <1>3, <1>4, <2>1
  <2>2. ASSUME NEW t \in T, NEW n \in 1 .. Len(ms), ms[n] = Abort(t, TRUE), Heard(t),
               stored' = [stored EXCEPT ![0] = @ \ {rx[0][t].point}],
               gone' = [r \in Ranks |-> IF r = 0 \/ ~x.broken THEN gone[r] \cup {rx[0][t].point} ELSE gone[r]]
        PROVE  /\ gone'[0] \cap stored'[0] = {}
               /\ \A f \in Up : \A p \in gone'[f] \cap stored'[f] : Comes(f, p)'
    <3> DEFINE q == rx[0][t].point
    <3>1. stored \in [Ranks -> SUBSET Points] /\ 0 \in Ranks
      BY <1>1, RankIs DEF TypeOK
    <3>2. stored'[0] = stored[0] \ {q} /\ gone'[0] = gone[0] \cup {q}
      BY <2>2, <3>1
    <3>3. ASSUME NEW f \in Up, NEW p \in gone'[f] \cap stored'[f]
          PROVE  Comes(f, p)'
      <4>1. stored'[f] = stored[f] /\ gone'[f] = (IF ~x.broken THEN gone[f] \cup {q} ELSE gone[f])
        BY <1>2, <2>2, <3>1
      <4>2. CASE p \in gone[f]
        <5> HIDE DEF Comes
        <5> QED
          BY <1>3, <1>4, <3>3, <4>1, <4>2
      <4>3. CASE p = q /\ ~x.broken
        <5> DEFINE k == Len(stream[f]) + n
        <5>1. k \in 1 .. Len(stream'[f]) /\ stream'[f][k] = Abort(t, TRUE)
          <6>1. /\ Len(stream[f]) \in Nat /\ Len(stream'[f]) = Len(stream[f]) + Len(ms)
                /\ stream'[f][k] = ms[n]
            BY <1>1, <4>3, PostStream
          <6>2. Len(ms) \in Nat
            BY LenProperties DEF PostFrame
          <6> DEFINE a == Len(stream[f])
                     b == Len(stream'[f])
                     l == Len(ms)
          <6>3. a \in Nat /\ b = a + l /\ n \in 1 .. l /\ l \in Nat
            BY <6>1, <6>2
          <6> HIDE DEF a, b, l
          <6>4. a + n \in 1 .. b
            BY <6>3
          <6> QED
            BY <2>2, <6>1, <6>4 DEF a, b, l
        <5>2. rx'[f] = rx[f] /\ fol'[f].track = fol[f].track
          BY <1>2, PostRest
        <5>3. fol[f].track.phase[t] # "none" /\ rx[f][t].point = q
          BY <2>2 DEF Heard
        <5>4. Abort(t, TRUE).op = "abort" /\ Abort(t, TRUE).forget /\ Abort(t, TRUE).t = t
          BY DEF Abort
        <5> HIDE DEF k, q
        <5> QED
          BY <4>3, <5>1, <5>2, <5>3, <5>4
      <4> QED
        BY <3>3, <4>1, <4>2, <4>3
    <3> QED
      BY <1>3, <3>2, <3>3
  <2> QED
    BY <2>1, <2>2 DEF PostForgets
<1> QED
  BY <1>2, <1>5 DEF GoneToCome

-----------------------------------------------------------------------------
(* The commands rank 0 posts are admitted *)

\* A tracker at tr admits ms; restore t is in phase ph then, the others where they were.
Moved(tr, t, ms, ph) ==
    /\ ms \in Seq(Msg) /\ Len(ms) <= 2 /\ Fitting(tr, ms)
    /\ \A u \in Txns : Fitted(tr, ms).phase[u] = IF u = t THEN ph ELSE tr.phase[u]
    /\ Fitted(tr, ms).last = tr.last

LEMMA NoneMoves ==
    ASSUME NEW tr \in Track, NEW t \in Txns
    PROVE  Moved(tr, t, << >>, tr.phase[t])
<1> DEFINE ms == << >>
<1>1. ms \in Seq(Msg) /\ Len(ms) = 0 /\ Len(ms) <= 2
  BY EmptySeq
<1> HIDE DEF ms
<1>2. Fitting(tr, ms) /\ Fitted(tr, ms) = tr
  BY <1>1, FitIs
<1>3. Moved(tr, t, ms, tr.phase[t])
  BY <1>1, <1>2 DEF Moved
<1> QED
  BY <1>3 DEF ms

LEMMA OneMoves ==
    ASSUME NEW tr \in Track, NEW m \in Msg, m.op \notin {"keep", "has"}, Admits(tr, m)
    PROVE  Moved(tr, m.t, << m >>, Moves[m.op])
<1> DEFINE ms == << m >>
<1>1. ms \in Seq(Msg) /\ Len(ms) = 1 /\ Len(ms) <= 2 /\ ms[1] = m
  OBVIOUS
<1> HIDE DEF ms
<1>2. Fitting(tr, ms) /\ Fitted(tr, ms) = Admitted(tr, m)
  BY <1>1, FitIs
<1>3. Moved(tr, m.t, ms, Moves[m.op])
  BY <1>1, <1>2, AdmittedIs DEF Moved
<1> QED
  BY <1>3 DEF ms

LEMMA TwoMove ==
    ASSUME NEW tr \in Track, NEW m \in Msg, NEW n \in Msg, m.op \notin {"keep", "has"}, n.op \notin {"keep", "has"},
           m.t = n.t, Admits(tr, m), Admits(Admitted(tr, m), n)
    PROVE  Moved(tr, m.t, << m, n >>, Moves[n.op])
<1> DEFINE ms == << m, n >>
<1>1. ms \in Seq(Msg) /\ Len(ms) = 2 /\ Len(ms) <= 2 /\ ms[1] = m /\ ms[2] = n
  OBVIOUS
<1> HIDE DEF ms
<1>2. Fitting(tr, ms) /\ Fitted(tr, ms) = Admitted(Admitted(tr, m), n)
  BY <1>1, FitIs
<1>3. Admitted(tr, m) \in Track
  BY AdmittedIs
<1>4. /\ \A u \in Txns : Admitted(tr, m).phase[u] = IF u = m.t THEN Moves[m.op] ELSE tr.phase[u]
      /\ Admitted(tr, m).last = tr.last
  BY AdmittedIs
<1>5. /\ \A u \in Txns : Admitted(Admitted(tr, m), n).phase[u] = IF u = n.t THEN Moves[n.op] ELSE Admitted(tr, m).phase[u]
      /\ Admitted(Admitted(tr, m), n).last = Admitted(tr, m).last
  BY <1>3, AdmittedIs
<1>6. Moved(tr, m.t, ms, Moves[n.op])
  BY <1>1, <1>2, <1>4, <1>5 DEF Moved
<1> QED
  BY <1>6 DEF ms

\* Rank 0's blocks on the device, if they are more than it allowed.
Grew(tr, t, n) == IF n > tr.upto[t] THEN << Progress(t, n) >> ELSE << >>

LEMMA PostedMoves ==
    ASSUME NEW tr \in Track, NEW t \in Txns
    PROVE  /\ tr.phase[t] = "has" => Moved(tr, t, << Command("reserve", t), Command("start", t) >>, "started")
           /\ tr.phase[t] = "started" => Moved(tr, t, << Command("validate", t) >>, "validating")
           /\ tr.phase[t] = "validating" => Moved(tr, t, << Command("commit", t) >>, "none")
           /\ tr.phase[t] # "none" => \A b \in BOOLEAN : Moved(tr, t, << Abort(t, b) >>, "none")
<1>1. /\ Command("reserve", t) \in Msg /\ Command("start", t) \in Msg /\ Command("validate", t) \in Msg
      /\ Command("commit", t) \in Msg /\ \A b \in BOOLEAN : Abort(t, b) \in Msg
  BY MsgType
<1>2. /\ \A op : Command(op, t).op = op /\ Command(op, t).t = t
      /\ \A b : Abort(t, b).op = "abort" /\ Abort(t, b).t = t
  BY DEF Command, Abort
<1>3. ASSUME tr.phase[t] = "has"
      PROVE  Moved(tr, t, << Command("reserve", t), Command("start", t) >>, "started")
  <2>1. Admits(tr, Command("reserve", t))
    BY <1>2, <1>3 DEF Admits, Needs
  <2>2. Admitted(tr, Command("reserve", t)).phase[t] = "reserved"
    <3>1. Moves["reserve"] = "reserved"
      BY DEF Moves
    <3> DEFINE m == Command("reserve", t)
    <3>2. m \in Msg /\ m.op = "reserve" /\ m.t = t
      BY <1>1, <1>2
    <3> HIDE DEF m
    <3>3. Admitted(tr, m).phase[t] = "reserved"
      BY <3>1, <3>2, AdmittedIs
    <3> QED
      BY <3>3 DEF m
  <2>3. Admits(Admitted(tr, Command("reserve", t)), Command("start", t))
    BY <1>2, <2>2 DEF Admits, Needs
  <2>4. Moved(tr, Command("reserve", t).t, << Command("reserve", t), Command("start", t) >>, Moves[Command("start", t).op])
    BY <1>1, <1>2, <2>1, <2>3, TwoMove
  <2>5. Moves["start"] = "started"
    BY DEF Moves
  <2> QED
    BY <1>2, <2>4, <2>5
<1>4. ASSUME tr.phase[t] = "started"
      PROVE  Moved(tr, t, << Command("validate", t) >>, "validating")
  <2>1. Admits(tr, Command("validate", t))
    BY <1>2, <1>4 DEF Admits, Needs
  <2>2. Moves["validate"] = "validating"
    BY DEF Moves
  <2>3. Moved(tr, Command("validate", t).t, << Command("validate", t) >>, Moves[Command("validate", t).op])
    BY <1>1, <1>2, <2>1, OneMoves
  <2> QED
    BY <1>2, <2>2, <2>3
<1>5. ASSUME tr.phase[t] = "validating"
      PROVE  Moved(tr, t, << Command("commit", t) >>, "none")
  <2>1. Admits(tr, Command("commit", t))
    BY <1>2, <1>5 DEF Admits, Needs
  <2>2. Moves["commit"] = "none"
    BY DEF Moves
  <2>3. Moved(tr, Command("commit", t).t, << Command("commit", t) >>, Moves[Command("commit", t).op])
    BY <1>1, <1>2, <2>1, OneMoves
  <2> QED
    BY <1>2, <2>2, <2>3
<1>6. ASSUME tr.phase[t] # "none", NEW b \in BOOLEAN
      PROVE  Moved(tr, t, << Abort(t, b) >>, "none")
  <2>1. Admits(tr, Abort(t, b))
    BY <1>2, <1>6 DEF Admits
  <2>2. Moves["abort"] = "none"
    BY DEF Moves
  <2>3. Moved(tr, Abort(t, b).t, << Abort(t, b) >>, Moves[Abort(t, b).op])
    BY <1>1, <1>2, <2>1, OneMoves
  <2> QED
    BY <1>2, <2>2, <2>3
<1> QED
  BY <1>3, <1>4, <1>5, <1>6

LEMMA GrewMoves ==
    ASSUME NEW tr \in Track, NEW t \in Txns, tr.phase[t] = "started", NEW n \in 0 .. Blocks
    PROVE  LET grew == Grew(tr, t, n) IN
           /\ Moved(tr, t, grew, "started")
           /\ Moved(tr, t, Append(grew, Command("status", t)), "started")
           /\ \A b \in BOOLEAN : Moved(tr, t, Append(grew, Abort(t, b)), "none")
<1> DEFINE st == Command("status", t)
           pr == Progress(t, n)
<1>1. /\ st \in Msg /\ pr \in Msg /\ \A b \in BOOLEAN : Abort(t, b) \in Msg
      /\ st.op = "status" /\ st.t = t /\ pr.op = "progress" /\ pr.t = t /\ pr.upto = n
      /\ \A b \in BOOLEAN : Abort(t, b).op = "abort" /\ Abort(t, b).t = t
  <2>1. st \in Msg /\ pr \in Msg /\ \A b \in BOOLEAN : Abort(t, b) \in Msg
    BY MsgType
  <2> QED
    BY <2>1 DEF Command, Progress, Abort
<1>2. Moves["status"] = "started" /\ Moves["progress"] = "started" /\ Moves["abort"] = "none"
  BY DEF Moves
<1> HIDE DEF st, pr
<1>3. CASE n > tr.upto[t]
  <2>1. Admits(tr, pr)
    <3>1. n \in tr.upto[t] + 1 .. Blocks
      <4>1. tr.upto[t] \in Nat /\ n \in Nat /\ n <= Blocks /\ Blocks \in Nat
        BY TrackFields, TxnAssumption
      <4> QED
        BY <1>3, <4>1
    <3> QED
      BY <1>1, <3>1 DEF Admits, Needs
  <2>2. Admitted(tr, pr).phase[t] = "started"
    BY <1>1, <1>2, AdmittedIs
  <2>3. Admits(Admitted(tr, pr), st) /\ \A b \in BOOLEAN : Admits(Admitted(tr, pr), Abort(t, b))
    BY <1>1, <2>2 DEF Admits, Needs
  <2>4. Moved(tr, t, << pr >>, "started") /\ Moved(tr, t, << pr, st >>, "started")
    BY <1>1, <1>2, <2>1, <2>3, OneMoves, TwoMove
  <2>5. \A b \in BOOLEAN : Moved(tr, t, << pr, Abort(t, b) >>, "none")
    BY <1>1, <1>2, <2>1, <2>3, TwoMove
  <2>6. Grew(tr, t, n) = << pr >> /\ \A m \in Msg : Append(<< pr >>, m) = << pr, m >>
    <3>1. Grew(tr, t, n) = << pr >>
      BY <1>3 DEF Grew, pr
    <3>2. ASSUME NEW m \in Msg
          PROVE  Append(<< pr >>, m) = << pr, m >>
      <4>1. << pr >> \in Seq(Msg) /\ << pr, m >> \in Seq(Msg) /\ Len(<< pr >>) = 1 /\ Len(<< pr, m >>) = 2
        BY <1>1
      <4>2. /\ Append(<< pr >>, m) \in Seq(Msg) /\ Len(Append(<< pr >>, m)) = 2
            /\ Append(<< pr >>, m)[1] = pr /\ Append(<< pr >>, m)[2] = m
        BY <1>1, <4>1, AppendProperties
      <4> DEFINE a == Append(<< pr >>, m)
                 b == << pr, m >>
      <4>3. a[1] = b[1] /\ a[2] = b[2] /\ Len(a) = 2 /\ Len(b) = 2 /\ a \in Seq(Msg) /\ b \in Seq(Msg)
        BY <4>1, <4>2
      <4> HIDE DEF a, b
      <4>4. Len(a) = Len(b) /\ \A i \in 1 .. Len(a) : a[i] = b[i]
        BY <4>3
      <4>5. a = b
        BY <4>3, <4>4, SeqEqual
      <4> QED
        BY <4>5 DEF a, b
    <3> QED
      BY <3>1, <3>2
  <2> QED
    BY <1>1, <2>4, <2>5, <2>6 DEF st
<1>4. CASE ~(n > tr.upto[t])
  <2>1. Admits(tr, st) /\ \A b \in BOOLEAN : Admits(tr, Abort(t, b))
    BY <1>1 DEF Admits, Needs
  <2>2. Moved(tr, t, << >>, "started") /\ Moved(tr, t, << st >>, "started")
    BY <1>1, <1>2, <2>1, OneMoves, NoneMoves
  <2>3. \A b \in BOOLEAN : Moved(tr, t, << Abort(t, b) >>, "none")
    BY <1>1, <1>2, <2>1, OneMoves
  <2>4. Grew(tr, t, n) = << >> /\ \A m : Append(<< >>, m) = << m >>
    BY <1>4 DEF Grew
  <2> QED
    BY <2>2, <2>3, <2>4 DEF st
<1> QED
  BY <1>3, <1>4

-----------------------------------------------------------------------------
(* Steps of rank 0 *)

\* No ask is out, or all followers have answered the one about T.
Ready(T) ==
    /\ T \subseteq Txns /\ ~lead.broken
    /\ lead.wait = NoWait \/ (lead.wait # NoWait /\ lead.wait.t \in T)
    /\ fol' \in [Followers -> Follower] /\ fault' = fault
    /\ \A f \in Followers : fol'[f].up = fol[f].up /\ fol'[f].track = fol[f].track
    /\ \A f \in Up : fol'[f].reply = "" /\ \A n \in 1 .. Len(stream[f]) : ~IsAsk(stream[f][n])
    /\ \A f \in Up : lead.wait = NoWait \/ fol[f].reply # ""

LEMMA IdleReady ==
    ASSUME IInv, Idle, UNCHANGED <<fol, fault>>, NEW T \in SUBSET Txns
    PROVE  Ready(T)
<1>1. /\ \A f \in Up : fol[f].reply = "" /\ \A n \in 1 .. Len(stream[f]) : ~IsAsk(stream[f][n])
  BY DEF IInv, AskFits, Idle
<1> QED
  BY <1>1 DEF Ready, Idle, IInv, TypeOK

LEMMA CollectedReady ==
    ASSUME IInv, NEW op \in {"has", "status", "validate"}, NEW t \in Txns, Collected(op, t)
    PROVE  /\ Ready({t}) /\ lead.wait = Command(op, t) /\ ~lead.broken
           /\ \A f \in Followers : fol'[f].reply = ""
           /\ \A f \in Up : stream[f] = << >>
<1>1. /\ lead.wait = Command(op, t) /\ lead.wait # NoWait /\ lead.wait.t = t
      /\ \A f \in Followers : fol[f].reply # ""
  <2>1. lead.wait = Command(op, t) /\ \A f \in Followers : fol[f].reply # ""
    BY Zenon DEF Collected
  <2>2. Command(op, t) # NoWait /\ Command(op, t).t = t
    BY DEF Command, NoWait
  <2> QED
    BY <2>1, <2>2
<1>2. ~lead.broken
  BY <1>1 DEF IInv, BrokenWaitsNot
<1>3. fol \in [Followers -> Follower] /\ Up \subseteq Followers
  BY UpIs DEF IInv, TypeOK
<1>4. \A f \in Up : stream[f] = << >>
  BY <1>1, <1>2, <1>3 DEF IInv, AskFits
<1>5. \A f \in Up : \A n \in 1 .. Len(stream[f]) : ~IsAsk(stream[f][n])
  BY <1>4
<1>6. /\ fol' \in [Followers -> Follower] /\ fault' = fault
      /\ \A f \in Followers : fol'[f].up = fol[f].up /\ fol'[f].track = fol[f].track /\ fol'[f].reply = ""
  BY <1>3 DEF Collected, Follower, Answers
<1> QED
  BY <1>1, <1>2, <1>3, <1>4, <1>5, <1>6 DEF Ready

\* Restores rank 0 has open are known to all by then.
LEMMA ReadyHeard ==
    ASSUME IInv, NEW t \in Txns, Ready({t}), rx[0][t].st \in {"asked", "open"}
    PROVE  /\ Heard(t) /\ lead.track.phase[t] # "none" /\ lead.track \in Track
           /\ ~Committed(t) /\ rx[0][t] \in Rx
<1>1. SamePoint /\ ~lead.broken /\ \A f \in Up : lead.wait # Command("has", t) \/ fol[f].reply # ""
  <2>1. Command("has", t) # NoWait
    BY DEF Command, NoWait
  <2> QED
    BY <2>1 DEF IInv, Ready
<1>2. LeaderAt(t)
  BY <1>1 DEF IInv, LeaderFits
<1>3. lead.track \in Track /\ rx[0][t] \in Rx
  BY RankIs DEF IInv, TypeOK
<1>4. ~Committed(t)
  BY DEF IInv, CommitsHold
<1> QED
  BY <1>1, <1>2, <1>3, <1>4, HeardOf DEF LeaderAt, RxFits

LEMMA AppendElements ==
    ASSUME NEW ms \in Seq(Msg), NEW m \in Msg
    PROVE  LET all == Append(ms, m) IN
           /\ all # << >> /\ Len(all) \in 1 .. Len(all) /\ all[Len(all)] = m
           /\ \A n \in 1 .. Len(all) : (n \in 1 .. Len(ms) /\ all[n] = ms[n]) \/ (n = Len(all) /\ all[n] = m)
<1> DEFINE all == Append(ms, m)
           l == Len(ms)
           a == Len(all)
<1>1. /\ all # << >> /\ a = l + 1 /\ l \in Nat
      /\ \A n \in 1 .. l : all[n] = ms[n]
      /\ all[l + 1] = m
  BY AppendProperties, LenProperties
<1> SUFFICES /\ all # << >> /\ a \in 1 .. a /\ all[a] = m
             /\ \A n \in 1 .. a : (n \in 1 .. l /\ all[n] = ms[n]) \/ (n = a /\ all[n] = m)
  OBVIOUS
<1> HIDE DEF all, l, a
<1> QED
  BY <1>1

\* Restore t of rank 0 becomes y.
Takes(t, y) == y \in Rx /\ rx' = [rx EXCEPT ![0][t] = y]

LEMMA TakesIs ==
    ASSUME TypeOK, NEW t \in Txns, NEW y, Takes(t, y)
    PROVE  /\ rx' \in [Ranks -> [Txns -> Rx]] /\ \A f \in Followers : rx'[f] = rx[f]
           /\ rx'[0][t] = y /\ y \in Rx
           /\ \A u \in Txns : u # t => rx'[0][u] = rx[0][u]
<1>1. rx \in [Ranks -> [Txns -> Rx]]
  BY DEF TypeOK
<1> QED
  BY <1>1, RankIs DEF Takes

\* If the pair holds, restore t is in phase ph then and the others where they were.
Shifted(x, t, ph) ==
    ~x.broken => /\ x.track.phase[t] = ph /\ x.track.last = lead.track.last
                 /\ \A u \in Txns : u \notin {t} => x.track.phase[u] = lead.track.phase[u]

\* The frame of a step that posts ms about t.
LEMMA FrameOf ==
    ASSUME IInv, NEW t \in Txns, Ready({t}), NEW ms, NEW ph, Moved(lead.track, t, ms, ph),
           NEW w, w = NoWait \/ \E op \in {"has", "status", "validate"} : w = Command(op, t),
           NEW x \in Posts(ms), Lead(x, w), NEW y, Takes(t, y)
    PROVE  PostFrame({t}, ms, x, w) /\ rx'[0][t] = y /\ Shifted(x, t, ph)
<1>1. TypeOK /\ OnlyFaultsBreak /\ StreamsFit /\ ~lead.broken
  BY DEF IInv, Ready
<1>2. /\ rx' \in [Ranks -> [Txns -> Rx]] /\ \A f \in Followers : rx'[f] = rx[f]
      /\ rx'[0][t] = y /\ \A u \in Txns \ {t} : rx'[0][u] = rx[0][u]
  BY <1>1, TakesIs
<1>3. Posted(ms, x) /\ ms \in Seq(Msg)
  <2>1. ms \in Seq(Msg) /\ Len(ms) <= 2 /\ Fitting(lead.track, ms)
    BY DEF Moved
  <2> QED
    BY <1>1, <2>1, PostsGive
<1>4. w = NoWait \/ (w \in [op : {"has", "status", "validate"}, t : Txns] /\ w.t \in {t})
  BY DEF Command
<1>5. PostFrame({t}, ms, x, w)
  BY <1>2, <1>3, <1>4 DEF PostFrame, Ready
<1>6. ~x.broken => x.track = Fitted(lead.track, ms)
  BY <1>3 DEF Posted
<1> QED
  BY <1>2, <1>5, <1>6 DEF Moved, Shifted

\* The restore ends: ms may allow the followers some more blocks first.
LEMMA EndJobStep ==
    ASSUME IInv, NEW t \in Txns, Ready({t}), rx[0][t].st \in {"asked", "open"},
           NEW ms \in Seq(Msg), \A n \in 1 .. Len(ms) : ms[n].op = "progress",
           NEW forget \in BOOLEAN, Moved(lead.track, t, Append(ms, Abort(t, forget)), "none"),
           EndJob(t, ms, forget)
    PROVE  IInv'
<1> DEFINE m == Abort(t, forget)
           all == Append(ms, m)
           p == rx[0][t].point
<1>1. PICK x \in Posts(all) :
        /\ Lead(x, NoWait)
        /\ rx' = [rx EXCEPT ![0][t] = Over("dropped")]
        /\ stored' = IF forget THEN [stored EXCEPT ![0] = @ \ {p}] ELSE stored
        /\ gone' = [r \in Ranks |-> IF forget /\ (r = 0 \/ ~x.broken) THEN gone[r] \cup {p} ELSE gone[r]]
        /\ UNCHANGED writing
  BY DEF EndJob
<1>2. /\ Heard(t) /\ lead.track.phase[t] # "none" /\ lead.track \in Track /\ ~Committed(t)
      /\ p \in Points
  BY ReadyHeard, RxFields
<1>16. Moved(lead.track, t, all, "none")
  OBVIOUS
<1>3. m \in Msg /\ m.op = "abort" /\ m.t = t
  <2>1. m \in Msg
    BY MsgType
  <2> QED
    BY <2>1 DEF Abort
<1> HIDE DEF m
<1>4. Over("dropped") \in Rx /\ Over("dropped").st = "dropped"
  BY NewRx
<1>5. /\ PostFrame({t}, all, x, NoWait) /\ rx'[0][t] = Over("dropped")
      /\ ~x.broken => /\ x.track.phase[t] = "none" /\ x.track.last = lead.track.last
                      /\ \A u \in Txns : u \notin {t} => x.track.phase[u] = lead.track.phase[u]
  <2> HIDE DEF all
  <2>1. Takes(t, Over("dropped"))
    BY <1>1, <1>4 DEF Takes
  <2>2. Lead(x, NoWait) /\ x \in Posts(all)
    BY <1>1
  <2>3. PostFrame({t}, all, x, NoWait)
    BY <1>16, <2>1, <2>2, FrameOf
  <2>4. rx'[0][t] = Over("dropped") /\ Shifted(x, t, "none")
    BY <1>16, <2>1, <2>2, FrameOf
  <2> QED
    BY <2>3, <2>4 DEF Shifted
<1>6. /\ Len(all) \in 1 .. Len(all) /\ all[Len(all)] = m
      /\ \A n \in 1 .. Len(all) : all[n].op \in {"progress", "abort"} /\ (all[n].op = "abort" => all[n].t = t)
  <2>1. /\ all # << >> /\ Len(all) \in 1 .. Len(all) /\ all[Len(all)] = m
        /\ \A n \in 1 .. Len(all) : (n \in 1 .. Len(ms) /\ all[n] = ms[n]) \/ (n = Len(all) /\ all[n] = m)
    BY <1>3, AppendElements
  <2> HIDE DEF all
  <2> QED
    BY <1>3, <2>1
<1> HIDE DEF all
<1>7. /\ rx \in [Ranks -> [Txns -> Rx]] /\ stored \in [Ranks -> SUBSET Points]
      /\ writing \in [Ranks -> SUBSET Points] /\ gone \in [Ranks -> SUBSET Points]
      /\ \A r \in Ranks : stored[r] \cap writing[r] = {}
      /\ 0 \in Ranks
  BY RankIs DEF IInv, TypeOK
<1>8. TypeOK'
  <2>1. stored' \in [Ranks -> SUBSET Points] /\ \A r \in Ranks : stored'[r] \subseteq stored[r]
    BY <1>1, <1>7
  <2>2. gone' \in [Ranks -> SUBSET Points]
    BY <1>1, <1>2, <1>7
  <2>3. writing' = writing /\ \A r \in Ranks : stored'[r] \cap writing'[r] = {}
    BY <1>1, <1>7, <2>1
  <2> QED
    BY <1>5, <1>7, <2>1, <2>2, <2>3, PostTypes
<1>9. AskFits'
  <2>1. AsksLast(all, NoWait)
    BY <1>6 DEF AsksLast, IsAsk
  <2> QED
    BY <1>5, <2>1, PostAsks
<1>10. SamePoint'
  BY <1>4, <1>5, PostPoints
<1>11. AbortsDropped' /\ \A f \in Up, u \in Txns \ {t} : AbortIn(f, u)' => AbortIn(f, u)
  BY <1>4, <1>5, <1>6, PostAborts
<1>12. CommitsHold'
  BY <1>4, <1>5, <1>6, <1>11, PostCommits
<1>13. LeaderFits'
  <2>1. ASSUME ~x.broken
        PROVE  LeaderAt(t)'
    <3>1. lead'.track = x.track /\ lead'.wait = NoWait
      <4>1. lead'.track = x.track /\ lead'.wait = IF x.broken THEN NoWait ELSE NoWait
        BY <1>5, PostLead
      <4> QED
        BY <4>1
    <3>2. x.track.phase[t] = "none" /\ x.track.last = lead.track.last
      BY <1>5, <2>1
    <3>3. \A op : NoWait # Command(op, t)
      BY DEF NoWait, Command
    <3>4. ~(t > lead.track.last)
      <4>1. LeaderAt(t)
        BY DEF IInv, LeaderFits, Ready
      <4> QED
        BY <4>1 DEF LeaderAt, RxFits
    <3> QED
      BY <1>4, <1>5, <3>1, <3>2, <3>3, <3>4 DEF LeaderAt, RxFits
  <2>2. ~x.broken => lead.track.last <= x.track.last
    BY <1>2, <1>5, TrackFields
  <2> QED
    BY <1>5, <2>1, <2>2, PostLeader
<1>14. CompleteIsPrepared'
  <2>1. \A u \in Txns : NoWait # Command("validate", u)
    BY DEF NoWait, Command
  <2> QED
    BY <1>5, <2>1, PostComplete
<1>15. GoneToCome'
  <2>1. CASE forget = TRUE
    <3>1. stored' = [stored EXCEPT ![0] = @ \ {p}]
      BY <1>1, <2>1
    <3>2. gone' = [r \in Ranks |-> IF r = 0 \/ ~x.broken THEN gone[r] \cup {p} ELSE gone[r]]
      BY <1>1, <2>1
    <3>3. PostForgets({t}, all, x)
      BY <1>2, <1>6, <2>1, <3>1, <3>2 DEF PostForgets, m
    <3> QED
      BY <1>5, <3>3, PostGone
  <2>2. CASE forget = FALSE
    <3>1. stored' = stored /\ gone' = gone
      BY <1>1, <1>7, <2>2
    <3> QED
      BY <1>5, <3>1, PostGone DEF PostForgets
  <2> QED
    BY <2>1, <2>2
<1> QED
  BY <1>5, <1>8, <1>9, <1>10, <1>11, <1>12, <1>13, <1>14, <1>15, PostKeeps DEF IInv

\* What it goes on with: y, after ms, in phase ph, and an answer to wait for.
GoesOn(t, y, ms, ph, wait) ==
    /\ y \in Rx /\ y.st = "open" /\ y.point = rx[0][t].point
    /\ ph \in {"started", "validating"} /\ wait \in {NoWait, Command("status", t), Command("validate", t)}
    /\ ph = "validating" <=> wait = Command("validate", t)
    /\ wait # NoWait => Prepared(y) /\ ms # << >> /\ ms[Len(ms)] = wait
    /\ \A n \in 1 .. Len(ms) : ms[n].op # "abort" /\ ms[n].op # "commit"
    /\ \A n \in 1 .. Len(ms) : IsAsk(ms[n]) => n = Len(ms) /\ wait # NoWait
    /\ wait = Command("validate", t) => \A f \in Followers : fol'[f].reply = ""

LEMMA PostHolds ==
    ASSUME NEW T, NEW ms, NEW x, NEW w, PostFrame(T, ms, x, w), ~x.broken
    PROVE  lead'.track = x.track /\ lead'.wait = w
<1>1. lead'.track = x.track /\ lead'.wait = IF x.broken THEN NoWait ELSE w
  BY PostLead, Zenon
<1> QED
  BY <1>1

LEMMA Commands ==
    /\ \A op, u : Command(op, u).op = op /\ Command(op, u).t = u /\ Command(op, u) # NoWait
    /\ \A op, u, o, v : Command(op, u) = Command(o, v) => op = o /\ u = v
    /\ NoWait.op = "none"
BY DEF Command, NoWait

LEMMA GoOnStep ==
    ASSUME IInv, NEW t \in Txns, Ready({t}), rx[0][t].st \in {"asked", "open"},
           NEW y, NEW ms, NEW ph, NEW wait, Moved(lead.track, t, ms, ph), GoesOn(t, y, ms, ph, wait),
           GoOn(t, ms, wait, y)
    PROVE  IInv'
<1> DEFINE z(x) == IF x.broken THEN Over("dropped") ELSE y
<1>1. PICK x \in Posts(ms) : Lead(x, wait) /\ rx' = [rx EXCEPT ![0][t] = z(x)] /\ UNCHANGED store
  BY DEF GoOn
<1>2. /\ Heard(t) /\ lead.track.phase[t] # "none" /\ lead.track \in Track /\ ~Committed(t)
  BY ReadyHeard
<1>3. Over("dropped") \in Rx /\ Over("dropped").st = "dropped"
  BY NewRx
<1>4. wait = NoWait \/ \E op \in {"has", "status", "validate"} : wait = Command(op, t)
  BY DEF GoesOn
<1>16. /\ wait = NoWait \/ wait = Command("status", t) \/ wait = Command("validate", t)
       /\ ph \in {"started", "validating"}
       /\ ph = "validating" <=> wait = Command("validate", t)
       /\ wait # NoWait => Prepared(y)
  BY Zenon DEF GoesOn
<1>5. Takes(t, z(x))
  BY <1>1, <1>3 DEF Takes, GoesOn
<1>6. PostFrame({t}, ms, x, wait) /\ rx'[0][t] = z(x) /\ Shifted(x, t, ph)
  <2> HIDE DEF z
  <2> QED
    BY <1>1, <1>4, <1>5, FrameOf
<1>7. rx'[0][t].st \in {"open", "dropped"} /\ (~x.broken => rx'[0][t] = y) /\ (~x.broken => rx'[0][t].point = rx[0][t].point)
  BY <1>3, <1>6 DEF GoesOn
<1> HIDE DEF z
<1>8. TypeOK'
  <2>1. TypeOK
    BY DEF IInv
  <2>2. stored' = stored /\ writing' = writing /\ gone' = gone
    BY <1>1 DEF store
  <2> QED
    BY <1>6, <2>1, <2>2, PostTypes DEF TypeOK
<1>9. AskFits'
  <2>1. wait # NoWait => wait.op # "has"
    BY <1>16, Commands
  <2>2. AsksLast(ms, wait)
    BY <2>1 DEF AsksLast, GoesOn
  <2> QED
    BY <1>6, <2>2, PostAsks
<1>10. SamePoint'
  BY <1>2, <1>6, <1>7, PostPoints
<1>11. AbortsDropped' /\ \A f \in Up, u \in Txns \ {t} : AbortIn(f, u)' => AbortIn(f, u)
  <2>1. \A n \in 1 .. Len(ms) : ms[n].op # "abort"
    BY DEF GoesOn
  <2> QED
    BY <1>6, <2>1, PostAborts
<1>12. CommitsHold'
  <2>1. \A n \in 1 .. Len(ms) : ms[n].op # "commit"
    BY DEF GoesOn
  <2> QED
    BY <1>6, <1>7, <1>11, <2>1, PostCommits
<1>13. LeaderFits'
  <2>1. ASSUME ~x.broken
        PROVE  LeaderAt(t)'
    <3>1. lead'.track = x.track /\ lead'.wait = wait
      BY <1>6, <2>1, PostHolds
    <3>2. x.track.phase[t] = ph /\ x.track.last = lead.track.last
      BY <1>6, <2>1 DEF Shifted
    <3>4. ~(t > lead.track.last)
      <4>1. LeaderAt(t)
        BY DEF IInv, LeaderFits, Ready
      <4> QED
        BY <4>1 DEF LeaderAt, RxFits
    <3>5. RxFits(x.track, y, t)
      BY <3>2, <3>4 DEF RxFits, GoesOn
    <3>6. rx'[0][t] = y
      BY <1>7, <2>1
    <3>7. /\ wait # Command("has", t) /\ ph \in {"started", "validating"}
          /\ ph = "validating" <=> wait = Command("validate", t)
          /\ wait \in {Command("status", t), Command("validate", t)} => Prepared(y)
          /\ wait = Command("status", t) => ph = "started"
      BY <1>16, Commands
    <3> QED
      BY <3>1, <3>2, <3>5, <3>6, <3>7 DEF LeaderAt
  <2>2. ~x.broken => lead.track.last <= x.track.last
    <3>1. lead.track.last \in Nat
      BY <1>2, TrackFields
    <3> QED
      BY <1>6, <3>1 DEF Shifted
  <2> QED
    BY <1>6, <2>1, <2>2, PostLeader DEF Shifted
<1>14. CompleteIsPrepared'
  <2>1. \A u \in Txns : wait = Command("validate", u) => wait = Command("validate", t)
    BY <1>16, Commands
  <2>2. \A u \in Txns : wait = Command("validate", u) => \A f \in Followers : fol'[f].reply = ""
    BY <2>1 DEF GoesOn
  <2> QED
    BY <1>6, <2>2, PostComplete
<1>15. GoneToCome'
  <2>1. stored' = stored /\ gone' = gone
    BY <1>1 DEF store
  <2> QED
    BY <1>6, <2>1, PostGone DEF PostForgets
<1> QED
  BY <1>6, <1>8, <1>9, <1>10, <1>11, <1>12, <1>13, <1>14, <1>15, PostKeeps DEF IInv

\* Every follower has the restore whole, and so has rank 0: it is installed.
LEMMA CommitStep ==
    ASSUME IInv, NEW t \in Txns, Ready({t}), lead.wait = Command("validate", t),
           \A f \in Followers : Prepared(rx[f][t]),
           \A f \in Up : stream[f] = << >>,
           GoOn(t, << Command("commit", t) >>, NoWait, Over("installed"))
    PROVE  IInv'
<1> DEFINE ms == << Command("commit", t) >>
           z(x) == IF x.broken THEN Over("dropped") ELSE Over("installed")
<1>1. PICK x \in Posts(ms) : Lead(x, NoWait) /\ rx' = [rx EXCEPT ![0][t] = z(x)] /\ UNCHANGED store
  BY DEF GoOn
<1>2. LeaderAt(t)
  BY DEF IInv, LeaderFits, Ready
<1>3. lead.track.phase[t] = "validating" /\ rx[0][t].st = "open"
  BY <1>2 DEF LeaderAt, Prepared
<1>4. /\ Heard(t) /\ lead.track \in Track /\ ~Committed(t)
  BY <1>3, ReadyHeard
<1>5. /\ Over("dropped") \in Rx /\ Over("dropped").st = "dropped"
      /\ Over("installed") \in Rx /\ Over("installed").st = "installed"
  BY NewRx
<1>6. Takes(t, z(x))
  BY <1>1, <1>5 DEF Takes
<1>7. Moved(lead.track, t, ms, "none")
  BY <1>3, <1>4, PostedMoves
<1>8. Len(ms) = 1 /\ \A n \in 1 .. Len(ms) : ms[n].op = "commit" /\ ms[n].t = t
  BY DEF Command
<1> HIDE DEF ms, z
<1>9. PostFrame({t}, ms, x, NoWait) /\ rx'[0][t] = z(x) /\ Shifted(x, t, "none")
  BY <1>1, <1>6, <1>7, FrameOf
<1>10. rx'[0][t].st = IF x.broken THEN "dropped" ELSE "installed"
  BY <1>5, <1>9 DEF z
<1>11. TypeOK'
  <2>1. TypeOK
    BY DEF IInv
  <2>2. stored' = stored /\ writing' = writing /\ gone' = gone
    BY <1>1 DEF store
  <2> QED
    BY <1>9, <2>1, <2>2, PostTypes DEF TypeOK
<1>12. AskFits'
  <2>1. AsksLast(ms, NoWait)
    BY <1>8 DEF AsksLast, IsAsk
  <2> QED
    BY <1>9, <2>1, PostAsks
<1>13. SamePoint'
  BY <1>9, <1>10, PostPoints
<1>14. AbortsDropped' /\ \A f \in Up, u \in Txns \ {t} : AbortIn(f, u)' => AbortIn(f, u)
  BY <1>3, <1>8, <1>9, PostAborts
<1>15. CommitsHold'
  <2>1. Up' = Up /\ TypeOK /\ Up \subseteq Followers
    BY <1>9, PostLead, UpIs DEF IInv
  <2>2. \A f \in Followers : rx'[f] = rx[f] /\ fol'[f].track = fol[f].track
    BY <1>9, PostRest
  <2>3. fault' = fault /\ (x.broken => fault)
    BY <1>9 DEF PostFrame, Posted
  \* What rank 0 installs now.
  <2>4. /\ rx'[0][t].st = "installed" \/ (fault' /\ rx'[0][t].st = "dropped")
        /\ \A f \in Followers : rx'[f][t].st = "installed" \/ Prepared(rx'[f][t])
        /\ \A f \in Up : /\ Prepared(rx'[f][t]) => fol'[f].track.phase[t] = "validating"
                         /\ ~AbortIn(f, t)'
    <3>1. rx'[0][t].st = "installed" \/ (fault' /\ rx'[0][t].st = "dropped")
      BY <1>10, <2>3
    <3>2. ASSUME NEW f \in Up
          PROVE  fol[f].track.phase[t] = "validating" /\ ~AbortIn(f, t)'
      <4>1. Leads(fol[f].track, stream[f], lead.track)
        BY DEF IInv, StreamsFit, Ready
      <4>2. fol[f].track \in Track
        BY <2>1 DEF TypeOK, Follower
      <4>3. fol[f].track = lead.track
        BY <4>1, <4>2, LeadsNowhere
      <4>4. ASSUME NEW n \in 1 .. Len(stream'[f])
            PROVE  stream'[f][n].op = "commit"
        <5>1. \A i \in 1 .. Len(stream'[f]) :
                \/ i \in 1 .. Len(stream[f])
                \/ \E k \in 1 .. Len(ms) : i = Len(stream[f]) + k /\ stream'[f][i] = ms[k]
          <6>1. PostFrame({t}, ms, x, NoWait) /\ f \in Up /\ TypeOK
            BY <1>9, <2>1, <3>2, Zenon
          <6> QED
            BY <6>1, PostStream
        <5>2. n \notin 1 .. Len(stream[f])
          OBVIOUS
        <5> QED
          BY <1>8, <5>1, <5>2
      <4> QED
        BY <1>3, <4>3, <4>4 DEF AbortIn
    <3> QED
      BY <2>1, <2>2, <3>1, <3>2
  \* What it installed before.
  <2>5. ASSUME NEW u \in Txns, u # t, Committed(u)'
        PROVE  /\ rx'[0][u].st = "installed" \/ (fault' /\ rx'[0][u].st = "dropped")
               /\ \A f \in Followers : rx'[f][u].st = "installed" \/ Prepared(rx'[f][u])
               /\ \A f \in Up : /\ Prepared(rx'[f][u]) => fol'[f].track.phase[u] = "validating"
                                /\ ~AbortIn(f, u)'
    <3>1. rx'[0][u] = rx[0][u]
      <4>1. u \notin {t}
        BY <2>5
      <4> QED
        BY <1>9, <4>1, PostRest
    <3>2. \A f \in Up : ~CommitIn(f, u)'
      <4> SUFFICES ASSUME NEW f \in Up, NEW n \in 1 .. Len(stream'[f]), stream'[f][n].t = u
                   PROVE  stream'[f][n].op # "commit"
        BY DEF CommitIn
      <4>1. \/ n \in 1 .. Len(stream[f])
            \/ \E k \in 1 .. Len(ms) : n = Len(stream[f]) + k /\ stream'[f][n] = ms[k]
        BY <1>9, <2>1, PostStream
      <4>2. n \notin 1 .. Len(stream[f])
        OBVIOUS
      <4> QED
        BY <1>8, <2>5, <4>1, <4>2
    <3>3. Committed(u)
      BY <2>1, <2>2, <2>5, <3>1, <3>2 DEF Committed
    <3>4. /\ rx[0][u].st = "installed" \/ (fault /\ rx[0][u].st = "dropped")
          /\ \A f \in Followers : rx[f][u].st = "installed" \/ Prepared(rx[f][u])
          /\ \A f \in Up : (Prepared(rx[f][u]) => fol[f].track.phase[u] = "validating") /\ ~AbortIn(f, u)
      BY <3>3 DEF IInv, CommitsHold
    <3>5. \A f \in Up : ~AbortIn(f, u)'
      BY <1>14, <2>5, <3>4
    <3> QED
      BY <2>1, <2>2, <2>3, <3>1, <3>4, <3>5
  <2> QED
    BY <2>1, <2>4, <2>5 DEF CommitsHold
<1>16. LeaderFits'
  <2>1. ASSUME ~x.broken
        PROVE  LeaderAt(t)'
    <3>1. lead'.track = x.track /\ lead'.wait = NoWait
      <4>1. lead'.track = x.track /\ lead'.wait = IF x.broken THEN NoWait ELSE NoWait
        BY <1>9, PostLead
      <4> QED
        BY <4>1
    <3>2. x.track.phase[t] = "none" /\ x.track.last = lead.track.last
      BY <1>9, <2>1 DEF Shifted
    <3>3. \A op : NoWait # Command(op, t)
      BY DEF NoWait, Command
    <3>4. ~(t > lead.track.last)
      BY <1>2, <1>3 DEF LeaderAt, RxFits
    <3> QED
      BY <1>10, <2>1, <3>1, <3>2, <3>3, <3>4 DEF LeaderAt, RxFits
  <2>2. ~x.broken => lead.track.last <= x.track.last
    BY <1>4, <1>9, TrackFields DEF Shifted
  <2> QED
    BY <1>9, <2>1, <2>2, PostLeader DEF Shifted
<1>17. CompleteIsPrepared'
  <2>1. \A u \in Txns : NoWait # Command("validate", u)
    BY DEF NoWait, Command
  <2> QED
    BY <1>9, <2>1, PostComplete
<1>18. GoneToCome'
  <2>1. stored' = stored /\ gone' = gone
    BY <1>1 DEF store
  <2> QED
    BY <1>9, <2>1, PostGone DEF PostForgets
<1> QED
  BY <1>9, <1>11, <1>12, <1>13, <1>14, <1>15, <1>16, <1>17, <1>18, PostKeeps DEF IInv

LEMMA BeginStep ==
    ASSUME IInv, NEW t \in Txns, NEW p \in Points, Begin(t, p)
    PROVE  IInv'
<1> DEFINE m == Has(t, p)
           ms == << m >>
           y == [Asked(p) EXCEPT !.started = TRUE]
           w == Command("has", t)
<1>1. /\ Idle /\ UNCHANGED <<fol, fault>> /\ UNCHANGED store
      /\ t = lead.track.last + 1 /\ Admits(lead.track, m)
  BY Zenon DEF Begin
<1>2. PICK x \in Posts(ms) : Lead(x, w) /\ rx' = IF x.broken THEN rx ELSE [rx EXCEPT ![0][t] = y]
  BY Zenon DEF Begin
<1>3. Ready({t}) /\ TypeOK /\ lead.track \in Track
  BY <1>1, IdleReady DEF IInv, TypeOK
<1>4. rx[0][t].st = "none"
  <2>1. LeaderAt(t)
    BY <1>1 DEF IInv, LeaderFits, Idle
  <2>2. t > lead.track.last
    BY <1>1, <1>3, TrackFields
  <2> QED
    BY <2>1, <2>2 DEF LeaderAt, RxFits
<1>5. y \in Rx /\ y.st = "asked" /\ y.point = p
  <2>1. Asked(p) \in Rx /\ Asked(p).st = "asked" /\ Asked(p).point = p
    BY NewRx
  <2> QED
    BY <2>1 DEF Rx
<1>6. m \in Msg /\ m.op = "has" /\ m.t = t
  <2>1. m \in Msg
    BY MsgType
  <2> QED
    BY <2>1 DEF Has
<1> HIDE DEF y
<1>7. /\ rx' \in [Ranks -> [Txns -> Rx]] /\ \A f \in Followers : rx'[f] = rx[f]
      /\ \A u \in Txns : u # t => rx'[0][u] = rx[0][u]
      /\ rx'[0][t] = IF x.broken THEN rx[0][t] ELSE y
  <2>1. CASE x.broken
    <3>1. rx' = rx
      BY <1>2, <2>1
    <3> QED
      BY <1>3, <2>1, <3>1 DEF TypeOK
  <2>2. CASE ~x.broken
    <3>1. Takes(t, y)
      BY <1>2, <1>5, <2>2 DEF Takes
    <3> QED
      BY <1>3, <2>2, <3>1, TakesIs
  <2> QED
    BY <2>1, <2>2
<1>8. rx'[0][t].st \in {"none", "asked"} /\ (~x.broken => rx'[0][t].st = "asked" /\ rx'[0][t].point = p)
  BY <1>4, <1>5, <1>7
<1>9. ms \in Seq(Msg) /\ Len(ms) = 1 /\ Len(ms) <= 2 /\ ms[1] = m /\ ms # << >>
  BY <1>6
<1> HIDE DEF m
<1>10. Fitting(lead.track, ms) /\ Fitted(lead.track, ms) = Admitted(lead.track, m)
  <2> HIDE DEF ms
  <2> QED
    BY <1>1, <1>3, <1>9, FitIs
<1> HIDE DEF ms, w
<1>11. Posted(ms, x)
  <2>1. OnlyFaultsBreak /\ StreamsFit /\ ~lead.broken
    BY <1>1 DEF IInv, Idle
  <2> QED
    BY <1>3, <1>9, <1>10, <2>1, PostsGive
<1>12. PostFrame({t}, ms, x, w)
  <2>1. w \in [op : {"has", "status", "validate"}, t : Txns] /\ w.t \in {t}
    BY DEF w, Command
  <2> QED
    BY <1>2, <1>3, <1>7, <1>9, <1>11, <2>1 DEF PostFrame, Ready
<1>13. ~x.broken => /\ x.track.phase[t] = "has" /\ x.track.last = t
                    /\ \A u \in Txns : u \notin {t} => x.track.phase[u] = lead.track.phase[u]
  <2>1. Moves["has"] = "has"
    BY DEF Moves
  <2>2. ~x.broken => x.track = Admitted(lead.track, m)
    BY <1>10, <1>11 DEF Posted
  <2> QED
    BY <1>3, <1>6, <2>1, <2>2, AdmittedIs
<1>14. TypeOK'
  <2>1. stored' = stored /\ writing' = writing /\ gone' = gone
    BY <1>1 DEF store
  <2> QED
    BY <1>3, <1>12, <2>1, PostTypes DEF TypeOK
<1>15. AskFits'
  <2>1. w # NoWait /\ w.op = "has" /\ w.t = t
    BY Commands DEF w
  <2>2. ~x.broken => ms[1] = Has(w.t, rx'[0][w.t].point)
    BY <1>8, <1>9, <2>1 DEF m
  <2>3. ~x.broken => AsksLast(ms, w)
    BY <1>9, <2>1, <2>2 DEF AsksLast
  <2> QED
    BY <1>12, <2>3, PostAsks
<1>16. SamePoint'
  <2>1. w = Command("has", t)
    BY DEF w
  <2> QED
    BY <1>12, <2>1, PostPoints
<1>17. AbortsDropped' /\ \A f \in Up, u \in Txns \ {t} : AbortIn(f, u)' => AbortIn(f, u)
  <2>1. \A n \in 1 .. Len(ms) : ms[n].op # "abort"
    BY <1>6, <1>9
  <2> QED
    BY <1>4, <1>12, <2>1, PostAborts
<1>18. CommitsHold'
  <2>1. \A n \in 1 .. Len(ms) : ms[n].op # "commit"
    BY <1>6, <1>9
  <2> QED
    BY <1>4, <1>8, <1>12, <1>17, <2>1, PostCommits
<1>19. LeaderFits'
  <2>1. ASSUME ~x.broken
        PROVE  LeaderAt(t)'
    <3>1. lead'.track = x.track /\ lead'.wait = w
      BY <1>12, <2>1, PostHolds
    <3>2. x.track.phase[t] = "has" /\ x.track.last = t
      BY <1>13, <2>1
    <3>3. w = Command("has", t) /\ w # Command("status", t) /\ w # Command("validate", t)
      BY Commands DEF w
    <3>4. ~(t > t)
      BY DEF Txns
    <3> QED
      BY <1>8, <2>1, <3>1, <3>2, <3>3, <3>4 DEF LeaderAt, RxFits
  <2>2. ~x.broken => lead.track.last <= x.track.last
    <3>1. lead.track.last \in Nat /\ lead.track.last <= t
      BY <1>1, <1>3, TrackFields
    <3> QED
      BY <1>13, <3>1
  <2> QED
    BY <1>12, <1>13, <2>1, <2>2, PostLeader
<1>20. CompleteIsPrepared'
  <2>1. \A u \in Txns : w # Command("validate", u)
    BY Commands DEF w
  <2> QED
    BY <1>12, <2>1, PostComplete
<1>21. GoneToCome'
  <2>1. stored' = stored /\ gone' = gone
    BY <1>1 DEF store
  <2> QED
    BY <1>12, <2>1, PostGone DEF PostForgets
<1> QED
  BY <1>12, <1>14, <1>15, <1>16, <1>17, <1>18, <1>19, <1>20, <1>21, PostKeeps DEF IInv

LEMMA KeepStep ==
    ASSUME IInv, NEW p \in Points, Keep(p)
    PROVE  IInv'
<1> DEFINE m == Keeps(p)
           ms == << m >>
<1>1. /\ Idle /\ UNCHANGED <<fol, fault>> /\ UNCHANGED <<rx, stored, gone>>
      /\ writing' = IF Keeping(0, p) THEN writing ELSE [writing EXCEPT ![0] = @ \cup {p}]
  BY Zenon DEF Keep
<1>2. PICK x \in Posts(ms) : Lead(x, NoWait)
  BY Zenon DEF Keep
<1>3. Ready({}) /\ TypeOK /\ lead.track \in Track
  BY <1>1, IdleReady DEF IInv, TypeOK
<1>4. m \in Msg /\ m.op = "keep" /\ Admits(lead.track, m)
  <2>1. m \in Msg
    <3>1. m = [op |-> "keep", point |-> p]
      BY DEF Keeps
    <3> QED
      BY <3>1 DEF Msg
  <2>2. m.op = "keep"
    BY DEF Keeps
  <2> HIDE DEF m
  <2> QED
    BY <2>1, <2>2 DEF Admits
<1>5. ms \in Seq(Msg) /\ Len(ms) = 1 /\ Len(ms) <= 2 /\ ms[1] = m
  BY <1>4
<1> HIDE DEF m
<1>6. Fitting(lead.track, ms) /\ Fitted(lead.track, ms) = lead.track
  <2> HIDE DEF ms
  <2>1. Fitted(lead.track, ms) = Admitted(lead.track, m) /\ Fitting(lead.track, ms)
    BY <1>3, <1>4, <1>5, FitIs
  <2> QED
    BY <1>3, <1>4, <2>1, AdmittedIs
<1> HIDE DEF ms
<1>7. Posted(ms, x)
  <2>1. OnlyFaultsBreak /\ StreamsFit /\ ~lead.broken
    BY <1>1 DEF IInv, Idle
  <2> QED
    BY <1>3, <1>5, <1>6, <2>1, PostsGive
<1>8. PostFrame({}, ms, x, NoWait)
  BY <1>1, <1>2, <1>3, <1>5, <1>7 DEF PostFrame, Ready, TypeOK
<1>9. x.track = lead.track
  BY <1>6, <1>7 DEF Posted
<1>10. \A n \in 1 .. Len(ms) : ms[n].op = "keep"
  BY <1>4, <1>5
<1>11. TypeOK'
  <2>1. writing \in [Ranks -> SUBSET Points] /\ \A r \in Ranks : stored[r] \cap writing[r] = {}
    BY <1>3 DEF TypeOK
  <2>2. /\ writing' \in [Ranks -> SUBSET Points]
        /\ \A r \in Ranks : stored[r] \cap writing'[r] = {}
    BY <1>1, <2>1, RankIs DEF Keeping
  <2>3. stored' = stored /\ gone' = gone
    BY <1>1
  <2> QED
    BY <1>3, <1>8, <2>2, <2>3, PostTypes DEF TypeOK
<1>12. AskFits'
  <2>1. AsksLast(ms, NoWait)
    BY <1>10 DEF AsksLast, IsAsk
  <2> QED
    BY <1>8, <2>1, PostAsks
<1>13. SamePoint'
  BY <1>8, PostPoints
<1>14. AbortsDropped' /\ \A f \in Up, u \in Txns \ {} : AbortIn(f, u)' => AbortIn(f, u)
  BY <1>8, <1>10, PostAborts
<1>15. CommitsHold'
  BY <1>8, <1>10, <1>14, PostCommits
<1>16. LeaderFits'
  <2>1. lead.track.last <= x.track.last
    BY <1>3, <1>9, TrackFields
  <2> QED
    BY <1>8, <1>9, <2>1, PostLeader
<1>17. CompleteIsPrepared'
  <2>1. \A u \in Txns : NoWait # Command("validate", u)
    BY Commands
  <2> QED
    BY <1>8, <2>1, PostComplete
<1>18. GoneToCome'
  <2>1. stored' = stored /\ gone' = gone
    BY <1>1
  <2> QED
    BY <1>8, <2>1, PostGone DEF PostForgets
<1> QED
  BY <1>8, <1>11, <1>12, <1>13, <1>14, <1>15, <1>16, <1>17, <1>18, PostKeeps DEF IInv

-----------------------------------------------------------------------------
(* Answers collected, polls and cancels *)

LEMMA EndNow ==
    ASSUME IInv, NEW t \in Txns, Ready({t}), rx[0][t].st \in {"asked", "open"},
           NEW forget \in BOOLEAN, EndJob(t, << >>, forget)
    PROVE  IInv'
<1>1. lead.track.phase[t] # "none" /\ lead.track \in Track
  BY ReadyHeard
<1>2. Moved(lead.track, t, << Abort(t, forget) >>, "none")
  BY <1>1, PostedMoves
<1>3. Append(<< >>, Abort(t, forget)) = << Abort(t, forget) >>
  OBVIOUS
<1>4. Moved(lead.track, t, Append(<< >>, Abort(t, forget)), "none")
  BY <1>2, <1>3
<1>5. << >> \in Seq(Msg) /\ \A n \in 1 .. Len(<< >>) : << >>[n].op = "progress"
  BY EmptySeq
<1> QED
  BY <1>4, <1>5, EndJobStep

\* Rank 0's restore, when it is open.
LEMMA ReadyOpen ==
    ASSUME IInv, NEW t \in Txns, ~lead.broken
    PROVE  /\ rx[0][t] \in Rx /\ lead.track \in Track
           /\ lead.wait = Command("has", t) => rx[0][t].st = "asked" /\ lead.track.phase[t] = "has"
           /\ lead.wait = Command("status", t) => Prepared(rx[0][t]) /\ lead.track.phase[t] = "started"
           /\ lead.wait = Command("validate", t) => Prepared(rx[0][t]) /\ lead.track.phase[t] = "validating"
           /\ lead.wait = NoWait /\ rx[0][t].st = "open" => lead.track.phase[t] = "started"
<1>1. LeaderAt(t)
  BY DEF IInv, LeaderFits
<1>2. rx[0][t] \in Rx /\ lead.track \in Track
  BY RankIs DEF IInv, TypeOK
<1>3. lead.track.phase[t] \in Phases
  BY <1>2, TrackFields
<1>4. lead.wait = NoWait => lead.wait # Command("has", t) /\ lead.wait # Command("validate", t)
  BY Commands
<1>5. rx[0][t].st = "open" => lead.track.phase[t] # "none" /\ lead.track.phase[t] # "has"
  BY <1>1 DEF LeaderAt, RxFits
<1>6. lead.wait = NoWait /\ rx[0][t].st = "open" => lead.track.phase[t] = "started"
  BY <1>1, <1>3, <1>4, <1>5 DEF LeaderAt, Phases
<1> QED
  BY <1>1, <1>2, <1>6 DEF LeaderAt, RxFits

\* A restore that is polled again goes on, after commands that end nothing.
LEMMA Quiet ==
    ASSUME NEW t \in Txns, NEW y \in Rx, y.st = "open", y.point = rx[0][t].point, NEW ms,
           \A n \in 1 .. Len(ms) : ms[n].op \in {"reserve", "start", "progress"}
    PROVE  GoesOn(t, y, ms, "started", NoWait)
<1>1. \A n \in 1 .. Len(ms) : ms[n].op # "abort" /\ ms[n].op # "commit" /\ ~IsAsk(ms[n])
  BY DEF IsAsk
<1>2. \A op : NoWait # Command(op, t)
  BY Commands
<1> QED
  BY <1>1, <1>2 DEF GoesOn

\* Or with an ask at the end, when the restore is whole on rank 0.
LEMMA Asking ==
    ASSUME NEW t \in Txns, NEW y \in Rx, Prepared(y), y.point = rx[0][t].point, NEW ms,
           NEW op \in {"status", "validate"}, ms # << >>, ms[Len(ms)] = Command(op, t),
           \A n \in 1 .. Len(ms) : n # Len(ms) => ms[n].op = "progress",
           \A f \in Followers : op = "validate" => fol'[f].reply = "",
           NEW ph \in {"started", "validating"}, ph = "validating" <=> op = "validate"
    PROVE  GoesOn(t, y, ms, ph, Command(op, t))
<1> DEFINE w == Command(op, t)
<1>1. w # NoWait /\ w.op = op /\ (w = Command("validate", t) <=> op = "validate")
      /\ w \in {NoWait, Command("status", t), Command("validate", t)}
  <2>1. CASE op = "status"
    BY <2>1, Commands
  <2>2. CASE op = "validate"
    BY <2>2, Commands
  <2> QED
    BY <2>1, <2>2
<1>2. \A n \in 1 .. Len(ms) : ms[n].op # "abort" /\ ms[n].op # "commit"
  BY <1>1
<1>3. \A n \in 1 .. Len(ms) : IsAsk(ms[n]) => n = Len(ms)
  BY DEF IsAsk
<1>4. y.st = "open"
  BY DEF Prepared
<1>5. ms[Len(ms)] = w
  OBVIOUS
<1> HIDE DEF w
<1>6. GoesOn(t, y, ms, ph, w)
  BY <1>1, <1>2, <1>3, <1>4, <1>5 DEF GoesOn
<1> QED
  BY <1>6 DEF w

LEMMA HasAnsweredStep ==
    ASSUME IInv, NEW t \in Txns, HasAnswered(t)
    PROVE  IInv'
<1>1. Collected("has", t)
  BY Zenon DEF HasAnswered
<1>2. Ready({t}) /\ lead.wait = Command("has", t) /\ ~lead.broken
  BY <1>1, CollectedReady, Zenon
<1>3. rx[0][t].st = "asked" /\ lead.track.phase[t] = "has" /\ lead.track \in Track /\ rx[0][t] \in Rx
  BY <1>2, ReadyOpen
<1> DEFINE ms == << Command("reserve", t), Command("start", t) >>
           y == [rx[0][t] EXCEPT !.st = "open"]
<1>4. CASE GoOn(t, ms, NoWait, y)
  <2>1. Moved(lead.track, t, ms, "started")
    BY <1>3, PostedMoves
  <2>2. y \in Rx /\ y.st = "open" /\ y.point = rx[0][t].point
    BY <1>3 DEF Rx
  <2>3. \A n \in 1 .. Len(ms) : ms[n].op \in {"reserve", "start"}
    BY DEF Command
  <2> HIDE DEF ms, y
  <2>4. GoesOn(t, y, ms, "started", NoWait)
    BY <2>2, <2>3, Quiet
  <2> QED
    BY <1>2, <1>3, <1>4, <2>1, <2>4, GoOnStep
<1>5. ASSUME NEW forget \in BOOLEAN, EndJob(t, << >>, forget)
      PROVE  IInv'
  BY <1>2, <1>3, <1>5, EndNow
<1>6. GoOn(t, ms, NoWait, y) \/ EndJob(t, << >>, FALSE) \/ EndJob(t, << >>, TRUE)
  <2> HIDE DEF ms, y
  <2>1. ("missing" \in Replies) = TRUE \/ ("missing" \in Replies) = FALSE
    OBVIOUS
  <2>2. \/ GoOn(t, ms, NoWait, y) \/ EndJob(t, << >>, FALSE)
        \/ EndJob(t, << >>, "missing" \in Replies)
    BY Zenon DEF HasAnswered, ms, y
  <2> QED
    BY <2>1, <2>2, Zenon
<1> QED
  BY <1>4, <1>5, <1>6

LEMMA StatusAnsweredStep ==
    ASSUME IInv, NEW t \in Txns, StatusAnswered(t)
    PROVE  IInv'
<1>1. Collected("status", t)
  BY Zenon DEF StatusAnswered
<1>2. /\ Ready({t}) /\ lead.wait = Command("status", t) /\ ~lead.broken
      /\ \A f \in Followers : fol'[f].reply = ""
  BY <1>1, CollectedReady, Zenon
<1>3. /\ Prepared(rx[0][t]) /\ lead.track.phase[t] = "started" /\ lead.track \in Track
      /\ rx[0][t] \in Rx /\ rx[0][t].st = "open"
  BY <1>2, ReadyOpen DEF Prepared
<1> DEFINE ms == << Command("validate", t) >>
<1>4. CASE GoOn(t, ms, Command("validate", t), rx[0][t])
  <2>1. Moved(lead.track, t, ms, "validating")
    BY <1>3, PostedMoves
  <2>2. ms # << >> /\ Len(ms) = 1 /\ ms[1] = Command("validate", t) /\ Command("validate", t).op = "validate"
    BY DEF Command
  <2> HIDE DEF ms
  <2>3. GoesOn(t, rx[0][t], ms, "validating", Command("validate", t))
    <3>1. \A n \in 1 .. Len(ms) : n # Len(ms) => ms[n].op = "progress"
      BY <2>2
    <3>2. ms[Len(ms)] = Command("validate", t)
      BY <2>2
    <3>3. Prepared(rx[0][t]) /\ rx[0][t] \in Rx /\ \A f \in Followers : fol'[f].reply = ""
      BY <1>2, <1>3, Zenon
    <3> QED
      BY <2>2, <3>1, <3>2, <3>3, Asking
  <2> QED
    BY <1>2, <1>3, <1>4, <2>1, <2>3, GoOnStep
<1>5. CASE GoOn(t, << >>, NoWait, rx[0][t])
  <2>1. Moved(lead.track, t, << >>, "started")
    BY <1>3, NoneMoves
  <2>2. GoesOn(t, rx[0][t], << >>, "started", NoWait)
    BY <1>3, Quiet
  <2> QED
    BY <1>2, <1>3, <1>5, <2>1, <2>2, GoOnStep
<1>6. ASSUME NEW forget \in BOOLEAN, EndJob(t, << >>, forget)
      PROVE  IInv'
  BY <1>2, <1>3, <1>6, EndNow
<1>7. damage(FirstFailure) \in BOOLEAN
  BY DEF damage
<1> QED
  BY <1>4, <1>5, <1>6, <1>7 DEF StatusAnswered

LEMMA GiveUpStep ==
    ASSUME IInv, NEW t \in Txns, GiveUp(t)
    PROVE  IInv'
<1>1. Collected("status", t) /\ EndJob(t, << >>, FALSE)
  BY Zenon DEF GiveUp
<1>2. Ready({t}) /\ lead.wait = Command("status", t) /\ ~lead.broken
  BY <1>1, CollectedReady, Zenon
<1>3. rx[0][t].st = "open"
  BY <1>2, ReadyOpen DEF Prepared
<1> QED
  BY <1>1, <1>2, <1>3, EndNow

LEMMA ValidateAnsweredStep ==
    ASSUME IInv, NEW t \in Txns, ValidateAnswered(t)
    PROVE  IInv'
<1>1. Collected("validate", t)
  BY Zenon DEF ValidateAnswered
<1>2. /\ Ready({t}) /\ lead.wait = Command("validate", t) /\ ~lead.broken
      /\ \A f \in Up : stream[f] = << >>
  BY <1>1, CollectedReady, Zenon
<1>3. rx[0][t].st = "open"
  BY <1>2, ReadyOpen DEF Prepared
<1>4. CASE Replies = {"complete"} /\ GoOn(t, << Command("commit", t) >>, NoWait, Over("installed"))
  <2>1. \A f \in Followers : fol[f].reply = "complete"
    BY <1>4 DEF Replies
  <2>2. \A f \in Followers : Prepared(rx[f][t])
    BY <1>2, <2>1 DEF IInv, CompleteIsPrepared
  <2> QED
    BY <1>2, <1>4, <2>2, CommitStep
<1>5. ASSUME NEW forget \in BOOLEAN, EndJob(t, << >>, forget)
      PROVE  IInv'
  BY <1>2, <1>3, <1>5, EndNow
<1>6. damage(FirstFailure) \in BOOLEAN
  BY DEF damage
<1> QED
  BY <1>4, <1>5, <1>6 DEF ValidateAnswered

LEMMA CancelStep ==
    ASSUME IInv, NEW t \in Txns, Cancel(t)
    PROVE  IInv'
<1>1. Ready({t})
  BY IdleReady DEF Cancel
<1> QED
  BY <1>1, EndNow DEF Cancel

LEMMA PollStep ==
    ASSUME IInv, NEW t \in Txns, Poll(t)
    PROVE  IInv'
<1>1. Idle /\ rx[0][t].st = "open" /\ UNCHANGED <<fol, fault>>
  BY Zenon DEF Poll
<1>2. Ready({t}) /\ ~lead.broken /\ lead.wait = NoWait
  BY <1>1, IdleReady DEF Idle
<1>3. lead.track.phase[t] = "started" /\ lead.track \in Track /\ rx[0][t] \in Rx
  BY <1>1, <1>2, ReadyOpen
<1>4. PICK x \in Worked(rx[0][t], Blocks) :
        LET grew == Grew(lead.track, t, x.copied) IN
        \/ x.why # "none" /\ EndJob(t, << >>, damage(x.why))
        \/ x.why = "none" /\ ~x.whole /\ GoOn(t, grew, NoWait, x)
        \/ x.why = "none" /\ x.whole /\ \E y \in Checked(x) :
              IF y.why = "none" THEN GoOn(t, Append(grew, Command("status", t)), Command("status", t), x)
              ELSE EndJob(t, grew, FALSE)
  BY Zenon DEF Poll, Grew
<1> DEFINE grew == Grew(lead.track, t, x.copied)
<1>5. /\ x \in Rx /\ x.st = "open" /\ x.point = rx[0][t].point
      /\ x.copied \in 0 .. Blocks /\ damage(x.why) \in BOOLEAN
  <2>1. SameRestore(rx[0][t], x)
    <3>1. Blocks \in 0 .. Blocks
      BY TxnAssumption
    <3> QED
      BY <1>3, <3>1, WorkedIs
  <2> QED
    BY <1>1, <2>1, RxFields DEF SameRestore, damage
<1>6. /\ Moved(lead.track, t, grew, "started")
      /\ Moved(lead.track, t, Append(grew, Command("status", t)), "started")
      /\ Moved(lead.track, t, Append(grew, Abort(t, FALSE)), "none")
  BY <1>3, <1>5, GrewMoves
<1>7. grew \in Seq(Msg) /\ \A n \in 1 .. Len(grew) : grew[n].op = "progress"
  <2>1. grew \in Seq(Msg)
    BY <1>6 DEF Moved
  <2>2. \A n \in 1 .. Len(grew) : grew[n].op = "progress"
    <3>1. CASE x.copied > lead.track.upto[t]
      <4>1. grew = << Progress(t, x.copied) >>
        BY <3>1 DEF Grew
      <4> QED
        BY <4>1 DEF Progress
    <3>2. CASE ~(x.copied > lead.track.upto[t])
      <4>1. grew = << >>
        BY <3>2 DEF Grew
      <4> QED
        BY <4>1
    <3> QED
      BY <3>1, <3>2
  <2> QED
    BY <2>1, <2>2
<1>8. \/ EndJob(t, << >>, damage(x.why))
      \/ GoOn(t, grew, NoWait, x)
      \/ x.why = "none" /\ x.whole /\ GoOn(t, Append(grew, Command("status", t)), Command("status", t), x)
      \/ EndJob(t, grew, FALSE)
  BY <1>4, Zenon
<1> HIDE DEF grew
<1>9. CASE EndJob(t, << >>, damage(x.why))
  BY <1>1, <1>2, <1>5, <1>9, EndNow
<1>10. CASE GoOn(t, grew, NoWait, x)
  <2>1. GoesOn(t, x, grew, "started", NoWait)
    BY <1>5, <1>7, Quiet
  <2> QED
    BY <1>1, <1>2, <1>6, <1>10, <2>1, GoOnStep
<1>11. ASSUME x.why = "none", x.whole, GoOn(t, Append(grew, Command("status", t)), Command("status", t), x)
       PROVE  IInv'
  <2> DEFINE m == Command("status", t)
             all == Append(grew, m)
  <2>1. m \in Msg
    BY MsgType
  <2>2. /\ all # << >> /\ all[Len(all)] = m
        /\ \A n \in 1 .. Len(all) : (n \in 1 .. Len(grew) /\ all[n] = grew[n]) \/ (n = Len(all) /\ all[n] = m)
    BY <1>7, <2>1, AppendElements
  <2> HIDE DEF all
  <2>3. \A n \in 1 .. Len(all) : n # Len(all) => all[n].op = "progress"
    BY <1>7, <2>2
  <2>4. Prepared(x)
    BY <1>5, <1>11 DEF Prepared
  <2>5. GoesOn(t, x, all, "started", m)
    BY <1>5, <2>2, <2>3, <2>4, Asking
  <2>6. Moved(lead.track, t, all, "started") /\ GoOn(t, all, m, x)
    BY <1>6, <1>11 DEF all
  <2> HIDE DEF m
  <2> QED
    BY <1>1, <1>2, <2>5, <2>6, GoOnStep
<1>12. CASE EndJob(t, grew, FALSE)
  BY <1>1, <1>2, <1>6, <1>7, <1>12, EndJobStep
<1> QED
  BY <1>8, <1>9, <1>10, <1>11, <1>12

\* The pair is broken, or breaks: rank 0 ends the restore by itself.
LEMMA DroppedStep ==
    ASSUME IInv, NEW t \in Txns,
           lead' = [track |-> lead.track, wait |-> NoWait, broken |-> TRUE],
           rx' = [rx EXCEPT ![0][t] = Over("dropped")], fault' = TRUE,
           UNCHANGED <<store, stream, fol>>
    PROVE  IInv'
<1>1. TypeOK /\ lead.track \in Track /\ stored' = stored /\ writing' = writing /\ gone' = gone
  BY DEF IInv, TypeOK, store
<1>2. Over("dropped") \in Rx /\ Over("dropped").st = "dropped"
  BY NewRx
<1>3. /\ rx' \in [Ranks -> [Txns -> Rx]] /\ \A f \in Followers : rx'[f] = rx[f]
      /\ rx'[0][t].st = "dropped" /\ \A u \in Txns : u # t => rx'[0][u] = rx[0][u]
  <2>1. Takes(t, Over("dropped"))
    BY <1>2 DEF Takes
  <2> QED
    BY <1>1, <1>2, <2>1, TakesIs
<1>4. /\ Up' = Up /\ Up \subseteq Followers /\ stream' = stream /\ fol' = fol
      /\ \A f \in Followers, u \in Txns : AbortIn(f, u)' = AbortIn(f, u) /\ CommitIn(f, u)' = CommitIn(f, u)
  BY UpIs DEF Up, AbortIn, CommitIn
<1>5. TypeOK'
  <2>1. lead' \in [track : Track, broken : BOOLEAN, wait : [op : {"has", "status", "validate"}, t : Txns] \cup {NoWait}]
    BY <1>1
  <2> QED
    BY <1>1, <1>3, <1>4, <2>1 DEF TypeOK
<1>6. OnlyFaultsBreak' /\ BrokenWaitsNot' /\ LeaderFits' /\ AskFits' /\ SamePoint'
  BY DEF OnlyFaultsBreak, BrokenWaitsNot, LeaderFits, AskFits, SamePoint
<1>7. StreamsFit'
  <2>1. \A f \in Up : \E end \in Track : Leads(fol[f].track, stream[f], end)
    BY DEF IInv, StreamsFit
  <2> QED
    BY <1>4, <2>1 DEF StreamsFit
<1>8. FollowerFits'
  BY <1>3, <1>4 DEF IInv, FollowerFits
<1>9. CompleteIsPrepared'
  BY Commands DEF CompleteIsPrepared
<1>10. AbortsDropped'
  BY <1>3, <1>4 DEF IInv, AbortsDropped
<1>11. CommitsHold'
  <2> SUFFICES ASSUME NEW u \in Txns, Committed(u)'
               PROVE  /\ rx'[0][u].st = "installed" \/ (fault' /\ rx'[0][u].st = "dropped")
                      /\ \A f \in Followers : rx'[f][u].st = "installed" \/ Prepared(rx'[f][u])
                      /\ \A f \in Up : /\ Prepared(rx'[f][u]) => fol'[f].track.phase[u] = "validating"
                                       /\ ~AbortIn(f, u)
    BY <1>4 DEF CommitsHold
  <2>1. Committed(u)
    BY <1>3, <1>4 DEF Committed
  <2>2. /\ rx[0][u].st = "installed" \/ (fault /\ rx[0][u].st = "dropped")
        /\ \A f \in Followers : rx[f][u].st = "installed" \/ Prepared(rx[f][u])
        /\ \A f \in Up : (Prepared(rx[f][u]) => fol[f].track.phase[u] = "validating") /\ ~AbortIn(f, u)
    BY <2>1 DEF IInv, CommitsHold
  <2>3. rx'[0][u].st = "installed" \/ (fault' /\ rx'[0][u].st = "dropped")
    BY <1>3, <2>2
  <2> QED
    BY <1>3, <1>4, <2>2, <2>3
<1>12. GoneToCome'
  <2>1. GoneToCome
    BY DEF IInv
  <2> QED
    BY <1>1, <1>3, <1>4, <2>1, SMTT(30) DEF GoneToCome
<1> QED
  BY <1>5, <1>6, <1>7, <1>8, <1>9, <1>10, <1>11, <1>12 DEF IInv

LEMMA AskFailsStep ==
    ASSUME IInv, AskFails
    PROVE  IInv'
<1>1. /\ lead.wait # NoWait /\ lead' = [lead EXCEPT !.wait = NoWait, !.broken = TRUE]
      /\ rx' = [rx EXCEPT ![0][lead.wait.t] = Over("dropped")]
      /\ UNCHANGED <<store, stream, fol>>
  BY Zenon DEF AskFails
<1>2. /\ lead \in [track : Track, broken : BOOLEAN, wait : [op : {"has", "status", "validate"}, t : Txns] \cup {NoWait}]
      /\ fault \in BOOLEAN
  BY DEF IInv, TypeOK
<1>3. lead.wait.t \in Txns /\ lead' = [track |-> lead.track, wait |-> NoWait, broken |-> TRUE]
  BY <1>1, <1>2
<1>4. fault' = TRUE
  <2>1. PICK f \in Followers : fault' = (fault \/ fol[f].up)
    BY Zenon DEF AskFails
  <2>2. fol[f].up \in BOOLEAN
    BY DEF IInv, TypeOK, Follower
  <2>3. CASE fol[f].up
    BY <2>1, <2>3
  <2>4. CASE ~fol[f].up
    <3>1. f \in Down
      BY <2>4 DEF Down, Up
    <3> QED
      BY <1>2, <2>1, <3>1 DEF IInv, OnlyFaultsBreak
  <2> QED
    BY <2>2, <2>3, <2>4
<1> QED
  BY <1>1, <1>3, <1>4, DroppedStep

LEMMA DropBrokenStep ==
    ASSUME IInv, NEW t \in Txns, DropBroken(t)
    PROVE  IInv'
<1>1. /\ lead \in [track : Track, broken : BOOLEAN, wait : [op : {"has", "status", "validate"}, t : Txns] \cup {NoWait}]
      /\ fault \in BOOLEAN
  BY DEF IInv, TypeOK
<1>2. lead.broken /\ lead.wait = NoWait /\ fault
  BY DEF DropBroken, IInv, BrokenWaitsNot, OnlyFaultsBreak
<1>3. lead' = [track |-> lead.track, wait |-> NoWait, broken |-> TRUE] /\ fault' = TRUE
  BY <1>1, <1>2 DEF DropBroken
<1> QED
  BY <1>3, DroppedStep DEF DropBroken

-----------------------------------------------------------------------------
(* A rank's store, a follower's copies, a follower's death *)

LEMMA StoreStep ==
    ASSUME IInv, UNCHANGED <<lead, rx, stream, fol, fault>>, TypeOK',
           \A r \in Ranks : gone'[r] \cap stored'[r] \subseteq gone[r] \cap stored[r]
    PROVE  IInv'
<1>1. Up' = Up /\ Down' = Down /\ \A f \in Up : f \in Ranks
  BY UpIs, RankIs DEF Up, Down
<1>2. OnlyFaultsBreak' /\ BrokenWaitsNot' /\ CompleteIsPrepared' /\ SamePoint'
  BY <1>1 DEF IInv, OnlyFaultsBreak, BrokenWaitsNot, CompleteIsPrepared, SamePoint
<1>3. StreamsFit' /\ FollowerFits' /\ LeaderFits' /\ AskFits'
  BY <1>1 DEF IInv, StreamsFit, FollowerFits, LeaderFits, LeaderAt, AskFits, TheAsk
<1>4. AbortsDropped' /\ CommitsHold'
  BY <1>1 DEF IInv, AbortsDropped, AbortIn, CommitsHold, Committed, CommitIn
<1>5. GoneToCome'
  BY <1>1, RankIs DEF IInv, GoneToCome
<1> QED
  BY <1>2, <1>3, <1>4, <1>5 DEF IInv

LEMMA PublishedStep ==
    ASSUME IInv, NEW r \in Ranks, NEW p \in Points, Published(r, p)
    PROVE  IInv'
<1>1. TypeOK
  BY DEF IInv
<1>2. /\ stored \in [Ranks -> SUBSET Points] /\ writing \in [Ranks -> SUBSET Points] /\ gone \in [Ranks -> SUBSET Points]
      /\ \A q \in Ranks : stored[q] \cap writing[q] = {}
  BY <1>1 DEF TypeOK
<1>3. /\ stored' \in [Ranks -> SUBSET Points] /\ writing' \in [Ranks -> SUBSET Points] /\ gone' \in [Ranks -> SUBSET Points]
      /\ \A q \in Ranks : stored'[q] \cap writing'[q] = {}
      /\ \A q \in Ranks : gone'[q] \cap stored'[q] \subseteq gone[q] \cap stored[q]
  BY <1>2 DEF Published
<1>4. TypeOK'
  BY <1>1, <1>3 DEF TypeOK, Published
<1> QED
  BY <1>3, <1>4, StoreStep DEF Published

LEMMA WriteLostStep ==
    ASSUME IInv, NEW r \in Ranks, NEW p \in Points, WriteLost(r, p)
    PROVE  IInv'
<1>1. TypeOK
  BY DEF IInv
<1>2. /\ writing \in [Ranks -> SUBSET Points]
      /\ \A q \in Ranks : stored[q] \cap writing[q] = {}
  BY <1>1 DEF TypeOK
<1>3. /\ writing' \in [Ranks -> SUBSET Points]
      /\ \A q \in Ranks : stored[q] \cap writing'[q] = {}
  BY <1>2 DEF WriteLost
<1>4. TypeOK'
  BY <1>1, <1>3 DEF TypeOK, WriteLost
<1> QED
  BY <1>4, StoreStep DEF WriteLost

LEMMA EvictStep ==
    ASSUME IInv, NEW r \in Ranks, NEW p \in Points, Evict(r, p)
    PROVE  IInv'
<1>1. TypeOK
  BY DEF IInv
<1>2. /\ stored \in [Ranks -> SUBSET Points]
      /\ \A q \in Ranks : stored[q] \cap writing[q] = {}
  BY <1>1 DEF TypeOK
<1>3. /\ stored' \in [Ranks -> SUBSET Points]
      /\ \A q \in Ranks : stored'[q] \cap writing[q] = {}
      /\ \A q \in Ranks : stored'[q] \subseteq stored[q]
  BY <1>2 DEF Evict
<1>4. TypeOK'
  BY <1>1, <1>3 DEF TypeOK, Evict
<1> QED
  BY <1>3, <1>4, StoreStep DEF Evict

LEMMA ServiceStep ==
    ASSUME IInv, NEW f \in Followers, NEW t \in Txns, Service(f, t)
    PROVE  IInv'
<1>1. PICK x \in Worked(rx[f][t], rx[f][t].allowed) : x # rx[f][t] /\ rx' = [rx EXCEPT ![f][t] = x]
  BY DEF Service
<1>2. UNCHANGED <<lead, store, stream, fol, fault>>
  BY DEF Service
<1>3. TypeOK /\ rx \in [Ranks -> [Txns -> Rx]] /\ f \in Ranks /\ f # 0 /\ 0 \in Ranks
  BY RankIs DEF IInv, TypeOK
<1>4. /\ SameRestore(rx[f][t], x)
      /\ rx[f][t].st = "open" /\ ~Prepared(rx[f][t])
  <2>1. rx[f][t] \in Rx /\ rx[f][t].allowed \in 0 .. Blocks
    BY <1>3, RxFields
  <2> QED
    BY <1>1, <2>1, WorkedIs
<1>5. /\ rx' \in [Ranks -> [Txns -> Rx]] /\ rx'[0] = rx[0]
      /\ \A r \in Ranks, u \in Txns :
            /\ rx'[r][u].st = rx[r][u].st /\ rx'[r][u].point = rx[r][u].point
            /\ (r # f \/ u # t) => rx'[r][u] = rx[r][u]
  BY <1>1, <1>3, <1>4 DEF SameRestore
<1>6. \A r \in Followers, u \in Txns : r \in Ranks /\ (Prepared(rx[r][u]) => Prepared(rx'[r][u]))
                                       /\ (rx[r][u].st = "installed" \/ Prepared(rx[r][u]) => rx'[r][u] = rx[r][u])
  BY <1>4, <1>5, RankIs
<1>7. /\ Up' = Up /\ Down' = Down /\ Up \subseteq Followers /\ Followers \subseteq Ranks
      /\ \A g \in Followers, u \in Txns : AbortIn(g, u)' = AbortIn(g, u) /\ CommitIn(g, u)' = CommitIn(g, u)
      /\ stored' = stored /\ writing' = writing /\ gone' = gone
      /\ lead' = lead /\ stream' = stream /\ fol' = fol /\ fault' = fault
  BY <1>2, UpIs, RankIs DEF Up, Down, AbortIn, CommitIn, store
<1>8. TypeOK'
  BY <1>3, <1>5, <1>7 DEF TypeOK
<1>9. OnlyFaultsBreak' /\ BrokenWaitsNot' /\ StreamsFit'
  BY <1>7 DEF IInv, OnlyFaultsBreak, BrokenWaitsNot, StreamsFit
<1>10. FollowerFits'
  BY <1>5, <1>7 DEF IInv, FollowerFits, RxFits
<1>11. LeaderFits' /\ AskFits'
  BY <1>5, <1>7, ZenonT(30) DEF IInv, LeaderFits, LeaderAt, AskFits, TheAsk
<1>12. CompleteIsPrepared'
  BY <1>6, <1>7 DEF IInv, CompleteIsPrepared
<1>13. SamePoint'
  BY <1>5, <1>7, ZenonT(30) DEF IInv, SamePoint
<1>14. AbortsDropped'
  BY <1>5, <1>7 DEF IInv, AbortsDropped
<1>15. CommitsHold'
  <2> SUFFICES ASSUME NEW u \in Txns, Committed(u)'
               PROVE  /\ rx'[0][u].st = "installed" \/ (fault' /\ rx'[0][u].st = "dropped")
                      /\ \A g \in Followers : rx'[g][u].st = "installed" \/ Prepared(rx'[g][u])
                      /\ \A g \in Up : /\ Prepared(rx'[g][u]) => fol'[g].track.phase[u] = "validating"
                                       /\ ~AbortIn(g, u)
    BY <1>7 DEF CommitsHold
  <2>1. Committed(u)
    BY <1>5, <1>7 DEF Committed
  <2>2. /\ rx[0][u].st = "installed" \/ (fault /\ rx[0][u].st = "dropped")
        /\ \A g \in Followers : rx[g][u].st = "installed" \/ Prepared(rx[g][u])
        /\ \A g \in Up : (Prepared(rx[g][u]) => fol[g].track.phase[u] = "validating") /\ ~AbortIn(g, u)
    BY <2>1 DEF IInv, CommitsHold
  <2>3. \A g \in Followers : rx'[g][u] = rx[g][u]
    BY <1>6, <2>2
  <2> QED
    BY <1>5, <1>7, <2>2, <2>3
<1>16. GoneToCome'
  <2>1. ASSUME NEW g \in Up, NEW p \in gone[g] \cap stored[g]
        PROVE  \E n \in 1 .. Len(stream[g]) :
                  /\ stream[g][n].op = "abort" /\ stream[g][n].forget
                  /\ fol[g].track.phase[stream[g][n].t] # "none" /\ rx'[g][stream[g][n].t].point = p
    <3>1. PICK n \in 1 .. Len(stream[g]) :
            /\ stream[g][n].op = "abort" /\ stream[g][n].forget
            /\ fol[g].track.phase[stream[g][n].t] # "none" /\ rx[g][stream[g][n].t].point = p
      BY DEF IInv, GoneToCome
    <3>2. stream[g] \in Seq(Msg)
      BY <1>7 DEF IInv, TypeOK
    <3>3. stream[g][n].t \in Txns
      BY <3>1, <3>2, ElementOfSeq, MsgFields
    <3> QED
      BY <1>5, <1>7, <3>1, <3>3
  <2> QED
    <3>1. gone[0] \cap stored[0] = {}
      BY DEF IInv, GoneToCome
    <3>2. gone'[0] \cap stored'[0] = {} /\ Up' = Up /\ gone' = gone /\ stored' = stored
          /\ stream' = stream /\ fol' = fol
      BY <1>7, <3>1
    <3> QED
      BY <2>1, <3>2, SMTT(30) DEF GoneToCome
<1> QED
  BY <1>8, <1>9, <1>10, <1>11, <1>12, <1>13, <1>14, <1>15, <1>16 DEF IInv

LEMMA DiesStep ==
    ASSUME IInv, NEW f \in Followers, Dies(f)
    PROVE  IInv'
<1>1. /\ fol' = [fol EXCEPT ![f].up = FALSE] /\ fault' = TRUE
      /\ UNCHANGED <<lead, rx, store, stream>>
  BY DEF Dies
<1>2. TypeOK /\ fol \in [Followers -> Follower]
  BY DEF IInv, TypeOK
<1>3. /\ fol' \in [Followers -> Follower]
      /\ \A g \in Followers : /\ fol'[g].track = fol[g].track /\ fol'[g].reply = fol[g].reply
                              /\ fol'[g].up => fol[g].up
  BY <1>1, <1>2 DEF Follower
<1>4. Up' \subseteq Up /\ Up \subseteq Followers
  BY <1>3, UpIs DEF Up
<1>5. /\ stored' = stored /\ writing' = writing /\ gone' = gone
      /\ lead' = lead /\ rx' = rx /\ stream' = stream
      /\ \A g \in Followers, u \in Txns : AbortIn(g, u)' = AbortIn(g, u) /\ CommitIn(g, u)' = CommitIn(g, u)
  BY <1>1 DEF store, AbortIn, CommitIn
<1>6. TypeOK' /\ OnlyFaultsBreak' /\ BrokenWaitsNot'
  BY <1>1, <1>2, <1>3, <1>5 DEF IInv, TypeOK, OnlyFaultsBreak, BrokenWaitsNot
<1>7. StreamsFit'
  BY <1>3, <1>4, <1>5 DEF IInv, StreamsFit
<1>8. FollowerFits' /\ LeaderFits'
  BY <1>3, <1>4, <1>5 DEF IInv, FollowerFits, LeaderFits, LeaderAt
<1>9. AskFits'
  BY <1>3, <1>4, <1>5 DEF IInv, AskFits, TheAsk
<1>10. CompleteIsPrepared' /\ SamePoint' /\ AbortsDropped'
  BY <1>3, <1>4, <1>5, ZenonT(30) DEF IInv, CompleteIsPrepared, SamePoint, AbortsDropped
<1>11. CommitsHold'
  <2> SUFFICES ASSUME NEW u \in Txns, Committed(u)'
               PROVE  /\ rx[0][u].st = "installed" \/ (fault' /\ rx[0][u].st = "dropped")
                      /\ \A g \in Followers : rx[g][u].st = "installed" \/ Prepared(rx[g][u])
                      /\ \A g \in Up' : /\ Prepared(rx[g][u]) => fol'[g].track.phase[u] = "validating"
                                        /\ ~AbortIn(g, u)'
    BY <1>5 DEF CommitsHold
  <2>1. Committed(u)
    BY <1>4, <1>5 DEF Committed
  <2>2. /\ rx[0][u].st = "installed" \/ (fault /\ rx[0][u].st = "dropped")
        /\ \A g \in Followers : rx[g][u].st = "installed" \/ Prepared(rx[g][u])
        /\ \A g \in Up : (Prepared(rx[g][u]) => fol[g].track.phase[u] = "validating") /\ ~AbortIn(g, u)
    BY <2>1 DEF IInv, CommitsHold
  <2> QED
    BY <1>1, <1>3, <1>4, <1>5, <2>2
<1>12. GoneToCome'
  <2>1. GoneToCome
    BY DEF IInv
  <2> QED
    BY <1>3, <1>4, <1>5, <2>1, SMTT(30) DEF GoneToCome
<1> QED
  BY <1>6, <1>7, <1>8, <1>9, <1>10, <1>11, <1>12 DEF IInv

-----------------------------------------------------------------------------
(* A follower handles the next command of its stream *)

\* f reads and admits m: its restore is x then, and it answers.
Reads(f, m, x, answer) ==
    /\ f \in Up /\ stream[f] # << >> /\ m = Head(stream[f]) /\ Admits(fol[f].track, m)
    /\ stream' = [stream EXCEPT ![f] = Tail(@)]
    /\ Handles(f, m, x, answer)
    /\ UNCHANGED <<lead, fault>>

\* What each command may leave of its restore, and what it answers.
Handled(f, m, x, answer) ==
    /\ x \in Rx /\ answer \in Answers
    /\ answer # "" <=> IsAsk(m)
    /\ m.op = "has" => x.st = "asked" /\ x.point = m.point
    /\ m.op \in {"reserve", "start", "progress", "status", "validate"} => x.st = "open" /\ x.point = rx[f][m.t].point
    /\ m.op = "commit" => x.st = "installed"
    /\ m.op = "abort" => x.st = "dropped"
    /\ answer = "complete" => Prepared(x)

\* What it may change of the store: a follower forgets a point when it is told to.
Storing(f, m) ==
    /\ stored' \in [Ranks -> SUBSET Points] /\ writing' \in [Ranks -> SUBSET Points] /\ gone' = gone
    /\ \A r \in Ranks : stored'[r] \subseteq stored[r] /\ stored'[r] \cap writing'[r] = {}
    /\ m.op = "abort" /\ m.forget => rx[f][m.t].point \notin stored'[f]

LEMMA ReadsIs ==
    ASSUME IInv, NEW f, NEW m, NEW x, NEW answer, Reads(f, m, x, answer)
    PROVE  /\ f \in Up /\ f \in Followers /\ f \in Ranks /\ f # 0
           /\ stream[f] \in Seq(Msg) /\ stream'[f] \in Seq(Msg) /\ m \in Msg /\ m = stream[f][1]
           /\ Len(stream[f]) \in Nat \ {0} /\ Len(stream'[f]) = Len(stream[f]) - 1
           /\ \A n \in 1 .. Len(stream'[f]) : stream'[f][n] = stream[f][n + 1]
           /\ \A g \in Followers : g # f => stream'[g] = stream[g]
           /\ stream' \in [Followers -> Seq(Msg)]
<1>1. f \in Up /\ f \in Followers /\ f \in Ranks /\ f # 0
  BY UpIs, RankIs DEF Reads
<1>2. stream \in [Followers -> Seq(Msg)]
  BY DEF IInv, TypeOK
<1>3. stream[f] # << >> /\ m = Head(stream[f]) /\ stream' = [stream EXCEPT ![f] = Tail(@)]
  BY DEF Reads
<1> DEFINE s == stream[f]
<1>4. /\ Tail(s) \in Seq(Msg) /\ Head(s) \in Msg /\ Head(s) = s[1] /\ Len(s) \in Nat \ {0}
      /\ Len(Tail(s)) = Len(s) - 1 /\ \A n \in 1 .. Len(s) - 1 : Tail(s)[n] = s[n + 1]
  <2>1. s \in Seq(Msg) /\ s # << >>
    BY <1>1, <1>2, <1>3
  <2> HIDE DEF s
  <2> QED
    BY <2>1, HeadTailProperties, EmptySeq, LenProperties
<1>5. stream'[f] = Tail(s)
  BY <1>1, <1>2, <1>3
<1>6. /\ \A n \in 1 .. Len(stream'[f]) : stream'[f][n] = s[n + 1]
      /\ Len(stream'[f]) = Len(s) - 1
  BY <1>4, <1>5
<1> QED
  BY <1>1, <1>2, <1>3, <1>4, <1>5, <1>6

LEMMA ReadsRest ==
    ASSUME IInv, NEW f, NEW m, NEW x, NEW answer, Reads(f, m, x, answer), Handled(f, m, x, answer)
    PROVE  /\ Up' = Up /\ Down' = Down /\ lead' = lead /\ fault' = fault
           /\ fol' \in [Followers -> Follower] /\ rx' \in [Ranks -> [Txns -> Rx]]
           /\ fol'[f].track = Admitted(fol[f].track, m) /\ fol'[f].reply = answer
           /\ \A g \in Followers : g # f => fol'[g] = fol[g] /\ rx'[g] = rx[g]
           /\ rx'[0] = rx[0] /\ fol[f].track \in Track
           /\ m.op # "keep" => rx'[f][m.t] = x
           /\ \A u \in Txns : m.op = "keep" \/ u # m.t => rx'[f][u] = rx[f][u]
<1>1. f \in Up /\ f \in Followers /\ f \in Ranks /\ f # 0 /\ m \in Msg /\ Followers \subseteq Ranks /\ 0 \in Ranks
  BY ReadsIs, RankIs
<1>2. fol \in [Followers -> Follower] /\ rx \in [Ranks -> [Txns -> Rx]]
  BY DEF IInv, TypeOK
<1>3. /\ rx' = IF m.op = "keep" THEN rx ELSE [rx EXCEPT ![f][m.t] = x]
      /\ fol' = [fol EXCEPT ![f].track = Admitted(@, m), ![f].reply = answer]
      /\ lead' = lead /\ fault' = fault
  BY DEF Reads, Handles
<1>4. fol[f].track \in Track /\ Admitted(fol[f].track, m) \in Track
  <2>1. fol[f].track \in Track
    BY <1>1, <1>2 DEF Follower
  <2> QED
    BY <1>1, <2>1, AdmittedIs
<1>5. x \in Rx /\ answer \in Answers
  BY DEF Handled
<1>6. m.op # "keep" => m.t \in Txns
  BY <1>1, MsgFields
<1>7. /\ fol' \in [Followers -> Follower]
      /\ fol'[f].track = Admitted(fol[f].track, m) /\ fol'[f].reply = answer /\ fol'[f].up = fol[f].up
      /\ \A g \in Followers : g # f => fol'[g] = fol[g]
  BY <1>1, <1>2, <1>3, <1>4, <1>5 DEF Follower
<1>8. /\ rx' \in [Ranks -> [Txns -> Rx]]
      /\ \A r \in Ranks : r # f => rx'[r] = rx[r]
      /\ m.op # "keep" => rx'[f][m.t] = x
      /\ \A u \in Txns : m.op = "keep" \/ u # m.t => rx'[f][u] = rx[f][u]
  BY <1>1, <1>2, <1>3, <1>5, <1>6
<1>9. Up' = Up
  BY <1>1, <1>7 DEF Up
<1> QED
  BY <1>1, <1>3, <1>4, <1>7, <1>8, <1>9 DEF Down

\* Where the restore is that a command is about.
LEMMA ReadsPhase ==
    ASSUME IInv, NEW f, NEW m, NEW x, NEW answer, Reads(f, m, x, answer), m.op # "keep"
    PROVE  /\ m.t \in Txns /\ RxFits(fol[f].track, rx[f][m.t], m.t)
           /\ m.op = "has" => m.t > fol[f].track.last /\ rx[f][m.t].st = "none" /\ fol[f].track.phase[m.t] = "none"
           /\ m.op # "has" => fol[f].track.phase[m.t] # "none" /\ ~(m.t > fol[f].track.last)
           /\ m.op \notin {"has", "abort"} => fol[f].track.phase[m.t] = Needs[m.op]
<1>1. f \in Up /\ m \in Msg /\ f \in Followers
  BY ReadsIs
<1>2. m.t \in Txns /\ m.op \in {"has", "keep", "reserve", "start", "status", "validate", "commit", "progress", "abort"}
  BY <1>1, MsgFields
<1>3. RxFits(fol[f].track, rx[f][m.t], m.t)
  BY <1>1, <1>2 DEF IInv, FollowerFits
<1>4. Admits(fol[f].track, m)
  BY DEF Reads
<1>5. fol[f].track.last \in Nat
  <2>1. fol[f].track \in Track
    BY <1>1 DEF IInv, TypeOK, Follower
  <2> QED
    BY <2>1, TrackFields
<1>6. m.op = "has" => m.t > fol[f].track.last
  BY <1>4, <1>5 DEF Admits
<1>7. m.op \notin {"has", "abort"} => fol[f].track.phase[m.t] = Needs[m.op]
  BY <1>2, <1>4 DEF Admits
<1>8. m.op = "abort" => fol[f].track.phase[m.t] # "none"
  BY <1>4 DEF Admits
<1>9. m.op \notin {"has", "abort"} => Needs[m.op] # "none"
  BY <1>2 DEF Needs
<1> QED
  BY <1>2, <1>3, <1>6, <1>7, <1>8, <1>9 DEF RxFits

LEMMA ReadsStreams ==
    ASSUME IInv, NEW f, NEW m, NEW x, NEW answer, Reads(f, m, x, answer), Handled(f, m, x, answer)
    PROVE  /\ StreamsFit'
           /\ \A u \in Txns : Ended(Admitted(fol[f].track, m), u) =>
                 /\ ~lead.broken => Ended(lead.track, u)
                 /\ \A n \in 1 .. Len(stream'[f]) : stream'[f][n].op # "keep" => stream'[f][n].t # u
<1>1. f \in Up /\ f \in Followers /\ stream[f] \in Seq(Msg) /\ stream'[f] \in Seq(Msg) /\ m \in Msg
  BY ReadsIs
<1>2. fol[f].track \in Track /\ fol'[f].track = Admitted(fol[f].track, m) /\ Admitted(fol[f].track, m) \in Track
  BY <1>1, ReadsRest, AdmittedIs
<1>3. stream[f] # << >> /\ m = Head(stream[f]) /\ stream'[f] = Tail(stream[f])
  <2>1. stream \in [Followers -> Seq(Msg)]
    BY DEF IInv, TypeOK
  <2> QED
    BY <1>1, <2>1 DEF Reads
<1>4. PICK end \in Track : Leads(fol[f].track, stream[f], end) /\ (~lead.broken => end = lead.track)
  BY <1>1 DEF IInv, StreamsFit
<1>5. /\ Leads(Admitted(fol[f].track, m), stream'[f], end)
      /\ \A u \in Txns : Ended(Admitted(fol[f].track, m), u) => Ended(end, u)
  BY <1>1, <1>2, <1>3, <1>4, LeadsTail
<1>6. StreamsFit'
  <2>1. ASSUME NEW g \in Up
        PROVE  \E e \in Track : Leads(fol'[g].track, stream'[g], e) /\ (~lead.broken => e = lead.track)
    <3>1. CASE g = f
      BY <1>2, <1>4, <1>5, <3>1
    <3>2. CASE g # f
      <4>1. stream'[g] = stream[g] /\ fol'[g] = fol[g]
        BY <3>2, ReadsIs, ReadsRest, UpIs
      <4> QED
        BY <4>1 DEF IInv, StreamsFit
    <3> QED
      BY <3>1, <3>2
  <2>2. Up' = Up /\ lead' = lead
    BY ReadsRest
  <2> QED
    BY <2>1, <2>2 DEF StreamsFit
<1>7. ASSUME NEW u \in Txns, Ended(Admitted(fol[f].track, m), u)
      PROVE  \A n \in 1 .. Len(stream'[f]) : stream'[f][n].op # "keep" => stream'[f][n].t # u
  BY <1>1, <1>2, <1>5, <1>7, LeadsEnded
<1> QED
  BY <1>4, <1>5, <1>6, <1>7

LEMMA ReadsFollower ==
    ASSUME IInv, NEW f, NEW m, NEW x, NEW answer, Reads(f, m, x, answer), Handled(f, m, x, answer)
    PROVE  FollowerFits'
<1>1. f \in Up /\ f \in Followers /\ m \in Msg /\ fol[f].track \in Track
  BY ReadsIs, ReadsRest
<1> DEFINE tr == fol[f].track
           new == Admitted(tr, m)
<1>2. /\ m.op = "keep" => new = tr
      /\ m.op # "keep" => \A u \in Txns : new.phase[u] = IF u = m.t THEN Moves[m.op] ELSE tr.phase[u]
      /\ new.last = IF m.op = "has" THEN m.t ELSE tr.last
      /\ tr.last \in Nat
  BY <1>1, AdmittedIs, TrackFields
<1>3. m.op \in {"has", "keep", "reserve", "start", "status", "validate", "commit", "progress", "abort"}
  BY <1>1, MsgFields
<1>4. \A u \in Txns : RxFits(tr, rx[f][u], u)
  BY <1>1 DEF IInv, FollowerFits
<1> HIDE DEF new, tr
<1>5. ASSUME NEW u \in Txns
      PROVE  RxFits(new, rx'[f][u], u)
  <2>1. CASE m.op = "keep"
    <3>1. rx'[f][u] = rx[f][u]
      BY <2>1, ReadsRest
    <3> QED
      BY <1>2, <1>4, <2>1, <3>1
  <2>2. CASE m.op # "keep" /\ u # m.t
    <3>1. rx'[f][u] = rx[f][u]
      BY <2>2, ReadsRest
    <3>2. m.op = "has" => m.t > tr.last
      BY <2>2, ReadsPhase DEF tr
    <3>3. new.phase[u] = tr.phase[u] /\ (u > new.last => u > tr.last)
      <4>1. new.phase[u] = tr.phase[u]
        BY <1>2, <2>2
      <4>2. CASE m.op = "has"
        <5>1. m.t \in Txns /\ new.last = m.t /\ m.t > tr.last /\ tr.last \in Nat
          BY <1>2, <2>2, <3>2, <4>2, ReadsPhase
        <5> QED
          BY <4>1, <5>1 DEF Txns
      <4>3. CASE m.op # "has"
        BY <1>2, <4>1, <4>3
      <4> QED
        BY <4>2, <4>3
    <3> QED
      BY <1>4, <3>1, <3>3 DEF RxFits
  <2>3. CASE m.op # "keep" /\ u = m.t
    <3>1. rx'[f][u] = x /\ new.phase[u] = Moves[m.op]
      BY <1>2, <2>3, ReadsRest
    <3>2. ~(u > new.last)
      <4>1. m.op # "has" => ~(m.t > tr.last)
        BY <2>3, ReadsPhase DEF tr
      <4> QED
        BY <1>2, <2>3, <4>1 DEF Txns
    <3>3. /\ m.op = "has" => x.st = "asked"
          /\ m.op \in {"reserve", "start", "progress", "status", "validate"} => x.st = "open"
          /\ m.op = "commit" => x.st = "installed"
          /\ m.op = "abort" => x.st = "dropped"
      BY DEF Handled
    <3>4. Moves[m.op] = "none" <=> x.st \in {"none", "installed", "dropped"}
      BY <1>3, <2>3, <3>3 DEF Moves
    <3>5. Moves[m.op] = "has" <=> x.st = "asked"
      BY <1>3, <2>3, <3>3 DEF Moves
    <3> QED
      BY <3>1, <3>2, <3>4, <3>5 DEF RxFits
  <2> QED
    BY <2>1, <2>2, <2>3
<1>6. Up' = Up /\ fol'[f].track = new /\ Up \subseteq Followers
      /\ \A g \in Followers : g # f => fol'[g] = fol[g] /\ rx'[g] = rx[g]
  BY ReadsRest, UpIs DEF new, tr
<1> QED
  BY <1>5, <1>6 DEF IInv, FollowerFits

\* m is what rank 0 waits for.
AsksThat(m) == lead.wait # NoWait /\ m = TheAsk

\* An ask is read last, and answered; nothing else is.
LEMMA ReadsAsk ==
    ASSUME IInv, NEW f, NEW m, NEW x, NEW answer, Reads(f, m, x, answer), ~lead.broken
    PROVE  /\ IsAsk(m) => Len(stream[f]) = 1 /\ AsksThat(m)
           /\ lead.wait # NoWait => fol[f].reply = "" /\ stream[f][Len(stream[f])] = TheAsk
           /\ lead.wait # NoWait /\ Len(stream[f]) = 1 => IsAsk(m)
<1>1. /\ f \in Up /\ m = stream[f][1] /\ Len(stream[f]) \in Nat \ {0} /\ stream[f] # << >>
  BY ReadsIs DEF Reads
<1>2. /\ \A n \in 1 .. Len(stream[f]) : IsAsk(stream[f][n]) => n = Len(stream[f]) /\ lead.wait # NoWait
      /\ lead.wait # NoWait => IF fol[f].reply = "" THEN stream[f] # <<>> /\ stream[f][Len(stream[f])] = TheAsk ELSE stream[f] = <<>>
  BY <1>1 DEF IInv, AskFits
<1>3. lead.wait # NoWait => fol[f].reply = "" /\ stream[f][Len(stream[f])] = TheAsk
  BY <1>1, <1>2
<1>4. 1 \in 1 .. Len(stream[f])
  BY <1>1
<1>5. IsAsk(m) => Len(stream[f]) = 1 /\ lead.wait # NoWait
  BY <1>1, <1>2, <1>4
<1>6. lead.wait # NoWait => IsAsk(TheAsk)
  <2>1. lead.wait # NoWait => lead.wait.op \in {"has", "status", "validate"}
    BY DEF IInv, TypeOK
  <2> QED
    BY <2>1 DEF TheAsk, IsAsk, Has
<1> QED
  BY <1>1, <1>3, <1>5, <1>6 DEF AsksThat

LEMMA ReadsAsks ==
    ASSUME IInv, NEW f, NEW m, NEW x, NEW answer, Reads(f, m, x, answer), Handled(f, m, x, answer)
    PROVE  AskFits' /\ CompleteIsPrepared'
<1>1. /\ f \in Up /\ f \in Followers /\ m = stream[f][1]
      /\ Len(stream[f]) \in Nat \ {0} /\ Len(stream'[f]) = Len(stream[f]) - 1
      /\ \A n \in 1 .. Len(stream'[f]) : stream'[f][n] = stream[f][n + 1]
      /\ \A g \in Followers : g # f => stream'[g] = stream[g]
      /\ stream'[f] \in Seq(Msg)
  BY ReadsIs
<1>2. /\ Up' = Up /\ lead' = lead /\ Up \subseteq Followers /\ fol'[f].reply = answer
      /\ \A g \in Followers : g # f => fol'[g] = fol[g] /\ rx'[g] = rx[g]
      /\ rx'[0] = rx[0] /\ (m.op # "keep" => rx'[f][m.t] = x)
  BY ReadsRest, UpIs
<1>3. (answer # "" <=> IsAsk(m)) /\ (answer = "complete" => Prepared(x))
  BY Zenon DEF Handled
<1>4. TheAsk' = TheAsk
  BY <1>2 DEF TheAsk
<1>5. ASSUME ~lead.broken
      PROVE  /\ \A n \in 1 .. Len(stream'[f]) : IsAsk(stream'[f][n]) => n = Len(stream'[f]) /\ lead.wait # NoWait
             /\ lead.wait = NoWait => answer = ""
             /\ lead.wait # NoWait => IF answer = "" THEN stream'[f] # <<>> /\ stream'[f][Len(stream'[f])] = TheAsk
                                      ELSE stream'[f] = <<>>
  <2> DEFINE a == Len(stream[f])
             b == Len(stream'[f])
  <2>1. /\ IsAsk(m) => a = 1 /\ lead.wait # NoWait
        /\ lead.wait # NoWait => stream[f][a] = TheAsk
        /\ lead.wait # NoWait /\ a = 1 => IsAsk(m)
    BY <1>5, ReadsAsk DEF AsksThat
  <2>2. \A n \in 1 .. a : IsAsk(stream[f][n]) => n = a /\ lead.wait # NoWait
    BY <1>1, <1>5 DEF IInv, AskFits
  <2>3. a \in Nat \ {0} /\ b = a - 1 /\ \A n \in 1 .. b : stream'[f][n] = stream[f][n + 1]
    BY <1>1
  <2>4. (b = 0 => stream'[f] = << >>) /\ (stream'[f] = << >> => b = 0)
    BY <1>1, EmptySeq
  <2> SUFFICES /\ \A n \in 1 .. b : IsAsk(stream'[f][n]) => n = b /\ lead.wait # NoWait
               /\ lead.wait = NoWait => answer = ""
               /\ lead.wait # NoWait => IF answer = "" THEN b # 0 /\ stream'[f][b] = TheAsk ELSE b = 0
    BY <2>4
  <2> HIDE DEF a, b
  <2>5. \A n \in 1 .. b : IsAsk(stream'[f][n]) => n = b /\ lead.wait # NoWait
    BY <2>2, <2>3
  <2>6. lead.wait = NoWait => answer = ""
    BY <1>3, <2>1
  <2>7. ASSUME lead.wait # NoWait, answer = ""
        PROVE  b # 0 /\ stream'[f][b] = TheAsk
    <3>1. a # 1
      BY <1>3, <2>1, <2>7
    <3>2. b # 0 /\ b \in 1 .. b /\ b + 1 = a
      BY <2>3, <3>1
    <3> QED
      BY <2>1, <2>3, <2>7, <3>2
  <2>8. ASSUME lead.wait # NoWait, answer # ""
        PROVE  b = 0
    <3>1. a = 1
      BY <1>3, <2>1, <2>8
    <3> QED
      BY <2>3, <3>1
  <2> QED
    BY <2>5, <2>6, <2>7, <2>8
<1>6. AskFits'
  <2>1. ASSUME ~lead.broken, NEW g \in Up, g # f
        PROVE  /\ \A n \in 1 .. Len(stream[g]) : IsAsk(stream[g][n]) => n = Len(stream[g]) /\ lead.wait # NoWait
               /\ lead.wait = NoWait => fol[g].reply = ""
               /\ lead.wait # NoWait => IF fol[g].reply = "" THEN stream[g] # <<>> /\ stream[g][Len(stream[g])] = TheAsk
                                        ELSE stream[g] = <<>>
    BY <2>1 DEF IInv, AskFits
  <2>2. \A g \in Up : g # f => stream'[g] = stream[g] /\ fol'[g] = fol[g]
    BY <1>1, <1>2
  <2>3. Up' = Up /\ lead' = lead /\ TheAsk' = TheAsk /\ fol'[f].reply = answer
    BY <1>2, <1>4
  <2> SUFFICES ASSUME ~lead.broken, NEW g \in Up
               PROVE  /\ \A n \in 1 .. Len(stream'[g]) : IsAsk(stream'[g][n]) => n = Len(stream'[g]) /\ lead.wait # NoWait
                      /\ lead.wait = NoWait => fol'[g].reply = ""
                      /\ lead.wait # NoWait => IF fol'[g].reply = "" THEN stream'[g] # <<>> /\ stream'[g][Len(stream'[g])] = TheAsk
                                               ELSE stream'[g] = <<>>
    BY <2>3 DEF AskFits
  <2>4. CASE g = f
    BY <1>5, <2>3, <2>4
  <2>5. CASE g # f
    BY <2>1, <2>2, <2>5
  <2> QED
    BY <2>4, <2>5
<1>7. CompleteIsPrepared'
  <2>1. ASSUME NEW u \in Txns, lead.wait = Command("validate", u), answer = "complete"
        PROVE  Prepared(rx'[f][u])
    <3>1. lead.wait # NoWait /\ lead.wait.op = "validate" /\ lead.wait.t = u
      BY <2>1, Commands
    <3>2. ~lead.broken /\ IsAsk(m)
      BY <1>3, <2>1, <3>1 DEF IInv, BrokenWaitsNot
    <3>3. m = TheAsk
      <4>1. AsksThat(m)
        BY <3>2, ReadsAsk
      <4> QED
        BY <4>1 DEF AsksThat
    <3>4. m.op = "validate" /\ m.t = u
      BY <3>1, <3>3 DEF TheAsk
    <3> QED
      BY <1>2, <1>3, <2>1, <3>4
  <2> QED
    BY <1>2, <2>1 DEF IInv, CompleteIsPrepared
<1> QED
  BY <1>6, <1>7

LEMMA ReadsPoints ==
    ASSUME IInv, NEW f, NEW m, NEW x, NEW answer, Reads(f, m, x, answer), Handled(f, m, x, answer)
    PROVE  SamePoint'
<1>1. f \in Up /\ f \in Followers /\ m \in Msg /\ fol[f].track \in Track /\ m = stream[f][1] /\ 1 \in 1 .. Len(stream[f])
  BY ReadsIs, ReadsRest
<1>2. /\ Up' = Up /\ lead' = lead /\ Up \subseteq Followers /\ rx'[0] = rx[0]
      /\ \A g \in Followers : g # f => fol'[g] = fol[g] /\ rx'[g] = rx[g]
      /\ fol'[f].reply = answer /\ fol'[f].track = Admitted(fol[f].track, m)
  BY ReadsRest, UpIs
<1>3. (answer # "" <=> IsAsk(m)) /\ m.op \in {"has", "keep", "reserve", "start", "status", "validate", "commit", "progress", "abort"}
  BY <1>1, MsgFields, Zenon DEF Handled
<1>4. ASSUME ~lead.broken, NEW u \in Txns, rx[0][u].st \in {"asked", "open"}
      PROVE  \/ fol'[f].track.phase[u] # "none" /\ rx'[f][u].point = rx[0][u].point
             \/ lead.wait = Command("has", u) /\ answer = ""
  <2>1. \/ fol[f].track.phase[u] # "none" /\ rx[f][u].point = rx[0][u].point
        \/ lead.wait = Command("has", u) /\ fol[f].reply = ""
    BY <1>1, <1>4 DEF IInv, SamePoint
  <2>2. IsAsk(m) => m = TheAsk /\ lead.wait # NoWait
    <3>1. IsAsk(m) => AsksThat(m)
      BY <1>4, ReadsAsk
    <3> QED
      BY <3>1 DEF AsksThat
  <2>3. CASE m.op = "has"
    <3>1. m = TheAsk /\ lead.wait # NoWait
      BY <2>2, <2>3 DEF IsAsk
    <3>2. lead.wait.op = "has" /\ m = Has(lead.wait.t, rx[0][lead.wait.t].point)
      BY <2>3, <3>1 DEF TheAsk
    <3>3. m.t = lead.wait.t /\ m.point = rx[0][m.t].point
      BY <3>2 DEF Has
    <3>4. CASE u = m.t
      <4>1. rx'[f][u] = x /\ x.point = m.point
        <5>1. rx'[f][m.t] = x
          BY <2>3, ReadsRest
        <5> QED
          BY <2>3, <3>4, <5>1 DEF Handled
      <4>2. Admitted(fol[f].track, m).phase[u] = "has"
        BY <1>1, <2>3, <3>4, AdmittedIs DEF Moves
      <4> QED
        BY <1>2, <3>3, <3>4, <4>1, <4>2
    <3>5. CASE u # m.t
      <4>1. rx'[f][u] = rx[f][u]
        BY <3>5, ReadsRest
      <4>2. Admitted(fol[f].track, m).phase[u] = fol[f].track.phase[u]
        BY <1>1, <2>3, <3>5, AdmittedIs
      <4>3. lead.wait # Command("has", u)
        BY <3>3, <3>5, Commands
      <4> QED
        BY <1>2, <2>1, <4>1, <4>2, <4>3
    <3> QED
      BY <3>4, <3>5
  <2>4. CASE m.op # "has"
    \* An ask that is no "has" is not the one waited for here.
    <3>1. lead.wait = Command("has", u) => answer = ""
      <4>1. lead.wait = Command("has", u) => TheAsk.op = "has"
        BY Commands DEF TheAsk, Has
      <4> QED
        BY <1>3, <2>2, <2>4, <4>1
    <3>2. CASE m.op = "keep" \/ u # m.t
      <4>1. rx'[f][u] = rx[f][u]
        BY <3>2, ReadsRest
      <4>2. Admitted(fol[f].track, m).phase[u] = fol[f].track.phase[u]
        BY <1>1, <3>2, AdmittedIs
      <4> QED
        BY <1>2, <2>1, <3>1, <4>1, <4>2
    <3>3. CASE m.op # "keep" /\ u = m.t
      <4>1. m.op # "abort"
        <5>1. ~AbortIn(f, u)
          BY <1>1, <1>4 DEF IInv, AbortsDropped
        <5> QED
          BY <1>1, <3>3, <5>1 DEF AbortIn
      <4>2. m.op # "commit"
        <5>1. CommitIn(f, u) => Committed(u)
          BY <1>1 DEF Committed
        <5>2. ~Committed(u)
          BY <1>4 DEF IInv, CommitsHold
        <5> QED
          BY <1>1, <3>3, <5>1, <5>2 DEF CommitIn
      <4>3. m.op \in {"reserve", "start", "progress", "status", "validate"}
        BY <1>3, <2>4, <3>3, <4>1, <4>2
      <4>4. rx'[f][u] = x /\ x.point = rx[f][u].point
        <5>1. rx'[f][m.t] = x
          BY <3>3, ReadsRest
        <5> QED
          BY <3>3, <4>3, <5>1 DEF Handled
      <4>5. Admitted(fol[f].track, m).phase[u] # "none"
        <5>1. Moves[m.op] # "none"
          BY <4>3 DEF Moves
        <5> QED
          BY <1>1, <3>3, <5>1, AdmittedIs
      <4> QED
        BY <1>2, <2>1, <3>1, <4>4, <4>5
    <3> QED
      BY <3>2, <3>3
  <2> QED
    BY <2>3, <2>4
<1>5. ASSUME ~lead.broken, NEW g \in Up, g # f, NEW u \in Txns, rx[0][u].st \in {"asked", "open"}
      PROVE  \/ fol'[g].track.phase[u] # "none" /\ rx'[g][u].point = rx[0][u].point
             \/ lead.wait = Command("has", u) /\ fol'[g].reply = ""
  <2>1. fol'[g] = fol[g] /\ rx'[g] = rx[g]
    BY <1>2, <1>5
  <2> QED
    BY <1>5, <2>1 DEF IInv, SamePoint
<1> QED
  BY <1>2, <1>4, <1>5 DEF SamePoint

LEMMA ReadsCommits ==
    ASSUME IInv, NEW f, NEW m, NEW x, NEW answer, Reads(f, m, x, answer), Handled(f, m, x, answer)
    PROVE  AbortsDropped' /\ CommitsHold'
<1>1. /\ f \in Up /\ f \in Followers /\ m \in Msg /\ fol[f].track \in Track /\ m = stream[f][1]
      /\ 1 \in 1 .. Len(stream[f])
      /\ \A n \in 1 .. Len(stream'[f]) : n + 1 \in 1 .. Len(stream[f]) /\ stream'[f][n] = stream[f][n + 1]
      /\ \A g \in Followers : g # f => stream'[g] = stream[g]
  BY ReadsIs, ReadsRest
<1>2. /\ Up' = Up /\ Up \subseteq Followers /\ fault' = fault /\ rx'[0] = rx[0]
      /\ \A g \in Followers : g # f => fol'[g] = fol[g] /\ rx'[g] = rx[g]
      /\ fol'[f].track = Admitted(fol[f].track, m)
      /\ m.op # "keep" => rx'[f][m.t] = x
      /\ \A u \in Txns : m.op = "keep" \/ u # m.t => rx'[f][u] = rx[f][u]
  BY ReadsRest, UpIs
<1>3. \A g \in Up, u \in Txns : (AbortIn(g, u)' => AbortIn(g, u)) /\ (CommitIn(g, u)' => CommitIn(g, u))
  <2> SUFFICES ASSUME NEW g \in Up, NEW u \in Txns
               PROVE  (AbortIn(g, u)' => AbortIn(g, u)) /\ (CommitIn(g, u)' => CommitIn(g, u))
    OBVIOUS
  <2>1. \A n \in 1 .. Len(stream'[g]) : \E k \in 1 .. Len(stream[g]) : stream'[g][n] = stream[g][k]
    BY <1>1, <1>2, SMTT(30)
  <2> QED
    BY <2>1 DEF AbortIn, CommitIn
<1>4. AbortsDropped'
  BY <1>2, <1>3 DEF IInv, AbortsDropped
<1>5. /\ m.op = "commit" => x.st = "installed"
      /\ m.op = "has" => x.st = "asked"
      /\ m.op \in {"reserve", "start", "progress", "status", "validate"} => x.st = "open"
      /\ m.op = "abort" => x.st = "dropped"
      /\ m.op \in {"has", "keep", "reserve", "start", "status", "validate", "commit", "progress", "abort"}
  BY <1>1, MsgFields, Zenon DEF Handled
\* It installs what it was to commit, and nothing else.
<1>6. ASSUME NEW u \in Txns, Committed(u)'
      PROVE  Committed(u)
  <2>1. CASE rx[0][u].st = "installed"
    BY <2>1 DEF Committed
  <2>2. ASSUME NEW g \in Followers, rx'[g][u].st = "installed"
        PROVE  Committed(u)
    <3>1. CASE rx'[g][u] = rx[g][u]
      BY <2>2, <3>1 DEF Committed
    <3>2. CASE rx'[g][u] # rx[g][u]
      <4>1. g = f /\ m.op # "keep" /\ u = m.t /\ rx'[g][u] = x
        BY <1>2, <3>2
      <4>2. m.op = "commit"
        BY <1>5, <2>2, <4>1
      <4>3. CommitIn(f, u)
        BY <1>1, <4>1, <4>2 DEF CommitIn
      <4> QED
        BY <1>1, <4>3 DEF Committed
    <3> QED
      BY <3>1, <3>2
  <2>3. ASSUME NEW g \in Up, CommitIn(g, u)'
        PROVE  Committed(u)
    BY <1>3, <2>3 DEF Committed
  <2> QED
    BY <1>2, <1>6, <2>1, <2>2, <2>3 DEF Committed
<1>7. ASSUME NEW u \in Txns, Committed(u)
      PROVE  /\ rx'[0][u].st = "installed" \/ (fault' /\ rx'[0][u].st = "dropped")
             /\ \A g \in Followers : rx'[g][u].st = "installed" \/ Prepared(rx'[g][u])
             /\ \A g \in Up : /\ Prepared(rx'[g][u]) => fol'[g].track.phase[u] = "validating"
                              /\ ~AbortIn(g, u)'
  <2>1. /\ rx[0][u].st = "installed" \/ (fault /\ rx[0][u].st = "dropped")
        /\ \A g \in Followers : rx[g][u].st = "installed" \/ Prepared(rx[g][u])
        /\ \A g \in Up : (Prepared(rx[g][u]) => fol[g].track.phase[u] = "validating") /\ ~AbortIn(g, u)
    BY <1>7 DEF IInv, CommitsHold
  <2>2. CASE m.op = "keep" \/ u # m.t
    <3>1. rx'[f][u] = rx[f][u]
      BY <1>2, <2>2
    <3>2. Admitted(fol[f].track, m).phase[u] = fol[f].track.phase[u]
      BY <1>1, <2>2, AdmittedIs
    <3>3. \A g \in Followers : rx'[g][u] = rx[g][u] /\ fol'[g].track.phase[u] = fol[g].track.phase[u]
      BY <1>2, <3>1, <3>2
    <3> QED
      BY <1>2, <1>3, <2>1, <3>3
  <2>3. CASE m.op # "keep" /\ u = m.t
    <3>1. /\ RxFits(fol[f].track, rx[f][u], u)
          /\ m.op = "has" => rx[f][u].st = "none"
          /\ m.op # "has" => fol[f].track.phase[u] # "none"
          /\ m.op \notin {"has", "abort"} => fol[f].track.phase[u] = Needs[m.op]
      BY <2>3, ReadsPhase
    <3>2. Prepared(rx[f][u]) /\ fol[f].track.phase[u] = "validating"
      BY <1>1, <2>1, <3>1 DEF RxFits, Prepared
    <3>3. m.op # "has"
      BY <3>1, <3>2 DEF Prepared
    <3>4. m.op # "abort"
      BY <1>1, <2>1, <2>3 DEF AbortIn
    <3>5. m.op = "commit"
      BY <1>5, <2>3, <3>1, <3>2, <3>3, <3>4 DEF Needs
    <3>6. rx'[f][u].st = "installed"
      BY <1>2, <1>5, <2>3, <3>5
    <3>7. ~Prepared(rx'[f][u])
      BY <3>6 DEF Prepared
    <3>8. \A g \in Up : ~AbortIn(g, u)'
      BY <1>3, <2>1
    <3> QED
      BY <1>2, <2>1, <3>6, <3>7, <3>8
  <2> QED
    BY <2>2, <2>3
<1> QED
  BY <1>2, <1>4, <1>6, <1>7 DEF CommitsHold

LEMMA ReadsGone ==
    ASSUME IInv, NEW f, NEW m, NEW x, NEW answer, Reads(f, m, x, answer), Handled(f, m, x, answer), Storing(f, m)
    PROVE  GoneToCome'
<1>1. /\ f \in Up /\ f \in Followers /\ f \in Ranks /\ m \in Msg /\ fol[f].track \in Track /\ m = stream[f][1]
      /\ stream[f] \in Seq(Msg) /\ Len(stream[f]) \in Nat
      /\ Len(stream'[f]) = Len(stream[f]) - 1
      /\ \A n \in 1 .. Len(stream'[f]) : stream'[f][n] = stream[f][n + 1]
      /\ \A g \in Followers : g # f => stream'[g] = stream[g]
  BY ReadsIs, ReadsRest
<1>2. /\ Up' = Up /\ Up \subseteq Followers /\ Followers \subseteq Ranks /\ 0 \in Ranks
      /\ \A g \in Followers : g # f => fol'[g] = fol[g] /\ rx'[g] = rx[g]
      /\ fol'[f].track = Admitted(fol[f].track, m)
      /\ m.op # "keep" => rx'[f][m.t] = x
      /\ \A u \in Txns : m.op = "keep" \/ u # m.t => rx'[f][u] = rx[f][u]
  BY ReadsRest, UpIs, RankIs
<1>3. /\ gone' = gone /\ \A r \in Ranks : stored'[r] \subseteq stored[r]
      /\ m.op = "abort" /\ m.forget => rx[f][m.t].point \notin stored'[f]
  BY DEF Storing
<1>4. ASSUME NEW p \in gone[f] \cap stored'[f]
      PROVE  \E k \in 1 .. Len(stream'[f]) :
                /\ stream'[f][k].op = "abort" /\ stream'[f][k].forget
                /\ fol'[f].track.phase[stream'[f][k].t] # "none" /\ rx'[f][stream'[f][k].t].point = p
  <2>1. p \in gone[f] \cap stored[f]
    BY <1>1, <1>3, <1>4
  <2>2. PICK n \in 1 .. Len(stream[f]) :
          /\ stream[f][n].op = "abort" /\ stream[f][n].forget
          /\ fol[f].track.phase[stream[f][n].t] # "none" /\ rx[f][stream[f][n].t].point = p
    BY <1>1, <2>1 DEF IInv, GoneToCome
  <2>3. n # 1
    BY <1>1, <1>3, <1>4, <2>2
  <2> DEFINE k == n - 1
             u == stream[f][n].t
  <2>4. k \in 1 .. Len(stream'[f]) /\ stream'[f][k] = stream[f][n]
    <3> DEFINE a == Len(stream[f])
               b == Len(stream'[f])
    <3>1. a \in Nat /\ b = a - 1 /\ n \in 1 .. a
      BY <1>1
    <3> HIDE DEF a, b
    <3>2. k \in 1 .. b /\ k + 1 = n
      BY <2>3, <3>1
    <3> QED
      BY <1>1, <3>2 DEF b
  <2>5. u \in Txns
    <3>1. stream[f][n] \in Msg /\ stream[f][n].op = "abort"
      BY <1>1, <2>2, ElementOfSeq
    <3> QED
      BY <3>1, MsgFields
  <2> HIDE DEF k, u
  <2>6. fol[f].track.phase[u] # "none" /\ rx[f][u].point = p /\ stream'[f][k].op = "abort" /\ stream'[f][k].forget
        /\ stream'[f][k].t = u
    BY <2>2, <2>4 DEF u
  <2>7. Admitted(fol[f].track, m).phase[u] # "none" /\ rx'[f][u].point = p
    <3>1. CASE m.op = "keep" \/ u # m.t
      <4>1. Admitted(fol[f].track, m).phase[u] = fol[f].track.phase[u]
        BY <1>1, <2>5, <3>1, AdmittedIs
      <4>2. rx'[f][u] = rx[f][u]
        BY <1>2, <2>5, <3>1
      <4> QED
        BY <2>6, <4>1, <4>2
    <3>2. CASE m.op # "keep" /\ u = m.t
      <4>1. m.op # "has" /\ ~(u > fol[f].track.last)
        BY <2>6, <3>2, ReadsPhase
      <4>2. Moves[m.op] # "none"
        <5> SUFFICES ASSUME Moves[m.op] = "none" PROVE FALSE
          OBVIOUS
        <5>1. Admitted(fol[f].track, m).phase[u] = "none" /\ Admitted(fol[f].track, m).last = fol[f].track.last
          BY <1>1, <2>5, <3>2, <4>1, AdmittedIs
        <5>2. fol[f].track.last \in Nat /\ u \in Nat
          BY <1>1, <2>5, TrackFields DEF Txns
        <5>3. Ended(Admitted(fol[f].track, m), u)
          BY <4>1, <5>1, <5>2 DEF Ended
        <5>4. \A i \in 1 .. Len(stream'[f]) : stream'[f][i].op # "keep" => stream'[f][i].t # u
          BY <2>5, <5>3, ReadsStreams
        <5> QED
          BY <2>4, <2>6, <5>4
      <4>3. m.op \in {"reserve", "start", "progress", "status", "validate"}
        BY <1>1, <3>2, <4>1, <4>2, MsgFields DEF Moves
      <4>4. rx'[f][u].point = rx[f][u].point
        BY <1>2, <3>2, <4>3 DEF Handled
      <4>5. Admitted(fol[f].track, m).phase[u] = Moves[m.op]
        BY <1>1, <2>5, <3>2, AdmittedIs
      <4> QED
        BY <2>6, <4>2, <4>4, <4>5
    <3> QED
      BY <3>1, <3>2
  <2> QED
    BY <1>2, <2>4, <2>6, <2>7
<1>5. gone[0] \cap stored[0] = {}
  BY DEF IInv, GoneToCome
<1>6. gone'[0] \cap stored'[0] = {}
  BY <1>2, <1>3, <1>5
<1>7. ASSUME NEW g \in Up, g # f, NEW p \in gone[g] \cap stored'[g]
      PROVE  \E n \in 1 .. Len(stream'[g]) :
                /\ stream'[g][n].op = "abort" /\ stream'[g][n].forget
                /\ fol'[g].track.phase[stream'[g][n].t] # "none" /\ rx'[g][stream'[g][n].t].point = p
  <2>1. stream'[g] = stream[g] /\ fol'[g] = fol[g] /\ rx'[g] = rx[g]
    BY <1>1, <1>2, <1>7
  <2>2. p \in gone[g] \cap stored[g]
    BY <1>2, <1>3, <1>7
  <2> QED
    BY <2>1, <2>2 DEF IInv, GoneToCome
<1> QED
  BY <1>2, <1>3, <1>4, <1>6, <1>7, SMTT(30) DEF GoneToCome

LEMMA HandledStep ==
    ASSUME IInv, NEW f, NEW m, NEW x, NEW answer, Reads(f, m, x, answer), Handled(f, m, x, answer), Storing(f, m)
    PROVE  IInv'
<1>1. /\ Up' = Up /\ Down' = Down /\ lead' = lead /\ fault' = fault /\ rx'[0] = rx[0]
      /\ fol' \in [Followers -> Follower] /\ rx' \in [Ranks -> [Txns -> Rx]]
      /\ stream' \in [Followers -> Seq(Msg)]
  BY ReadsRest, ReadsIs
<1>2. TypeOK'
  BY <1>1 DEF IInv, TypeOK, Storing
<1>3. OnlyFaultsBreak' /\ BrokenWaitsNot'
  BY <1>1 DEF IInv, OnlyFaultsBreak, BrokenWaitsNot
<1>4. LeaderFits'
  BY <1>1 DEF IInv, LeaderFits, LeaderAt
<1>5. StreamsFit' /\ FollowerFits' /\ AskFits' /\ CompleteIsPrepared' /\ SamePoint'
  BY ReadsStreams, ReadsFollower, ReadsAsks, ReadsPoints
<1>6. AbortsDropped' /\ CommitsHold' /\ GoneToCome'
  BY ReadsCommits, ReadsGone
<1> QED
  BY <1>2, <1>3, <1>4, <1>5, <1>6 DEF IInv

\* A handler that leaves the store alone.
LEMMA StoringNothing ==
    ASSUME TypeOK, UNCHANGED store, NEW f, NEW m, m.op # "abort"
    PROVE  Storing(f, m)
BY DEF Storing, TypeOK, store

\* Command m leaves its restore open, as x, and has no answer.
StillOpen(f, m, x) == x \in Rx /\ x.st = "open" /\ x.point = rx[f][m.t].point /\ Handles(f, m, x, "")

\* One of f's handlers ran: it read n, left the restore y and answered a.
Served(f) == \E n, y, a : Reads(f, n, y, a) /\ Handled(f, n, y, a) /\ Storing(f, n)

\* What rank 0 sent is admitted, and each handler keeps to Handled and Storing.
LEMMA ServeReads ==
    ASSUME IInv, NEW f \in Followers, Serve(f)
    PROVE  Served(f)
<1> DEFINE m == Head(stream[f])
<1>1. /\ fol[f].up /\ stream[f] # << >> /\ stream' = [stream EXCEPT ![f] = Tail(@)]
      /\ UNCHANGED <<lead, fault>>
  BY Zenon DEF Serve
<1>2. f \in Up /\ f \in Ranks /\ TypeOK
  BY <1>1, UpIs, RankIs DEF IInv
<1>3. fol[f].track \in Track /\ stream[f] \in Seq(Msg) /\ rx[f] \in [Txns -> Rx]
  BY <1>2 DEF TypeOK, Follower
<1>4. m \in Msg /\ Admits(fol[f].track, m)
  <2>1. PICK end \in Track : Leads(fol[f].track, stream[f], end)
    BY <1>2 DEF IInv, StreamsFit
  <2> QED
    BY <1>1, <1>3, <2>1, LeadsTail, HeadTailProperties
<1>5. \/ m.op = "has" /\ ServeHas(f, m)
      \/ m.op = "reserve" /\ ServeReserve(f, m)
      \/ m.op = "start" /\ ServeStart(f, m)
      \/ m.op = "progress" /\ ServeProgress(f, m)
      \/ m.op = "status" /\ ServeStatus(f, m)
      \/ m.op = "validate" /\ ServeValidate(f, m)
      \/ m.op = "commit" /\ ServeCommit(f, m)
      \/ m.op = "abort" /\ ServeAbort(f, m)
      \/ m.op = "keep" /\ ServeKeep(f, m)
  BY <1>4, Zenon DEF Serve
<1>6. ASSUME NEW x, NEW answer, Handles(f, m, x, answer), Handled(f, m, x, answer), Storing(f, m)
      PROVE  Served(f)
  <2>1. Reads(f, m, x, answer)
    BY <1>1, <1>2, <1>4, <1>6 DEF Reads
  <2> QED
    BY <1>6, <2>1, Zenon DEF Served
<1>7. m.op # "keep" => m.t \in Txns /\ rx[f][m.t] \in Rx
  BY <1>3, <1>4, MsgFields
<1>8. Blocks \in 0 .. Blocks /\ "" \in Answers /\ Whys \subseteq Answers
      /\ {"present", "incomplete", "missing", "complete", "partial", "timeout"} \subseteq Answers
      /\ Failures \subseteq Whys /\ {"missing", "timeout"} \subseteq Whys
  BY TxnAssumption DEF Answers, Whys
<1> HIDE DEF m
<1>9. CASE m.op = "has" /\ ServeHas(f, m)
  <2> DEFINE a == IF m.point \in stored[f] THEN "present" ELSE IF m.point \in writing[f] THEN "incomplete" ELSE "missing"
  <2>1. Handles(f, m, Asked(m.point), a) /\ UNCHANGED store
    BY <1>9 DEF ServeHas, Stays
  <2>2. a \in {"present", "incomplete", "missing"} /\ IsAsk(m) /\ m.point \in Points
    BY <1>4, <1>9, MsgFields DEF IsAsk
  <2> HIDE DEF a
  <2>3. Asked(m.point) \in Rx /\ Asked(m.point).st = "asked" /\ Asked(m.point).point = m.point
    BY <2>2, NewRx
  <2>4. Handled(f, m, Asked(m.point), a)
    BY <1>8, <1>9, <2>2, <2>3 DEF Handled
  <2>5. Storing(f, m)
    BY <1>2, <1>9, <2>1, StoringNothing
  <2> QED
    BY <1>6, <2>1, <2>4, <2>5
\* Work on a restore that is open stays one, with no answer.
<1>10. ASSUME NEW x, m.op \in {"reserve", "start", "progress"}, StillOpen(f, m, x), UNCHANGED store
       PROVE  Served(f)
  <2>1. Handled(f, m, x, "")
    BY <1>8, <1>10 DEF Handled, IsAsk, StillOpen
  <2>2. Storing(f, m)
    BY <1>2, <1>10, StoringNothing
  <2> QED
    BY <1>6, <1>10, <2>1, <2>2 DEF StillOpen
<1>11. ASSUME m.op \in {"start", "progress", "status", "validate"}
       PROVE  rx[f][m.t].st = "open"
  <2>1. /\ RxFits(fol[f].track, rx[f][m.t], m.t) /\ Admits(fol[f].track, m) /\ f \in Up
        /\ fol[f].track.phase[m.t] = Needs[m.op]
    <3>1. RxFits(fol[f].track, rx[f][m.t], m.t)
      BY <1>2, <1>7, <1>11 DEF IInv, FollowerFits
    <3> QED
      BY <1>2, <1>4, <1>11, <3>1 DEF Admits
  <2>2. Needs[m.op] # "none" /\ Needs[m.op] # "has"
    BY <1>11 DEF Needs
  <2> QED
    BY <1>7, <1>11, <2>1, <2>2, RxFields DEF RxFits
<1>12. CASE m.op = "reserve" /\ ServeReserve(f, m)
  <2> DEFINE y == [rx[f][m.t] EXCEPT !.st = "open"]
  <2>1. PICK x \in Checked(y) : Handles(f, m, x, "")
    BY <1>12 DEF ServeReserve
  <2>2. y \in Rx /\ y.st = "open" /\ y.point = rx[f][m.t].point
    BY <1>7, <1>12 DEF Rx
  <2> HIDE DEF y
  <2>3. StillOpen(f, m, x)
    BY <2>1, <2>2, CheckedIs DEF SameRestore, StillOpen
  <2>4. UNCHANGED store
    BY <1>12 DEF ServeReserve, Stays
  <2>8. m.op \in {"reserve", "start", "progress"}
    BY <1>12
  <2> QED
    BY <1>10, <2>3, <2>4, <2>8
<1>13. CASE m.op = "start" /\ ServeStart(f, m)
  <2> DEFINE y == rx[f][m.t]
  <2>1. UNCHANGED store
    BY <1>13 DEF ServeStart, Stays
  <2>2. y \in Rx /\ y.st = "open"
    BY <1>7, <1>11, <1>13
  <2>3. \/ Handles(f, m, y, "") \/ Handles(f, m, [y EXCEPT !.started = TRUE], "")
        \/ Handles(f, m, Failed(y, "missing"), "") \/ ("read" \in Failures /\ Handles(f, m, Failed(y, "read"), ""))
    BY <1>13, Zenon DEF ServeStart
  <2> HIDE DEF y
  <2>4. \A x \in {y, [y EXCEPT !.started = TRUE]} : x \in Rx /\ x.st = "open" /\ x.point = y.point
    BY <2>2 DEF Rx
  <2>5. \A why \in Whys : Failed(y, why) \in Rx /\ Failed(y, why).st = "open" /\ Failed(y, why).point = y.point
    BY <2>2, FailedIs DEF SameRestore
  <2>6. "missing" \in Whys /\ ("read" \in Failures => "read" \in Whys)
    BY <1>8
  <2>7. \E x : StillOpen(f, m, x)
    <3>1. \E x : Handles(f, m, x, "") /\ x \in Rx /\ x.st = "open" /\ x.point = y.point
      BY <2>3, <2>4, <2>5, <2>6
    <3> QED
      BY <3>1 DEF StillOpen, y
  <2>8. m.op \in {"reserve", "start", "progress"}
    BY <1>13
  <2> QED
    BY <1>10, <2>1, <2>7, <2>8
<1>14. CASE m.op = "progress" /\ ServeProgress(f, m)
  <2> DEFINE y == [rx[f][m.t] EXCEPT !.allowed = m.upto]
  <2>1. PICK x \in Worked(y, m.upto) : Handles(f, m, x, "")
    BY <1>14 DEF ServeProgress
  <2>2. m.upto \in 0 .. Blocks
    BY <1>4, <1>14, MsgFields
  <2>3. y \in Rx /\ y.st = "open" /\ y.point = rx[f][m.t].point
    <3>1. rx[f][m.t] \in Rx /\ rx[f][m.t].st = "open"
      BY <1>7, <1>11, <1>14
    <3> QED
      BY <2>2, <3>1 DEF Rx
  <2> HIDE DEF y
  <2>4. StillOpen(f, m, x)
    BY <2>1, <2>2, <2>3, WorkedIs DEF SameRestore, StillOpen
  <2>5. UNCHANGED store
    BY <1>14 DEF ServeProgress, Stays
  <2>8. m.op \in {"reserve", "start", "progress"}
    BY <1>14
  <2> QED
    BY <1>10, <2>4, <2>5, <2>8
\* A verdict is an answer, and says "complete" of what is prepared only.
<1>15. ASSUME NEW y, NEW unfinished \in {"partial", "timeout"}, m.op \in {"status", "validate"},
              y \in Rx, y.st = "open", y.point = rx[f][m.t].point,
              Handles(f, m, y, Verdict(y, unfinished)), UNCHANGED store
       PROVE  Served(f)
  <2>1. y.why \in Whys \cup {"none"} /\ "complete" \notin Whys /\ "" \notin Whys
    BY <1>15, RxFields DEF Whys
  <2>2. /\ Verdict(y, unfinished) \in Answers /\ Verdict(y, unfinished) # ""
        /\ Verdict(y, unfinished) = "complete" => Prepared(y)
    BY <1>8, <1>15, <2>1 DEF Verdict, Prepared
  <2>3. IsAsk(m)
    BY <1>15 DEF IsAsk
  <2>4. Handled(f, m, y, Verdict(y, unfinished))
    BY <1>15, <2>2, <2>3 DEF Handled
  <2>5. Storing(f, m)
    BY <1>2, <1>15, StoringNothing
  <2> QED
    BY <1>6, <1>15, <2>4, <2>5
<1>16. CASE m.op = "status" /\ ServeStatus(f, m)
  <2>0. PICK x \in Worked(rx[f][m.t], rx[f][m.t].allowed) :
          \E y \in Checked(x) : Handles(f, m, y, Verdict(y, "partial"))
    BY <1>16 DEF ServeStatus
  <2>1. PICK y \in Checked(x) : Handles(f, m, y, Verdict(y, "partial"))
    BY <2>0
  <2>2. rx[f][m.t] \in Rx /\ rx[f][m.t].st = "open" /\ rx[f][m.t].allowed \in 0 .. Blocks
    BY <1>7, <1>11, <1>16, RxFields
  <2>3. x \in Rx /\ x.st = "open" /\ x.point = rx[f][m.t].point
    BY <2>2, WorkedIs DEF SameRestore
  <2>4. y \in Rx /\ y.st = "open" /\ y.point = rx[f][m.t].point
    BY <2>3, CheckedIs DEF SameRestore
  <2>5. UNCHANGED store
    BY <1>16 DEF ServeStatus, Stays
  <2> QED
    BY <1>15, <1>16, <2>1, <2>4, <2>5
<1>17. CASE m.op = "validate" /\ ServeValidate(f, m)
  <2> DEFINE w == [rx[f][m.t] EXCEPT !.allowed = Blocks]
             z(x) == IF x.whole \/ x.why # "none" THEN x ELSE Failed(x, "timeout")
  <2>0. PICK x \in Worked(w, Blocks) : \E y \in Checked(z(x)) : Handles(f, m, y, Verdict(y, "timeout"))
    BY <1>17 DEF ServeValidate
  <2>1. PICK y \in Checked(z(x)) : Handles(f, m, y, Verdict(y, "timeout"))
    BY <2>0
  <2>2. w \in Rx /\ w.st = "open" /\ w.point = rx[f][m.t].point
    <3>1. rx[f][m.t] \in Rx /\ rx[f][m.t].st = "open"
      BY <1>7, <1>11, <1>17
    <3> QED
      BY <1>8, <3>1 DEF Rx
  <2> HIDE DEF w
  <2>3. x \in Rx /\ x.st = "open" /\ x.point = rx[f][m.t].point
    BY <1>8, <2>2, WorkedIs DEF SameRestore
  <2>4. z(x) \in Rx /\ z(x).st = "open" /\ z(x).point = rx[f][m.t].point
    BY <1>8, <2>3, FailedIs DEF SameRestore
  <2> HIDE DEF z
  <2>5. y \in Rx /\ y.st = "open" /\ y.point = rx[f][m.t].point
    BY <2>4, CheckedIs DEF SameRestore
  <2>6. UNCHANGED store
    BY <1>17 DEF ServeValidate, Stays
  <2> QED
    BY <1>15, <1>17, <2>1, <2>5, <2>6
<1>18. CASE m.op = "commit" /\ ServeCommit(f, m)
  <2>1. m.t \in Txns /\ Committed(m.t)
    <3>1. m = stream[f][1] /\ 1 \in 1 .. Len(stream[f])
      <4>1. Len(stream[f]) \in Nat /\ Len(stream[f]) # 0
        BY <1>1, <1>3, LenProperties, EmptySeq
      <4>2. m = stream[f][1]
        BY <1>1, <1>3, HeadTailProperties DEF m
      <4> QED
        BY <4>1, <4>2
    <3>2. CommitIn(f, m.t)
      BY <1>18, <3>1 DEF CommitIn
    <3> QED
      BY <1>2, <1>7, <1>18, <3>2 DEF Committed
  <2>2. RxFits(fol[f].track, rx[f][m.t], m.t) /\ fol[f].track.phase[m.t] = "validating"
    BY <1>2, <1>4, <1>18, <2>1 DEF IInv, FollowerFits, Admits, Needs
  <2>3. Prepared(rx[f][m.t])
    <3>1. rx[f][m.t].st = "installed" \/ Prepared(rx[f][m.t])
      BY <2>1 DEF IInv, CommitsHold
    <3> QED
      BY <2>2, <3>1 DEF RxFits
  <2>4. Handles(f, m, Over("installed"), "") /\ UNCHANGED store
    BY <1>18, <2>3 DEF ServeCommit, Stays
  <2>5. Handled(f, m, Over("installed"), "")
    BY <1>8, <1>18, NewRx DEF Handled, IsAsk
  <2>6. Storing(f, m)
    BY <1>2, <1>18, <2>4, StoringNothing
  <2> QED
    BY <1>6, <2>4, <2>5, <2>6
<1>19. CASE m.op = "abort" /\ ServeAbort(f, m)
  <2> DEFINE p == rx[f][m.t].point
  <2>1. /\ Handles(f, m, Over("dropped"), "")
        /\ stored' = IF m.forget THEN [stored EXCEPT ![f] = @ \ {p}] ELSE stored
        /\ writing' = writing /\ gone' = gone
    BY <1>19 DEF ServeAbort
  <2>2. Handled(f, m, Over("dropped"), "")
    BY <1>8, <1>19, NewRx DEF Handled, IsAsk
  <2>3. Storing(f, m)
    <3>1. /\ stored \in [Ranks -> SUBSET Points] /\ writing \in [Ranks -> SUBSET Points]
          /\ \A r \in Ranks : stored[r] \cap writing[r] = {}
      BY <1>2 DEF TypeOK
    <3> HIDE DEF p
    <3>2. /\ stored' \in [Ranks -> SUBSET Points]
          /\ \A r \in Ranks : stored'[r] \subseteq stored[r] /\ stored'[r] \cap writing[r] = {}
          /\ m.forget => p \notin stored'[f]
      BY <1>2, <2>1, <3>1
    <3> QED
      BY <2>1, <3>1, <3>2 DEF Storing, p
  <2> QED
    BY <1>6, <2>1, <2>2, <2>3
<1>20. CASE m.op = "keep" /\ ServeKeep(f, m)
  <2>1. Handles(f, m, NoRx, "")
    BY <1>20 DEF ServeKeep
  <2>2. Handled(f, m, NoRx, "")
    BY <1>8, <1>20, NewRx DEF Handled, IsAsk
  <2>3. Storing(f, m)
    <3>1. CASE UNCHANGED store
      BY <1>2, <1>20, <3>1, StoringNothing
    <3>2. CASE /\ ~Keeping(f, m.point) /\ writing' = [writing EXCEPT ![f] = @ \cup {m.point}]
               /\ UNCHANGED <<stored, gone>>
      <4>1. /\ stored \in [Ranks -> SUBSET Points] /\ writing \in [Ranks -> SUBSET Points]
            /\ \A r \in Ranks : stored[r] \cap writing[r] = {}
            /\ m.point \in Points
        BY <1>2, <1>4, <1>20, MsgFields DEF TypeOK
      <4> QED
        BY <1>2, <1>20, <3>2, <4>1 DEF Storing, Keeping
    <3> QED
      BY <1>20, <3>1, <3>2 DEF ServeKeep, Stays
  <2> QED
    BY <1>6, <2>1, <2>2, <2>3
<1> QED
  BY <1>5, <1>9, <1>12, <1>13, <1>14, <1>16, <1>17, <1>18, <1>19, <1>20

LEMMA ServeStep ==
    ASSUME IInv, NEW f \in Followers, Serve(f)
    PROVE  IInv'
<1>1. PICK m, x, answer : Reads(f, m, x, answer) /\ Handled(f, m, x, answer) /\ Storing(f, m)
  BY ServeReads DEF Served
<1> QED
  BY <1>1, HandledStep

-----------------------------------------------------------------------------
(* The invariant *)

LEMMA InitInvariant == Init => IInv
<1> SUFFICES ASSUME Init PROVE IInv
  OBVIOUS
<1>1. /\ NoTrack \in Track /\ \A t \in Txns : NoTrack.phase[t] = "none" /\ NoTrack.last = 0
      /\ NoRx \in Rx /\ NoRx.st = "none"
  BY NewRx, TxnAssumption DEF NoTrack, Track, Phases
<1>2. /\ lead.track = NoTrack /\ lead.wait = NoWait /\ lead.broken = FALSE
      /\ \A r \in Ranks, t \in Txns : rx[r][t] = NoRx
      /\ \A f \in Followers : /\ stream[f] = <<>> /\ Len(stream[f]) = 0
                              /\ fol[f].up = TRUE /\ fol[f].track = NoTrack /\ fol[f].reply = ""
      /\ fault = FALSE /\ \A r \in Ranks : gone[r] = {}
  BY DEF Init
<1>3. TypeOK
  <2>1. "" \in Answers /\ <<>> \in Seq(Msg)
    BY EmptySeq DEF Answers
  <2> QED
    BY <1>1, <2>1 DEF Init, TypeOK, Follower
<1>4. Up = Followers /\ Down = {}
  BY <1>2 DEF Up, Down
<1>5. OnlyFaultsBreak /\ BrokenWaitsNot
  BY <1>2, <1>4 DEF OnlyFaultsBreak, BrokenWaitsNot
<1>11. /\ \A t \in Txns : rx[0][t].st = "none" /\ \A f \in Followers : rx[f][t].st = "none"
       /\ \A op, t : lead.wait # Command(op, t)
       /\ lead.track = NoTrack /\ lead.wait = NoWait /\ ~lead.broken
  <2>1. \A op, t : lead.wait # Command(op, t)
    <3>1. lead.wait = NoWait
      BY <1>2
    <3> QED
      BY <3>1, Commands
  <2>2. \A t \in Txns : rx[0][t] = NoRx /\ \A f \in Followers : rx[f][t] = NoRx
    BY <1>2, RankIs
  <2> QED
    BY <1>1, <1>2, <2>1, <2>2
<1>12. \A f \in Followers : \A n \in 1 .. Len(stream[f]) : FALSE
  <2> SUFFICES ASSUME NEW f \in Followers PROVE \A n \in 1 .. Len(stream[f]) : FALSE
    OBVIOUS
  <2>1. stream[f] = << >>
    BY <1>2
  <2> QED
    BY <2>1
<1>6. StreamsFit
  <2>1. Leads(NoTrack, << >>, NoTrack)
    BY <1>1, LeadsNowhere
  <2> SUFFICES ASSUME NEW f \in Followers
               PROVE  \E end \in Track : Leads(fol[f].track, stream[f], end) /\ (~lead.broken => end = lead.track)
    BY <1>4 DEF StreamsFit
  <2> QED
    BY <1>1, <1>2, <2>1
<1>7. FollowerFits /\ LeaderFits
  <2>1. \A t \in Txns : NoTrack.phase[t] = "none" /\ RxFits(NoTrack, rx[0][t], t)
                        /\ \A f \in Followers : RxFits(NoTrack, rx[f][t], t)
    BY <1>1, <1>11 DEF RxFits
  <2>2. ASSUME NEW t \in Txns
        PROVE  LeaderAt(t)
    BY <1>11, <2>1 DEF LeaderAt
  <2> QED
    BY <1>2, <1>4, <2>1, <2>2 DEF FollowerFits, LeaderFits
<1>8. AskFits /\ CompleteIsPrepared
  BY <1>2, <1>4, <1>11, <1>12 DEF AskFits, CompleteIsPrepared
<1>9. SamePoint /\ AbortsDropped /\ CommitsHold
  <2>1. \A f \in Followers, t \in Txns : ~AbortIn(f, t) /\ ~CommitIn(f, t)
    BY <1>12 DEF AbortIn, CommitIn
  <2>2. \A t \in Txns : ~Committed(t)
    BY <1>4, <1>11, <2>1 DEF Committed
  <2> QED
    BY <1>4, <1>11, <2>1, <2>2 DEF SamePoint, AbortsDropped, CommitsHold
<1>10. GoneToCome
  BY <1>2, <1>4, RankIs DEF GoneToCome
<1> QED
  BY <1>3, <1>5, <1>6, <1>7, <1>8, <1>9, <1>10 DEF IInv

LEMMA StutterInvariant == IInv /\ UNCHANGED tvars => IInv'
<1> SUFFICES ASSUME IInv, UNCHANGED tvars PROVE IInv'
  OBVIOUS
<1>1. UNCHANGED <<lead, rx, stored, writing, gone, stream, fol, fault>>
  BY DEF tvars, store
<1>2. TypeOK'
  BY <1>1 DEF IInv, TypeOK
<1> QED
  BY <1>1, <1>2, StoreStep

LEMMA NextInvariant == IInv /\ [Next]_tvars => IInv'
<1> SUFFICES ASSUME IInv, [Next]_tvars PROVE IInv'
  OBVIOUS
<1>1. ASSUME NEW p \in Points, Keep(p) \/ \E t \in Txns : Begin(t, p) PROVE IInv'
  BY <1>1, KeepStep, BeginStep
<1>2. ASSUME NEW t \in Txns, Poll(t) \/ Cancel(t) \/ DropBroken(t) PROVE IInv'
  BY <1>2, PollStep, CancelStep, DropBrokenStep
<1>3. ASSUME NEW t \in Txns, HasAnswered(t) \/ StatusAnswered(t) \/ GiveUp(t) \/ ValidateAnswered(t) PROVE IInv'
  BY <1>3, HasAnsweredStep, StatusAnsweredStep, GiveUpStep, ValidateAnsweredStep
<1>4. CASE AskFails
  BY <1>4, AskFailsStep
<1>5. ASSUME NEW r \in Ranks, NEW p \in Points, Published(r, p) \/ WriteLost(r, p) \/ Evict(r, p) PROVE IInv'
  BY <1>5, PublishedStep, WriteLostStep, EvictStep
<1>6. ASSUME NEW f \in Followers, Serve(f) \/ Dies(f) \/ \E t \in Txns : Service(f, t) PROVE IInv'
  BY <1>6, ServeStep, DiesStep, ServiceStep
<1>7. CASE UNCHANGED tvars
  BY <1>7, StutterInvariant
<1> QED
  BY <1>1, <1>2, <1>3, <1>4, <1>5, <1>6, <1>7 DEF Next, Engine

\* What both ends of the wire, the streams between them and the restores on
\* every rank keep of each other (spill_tier.zig, Leader and Follower;
\* rank_wire.zig, Tracker).
THEOREM RestoreInvariant == Spec => []IInv
<1> QED
  BY InitInvariant, NextInvariant, PTL DEF Spec

\* The state of Leader, Follower and the trackers stays within its types.
THEOREM RestoreTypes == Spec => []TypeOK
<1>1. IInv => TypeOK
  BY DEF IInv
<1> QED
  BY <1>1, RestoreInvariant, PTL

\* Between rank 0's steps its tracker has exactly its jobs open, and so has a
\* follower that has read its stream.
LEMMA InvariantInStep == IInv => InStep
<1> SUFFICES ASSUME IInv, Idle PROVE
       /\ Open(lead.track) = Jobs
       /\ \A t \in Jobs : lead.track.phase[t] = "started"
       /\ \A f \in Up : stream[f] = <<>> => OpenOn(f) = Jobs /\ fol[f].track = lead.track
  BY DEF InStep
<1>1. ~lead.broken /\ lead.wait = NoWait
  BY DEF Idle
<1>2. \A t \in Txns : LeaderAt(t) /\ rx[0][t] \in Rx
  BY <1>1, RankIs DEF IInv, LeaderFits, TypeOK
<1>3. \A t \in Txns : rx[0][t].st # "asked"
  <2> SUFFICES ASSUME NEW t \in Txns PROVE rx[0][t].st # "asked"
    OBVIOUS
  <2>1. lead.wait # Command("has", t)
    BY <1>1, Commands
  <2> QED
    BY <1>2, <2>1 DEF LeaderAt, RxFits
<1>4. \A t \in Txns : lead.track.phase[t] # "none" <=> rx[0][t].st = "open"
  BY <1>2, <1>3, RxFields DEF LeaderAt, RxFits
<1>5. Open(lead.track) = Jobs
  BY <1>4 DEF Open, Jobs
<1>6. \A t \in Jobs : lead.track.phase[t] = "started"
  BY <1>1, ReadyOpen DEF Jobs
<1>7. ASSUME NEW f \in Up, stream[f] = <<>>
      PROVE  OpenOn(f) = Jobs /\ fol[f].track = lead.track
  <2>1. f \in Followers /\ f \in Ranks
    BY UpIs, RankIs
  <2>2. fol[f].track \in Track /\ rx[f] \in [Txns -> Rx]
    BY <2>1 DEF IInv, TypeOK, Follower
  <2>3. fol[f].track = lead.track
    BY <1>1, <1>7, <2>2, LeadsNowhere DEF IInv, StreamsFit
  <2>4. \A t \in Txns : rx[f][t].st \in {"asked", "open"} <=> rx[0][t].st = "open"
    <3> SUFFICES ASSUME NEW t \in Txns PROVE rx[f][t].st \in {"asked", "open"} <=> rx[0][t].st = "open"
      OBVIOUS
    <3>1. RxFits(lead.track, rx[f][t], t) /\ rx[f][t] \in Rx
      BY <2>2, <2>3 DEF IInv, FollowerFits
    <3> QED
      BY <1>4, <3>1, RxFields DEF RxFits
  <2> QED
    BY <2>3, <2>4 DEF OpenOn, Jobs
<1> QED
  BY <1>5, <1>6, <1>7

LEMMA InvariantForgets == IInv => ForgetReachesAll
<1> SUFFICES ASSUME IInv, NEW r \in Ranks, r = 0 \/ (r \in Up /\ stream[r] = <<>>)
             PROVE  gone[r] \cap stored[r] = {}
  BY DEF ForgetReachesAll
<1>1. CASE r = 0
  BY <1>1 DEF IInv, GoneToCome
<1>2. CASE r \in Up /\ stream[r] = <<>>
  BY <1>2 DEF IInv, GoneToCome
<1> QED
  BY <1>1, <1>2

\* Without a death or a late answer no rank refuses what another sends, all
\* ranks have the same restores open between commands, and what one rank has to
\* forget all forget (rank_wire.serve, rule 3; Leader.endJob; Follower.abort).
THEOREM PairStaysInStep == Spec => []PairInStep
<1>1. IInv => PairInStep
  BY InvariantInStep, InvariantForgets DEF PairInStep, IInv
<1> QED
  BY <1>1, RestoreInvariant, PTL

-----------------------------------------------------------------------------
(* One outcome on every rank *)

Outs == [r \in Ranks |-> [t \in Txns |-> Outcome(rx[r][t])]]

\* A step of RestoreAgreement, or none.
Agrees == [Agreement!Next]_(Agreement!avars)

\* Nobody has installed t.
NowhereInstalled(t) == \A q \in Ranks : rx[q][t].st # "installed"

LEMMA OutcomeIs ==
    ASSUME NEW x
    PROVE  /\ Outcome(x) \in {"installed", "dropped", "prepared", "working"}
           /\ Outcome(x) = "installed" <=> x.st = "installed"
           /\ Outcome(x) = "dropped" <=> x.st = "dropped"
           /\ Outcome(x) = "prepared" <=> Prepared(x)
<1>1. Prepared(x) => x.st = "open"
  BY DEF Prepared
<1> QED
  BY <1>1 DEF Outcome

LEMMA SameOutcomes ==
    ASSUME \A r \in Ranks, t \in Txns : Outcome(rx'[r][t]) = Outcome(rx[r][t]),
           fault' = fault \/ fault' = TRUE
    PROVE  Agrees
<1>1. Outs' = Outs
  BY DEF Outs
<1>2. CASE fault' = fault
  BY <1>1, <1>2 DEF Agrees, Outs, Agreement!avars
<1>3. CASE fault' = TRUE
  <2>1. Agreement!Fault
    BY <1>1, <1>3 DEF Outs, Agreement!Fault
  <2> QED
    BY <2>1 DEF Agrees, Agreement!Next
<1> QED
  BY <1>2, <1>3

\* Restore t of rank r changes, and no other.
Alone(r, t) == \A q \in Ranks, u \in Txns : q # r \/ u # t => rx'[q][u] = rx[q][u]

LEMMA AloneIs ==
    ASSUME NEW r \in Ranks, NEW t \in Txns, Alone(r, t)
    PROVE  Outs' = [Outs EXCEPT ![r][t] = Outcome(rx'[r][t])]
<1>1. \A q \in Ranks, u \in Txns : Outcome(rx'[q][u]) = IF q = r /\ u = t THEN Outcome(rx'[r][t]) ELSE Outcome(rx[q][u])
  BY DEF Alone
<1> QED
  BY <1>1 DEF Outs

LEMMA AgreesDropping ==
    ASSUME NEW r \in Ranks, NEW t \in Txns, Alone(r, t), fault \in BOOLEAN,
           rx[r][t].st \notin {"installed", "dropped"}, rx'[r][t].st = "dropped",
           fault' = TRUE \/ (fault' = fault /\ NowhereInstalled(t))
    PROVE  Agrees
<1>1. Outs' = [Outs EXCEPT ![r][t] = "dropped"]
  BY AloneIs, OutcomeIs
<1>2. Outs[r][t] \in {"working", "prepared"}
  BY OutcomeIs DEF Outs
<1>3. fault' \/ \A q \in Ranks : Outs[q][t] # "installed"
  BY OutcomeIs DEF Outs, NowhereInstalled
<1>4. fault' \in BOOLEAN /\ (fault => fault')
  OBVIOUS
<1>5. Agreement!Drop(r, t)
  BY <1>1, <1>2, <1>3, <1>4 DEF Outs, Agreement!Drop, Agreement!Is
<1> QED
  BY <1>5 DEF Agrees, Agreement!Next

LEMMA AgreesWorking ==
    ASSUME NEW r \in Ranks, NEW t \in Txns, Alone(r, t), fault' = fault,
           rx[r][t].st \notin {"installed", "dropped"}, rx'[r][t].st \notin {"installed", "dropped"},
           NowhereInstalled(t) \/ (Prepared(rx[r][t]) => Prepared(rx'[r][t]))
    PROVE  Agrees
<1>1. Outs' = [Outs EXCEPT ![r][t] = Outcome(rx'[r][t])]
  BY AloneIs
<1>2. Outs[r][t] = Outcome(rx[r][t])
  BY DEF Outs
<1>3. CASE Outcome(rx'[r][t]) = Outcome(rx[r][t])
  <2>1. \A q \in Ranks, u \in Txns : Outcome(rx'[q][u]) = Outcome(rx[q][u])
    BY <1>3 DEF Alone
  <2> QED
    BY <2>1, SameOutcomes
<1>4. CASE Outcome(rx[r][t]) = "working" /\ Outcome(rx'[r][t]) = "prepared"
  <2>1. Agreement!Prepare(r, t)
    BY <1>1, <1>2, <1>4 DEF Outs, Agreement!Prepare, Agreement!Is, Agreement!Becomes
  <2> QED
    BY <2>1 DEF Agrees, Agreement!Next
<1>5. CASE Outcome(rx[r][t]) = "prepared" /\ Outcome(rx'[r][t]) = "working"
  <2>1. NowhereInstalled(t)
    BY <1>5, OutcomeIs
  <2>2. \A q \in Ranks : Outs[q][t] # "installed"
    BY <2>1, OutcomeIs DEF Outs, NowhereInstalled
  <2>3. Agreement!Unprepare(r, t)
    BY <1>1, <1>2, <1>5, <2>2 DEF Outs, Agreement!Unprepare, Agreement!Is, Agreement!Becomes
  <2> QED
    BY <2>3 DEF Agrees, Agreement!Next
<1> QED
  BY <1>3, <1>4, <1>5, OutcomeIs

LEMMA AgreesInstalling ==
    ASSUME NEW r \in Ranks, NEW t \in Txns, Alone(r, t), fault' = fault,
           Prepared(rx[r][t]), rx'[r][t].st = "installed",
           \A q \in Ranks : rx[q][t].st = "installed" \/ Prepared(rx[q][t]) \/ (fault /\ rx[q][t].st = "dropped")
    PROVE  Agrees
<1>1. Outs' = [Outs EXCEPT ![r][t] = "installed"]
  BY AloneIs, OutcomeIs
<1>2. Outs[r][t] = "prepared"
  BY OutcomeIs DEF Outs
<1>3. \A q \in Ranks : Outs[q][t] \in {"prepared", "installed"} \/ (fault /\ Outs[q][t] = "dropped")
  BY OutcomeIs DEF Outs
<1>4. Agreement!Install(r, t)
  BY <1>1, <1>2, <1>3 DEF Outs, Agreement!Install, Agreement!Is, Agreement!Becomes
<1> QED
  BY <1>4 DEF Agrees, Agreement!Next

LEMMA TakesAlone ==
    ASSUME TypeOK, NEW t \in Txns, NEW y, Takes(t, y)
    PROVE  Alone(0, t) /\ rx'[0][t] = y
<1>1. /\ \A f \in Followers : rx'[f] = rx[f]
      /\ rx'[0][t] = y /\ \A u \in Txns : u # t => rx'[0][u] = rx[0][u]
  BY TakesIs
<1>2. \A q \in Ranks : q = 0 \/ q \in Followers
  BY DEF Ranks
<1> QED
  BY <1>1, <1>2 DEF Alone

\* Rank 0 goes on with a restore, or drops it.
LEMMA JobAgrees ==
    ASSUME IInv, NEW t \in Txns, Ready({t}), rx[0][t].st \in {"asked", "open"},
           NEW y, Takes(t, y), y.st \in {"open", "dropped"}
    PROVE  Agrees
<1>1. ~Committed(t) /\ fault' = fault /\ fault \in BOOLEAN /\ TypeOK
  BY ReadyHeard DEF Ready, IInv, TypeOK
<1>2. NowhereInstalled(t)
  BY <1>1 DEF Committed, NowhereInstalled, Ranks
<1>3. Alone(0, t) /\ rx'[0][t] = y /\ 0 \in Ranks
  BY <1>1, TakesAlone, RankIs
<1>4. CASE y.st = "dropped"
  <2>1. rx[0][t].st \notin {"installed", "dropped"} /\ rx'[0][t].st = "dropped"
    BY <1>3, <1>4
  <2> QED
    BY <1>1, <1>2, <1>3, <2>1, AgreesDropping
<1>5. CASE y.st = "open"
  <2>1. rx[0][t].st \notin {"installed", "dropped"} /\ rx'[0][t].st \notin {"installed", "dropped"}
    BY <1>3, <1>5
  <2> QED
    BY <1>1, <1>2, <1>3, <2>1, AgreesWorking
<1> QED
  BY <1>4, <1>5

LEMMA EndJobAgrees ==
    ASSUME IInv, NEW t \in Txns, Ready({t}), rx[0][t].st \in {"asked", "open"},
           NEW ms, NEW forget, EndJob(t, ms, forget)
    PROVE  Agrees
<1>1. Over("dropped") \in Rx /\ Over("dropped").st = "dropped"
  BY NewRx
<1>2. Takes(t, Over("dropped"))
  BY <1>1 DEF EndJob, Takes
<1> QED
  BY <1>1, <1>2, JobAgrees

LEMMA GoOnAgrees ==
    ASSUME IInv, NEW t \in Txns, Ready({t}), rx[0][t].st \in {"asked", "open"},
           NEW ms, NEW wait, NEW y \in Rx, y.st = "open", GoOn(t, ms, wait, y)
    PROVE  Agrees
<1>1. Over("dropped") \in Rx /\ Over("dropped").st = "dropped"
  BY NewRx
<1>2. Takes(t, Over("dropped")) \/ Takes(t, y)
  BY <1>1 DEF GoOn, Takes
<1> QED
  BY <1>1, <1>2, JobAgrees

LEMMA BeginAgrees ==
    ASSUME IInv, NEW t \in Txns, NEW p \in Points, Begin(t, p)
    PROVE  Agrees
<1> DEFINE y == [Asked(p) EXCEPT !.started = TRUE]
<1>1. /\ Idle /\ t = lead.track.last + 1 /\ fault' = fault /\ TypeOK /\ lead.track \in Track
      /\ rx' = rx \/ rx' = [rx EXCEPT ![0][t] = y]
  BY DEF Begin, IInv, TypeOK
<1>2. rx[0][t].st = "none"
  <2>1. LeaderAt(t)
    BY <1>1 DEF IInv, LeaderFits, Idle
  <2>2. t > lead.track.last
    BY <1>1, TrackFields
  <2> QED
    BY <2>1, <2>2 DEF LeaderAt, RxFits
<1>3. y \in Rx /\ y.st = "asked"
  <2>1. Asked(p) \in Rx /\ Asked(p).st = "asked"
    BY NewRx
  <2> QED
    BY <2>1 DEF Rx
<1> HIDE DEF y
<1>4. CASE rx' = rx
  BY <1>1, <1>4, SameOutcomes
<1>5. CASE rx' = [rx EXCEPT ![0][t] = y]
  <2>1. Alone(0, t) /\ rx'[0][t] = y /\ 0 \in Ranks
    BY <1>1, <1>3, <1>5, TakesAlone, RankIs DEF Takes
  <2>2. /\ rx[0][t].st \notin {"installed", "dropped"} /\ rx'[0][t].st \notin {"installed", "dropped"}
        /\ ~Prepared(rx[0][t])
    BY <1>2, <1>3, <2>1 DEF Prepared
  <2> QED
    BY <1>1, <2>1, <2>2, AgreesWorking
<1> QED
  BY <1>1, <1>4, <1>5

LEMMA PollAgrees ==
    ASSUME IInv, NEW t \in Txns, Poll(t)
    PROVE  Agrees
<1>1. Idle /\ rx[0][t].st = "open" /\ UNCHANGED <<fol, fault>>
  BY Zenon DEF Poll
<1>2. Ready({t}) /\ ~lead.broken
  BY <1>1, IdleReady DEF Idle
<1>3. rx[0][t] \in Rx
  BY <1>2, ReadyOpen
<1>4. PICK x \in Worked(rx[0][t], Blocks) :
        \/ \E ms, forget : EndJob(t, ms, forget)
        \/ \E ms, wait : GoOn(t, ms, wait, x)
  BY Zenon DEF Poll
<1>5. x \in Rx /\ x.st = "open"
  <2>1. Blocks \in 0 .. Blocks
    BY TxnAssumption
  <2> QED
    BY <1>1, <1>3, <2>1, WorkedIs DEF SameRestore
<1> QED
  BY <1>1, <1>2, <1>4, <1>5, EndJobAgrees, GoOnAgrees

LEMMA AnswersAgree ==
    ASSUME IInv, NEW t \in Txns, HasAnswered(t) \/ StatusAnswered(t) \/ GiveUp(t)
    PROVE  Agrees
<1> DEFINE y == [rx[0][t] EXCEPT !.st = "open"]
<1>1. Collected("has", t) \/ Collected("status", t)
  BY Zenon DEF HasAnswered, StatusAnswered, GiveUp
<1>2. Ready({t}) /\ (lead.wait = Command("has", t) \/ lead.wait = Command("status", t)) /\ ~lead.broken
  BY <1>1, CollectedReady
<1>3. rx[0][t].st \in {"asked", "open"} /\ rx[0][t] \in Rx
  BY <1>2, ReadyOpen DEF Prepared
<1>4. lead.wait = Command("status", t) => rx[0][t].st = "open"
  BY <1>2, ReadyOpen DEF Prepared
<1>5. \/ \E ms, forget : EndJob(t, ms, forget)
      \/ \E ms, wait : GoOn(t, ms, wait, y)
      \/ lead.wait = Command("status", t) /\ \E ms, wait : GoOn(t, ms, wait, rx[0][t])
  <2>1. HasAnswered(t) => (\E ms, forget : EndJob(t, ms, forget)) \/ \E ms, wait : GoOn(t, ms, wait, y)
    BY Zenon DEF HasAnswered
  <2>2. StatusAnswered(t) => (\E ms, forget : EndJob(t, ms, forget))
                             \/ (lead.wait = Command("status", t) /\ \E ms, wait : GoOn(t, ms, wait, rx[0][t]))
    BY Zenon DEF StatusAnswered, Collected
  <2>3. GiveUp(t) => \E ms, forget : EndJob(t, ms, forget)
    BY Zenon DEF GiveUp
  <2> QED
    BY <2>1, <2>2, <2>3, Zenon
<1>6. y \in Rx /\ y.st = "open"
  BY <1>3 DEF Rx
<1> HIDE DEF y
<1>7. ASSUME NEW ms, NEW forget, EndJob(t, ms, forget)
      PROVE  Agrees
  BY <1>2, <1>3, <1>7, EndJobAgrees
<1>8. ASSUME NEW ms, NEW wait, NEW z \in Rx, z.st = "open", GoOn(t, ms, wait, z)
      PROVE  Agrees
  BY <1>2, <1>3, <1>8, GoOnAgrees
<1> QED
  BY <1>3, <1>4, <1>5, <1>6, <1>7, <1>8

LEMMA ValidateAgrees ==
    ASSUME IInv, NEW t \in Txns, ValidateAnswered(t)
    PROVE  Agrees
<1>1. Collected("validate", t)
  BY Zenon DEF ValidateAnswered
<1>2. Ready({t}) /\ lead.wait = Command("validate", t) /\ ~lead.broken
  BY <1>1, CollectedReady
<1>3. Prepared(rx[0][t]) /\ rx[0][t].st = "open"
  BY <1>2, ReadyOpen DEF Prepared
<1>4. \/ \E ms, forget : EndJob(t, ms, forget)
      \/ Replies = {"complete"} /\ \E ms, wait : GoOn(t, ms, wait, Over("installed"))
  BY Zenon DEF ValidateAnswered
<1>5. ASSUME NEW ms, NEW forget, EndJob(t, ms, forget)
      PROVE  Agrees
  BY <1>2, <1>3, <1>5, EndJobAgrees
<1>6. ASSUME Replies = {"complete"}, NEW ms, NEW wait, GoOn(t, ms, wait, Over("installed"))
      PROVE  Agrees
  <2>1. \A f \in Followers : fol[f].reply = "complete"
    BY <1>6 DEF Replies
  <2>2. \A f \in Followers : Prepared(rx[f][t])
    BY <1>2, <2>1 DEF IInv, CompleteIsPrepared
  <2>3. \A q \in Ranks : Prepared(rx[q][t])
    BY <1>3, <2>2 DEF Ranks
  <2>4. \A st \in {"installed", "dropped"} : Over(st) \in Rx /\ Over(st).st = st
    BY NewRx
  <2>5. Takes(t, Over("dropped")) \/ Takes(t, Over("installed"))
    BY <1>6, <2>4 DEF GoOn, Takes
  <2>6. CASE Takes(t, Over("dropped"))
    BY <1>2, <1>3, <2>4, <2>6, JobAgrees
  <2>7. CASE Takes(t, Over("installed"))
    <3>1. Alone(0, t) /\ rx'[0][t] = Over("installed") /\ 0 \in Ranks /\ fault' = fault
      BY <1>2, <2>7, TakesAlone, RankIs DEF IInv, Ready
    <3> QED
      BY <1>3, <2>3, <2>4, <3>1, AgreesInstalling
  <2> QED
    BY <2>5, <2>6, <2>7
<1> QED
  BY <1>4, <1>5, <1>6

LEMMA BreakingAgrees ==
    ASSUME IInv, AskFails \/ \E t \in Txns : DropBroken(t)
    PROVE  Agrees
<1>1. ASSUME NEW t \in Txns, rx[0][t].st \in {"asked", "open"}, rx' = [rx EXCEPT ![0][t] = Over("dropped")], fault' = TRUE
      PROVE  Agrees
  <2>1. Over("dropped") \in Rx /\ Over("dropped").st = "dropped" /\ TypeOK /\ fault \in BOOLEAN
    BY NewRx DEF IInv, TypeOK
  <2>2. Takes(t, Over("dropped"))
    BY <1>1, <2>1 DEF Takes
  <2>3. Alone(0, t) /\ rx'[0][t].st = "dropped" /\ 0 \in Ranks
    BY <2>1, <2>2, TakesAlone, RankIs
  <2>4. rx[0][t].st \notin {"installed", "dropped"}
    BY <1>1
  <2> QED
    BY <1>1, <2>1, <2>3, <2>4, AgreesDropping
<1>2. ASSUME NEW t \in Txns, DropBroken(t)
      PROVE  Agrees
  <2>1. fault' = TRUE
    <3>1. fault \in BOOLEAN /\ fault /\ fault' = fault
      BY <1>2 DEF DropBroken, IInv, OnlyFaultsBreak, TypeOK
    <3> QED
      BY <3>1
  <2> QED
    BY <1>1, <1>2, <2>1 DEF DropBroken
<1>3. CASE AskFails
  <2>1. /\ lead.wait # NoWait /\ rx' = [rx EXCEPT ![0][lead.wait.t] = Over("dropped")]
        /\ \E f \in Followers : fault' = (fault \/ fol[f].up)
    BY <1>3, Zenon DEF AskFails
  <2>2. fault' = TRUE
    <3>1. PICK f \in Followers : fault' = (fault \/ fol[f].up)
      BY <2>1
    <3>2. fol[f].up \in BOOLEAN /\ fault \in BOOLEAN
      BY DEF IInv, TypeOK, Follower
    <3>3. fol[f].up \/ fault
      BY DEF IInv, OnlyFaultsBreak, Down, Up
    <3> QED
      BY <3>1, <3>2, <3>3
  <2>3. lead.wait.op \in {"has", "status", "validate"} /\ lead.wait.t \in Txns /\ lead.wait = Command(lead.wait.op, lead.wait.t)
    BY <2>1 DEF IInv, TypeOK, Command
  <2>4. rx[0][lead.wait.t].st \in {"asked", "open"}
    <3>1. ~lead.broken
      BY <2>1 DEF IInv, BrokenWaitsNot
    <3> QED
      BY <2>3, <3>1, ReadyOpen DEF Prepared
  <2> QED
    BY <1>1, <2>1, <2>2, <2>3, <2>4
<1> QED
  BY <1>2, <1>3

LEMMA ServeAgrees ==
    ASSUME IInv, NEW f \in Followers, Serve(f)
    PROVE  Agrees
<1>1. PICK m, x, answer : Reads(f, m, x, answer) /\ Handled(f, m, x, answer)
  BY ServeReads DEF Served
<1>2. /\ fault' = fault /\ fault \in BOOLEAN /\ f \in Ranks /\ f \in Up /\ m \in Msg
      /\ m = stream[f][1] /\ 1 \in 1 .. Len(stream[f])
  <2>1. fault' = fault
    BY <1>1, ReadsRest
  <2>2. f \in Ranks /\ f \in Up /\ m \in Msg /\ m = stream[f][1] /\ 1 \in 1 .. Len(stream[f])
    BY <1>1, ReadsIs
  <2> QED
    BY <2>1, <2>2 DEF IInv, TypeOK
<1>3. /\ rx'[0] = rx[0] /\ \A g \in Followers : g # f => rx'[g] = rx[g]
      /\ m.op # "keep" => rx'[f][m.t] = x
      /\ \A u \in Txns : m.op = "keep" \/ u # m.t => rx'[f][u] = rx[f][u]
  BY <1>1, ReadsRest
<1>4. CASE m.op = "keep"
  <2>1. \A q \in Ranks, u \in Txns : rx'[q][u] = rx[q][u]
    BY <1>3, <1>4 DEF Ranks
  <2> QED
    BY <1>2, <2>1, SameOutcomes
<1>5. CASE m.op # "keep"
  <2>1. /\ m.t \in Txns /\ RxFits(fol[f].track, rx[f][m.t], m.t)
        /\ m.op = "has" => rx[f][m.t].st = "none"
        /\ m.op # "has" => fol[f].track.phase[m.t] # "none"
        /\ m.op \notin {"has", "abort"} => fol[f].track.phase[m.t] = Needs[m.op]
    BY <1>1, <1>5, ReadsPhase
  <2>2. Alone(f, m.t) /\ rx'[f][m.t] = x
    BY <1>3, <1>5 DEF Alone, Ranks
  <2>3. rx[f][m.t].st \notin {"installed", "dropped"}
    BY <2>1 DEF RxFits
  \* Once it is committed, the commit is what comes.
  <2>4. Committed(m.t) => /\ rx[0][m.t].st = "installed" \/ (fault /\ rx[0][m.t].st = "dropped")
                          /\ \A g \in Followers : rx[g][m.t].st = "installed" \/ Prepared(rx[g][m.t])
                          /\ Prepared(rx[f][m.t]) => fol[f].track.phase[m.t] = "validating"
                          /\ ~AbortIn(f, m.t)
    BY <1>2, <2>1 DEF IInv, CommitsHold
  <2>5. Committed(m.t) => fol[f].track.phase[m.t] = "validating" /\ Prepared(rx[f][m.t])
    BY <2>3, <2>4
  <2>6. ~Committed(m.t) => NowhereInstalled(m.t)
    BY DEF Committed, NowhereInstalled, Ranks
  <2>7. m.op \in {"has", "reserve", "start", "status", "validate", "commit", "progress", "abort"}
    BY <1>2, <1>5, MsgFields
  <2>8. CASE m.op = "commit"
    <3>1. Committed(m.t)
      BY <1>2, <2>8 DEF CommitIn, Committed
    <3>2. Prepared(rx[f][m.t]) /\ rx'[f][m.t].st = "installed"
      BY <1>1, <2>2, <2>5, <2>8, <3>1 DEF Handled
    <3>3. \A q \in Ranks : rx[q][m.t].st = "installed" \/ Prepared(rx[q][m.t]) \/ (fault /\ rx[q][m.t].st = "dropped")
      BY <2>4, <3>1 DEF Ranks
    <3> QED
      BY <1>2, <2>1, <2>2, <3>2, <3>3, AgreesInstalling
  <2>9. CASE m.op = "abort"
    <3>1. AbortIn(f, m.t)
      BY <1>2, <2>9 DEF AbortIn
    <3>2. NowhereInstalled(m.t) /\ rx'[f][m.t].st = "dropped"
      BY <1>1, <2>2, <2>4, <2>6, <2>9, <3>1 DEF Handled
    <3> QED
      BY <1>2, <2>1, <2>2, <2>3, <3>2, AgreesDropping
  <2>10. CASE m.op \in {"has", "reserve", "start", "status", "validate", "progress"}
    <3>1. rx'[f][m.t].st \in {"asked", "open"}
      BY <1>1, <2>2, <2>10 DEF Handled
    <3>2. ~Committed(m.t)
      <4>1. CASE m.op = "has"
        BY <2>1, <2>5, <4>1 DEF Prepared
      <4>2. CASE m.op # "has"
        <5>1. Needs[m.op] # "validating"
          BY <2>10, <4>2 DEF Needs
        <5> QED
          BY <2>1, <2>5, <2>10, <4>2, <5>1
      <4> QED
        BY <4>1, <4>2
    <3> QED
      BY <1>2, <2>1, <2>2, <2>3, <2>6, <3>1, <3>2, AgreesWorking
  <2> QED
    BY <2>7, <2>8, <2>9, <2>10
<1> QED
  BY <1>4, <1>5

LEMMA ServiceAgrees ==
    ASSUME IInv, NEW f \in Followers, NEW t \in Txns, Service(f, t)
    PROVE  Agrees
<1>1. PICK x \in Worked(rx[f][t], rx[f][t].allowed) : x # rx[f][t] /\ rx' = [rx EXCEPT ![f][t] = x]
  BY DEF Service
<1>2. fault' = fault /\ rx \in [Ranks -> [Txns -> Rx]] /\ f \in Ranks
  BY RankIs DEF Service, IInv, TypeOK
<1>3. x.st = "open" /\ rx[f][t].st = "open" /\ ~Prepared(rx[f][t])
  <2>1. rx[f][t] \in Rx /\ rx[f][t].allowed \in 0 .. Blocks
    BY <1>2, RxFields
  <2> QED
    BY <1>1, <2>1, WorkedIs DEF SameRestore
<1>4. Alone(f, t) /\ rx'[f][t] = x
  BY <1>1, <1>2 DEF Alone
<1>5. rx[f][t].st \notin {"installed", "dropped"} /\ rx'[f][t].st \notin {"installed", "dropped"}
  BY <1>3, <1>4
<1> QED
  BY <1>2, <1>3, <1>4, <1>5, AgreesWorking

LEMMA NextAgrees == IInv /\ [Next]_tvars => Agrees
<1> SUFFICES ASSUME IInv, [Next]_tvars PROVE Agrees
  OBVIOUS
<1>1. ASSUME rx' = rx, fault' = fault \/ fault' = TRUE PROVE Agrees
  BY <1>1, SameOutcomes
<1>2. ASSUME NEW p \in Points, Keep(p) \/ \E t \in Txns : Begin(t, p) PROVE Agrees
  <2>1. Keep(p) => rx' = rx /\ fault' = fault
    BY Zenon DEF Keep
  <2> QED
    BY <1>1, <1>2, <2>1, BeginAgrees
<1>3. ASSUME NEW t \in Txns, Poll(t) \/ Cancel(t) \/ DropBroken(t) PROVE Agrees
  <2>1. Cancel(t) => Agrees
    <3>1. Cancel(t) => Ready({t}) /\ rx[0][t].st \in {"asked", "open"}
      BY IdleReady DEF Cancel
    <3> QED
      BY <3>1, EndJobAgrees DEF Cancel
  <2> QED
    BY <1>3, <2>1, PollAgrees, BreakingAgrees
<1>4. ASSUME NEW t \in Txns, HasAnswered(t) \/ StatusAnswered(t) \/ GiveUp(t) \/ ValidateAnswered(t) PROVE Agrees
  BY <1>4, AnswersAgree, ValidateAgrees
<1>5. CASE AskFails
  BY <1>5, BreakingAgrees
<1>6. ASSUME NEW r \in Ranks, NEW p \in Points, Published(r, p) \/ WriteLost(r, p) \/ Evict(r, p) PROVE Agrees
  BY <1>1, <1>6 DEF Published, WriteLost, Evict
<1>7. ASSUME NEW f \in Followers, Serve(f) \/ Dies(f) \/ \E t \in Txns : Service(f, t) PROVE Agrees
  <2>1. Dies(f) => Agrees
    BY <1>1 DEF Dies
  <2> QED
    BY <1>7, <2>1, ServeAgrees, ServiceAgrees
<1>8. CASE UNCHANGED tvars
  BY <1>1, <1>8 DEF tvars
<1> QED
  BY <1>2, <1>3, <1>4, <1>5, <1>6, <1>7, <1>8 DEF Next, Engine

LEMMA AgreesInit == Init => Agreement!Init
<1> SUFFICES ASSUME Init PROVE Agreement!Init
  OBVIOUS
<1>1. \A r \in Ranks, t \in Txns : Outcome(rx[r][t]) = "working"
  BY NewRx DEF Init, Outcome, Prepared
<1> QED
  BY <1>1 DEF Init, Agreement!Init

\* A restore is installed on every rank or on none, and only where every rank
\* has it whole, until a rank died or an answer was late: each step of Leader
\* and Follower is a step of RestoreAgreement or none.
THEOREM RestoresAgree == Spec => InstalledOnAllOrNone
<1>1. Init => Agreement!Init
  BY AgreesInit
<1>2. IInv /\ [Next]_tvars => [Agreement!Next]_(Agreement!avars)
  BY NextAgrees DEF Agrees
<1> QED
  BY <1>1, <1>2, RestoreInvariant, PTL DEF Spec, InstalledOnAllOrNone, Agreement!Spec

\* What RestoreAgreement keeps, of the outcomes of RestoreTxn.
OutcomesAgree == Agreement!Typed /\ Agreement!Agreed

LEMMA AgreementInit == Agreement!Init => OutcomesAgree
BY DEF Agreement!Init, OutcomesAgree, Agreement!Typed, Agreement!Outcomes, Agreement!Agreed, Agreement!Is

\* One rank's outcome of one restore changes, to o.
LEMMA BecomesTyped ==
    ASSUME NEW a, a \in [Ranks -> [Txns -> Agreement!Outcomes]], NEW z,
           NEW r \in Ranks, NEW t \in Txns, NEW o \in Agreement!Outcomes, z = [a EXCEPT ![r][t] = o]
    PROVE  /\ z \in [Ranks -> [Txns -> Agreement!Outcomes]]
           /\ \A q \in Ranks, u \in Txns : z[q][u] = IF q = r /\ u = t THEN o ELSE a[q][u]
OBVIOUS

LEMMA AgreementStep ==
    ASSUME OutcomesAgree, Agrees
    PROVE  OutcomesAgree'
<1> DEFINE a == Outs
           z == Outs'
<1>1. a \in [Ranks -> [Txns -> Agreement!Outcomes]] /\ fault \in BOOLEAN
  BY DEF OutcomesAgree, Agreement!Typed, Outs
<1>2. ~fault => \A t \in Txns, q, r \in Ranks :
          a[q][t] \in {"installed"} => a[r][t] \in {"prepared", "installed"}
  BY DEF OutcomesAgree, Agreement!Agreed, Agreement!Is, Outs
<1>3. OutcomesAgree' <=>
        /\ z \in [Ranks -> [Txns -> Agreement!Outcomes]] /\ fault' \in BOOLEAN
        /\ ~fault' => \A t \in Txns, q, r \in Ranks :
               z[q][t] \in {"installed"} => z[r][t] \in {"prepared", "installed"}
  BY DEF OutcomesAgree, Agreement!Typed, Agreement!Agreed, Agreement!Is, Outs
<1>4. Agreement!avars' = Agreement!avars => z = a /\ fault' = fault
  BY DEF Agreement!avars, Outs
<1>5. Agreement!Fault => z = a /\ fault' = TRUE
  BY DEF Agreement!Fault, Outs
<1>6. \A r \in Ranks, t \in Txns : Agreement!Prepare(r, t) =>
          a[r][t] = "working" /\ z = [a EXCEPT ![r][t] = "prepared"] /\ fault' = fault
  BY DEF Agreement!Prepare, Agreement!Is, Agreement!Becomes, Outs
<1>7. \A r \in Ranks, t \in Txns : Agreement!Unprepare(r, t) =>
          /\ a[r][t] = "prepared" /\ \A q \in Ranks : a[q][t] # "installed"
          /\ z = [a EXCEPT ![r][t] = "working"] /\ fault' = fault
  BY DEF Agreement!Unprepare, Agreement!Is, Agreement!Becomes, Outs
<1>8. \A r \in Ranks, t \in Txns : Agreement!Install(r, t) =>
          /\ a[r][t] = "prepared"
          /\ \A q \in Ranks : a[q][t] \in {"prepared", "installed"} \/ (fault /\ a[q][t] \in {"dropped"})
          /\ z = [a EXCEPT ![r][t] = "installed"] /\ fault' = fault
  BY DEF Agreement!Install, Agreement!Is, Agreement!Becomes, Outs
<1>9. \A r \in Ranks, t \in Txns : Agreement!Drop(r, t) =>
          /\ a[r][t] \in {"working", "prepared"} /\ fault' \in BOOLEAN /\ (fault => fault')
          /\ fault' \/ \A q \in Ranks : a[q][t] # "installed"
          /\ z = [a EXCEPT ![r][t] = "dropped"]
  BY DEF Agreement!Drop, Agreement!Is, Outs
<1>10. {"working", "prepared", "installed", "dropped"} = Agreement!Outcomes
  BY DEF Agreement!Outcomes
<1> HIDE DEF a, z
<1>11. CASE z = a /\ fault' \in {fault, TRUE}
  BY <1>1, <1>2, <1>3, <1>11
<1>12. ASSUME NEW r \in Ranks, NEW t \in Txns,
              Agreement!Prepare(r, t) \/ Agreement!Unprepare(r, t) \/ Agreement!Install(r, t) \/ Agreement!Drop(r, t)
       PROVE  OutcomesAgree'
  <2>1. PICK o \in Agreement!Outcomes : z = [a EXCEPT ![r][t] = o]
    BY <1>6, <1>7, <1>8, <1>9, <1>10, <1>12
  <2>2. /\ z \in [Ranks -> [Txns -> Agreement!Outcomes]]
        /\ \A q \in Ranks, u \in Txns : z[q][u] = IF q = r /\ u = t THEN o ELSE a[q][u]
    BY <1>1, <2>1, BecomesTyped
  <2>3. fault' \in BOOLEAN /\ (fault => fault')
    BY <1>1, <1>6, <1>7, <1>8, <1>9, <1>12
  <2>4. ASSUME ~fault', NEW u \in Txns, NEW q \in Ranks, NEW p \in Ranks, z[q][u] = "installed"
        PROVE  z[p][u] \in {"prepared", "installed"}
    <3>1. ~fault
      BY <2>3, <2>4
    <3>2. z[r][t] = o
      BY <2>2
    <3>3. CASE u # t
      BY <1>2, <2>2, <2>4, <3>1, <3>3
    <3>4. CASE u = t
      <4>1. CASE Agreement!Prepare(r, t)
        BY <1>1, <1>2, <1>6, <2>2, <2>4, <3>1, <3>4, <4>1, <1>10
      <4>2. CASE Agreement!Unprepare(r, t)
        BY <1>1, <1>2, <1>7, <2>2, <2>4, <3>1, <3>4, <4>2, <1>10
      <4>3. CASE Agreement!Install(r, t)
        BY <1>1, <1>2, <1>8, <2>2, <2>4, <3>1, <3>4, <4>3, <1>10
      <4>4. CASE Agreement!Drop(r, t)
        BY <1>1, <1>2, <1>9, <2>2, <2>4, <3>1, <3>4, <4>4, <1>10
      <4> QED
        BY <1>12, <4>1, <4>2, <4>3, <4>4
    <3> QED
      BY <3>3, <3>4
  <2> QED
    BY <1>3, <2>2, <2>3, <2>4
<1> QED
  BY <1>1, <1>4, <1>5, <1>11, <1>12 DEF Agrees, Agreement!Next

\* Without a fault, a restore that is installed on one rank is installed or
\* about to be on every rank: Leader.pollFn commits after every rank has
\* validated, and no rank's Side.rxCommit may then refuse.
THEOREM OneOutcome == Spec => []Agreement!Agreed
<1>1. Init => OutcomesAgree
  BY AgreesInit, AgreementInit
<1>2. IInv /\ [Next]_tvars /\ OutcomesAgree => OutcomesAgree'
  BY NextAgrees, AgreementStep
<1>3. OutcomesAgree => Agreement!Agreed
  BY DEF OutcomesAgree
<1> QED
  BY <1>1, <1>2, <1>3, RestoreInvariant, PTL DEF Spec

\* No rank takes back what it installed or dropped (Side.rxCommit, rxAbort),
\* whatever fails.
THEOREM OutcomesAreFinal == Spec => Agreement!Final
<1>1. OutcomesAgree /\ Agrees => [Agreement!KeepsOutcomes]_(Agreement!avars)
  <2> SUFFICES ASSUME OutcomesAgree, Agreement!Next, NEW r \in Ranks, NEW t \in Txns,
                      Outs[r][t] \in {"installed", "dropped"}
               PROVE  Outs'[r][t] = Outs[r][t]
    BY DEF Agrees, Agreement!KeepsOutcomes, Agreement!Is, Outs
  <2> DEFINE a == Outs
             z == Outs'
  <2>1. a \in [Ranks -> [Txns -> Agreement!Outcomes]]
    BY DEF OutcomesAgree, Agreement!Typed, Outs
  <2>2. CASE Agreement!Fault
    BY <2>2 DEF Agreement!Fault, Outs
  <2>3. ASSUME NEW q \in Ranks, NEW u \in Txns,
               Agreement!Prepare(q, u) \/ Agreement!Unprepare(q, u) \/ Agreement!Install(q, u) \/ Agreement!Drop(q, u)
        PROVE  z[r][t] = a[r][t]
    <3>1. a[q][u] \in {"working", "prepared"}
      BY <2>3 DEF Agreement!Prepare, Agreement!Unprepare, Agreement!Install, Agreement!Drop, Agreement!Is, Outs
    <3>2. PICK o \in Agreement!Outcomes : z = [a EXCEPT ![q][u] = o]
      BY <2>3 DEF Agreement!Prepare, Agreement!Unprepare, Agreement!Install, Agreement!Drop,
                  Agreement!Becomes, Agreement!Outcomes, Outs
    <3> HIDE DEF a, z
    <3>3. z[r][t] = IF r = q /\ t = u THEN o ELSE a[r][t]
      BY <2>1, <3>2, BecomesTyped
    <3>4. a[r][t] \in {"installed", "dropped"}
      BY DEF a
    <3> QED
      BY <3>1, <3>3, <3>4
  <2> QED
    BY <2>2, <2>3 DEF Agreement!Next
<1>2. Init => OutcomesAgree
  BY AgreesInit, AgreementInit
<1>3. IInv /\ [Next]_tvars => Agrees
  BY NextAgrees
<1>4. OutcomesAgree /\ Agrees => OutcomesAgree'
  BY AgreementStep
<1> QED
  BY <1>1, <1>2, <1>3, <1>4, RestoreInvariant, PTL DEF Spec, Agreement!Final
=============================================================================

