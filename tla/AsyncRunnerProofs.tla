--------------------------- MODULE AsyncRunnerProofs ---------------------------
(***************************************************************************)
(* AsyncRunner with two steps in flight, for any requests, prompt, limits  *)
(* of output, drafts and preemption: types, the three counts of a          *)
(* request's length, and what the device is fed.                           *)
(*                                                                         *)
(* The invariant follows a step through the pipeline: prepared by the host *)
(* (inputs), run on the device (gpuRows, sampled), on its way back         *)
(* (outputs).  At any moment two steps are on the way, and what the        *)
(* scheduler, the host and the device believe of a request differ by what  *)
(* these two still hold for it.                                            *)
(***************************************************************************)
EXTENDS AsyncRunner, FiniteSetTheorems, SequenceTheorems, TLAPS

(***************************************************************************)
(* The pipeline's shape.  At most two steps are under way: the latest, and *)
(* the one before it.  queue is one of six sequences, and outputs holds at *)
(* most the output of the step before and that of the latest.              *)
(***************************************************************************)
Q0 == <<>>
QP == <<"prepare">>
QS == <<"sample">>
QPS == <<"prepare", "sample">>
QSP == <<"sample", "prepare">>
QSPS == <<"sample", "prepare", "sample">>

\* The latest step is not prepared; the step before it, or the latest, is not sampled.
Preparing == queue \in {QP, QPS, QSP, QSPS}
OldUnsampled == queue \in {QSP, QSPS}
NewUnsampled == pc # "idle" \/ queue \in {QS, QPS, QSPS}

\* The outputs of the step before the latest and of the latest, while nobody has taken them.
HasOld == IF pc = "idle" THEN Len(outputs) = 2 ELSE Len(outputs) = 1
HasNew == pc = "idle" /\ Len(outputs) # 0
OldOut == outputs[1]
NewOut == outputs[Len(outputs)]

Shape ==
  /\ pc \in {"idle", "launched", "computed"}
  /\ Len(outputs) \in 0..2
  /\ pc # "idle" =>
       /\ rows # <<>> /\ Len(outputs) # 2
       /\ queue \in {Q0, QP, QSP}
       /\ queue = QSP => HasOld
       /\ HasOld => (OldOut.ready <=> queue # QSP)
  /\ pc = "computed" /\ queue = QSP => DOMAIN plan.deferred = {}
  /\ pc = "idle" =>
       /\ queue \in {Q0, QS, QPS, QSPS}
       /\ queue # Q0 => HasNew
       /\ queue = QSPS => HasOld
       /\ HasNew => (NewOut.ready <=> queue = Q0)
       /\ HasOld => (OldOut.ready <=> queue # QSPS)
       /\ rows = <<>> => ~HasOld /\ queue \in {Q0, QS}
       /\ rows # <<>> => HasNew

-----------------------------------------------------------------------------
\* Types, as far as the proofs need them.
Statuses == {"new", "running", "preempted", "finished"}
Requests == [status : Statuses, known : Nat, place : Int, comp : Int, spec : 0..NumSpec, drop : BOOLEAN]
Cached == [comp : Int, outs : Int, draft : 0..NumSpec, real : Nat]
Rows == [req : Reqs, n : Nat, d : 0..NumSpec, at : Int, pinned : Int, real : Nat, prev : Nat,
         drafts : 0..NumSpec, discard : BOOLEAN, fresh : BOOLEAN, known : Nat]
GpuRows == [req : Reqs, n : Nat, d : 0..NumSpec, discard : BOOLEAN, len : Int]
SampledRecs == [req : Reqs, pos : Int, count : Nat]
Entries == [d : 0..NumSpec, discard : BOOLEAN, accepted : Nat]

Typed ==
  /\ sched \in [Reqs -> Requests]
  /\ req \in [Reqs -> Cached]
  /\ prevRow \in [Reqs -> Nat]
  /\ truth \in [Reqs -> [comp : Nat, out : Nat]]
  /\ rows \in Seq(Reqs)
  /\ inputs \in Seq(Rows)
  /\ gpuRows \in Seq(GpuRows)
  /\ sampled \in Seq(SampledRecs)
  /\ outputs \in Seq([ready : BOOLEAN, of : UNION {[R -> Entries] : R \in SUBSET Reqs}])

\* A request has one row of a step.
Once(s) == \A i, j \in DOMAIN s : s[i].req = s[j].req => i = j
In(s, r) == \E i \in DOMAIN s : s[i].req = r
\* A row computes at least one token and, after a step that sampled, one token and its drafts;
\* a row whose sample is discarded has no drafts.
Sound(x) == /\ x.n >= 1 + x.d
            /\ x.d > 0 => x.n = 1 + x.d
            /\ x.discard => x.d = 0
\* What the GPU has of a row is what the host gave.
Same(s, t) == /\ DOMAIN s = DOMAIN t
              /\ \A i \in DOMAIN s : /\ s[i].req = t[i].req /\ s[i].n = t[i].n
                                     /\ s[i].d = t[i].d /\ s[i].discard = t[i].discard

Batch ==
  /\ Once(inputs) /\ Once(gpuRows)
  /\ \A i \in DOMAIN inputs : Sound(inputs[i])
  /\ \A i \in DOMAIN gpuRows : Sound(gpuRows[i])
  /\ rows # <<>> => DOMAIN rows = DOMAIN inputs /\ \A i \in DOMAIN rows : rows[i] = inputs[i].req
  /\ ~Preparing => Same(gpuRows, inputs)
  /\ DOMAIN rows = 1..Len(rows) /\ Len(rows) <= MaxRows

\* An output is of its step's rows.
OutOf(o, s) ==
  \A r \in Reqs : 
    /\ r \in DOMAIN o.of <=> In(s, r)
    /\ \A i \in DOMAIN s : s[i].req = r => o.of[r].d = s[i].d /\ o.of[r].discard = s[i].discard
OutsMatch ==
  /\ HasNew => OutOf(NewOut, inputs)
  /\ OldUnsampled => OutOf(OldOut, gpuRows)
  /\ HasOld => \A r \in DOMAIN OldOut.of : OldOut.of[r].accepted <= OldOut.of[r].d
  /\ HasNew => \A r \in DOMAIN NewOut.of : NewOut.of[r].accepted <= NewOut.of[r].d

-----------------------------------------------------------------------------
\* Who has sampled in the step before, by row.
Prev(s) == \A r \in Reqs, i \in Nat \ {0} :
             prevRow[r] = i <=> (i \in DOMAIN s /\ s[i].req = r /\ ~s[i].discard)
PrevRows ==
  /\ pc = "idle" => Prev(inputs)
  /\ pc # "idle" /\ Preparing => Prev(gpuRows)

\* While a step is not sampled, the GPU's lengths are the truth; and after, they are short of
\* it by what was sampled.
Lengths ==
  /\ (~Preparing /\ NewUnsampled) \/ OldUnsampled =>
       \A i \in DOMAIN gpuRows : gpuRows[i].len = truth[gpuRows[i].req].comp
  /\ (IF pc = "idle" THEN queue \in {Q0, QPS} ELSE queue = QP) =>
       /\ DOMAIN sampled = DOMAIN gpuRows
       /\ \A i \in DOMAIN gpuRows :
            LET x == gpuRows[i]  t == truth[x.req]
            IN /\ sampled[i].req = x.req /\ sampled[i].pos = t.comp
               /\ ~x.discard => /\ sampled[i].count >= 1
                                /\ t.comp + x.d + 1 = x.len + x.n + sampled[i].count
  /\ pc = "idle" /\ queue = Q0 /\ HasNew =>
       \A i \in DOMAIN inputs :
         ~inputs[i].discard => NewOut.of[inputs[i].req].accepted + 1 = sampled[i].count

\* The rows the GPU comes to next.
Amount(s, r) == IF In(s, r) THEN s[CHOOSE i \in DOMAIN s : s[i].req = r].n ELSE 0
Coming(x) ==
  /\ x.fresh => x.at = 0 /\ x.pinned = 0 /\ x.drafts = 0
  /\ x.fresh /\ OldUnsampled => ~In(gpuRows, x.req)
  /\ ~x.fresh /\ (x.prev = 0 \/ x.drafts = 0) =>
       x.pinned = truth[x.req].comp + IF OldUnsampled THEN Amount(gpuRows, x.req) ELSE 0
  /\ x.prev # 0 => /\ x.prev \in DOMAIN gpuRows
                   /\ gpuRows[x.prev].req = x.req /\ ~gpuRows[x.prev].discard
                   /\ x.drafts > 0 => x.drafts = gpuRows[x.prev].d
  /\ OldUnsampled => \A j \in DOMAIN gpuRows : 
       gpuRows[j].req = x.req /\ gpuRows[j].d > 0 => x.prev = j /\ x.drafts > 0
Fed(x) ==
  /\ x.prev = 0 => x.at = x.pinned /\ x.at + x.n <= x.real
  /\ x.prev # 0 => x.n = 1 + x.d
Incoming ==
  Preparing => \A i \in DOMAIN inputs :
    /\ Coming(inputs[i])
    /\ pc # "idle" => inputs[i].prev = prevRow[inputs[i].req]
    /\ ~Forced => Fed(inputs[i]) /\ (inputs[i].fresh => inputs[i].prev = 0)

-----------------------------------------------------------------------------
\* The host, between its launch of a step and its end.
HostAgrees ==
  /\ \A r \in Reqs : req[r].comp >= 0 /\ req[r].outs >= 0
  /\ pc = "idle" =>
       \A i \in DOMAIN rows : 
         LET r == rows[i] IN
           /\ req[r].draft = inputs[i].d
           /\ sched[r].status = "running" => sched[r].known + sched[r].place <= req[r].outs + req[r].draft
  /\ pc # "idle" =>
       /\ DOMAIN plan.orders = Members(rows) /\ DOMAIN plan.deferred \subseteq Members(rows)
       /\ \A i \in DOMAIN rows :
            LET r == rows[i]  o == plan.orders[r] IN
              /\ sched[r].status = "running"
              /\ req[r].outs = o.outs /\ req[r].draft = inputs[i].d /\ o.d = inputs[i].d
              /\ inputs[i].discard <=> ~o.samples
              /\ sched[r].known + sched[r].place = o.outs + IF inputs[i].discard THEN 0 ELSE 1 + inputs[i].d

\* What the deferred correction will take off, and has taken off.
Deferral ==
  \A r \in Reqs : pc # "idle" /\ r \in DOMAIN plan.deferred /\ prevRow[r] # 0 =>
    LET p == prevRow[r] IN
    /\ \A i \in DOMAIN inputs : inputs[i].req = r => ~inputs[i].fresh
    /\ plan.deferred[r] \in 0..NumSpec
    /\ pc = "launched" /\ Preparing =>
         \A i \in DOMAIN inputs : inputs[i].req = r => inputs[i].drafts > 0
    /\ pc = "launched" /\ OldUnsampled => 
         plan.deferred[r] = gpuRows[p].d /\ req[r].comp = truth[r].comp + gpuRows[p].n
    /\ pc = "launched" /\ ~OldUnsampled =>
         p \in DOMAIN sampled /\ req[r].comp + sampled[p].count = truth[r].comp + plan.deferred[r] + 1
    /\ pc = "computed" => req[r].comp = truth[r].comp

-----------------------------------------------------------------------------
\* The scheduler's accounts: what it counts of an output that is in flight.
Counted(o, r) == r \in DOMAIN o.of /\ ~o.of[r].discard
Holds(o, r) == IF Counted(o, r) THEN 1 + o.of[r].d ELSE 0
Gives(o, r) == IF o.ready /\ Counted(o, r) THEN 1 + o.of[r].accepted ELSE 0
Rejects(o, r) == IF o.ready /\ Counted(o, r) THEN o.of[r].d - o.of[r].accepted ELSE 0

OldHolds(r) == IF HasOld THEN Holds(OldOut, r) ELSE 0
OldGives(r) == IF HasOld THEN Gives(OldOut, r) ELSE 0
OldRejects(r) == IF HasOld THEN Rejects(OldOut, r) ELSE 0
NewHolds(r) == IF HasNew THEN Holds(NewOut, r) ELSE 0
NewGives(r) == IF HasNew THEN Gives(NewOut, r) ELSE 0
NewRejects(r) == IF HasNew THEN Rejects(NewOut, r) ELSE 0
HostHolds(r) == IF pc # "idle" /\ In(inputs, r) /\ plan.orders[r].samples THEN 1 + plan.orders[r].d ELSE 0

Arriving(r) == Preparing /\ \E i \in DOMAIN inputs : inputs[i].req = r /\ inputs[i].fresh
Base(r) == IF Arriving(r) THEN 0 ELSE truth[r].comp
OldAmount(r) == IF OldUnsampled THEN Amount(gpuRows, r) ELSE 0
NewAmount(r) == IF NewUnsampled THEN Amount(inputs, r) ELSE 0

Accounts ==
  \A r \in Reqs :
    /\ sched[r].status # "finished" =>
         /\ sched[r].place = OldHolds(r) + NewHolds(r) + HostHolds(r)
         /\ sched[r].known + OldGives(r) + NewGives(r) = truth[r].out
    /\ sched[r].status = "running" =>
         sched[r].comp = Base(r) + OldAmount(r) + NewAmount(r) + OldRejects(r) + NewRejects(r)
    /\ sched[r].place \in 0..(2 * (1 + NumSpec)) /\ sched[r].known <= MaxOut[r]

\* What the scheduler may give a request next.
Chances ==
  \A r \in Reqs :
    /\ sched[r].status \in {"new", "preempted"} =>
         /\ sched[r].comp = 0 /\ r \notin Members(rows)
         /\ ~Forced => ~In(inputs, r)
    /\ sched[r].status = "running" =>
         /\ sched[r].comp < Length(sched[r])
         /\ \A i \in DOMAIN inputs : inputs[i].req = r =>
              /\ ~inputs[i].discard => Length(sched[r]) = sched[r].comp + 1
              /\ inputs[i].discard => /\ sched[r].spec = 0 /\ sched[r].place = 0
                                      /\ req[r].real = Prompt + sched[r].known
    /\ ~sched[r].drop
    /\ Arriving(r) /\ sched[r].status # "finished" =>
         /\ truth[r].out = sched[r].known
         /\ \A i \in DOMAIN inputs : inputs[i].req = r => inputs[i].known = sched[r].known

IInv == /\ Shape /\ Typed /\ Batch /\ OutsMatch /\ PrevRows /\ Lengths /\ Incoming
        /\ HostAgrees /\ Deferral /\ Accounts /\ Chances

-----------------------------------------------------------------------------
(* Sequences, records and counts. *)

LEMMA AppendIs ==
  ASSUME NEW W, NEW s \in Seq(W), NEW e \in W, NEW t \in Seq(W),
         Len(t) = Len(s) + 1, \A i \in 1..Len(s) : t[i] = s[i], t[Len(t)] = e
  PROVE  Append(s, e) = t
<1>1. /\ Append(s, e) \in Seq(W) /\ Len(Append(s, e)) = Len(s) + 1
      /\ \A i \in 1..Len(s) : Append(s, e)[i] = s[i]
      /\ Append(s, e)[Len(s) + 1] = e
  BY AppendProperties
<1>2. Len(s) \in Nat
  BY LenProperties
<1>3. \A i \in 1..Len(t) : Append(s, e)[i] = t[i]
  BY <1>1, <1>2
<1> QED
  BY <1>1, <1>3, SeqEqual

LEMMA QueueMoves ==
  /\ Append(Q0, "prepare") = QP /\ Append(QS, "prepare") = QSP
  /\ Append(Q0, "sample") = QS /\ Append(QP, "sample") = QPS /\ Append(QSP, "sample") = QSPS
  /\ Head(QP) = "prepare" /\ Tail(QP) = Q0 /\ Head(QPS) = "prepare" /\ Tail(QPS) = QS
  /\ Head(QS) = "sample" /\ Tail(QS) = Q0 /\ Head(QSP) = "sample" /\ Tail(QSP) = QP
  /\ Head(QSPS) = "sample" /\ Tail(QSPS) = QPS
<1>1. Append(Q0, "prepare") = QP /\ Append(Q0, "sample") = QS
  BY DEF Q0, QP, QS
<1> DEFINE Words == {"prepare", "sample"}
<1>a. QP \in Seq(Words) /\ QS \in Seq(Words) /\ QPS \in Seq(Words) /\ QSP \in Seq(Words) /\ QSPS \in Seq(Words)
  BY DEF QP, QS, QPS, QSP, QSPS
<1>b. /\ Len(QP) = 1 /\ Len(QS) = 1 /\ Len(QPS) = 2 /\ Len(QSP) = 2 /\ Len(QSPS) = 3
      /\ QP[1] = "prepare" /\ QS[1] = "sample" /\ QPS[1] = "prepare" /\ QPS[2] = "sample"
      /\ QSP[1] = "sample" /\ QSP[2] = "prepare"
      /\ QSPS[1] = "sample" /\ QSPS[2] = "prepare" /\ QSPS[3] = "sample"
  BY DEF QP, QS, QPS, QSP, QSPS
<1>c. "prepare" \in Words /\ "sample" \in Words
  OBVIOUS
<1> HIDE DEF Words
<1>2. Append(QS, "prepare") = QSP
  <2>1. Len(QSP) = Len(QS) + 1 /\ (\A i \in 1..Len(QS) : QSP[i] = QS[i]) /\ QSP[Len(QSP)] = "prepare"
    BY <1>b
  <2> QED
    BY <1>a, <1>c, <2>1, AppendIs
<1>3. Append(QP, "sample") = QPS
  <2>1. Len(QPS) = Len(QP) + 1 /\ (\A i \in 1..Len(QP) : QPS[i] = QP[i]) /\ QPS[Len(QPS)] = "sample"
    BY <1>b
  <2> QED
    BY <1>a, <1>c, <2>1, AppendIs
<1>9. Append(QSP, "sample") = QSPS
  <2>1. Len(QSPS) = Len(QSP) + 1 /\ (\A i \in 1..Len(QSP) : QSPS[i] = QSP[i]) /\ QSPS[Len(QSPS)] = "sample"
    BY <1>b
  <2> QED
    BY <1>a, <1>c, <2>1, AppendIs
<1>4. Head(QP) = "prepare" /\ Head(QPS) = "prepare" /\ Head(QS) = "sample" /\ Head(QSP) = "sample" /\ Head(QSPS) = "sample"
  BY DEF QP, QS, QPS, QSP, QSPS
<1>5. Tail(QP) = Q0 /\ Tail(QS) = Q0
  BY DEF Q0, QP, QS
<1>6. Tail(QPS) = QS
  BY DEF QPS, QS
<1>7. Tail(QSP) = QP
  BY DEF QP, QSP
<1>8. Tail(QSPS) = QPS
  BY DEF QPS, QSPS
<1> QED
  BY <1>1, <1>2, <1>3, <1>4, <1>5, <1>6, <1>7, <1>8, <1>9

LEMMA QueuesDiffer ==
  /\ Q0 # QP /\ Q0 # QS /\ Q0 # QPS /\ Q0 # QSP /\ Q0 # QSPS
  /\ QP # QS /\ QP # QPS /\ QP # QSP /\ QP # QSPS
  /\ QS # QPS /\ QS # QSP /\ QS # QSPS /\ QPS # QSP /\ QPS # QSPS /\ QSP # QSPS
<1>1. /\ Len(Q0) = 0 /\ Len(QP) = 1 /\ Len(QS) = 1 /\ Len(QPS) = 2 /\ Len(QSP) = 2 /\ Len(QSPS) = 3
  BY DEF Q0, QP, QS, QPS, QSP, QSPS
<1>2. Head(QP) # Head(QS) /\ Head(QPS) # Head(QSP)
  BY QueueMoves
<1>3. QP # QS /\ QPS # QSP
  BY <1>2, Zenon
<1>4. /\ Len(Q0) # Len(QP) /\ Len(Q0) # Len(QS) /\ Len(Q0) # Len(QPS) /\ Len(Q0) # Len(QSP) /\ Len(Q0) # Len(QSPS)
      /\ Len(QP) # Len(QPS) /\ Len(QP) # Len(QSP) /\ Len(QP) # Len(QSPS)
      /\ Len(QS) # Len(QPS) /\ Len(QS) # Len(QSP) /\ Len(QS) # Len(QSPS)
      /\ Len(QPS) # Len(QSPS) /\ Len(QSP) # Len(QSPS)
  BY <1>1, SMT
<1> QED
  BY <1>3, <1>4, ZenonT(30)

LEMMA QueueMembers ==
  /\ Q0 = <<>>
  /\ "prepare" \notin Members(Q0) /\ "prepare" \in Members(QP) /\ "prepare" \notin Members(QS)
  /\ "prepare" \in Members(QPS) /\ "prepare" \in Members(QSP) /\ "prepare" \in Members(QSPS)
  /\ "sample" \notin Members(Q0) /\ "sample" \notin Members(QP) /\ "sample" \in Members(QS)
  /\ "sample" \in Members(QPS) /\ "sample" \in Members(QSP) /\ "sample" \in Members(QSPS)
BY DEF Q0, QP, QS, QPS, QSP, QSPS, Members

LEMMA ListItem ==
  ASSUME NEW S, NEW s \in Seq(S), NEW i \in DOMAIN s
  PROVE  s[i] \in S /\ i \in Nat /\ i # 0
<1>1. PICK n \in Nat : s \in [1..n -> S]
  BY SeqDef
<1> QED
  BY <1>1

LEMMA MapIsList ==
  ASSUME NEW S, NEW T, NEW s \in Seq(S), NEW f, f = [i \in DOMAIN s |-> f[i]],
         \A i \in DOMAIN s : f[i] \in T
  PROVE  f \in Seq(T)
<1>1. PICK n \in Nat : s \in [1..n -> S]
  BY SeqDef
<1>2. f \in [1..n -> T]
  BY <1>1
<1> QED
  BY <1>2, SeqDef

\* An order of the rows of a finite batch has every request of it once.
LEMMA OrderingIsOnto ==
  ASSUME NEW S, IsFiniteSet(S), NEW s \in Orderings(S)
  PROVE  /\ s \in [1..Cardinality(S) -> S] /\ Cardinality(S) \in Nat
         /\ \A i, j \in DOMAIN s : s[i] = s[j] => i = j
         /\ \A r \in S : \E i \in DOMAIN s : s[i] = r
         /\ Members(s) = S
<1>1. s \in [1..Cardinality(S) -> S] /\ \A i, j \in DOMAIN s : s[i] = s[j] => i = j
  BY DEF Orderings
<1>2. Cardinality(S) \in Nat
  BY FS_CardinalityType
<1>3. s \in Injection(1..Cardinality(S), S)
  BY <1>1 DEF Injection, IsInjective
<1>4. Cardinality(1..Cardinality(S)) = Cardinality(S)
  <2> DEFINE n == Cardinality(S)
  <2>1. n \in Nat
    BY <1>2
  <2> HIDE DEF n
  <2>2. Cardinality(1..n) = IF 1 > n THEN 0 ELSE n - 1 + 1
    BY <2>1, FS_Interval
  <2>3. Cardinality(1..n) = n
    BY <2>1, <2>2
  <2> QED
    BY <2>3 DEF n
<1>5. s \in Surjection(1..Cardinality(S), S)
  BY <1>3, <1>4, FS_Injection
<1>6. \A r \in S : \E i \in DOMAIN s : s[i] = r
  BY <1>1, <1>5 DEF Surjection
<1> QED
  BY <1>1, <1>2, <1>6 DEF Members

\* What a request has in a step is in its one row there.
LEMMA AmountIs ==
  ASSUME NEW s, Once(s), NEW i \in DOMAIN s
  PROVE  Amount(s, s[i].req) = s[i].n
<1> DEFINE r == s[i].req
<1>1. In(s, r)
  BY DEF In
<1>2. \A j \in DOMAIN s : s[j].req = r => j = i
  BY DEF Once
<1>3. (CHOOSE j \in DOMAIN s : s[j].req = r) = i
  BY <1>2
<1> QED
  BY <1>1, <1>3 DEF Amount

LEMMA AmountNone ==
  ASSUME NEW s, NEW r, ~In(s, r)
  PROVE  Amount(s, r) = 0
BY DEF Amount

LEMMA AmountType ==
  ASSUME NEW s \in Seq(Rows) \cup Seq(GpuRows), Once(s), NEW r
  PROVE  Amount(s, r) \in Nat
<1>1. CASE ~In(s, r)
  BY <1>1, AmountNone
<1>2. CASE In(s, r)
  <2>1. PICK i \in DOMAIN s : s[i].req = r
    BY <1>2 DEF In
  <2>2. s[i] \in Rows \cup GpuRows
    BY ListItem
  <2> QED
    BY <2>1, <2>2, AmountIs DEF Rows, GpuRows
<1> QED
  BY <1>1, <1>2

LEMMA SameAmount ==
  ASSUME NEW s, NEW t, Same(s, t), Once(t), NEW r
  PROVE  Amount(s, r) = Amount(t, r) /\ (In(s, r) <=> In(t, r)) /\ Once(s)
<1>1. Once(s) /\ (In(s, r) <=> In(t, r))
  BY DEF Same, Once, In
<1>2. CASE ~In(s, r)
  BY <1>1, <1>2, AmountNone
<1>3. CASE In(s, r)
  <2>1. PICK i \in DOMAIN s : s[i].req = r
    BY <1>3 DEF In
  <2>2. i \in DOMAIN t /\ t[i].req = r /\ t[i].n = s[i].n
    BY <2>1 DEF Same
  <2>3. Amount(s, s[i].req) = s[i].n
    BY <1>1, <2>1, AmountIs
  <2>4. Amount(t, t[i].req) = t[i].n
    BY <2>2, AmountIs
  <2> QED
    BY <1>1, <2>1, <2>2, <2>3, <2>4
<1> QED
  BY <1>1, <1>2, <1>3

-----------------------------------------------------------------------------
(* The pipeline when the engine may schedule. *)

LEMMA SchedulePipe ==
  ASSUME IInv, Depth = 2, MaySchedule
  PROVE  /\ pc = "idle" /\ queue \in {Q0, QS}
         /\ ~HasOld /\ ~Preparing /\ ~OldUnsampled /\ (NewUnsampled <=> queue = QS)
         /\ rows = <<>> => ~HasNew /\ queue = Q0
         /\ rows # <<>> => HasNew
         /\ HasNew => Len(outputs) = 1 /\ NewOut = outputs[1]
         /\ Len(outputs) \in {0, 1}
<1>1. pc = "idle" /\ Len(outputs) < 2 /\ "prepare" \notin Members(queue) /\ (rows = <<>> => outputs = <<>>)
  BY DEF MaySchedule, BuffersFree
<1>2. Len(outputs) \in {0, 1}
  BY <1>1 DEF IInv, Shape
<1>3. queue \in {Q0, QS}
  BY <1>1, QueueMembers DEF IInv, Shape
<1>4. ~Preparing /\ ~OldUnsampled /\ (NewUnsampled <=> queue = QS)
  BY <1>1, <1>3, QueuesDiffer DEF Preparing, OldUnsampled, NewUnsampled
<1>5. ~HasOld
  BY <1>1, <1>2 DEF HasOld
<1>6. Len(<<>>) = 0
  OBVIOUS
<1>7. rows = <<>> => ~HasNew /\ queue = Q0
  BY <1>1, <1>3, <1>6 DEF HasNew, IInv, Shape
<1>8. rows # <<>> => HasNew
  BY <1>1 DEF IInv, Shape
<1>9. HasNew => Len(outputs) = 1 /\ NewOut = outputs[1]
  BY <1>2 DEF HasNew, NewOut
<1> QED
  BY <1>1, <1>2, <1>3, <1>4, <1>5, <1>7, <1>8, <1>9

\* The types of a request's records.
LEMMA RequestTypes ==
  ASSUME Typed, NEW r \in Reqs
  PROVE  /\ sched[r] \in Requests /\ sched[r].status \in Statuses /\ sched[r].known \in Nat
         /\ sched[r].place \in Int /\ sched[r].comp \in Int /\ sched[r].spec \in 0..NumSpec
         /\ sched[r].drop \in BOOLEAN
         /\ req[r] \in Cached /\ req[r].comp \in Int /\ req[r].outs \in Int /\ req[r].draft \in 0..NumSpec
         /\ req[r].real \in Nat
         /\ prevRow[r] \in Nat /\ truth[r].comp \in Nat /\ truth[r].out \in Nat
BY DEF Typed, Requests, Cached

LEMMA InputTypes ==
  ASSUME Typed, NEW i \in DOMAIN inputs
  PROVE  /\ i \in Nat \ {0} /\ inputs[i] \in Rows /\ inputs[i].req \in Reqs
         /\ inputs[i].n \in Nat /\ inputs[i].d \in 0..NumSpec /\ inputs[i].d \in Int
         /\ inputs[i].at \in Int /\ inputs[i].pinned \in Int /\ inputs[i].real \in Nat
         /\ inputs[i].prev \in Nat /\ inputs[i].drafts \in 0..NumSpec /\ inputs[i].discard \in BOOLEAN
         /\ inputs[i].fresh \in BOOLEAN /\ inputs[i].known \in Nat
<1>1. inputs[i] \in Rows /\ i \in Nat /\ i # 0
  BY ListItem DEF Typed
<1> QED
  BY <1>1, Sizes DEF Rows

LEMMA GpuTypes ==
  ASSUME Typed, NEW i \in DOMAIN gpuRows
  PROVE  /\ i \in Nat \ {0} /\ gpuRows[i] \in GpuRows /\ gpuRows[i].req \in Reqs
         /\ gpuRows[i].n \in Nat /\ gpuRows[i].d \in 0..NumSpec /\ gpuRows[i].d \in Int
         /\ gpuRows[i].discard \in BOOLEAN /\ gpuRows[i].len \in Int
<1>1. gpuRows[i] \in GpuRows /\ i \in Nat /\ i # 0
  BY ListItem DEF Typed
<1> QED
  BY <1>1, Sizes DEF GpuRows

LEMMA SampledTypes ==
  ASSUME Typed, NEW i \in DOMAIN sampled
  PROVE  /\ i \in Nat \ {0} /\ sampled[i].req \in Reqs /\ sampled[i].pos \in Int /\ sampled[i].count \in Nat
<1>1. sampled[i] \in SampledRecs /\ i \in Nat /\ i # 0
  BY ListItem DEF Typed
<1> QED
  BY <1>1 DEF SampledRecs

\* Who is in the batch is in the latest step.
LEMMA RowIsInput ==
  ASSUME IInv, NEW r \in Reqs
  PROVE  /\ r \in Members(rows) => rows # <<>> /\ In(inputs, r)
         /\ rows # <<>> /\ In(inputs, r) => r \in Members(rows)
<1>1. CASE rows = <<>>
  BY <1>1 DEF Members
<1>2. CASE rows # <<>>
  BY <1>2 DEF IInv, Batch, Members, In
<1> QED
  BY <1>1, <1>2

\* When the engine may schedule, nothing is held for a request that the latest step left out.
LEMMA NothingHeld ==
  ASSUME IInv, Depth = 2, MaySchedule, NEW r \in Reqs, r \notin Members(rows)
  PROVE  /\ NewHolds(r) = 0 /\ NewGives(r) = 0 /\ NewRejects(r) = 0 /\ NewAmount(r) = 0
<1>1. CASE ~HasNew
  <2>1. NewHolds(r) = 0 /\ NewGives(r) = 0 /\ NewRejects(r) = 0
    BY <1>1 DEF NewHolds, NewGives, NewRejects
  <2>2. ~NewUnsampled
    BY <1>1, SchedulePipe, QueuesDiffer
  <2> QED
    BY <2>1, <2>2 DEF NewAmount
<1>2. CASE HasNew
  <2>1. rows # <<>>
    BY <1>2, SchedulePipe
  <2>2. ~In(inputs, r)
    BY <2>1, RowIsInput
  <2>3. r \notin DOMAIN NewOut.of
    BY <1>2, <2>2 DEF IInv, OutsMatch, OutOf
  <2>4. ~Counted(NewOut, r)
    BY <2>3 DEF Counted
  <2> QED
    BY <2>2, <2>4, AmountNone DEF NewHolds, NewGives, NewRejects, NewAmount, Holds, Gives, Rejects
<1> QED
  BY <1>1, <1>2

LEMMA HostHoldsNone ==
  ASSUME IInv, Depth = 2, MaySchedule, NEW r \in Reqs
  PROVE  OldHolds(r) = 0 /\ OldGives(r) = 0 /\ OldRejects(r) = 0 /\ HostHolds(r) = 0 /\ OldAmount(r) = 0
         /\ Base(r) = truth[r].comp
BY SchedulePipe DEF OldHolds, OldGives, OldRejects, HostHolds, OldAmount, Base, Arriving

\* What a chunk may be.
LEMMA ChunkFacts ==
  ASSUME IInv, Depth = 2, MaySchedule, NEW r \in Reqs, Schedulable(r), NEW c \in Chunks(r)
  PROVE  /\ c.n \in Nat /\ c.d \in Nat /\ c.d <= NumSpec
         /\ c.n >= 1 + c.d /\ (c.d > 0 => c.n = 1 + c.d)
         /\ Samples(sched[r], c) => sched[r].comp + c.n = Length(sched[r]) + c.d
         /\ ~Samples(sched[r], c) => c.d = 0 /\ sched[r].comp + c.n < Length(sched[r])
         /\ \A i \in DOMAIN inputs :
              inputs[i].req = r /\ sched[r].status = "running" /\ ~inputs[i].discard =>
                c.n = 1 + c.d /\ Samples(sched[r], c)
         /\ (r \notin Members(rows) \/ \E i \in DOMAIN inputs : inputs[i].req = r /\ inputs[i].discard)
              => c.d = 0 /\ sched[r].place = 0 /\ sched[r].comp + c.n <= Prompt + sched[r].known
<1> DEFINE left == Length(sched[r]) - sched[r].comp
           spec == IF r \in Members(rows) THEN sched[r].spec ELSE 0
<1>1. /\ Prompt \in Nat /\ Prompt > 0 /\ NumSpec \in Nat
  BY Sizes
<1>2. /\ sched[r].known \in Nat /\ sched[r].place \in Int /\ sched[r].comp \in Int /\ sched[r].spec \in 0..NumSpec
  BY RequestTypes DEF IInv
<1>3. Length(sched[r]) \in Int /\ left \in Int /\ Length(sched[r]) = sched[r].comp + left
      /\ Length(sched[r]) = Prompt + sched[r].known + sched[r].place
  BY <1>1, <1>2 DEF Length
<1>4. spec \in Nat /\ spec <= NumSpec
  BY <1>1, <1>2
<1>5. sched[r].status \in {"new", "preempted", "running"}
  BY DEF Schedulable
<1>6. left >= 1
  <2>1. CASE sched[r].status = "running"
    <3>1. sched[r].comp < Length(sched[r])
      BY <2>1 DEF IInv, Chances
    <3> QED
      BY <3>1, <1>2, <1>3
  <2>2. CASE sched[r].status \in {"new", "preempted"}
    <3>1. sched[r].comp = 0
      BY <2>2 DEF IInv, Chances
    <3>2. sched[r].place >= 0
      BY <1>1, <1>2 DEF IInv, Accounts
    <3> QED
      BY <1>1, <1>2, <1>3, <3>1, <3>2
  <2> QED
    BY <1>5, <2>1, <2>2
<1>7. r \notin Members(rows) => spec = 0 /\ sched[r].place = 0
  <2> SUFFICES ASSUME r \notin Members(rows)
               PROVE  spec = 0 /\ sched[r].place = 0
    OBVIOUS
  <2>1. sched[r].place = OldHolds(r) + NewHolds(r) + HostHolds(r)
    BY <1>5 DEF IInv, Accounts
  <2> QED
    BY <2>1, NothingHeld, HostHoldsNone
<1>8. ASSUME NEW i \in DOMAIN inputs, inputs[i].req = r, sched[r].status = "running"
      PROVE  /\ ~inputs[i].discard => left = 1
             /\ inputs[i].discard => spec = 0 /\ sched[r].place = 0
  <2>1. ~inputs[i].discard => Length(sched[r]) = sched[r].comp + 1
    BY <1>8 DEF IInv, Chances
  <2>2. inputs[i].discard => sched[r].spec = 0 /\ sched[r].place = 0
    BY <1>8 DEF IInv, Chances
  <2> QED
    BY <2>1, <2>2, <1>2, <1>3
<1>9. spec > 0 => left = 1
  <2> SUFFICES ASSUME spec > 0
               PROVE  left = 1
    OBVIOUS
  <2>1. r \in Members(rows)
    BY <1>4
  <2>2. sched[r].status = "running"
    BY <1>5, <2>1 DEF IInv, Chances
  <2>3. PICK i \in DOMAIN inputs : inputs[i].req = r
    BY <2>1, RowIsInput DEF In
  <2> QED
    BY <2>2, <2>3, <1>8
<1>10. \/ c.n \in 1..(left - 1) /\ c.d = 0
       \/ c.n = left + spec /\ c.d = spec
  <2>1. c \in [n : 1..(left - 1), d : {0}] \cup {[n |-> left + spec, d |-> spec]}
    BY DEF Chunks
  <2> HIDE DEF left, spec
  <2> QED
    BY <2>1
<1>11. Samples(sched[r], c) <=> sched[r].comp + c.n >= Length(sched[r])
  BY DEF Samples
<1>12. (\E i \in DOMAIN inputs : inputs[i].req = r /\ inputs[i].discard) => spec = 0 /\ sched[r].place = 0
  <2> SUFFICES ASSUME NEW i \in DOMAIN inputs, inputs[i].req = r, inputs[i].discard
               PROVE  spec = 0 /\ sched[r].place = 0
    OBVIOUS
  <2>1. CASE r \notin Members(rows)
    BY <2>1, <1>7
  <2>2. CASE r \in Members(rows)
    <3>1. sched[r].status = "running"
      BY <1>5, <2>2 DEF IInv, Chances
    <3> QED
      BY <3>1, <1>8
  <2> QED
    BY <2>1, <2>2
<1> HIDE DEF left, spec
<1>13. /\ c.n \in Nat /\ c.d \in Nat /\ c.d <= NumSpec
       /\ c.n >= 1 + c.d /\ (c.d > 0 => c.n = 1 + c.d)
  BY <1>1, <1>3, <1>4, <1>6, <1>9, <1>10
<1>14. sched[r].comp + c.n >= Length(sched[r]) => c.n = left + spec /\ c.d = spec
  BY <1>2, <1>3, <1>10
<1>15. /\ Samples(sched[r], c) => sched[r].comp + c.n = Length(sched[r]) + c.d
       /\ ~Samples(sched[r], c) => c.d = 0 /\ sched[r].comp + c.n < Length(sched[r])
  BY <1>2, <1>3, <1>4, <1>6, <1>10, <1>11, <1>14, <1>13
<1>16. left = 1 => c.n = 1 + c.d /\ Samples(sched[r], c)
  BY <1>2, <1>3, <1>4, <1>10, <1>11
<1>17. spec = 0 /\ sched[r].place = 0 => c.d = 0 /\ sched[r].comp + c.n <= Prompt + sched[r].known
  BY <1>1, <1>2, <1>3, <1>10
<1> QED
  BY <1>7, <1>8, <1>12, <1>13, <1>15, <1>16, <1>17

-----------------------------------------------------------------------------
(* The launch of a step. *)

OrdersOf(S, c) == [r \in S |-> Order(sched[r], c[r])]
KeptOf(S, c) == Kept(OrdersOf(S, c), {r \in Reqs : sched[r].status = "finished"})

\* ExecuteModel for the requests S with the chunks c, in the order s of the rows.
Launch(S, P, c, s) ==
  /\ MaySchedule
  /\ S \in SUBSET Reqs /\ S # {} /\ \A r \in S : Schedulable(r) /\ c[r] \in Chunks(r)
  /\ P \in SUBSET {r \in Reqs \ S : sched[r].status = "running"}
  /\ s \in Orderings(S)
  /\ plan' = [orders |-> OrdersOf(S, c), deferred |-> [r \in Deferred(KeptOf(S, c)) |-> req[r].draft]]
  /\ sched' = [r \in Reqs |->
       IF r \in S THEN Scheduled(sched[r], c[r])
       ELSE IF r \in P THEN Preempted(sched[r]) ELSE sched[r]]
  /\ req' = [r \in Reqs |-> IF r \in S THEN Updated(r, OrdersOf(S, c)[r], KeptOf(S, c)) ELSE req[r]]
  /\ rows' = s /\ inputs' = Prepared(s, OrdersOf(S, c), KeptOf(S, c))
  /\ queue' = Append(queue, "prepare")
  /\ pc' = "launched"
  /\ UNCHANGED <<prevRow, gpuRows, sampled, outputs, truth>>

LEMMA ModelIsLaunch ==
  ASSUME NEW S \in SUBSET Reqs, S # {}, \A r \in S : Schedulable(r),
         NEW P \in SUBSET {r \in Reqs \ S : sched[r].status = "running"}, ExecuteModel(S, P)
  PROVE  \E c, s : Launch(S, P, c, s)
<1>1. PICK c \in [S -> UNION {Chunks(r) : r \in S}] :
        /\ \A r \in S : c[r] \in Chunks(r)
        /\ plan' = [orders |-> OrdersOf(S, c), deferred |-> [r \in Deferred(KeptOf(S, c)) |-> req[r].draft]]
        /\ sched' = [r \in Reqs |->
             IF r \in S THEN Scheduled(sched[r], c[r])
             ELSE IF r \in P THEN Preempted(sched[r]) ELSE sched[r]]
        /\ req' = [r \in Reqs |-> IF r \in S THEN Updated(r, OrdersOf(S, c)[r], KeptOf(S, c)) ELSE req[r]]
        /\ \E s \in Orderings(S) : rows' = s /\ inputs' = Prepared(s, OrdersOf(S, c), KeptOf(S, c))
  BY Zenon DEF ExecuteModel, OrdersOf, KeptOf
<1>2. PICK s \in Orderings(S) : rows' = s /\ inputs' = Prepared(s, OrdersOf(S, c), KeptOf(S, c))
  BY <1>1
<1>3. MaySchedule /\ queue' = Append(queue, "prepare") /\ pc' = "launched"
      /\ UNCHANGED <<prevRow, gpuRows, sampled, outputs, truth>>
  BY Zenon DEF ExecuteModel
<1>4. Launch(S, P, c, s)
  BY <1>1, <1>2, <1>3, Zenon DEF Launch
<1> QED
  BY <1>4

LEMMA LaunchRows ==
  ASSUME NEW S, NEW P, NEW c, NEW s, Launch(S, P, c, s)
  PROVE  /\ IsFiniteSet(S) /\ Cardinality(S) \in Nat \ {0} /\ Cardinality(S) <= MaxRows
         /\ DOMAIN s = 1..Cardinality(S) /\ s \in [1..Cardinality(S) -> S]
         /\ \A i, j \in DOMAIN s : s[i] = s[j] => i = j
         /\ \A r \in S : \E i \in DOMAIN s : s[i] = r
         /\ rows' = s /\ DOMAIN inputs' = DOMAIN s /\ Members(s) = S
         /\ s \in Seq(Reqs) /\ Len(s) = Cardinality(S) /\ s # <<>>
         /\ \A i \in DOMAIN s : s[i] \in S /\ s[i] \in Reqs /\ i \in Nat \ {0}
<1>1. S \in SUBSET Reqs /\ S # {} /\ s \in Orderings(S) /\ rows' = s
      /\ inputs' = Prepared(s, OrdersOf(S, c), KeptOf(S, c))
  BY Zenon DEF Launch
<1>2. IsFiniteSet(S) /\ Cardinality(S) <= MaxRows
  BY <1>1, Sizes, FS_Subset DEF MaxRows
<1>3. /\ s \in [1..Cardinality(S) -> S] /\ Cardinality(S) \in Nat
      /\ \A i, j \in DOMAIN s : s[i] = s[j] => i = j
      /\ \A r \in S : \E i \in DOMAIN s : s[i] = r
      /\ Members(s) = S
  BY <1>1, <1>2, OrderingIsOnto
<1>4. Cardinality(S) # 0
  BY <1>1, <1>2, FS_EmptySet
<1>5. DOMAIN inputs' = DOMAIN s
  BY <1>1 DEF Prepared
<1>6. s \in Seq(Reqs) /\ Len(s) = Cardinality(S)
  <2>1. s \in [1..Cardinality(S) -> Reqs]
    BY <1>1, <1>3
  <2> QED
    BY <2>1, <1>3, SeqDef
<1>7. s # <<>>
  BY <1>3, <1>4, <1>6
<1> QED
  BY <1>1, <1>2, <1>3, <1>4, <1>5, <1>6, <1>7

\* The requests whose rows stay.
LEMMA KeptIs ==
  ASSUME IInv, NEW S, NEW P, NEW c, NEW s, Launch(S, P, c, s), NEW r \in S
  PROVE  r \in KeptOf(S, c) <=> r \in Members(rows)
<1>1. r \in Reqs /\ Schedulable(r)
  BY Zenon DEF Launch
<1>2. sched[r].status \in {"new", "preempted", "running"}
  BY <1>1 DEF Schedulable
<1>3. r \in DOMAIN OrdersOf(S, c) /\ OrdersOf(S, c)[r].resumed = (sched[r].status = "preempted")
  BY DEF OrdersOf, Order
<1>4. r \in Members(rows) => sched[r].status \notin {"new", "preempted"}
  BY <1>1 DEF IInv, Chances
<1>5. r \in KeptOf(S, c) <=> /\ r \in Members(rows) 
                             /\ r \notin {q \in Reqs : sched[q].status = "finished"}
                             /\ r \in DOMAIN OrdersOf(S, c) /\ ~OrdersOf(S, c)[r].resumed
  BY Zenon DEF KeptOf, Kept
<1> QED
  BY <1>1, <1>2, <1>3, <1>4, <1>5

LEMMA KeptWithin ==
  ASSUME NEW S, NEW c, NEW r \in KeptOf(S, c)
  PROVE  r \in S /\ r \in Members(rows)
BY DEF KeptOf, Kept, OrdersOf

\* The row of a kept request, and the drafts it is taken to have had accepted.
LEMMA KeptRow ==
  ASSUME IInv, Depth = 2, NEW S, NEW P, NEW c, NEW s, Launch(S, P, c, s), NEW r \in S, r \in Members(rows)
  PROVE  \E i \in DOMAIN inputs :
           /\ inputs[i].req = r /\ sched[r].status = "running"
           /\ req[r].draft = inputs[i].d
           /\ sched[r].known + sched[r].place <= req[r].outs + req[r].draft
           /\ prevRow[r] = IF inputs[i].discard THEN 0 ELSE i
           /\ PrevDrafts(r, KeptOf(S, c)) = inputs[i].d
<1>1. r \in Reqs /\ Schedulable(r) /\ MaySchedule
  BY Zenon DEF Launch
<1>2. pc = "idle"
  BY <1>1 DEF MaySchedule
<1>3. rows # <<>>
  BY <1>1, RowIsInput
<1>4. PICK i \in DOMAIN rows : rows[i] = r
  BY DEF Members
<1>5. i \in DOMAIN inputs /\ inputs[i].req = r
  BY <1>3, <1>4 DEF IInv, Batch
<1>6. sched[r].status = "running"
  BY <1>1 DEF Schedulable, IInv, Chances
<1>7. req[r].draft = inputs[i].d /\ sched[r].known + sched[r].place <= req[r].outs + req[r].draft
  BY <1>2, <1>4, <1>6 DEF IInv, HostAgrees
<1>8. /\ i \in Nat \ {0} /\ inputs[i].d \in 0..NumSpec /\ inputs[i].d \in Int /\ inputs[i].discard \in BOOLEAN
      /\ prevRow[r] \in Nat
  BY <1>1, <1>5, InputTypes, RequestTypes DEF IInv
<1>9. \A j \in Nat \ {0} : prevRow[r] = j <=> (j \in DOMAIN inputs /\ inputs[j].req = r /\ ~inputs[j].discard)
  BY <1>1, <1>2 DEF IInv, PrevRows, Prev
<1>10. prevRow[r] = IF inputs[i].discard THEN 0 ELSE i
  <2>1. CASE ~inputs[i].discard
    BY <2>1, <1>5, <1>8, <1>9
  <2>2. CASE inputs[i].discard
    <3> SUFFICES ASSUME prevRow[r] # 0
                 PROVE  FALSE
      BY <2>2
    <3>1. prevRow[r] \in DOMAIN inputs /\ inputs[prevRow[r]].req = r /\ ~inputs[prevRow[r]].discard
      BY <1>8, <1>9
    <3> QED
      BY <3>1, <2>2, <1>5 DEF IInv, Batch, Once
  <2> QED
    BY <2>1, <2>2
<1>11. PrevDrafts(r, KeptOf(S, c)) = inputs[i].d
  <2>1. r \in KeptOf(S, c)
    BY KeptIs
  <2>2. r \in Deferred(KeptOf(S, c)) <=> inputs[i].d > 0
    BY <2>1, <1>7 DEF Deferred
  <2>3. inputs[i].d > 0 => ~inputs[i].discard
    BY <1>5, <1>8 DEF IInv, Batch, Sound
  <2>4. inputs[i].d > 0 => prevRow[r] # 0
    BY <2>3, <1>8, <1>10
  <2> QED
    BY <2>2, <2>4, <1>7, <1>8, Sizes DEF PrevDrafts
<1> QED
  BY <1>5, <1>6, <1>7, <1>10, <1>11

LEMMA NotKept ==
  ASSUME IInv, NEW S, NEW P, NEW c, NEW s, Launch(S, P, c, s), NEW r \in S, r \notin Members(rows)
  PROVE  PrevDrafts(r, KeptOf(S, c)) = 0
<1>1. r \notin KeptOf(S, c)
  BY KeptIs
<1> QED
  BY <1>1 DEF PrevDrafts, Deferred

LEMMA LaunchReq ==
  ASSUME IInv, Depth = 2, NEW S, NEW P, NEW c, NEW s, Launch(S, P, c, s)
  PROVE  /\ \A r \in S :
              LET u == Updated(r, OrdersOf(S, c)[r], KeptOf(S, c)) IN
              /\ req'[r] = u
              /\ u.comp = sched[r].comp /\ u.draft = c[r].d
              /\ u.outs = sched[r].known + sched[r].place
              /\ u.real = IF r \in Members(rows) THEN req[r].real ELSE Prompt + sched[r].known
         /\ \A r \in Reqs \ S : req'[r] = req[r]
<1>1. S \in SUBSET Reqs /\ MaySchedule
      /\ req' = [r \in Reqs |-> IF r \in S THEN Updated(r, OrdersOf(S, c)[r], KeptOf(S, c)) ELSE req[r]]
  BY Zenon DEF Launch
<1>2. \A r \in Reqs \ S : req'[r] = req[r]
  BY <1>1
<1>3. ASSUME NEW r \in S
      PROVE  LET u == Updated(r, OrdersOf(S, c)[r], KeptOf(S, c)) IN
              /\ req'[r] = u
              /\ u.comp = sched[r].comp /\ u.draft = c[r].d
              /\ u.outs = sched[r].known + sched[r].place
              /\ u.real = IF r \in Members(rows) THEN req[r].real ELSE Prompt + sched[r].known
  <2> DEFINE o == OrdersOf(S, c)[r]
             u == Updated(r, o, KeptOf(S, c))
  <2>1. r \in Reqs /\ req'[r] = u
    BY <1>1
  <2>2. o.comp = sched[r].comp /\ o.d = c[r].d /\ o.outs = sched[r].known + sched[r].place /\ o.known = sched[r].known
    BY DEF OrdersOf, Order
  <2> HIDE DEF o
  <2>3. /\ u.comp = o.comp /\ u.draft = o.d
        /\ u.outs = IF r \in KeptOf(S, c) THEN Least(req[r].outs + req[r].draft, o.outs) ELSE o.outs
        /\ u.real = IF r \in KeptOf(S, c) THEN req[r].real ELSE Prompt + o.known
    BY DEF Updated
  <2> HIDE DEF u
  <2>4. r \in KeptOf(S, c) <=> r \in Members(rows)
    BY KeptIs
  <2>5. r \in Members(rows) => o.outs <= req[r].outs + req[r].draft
    BY <2>2, KeptRow
  <2>6. o.outs \in Int /\ req[r].outs + req[r].draft \in Int
    <3>1. /\ sched[r].known \in Nat /\ sched[r].place \in Int
          /\ req[r].outs \in Int /\ req[r].draft \in 0..NumSpec
      BY <2>1, RequestTypes DEF IInv
    <3> QED
      BY <2>2, <3>1, Sizes
  <2>7. u.outs = o.outs
    BY <2>3, <2>4, <2>5, <2>6 DEF Least
  <2> QED
    BY <2>1, <2>2, <2>3, <2>4, <2>7 DEF o, u
<1> QED
  BY <1>2, <1>3

LEMMA LaunchSched ==
  ASSUME IInv, NEW S, NEW P, NEW c, NEW s, Launch(S, P, c, s), NEW r \in S
  PROVE  /\ sched'[r].status = "running" /\ sched'[r].known = sched[r].known
         /\ sched'[r].comp = sched[r].comp + c[r].n
         /\ sched'[r].place = IF Samples(sched[r], c[r]) THEN sched[r].place + 1 + c[r].d ELSE sched[r].place
         /\ sched'[r].spec = IF Samples(sched[r], c[r]) THEN NumSpec ELSE 0
         /\ sched'[r].drop = sched[r].drop
<1>1. /\ sched' = [q \in Reqs |->
            IF q \in S THEN Scheduled(sched[q], c[q])
            ELSE IF q \in P THEN Preempted(sched[q]) ELSE sched[q]]
      /\ r \in Reqs
  BY Zenon DEF Launch
<1>2. sched[r] \in Requests
  BY <1>1, RequestTypes DEF IInv
<1>3. sched'[r] = Scheduled(sched[r], c[r])
  BY <1>1
<1> QED
  BY <1>2, <1>3 DEF Scheduled, Requests

LEMMA LaunchOthers ==
  ASSUME IInv, NEW S, NEW P, NEW c, NEW s, Launch(S, P, c, s), NEW r \in Reqs \ S
  PROVE  /\ r \in P => /\ sched[r].status = "running" /\ sched'[r].status = "preempted"
                       /\ sched'[r].known = sched[r].known /\ sched'[r].comp = 0
                       /\ sched'[r].place = sched[r].place /\ sched'[r].drop = sched[r].drop
         /\ r \notin P => sched'[r] = sched[r]
<1>1. sched' = [q \in Reqs |->
       IF q \in S THEN Scheduled(sched[q], c[q])
       ELSE IF q \in P THEN Preempted(sched[q]) ELSE sched[q]]
      /\ P \in SUBSET {q \in Reqs \ S : sched[q].status = "running"}
  BY Zenon DEF Launch
<1>2. sched[r] \in Requests
  BY RequestTypes DEF IInv
<1>3. CASE r \in P
  <2>1. sched'[r] = Preempted(sched[r])
    BY <1>1, <1>3
  <2> QED
    BY <1>1, <1>2, <1>3, <2>1 DEF Preempted, Requests
<1>4. CASE r \notin P
  BY <1>1, <1>4
<1> QED
  BY <1>3, <1>4

\* The rows of the step, by what the scheduler gave.
LEMMA LaunchInput ==
  ASSUME IInv, Depth = 2, NEW S, NEW P, NEW c, NEW s, Launch(S, P, c, s), NEW i \in DOMAIN s
  PROVE  LET r == s[i]  x == inputs'[i] IN
         /\ r \in S /\ r \in Reqs /\ x.req = r /\ x.n = c[r].n /\ x.d = c[r].d
         /\ x.at = sched[r].comp /\ x.pinned = sched[r].comp
         /\ x.real = IF r \in Members(rows) THEN req[r].real ELSE Prompt + sched[r].known
         /\ x.prev = prevRow[r] /\ x.drafts = PrevDrafts(r, KeptOf(S, c))
         /\ x.discard \in BOOLEAN /\ (x.discard <=> ~Samples(sched[r], c[r]))
         /\ x.fresh \in BOOLEAN /\ (x.fresh <=> sched[r].status \in {"new", "preempted"})
         /\ x.known = sched[r].known
<1> DEFINE r == s[i]
           o == OrdersOf(S, c)[r]
           u == Updated(r, o, KeptOf(S, c))
<1>1. r \in S /\ r \in Reqs
  BY LaunchRows
<1>2. inputs' = Prepared(s, OrdersOf(S, c), KeptOf(S, c)) /\ c[r] \in Chunks(r) /\ Schedulable(r) /\ MaySchedule
  BY <1>1, Zenon DEF Launch
<1>3. /\ o.comp = sched[r].comp /\ o.n = c[r].n /\ o.d = c[r].d /\ o.known = sched[r].known
      /\ o.new = (sched[r].status = "new") /\ o.resumed = (sched[r].status = "preempted")
  BY <1>1 DEF OrdersOf, Order
<1>4. /\ u.comp = sched[r].comp /\ u.outs = sched[r].known + sched[r].place
      /\ u.real = IF r \in Members(rows) THEN req[r].real ELSE Prompt + sched[r].known
  BY <1>1, LaunchReq
<1>5. Discarded(u, o) \in BOOLEAN /\ (Discarded(u, o) <=> ~Samples(sched[r], c[r]))
  <2>1. c[r].n \in Nat
    BY <1>1, <1>2, ChunkFacts
  <2>2. sched[r].comp \in Int /\ sched[r].known \in Nat /\ sched[r].place \in Int
    BY <1>1, RequestTypes DEF IInv
  <2> HIDE DEF r, o, u
  <2>3. Discarded(u, o) <=> u.comp + o.n < Prompt + u.outs
    BY DEF Discarded
  <2>4. Samples(sched[r], c[r]) <=> sched[r].comp + c[r].n >= Prompt + sched[r].known + sched[r].place
    BY DEF Samples, Length
  <2>5. Discarded(u, o) \in BOOLEAN
    BY <1>3, <1>4, <2>1, <2>2, Sizes DEF Discarded
  <2> QED
    BY <1>3, <1>4, <2>1, <2>2, <2>3, <2>4, <2>5, Sizes
<1>6. _compute_prev_positions(s)[i] = prevRow[r]
  BY DEF _compute_prev_positions
<1>7. inputs'[i] =
      [req |-> r, n |-> o.n, d |-> o.d, at |-> u.comp, pinned |-> u.comp,
         real |-> u.real, prev |-> _compute_prev_positions(s)[i], drafts |-> PrevDrafts(r, KeptOf(S, c)),
         discard |-> Discarded(u, o), fresh |-> o.new \/ o.resumed, known |-> o.known]
  BY <1>2 DEF Prepared
<1> HIDE DEF o, u
<1>8. (o.new \/ o.resumed) \in BOOLEAN /\ ((o.new \/ o.resumed) <=> sched[r].status \in {"new", "preempted"})
  <2>1. (o.new <=> sched[r].status = "new") /\ (o.resumed <=> sched[r].status = "preempted")
    BY <1>3, Zenon
  <2> QED
    BY <2>1, Zenon
<1> QED
  BY <1>1, <1>3, <1>4, <1>5, <1>6, <1>7, <1>8

LEMMA LaunchFields ==
  ASSUME NEW S, NEW P, NEW c, NEW s, Launch(S, P, c, s), NEW i \in DOMAIN s
  PROVE  LET x == inputs'[i] IN
         /\ DOMAIN x = {"req", "n", "d", "at", "pinned", "real", "prev", "drafts", "discard", "fresh", "known"}
         /\ x = [f \in DOMAIN x |-> x[f]]
<1>1. inputs' = Prepared(s, OrdersOf(S, c), KeptOf(S, c))
  BY Zenon DEF Launch
<1> QED
  BY <1>1 DEF Prepared

LEMMA LaunchPipe ==
  ASSUME IInv, Depth = 2, NEW S, NEW P, NEW c, NEW s, Launch(S, P, c, s)
  PROVE  /\ MaySchedule /\ pc = "idle" /\ pc' = "launched"
         /\ queue \in {Q0, QS} /\ (queue = Q0 => queue' = QP) /\ (queue = QS => queue' = QSP)
         /\ queue' \in {QP, QSP} /\ (queue' = QSP <=> queue = QS)
         /\ outputs' = outputs /\ gpuRows' = gpuRows /\ sampled' = sampled /\ prevRow' = prevRow /\ truth' = truth
         /\ Preparing' /\ (OldUnsampled' <=> queue = QS) /\ NewUnsampled'
         /\ (HasOld' <=> HasNew) /\ ~HasNew' /\ (HasNew => OldOut' = NewOut)
         /\ (queue = QS => HasNew /\ rows # <<>>) /\ (HasNew => rows # <<>>)
         /\ Same(gpuRows, inputs)
<1>1. /\ MaySchedule /\ queue' = Append(queue, "prepare") /\ pc' = "launched"
      /\ outputs' = outputs /\ gpuRows' = gpuRows /\ sampled' = sampled /\ prevRow' = prevRow /\ truth' = truth
  BY Zenon DEF Launch
<1>2. /\ pc = "idle" /\ queue \in {Q0, QS}
      /\ ~HasOld /\ ~Preparing /\ ~OldUnsampled /\ (NewUnsampled <=> queue = QS)
      /\ rows = <<>> => ~HasNew /\ queue = Q0
      /\ rows # <<>> => HasNew
      /\ HasNew => Len(outputs) = 1 /\ NewOut = outputs[1]
      /\ Len(outputs) \in {0, 1}
  BY <1>1, SchedulePipe
<1>3. (queue = Q0 => queue' = QP) /\ (queue = QS => queue' = QSP)
  BY <1>1, QueueMoves
<1>4. queue' \in {QP, QSP} /\ (queue' = QSP <=> queue = QS)
  BY <1>2, <1>3, QueuesDiffer
<1>5. Preparing' /\ (OldUnsampled' <=> queue = QS) /\ NewUnsampled'
  BY <1>1, <1>4, QueuesDiffer DEF Preparing, OldUnsampled, NewUnsampled
<1>6. (HasOld' <=> HasNew) /\ ~HasNew' /\ (HasNew => OldOut' = NewOut)
  BY <1>1, <1>2 DEF HasOld, HasNew, OldOut
<1>7. Same(gpuRows, inputs)
  BY <1>2 DEF IInv, Batch
<1>8. (queue = QS => HasNew /\ rows # <<>>) /\ (HasNew => rows # <<>>)
  BY <1>2, QueuesDiffer
<1> QED
  BY <1>1, <1>2, <1>3, <1>4, <1>5, <1>6, <1>7, <1>8

LEMMA LaunchShape ==
  ASSUME IInv, Depth = 2, NEW S, NEW P, NEW c, NEW s, Launch(S, P, c, s)
  PROVE  Shape'
<1>1. rows' # <<>>
  BY LaunchRows
<1>2. Len(outputs) \in {0, 1}
  BY LaunchPipe, SchedulePipe
<1>3. HasNew => (NewOut.ready <=> queue = Q0)
  BY LaunchPipe DEF IInv, Shape
<1>4. (queue' = QSP => HasOld') /\ (HasOld' => (OldOut'.ready <=> queue' # QSP))
  BY <1>3, LaunchPipe, QueuesDiffer
<1> QED
  BY <1>1, <1>2, <1>4, LaunchPipe DEF Shape

LEMMA LaunchTypes ==
  ASSUME IInv, Depth = 2, NEW S, NEW P, NEW c, NEW s, Launch(S, P, c, s)
  PROVE  Typed'
<1>1. /\ S \in SUBSET Reqs /\ MaySchedule /\ \A r \in S : Schedulable(r) /\ c[r] \in Chunks(r)
      /\ sched' = [r \in Reqs |->
           IF r \in S THEN Scheduled(sched[r], c[r])
           ELSE IF r \in P THEN Preempted(sched[r]) ELSE sched[r]]
      /\ req' = [r \in Reqs |-> IF r \in S THEN Updated(r, OrdersOf(S, c)[r], KeptOf(S, c)) ELSE req[r]]
  BY Zenon DEF Launch
<1>2. \A r \in S : c[r].n \in Nat /\ c[r].d \in Nat /\ c[r].d <= NumSpec
  BY <1>1, ChunkFacts
<1>3. sched' \in [Reqs -> Requests]
  <2> SUFFICES ASSUME NEW r \in Reqs
               PROVE  sched'[r] \in Requests
    BY <1>1
  <2>1. sched[r] \in Requests
    BY RequestTypes DEF IInv
  <2>2. CASE r \in S
    <3>1. sched'[r] = Scheduled(sched[r], c[r])
      BY <1>1, <2>2
    <3> QED
      <4> DEFINE z == sched[r]
                 n == z.comp + c[r].n
                 p == z.place + 1 + c[r].d
      <4>1. n \in Int /\ p \in Int /\ NumSpec \in 0..NumSpec /\ 0 \in 0..NumSpec
        BY <1>2, <2>1, <2>2, Sizes DEF Requests
      <4>2. \/ sched'[r] = [z EXCEPT !.status = "running", !.comp = n, !.place = p, !.spec = NumSpec]
            \/ sched'[r] = [z EXCEPT !.status = "running", !.comp = n, !.place = z.place, !.spec = 0]
        BY <3>1 DEF Scheduled
      <4>3. z \in Requests
        BY <2>1
      <4> HIDE DEF z, n, p
      <4> QED
        BY <4>1, <4>2, <4>3 DEF Requests, Statuses
  <2>3. CASE r \notin S /\ r \in P
    <3>1. sched'[r] = Preempted(sched[r])
      BY <1>1, <2>3
    <3> QED
      <4>1. 0 \in 0..NumSpec
        BY Sizes
      <4> QED
        <5> DEFINE z == sched[r]
                   spare == 0..NumSpec
                   zero == 0
        <5>1. sched'[r] = [z EXCEPT !.status = "preempted", !.comp = zero, !.spec = zero] /\ zero \in spare /\ zero \in Int
          BY <3>1, <4>1 DEF Preempted
        <5>2. z \in [status : Statuses, known : Nat, place : Int, comp : Int, spec : spare, drop : BOOLEAN]
          BY <2>1 DEF Requests
        <5> HIDE DEF z, spare, zero
        <5>3. sched'[r] \in [status : Statuses, known : Nat, place : Int, comp : Int, spec : spare, drop : BOOLEAN]
          BY <5>1, <5>2 DEF Statuses
        <5> QED
          BY <5>3 DEF Requests, spare
  <2>4. CASE r \notin S /\ r \notin P
    BY <1>1, <2>1, <2>4
  <2> QED
    BY <2>2, <2>3, <2>4
<1>4. req' \in [Reqs -> Cached]
  <2> SUFFICES ASSUME NEW r \in Reqs
               PROVE  req'[r] \in Cached
    BY <1>1
  <2>1. CASE r \in S
    <3> DEFINE u == Updated(r, OrdersOf(S, c)[r], KeptOf(S, c))
    <3>1. /\ req'[r] = u
          /\ u.comp = sched[r].comp /\ u.draft = c[r].d
          /\ u.outs = sched[r].known + sched[r].place
          /\ u.real = IF r \in Members(rows) THEN req[r].real ELSE Prompt + sched[r].known
      BY <2>1, LaunchReq
    <3>2. u = [comp |-> u.comp, outs |-> u.outs, draft |-> u.draft, real |-> u.real]
      BY DEF Updated
    <3> HIDE DEF u
    <3>3. u.comp \in Int /\ u.outs \in Int /\ u.draft \in 0..NumSpec /\ u.real \in Nat
      <4>1. /\ sched[r].known \in Nat /\ sched[r].place \in Int /\ sched[r].comp \in Int /\ req[r].real \in Nat
        BY RequestTypes DEF IInv
      <4> QED
        BY <1>2, <2>1, <3>1, <4>1, Sizes
    <3> QED
      BY <3>1, <3>2, <3>3 DEF Cached
  <2>2. CASE r \notin S
    BY <1>1, <2>2, RequestTypes DEF IInv
  <2> QED
    BY <2>1, <2>2
<1>5. rows' \in Seq(Reqs)
  BY LaunchRows
<1>6. inputs' \in Seq(Rows)
  <2>1. \A i \in DOMAIN s : inputs'[i] \in Rows
    <3> SUFFICES ASSUME NEW i \in DOMAIN s
                 PROVE  inputs'[i] \in Rows
      OBVIOUS
    <3> DEFINE r == s[i]
               x == inputs'[i]
               w == PrevDrafts(r, KeptOf(S, c))
    <3>0. /\ DOMAIN x = {"req", "n", "d", "at", "pinned", "real", "prev", "drafts", "discard", "fresh", "known"}
          /\ x = [f \in DOMAIN x |-> x[f]]
      BY LaunchFields
    <3>1. /\ r \in S /\ r \in Reqs /\ x.req = r /\ x.n = c[r].n /\ x.d = c[r].d
          /\ x.at = sched[r].comp /\ x.pinned = sched[r].comp
          /\ x.real = IF r \in Members(rows) THEN req[r].real ELSE Prompt + sched[r].known
          /\ x.prev = prevRow[r] /\ x.drafts = w
          /\ x.discard \in BOOLEAN /\ x.fresh \in BOOLEAN
          /\ x.known = sched[r].known
      BY LaunchInput
    <3>2. w \in 0..NumSpec
      <4>1. CASE r \in Members(rows)
        <5>1. PICK k \in DOMAIN inputs : w = inputs[k].d
          BY <3>1, <4>1, KeptRow
        <5> QED
          BY <5>1, InputTypes DEF IInv
      <4>2. CASE r \notin Members(rows)
        BY <3>1, <4>2, NotKept, Sizes
      <4> QED
        BY <4>1, <4>2
    <3>3. x.real \in Nat /\ prevRow[r] \in Nat /\ sched[r].comp \in Int /\ sched[r].known \in Nat
      <4>1. /\ sched[r].known \in Nat /\ sched[r].comp \in Int /\ req[r].real \in Nat /\ prevRow[r] \in Nat
        BY <3>1, RequestTypes DEF IInv
      <4> QED
        BY <3>1, <4>1, Sizes
    <3> HIDE DEF x, w, r
    <3> QED
      <4>1. c[r].n \in Nat /\ c[r].d \in 0..NumSpec
        BY <1>2, <3>1, Sizes
      <4>2. x \in Rows
        BY <3>0, <3>1, <3>2, <3>3, <4>1 DEF Rows
      <4> QED
        BY <4>2 DEF x
  <2>2. inputs' = [i \in DOMAIN s |-> inputs'[i]]
    <3>1. inputs' = Prepared(s, OrdersOf(S, c), KeptOf(S, c))
      BY Zenon DEF Launch
    <3> QED
      BY <3>1 DEF Prepared
  <2>3. s \in Seq(Reqs)
    BY LaunchRows
  <2> DEFINE f == inputs'
  <2> HIDE DEF f
  <2> QED
    <3>1. f = [i \in DOMAIN s |-> f[i]] /\ \A i \in DOMAIN s : f[i] \in Rows
      BY <2>1, <2>2 DEF f
    <3>2. f \in Seq(Rows)
      BY <2>3, <3>1, MapIsList
    <3> QED
      BY <3>2 DEF f
<1> QED
  BY <1>3, <1>4, <1>5, <1>6, LaunchPipe DEF IInv, Typed

LEMMA LaunchBatch ==
  ASSUME IInv, Depth = 2, NEW S, NEW P, NEW c, NEW s, Launch(S, P, c, s)
  PROVE  Batch' /\ OutsMatch' /\ PrevRows'
<1>1. /\ DOMAIN inputs' = DOMAIN s /\ rows' = s /\ DOMAIN s = 1..Len(s) /\ Len(s) <= MaxRows
      /\ \A i, j \in DOMAIN s : s[i] = s[j] => i = j
  BY LaunchRows
<1>2. \A i \in DOMAIN s : inputs'[i].req = s[i]
  BY LaunchInput
<1>3. \A i \in DOMAIN s : Sound(inputs'[i])
  <2> SUFFICES ASSUME NEW i \in DOMAIN s
               PROVE  Sound(inputs'[i])
    OBVIOUS
  <2> DEFINE r == s[i]
  <2>1. /\ r \in S /\ r \in Reqs /\ inputs'[i].n = c[r].n /\ inputs'[i].d = c[r].d
        /\ (inputs'[i].discard <=> ~Samples(sched[r], c[r]))
    BY LaunchInput
  <2>2. Schedulable(r) /\ c[r] \in Chunks(r) /\ MaySchedule
    BY <2>1, Zenon DEF Launch
  <2>3. /\ c[r].n >= 1 + c[r].d /\ (c[r].d > 0 => c[r].n = 1 + c[r].d)
        /\ ~Samples(sched[r], c[r]) => c[r].d = 0
    BY <2>1, <2>2, ChunkFacts
  <2> QED
    BY <2>1, <2>3 DEF Sound
<1>4. Once(inputs')
  BY <1>1, <1>2 DEF Once
<1>5. Batch'
  BY <1>1, <1>2, <1>3, <1>4, LaunchPipe DEF IInv, Batch, Once
<1>6. PrevRows'
  <2>1. Prev(inputs)
    BY LaunchPipe DEF IInv, PrevRows
  <2>2. Same(gpuRows, inputs)
    BY LaunchPipe
  <2>3. Prev(gpuRows)
    BY <2>1, <2>2 DEF Prev, Same
  <2> QED
    BY <2>3, LaunchPipe DEF PrevRows, Prev
<1>7. OutsMatch'
  <2>1. HasNew => OutOf(NewOut, inputs)
    BY DEF IInv, OutsMatch
  <2>2. HasNew => OutOf(NewOut, gpuRows)
    BY <2>1, LaunchPipe DEF OutOf, Same, In
  <2>3. OldUnsampled' => OutOf(OldOut', gpuRows')
    BY <2>2, LaunchPipe
  <2>4. HasOld' => \A r \in DOMAIN OldOut'.of : OldOut'.of[r].accepted <= OldOut'.of[r].d
    BY LaunchPipe DEF IInv, OutsMatch
  <2> QED
    BY <2>3, <2>4, LaunchPipe DEF OutsMatch
<1> QED
  BY <1>5, <1>6, <1>7

LEMMA LaunchLengths ==
  ASSUME IInv, Depth = 2, NEW S, NEW P, NEW c, NEW s, Launch(S, P, c, s)
  PROVE  Lengths'
<1>1. ~Preparing
  BY LaunchPipe, SchedulePipe
<1>2. OldUnsampled' => \A i \in DOMAIN gpuRows : gpuRows[i].len = truth[gpuRows[i].req].comp
  <2> SUFFICES ASSUME queue = QS
               PROVE  \A i \in DOMAIN gpuRows : gpuRows[i].len = truth[gpuRows[i].req].comp
    BY LaunchPipe
  <2>1. NewUnsampled
    BY DEF NewUnsampled
  <2> QED
    BY <1>1, <2>1 DEF IInv, Lengths
<1>3. queue' = QP => queue = Q0
  BY LaunchPipe, QueuesDiffer
<1> QED
  BY <1>2, <1>3, LaunchPipe DEF IInv, Lengths

LEMMA OutTypes ==
  ASSUME Typed, NEW k \in 1..Len(outputs)
  PROVE  /\ outputs[k].ready \in BOOLEAN
         /\ \A r \in DOMAIN outputs[k].of :
              /\ r \in Reqs /\ outputs[k].of[r] \in Entries
              /\ outputs[k].of[r].d \in 0..NumSpec /\ outputs[k].of[r].d \in Nat
              /\ outputs[k].of[r].discard \in BOOLEAN /\ outputs[k].of[r].accepted \in Nat
<1> DEFINE Maps == UNION {[R -> Entries] : R \in SUBSET Reqs}
<1>1. outputs \in Seq([ready : BOOLEAN, of : Maps])
  BY DEF Typed
<1> HIDE DEF Maps
<1>2. outputs[k] \in [ready : BOOLEAN, of : Maps]
  BY <1>1, ElementOfSeq
<1>3. outputs[k].ready \in BOOLEAN /\ outputs[k].of \in Maps
  BY <1>2
<1>4. \A r \in DOMAIN outputs[k].of : r \in Reqs /\ outputs[k].of[r] \in Entries
  BY <1>3 DEF Maps
<1>5. \A e \in Entries : e.d \in 0..NumSpec /\ e.d \in Nat /\ e.discard \in BOOLEAN /\ e.accepted \in Nat
  BY Sizes DEF Entries
<1> QED
  BY <1>3, <1>4, <1>5

\* The latest step's output, row by row.
LEMMA NewOutIs ==
  ASSUME IInv, HasNew, NEW i \in DOMAIN inputs
  PROVE  /\ inputs[i].req \in DOMAIN NewOut.of
         /\ NewOut.of[inputs[i].req].d = inputs[i].d /\ NewOut.of[inputs[i].req].discard = inputs[i].discard
         /\ NewOut.of[inputs[i].req].accepted \in Nat /\ NewOut.of[inputs[i].req].accepted <= inputs[i].d
         /\ NewOut.ready \in BOOLEAN
         /\ Counted(NewOut, inputs[i].req) <=> ~inputs[i].discard
<1>1. inputs[i].req \in Reqs
  BY InputTypes DEF IInv
<1>2. In(inputs, inputs[i].req)
  BY DEF In
<1>3. /\ inputs[i].req \in DOMAIN NewOut.of
      /\ NewOut.of[inputs[i].req].d = inputs[i].d /\ NewOut.of[inputs[i].req].discard = inputs[i].discard
  BY <1>1, <1>2 DEF IInv, OutsMatch, OutOf
<1>4. NewOut.of[inputs[i].req].accepted <= NewOut.of[inputs[i].req].d
  BY <1>3 DEF IInv, OutsMatch
<1>5. Len(outputs) \in 1..Len(outputs)
  BY DEF HasNew, IInv, Shape
<1>6. NewOut.of[inputs[i].req].accepted \in Nat /\ NewOut.ready \in BOOLEAN
  BY <1>3, <1>5, OutTypes DEF NewOut, IInv
<1> QED
  BY <1>3, <1>4, <1>6 DEF Counted

\* What a request's accounts are when the engine may schedule.
LEMMA ScheduleAccounts ==
  ASSUME IInv, Depth = 2, MaySchedule, NEW r \in Reqs
  PROVE  /\ sched[r].status # "finished" =>
              sched[r].place = NewHolds(r) /\ sched[r].known + NewGives(r) = truth[r].out
         /\ sched[r].status = "running" => sched[r].comp = truth[r].comp + NewAmount(r) + NewRejects(r)
         /\ NewAmount(r) \in Nat /\ NewRejects(r) \in Nat /\ NewHolds(r) \in Nat /\ NewGives(r) \in Nat
         /\ NewHolds(r) <= 1 + NumSpec
<1>1. /\ OldHolds(r) = 0 /\ OldGives(r) = 0 /\ OldRejects(r) = 0 /\ HostHolds(r) = 0 /\ OldAmount(r) = 0
      /\ Base(r) = truth[r].comp
  BY HostHoldsNone
<1>2. NewAmount(r) \in Nat
  BY AmountType DEF NewAmount, IInv, Typed, Batch
<1>3. NewRejects(r) \in Nat /\ NewHolds(r) \in Nat /\ NewGives(r) \in Nat /\ NewHolds(r) <= 1 + NumSpec
  <2>1. CASE ~HasNew
    BY <2>1, Sizes DEF NewRejects, NewHolds, NewGives
  <2>2. CASE HasNew /\ ~Counted(NewOut, r)
    BY <2>2, Sizes DEF NewRejects, NewHolds, NewGives, Rejects, Holds, Gives
  <2>3. CASE HasNew /\ Counted(NewOut, r)
    <3> DEFINE e == NewOut.of[r]
    <3>1. Len(outputs) \in 1..Len(outputs) /\ r \in DOMAIN NewOut.of
      BY <2>3 DEF HasNew, IInv, Shape, Counted
    <3>2. e.d \in Nat /\ e.d <= NumSpec /\ e.accepted \in Nat /\ e.accepted <= e.d
      <4>1. e.d \in 0..NumSpec /\ e.accepted \in Nat
        BY <3>1, OutTypes DEF NewOut, IInv
      <4>2. e.accepted <= e.d
        BY <2>3, <3>1 DEF IInv, OutsMatch
      <4> QED
        BY <4>1, <4>2, Sizes
    <3>3. NewHolds(r) = 1 + e.d /\ NewGives(r) \in {0, 1 + e.accepted} /\ NewRejects(r) \in {0, e.d - e.accepted}
      BY <2>3 DEF NewRejects, NewHolds, NewGives, Rejects, Holds, Gives
    <3> HIDE DEF e
    <3> QED
      BY <3>2, <3>3, Sizes
  <2> QED
    BY <2>1, <2>2, <2>3
<1>4. sched[r].status # "finished" =>
        /\ sched[r].place = OldHolds(r) + NewHolds(r) + HostHolds(r)
        /\ sched[r].known + OldGives(r) + NewGives(r) = truth[r].out
  BY DEF IInv, Accounts
<1>5. sched[r].status = "running" =>
        sched[r].comp = Base(r) + OldAmount(r) + NewAmount(r) + OldRejects(r) + NewRejects(r)
  BY DEF IInv, Accounts
<1>6. sched[r].known \in Nat /\ truth[r].comp \in Nat
  BY RequestTypes DEF IInv
<1> QED
  BY <1>1, <1>2, <1>3, <1>4, <1>5, <1>6

\* The scheduler's computed tokens, when the rows of the request have drafts or not.
LEMMA LaunchComp ==
  ASSUME IInv, Depth = 2, MaySchedule, NEW r \in Reqs
  PROVE  /\ sched[r].status \in {"new", "preempted"} => sched[r].comp = 0
         /\ sched[r].status # "finished" => sched[r].comp >= 0
         /\ sched[r].status = "running" =>
              /\ (r \notin Members(rows) \/ \E i \in DOMAIN inputs : inputs[i].req = r /\ inputs[i].d = 0) =>
                   sched[r].comp = truth[r].comp + IF queue = QS THEN Amount(inputs, r) ELSE 0
              /\ queue = QS => sched[r].comp = truth[r].comp + Amount(inputs, r)
<1>1. sched[r].status \in {"new", "preempted"} => sched[r].comp = 0
  BY DEF IInv, Chances
<1>2. ASSUME sched[r].status = "running"
      PROVE  /\ sched[r].comp >= 0
             /\ (r \notin Members(rows) \/ \E i \in DOMAIN inputs : inputs[i].req = r /\ inputs[i].d = 0) =>
                   sched[r].comp = truth[r].comp + IF queue = QS THEN Amount(inputs, r) ELSE 0
             /\ queue = QS => sched[r].comp = truth[r].comp + Amount(inputs, r)
  <2>1. /\ sched[r].comp = truth[r].comp + NewAmount(r) + NewRejects(r)
        /\ NewAmount(r) \in Nat /\ NewRejects(r) \in Nat
    BY <1>2, ScheduleAccounts
  <2>2. truth[r].comp \in Nat
    BY RequestTypes DEF IInv
  <2>3. NewAmount(r) = IF queue = QS THEN Amount(inputs, r) ELSE 0
    BY SchedulePipe DEF NewAmount
  <2>4. queue = QS => NewRejects(r) = 0
    <3> SUFFICES ASSUME queue = QS, HasNew
                 PROVE  NewRejects(r) = 0
      BY DEF NewRejects
    <3>1. ~NewOut.ready
      BY SchedulePipe, QueuesDiffer DEF IInv, Shape
    <3> QED
      BY <3>1 DEF NewRejects, Rejects
  <2>5. r \notin Members(rows) => NewRejects(r) = 0
    BY NothingHeld
  <2>6. ASSUME NEW i \in DOMAIN inputs, inputs[i].req = r, inputs[i].d = 0
        PROVE  NewRejects(r) = 0
    <3>1. CASE HasNew
      <4> DEFINE e == NewOut.of[r]
      <4>1. e.d = 0 /\ e.accepted \in Nat /\ e.accepted <= 0
        BY <2>6, <3>1, NewOutIs
      <4>2. NewRejects(r) = IF NewOut.ready /\ Counted(NewOut, r) THEN e.d - e.accepted ELSE 0
        BY <3>1 DEF NewRejects, Rejects
      <4> HIDE DEF e
      <4> QED
        BY <4>1, <4>2
    <3>2. CASE ~HasNew
      BY <3>2 DEF NewRejects
    <3> QED
      BY <3>1, <3>2
  <2> QED
    BY <2>1, <2>2, <2>3, <2>4, <2>5, <2>6
<1>3. sched[r].status \in Statuses
  BY RequestTypes DEF IInv
<1> QED
  BY <1>1, <1>2, <1>3 DEF Statuses

LEMMA LaunchIncoming ==
  ASSUME IInv, Depth = 2, NEW S, NEW P, NEW c, NEW s, Launch(S, P, c, s)
  PROVE  Incoming'
<1> SUFFICES ASSUME NEW i \in DOMAIN s
             PROVE  /\ Coming(inputs[i])'
                    /\ inputs'[i].prev = prevRow'[inputs'[i].req]
                    /\ ~Forced => Fed(inputs'[i]) /\ (inputs'[i].fresh => inputs'[i].prev = 0)
  BY LaunchRows DEF Incoming
<1> DEFINE x == inputs'[i]
           r == s[i]
<1>1. /\ r \in S /\ r \in Reqs /\ x.req = r /\ x.n = c[r].n /\ x.d = c[r].d
      /\ x.at = sched[r].comp /\ x.pinned = sched[r].comp
      /\ x.real = IF r \in Members(rows) THEN req[r].real ELSE Prompt + sched[r].known
      /\ x.prev = prevRow[r] /\ x.drafts = PrevDrafts(r, KeptOf(S, c))
      /\ x.discard \in BOOLEAN /\ (x.discard <=> ~Samples(sched[r], c[r]))
      /\ x.fresh \in BOOLEAN /\ (x.fresh <=> sched[r].status \in {"new", "preempted"})
  BY LaunchInput
<1>2. MaySchedule /\ Schedulable(r) /\ c[r] \in Chunks(r)
  BY <1>1, Zenon DEF Launch
<1>3. /\ Same(gpuRows, inputs) /\ gpuRows' = gpuRows /\ truth' = truth /\ prevRow' = prevRow
      /\ (OldUnsampled' <=> queue = QS) /\ (queue = QS => rows # <<>>) /\ pc = "idle"
  BY LaunchPipe
<1>4. sched[r].status \in {"new", "preempted", "running"}
  BY <1>2 DEF Schedulable
<1>5. \A j \in Nat \ {0} : prevRow[r] = j <=> (j \in DOMAIN inputs /\ inputs[j].req = r /\ ~inputs[j].discard)
  BY <1>1, <1>3 DEF IInv, PrevRows, Prev
<1>6. prevRow[r] \in Nat
  BY <1>1, RequestTypes DEF IInv
<1>7. prevRow[r] # 0 => /\ prevRow[r] \in DOMAIN inputs /\ inputs[prevRow[r]].req = r
                        /\ ~inputs[prevRow[r]].discard
  BY <1>5, <1>6
<1>8. x.fresh => r \notin Members(rows) /\ (~Forced => ~In(inputs, r)) /\ sched[r].comp = 0
  BY <1>1 DEF IInv, Chances
<1>9. r \in Members(rows) =>
        \E k \in DOMAIN inputs :
           /\ inputs[k].req = r /\ sched[r].status = "running"
           /\ prevRow[r] = IF inputs[k].discard THEN 0 ELSE k
           /\ x.drafts = inputs[k].d
  <2> SUFFICES ASSUME r \in Members(rows)
               PROVE  \E k \in DOMAIN inputs :
                        /\ inputs[k].req = r /\ sched[r].status = "running"
                        /\ prevRow[r] = IF inputs[k].discard THEN 0 ELSE k
                        /\ x.drafts = inputs[k].d
    OBVIOUS
  <2>1. PICK k \in DOMAIN inputs : 
           /\ inputs[k].req = r /\ sched[r].status = "running"
           /\ req[r].draft = inputs[k].d
           /\ sched[r].known + sched[r].place <= req[r].outs + req[r].draft
           /\ prevRow[r] = IF inputs[k].discard THEN 0 ELSE k
           /\ PrevDrafts(r, KeptOf(S, c)) = inputs[k].d
    BY <1>1, KeptRow
  <2> QED
    BY <2>1, <1>1
<1>10. r \notin Members(rows) => x.drafts = 0
  BY <1>1, NotKept
<1>11. \A k \in DOMAIN inputs : /\ k \in Nat \ {0} /\ inputs[k].d \in Nat
                                /\ (inputs[k].discard => inputs[k].d = 0)
  BY InputTypes, Sizes DEF IInv, Batch, Sound
<1>12. \A j, k \in DOMAIN inputs : inputs[j].req = inputs[k].req => j = k
  BY DEF IInv, Batch, Once
<1>13. /\ DOMAIN gpuRows = DOMAIN inputs
       /\ \A k \in DOMAIN inputs : /\ gpuRows[k].req = inputs[k].req /\ gpuRows[k].d = inputs[k].d
                                   /\ gpuRows[k].discard = inputs[k].discard
  BY <1>3 DEF Same
<1>14. In(gpuRows, r) <=> In(inputs, r)
  BY <1>13 DEF In
<1>15. Amount(gpuRows, r) = Amount(inputs, r)
  BY <1>3, SameAmount DEF IInv, Batch
<1>16. x.fresh /\ OldUnsampled' => ~In(gpuRows, r)
  BY <1>1, <1>3, <1>8, <1>14, RowIsInput
<1>17. ~x.fresh /\ (x.prev = 0 \/ x.drafts = 0) =>
         x.pinned = truth[r].comp + IF OldUnsampled' THEN Amount(gpuRows, r) ELSE 0
  <2> SUFFICES ASSUME ~x.fresh, x.prev = 0 \/ x.drafts = 0
               PROVE  x.pinned = truth[r].comp + IF OldUnsampled' THEN Amount(gpuRows, r) ELSE 0
    OBVIOUS
  <2>1. sched[r].status = "running"
    BY <1>1, <1>4
  <2>2. r \notin Members(rows) \/ \E k \in DOMAIN inputs : inputs[k].req = r /\ inputs[k].d = 0
    BY <1>1, <1>9, <1>11
  <2>3. sched[r].comp = truth[r].comp + IF queue = QS THEN Amount(inputs, r) ELSE 0
    BY <1>1, <1>2, <2>1, <2>2, LaunchComp
  <2> QED
    BY <1>1, <1>3, <1>15, <2>3
<1>18. x.prev # 0 => /\ x.prev \in DOMAIN gpuRows
                     /\ gpuRows[x.prev].req = r /\ ~gpuRows[x.prev].discard
                     /\ x.drafts > 0 => x.drafts = gpuRows[x.prev].d
  <2> SUFFICES ASSUME x.prev # 0
               PROVE  /\ x.prev \in DOMAIN gpuRows
                      /\ gpuRows[x.prev].req = r /\ ~gpuRows[x.prev].discard
                      /\ x.drafts > 0 => x.drafts = gpuRows[x.prev].d
    OBVIOUS
  <2>1. /\ x.prev \in DOMAIN inputs /\ inputs[x.prev].req = r /\ ~inputs[x.prev].discard
    BY <1>1, <1>7
  <2>2. x.drafts > 0 => x.drafts = inputs[x.prev].d
    BY <1>9, <1>10, <1>12, <2>1
  <2> QED
    BY <2>1, <2>2, <1>13
<1>19. OldUnsampled' => \A j \in DOMAIN gpuRows : 
         gpuRows[j].req = r /\ gpuRows[j].d > 0 => x.prev = j /\ x.drafts > 0
  <2> SUFFICES ASSUME queue = QS, NEW j \in DOMAIN inputs, inputs[j].req = r, inputs[j].d > 0
               PROVE  x.prev = j /\ x.drafts > 0
    BY <1>3, <1>13
  <2>1. r \in Members(rows)
    BY <1>1, <1>3, RowIsInput DEF In
  <2>2. PICK k \in DOMAIN inputs : 
           /\ inputs[k].req = r 
           /\ prevRow[r] = IF inputs[k].discard THEN 0 ELSE k
           /\ x.drafts = inputs[k].d
    BY <2>1, <1>9
  <2>3. k = j /\ ~inputs[j].discard
    BY <2>2, <1>11, <1>12
  <2> QED
    BY <2>2, <2>3, <1>1
<1>20. Coming(inputs[i])'
  BY <1>1, <1>3, <1>8, <1>10, <1>16, <1>17, <1>18, <1>19 DEF Coming
<1>21. ASSUME ~Forced
       PROVE  Fed(x) /\ (x.fresh => x.prev = 0)
  <2>1. x.fresh => x.prev = 0
    BY <1>1, <1>7, <1>8, <1>21 DEF In
  <2>2. x.prev # 0 => x.n = 1 + x.d
    <3> SUFFICES ASSUME x.prev # 0
                 PROVE  x.n = 1 + x.d
      OBVIOUS
    <3>1. sched[r].status = "running"
      BY <2>1, <1>1, <1>4
    <3>2. prevRow[r] \in DOMAIN inputs /\ inputs[prevRow[r]].req = r /\ ~inputs[prevRow[r]].discard
      BY <1>1, <1>7
    <3> QED
      BY <1>1, <1>2, <3>1, <3>2, ChunkFacts
  <2>3. x.prev = 0 => x.at = x.pinned /\ x.at + x.n <= x.real
    <3> SUFFICES ASSUME x.prev = 0
                 PROVE  x.at + x.n <= x.real
      BY <1>1
    <3>1. CASE r \notin Members(rows)
      <4>1. sched[r].comp + c[r].n <= Prompt + sched[r].known
        BY <1>1, <1>2, <3>1, ChunkFacts
      <4> QED
        BY <1>1, <3>1, <4>1
    <3>2. CASE r \in Members(rows)
      <4>1. PICK k \in DOMAIN inputs : inputs[k].req = r /\ sched[r].status = "running" /\ inputs[k].discard
        BY <1>1, <1>9, <1>11, <3>2
      <4>2. sched[r].comp + c[r].n <= Prompt + sched[r].known
        BY <1>1, <1>2, <4>1, ChunkFacts
      <4>3. req[r].real = Prompt + sched[r].known
        BY <1>1, <4>1 DEF IInv, Chances
      <4> QED
        BY <1>1, <3>2, <4>2, <4>3
    <3> QED
      BY <3>1, <3>2
  <2> QED
    BY <2>1, <2>2, <2>3 DEF Fed
<1> QED
  BY <1>1, <1>3, <1>20, <1>21

\* The plan of the step.
LEMMA LaunchPlan ==
  ASSUME NEW S, NEW P, NEW c, NEW s, Launch(S, P, c, s)
  PROVE  /\ DOMAIN plan'.orders = S /\ DOMAIN plan'.deferred = Deferred(KeptOf(S, c))
         /\ \A r \in S : LET o == plan'.orders[r] IN
              /\ o.outs = sched[r].known + sched[r].place /\ o.d = c[r].d
              /\ o.samples = Samples(sched[r], c[r])
         /\ \A r \in DOMAIN plan'.deferred :
              r \in S /\ r \in Members(rows) /\ plan'.deferred[r] = req[r].draft /\ req[r].draft > 0
<1>1. plan' = [orders |-> OrdersOf(S, c), deferred |-> [r \in Deferred(KeptOf(S, c)) |-> req[r].draft]]
  BY Zenon DEF Launch
<1>2. \A r \in Deferred(KeptOf(S, c)) : r \in S /\ r \in Members(rows) /\ req[r].draft > 0
  BY KeptWithin DEF Deferred
<1>3. \A r \in S : LET o == OrdersOf(S, c)[r] IN
        /\ o.outs = sched[r].known + sched[r].place /\ o.d = c[r].d
        /\ o.samples = Samples(sched[r], c[r])
  BY DEF OrdersOf, Order
<1>4. DOMAIN OrdersOf(S, c) = S
  BY DEF OrdersOf
<1> QED
  BY <1>1, <1>2, <1>3, <1>4

LEMMA LaunchHost ==
  ASSUME IInv, Depth = 2, NEW S, NEW P, NEW c, NEW s, Launch(S, P, c, s)
  PROVE  HostAgrees'
<1>1. S \in SUBSET Reqs /\ MaySchedule /\ \A r \in S : Schedulable(r) /\ c[r] \in Chunks(r)
  BY Zenon DEF Launch
<1>2. /\ DOMAIN inputs' = DOMAIN s /\ rows' = s /\ Members(s) = S
      /\ \A i \in DOMAIN s : s[i] \in S /\ s[i] \in Reqs
  BY LaunchRows
<1>3. /\ DOMAIN plan'.orders = S
      /\ \A r \in S : LET o == plan'.orders[r] IN
           /\ o.outs = sched[r].known + sched[r].place /\ o.d = c[r].d
           /\ o.samples = Samples(sched[r], c[r])
      /\ \A r \in DOMAIN plan'.deferred : r \in S
  BY LaunchPlan
<1>4. \A r \in Reqs : sched[r].known \in Nat /\ sched[r].place \in Nat
  BY RequestTypes, Sizes DEF IInv, Accounts
<1>5. \A r \in S : /\ req'[r].comp = sched[r].comp /\ req'[r].draft = c[r].d
                   /\ req'[r].outs = sched[r].known + sched[r].place
  BY LaunchReq
<1>6. \A r \in Reqs : req'[r].comp >= 0 /\ req'[r].outs >= 0
  <2> SUFFICES ASSUME NEW r \in Reqs
               PROVE  req'[r].comp >= 0 /\ req'[r].outs >= 0
    OBVIOUS
  <2>1. CASE r \in S
    <3>1. sched[r].status # "finished"
      BY <1>1, <2>1 DEF Schedulable
    <3>2. sched[r].comp >= 0
      BY <1>1, <3>1, LaunchComp
    <3> QED
      BY <1>4, <1>5, <2>1, <3>2
  <2>2. CASE r \notin S
    BY <2>2, LaunchReq DEF IInv, HostAgrees
  <2> QED
    BY <2>1, <2>2
<1>7. ASSUME NEW i \in DOMAIN s
      PROVE  LET r == s[i]  o == plan'.orders[r] IN
              /\ sched'[r].status = "running"
              /\ req'[r].outs = o.outs /\ req'[r].draft = inputs'[i].d /\ o.d = inputs'[i].d
              /\ inputs'[i].discard <=> ~o.samples
              /\ sched'[r].known + sched'[r].place = o.outs + IF inputs'[i].discard THEN 0 ELSE 1 + inputs'[i].d
  <2> DEFINE r == s[i]
             o == plan'.orders[r]
             x == inputs'[i]
  <2>1. r \in S /\ r \in Reqs
    BY <1>2
  <2>2. x.d = c[r].d /\ x.discard \in BOOLEAN /\ (x.discard <=> ~Samples(sched[r], c[r]))
    BY LaunchInput
  <2>3. /\ sched'[r].status = "running" /\ sched'[r].known = sched[r].known
        /\ sched'[r].place = IF Samples(sched[r], c[r]) THEN sched[r].place + 1 + c[r].d ELSE sched[r].place
    BY <2>1, LaunchSched
  <2>4. o.outs = sched[r].known + sched[r].place /\ o.d = c[r].d /\ (o.samples <=> Samples(sched[r], c[r]))
    BY <1>3, <2>1
  <2>5. /\ req'[r].draft = c[r].d /\ req'[r].outs = sched[r].known + sched[r].place
    BY <1>5, <2>1
  <2>6. sched[r].known \in Nat /\ sched[r].place \in Nat /\ c[r].d \in Nat
    BY <1>1, <1>4, <2>1, ChunkFacts
  <2>7. sched'[r].known + sched'[r].place = o.outs + IF x.discard THEN 0 ELSE 1 + x.d
    <3> HIDE DEF r, o, x
    <3> QED
      BY <2>2, <2>3, <2>4, <2>6
  <2> QED
    BY <2>2, <2>3, <2>4, <2>5, <2>7
<1> QED
  <2>1. pc' = "launched"
    BY LaunchPipe
  <2>2. DOMAIN plan'.orders = Members(rows') /\ DOMAIN plan'.deferred \subseteq Members(rows')
    BY <1>2, <1>3
  <2> QED
    BY <1>2, <1>6, <1>7, <2>1, <2>2 DEF HostAgrees

LEMMA LaunchDeferral ==
  ASSUME IInv, Depth = 2, NEW S, NEW P, NEW c, NEW s, Launch(S, P, c, s)
  PROVE  Deferral'
<1> SUFFICES ASSUME NEW r \in Reqs, r \in DOMAIN plan'.deferred, prevRow[r] # 0
             PROVE  LET p == prevRow[r] IN
                    /\ \A i \in DOMAIN inputs' : inputs'[i].req = r => ~inputs'[i].fresh
                    /\ plan'.deferred[r] \in 0..NumSpec
                    /\ \A i \in DOMAIN inputs' : inputs'[i].req = r => inputs'[i].drafts > 0
                    /\ OldUnsampled' => 
                         plan'.deferred[r] = gpuRows[p].d /\ req'[r].comp = truth[r].comp + gpuRows[p].n
                    /\ ~OldUnsampled' =>
                         /\ p \in DOMAIN sampled 
                         /\ req'[r].comp + sampled[p].count = truth[r].comp + plan'.deferred[r] + 1
  <2>1. pc' = "launched" /\ prevRow' = prevRow /\ gpuRows' = gpuRows /\ sampled' = sampled /\ truth' = truth
    BY LaunchPipe
  <2> QED
    BY <2>1 DEF Deferral
<1> DEFINE p == prevRow[r]
<1>1. r \in S /\ r \in Members(rows) /\ plan'.deferred[r] = req[r].draft /\ req[r].draft > 0
  BY LaunchPlan
<1>2. PICK k \in DOMAIN inputs :
           /\ inputs[k].req = r /\ sched[r].status = "running"
           /\ req[r].draft = inputs[k].d
           /\ sched[r].known + sched[r].place <= req[r].outs + req[r].draft
           /\ prevRow[r] = IF inputs[k].discard THEN 0 ELSE k
           /\ PrevDrafts(r, KeptOf(S, c)) = inputs[k].d
  BY <1>1, KeptRow
<1>3. p = k /\ ~inputs[k].discard /\ inputs[k].d \in 0..NumSpec /\ inputs[k].d \in Nat
  BY <1>2, InputTypes, Sizes DEF IInv
<1>4. \A i \in DOMAIN inputs' : inputs'[i].req = r =>
        ~inputs'[i].fresh /\ inputs'[i].drafts = inputs[k].d
  <2> SUFFICES ASSUME NEW i \in DOMAIN s, inputs'[i].req = r
               PROVE  ~inputs'[i].fresh /\ inputs'[i].drafts = inputs[k].d
    BY LaunchRows
  <2>1. /\ s[i] = r /\ inputs'[i].drafts = PrevDrafts(s[i], KeptOf(S, c))
        /\ (inputs'[i].fresh <=> sched[s[i]].status \in {"new", "preempted"})
    BY LaunchInput
  <2> QED
    BY <2>1, <1>2
<1>5. MaySchedule /\ Same(gpuRows, inputs) /\ (OldUnsampled' <=> queue = QS) /\ queue \in {Q0, QS}
      /\ HasNew /\ pc = "idle"
  <2>1. rows # <<>>
    BY <1>1, RowIsInput
  <2>2. MaySchedule
    BY LaunchPipe
  <2> QED
    BY <2>1, <2>2, LaunchPipe, SchedulePipe
<1>6. req'[r].comp = sched[r].comp
  BY <1>1, LaunchReq
<1>7. Amount(inputs, r) = inputs[k].n
  BY <1>2, AmountIs DEF IInv, Batch
<1>8. ASSUME queue = QS
      PROVE  plan'.deferred[r] = gpuRows[p].d /\ req'[r].comp = truth[r].comp + gpuRows[p].n
  <2>1. sched[r].comp = truth[r].comp + Amount(inputs, r)
    BY <1>2, <1>5, <1>8, LaunchComp
  <2>2. p \in DOMAIN gpuRows /\ gpuRows[p].d = inputs[k].d /\ gpuRows[p].n = inputs[k].n
    BY <1>3, <1>5 DEF Same
  <2> QED
    BY <1>1, <1>2, <1>6, <1>7, <2>1, <2>2
<1>9. ASSUME queue = Q0
      PROVE  /\ p \in DOMAIN sampled 
             /\ req'[r].comp + sampled[p].count = truth[r].comp + plan'.deferred[r] + 1
  <2> DEFINE e == NewOut.of[r]
  <2>1. /\ DOMAIN sampled = DOMAIN gpuRows
        /\ \A i \in DOMAIN inputs : ~inputs[i].discard => NewOut.of[inputs[i].req].accepted + 1 = sampled[i].count
    BY <1>5, <1>9 DEF IInv, Lengths
  <2>2. p \in DOMAIN sampled /\ e.accepted + 1 = sampled[p].count
    BY <1>2, <1>3, <1>5, <2>1 DEF Same
  <2>3. /\ sched[r].comp = truth[r].comp + NewAmount(r) + NewRejects(r)
        /\ NewAmount(r) \in Nat /\ NewRejects(r) \in Nat
    BY <1>2, <1>5, ScheduleAccounts
  <2>4. NewAmount(r) = 0
    BY <1>5, <1>9, SchedulePipe, QueuesDiffer DEF NewAmount
  <2>5. NewRejects(r) = e.d - e.accepted /\ e.d = inputs[k].d /\ e.accepted \in Nat
    <3>1. NewOut.ready
      BY <1>5, <1>9 DEF IInv, Shape
    <3>2. Counted(NewOut, r) /\ e.d = inputs[k].d /\ e.accepted \in Nat
      BY <1>2, <1>3, <1>5, NewOutIs
    <3> QED
      BY <1>5, <3>1, <3>2 DEF NewRejects, Rejects
  <2>6. truth[r].comp \in Nat
    BY RequestTypes DEF IInv
  <2> HIDE DEF e, p
  <2>7. req'[r].comp + sampled[p].count = truth[r].comp + plan'.deferred[r] + 1
    BY <1>1, <1>2, <1>3, <1>6, <2>2, <2>3, <2>4, <2>5, <2>6
  <2> QED
    BY <2>2, <2>7
<1>10. plan'.deferred[r] \in 0..NumSpec
  BY <1>1, <1>2, <1>3
<1>11. OldUnsampled' =>
         plan'.deferred[r] = gpuRows[p].d /\ req'[r].comp = truth[r].comp + gpuRows[p].n
  BY <1>5, <1>8
<1>12. ~OldUnsampled' =>
         /\ p \in DOMAIN sampled 
         /\ req'[r].comp + sampled[p].count = truth[r].comp + plan'.deferred[r] + 1
  BY <1>5, <1>9
<1>13. \A i \in DOMAIN inputs' : inputs'[i].req = r => inputs'[i].drafts > 0
  BY <1>1, <1>2, <1>3, <1>4
<1> QED
  BY <1>4, <1>10, <1>11, <1>12, <1>13

\* What was in flight of the latest step is in flight of the one before it.
LEMMA LaunchShifts ==
  ASSUME IInv, Depth = 2, NEW S, NEW P, NEW c, NEW s, Launch(S, P, c, s), NEW r \in Reqs
  PROVE  /\ OldHolds(r)' = NewHolds(r) /\ OldGives(r)' = NewGives(r) /\ OldRejects(r)' = NewRejects(r)
         /\ NewHolds(r)' = 0 /\ NewGives(r)' = 0 /\ NewRejects(r)' = 0
         /\ OldAmount(r)' = NewAmount(r)
         /\ NewAmount(r)' = IF r \in S THEN c[r].n ELSE 0
         /\ HostHolds(r)' = IF r \in S /\ Samples(sched[r], c[r]) THEN 1 + c[r].d ELSE 0
         /\ Base(r)' = IF r \in S /\ sched[r].status \in {"new", "preempted"} THEN 0 ELSE truth[r].comp
<1>1. /\ (HasOld' <=> HasNew) /\ ~HasNew' /\ (HasNew => OldOut' = NewOut)
      /\ Preparing' /\ (OldUnsampled' <=> queue = QS) /\ NewUnsampled'
      /\ gpuRows' = gpuRows /\ truth' = truth /\ Same(gpuRows, inputs) /\ pc' = "launched" /\ MaySchedule
  BY LaunchPipe
<1>2. /\ OldHolds(r)' = NewHolds(r) /\ OldGives(r)' = NewGives(r) /\ OldRejects(r)' = NewRejects(r)
  <2>1. CASE HasNew
    BY <1>1, <2>1 DEF OldHolds, NewHolds, OldGives, NewGives, OldRejects, NewRejects, Holds, Gives, Rejects, Counted
  <2>2. CASE ~HasNew
    BY <1>1, <2>2 DEF OldHolds, NewHolds, OldGives, NewGives, OldRejects, NewRejects
  <2> QED
    BY <2>1, <2>2
<1>3. /\ NewHolds(r)' = 0 /\ NewGives(r)' = 0 /\ NewRejects(r)' = 0
  BY <1>1 DEF NewHolds, NewGives, NewRejects
<1>4. OldAmount(r)' = NewAmount(r)
  <2>1. Amount(gpuRows, r) = Amount(inputs, r)
    BY <1>1, SameAmount DEF IInv, Batch
  <2>2. NewUnsampled <=> queue = QS
    BY <1>1, SchedulePipe
  <2>3. Amount(gpuRows, r)' = Amount(gpuRows, r)
    BY <1>1 DEF Amount, In
  <2> QED
    BY <1>1, <2>1, <2>2, <2>3 DEF OldAmount, NewAmount
<1>5. /\ DOMAIN inputs' = DOMAIN s /\ \A q \in S : \E i \in DOMAIN s : s[i] = q
      /\ \A i \in DOMAIN s : s[i] \in S
  BY LaunchRows
<1>6. \A i \in DOMAIN s : /\ inputs'[i].req = s[i] /\ inputs'[i].n = c[s[i]].n
                          /\ (inputs'[i].fresh <=> sched[s[i]].status \in {"new", "preempted"})
  BY LaunchInput
<1>7. In(inputs, r)' <=> r \in S
  BY <1>5, <1>6 DEF In
<1>8. NewAmount(r)' = IF r \in S THEN c[r].n ELSE 0
  <2>1. NewAmount(r)' = Amount(inputs, r)'
    BY <1>1 DEF NewAmount
  <2> DEFINE t == inputs'
  <2>2. Amount(inputs, r)' = Amount(t, r) /\ (In(inputs, r)' <=> In(t, r))
    BY DEF Amount, In
  <2>3. Once(t)
    <3>1. Once(inputs)'
      BY LaunchBatch DEF Batch
    <3> QED
      BY <3>1 DEF Once
  <2>4. \A i \in DOMAIN t : t[i].req = s[i] /\ t[i].n = c[s[i]].n
    BY <1>5, <1>6
  <2>5. r \in S => \E i \in DOMAIN t : s[i] = r
    BY <1>5
  <2> HIDE DEF t
  <2>6. CASE r \in S
    <3>1. PICK i \in DOMAIN t : s[i] = r
      BY <2>5, <2>6
    <3>2. Amount(t, t[i].req) = t[i].n
      BY <2>3, AmountIs
    <3> QED
      BY <2>1, <2>2, <2>4, <2>6, <3>1, <3>2
  <2>7. CASE r \notin S
    <3>1. Amount(t, r) = 0
      BY <1>7, <2>2, <2>7, AmountNone
    <3> QED
      BY <2>1, <2>2, <2>7, <3>1
  <2> QED
    BY <2>6, <2>7
<1>9. HostHolds(r)' = IF r \in S /\ Samples(sched[r], c[r]) THEN 1 + c[r].d ELSE 0
  <2>1. r \in S => plan'.orders[r].d = c[r].d /\ (plan'.orders[r].samples <=> Samples(sched[r], c[r]))
    BY LaunchPlan
  <2> QED
    BY <1>1, <1>7, <2>1 DEF HostHolds
<1>10. Arriving(r)' <=> r \in S /\ sched[r].status \in {"new", "preempted"}
  BY <1>1, <1>5, <1>6 DEF Arriving
<1>11. Base(r)' = IF r \in S /\ sched[r].status \in {"new", "preempted"} THEN 0 ELSE truth[r].comp
  BY <1>1, <1>10 DEF Base
<1> QED
  BY <1>2, <1>3, <1>4, <1>8, <1>9, <1>11

LEMMA LaunchAccounts ==
  ASSUME IInv, Depth = 2, NEW S, NEW P, NEW c, NEW s, Launch(S, P, c, s)
  PROVE  Accounts'
<1> SUFFICES ASSUME NEW r \in Reqs
             PROVE  /\ sched'[r].status # "finished" =>
                         /\ sched'[r].place = OldHolds(r)' + NewHolds(r)' + HostHolds(r)'
                         /\ sched'[r].known + OldGives(r)' + NewGives(r)' = truth'[r].out
                    /\ sched'[r].status = "running" =>
                         sched'[r].comp = Base(r)' + OldAmount(r)' + NewAmount(r)' + OldRejects(r)' + NewRejects(r)'
                    /\ sched'[r].place \in 0..(2 * (1 + NumSpec)) /\ sched'[r].known <= MaxOut[r]
  BY Zenon DEF Accounts
<1>1. /\ OldHolds(r)' = NewHolds(r) /\ OldGives(r)' = NewGives(r) /\ OldRejects(r)' = NewRejects(r)
      /\ NewHolds(r)' = 0 /\ NewGives(r)' = 0 /\ NewRejects(r)' = 0
      /\ OldAmount(r)' = NewAmount(r)
      /\ NewAmount(r)' = IF r \in S THEN c[r].n ELSE 0
      /\ HostHolds(r)' = IF r \in S /\ Samples(sched[r], c[r]) THEN 1 + c[r].d ELSE 0
      /\ Base(r)' = IF r \in S /\ sched[r].status \in {"new", "preempted"} THEN 0 ELSE truth[r].comp
  BY LaunchShifts
<1>2. MaySchedule /\ truth' = truth
  BY LaunchPipe
<1>3. /\ sched[r].status # "finished" =>
              sched[r].place = NewHolds(r) /\ sched[r].known + NewGives(r) = truth[r].out
      /\ sched[r].status = "running" => sched[r].comp = truth[r].comp + NewAmount(r) + NewRejects(r)
      /\ NewAmount(r) \in Nat /\ NewRejects(r) \in Nat /\ NewHolds(r) \in Nat /\ NewGives(r) \in Nat
      /\ NewHolds(r) <= 1 + NumSpec
  BY <1>2, ScheduleAccounts
<1>4. sched[r].place \in 0..(2 * (1 + NumSpec)) /\ sched[r].known <= MaxOut[r]
  BY DEF IInv, Accounts
<1>5. /\ sched[r].known \in Nat /\ sched[r].place \in Int /\ sched[r].comp \in Int
      /\ truth[r].comp \in Nat /\ truth[r].out \in Nat
  BY RequestTypes DEF IInv
<1>6. CASE r \in S
  <2>1. Schedulable(r) /\ c[r] \in Chunks(r)
    BY <1>6, Zenon DEF Launch
  <2>2. c[r].n \in Nat /\ c[r].d \in Nat /\ c[r].d <= NumSpec
    BY <1>2, <2>1, ChunkFacts
  <2>3. /\ sched'[r].known = sched[r].known /\ sched'[r].comp = sched[r].comp + c[r].n
        /\ sched'[r].place = IF Samples(sched[r], c[r]) THEN sched[r].place + 1 + c[r].d ELSE sched[r].place
    BY <1>6, LaunchSched
  <2>4. sched[r].status \in {"new", "preempted", "running"}
    BY <2>1 DEF Schedulable
  <2>5. sched[r].status \in {"new", "preempted"} =>
          sched[r].comp = 0 /\ NewAmount(r) = 0 /\ NewRejects(r) = 0
    <3> SUFFICES ASSUME sched[r].status \in {"new", "preempted"}
                 PROVE  sched[r].comp = 0 /\ NewAmount(r) = 0 /\ NewRejects(r) = 0
      OBVIOUS
    <3>1. r \notin Members(rows) /\ sched[r].comp = 0
      BY DEF IInv, Chances
    <3> QED
      BY <1>2, <3>1, NothingHeld
  <2>6. sched'[r].place = OldHolds(r)' + NewHolds(r)' + HostHolds(r)'
    BY <1>1, <1>3, <1>5, <1>6, <2>2, <2>3, <2>4
  <2>7. sched'[r].known + OldGives(r)' + NewGives(r)' = truth'[r].out
    BY <1>1, <1>2, <1>3, <1>5, <2>3, <2>4
  <2>8. sched'[r].comp = Base(r)' + OldAmount(r)' + NewAmount(r)' + OldRejects(r)' + NewRejects(r)'
    <3>1. CASE sched[r].status \in {"new", "preempted"}
      BY <1>1, <1>5, <1>6, <2>2, <2>3, <2>5, <3>1
    <3>2. CASE sched[r].status = "running"
      BY <1>1, <1>3, <1>5, <1>6, <2>2, <2>3, <3>2
    <3> QED
      BY <2>4, <3>1, <3>2
  <2>9. sched'[r].place \in 0..(2 * (1 + NumSpec))
    BY <1>3, <1>4, <1>5, <2>2, <2>3, <2>4, Sizes
  <2> QED
    BY <1>4, <2>3, <2>6, <2>7, <2>8, <2>9
<1>7. CASE r \notin S
  <2>1. /\ r \in P => /\ sched[r].status = "running" /\ sched'[r].status = "preempted"
                      /\ sched'[r].known = sched[r].known /\ sched'[r].comp = 0
                      /\ sched'[r].place = sched[r].place
        /\ r \notin P => sched'[r] = sched[r]
    BY <1>7, LaunchOthers
  <2>2. /\ sched'[r].known = sched[r].known /\ sched'[r].place = sched[r].place
        /\ sched'[r].status # "finished" => sched[r].status # "finished"
        /\ sched'[r].status = "running" => sched[r].status = "running" /\ sched'[r].comp = sched[r].comp
    BY <2>1
  <2> QED
    BY <1>1, <1>2, <1>3, <1>4, <1>5, <1>7, <2>2
<1> QED
  BY <1>6, <1>7

LEMMA LaunchChances ==
  ASSUME IInv, Depth = 2, NEW S, NEW P, NEW c, NEW s, Launch(S, P, c, s)
  PROVE  Chances'
<1> SUFFICES ASSUME NEW r \in Reqs
             PROVE  /\ sched'[r].status \in {"new", "preempted"} =>
                         /\ sched'[r].comp = 0 /\ r \notin Members(rows')
                         /\ ~Forced => ~In(inputs, r)'
                    /\ sched'[r].status = "running" =>
                         /\ sched'[r].comp < Length(sched'[r])
                         /\ \A i \in DOMAIN inputs' : inputs'[i].req = r =>
                              /\ ~inputs'[i].discard => Length(sched'[r]) = sched'[r].comp + 1
                              /\ inputs'[i].discard => /\ sched'[r].spec = 0 /\ sched'[r].place = 0
                                                       /\ req'[r].real = Prompt + sched'[r].known
                    /\ ~sched'[r].drop
                    /\ Arriving(r)' /\ sched'[r].status # "finished" =>
                         /\ truth'[r].out = sched'[r].known
                         /\ \A i \in DOMAIN inputs' : inputs'[i].req = r => inputs'[i].known = sched'[r].known
  BY Zenon DEF Chances
<1>1. /\ DOMAIN inputs' = DOMAIN s /\ rows' = s /\ Members(s) = S
      /\ \A i \in DOMAIN s : s[i] \in S
  BY LaunchRows
<1>2. MaySchedule /\ truth' = truth
  BY LaunchPipe
<1>3. \A i \in DOMAIN s : /\ inputs'[i].req = s[i] /\ inputs'[i].known = sched[s[i]].known
                          /\ (inputs'[i].discard <=> ~Samples(sched[s[i]], c[s[i]]))
  BY LaunchInput
<1>4. /\ sched[r].known \in Nat /\ sched[r].place \in Int /\ sched[r].comp \in Int
  BY RequestTypes DEF IInv
<1>5. CASE r \in S
  <2>1. Schedulable(r) /\ c[r] \in Chunks(r)
    BY <1>5, Zenon DEF Launch
  <2>2. c[r].n \in Nat /\ c[r].d \in Nat
        /\ (Samples(sched[r], c[r]) => sched[r].comp + c[r].n = Length(sched[r]) + c[r].d)
        /\ (~Samples(sched[r], c[r]) => c[r].d = 0 /\ sched[r].comp + c[r].n < Length(sched[r]))
    BY <1>2, <2>1, ChunkFacts
  <2>3. /\ \A i \in DOMAIN inputs :
              inputs[i].req = r /\ sched[r].status = "running" /\ ~inputs[i].discard =>
                c[r].n = 1 + c[r].d /\ Samples(sched[r], c[r])
        /\ (r \notin Members(rows) \/ \E i \in DOMAIN inputs : inputs[i].req = r /\ inputs[i].discard)
              => c[r].d = 0 /\ sched[r].place = 0 /\ sched[r].comp + c[r].n <= Prompt + sched[r].known
    BY <1>2, <2>1, ChunkFacts
  <2>4. /\ sched'[r].status = "running" /\ sched'[r].known = sched[r].known
        /\ sched'[r].comp = sched[r].comp + c[r].n
        /\ sched'[r].place = IF Samples(sched[r], c[r]) THEN sched[r].place + 1 + c[r].d ELSE sched[r].place
        /\ sched'[r].spec = IF Samples(sched[r], c[r]) THEN NumSpec ELSE 0
        /\ sched'[r].drop = sched[r].drop
    BY <1>5, LaunchSched
  <2>5. /\ Length(sched[r]) = Prompt + sched[r].known + sched[r].place
        /\ Length(sched'[r]) = Prompt + sched'[r].known + sched'[r].place
    BY DEF Length
  <2>6. /\ sched'[r].comp < Length(sched'[r])
        /\ Samples(sched[r], c[r]) => Length(sched'[r]) = sched'[r].comp + 1
    <3>1. CASE Samples(sched[r], c[r])
      BY <1>4, <2>2, <2>4, <2>5, <3>1, Sizes
    <3>2. CASE ~Samples(sched[r], c[r])
      BY <1>4, <2>2, <2>4, <2>5, <3>2, Sizes
    <3> QED
      BY <3>1, <3>2
  <2>7. ASSUME ~Samples(sched[r], c[r])
        PROVE  sched'[r].spec = 0 /\ sched'[r].place = 0 /\ req'[r].real = Prompt + sched'[r].known
    <3>1. req'[r].real = IF r \in Members(rows) THEN req[r].real ELSE Prompt + sched[r].known
      BY <1>5, LaunchReq
    <3>2. CASE r \notin Members(rows)
      BY <2>3, <2>4, <2>7, <3>1, <3>2
    <3>3. CASE r \in Members(rows)
      <4>1. sched[r].status = "running"
        BY <2>1, <3>3 DEF Schedulable, IInv, Chances
      <4>2. PICK i \in DOMAIN inputs : inputs[i].req = r
        BY <3>3, RowIsInput DEF In
      <4>3. inputs[i].discard
        BY <2>3, <2>7, <4>1, <4>2
      <4>4. sched[r].place = 0 /\ req[r].real = Prompt + sched[r].known
        BY <4>1, <4>2, <4>3 DEF IInv, Chances
      <4> QED
        BY <2>4, <2>7, <3>1, <3>3, <4>4
    <3> QED
      BY <3>2, <3>3
  <2>8. ~sched'[r].drop
    BY <2>4 DEF IInv, Chances
  <2>9. \A i \in DOMAIN inputs' : inputs'[i].req = r =>
          /\ inputs'[i].known = sched'[r].known
          /\ (inputs'[i].discard <=> ~Samples(sched[r], c[r]))
    BY <1>1, <1>3, <2>4
  <2>10. Arriving(r)' => truth'[r].out = sched'[r].known
    <3> SUFFICES ASSUME Arriving(r)'
                 PROVE  truth'[r].out = sched'[r].known
      OBVIOUS
    <3>1. PICK i \in DOMAIN inputs' : inputs'[i].req = r /\ inputs'[i].fresh
      BY DEF Arriving
    <3>2. sched[r].status \in {"new", "preempted"}
      BY <1>1, <3>1, LaunchInput
    <3>3. r \notin Members(rows)
      BY <3>2 DEF IInv, Chances
    <3>4. sched[r].known + NewGives(r) = truth[r].out /\ NewGives(r) = 0
      BY <1>2, <3>2, <3>3, NothingHeld, ScheduleAccounts
    <3> QED
      BY <1>2, <1>4, <2>4, <3>4
  <2> QED
    BY <2>4, <2>6, <2>7, <2>8, <2>9, <2>10
<1>6. CASE r \notin S
  <2>1. /\ r \in P => /\ sched[r].status = "running" /\ sched'[r].status = "preempted"
                      /\ sched'[r].known = sched[r].known /\ sched'[r].comp = 0
                      /\ sched'[r].place = sched[r].place /\ sched'[r].drop = sched[r].drop
        /\ r \notin P => sched'[r] = sched[r]
    BY <1>6, LaunchOthers
  <2>2. ~In(inputs, r)' /\ ~Arriving(r)' /\ \A i \in DOMAIN inputs' : inputs'[i].req # r
    BY <1>1, <1>3, <1>6 DEF In, Arriving
  <2>3. r \notin Members(rows')
    BY <1>1, <1>6
  <2>4. CASE r \in P
    <3>1. ~sched'[r].drop
      BY <2>1, <2>4 DEF IInv, Chances
    <3> QED
      BY <2>1, <2>2, <2>3, <2>4, <3>1
  <2>5. CASE r \notin P
    BY <1>2, <2>1, <2>2, <2>3, <2>5 DEF IInv, Chances
  <2> QED
    BY <2>4, <2>5
<1> QED
  BY <1>5, <1>6

LEMMA LaunchStep ==
  ASSUME IInv, Depth = 2, NEW S \in SUBSET Reqs, S # {}, \A r \in S : Schedulable(r),
         NEW P \in SUBSET {r \in Reqs \ S : sched[r].status = "running"}, ExecuteModel(S, P)
  PROVE  IInv'
<1>1. PICK c, s : Launch(S, P, c, s)
  BY ModelIsLaunch
<1>2. /\ Shape' /\ Typed' /\ Batch' /\ OutsMatch' /\ PrevRows' /\ Lengths' /\ Incoming'
      /\ HostAgrees' /\ Deferral' /\ Accounts' /\ Chances'
  BY <1>1, LaunchShape, LaunchTypes, LaunchBatch, LaunchLengths, LaunchIncoming, LaunchHost, LaunchDeferral,
     LaunchAccounts, LaunchChances
<1> QED
  BY <1>2 DEF IInv

-----------------------------------------------------------------------------
(* A step without tokens. *)

LEMMA NothingStep ==
  ASSUME IInv, Depth = 2, NEW P \in SUBSET {r \in Reqs : sched[r].status = "running"},
         P # {} => Forced, ExecuteNothing(P)
  PROVE  IInv'
<1>1. /\ MaySchedule /\ rows # <<>> /\ rows' = <<>>
      /\ sched' = [r \in Reqs |-> IF r \in P THEN Preempted(sched[r]) ELSE sched[r]]
      /\ plan' = plan /\ pc' = pc /\ req' = req /\ prevRow' = prevRow /\ inputs' = inputs /\ queue' = queue
      /\ gpuRows' = gpuRows /\ sampled' = sampled /\ outputs' = outputs /\ truth' = truth
  BY Zenon DEF ExecuteNothing
<1>2. /\ pc = "idle" /\ queue \in {Q0, QS} /\ ~HasOld /\ HasNew /\ ~Preparing
  BY <1>1, SchedulePipe
<1>3. /\ (HasOld' <=> HasOld) /\ (HasNew' <=> HasNew) /\ OldOut' = OldOut /\ NewOut' = NewOut
      /\ (Preparing' <=> Preparing) /\ (OldUnsampled' <=> OldUnsampled) /\ (NewUnsampled' <=> NewUnsampled)
  BY <1>1 DEF HasOld, HasNew, OldOut, NewOut, Preparing, OldUnsampled, NewUnsampled
<1>4. Members(<<>>) = {} /\ Len(<<>>) = 0 /\ DOMAIN <<>> = {} /\ <<>> \in Seq(Reqs)
  BY DEF Members
<1>5. \A r \in Reqs : sched[r] \in Requests
  BY RequestTypes DEF IInv
<1>6. ASSUME NEW r \in Reqs
      PROVE  /\ r \in P => /\ sched[r].status = "running" /\ sched'[r].status = "preempted"
                           /\ sched'[r].known = sched[r].known /\ sched'[r].comp = 0
                           /\ sched'[r].place = sched[r].place /\ sched'[r].drop = sched[r].drop
                           /\ sched'[r] \in Requests
             /\ r \notin P => sched'[r] = sched[r]
  <2>1. CASE r \in P
    <3> DEFINE z == sched[r]
               spare == 0..NumSpec
               zero == 0
    <3>1. sched'[r] = [z EXCEPT !.status = "preempted", !.comp = zero, !.spec = zero] /\ zero \in spare /\ zero \in Int
      <4>1. sched'[r] = Preempted(sched[r])
        BY <1>1, <2>1
      <4>2. 0 \in 0..NumSpec
        BY Sizes
      <4> QED
        BY <4>1, <4>2 DEF Preempted
    <3>2. z \in [status : Statuses, known : Nat, place : Int, comp : Int, spec : spare, drop : BOOLEAN]
      BY <1>5 DEF Requests
    <3>3. sched[r].status = "running"
      BY <2>1
    <3> HIDE DEF z, spare, zero
    <3>4. /\ sched'[r] \in [status : Statuses, known : Nat, place : Int, comp : Int, spec : spare, drop : BOOLEAN]
          /\ sched'[r].status = "preempted" /\ sched'[r].known = z.known /\ sched'[r].comp = zero
          /\ sched'[r].place = z.place /\ sched'[r].drop = z.drop
      BY <3>1, <3>2 DEF Statuses
    <3> QED
      BY <2>1, <3>3, <3>4 DEF Requests, spare, zero, z
  <2>2. CASE r \notin P
    BY <1>1, <2>2
  <2> QED
    BY <2>1, <2>2
<1>7. Shape'
  BY <1>1, <1>2, <1>3 DEF IInv, Shape
<1>8. Typed'
  <2>1. sched' \in [Reqs -> Requests]
    BY <1>1, <1>5, <1>6
  <2> QED
    BY <1>1, <1>4, <2>1 DEF IInv, Typed
<1>9. Batch'
  <2>1. 0 <= MaxRows
    BY Sizes, FS_CardinalityType DEF MaxRows
  <2>2. DOMAIN <<>> = 1..0
    BY <1>4
  <2> QED
    BY <1>1, <1>3, <1>4, <2>1, <2>2 DEF IInv, Batch, Once, Same
<1>10. OutsMatch'
  BY <1>1, <1>3 DEF IInv, OutsMatch, OutOf, In
<1>11. PrevRows' /\ Lengths'
  BY <1>1, <1>3 DEF IInv, PrevRows, Prev, Lengths
<1>12. Incoming' /\ Deferral'
  BY <1>1, <1>2, <1>3 DEF Incoming, Deferral
<1>13. HostAgrees'
  BY <1>1, <1>2, <1>4 DEF IInv, HostAgrees
<1>14. \A r \in Reqs : 
         /\ OldHolds(r)' = OldHolds(r) /\ OldGives(r)' = OldGives(r) /\ OldRejects(r)' = OldRejects(r)
         /\ NewHolds(r)' = NewHolds(r) /\ NewGives(r)' = NewGives(r) /\ NewRejects(r)' = NewRejects(r)
         /\ HostHolds(r)' = HostHolds(r) /\ OldAmount(r)' = OldAmount(r) /\ NewAmount(r)' = NewAmount(r)
         /\ Base(r)' = Base(r)
  BY <1>1, <1>3 DEF OldHolds, OldGives, OldRejects, NewHolds, NewGives, NewRejects, HostHolds, OldAmount, NewAmount,
     Base, Arriving, Holds, Gives, Rejects, Counted, Amount, In
<1>15. Accounts'
  <2> SUFFICES ASSUME NEW r \in Reqs
               PROVE  /\ sched'[r].status # "finished" =>
                           /\ sched'[r].place = OldHolds(r)' + NewHolds(r)' + HostHolds(r)'
                           /\ sched'[r].known + OldGives(r)' + NewGives(r)' = truth'[r].out
                      /\ sched'[r].status = "running" =>
                           sched'[r].comp = Base(r)' + OldAmount(r)' + NewAmount(r)' + OldRejects(r)' + NewRejects(r)'
                      /\ sched'[r].place \in 0..(2 * (1 + NumSpec)) /\ sched'[r].known <= MaxOut[r]
    BY Zenon DEF Accounts
  <2>1. /\ sched'[r].known = sched[r].known /\ sched'[r].place = sched[r].place
        /\ sched'[r].status # "finished" => sched[r].status # "finished"
        /\ sched'[r].status = "running" => sched[r].status = "running" /\ sched'[r].comp = sched[r].comp
    BY <1>6
  <2> QED
    BY <1>1, <1>14, <2>1 DEF IInv, Accounts
<1>16. Chances'
  <2> SUFFICES ASSUME NEW r \in Reqs
               PROVE  /\ sched'[r].status \in {"new", "preempted"} =>
                           /\ sched'[r].comp = 0 /\ r \notin Members(rows')
                           /\ ~Forced => ~In(inputs, r)'
                      /\ sched'[r].status = "running" =>
                           /\ sched'[r].comp < Length(sched'[r])
                           /\ \A i \in DOMAIN inputs' : inputs'[i].req = r =>
                                /\ ~inputs'[i].discard => Length(sched'[r]) = sched'[r].comp + 1
                                /\ inputs'[i].discard => /\ sched'[r].spec = 0 /\ sched'[r].place = 0
                                                         /\ req'[r].real = Prompt + sched'[r].known
                      /\ ~sched'[r].drop
                      /\ Arriving(r)' /\ sched'[r].status # "finished" =>
                           /\ truth'[r].out = sched'[r].known
                           /\ \A i \in DOMAIN inputs' : inputs'[i].req = r => inputs'[i].known = sched'[r].known
    BY Zenon DEF Chances
  <2>1. ~Arriving(r)' /\ r \notin Members(rows') /\ (In(inputs, r)' <=> In(inputs, r))
    BY <1>1, <1>2, <1>3, <1>4 DEF Arriving, In
  <2>2. CASE r \in P
    <3>1. Forced /\ ~sched'[r].drop
      BY <1>6, <2>2 DEF IInv, Chances
    <3> QED
      BY <1>6, <2>1, <2>2, <3>1
  <2>3. CASE r \notin P
    BY <1>1, <1>6, <2>1, <2>3 DEF IInv, Chances
  <2> QED
    BY <2>2, <2>3
<1> QED
  BY <1>7, <1>8, <1>9, <1>10, <1>11, <1>12, <1>13, <1>15, <1>16 DEF IInv

LEMMA ExecuteStep ==
  ASSUME IInv, Depth = 2, Execute
  PROVE  IInv'
<1> DEFINE others(S) == {r \in Reqs \ S : sched[r].status = "running"}
<1>1. PICK S \in SUBSET {r \in Reqs : Schedulable(r)} :
        \E P \in (IF Preempts /\ (S # {} \/ Forced) THEN SUBSET others(S) ELSE {{}}) :
          IF S = {} THEN ExecuteNothing(P) ELSE ExecuteModel(S, P)
  BY Zenon DEF Execute
<1>2. PICK P \in (IF Preempts /\ (S # {} \/ Forced) THEN SUBSET others(S) ELSE {{}}) :
        IF S = {} THEN ExecuteNothing(P) ELSE ExecuteModel(S, P)
  BY <1>1, Zenon
<1>3. P \in SUBSET others(S) /\ (S = {} /\ P # {} => Forced)
  <2>1. CASE Preempts /\ (S # {} \/ Forced)
    BY <1>2, <2>1
  <2>2. CASE ~(Preempts /\ (S # {} \/ Forced))
    BY <1>2, <2>2
  <2> QED
    BY <2>1, <2>2
<1>4. CASE S = {}
  <2>1. P \in SUBSET {r \in Reqs : sched[r].status = "running"}
    BY <1>3
  <2>2. ExecuteNothing(P)
    BY <1>2, <1>4, Zenon
  <2> QED
    BY <1>3, <1>4, <2>1, <2>2, NothingStep
<1>5. CASE S # {}
  <2>1. S \in SUBSET Reqs /\ \A r \in S : Schedulable(r)
    BY <1>1
  <2>2. ExecuteModel(S, P)
    BY <1>2, <1>5, Zenon
  <2> QED
    BY <1>3, <1>5, <2>1, <2>2, LaunchStep
<1> QED
  BY <1>4, <1>5

-----------------------------------------------------------------------------
(* The deferred correction. *)

\* What the correction takes off, which is what takes the host's length to the truth.
LEMMA ExcessIs ==
  ASSUME IInv, Depth = 2, Correct, NEW r \in Reqs
  PROVE  /\ Excess(r) \in Int
         /\ r \in DOMAIN plan.deferred /\ prevRow[r] # 0 => req[r].comp - Excess(r) = truth[r].comp
         /\ Excess(r) # 0 => r \in DOMAIN plan.deferred /\ prevRow[r] # 0
<1>1. pc = "launched" /\ (DOMAIN plan.deferred # {} => CountsReady)
  BY DEF Correct
<1>2. CASE r \in DOMAIN plan.deferred /\ prevRow[r] # 0
  <2>1. ~OldUnsampled
    BY <1>1, <1>2, QueueMembers DEF CountsReady, OldUnsampled
  <2> DEFINE p == prevRow[r]
             q == plan.deferred[r]
             w == sampled[p].count
  <2>2. /\ q \in 0..NumSpec /\ p \in DOMAIN sampled
        /\ req[r].comp + w = truth[r].comp + q + 1
    BY <1>1, <1>2, <2>1 DEF IInv, Deferral
  <2>3. w \in Nat /\ truth[r].comp \in Nat /\ req[r].comp \in Int
    BY <2>2, SampledTypes, RequestTypes DEF IInv
  <2>4. Excess(r) = q - (w - 1)
    BY <1>2 DEF Excess
  <2> DEFINE e == Excess(r)
             h == req[r].comp
             t == truth[r].comp
  <2>5. q \in Int
    BY <2>2, Sizes
  <2>6. e = q - (w - 1) /\ h + w = t + q + 1 /\ w \in Nat /\ t \in Nat /\ h \in Int
    BY <2>2, <2>3, <2>4
  <2> HIDE DEF p, q, w, e, h, t
  <2>7. e \in Int /\ h - e = t
    BY <2>5, <2>6
  <2> QED
    BY <1>2, <2>7 DEF e, h, t
<1>3. CASE ~(r \in DOMAIN plan.deferred /\ prevRow[r] # 0)
  BY <1>3 DEF Excess
<1> QED
  BY <1>2, <1>3

\* The correction moves the pinned lengths of the rows only.
LEMMA CorrectRows ==
  ASSUME IInv, Depth = 2, Correct
  PROVE  /\ DOMAIN inputs' = DOMAIN inputs
         /\ \A i \in DOMAIN inputs :
              /\ inputs'[i] \in Rows
              /\ inputs'[i].req = inputs[i].req /\ inputs'[i].n = inputs[i].n /\ inputs'[i].d = inputs[i].d
              /\ inputs'[i].at = inputs[i].at /\ inputs'[i].real = inputs[i].real /\ inputs'[i].prev = inputs[i].prev
              /\ inputs'[i].drafts = inputs[i].drafts /\ inputs'[i].discard = inputs[i].discard
              /\ inputs'[i].fresh = inputs[i].fresh /\ inputs'[i].known = inputs[i].known
              /\ inputs'[i].pinned = inputs[i].pinned - Excess(inputs[i].req)
<1>1. inputs' = [i \in DOMAIN inputs |-> [inputs[i] EXCEPT !.pinned = @ - Excess(inputs[i].req)]]
  BY DEF Correct
<1>2. ASSUME NEW i \in DOMAIN inputs
      PROVE  /\ inputs'[i] \in Rows
             /\ inputs'[i].req = inputs[i].req /\ inputs'[i].n = inputs[i].n /\ inputs'[i].d = inputs[i].d
             /\ inputs'[i].at = inputs[i].at /\ inputs'[i].real = inputs[i].real /\ inputs'[i].prev = inputs[i].prev
             /\ inputs'[i].drafts = inputs[i].drafts /\ inputs'[i].discard = inputs[i].discard
             /\ inputs'[i].fresh = inputs[i].fresh /\ inputs'[i].known = inputs[i].known
             /\ inputs'[i].pinned = inputs[i].pinned - Excess(inputs[i].req)
  <2> DEFINE x == inputs[i]
             w == x.pinned - Excess(x.req)
  <2>1. inputs'[i] = [x EXCEPT !.pinned = w]
    BY <1>1
  <2>2. x \in Rows /\ x.req \in Reqs /\ x.pinned \in Int
    BY InputTypes DEF IInv
  <2>3. w \in Int
    BY <2>2, ExcessIs
  <2> HIDE DEF x, w
  <2>4. /\ inputs'[i] \in Rows /\ inputs'[i].pinned = w
        /\ inputs'[i].req = x.req /\ inputs'[i].n = x.n /\ inputs'[i].d = x.d
        /\ inputs'[i].at = x.at /\ inputs'[i].real = x.real /\ inputs'[i].prev = x.prev
        /\ inputs'[i].drafts = x.drafts /\ inputs'[i].discard = x.discard
        /\ inputs'[i].fresh = x.fresh /\ inputs'[i].known = x.known
    BY <2>1, <2>2, <2>3 DEF Rows
  <2> QED
    BY <2>4 DEF x, w
<1> QED
  BY <1>1, <1>2

LEMMA CorrectRequest ==
  ASSUME IInv, Depth = 2, Correct, NEW r \in Reqs
  PROVE  /\ req'[r] \in Cached /\ req'[r].comp = req[r].comp - Excess(r)
         /\ req'[r].outs = req[r].outs /\ req'[r].draft = req[r].draft /\ req'[r].real = req[r].real
<1> DEFINE x == req[r]
           w == x.comp - Excess(r)
<1>1. req'[r] = [x EXCEPT !.comp = w]
  BY DEF Correct
<1>2. x \in Cached /\ w \in Int
  BY RequestTypes, ExcessIs DEF IInv
<1> HIDE DEF x, w
<1>3. /\ req'[r] \in Cached /\ req'[r].comp = w
      /\ req'[r].outs = x.outs /\ req'[r].draft = x.draft /\ req'[r].real = x.real
  BY <1>1, <1>2 DEF Cached
<1> QED
  BY <1>3 DEF x, w

LEMMA CorrectPipe ==
  ASSUME Correct
  PROVE  /\ pc = "launched" /\ pc' = "computed"
         /\ sched' = sched /\ plan' = plan /\ rows' = rows /\ prevRow' = prevRow /\ queue' = queue
         /\ gpuRows' = gpuRows /\ sampled' = sampled /\ outputs' = outputs /\ truth' = truth
         /\ (HasOld' <=> HasOld) /\ ~HasNew /\ ~HasNew' /\ OldOut' = OldOut
         /\ (Preparing' <=> Preparing) /\ (OldUnsampled' <=> OldUnsampled) /\ NewUnsampled /\ NewUnsampled'
<1>1. /\ pc = "launched" /\ pc' = "computed"
      /\ sched' = sched /\ plan' = plan /\ rows' = rows /\ prevRow' = prevRow /\ queue' = queue
      /\ gpuRows' = gpuRows /\ sampled' = sampled /\ outputs' = outputs /\ truth' = truth
  BY Zenon DEF Correct
<1>2. /\ (HasOld' <=> HasOld) /\ ~HasNew /\ ~HasNew' /\ OldOut' = OldOut
      /\ (Preparing' <=> Preparing) /\ (OldUnsampled' <=> OldUnsampled) /\ NewUnsampled /\ NewUnsampled'
  BY <1>1 DEF HasOld, HasNew, OldOut, Preparing, OldUnsampled, NewUnsampled
<1> QED
  BY <1>1, <1>2, Zenon

\* The correction leaves the accounts as they are.
LEMMA CorrectAmounts ==
  ASSUME IInv, Depth = 2, Correct, NEW r \in Reqs
  PROVE  /\ OldHolds(r)' = OldHolds(r) /\ OldGives(r)' = OldGives(r) /\ OldRejects(r)' = OldRejects(r)
         /\ NewHolds(r)' = NewHolds(r) /\ NewGives(r)' = NewGives(r) /\ NewRejects(r)' = NewRejects(r)
         /\ HostHolds(r)' = HostHolds(r) /\ OldAmount(r)' = OldAmount(r) /\ NewAmount(r)' = NewAmount(r)
         /\ Base(r)' = Base(r) /\ (Arriving(r)' <=> Arriving(r)) /\ (In(inputs, r)' <=> In(inputs, r))
<1>1. /\ OldHolds(r)' = OldHolds(r) /\ OldGives(r)' = OldGives(r) /\ OldRejects(r)' = OldRejects(r)
      /\ NewHolds(r)' = NewHolds(r) /\ NewGives(r)' = NewGives(r) /\ NewRejects(r)' = NewRejects(r)
  BY CorrectPipe DEF OldHolds, OldGives, OldRejects, NewHolds, NewGives, NewRejects, Holds, Gives, Rejects, Counted
<1>2. OldAmount(r)' = OldAmount(r)
  BY CorrectPipe DEF OldAmount, Amount, In
<1> DEFINE t == inputs'
<1>3. /\ In(inputs, r)' <=> In(t, r)
      /\ Amount(inputs, r)' = Amount(t, r)
  BY DEF In, Amount
<1>4. /\ DOMAIN t = DOMAIN inputs
      /\ \A i \in DOMAIN inputs : t[i].req = inputs[i].req /\ t[i].n = inputs[i].n /\ t[i].d = inputs[i].d
                                  /\ t[i].discard = inputs[i].discard /\ t[i].fresh = inputs[i].fresh
  BY CorrectRows
<1>5. Arriving(r)' <=> Preparing /\ \E i \in DOMAIN t : t[i].req = r /\ t[i].fresh
  BY CorrectPipe DEF Arriving
<1> HIDE DEF t
<1>6. Same(t, inputs) /\ Once(inputs)
  BY <1>4 DEF Same, IInv, Batch
<1>7. Amount(t, r) = Amount(inputs, r) /\ (In(t, r) <=> In(inputs, r))
  BY <1>6, SameAmount
<1>8. NewAmount(r)' = NewAmount(r) /\ HostHolds(r)' = HostHolds(r)
  BY <1>3, <1>7, CorrectPipe DEF NewAmount, HostHolds
<1>9. Arriving(r)' <=> Arriving(r)
  BY <1>4, <1>5 DEF Arriving
<1>10. Base(r)' = Base(r)
  BY <1>9, CorrectPipe DEF Base
<1> QED
  BY <1>1, <1>2, <1>3, <1>7, <1>8, <1>9, <1>10

LEMMA CorrectIncoming ==
  ASSUME IInv, Depth = 2, Correct
  PROVE  Incoming'
<1> SUFFICES ASSUME Preparing, NEW i \in DOMAIN inputs
             PROVE  /\ Coming(inputs[i])'
                    /\ inputs'[i].prev = prevRow'[inputs'[i].req]
                    /\ ~Forced => Fed(inputs'[i]) /\ (inputs'[i].fresh => inputs'[i].prev = 0)
  BY CorrectPipe, CorrectRows DEF Incoming
<1> DEFINE x == inputs[i]
           y == inputs'[i]
           r == x.req
<1>1. /\ Coming(x) /\ x.prev = prevRow[r] /\ (~Forced => Fed(x) /\ (x.fresh => x.prev = 0))
  BY CorrectPipe DEF IInv, Incoming
<1>2. r \in Reqs /\ x.pinned \in Int
  BY InputTypes DEF IInv
<1>3. /\ Excess(r) # 0 => r \in DOMAIN plan.deferred /\ prevRow[r] # 0
      /\ Excess(r) \in Int
  BY <1>2, ExcessIs
<1>4. Excess(r) # 0 => ~x.fresh /\ x.drafts > 0 /\ x.prev # 0
  BY <1>1, <1>2, <1>3, CorrectPipe DEF IInv, Deferral
<1>5. /\ y.req = r /\ y.n = x.n /\ y.d = x.d /\ y.at = x.at /\ y.real = x.real /\ y.prev = x.prev
      /\ y.drafts = x.drafts /\ y.discard = x.discard /\ y.fresh = x.fresh /\ y.known = x.known
      /\ y.pinned = x.pinned - Excess(r)
  BY CorrectRows
<1>6. x.fresh \/ x.prev = 0 \/ x.drafts = 0 => y.pinned = x.pinned
  BY <1>2, <1>3, <1>4, <1>5
<1>7. Fed(x) => Fed(y)
  <2> HIDE DEF x, y, r
  <2> QED
    BY <1>5, <1>6 DEF Fed
<1>8. Coming(y)
  <2> HIDE DEF x, y
  <2> QED
    BY <1>1, <1>5, <1>6 DEF Coming, r
<1>9. Coming(inputs[i])'
  <2>1. gpuRows' = gpuRows /\ truth' = truth /\ (OldUnsampled' <=> OldUnsampled)
    BY CorrectPipe
  <2> HIDE DEF x
  <2> QED
    BY <1>8, <2>1 DEF Coming, Amount, In
<1> QED
  BY <1>1, <1>5, <1>7, <1>9, CorrectPipe

LEMMA CorrectStep ==
  ASSUME IInv, Depth = 2, Correct
  PROVE  IInv'
<1>1. Shape'
  <2>1. queue = QSP => DOMAIN plan.deferred = {}
    BY QueueMembers DEF Correct, CountsReady
  <2> QED
    BY <2>1, CorrectPipe DEF IInv, Shape
<1>2. Typed'
  <2>1. req' \in [Reqs -> Cached]
    <3>1. req' = [r \in Reqs |-> [req[r] EXCEPT !.comp = @ - Excess(r)]]
      BY DEF Correct
    <3>2. \A r \in Reqs : req'[r] \in Cached
      BY CorrectRequest
    <3> QED
      BY <3>1, <3>2
  <2>2. inputs' \in Seq(Rows)
    <3> DEFINE t == inputs'
    <3>1. t = [i \in DOMAIN inputs |-> t[i]]
      <4>1. t = [i \in DOMAIN inputs |-> [inputs[i] EXCEPT !.pinned = @ - Excess(inputs[i].req)]]
        BY DEF Correct
      <4> HIDE DEF t
      <4> QED
        BY <4>1
    <3>2. \A i \in DOMAIN inputs : t[i] \in Rows
      BY CorrectRows
    <3>3. inputs \in Seq(Rows)
      BY DEF IInv, Typed
    <3> HIDE DEF t
    <3>4. t \in Seq(Rows)
      BY <3>1, <3>2, <3>3, MapIsList
    <3> QED
      BY <3>4 DEF t
  <2> QED
    BY <2>1, <2>2, CorrectPipe DEF IInv, Typed
<1>3. Batch'
  <2>1. Once(inputs)'
    BY CorrectRows DEF IInv, Batch, Once
  <2>2. \A i \in DOMAIN inputs : Sound(inputs[i])'
    BY CorrectRows DEF IInv, Batch, Sound
  <2>3. Same(gpuRows, inputs) => Same(gpuRows, inputs)'
    BY CorrectRows, CorrectPipe DEF Same
  <2> QED
    BY <2>1, <2>2, <2>3, CorrectRows, CorrectPipe DEF IInv, Batch, Once, Sound
<1>4. OutsMatch' /\ PrevRows' /\ Lengths'
  <2>1. OutsMatch'
    BY CorrectPipe DEF IInv, OutsMatch, OutOf, In
  <2>2. PrevRows'
    BY CorrectPipe DEF IInv, PrevRows, Prev
  <2>3. Lengths'
    BY CorrectPipe DEF IInv, Lengths
  <2> QED
    BY <2>1, <2>2, <2>3
<1>5. Incoming'
  BY CorrectIncoming
<1>6. HostAgrees'
  <2>1. \A r \in Reqs : req'[r].comp >= 0 /\ req'[r].outs >= 0
    <3> SUFFICES ASSUME NEW r \in Reqs
                 PROVE  req'[r].comp >= 0 /\ req'[r].outs >= 0
      OBVIOUS
    <3>1. req[r].comp >= 0 /\ req[r].outs >= 0
      BY DEF IInv, HostAgrees
    <3>2. req'[r].comp = req[r].comp - Excess(r) /\ req'[r].outs = req[r].outs
      BY CorrectRequest
    <3>3. truth[r].comp \in Nat /\ req[r].comp \in Int
      BY RequestTypes DEF IInv
    <3>4. \/ Excess(r) = 0
          \/ req[r].comp - Excess(r) = truth[r].comp
      BY ExcessIs
    <3> QED
      BY <3>1, <3>2, <3>3, <3>4
  <2>2. \A i \in DOMAIN rows : rows[i] \in Reqs /\ i \in DOMAIN inputs
    BY CorrectPipe, ListItem DEF IInv, Typed, Batch, Shape
  <2>3. \A i \in DOMAIN rows : /\ inputs'[i].d = inputs[i].d /\ inputs'[i].discard = inputs[i].discard
                               /\ req'[rows[i]].outs = req[rows[i]].outs /\ req'[rows[i]].draft = req[rows[i]].draft
    BY <2>2, CorrectRows, CorrectRequest
  <2> QED
    BY <2>1, <2>2, <2>3, CorrectPipe DEF IInv, HostAgrees
<1>7. Deferral'
  <2> SUFFICES ASSUME NEW r \in Reqs, r \in DOMAIN plan.deferred, prevRow[r] # 0
               PROVE  /\ \A i \in DOMAIN inputs' : inputs'[i].req = r => ~inputs'[i].fresh
                      /\ plan.deferred[r] \in 0..NumSpec
                      /\ req'[r].comp = truth[r].comp
    BY CorrectPipe DEF Deferral
  <2>1. /\ \A i \in DOMAIN inputs : inputs[i].req = r => ~inputs[i].fresh
        /\ plan.deferred[r] \in 0..NumSpec
    BY CorrectPipe DEF IInv, Deferral
  <2>2. req'[r].comp = truth[r].comp
    BY CorrectRequest, ExcessIs
  <2> QED
    BY <2>1, <2>2, CorrectRows
<1>8. Accounts'
  <2> SUFFICES ASSUME NEW r \in Reqs
               PROVE  /\ sched'[r].status # "finished" =>
                           /\ sched'[r].place = OldHolds(r)' + NewHolds(r)' + HostHolds(r)'
                           /\ sched'[r].known + OldGives(r)' + NewGives(r)' = truth'[r].out
                      /\ sched'[r].status = "running" =>
                           sched'[r].comp = Base(r)' + OldAmount(r)' + NewAmount(r)' + OldRejects(r)' + NewRejects(r)'
                      /\ sched'[r].place \in 0..(2 * (1 + NumSpec)) /\ sched'[r].known <= MaxOut[r]
    BY Zenon DEF Accounts
  <2>1. /\ OldHolds(r)' = OldHolds(r) /\ OldGives(r)' = OldGives(r) /\ OldRejects(r)' = OldRejects(r)
        /\ NewHolds(r)' = NewHolds(r) /\ NewGives(r)' = NewGives(r) /\ NewRejects(r)' = NewRejects(r)
        /\ HostHolds(r)' = HostHolds(r) /\ OldAmount(r)' = OldAmount(r) /\ NewAmount(r)' = NewAmount(r)
        /\ Base(r)' = Base(r)
    BY CorrectAmounts
  <2>2. sched' = sched /\ truth' = truth
    BY CorrectPipe
  <2> QED
    BY <2>1, <2>2 DEF IInv, Accounts
<1>9. Chances'
  <2> SUFFICES ASSUME NEW r \in Reqs
               PROVE  /\ sched'[r].status \in {"new", "preempted"} =>
                           /\ sched'[r].comp = 0 /\ r \notin Members(rows')
                           /\ ~Forced => ~In(inputs, r)'
                      /\ sched'[r].status = "running" =>
                           /\ sched'[r].comp < Length(sched'[r])
                           /\ \A i \in DOMAIN inputs' : inputs'[i].req = r =>
                                /\ ~inputs'[i].discard => Length(sched'[r]) = sched'[r].comp + 1
                                /\ inputs'[i].discard => /\ sched'[r].spec = 0 /\ sched'[r].place = 0
                                                         /\ req'[r].real = Prompt + sched'[r].known
                      /\ ~sched'[r].drop
                      /\ Arriving(r)' /\ sched'[r].status # "finished" =>
                           /\ truth'[r].out = sched'[r].known
                           /\ \A i \in DOMAIN inputs' : inputs'[i].req = r => inputs'[i].known = sched'[r].known
    BY Zenon DEF Chances
  <2>1. (Arriving(r)' <=> Arriving(r)) /\ (In(inputs, r)' <=> In(inputs, r))
    BY CorrectAmounts
  <2>2. sched' = sched /\ truth' = truth /\ rows' = rows
    BY CorrectPipe
  <2>3. /\ DOMAIN inputs' = DOMAIN inputs
        /\ \A i \in DOMAIN inputs : inputs'[i].req = inputs[i].req /\ inputs'[i].discard = inputs[i].discard
                                    /\ inputs'[i].known = inputs[i].known
    BY CorrectRows
  <2>4. req'[r].real = req[r].real
    BY CorrectRequest
  <2> QED
    BY <2>1, <2>2, <2>3, <2>4 DEF IInv, Chances
<1> QED
  BY <1>1, <1>2, <1>3, <1>4, <1>5, <1>6, <1>7, <1>8, <1>9 DEF IInv

-----------------------------------------------------------------------------
(* The launch of sampling. *)

LEMMA TokensPipe ==
  ASSUME IInv, Depth = 2, SampleTokens
  PROVE  /\ pc = "computed" /\ pc' = "idle"
         /\ sched' = sched /\ plan' = plan /\ rows' = rows /\ inputs' = inputs
         /\ gpuRows' = gpuRows /\ sampled' = sampled /\ truth' = truth
         /\ queue \in {Q0, QP, QSP}
         /\ (queue = Q0 => queue' = QS) /\ (queue = QP => queue' = QPS) /\ (queue = QSP => queue' = QSPS)
         /\ queue' \in {QS, QPS, QSPS} /\ (queue' = QPS <=> queue = QP)
         /\ (Preparing' <=> Preparing) /\ (OldUnsampled' <=> OldUnsampled) /\ NewUnsampled /\ NewUnsampled'
         /\ rows # <<>> /\ DOMAIN rows = DOMAIN inputs /\ \A i \in DOMAIN rows : rows[i] = inputs[i].req
<1>1. /\ pc = "computed" /\ pc' = "idle" /\ queue' = Append(queue, "sample")
      /\ sched' = sched /\ plan' = plan /\ rows' = rows /\ inputs' = inputs
      /\ gpuRows' = gpuRows /\ sampled' = sampled /\ truth' = truth
  BY Zenon DEF SampleTokens
<1>2. queue \in {Q0, QP, QSP} /\ rows # <<>>
  BY <1>1 DEF IInv, Shape
<1>3. (queue = Q0 => queue' = QS) /\ (queue = QP => queue' = QPS) /\ (queue = QSP => queue' = QSPS)
  BY <1>1, QueueMoves
<1>4. queue' \in {QS, QPS, QSPS} /\ (queue' = QPS <=> queue = QP)
  BY <1>2, <1>3, QueuesDiffer
<1>5. (Preparing' <=> Preparing) /\ (OldUnsampled' <=> OldUnsampled) /\ NewUnsampled /\ NewUnsampled'
  BY <1>1, <1>2, <1>3, <1>4, QueuesDiffer DEF Preparing, OldUnsampled, NewUnsampled
<1>6. DOMAIN rows = DOMAIN inputs /\ \A i \in DOMAIN rows : rows[i] = inputs[i].req
  BY <1>2 DEF IInv, Batch
<1> QED
  BY <1>1, <1>2, <1>3, <1>4, <1>5, <1>6

\* The batch remembers the rows that sample.
LEMMA TokensPrev ==
  ASSUME IInv, Depth = 2, SampleTokens
  PROVE  /\ prevRow' \in [Reqs -> Nat] /\ Prev(inputs)'
         /\ \A i \in DOMAIN inputs : (prevRow'[inputs[i].req] = 0) <=> inputs[i].discard
<1>1. /\ rows # <<>> /\ DOMAIN rows = DOMAIN inputs /\ \A i \in DOMAIN rows : rows[i] = inputs[i].req
      /\ inputs' = inputs
  BY TokensPipe
<1>2. prevRow' = [r \in Reqs |->
        IF \E i \in SampledRows : rows[i] = r THEN CHOOSE i \in SampledRows : rows[i] = r ELSE 0]
  BY Zenon DEF SampleTokens
<1>3. SampledRows = {i \in DOMAIN inputs : ~inputs[i].discard}
  BY <1>1 DEF SampledRows
<1>4. \A i \in DOMAIN inputs : i \in Nat /\ i # 0 /\ inputs[i].req \in Reqs
  BY InputTypes DEF IInv
<1>5. \A i, j \in DOMAIN inputs : inputs[i].req = inputs[j].req => i = j
  BY DEF IInv, Batch, Once
<1>6. ASSUME NEW r \in Reqs
      PROVE  \/ \E i \in DOMAIN inputs : prevRow'[r] = i /\ inputs[i].req = r /\ ~inputs[i].discard
             \/ prevRow'[r] = 0 /\ \A i \in DOMAIN inputs : inputs[i].req = r => inputs[i].discard
  <2>1. CASE \E i \in SampledRows : rows[i] = r
    <3> DEFINE k == CHOOSE i \in SampledRows : rows[i] = r
    <3>1. k \in SampledRows /\ rows[k] = r
      BY <2>1
    <3>2. prevRow'[r] = k
      BY <1>2, <2>1
    <3> QED
      BY <1>1, <1>3, <3>1, <3>2
  <2>2. CASE ~\E i \in SampledRows : rows[i] = r
    BY <1>1, <1>2, <1>3, <2>2
  <2> QED
    BY <2>1, <2>2
<1>7. \A r \in Reqs : prevRow'[r] \in Nat
  BY <1>4, <1>6
<1>8. prevRow' \in [Reqs -> Nat]
  BY <1>2, <1>7
<1>9. \A r \in Reqs, i \in Nat \ {0} :
        prevRow'[r] = i <=> (i \in DOMAIN inputs /\ inputs[i].req = r /\ ~inputs[i].discard)
  BY <1>4, <1>5, <1>6
<1>10. Prev(inputs)'
  BY <1>1, <1>9 DEF Prev
<1>11. \A i \in DOMAIN inputs : (prevRow'[inputs[i].req] = 0) <=> inputs[i].discard
  BY <1>4, <1>5, <1>6
<1> QED
  BY <1>8, <1>10, <1>11

\* The output that is launched, of the rows of the step.
LEMMA TokensOut ==
  ASSUME IInv, Depth = 2, SampleTokens
  PROVE  /\ Len(outputs') = Len(outputs) + 1 /\ Len(outputs) \in {0, 1}
         /\ (HasOld' <=> HasOld) /\ ~HasNew /\ HasNew' /\ (HasOld => OldOut' = OldOut)
         /\ ~NewOut'.ready /\ DOMAIN NewOut'.of = Members(rows)
         /\ \A i \in DOMAIN inputs : LET e == NewOut'.of[inputs[i].req] IN
              e.d = inputs[i].d /\ (e.discard <=> inputs[i].discard) /\ e.discard \in BOOLEAN /\ e.accepted = 0
         /\ outputs' \in Seq([ready : BOOLEAN, of : UNION {[R -> Entries] : R \in SUBSET Reqs}])
<1> DEFINE entry(r) == [d |-> plan.orders[r].d, discard |-> prevRow'[r] = 0, accepted |-> 0]
           of == [r \in Members(rows) |-> entry(r)]
           o == [ready |-> FALSE, of |-> of]
           Maps == UNION {[R -> Entries] : R \in SUBSET Reqs}
           Outs == [ready : BOOLEAN, of : Maps]
<1>1. outputs' = Append(outputs, o)
  BY Zenon DEF SampleTokens
<1>2. outputs \in Seq(Outs)
  BY DEF IInv, Typed
<1>3. /\ pc = "computed" /\ pc' = "idle" /\ rows # <<>> /\ DOMAIN rows = DOMAIN inputs
      /\ \A i \in DOMAIN rows : rows[i] = inputs[i].req
  BY TokensPipe
<1>4. \A i \in DOMAIN inputs : 
        /\ inputs[i].req \in Reqs /\ inputs[i].d \in 0..NumSpec /\ inputs[i].d \in Nat
        /\ inputs[i].req \in Members(rows)
        /\ plan.orders[inputs[i].req].d = inputs[i].d
  BY <1>3, InputTypes, Sizes DEF IInv, HostAgrees, Members
<1>5. \A r \in Members(rows) : r \in Reqs /\ \E i \in DOMAIN inputs : inputs[i].req = r
  BY <1>3, <1>4 DEF Members
<1>6. \A r \in Members(rows) : entry(r) \in Entries
  <2>1. \A r \in Members(rows) : plan.orders[r].d \in 0..NumSpec
    BY <1>4, <1>5
  <2> QED
    BY <2>1 DEF Entries
<1>7. of \in [Members(rows) -> Entries] /\ Members(rows) \in SUBSET Reqs
  BY <1>5, <1>6
<1>8. of \in Maps
  BY <1>7
<1>9. o \in Outs
  <2> HIDE DEF of, Maps
  <2> QED
    BY <1>8
<1>10. o.ready = FALSE /\ o.of = of
  OBVIOUS
<1>11. \A i \in DOMAIN inputs : LET e == of[inputs[i].req] IN
         e.d = inputs[i].d /\ (e.discard <=> inputs[i].discard) /\ e.discard \in BOOLEAN /\ e.accepted = 0
  BY <1>4, TokensPrev
<1>12. Len(outputs) \in {0, 1}
  BY <1>3 DEF IInv, Shape
<1> HIDE DEF o, of, Maps, Outs
<1>13. /\ outputs' \in Seq(Outs) /\ Len(outputs') = Len(outputs) + 1
       /\ \A k \in 1..Len(outputs) : outputs'[k] = outputs[k]
       /\ outputs'[Len(outputs) + 1] = o
  BY <1>1, <1>2, <1>9, AppendProperties
<1>14. (HasOld' <=> HasOld) /\ ~HasNew /\ HasNew' /\ NewOut' = o
  BY <1>3, <1>12, <1>13 DEF HasOld, HasNew, NewOut
<1>15. HasOld => OldOut' = OldOut
  BY <1>3, <1>13 DEF HasOld, OldOut
<1>16. DOMAIN of = Members(rows)
  BY DEF of
<1> QED
  BY <1>10, <1>11, <1>12, <1>13, <1>14, <1>15, <1>16 DEF Outs, Maps

LEMMA TokensRequest ==
  ASSUME IInv, Depth = 2, SampleTokens
  PROVE  /\ req' \in [Reqs -> Cached]
         /\ \A r \in Reqs : 
              /\ req'[r].comp = req[r].comp /\ req'[r].draft = req[r].draft /\ req'[r].real = req[r].real
              /\ req'[r].outs = req[r].outs + IF prevRow'[r] # 0 THEN 1 ELSE 0
<1>1. req' = [r \in Reqs |-> IF prevRow'[r] # 0 THEN [req[r] EXCEPT !.outs = @ + 1] ELSE req[r]]
  BY Zenon DEF SampleTokens
<1>2. ASSUME NEW r \in Reqs
      PROVE  /\ req'[r] \in Cached
             /\ req'[r].comp = req[r].comp /\ req'[r].draft = req[r].draft /\ req'[r].real = req[r].real
             /\ req'[r].outs = req[r].outs + IF prevRow'[r] # 0 THEN 1 ELSE 0
  <2> DEFINE x == req[r]
             w == x.outs + 1
  <2>1. x \in Cached /\ w \in Int /\ x.outs \in Int
    BY RequestTypes DEF IInv
  <2>2. CASE prevRow'[r] # 0
    <3>1. req'[r] = [x EXCEPT !.outs = w]
      BY <1>1, <2>2
    <3> HIDE DEF x, w
    <3>2. /\ req'[r] \in Cached /\ req'[r].comp = x.comp /\ req'[r].draft = x.draft
          /\ req'[r].real = x.real /\ req'[r].outs = w
      BY <2>1, <3>1 DEF Cached
    <3> QED
      BY <2>2, <3>2 DEF x, w
  <2>3. CASE prevRow'[r] = 0
    BY <1>1, <2>1, <2>3
  <2> QED
    BY <2>2, <2>3
<1> QED
  BY <1>1, <1>2

\* What the host holds for the output becomes what the output holds.
LEMMA TokensAmounts ==
  ASSUME IInv, Depth = 2, SampleTokens, NEW r \in Reqs
  PROVE  /\ OldHolds(r)' = OldHolds(r) /\ OldGives(r)' = OldGives(r) /\ OldRejects(r)' = OldRejects(r)
         /\ NewHolds(r)' = HostHolds(r) /\ NewHolds(r) = 0 /\ HostHolds(r)' = 0
         /\ NewGives(r)' = 0 /\ NewRejects(r)' = 0 /\ NewGives(r) = 0 /\ NewRejects(r) = 0
         /\ OldAmount(r)' = OldAmount(r) /\ NewAmount(r)' = NewAmount(r)
         /\ Base(r)' = Base(r) /\ (Arriving(r)' <=> Arriving(r)) /\ (In(inputs, r)' <=> In(inputs, r))
<1>1. /\ (HasOld' <=> HasOld) /\ ~HasNew /\ HasNew' /\ (HasOld => OldOut' = OldOut)
      /\ ~NewOut'.ready /\ DOMAIN NewOut'.of = Members(rows)
      /\ \A i \in DOMAIN inputs : LET e == NewOut'.of[inputs[i].req] IN
           e.d = inputs[i].d /\ (e.discard <=> inputs[i].discard) /\ e.discard \in BOOLEAN /\ e.accepted = 0
  BY TokensOut
<1>2. /\ pc = "computed" /\ pc' = "idle" /\ inputs' = inputs /\ gpuRows' = gpuRows /\ truth' = truth /\ plan' = plan
      /\ (Preparing' <=> Preparing) /\ (OldUnsampled' <=> OldUnsampled) /\ NewUnsampled /\ NewUnsampled'
      /\ rows # <<>> /\ DOMAIN rows = DOMAIN inputs /\ \A i \in DOMAIN rows : rows[i] = inputs[i].req
  BY TokensPipe
<1>3. /\ OldHolds(r)' = OldHolds(r) /\ OldGives(r)' = OldGives(r) /\ OldRejects(r)' = OldRejects(r)
  <2>1. CASE HasOld
    BY <1>1, <2>1 DEF OldHolds, OldGives, OldRejects, Holds, Gives, Rejects, Counted
  <2>2. CASE ~HasOld
    BY <1>1, <2>2 DEF OldHolds, OldGives, OldRejects
  <2> QED
    BY <2>1, <2>2
<1>4. /\ NewHolds(r) = 0 /\ NewGives(r) = 0 /\ NewRejects(r) = 0
      /\ NewGives(r)' = 0 /\ NewRejects(r)' = 0 /\ HostHolds(r)' = 0
  BY <1>1, <1>2 DEF NewHolds, NewGives, NewRejects, HostHolds, Gives, Rejects
<1>5. NewHolds(r)' = HostHolds(r)
  <2>1. CASE r \in Members(rows)
    <3>1. PICK i \in DOMAIN inputs : inputs[i].req = r /\ rows[i] = r
      BY <1>2, <2>1 DEF Members
    <3>2. /\ plan.orders[r].d = inputs[i].d /\ (inputs[i].discard <=> ~plan.orders[r].samples)
      BY <1>2, <3>1 DEF IInv, HostAgrees
    <3>3. NewOut'.of[r].d = inputs[i].d /\ (NewOut'.of[r].discard <=> inputs[i].discard)
      BY <1>1, <3>1
    <3>4. In(inputs, r)
      BY <3>1 DEF In
    <3> QED
      BY <1>1, <1>2, <2>1, <3>2, <3>3, <3>4 DEF NewHolds, HostHolds, Holds, Counted
  <2>2. CASE r \notin Members(rows)
    <3>1. ~In(inputs, r)
      BY <1>2, <2>2, RowIsInput
    <3> QED
      BY <1>1, <1>2, <2>2, <3>1 DEF NewHolds, HostHolds, Holds, Counted
  <2> QED
    BY <2>1, <2>2
<1>6. /\ OldAmount(r)' = OldAmount(r) /\ NewAmount(r)' = NewAmount(r)
      /\ Base(r)' = Base(r) /\ (Arriving(r)' <=> Arriving(r)) /\ (In(inputs, r)' <=> In(inputs, r))
  BY <1>2 DEF OldAmount, NewAmount, Base, Arriving, Amount, In
<1> QED
  BY <1>3, <1>4, <1>5, <1>6

LEMMA TokensStep ==
  ASSUME IInv, Depth = 2, SampleTokens
  PROVE  IInv'
<1>1. Shape'
  <2>1. /\ Len(outputs') \in 0..2
        /\ HasNew' /\ ~NewOut'.ready /\ (HasOld' <=> HasOld) /\ (HasOld => OldOut' = OldOut)
    <3> DEFINE n == Len(outputs)
    <3>1. n \in {0, 1} /\ Len(outputs') = n + 1
      BY TokensOut
    <3> HIDE DEF n
    <3>2. Len(outputs') \in 0..2
      BY <3>1
    <3> QED
      BY <3>2, TokensOut
  <2>2. (queue = QSP => HasOld) /\ (HasOld => (OldOut.ready <=> queue # QSP))
    BY TokensPipe DEF IInv, Shape
  <2>3. (queue' = QSPS <=> queue = QSP) /\ queue' # Q0
    BY TokensPipe, QueuesDiffer
  <2> QED
    BY <2>1, <2>2, <2>3, TokensPipe DEF Shape
<1>2. Typed'
  BY TokensPipe, TokensPrev, TokensOut, TokensRequest DEF IInv, Typed
<1>3. Batch'
  BY TokensPipe DEF IInv, Batch, Once, Sound, Same
<1>4. OutsMatch'
  <2>1. OutOf(NewOut, inputs)'
    <3>1. \A r \in Reqs : r \in Members(rows) <=> In(inputs, r)
      BY RowIsInput, TokensPipe
    <3>2. \A i \in DOMAIN inputs : /\ NewOut'.of[inputs[i].req].d = inputs[i].d
                                   /\ NewOut'.of[inputs[i].req].discard = inputs[i].discard
      BY TokensOut, InputTypes DEF IInv
    <3> QED
      BY <3>1, <3>2, TokensOut, TokensPipe DEF OutOf, In
  <2>2. OldUnsampled => OutOf(OldOut, gpuRows)'
    <3> SUFFICES ASSUME OldUnsampled
                 PROVE  OutOf(OldOut, gpuRows)'
      OBVIOUS
    <3>1. HasOld
      BY TokensPipe, QueuesDiffer DEF IInv, Shape, OldUnsampled
    <3>2. OutOf(OldOut, gpuRows) /\ OldOut' = OldOut /\ gpuRows' = gpuRows
      BY <3>1, TokensOut, TokensPipe DEF IInv, OutsMatch
    <3> QED
      BY <3>2 DEF OutOf, In
  <2>3. HasOld => \A r \in DOMAIN OldOut'.of : OldOut'.of[r].accepted <= OldOut'.of[r].d
    BY TokensOut DEF IInv, OutsMatch
  <2>4. \A r \in DOMAIN NewOut'.of : NewOut'.of[r].accepted <= NewOut'.of[r].d
    <3> SUFFICES ASSUME NEW r \in DOMAIN NewOut'.of
                 PROVE  NewOut'.of[r].accepted <= NewOut'.of[r].d
      OBVIOUS
    <3>1. PICK i \in DOMAIN inputs : inputs[i].req = r
      BY TokensOut, TokensPipe DEF Members
    <3>2. NewOut'.of[r].accepted = 0 /\ NewOut'.of[r].d = inputs[i].d
      BY <3>1, TokensOut
    <3>3. inputs[i].d \in Nat
      BY InputTypes, Sizes DEF IInv
    <3> QED
      BY <3>2, <3>3
  <2> QED
    BY <2>1, <2>2, <2>3, <2>4, TokensPipe, TokensOut DEF OutsMatch
<1>5. PrevRows'
  BY TokensPrev, TokensPipe DEF PrevRows
<1>6. Lengths'
  <2>1. ~(pc' = "idle" /\ queue' = Q0 /\ HasNew')
    BY TokensPipe, QueuesDiffer
  <2>2. (IF pc' = "idle" THEN queue' \in {Q0, QPS} ELSE queue' = QP) => pc # "idle" /\ queue = QP
    BY TokensPipe, QueuesDiffer
  <2> QED
    BY <2>1, <2>2, TokensPipe DEF IInv, Lengths
<1>7. Incoming'
  BY TokensPipe DEF IInv, Incoming, Coming, Fed, Amount, In
<1>8. HostAgrees'
  <2>1. \A r \in Reqs : req'[r].comp >= 0 /\ req'[r].outs >= 0
    <3> SUFFICES ASSUME NEW r \in Reqs
                 PROVE  req'[r].comp >= 0 /\ req'[r].outs >= 0
      OBVIOUS
    <3>1. req[r].comp >= 0 /\ req[r].outs >= 0 /\ req[r].outs \in Int
      BY RequestTypes DEF IInv, HostAgrees
    <3> QED
      BY <3>1, TokensRequest
  <2>2. ASSUME NEW i \in DOMAIN rows
        PROVE  /\ req'[rows[i]].draft = inputs[i].d
               /\ sched[rows[i]].status = "running" =>
                    sched[rows[i]].known + sched[rows[i]].place <= req'[rows[i]].outs + req'[rows[i]].draft
    <3> DEFINE r == rows[i]
               o == plan.orders[r]
    <3>1. r \in Reqs /\ i \in DOMAIN inputs /\ r = inputs[i].req
      BY InputTypes, TokensPipe DEF IInv
    <3>2. /\ req[r].outs = o.outs /\ req[r].draft = inputs[i].d
          /\ sched[r].known + sched[r].place = o.outs + IF inputs[i].discard THEN 0 ELSE 1 + inputs[i].d
      BY TokensPipe DEF IInv, HostAgrees
    <3>3. /\ req'[r].draft = req[r].draft
          /\ req'[r].outs = req[r].outs + IF prevRow'[r] # 0 THEN 1 ELSE 0
          /\ (prevRow'[r] = 0) <=> inputs[i].discard
      BY <3>1, TokensRequest, TokensPrev
    <3>4. req[r].outs \in Int /\ inputs[i].d \in Nat
      BY <3>1, RequestTypes, InputTypes, Sizes DEF IInv
    <3> HIDE DEF r, o
    <3>5. req'[r].draft = inputs[i].d /\ sched[r].known + sched[r].place <= req'[r].outs + req'[r].draft
      BY <3>2, <3>3, <3>4
    <3> QED
      BY <3>5 DEF r
  <2> QED
    BY <2>1, <2>2, TokensPipe DEF HostAgrees
<1>9. Deferral'
  BY TokensPipe DEF Deferral
<1>10. Accounts'
  <2> SUFFICES ASSUME NEW r \in Reqs
               PROVE  /\ sched'[r].status # "finished" =>
                           /\ sched'[r].place = OldHolds(r)' + NewHolds(r)' + HostHolds(r)'
                           /\ sched'[r].known + OldGives(r)' + NewGives(r)' = truth'[r].out
                      /\ sched'[r].status = "running" =>
                           sched'[r].comp = Base(r)' + OldAmount(r)' + NewAmount(r)' + OldRejects(r)' + NewRejects(r)'
                      /\ sched'[r].place \in 0..(2 * (1 + NumSpec)) /\ sched'[r].known <= MaxOut[r]
    BY Zenon DEF Accounts
  <2>1. /\ OldHolds(r)' = OldHolds(r) /\ OldGives(r)' = OldGives(r) /\ OldRejects(r)' = OldRejects(r)
        /\ NewHolds(r)' = HostHolds(r) /\ NewHolds(r) = 0 /\ HostHolds(r)' = 0
        /\ NewGives(r)' = 0 /\ NewRejects(r)' = 0 /\ NewGives(r) = 0 /\ NewRejects(r) = 0
        /\ OldAmount(r)' = OldAmount(r) /\ NewAmount(r)' = NewAmount(r)
        /\ Base(r)' = Base(r)
    BY TokensAmounts
  <2>2. sched' = sched /\ truth' = truth
    BY TokensPipe
  <2>3. sched[r].status # "finished" => sched[r].place = OldHolds(r) + 0 + HostHolds(r)
    BY <2>1 DEF IInv, Accounts
  <2>4. OldHolds(r) \in Int /\ HostHolds(r) \in Int
    <3>1. OldHolds(r) \in Int
      <4>1. CASE HasOld /\ Counted(OldOut, r)
        <5>1. 1 \in 1..Len(outputs)
          BY <4>1, TokensOut, TokensPipe DEF HasOld
        <5>2. OldOut.of[r].d \in Nat
          BY <4>1, <5>1, OutTypes DEF OldOut, Counted, IInv
        <5> QED
          BY <4>1, <5>2 DEF OldHolds, Holds
      <4>2. CASE ~(HasOld /\ Counted(OldOut, r))
        BY <4>2 DEF OldHolds, Holds
      <4> QED
        BY <4>1, <4>2
    <3>2. HostHolds(r) \in Int
      <4>1. CASE In(inputs, r)
        <5>1. PICK i \in DOMAIN inputs : inputs[i].req = r
          BY <4>1 DEF In
        <5>2. plan.orders[r].d = inputs[i].d /\ inputs[i].d \in Nat
          BY <5>1, TokensPipe, InputTypes, Sizes DEF IInv, HostAgrees
        <5> QED
          BY <5>2 DEF HostHolds
      <4>2. CASE ~In(inputs, r)
        BY <4>2 DEF HostHolds
      <4> QED
        BY <4>1, <4>2
    <3> QED
      BY <3>1, <3>2
  <2>5. sched'[r].status # "finished" => sched'[r].place = OldHolds(r)' + NewHolds(r)' + HostHolds(r)'
    BY <2>1, <2>2, <2>3, <2>4
  <2>6. sched[r].status # "finished" => sched[r].known + OldGives(r) + NewGives(r) = truth[r].out
    BY DEF IInv, Accounts
  <2>7. sched'[r].status # "finished" => sched'[r].known + OldGives(r)' + NewGives(r)' = truth'[r].out
    BY <2>1, <2>2, <2>6
  <2>8. sched'[r].status = "running" =>
             sched'[r].comp = Base(r)' + OldAmount(r)' + NewAmount(r)' + OldRejects(r)' + NewRejects(r)'
    <3>1. sched[r].status = "running" =>
             sched[r].comp = Base(r) + OldAmount(r) + NewAmount(r) + OldRejects(r) + NewRejects(r)
      BY DEF IInv, Accounts
    <3> QED
      BY <2>1, <2>2, <3>1
  <2>9. sched'[r].place \in 0..(2 * (1 + NumSpec)) /\ sched'[r].known <= MaxOut[r]
    BY <2>2 DEF IInv, Accounts
  <2> QED
    BY <2>5, <2>7, <2>8, <2>9
<1>11. Chances'
  <2> SUFFICES ASSUME NEW r \in Reqs
               PROVE  /\ sched'[r].status \in {"new", "preempted"} =>
                           /\ sched'[r].comp = 0 /\ r \notin Members(rows')
                           /\ ~Forced => ~In(inputs, r)'
                      /\ sched'[r].status = "running" =>
                           /\ sched'[r].comp < Length(sched'[r])
                           /\ \A i \in DOMAIN inputs' : inputs'[i].req = r =>
                                /\ ~inputs'[i].discard => Length(sched'[r]) = sched'[r].comp + 1
                                /\ inputs'[i].discard => /\ sched'[r].spec = 0 /\ sched'[r].place = 0
                                                         /\ req'[r].real = Prompt + sched'[r].known
                      /\ ~sched'[r].drop
                      /\ Arriving(r)' /\ sched'[r].status # "finished" =>
                           /\ truth'[r].out = sched'[r].known
                           /\ \A i \in DOMAIN inputs' : inputs'[i].req = r => inputs'[i].known = sched'[r].known
    BY Zenon DEF Chances
  <2>1. (Arriving(r)' <=> Arriving(r)) /\ (In(inputs, r)' <=> In(inputs, r))
    BY TokensAmounts
  <2>2. sched' = sched /\ truth' = truth /\ rows' = rows /\ inputs' = inputs /\ req'[r].real = req[r].real
    BY TokensPipe, TokensRequest
  <2> QED
    BY <2>1, <2>2 DEF IInv, Chances
<1> QED
  BY <1>1, <1>2, <1>3, <1>4, <1>5, <1>6, <1>7, <1>8, <1>9, <1>10, <1>11 DEF IInv

-----------------------------------------------------------------------------
(* The GPU comes to a step: it copies the pinned inputs. *)

LEMMA PreparePipe ==
  ASSUME IInv, Depth = 2, Prepare
  PROVE  /\ queue \in {QP, QPS} /\ (queue = QP => queue' = Q0) /\ (queue = QPS => queue' = QS)
         /\ (pc = "idle" <=> queue = QPS)
         /\ sched' = sched /\ plan' = plan /\ pc' = pc /\ req' = req /\ rows' = rows /\ prevRow' = prevRow
         /\ inputs' = inputs /\ sampled' = sampled /\ outputs' = outputs
         /\ Preparing /\ ~Preparing' /\ ~OldUnsampled /\ ~OldUnsampled' /\ NewUnsampled /\ NewUnsampled'
         /\ (HasOld' <=> HasOld) /\ (HasNew' <=> HasNew) /\ OldOut' = OldOut /\ NewOut' = NewOut
<1>1. /\ queue # <<>> /\ Head(queue) = "prepare" /\ queue' = Tail(queue)
      /\ sched' = sched /\ plan' = plan /\ pc' = pc /\ req' = req /\ rows' = rows /\ prevRow' = prevRow
      /\ inputs' = inputs /\ sampled' = sampled /\ outputs' = outputs
  BY Zenon DEF Prepare
<1>2. queue \in {Q0, QP, QS, QPS, QSP, QSPS}
  BY DEF IInv, Shape
<1>3. queue \in {QP, QPS}
  <2>1. "prepare" # "sample"
    OBVIOUS
  <2> QED
    BY <1>1, <1>2, <2>1, QueueMoves, QueueMembers, ZenonT(30)
<1>4. (queue = QP => queue' = Q0) /\ (queue = QPS => queue' = QS)
  BY <1>1, QueueMoves
<1>5. pc = "idle" <=> queue = QPS
  BY <1>3, QueuesDiffer DEF IInv, Shape
<1>6. Preparing /\ ~Preparing' /\ ~OldUnsampled /\ ~OldUnsampled' /\ NewUnsampled /\ NewUnsampled'
  BY <1>1, <1>3, <1>4, <1>5, QueuesDiffer DEF Preparing, OldUnsampled, NewUnsampled
<1>7. (HasOld' <=> HasOld) /\ (HasNew' <=> HasNew) /\ OldOut' = OldOut /\ NewOut' = NewOut
  BY <1>1 DEF HasOld, HasNew, OldOut, NewOut
<1> QED
  BY <1>1, <1>3, <1>4, <1>5, <1>6, <1>7, Zenon

\* What the GPU takes a request to have computed: nothing, when it is new or resumed.
LEMMA PrepareTruth ==
  ASSUME IInv, Depth = 2, Prepare, NEW r \in Reqs
  PROVE  /\ truth'[r].comp = Base(r) /\ truth'[r].comp \in Nat /\ truth'[r].out \in Nat
         /\ Base(r)' = Base(r) /\ ~Arriving(r)'
         /\ ~Arriving(r) => truth'[r] = truth[r]
         /\ sched[r].status # "finished" => truth'[r].out = truth[r].out
         /\ truth'[r] \in [comp : Nat, out : Nat]
<1>1. truth' = [q \in Reqs |->
        IF \E i \in DOMAIN inputs : inputs[i].req = q /\ inputs[i].fresh
        THEN LET i == CHOOSE j \in DOMAIN inputs : inputs[j].req = q
             IN [comp |-> inputs[i].pinned, out |-> inputs[i].known]
        ELSE truth[q]]
  BY Zenon DEF Prepare
<1>2. Preparing /\ ~Preparing'
  BY PreparePipe
<1>3. ~Arriving(r)'
  BY <1>2 DEF Arriving
<1>4. truth[r] \in [comp : Nat, out : Nat]
  BY DEF IInv, Typed
<1>5. CASE Arriving(r)
  <2>1. PICK i \in DOMAIN inputs : inputs[i].req = r /\ inputs[i].fresh
    BY <1>5 DEF Arriving
  <2> DEFINE k == CHOOSE j \in DOMAIN inputs : inputs[j].req = r
  <2>2. k \in DOMAIN inputs /\ inputs[k].req = r
    BY <2>1
  <2>3. k = i
    BY <2>1, <2>2 DEF IInv, Batch, Once
  <2>4. truth'[r] = [comp |-> inputs[k].pinned, out |-> inputs[k].known]
    BY <1>1, <2>1
  <2>5. inputs[i].pinned = 0
    BY <1>2, <2>1 DEF IInv, Incoming, Coming
  <2>6. inputs[i].known \in Nat
    BY InputTypes DEF IInv
  <2>7. sched[r].status # "finished" => inputs[i].known = sched[r].known /\ truth[r].out = sched[r].known
    BY <1>5, <2>1 DEF IInv, Chances
  <2>8. Base(r) = 0 /\ Base(r)' = truth'[r].comp
    BY <1>3, <1>5 DEF Base
  <2> HIDE DEF k
  <2> QED
    BY <1>3, <1>5, <2>3, <2>4, <2>5, <2>6, <2>7, <2>8
<1>6. CASE ~Arriving(r)
  <2>1. truth'[r] = truth[r]
    BY <1>1, <1>2, <1>6 DEF Arriving
  <2> QED
    BY <1>3, <1>4, <1>6, <2>1 DEF Base
<1> QED
  BY <1>5, <1>6

\* A row starts where the GPU's own computation of the request stopped.
LEMMA StartIsTruth ==
  ASSUME IInv, Depth = 2, queue \in {QP, QPS}, NEW i \in DOMAIN inputs
  PROVE  Start(inputs[i]) = Base(inputs[i].req) /\ Start(inputs[i]) \in Nat
<1> DEFINE x == inputs[i]
           r == x.req
<1>1. /\ r \in Reqs /\ x.pinned \in Int /\ x.prev \in Nat /\ x.drafts \in 0..NumSpec /\ x.fresh \in BOOLEAN
      /\ x.drafts \in Nat
  BY InputTypes, Sizes DEF IInv
<1>2. Preparing /\ ~OldUnsampled
  BY QueuesDiffer DEF Preparing, OldUnsampled
<1>3. Coming(x)
  BY <1>2 DEF IInv, Incoming
<1>4. Arriving(r) <=> x.fresh
  BY <1>2 DEF Arriving, IInv, Batch, Once
<1>5. truth[r].comp \in Nat
  BY <1>1, RequestTypes DEF IInv
<1>6. CASE x.fresh
  <2>1. x.pinned = 0 /\ x.drafts = 0
    BY <1>3, <1>6 DEF Coming
  <2>2. Start(x) = 0
    BY <2>1 DEF Start
  <2> QED
    BY <1>4, <1>6, <2>2 DEF Base
<1>7. CASE ~x.fresh /\ (x.prev = 0 \/ x.drafts = 0)
  <2>1. x.pinned = truth[r].comp + 0
    BY <1>2, <1>3, <1>7 DEF Coming
  <2>2. Start(x) = x.pinned
    BY <1>7 DEF Start
  <2>3. Base(r) = truth[r].comp
    BY <1>4, <1>7 DEF Base
  <2> QED
    BY <1>5, <2>1, <2>2, <2>3
<1>8. CASE ~x.fresh /\ x.prev # 0 /\ x.drafts # 0
  <2> DEFINE p == x.prev
             y == gpuRows[p]
             w == sampled[p].count
  <2>1. p \in DOMAIN gpuRows /\ y.req = r /\ ~y.discard /\ x.drafts = y.d
    BY <1>1, <1>3, <1>8 DEF Coming
  <2>2. y.n = 1 + y.d
    BY <1>1, <1>8, <2>1 DEF IInv, Batch, Sound
  <2>3. IF pc = "idle" THEN queue \in {Q0, QPS} ELSE queue = QP
    BY QueuesDiffer DEF IInv, Shape
  <2>4. DOMAIN sampled = DOMAIN gpuRows /\ truth[r].comp + y.d + 1 = y.len + y.n + w
    BY <2>1, <2>3 DEF IInv, Lengths
  <2>5. y.len \in Int /\ y.d \in Int /\ w \in Nat
    BY <2>1, <2>4, GpuTypes, SampledTypes DEF IInv
  <2>6. Start(x) = y.len + w
    BY <1>1, <1>8 DEF Start
  <2>7. Base(r) = truth[r].comp
    BY <1>4, <1>8 DEF Base
  <2> HIDE DEF p, y, w, x
  <2>8. Start(x) = Base(r) /\ Start(x) \in Nat
    BY <1>5, <2>2, <2>4, <2>5, <2>6, <2>7
  <2> QED
    BY <2>8 DEF x
<1> QED
  BY <1>6, <1>7, <1>8

LEMMA PrepareRows ==
  ASSUME IInv, Depth = 2, Prepare
  PROVE  /\ DOMAIN gpuRows' = DOMAIN inputs
         /\ \A i \in DOMAIN inputs :
              /\ gpuRows'[i].req = inputs[i].req /\ gpuRows'[i].n = inputs[i].n /\ gpuRows'[i].d = inputs[i].d
              /\ gpuRows'[i].discard = inputs[i].discard /\ gpuRows'[i].len = truth'[inputs[i].req].comp
         /\ gpuRows' \in Seq(GpuRows)
<1>1. gpuRows' = [i \in DOMAIN inputs |->
        [req |-> inputs[i].req, n |-> inputs[i].n, d |-> inputs[i].d,
         discard |-> inputs[i].discard, len |-> Start(inputs[i])]]
  BY Zenon DEF Prepare
<1>2. ASSUME NEW i \in DOMAIN inputs
      PROVE  Start(inputs[i]) = truth'[inputs[i].req].comp /\ gpuRows'[i] \in GpuRows
  <2>1. /\ inputs[i].req \in Reqs /\ inputs[i].n \in Nat /\ inputs[i].d \in 0..NumSpec
        /\ inputs[i].discard \in BOOLEAN
    BY InputTypes DEF IInv
  <2>2. Start(inputs[i]) = Base(inputs[i].req) /\ Start(inputs[i]) \in Nat
    BY PreparePipe, StartIsTruth
  <2>3. truth'[inputs[i].req].comp = Base(inputs[i].req)
    BY <2>1, PrepareTruth
  <2>4. gpuRows'[i] \in GpuRows
    BY <1>1, <2>1, <2>2 DEF GpuRows
  <2> QED
    BY <2>2, <2>3, <2>4
<1>3. gpuRows' \in Seq(GpuRows)
  <2> DEFINE t == gpuRows'
  <2>1. t = [i \in DOMAIN inputs |-> t[i]]
    <3>1. t = [i \in DOMAIN inputs |->
            [req |-> inputs[i].req, n |-> inputs[i].n, d |-> inputs[i].d,
             discard |-> inputs[i].discard, len |-> Start(inputs[i])]]
      BY <1>1
    <3> HIDE DEF t
    <3> QED
      BY <3>1
  <2>2. \A i \in DOMAIN inputs : t[i] \in GpuRows
    BY <1>2
  <2>3. inputs \in Seq(Rows)
    BY DEF IInv, Typed
  <2> HIDE DEF t
  <2>4. t \in Seq(GpuRows)
    BY <2>1, <2>2, <2>3, MapIsList
  <2> QED
    BY <2>4 DEF t
<1>4. /\ DOMAIN gpuRows' = DOMAIN inputs
      /\ \A i \in DOMAIN inputs :
              /\ gpuRows'[i].req = inputs[i].req /\ gpuRows'[i].n = inputs[i].n /\ gpuRows'[i].d = inputs[i].d
              /\ gpuRows'[i].discard = inputs[i].discard /\ gpuRows'[i].len = Start(inputs[i])
  BY <1>1
<1> QED
  BY <1>2, <1>3, <1>4

LEMMA PrepareAmounts ==
  ASSUME IInv, Depth = 2, Prepare, NEW r \in Reqs
  PROVE  /\ OldHolds(r)' = OldHolds(r) /\ OldGives(r)' = OldGives(r) /\ OldRejects(r)' = OldRejects(r)
         /\ NewHolds(r)' = NewHolds(r) /\ NewGives(r)' = NewGives(r) /\ NewRejects(r)' = NewRejects(r)
         /\ HostHolds(r)' = HostHolds(r) /\ OldAmount(r)' = OldAmount(r) /\ NewAmount(r)' = NewAmount(r)
         /\ (In(inputs, r)' <=> In(inputs, r))
<1>1. /\ OldHolds(r)' = OldHolds(r) /\ OldGives(r)' = OldGives(r) /\ OldRejects(r)' = OldRejects(r)
      /\ NewHolds(r)' = NewHolds(r) /\ NewGives(r)' = NewGives(r) /\ NewRejects(r)' = NewRejects(r)
  BY PreparePipe DEF OldHolds, OldGives, OldRejects, NewHolds, NewGives, NewRejects, Holds, Gives, Rejects, Counted
<1>2. (In(inputs, r)' <=> In(inputs, r)) /\ HostHolds(r)' = HostHolds(r)
  BY PreparePipe DEF In, HostHolds
<1>3. OldAmount(r)' = OldAmount(r) /\ NewAmount(r)' = NewAmount(r)
  BY PreparePipe DEF OldAmount, NewAmount, Amount, In
<1> QED
  BY <1>1, <1>2, <1>3

LEMMA PrepareStep ==
  ASSUME IInv, Depth = 2, Prepare
  PROVE  IInv'
<1>1. Shape'
  BY PreparePipe, QueuesDiffer DEF IInv, Shape
<1>2. Typed'
  <2>1. truth' \in [Reqs -> [comp : Nat, out : Nat]]
    <3>1. truth' = [q \in Reqs |-> truth'[q]]
      <4>1. truth' = [q \in Reqs |->
              IF \E i \in DOMAIN inputs : inputs[i].req = q /\ inputs[i].fresh
              THEN LET i == CHOOSE j \in DOMAIN inputs : inputs[j].req = q
                   IN [comp |-> inputs[i].pinned, out |-> inputs[i].known]
              ELSE truth[q]]
        BY Zenon DEF Prepare
      <4> QED
        BY <4>1
    <3>2. \A q \in Reqs : truth'[q] \in [comp : Nat, out : Nat]
      BY PrepareTruth
    <3> QED
      BY <3>1, <3>2
  <2> QED
    BY <2>1, PreparePipe, PrepareRows DEF IInv, Typed
<1>3. Batch'
  <2>1. Once(gpuRows)'
    BY PrepareRows DEF IInv, Batch, Once
  <2>2. \A i \in DOMAIN gpuRows' : Sound(gpuRows'[i])
    BY PrepareRows DEF IInv, Batch, Sound
  <2>3. Same(gpuRows, inputs)'
    BY PrepareRows, PreparePipe DEF Same
  <2> QED
    BY <2>1, <2>2, <2>3, PreparePipe DEF IInv, Batch, Once
<1>4. OutsMatch'
  BY PreparePipe DEF IInv, OutsMatch, OutOf, In
<1>5. PrevRows'
  BY PreparePipe DEF IInv, PrevRows, Prev
<1>6. Lengths'
  <2>1. ~(IF pc' = "idle" THEN queue' \in {Q0, QPS} ELSE queue' = QP) /\ ~(pc' = "idle" /\ queue' = Q0 /\ HasNew')
    BY PreparePipe, QueuesDiffer
  <2>2. \A i \in DOMAIN gpuRows' : gpuRows'[i].len = truth'[gpuRows'[i].req].comp
    BY PrepareRows
  <2> QED
    BY <2>1, <2>2 DEF Lengths
<1>7. Incoming'
  BY PreparePipe DEF Incoming
<1>8. HostAgrees'
  BY PreparePipe DEF IInv, HostAgrees
<1>9. Deferral'
  <2> SUFFICES ASSUME NEW r \in Reqs, pc # "idle", r \in DOMAIN plan.deferred, prevRow[r] # 0
               PROVE  LET p == prevRow[r] IN
                      /\ \A i \in DOMAIN inputs : inputs[i].req = r => ~inputs[i].fresh
                      /\ plan.deferred[r] \in 0..NumSpec
                      /\ pc = "launched" =>
                           p \in DOMAIN sampled /\ req[r].comp + sampled[p].count = truth'[r].comp + plan.deferred[r] + 1
                      /\ pc = "computed" => req[r].comp = truth'[r].comp
    BY PreparePipe DEF Deferral
  <2>1. /\ \A i \in DOMAIN inputs : inputs[i].req = r => ~inputs[i].fresh
        /\ plan.deferred[r] \in 0..NumSpec
        /\ pc = "launched" =>
             /\ prevRow[r] \in DOMAIN sampled
             /\ req[r].comp + sampled[prevRow[r]].count = truth[r].comp + plan.deferred[r] + 1
        /\ pc = "computed" => req[r].comp = truth[r].comp
    BY PreparePipe DEF IInv, Deferral
  <2>2. truth'[r] = truth[r]
    BY <2>1, PrepareTruth DEF Arriving
  <2> QED
    BY <2>1, <2>2
<1>10. Accounts'
  <2> SUFFICES ASSUME NEW r \in Reqs
               PROVE  /\ sched'[r].status # "finished" =>
                           /\ sched'[r].place = OldHolds(r)' + NewHolds(r)' + HostHolds(r)'
                           /\ sched'[r].known + OldGives(r)' + NewGives(r)' = truth'[r].out
                      /\ sched'[r].status = "running" =>
                           sched'[r].comp = Base(r)' + OldAmount(r)' + NewAmount(r)' + OldRejects(r)' + NewRejects(r)'
                      /\ sched'[r].place \in 0..(2 * (1 + NumSpec)) /\ sched'[r].known <= MaxOut[r]
    BY Zenon DEF Accounts
  <2>1. /\ OldHolds(r)' = OldHolds(r) /\ OldGives(r)' = OldGives(r) /\ OldRejects(r)' = OldRejects(r)
        /\ NewHolds(r)' = NewHolds(r) /\ NewGives(r)' = NewGives(r) /\ NewRejects(r)' = NewRejects(r)
        /\ HostHolds(r)' = HostHolds(r) /\ OldAmount(r)' = OldAmount(r) /\ NewAmount(r)' = NewAmount(r)
    BY PrepareAmounts
  <2>2. Base(r)' = Base(r) /\ (sched[r].status # "finished" => truth'[r].out = truth[r].out)
    BY PrepareTruth
  <2>3. sched' = sched
    BY PreparePipe
  <2> QED
    BY <2>1, <2>2, <2>3 DEF IInv, Accounts
<1>11. Chances'
  <2> SUFFICES ASSUME NEW r \in Reqs
               PROVE  /\ sched'[r].status \in {"new", "preempted"} =>
                           /\ sched'[r].comp = 0 /\ r \notin Members(rows')
                           /\ ~Forced => ~In(inputs, r)'
                      /\ sched'[r].status = "running" =>
                           /\ sched'[r].comp < Length(sched'[r])
                           /\ \A i \in DOMAIN inputs' : inputs'[i].req = r =>
                                /\ ~inputs'[i].discard => Length(sched'[r]) = sched'[r].comp + 1
                                /\ inputs'[i].discard => /\ sched'[r].spec = 0 /\ sched'[r].place = 0
                                                         /\ req'[r].real = Prompt + sched'[r].known
                      /\ ~sched'[r].drop
                      /\ Arriving(r)' /\ sched'[r].status # "finished" =>
                           /\ truth'[r].out = sched'[r].known
                           /\ \A i \in DOMAIN inputs' : inputs'[i].req = r => inputs'[i].known = sched'[r].known
    BY Zenon DEF Chances
  <2>1. ~Arriving(r)' /\ (In(inputs, r)' <=> In(inputs, r))
    BY PrepareTruth, PrepareAmounts
  <2> QED
    BY <2>1, PreparePipe DEF IInv, Chances
<1> QED
  BY <1>1, <1>2, <1>3, <1>4, <1>5, <1>6, <1>7, <1>8, <1>9, <1>10, <1>11 DEF IInv

-----------------------------------------------------------------------------
(* The GPU samples: the step before the latest, or the latest. *)

RowOf(r) == CHOOSE i \in DOMAIN gpuRows : gpuRows[i].req = r
Oldest == CHOOSE k \in DOMAIN outputs : ~outputs[k].ready /\ \A j \in 1..(k - 1) : outputs[j].ready
Sampling(a) ==
  /\ a \in Accepts
  /\ truth' = [r \in Reqs |->
       IF r \in {gpuRows[i].req : i \in DOMAIN gpuRows}
       THEN Ran(truth[r], gpuRows[RowOf(r)], a[RowOf(r)]) ELSE truth[r]]
  /\ sampled' = [i \in DOMAIN gpuRows |->
       [req |-> gpuRows[i].req, pos |-> truth'[gpuRows[i].req].comp,
        count |-> IF gpuRows[i].discard THEN 0 ELSE 1 + a[i]]]
  /\ outputs' = [outputs EXCEPT ![Oldest] =
       [ready |-> TRUE,
        of |-> [r \in DOMAIN @.of |-> [@.of[r] EXCEPT !.accepted = a[RowOf(r)]]]]]

LEMMA SampleIsSampling ==
  ASSUME Sample
  PROVE  /\ queue # <<>> /\ Head(queue) = "sample" /\ queue' = Tail(queue)
         /\ sched' = sched /\ plan' = plan /\ pc' = pc /\ req' = req /\ rows' = rows /\ prevRow' = prevRow
         /\ inputs' = inputs /\ gpuRows' = gpuRows
         /\ \E a : Sampling(a)
<1>1. PICK a \in Accepts :
        /\ truth' = [r \in Reqs |->
             IF r \in {gpuRows[i].req : i \in DOMAIN gpuRows}
             THEN Ran(truth[r], gpuRows[RowOf(r)], a[RowOf(r)]) ELSE truth[r]]
        /\ sampled' = [i \in DOMAIN gpuRows |->
             [req |-> gpuRows[i].req, pos |-> truth'[gpuRows[i].req].comp,
              count |-> IF gpuRows[i].discard THEN 0 ELSE 1 + a[i]]]
        /\ outputs' = [outputs EXCEPT ![Oldest] =
             [ready |-> TRUE,
              of |-> [r \in DOMAIN @.of |-> [@.of[r] EXCEPT !.accepted = a[RowOf(r)]]]]]
  BY Zenon DEF Sample, RowOf, Oldest
<1>2. Sampling(a)
  BY <1>1, Zenon DEF Sampling
<1> QED
  BY <1>2, Zenon DEF Sample

\* The GPU samples the step before, whose output is the first, or the latest, whose output is
\* the last.
LEMMA SamplePipe ==
  ASSUME IInv, Depth = 2, Sample
  PROVE  /\ queue \in {QS, QSP, QSPS}
         /\ (queue = QS => queue' = Q0) /\ (queue = QSP => queue' = QP) /\ (queue = QSPS => queue' = QPS)
         /\ (queue = QS => pc = "idle") /\ (queue = QSPS => pc = "idle") /\ (queue = QSP => pc # "idle")
         /\ sched' = sched /\ plan' = plan /\ pc' = pc /\ req' = req /\ rows' = rows /\ prevRow' = prevRow
         /\ inputs' = inputs /\ gpuRows' = gpuRows
         /\ (OldUnsampled <=> queue # QS) /\ (Preparing <=> OldUnsampled) /\ (Preparing' <=> Preparing)
         /\ ~OldUnsampled' /\ NewUnsampled /\ (NewUnsampled' <=> OldUnsampled)
         /\ (OldUnsampled => HasOld /\ ~OldOut.ready) 
         /\ (~OldUnsampled => HasNew /\ ~NewOut.ready /\ (HasOld => OldOut.ready))
<1>1. /\ queue # <<>> /\ Head(queue) = "sample" /\ queue' = Tail(queue)
      /\ sched' = sched /\ plan' = plan /\ pc' = pc /\ req' = req /\ rows' = rows /\ prevRow' = prevRow
      /\ inputs' = inputs /\ gpuRows' = gpuRows
  BY SampleIsSampling
<1>2. queue \in {Q0, QP, QS, QPS, QSP, QSPS}
  BY DEF IInv, Shape
<1>3. queue \in {QS, QSP, QSPS}
  <2>1. "prepare" # "sample"
    OBVIOUS
  <2> QED
    BY <1>1, <1>2, <2>1, QueueMoves, QueueMembers, ZenonT(30)
<1>4. (queue = QS => queue' = Q0) /\ (queue = QSP => queue' = QP) /\ (queue = QSPS => queue' = QPS)
  BY <1>1, QueueMoves
<1>5. (queue = QS => pc = "idle") /\ (queue = QSPS => pc = "idle") /\ (queue = QSP => pc # "idle")
  BY <1>3, QueuesDiffer DEF IInv, Shape
<1>6. /\ (OldUnsampled <=> queue # QS) /\ (Preparing <=> OldUnsampled) /\ (Preparing' <=> Preparing)
      /\ ~OldUnsampled' /\ NewUnsampled /\ (NewUnsampled' <=> OldUnsampled)
  <2>1. CASE queue = QS
    BY <1>1, <1>4, <1>5, <2>1, QueuesDiffer DEF OldUnsampled, Preparing, NewUnsampled
  <2>2. CASE queue = QSP
    BY <1>1, <1>4, <1>5, <2>2, QueuesDiffer DEF OldUnsampled, Preparing, NewUnsampled
  <2>3. CASE queue = QSPS
    BY <1>1, <1>4, <1>5, <2>3, QueuesDiffer DEF OldUnsampled, Preparing, NewUnsampled
  <2> QED
    BY <1>3, <2>1, <2>2, <2>3
<1>7. /\ (OldUnsampled => HasOld /\ ~OldOut.ready) 
      /\ (~OldUnsampled => HasNew /\ ~NewOut.ready /\ (HasOld => OldOut.ready))
  BY <1>3, <1>5, <1>6, QueuesDiffer DEF IInv, Shape
<1> QED
  BY <1>1, <1>3, <1>4, <1>5, <1>6, <1>7, Zenon

\* The output that is sampled.
Turn == IF OldUnsampled THEN 1 ELSE Len(outputs)

LEMMA OldestIsTurn ==
  ASSUME IInv, Depth = 2, Sample
  PROVE  /\ Oldest = Turn /\ Turn \in DOMAIN outputs /\ Turn \in 1..Len(outputs) /\ ~outputs[Turn].ready
         /\ DOMAIN outputs = 1..Len(outputs)
         /\ (OldUnsampled => outputs[Turn] = OldOut) /\ (~OldUnsampled => outputs[Turn] = NewOut)
         /\ OutOf(outputs[Turn], gpuRows)
<1> DEFINE n == Len(outputs)
<1>1. n \in 0..2 /\ DOMAIN outputs = 1..n
  BY DEF IInv, Shape, Typed
<1>2. OldUnsampled => HasOld /\ ~OldOut.ready
  BY SamplePipe
<1>3. ~OldUnsampled => HasNew /\ ~NewOut.ready /\ (HasOld => OldOut.ready)
  BY SamplePipe
<1>4. (HasOld => n # 0) /\ (HasNew => n # 0) /\ (~OldUnsampled /\ n = 2 => HasOld)
  BY SamplePipe DEF HasOld, HasNew
<1>5. (OldUnsampled => outputs[Turn] = OldOut) /\ (~OldUnsampled => outputs[Turn] = NewOut)
  BY DEF Turn, OldOut, NewOut
<1>6. OutOf(outputs[Turn], gpuRows)
  <2>1. CASE OldUnsampled
    BY <1>5, <2>1 DEF IInv, OutsMatch
  <2>2. CASE ~OldUnsampled
    <3>1. OutOf(NewOut, inputs)
      BY <1>3, <2>2 DEF IInv, OutsMatch
    <3>2. Same(gpuRows, inputs)
      BY <2>2, SamplePipe DEF IInv, Batch
    <3>3. OutOf(NewOut, gpuRows)
      BY <3>1, <3>2 DEF OutOf, Same, In
    <3> QED
      BY <1>5, <2>2, <3>3
  <2> QED
    BY <2>1, <2>2
<1>7. OldUnsampled => ~outputs[1].ready
  BY <1>2 DEF OldOut
<1>8. ~OldUnsampled => ~outputs[n].ready /\ (n = 2 => outputs[1].ready)
  BY <1>3, <1>4 DEF OldOut, NewOut
<1>9. Turn = IF OldUnsampled THEN 1 ELSE n
  BY DEF Turn
<1>10. n \in {1, 2}
  <2> HIDE DEF n
  <2> QED
    BY <1>1, <1>2, <1>3, <1>4
<1>11. Turn \in 1..n
  <2> HIDE DEF n
  <2> QED
    BY <1>9, <1>10
<1>12. \A k \in 1..n : (~outputs[k].ready /\ \A j \in 1..(k - 1) : outputs[j].ready) <=> k = Turn
  <2> HIDE DEF n
  <2>1. CASE OldUnsampled
    <3>1. \A k \in 1..n : k # 1 => 1 \in 1..(k - 1)
      BY <1>10
    <3>2. 1..(1 - 1) = {}
      OBVIOUS
    <3>3. Turn = 1
      BY <1>9, <2>1
    <3> QED
      BY <1>7, <2>1, <3>1, <3>2, <3>3
  <2>2. CASE ~OldUnsampled
    <3>1. Turn = n
      BY <1>9, <2>2
    <3>2. CASE n = 1
      <4>1. 1..n = {1} /\ 1..(1 - 1) = {}
        BY <3>2
      <4> QED
        BY <1>8, <2>2, <3>1, <3>2, <4>1
    <3>3. CASE n = 2
      <4>1. 1..n = {1, 2} /\ 1..(2 - 1) = {1}
        BY <3>3
      <4> QED
        BY <1>8, <2>2, <3>1, <3>3, <4>1
    <3> QED
      BY <1>10, <3>2, <3>3
  <2> QED
    BY <2>1, <2>2
<1>13. Oldest = Turn
  BY <1>1, <1>11, <1>12 DEF Oldest
<1>14. ~outputs[Turn].ready
  BY <1>11, <1>12
<1> QED
  BY <1>1, <1>5, <1>6, <1>11, <1>13, <1>14

\* What the forward pass and sampling make of a row and its request.
LEMMA SampledRow ==
  ASSUME IInv, Depth = 2, Sample, NEW a, Sampling(a), NEW i \in DOMAIN gpuRows
  PROVE  LET x == gpuRows[i]  r == x.req IN
         /\ RowOf(r) = i /\ a[i] \in Nat /\ a[i] <= x.d /\ (x.discard => x.d = 0 /\ a[i] = 0)
         /\ truth'[r].comp = truth[r].comp + x.n - x.d + a[i]
         /\ truth'[r].out = truth[r].out + IF x.discard THEN 0 ELSE 1 + a[i]
         /\ truth'[r] \in [comp : Nat, out : Nat]
         /\ sampled'[i].req = r /\ sampled'[i].pos = truth'[r].comp
         /\ sampled'[i].count = IF x.discard THEN 0 ELSE 1 + a[i]
         /\ sampled'[i] \in SampledRecs
<1> DEFINE x == gpuRows[i]
           r == x.req
           b == a[i]
           t == truth[r]
<1>1. /\ r \in Reqs /\ x.n \in Nat /\ x.d \in 0..NumSpec /\ x.discard \in BOOLEAN
  BY GpuTypes DEF IInv
<1>2. RowOf(r) = i
  BY DEF RowOf, IInv, Batch, Once
<1>3. b \in 0..NumSpec /\ b <= x.d
  BY DEF Sampling, Accepts
<1>4. Sound(x)
  BY DEF IInv, Batch
<1>5. x.d \in Nat /\ b \in Nat /\ x.n >= 1 + x.d /\ (x.discard => x.d = 0 /\ b = 0)
  BY <1>1, <1>3, <1>4, Sizes DEF Sound
<1>6. truth'[r] = Ran(t, x, b)
  <2>1. r \in {gpuRows[j].req : j \in DOMAIN gpuRows}
    OBVIOUS
  <2>2. truth'[r] = Ran(truth[r], gpuRows[RowOf(r)], a[RowOf(r)])
    BY <1>1, <2>1 DEF Sampling
  <2> QED
    BY <1>2, <2>2
<1>7. t \in [comp : Nat, out : Nat] /\ t.comp \in Nat /\ t.out \in Nat
  BY <1>1 DEF IInv, Typed
<1>8. /\ truth'[r].comp = t.comp + x.n - x.d + b
      /\ truth'[r].out = t.out + IF x.discard THEN 0 ELSE 1 + b
      /\ truth'[r] \in [comp : Nat, out : Nat]
  <2> HIDE DEF x, r, b, t
  <2>1. CASE x.discard
    <3> DEFINE w == t.comp + x.n
    <3>1. w \in Nat
      BY <1>1, <1>7
    <3>2. truth'[r] = [t EXCEPT !.comp = w]
      BY <1>6, <2>1 DEF Ran
    <3>3. w = t.comp + x.n - x.d + b
      BY <1>1, <1>5, <1>7, <2>1
    <3> HIDE DEF w
    <3>4. truth'[r].comp = w /\ truth'[r].out = t.out /\ truth'[r] \in [comp : Nat, out : Nat]
      BY <1>7, <3>1, <3>2
    <3> QED
      BY <1>7, <2>1, <3>3, <3>4
  <2>2. CASE ~x.discard
    <3>1. truth'[r] = [comp |-> t.comp + x.n - x.d + b, out |-> t.out + 1 + b]
      BY <1>6, <2>2 DEF Ran
    <3>2. t.comp + x.n - x.d + b \in Nat /\ t.out + 1 + b \in Nat /\ t.out + 1 + b = t.out + (1 + b)
      BY <1>1, <1>5, <1>7
    <3> QED
      BY <2>2, <3>1, <3>2
  <2> QED
    BY <2>1, <2>2
<1>9. sampled'[i] = [req |-> r, pos |-> truth'[r].comp, count |-> IF x.discard THEN 0 ELSE 1 + b]
  BY DEF Sampling
<1>10. sampled'[i] \in SampledRecs
  <2>1. truth'[r].comp \in Int
    BY <1>8
  <2>2. (IF x.discard THEN 0 ELSE 1 + b) \in Nat
    BY <1>5
  <2> HIDE DEF x, r, b
  <2> QED
    BY <1>1, <1>9, <2>1, <2>2 DEF SampledRecs
<1>11. /\ sampled'[i].req = r /\ sampled'[i].pos = truth'[r].comp
       /\ sampled'[i].count = IF x.discard THEN 0 ELSE 1 + b
  BY <1>9
<1> QED
  BY <1>2, <1>3, <1>5, <1>8, <1>10, <1>11, Zenon

LEMMA SampledNot ==
  ASSUME IInv, NEW a, Sampling(a), NEW r \in Reqs, ~In(gpuRows, r)
  PROVE  truth'[r] = truth[r]
<1>1. r \notin {gpuRows[i].req : i \in DOMAIN gpuRows}
  BY DEF In
<1> QED
  BY <1>1 DEF Sampling

\* The output that is sampled becomes ready, with the counts; the others stay.
LEMMA SampledOut ==
  ASSUME IInv, Depth = 2, Sample, NEW a, Sampling(a)
  PROVE  /\ Len(outputs') = Len(outputs)
         /\ \A k \in 1..Len(outputs) : k # Turn => outputs'[k] = outputs[k]
         /\ outputs'[Turn].ready /\ OutOf(outputs'[Turn], gpuRows)
         /\ DOMAIN outputs'[Turn].of = DOMAIN outputs[Turn].of
         /\ \A r \in DOMAIN outputs[Turn].of :
              /\ outputs'[Turn].of[r].d = outputs[Turn].of[r].d
              /\ outputs'[Turn].of[r].discard = outputs[Turn].of[r].discard
         /\ \A i \in DOMAIN gpuRows : outputs'[Turn].of[gpuRows[i].req].accepted = a[i]
         /\ outputs' \in Seq([ready : BOOLEAN, of : UNION {[R -> Entries] : R \in SUBSET Reqs}])
<1> DEFINE k == Turn
           o == outputs[k]
           entry(r) == [o.of[r] EXCEPT !.accepted = a[RowOf(r)]]
           of == [r \in DOMAIN o.of |-> entry(r)]
           z == [ready |-> TRUE, of |-> of]
           Maps == UNION {[R -> Entries] : R \in SUBSET Reqs}
           Outs == [ready : BOOLEAN, of : Maps]
           n == Len(outputs)
<1>1. /\ Oldest = k /\ k \in DOMAIN outputs /\ k \in 1..n /\ DOMAIN outputs = 1..n /\ OutOf(o, gpuRows)
  BY OldestIsTurn
<1>2. outputs' = [outputs EXCEPT ![k] = z]
  BY <1>1 DEF Sampling
<1>3. outputs \in Seq(Outs) /\ n \in Nat
  BY DEF IInv, Typed, Shape
<1>4. o \in Outs /\ o.of \in Maps
  <2> HIDE DEF Maps
  <2>1. o \in Outs
    BY <1>1, <1>3, ElementOfSeq
  <2> QED
    BY <2>1
<1>5. PICK R \in SUBSET Reqs : o.of \in [R -> Entries]
  BY <1>4
<1>6. \A r \in R : \E i \in DOMAIN gpuRows : gpuRows[i].req = r
  BY <1>1, <1>5 DEF OutOf, In
<1>7. ASSUME NEW r \in R
      PROVE  /\ entry(r) \in Entries /\ entry(r).d = o.of[r].d /\ entry(r).discard = o.of[r].discard
             /\ entry(r).accepted = a[RowOf(r)]
  <2> DEFINE e == o.of[r]
             b == a[RowOf(r)]
  <2>1. e \in Entries
    BY <1>5
  <2>2. b \in Nat
    <3>1. PICK i \in DOMAIN gpuRows : gpuRows[i].req = r
      BY <1>6
    <3>2. a[RowOf(gpuRows[i].req)] \in Nat
      BY SampledRow
    <3> QED
      BY <3>1, <3>2
  <2>3. entry(r) = [e EXCEPT !.accepted = b]
    OBVIOUS
  <2> DEFINE v == entry(r)
  <2> HIDE DEF e, b, v
  <2>4. v \in Entries /\ v.d = e.d /\ v.discard = e.discard /\ v.accepted = b
    BY <2>1, <2>2, <2>3 DEF Entries, v
  <2> QED
    BY <2>4 DEF v, e, b
<1>8. DOMAIN o.of = R
  BY <1>5
<1>9. of \in [R -> Entries]
  BY <1>7, <1>8
<1>10. of \in Maps
  BY <1>9
<1>11. DOMAIN of = DOMAIN o.of /\ \A r \in R : of[r] = entry(r)
  BY <1>8
<1>12. z.ready /\ z.of = of /\ z \in Outs
  <2> HIDE DEF of, Maps
  <2> QED
    BY <1>10
<1>13. \A i \in DOMAIN gpuRows : gpuRows[i].req \in R /\ RowOf(gpuRows[i].req) = i
  <2> SUFFICES ASSUME NEW i \in DOMAIN gpuRows
               PROVE  gpuRows[i].req \in R /\ RowOf(gpuRows[i].req) = i
    OBVIOUS
  <2>1. In(gpuRows, gpuRows[i].req) /\ gpuRows[i].req \in Reqs
    BY GpuTypes DEF In, IInv
  <2> QED
    BY <1>1, <1>8, <2>1, SampledRow DEF OutOf
<1>14. \A i \in DOMAIN gpuRows : of[gpuRows[i].req].accepted = a[i]
  BY <1>7, <1>11, <1>13
<1>15. \A r \in DOMAIN o.of : of[r].d = o.of[r].d /\ of[r].discard = o.of[r].discard
  BY <1>7, <1>8, <1>11
<1>16. OutOf(z, gpuRows)
  <2> HIDE DEF of, o
  <2>1. z.of = of
    BY <1>12
  <2> HIDE DEF z
  <2>2. ASSUME NEW r \in Reqs
        PROVE  /\ r \in DOMAIN of <=> In(gpuRows, r)
               /\ \A i \in DOMAIN gpuRows : gpuRows[i].req = r =>
                    of[r].d = gpuRows[i].d /\ of[r].discard = gpuRows[i].discard
    <3>1. /\ r \in DOMAIN o.of <=> In(gpuRows, r)
          /\ \A i \in DOMAIN gpuRows : gpuRows[i].req = r =>
               o.of[r].d = gpuRows[i].d /\ o.of[r].discard = gpuRows[i].discard
      BY <1>1 DEF OutOf
    <3>2. \A i \in DOMAIN gpuRows : gpuRows[i].req = r => r \in DOMAIN o.of
      BY <1>8, <1>13
    <3> QED
      BY <1>11, <1>15, <3>1, <3>2
  <2> QED
    BY <2>1, <2>2 DEF OutOf
<1> HIDE DEF z, Outs, of, o, k, Maps
<1>17. /\ outputs' \in Seq(Outs) /\ Len(outputs') = Len(outputs)
       /\ \A j \in 1..Len(outputs) : j # k => outputs'[j] = outputs[j]
       /\ outputs'[k] = z
  <2>1. outputs' \in [1..n -> Outs]
    BY <1>1, <1>2, <1>3, <1>12
  <2>2. outputs' \in Seq(Outs) /\ DOMAIN outputs' = 1..n
    BY <1>3, <2>1
  <2>3. Len(outputs') = n
    BY <1>3, <2>2
  <2> QED
    BY <1>1, <1>2, <2>2, <2>3
<1> QED
  BY <1>11, <1>12, <1>14, <1>15, <1>16, <1>17 DEF k, o, Outs, Maps

\* The two outputs in flight, once one of them is sampled.
LEMMA SampleOuts ==
  ASSUME IInv, Depth = 2, Sample, NEW a, Sampling(a)
  PROVE  /\ (HasOld' <=> HasOld) /\ (HasNew' <=> HasNew)
         /\ OldUnsampled => HasOld /\ OldOut' = outputs'[Turn] /\ OldOut = outputs[Turn] /\ (HasNew => NewOut' = NewOut)
         /\ ~OldUnsampled => HasNew /\ NewOut' = outputs'[Turn] /\ NewOut = outputs[Turn] /\ (HasOld => OldOut' = OldOut)
<1> DEFINE n == Len(outputs)
<1>1. pc' = pc /\ Len(outputs') = n /\ (OldUnsampled => HasOld) /\ (~OldUnsampled => HasNew)
  BY SamplePipe, SampledOut
<1>2. (HasOld' <=> HasOld) /\ (HasNew' <=> HasNew)
  BY <1>1 DEF HasOld, HasNew
<1>3. Turn = IF OldUnsampled THEN 1 ELSE n
  BY DEF Turn
<1>4. n \in 0..2 /\ \A k \in 1..n : k # Turn => outputs'[k] = outputs[k]
  BY SampledOut DEF IInv, Shape
<1>5. ASSUME OldUnsampled
      PROVE  OldOut' = outputs'[Turn] /\ OldOut = outputs[Turn] /\ (HasNew => NewOut' = NewOut)
  <2>1. OldOut' = outputs'[Turn] /\ OldOut = outputs[Turn]
    BY <1>3, <1>5 DEF OldOut
  <2>2. HasNew => n = 2
    BY <1>1, <1>5 DEF HasNew, HasOld
  <2>3. HasNew => 2 \in 1..n /\ 2 # Turn
    <3> HIDE DEF n
    <3> QED
      BY <1>3, <1>5, <2>2
  <2>4. HasNew => outputs'[2] = outputs[2]
    BY <1>4, <2>3
  <2>5. HasNew => NewOut' = outputs'[2] /\ NewOut = outputs[2]
    BY <1>1, <2>2 DEF NewOut
  <2> QED
    BY <2>1, <2>4, <2>5
<1>6. ASSUME ~OldUnsampled
      PROVE  NewOut' = outputs'[Turn] /\ NewOut = outputs[Turn] /\ (HasOld => OldOut' = OldOut)
  <2>1. NewOut' = outputs'[Turn] /\ NewOut = outputs[Turn]
    BY <1>1, <1>3, <1>6 DEF NewOut
  <2>2. HasOld => n = 2
    BY <1>1, <1>6 DEF HasNew, HasOld
  <2>3. HasOld => 1 \in 1..n /\ 1 # Turn
    <3> HIDE DEF n
    <3> QED
      BY <1>3, <1>6, <2>2
  <2>4. HasOld => OldOut' = OldOut
    BY <1>4, <2>3 DEF OldOut
  <2> QED
    BY <2>1, <2>4
<1> QED
  BY <1>1, <1>2, <1>5, <1>6

\* What a sampled output gives is what the request gains, and its rejects are what the
\* request's computation falls short of the step's tokens.
LEMMA SampleGains ==
  ASSUME IInv, Depth = 2, Sample, NEW a, Sampling(a), NEW r \in Reqs
  PROVE  /\ truth'[r].out = truth[r].out + Gives(outputs'[Turn], r)
         /\ truth'[r].comp + Rejects(outputs'[Turn], r) = truth[r].comp + Amount(gpuRows, r)
         /\ Gives(outputs'[Turn], r) \in Nat /\ Rejects(outputs'[Turn], r) \in Nat /\ Amount(gpuRows, r) \in Nat
         /\ truth'[r].comp \in Nat
         /\ Holds(outputs'[Turn], r) = Holds(outputs[Turn], r)
         /\ Gives(outputs[Turn], r) = 0 /\ Rejects(outputs[Turn], r) = 0
         /\ (\A i \in DOMAIN gpuRows : gpuRows[i].req = r => gpuRows[i].d = 0) => Rejects(outputs'[Turn], r) = 0
<1> DEFINE z == outputs'[Turn]
           o == outputs[Turn]
<1>1. /\ z.ready /\ OutOf(z, gpuRows) /\ DOMAIN z.of = DOMAIN o.of
      /\ \A q \in DOMAIN o.of : z.of[q].d = o.of[q].d /\ z.of[q].discard = o.of[q].discard
      /\ \A i \in DOMAIN gpuRows : z.of[gpuRows[i].req].accepted = a[i]
  BY SampledOut
<1>2. ~o.ready
  BY OldestIsTurn
<1>3. truth[r].comp \in Nat /\ truth[r].out \in Nat
  BY RequestTypes DEF IInv
<1>4. Amount(gpuRows, r) \in Nat
  BY AmountType DEF IInv, Typed, Batch
<1> HIDE DEF z, o
<1>5. Holds(z, r) = Holds(o, r) /\ Gives(o, r) = 0 /\ Rejects(o, r) = 0
  BY <1>1, <1>2 DEF Holds, Counted, Gives, Rejects
<1>6. CASE In(gpuRows, r)
  <2>1. PICK i \in DOMAIN gpuRows : gpuRows[i].req = r
    BY <1>6 DEF In
  <2> DEFINE x == gpuRows[i]
             b == a[i]
             m == Amount(gpuRows, r)
             e == z.of[r]
  <2>2. /\ b \in Nat /\ b <= x.d /\ (x.discard => x.d = 0 /\ b = 0)
        /\ truth'[r].comp = truth[r].comp + x.n - x.d + b
        /\ truth'[r].out = truth[r].out + IF x.discard THEN 0 ELSE 1 + b
        /\ truth'[r].comp \in Nat
    BY <2>1, SampledRow
  <2>3. m = x.n
    BY <2>1, AmountIs DEF IInv, Batch
  <2>4. x.n \in Nat /\ x.d \in Nat /\ x.discard \in BOOLEAN
    BY GpuTypes, Sizes DEF IInv
  <2>5. r \in DOMAIN z.of /\ e.d = x.d /\ e.discard = x.discard /\ e.accepted = b
    BY <1>1, <1>6, <2>1 DEF OutOf
  <2>6. /\ Gives(z, r) = IF x.discard THEN 0 ELSE 1 + b
        /\ Rejects(z, r) = IF x.discard THEN 0 ELSE x.d - b
    BY <1>1, <2>5 DEF Gives, Rejects, Counted
  <2>7. (\A j \in DOMAIN gpuRows : gpuRows[j].req = r => gpuRows[j].d = 0) => x.d = 0
    BY <2>1
  <2> HIDE DEF x, b, m, e
  <2>8. /\ truth'[r].out = truth[r].out + Gives(z, r)
        /\ truth'[r].comp + Rejects(z, r) = truth[r].comp + m
        /\ Gives(z, r) \in Nat /\ Rejects(z, r) \in Nat
        /\ x.d = 0 => Rejects(z, r) = 0
    BY <1>3, <2>2, <2>3, <2>4, <2>6
  <2> QED
    BY <1>4, <1>5, <2>2, <2>7, <2>8 DEF z, o, m
<1>7. CASE ~In(gpuRows, r)
  <2>1. truth'[r] = truth[r]
    BY <1>7, SampledNot
  <2>2. Amount(gpuRows, r) = 0
    BY <1>7, AmountNone
  <2>3. r \notin DOMAIN z.of
    BY <1>1, <1>7 DEF OutOf
  <2>4. Gives(z, r) = 0 /\ Rejects(z, r) = 0
    BY <2>3 DEF Gives, Rejects, Counted
  <2> QED
    BY <1>3, <1>5, <2>1, <2>2, <2>4 DEF z, o
<1> QED
  BY <1>6, <1>7

LEMMA SampleShifts ==
  ASSUME IInv, Depth = 2, Sample, NEW a, Sampling(a), NEW r \in Reqs
  PROVE  /\ OldHolds(r)' = OldHolds(r) /\ NewHolds(r)' = NewHolds(r) /\ HostHolds(r)' = HostHolds(r)
         /\ OldUnsampled =>
              /\ OldGives(r) = 0 /\ OldRejects(r) = 0 /\ OldAmount(r) = Amount(gpuRows, r)
              /\ OldGives(r)' = Gives(outputs'[Turn], r) /\ OldRejects(r)' = Rejects(outputs'[Turn], r)
              /\ NewGives(r)' = NewGives(r) /\ NewRejects(r)' = NewRejects(r) /\ NewAmount(r)' = NewAmount(r)
         /\ ~OldUnsampled =>
              /\ NewGives(r) = 0 /\ NewRejects(r) = 0 /\ NewAmount(r) = Amount(gpuRows, r)
              /\ NewGives(r)' = Gives(outputs'[Turn], r) /\ NewRejects(r)' = Rejects(outputs'[Turn], r)
              /\ OldGives(r)' = OldGives(r) /\ OldRejects(r)' = OldRejects(r)
              /\ NewAmount(r)' = 0 /\ OldAmount(r) = 0
         /\ OldAmount(r)' = 0
         /\ (Arriving(r)' <=> Arriving(r)) /\ (Arriving(r) => OldUnsampled /\ ~In(gpuRows, r))
         /\ (In(inputs, r)' <=> In(inputs, r))
<1> DEFINE z == outputs'[Turn]
           o == outputs[Turn]
<1>1. /\ (HasOld' <=> HasOld) /\ (HasNew' <=> HasNew)
      /\ OldUnsampled => HasOld /\ OldOut' = z /\ OldOut = o /\ (HasNew => NewOut' = NewOut)
      /\ ~OldUnsampled => HasNew /\ NewOut' = z /\ NewOut = o /\ (HasOld => OldOut' = OldOut)
  BY SampleOuts
<1>2. Holds(z, r) = Holds(o, r) /\ Gives(o, r) = 0 /\ Rejects(o, r) = 0
  BY SampleGains
<1>3. /\ pc' = pc /\ inputs' = inputs /\ gpuRows' = gpuRows /\ plan' = plan
      /\ (Preparing <=> OldUnsampled) /\ (Preparing' <=> Preparing)
      /\ ~OldUnsampled' /\ NewUnsampled /\ (NewUnsampled' <=> OldUnsampled)
  BY SamplePipe
<1> HIDE DEF z, o
<1>4. /\ OldHolds(r)' = IF HasOld' THEN Holds(OldOut', r) ELSE 0
      /\ NewHolds(r)' = IF HasNew' THEN Holds(NewOut', r) ELSE 0
      /\ OldGives(r)' = IF HasOld' THEN Gives(OldOut', r) ELSE 0
      /\ NewGives(r)' = IF HasNew' THEN Gives(NewOut', r) ELSE 0
      /\ OldRejects(r)' = IF HasOld' THEN Rejects(OldOut', r) ELSE 0
      /\ NewRejects(r)' = IF HasNew' THEN Rejects(NewOut', r) ELSE 0
  BY DEF OldHolds, NewHolds, OldGives, NewGives, OldRejects, NewRejects, Holds, Gives, Rejects, Counted
<1>5. OldHolds(r)' = OldHolds(r) /\ NewHolds(r)' = NewHolds(r)
  <2>1. CASE OldUnsampled
    BY <1>1, <1>2, <1>4, <2>1 DEF OldHolds, NewHolds
  <2>2. CASE ~OldUnsampled
    BY <1>1, <1>2, <1>4, <2>2 DEF OldHolds, NewHolds
  <2> QED
    BY <2>1, <2>2
<1>6. HostHolds(r)' = HostHolds(r) /\ (In(inputs, r)' <=> In(inputs, r)) /\ (Arriving(r)' <=> Arriving(r))
  BY <1>3 DEF HostHolds, In, Arriving
<1>7. OldUnsampled =>
        /\ OldGives(r) = 0 /\ OldRejects(r) = 0
        /\ OldGives(r)' = Gives(z, r) /\ OldRejects(r)' = Rejects(z, r)
        /\ NewGives(r)' = NewGives(r) /\ NewRejects(r)' = NewRejects(r)
  BY <1>1, <1>2, <1>4 DEF OldGives, OldRejects, NewGives, NewRejects
<1>8. ~OldUnsampled =>
        /\ NewGives(r) = 0 /\ NewRejects(r) = 0
        /\ NewGives(r)' = Gives(z, r) /\ NewRejects(r)' = Rejects(z, r)
        /\ OldGives(r)' = OldGives(r) /\ OldRejects(r)' = OldRejects(r)
  BY <1>1, <1>2, <1>4 DEF OldGives, OldRejects, NewGives, NewRejects
<1>9. Amount(inputs, r)' = Amount(inputs, r)
  BY <1>3 DEF Amount, In
<1>10. ~OldUnsampled => Amount(inputs, r) = Amount(gpuRows, r)
  <2>1. ~OldUnsampled => Same(gpuRows, inputs)
    BY <1>3 DEF IInv, Batch
  <2> QED
    BY <2>1, SameAmount DEF IInv, Batch
<1>11. /\ OldUnsampled => OldAmount(r) = Amount(gpuRows, r) /\ NewAmount(r)' = NewAmount(r)
       /\ ~OldUnsampled => NewAmount(r) = Amount(gpuRows, r) /\ NewAmount(r)' = 0 /\ OldAmount(r) = 0
       /\ OldAmount(r)' = 0
  BY <1>3, <1>9, <1>10 DEF OldAmount, NewAmount
<1>12. Arriving(r) => OldUnsampled /\ ~In(gpuRows, r)
  BY <1>3 DEF Arriving, IInv, Incoming, Coming
<1> QED
  BY <1>5, <1>6, <1>7, <1>8, <1>11, <1>12 DEF z

LEMMA SampleLengths ==
  ASSUME IInv, Depth = 2, Sample, NEW a, Sampling(a)
  PROVE  Lengths'
<1>1. ~((~Preparing' /\ NewUnsampled') \/ OldUnsampled')
  BY SamplePipe
<1>2. \A i \in DOMAIN gpuRows : gpuRows[i].len = truth[gpuRows[i].req].comp
  BY SamplePipe DEF IInv, Lengths
<1>3. DOMAIN sampled' = DOMAIN gpuRows
  BY DEF Sampling
<1>4. ASSUME NEW i \in DOMAIN gpuRows
      PROVE  LET x == gpuRows[i]  t == truth'[x.req]
             IN /\ sampled'[i].req = x.req /\ sampled'[i].pos = t.comp
                /\ ~x.discard => /\ sampled'[i].count >= 1
                                 /\ t.comp + x.d + 1 = x.len + x.n + sampled'[i].count
  <2> DEFINE x == gpuRows[i]
             r == x.req
             b == a[i]
             w == sampled'[i].count
             u == truth'[r].comp
             v == truth[r].comp
  <2>1. /\ b \in Nat /\ u = v + x.n - x.d + b
        /\ sampled'[i].req = r /\ sampled'[i].pos = u
        /\ w = IF x.discard THEN 0 ELSE 1 + b
    BY SampledRow
  <2>2. x.n \in Nat /\ x.d \in Int /\ r \in Reqs /\ x.len = v
    BY <1>2, GpuTypes DEF IInv
  <2>3. v \in Nat
    BY <2>2, RequestTypes DEF IInv
  <2>5. ~x.discard => w = 1 + b
    BY <2>1
  <2> HIDE DEF x, r, b, w, u, v
  <2>6. w = 1 + b => w >= 1 /\ u + x.d + 1 = x.len + x.n + w
    BY <2>1, <2>2, <2>3
  <2>4. ~x.discard => w >= 1 /\ u + x.d + 1 = x.len + x.n + w
    BY <2>5, <2>6
  <2> QED
    BY <2>1, <2>4 DEF x, r, w, u
<1>5. ASSUME pc' = "idle" /\ queue' = Q0 /\ HasNew', NEW i \in DOMAIN inputs, ~inputs[i].discard
      PROVE  NewOut'.of[inputs[i].req].accepted + 1 = sampled'[i].count
  <2>1. ~OldUnsampled
    <3>1. queue = QS
      BY <1>5, SamplePipe, QueuesDiffer
    <3> QED
      BY <3>1, SamplePipe
  <2>2. Same(gpuRows, inputs)
    BY <2>1, SamplePipe DEF IInv, Batch
  <2>3. i \in DOMAIN gpuRows /\ gpuRows[i].req = inputs[i].req /\ gpuRows[i].discard = inputs[i].discard
    BY <2>2 DEF Same
  <2>4. NewOut' = outputs'[Turn]
    BY <2>1, SampleOuts
  <2>5. outputs'[Turn].of[gpuRows[i].req].accepted = a[i]
    BY <2>3, SampledOut
  <2>6. sampled'[i].count = 1 + a[i] /\ a[i] \in Nat
    BY <1>5, <2>3, SampledRow
  <2> QED
    BY <2>3, <2>4, <2>5, <2>6
<1> QED
  BY <1>1, <1>3, <1>4, <1>5, SamplePipe DEF Lengths

LEMMA SampleIncoming ==
  ASSUME IInv, Depth = 2, Sample, NEW a, Sampling(a)
  PROVE  Incoming'
<1> SUFFICES ASSUME OldUnsampled, NEW i \in DOMAIN inputs
             PROVE  /\ Coming(inputs[i])'
                    /\ pc # "idle" => inputs[i].prev = prevRow[inputs[i].req]
                    /\ ~Forced => Fed(inputs[i]) /\ (inputs[i].fresh => inputs[i].prev = 0)
  BY SamplePipe DEF Incoming, Fed
<1> DEFINE x == inputs[i]
           r == x.req
<1>1. /\ inputs' = inputs /\ gpuRows' = gpuRows /\ Preparing /\ ~OldUnsampled'
  BY SamplePipe
<1>2. /\ Coming(x)
      /\ pc # "idle" => x.prev = prevRow[r]
      /\ ~Forced => Fed(x) /\ (x.fresh => x.prev = 0)
  BY <1>1 DEF IInv, Incoming
<1>3. r \in Reqs /\ x.pinned \in Int /\ x.prev \in Nat
  BY InputTypes DEF IInv
<1>4. ~x.fresh /\ (x.prev = 0 \/ x.drafts = 0) => x.pinned = truth'[r].comp
  <2> SUFFICES ASSUME ~x.fresh, x.prev = 0 \/ x.drafts = 0
               PROVE  x.pinned = truth'[r].comp
    OBVIOUS
  <2>1. x.pinned = truth[r].comp + Amount(gpuRows, r)
    BY <1>2 DEF Coming
  <2>2. \A j \in DOMAIN gpuRows : gpuRows[j].req = r => gpuRows[j].d = 0
    <3> SUFFICES ASSUME NEW j \in DOMAIN gpuRows, gpuRows[j].req = r, gpuRows[j].d # 0
                 PROVE  FALSE
      OBVIOUS
    <3>1. gpuRows[j].d > 0 /\ j # 0
      BY GpuTypes, Sizes DEF IInv
    <3>2. x.prev = j /\ x.drafts > 0
      BY <1>2, <3>1 DEF Coming
    <3> QED
      BY <3>1, <3>2
  <2>3. truth'[r].comp + Rejects(outputs'[Turn], r) = truth[r].comp + Amount(gpuRows, r)
        /\ Rejects(outputs'[Turn], r) = 0 /\ truth'[r].comp \in Nat
    BY <1>3, <2>2, SampleGains
  <2> QED
    BY <2>1, <2>3
<1>5. Coming(inputs[i])'
  <2>1. x.fresh => x.at = 0 /\ x.pinned = 0 /\ x.drafts = 0
    BY <1>2 DEF Coming
  <2>2. x.prev # 0 => /\ x.prev \in DOMAIN gpuRows
                      /\ gpuRows[x.prev].req = r /\ ~gpuRows[x.prev].discard
                      /\ x.drafts > 0 => x.drafts = gpuRows[x.prev].d
    BY <1>2 DEF Coming
  <2>3. truth'[r].comp \in Nat
    BY <1>3, SampleGains
  <2>4. ~x.fresh /\ (x.prev = 0 \/ x.drafts = 0) => x.pinned = truth'[r].comp + 0
    BY <1>4, <2>3
  <2> HIDE DEF x
  <2> QED
    BY <1>1, <2>1, <2>2, <2>4 DEF Coming, r, x
<1> QED
  BY <1>2, <1>5

LEMMA SampleDeferral ==
  ASSUME IInv, Depth = 2, Sample, NEW a, Sampling(a)
  PROVE  Deferral'
<1> SUFFICES ASSUME NEW r \in Reqs, pc # "idle", r \in DOMAIN plan.deferred, prevRow[r] # 0
             PROVE  LET p == prevRow[r] IN
                    /\ \A i \in DOMAIN inputs : inputs[i].req = r => ~inputs[i].fresh
                    /\ plan.deferred[r] \in 0..NumSpec
                    /\ pc = "launched" =>
                         /\ \A i \in DOMAIN inputs : inputs[i].req = r => inputs[i].drafts > 0
                         /\ p \in DOMAIN sampled' 
                         /\ req[r].comp + sampled'[p].count = truth'[r].comp + plan.deferred[r] + 1
                    /\ pc # "computed"
  BY SamplePipe DEF Deferral
<1> DEFINE p == prevRow[r]
           x == gpuRows[p]
           q == plan.deferred[r]
<1>1. queue = QSP /\ OldUnsampled /\ Preparing
  BY SamplePipe
<1>2. pc # "computed"
  BY <1>1 DEF IInv, Shape
<1>3. pc = "launched"
  BY <1>2 DEF IInv, Shape
<1>4. /\ \A i \in DOMAIN inputs : inputs[i].req = r => ~inputs[i].fresh
      /\ q \in 0..NumSpec
      /\ \A i \in DOMAIN inputs : inputs[i].req = r => inputs[i].drafts > 0
      /\ q = x.d /\ req[r].comp = truth[r].comp + x.n
  BY <1>1, <1>3 DEF IInv, Deferral
<1>5. p \in Nat
  BY RequestTypes DEF IInv
<1>6. p \in DOMAIN gpuRows /\ x.req = r /\ ~x.discard
  BY <1>1, <1>3, <1>5 DEF IInv, PrevRows, Prev
<1>7. /\ a[p] \in Nat /\ truth'[r].comp = truth[r].comp + x.n - x.d + a[p]
      /\ sampled'[p].count = 1 + a[p]
  BY <1>6, SampledRow
<1>8. p \in DOMAIN sampled'
  BY <1>6 DEF Sampling
<1>9. truth[r].comp \in Nat /\ x.n \in Nat /\ x.d \in Int
  BY <1>6, RequestTypes, GpuTypes DEF IInv
<1> HIDE DEF p, x, q
<1>10. req[r].comp + sampled'[p].count = truth'[r].comp + q + 1
  BY <1>4, <1>7, <1>9
<1> QED
  BY <1>2, <1>4, <1>8, <1>10 DEF p, q

LEMMA SampleTypes ==
  ASSUME IInv, Depth = 2, Sample, NEW a, Sampling(a)
  PROVE  Typed'
<1>1. truth' \in [Reqs -> [comp : Nat, out : Nat]]
  <2>1. \A r \in Reqs : truth'[r] \in [comp : Nat, out : Nat]
    <3> SUFFICES ASSUME NEW r \in Reqs
                 PROVE  truth'[r] \in [comp : Nat, out : Nat]
      OBVIOUS
    <3>1. CASE In(gpuRows, r)
      BY <3>1, SampledRow DEF In
    <3>2. CASE ~In(gpuRows, r)
      BY <3>2, SampledNot DEF IInv, Typed
    <3> QED
      BY <3>1, <3>2
  <2>2. truth' = [r \in Reqs |-> truth'[r]]
    <3>1. truth' = [r \in Reqs |->
             IF r \in {gpuRows[i].req : i \in DOMAIN gpuRows}
             THEN Ran(truth[r], gpuRows[RowOf(r)], a[RowOf(r)]) ELSE truth[r]]
      BY Zenon DEF Sampling
    <3> QED
      BY <3>1
  <2> QED
    BY <2>1, <2>2
<1>2. sampled' \in Seq(SampledRecs)
  <2> DEFINE t == sampled'
  <2>1. t = [i \in DOMAIN gpuRows |-> t[i]]
    <3>1. t = [i \in DOMAIN gpuRows |->
            [req |-> gpuRows[i].req, pos |-> truth'[gpuRows[i].req].comp,
             count |-> IF gpuRows[i].discard THEN 0 ELSE 1 + a[i]]]
      BY Zenon DEF Sampling
    <3> HIDE DEF t
    <3> QED
      BY <3>1
  <2>2. \A i \in DOMAIN gpuRows : t[i] \in SampledRecs
    BY SampledRow
  <2>3. gpuRows \in Seq(GpuRows)
    BY DEF IInv, Typed
  <2> HIDE DEF t
  <2>4. t \in Seq(SampledRecs)
    BY <2>1, <2>2, <2>3, MapIsList
  <2> QED
    BY <2>4 DEF t
<1> QED
  BY <1>1, <1>2, SamplePipe, SampledOut DEF IInv, Typed

LEMMA SampleAccounts ==
  ASSUME IInv, Depth = 2, Sample, NEW a, Sampling(a)
  PROVE  Accounts'
<1> SUFFICES ASSUME NEW r \in Reqs
             PROVE  /\ sched'[r].status # "finished" =>
                         /\ sched'[r].place = OldHolds(r)' + NewHolds(r)' + HostHolds(r)'
                         /\ sched'[r].known + OldGives(r)' + NewGives(r)' = truth'[r].out
                    /\ sched'[r].status = "running" =>
                         sched'[r].comp = Base(r)' + OldAmount(r)' + NewAmount(r)' + OldRejects(r)' + NewRejects(r)'
                    /\ sched'[r].place \in 0..(2 * (1 + NumSpec)) /\ sched'[r].known <= MaxOut[r]
  BY Zenon DEF Accounts
<1> DEFINE G == Gives(outputs'[Turn], r)
           R == Rejects(outputs'[Turn], r)
           M == Amount(gpuRows, r)
<1>1. /\ OldHolds(r)' = OldHolds(r) /\ NewHolds(r)' = NewHolds(r) /\ HostHolds(r)' = HostHolds(r)
      /\ OldUnsampled =>
           /\ OldGives(r) = 0 /\ OldRejects(r) = 0 /\ OldAmount(r) = M
           /\ OldGives(r)' = G /\ OldRejects(r)' = R
           /\ NewGives(r)' = NewGives(r) /\ NewRejects(r)' = NewRejects(r) /\ NewAmount(r)' = NewAmount(r)
      /\ ~OldUnsampled =>
           /\ NewGives(r) = 0 /\ NewRejects(r) = 0 /\ NewAmount(r) = M
           /\ NewGives(r)' = G /\ NewRejects(r)' = R
           /\ OldGives(r)' = OldGives(r) /\ OldRejects(r)' = OldRejects(r)
           /\ NewAmount(r)' = 0 /\ OldAmount(r) = 0
      /\ OldAmount(r)' = 0
      /\ (Arriving(r)' <=> Arriving(r)) /\ (Arriving(r) => OldUnsampled /\ ~In(gpuRows, r))
  BY SampleShifts
<1>2. /\ truth'[r].out = truth[r].out + G /\ truth'[r].comp + R = truth[r].comp + M
      /\ G \in Nat /\ R \in Nat /\ M \in Nat /\ truth'[r].comp \in Nat
  BY SampleGains
<1>3. Arriving(r) => M = 0 /\ R = 0
  <2> SUFFICES ASSUME Arriving(r)
               PROVE  M = 0 /\ R = 0
    OBVIOUS
  <2>1. ~In(gpuRows, r)
    BY <1>1
  <2>2. M = 0 /\ truth'[r] = truth[r]
    BY <2>1, AmountNone, SampledNot
  <2>3. truth[r].comp \in Nat
    BY RequestTypes DEF IInv
  <2> HIDE DEF M, R
  <2> QED
    BY <1>2, <2>2, <2>3
<1>4. Base(r)' = (IF Arriving(r)' THEN 0 ELSE truth'[r].comp) /\ Base(r) = IF Arriving(r) THEN 0 ELSE truth[r].comp
  BY DEF Base
<1> HIDE DEF G, R, M
<1>5. truth[r].comp \in Nat /\ truth[r].out \in Nat /\ sched[r].known \in Nat
  BY RequestTypes DEF IInv
<1>6. Base(r)' + R = Base(r) + M /\ Base(r)' \in Nat /\ Base(r) \in Nat
  <2>1. CASE Arriving(r)
    BY <1>1, <1>3, <1>4, <2>1
  <2>2. CASE ~Arriving(r)
    BY <1>1, <1>2, <1>4, <1>5, <2>2
  <2> QED
    BY <2>1, <2>2
<1>7. /\ OldGives(r) \in Int /\ NewGives(r) \in Int /\ OldRejects(r) \in Int /\ NewRejects(r) \in Int
      /\ NewAmount(r) \in Int
  <2>1. ASSUME NEW k \in 1..Len(outputs)
        PROVE  Gives(outputs[k], r) \in Int /\ Rejects(outputs[k], r) \in Int
    <3>1. CASE Counted(outputs[k], r)
      <4>1. outputs[k].of[r].d \in Nat /\ outputs[k].of[r].accepted \in Nat
        BY <3>1, OutTypes DEF Counted, IInv
      <4> QED
        BY <4>1 DEF Gives, Rejects
    <3>2. CASE ~Counted(outputs[k], r)
      BY <3>2 DEF Gives, Rejects
    <3> QED
      BY <3>1, <3>2
  <2>2. (HasOld => 1 \in 1..Len(outputs)) /\ (HasNew => Len(outputs) \in 1..Len(outputs))
    BY DEF IInv, Shape, HasOld, HasNew
  <2>3. NewAmount(r) \in Int
    <3>1. Amount(inputs, r) \in Nat
      BY AmountType DEF IInv, Typed, Batch
    <3> QED
      BY <3>1 DEF NewAmount
  <2> QED
    BY <2>1, <2>2, <2>3 DEF OldGives, NewGives, OldRejects, NewRejects, OldOut, NewOut
<1>8. sched' = sched
  BY SamplePipe
<1>9. ASSUME sched[r].status # "finished"
      PROVE  /\ sched[r].place = OldHolds(r)' + NewHolds(r)' + HostHolds(r)'
             /\ sched[r].known + OldGives(r)' + NewGives(r)' = truth'[r].out
  <2>1. /\ sched[r].place = OldHolds(r) + NewHolds(r) + HostHolds(r)
        /\ sched[r].known + OldGives(r) + NewGives(r) = truth[r].out
    BY <1>9 DEF IInv, Accounts
  <2>2. sched[r].place = OldHolds(r)' + NewHolds(r)' + HostHolds(r)'
    BY <1>1, <2>1
  <2>3. sched[r].known + OldGives(r)' + NewGives(r)' = truth'[r].out
    <3>1. CASE OldUnsampled
      BY <1>1, <1>2, <1>5, <1>7, <2>1, <3>1
    <3>2. CASE ~OldUnsampled
      BY <1>1, <1>2, <1>5, <1>7, <2>1, <3>2
    <3> QED
      BY <3>1, <3>2
  <2> QED
    BY <2>2, <2>3
<1>10. ASSUME sched[r].status = "running"
       PROVE  sched[r].comp = Base(r)' + OldAmount(r)' + NewAmount(r)' + OldRejects(r)' + NewRejects(r)'
  <2>1. sched[r].comp = Base(r) + OldAmount(r) + NewAmount(r) + OldRejects(r) + NewRejects(r)
    BY <1>10 DEF IInv, Accounts
  <2>2. CASE OldUnsampled
    BY <1>1, <1>2, <1>6, <1>7, <2>1, <2>2
  <2>3. CASE ~OldUnsampled
    BY <1>1, <1>2, <1>6, <1>7, <2>1, <2>3
  <2> QED
    BY <2>2, <2>3
<1>11. sched[r].place \in 0..(2 * (1 + NumSpec)) /\ sched[r].known <= MaxOut[r]
  BY DEF IInv, Accounts
<1> QED
  BY <1>8, <1>9, <1>10, <1>11

LEMMA SampleStep ==
  ASSUME IInv, Depth = 2, Sample
  PROVE  IInv'
<1>1. PICK a : Sampling(a)
  BY SampleIsSampling
<1>2. Shape'
  <2>1. Len(outputs') = Len(outputs) /\ outputs'[Turn].ready
    BY <1>1, SampledOut
  <2>2. /\ (HasOld' <=> HasOld) /\ (HasNew' <=> HasNew)
        /\ OldUnsampled => HasOld /\ OldOut' = outputs'[Turn] /\ (HasNew => NewOut' = NewOut)
        /\ ~OldUnsampled => HasNew /\ NewOut' = outputs'[Turn] /\ (HasOld => OldOut' = OldOut)
    BY <1>1, SampleOuts
  <2>3. CASE queue = QS
    BY <2>1, <2>2, <2>3, SamplePipe, QueuesDiffer DEF IInv, Shape
  <2>4. CASE queue = QSP
    BY <2>1, <2>2, <2>4, SamplePipe, QueuesDiffer DEF IInv, Shape
  <2>5. CASE queue = QSPS
    BY <2>1, <2>2, <2>5, SamplePipe, QueuesDiffer DEF IInv, Shape
  <2> QED
    BY <2>3, <2>4, <2>5, SamplePipe
<1>3. Typed'
  BY <1>1, SampleTypes
<1>4. Batch'
  BY SamplePipe DEF IInv, Batch, Once, Sound, Same
<1>5. OutsMatch'
  <2>1. /\ OutOf(outputs'[Turn], gpuRows)
        /\ \A i \in DOMAIN gpuRows : outputs'[Turn].of[gpuRows[i].req].accepted = a[i]
        /\ DOMAIN outputs'[Turn].of = DOMAIN outputs[Turn].of
    BY <1>1, SampledOut
  <2>2. \A r \in DOMAIN outputs'[Turn].of : outputs'[Turn].of[r].accepted <= outputs'[Turn].of[r].d
    <3> SUFFICES ASSUME NEW r \in DOMAIN outputs'[Turn].of
                 PROVE  outputs'[Turn].of[r].accepted <= outputs'[Turn].of[r].d
      OBVIOUS
    <3>1. r \in Reqs
      <4>1. r \in DOMAIN outputs[Turn].of
        BY <2>1
      <4>2. Turn \in 1..Len(outputs)
        BY OldestIsTurn
      <4> QED
        BY <4>1, <4>2, OutTypes DEF IInv
    <3>2. PICK i \in DOMAIN gpuRows : gpuRows[i].req = r
      BY <2>1, <3>1 DEF OutOf, In
    <3>3. outputs'[Turn].of[r].d = gpuRows[i].d /\ outputs'[Turn].of[r].accepted = a[i]
      BY <2>1, <3>1, <3>2 DEF OutOf
    <3>4. a[i] <= gpuRows[i].d
      BY <1>1, SampledRow
    <3> QED
      BY <3>3, <3>4
  <2>3. /\ (HasOld' <=> HasOld) /\ (HasNew' <=> HasNew)
        /\ OldUnsampled => HasOld /\ OldOut' = outputs'[Turn] /\ (HasNew => NewOut' = NewOut)
        /\ ~OldUnsampled => HasNew /\ NewOut' = outputs'[Turn] /\ (HasOld => OldOut' = OldOut)
    BY <1>1, SampleOuts
  <2>4. ~OldUnsampled => OutOf(outputs'[Turn], inputs)
    <3> SUFFICES ASSUME ~OldUnsampled
                 PROVE  OutOf(outputs'[Turn], inputs)
      OBVIOUS
    <3>1. Same(gpuRows, inputs)
      BY SamplePipe DEF IInv, Batch
    <3> QED
      BY <2>1, <3>1 DEF OutOf, Same, In
  <2>5. HasNew' => OutOf(NewOut', inputs)
    BY <2>3, <2>4 DEF IInv, OutsMatch
  <2>6. HasNew' => OutOf(NewOut, inputs)'
    <3>1. inputs' = inputs
      BY SamplePipe
    <3> QED
      BY <2>5, <3>1 DEF OutOf, In
  <2>7. /\ HasOld' => \A r \in DOMAIN OldOut'.of : OldOut'.of[r].accepted <= OldOut'.of[r].d
        /\ HasNew' => \A r \in DOMAIN NewOut'.of : NewOut'.of[r].accepted <= NewOut'.of[r].d
    BY <2>2, <2>3 DEF IInv, OutsMatch
  <2>8. ~OldUnsampled'
    BY SamplePipe
  <2> QED
    BY <2>6, <2>7, <2>8 DEF OutsMatch
<1>6. PrevRows'
  BY SamplePipe DEF IInv, PrevRows, Prev
<1>7. Lengths' /\ Incoming' /\ Deferral' /\ Accounts'
  BY <1>1, SampleLengths, SampleIncoming, SampleDeferral, SampleAccounts
<1>8. HostAgrees'
  BY SamplePipe DEF IInv, HostAgrees
<1>9. Chances'
  <2> SUFFICES ASSUME NEW r \in Reqs
               PROVE  /\ sched'[r].status \in {"new", "preempted"} =>
                           /\ sched'[r].comp = 0 /\ r \notin Members(rows')
                           /\ ~Forced => ~In(inputs, r)'
                      /\ sched'[r].status = "running" =>
                           /\ sched'[r].comp < Length(sched'[r])
                           /\ \A i \in DOMAIN inputs' : inputs'[i].req = r =>
                                /\ ~inputs'[i].discard => Length(sched'[r]) = sched'[r].comp + 1
                                /\ inputs'[i].discard => /\ sched'[r].spec = 0 /\ sched'[r].place = 0
                                                         /\ req'[r].real = Prompt + sched'[r].known
                      /\ ~sched'[r].drop
                      /\ Arriving(r)' /\ sched'[r].status # "finished" =>
                           /\ truth'[r].out = sched'[r].known
                           /\ \A i \in DOMAIN inputs' : inputs'[i].req = r => inputs'[i].known = sched'[r].known
    BY Zenon DEF Chances
  <2>1. (Arriving(r)' <=> Arriving(r)) /\ (Arriving(r) => ~In(gpuRows, r)) /\ (In(inputs, r)' <=> In(inputs, r))
    BY <1>1, SampleShifts
  <2>2. Arriving(r) => truth'[r] = truth[r]
    BY <1>1, <2>1, SampledNot
  <2> QED
    BY <2>1, <2>2, SamplePipe DEF IInv, Chances
<1> QED
  BY <1>2, <1>3, <1>4, <1>5, <1>6, <1>7, <1>8, <1>9 DEF IInv

-----------------------------------------------------------------------------
(* The scheduler takes the oldest output. *)

Took == outputs[1]

LEMMA TakePipe ==
  ASSUME IInv, Depth = 2, TakeOutput
  PROVE  /\ pc = "idle" /\ outputs' = Tail(outputs) /\ Head(outputs) = Took /\ Took.ready /\ 1 \in 1..Len(outputs)
         /\ plan' = plan /\ pc' = pc /\ req' = req /\ rows' = rows /\ prevRow' = prevRow /\ inputs' = inputs
         /\ queue' = queue /\ gpuRows' = gpuRows /\ sampled' = sampled /\ truth' = truth
         /\ outputs' \in Seq([ready : BOOLEAN, of : UNION {[R -> Entries] : R \in SUBSET Reqs}])
         /\ (Preparing' <=> Preparing) /\ ~OldUnsampled /\ ~OldUnsampled' /\ (NewUnsampled' <=> NewUnsampled)
         /\ ~HasOld' /\ (HasOld => HasNew)
         /\ HasOld => HasNew' /\ NewOut' = NewOut /\ Took = OldOut /\ Len(outputs') = 1 /\ rows # <<>>
         /\ ~HasOld => ~HasNew' /\ HasNew /\ Took = NewOut /\ Len(outputs') = 0 /\ queue = Q0 /\ rows = <<>>
         /\ queue \in {Q0, QS, QPS}
<1> DEFINE n == Len(outputs)
           Outs == [ready : BOOLEAN, of : UNION {[R -> Entries] : R \in SUBSET Reqs}]
<1>1. /\ outputs # <<>> /\ Head(outputs).ready /\ (n = 2 \/ rows = <<>>)
      /\ outputs' = Tail(outputs)
      /\ plan' = plan /\ pc' = pc /\ req' = req /\ rows' = rows /\ prevRow' = prevRow /\ inputs' = inputs
      /\ queue' = queue /\ gpuRows' = gpuRows /\ sampled' = sampled /\ truth' = truth
  BY Zenon DEF TakeOutput
<1>2. outputs \in Seq(Outs) /\ n \in 0..2
  BY DEF IInv, Typed, Shape
<1> HIDE DEF Outs
<1>3. n # 0
  BY <1>1, <1>2, EmptySeq
<1>4. pc = "idle"
  BY <1>1 DEF IInv, Shape
<1>5. /\ Head(outputs) = Took /\ outputs' \in Seq(Outs) /\ Len(outputs') = n - 1
      /\ \A k \in 1..Len(outputs') : outputs'[k] = outputs[k + 1]
  <2>1. Head(outputs) = outputs[1]
    BY <1>1, <1>2, HeadTailProperties
  <2>2. outputs' \in Seq(Outs) /\ Len(outputs') = n - 1
        /\ \A k \in 1..Len(Tail(outputs)) : Tail(outputs)[k] = outputs[k + 1]
    BY <1>1, <1>2, HeadTailProperties
  <2> QED
    BY <1>1, <2>1, <2>2 DEF Took
<1>6. /\ (HasOld <=> n = 2) /\ (HasNew <=> n # 0) /\ (HasOld' <=> Len(outputs') = 2) /\ (HasNew' <=> Len(outputs') # 0)
  BY <1>1, <1>4 DEF HasOld, HasNew
<1>7. n \in {1, 2} /\ 1 \in 1..n /\ (n = 1 => Len(outputs') = 0) /\ (n = 2 => Len(outputs') = 1)
  <2> HIDE DEF n
  <2> QED
    BY <1>2, <1>3, <1>5
<1>8. ~HasOld' /\ (HasOld => HasNew)
  BY <1>6, <1>7
<1>9. HasOld => HasNew' /\ Took = OldOut /\ Len(outputs') = 1 /\ rows # <<>> /\ NewOut' = NewOut
  <2> SUFFICES ASSUME HasOld
               PROVE  HasNew' /\ Took = OldOut /\ Len(outputs') = 1 /\ rows # <<>> /\ NewOut' = NewOut
    OBVIOUS
  <2>1. n = 2 /\ Len(outputs') = 1
    BY <1>6, <1>7
  <2>2. rows # <<>>
    BY <1>4 DEF IInv, Shape
  <2>3. NewOut' = outputs'[1] /\ NewOut = outputs[2]
    BY <2>1 DEF NewOut
  <2>4. outputs'[1] = outputs[1 + 1]
    BY <1>5, <2>1
  <2> QED
    BY <1>6, <2>1, <2>2, <2>3, <2>4 DEF Took, OldOut
<1>10. ~HasOld => ~HasNew' /\ HasNew /\ Took = NewOut /\ Len(outputs') = 0 /\ queue = Q0 /\ rows = <<>>
  <2> SUFFICES ASSUME ~HasOld
               PROVE  ~HasNew' /\ HasNew /\ Took = NewOut /\ Len(outputs') = 0 /\ queue = Q0 /\ rows = <<>>
    OBVIOUS
  <2>1. n = 1 /\ Len(outputs') = 0 /\ rows = <<>>
    BY <1>1, <1>6, <1>7
  <2>2. HasNew /\ Took = NewOut
    BY <1>6, <2>1 DEF Took, NewOut
  <2>3. queue = Q0
    BY <1>1, <1>4, <1>5, <2>2 DEF IInv, Shape
  <2> QED
    BY <1>6, <2>1, <2>2, <2>3
<1>11. queue \in {Q0, QS, QPS}
  <2>1. CASE HasOld
    BY <1>1, <1>4, <1>5, <1>9, <2>1 DEF IInv, Shape
  <2>2. CASE ~HasOld
    BY <1>10, <2>2
  <2> QED
    BY <2>1, <2>2
<1>12. (Preparing' <=> Preparing) /\ ~OldUnsampled /\ ~OldUnsampled' /\ (NewUnsampled' <=> NewUnsampled)
  BY <1>1, <1>11, QueuesDiffer DEF Preparing, OldUnsampled, NewUnsampled
<1> QED
  BY <1>1, <1>4, <1>5, <1>7, <1>8, <1>9, <1>10, <1>11, <1>12 DEF Outs

\* What of an output the scheduler hears, and what it makes of it.
Hears(r) == Counted(Took, r) /\ sched[r].status # "finished"

LEMMA TookTypes ==
  ASSUME IInv, Depth = 2, TakeOutput, NEW r \in Reqs, Counted(Took, r)
  PROVE  /\ Took.of[r].d \in Nat /\ Took.of[r].d <= NumSpec /\ Took.of[r].accepted \in Nat
         /\ Took.of[r].accepted <= Took.of[r].d
         /\ Holds(Took, r) = 1 + Took.of[r].d /\ Gives(Took, r) = 1 + Took.of[r].accepted
         /\ Rejects(Took, r) = Took.of[r].d - Took.of[r].accepted
<1>1. r \in DOMAIN Took.of
  BY DEF Counted
<1>2. 1 \in 1..Len(outputs)
  BY TakePipe
<1>3. Took.of[r].d \in 0..NumSpec /\ Took.of[r].d \in Nat /\ Took.of[r].accepted \in Nat
  BY <1>1, <1>2, OutTypes DEF IInv, Took
<1>4. Took.of[r].accepted <= Took.of[r].d
  BY <1>1, TakePipe DEF IInv, OutsMatch
<1>5. Took.ready
  BY TakePipe
<1>6. Took.of[r].d <= NumSpec
  BY <1>3, Sizes
<1> QED
  BY <1>3, <1>4, <1>5, <1>6 DEF Holds, Gives, Rejects

LEMMA TakeRequest ==
  ASSUME IInv, Depth = 2, TakeOutput, NEW r \in Reqs
  PROVE  /\ ~Hears(r) => sched'[r] = sched[r]
         /\ Hears(r) =>
              LET s == sched[r]  t == sched'[r]  d == Took.of[r].d  b == Took.of[r].accepted IN
              /\ t \in Requests /\ t.status \in {s.status, "finished"}
              /\ t.known = Least(s.known + 1 + b, MaxOut[r]) /\ t.place = s.place - (1 + d)
              /\ t.comp = IF s.status = "running" THEN s.comp - (d - b) ELSE s.comp
              /\ t.spec = s.spec /\ t.drop = s.drop
              /\ t.status # "finished" => t.known # MaxOut[r]
         /\ sched' = [q \in Reqs |-> sched'[q]]
<1> DEFINE o == Took.of
           seen == [q \in DOMAIN o |-> Informed(sched[q], MaxOut[q], o[q].d, o[q].accepted)]
           counts(q) == q \in DOMAIN o /\ ~o[q].discard /\ sched[q].status # "finished"
<1>1. Head(outputs) = Took
  BY TakePipe
<1>2. PICK stops \in SUBSET DOMAIN Head(outputs).of :
        sched' = [q \in Reqs |->
          IF ~(q \in DOMAIN Head(outputs).of /\ ~Head(outputs).of[q].discard /\ sched[q].status # "finished") THEN sched[q]
          ELSE IF q \in stops \/ [p \in DOMAIN Head(outputs).of |->
                                    Informed(sched[p], MaxOut[p], Head(outputs).of[p].d, Head(outputs).of[p].accepted)][q].known = MaxOut[q]
               THEN [[p \in DOMAIN Head(outputs).of |->
                                    Informed(sched[p], MaxOut[p], Head(outputs).of[p].d, Head(outputs).of[p].accepted)][q] EXCEPT !.status = "finished"]
               ELSE [p \in DOMAIN Head(outputs).of |->
                                    Informed(sched[p], MaxOut[p], Head(outputs).of[p].d, Head(outputs).of[p].accepted)][q]]
  BY Zenon DEF TakeOutput
<1>3. sched' = [q \in Reqs |->
          IF ~counts(q) THEN sched[q]
          ELSE IF q \in stops \/ seen[q].known = MaxOut[q] THEN [seen[q] EXCEPT !.status = "finished"] ELSE seen[q]]
  BY <1>1, <1>2, Zenon
<1>4. Hears(r) <=> counts(r)
  BY DEF Hears, Counted
<1>5. ~Hears(r) => sched'[r] = sched[r]
  BY <1>3, <1>4
<1>6. ASSUME Hears(r)
      PROVE  LET s == sched[r]  t == sched'[r]  d == o[r].d  b == o[r].accepted IN
             /\ t \in Requests /\ t.status \in {s.status, "finished"}
             /\ t.known = Least(s.known + 1 + b, MaxOut[r]) /\ t.place = s.place - (1 + d)
             /\ t.comp = IF s.status = "running" THEN s.comp - (d - b) ELSE s.comp
             /\ t.spec = s.spec /\ t.drop = s.drop
             /\ t.status # "finished" => t.known # MaxOut[r]
  <2> DEFINE s == sched[r]
             t == sched'[r]
             d == o[r].d
             b == o[r].accepted
             know == Least(s.known + 1 + b, MaxOut[r])
             held == s.place - (1 + d)
             done == IF s.status = "running" THEN s.comp - (d - b) ELSE s.comp
             i == seen[r]
  <2>1. r \in DOMAIN o /\ counts(r)
    BY <1>4, <1>6
  <2>2. i = Informed(s, MaxOut[r], d, b)
    BY <2>1
  <2>3. ~s.drop
    BY DEF IInv, Chances
  <2>4. i = [s EXCEPT !.known = know, !.place = held, !.comp = done]
    BY <2>2, <2>3 DEF Informed
  <2>5. /\ s \in Requests /\ s.status \in Statuses /\ s.known \in Nat /\ s.place \in Int /\ s.comp \in Int
    BY RequestTypes DEF IInv
  <2>6. d \in Nat /\ b \in Nat /\ MaxOut[r] \in Nat
    BY <1>6, TookTypes, Sizes DEF Hears
  <2>7. know \in Nat /\ held \in Int /\ done \in Int
    <3> HIDE DEF s, d, b
    <3> QED
      BY <2>5, <2>6 DEF Least
  <2>8. \/ t = [i EXCEPT !.status = "finished"]
        \/ t = i /\ i.known # MaxOut[r]
    BY <1>3, <2>1
  <2> HIDE DEF s, t, i, know, held, done
  <2>9. /\ i \in Requests /\ i.status = s.status /\ i.known = know /\ i.place = held /\ i.comp = done
        /\ i.spec = s.spec /\ i.drop = s.drop
    BY <2>4, <2>5, <2>7 DEF Requests
  <2>10. /\ t \in Requests /\ t.status \in {s.status, "finished"} /\ t.known = know /\ t.place = held /\ t.comp = done
         /\ t.spec = s.spec /\ t.drop = s.drop
    BY <2>8, <2>9 DEF Requests, Statuses
  <2>11. t.status # "finished" => t.known # MaxOut[r]
    <3>1. CASE t = [i EXCEPT !.status = "finished"]
      <4>1. t.status = "finished"
        BY <3>1, <2>9 DEF Requests
      <4> QED
        BY <4>1
    <3>2. CASE t = i /\ i.known # MaxOut[r]
      BY <3>2
    <3> QED
      BY <2>8, <3>1, <3>2
  <2> QED
    BY <2>10, <2>11 DEF s, t, know, held, done
<1>7. sched' = [q \in Reqs |-> sched'[q]]
  BY <1>3
<1> QED
  BY <1>5, <1>6, <1>7

LEMMA OutAmountTypes ==
  ASSUME IInv, NEW k \in 1..Len(outputs), NEW r \in Reqs,
         \A q \in DOMAIN outputs[k].of : outputs[k].of[q].accepted <= outputs[k].of[q].d
  PROVE  /\ Holds(outputs[k], r) \in Nat /\ Gives(outputs[k], r) \in Nat /\ Rejects(outputs[k], r) \in Nat
<1>1. CASE Counted(outputs[k], r)
  <2> DEFINE e == outputs[k].of[r]
  <2>1. e.d \in Nat /\ e.accepted \in Nat /\ e.accepted <= e.d
    BY <1>1, OutTypes DEF Counted, IInv
  <2>2. /\ Holds(outputs[k], r) = 1 + e.d
        /\ Gives(outputs[k], r) \in {0, 1 + e.accepted} /\ Rejects(outputs[k], r) \in {0, e.d - e.accepted}
    BY <1>1 DEF Holds, Gives, Rejects
  <2> HIDE DEF e
  <2> QED
    BY <2>1, <2>2
<1>2. CASE ~Counted(outputs[k], r)
  BY <1>2 DEF Holds, Gives, Rejects
<1> QED
  BY <1>1, <1>2

LEMMA TakeShifts ==
  ASSUME IInv, Depth = 2, TakeOutput, NEW r \in Reqs
  PROVE  /\ OldHolds(r)' = 0 /\ OldGives(r)' = 0 /\ OldRejects(r)' = 0 /\ HostHolds(r) = 0 /\ HostHolds(r)' = 0
         /\ OldAmount(r) = 0 /\ OldAmount(r)' = 0 /\ NewAmount(r)' = NewAmount(r) /\ Base(r)' = Base(r)
         /\ (Arriving(r)' <=> Arriving(r)) /\ (In(inputs, r)' <=> In(inputs, r))
         /\ OldHolds(r) + NewHolds(r) = Holds(Took, r) + NewHolds(r)'
         /\ OldGives(r) + NewGives(r) = Gives(Took, r) + NewGives(r)'
         /\ OldRejects(r) + NewRejects(r) = Rejects(Took, r) + NewRejects(r)'
         /\ NewHolds(r)' \in Nat /\ NewGives(r)' \in Nat /\ NewRejects(r)' \in Nat
         /\ Holds(Took, r) \in Nat /\ Gives(Took, r) \in Nat /\ Rejects(Took, r) \in Nat
         /\ OldHolds(r) \in Nat /\ OldGives(r) \in Nat /\ OldRejects(r) \in Nat
         /\ NewHolds(r) \in Nat /\ NewGives(r) \in Nat /\ NewRejects(r) \in Nat
         /\ NewAmount(r) \in Nat /\ Base(r) \in Nat
<1>1. /\ pc = "idle" /\ pc' = pc /\ inputs' = inputs /\ gpuRows' = gpuRows /\ truth' = truth /\ 1 \in 1..Len(outputs)
      /\ (Preparing' <=> Preparing) /\ ~OldUnsampled /\ ~OldUnsampled' /\ (NewUnsampled' <=> NewUnsampled)
      /\ ~HasOld'
      /\ HasOld => HasNew /\ HasNew' /\ NewOut' = NewOut /\ Took = OldOut
      /\ ~HasOld => ~HasNew' /\ HasNew /\ Took = NewOut
  BY TakePipe
<1>2. /\ OldHolds(r)' = 0 /\ OldGives(r)' = 0 /\ OldRejects(r)' = 0 /\ HostHolds(r) = 0 /\ HostHolds(r)' = 0
  BY <1>1 DEF OldHolds, OldGives, OldRejects, HostHolds
<1>3. /\ OldAmount(r) = 0 /\ OldAmount(r)' = 0 /\ NewAmount(r)' = NewAmount(r)
      /\ (Arriving(r)' <=> Arriving(r)) /\ (In(inputs, r)' <=> In(inputs, r))
  BY <1>1 DEF OldAmount, NewAmount, Amount, In, Arriving
<1>4. Base(r)' = Base(r)
  BY <1>1, <1>3 DEF Base
<1>5. Holds(Took, r) \in Nat /\ Gives(Took, r) \in Nat /\ Rejects(Took, r) \in Nat
  <2>1. \A q \in DOMAIN outputs[1].of : outputs[1].of[q].accepted <= outputs[1].of[q].d
    BY <1>1 DEF IInv, OutsMatch, Took
  <2> QED
    BY <1>1, <2>1, OutAmountTypes DEF Took
<1>6. Holds(NewOut, r) \in Nat /\ Gives(NewOut, r) \in Nat /\ Rejects(NewOut, r) \in Nat
  <2>1. \A q \in DOMAIN outputs[Len(outputs)].of : 
          outputs[Len(outputs)].of[q].accepted <= outputs[Len(outputs)].of[q].d
    BY <1>1 DEF IInv, OutsMatch, NewOut
  <2>2. Len(outputs) \in 1..Len(outputs)
    BY <1>1 DEF IInv, Shape
  <2> QED
    BY <2>1, <2>2, OutAmountTypes DEF NewOut
<1>7. NewAmount(r) \in Nat
  BY AmountType DEF NewAmount, IInv, Typed, Batch
<1>8. Base(r) \in Nat
  BY RequestTypes DEF Base, IInv
<1>9. /\ NewHolds(r)' = IF HasNew' THEN Holds(NewOut', r) ELSE 0
      /\ NewGives(r)' = IF HasNew' THEN Gives(NewOut', r) ELSE 0
      /\ NewRejects(r)' = IF HasNew' THEN Rejects(NewOut', r) ELSE 0
  BY DEF NewHolds, NewGives, NewRejects, Holds, Gives, Rejects, Counted
<1>10. CASE HasOld
  <2>1. /\ OldHolds(r) = Holds(Took, r) /\ OldGives(r) = Gives(Took, r) /\ OldRejects(r) = Rejects(Took, r)
        /\ NewHolds(r) = Holds(NewOut, r) /\ NewGives(r) = Gives(NewOut, r) /\ NewRejects(r) = Rejects(NewOut, r)
    BY <1>1, <1>10 DEF OldHolds, OldGives, OldRejects, NewHolds, NewGives, NewRejects
  <2>2. /\ NewHolds(r)' = NewHolds(r) /\ NewGives(r)' = NewGives(r) /\ NewRejects(r)' = NewRejects(r)
    BY <1>1, <1>9, <1>10, <2>1
  <2> QED
    BY <1>2, <1>3, <1>4, <1>5, <1>6, <1>7, <1>8, <2>1, <2>2
<1>11. CASE ~HasOld
  <2>1. /\ OldHolds(r) = 0 /\ OldGives(r) = 0 /\ OldRejects(r) = 0
        /\ NewHolds(r) = Holds(Took, r) /\ NewGives(r) = Gives(Took, r) /\ NewRejects(r) = Rejects(Took, r)
    BY <1>1, <1>11 DEF OldHolds, OldGives, OldRejects, NewHolds, NewGives, NewRejects
  <2>2. /\ NewHolds(r)' = 0 /\ NewGives(r)' = 0 /\ NewRejects(r)' = 0
    BY <1>1, <1>9, <1>11
  <2> QED
    BY <1>2, <1>3, <1>4, <1>5, <1>7, <1>8, <2>1, <2>2
<1> QED
  BY <1>10, <1>11

\* A request's accounts before the scheduler takes an output.
LEMMA TakeAccounts ==
  ASSUME IInv, Depth = 2, TakeOutput, NEW r \in Reqs, sched[r].status # "finished"
  PROVE  /\ sched[r].place = Holds(Took, r) + NewHolds(r)'
         /\ sched[r].known + Gives(Took, r) + NewGives(r)' = truth[r].out
         /\ sched[r].status = "running" =>
              sched[r].comp = Base(r) + NewAmount(r) + Rejects(Took, r) + NewRejects(r)'
<1>1. /\ sched[r].place = OldHolds(r) + NewHolds(r) + HostHolds(r)
      /\ sched[r].known + OldGives(r) + NewGives(r) = truth[r].out
  BY DEF IInv, Accounts
<1>2. sched[r].status = "running" =>
        sched[r].comp = Base(r) + OldAmount(r) + NewAmount(r) + OldRejects(r) + NewRejects(r)
  BY DEF IInv, Accounts
<1>3. /\ HostHolds(r) = 0 /\ OldAmount(r) = 0
      /\ OldHolds(r) + NewHolds(r) = Holds(Took, r) + NewHolds(r)'
      /\ OldGives(r) + NewGives(r) = Gives(Took, r) + NewGives(r)'
      /\ OldRejects(r) + NewRejects(r) = Rejects(Took, r) + NewRejects(r)'
      /\ NewHolds(r)' \in Nat /\ NewGives(r)' \in Nat /\ NewRejects(r)' \in Nat
      /\ Holds(Took, r) \in Nat /\ Gives(Took, r) \in Nat /\ Rejects(Took, r) \in Nat
      /\ OldHolds(r) \in Nat /\ OldGives(r) \in Nat /\ OldRejects(r) \in Nat
      /\ NewHolds(r) \in Nat /\ NewGives(r) \in Nat /\ NewRejects(r) \in Nat
      /\ NewAmount(r) \in Nat /\ Base(r) \in Nat
  BY TakeShifts
<1>4. sched[r].known \in Nat
  BY RequestTypes DEF IInv
<1> QED
  BY <1>1, <1>2, <1>3, <1>4

\* A request whose output the scheduler hears: what changes of it, unless it ends.
LEMMA HeardRequest ==
  ASSUME IInv, Depth = 2, TakeOutput, NEW r \in Reqs, Hears(r)
  PROVE  LET s == sched[r]  t == sched'[r] IN
         /\ s.status # "finished" /\ t.status \in {s.status, "finished"}
         /\ t.place = NewHolds(r)' /\ t.place >= 0 /\ t.place < s.place
         /\ t.known <= MaxOut[r] /\ t.known + t.place <= s.known + s.place
         /\ t.spec = s.spec /\ ~t.drop
         /\ t.status # "finished" =>
              /\ t.known + NewGives(r)' = truth[r].out
              /\ s.status # "running" => t.comp = s.comp
              /\ s.status = "running" =>
                   /\ t.comp = Base(r) + NewAmount(r) + NewRejects(r)'
                   /\ Length(t) - t.comp = Length(s) - s.comp
<1> DEFINE s == sched[r]
           t == sched'[r]
           d == Took.of[r].d
           b == Took.of[r].accepted
           held == NewHolds(r)'
           given == NewGives(r)'
           lost == NewRejects(r)'
           m == NewAmount(r)
           most == MaxOut[r]
<1>1. /\ t \in Requests /\ t.status \in {s.status, "finished"}
      /\ t.known = Least(s.known + 1 + b, most) /\ t.place = s.place - (1 + d)
      /\ t.comp = IF s.status = "running" THEN s.comp - (d - b) ELSE s.comp
      /\ t.spec = s.spec /\ t.drop = s.drop
      /\ t.status # "finished" => t.known # most
  BY TakeRequest
<1>2. Counted(Took, r) /\ s.status # "finished"
  BY DEF Hears
<1>3. /\ d \in Nat /\ b \in Nat /\ b <= d
      /\ Holds(Took, r) = 1 + d /\ Gives(Took, r) = 1 + b /\ Rejects(Took, r) = d - b
  BY <1>2, TookTypes
<1>4. /\ s.place = 1 + d + held
      /\ s.known + (1 + b) + given = truth[r].out
      /\ s.status = "running" => s.comp = Base(r) + m + (d - b) + lost
  BY <1>2, <1>3, TakeAccounts
<1>5. held \in Nat /\ given \in Nat /\ lost \in Nat /\ m \in Nat /\ Base(r) \in Nat
  BY TakeShifts
<1>6. s.known \in Nat /\ s.place \in Int /\ s.comp \in Int
  BY RequestTypes DEF IInv
<1>7. most \in Nat /\ Prompt \in Nat
  BY Sizes
<1>8. ~s.drop
  BY DEF IInv, Chances
<1>9. Length(t) = Prompt + t.known + t.place /\ Length(s) = Prompt + s.known + s.place
  BY DEF Length
<1> HIDE DEF s, t, d, b, held, given, lost, m, most
<1>10. t.known \in Nat /\ t.known <= most /\ t.known <= s.known + 1 + b
       /\ (t.known # most => t.known = s.known + 1 + b)
  BY <1>1, <1>3, <1>6, <1>7 DEF Least
<1>11. t.place = held /\ t.place >= 0 /\ t.place < s.place /\ t.known + t.place <= s.known + s.place
  BY <1>1, <1>3, <1>4, <1>5, <1>6, <1>10
<1>12. ASSUME t.status # "finished"
       PROVE  /\ t.known + given = truth[r].out
              /\ s.status # "running" => t.comp = s.comp
              /\ s.status = "running" => t.comp = Base(r) + m + lost /\ Length(t) - t.comp = Length(s) - s.comp
  <2>1. t.known = s.known + 1 + b
    BY <1>1, <1>10, <1>12
  <2>2. t.known + given = truth[r].out
    BY <1>3, <1>4, <1>5, <1>6, <2>1
  <2>3. s.status = "running" => t.comp = Base(r) + m + lost
    BY <1>1, <1>3, <1>4, <1>5, <1>6
  <2>4. s.status = "running" => Length(t) - t.comp = Length(s) - s.comp
    BY <1>1, <1>3, <1>4, <1>5, <1>6, <1>7, <1>9, <1>11, <2>1
  <2> QED
    BY <1>1, <2>2, <2>3, <2>4
<1> QED
  BY <1>1, <1>2, <1>8, <1>10, <1>11, <1>12 DEF s, t, held, given, lost, m, most

LEMMA TakeStep ==
  ASSUME IInv, Depth = 2, TakeOutput
  PROVE  IInv'
<1>1. /\ pc = "idle" /\ pc' = pc /\ plan' = plan /\ req' = req /\ rows' = rows /\ prevRow' = prevRow /\ inputs' = inputs
      /\ queue' = queue /\ gpuRows' = gpuRows /\ sampled' = sampled /\ truth' = truth
      /\ (Preparing' <=> Preparing) /\ ~OldUnsampled /\ ~OldUnsampled' /\ (NewUnsampled' <=> NewUnsampled)
      /\ ~HasOld' /\ queue \in {Q0, QS, QPS}
      /\ HasOld => HasNew /\ HasNew' /\ NewOut' = NewOut /\ Len(outputs') = 1 /\ rows # <<>>
      /\ ~HasOld => ~HasNew' /\ Len(outputs') = 0 /\ queue = Q0 /\ rows = <<>>
  BY TakePipe
<1>2. Shape'
  <2>1. Len(outputs') \in 0..2
    BY <1>1
  <2>2. CASE HasOld
    BY <1>1, <2>1, <2>2, QueuesDiffer DEF IInv, Shape
  <2>3. CASE ~HasOld
    BY <1>1, <2>1, <2>3, QueuesDiffer DEF IInv, Shape
  <2> QED
    BY <2>2, <2>3
<1>3. Typed'
  <2>1. sched' \in [Reqs -> Requests]
    <3>1. \A r \in Reqs : sched'[r] \in Requests
      BY TakeRequest, RequestTypes DEF IInv
    <3>2. sched' = [q \in Reqs |-> sched'[q]] \/ Reqs = {}
      BY TakeRequest
    <3>3. Reqs # {} => sched' \in [Reqs -> Requests]
      BY <3>1, <3>2
    <3>4. Reqs = {} => sched' \in [Reqs -> Requests]
      BY DEF TakeOutput
    <3> QED
      BY <3>3, <3>4
  <2> QED
    BY <2>1, TakePipe DEF IInv, Typed
<1>4. Batch' /\ PrevRows' /\ Incoming' /\ Deferral'
  <2>1. Batch' /\ PrevRows'
    BY <1>1 DEF IInv, Batch, Once, Sound, Same, PrevRows, Prev
  <2>2. Incoming' /\ Deferral'
    BY <1>1 DEF IInv, Incoming, Coming, Fed, Amount, In, Deferral
  <2> QED
    BY <2>1, <2>2
<1>5. OutsMatch'
  BY <1>1 DEF IInv, OutsMatch, OutOf, In
<1>6. Lengths'
  <2>1. HasNew' => HasNew /\ NewOut' = NewOut
    BY <1>1
  <2> QED
    BY <1>1, <2>1 DEF IInv, Lengths
<1>7. ASSUME NEW r \in Reqs
      PROVE  /\ ~Hears(r) => sched'[r] = sched[r]
             /\ Hears(r) => LET s == sched[r]  t == sched'[r] IN
                  /\ s.status # "finished" /\ t.status \in {s.status, "finished"}
                  /\ t.place = NewHolds(r)' /\ t.place >= 0 /\ t.place < s.place
                  /\ t.known <= MaxOut[r] /\ t.known + t.place <= s.known + s.place
                  /\ t.spec = s.spec /\ ~t.drop
                  /\ t.status # "finished" =>
                       /\ t.known + NewGives(r)' = truth[r].out
                       /\ s.status # "running" => t.comp = s.comp
                       /\ s.status = "running" =>
                            /\ t.comp = Base(r) + NewAmount(r) + NewRejects(r)'
                            /\ Length(t) - t.comp = Length(s) - s.comp
  BY TakeRequest, HeardRequest
<1>8. \A r \in Reqs : /\ sched[r].status \in Statuses /\ sched[r].known \in Nat /\ sched[r].place \in Int
                      /\ sched[r].comp \in Int /\ req[r].outs \in Int /\ req[r].draft \in Int
                      /\ sched'[r].known \in Nat /\ sched'[r].place \in Int /\ sched'[r].comp \in Int
  <2> SUFFICES ASSUME NEW r \in Reqs
               PROVE  /\ sched[r].status \in Statuses /\ sched[r].known \in Nat /\ sched[r].place \in Int
                      /\ sched[r].comp \in Int /\ req[r].outs \in Int /\ req[r].draft \in Int
                      /\ sched'[r].known \in Nat /\ sched'[r].place \in Int /\ sched'[r].comp \in Int
    OBVIOUS
  <2>1. sched' \in [Reqs -> Requests]
    BY <1>3 DEF Typed
  <2>2. sched'[r].known \in Nat /\ sched'[r].place \in Int /\ sched'[r].comp \in Int
    BY <2>1 DEF Requests
  <2> QED
    BY <2>2, RequestTypes, Sizes DEF IInv
<1>9. HostAgrees'
  <2>1. ASSUME NEW i \in DOMAIN rows
        PROVE  /\ req[rows[i]].draft = inputs[i].d
               /\ sched'[rows[i]].status = "running" =>
                    sched'[rows[i]].known + sched'[rows[i]].place <= req[rows[i]].outs + req[rows[i]].draft
    <3> DEFINE r == rows[i]
    <3>1. r \in Reqs
      BY ListItem DEF IInv, Typed
    <3>2. /\ req[r].draft = inputs[i].d
          /\ sched[r].status = "running" => sched[r].known + sched[r].place <= req[r].outs + req[r].draft
      BY <1>1 DEF IInv, HostAgrees
    <3>3. /\ sched'[r].status = "running" => sched[r].status = "running"
          /\ sched'[r].known + sched'[r].place <= sched[r].known + sched[r].place
      BY <1>7, <1>8, <3>1
    <3> HIDE DEF r
    <3>4. sched'[r].status = "running" => sched'[r].known + sched'[r].place <= req[r].outs + req[r].draft
      BY <1>8, <3>1, <3>2, <3>3
    <3> QED
      BY <3>2, <3>4 DEF r
  <2> QED
    BY <1>1, <2>1 DEF IInv, HostAgrees
<1>10. Accounts'
  <2> SUFFICES ASSUME NEW r \in Reqs
               PROVE  /\ sched'[r].status # "finished" =>
                           /\ sched'[r].place = OldHolds(r)' + NewHolds(r)' + HostHolds(r)'
                           /\ sched'[r].known + OldGives(r)' + NewGives(r)' = truth'[r].out
                      /\ sched'[r].status = "running" =>
                           sched'[r].comp = Base(r)' + OldAmount(r)' + NewAmount(r)' + OldRejects(r)' + NewRejects(r)'
                      /\ sched'[r].place \in 0..(2 * (1 + NumSpec)) /\ sched'[r].known <= MaxOut[r]
    BY Zenon DEF Accounts
  <2>1. /\ OldHolds(r)' = 0 /\ OldGives(r)' = 0 /\ OldRejects(r)' = 0 /\ HostHolds(r)' = 0
        /\ OldAmount(r)' = 0 /\ NewAmount(r)' = NewAmount(r) /\ Base(r)' = Base(r)
        /\ NewHolds(r)' \in Nat /\ NewGives(r)' \in Nat /\ NewRejects(r)' \in Nat
        /\ NewAmount(r) \in Nat /\ Base(r) \in Nat
    BY TakeShifts
  <2>2. sched[r].place \in 0..(2 * (1 + NumSpec)) /\ sched[r].known <= MaxOut[r]
    BY DEF IInv, Accounts
  <2>3. CASE Hears(r)
    <3>1. sched'[r].place \in 0..(2 * (1 + NumSpec)) /\ sched'[r].known <= MaxOut[r]
      BY <1>7, <1>8, <2>2, <2>3, Sizes
    <3>2. sched'[r].status # "finished" =>
            /\ sched'[r].place = 0 + NewHolds(r)' + 0
            /\ sched'[r].known + 0 + NewGives(r)' = truth[r].out
      BY <1>7, <1>8, <2>1, <2>3
    <3>3. sched'[r].status = "running" =>
            sched'[r].comp = Base(r) + 0 + NewAmount(r) + 0 + NewRejects(r)'
      BY <1>7, <1>8, <2>1, <2>3
    <3> QED
      BY <1>1, <2>1, <3>1, <3>2, <3>3
  <2>4. CASE ~Hears(r)
    <3>1. sched'[r] = sched[r]
      BY <1>7, <2>4
    <3>2. ASSUME sched[r].status # "finished"
          PROVE  /\ sched[r].place = 0 + NewHolds(r)' + 0
                 /\ sched[r].known + 0 + NewGives(r)' = truth[r].out
                 /\ sched[r].status = "running" =>
                      sched[r].comp = Base(r) + 0 + NewAmount(r) + 0 + NewRejects(r)'
      <4>1. Holds(Took, r) = 0 /\ Gives(Took, r) = 0 /\ Rejects(Took, r) = 0
        BY <2>4, <3>2 DEF Hears, Holds, Gives, Rejects
      <4>2. /\ sched[r].place = Holds(Took, r) + NewHolds(r)'
            /\ sched[r].known + Gives(Took, r) + NewGives(r)' = truth[r].out
            /\ sched[r].status = "running" =>
                 sched[r].comp = Base(r) + NewAmount(r) + Rejects(Took, r) + NewRejects(r)'
        BY <3>2, TakeAccounts
      <4> QED
        BY <1>8, <2>1, <4>1, <4>2
    <3> QED
      BY <1>1, <2>1, <2>2, <3>1, <3>2
  <2> QED
    BY <2>3, <2>4
<1>11. Chances'
  <2> SUFFICES ASSUME NEW r \in Reqs
               PROVE  /\ sched'[r].status \in {"new", "preempted"} =>
                           /\ sched'[r].comp = 0 /\ r \notin Members(rows')
                           /\ ~Forced => ~In(inputs, r)'
                      /\ sched'[r].status = "running" =>
                           /\ sched'[r].comp < Length(sched'[r])
                           /\ \A i \in DOMAIN inputs' : inputs'[i].req = r =>
                                /\ ~inputs'[i].discard => Length(sched'[r]) = sched'[r].comp + 1
                                /\ inputs'[i].discard => /\ sched'[r].spec = 0 /\ sched'[r].place = 0
                                                         /\ req'[r].real = Prompt + sched'[r].known
                      /\ ~sched'[r].drop
                      /\ Arriving(r)' /\ sched'[r].status # "finished" =>
                           /\ truth'[r].out = sched'[r].known
                           /\ \A i \in DOMAIN inputs' : inputs'[i].req = r => inputs'[i].known = sched'[r].known
    BY Zenon DEF Chances
  <2>1. (Arriving(r)' <=> Arriving(r)) /\ (In(inputs, r)' <=> In(inputs, r))
    BY TakeShifts
  <2>2. CASE ~Hears(r)
    <3>1. sched'[r] = sched[r]
      BY <1>7, <2>2
    <3> QED
      BY <1>1, <2>1, <3>1 DEF IInv, Chances
  <2>3. CASE Hears(r)
    <3>1. sched[r].status # "finished" /\ sched'[r].status \in {sched[r].status, "finished"}
      BY <1>7, <2>3
    <3>2. sched'[r].status \in {"new", "preempted"} =>
            sched[r].status \in {"new", "preempted"} /\ sched'[r].comp = sched[r].comp
      BY <1>7, <2>3, <3>1
    <3>3. ASSUME sched'[r].status = "running"
          PROVE  /\ sched'[r].comp < Length(sched'[r])
                 /\ \A i \in DOMAIN inputs : inputs[i].req = r =>
                      ~inputs[i].discard /\ Length(sched'[r]) = sched'[r].comp + 1
      <4> DEFINE u == Length(sched[r])
                 v == Length(sched'[r])
      <4>1. sched[r].status = "running" /\ v - sched'[r].comp = u - sched[r].comp
        BY <1>7, <2>3, <3>1, <3>3
      <4>2. u \in Int /\ v \in Int
        BY <1>8, Sizes DEF Length
      <4>3. sched[r].comp < u
        BY <4>1 DEF IInv, Chances
      <4>4. \A i \in DOMAIN inputs : inputs[i].req = r => ~inputs[i].discard /\ u = sched[r].comp + 1
        <5> SUFFICES ASSUME NEW i \in DOMAIN inputs, inputs[i].req = r
                     PROVE  ~inputs[i].discard /\ u = sched[r].comp + 1
          OBVIOUS
        <5>1. sched[r].place # 0
          BY <1>7, <1>8, <2>3
        <5>2. ~inputs[i].discard
          BY <4>1, <5>1 DEF IInv, Chances
        <5> QED
          BY <4>1, <5>2 DEF IInv, Chances
      <4> HIDE DEF u, v
      <4>5. sched'[r].comp < v /\ (u = sched[r].comp + 1 => v = sched'[r].comp + 1)
        BY <1>8, <4>1, <4>2, <4>3
      <4> QED
        BY <4>4, <4>5 DEF v
    <3>4. ~sched'[r].drop
      BY <1>7, <2>3
    <3>5. ~Arriving(r)
      <4> SUFFICES ASSUME Arriving(r)
                   PROVE  FALSE
        OBVIOUS
      <4>1. truth[r].out = sched[r].known
        BY <3>1 DEF IInv, Chances
      <4>2. sched[r].known + Gives(Took, r) + NewGives(r)' = truth[r].out
        BY <3>1, TakeAccounts
      <4>3. Gives(Took, r) = 1 + Took.of[r].accepted /\ Took.of[r].accepted \in Nat
        BY <2>3, TookTypes DEF Hears
      <4>4. NewGives(r)' \in Nat
        BY TakeShifts
      <4> QED
        BY <1>8, <4>1, <4>2, <4>3, <4>4
    <3> QED
      BY <1>1, <2>1, <3>1, <3>2, <3>3, <3>4, <3>5 DEF IInv, Chances
  <2> QED
    BY <2>2, <2>3
<1> QED
  BY <1>2, <1>3, <1>4, <1>5, <1>6, <1>9, <1>10, <1>11 DEF IInv
-----------------------------------------------------------------------------
(* The invariant holds at the start, and with Depth 2 every step keeps it. *)

LEMMA InitIsInvariant == Init => IInv
<1> SUFFICES ASSUME Init
             PROVE  IInv
  OBVIOUS
<1>1. /\ pc = "idle" /\ rows = <<>> /\ inputs = <<>> /\ queue = Q0 /\ gpuRows = <<>>
      /\ sampled = <<>> /\ outputs = <<>>
      /\ sched = [r \in Reqs |-> NewRequest]
      /\ req = [r \in Reqs |-> [comp |-> 0, outs |-> 0, draft |-> 0, real |-> 0]]
      /\ prevRow = [r \in Reqs |-> 0]
      /\ truth = [r \in Reqs |-> [comp |-> 0, out |-> 0]]
  BY DEF Init, Q0
<1>2. Len(outputs) = 0 /\ DOMAIN rows = {} /\ DOMAIN inputs = {} /\ DOMAIN gpuRows = {} /\ Len(rows) = 0
      /\ DOMAIN sampled = {}
  BY <1>1
<1>3. MaxRows \in Nat /\ NumSpec \in Nat /\ Prompt \in Nat \ {0} /\ \A r \in Reqs : MaxOut[r] \in Nat \ {0}
  BY Sizes, FS_CardinalityType DEF MaxRows
<1>4. ~HasOld /\ ~HasNew /\ ~Preparing /\ ~OldUnsampled /\ ~NewUnsampled
  BY <1>1, <1>2, QueuesDiffer DEF HasOld, HasNew, Preparing, OldUnsampled, NewUnsampled
<1>5. Shape
  <2>1. Len(outputs) \in 0..2
    BY <1>2
  <2> QED
    BY <1>1, <1>4, <2>1, QueuesDiffer DEF Shape
<1>6. Typed
  <2>1. NewRequest \in Requests
    BY <1>3 DEF NewRequest, Requests, Statuses
  <2>2. [comp |-> 0, outs |-> 0, draft |-> 0, real |-> 0] \in Cached
    BY <1>3 DEF Cached
  <2> QED
    BY <1>1, <2>1, <2>2 DEF Typed
<1>7. Batch
  BY <1>1, <1>2, <1>3 DEF Batch, Once, Same
<1>8. OutsMatch
  BY <1>4 DEF OutsMatch
<1>9. PrevRows
  BY <1>1, <1>2 DEF PrevRows, Prev
<1>10. Lengths
  BY <1>1, <1>2, <1>4 DEF Lengths
<1>11. Incoming
  BY <1>4 DEF Incoming
<1>12. HostAgrees
  BY <1>1, <1>2 DEF HostAgrees
<1>13. Deferral
  BY <1>1 DEF Deferral
<1>14. ASSUME NEW r \in Reqs
       PROVE  /\ sched[r].status = "new" /\ sched[r].known = 0 /\ sched[r].place = 0
              /\ sched[r].comp = 0 /\ sched[r].drop = FALSE /\ truth[r].out = 0
  BY <1>1 DEF NewRequest
<1>15. Accounts
  <2> SUFFICES ASSUME NEW r \in Reqs
               PROVE  /\ sched[r].status # "running"
                      /\ sched[r].place = OldHolds(r) + NewHolds(r) + HostHolds(r)
                      /\ sched[r].known + OldGives(r) + NewGives(r) = truth[r].out
                      /\ sched[r].place \in 0..(2 * (1 + NumSpec)) /\ sched[r].known <= MaxOut[r]
    BY Zenon DEF Accounts
  <2>1. OldHolds(r) = 0 /\ NewHolds(r) = 0 /\ HostHolds(r) = 0 /\ OldGives(r) = 0 /\ NewGives(r) = 0
    BY <1>1, <1>4 DEF OldHolds, NewHolds, HostHolds, OldGives, NewGives
  <2>2. 0 \in 0..(2 * (1 + NumSpec)) /\ 0 <= MaxOut[r]
    BY <1>3
  <2>3. sched[r].status # "running"
    BY <1>14
  <2>4. sched[r].place = 0 /\ sched[r].known = 0 /\ truth[r].out = 0
    BY <1>14
  <2>5. sched[r].place \in 0..(2 * (1 + NumSpec)) /\ sched[r].known <= MaxOut[r]
    BY <2>2, <2>4
  <2>6. 0 = 0 + 0 + 0
    OBVIOUS
  <2> QED
    BY <2>1, <2>3, <2>4, <2>5, <2>6
<1>16. Chances
  <2>1. \A r \in Reqs : r \notin Members(rows) /\ ~In(inputs, r) /\ ~Arriving(r)
    BY <1>2, <1>4 DEF Members, In, Arriving
  <2> QED
    BY <1>14, <2>1 DEF Chances
<1> QED
  BY <1>5, <1>6, <1>7, <1>8, <1>9, <1>10, <1>11, <1>12, <1>13, <1>15, <1>16 DEF IInv

LEMMA StutterKeeps ==
  ASSUME IInv, UNCHANGED vars
  PROVE  IInv'
<1>1. /\ sched' = sched /\ plan' = plan /\ pc' = pc /\ req' = req /\ rows' = rows /\ prevRow' = prevRow
      /\ inputs' = inputs /\ queue' = queue /\ gpuRows' = gpuRows /\ sampled' = sampled
      /\ outputs' = outputs /\ truth' = truth
  BY DEF vars
<1>2. (HasOld' <=> HasOld) /\ (HasNew' <=> HasNew) /\ OldOut' = OldOut /\ NewOut' = NewOut
      /\ (Preparing' <=> Preparing) /\ (OldUnsampled' <=> OldUnsampled)
      /\ (NewUnsampled' <=> NewUnsampled)
  BY <1>1 DEF HasOld, HasNew, OldOut, NewOut, Preparing, OldUnsampled, NewUnsampled
<1>3. Shape' /\ Typed' /\ Batch'
  BY <1>1, <1>2 DEF IInv, Shape, Typed, Batch, Same
<1>4. OutsMatch' /\ PrevRows' /\ Lengths'
  BY <1>1, <1>2 DEF IInv, OutsMatch, OutOf, PrevRows, Prev, Lengths
<1>5. Incoming' /\ HostAgrees' /\ Deferral'
  BY <1>1, <1>2 DEF IInv, Incoming, Coming, HostAgrees, Deferral
<1>6. Accounts'
  BY <1>1, <1>2 DEF IInv, Accounts, OldHolds, OldGives, OldRejects, NewHolds, NewGives, NewRejects,
                    HostHolds, Base, Arriving, OldAmount, NewAmount
<1>7. Chances'
  BY <1>1, <1>2 DEF IInv, Chances, Arriving
<1> QED
  BY <1>3, <1>4, <1>5, <1>6, <1>7 DEF IInv

\* A row of the step before is a row of the batch: there are no more of them than requests.
RowBound == \A r \in Reqs : prevRow[r] \in 0..MaxRows

LEMMA StepKeeps ==
  ASSUME IInv, RowBound, Depth = 2, [Next]_vars
  PROVE  IInv' /\ RowBound'
<1>1. IInv'
  BY ExecuteStep, CorrectStep, TokensStep, PrepareStep, SampleStep, TakeStep, StutterKeeps
     DEF Next, Host, Gpu
<1>2. ASSUME SampleTokens
      PROVE  RowBound'
  <2> SUFFICES ASSUME NEW r \in Reqs
               PROVE  prevRow'[r] \in 0..MaxRows
    BY DEF RowBound
  <2>1. prevRow'[r] = IF \E i \in SampledRows : rows[i] = r
                      THEN CHOOSE i \in SampledRows : rows[i] = r ELSE 0
    BY <1>2 DEF SampleTokens
  <2>2. DOMAIN rows = 1..Len(rows) /\ Len(rows) <= MaxRows /\ Len(rows) \in Nat
    BY LenProperties DEF IInv, Batch, Typed
  <2>3. MaxRows \in Nat
    BY Sizes, FS_CardinalityType DEF MaxRows
  <2>4. SampledRows \subseteq 0..MaxRows
    BY <2>2, <2>3 DEF SampledRows
  <2>5. 0 \in 0..MaxRows
    BY <2>3
  <2> QED
    BY <2>1, <2>4, <2>5, Zenon
<1>3. ASSUME prevRow' = prevRow
      PROVE  RowBound'
  BY <1>3 DEF RowBound
<1>4. SampleTokens \/ prevRow' = prevRow
  BY Zenon DEF Next, Host, Gpu, Execute, ExecuteModel, ExecuteNothing, Correct, Prepare, Sample, TakeOutput, vars
<1> QED
  BY <1>1, <1>2, <1>3, <1>4

\* The inductive invariant: what is under way accounts for every difference between what the
\* scheduler, the host and the device know, through execute_model, sample_tokens and get_output.
THEOREM AsyncInvariant ==
  ASSUME Depth = 2
  PROVE  Spec => [](IInv /\ RowBound)
<1>1. Init => IInv /\ RowBound
  <2>1. MaxRows \in Nat
    BY Sizes, FS_CardinalityType DEF MaxRows
  <2>2. Init => RowBound
    BY <2>1 DEF Init, RowBound
  <2> QED
    BY <2>2, InitIsInvariant
<1>2. IInv /\ RowBound /\ [Next]_vars => (IInv /\ RowBound)'
  BY StepKeeps
<1> QED
  BY <1>1, <1>2, PTL DEF Spec
-----------------------------------------------------------------------------
(* What the invariant says of the properties. *)

\* Every reachable state is well typed: no request has more placeholders than two steps give
\* it, no more outputs than it may have, and two outputs at most wait to be taken.
THEOREM AsyncTypes ==
  ASSUME Depth = 2
  PROVE  Spec => []TypeOK
<1>1. IInv /\ RowBound => TypeOK
  <2> SUFFICES ASSUME IInv, RowBound
               PROVE  TypeOK
    OBVIOUS
  <2>1. pc \in {"idle", "launched", "computed"} /\ Len(outputs) <= Depth
    <3>1. pc \in {"idle", "launched", "computed"} /\ Len(outputs) \in 0..2
      BY Zenon DEF IInv, Shape
    <3> DEFINE n == Len(outputs)
    <3>2. n \in 0..2
      BY <3>1
    <3> HIDE DEF n
    <3>3. n <= Depth
      BY <3>2
    <3> QED
      BY <3>1, <3>3 DEF n
  <2>2. ASSUME NEW r \in Reqs
        PROVE  /\ sched[r].status \in {"new", "running", "preempted", "finished"}
               /\ sched[r].known \in 0..MaxOut[r] /\ sched[r].place \in 0..(Depth * (1 + NumSpec))
               /\ req[r].comp \in Nat /\ req[r].outs \in Nat /\ req[r].draft \in 0..NumSpec
               /\ prevRow[r] \in 0..MaxRows
    <3>1. sched[r] \in Requests /\ req[r] \in Cached
      BY DEF IInv, Typed
    <3>2. sched[r].place \in 0..(2 * (1 + NumSpec)) /\ sched[r].known <= MaxOut[r]
      BY DEF IInv, Accounts
    <3>3. MaxOut[r] \in Nat
      BY Sizes
    <3>4. sched[r].known \in 0..MaxOut[r] /\ sched[r].status \in Statuses
      BY <3>1, <3>2, <3>3 DEF Requests
    <3>5. req[r].comp \in Nat /\ req[r].outs \in Nat /\ req[r].draft \in 0..NumSpec
      BY <3>1 DEF Cached, IInv, HostAgrees
    <3> QED
      BY <3>2, <3>4, <3>5 DEF Statuses, RowBound
  <2>3. Members(rows) \subseteq Reqs /\ Len(rows) <= MaxRows
    <3>1. rows \in Seq(Reqs)
      BY DEF IInv, Typed
    <3>2. \A i \in DOMAIN rows : rows[i] \in Reqs
      BY <3>1, ListItem
    <3> QED
      BY <3>2 DEF Members, IInv, Batch
  <2>4. Members(queue) \subseteq {"prepare", "sample"} /\ Len(queue) <= 2 * Depth
    <3>1. queue \in {Q0, QP, QS, QPS, QSP, QSPS}
      BY DEF IInv, Shape
    <3> DEFINE Words == {"prepare", "sample"}
    <3>2. Q0 \in Seq(Words) /\ QP \in Seq(Words) /\ QS \in Seq(Words) /\ QPS \in Seq(Words)
          /\ QSP \in Seq(Words) /\ QSPS \in Seq(Words)
      BY DEF Q0, QP, QS, QPS, QSP, QSPS
    <3>3. Len(Q0) = 0 /\ Len(QP) = 1 /\ Len(QS) = 1 /\ Len(QPS) = 2 /\ Len(QSP) = 2 /\ Len(QSPS) = 3
      BY DEF Q0, QP, QS, QPS, QSP, QSPS
    <3>4. queue \in Seq(Words)
      BY <3>1, <3>2, Zenon
    <3>5. Len(queue) \in 0..3
      BY <3>1, <3>3
    <3>6. \A i \in DOMAIN queue : queue[i] \in Words
      BY <3>4, ListItem
    <3>7. Members(queue) \subseteq Words
      BY <3>6, Zenon DEF Members
    <3> DEFINE n == Len(queue)
    <3>8. n \in 0..3
      BY <3>5
    <3> HIDE DEF n
    <3>9. n <= 2 * Depth
      BY <3>8
    <3> QED
      BY <3>7, <3>9 DEF n
  <2> QED
    BY <2>1, <2>2, <2>3, <2>4 DEF TypeOK
<1> QED
  BY <1>1, AsyncInvariant, PTL

\* After the deferred correction of execute_model the host's length of a request is what the
\* device has computed; a step's placeholders and discards are the scheduler's; and with nothing
\* in flight the scheduler knows every sampled token and no other.
THEOREM AsyncLengthsExact ==
  ASSUME Depth = 2
  PROVE  Spec => []LengthsExact
<1>1. IInv => LengthsExact
  <2> SUFFICES ASSUME IInv
               PROVE  LengthsExact
    OBVIOUS
  <2>1. CorrectionExact
    <3> SUFFICES ASSUME pc = "computed", NEW r \in DOMAIN plan.deferred, prevRow[r] # 0
                 PROVE  req[r].comp = truth[r].comp
      BY DEF CorrectionExact
    <3>1. r \in Reqs
      <4>1. DOMAIN plan.deferred \subseteq Members(rows) /\ rows \in Seq(Reqs)
        BY DEF IInv, HostAgrees, Typed
      <4> QED
        BY <4>1, ListItem DEF Members
    <3> QED
      BY <3>1 DEF IInv, Deferral
  <2>2. PlaceholdersExact
    BY DEF IInv, HostAgrees, PlaceholdersExact
  <2>3. AllDelivered
    <3> SUFFICES ASSUME outputs = <<>>, pc = "idle", NEW r \in Reqs,
                        sched[r].status \in {"running", "preempted"}
                 PROVE  sched[r].known = truth[r].out /\ sched[r].place = 0
      BY DEF AllDelivered
    <3>1. ~HasOld /\ ~HasNew
      BY DEF HasOld, HasNew
    <3>2. OldHolds(r) = 0 /\ NewHolds(r) = 0 /\ HostHolds(r) = 0 /\ OldGives(r) = 0 /\ NewGives(r) = 0
      BY <3>1 DEF OldHolds, NewHolds, HostHolds, OldGives, NewGives
    <3>3. /\ sched[r].place = OldHolds(r) + NewHolds(r) + HostHolds(r)
          /\ sched[r].known + OldGives(r) + NewGives(r) = truth[r].out
      BY DEF IInv, Accounts
    <3>4. sched[r].known \in Nat /\ truth[r].out \in Nat
      BY DEF IInv, Typed, Requests
    <3>5. sched[r].known + 0 + 0 = sched[r].known /\ 0 + 0 + 0 = 0
      BY <3>4
    <3> QED
      BY <3>2, <3>3, <3>5
  <2> QED
    BY <2>1, <2>2, <2>3 DEF LengthsExact
<1> QED
  BY <1>1, AsyncInvariant, PTL

\* A row's first token is the host's, or follows what its own request sampled in the step before.
LEMMA RowTrue ==
  ASSUME IInv, Depth = 2, ~Forced, queue \in {QP, QPS}, NEW i \in DOMAIN inputs
  PROVE  RowIsTrue(inputs[i])
<1> DEFINE x == inputs[i]
<1>1. x.req \in Reqs /\ x.n \in Nat /\ x.d \in 0..NumSpec /\ x.at \in Int /\ x.pinned \in Int /\ x.real \in Nat
      /\ x.prev \in Nat /\ x.fresh \in BOOLEAN
  BY InputTypes DEF IInv
<1>2. Preparing /\ ~OldUnsampled
  BY QueuesDiffer DEF Preparing, OldUnsampled
<1>3. Coming(x) /\ Fed(x) /\ (x.fresh => x.prev = 0)
  BY <1>2 DEF IInv, Incoming
<1>4. Start(x) = Base(x.req) /\ Start(x) \in Nat
  BY StartIsTruth
<1>5. Start(x) = IF x.fresh THEN x.pinned ELSE truth[x.req].comp
  <2>1. CASE x.fresh
    <3>1. Arriving(x.req)
      BY <1>2, <2>1 DEF Arriving
    <3> QED
      BY <1>3, <1>4, <2>1, <3>1 DEF Base, Coming
  <2>2. CASE ~x.fresh
    <3>1. ~Arriving(x.req)
      BY <2>2 DEF Arriving, IInv, Batch, Once
    <3> QED
      BY <1>4, <2>2, <3>1 DEF Base
  <2> QED
    BY <2>1, <2>2
<1> DEFINE start == Start(x)
           own == x.prev # 0 /\ sampled[x.prev].req = x.req
<1>6. ASSUME x.prev = 0, NEW q \in 0..(x.n - 1)
      PROVE  TokenSource(x, q) = "host" /\ x.at + q = start + q /\ start + q < x.real
  <2>1. TokenSource(x, q) = "host"
    BY <1>6 DEF TokenSource
  <2>2. start = x.at
    BY <1>3, <1>6 DEF Start, Fed
  <2>3. x.at + x.n <= x.real
    BY <1>3, <1>6 DEF Fed
  <2> HIDE DEF x, start
  <2> QED
    BY <1>1, <2>1, <2>2, <2>3
<1>7. ASSUME x.prev # 0, NEW q \in 0..(x.n - 1)
      PROVE  /\ own /\ TokenSource(x, q) # "host"
             /\ TokenSource(x, q) = "sampled" => sampled[x.prev].pos = start + q
  <2>1. x.n = 1 + x.d /\ ~x.fresh
    BY <1>3, <1>7 DEF Fed
  <2>2. x.prev \in DOMAIN gpuRows /\ gpuRows[x.prev].req = x.req
    BY <1>3, <1>7 DEF Coming
  <2>3. IF pc = "idle" THEN queue \in {Q0, QPS} ELSE queue = QP
    BY QueuesDiffer DEF IInv, Shape
  <2>4. sampled[x.prev].req = x.req /\ sampled[x.prev].pos = truth[x.req].comp
    BY <2>2, <2>3 DEF IInv, Lengths
  <2>5. start = truth[x.req].comp
    BY <1>5, <2>1
  <2>6. TokenSource(x, q) = IF q = 0 THEN "sampled" ELSE "drafted"
    <3> HIDE DEF x
    <3>1. ~(q < x.n - 1 - x.d) /\ x.n - 1 - x.d = 0
      BY <1>1, <2>1
    <3> QED
      BY <1>7, <3>1 DEF TokenSource
  <2>7. TokenSource(x, q) = "sampled" => q = 0
    BY <2>6
  <2>8. start + 0 = start
    BY <1>4
  <2>9. TokenSource(x, q) # "host"
    BY <2>6
  <2> QED
    BY <1>7, <2>4, <2>5, <2>7, <2>8, <2>9
<1>8. \A q \in 0..(x.n - 1) :
        CASE TokenSource(x, q) = "host" -> x.at + q = start + q /\ start + q < x.real
          [] TokenSource(x, q) = "sampled" -> own /\ sampled[x.prev].pos = start + q
          [] OTHER -> own
  <2> SUFFICES ASSUME NEW q \in 0..(x.n - 1)
               PROVE  CASE TokenSource(x, q) = "host" -> x.at + q = start + q /\ start + q < x.real
                        [] TokenSource(x, q) = "sampled" -> own /\ sampled[x.prev].pos = start + q
                        [] OTHER -> own
    OBVIOUS
  <2> HIDE DEF x, start, own
  <2>1. CASE x.prev = 0
    BY <1>6, <2>1
  <2>2. CASE x.prev # 0
    BY <1>7, <2>2
  <2> QED
    BY <2>1, <2>2
<1> QED
  BY <1>5, <1>8 DEF RowIsTrue

\* When the device comes to a step that _prepare_inputs prepared ahead of it, each row starts
\* where the device's own computation of that request stopped, and each of its tokens is the
\* host's or was sampled or drafted for that request: however the rows have moved since, and
\* whatever was rejected.  (A request preempted and resumed with no step between is left out.)
THEOREM AsyncRowsTrue ==
  ASSUME Depth = 2, ~Forced
  PROVE  Spec => [](queue # <<>> /\ Head(queue) = "prepare" => RowsTrue)
<1>1. IInv => (queue # <<>> /\ Head(queue) = "prepare" => RowsTrue)
  <2> SUFFICES ASSUME IInv, queue # <<>>, Head(queue) = "prepare"
               PROVE  RowsTrue
    OBVIOUS
  <2>1. queue \in {Q0, QP, QS, QPS, QSP, QSPS}
    BY DEF IInv, Shape
  <2>2. "prepare" # "sample"
    OBVIOUS
  <2>3. queue \in {QP, QPS}
    BY <2>1, <2>2, QueueMoves, QueueMembers, ZenonT(30)
  <2> QED
    BY <2>3, RowTrue DEF RowsTrue
<1> QED
  BY <1>1, AsyncInvariant, PTL
=============================================================================
