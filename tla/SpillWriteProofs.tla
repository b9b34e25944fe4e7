-------------------------- MODULE SpillWriteProofs --------------------------
(* Theorems about SpillWrite, for every value of its constants. *)
EXTENDS SpillWrite, FiniteSetTheorems, SequenceTheorems, TLAPS

-----------------------------------------------------------------------------
(* The helpers return stores, and only removals take points out *)

\* s is a store and its index lists what r's does.
Keeps(s, r) == s \in Store /\ s.points = r.points

LEMMA NamesType ==
    ASSUME NEW k \in Keys
    PROVE  /\ BlocksOf[k] \in Seq(Names) /\ BlocksOf[k] # << >>
           /\ Blocks(k) \subseteq Names
           /\ Last(BlocksOf[k]) \in Names
           /\ TailBlock(k) \subseteq Names
BY ConstantsAssumption DEF Blocks, Range, Last, TailBlock

LEMMA UnlinkType ==
    ASSUME NEW K \in SUBSET Keys, NEW S \in SUBSET Names
    PROVE  [kind |-> "unlink", keys |-> K, names |-> S] \in Task
BY DEF Task, UnlinkTask

LEMMA BlockTaskType ==
    ASSUME NEW j \in Jobs, NEW n \in Names, NEW w \in WriteSlots
    PROVE  [kind |-> "block", job |-> j, name |-> n, slot |-> w] \in Task
BY DEF Task, BlockTask

LEMMA PointTaskType ==
    ASSUME NEW j \in Jobs
    PROVE  [kind |-> "point", job |-> j] \in Task
BY DEF Task, PointTask

LEMMA SharedTaskType ==
    ASSUME NEW k \in Keys
    PROVE  [kind |-> "shared", key |-> k] \in Task
BY DEF Task, SharedTask

LEMMA StoreFields ==
    ASSUME NEW s \in Store
    PROVE  /\ s.points \in SUBSET Keys /\ s.shared \in SUBSET Keys
           /\ s.have \in SUBSET Names /\ s.refs \in [Names -> Nat]
           /\ s.inflight \in [Names -> Jobs \cup {NoJob}]
           /\ s.jobs \in [Jobs -> Job] /\ s.tasks \in Seq(Task)
           /\ s.free \in SUBSET WriteSlots /\ s.stored \in Int /\ s.queued \in Int
BY DEF Store

LEMMA JobFields ==
    ASSUME NEW r \in Job
    PROVE  /\ r.key \in Keys /\ r.left \in SUBSET Names /\ r.out \in SUBSET Names
           /\ r.tailSlot \in WriteSlots \cup {NoSlot} /\ r.parked \in BOOLEAN
           /\ r.size \in Nat
BY DEF Job

LEMMA SubsetCardinality ==
    /\ \A T \in SUBSET Names : IsFiniteSet(T) /\ Cardinality(T) \in Nat
    /\ \A T \in SUBSET Keys : IsFiniteSet(T) /\ Cardinality(T) \in Nat
BY FS_Subset, FS_CardinalityType, ConstantsAssumption

LEMMA AppendType ==
    ASSUME NEW s \in Store, NEW t \in Task
    PROVE  Append(s.tasks, t) \in Seq(Task)
BY StoreFields

LEMMA QueueType ==
    ASSUME NEW s \in Store, NEW t \in Task
    PROVE  Keeps(Queue(s, t), s)
<1>1. Append(s.tasks, t) \in Seq(Task)
  BY AppendType
<1> QED
  BY <1>1 DEF Queue, Store, Keeps

LEMMA RefType ==
    ASSUME NEW s \in Store, NEW S
    PROVE  Keeps(Ref(s, S), s) /\ Keeps(Unref(s, S), s)
<1> DEFINE up == [n \in Names |-> IF n \in S THEN s.refs[n] + 1 ELSE s.refs[n]]
           down == [n \in Names |->
                      IF n \in S /\ s.refs[n] > 0 THEN s.refs[n] - 1 ELSE s.refs[n]]
<1>1. up \in [Names -> Nat] /\ down \in [Names -> Nat]
  BY StoreFields
<1> HIDE DEF up, down
<1>2. Keeps([s EXCEPT !.refs = up], s) /\ Keeps([s EXCEPT !.refs = down], s)
  BY <1>1 DEF Store, Keeps
<1> QED
  BY <1>2 DEF Ref, Unref, up, down

LEMMA DropBlocksType ==
    ASSUME NEW s \in Store, NEW S
    PROVE  Keeps(DropBlocks(s, S), s)
<1> DEFINE gone == S \cap s.have
           have == s.have \ gone
           stored == s.stored - Cardinality(gone)
           tasks == Append(s.tasks, [kind |-> "unlink", keys |-> {}, names |-> gone])
           s1 == [s EXCEPT !.have = have, !.stored = stored, !.tasks = tasks]
<1>1. gone \in SUBSET Names /\ have \in SUBSET Names
  BY StoreFields
<1>2. stored \in Int
  <2>1. Cardinality(gone) \in Nat
    BY <1>1, SubsetCardinality
  <2> QED
    BY <2>1, StoreFields
<1>3. tasks \in Seq(Task)
  <2>1. [kind |-> "unlink", keys |-> {}, names |-> gone] \in Task
    BY <1>1, UnlinkType
  <2> QED
    BY <2>1, AppendType
<1>4. DropBlocks(s, S) = IF gone = {} THEN s ELSE s1
  BY DEF DropBlocks
<1>5. Keeps(s1, s)
  <2> HIDE DEF have, stored, tasks
  <2> QED
    BY <1>1, <1>2, <1>3 DEF Store, Keeps
<1> QED
  BY <1>4, <1>5 DEF Keeps

LEMMA GcType ==
    ASSUME NEW s \in Store, NEW S
    PROVE  Keeps(Gc(s, S), s)
BY DropBlocksType DEF Gc

LEMMA RemovePointsType ==
    ASSUME NEW s \in Store, NEW V
    PROVE  /\ RemovePoints(s, V) \in Store
           /\ RemovePoints(s, V).points = s.points \ V
<1> DEFINE gone == V \cap s.points
           named(n) == Cardinality({k \in gone : n \in Blocks(k)})
           refs == [n \in Names |-> IF named(n) < s.refs[n] THEN s.refs[n] - named(n) ELSE 0]
           tasks == Append(s.tasks, [kind |-> "unlink", keys |-> gone, names |-> {}])
           stored == s.stored - FileBytes * Cardinality(gone)
           points == s.points \ gone
           shared == s.shared \ gone
           s1 == [s EXCEPT !.points = points, !.shared = shared, !.refs = refs,
                           !.stored = stored, !.tasks = tasks]
<1>1. gone \in SUBSET Keys /\ points \in SUBSET Keys /\ shared \in SUBSET Keys
  BY StoreFields
<1>2. stored \in Int
  <2>1. Cardinality(gone) \in Nat
    BY <1>1, SubsetCardinality
  <2> QED
    BY <2>1, StoreFields, ConstantsAssumption
<1>3. \A n \in Names : named(n) \in Nat
  <2> SUFFICES ASSUME NEW n \in Names PROVE {k \in gone : n \in Blocks(k)} \in SUBSET Keys
    BY SubsetCardinality
  <2> QED
    BY <1>1
<1>4. refs \in [Names -> Nat]
  BY <1>3, StoreFields
<1>5. tasks \in Seq(Task)
  <2>1. [kind |-> "unlink", keys |-> gone, names |-> {}] \in Task
    BY <1>1, UnlinkType
  <2> QED
    BY <2>1, AppendType
<1>6. s1 \in Store /\ s1.points = points
  <2> HIDE DEF named, refs, tasks, stored, points, shared
  <2> QED
    BY <1>1, <1>2, <1>4, <1>5 DEF Store
<1>7. RemovePoints(s, V) = IF gone = {} THEN s ELSE Gc(s1, UNION {Blocks(k) : k \in gone})
  BY DEF RemovePoints
<1> HIDE DEF s1
<1>8. Keeps(Gc(s1, UNION {Blocks(k) : k \in gone}), s1)
  BY <1>6, GcType
<1> QED
  BY <1>6, <1>7, <1>8 DEF Keeps

LEMMA AddBlockType ==
    ASSUME NEW s \in Store, NEW n \in Names
    PROVE  Keeps(AddBlock(s, n), s)
<1> DEFINE have == s.have \cup {n}
           stored == IF n \in s.have THEN s.stored ELSE s.stored + 1
<1>1. have \in SUBSET Names /\ stored \in Int
  BY StoreFields
<1>2. AddBlock(s, n) = [s EXCEPT !.have = have, !.stored = stored]
  BY DEF AddBlock
<1> HIDE DEF have, stored
<1> QED
  BY <1>1, <1>2 DEF Store, Keeps

LEMMA GiveSlotType ==
    ASSUME NEW s \in Store, NEW w \in WriteSlots \cup {NoSlot}
    PROVE  Keeps(GiveSlot(s, w), s)
BY DEF GiveSlot, Store, Keeps

LEMMA SetToSeqType ==
    ASSUME NEW S, IsFiniteSet(S)
    PROVE  SetToSeq(S) \in [1 .. Cardinality(S) -> S] /\ Cardinality(S) \in Nat
<1>1. Cardinality(S) \in Nat /\ ExistsBijection(1 .. Cardinality(S), S)
  BY FS_CardinalityType
<1>2. \E f \in [1 .. Cardinality(S) -> S] : IsInjective(f)
  BY <1>1 DEF ExistsBijection, Bijection, Injection, IsInjective
<1> QED
  BY <1>1, <1>2 DEF SetToSeq

LEMMA FunctionIsSeq ==
    ASSUME NEW S, NEW n \in Nat, NEW f \in [1 .. n -> S]
    PROVE  f \in Seq(S)
<1>1. Seq(S) = UNION {[1 .. m -> S] : m \in Nat}
  BY SeqDef
<1> QED
  BY <1>1

LEMMA JobsFinite == IsFiniteSet(Jobs)
BY FS_Interval, ConstantsAssumption DEF Jobs

LEMMA RecheckParkedType ==
    ASSUME NEW s \in Store
    PROVE  Keeps(RecheckParked(s), s)
<1> DEFINE ready == {j \in Jobs : s.jobs[j].parked /\ BlocksSettled(s, j)}
           order == SetToSeq(ready)
           jobs == [j \in Jobs |-> IF j \in ready THEN [s.jobs[j] EXCEPT !.parked = FALSE]
                                   ELSE s.jobs[j]]
           more == [i \in DOMAIN order |-> [kind |-> "point", job |-> order[i]]]
           tasks == s.tasks \o more
<1>1. jobs \in [Jobs -> Job]
  <2> SUFFICES ASSUME NEW j \in Jobs
               PROVE  [s.jobs[j] EXCEPT !.parked = FALSE] \in Job /\ s.jobs[j] \in Job
    OBVIOUS
  <2>1. s.jobs[j] \in Job
    BY StoreFields
  <2> QED
    BY <2>1 DEF Job
<1>2. tasks \in Seq(Task)
  <2>1. order \in [1 .. Cardinality(ready) -> ready] /\ Cardinality(ready) \in Nat
    <3>1. IsFiniteSet(ready)
      BY JobsFinite, FS_Subset
    <3> QED
      BY <3>1, SetToSeqType
  <2>2. more \in [1 .. Cardinality(ready) -> Task]
    BY <2>1, PointTaskType
  <2>3. more \in Seq(Task)
    <3> HIDE DEF more, ready, order
    <3> QED
      BY <2>1, <2>2, FunctionIsSeq
  <2> QED
    BY <2>3, StoreFields
<1>3. RecheckParked(s) = [s EXCEPT !.jobs = jobs, !.tasks = tasks]
  BY DEF RecheckParked
<1> HIDE DEF jobs, tasks
<1> QED
  BY <1>1, <1>2, <1>3 DEF Store, Keeps

\* One job's record changes.
LEMMA JobUpdateType ==
    ASSUME NEW s \in Store, NEW j \in Jobs, NEW r \in Job
    PROVE  Keeps([s EXCEPT !.jobs[j] = r], s)
<1>1. [s.jobs EXCEPT ![j] = r] \in [Jobs -> Job]
  BY StoreFields
<1> QED
  BY <1>1 DEF Store, Keeps

LEMMA DropInflightType ==
    ASSUME NEW s \in Store, NEW j \in Jobs, NEW n \in Names
    PROVE  Keeps(DropInflight(s, j, n), s)
<1> DEFINE inflight == [s.inflight EXCEPT ![n] = NoJob]
           s1 == [s EXCEPT !.inflight = inflight]
<1>1. inflight \in [Names -> Jobs \cup {NoJob}]
  BY StoreFields
<1>2. Keeps(s1, s)
  <2> HIDE DEF inflight
  <2> QED
    BY <1>1 DEF Store, Keeps
<1>3. DropInflight(s, j, n) = IF s.inflight[n] = j THEN RecheckParked(s1) ELSE s
  BY DEF DropInflight
<1> HIDE DEF s1
<1> QED
  BY <1>2, <1>3, RecheckParkedType DEF Keeps

LEMMA GiveBackType ==
    ASSUME NEW s \in Store, NEW j \in Jobs, NEW n \in Names, NEW w \in WriteSlots
    PROVE  Keeps(GiveBack(s, j, n, w), s)
<1> DEFINE s1 == GiveSlot(s, w)
           r == [s1.jobs[j] EXCEPT !.out = @ \ {n}]
<1>1. Keeps(s1, s)
  BY GiveSlotType
<1>2. s1.jobs[j] \in Job
  BY <1>1, StoreFields DEF Keeps
<1>3. r \in Job
  BY <1>2 DEF Job
<1>4. GiveBack(s, j, n, w) = [s1 EXCEPT !.jobs[j] = r]
  BY DEF GiveBack
<1> HIDE DEF s1, r
<1> QED
  BY <1>1, <1>3, <1>4, JobUpdateType DEF Keeps

LEMMA EndJobType ==
    ASSUME NEW s \in Store, NEW j \in Jobs, NEW published \in BOOLEAN
    PROVE  Keeps(EndJob(s, j, published), s)
<1> DEFINE k == s.jobs[j].key
           s1 == GiveSlot(s, s.jobs[j].tailSlot)
           inflight == [n \in Names |-> IF s1.inflight[n] = j THEN NoJob ELSE s1.inflight[n]]
           queued == s1.queued - s.jobs[j].size
           shared == IF published THEN s1.shared ELSE s1.shared \ {k}
           r == [NoWrite EXCEPT !.state = "ended"]
           jobs == [s1.jobs EXCEPT ![j] = r]
           s2 == [s1 EXCEPT !.inflight = inflight, !.queued = queued,
                            !.shared = shared, !.jobs = jobs]
           s3 == Unref(s2, Blocks(k))
           s4 == Gc(s3, Blocks(k))
<1>1. s.jobs[j] \in Job
  BY StoreFields
<1>2. Keeps(s1, s)
  BY <1>1, JobFields, GiveSlotType
<1>3. s1 \in Store
  BY <1>2 DEF Keeps
<1>4. inflight \in [Names -> Jobs \cup {NoJob}] /\ shared \in SUBSET Keys
  BY <1>3, StoreFields
<1>5. queued \in Int
  BY <1>1, <1>3, StoreFields, JobFields
<1>6. jobs \in [Jobs -> Job]
  <2>1. r \in Job
    BY ConstantsAssumption DEF NoWrite, Job, LiveStates
  <2> QED
    BY <2>1, <1>3, StoreFields
<1>7. Keeps(s2, s)
  <2> HIDE DEF s1, inflight, queued, shared, jobs
  <2> QED
    BY <1>2, <1>3, <1>4, <1>5, <1>6 DEF Store, Keeps
<1>8. EndJob(s, j, published) = RecheckParked(s4)
  BY DEF EndJob
<1> HIDE DEF s2
<1>9. Keeps(s3, s)
  BY <1>7, RefType DEF Keeps
<1> HIDE DEF s3
<1>10. Keeps(s4, s)
  BY <1>9, GcType DEF Keeps
<1> HIDE DEF s4
<1> QED
  BY <1>8, <1>10, RecheckParkedType DEF Keeps

LEMMA StateUpdateType ==
    ASSUME NEW s \in Store, NEW j \in Jobs, NEW state \in LiveStates
    PROVE  Keeps([s EXCEPT !.jobs[j].state = state], s)
<1> DEFINE r == [s.jobs[j] EXCEPT !.state = state]
<1>0. s.jobs[j] \in Job
  BY StoreFields
<1>1. r \in Job
  BY <1>0 DEF Job
<1>2. [s EXCEPT !.jobs[j].state = state] = [s EXCEPT !.jobs[j] = r]
  OBVIOUS
<1> HIDE DEF r
<1> QED
  BY <1>1, <1>2, JobUpdateType

LEMMA SettleType ==
    ASSUME NEW s \in Store, NEW j \in Jobs
    PROVE  Keeps(Settle(s, j), s)
<1> DEFINE s1 == [s EXCEPT !.jobs[j].state = "publishing"]
           s2 == Queue(s1, [kind |-> "point", job |-> j])
<1>1. Keeps(s1, s)
  BY StateUpdateType DEF LiveStates
<1>2. Keeps(s2, s)
  <2> HIDE DEF s1
  <2> QED
    BY <1>1, QueueType, PointTaskType DEF Keeps
<1>3. Settle(s, j) \in {s2, EndJob(s, j, FALSE), s}
  BY DEF Settle
<1> HIDE DEF s2
<1> QED
  BY <1>2, <1>3, EndJobType DEF Keeps

LEMMA ReleaseType ==
    ASSUME NEW s \in Store, NEW j \in Jobs, NEW h \in [s.jobs[j].left -> Jobs \cup {NoJob}]
    PROVE  Keeps(Release(s, j, h), s)
<1> DEFINE taken(i) == {n \in DOMAIN h : h[n] = i}
           left(i) == IF i = j THEN {} ELSE s.jobs[i].left \cup taken(i)
           size(i) == s.jobs[i].size + (IF i = j THEN 0 ELSE Cardinality(taken(i)))
           rec(i) == [s.jobs[i] EXCEPT !.left = left(i), !.size = size(i)]
           jobs == [i \in Jobs |-> rec(i)]
           inflight == [n \in Names |->
                          IF n \notin DOMAIN h THEN s.inflight[n]
                          ELSE IF h[n] # NoJob THEN h[n]
                          ELSE IF s.inflight[n] = j THEN NoJob ELSE s.inflight[n]]
           queued == s.queued + HandedBytes(h)
           s1 == [s EXCEPT !.jobs = jobs, !.inflight = inflight, !.queued = queued]
<1>1. DOMAIN h \in SUBSET Names
  BY StoreFields, JobFields
<1>2. \A i \in Jobs : rec(i) \in Job
  <2> SUFFICES ASSUME NEW i \in Jobs PROVE rec(i) \in Job
    OBVIOUS
  <2>1. s.jobs[i] \in Job
    BY StoreFields
  <2>2. taken(i) \in SUBSET Names
    BY <1>1
  <2>3. Cardinality(taken(i)) \in Nat
    BY <2>2, SubsetCardinality
  <2>4. left(i) \in SUBSET Names
    BY <2>1, <2>2, JobFields
  <2>5. size(i) \in Nat
    BY <2>1, <2>3, JobFields
  <2> HIDE DEF left, size
  <2> QED
    BY <2>1, <2>4, <2>5 DEF Job
<1>3. jobs \in [Jobs -> Job]
  BY <1>2
<1>4. inflight \in [Names -> Jobs \cup {NoJob}]
  BY <1>1, StoreFields
<1>5. queued \in Int
  <2>1. {n \in DOMAIN h : h[n] # NoJob} \in SUBSET Names
    BY <1>1
  <2>2. HandedBytes(h) \in Nat
    BY <2>1, SubsetCardinality DEF HandedBytes
  <2> QED
    BY <2>2, StoreFields
<1>6. Keeps(s1, s)
  <2> HIDE DEF jobs, inflight, queued
  <2> QED
    BY <1>3, <1>4, <1>5 DEF Store, Keeps
<1>7. Release(s, j, h) = RecheckParked(s1)
  BY DEF Release
<1> HIDE DEF s1
<1> QED
  BY <1>6, <1>7, RecheckParkedType DEF Keeps

LEMMA FailType ==
    ASSUME NEW s \in Store, NEW j \in Jobs, NEW h \in [s.jobs[j].left -> Jobs \cup {NoJob}]
    PROVE  Keeps(Fail(s, j, h), s) /\ Keeps(CancelJob(s, j, h), s)
<1> DEFINE sf == [s EXCEPT !.jobs[j].state = "failed"]
           sc == [s EXCEPT !.jobs[j].state = "cancelled"]
<1>1. Keeps(sf, s) /\ Keeps(sc, s)
  BY StateUpdateType DEF LiveStates
<1>2. sf.jobs[j].left = s.jobs[j].left /\ sc.jobs[j].left = s.jobs[j].left
  BY StoreFields DEF Store, Job
<1>3. Fail(s, j, h) = Release(sf, j, h) /\ CancelJob(s, j, h) = Settle(Release(sc, j, h), j)
  BY DEF Fail, CancelJob
<1> HIDE DEF sf, sc
<1>4. Keeps(Release(sf, j, h), s) /\ Keeps(Release(sc, j, h), s)
  BY <1>1, <1>2, ReleaseType DEF Keeps
<1> QED
  BY <1>3, <1>4, SettleType DEF Keeps

LEMMA TrimPathType ==
    ASSUME NEW s \in Store, NEW p
    PROVE  /\ TrimPath(s, p) \in Store
           /\ s.points \cap reading \subseteq TrimPath(s, p).points
<1> DEFINE path == Path(s, p)
           newer(q) == {r \in path : Len(BlocksOf[r]) > Len(BlocksOf[q])}
           V == {q \in path \ reading : Cardinality(newer(q)) >= Turns}
<1>1. V \cap reading = {}
  OBVIOUS
<1>2. TrimPath(s, p) \in {s, RemovePoints(s, V)}
  BY DEF TrimPath
<1> HIDE DEF V
<1> QED
  BY <1>1, <1>2, RemovePointsType

LEMMA HandType ==
    ASSUME NEW s \in Store, NEW j \in Jobs, NEW S \in SUBSET Names, NEW W
    PROVE  Keeps(Hand(s, j, S, W), s)
<1> DEFINE left == s.jobs[j].left \ S
           out == s.jobs[j].out \cup S
           r == [s.jobs[j] EXCEPT !.left = left, !.out = out]
           free == s.free \ W
           jobs == [s.jobs EXCEPT ![j] = r]
<1>1. s.jobs[j] \in Job
  BY StoreFields
<1>2. left \in SUBSET Names /\ out \in SUBSET Names
  BY <1>1, JobFields
<1>3. r \in Job
  <2> HIDE DEF left, out
  <2> QED
    BY <1>1, <1>2 DEF Job
<1>4. jobs \in [Jobs -> Job] /\ free \in SUBSET WriteSlots
  BY <1>3, StoreFields
<1>5. Hand(s, j, S, W) = [s EXCEPT !.jobs = jobs, !.free = free]
  BY DEF Hand
<1> HIDE DEF jobs, free
<1> QED
  BY <1>4, <1>5 DEF Store, Keeps

-----------------------------------------------------------------------------
(* What each step keeps: the types, and the points restores read *)

\* No point that a restore reads leaves the index.
Stays == \A k \in reading : k \in store.points => k \in store'.points

LEMMA MarkSharedStep ==
    ASSUME TypeOK, NEW k \in Keys, MarkShared(k)
    PROVE  TypeOK' /\ Stays
<1> DEFINE shared == store.shared \cup {k}
           s == [store EXCEPT !.shared = shared]
<1>1. store \in Store
  BY DEF TypeOK
<1>2. shared \in SUBSET Keys
  BY <1>1, StoreFields
<1>3. Keeps(s, store)
  <2> HIDE DEF shared
  <2> QED
    BY <1>1, <1>2 DEF Store, Keeps
<1>4. store' = IF k \in s.points THEN Queue(s, [kind |-> "shared", key |-> k]) ELSE s
  BY DEF MarkShared
<1> HIDE DEF s
<1>5. Keeps(store', store)
  BY <1>3, <1>4, QueueType, SharedTaskType DEF Keeps
<1>6. UNCHANGED <<reading, tickets, running, files, manifest>>
  BY DEF MarkShared
<1> QED
  BY <1>5, <1>6 DEF TypeOK, Stays, Keeps

LEMMA BeginReadStep ==
    ASSUME TypeOK, NEW k \in Keys, BeginRead(k) \/ EndRead(k)
    PROVE  TypeOK' /\ Stays
BY DEF TypeOK, BeginRead, EndRead, Stays

LEMMA ForgetStep ==
    ASSUME TypeOK, NEW k \in Keys, NEW gone, Forget(k, gone)
    PROVE  TypeOK'
<1> DEFINE naming == {p \in store.points : Blocks(p) \cap gone # {}}
           s == RemovePoints(store, {k} \cup naming)
<1>1. s \in Store
  BY RemovePointsType DEF TypeOK
<1>2. store' = DropBlocks(s, gone)
  BY DEF Forget
<1> HIDE DEF s
<1>3. store' \in Store
  BY <1>1, <1>2, DropBlocksType DEF Keeps
<1> QED
  BY <1>3 DEF TypeOK, Forget

LEMMA CapturedStep ==
    ASSUME TypeOK, NEW j \in Jobs, NEW ok \in BOOLEAN, Captured(j, ok)
    PROVE  TypeOK' /\ Stays
<1> DEFINE r == store.jobs[j]
           capture == IF ok THEN "ok" ELSE "failed"
           state == IF ~ok /\ r.state = "open" THEN "failed" ELSE r.state
           r1 == [r EXCEPT !.capture = capture, !.state = state, !.tailSlot = NoSlot]
           s1 == [store EXCEPT !.jobs[j] = r1]
           t == Last(BlocksOf[r.key])
           task == [kind |-> "block", job |-> j, name |-> t, slot |-> r.tailSlot]
           rq == [s1.jobs[j] EXCEPT !.out = @ \cup {t}]
           sq == [s1 EXCEPT !.jobs[j] = rq]
           s2 == IF r.tailSlot = NoSlot THEN s1
                 ELSE IF s1.jobs[j].state = "open" THEN Queue(sq, task)
                 ELSE GiveSlot(s1, r.tailSlot)
<1>1. store \in Store
  BY DEF TypeOK
<1>2. r \in Job
  BY <1>1, StoreFields
<1>3. r1 \in Job
  <2>1. capture \in {"ok", "failed"} /\ state \in LiveStates \cup {"unused", "ended"}
    BY <1>2 DEF Job, LiveStates
  <2> HIDE DEF r, capture, state
  <2> QED
    BY <1>2, <2>1 DEF Job
<1>4. Keeps(s1, store)
  <2> HIDE DEF r1
  <2> QED
    BY <1>1, <1>3, JobUpdateType
<1>5. store' = Settle(s2, j)
  BY DEF Captured
<1>6. t \in Names
  BY <1>2, JobFields, NamesType
<1> HIDE DEF s1
<1>7. Keeps(sq, store)
  <2>1. s1.jobs[j] \in Job
    BY <1>4, StoreFields DEF Keeps
  <2>2. rq \in Job
    <3> HIDE DEF t
    <3> QED
      BY <1>6, <2>1 DEF Job
  <2> HIDE DEF rq
  <2> QED
    BY <2>2, <1>4, JobUpdateType DEF Keeps
<1>8. Keeps(s2, store)
  <2>1. r.tailSlot # NoSlot => r.tailSlot \in WriteSlots
    BY <1>2, JobFields
  <2>2. r.tailSlot # NoSlot => task \in Task
    <3> HIDE DEF t, r
    <3> QED
      BY <1>6, <2>1, BlockTaskType
  <2> HIDE DEF sq, task, r
  <2> QED
    BY <1>4, <1>7, <2>1, <2>2, QueueType, GiveSlotType DEF Keeps
<1> HIDE DEF s2
<1>9. Keeps(store', store)
  BY <1>5, <1>8, SettleType DEF Keeps
<1> QED
  BY <1>9 DEF TypeOK, Captured, Stays, Keeps

LEMMA StageStep ==
    ASSUME TypeOK, NEW j \in Jobs, NEW n \in Names, NEW w \in WriteSlots, Stage(j, n, w)
    PROVE  TypeOK' /\ Stays
<1>1. Keeps(store', store)
  BY HandType DEF TypeOK, Stage
<1>2. tickets' \subseteq [job : Jobs, name : Names, slot : WriteSlots]
  BY DEF TypeOK, Stage
<1>3. UNCHANGED <<reading, running, files, manifest>>
  BY DEF Stage
<1> QED
  BY <1>1, <1>2, <1>3 DEF TypeOK, Stays, Keeps

LEMMA HandOversType ==
    ASSUME NEW s \in Store, NEW j \in Jobs, NEW h \in HandOvers(s, j)
    PROVE  h \in [s.jobs[j].left -> Jobs \cup {NoJob}]
BY DEF HandOvers

LEMMA StagedStep ==
    ASSUME TypeOK, NEW t \in tickets, NEW ok \in BOOLEAN, Staged(t, ok)
    PROVE  TypeOK' /\ Stays
<1>1. store \in Store /\ t.job \in Jobs /\ t.name \in Names /\ t.slot \in WriteSlots
  BY DEF TypeOK
<1>2. PICK h \in HandOvers(store, t.job) :
        LET s == IF ~ok /\ store.jobs[t.job].state = "open" THEN Fail(store, t.job, h) ELSE store
        IN  store' = IF s.jobs[t.job].state = "open" \/ (ok /\ StillNamed(s, t.name))
                     THEN Queue(s, [kind |-> "block", job |-> t.job, name |-> t.name, slot |-> t.slot])
                     ELSE Settle(DropInflight(GiveBack(s, t.job, t.name, t.slot), t.job, t.name), t.job)
  BY DEF Staged
<1> DEFINE s == IF ~ok /\ store.jobs[t.job].state = "open" THEN Fail(store, t.job, h) ELSE store
           task == [kind |-> "block", job |-> t.job, name |-> t.name, slot |-> t.slot]
           s1 == GiveBack(s, t.job, t.name, t.slot)
           s2 == DropInflight(s1, t.job, t.name)
<1>3. Keeps(s, store)
  BY <1>1, HandOversType, FailType DEF Keeps
<1>4. store' \in {Queue(s, task), Settle(s2, t.job)}
  BY <1>2
<1> HIDE DEF s
<1>5. Keeps(Queue(s, task), store)
  BY <1>1, <1>3, BlockTaskType, QueueType DEF Keeps
<1>6. Keeps(s1, store)
  BY <1>1, <1>3, GiveBackType DEF Keeps
<1> HIDE DEF s1
<1>7. Keeps(s2, store)
  BY <1>1, <1>6, DropInflightType DEF Keeps
<1> HIDE DEF s2
<1>8. Keeps(Settle(s2, t.job), store)
  BY <1>1, <1>7, SettleType DEF Keeps
<1>9. Keeps(store', store)
  BY <1>4, <1>5, <1>8
<1> QED
  BY <1>9 DEF TypeOK, Staged, Stays, Keeps

LEMMA GuardStep ==
    ASSUME TypeOK, NEW j \in Jobs, NEW from, Guard(j, from)
    PROVE  TypeOK' /\ Stays
<1> DEFINE left == store.jobs[j].left
<1>1. store \in Store /\ left \in SUBSET Names
  BY StoreFields, JobFields DEF TypeOK
<1>2. UNCHANGED <<reading, running, files, manifest>>
  BY DEF Guard
<1>3. CASE \E f \in {g \in [left -> store.free] : IsInjective(g)} :
             /\ store' = Hand(store, j, left, Range(f))
             /\ tickets' = tickets \cup {[job |-> j, name |-> n, slot |-> f[n]] : n \in left}
  <2>1. PICK f \in [left -> store.free] :
             /\ store' = Hand(store, j, left, Range(f))
             /\ tickets' = tickets \cup {[job |-> j, name |-> n, slot |-> f[n]] : n \in left}
    BY <1>3
  <2>2. Keeps(store', store)
    BY <1>1, <2>1, HandType
  <2>3. store.free \in SUBSET WriteSlots
    BY <1>1, StoreFields
  <2>4. \A n \in left : [job |-> j, name |-> n, slot |-> f[n]] \in [job : Jobs, name : Names, slot : WriteSlots]
    BY <1>1, <2>3
  <2> HIDE DEF left
  <2>5. tickets' \subseteq [job : Jobs, name : Names, slot : WriteSlots]
    BY <2>1, <2>4 DEF TypeOK
  <2> QED
    BY <1>2, <2>2, <2>5 DEF TypeOK, Stays, Keeps
<1>4. CASE \E h \in HandOvers(store, j) : store' = CancelJob(store, j, h) /\ UNCHANGED tickets
  <2>1. Keeps(store', store)
    BY <1>1, <1>4, HandOversType, FailType
  <2> QED
    BY <1>2, <1>4, <2>1 DEF TypeOK, Stays, Keeps
<1> QED
  BY <1>3, <1>4 DEF Guard

LEMMA CancelStep ==
    ASSUME TypeOK, NEW j \in Jobs, Cancel(j)
    PROVE  TypeOK' /\ Stays
<1>1. Keeps(store', store)
  BY HandOversType, FailType DEF TypeOK, Cancel
<1> QED
  BY <1>1 DEF TypeOK, Cancel, Stays, Keeps

LEMMA RegisterType ==
    ASSUME NEW s \in Store, NEW j \in Jobs, NEW k \in Keys, NEW isShared \in BOOLEAN,
           NEW new \in SUBSET Names, NEW w \in WriteSlots \cup {NoSlot}
    PROVE  Keeps(Register(s, j, k, isShared, new, w), s)
<1> DEFINE size == Cardinality(new) + FileBytes
           left == new \ TailBlock(k)
           r == [NoWrite EXCEPT !.key = k, !.state = "open", !.left = left,
                                !.tailSlot = w, !.size = size]
           jobs == [s.jobs EXCEPT ![j] = r]
           inflight == [n \in Names |-> IF n \in new THEN j ELSE s.inflight[n]]
           shared == IF isShared THEN s.shared \cup {k} ELSE s.shared
           free == s.free \ {w}
           queued == s.queued + size
<1>1. size \in Nat
  <2>1. Cardinality(new) \in Nat
    BY SubsetCardinality
  <2> QED
    BY <2>1, ConstantsAssumption
<1>2. Register(s, j, k, isShared, new, w) =
        [s EXCEPT !.jobs = jobs, !.inflight = inflight, !.shared = shared,
                  !.free = free, !.queued = queued]
  BY DEF Register
<1>3. r \in Job
  <2>1. left \in SUBSET Names
    OBVIOUS
  <2> HIDE DEF left, size
  <2> QED
    BY <1>1, <2>1 DEF Job, NoWrite, LiveStates
<1>4. jobs \in [Jobs -> Job]
  <2> HIDE DEF r
  <2> QED
    BY <1>3, StoreFields
<1>5. inflight \in [Names -> Jobs \cup {NoJob}] /\ shared \in SUBSET Keys
  BY StoreFields
<1>6. free \in SUBSET WriteSlots /\ queued \in Int
  <2> HIDE DEF size
  <2> QED
    BY <1>1, StoreFields
<1> HIDE DEF jobs, inflight, shared, free, queued
<1> QED
  BY <1>2, <1>4, <1>5, <1>6 DEF Store, Keeps

LEMMA KeepStep ==
    ASSUME TypeOK, NEW k \in Keys, NEW isShared \in BOOLEAN, NEW V, Keep(k, isShared, V)
    PROVE  TypeOK' /\ Stays
<1> DEFINE new == {n \in Blocks(k) : n \notin store.have /\ store.inflight[n] = NoJob}
           pinned == Ref(store, Blocks(k))
           over == Over(store, Cardinality(new) + FileBytes)
           s == IF over > 0 /\ over <= store.stored THEN RemovePoints(pinned, V) ELSE pinned
           unpinned == Unref(s, Blocks(k))
<1>1. PICK j \in NextJob(store) :
        /\ IF over > 0 /\ over <= store.stored THEN MakesRoom(pinned, over, {k}, V) ELSE V = {}
        /\ \/ store' = Gc(unpinned, Blocks(k))
           \/ \E w \in s.free \cup {NoSlot} : store' = Register(s, j, k, isShared, new, w)
  BY DEF Keep
<1>2. store \in Store /\ j \in Jobs
  BY DEF TypeOK, NextJob
<1>3. new \in SUBSET Names
  BY NamesType
<1>4. s \in Store /\ store.points \cap reading \subseteq s.points
  <2>1. Keeps(pinned, store)
    BY <1>2, RefType
  <2>2. CASE over > 0 /\ over <= store.stored
    <3>1. V \cap reading = {}
      BY <1>1, <2>2 DEF MakesRoom, Victims
    <3>2. s = RemovePoints(pinned, V)
      BY <2>2
    <3> HIDE DEF pinned, s
    <3> QED
      BY <2>1, <3>1, <3>2, RemovePointsType DEF Keeps
  <2>3. CASE ~(over > 0 /\ over <= store.stored)
    BY <2>1, <2>3 DEF Keeps
  <2> QED
    BY <2>2, <2>3
<1> HIDE DEF s, new
<1>5. Keeps(unpinned, s)
  BY <1>4, RefType
<1> HIDE DEF unpinned
<1>6. Keeps(Gc(unpinned, Blocks(k)), s)
  BY <1>5, GcType DEF Keeps
<1>7. \A w \in s.free \cup {NoSlot} : Keeps(Register(s, j, k, isShared, new, w), s)
  BY <1>2, <1>3, <1>4, RegisterType, StoreFields
<1>8. store' \in Store /\ store.points \cap reading \subseteq store'.points
  BY <1>1, <1>4, <1>6, <1>7 DEF Keeps
<1> QED
  BY <1>8 DEF TypeOK, Keep, Stays

-----------------------------------------------------------------------------
(* The writer's steps *)

LEMMA TakenTask ==
    ASSUME TypeOK, NEW kind, Takes(kind)
    PROVE  /\ store \in Store /\ Keeps(Popped, store)
           /\ Head(store.tasks) \in Task /\ Head(store.tasks).kind = kind
<1>1. store \in Store /\ store.tasks \in Seq(Task) /\ store.tasks # << >>
  BY StoreFields DEF TypeOK, Takes
<1>2. Tail(store.tasks) \in Seq(Task) /\ Head(store.tasks) \in Task
  BY <1>1
<1>3. Keeps(Popped, store)
  BY <1>1, <1>2 DEF Popped, Store, Keeps
<1> QED
  BY <1>1, <1>2, <1>3 DEF Takes

LEMMA TaskFields ==
    ASSUME NEW t \in Task
    PROVE  /\ t.kind = "block" => /\ t \in BlockTask /\ t.job \in Jobs
                                  /\ t.name \in Names /\ t.slot \in WriteSlots
           /\ t.kind = "point" => t.job \in Jobs
           /\ t.kind = "shared" => t \in SharedTask /\ t.key \in Keys
           /\ t.kind = "unlink" => t.keys \in SUBSET Keys /\ t.names \in SUBSET Names
BY DEF Task, BlockTask, PointTask, SharedTask, UnlinkTask

LEMMA RunningFields ==
    ASSUME TypeOK
    PROVE  /\ running.kind = "block" => /\ running.job \in Jobs /\ running.name \in Names
                                        /\ running.slot \in WriteSlots
           /\ running.kind = "point" => running.job \in Jobs /\ running.flag \in BOOLEAN
           /\ running.kind = "shared" => running.key \in Keys
BY DEF TypeOK, Writing, BlockTask, SharedTask, Idle

LEMMA TakeBlockStep ==
    ASSUME TypeOK, TakeBlock
    PROVE  TypeOK' /\ Stays
<1> DEFINE t == Head(store.tasks)
           s == GiveBack(Popped, t.job, t.name, t.slot)
           s1 == DropInflight(s, t.job, t.name)
<1>1. Keeps(Popped, store) /\ t \in Task /\ t.kind = "block"
  BY TakenTask DEF TakeBlock
<1>2. t \in BlockTask /\ t.job \in Jobs /\ t.name \in Names /\ t.slot \in WriteSlots
  BY <1>1, TaskFields
<1>3. store' \in {Popped, Settle(s1, t.job)} /\ running' \in {t, Idle}
  BY DEF TakeBlock
<1> HIDE DEF t
<1>4. Keeps(s, store)
  BY <1>1, <1>2, GiveBackType DEF Keeps
<1> HIDE DEF s
<1>5. Keeps(s1, store)
  BY <1>2, <1>4, DropInflightType DEF Keeps
<1> HIDE DEF s1
<1>6. Keeps(store', store)
  BY <1>1, <1>2, <1>3, <1>5, SettleType DEF Keeps
<1>7. running' \in Writing \cup {Idle}
  BY <1>2, <1>3 DEF Writing
<1> QED
  BY <1>6, <1>7 DEF TypeOK, TakeBlock, Stays, Keeps

LEMMA BlockWrittenStep ==
    ASSUME TypeOK, NEW ok \in BOOLEAN, BlockWritten(ok)
    PROVE  TypeOK' /\ Stays
<1> DEFINE j == running.job
           n == running.name
           s == GiveBack(store, j, n, running.slot)
<1>1. j \in Jobs /\ n \in Names /\ running.slot \in WriteSlots /\ store \in Store
  BY RunningFields DEF BlockWritten, TypeOK
<1>2. PICK h \in HandOvers(store, j) :
        store' = Settle(DropInflight(IF ok THEN AddBlock(s, n)
                                     ELSE IF s.jobs[j].state = "open" THEN Fail(s, j, h) ELSE s,
                                     j, n), j)
  BY DEF BlockWritten
<1> DEFINE s1 == IF ok THEN AddBlock(s, n)
                 ELSE IF s.jobs[j].state = "open" THEN Fail(s, j, h) ELSE s
           s2 == DropInflight(s1, j, n)
<1>3. store' = Settle(s2, j)
  BY <1>2
<1>4. running' = Idle /\ files' \subseteq files \cup {n}
  BY DEF BlockWritten
<1>5. UNCHANGED <<reading, tickets, manifest>>
  BY DEF BlockWritten
<1>6. Keeps(s, store) /\ s.jobs[j].left = store.jobs[j].left
  <2>1. s.jobs[j].left = store.jobs[j].left
    BY <1>1, StoreFields DEF GiveBack, GiveSlot, Store, Job
  <2> QED
    BY <1>1, <2>1, GiveBackType
<1> HIDE DEF s, j, n
<1>7. Keeps(s1, store)
  BY <1>1, <1>6, HandOversType, AddBlockType, FailType DEF Keeps
<1> HIDE DEF s1
<1>8. Keeps(s2, store)
  BY <1>1, <1>7, DropInflightType DEF Keeps
<1> HIDE DEF s2
<1>9. Keeps(store', store)
  BY <1>1, <1>3, <1>8, SettleType DEF Keeps
<1> QED
  BY <1>1, <1>4, <1>5, <1>9 DEF TypeOK, Stays, Keeps

LEMMA TakePointStep ==
    ASSUME TypeOK, TakePoint
    PROVE  TypeOK' /\ Stays
<1> DEFINE j == Head(store.tasks).job
           s == [Popped EXCEPT !.jobs[j].parked = TRUE]
           flag == store.jobs[j].key \in store.shared
           point == [kind |-> "point", job |-> j, flag |-> flag]
<1>0. flag \in BOOLEAN
  OBVIOUS
<1>1. Keeps(Popped, store) /\ j \in Jobs
  BY TakenTask, TaskFields DEF TakePoint
<1>2. store' \in {s, EndJob(Popped, j, FALSE), Popped}
  BY DEF TakePoint
<1>3. running' \in {running, point}
  BY DEF TakePoint
<1>4. UNCHANGED <<reading, tickets, files, manifest>>
  BY DEF TakePoint
<1> HIDE DEF j, flag
<1>5. Keeps(s, store)
  <2> DEFINE r == [Popped.jobs[j] EXCEPT !.parked = TRUE]
  <2>1. Popped.jobs[j] \in Job
    BY <1>1, StoreFields DEF Keeps
  <2>2. r \in Job
    BY <2>1 DEF Job
  <2>3. s = [Popped EXCEPT !.jobs[j] = r]
    OBVIOUS
  <2> HIDE DEF r
  <2> QED
    BY <1>1, <2>2, <2>3, JobUpdateType DEF Keeps
<1>6. Keeps(store', store)
  BY <1>1, <1>2, <1>5, EndJobType DEF Keeps
<1>7. running' \in Writing \cup SharedTask \cup {Idle}
  BY <1>0, <1>1, <1>3 DEF Writing, TypeOK
<1> QED
  BY <1>4, <1>6, <1>7 DEF TypeOK, Stays, Keeps

LEMMA PointWrittenStep ==
    ASSUME TypeOK, PointWritten
    PROVE  TypeOK' /\ Stays
<1> DEFINE j == running.job
           k == store.jobs[j].key
           s0 == Ref(store, Blocks(k))
           s1 == [s0 EXCEPT !.points = @ \cup {k}, !.stored = @ + FileBytes]
           s2 == EndJob(s1, j, TRUE)
           s3 == IF k \in s2.shared /\ ~running.flag
                 THEN Queue(s2, [kind |-> "shared", key |-> k]) ELSE s2
           s4 == Queue(store, [kind |-> "unlink", keys |-> {k}, names |-> {}])
<1>1. store \in Store /\ j \in Jobs /\ k \in Keys
  BY RunningFields, StoreFields, JobFields DEF PointWritten, TypeOK
<1>2. store' \in {TrimPath(s3, k), EndJob(s4, j, FALSE)}
  BY DEF PointWritten
<1>3. running' = Idle /\ UNCHANGED <<reading, tickets, files>>
  BY DEF PointWritten
<1>4. manifest' \in [Keys -> Manifests]
  BY <1>1, RunningFields DEF PointWritten, Flag, Manifests, TypeOK
<1> HIDE DEF k, j
<1>5. s1 \in Store /\ s1.points = store.points \cup {k}
  <2>1. Keeps(s0, store)
    BY <1>1, RefType
  <2> HIDE DEF s0
  <2> DEFINE points == s0.points \cup {k}
             stored == s0.stored + FileBytes
  <2>2. points \in SUBSET Keys /\ stored \in Int
    BY <1>1, <2>1, StoreFields, ConstantsAssumption DEF Keeps
  <2>3. s1 = [s0 EXCEPT !.points = points, !.stored = stored]
    OBVIOUS
  <2>4. points = store.points \cup {k}
    BY <2>1 DEF Keeps
  <2> HIDE DEF points, stored
  <2> QED
    BY <2>1, <2>2, <2>3, <2>4 DEF Store, Keeps
<1> HIDE DEF s1
<1>6. s2 \in Store /\ s2.points = store.points \cup {k}
  BY <1>1, <1>5, EndJobType DEF Keeps
<1> HIDE DEF s2
<1>7. s3 \in Store /\ s3.points = store.points \cup {k}
  BY <1>1, <1>6, QueueType, SharedTaskType DEF Keeps
<1> HIDE DEF s3
<1>8. TrimPath(s3, k) \in Store /\ store.points \cap reading \subseteq TrimPath(s3, k).points
  BY <1>7, TrimPathType
<1>9. Keeps(s4, store)
  BY <1>1, QueueType, UnlinkType DEF Keeps
<1> HIDE DEF s4
<1>10. Keeps(EndJob(s4, j, FALSE), store)
  BY <1>1, <1>9, EndJobType DEF Keeps
<1>11. store' \in Store /\ store.points \cap reading \subseteq store'.points
  BY <1>2, <1>8, <1>10 DEF Keeps
<1> QED
  BY <1>3, <1>4, <1>11 DEF TypeOK, Stays

LEMMA PointFailedStep ==
    ASSUME TypeOK, PointFailed
    PROVE  TypeOK' /\ Stays
<1>1. running.job \in Jobs /\ store \in Store
  BY RunningFields DEF PointFailed, TypeOK
<1>2. Keeps(store', store)
  BY <1>1, EndJobType DEF PointFailed
<1> QED
  BY <1>2 DEF TypeOK, PointFailed, Manifests, Stays, Keeps

LEMMA SharedStep ==
    ASSUME TypeOK, NEW ok \in BOOLEAN, TakeShared \/ SharedWritten(ok)
    PROVE  TypeOK' /\ Stays
<1>1. CASE TakeShared
  <2>1. Keeps(Popped, store) /\ Head(store.tasks) \in SharedTask
    BY <1>1, TakenTask, TaskFields DEF TakeShared
  <2> QED
    BY <1>1, <2>1 DEF TakeShared, TypeOK, Stays, Keeps
<1>2. CASE SharedWritten(ok)
  BY <1>2, RunningFields DEF SharedWritten, TypeOK, Manifests, Stays
<1> QED
  BY <1>1, <1>2

LEMMA UnlinkStep ==
    ASSUME TypeOK, Unlink
    PROVE  TypeOK' /\ Stays
<1>1. Keeps(Popped, store) /\ Head(store.tasks).names \in SUBSET Names
  BY TakenTask, TaskFields DEF Unlink
<1> QED
  BY <1>1 DEF Unlink, TypeOK, Manifests, Stays, Keeps

-----------------------------------------------------------------------------
(* The theorems *)

LEMMA TypeInit == Init => TypeOK
<1> SUFFICES ASSUME Init PROVE TypeOK
  OBVIOUS
<1>1. NoWrite \in Job
  BY ConstantsAssumption DEF NoWrite, Job
<1>2. << >> \in Seq(Task)
  OBVIOUS
<1>3. store \in Store
  BY <1>1, <1>2 DEF Init, Store
<1> QED
  BY <1>3 DEF Init, TypeOK, Manifests

LEMMA StepKeeps ==
    ASSUME TypeOK, [Next]_vars
    PROVE  /\ TypeOK'
           /\ Stays \/ \E p \in Keys, gone \in SUBSET Names : Forget(p, gone)
<1>1. CASE Engine
  <2>1. ASSUME NEW k \in Keys, MarkShared(k)
        PROVE  TypeOK' /\ Stays
    BY <2>1, MarkSharedStep
  <2>2. ASSUME NEW k \in Keys, NEW b \in BOOLEAN, NEW V, Keep(k, b, V)
        PROVE  TypeOK' /\ Stays
    BY <2>2, KeepStep
  <2>3. ASSUME NEW k \in Keys, BeginRead(k) \/ EndRead(k)
        PROVE  TypeOK' /\ Stays
    BY <2>3, BeginReadStep
  <2>4. ASSUME NEW k \in Keys, NEW gone \in SUBSET Blocks(k), Forget(k, gone)
        PROVE  TypeOK' /\ \E p \in Keys, g \in SUBSET Names : Forget(p, g)
    <3>1. gone \in SUBSET Names
      BY NamesType
    <3> QED
      BY <2>4, <3>1, ForgetStep
  <2>5. ASSUME NEW j \in Jobs, NEW ok \in BOOLEAN, Captured(j, ok)
        PROVE  TypeOK' /\ Stays
    BY <2>5, CapturedStep
  <2>6. ASSUME NEW j \in Jobs, NEW n \in Names, NEW w \in WriteSlots, Stage(j, n, w)
        PROVE  TypeOK' /\ Stays
    BY <2>6, StageStep
  <2>7. ASSUME NEW j \in Jobs, NEW from, Guard(j, from)
        PROVE  TypeOK' /\ Stays
    BY <2>7, GuardStep
  <2>8. ASSUME NEW j \in Jobs, Cancel(j)
        PROVE  TypeOK' /\ Stays
    BY <2>8, CancelStep
  <2>9. ASSUME NEW t \in tickets, NEW ok \in BOOLEAN, Staged(t, ok)
        PROVE  TypeOK' /\ Stays
    BY <2>9, StagedStep
  <2> QED
    BY <1>1, <2>1, <2>2, <2>3, <2>4, <2>5, <2>6, <2>7, <2>8, <2>9 DEF Engine
<1>2. CASE Writer
  BY <1>2, TakeBlockStep, TakePointStep, SharedStep, UnlinkStep, PointWrittenStep,
     PointFailedStep, BlockWrittenStep DEF Writer
<1>3. CASE UNCHANGED vars
  BY <1>3 DEF vars, TypeOK, Stays
<1> QED
  BY <1>1, <1>2, <1>3 DEF Next

\* Every reachable state is well typed: no reference count, name in flight,
\* slot or task of the store ever leaves its range.
THEOREM TypeCorrect == Spec => []TypeOK
<1>1. TypeOK /\ [Next]_vars => TypeOK'
  BY StepKeeps
<1> QED
  BY TypeInit, <1>1, PTL DEF Spec

\* Neither making room (makeRoom) nor trimming a conversation's path
\* (trimPath), nor anything else but a failed restore (forget), takes a point
\* that a restore is reading out of the index, whatever the cap, the points
\* and the blocks they share.
THEOREM ReadPointsAreSafe == Spec => ReadPointsStay
<1>1. TypeOK /\ [Next]_vars =>
        [\A k \in reading : k \in store.points /\ k \notin store'.points =>
            \E p \in Keys, gone \in SUBSET Names : Forget(p, gone)]_vars
  BY StepKeeps DEF Stays
<1> QED
  BY TypeCorrect, <1>1, PTL DEF Spec, ReadPointsStay

-----------------------------------------------------------------------------
(***************************************************************************)
(* Every name in flight, write slot and pointer to a write of SpillWrite   *)
(* has exactly one live owner, for every value of the constants.           *)
(*                                                                         *)
(* The invariant is about a store s and what the two threads hold outside  *)
(* it: the copies E (the engine's tickets and the block the writer writes) *)
(* and the writes P whose point the writer publishes.  A helper that runs  *)
(* inside a critical section may leave names X excused until the section   *)
(* ends: a block given back whose name is not dropped yet.                 *)
(***************************************************************************)

Part(t) == [job |-> t.job, name |-> t.name, slot |-> t.slot]

Copy == [job : Jobs, name : Names, slot : WriteSlots]

\* The copies and the points a queue of tasks holds; neither is queued twice.
QueuedCopies(q) == {Part(t) : t \in {q[i] : i \in {a \in DOMAIN q : q[a].kind = "block"}}}
QueuedPoints(q) == {q[i].job : i \in {a \in DOMAIN q : q[a].kind = "point"}}
Once(q) == \A a, b \in DOMAIN q : q[a] = q[b] /\ q[a].kind \in {"block", "point"} => a = b

JobFits(r) ==
    /\ r.state \notin LiveStates => r.left = {} /\ r.out = {} /\ r.tailSlot = NoSlot
    /\ r.state = "publishing" => r.left = {} /\ r.out = {} /\ r.capture = "ok"
    /\ r.parked => r.state = "publishing"
    /\ r.tailSlot # NoSlot => r.capture = "pending" /\ TailBlock(r.key) # {}
    /\ r.left \cap r.out = {} /\ r.left \cap TailBlock(r.key) = {}
    /\ r.capture = "pending" => r.out \cap TailBlock(r.key) = {}

JobsFit(s) == \A j \in Jobs : JobFits(s.jobs[j])

\* The names a write has to stage, to write, or holds the slot of its tail for.
Writes(r) == r.left \cup r.out \cup (IF r.tailSlot = NoSlot THEN {} ELSE TailBlock(r.key))

\* They are in flight for it, so for no other write.
Flights(s) == \A j \in Jobs : \A n \in Writes(s.jobs[j]) : s.inflight[n] = j

Owns(r, n) ==
    /\ r.state \in LiveStates
    /\ n \in Writes(r) \/ (r.state \in {"failed", "cancelled"} /\ n \in Blocks(r.key))

Owners(s, X) ==
    \A n \in Names : s.inflight[n] # NoJob =>
        Owns(s.jobs[s.inflight[n]], n) \/ <<s.inflight[n], n>> \in X

\* The copies H, each of a block its write counts as outstanding, and the
\* tails hold distinct slots, and every other slot is free.
CopiesFit(s, H) ==
    /\ \A x, y \in H : x.slot = y.slot \/ (x.job = y.job /\ x.name = y.name) => x = y
    /\ \A x \in H : x.name \in s.jobs[x.job].out

TailsFit(s, H) ==
    \A j \in Jobs : s.jobs[j].tailSlot # NoSlot =>
        /\ \A x \in H : x.slot # s.jobs[j].tailSlot
        /\ \A i \in Jobs : s.jobs[i].tailSlot = s.jobs[j].tailSlot => i = j

FreeFits(s, H) ==
    \A w \in WriteSlots : w \in s.free <=> /\ \A x \in H : x.slot # w
                                           /\ \A j \in Jobs : s.jobs[j].tailSlot # w

SlotsFit(s, H) == CopiesFit(s, H) /\ TailsFit(s, H) /\ FreeFits(s, H)

\* What the queue holds nobody else holds; a queued or running point is
\* being published and is not parked.
QueueFits(s, E, P) ==
    /\ Once(s.tasks) /\ QueuedCopies(s.tasks) \cap E = {} /\ QueuedPoints(s.tasks) \cap P = {}
    /\ \A j \in QueuedPoints(s.tasks) \cup P : s.jobs[j].state = "publishing" /\ ~s.jobs[j].parked

Sound(s, E, P, X) ==
    /\ s \in Store /\ E \in SUBSET Copy /\ P \in SUBSET Jobs
    /\ JobsFit(s) /\ Flights(s) /\ Owners(s, X)
    /\ SlotsFit(s, QueuedCopies(s.tasks) \cup E) /\ QueueFits(s, E, P)

RunningCopy == IF running.kind = "block" THEN {Part(running)} ELSE {}
RunningPoint == IF running.kind = "point" THEN {running.job} ELSE {}

Whole ==
    /\ RunningCopy \cap tickets = {}
    /\ Sound(store, tickets \cup RunningCopy, RunningPoint, {})

IInv == TypeOK /\ Whole

-----------------------------------------------------------------------------
(* Queues *)

LEMMA PartType ==
    ASSUME NEW t \in Task, t.kind = "block"
    PROVE  Part(t) \in Copy /\ t = [kind |-> "block", job |-> t.job, name |-> t.name, slot |-> t.slot]
<1>1. t \in BlockTask
  BY TaskFields
<1> QED
  BY <1>1 DEF BlockTask, Part, Copy

LEMMA PartExact ==
    ASSUME NEW t \in Task, NEW u \in Task, t.kind = "block", u.kind = "block", Part(t) = Part(u)
    PROVE  t = u
<1>1. t.job = u.job /\ t.name = u.name /\ t.slot = u.slot
  BY DEF Part
<1> QED
  BY <1>1, PartType

LEMMA PointExact ==
    ASSUME NEW t \in Task, t.kind = "point"
    PROVE  t.job \in Jobs /\ t = [kind |-> "point", job |-> t.job]
<1>1. t \in PointTask
  BY DEF Task, BlockTask, PointTask, SharedTask, UnlinkTask
<1> QED
  BY <1>1 DEF PointTask

LEMMA InQueue ==
    ASSUME NEW q \in Seq(Task)
    PROVE  /\ QueuedCopies(q) \in SUBSET Copy /\ QueuedPoints(q) \in SUBSET Jobs
           /\ \A i \in 1 .. Len(q) : /\ q[i] \in Task
                                     /\ q[i].kind = "block" => Part(q[i]) \in QueuedCopies(q)
                                     /\ q[i].kind = "point" => q[i].job \in QueuedPoints(q)
           /\ \A x \in QueuedCopies(q) : \E i \in 1 .. Len(q) : q[i].kind = "block" /\ x = Part(q[i])
           /\ \A j \in QueuedPoints(q) : \E i \in 1 .. Len(q) : q[i].kind = "point" /\ j = q[i].job
<1>1. DOMAIN q = 1 .. Len(q) /\ \A i \in 1 .. Len(q) : q[i] \in Task
  OBVIOUS
<1>2. \A i \in 1 .. Len(q) : /\ q[i].kind = "block" => Part(q[i]) \in QueuedCopies(q)
                             /\ q[i].kind = "point" => q[i].job \in QueuedPoints(q)
  BY <1>1 DEF QueuedCopies, QueuedPoints
<1>3. \A x \in QueuedCopies(q) : \E i \in 1 .. Len(q) : q[i].kind = "block" /\ x = Part(q[i])
  BY <1>1 DEF QueuedCopies
<1>4. \A j \in QueuedPoints(q) : \E i \in 1 .. Len(q) : q[i].kind = "point" /\ j = q[i].job
  BY <1>1 DEF QueuedPoints
<1>5. QueuedCopies(q) \in SUBSET Copy /\ QueuedPoints(q) \in SUBSET Jobs
  BY <1>1, <1>3, <1>4, PartType, PointExact
<1> QED
  BY <1>1, <1>2, <1>3, <1>4, <1>5

\* z queues what q does, and the task t behind it.
Appended(q, z, t) ==
    /\ z \in Seq(Task) /\ Len(z) = Len(q) + 1 /\ z[Len(q) + 1] = t
    /\ \A i \in 1 .. Len(q) : z[i] = q[i]

LEMMA AppendIs ==
    ASSUME NEW q \in Seq(Task), NEW t \in Task
    PROVE  Appended(q, Append(q, t), t)
BY DEF Appended

LEMMA OnceOf ==
    ASSUME NEW q \in Seq(Task), NEW a \in 1 .. Len(q), NEW b \in 1 .. Len(q), Once(q), q[a] = q[b],
           q[a].kind \in {"block", "point"}
    PROVE  a = b
BY DEF Once

LEMMA AppendsOther ==
    ASSUME NEW q \in Seq(Task), NEW z, NEW t \in Task, Appended(q, z, t), t.kind \notin {"block", "point"},
           Once(q)
    PROVE  QueuedCopies(z) = QueuedCopies(q) /\ QueuedPoints(z) = QueuedPoints(q) /\ Once(z)
<1>1. z \in Seq(Task) /\ Len(q) \in Nat /\ \A i \in 1 .. Len(z) : i \in 1 .. Len(q) \/ i = Len(q) + 1
  BY DEF Appended
<1>2. \A i \in 1 .. Len(q) : i \in 1 .. Len(z) /\ z[i] = q[i]
  BY DEF Appended
<1>3. z[Len(q) + 1].kind \notin {"block", "point"}
  BY DEF Appended
<1>4. \A x : x \in QueuedCopies(z) <=> x \in QueuedCopies(q)
  BY <1>1, <1>2, <1>3, InQueue
<1>5. \A j : j \in QueuedPoints(z) <=> j \in QueuedPoints(q)
  BY <1>1, <1>2, <1>3, InQueue
<1>6. Once(z)
  <2> SUFFICES ASSUME NEW a \in 1 .. Len(z), NEW b \in 1 .. Len(z), z[a] = z[b], z[a].kind \in {"block", "point"}
               PROVE  a = b
    BY <1>1 DEF Once
  <2>1. a \in 1 .. Len(q) /\ b \in 1 .. Len(q)
    BY <1>1, <1>3
  <2> QED
    BY <1>2, <2>1, OnceOf
<1> QED
  BY <1>4, <1>5, <1>6

LEMMA AppendsCopy ==
    ASSUME NEW q \in Seq(Task), NEW z, NEW t \in Task, Appended(q, z, t), t.kind = "block",
           Once(q), Part(t) \notin QueuedCopies(q)
    PROVE  QueuedCopies(z) = QueuedCopies(q) \cup {Part(t)} /\ QueuedPoints(z) = QueuedPoints(q) /\ Once(z)
<1>1. z \in Seq(Task) /\ Len(q) \in Nat /\ \A i \in 1 .. Len(z) : i \in 1 .. Len(q) \/ i = Len(q) + 1
  BY DEF Appended
<1>2. \A i \in 1 .. Len(q) : i \in 1 .. Len(z) /\ z[i] = q[i]
  BY DEF Appended
<1>3. Len(q) + 1 \in 1 .. Len(z) /\ z[Len(q) + 1] = t
  BY DEF Appended
<1>4. \A x : x \in QueuedCopies(z) <=> x \in QueuedCopies(q) \/ x = Part(t)
  BY <1>1, <1>2, <1>3, InQueue
<1>5. \A j : j \in QueuedPoints(z) <=> j \in QueuedPoints(q)
  BY <1>1, <1>2, <1>3, InQueue
<1>6. Once(z)
  <2> SUFFICES ASSUME NEW a \in 1 .. Len(z), NEW b \in 1 .. Len(z), z[a] = z[b], z[a].kind \in {"block", "point"}
               PROVE  a = b
    BY <1>1 DEF Once
  <2>1. \A i \in 1 .. Len(q) : q[i] # t
    BY InQueue
  <2>2. a \in 1 .. Len(q) <=> b \in 1 .. Len(q)
    BY <1>1, <1>2, <1>3, <2>1
  <2>3. CASE a \in 1 .. Len(q)
    BY <1>2, <2>2, <2>3, OnceOf
  <2>4. CASE a \notin 1 .. Len(q)
    BY <1>1, <2>2, <2>4
  <2> QED
    BY <2>3, <2>4
<1> QED
  BY <1>4, <1>5, <1>6

LEMMA AppendsPoint ==
    ASSUME NEW q \in Seq(Task), NEW z, NEW t \in Task, Appended(q, z, t), t.kind = "point",
           Once(q), t.job \notin QueuedPoints(q)
    PROVE  QueuedCopies(z) = QueuedCopies(q) /\ QueuedPoints(z) = QueuedPoints(q) \cup {t.job} /\ Once(z)
<1>1. z \in Seq(Task) /\ Len(q) \in Nat /\ \A i \in 1 .. Len(z) : i \in 1 .. Len(q) \/ i = Len(q) + 1
  BY DEF Appended
<1>2. \A i \in 1 .. Len(q) : i \in 1 .. Len(z) /\ z[i] = q[i]
  BY DEF Appended
<1>3. Len(q) + 1 \in 1 .. Len(z) /\ z[Len(q) + 1] = t
  BY DEF Appended
<1>4. \A x : x \in QueuedCopies(z) <=> x \in QueuedCopies(q)
  BY <1>1, <1>2, <1>3, InQueue
<1>5. \A j : j \in QueuedPoints(z) <=> j \in QueuedPoints(q) \/ j = t.job
  BY <1>1, <1>2, <1>3, InQueue
<1>6. Once(z)
  <2> SUFFICES ASSUME NEW a \in 1 .. Len(z), NEW b \in 1 .. Len(z), z[a] = z[b], z[a].kind \in {"block", "point"}
               PROVE  a = b
    BY <1>1 DEF Once
  <2>1. \A i \in 1 .. Len(q) : q[i] # t
    BY InQueue
  <2>2. a \in 1 .. Len(q) <=> b \in 1 .. Len(q)
    BY <1>1, <1>2, <1>3, <2>1
  <2>3. CASE a \in 1 .. Len(q)
    BY <1>2, <2>2, <2>3, OnceOf
  <2>4. CASE a \notin 1 .. Len(q)
    BY <1>1, <2>2, <2>4
  <2> QED
    BY <2>3, <2>4
<1> QED
  BY <1>4, <1>5, <1>6

\* z queues what q does but its first task, t.
Shifted(q, z, t) ==
    /\ z \in Seq(Task) /\ Len(q) = Len(z) + 1 /\ q[1] = t /\ t \in Task
    /\ \A i \in 1 .. Len(z) : z[i] = q[i + 1]

LEMMA TailIs ==
    ASSUME NEW q \in Seq(Task), q # << >>
    PROVE  Shifted(q, Tail(q), Head(q))
BY DEF Shifted

LEMMA Shifts ==
    ASSUME NEW q \in Seq(Task), NEW z, NEW t, Shifted(q, z, t), Once(q)
    PROVE  /\ Once(z)
           /\ t.kind = "block" => Part(t) \notin QueuedCopies(z) /\ QueuedCopies(q) = QueuedCopies(z) \cup {Part(t)}
           /\ t.kind # "block" => QueuedCopies(q) = QueuedCopies(z)
           /\ t.kind = "point" => t.job \notin QueuedPoints(z) /\ QueuedPoints(q) = QueuedPoints(z) \cup {t.job}
           /\ t.kind # "point" => QueuedPoints(q) = QueuedPoints(z)
<1>1. /\ z \in Seq(Task) /\ Len(z) \in Nat /\ t \in Task /\ 1 \in 1 .. Len(q) /\ q[1] = t
      /\ \A i \in 1 .. Len(q) : i = 1 \/ (i - 1 \in 1 .. Len(z) /\ z[i - 1] = q[i])
  BY DEF Shifted
<1>2. \A i \in 1 .. Len(z) : i + 1 \in 1 .. Len(q) /\ z[i] = q[i + 1] /\ i + 1 # 1
  BY DEF Shifted
<1>3. \A x : x \in QueuedCopies(q) <=> x \in QueuedCopies(z) \/ (t.kind = "block" /\ x = Part(t))
  <2>1. ASSUME NEW x \in QueuedCopies(q) PROVE x \in QueuedCopies(z) \/ (t.kind = "block" /\ x = Part(t))
    <3>1. PICK i \in 1 .. Len(q) : q[i].kind = "block" /\ x = Part(q[i])
      BY InQueue
    <3>2. CASE i = 1
      BY <1>1, <3>1, <3>2
    <3>3. CASE i # 1
      <4>1. PICK a \in 1 .. Len(z) : z[a] = q[i]
        BY <1>1, <3>3
      <4> QED
        BY <1>1, <3>1, <4>1, InQueue
    <3> QED
      BY <3>2, <3>3
  <2>2. ASSUME NEW x \in QueuedCopies(z) PROVE x \in QueuedCopies(q)
    <3>1. PICK i \in 1 .. Len(z) : z[i].kind = "block" /\ x = Part(z[i])
      BY <1>1, InQueue
    <3> QED
      BY <1>2, <3>1, InQueue
  <2>3. t.kind = "block" => Part(t) \in QueuedCopies(q)
    BY <1>1, InQueue
  <2> QED
    BY <2>1, <2>2, <2>3
<1>4. \A j : j \in QueuedPoints(q) <=> j \in QueuedPoints(z) \/ (t.kind = "point" /\ j = t.job)
  <2>1. ASSUME NEW j \in QueuedPoints(q) PROVE j \in QueuedPoints(z) \/ (t.kind = "point" /\ j = t.job)
    <3>1. PICK i \in 1 .. Len(q) : q[i].kind = "point" /\ j = q[i].job
      BY InQueue
    <3>2. CASE i = 1
      BY <1>1, <3>1, <3>2
    <3>3. CASE i # 1
      <4>1. PICK a \in 1 .. Len(z) : z[a] = q[i]
        BY <1>1, <3>3
      <4> QED
        BY <1>1, <3>1, <4>1, InQueue
    <3> QED
      BY <3>2, <3>3
  <2>2. ASSUME NEW j \in QueuedPoints(z) PROVE j \in QueuedPoints(q)
    <3>1. PICK i \in 1 .. Len(z) : z[i].kind = "point" /\ j = z[i].job
      BY <1>1, InQueue
    <3> QED
      BY <1>2, <3>1, InQueue
  <2>3. t.kind = "point" => t.job \in QueuedPoints(q)
    BY <1>1, InQueue
  <2> QED
    BY <2>1, <2>2, <2>3
<1>5. Once(z)
  <2> SUFFICES ASSUME NEW a \in 1 .. Len(z), NEW b \in 1 .. Len(z), z[a] = z[b], z[a].kind \in {"block", "point"}
               PROVE  a = b
    BY <1>1 DEF Once
  <2>1. a + 1 = b + 1
    BY <1>2, OnceOf
  <2> QED
    BY <2>1
<1>6. ASSUME NEW i \in 1 .. Len(z), t.kind \in {"block", "point"} PROVE z[i] # t
  BY <1>1, <1>2, <1>6, OnceOf
<1>7. t.kind = "block" => Part(t) \notin QueuedCopies(z)
  <2> SUFFICES ASSUME t.kind = "block", Part(t) \in QueuedCopies(z) PROVE FALSE
    OBVIOUS
  <2>1. PICK i \in 1 .. Len(z) : z[i].kind = "block" /\ Part(t) = Part(z[i]) /\ z[i] \in Task
    BY <1>1, InQueue
  <2> QED
    BY <1>1, <1>6, <2>1, PartExact
<1>8. t.kind = "point" => t.job \notin QueuedPoints(z)
  <2> SUFFICES ASSUME t.kind = "point", t.job \in QueuedPoints(z) PROVE FALSE
    OBVIOUS
  <2>1. PICK i \in 1 .. Len(z) : z[i].kind = "point" /\ t.job = z[i].job /\ z[i] \in Task
    BY <1>1, InQueue
  <2> QED
    BY <1>1, <1>6, <2>1, PointExact
<1> QED
  BY <1>3, <1>4, <1>5, <1>7, <1>8

\* z queues what q does, and the points of the N writes of f behind it.
Extended(q, z, f, N) ==
    /\ z \in Seq(Task) /\ Len(z) = Len(q) + N
    /\ \A i \in 1 .. Len(q) : z[i] = q[i]
    /\ \A i \in 1 .. N : z[Len(q) + i] = [kind |-> "point", job |-> f[i]]

LEMMA ConcatIs ==
    ASSUME NEW q \in Seq(Task), NEW N \in Nat, NEW f \in [1 .. N -> Jobs]
    PROVE  Extended(q, q \o [i \in 1 .. N |-> [kind |-> "point", job |-> f[i]]], f, N)
<1> DEFINE more == [i \in 1 .. N |-> [kind |-> "point", job |-> f[i]]]
<1>1. more \in [1 .. N -> Task]
  BY PointTaskType
<1>2. more \in Seq(Task) /\ Len(more) = N /\ \A i \in 1 .. N : more[i] = [kind |-> "point", job |-> f[i]]
  <2>1. more \in Seq(Task)
    <3> HIDE DEF more
    <3> QED
      BY <1>1, FunctionIsSeq
  <2> QED
    BY <1>1, <2>1
<1> HIDE DEF more
<1>3. Extended(q, q \o more, f, N)
  <2>1. more \in Seq(Task) /\ Len(more) = N
    BY <1>2
  <2>2. /\ q \o more \in Seq(Task) /\ Len(q \o more) = Len(q) + N
        /\ \A i \in 1 .. Len(q) + N :
              (q \o more)[i] = IF i <= Len(q) THEN q[i] ELSE more[i - Len(q)]
    BY <2>1, ConcatProperties
  <2>3. \A i \in 1 .. N : Len(q) + i \in 1 .. Len(q) + N /\ Len(q) + i - Len(q) = i /\ ~(Len(q) + i <= Len(q))
    OBVIOUS
  <2>4. \A i \in 1 .. Len(q) : i \in 1 .. Len(q) + N /\ i <= Len(q)
    OBVIOUS
  <2> QED
    BY <1>2, <2>2, <2>3, <2>4 DEF Extended
<1> QED
  BY <1>3 DEF more

LEMMA Extends ==
    ASSUME NEW q \in Seq(Task), Once(q), NEW N \in Nat, NEW R \in SUBSET Jobs,
           NEW f \in [1 .. N -> R], IsInjective(f), R \cap QueuedPoints(q) = {},
           NEW z, Extended(q, z, f, N)
    PROVE  /\ z \in Seq(Task) /\ Once(z) /\ QueuedCopies(z) = QueuedCopies(q)
           /\ QueuedPoints(q) \subseteq QueuedPoints(z) /\ QueuedPoints(z) \subseteq QueuedPoints(q) \cup R
<1>1. /\ z \in Seq(Task) /\ Len(z) = Len(q) + N /\ Len(q) \in Nat
      /\ \A i \in 1 .. Len(q) : i \in 1 .. Len(z) /\ z[i] = q[i]
  BY DEF Extended
<1>2. z \in Seq(Task) /\ \A i \in 1 .. Len(q) : i \in 1 .. Len(z) /\ z[i] = q[i]
  BY <1>1
<1>3. \A i \in 1 .. Len(z) : i \in 1 .. Len(q) \/ (i - Len(q) \in 1 .. N /\ z[i].kind = "point"
                                                    /\ z[i].job = f[i - Len(q)] /\ z[i].job \in R)
  <2> SUFFICES ASSUME NEW i \in 1 .. Len(z), i \notin 1 .. Len(q)
               PROVE  i - Len(q) \in 1 .. N /\ z[i].kind = "point" /\ z[i].job = f[i - Len(q)] /\ z[i].job \in R
    OBVIOUS
  <2> DEFINE a == i - Len(q)
  <2>1. a \in 1 .. N /\ i = Len(q) + a
    BY <1>1
  <2> HIDE DEF a
  <2>2. z[i] = [kind |-> "point", job |-> f[a]] /\ f[a] \in R
    BY <2>1 DEF Extended
  <2> QED
    BY <2>1, <2>2 DEF a
<1>4. \A x : x \in QueuedCopies(z) <=> x \in QueuedCopies(q)
  <2>1. ASSUME NEW x \in QueuedCopies(z) PROVE x \in QueuedCopies(q)
    <3>1. PICK i \in 1 .. Len(z) : z[i].kind = "block" /\ x = Part(z[i])
      BY <1>1, InQueue
    <3>2. i \in 1 .. Len(q)
      BY <1>3, <3>1
    <3> QED
      BY <1>1, <3>1, <3>2, InQueue
  <2>2. ASSUME NEW x \in QueuedCopies(q) PROVE x \in QueuedCopies(z)
    <3>1. PICK i \in 1 .. Len(q) : q[i].kind = "block" /\ x = Part(q[i])
      BY InQueue
    <3>2. z[i].kind = "block" /\ x = Part(z[i]) /\ i \in 1 .. Len(z)
      BY <1>2, <3>1
    <3> QED
      BY <1>2, <3>2, InQueue
  <2> QED
    BY <2>1, <2>2
<1>5. QueuedPoints(q) \subseteq QueuedPoints(z)
  <2> SUFFICES ASSUME NEW j \in QueuedPoints(q) PROVE j \in QueuedPoints(z)
    OBVIOUS
  <2>1. PICK i \in 1 .. Len(q) : q[i].kind = "point" /\ j = q[i].job
    BY InQueue
  <2>2. z[i].kind = "point" /\ j = z[i].job /\ i \in 1 .. Len(z)
    BY <1>2, <2>1
  <2> QED
    BY <1>2, <2>2, InQueue
<1>6. QueuedPoints(z) \subseteq QueuedPoints(q) \cup R
  <2> SUFFICES ASSUME NEW j \in QueuedPoints(z) PROVE j \in QueuedPoints(q) \cup R
    OBVIOUS
  <2>1. PICK i \in 1 .. Len(z) : z[i].kind = "point" /\ j = z[i].job
    BY <1>1, InQueue
  <2>2. CASE i \in 1 .. Len(q)
    BY <1>2, <2>1, <2>2, InQueue
  <2>3. CASE i \notin 1 .. Len(q)
    BY <1>3, <2>1, <2>3
  <2> QED
    BY <2>2, <2>3
<1>7. Once(z)
  <2> SUFFICES ASSUME NEW a \in 1 .. Len(z), NEW b \in 1 .. Len(z), z[a] = z[b], z[a].kind \in {"block", "point"}
               PROVE  a = b
    BY <1>2 DEF Once
  <2>1. ASSUME NEW i \in 1 .. Len(q), NEW k \in 1 .. Len(z), k \notin 1 .. Len(q) PROVE z[i] # z[k]
    <3>1. z[k].kind = "point" /\ z[k].job \in R
      BY <1>3, <2>1
    <3>2. q[i].kind = "point" => q[i].job \in QueuedPoints(q)
      BY InQueue
    <3> QED
      BY <1>1, <3>1, <3>2
  <2>2. CASE a \in 1 .. Len(q)
    <3>1. b \in 1 .. Len(q)
      BY <2>1, <2>2
    <3> QED
      BY <1>1, <2>2, <3>1, OnceOf
  <2>3. CASE a \notin 1 .. Len(q)
    <3>1. b \notin 1 .. Len(q)
      BY <2>1, <2>3
    <3>2. f[a - Len(q)] = f[b - Len(q)] /\ a - Len(q) \in 1 .. N /\ b - Len(q) \in 1 .. N
      BY <1>3, <2>3, <3>1
    <3>3. a - Len(q) = b - Len(q)
      BY <3>2 DEF IsInjective
    <3> QED
      BY <1>1, <3>3
  <2> QED
    BY <2>2, <2>3
<1> QED
  BY <1>1, <1>4, <1>5, <1>6, <1>7

-----------------------------------------------------------------------------
(* What leaves writes, flights, slots and the queued work alone *)

Alike(s, z) ==
    /\ z \in Store /\ z.jobs = s.jobs /\ z.inflight = s.inflight /\ z.free = s.free
    /\ Once(s.tasks) => /\ QueuedCopies(z.tasks) = QueuedCopies(s.tasks)
                        /\ QueuedPoints(z.tasks) = QueuedPoints(s.tasks) /\ Once(z.tasks)

LEMMA AlikeSound ==
    ASSUME NEW s, NEW z, NEW E, NEW P, NEW X, Sound(s, E, P, X), Alike(s, z)
    PROVE  Sound(z, E, P, X)
<1>1. Once(s.tasks)
  BY DEF Sound, QueueFits
<1>2. /\ z \in Store /\ z.jobs = s.jobs /\ z.inflight = s.inflight /\ z.free = s.free
      /\ QueuedCopies(z.tasks) = QueuedCopies(s.tasks) /\ QueuedPoints(z.tasks) = QueuedPoints(s.tasks) /\ Once(z.tasks)
  BY <1>1 DEF Alike
<1>3. JobsFit(z) /\ Flights(z) /\ Owners(z, X)
  BY <1>2 DEF Sound, JobsFit, Flights, Owners
<1>4. SlotsFit(z, QueuedCopies(z.tasks) \cup E)
  BY <1>2 DEF Sound, SlotsFit, CopiesFit, TailsFit, FreeFits
<1>5. QueueFits(z, E, P)
  BY <1>2 DEF Sound, QueueFits
<1> QED
  BY <1>2, <1>3, <1>4, <1>5 DEF Sound

LEMMA AlikeTrans ==
    ASSUME NEW s, NEW z, NEW u, Alike(s, z), Alike(z, u)
    PROVE  Alike(s, u)
BY DEF Alike

LEMMA AlikeSelf ==
    ASSUME NEW s \in Store
    PROVE  Alike(s, s)
BY DEF Alike

LEMMA QueueAlike ==
    ASSUME NEW s \in Store, NEW t \in Task, t.kind \notin {"block", "point"}
    PROVE  Alike(s, Queue(s, t))
<1> DEFINE z == Queue(s, t)
<1>1. z \in Store
  BY QueueType DEF Keeps
<1>2. s.tasks \in Seq(Task)
  BY StoreFields
<1>3. z.jobs = s.jobs /\ z.inflight = s.inflight /\ z.free = s.free /\ z.tasks = Append(s.tasks, t)
  BY DEF Queue, Store
<1> HIDE DEF z
<1>4. Once(s.tasks) => /\ QueuedCopies(z.tasks) = QueuedCopies(s.tasks)
                       /\ QueuedPoints(z.tasks) = QueuedPoints(s.tasks) /\ Once(z.tasks)
  BY <1>2, <1>3, AppendIs, AppendsOther
<1>5. Alike(s, z)
  BY <1>1, <1>3, <1>4 DEF Alike
<1> QED
  BY <1>5 DEF z

LEMMA UnlinkAlike ==
    ASSUME NEW s \in Store, NEW z \in Store, NEW K \in SUBSET Keys, NEW S \in SUBSET Names,
           z.jobs = s.jobs, z.inflight = s.inflight, z.free = s.free,
           z.tasks = Append(s.tasks, [kind |-> "unlink", keys |-> K, names |-> S])
    PROVE  Alike(s, z)
<1> DEFINE t == [kind |-> "unlink", keys |-> K, names |-> S]
<1>1. t \in Task /\ t.kind \notin {"block", "point"}
  BY UnlinkType
<1>2. z.tasks = Append(s.tasks, t)
  OBVIOUS
<1> HIDE DEF t
<1>3. Once(s.tasks) => /\ QueuedCopies(z.tasks) = QueuedCopies(s.tasks)
                       /\ QueuedPoints(z.tasks) = QueuedPoints(s.tasks) /\ Once(z.tasks)
  BY <1>1, <1>2, StoreFields, AppendIs, AppendsOther
<1> QED
  BY <1>3 DEF Alike

LEMMA RefAlike ==
    ASSUME NEW s \in Store, NEW S
    PROVE  Alike(s, Ref(s, S)) /\ Alike(s, Unref(s, S))
<1>1. Ref(s, S) \in Store /\ Unref(s, S) \in Store
  BY RefType DEF Keeps
<1>2. /\ Ref(s, S).jobs = s.jobs /\ Ref(s, S).inflight = s.inflight /\ Ref(s, S).free = s.free
      /\ Ref(s, S).tasks = s.tasks
  BY DEF Ref, Store
<1>3. /\ Unref(s, S).jobs = s.jobs /\ Unref(s, S).inflight = s.inflight /\ Unref(s, S).free = s.free
      /\ Unref(s, S).tasks = s.tasks
  BY DEF Unref, Store
<1> QED
  BY <1>1, <1>2, <1>3 DEF Alike

LEMMA DropBlocksAlike ==
    ASSUME NEW s \in Store, NEW S
    PROVE  Alike(s, DropBlocks(s, S)) /\ Alike(s, Gc(s, S))
<1>1. ASSUME NEW T PROVE Alike(s, DropBlocks(s, T))
  <2> DEFINE gone == T \cap s.have
             z == DropBlocks(s, T)
  <2>1. z \in Store /\ gone \in SUBSET Names
    BY DropBlocksType, StoreFields DEF Keeps
  <2>2. CASE gone = {}
    BY <2>2, AlikeSelf DEF DropBlocks
  <2>3. CASE gone # {}
    <3>1. z = [s EXCEPT !.have = @ \ gone, !.stored = @ - Cardinality(gone),
                        !.tasks = Append(@, [kind |-> "unlink", keys |-> {}, names |-> gone])]
      BY <2>3 DEF DropBlocks
    <3>2. /\ z.jobs = s.jobs /\ z.inflight = s.inflight /\ z.free = s.free
          /\ z.tasks = Append(s.tasks, [kind |-> "unlink", keys |-> {}, names |-> gone])
      BY <3>1 DEF Store
    <3> HIDE DEF z, gone
    <3>3. Alike(s, z)
      BY <2>1, <3>2, UnlinkAlike
    <3> QED
      BY <3>3 DEF z
  <2> QED
    BY <2>2, <2>3
<1> QED
  BY <1>1 DEF Gc

LEMMA RemovePointsAlike ==
    ASSUME NEW s \in Store, NEW V
    PROVE  Alike(s, RemovePoints(s, V))
<1> DEFINE gone == V \cap s.points
           named(n) == Cardinality({k \in gone : n \in Blocks(k)})
           refs == [n \in Names |-> IF named(n) < s.refs[n] THEN s.refs[n] - named(n) ELSE 0]
           stored == s.stored - FileBytes * Cardinality(gone)
           s1 == [s EXCEPT !.points = @ \ gone, !.shared = @ \ gone, !.refs = refs,
                           !.stored = stored,
                           !.tasks = Append(@, [kind |-> "unlink", keys |-> gone, names |-> {}])]
<1>1. gone \in SUBSET Keys
  BY StoreFields
<1>2. s1.jobs = s.jobs /\ s1.inflight = s.inflight /\ s1.free = s.free
      /\ s1.tasks = Append(s.tasks, [kind |-> "unlink", keys |-> gone, names |-> {}])
  <2> HIDE DEF refs, stored, gone
  <2> QED
    BY DEF Store
<1>3. RemovePoints(s, V) = IF gone = {} THEN s ELSE Gc(s1, UNION {Blocks(k) : k \in gone})
  BY DEF RemovePoints
<1>4. s1 \in Store
  <2>1. refs \in [Names -> Nat]
    <3>1. \A n \in Names : named(n) \in Nat
      <4> SUFFICES ASSUME NEW n \in Names PROVE {k \in gone : n \in Blocks(k)} \in SUBSET Keys
        BY SubsetCardinality
      <4> QED
        BY <1>1
    <3> QED
      BY <3>1, StoreFields
  <2>2. stored \in Int
    <3>1. Cardinality(gone) \in Nat
      BY <1>1, SubsetCardinality
    <3> QED
      BY <3>1, StoreFields, ConstantsAssumption
  <2>3. Append(s.tasks, [kind |-> "unlink", keys |-> gone, names |-> {}]) \in Seq(Task)
    BY <1>1, UnlinkType, AppendType
  <2>4. s.points \ gone \in SUBSET Keys /\ s.shared \ gone \in SUBSET Keys
    BY StoreFields
  <2> HIDE DEF refs, stored, gone
  <2> QED
    BY <2>1, <2>2, <2>3, <2>4 DEF Store
<1> HIDE DEF s1
<1>5. Alike(s, s1)
  <2> HIDE DEF gone
  <2> QED
    BY <1>1, <1>2, <1>4, UnlinkAlike
<1>6. Alike(s, Gc(s1, UNION {Blocks(k) : k \in gone}))
  BY <1>4, <1>5, DropBlocksAlike, AlikeTrans
<1> QED
  BY <1>3, <1>6, AlikeSelf

LEMMA AddBlockAlike ==
    ASSUME NEW s \in Store, NEW n \in Names
    PROVE  Alike(s, AddBlock(s, n))
<1>1. AddBlock(s, n) \in Store
  BY AddBlockType DEF Keeps
<1>2. /\ AddBlock(s, n).jobs = s.jobs /\ AddBlock(s, n).inflight = s.inflight
      /\ AddBlock(s, n).free = s.free /\ AddBlock(s, n).tasks = s.tasks
  BY DEF AddBlock, Store
<1> QED
  BY <1>1, <1>2 DEF Alike

LEMMA TrimPathAlike ==
    ASSUME NEW s \in Store, NEW p
    PROVE  Alike(s, TrimPath(s, p))
BY AlikeSelf, RemovePointsAlike DEF TrimPath

-----------------------------------------------------------------------------
(* Parked points that are ready go to the writer *)

Kin(a, b) ==
    /\ b.key = a.key /\ b.state = a.state /\ b.capture = a.capture
    /\ b.left = a.left /\ b.out = a.out /\ b.tailSlot = a.tailSlot

LEMMA KinFits ==
    ASSUME NEW a, NEW b, Kin(a, b)
    PROVE  /\ JobFits(a) /\ (b.parked => a.parked) => JobFits(b)
           /\ Writes(b) = Writes(a) /\ \A n : Owns(a, n) => Owns(b, n)
BY DEF Kin, JobFits, Writes, Owns

Rechecked(s, z) ==
    /\ z \in Store /\ z.inflight = s.inflight /\ z.free = s.free
    /\ \A j \in Jobs : Kin(s.jobs[j], z.jobs[j]) /\ (z.jobs[j].parked => s.jobs[j].parked)
    /\ Once(z.tasks) /\ QueuedCopies(z.tasks) = QueuedCopies(s.tasks)
    /\ \A j \in QueuedPoints(z.tasks) : ~z.jobs[j].parked /\ (j \in QueuedPoints(s.tasks) \/ s.jobs[j].parked)

\* No queued point is parked.
QueuedGo(s) == Once(s.tasks) /\ \A j \in QueuedPoints(s.tasks) : ~s.jobs[j].parked

LEMMA SetToSeqOnce ==
    ASSUME NEW S, IsFiniteSet(S)
    PROVE  SetToSeq(S) \in [1 .. Cardinality(S) -> S] /\ Cardinality(S) \in Nat /\ IsInjective(SetToSeq(S))
<1>1. Cardinality(S) \in Nat /\ ExistsBijection(1 .. Cardinality(S), S)
  BY FS_CardinalityType
<1>2. \E f \in [1 .. Cardinality(S) -> S] : IsInjective(f)
  BY <1>1 DEF ExistsBijection, Bijection, Injection, IsInjective
<1> QED
  BY <1>1, <1>2 DEF SetToSeq

LEMMA RecheckIs ==
    ASSUME NEW s \in Store, QueuedGo(s)
    PROVE  Rechecked(s, RecheckParked(s))
<1> DEFINE ready == {j \in Jobs : s.jobs[j].parked /\ BlocksSettled(s, j)}
           order == SetToSeq(ready)
           N == Cardinality(ready)
           jobs == [j \in Jobs |-> IF j \in ready THEN [s.jobs[j] EXCEPT !.parked = FALSE]
                                   ELSE s.jobs[j]]
           tasks == s.tasks \o [i \in 1 .. N |-> [kind |-> "point", job |-> order[i]]]
           z == RecheckParked(s)
<1>1. ready \in SUBSET Jobs /\ \A j \in ready : s.jobs[j].parked
  OBVIOUS
<1>2. order \in [1 .. N -> ready] /\ N \in Nat /\ IsInjective(order)
  <2>1. IsFiniteSet(ready)
    BY JobsFinite, FS_Subset
  <2> QED
    BY <2>1, SetToSeqOnce
<1>3. z = [s EXCEPT !.jobs = jobs, !.tasks = tasks]
  <2>1. DOMAIN order = 1 .. N
    BY <1>2
  <2> QED
    BY <2>1 DEF RecheckParked
<1>4. \A j \in Jobs : /\ jobs[j].key = s.jobs[j].key /\ jobs[j].state = s.jobs[j].state
                      /\ jobs[j].capture = s.jobs[j].capture /\ jobs[j].left = s.jobs[j].left
                      /\ jobs[j].out = s.jobs[j].out /\ jobs[j].tailSlot = s.jobs[j].tailSlot
                      /\ (j \in ready => ~jobs[j].parked)
                      /\ (j \notin ready => jobs[j] = s.jobs[j])
  <2> SUFFICES ASSUME NEW j \in Jobs
               PROVE  /\ jobs[j].key = s.jobs[j].key /\ jobs[j].state = s.jobs[j].state
                      /\ jobs[j].capture = s.jobs[j].capture /\ jobs[j].left = s.jobs[j].left
                      /\ jobs[j].out = s.jobs[j].out /\ jobs[j].tailSlot = s.jobs[j].tailSlot
                      /\ (j \in ready => ~jobs[j].parked)
                      /\ (j \notin ready => jobs[j] = s.jobs[j])
    OBVIOUS
  <2>1. s.jobs[j] \in Job
    BY StoreFields
  <2>2. CASE j \in ready
    <3>1. jobs[j] = [s.jobs[j] EXCEPT !.parked = FALSE]
      BY <2>2
    <3> HIDE DEF jobs, ready
    <3> QED
      BY <2>1, <2>2, <3>1 DEF Job
  <2>3. CASE j \notin ready
    BY <2>3
  <2> QED
    BY <2>2, <2>3
<1>5. z \in Store
  BY RecheckParkedType DEF Keeps
<1>6. z.inflight = s.inflight /\ z.free = s.free /\ z.jobs = jobs /\ z.tasks = tasks
  <2> HIDE DEF jobs, tasks
  <2> QED
    BY <1>3 DEF Store
<1>7. ready \cap QueuedPoints(s.tasks) = {}
  BY <1>1 DEF QueuedGo
<1>8. /\ Once(tasks) /\ QueuedCopies(tasks) = QueuedCopies(s.tasks)
      /\ QueuedPoints(tasks) \subseteq QueuedPoints(s.tasks) \cup ready
  <2>1. s.tasks \in Seq(Task) /\ Once(s.tasks)
    BY StoreFields DEF QueuedGo
  <2>2. order \in [1 .. N -> Jobs]
    BY <1>1, <1>2
  <2>3. Extended(s.tasks, tasks, order, N)
    <3> HIDE DEF order, N
    <3> QED
      BY <1>2, <2>1, <2>2, ConcatIs
  <2> HIDE DEF order, N, tasks, ready
  <2> QED
    BY <1>1, <1>2, <1>7, <2>1, <2>3, Extends
<1>9. \A j \in QueuedPoints(tasks) : j \in Jobs
  BY <1>5, <1>6, StoreFields, InQueue
<1>10. \A j \in QueuedPoints(tasks) : ~jobs[j].parked /\ (j \in QueuedPoints(s.tasks) \/ s.jobs[j].parked)
  <2> HIDE DEF jobs, tasks, ready
  <2> QED
    BY <1>1, <1>4, <1>8, <1>9 DEF QueuedGo
<1>11. \A j \in Jobs : Kin(s.jobs[j], jobs[j]) /\ (jobs[j].parked => s.jobs[j].parked)
  <2> HIDE DEF jobs, ready
  <2> QED
    BY <1>4 DEF Kin
<1> HIDE DEF jobs, tasks, ready, z
<1>12. Rechecked(s, z)
  BY <1>5, <1>6, <1>8, <1>10, <1>11 DEF Rechecked
<1> QED
  BY <1>12 DEF z

LEMMA RecheckSound ==
    ASSUME NEW s, NEW z, NEW E, NEW P, NEW X, Sound(s, E, P, X), Rechecked(s, z)
    PROVE  Sound(z, E, P, X)
<1>1. \A j \in Jobs : Kin(s.jobs[j], z.jobs[j]) /\ (z.jobs[j].parked => s.jobs[j].parked)
  BY DEF Rechecked
<1>2. /\ z \in Store /\ z.inflight = s.inflight /\ z.free = s.free
      /\ QueuedCopies(z.tasks) = QueuedCopies(s.tasks) /\ Once(z.tasks)
  BY DEF Rechecked
<1>3. \A j \in Jobs : /\ z.jobs[j].tailSlot = s.jobs[j].tailSlot /\ z.jobs[j].out = s.jobs[j].out
                      /\ z.jobs[j].state = s.jobs[j].state
  BY <1>1 DEF Kin
<1>4. JobsFit(z)
  BY <1>1, KinFits DEF Sound, JobsFit
<1>5. Flights(z)
  BY <1>1, <1>2, KinFits DEF Sound, Flights
<1>6. Owners(z, X)
  <2> SUFFICES ASSUME NEW n \in Names, z.inflight[n] # NoJob
               PROVE  Owns(z.jobs[z.inflight[n]], n) \/ <<z.inflight[n], n>> \in X
    BY DEF Owners
  <2>1. s.inflight[n] \in Jobs /\ z.inflight[n] = s.inflight[n]
    BY <1>2, StoreFields
  <2>2. Owns(s.jobs[s.inflight[n]], n) \/ <<s.inflight[n], n>> \in X
    BY <2>1, ConstantsAssumption DEF Sound, Owners
  <2> QED
    BY <1>1, <2>1, <2>2, KinFits
<1>7. SlotsFit(z, QueuedCopies(z.tasks) \cup E)
  <2> DEFINE H == QueuedCopies(s.tasks) \cup E
  <2>1. H \in SUBSET Copy /\ SlotsFit(s, H) /\ QueuedCopies(z.tasks) \cup E = H
    BY <1>2, StoreFields, InQueue DEF Sound
  <2> HIDE DEF H
  <2>2. \A x \in H : x.job \in Jobs
    BY <2>1 DEF Copy
  <2>3. CopiesFit(z, H)
    BY <1>3, <2>1, <2>2 DEF SlotsFit, CopiesFit
  <2>4. TailsFit(z, H)
    BY <1>3, <2>1 DEF SlotsFit, TailsFit
  <2>5. FreeFits(z, H)
    BY <1>2, <1>3, <2>1 DEF SlotsFit, FreeFits
  <2> QED
    BY <2>1, <2>3, <2>4, <2>5 DEF SlotsFit
<1>8. QueueFits(z, E, P)
  <2>1. QueuedPoints(z.tasks) \subseteq Jobs /\ P \subseteq Jobs /\ QueueFits(s, E, P)
    BY <1>2, StoreFields, InQueue DEF Sound
  <2>2. \A j \in QueuedPoints(z.tasks) : ~z.jobs[j].parked /\ (j \in QueuedPoints(s.tasks) \/ s.jobs[j].parked)
    BY DEF Rechecked
  <2>3. \A j \in Jobs : s.jobs[j].parked => s.jobs[j].state = "publishing"
    BY DEF Sound, JobsFit, JobFits
  <2>4. \A j \in QueuedPoints(z.tasks) : j \notin P /\ z.jobs[j].state = "publishing"
    BY <1>3, <2>1, <2>2, <2>3 DEF QueueFits
  <2>5. \A j \in P : z.jobs[j].state = "publishing" /\ ~z.jobs[j].parked
    BY <1>1, <1>3, <2>1 DEF QueueFits
  <2> QED
    BY <1>2, <2>1, <2>2, <2>4, <2>5 DEF QueueFits
<1> QED
  BY <1>2, <1>4, <1>5, <1>6, <1>7, <1>8 DEF Sound

LEMMA SoundParts ==
    ASSUME NEW s, NEW E, NEW P, NEW X, Sound(s, E, P, X)
    PROVE  /\ s \in Store /\ s.jobs \in [Jobs -> Job] /\ s.inflight \in [Names -> Jobs \cup {NoJob}]
           /\ s.tasks \in Seq(Task) /\ s.free \in SUBSET WriteSlots
           /\ QueuedCopies(s.tasks) \cup E \in SUBSET Copy /\ QueuedPoints(s.tasks) \cup P \in SUBSET Jobs
           /\ \A x \in QueuedCopies(s.tasks) \cup E :
                 /\ x.job \in Jobs /\ x.name \in Names /\ x.slot \in WriteSlots
                 /\ x.name \in s.jobs[x.job].out
           /\ QueuedGo(s)
<1>1. s \in Store /\ E \in SUBSET Copy /\ P \in SUBSET Jobs
  BY DEF Sound
<1>2. /\ s.jobs \in [Jobs -> Job] /\ s.inflight \in [Names -> Jobs \cup {NoJob}]
      /\ s.tasks \in Seq(Task) /\ s.free \in SUBSET WriteSlots
  BY <1>1, StoreFields
<1>3. QueuedCopies(s.tasks) \cup E \in SUBSET Copy /\ QueuedPoints(s.tasks) \cup P \in SUBSET Jobs
  BY <1>1, <1>2, InQueue
<1>4. \A x \in QueuedCopies(s.tasks) \cup E : x.job \in Jobs /\ x.name \in Names /\ x.slot \in WriteSlots
  BY <1>3 DEF Copy
<1>5. \A x \in QueuedCopies(s.tasks) \cup E : x.name \in s.jobs[x.job].out
  BY DEF Sound, SlotsFit, CopiesFit
<1>6. QueuedGo(s)
  BY DEF Sound, QueueFits, QueuedGo
<1> QED
  BY <1>1, <1>2, <1>3, <1>4, <1>5, <1>6

\* One write's record changes.
OnlyJob(s, z, j) == \A i \in Jobs \ {j} : z.jobs[i] = s.jobs[i]

-----------------------------------------------------------------------------
(* A name in flight is dropped *)

LEMMA DropInflightSound ==
    ASSUME NEW s, NEW E, NEW P, NEW j \in Jobs, NEW n \in Names, Sound(s, E, P, {<<j, n>>}),
           n \notin Writes(s.jobs[j])
    PROVE  Sound(DropInflight(s, j, n), E, P, {})
<1>1. CASE s.inflight[n] # j
  <2>1. Owners(s, {})
    <3> SUFFICES ASSUME NEW m \in Names, s.inflight[m] # NoJob
                 PROVE  Owns(s.jobs[s.inflight[m]], m)
      BY DEF Owners
    <3>1. <<s.inflight[m], m>> # <<j, n>>
      BY <1>1
    <3> QED
      BY <3>1 DEF Sound, Owners
  <2>2. Sound(s, E, P, {})
    BY <2>1 DEF Sound
  <2> QED
    BY <1>1, <2>2 DEF DropInflight
<1>2. CASE s.inflight[n] = j
  <2> DEFINE inflight == [s.inflight EXCEPT ![n] = NoJob]
             z == [s EXCEPT !.inflight = inflight]
  <2>1. DropInflight(s, j, n) = RecheckParked(z)
    BY <1>2 DEF DropInflight
  <2>2. s \in Store /\ inflight \in [Names -> Jobs \cup {NoJob}]
    BY SoundParts
  <2>3. z \in Store /\ z.jobs = s.jobs /\ z.tasks = s.tasks /\ z.free = s.free /\ z.inflight = inflight
    <3> HIDE DEF inflight
    <3> QED
      BY <2>2 DEF Store
  <2>4. inflight[n] = NoJob /\ \A m \in Names \ {n} : inflight[m] = s.inflight[m]
    BY <2>2, SoundParts
  <2> HIDE DEF inflight, z
  <2>5. Flights(z)
    <3> SUFFICES ASSUME NEW i \in Jobs, NEW m \in Writes(z.jobs[i]) PROVE z.inflight[m] = i
      BY DEF Flights
    <3>1. s.inflight[m] = i
      BY <2>3 DEF Sound, Flights
    <3>2. m # n
      BY <1>2, <2>3, <3>1
    <3>3. m \in Names
      <4>1. z.jobs[i] \in Job
        BY <2>3, StoreFields
      <4> QED
        BY <4>1, JobFields, NamesType DEF Writes
    <3> QED
      BY <2>3, <2>4, <3>1, <3>2, <3>3
  <2>6. Owners(z, {})
    <3> SUFFICES ASSUME NEW m \in Names, z.inflight[m] # NoJob
                 PROVE  Owns(z.jobs[z.inflight[m]], m)
      BY DEF Owners
    <3>1. m # n /\ z.inflight[m] = s.inflight[m]
      BY <2>3, <2>4
    <3>2. <<s.inflight[m], m>> # <<j, n>>
      BY <3>1
    <3>3. Owns(s.jobs[s.inflight[m]], m)
      BY <3>1, <3>2 DEF Sound, Owners
    <3> QED
      BY <2>3, <3>1, <3>3
  <2>7. JobsFit(z)
    BY <2>3 DEF Sound, JobsFit
  <2>8. SlotsFit(z, QueuedCopies(z.tasks) \cup E)
    BY <2>3 DEF Sound, SlotsFit, CopiesFit, TailsFit, FreeFits
  <2>9. QueueFits(z, E, P) /\ QueuedGo(z)
    BY <2>3 DEF Sound, QueueFits, QueuedGo
  <2>10. Sound(z, E, P, {})
    BY <2>3, <2>5, <2>6, <2>7, <2>8, <2>9 DEF Sound
  <2> QED
    BY <2>1, <2>3, <2>9, <2>10, RecheckIs, RecheckSound
<1> QED
  BY <1>1, <1>2

-----------------------------------------------------------------------------
(* A write ends *)

EndedRecord(r) ==
    r.state = "ended" /\ r.left = {} /\ r.out = {} /\ r.tailSlot = NoSlot /\ ~r.parked /\ r.capture = "pending"

LEMMA EndedFits ==
    ASSUME NEW r, EndedRecord(r)
    PROVE  JobFits(r) /\ Writes(r) = {}
BY DEF EndedRecord, JobFits, Writes, LiveStates

\* j ended: its names are no longer in flight, nothing else changed.
Ended(s, z, j) ==
    /\ z \in Store /\ EndedRecord(z.jobs[j]) /\ OnlyJob(s, z, j)
    /\ z.free = s.free /\ z.tasks = s.tasks
    /\ \A n \in Names : z.inflight[n] = IF s.inflight[n] = j THEN NoJob ELSE s.inflight[n]

LEMMA EndedSound ==
    ASSUME NEW s, NEW z, NEW E, NEW P, NEW j \in Jobs, Sound(s, E, P, {}), Ended(s, z, j),
           s.jobs[j].out = {}, s.jobs[j].tailSlot = NoSlot, j \notin QueuedPoints(s.tasks)
    PROVE  Sound(z, E, P \ {j}, {})
<1> DEFINE H == QueuedCopies(s.tasks) \cup E
<1>1. /\ z \in Store /\ EndedRecord(z.jobs[j]) /\ z.free = s.free /\ z.tasks = s.tasks
      /\ \A i \in Jobs \ {j} : z.jobs[i] = s.jobs[i]
      /\ \A n \in Names : z.inflight[n] = IF s.inflight[n] = j THEN NoJob ELSE s.inflight[n]
  BY DEF Ended, OnlyJob
<1>2. z.jobs[j].out = {} /\ z.jobs[j].tailSlot = NoSlot
  BY <1>1 DEF EndedRecord
<1>3. JobsFit(z)
  BY <1>1, EndedFits DEF Sound, JobsFit
<1>4. Flights(z)
  <2> SUFFICES ASSUME NEW i \in Jobs, NEW m \in Writes(z.jobs[i]) PROVE z.inflight[m] = i
    BY DEF Flights
  <2>1. i # j
    BY <1>1, EndedFits
  <2>2. s.inflight[m] = i
    BY <1>1, <2>1 DEF Sound, Flights
  <2>3. m \in Names
    <3>1. z.jobs[i] \in Job
      BY <1>1, StoreFields
    <3> QED
      BY <3>1, JobFields, NamesType DEF Writes
  <2> QED
    BY <1>1, <2>1, <2>2, <2>3
<1>5. Owners(z, {})
  <2> SUFFICES ASSUME NEW m \in Names, z.inflight[m] # NoJob
               PROVE  Owns(z.jobs[z.inflight[m]], m)
    BY DEF Owners
  <2>1. z.inflight[m] = s.inflight[m] /\ s.inflight[m] # j /\ s.inflight[m] \in Jobs
    BY <1>1, SoundParts
  <2>2. Owns(s.jobs[s.inflight[m]], m)
    BY <2>1 DEF Sound, Owners
  <2> QED
    BY <1>1, <2>1, <2>2
<1>6. SlotsFit(z, QueuedCopies(z.tasks) \cup E)
  <2>1. SlotsFit(s, H) /\ QueuedCopies(z.tasks) \cup E = H
    BY <1>1 DEF Sound
  <2>2. \A x \in H : x.job \in Jobs /\ x.job # j
    BY SoundParts
  <2> HIDE DEF H
  <2>3. CopiesFit(z, H)
    BY <1>1, <2>1, <2>2 DEF SlotsFit, CopiesFit
  <2>4. TailsFit(z, H)
    BY <1>1, <1>2, <2>1 DEF SlotsFit, TailsFit
  <2>5. FreeFits(z, H)
    BY <1>1, <1>2, <2>1 DEF SlotsFit, FreeFits
  <2> QED
    BY <2>1, <2>3, <2>4, <2>5 DEF SlotsFit
<1>7. QueueFits(z, E, P \ {j})
  BY <1>1, SoundParts DEF Sound, QueueFits
<1> QED
  BY <1>1, <1>3, <1>4, <1>5, <1>6, <1>7 DEF Sound

LEMMA EndJobSound ==
    ASSUME NEW s, NEW E, NEW P, NEW j \in Jobs, NEW b \in BOOLEAN, Sound(s, E, P, {}),
           s.jobs[j].out = {}, s.jobs[j].tailSlot = NoSlot, j \notin QueuedPoints(s.tasks)
    PROVE  Sound(EndJob(s, j, b), E, P \ {j}, {})
<1> DEFINE k == s.jobs[j].key
           s1 == GiveSlot(s, s.jobs[j].tailSlot)
           inflight == [n \in Names |-> IF s1.inflight[n] = j THEN NoJob ELSE s1.inflight[n]]
           queued == s1.queued - s.jobs[j].size
           shared == IF b THEN s1.shared ELSE s1.shared \ {k}
           r == [NoWrite EXCEPT !.state = "ended"]
           jobs == [s1.jobs EXCEPT ![j] = r]
           s2 == [s1 EXCEPT !.inflight = inflight, !.queued = queued,
                            !.shared = shared, !.jobs = jobs]
           s4 == Gc(Unref(s2, Blocks(k)), Blocks(k))
<1>1. s \in Store /\ s.jobs[j] \in Job
  BY SoundParts
<1>2. s1 \in Store /\ s1.inflight = s.inflight /\ s1.jobs = s.jobs /\ s1.tasks = s.tasks /\ s1.free = s.free
  <2>1. s1 \in Store
    BY <1>1, JobFields, GiveSlotType DEF Keeps
  <2>2. s1 = [s EXCEPT !.free = s.free]
    BY DEF GiveSlot
  <2> HIDE DEF s1
  <2> QED
    BY <1>1, <2>1, <2>2 DEF Store
<1> HIDE DEF s1
<1>3. r \in Job /\ EndedRecord(r)
  BY ConstantsAssumption DEF NoWrite, Job, LiveStates, EndedRecord
<1>4. inflight \in [Names -> Jobs \cup {NoJob}] /\ shared \in SUBSET Keys
  BY <1>2, StoreFields
<1>5. queued \in Int
  BY <1>1, <1>2, StoreFields, JobFields
<1>6. jobs \in [Jobs -> Job] /\ jobs[j] = r /\ \A i \in Jobs \ {j} : jobs[i] = s.jobs[i]
  BY <1>2, <1>3, StoreFields
<1>7. s2 \in Store /\ s2.jobs = jobs /\ s2.inflight = inflight /\ s2.tasks = s.tasks /\ s2.free = s.free
  <2> HIDE DEF inflight, queued, shared, jobs
  <2> QED
    BY <1>2, <1>4, <1>5, <1>6 DEF Store
<1>8. EndJob(s, j, b) = RecheckParked(s4)
  BY DEF EndJob, s1
<1> HIDE DEF s2, jobs, r
<1>9. Ended(s, s2, j)
  <2>1. \A n \in Names : s2.inflight[n] = IF s.inflight[n] = j THEN NoJob ELSE s.inflight[n]
    BY <1>2, <1>7
  <2> HIDE DEF inflight
  <2> QED
    BY <1>3, <1>6, <1>7, <2>1 DEF Ended, OnlyJob
<1>10. Sound(s2, E, P \ {j}, {})
  BY <1>9, EndedSound
<1>11. Alike(s2, s4)
  <2>1. Alike(s2, Unref(s2, Blocks(k)))
    BY <1>7, RefAlike
  <2>2. Unref(s2, Blocks(k)) \in Store
    BY <2>1 DEF Alike
  <2> QED
    BY <2>1, <2>2, DropBlocksAlike, AlikeTrans
<1> HIDE DEF s4
<1>12. Sound(s4, E, P \ {j}, {})
  BY <1>10, <1>11, AlikeSound
<1> QED
  BY <1>8, <1>12, SoundParts, RecheckIs, RecheckSound

-----------------------------------------------------------------------------
(* A write is published or ends when nothing of it is left to do *)

LEMMA RecordIs ==
    ASSUME NEW s \in Store, NEW j \in Jobs, NEW r \in Job, NEW z, z = [s EXCEPT !.jobs[j] = r]
    PROVE  /\ z \in Store /\ z.jobs[j] = r /\ OnlyJob(s, z, j)
           /\ z.inflight = s.inflight /\ z.tasks = s.tasks /\ z.free = s.free
<1>1. z \in Store
  BY JobUpdateType DEF Keeps
<1>2. z.jobs = [s.jobs EXCEPT ![j] = r] /\ z.inflight = s.inflight /\ z.tasks = s.tasks /\ z.free = s.free
  BY DEF Store
<1>3. s.jobs \in [Jobs -> Job]
  BY StoreFields
<1> QED
  BY <1>1, <1>2, <1>3 DEF OnlyJob

LEMMA PublishSound ==
    ASSUME NEW s, NEW E, NEW P, NEW j \in Jobs, Sound(s, E, P, {}),
           s.jobs[j].state = "open", s.jobs[j].left = {}, s.jobs[j].out = {},
           s.jobs[j].capture = "ok", s.jobs[j].tailSlot = NoSlot
    PROVE  Sound(Queue([s EXCEPT !.jobs[j].state = "publishing"], [kind |-> "point", job |-> j]), E, P, {})
<1> DEFINE r == [s.jobs[j] EXCEPT !.state = "publishing"]
           s1 == [s EXCEPT !.jobs[j].state = "publishing"]
           t == [kind |-> "point", job |-> j]
           z == Queue(s1, t)
           H == QueuedCopies(s.tasks) \cup E
<1>1. s \in Store /\ s.jobs[j] \in Job
  BY SoundParts
<1>2. /\ r \in Job /\ r.state = "publishing" /\ r.left = {} /\ r.out = {} /\ r.capture = "ok"
      /\ r.tailSlot = NoSlot /\ r.parked = s.jobs[j].parked
  BY <1>1 DEF Job, LiveStates
<1>3. /\ s1 \in Store /\ s1.jobs[j] = r /\ OnlyJob(s, s1, j)
      /\ s1.inflight = s.inflight /\ s1.tasks = s.tasks /\ s1.free = s.free
  <2>1. s1 = [s EXCEPT !.jobs[j] = r]
    OBVIOUS
  <2> HIDE DEF r, s1
  <2> QED
    BY <1>1, <1>2, <2>1, RecordIs
<1> HIDE DEF r, s1
<1>4. t \in Task /\ t.kind = "point" /\ t.job = j
  BY PointTaskType
<1>5. z \in Store /\ z.jobs = s1.jobs /\ z.inflight = s.inflight /\ z.free = s.free
      /\ z.tasks = Append(s.tasks, t)
  <2>1. z \in Store
    BY <1>3, <1>4, QueueType DEF Keeps
  <2> HIDE DEF t
  <2> QED
    BY <1>3, <2>1 DEF Queue, Store
<1>6. /\ ~s.jobs[j].parked /\ j \notin QueuedPoints(s.tasks) \cup P
  BY DEF Sound, JobsFit, JobFits, QueueFits
<1> HIDE DEF t, z
<1>7. /\ QueuedCopies(z.tasks) = QueuedCopies(s.tasks) /\ QueuedPoints(z.tasks) = QueuedPoints(s.tasks) \cup {j}
      /\ Once(z.tasks)
  <2>1. s.tasks \in Seq(Task) /\ Once(s.tasks)
    BY SoundParts DEF QueuedGo
  <2>2. Appended(s.tasks, z.tasks, t)
    BY <1>4, <1>5, <2>1, AppendIs
  <2> QED
    BY <1>4, <1>6, <2>1, <2>2, AppendsPoint
<1>8. z.jobs[j] = r /\ \A i \in Jobs \ {j} : z.jobs[i] = s.jobs[i]
  BY <1>3, <1>5 DEF OnlyJob
<1>9. JobsFit(z)
  <2>1. JobFits(r)
    BY <1>2, <1>6 DEF JobFits, LiveStates
  <2> QED
    BY <1>8, <2>1 DEF Sound, JobsFit
<1>10. Flights(z)
  <2>1. Writes(r) = {}
    BY <1>2 DEF Writes
  <2> QED
    BY <1>5, <1>8, <2>1 DEF Sound, Flights
<1>11. Owners(z, {})
  <2> SUFFICES ASSUME NEW m \in Names, z.inflight[m] # NoJob
               PROVE  Owns(z.jobs[z.inflight[m]], m)
    BY DEF Owners
  <2>1. z.inflight[m] = s.inflight[m] /\ s.inflight[m] \in Jobs
    BY <1>5, SoundParts
  <2>2. Owns(s.jobs[s.inflight[m]], m)
    BY <2>1 DEF Sound, Owners
  <2>3. s.inflight[m] # j
    BY <2>2 DEF Owns, Writes
  <2> QED
    BY <1>8, <2>1, <2>2, <2>3
<1>12. SlotsFit(z, QueuedCopies(z.tasks) \cup E)
  <2>1. SlotsFit(s, H) /\ QueuedCopies(z.tasks) \cup E = H
    BY <1>7 DEF Sound
  <2>2. \A x \in H : x.job \in Jobs /\ x.job # j
    BY SoundParts
  <2>3. z.jobs[j].tailSlot = NoSlot
    BY <1>2, <1>8
  <2> HIDE DEF H
  <2>4. CopiesFit(z, H)
    BY <1>8, <2>1, <2>2 DEF SlotsFit, CopiesFit
  <2>5. TailsFit(z, H)
    BY <1>8, <2>1, <2>3 DEF SlotsFit, TailsFit
  <2>6. FreeFits(z, H)
    <3>1. \A i \in Jobs : z.jobs[i].tailSlot = s.jobs[i].tailSlot
      BY <1>8, <2>3
    <3> QED
      BY <1>5, <2>1, <3>1 DEF SlotsFit, FreeFits
  <2> QED
    BY <2>1, <2>4, <2>5, <2>6 DEF SlotsFit
<1>13. QueueFits(z, E, P)
  <2>1. z.jobs[j].state = "publishing" /\ ~z.jobs[j].parked
    BY <1>2, <1>6, <1>8
  <2>2. QueueFits(s, E, P) /\ QueuedPoints(s.tasks) \cup P \in SUBSET Jobs
    BY SoundParts DEF Sound
  <2> QED
    BY <1>6, <1>7, <1>8, <2>1, <2>2 DEF QueueFits
<1>14. Sound(z, E, P, {})
  BY <1>5, <1>9, <1>10, <1>11, <1>12, <1>13 DEF Sound
<1> QED
  BY <1>14 DEF z, t, s1

LEMMA SettleSound ==
    ASSUME NEW s, NEW E, NEW P, NEW j \in Jobs, Sound(s, E, P, {})
    PROVE  Sound(Settle(s, j), E, P, {})
<1> DEFINE r == s.jobs[j]
<1>1. CASE r.state = "open" /\ r.left = {} /\ r.out = {} /\ r.capture = "ok" /\ r.tailSlot = NoSlot
  <2>1. Settle(s, j) = Queue([s EXCEPT !.jobs[j].state = "publishing"], [kind |-> "point", job |-> j])
    BY <1>1 DEF Settle
  <2> QED
    BY <1>1, <2>1, PublishSound
<1>2. CASE r.state \in {"failed", "cancelled"} /\ r.out = {} /\ r.capture # "pending"
  <2>1. Settle(s, j) = EndJob(s, j, FALSE)
    BY <1>2 DEF Settle
  <2>2. r.tailSlot = NoSlot
    BY <1>2 DEF Sound, JobsFit, JobFits
  <2>3. j \notin QueuedPoints(s.tasks) /\ j \notin P
    BY <1>2 DEF Sound, QueueFits
  <2>4. P \ {j} = P
    BY <2>3
  <2>5. Sound(EndJob(s, j, FALSE), E, P \ {j}, {})
    BY <1>2, <2>2, <2>3, EndJobSound
  <2> QED
    BY <2>1, <2>4, <2>5
<1>3. CASE /\ ~(r.state = "open" /\ r.left = {} /\ r.out = {} /\ r.capture = "ok" /\ r.tailSlot = NoSlot)
           /\ ~(r.state \in {"failed", "cancelled"} /\ r.out = {} /\ r.capture # "pending")
  <2>1. Settle(s, j) = s
    BY <1>3 DEF Settle
  <2> QED
    BY <2>1
<1> QED
  BY <1>1, <1>2, <1>3

-----------------------------------------------------------------------------
(* A block is given back, its slot free *)

LEMMA GiveBackSound ==
    ASSUME NEW s, NEW E, NEW P, NEW x \in E, Sound(s, E, P, {})
    PROVE  LET z == GiveBack(s, x.job, x.name, x.slot) IN
           /\ Sound(z, E \ {x}, P, {<<x.job, x.name>>})
           /\ x.name \notin Writes(z.jobs[x.job])
           /\ z.jobs[x.job].state = s.jobs[x.job].state /\ z.jobs[x.job].left = s.jobs[x.job].left
           /\ OnlyJob(s, z, x.job) /\ z.jobs[x.job].key = s.jobs[x.job].key
<1> DEFINE j == x.job
           n == x.name
           w == x.slot
           H == QueuedCopies(s.tasks) \cup E
           a == s.jobs[j]
           out == a.out \ {n}
           r == [a EXCEPT !.out = out]
           s1 == GiveSlot(s, w)
           z == GiveBack(s, j, n, w)
<1>1. /\ s \in Store /\ j \in Jobs /\ n \in Names /\ w \in WriteSlots /\ n \in a.out /\ a \in Job
      /\ w # NoSlot
  BY SoundParts, ConstantsAssumption
<1>2. s1 \in Store /\ s1.jobs = s.jobs /\ s1.inflight = s.inflight /\ s1.tasks = s.tasks
      /\ s1.free = s.free \cup {w}
  <2>1. s1 \in Store
    BY <1>1, GiveSlotType DEF Keeps
  <2>2. s1 = [s EXCEPT !.free = s.free \cup {w}]
    BY <1>1 DEF GiveSlot
  <2> HIDE DEF s1, j, n, w
  <2> QED
    BY <1>1, <2>1, <2>2 DEF Store
<1>3. /\ r \in Job /\ r.key = a.key /\ r.state = a.state /\ r.capture = a.capture /\ r.left = a.left
      /\ r.out = out /\ r.tailSlot = a.tailSlot /\ r.parked = a.parked
  <2>1. out \in SUBSET Names
    BY <1>1, JobFields
  <2> HIDE DEF a, out
  <2> QED
    BY <1>1, <2>1 DEF Job
<1>4. z = [s1 EXCEPT !.jobs[j] = r]
  <2>1. z = [s1 EXCEPT !.jobs[j].out = @ \ {n}]
    BY DEF GiveBack
  <2>2. s1.jobs[j] = a
    BY <1>2
  <2> HIDE DEF s1, j, n, w
  <2> QED
    BY <1>2, <2>1, <2>2
<1> HIDE DEF r, s1, z, out
<1>5. /\ z \in Store /\ z.jobs[j] = r /\ OnlyJob(s, z, j)
      /\ z.inflight = s.inflight /\ z.tasks = s.tasks /\ z.free = s.free \cup {w}
  <2>1. /\ z \in Store /\ z.jobs[j] = r /\ OnlyJob(s1, z, j)
        /\ z.inflight = s1.inflight /\ z.tasks = s1.tasks /\ z.free = s1.free
    BY <1>1, <1>2, <1>3, <1>4, RecordIs
  <2> QED
    BY <1>2, <2>1 DEF OnlyJob
<1> HIDE DEF a
<1>6. JobFits(a)
  BY <1>1 DEF Sound, JobsFit, a
<1>7. s.inflight[n] = j
  BY <1>1 DEF Sound, Flights, Writes, a
<1>8. n \notin Writes(r) /\ Writes(r) \subseteq Writes(a)
  <2>1. n \notin a.left /\ (a.tailSlot # NoSlot => n \notin TailBlock(a.key))
    BY <1>1, <1>6 DEF JobFits
  <2> QED
    BY <1>3, <2>1 DEF Writes, out
<1>9. JobsFit(z)
  <2>1. JobFits(r)
    BY <1>3, <1>6 DEF JobFits, out
  <2> QED
    BY <1>5, <2>1 DEF Sound, JobsFit, OnlyJob
<1>10. Flights(z)
  BY <1>5, <1>8 DEF Sound, Flights, OnlyJob, a
<1>11. Owners(z, {<<j, n>>})
  <2> SUFFICES ASSUME NEW m \in Names, z.inflight[m] # NoJob
               PROVE  Owns(z.jobs[z.inflight[m]], m) \/ <<z.inflight[m], m>> \in {<<j, n>>}
    BY DEF Owners
  <2>1. z.inflight[m] = s.inflight[m] /\ s.inflight[m] \in Jobs
    BY <1>5, SoundParts
  <2>2. Owns(s.jobs[s.inflight[m]], m)
    BY <2>1 DEF Sound, Owners
  <2>3. CASE s.inflight[m] # j
    BY <1>5, <2>1, <2>2, <2>3 DEF OnlyJob
  <2>4. CASE s.inflight[m] = j /\ m # n
    <3>1. Owns(a, m)
      BY <2>2, <2>4 DEF a
    <3>2. Owns(r, m)
      BY <1>3, <2>4, <3>1 DEF Owns, Writes, out
    <3> QED
      BY <1>5, <2>1, <2>4, <3>2
  <2>5. CASE s.inflight[m] = j /\ m = n
    BY <2>1, <2>5
  <2> QED
    BY <2>3, <2>4, <2>5
<1>12. x \notin QueuedCopies(s.tasks) /\ QueuedCopies(z.tasks) \cup (E \ {x}) = H \ {x}
  BY <1>5 DEF Sound, QueueFits
<1>13. SlotsFit(z, H \ {x})
  <2>1. SlotsFit(s, H) /\ x \in H
    BY DEF Sound
  <2>2. \A y \in H : y.job \in Jobs
    BY SoundParts
  <2>3. \A i \in Jobs : z.jobs[i].tailSlot = s.jobs[i].tailSlot
    BY <1>3, <1>5 DEF OnlyJob, a
  <2> HIDE DEF H
  <2>4. \A y \in H \ {x} : y.name \in z.jobs[y.job].out
    <3> SUFFICES ASSUME NEW y \in H \ {x} PROVE y.name \in z.jobs[y.job].out
      OBVIOUS
    <3>1. y.name \in s.jobs[y.job].out /\ y.job \in Jobs /\ ~(y.job = j /\ y.name = n)
      BY <2>1, <2>2 DEF SlotsFit, CopiesFit
    <3> QED
      BY <1>3, <1>5, <3>1 DEF OnlyJob, a, out
  <2>5. CopiesFit(z, H \ {x})
    BY <2>1, <2>4 DEF SlotsFit, CopiesFit
  <2>6. TailsFit(z, H \ {x})
    BY <2>1, <2>3 DEF SlotsFit, TailsFit
  <2>7. FreeFits(z, H \ {x})
    <3> SUFFICES ASSUME NEW v \in WriteSlots
                 PROVE  v \in z.free <=> /\ \A y \in H \ {x} : y.slot # v
                                         /\ \A i \in Jobs : z.jobs[i].tailSlot # v
      BY DEF FreeFits
    <3>1. v \in s.free <=> /\ \A y \in H : y.slot # v
                           /\ \A i \in Jobs : s.jobs[i].tailSlot # v
      BY <2>1 DEF SlotsFit, FreeFits
    <3>2. CASE v = w
      <4>1. \A y \in H \ {x} : y.slot # w
        BY <2>1 DEF SlotsFit, CopiesFit
      <4>2. \A i \in Jobs : s.jobs[i].tailSlot # w
        BY <1>1, <2>1 DEF SlotsFit, TailsFit
      <4> QED
        BY <1>5, <2>3, <3>2, <4>1, <4>2
    <3>3. CASE v # w
      BY <1>5, <2>3, <3>1, <3>3
    <3> QED
      BY <3>2, <3>3
  <2> QED
    BY <2>5, <2>6, <2>7 DEF SlotsFit
<1>14. QueueFits(z, E \ {x}, P)
  <2>1. QueueFits(s, E, P) /\ QueuedPoints(s.tasks) \cup P \in SUBSET Jobs
    BY SoundParts DEF Sound
  <2>2. \A i \in Jobs : z.jobs[i].state = s.jobs[i].state /\ (z.jobs[i].parked => s.jobs[i].parked)
    BY <1>3, <1>5 DEF OnlyJob, a
  <2> QED
    BY <1>5, <2>1, <2>2 DEF QueueFits
<1>15. Sound(z, E \ {x}, P, {<<j, n>>})
  BY <1>5, <1>9, <1>10, <1>11, <1>12, <1>13, <1>14 DEF Sound
<1> QED
  BY <1>3, <1>5, <1>8, <1>15 DEF z, a

-----------------------------------------------------------------------------
(* An open write fails or is cancelled and hands its unstaged blocks over *)

\* j is no longer open (state st) and has nothing left; the others have what
\* h hands them, and it is in flight for them.
Released(s, z, j, st, h) ==
    /\ z \in Store /\ z.tasks = s.tasks /\ z.free = s.free
    /\ \A i \in Jobs : /\ z.jobs[i].key = s.jobs[i].key /\ z.jobs[i].capture = s.jobs[i].capture
                       /\ z.jobs[i].out = s.jobs[i].out /\ z.jobs[i].tailSlot = s.jobs[i].tailSlot
                       /\ z.jobs[i].parked = s.jobs[i].parked
                       /\ i # j => /\ z.jobs[i].state = s.jobs[i].state
                                   /\ z.jobs[i].left = s.jobs[i].left \cup {n \in s.jobs[j].left : h[n] = i}
    /\ z.jobs[j].state = st /\ z.jobs[j].left = {}
    /\ \A n \in Names : z.inflight[n] = IF n \notin s.jobs[j].left THEN s.inflight[n]
                                        ELSE IF h[n] # NoJob THEN h[n]
                                        ELSE IF s.inflight[n] = j THEN NoJob ELSE s.inflight[n]

\* Whoever takes a block is another open write that names it whole.
Hands(s, j, h) ==
    \A n \in s.jobs[j].left : h[n] # NoJob =>
        /\ h[n] \in Jobs \ {j} /\ s.jobs[h[n]].state = "open"
        /\ n \notin TailBlock(s.jobs[h[n]].key)

LEMMA ReleasedSound ==
    ASSUME NEW s, NEW z, NEW E, NEW P, NEW X, NEW j \in Jobs, NEW st \in {"failed", "cancelled"}, NEW h,
           Sound(s, E, P, X), s.jobs[j].state = "open", Released(s, z, j, st, h), Hands(s, j, h)
    PROVE  Sound(z, E, P, X)
<1> DEFINE H == QueuedCopies(s.tasks) \cup E
           L == s.jobs[j].left
<1>1. \A i \in Jobs : /\ z.jobs[i].key = s.jobs[i].key /\ z.jobs[i].capture = s.jobs[i].capture
                      /\ z.jobs[i].out = s.jobs[i].out /\ z.jobs[i].tailSlot = s.jobs[i].tailSlot
                      /\ z.jobs[i].parked = s.jobs[i].parked
                      /\ i # j => /\ z.jobs[i].state = s.jobs[i].state
                                  /\ z.jobs[i].left = s.jobs[i].left \cup {n \in L : h[n] = i}
  BY DEF Released
<1>2. z \in Store /\ z.tasks = s.tasks /\ z.free = s.free /\ z.jobs[j].state = st /\ z.jobs[j].left = {}
  BY DEF Released
<1>3. \A n \in Names : /\ n \notin L => z.inflight[n] = s.inflight[n]
                       /\ n \in L /\ h[n] # NoJob => z.inflight[n] = h[n]
                       /\ n \in L /\ h[n] = NoJob => z.inflight[n] = IF s.inflight[n] = j THEN NoJob ELSE s.inflight[n]
  BY DEF Released
<1>4. /\ \A i \in Jobs : JobFits(s.jobs[i]) /\ s.jobs[i] \in Job
      /\ \A i \in Jobs : \A n \in Writes(s.jobs[i]) : s.inflight[n] = i /\ n \in Names
  <2>1. \A i \in Jobs : JobFits(s.jobs[i]) /\ s.jobs[i] \in Job
    BY SoundParts DEF Sound, JobsFit
  <2>2. \A i \in Jobs : \A n \in Writes(s.jobs[i]) : n \in Names
    BY <2>1, JobFields, NamesType DEF Writes
  <2> QED
    BY <2>1, <2>2 DEF Sound, Flights
<1>5. \A n \in L : s.inflight[n] = j /\ n \in Names
  BY <1>4 DEF Writes
<1>6. \A i \in Jobs \ {j} : \A n \in L : n \notin Writes(s.jobs[i])
  BY <1>4, <1>5
<1>7. ASSUME NEW i \in Jobs, i # j, NEW n \in L, h[n] = i
      PROVE  s.jobs[i].state = "open" /\ n \notin TailBlock(s.jobs[i].key) /\ h[n] # NoJob
  BY <1>7, ConstantsAssumption DEF Hands
<1>8. JobsFit(z)
  <2> SUFFICES ASSUME NEW i \in Jobs PROVE JobFits(z.jobs[i])
    BY DEF JobsFit
  <2>1. CASE i = j
    <3>1. JobFits(s.jobs[j])
      BY <1>4
    <3> QED
      BY <1>1, <1>2, <2>1, <3>1 DEF JobFits, LiveStates
  <2>2. CASE i # j
    <3> DEFINE T == {n \in L : h[n] = i}
    <3>1. T # {} => s.jobs[i].state = "open"
      BY <1>7, <2>2
    <3>2. T \cap s.jobs[i].out = {} /\ T \cap TailBlock(s.jobs[i].key) = {}
      BY <1>6, <1>7, <2>2 DEF Writes
    <3>3. z.jobs[i].left = s.jobs[i].left \cup T
      BY <1>1, <2>2
    <3>4. JobFits(s.jobs[i])
      BY <1>4
    <3> HIDE DEF T
    <3> QED
      BY <1>1, <2>2, <3>1, <3>2, <3>3, <3>4 DEF JobFits, LiveStates
  <2> QED
    BY <2>1, <2>2
<1>9. Flights(z)
  <2> SUFFICES ASSUME NEW i \in Jobs, NEW n \in Writes(z.jobs[i]) PROVE z.inflight[n] = i
    BY DEF Flights
  <2>1. CASE n \in Writes(s.jobs[i])
    <3>1. s.inflight[n] = i /\ n \in Names
      BY <1>4, <2>1
    <3>2. n \notin L
      <4>1. CASE i = j
        <5>1. n \in s.jobs[j].out \/ (s.jobs[j].tailSlot # NoSlot /\ n \in TailBlock(s.jobs[j].key))
          BY <1>1, <1>2, <4>1 DEF Writes
        <5>2. JobFits(s.jobs[j])
          BY <1>4
        <5> QED
          BY <5>1, <5>2 DEF JobFits
      <4>2. CASE i # j
        BY <1>6, <2>1, <4>2
      <4> QED
        BY <4>1, <4>2
    <3> QED
      BY <1>3, <3>1, <3>2
  <2>2. CASE n \notin Writes(s.jobs[i])
    <3>1. i # j /\ n \in L /\ h[n] = i
      BY <1>1, <1>2, <2>2 DEF Writes
    <3> QED
      BY <1>3, <1>5, <1>7, <3>1
  <2> QED
    BY <2>1, <2>2
<1>10. Owners(z, X)
  <2> SUFFICES ASSUME NEW n \in Names, z.inflight[n] # NoJob
               PROVE  Owns(z.jobs[z.inflight[n]], n) \/ <<z.inflight[n], n>> \in X
    BY DEF Owners
  <2>1. CASE n \in L
    <3>1. h[n] # NoJob /\ z.inflight[n] = h[n]
      BY <1>3, <1>5, <2>1
    <3>2. h[n] \in Jobs /\ h[n] # j /\ s.jobs[h[n]].state = "open"
      BY <2>1, <3>1 DEF Hands
    <3>3. n \in z.jobs[h[n]].left /\ z.jobs[h[n]].state = "open"
      BY <1>1, <2>1, <3>2
    <3> QED
      BY <3>1, <3>3 DEF Owns, Writes, LiveStates
  <2>2. CASE n \notin L
    <3> DEFINE i == s.inflight[n]
    <3>1. z.inflight[n] = i /\ i \in Jobs
      BY <1>3, <2>2, SoundParts
    <3>2. Owns(s.jobs[i], n) \/ <<i, n>> \in X
      BY <3>1 DEF Sound, Owners
    <3> HIDE DEF i
    <3>3. CASE i = j
      <4>1. Owns(s.jobs[j], n) => Owns(z.jobs[j], n)
        BY <1>1, <1>2, <2>2 DEF Owns, Writes, LiveStates
      <4> QED
        BY <3>1, <3>2, <3>3, <4>1
    <3>4. CASE i # j
      <4>1. Owns(s.jobs[i], n) => Owns(z.jobs[i], n)
        BY <1>1, <3>1, <3>4 DEF Owns, Writes
      <4> QED
        BY <3>1, <3>2, <4>1
    <3> QED
      BY <3>3, <3>4
  <2> QED
    BY <2>1, <2>2
<1>11. SlotsFit(z, QueuedCopies(z.tasks) \cup E)
  <2>1. SlotsFit(s, H) /\ QueuedCopies(z.tasks) \cup E = H
    BY <1>2 DEF Sound
  <2>2. \A x \in H : x.job \in Jobs
    BY SoundParts
  <2> HIDE DEF H
  <2>3. CopiesFit(z, H)
    BY <1>1, <2>1, <2>2 DEF SlotsFit, CopiesFit
  <2>4. TailsFit(z, H)
    BY <1>1, <2>1 DEF SlotsFit, TailsFit
  <2>5. FreeFits(z, H)
    BY <1>1, <1>2, <2>1 DEF SlotsFit, FreeFits
  <2> QED
    BY <2>1, <2>3, <2>4, <2>5 DEF SlotsFit
<1>12. QueueFits(z, E, P)
  <2>1. QueueFits(s, E, P) /\ QueuedPoints(s.tasks) \cup P \in SUBSET Jobs
    BY SoundParts DEF Sound
  <2>2. j \notin QueuedPoints(s.tasks) \cup P
    BY <2>1 DEF QueueFits
  <2> QED
    BY <1>1, <1>2, <2>1, <2>2 DEF QueueFits
<1> QED
  BY <1>2, <1>8, <1>9, <1>10, <1>11, <1>12 DEF Sound

\* What j, no longer open, writes is what it wrote, less its unstaged blocks.
LEMMA ReleaseSound ==
    ASSUME NEW s, NEW E, NEW P, NEW X, NEW j \in Jobs, NEW st \in {"failed", "cancelled"},
           NEW h \in HandOvers(s, j), Sound(s, E, P, X), s.jobs[j].state = "open"
    PROVE  LET z == Release([s EXCEPT !.jobs[j].state = st], j, h) IN
           /\ Sound(z, E, P, X)
           /\ Writes(z.jobs[j]) \subseteq Writes(s.jobs[j])
           /\ z.jobs[j].state = st
<1> DEFINE r == [s.jobs[j] EXCEPT !.state = st]
           s0 == [s EXCEPT !.jobs[j].state = st]
           taken(i) == {n \in DOMAIN h : h[n] = i}
           left(i) == IF i = j THEN {} ELSE s0.jobs[i].left \cup taken(i)
           size(i) == s0.jobs[i].size + (IF i = j THEN 0 ELSE Cardinality(taken(i)))
           rec(i) == [s0.jobs[i] EXCEPT !.left = left(i), !.size = size(i)]
           jobs == [i \in Jobs |-> rec(i)]
           inflight == [n \in Names |->
                          IF n \notin DOMAIN h THEN s0.inflight[n]
                          ELSE IF h[n] # NoJob THEN h[n]
                          ELSE IF s0.inflight[n] = j THEN NoJob ELSE s0.inflight[n]]
           queued == s0.queued + HandedBytes(h)
           s1 == [s0 EXCEPT !.jobs = jobs, !.inflight = inflight, !.queued = queued]
<1>1. s \in Store /\ s.jobs[j] \in Job
  BY SoundParts
<1>2. /\ r \in Job /\ r.state = st /\ r.key = s.jobs[j].key /\ r.capture = s.jobs[j].capture
      /\ r.left = s.jobs[j].left /\ r.out = s.jobs[j].out /\ r.tailSlot = s.jobs[j].tailSlot
      /\ r.parked = s.jobs[j].parked
  BY <1>1 DEF Job, LiveStates
<1>3. /\ s0 \in Store /\ s0.jobs[j] = r /\ OnlyJob(s, s0, j)
      /\ s0.inflight = s.inflight /\ s0.tasks = s.tasks /\ s0.free = s.free
  <2>1. s0 = [s EXCEPT !.jobs[j] = r]
    OBVIOUS
  <2> HIDE DEF r, s0
  <2> QED
    BY <1>1, <1>2, <2>1, RecordIs
<1>4. h \in [s.jobs[j].left -> Jobs \cup {NoJob}] /\ DOMAIN h = s.jobs[j].left /\ s.jobs[j].left \in SUBSET Names
  BY <1>1, HandOversType, JobFields
<1>5. Release(s0, j, h) = RecheckParked(s1)
  BY DEF Release
<1> HIDE DEF r, s0
<1>6. \A i \in Jobs : rec(i) \in Job
  <2> SUFFICES ASSUME NEW i \in Jobs PROVE rec(i) \in Job
    OBVIOUS
  <2>1. s0.jobs[i] \in Job
    BY <1>3, StoreFields
  <2>2. taken(i) \in SUBSET Names
    BY <1>4
  <2>3. Cardinality(taken(i)) \in Nat
    BY <2>2, SubsetCardinality
  <2>4. left(i) \in SUBSET Names
    BY <2>1, <2>2, JobFields
  <2>5. size(i) \in Nat
    BY <2>1, <2>3, JobFields
  <2> HIDE DEF left, size
  <2> QED
    BY <2>1, <2>4, <2>5 DEF Job
<1>7. \A i \in Jobs : /\ rec(i).key = s.jobs[i].key /\ rec(i).capture = s.jobs[i].capture
                      /\ rec(i).out = s.jobs[i].out /\ rec(i).tailSlot = s.jobs[i].tailSlot
                      /\ rec(i).parked = s.jobs[i].parked /\ rec(i).state = s0.jobs[i].state
                      /\ rec(i).left = left(i)
  <2> SUFFICES ASSUME NEW i \in Jobs
               PROVE  /\ rec(i).key = s.jobs[i].key /\ rec(i).capture = s.jobs[i].capture
                      /\ rec(i).out = s.jobs[i].out /\ rec(i).tailSlot = s.jobs[i].tailSlot
                      /\ rec(i).parked = s.jobs[i].parked /\ rec(i).state = s0.jobs[i].state
                      /\ rec(i).left = left(i)
    OBVIOUS
  <2>1. s0.jobs[i] \in Job
    BY <1>3, StoreFields
  <2>2. /\ rec(i).key = s0.jobs[i].key /\ rec(i).capture = s0.jobs[i].capture
        /\ rec(i).out = s0.jobs[i].out /\ rec(i).tailSlot = s0.jobs[i].tailSlot
        /\ rec(i).parked = s0.jobs[i].parked /\ rec(i).state = s0.jobs[i].state
        /\ rec(i).left = left(i)
    <3> HIDE DEF left, size
    <3> QED
      BY <2>1 DEF Job
  <2>3. /\ s0.jobs[i].key = s.jobs[i].key /\ s0.jobs[i].capture = s.jobs[i].capture
        /\ s0.jobs[i].out = s.jobs[i].out /\ s0.jobs[i].tailSlot = s.jobs[i].tailSlot
        /\ s0.jobs[i].parked = s.jobs[i].parked
    BY <1>2, <1>3 DEF OnlyJob
  <2> HIDE DEF rec
  <2> QED
    BY <2>2, <2>3
<1>8. inflight \in [Names -> Jobs \cup {NoJob}]
  BY <1>3, <1>4, StoreFields
<1>9. queued \in Int
  <2>1. {n \in DOMAIN h : h[n] # NoJob} \in SUBSET Names
    BY <1>4
  <2>2. HandedBytes(h) \in Nat
    BY <2>1, SubsetCardinality DEF HandedBytes
  <2> QED
    BY <1>3, <2>2, StoreFields
<1>10. jobs \in [Jobs -> Job] /\ \A i \in Jobs : jobs[i] = rec(i)
  <2> HIDE DEF rec
  <2> QED
    BY <1>6
<1>11. s1 \in Store /\ s1.jobs = jobs /\ s1.inflight = inflight /\ s1.tasks = s.tasks /\ s1.free = s.free
  <2> HIDE DEF jobs, inflight, queued
  <2> QED
    BY <1>3, <1>8, <1>9, <1>10 DEF Store
<1>12. \A i \in Jobs : /\ i = j => left(i) = {} /\ s0.jobs[i].state = st
                       /\ i # j => /\ s0.jobs[i].state = s.jobs[i].state
                                   /\ left(i) = s.jobs[i].left \cup {n \in s.jobs[j].left : h[n] = i}
  BY <1>2, <1>3, <1>4 DEF OnlyJob
<1>13. \A n \in Names : s1.inflight[n] = IF n \notin s.jobs[j].left THEN s.inflight[n]
                                         ELSE IF h[n] # NoJob THEN h[n]
                                         ELSE IF s.inflight[n] = j THEN NoJob ELSE s.inflight[n]
  BY <1>3, <1>4, <1>11
<1> HIDE DEF s1, jobs, inflight, rec, left
<1>14. Released(s, s1, j, st, h)
  <2>1. \A i \in Jobs : /\ s1.jobs[i].key = s.jobs[i].key /\ s1.jobs[i].capture = s.jobs[i].capture
                        /\ s1.jobs[i].out = s.jobs[i].out /\ s1.jobs[i].tailSlot = s.jobs[i].tailSlot
                        /\ s1.jobs[i].parked = s.jobs[i].parked /\ s1.jobs[i].state = s0.jobs[i].state
                        /\ s1.jobs[i].left = left(i)
    BY <1>7, <1>10, <1>11
  <2> QED
    BY <1>11, <1>12, <1>13, <2>1 DEF Released
<1>15. Hands(s, j, h)
  BY DEF HandOvers, Takers, Hands
<1>16. Sound(s1, E, P, X)
  BY <1>14, <1>15, ReleasedSound
<1>17. Rechecked(s1, RecheckParked(s1))
  BY <1>16, SoundParts, RecheckIs
<1>18. Sound(RecheckParked(s1), E, P, X)
  BY <1>16, <1>17, RecheckSound
<1>19. Writes(s1.jobs[j]) \subseteq Writes(s.jobs[j]) /\ s1.jobs[j].state = st
  BY <1>14 DEF Released, Writes
<1>20. Kin(s1.jobs[j], RecheckParked(s1).jobs[j])
  BY <1>17 DEF Rechecked
<1>21. Writes(RecheckParked(s1).jobs[j]) \subseteq Writes(s.jobs[j]) /\ RecheckParked(s1).jobs[j].state = st
  BY <1>19, <1>20 DEF Kin, Writes
<1> QED
  BY <1>5, <1>18, <1>21 DEF s0

-----------------------------------------------------------------------------
(* Blocks are staged *)

\* Blocks S of j are staged into the slots W.
Handed(s, z, j, S, W) ==
    /\ z \in Store /\ OnlyJob(s, z, j)
    /\ z.inflight = s.inflight /\ z.tasks = s.tasks /\ z.free = s.free \ W
    /\ z.jobs[j].key = s.jobs[j].key /\ z.jobs[j].state = s.jobs[j].state
    /\ z.jobs[j].capture = s.jobs[j].capture /\ z.jobs[j].tailSlot = s.jobs[j].tailSlot
    /\ z.jobs[j].parked = s.jobs[j].parked
    /\ z.jobs[j].left = s.jobs[j].left \ S /\ z.jobs[j].out = s.jobs[j].out \cup S

LEMMA HandIs ==
    ASSUME NEW s \in Store, NEW j \in Jobs, NEW S \in SUBSET Names, NEW W
    PROVE  Handed(s, Hand(s, j, S, W), j, S, W)
<1> DEFINE left == s.jobs[j].left \ S
           out == s.jobs[j].out \cup S
           r == [s.jobs[j] EXCEPT !.left = left, !.out = out]
           free == s.free \ W
           jobs == [s.jobs EXCEPT ![j] = r]
           z == Hand(s, j, S, W)
<1>1. s.jobs \in [Jobs -> Job] /\ s.jobs[j] \in Job
  BY StoreFields
<1>2. /\ r.key = s.jobs[j].key /\ r.state = s.jobs[j].state /\ r.capture = s.jobs[j].capture
      /\ r.tailSlot = s.jobs[j].tailSlot /\ r.parked = s.jobs[j].parked /\ r.left = left /\ r.out = out
  <2> HIDE DEF left, out
  <2> QED
    BY <1>1 DEF Job
<1>3. z \in Store
  BY HandType DEF Keeps
<1>4. z = [s EXCEPT !.jobs = jobs, !.free = free]
  BY DEF Hand
<1>5. z.jobs = jobs /\ z.free = free /\ z.inflight = s.inflight /\ z.tasks = s.tasks
  <2> HIDE DEF jobs, free, z
  <2> QED
    BY <1>4 DEF Store
<1> HIDE DEF r, z
<1>6. jobs[j] = r /\ \A i \in Jobs \ {j} : jobs[i] = s.jobs[i]
  BY <1>1
<1> HIDE DEF jobs
<1>7. Handed(s, z, j, S, W)
  BY <1>2, <1>3, <1>5, <1>6 DEF Handed, OnlyJob
<1> QED
  BY <1>7 DEF z

\* N: a copy for each block staged, into a free slot of its own.
NewCopies(s, N, j, S, W) ==
    /\ N \in SUBSET Copy
    /\ \A x \in N : x.job = j /\ x.name \in S /\ x.slot \in s.free
    /\ \A x, y \in N : x.slot = y.slot \/ x.name = y.name => x = y
    /\ \A w \in WriteSlots : w \in W <=> \E x \in N : x.slot = w

LEMMA HandedSound ==
    ASSUME NEW s, NEW z, NEW E, NEW P, NEW j \in Jobs, NEW S, NEW W, NEW N, Sound(s, E, P, {}),
           s.jobs[j].state = "open", S \subseteq s.jobs[j].left, Handed(s, z, j, S, W),
           NewCopies(s, N, j, S, W)
    PROVE  Sound(z, E \cup N, P, {}) /\ N \cap (QueuedCopies(s.tasks) \cup E) = {}
<1> DEFINE H == QueuedCopies(s.tasks) \cup E
           a == s.jobs[j]
<1>1. /\ z \in Store /\ \A i \in Jobs \ {j} : z.jobs[i] = s.jobs[i]
      /\ z.inflight = s.inflight /\ z.tasks = s.tasks /\ z.free = s.free \ W
      /\ z.jobs[j].key = a.key /\ z.jobs[j].state = a.state /\ z.jobs[j].capture = a.capture
      /\ z.jobs[j].tailSlot = a.tailSlot /\ z.jobs[j].parked = a.parked
      /\ z.jobs[j].left = a.left \ S /\ z.jobs[j].out = a.out \cup S
  BY DEF Handed, OnlyJob
<1>2. /\ N \in SUBSET Copy
      /\ \A x \in N : x.job = j /\ x.name \in S /\ x.slot \in s.free /\ x.slot \in WriteSlots
      /\ \A x, y \in N : x.slot = y.slot \/ x.name = y.name => x = y
      /\ \A w \in WriteSlots : w \in W <=> \E x \in N : x.slot = w
  BY DEF NewCopies, Copy
<1>3. JobFits(a) /\ a.state = "open"
  BY DEF Sound, JobsFit
<1> HIDE DEF a
<1>4. S \cap a.out = {} /\ S \cap TailBlock(a.key) = {} /\ S \subseteq a.left
  BY <1>3 DEF JobFits, a
<1>5. JobsFit(z)
  <2>1. JobFits(z.jobs[j])
    BY <1>1, <1>3, <1>4 DEF JobFits, LiveStates
  <2> QED
    BY <1>1, <2>1 DEF Sound, JobsFit
<1>6. \A i \in Jobs : Writes(z.jobs[i]) = Writes(s.jobs[i])
  <2>1. Writes(z.jobs[j]) = Writes(a)
    BY <1>1, <1>4 DEF Writes
  <2> QED
    BY <1>1, <2>1 DEF a
<1>7. Flights(z)
  BY <1>1, <1>6 DEF Sound, Flights
<1>8. Owners(z, {})
  <2> SUFFICES ASSUME NEW n \in Names, z.inflight[n] # NoJob
               PROVE  Owns(z.jobs[z.inflight[n]], n)
    BY DEF Owners
  <2>1. s.inflight[n] \in Jobs /\ z.inflight[n] = s.inflight[n]
    BY <1>1, SoundParts
  <2>2. Owns(s.jobs[s.inflight[n]], n)
    BY <2>1, ConstantsAssumption DEF Sound, Owners
  <2>3. Owns(a, n) => Owns(z.jobs[j], n)
    BY <1>1 DEF Owns, Writes
  <2> QED
    BY <1>1, <2>1, <2>2, <2>3 DEF a
<1>9. SlotsFit(s, H) /\ \A x \in H : x.job \in Jobs /\ x.name \in s.jobs[x.job].out
  BY SoundParts DEF Sound
<1>10. QueuedCopies(z.tasks) \cup (E \cup N) = H \cup N
  BY <1>1
<1> HIDE DEF H
<1>11. \A i \in Jobs : z.jobs[i].tailSlot = s.jobs[i].tailSlot
  BY <1>1 DEF a
<1>12. \A x \in H, y \in N : x.slot # y.slot /\ ~(x.job = y.job /\ x.name = y.name)
  <2> SUFFICES ASSUME NEW x \in H, NEW y \in N
               PROVE  x.slot # y.slot /\ ~(x.job = y.job /\ x.name = y.name)
    OBVIOUS
  <2>1. x.slot # y.slot
    BY <1>2, <1>9 DEF SlotsFit, FreeFits
  <2>2. x.job = y.job => x.name \in a.out
    BY <1>2, <1>9 DEF a
  <2> QED
    BY <1>2, <1>4, <2>1, <2>2
<1>13. CopiesFit(z, H \cup N)
  <2>1. \A x \in H : x.name \in z.jobs[x.job].out
    BY <1>1, <1>9 DEF a
  <2>2. \A x \in N : x.name \in z.jobs[x.job].out
    BY <1>1, <1>2
  <2>3. ASSUME NEW x \in H \cup N, NEW y \in H \cup N, x.slot = y.slot \/ (x.job = y.job /\ x.name = y.name)
        PROVE  x = y
    <3>1. CASE x \in H /\ y \in H
      BY <1>9, <2>3, <3>1 DEF SlotsFit, CopiesFit
    <3>2. CASE x \in N /\ y \in N
      BY <1>2, <2>3, <3>2
    <3>3. ~(x \in H /\ y \in N) /\ ~(x \in N /\ y \in H)
      BY <1>12, <2>3
    <3> QED
      BY <3>1, <3>2, <3>3
  <2> QED
    BY <2>1, <2>2, <2>3 DEF CopiesFit
<1>14. TailsFit(z, H \cup N)
  <2> SUFFICES ASSUME NEW i \in Jobs, s.jobs[i].tailSlot # NoSlot
               PROVE  /\ \A x \in H \cup N : x.slot # s.jobs[i].tailSlot
                      /\ \A b \in Jobs : s.jobs[b].tailSlot = s.jobs[i].tailSlot => b = i
    BY <1>11 DEF TailsFit
  <2>1. /\ \A x \in H : x.slot # s.jobs[i].tailSlot
        /\ \A b \in Jobs : s.jobs[b].tailSlot = s.jobs[i].tailSlot => b = i
    BY <1>9 DEF SlotsFit, TailsFit
  <2>2. \A x \in N : x.slot # s.jobs[i].tailSlot
    BY <1>2, <1>9 DEF SlotsFit, FreeFits
  <2> QED
    BY <2>1, <2>2
<1>15. FreeFits(z, H \cup N)
  <2> SUFFICES ASSUME NEW w \in WriteSlots
               PROVE  w \in z.free <=> /\ \A x \in H \cup N : x.slot # w
                                       /\ \A i \in Jobs : s.jobs[i].tailSlot # w
    BY <1>11 DEF FreeFits
  <2>1. w \in s.free <=> /\ \A x \in H : x.slot # w
                         /\ \A i \in Jobs : s.jobs[i].tailSlot # w
    BY <1>9 DEF SlotsFit, FreeFits
  <2>2. w \in W <=> \E x \in N : x.slot = w
    BY <1>2
  <2> QED
    BY <1>1, <2>1, <2>2
<1>16. QueueFits(z, E \cup N, P)
  <2>1. QueueFits(s, E, P) /\ QueuedPoints(s.tasks) \cup P \in SUBSET Jobs
    BY SoundParts DEF Sound
  <2>2. \A i \in Jobs : z.jobs[i].state = s.jobs[i].state /\ z.jobs[i].parked = s.jobs[i].parked
    BY <1>1 DEF a
  <2>3. QueuedCopies(s.tasks) \cap N = {}
    BY <1>12 DEF H
  <2> QED
    BY <1>1, <2>1, <2>2, <2>3 DEF QueueFits
<1>17. E \cup N \in SUBSET Copy /\ P \in SUBSET Jobs
  BY <1>2 DEF Sound
<1> QED
  BY <1>1, <1>5, <1>7, <1>8, <1>10, <1>12, <1>13, <1>14, <1>15, <1>16, <1>17 DEF Sound, SlotsFit, H

-----------------------------------------------------------------------------
(* Tasks are queued and taken *)

\* z is s but for its tasks.
Requeued(s, z) ==
    /\ z \in Store /\ z.jobs = s.jobs /\ z.inflight = s.inflight /\ z.free = s.free

LEMMA RequeuedSound ==
    ASSUME NEW s, NEW z, NEW E, NEW P, NEW X, NEW F, NEW Q, Sound(s, E, P, X), Requeued(s, z),
           F \in SUBSET Copy, Q \in SUBSET Jobs, Once(z.tasks),
           QueuedCopies(z.tasks) \cup F = QueuedCopies(s.tasks) \cup E, QueuedCopies(z.tasks) \cap F = {},
           QueuedPoints(z.tasks) \cup Q = QueuedPoints(s.tasks) \cup P, QueuedPoints(z.tasks) \cap Q = {}
    PROVE  Sound(z, F, Q, X)
<1>1. z \in Store /\ z.jobs = s.jobs /\ z.inflight = s.inflight /\ z.free = s.free
  BY DEF Requeued
<1>2. JobsFit(z) /\ Flights(z) /\ Owners(z, X)
  BY <1>1 DEF Sound, JobsFit, Flights, Owners
<1>3. SlotsFit(z, QueuedCopies(z.tasks) \cup F)
  <2> DEFINE H == QueuedCopies(s.tasks) \cup E
  <2>1. SlotsFit(s, H) /\ QueuedCopies(z.tasks) \cup F = H
    BY DEF Sound
  <2> HIDE DEF H
  <2>2. SlotsFit(z, H)
    BY <1>1, <2>1 DEF SlotsFit, CopiesFit, TailsFit, FreeFits
  <2> QED
    BY <2>1, <2>2
<1>4. QueueFits(z, F, Q)
  <2>1. \A j \in QueuedPoints(s.tasks) \cup P : s.jobs[j].state = "publishing" /\ ~s.jobs[j].parked
    BY DEF Sound, QueueFits
  <2> QED
    BY <1>1, <2>1 DEF QueueFits
<1> QED
  BY <1>1, <1>2, <1>3, <1>4 DEF Sound

LEMMA QueueCopySound ==
    ASSUME NEW s, NEW E, NEW P, NEW X, NEW x \in E, Sound(s, E, P, X)
    PROVE  Sound(Queue(s, [kind |-> "block", job |-> x.job, name |-> x.name, slot |-> x.slot]),
                 E \ {x}, P, X)
<1> DEFINE t == [kind |-> "block", job |-> x.job, name |-> x.name, slot |-> x.slot]
           z == Queue(s, t)
<1>1. s \in Store /\ s.tasks \in Seq(Task) /\ Once(s.tasks) /\ E \in SUBSET Copy /\ P \in SUBSET Jobs
  BY SoundParts DEF Sound, QueuedGo
<1>2. t \in Task /\ t.kind = "block" /\ Part(t) = x
  <2>1. x.job \in Jobs /\ x.name \in Names /\ x.slot \in WriteSlots
        /\ x = [job |-> x.job, name |-> x.name, slot |-> x.slot]
    BY <1>1 DEF Copy
  <2> QED
    BY <2>1, BlockTaskType DEF Part
<1>3. Requeued(s, z) /\ z.tasks = Append(s.tasks, t)
  <2>1. z \in Store
    BY <1>1, <1>2, QueueType DEF Keeps
  <2> HIDE DEF t
  <2> QED
    BY <1>1, <2>1 DEF Queue, Store, Requeued
<1> HIDE DEF t, z
<1>4. Part(t) \notin QueuedCopies(s.tasks) /\ QueuedCopies(s.tasks) \cap E = {} /\ QueuedPoints(s.tasks) \cap P = {}
  BY <1>2 DEF Sound, QueueFits
<1>5. Appended(s.tasks, z.tasks, t)
  BY <1>1, <1>2, <1>3, AppendIs
<1>6. QueuedCopies(z.tasks) = QueuedCopies(s.tasks) \cup {x} /\ QueuedPoints(z.tasks) = QueuedPoints(s.tasks) /\ Once(z.tasks)
  BY <1>1, <1>2, <1>4, <1>5, AppendsCopy
<1>7. E \ {x} \in SUBSET Copy /\ QueuedCopies(z.tasks) \cup (E \ {x}) = QueuedCopies(s.tasks) \cup E
      /\ QueuedCopies(z.tasks) \cap (E \ {x}) = {}
  BY <1>1, <1>4, <1>6
<1>8. Sound(z, E \ {x}, P, X)
  BY <1>1, <1>3, <1>4, <1>6, <1>7, RequeuedSound
<1> QED
  BY <1>8 DEF z, t

LEMMA PopSound ==
    ASSUME NEW s, NEW E, NEW P, NEW X, Sound(s, E, P, X), s.tasks # << >>
    PROVE  LET z == [s EXCEPT !.tasks = Tail(@)]
               t == Head(s.tasks) IN
           /\ Requeued(s, z) /\ t \in Task
           /\ t.kind = "block" => Part(t) \notin E /\ Sound(z, E \cup {Part(t)}, P, X)
           /\ t.kind = "point" => /\ t.job \notin P \cup QueuedPoints(z.tasks)
                                  /\ Sound(z, E, P \cup {t.job}, X)
           /\ t.kind \notin {"block", "point"} => Sound(z, E, P, X)
<1> DEFINE q == s.tasks
           more == Tail(q)
           z == [s EXCEPT !.tasks = more]
           t == Head(q)
<1>1. s \in Store /\ q \in Seq(Task) /\ Once(q) /\ E \in SUBSET Copy /\ P \in SUBSET Jobs
  BY SoundParts DEF Sound, QueuedGo
<1>2. more \in Seq(Task) /\ t \in Task
  BY <1>1
<1>3. Shifted(q, more, t)
  BY <1>1, TailIs
<1> HIDE DEF more, t
<1>4. Requeued(s, z) /\ z.tasks = more
  BY <1>1, <1>2 DEF Store, Requeued
<1> HIDE DEF z
<1>5. QueuedCopies(q) \cap E = {} /\ QueuedPoints(q) \cap P = {}
  BY DEF Sound, QueueFits
<1>6. /\ Once(more)
      /\ t.kind = "block" => Part(t) \notin QueuedCopies(more) /\ QueuedCopies(q) = QueuedCopies(more) \cup {Part(t)}
      /\ t.kind # "block" => QueuedCopies(q) = QueuedCopies(more)
      /\ t.kind = "point" => t.job \notin QueuedPoints(more) /\ QueuedPoints(q) = QueuedPoints(more) \cup {t.job}
      /\ t.kind # "point" => QueuedPoints(q) = QueuedPoints(more)
  BY <1>1, <1>3, Shifts
<1> HIDE DEF q
<1>7. Once(z.tasks)
  BY <1>4, <1>6
<1>8. ASSUME t.kind = "block" PROVE Part(t) \notin E /\ Sound(z, E \cup {Part(t)}, P, X)
  <2>1. Part(t) \in Copy
    BY <1>2, <1>8, PartType
  <2>2. /\ QueuedCopies(z.tasks) \cup (E \cup {Part(t)}) = QueuedCopies(s.tasks) \cup E
        /\ QueuedCopies(z.tasks) \cap (E \cup {Part(t)}) = {}
        /\ QueuedPoints(z.tasks) \cup P = QueuedPoints(s.tasks) \cup P /\ QueuedPoints(z.tasks) \cap P = {}
    BY <1>4, <1>5, <1>6, <1>8 DEF q
  <2>3. E \cup {Part(t)} \in SUBSET Copy
    BY <1>1, <2>1
  <2>4. Part(t) \notin E
    BY <1>5, <1>6, <1>8
  <2> QED
    BY <1>1, <1>4, <1>7, <2>2, <2>3, <2>4, RequeuedSound
<1>9. ASSUME t.kind = "point" PROVE t.job \notin P \cup QueuedPoints(z.tasks) /\ Sound(z, E, P \cup {t.job}, X)
  <2>1. P \cup {t.job} \in SUBSET Jobs
    BY <1>1, <1>2, <1>9, PointExact
  <2>2. /\ QueuedCopies(z.tasks) \cup E = QueuedCopies(s.tasks) \cup E /\ QueuedCopies(z.tasks) \cap E = {}
        /\ QueuedPoints(z.tasks) \cup (P \cup {t.job}) = QueuedPoints(s.tasks) \cup P
        /\ QueuedPoints(z.tasks) \cap (P \cup {t.job}) = {}
    BY <1>4, <1>5, <1>6, <1>9 DEF q
  <2>3. t.job \notin P \cup QueuedPoints(z.tasks)
    BY <1>4, <1>5, <1>6, <1>9
  <2> QED
    BY <1>1, <1>4, <1>7, <2>1, <2>2, <2>3, RequeuedSound
<1>10. ASSUME t.kind \notin {"block", "point"} PROVE Sound(z, E, P, X)
  <2>1. /\ QueuedCopies(z.tasks) \cup E = QueuedCopies(s.tasks) \cup E /\ QueuedCopies(z.tasks) \cap E = {}
        /\ QueuedPoints(z.tasks) \cup P = QueuedPoints(s.tasks) \cup P /\ QueuedPoints(z.tasks) \cap P = {}
    BY <1>4, <1>5, <1>6, <1>10 DEF q
  <2> QED
    BY <1>1, <1>4, <1>7, <2>1, RequeuedSound
<1> QED
  BY <1>2, <1>4, <1>8, <1>9, <1>10 DEF z, t, more, q

LEMMA ParkSound ==
    ASSUME NEW s, NEW E, NEW P, NEW X, NEW j \in Jobs, Sound(s, E, P, X), j \notin QueuedPoints(s.tasks),
           s.jobs[j].state = "publishing"
    PROVE  Sound([s EXCEPT !.jobs[j].parked = TRUE], E, P \ {j}, X)
<1> DEFINE r == [s.jobs[j] EXCEPT !.parked = TRUE]
           z == [s EXCEPT !.jobs[j].parked = TRUE]
           H == QueuedCopies(s.tasks) \cup E
<1>1. s \in Store /\ s.jobs[j] \in Job
  BY SoundParts
<1>2. /\ r \in Job /\ Kin(s.jobs[j], r)
  BY <1>1 DEF Job, Kin
<1>3. /\ z \in Store /\ z.jobs[j] = r /\ OnlyJob(s, z, j)
      /\ z.inflight = s.inflight /\ z.tasks = s.tasks /\ z.free = s.free
  <2>1. z = [s EXCEPT !.jobs[j] = r]
    OBVIOUS
  <2> HIDE DEF r, z
  <2> QED
    BY <1>1, <1>2, <2>1, RecordIs
<1> HIDE DEF r, z
<1>4. \A i \in Jobs : Kin(s.jobs[i], z.jobs[i])
  BY <1>2, <1>3 DEF OnlyJob, Kin
<1>5. JobsFit(z)
  <2>1. JobFits(r)
    BY <1>2 DEF Sound, JobsFit, JobFits, Kin
  <2> QED
    BY <1>3, <2>1 DEF Sound, JobsFit, OnlyJob
<1>6. Flights(z)
  BY <1>3, <1>4, KinFits DEF Sound, Flights
<1>7. Owners(z, X)
  <2> SUFFICES ASSUME NEW n \in Names, z.inflight[n] # NoJob
               PROVE  Owns(z.jobs[z.inflight[n]], n) \/ <<z.inflight[n], n>> \in X
    BY DEF Owners
  <2>1. s.inflight[n] \in Jobs /\ z.inflight[n] = s.inflight[n]
    BY <1>3, SoundParts
  <2>2. Owns(s.jobs[s.inflight[n]], n) \/ <<s.inflight[n], n>> \in X
    BY <2>1, ConstantsAssumption DEF Sound, Owners
  <2> QED
    BY <1>4, <2>1, <2>2, KinFits
<1>8. SlotsFit(z, QueuedCopies(z.tasks) \cup E)
  <2>1. SlotsFit(s, H) /\ QueuedCopies(z.tasks) \cup E = H /\ \A x \in H : x.job \in Jobs
    BY <1>3, SoundParts DEF Sound
  <2>2. \A i \in Jobs : z.jobs[i].tailSlot = s.jobs[i].tailSlot /\ z.jobs[i].out = s.jobs[i].out
    BY <1>4 DEF Kin
  <2> HIDE DEF H
  <2> QED
    BY <1>3, <2>1, <2>2 DEF SlotsFit, CopiesFit, TailsFit, FreeFits
<1>9. QueueFits(z, E, P \ {j})
  <2>1. QueueFits(s, E, P) /\ QueuedPoints(s.tasks) \cup P \in SUBSET Jobs
    BY SoundParts DEF Sound
  <2> QED
    BY <1>3, <2>1 DEF QueueFits, OnlyJob
<1>10. P \ {j} \in SUBSET Jobs /\ E \in SUBSET Copy
  BY DEF Sound
<1>11. Sound(z, E, P \ {j}, X)
  BY <1>3, <1>5, <1>6, <1>7, <1>8, <1>9, <1>10 DEF Sound
<1> QED
  BY <1>11 DEF z

-----------------------------------------------------------------------------
(* The small state and the tail of a write are captured *)

\* The capture of j ended as c: j is st, its tail slot is out of its hands,
\* and O more is outstanding and the slots W free.
CaptureEnded(s, z, j, c, st, O, W) ==
    /\ z \in Store /\ OnlyJob(s, z, j)
    /\ z.inflight = s.inflight /\ z.tasks = s.tasks /\ z.free = s.free \cup W
    /\ z.jobs[j].key = s.jobs[j].key /\ z.jobs[j].left = s.jobs[j].left
    /\ z.jobs[j].parked = s.jobs[j].parked /\ z.jobs[j].tailSlot = NoSlot
    /\ z.jobs[j].capture = c /\ z.jobs[j].state = st /\ z.jobs[j].out = s.jobs[j].out \cup O

\* A write without a tail of its own; an open one, whose tail t becomes an
\* outstanding copy; another, whose slot is free again.
TailGoes(r, j, st, O, W, N, t) ==
    \/ r.tailSlot = NoSlot /\ O = {} /\ W = {} /\ N = {}
    \/ /\ r.tailSlot # NoSlot /\ st = "open" /\ O = {t} /\ W = {}
       /\ N = {[job |-> j, name |-> t, slot |-> r.tailSlot]}
    \/ r.tailSlot # NoSlot /\ st # "open" /\ O = {} /\ W = {r.tailSlot} /\ N = {}

\* The capture of the write r, whose tail is t, may end so.
MayEnd(r, c, st, t) ==
    /\ c \in {"ok", "failed"} /\ st \in {"open", "failed", "cancelled"}
    /\ r.state \in {"open", "failed", "cancelled"} /\ (r.state # "open" => st = r.state)
    /\ r.capture = "pending" /\ (TailBlock(r.key) # {} => TailBlock(r.key) = {t})

LEMMA CaptureSound ==
    ASSUME NEW s, NEW z, NEW E, NEW P, NEW j \in Jobs, NEW c, NEW st, NEW O, NEW W, NEW N, NEW t,
           Sound(s, E, P, {}), MayEnd(s.jobs[j], c, st, t),
           CaptureEnded(s, z, j, c, st, O, W), TailGoes(s.jobs[j], j, st, O, W, N, t)
    PROVE  Sound(z, E \cup N, P, {})
<1> DEFINE H == QueuedCopies(s.tasks) \cup E
           a == s.jobs[j]
           b == z.jobs[j]
           w == a.tailSlot
<1>1. /\ z \in Store /\ \A i \in Jobs \ {j} : z.jobs[i] = s.jobs[i]
      /\ z.inflight = s.inflight /\ z.tasks = s.tasks /\ z.free = s.free \cup W
      /\ b.key = a.key /\ b.left = a.left /\ b.parked = a.parked /\ b.tailSlot = NoSlot
      /\ b.capture = c /\ b.state = st /\ b.out = a.out \cup O
  BY DEF CaptureEnded, OnlyJob
<1>2. /\ JobFits(a) /\ a \in Job /\ a.state \in {"open", "failed", "cancelled"} /\ a.capture = "pending"
      /\ a.state # "open" => st = a.state
      /\ c \in {"ok", "failed"} /\ st \in {"open", "failed", "cancelled"}
  BY SoundParts DEF Sound, JobsFit, MayEnd
<1>3. w # NoSlot => w \in WriteSlots /\ TailBlock(a.key) = {t} /\ t \in Names /\ t \in Blocks(a.key)
  <2>1. w # NoSlot => w \in WriteSlots /\ TailBlock(a.key) = {t}
    BY <1>2, JobFields DEF JobFits, MayEnd
  <2>2. a.key \in Keys /\ BlocksOf[a.key] \in Seq(Names) /\ BlocksOf[a.key] # << >>
    BY <1>2, JobFields, NamesType
  <2>3. Last(BlocksOf[a.key]) \in Blocks(a.key)
    BY <2>2 DEF Last, Blocks, Range
  <2>4. TailBlock(a.key) \subseteq {Last(BlocksOf[a.key])} /\ TailBlock(a.key) \subseteq Names
    BY <2>2, NamesType DEF TailBlock
  <2> QED
    BY <2>1, <2>3, <2>4
<1>4. TailGoes(a, j, st, O, W, N, t)
  OBVIOUS
<1> HIDE DEF a, b
<1>5. O \subseteq TailBlock(a.key) /\ Writes(b) \subseteq Writes(a)
  BY <1>1, <1>3, <1>4 DEF TailGoes, Writes
<1>6. JobsFit(z)
  <2>1. JobFits(b)
    <3>1. b.left \cap b.out = {} /\ b.left \cap TailBlock(b.key) = {}
      BY <1>1, <1>2, <1>5 DEF JobFits
    <3>2. ~b.parked /\ b.state \in LiveStates
      BY <1>1, <1>2 DEF JobFits, LiveStates
    <3> QED
      BY <1>1, <1>2, <3>1, <3>2 DEF JobFits
  <2> QED
    BY <1>1, <2>1 DEF Sound, JobsFit, b
<1>7. Flights(z)
  BY <1>1, <1>5 DEF Sound, Flights, a, b
<1>8. Owners(z, {})
  <2> SUFFICES ASSUME NEW n \in Names, z.inflight[n] # NoJob
               PROVE  Owns(z.jobs[z.inflight[n]], n)
    BY DEF Owners
  <2>1. s.inflight[n] \in Jobs /\ z.inflight[n] = s.inflight[n]
    BY <1>1, SoundParts
  <2>2. Owns(s.jobs[s.inflight[n]], n)
    BY <2>1, ConstantsAssumption DEF Sound, Owners
  <2>3. Owns(a, n) => Owns(b, n)
    <3> SUFFICES ASSUME Owns(a, n) PROVE Owns(b, n)
      OBVIOUS
    <3>1. b.state \in LiveStates
      BY <1>1, <1>2 DEF LiveStates
    <3>2. CASE a.state # "open"
      <4>1. Writes(a) \subseteq Writes(b) \cup TailBlock(a.key)
        BY <1>1 DEF Writes
      <4>2. TailBlock(a.key) \subseteq Blocks(a.key) \/ w = NoSlot
        BY <1>3
      <4>3. n \in Writes(b) \/ n \in Blocks(a.key)
        BY <1>1, <4>1, <4>2 DEF Owns, Writes
      <4> QED
        BY <1>1, <1>2, <3>1, <3>2, <4>3 DEF Owns
    <3>3. CASE a.state = "open"
      <4>1. n \in Writes(a)
        BY <3>3 DEF Owns
      <4>2. CASE w = NoSlot \/ st = "open"
        <5>1. n \in Writes(b)
          BY <1>1, <1>3, <1>4, <4>1, <4>2 DEF Writes, TailGoes
        <5> QED
          BY <3>1, <5>1 DEF Owns
      <4>3. CASE w # NoSlot /\ st # "open"
        <5>1. n \in Writes(b) \/ n \in Blocks(a.key)
          BY <1>1, <1>3, <4>1 DEF Writes
        <5> QED
          BY <1>1, <1>2, <3>1, <4>3, <5>1 DEF Owns
      <4> QED
        BY <4>2, <4>3
    <3> QED
      BY <3>2, <3>3
  <2> QED
    BY <1>1, <2>1, <2>2, <2>3 DEF a, b
<1>9. /\ SlotsFit(s, H) /\ QueuedCopies(z.tasks) \cup (E \cup N) = H \cup N
      /\ \A x \in H : x.job \in Jobs /\ x.name \in s.jobs[x.job].out
  BY <1>1, SoundParts DEF Sound
<1>10. N \in SUBSET Copy /\ N \cap H = {}
       /\ \A x \in N : x.job = j /\ x.name = t /\ x.slot = w /\ w # NoSlot
  <2>1. N \in SUBSET Copy /\ \A x \in N : x.job = j /\ x.name = t /\ x.slot = w /\ w # NoSlot
    BY <1>3, <1>4 DEF TailGoes, Copy, a
  <2>2. w # NoSlot => \A x \in H : x.slot # w
    BY <1>9 DEF SlotsFit, TailsFit, a
  <2> QED
    BY <2>1, <2>2
<1>11. \A i \in Jobs : z.jobs[i].tailSlot = IF i = j THEN NoSlot ELSE s.jobs[i].tailSlot
  BY <1>1 DEF b
<1>12. /\ w # NoSlot => /\ \A x \in H : x.slot # w
                        /\ \A i \in Jobs : s.jobs[i].tailSlot = w => i = j
       /\ s.jobs[j].tailSlot = w
  BY <1>9 DEF SlotsFit, TailsFit, a
<1> HIDE DEF H
<1>13. CopiesFit(z, H \cup N)
  <2>1. \A x \in H : x.name \in z.jobs[x.job].out
    BY <1>1, <1>9 DEF a, b
  <2>2. \A x \in N : x.name \in z.jobs[x.job].out
    <3>1. N # {} => t \in O
      BY <1>4 DEF TailGoes
    <3> QED
      BY <1>1, <1>10, <3>1 DEF b
  <2>3. ASSUME NEW x \in H, NEW y \in N PROVE x.slot # y.slot /\ ~(x.job = y.job /\ x.name = y.name)
    <3>1. y.job = j /\ y.name = t /\ y.slot = w /\ w # NoSlot
      BY <1>10
    <3>2. t \notin a.out
      BY <1>2, <1>3, <3>1 DEF JobFits
    <3> QED
      BY <1>9, <1>12, <3>1, <3>2 DEF a
  <2>4. \A x, y \in N : x = y
    BY <1>4 DEF TailGoes
  <2>5. \A x, y \in H : x.slot = y.slot \/ (x.job = y.job /\ x.name = y.name) => x = y
    BY <1>9 DEF SlotsFit, CopiesFit
  <2> QED
    BY <2>1, <2>2, <2>3, <2>4, <2>5 DEF CopiesFit
<1>14. TailsFit(z, H \cup N)
  <2> SUFFICES ASSUME NEW i \in Jobs, z.jobs[i].tailSlot # NoSlot
               PROVE  /\ \A x \in H \cup N : x.slot # z.jobs[i].tailSlot
                      /\ \A d \in Jobs : z.jobs[d].tailSlot = z.jobs[i].tailSlot => d = i
    BY DEF TailsFit
  <2>1. i # j /\ z.jobs[i].tailSlot = s.jobs[i].tailSlot
    BY <1>11
  <2>2. /\ \A x \in H : x.slot # s.jobs[i].tailSlot
        /\ \A d \in Jobs : s.jobs[d].tailSlot = s.jobs[i].tailSlot => d = i
    BY <1>9, <2>1 DEF SlotsFit, TailsFit
  <2>3. \A x \in N : x.slot # s.jobs[i].tailSlot
    BY <1>10, <1>12, <2>1
  <2>4. \A d \in Jobs : z.jobs[d].tailSlot = s.jobs[i].tailSlot => d = i
    BY <1>11, <2>1, <2>2
  <2> QED
    BY <2>1, <2>2, <2>3, <2>4
<1>15. FreeFits(z, H \cup N)
  <2> SUFFICES ASSUME NEW v \in WriteSlots
               PROVE  v \in z.free <=> /\ \A x \in H \cup N : x.slot # v
                                       /\ \A i \in Jobs : z.jobs[i].tailSlot # v
    BY DEF FreeFits
  <2>1. v \in s.free <=> /\ \A x \in H : x.slot # v
                         /\ \A i \in Jobs : s.jobs[i].tailSlot # v
    BY <1>9 DEF SlotsFit, FreeFits
  <2>2. v # NoSlot
    BY ConstantsAssumption
  <2>3. (\A i \in Jobs : z.jobs[i].tailSlot # v) <=> (v = w \/ \A i \in Jobs : s.jobs[i].tailSlot # v)
    BY <1>11, <1>12, <2>2
  <2>4. v \in z.free <=> v \in s.free \/ v \in W
    BY <1>1
  <2>5. CASE v # w
    <3>1. v \notin W /\ \A x \in N : x.slot # v
      BY <1>4, <1>10, <2>5 DEF TailGoes
    <3> QED
      BY <2>1, <2>3, <2>4, <2>5, <3>1
  <2>6. CASE v = w
    <3>1. v \notin s.free /\ \A x \in H : x.slot # v
      BY <1>12, <2>1, <2>2, <2>6
    <3>2. v \in W <=> \A x \in N : x.slot # v
      <4>1. CASE st = "open"
        <5>1. W = {} /\ N = {[job |-> j, name |-> t, slot |-> w]}
          BY <1>4, <2>2, <2>6, <4>1 DEF TailGoes
        <5> QED
          BY <2>6, <5>1
      <4>2. CASE st # "open"
        BY <1>4, <2>2, <2>6, <4>2 DEF TailGoes
      <4> QED
        BY <4>1, <4>2
    <3> QED
      BY <2>3, <2>4, <2>6, <3>1, <3>2
  <2> QED
    BY <2>5, <2>6
<1>16. QueueFits(z, E \cup N, P)
  <2>1. QueueFits(s, E, P) /\ QueuedPoints(s.tasks) \cup P \in SUBSET Jobs
    BY SoundParts DEF Sound
  <2>2. j \notin QueuedPoints(s.tasks) \cup P
    BY <1>2, <2>1 DEF QueueFits, a
  <2>3. QueuedCopies(s.tasks) \cap N = {}
    BY <1>10 DEF H
  <2> QED
    BY <1>1, <2>1, <2>2, <2>3 DEF QueueFits
<1>17. E \cup N \in SUBSET Copy /\ P \in SUBSET Jobs
  BY <1>10 DEF Sound
<1> QED
  BY <1>1, <1>6, <1>7, <1>8, <1>9, <1>13, <1>14, <1>15, <1>16, <1>17 DEF Sound, SlotsFit

-----------------------------------------------------------------------------
(* A write is registered *)

\* j becomes the open write of k, the names `new` in flight for it and the
\* slot w held for its tail.
Registered(s, z, j, k, new, w) ==
    /\ z \in Store /\ OnlyJob(s, z, j) /\ z.tasks = s.tasks /\ z.free = s.free \ {w}
    /\ \A n \in Names : z.inflight[n] = IF n \in new THEN j ELSE s.inflight[n]
    /\ z.jobs[j].key = k /\ z.jobs[j].state = "open" /\ z.jobs[j].capture = "pending"
    /\ z.jobs[j].left = new \ TailBlock(k) /\ z.jobs[j].out = {} /\ z.jobs[j].tailSlot = w
    /\ ~z.jobs[j].parked

LEMMA RegisterIs ==
    ASSUME NEW s \in Store, NEW j \in Jobs, NEW k \in Keys, NEW b \in BOOLEAN,
           NEW new \in SUBSET Names, NEW w \in WriteSlots \cup {NoSlot}
    PROVE  Registered(s, Register(s, j, k, b, new, w), j, k, new, w)
<1> DEFINE size == Cardinality(new) + FileBytes
           left == new \ TailBlock(k)
           r == [NoWrite EXCEPT !.key = k, !.state = "open", !.left = left,
                                !.tailSlot = w, !.size = size]
           jobs == [s.jobs EXCEPT ![j] = r]
           inflight == [n \in Names |-> IF n \in new THEN j ELSE s.inflight[n]]
           shared == IF b THEN s.shared \cup {k} ELSE s.shared
           free == s.free \ {w}
           queued == s.queued + size
           z == Register(s, j, k, b, new, w)
<1>1. s.jobs \in [Jobs -> Job]
  BY StoreFields
<1>2. /\ r.key = k /\ r.state = "open" /\ r.capture = "pending" /\ r.left = left /\ r.out = {}
      /\ r.tailSlot = w /\ ~r.parked
  <2> HIDE DEF size, left
  <2> QED
    BY DEF NoWrite
<1>3. z \in Store
  BY RegisterType DEF Keeps
<1>4. z = [s EXCEPT !.jobs = jobs, !.inflight = inflight, !.shared = shared, !.free = free, !.queued = queued]
  BY DEF Register
<1>5. z.jobs = jobs /\ z.inflight = inflight /\ z.free = free /\ z.tasks = s.tasks
  <2> HIDE DEF jobs, inflight, shared, free, queued, z
  <2> QED
    BY <1>4 DEF Store
<1> HIDE DEF r, z
<1>6. jobs[j] = r /\ \A i \in Jobs \ {j} : jobs[i] = s.jobs[i]
  BY <1>1
<1> HIDE DEF jobs
<1>7. \A n \in Names : z.inflight[n] = IF n \in new THEN j ELSE s.inflight[n]
  BY <1>5
<1> HIDE DEF inflight
<1>8. Registered(s, z, j, k, new, w)
  BY <1>2, <1>3, <1>5, <1>6, <1>7 DEF Registered, OnlyJob
<1> QED
  BY <1>8 DEF z

LEMMA RegisteredSound ==
    ASSUME NEW s, NEW z, NEW E, NEW P, NEW j \in Jobs, NEW k \in Keys, NEW new \in SUBSET Names,
           NEW w, Sound(s, E, P, {}), Registered(s, z, j, k, new, w),
           s.jobs[j].state \notin LiveStates, \A n \in new : s.inflight[n] = NoJob,
           w = NoSlot \/ (w \in s.free /\ TailBlock(k) # {} /\ TailBlock(k) \subseteq new),
           w = NoSlot => new \cap TailBlock(k) = {}
    PROVE  Sound(z, E, P, {})
<1> DEFINE H == QueuedCopies(s.tasks) \cup E
           a == s.jobs[j]
           b == z.jobs[j]
<1>1. /\ z \in Store /\ \A i \in Jobs \ {j} : z.jobs[i] = s.jobs[i]
      /\ z.tasks = s.tasks /\ z.free = s.free \ {w}
      /\ \A n \in Names : z.inflight[n] = IF n \in new THEN j ELSE s.inflight[n]
      /\ b.key = k /\ b.state = "open" /\ b.capture = "pending" /\ b.left = new \ TailBlock(k)
      /\ b.out = {} /\ b.tailSlot = w /\ ~b.parked
  BY DEF Registered, OnlyJob
<1>2. a.left = {} /\ a.out = {} /\ a.tailSlot = NoSlot /\ a.state \notin LiveStates
  BY DEF Sound, JobsFit, JobFits
<1>3. \A i \in Jobs : \A n \in Writes(s.jobs[i]) : s.inflight[n] = i /\ n \in Names
  <2> SUFFICES ASSUME NEW i \in Jobs, NEW n \in Writes(s.jobs[i]) PROVE s.inflight[n] = i /\ n \in Names
    OBVIOUS
  <2>1. s.jobs[i] \in Job
    BY SoundParts
  <2> QED
    BY <2>1, JobFields, NamesType DEF Writes, Sound, Flights
<1> HIDE DEF a, b
<1>4. Writes(b) = new
  BY <1>1 DEF Writes
<1>5. JobsFit(z)
  <2>1. JobFits(b)
    BY <1>1 DEF JobFits, LiveStates
  <2> QED
    BY <1>1, <2>1 DEF Sound, JobsFit, b
<1>6. Flights(z)
  <2> SUFFICES ASSUME NEW i \in Jobs, NEW n \in Writes(z.jobs[i]) PROVE z.inflight[n] = i
    BY DEF Flights
  <2>1. CASE i = j
    BY <1>1, <1>4, <2>1 DEF b
  <2>2. CASE i # j
    <3>1. s.inflight[n] = i /\ n \in Names
      BY <1>1, <1>3, <2>2
    <3>2. n \notin new
      BY <3>1, ConstantsAssumption
    <3> QED
      BY <1>1, <3>1, <3>2
  <2> QED
    BY <2>1, <2>2
<1>7. Owners(z, {})
  <2> SUFFICES ASSUME NEW n \in Names, z.inflight[n] # NoJob
               PROVE  Owns(z.jobs[z.inflight[n]], n)
    BY DEF Owners
  <2>1. CASE n \in new
    BY <1>1, <1>4, <2>1 DEF Owns, LiveStates, b
  <2>2. CASE n \notin new
    <3>1. s.inflight[n] \in Jobs /\ z.inflight[n] = s.inflight[n]
      BY <1>1, <2>2, SoundParts
    <3>2. Owns(s.jobs[s.inflight[n]], n)
      BY <3>1, ConstantsAssumption DEF Sound, Owners
    <3>3. s.inflight[n] # j
      BY <1>2, <3>2 DEF Owns, a
    <3> QED
      BY <1>1, <3>1, <3>2, <3>3
  <2> QED
    BY <2>1, <2>2
<1>8. /\ SlotsFit(s, H) /\ QueuedCopies(z.tasks) \cup E = H
      /\ \A x \in H : x.job \in Jobs /\ x.name \in s.jobs[x.job].out
  BY <1>1, SoundParts DEF Sound
<1>9. \A x \in H : x.job # j
  BY <1>2, <1>8 DEF a
<1>10. \A i \in Jobs : z.jobs[i].tailSlot = IF i = j THEN w ELSE s.jobs[i].tailSlot
  BY <1>1 DEF b
<1> HIDE DEF H
<1>11. w # NoSlot => /\ \A x \in H : x.slot # w
                     /\ \A i \in Jobs : s.jobs[i].tailSlot # w
  <2> SUFFICES ASSUME w # NoSlot
               PROVE  /\ \A x \in H : x.slot # w
                      /\ \A i \in Jobs : s.jobs[i].tailSlot # w
    OBVIOUS
  <2>1. w \in s.free /\ w \in WriteSlots
    BY SoundParts
  <2> QED
    BY <1>8, <2>1 DEF SlotsFit, FreeFits
<1>12. CopiesFit(z, H)
  BY <1>1, <1>8, <1>9 DEF SlotsFit, CopiesFit
<1>13. TailsFit(z, H)
  <2> SUFFICES ASSUME NEW i \in Jobs, z.jobs[i].tailSlot # NoSlot
               PROVE  /\ \A x \in H : x.slot # z.jobs[i].tailSlot
                      /\ \A d \in Jobs : z.jobs[d].tailSlot = z.jobs[i].tailSlot => d = i
    BY DEF TailsFit
  <2>1. CASE i = j
    BY <1>10, <1>11, <2>1
  <2>2. CASE i # j
    <3>1. z.jobs[i].tailSlot = s.jobs[i].tailSlot
      BY <1>10, <2>2
    <3>2. /\ \A x \in H : x.slot # s.jobs[i].tailSlot
          /\ \A d \in Jobs : s.jobs[d].tailSlot = s.jobs[i].tailSlot => d = i
      BY <1>8, <3>1 DEF SlotsFit, TailsFit
    <3>3. w # s.jobs[i].tailSlot
      BY <1>11, <3>1
    <3> QED
      BY <1>10, <3>1, <3>2, <3>3
  <2> QED
    BY <2>1, <2>2
<1>14. FreeFits(z, H)
  <2> SUFFICES ASSUME NEW v \in WriteSlots
               PROVE  v \in z.free <=> /\ \A x \in H : x.slot # v
                                       /\ \A i \in Jobs : z.jobs[i].tailSlot # v
    BY DEF FreeFits
  <2>1. v \in s.free <=> /\ \A x \in H : x.slot # v
                         /\ \A i \in Jobs : s.jobs[i].tailSlot # v
    BY <1>8 DEF SlotsFit, FreeFits
  <2>2. v # NoSlot /\ s.jobs[j].tailSlot = NoSlot
    BY <1>2, ConstantsAssumption DEF a
  <2>3. (\A i \in Jobs : z.jobs[i].tailSlot # v) <=> (v # w /\ \A i \in Jobs : s.jobs[i].tailSlot # v)
    BY <1>10, <2>2
  <2> QED
    BY <1>1, <2>1, <2>3
<1>15. QueueFits(z, E, P)
  <2>1. QueueFits(s, E, P) /\ QueuedPoints(s.tasks) \cup P \in SUBSET Jobs
    BY SoundParts DEF Sound
  <2>2. j \notin QueuedPoints(s.tasks) \cup P
    BY <1>2, <2>1 DEF QueueFits, a, LiveStates
  <2> QED
    BY <1>1, <2>1, <2>2 DEF QueueFits
<1>16. E \in SUBSET Copy /\ P \in SUBSET Jobs
  BY DEF Sound
<1> QED
  BY <1>1, <1>5, <1>6, <1>7, <1>8, <1>12, <1>13, <1>14, <1>15, <1>16 DEF Sound, SlotsFit

-----------------------------------------------------------------------------
(* The engine's actions *)

\* What any step must show when only the store changes.
LEMMA StoreOnly ==
    ASSUME Whole, UNCHANGED <<tickets, running>>,
           Sound(store', tickets \cup RunningCopy, RunningPoint, {})
    PROVE  Whole'
BY DEF Whole, RunningCopy, RunningPoint

LEMMA StoreAlike ==
    ASSUME Whole, UNCHANGED <<tickets, running>>, Alike(store, store')
    PROVE  Whole'
<1>1. Sound(store', tickets \cup RunningCopy, RunningPoint, {})
  BY AlikeSound DEF Whole
<1> QED
  BY <1>1, StoreOnly

LEMMA FieldsAlike ==
    ASSUME NEW s \in Store, NEW z \in Store, z.jobs = s.jobs, z.inflight = s.inflight,
           z.free = s.free, z.tasks = s.tasks
    PROVE  Alike(s, z)
BY DEF Alike

LEMMA MarkSharedWhole ==
    ASSUME IInv, NEW k \in Keys, MarkShared(k)
    PROVE  Whole'
<1> DEFINE shared == store.shared \cup {k}
           s == [store EXCEPT !.shared = shared]
<1>1. store \in Store /\ shared \in SUBSET Keys
  BY StoreFields DEF IInv, TypeOK
<1>2. s \in Store /\ s.jobs = store.jobs /\ s.inflight = store.inflight /\ s.free = store.free
      /\ s.tasks = store.tasks
  <2> HIDE DEF shared
  <2> QED
    BY <1>1 DEF Store
<1>3. store' = s \/ store' = Queue(s, [kind |-> "shared", key |-> k])
  BY DEF MarkShared
<1> HIDE DEF s
<1>4. Alike(store, s)
  BY <1>1, <1>2, FieldsAlike
<1>5. Alike(s, Queue(s, [kind |-> "shared", key |-> k]))
  BY <1>2, SharedTaskType, QueueAlike
<1>6. Alike(store, store')
  BY <1>3, <1>4, <1>5, AlikeTrans
<1> QED
  BY <1>6, StoreAlike DEF IInv, MarkShared

LEMMA ReadWhole ==
    ASSUME IInv, NEW k, BeginRead(k) \/ EndRead(k)
    PROVE  Whole'
<1>1. Alike(store, store')
  BY AlikeSelf DEF IInv, TypeOK, BeginRead, EndRead
<1> QED
  BY <1>1, StoreAlike DEF IInv, BeginRead, EndRead

LEMMA ForgetWhole ==
    ASSUME IInv, NEW k, NEW gone, Forget(k, gone)
    PROVE  Whole'
<1> DEFINE V == {k} \cup {p \in store.points : Blocks(p) \cap gone # {}}
           s == RemovePoints(store, V)
<1>1. store \in Store /\ store' = DropBlocks(s, gone)
  BY DEF IInv, TypeOK, Forget
<1>2. Alike(store, s)
  BY <1>1, RemovePointsAlike
<1> HIDE DEF s
<1>3. Alike(s, DropBlocks(s, gone))
  BY <1>2, DropBlocksAlike DEF Alike
<1>4. Alike(store, store')
  BY <1>1, <1>2, <1>3, AlikeTrans
<1> QED
  BY <1>4, StoreAlike DEF IInv, Forget

LEMMA KeepWhole ==
    ASSUME IInv, NEW k \in Keys, NEW b \in BOOLEAN, NEW V, Keep(k, b, V)
    PROVE  Whole'
<1> DEFINE new == {n \in Blocks(k) : n \notin store.have /\ store.inflight[n] = NoJob}
           tail == new \cap TailBlock(k)
           pinned == Ref(store, Blocks(k))
           over == Over(store, Cardinality(new) + FileBytes)
           s == IF over > 0 /\ over <= store.stored THEN RemovePoints(pinned, V) ELSE pinned
           refused == Gc(Unref(s, Blocks(k)), Blocks(k))
<1>1. PICK j \in NextJob(store) :
        \/ /\ tail = {} \/ s.free # {}
           /\ \E w \in IF tail = {} THEN {NoSlot} ELSE s.free : store' = Register(s, j, k, b, new, w)
        \/ store' = refused
  BY DEF Keep
<1>2. UNCHANGED <<tickets, running>> /\ store \in Store /\ Whole
  BY DEF IInv, TypeOK, Keep
<1>3. Alike(store, s)
  <2>1. Alike(store, pinned)
    BY <1>2, RefAlike
  <2> HIDE DEF pinned
  <2>2. Alike(pinned, RemovePoints(pinned, V))
    BY <2>1, RemovePointsAlike DEF Alike
  <2> QED
    BY <2>1, <2>2, AlikeTrans
<1>4. new \in SUBSET Names /\ \A n \in new : store.inflight[n] = NoJob
  BY NamesType
<1>5. tail # {} => TailBlock(k) # {} /\ TailBlock(k) \subseteq new
  BY DEF TailBlock
<1>6. tail = new \cap TailBlock(k)
  OBVIOUS
<1> HIDE DEF new, tail, s
<1>7. CASE store' = refused
  <2>1. Alike(s, Unref(s, Blocks(k)))
    BY <1>3, RefAlike DEF Alike
  <2>2. Alike(Unref(s, Blocks(k)), refused)
    BY <2>1, DropBlocksAlike DEF Alike
  <2>3. Alike(store, store')
    BY <1>3, <1>7, <2>1, <2>2, AlikeTrans
  <2> QED
    BY <1>2, <2>3, StoreAlike
<1>8. CASE \E w \in IF tail = {} THEN {NoSlot} ELSE s.free : store' = Register(s, j, k, b, new, w)
  <2>1. PICK w \in IF tail = {} THEN {NoSlot} ELSE s.free : store' = Register(s, j, k, b, new, w)
    BY <1>8
  <2>2. s \in Store /\ s.jobs = store.jobs /\ s.inflight = store.inflight /\ s.free \in SUBSET WriteSlots
    BY <1>3, StoreFields DEF Alike
  <2>3. j \in Jobs /\ s.jobs[j].state \notin LiveStates
    BY <2>2 DEF NextJob, LiveStates
  <2>4. w \in WriteSlots \cup {NoSlot}
    BY <2>2
  <2>5. Registered(s, store', j, k, new, w)
    BY <1>4, <2>1, <2>2, <2>3, <2>4, RegisterIs
  <2>6. Sound(s, tickets \cup RunningCopy, RunningPoint, {})
    BY <1>2, <1>3, AlikeSound DEF Whole
  <2>7. w = NoSlot \/ (w \in s.free /\ TailBlock(k) # {} /\ TailBlock(k) \subseteq new)
    BY <1>5
  <2>8. w = NoSlot => new \cap TailBlock(k) = {}
    <3>1. w \in s.free => w # NoSlot
      BY <2>2, ConstantsAssumption
    <3> QED
      BY <1>6, <3>1
  <2>9. \A n \in new : s.inflight[n] = NoJob
    BY <1>4, <2>2
  <2>10. Sound(store', tickets \cup RunningCopy, RunningPoint, {})
    BY <1>4, <2>3, <2>5, <2>6, <2>7, <2>8, <2>9, RegisteredSound
  <2> QED
    BY <1>2, <2>10, StoreOnly
<1> QED
  BY <1>1, <1>7, <1>8

\* Block n of j, no longer to be written, leaves the names in flight.
LEMMA GoneSound ==
    ASSUME NEW s, NEW E, NEW P, NEW j \in Jobs, NEW n \in Names, Sound(s, E, P, {<<j, n>>}),
           n \notin Writes(s.jobs[j])
    PROVE  Sound(Settle(DropInflight(s, j, n), j), E, P, {})
BY DropInflightSound, SettleSound

LEMMA CancelJobSound ==
    ASSUME NEW s, NEW E, NEW P, NEW j \in Jobs, NEW h \in HandOvers(s, j), Sound(s, E, P, {}),
           s.jobs[j].state = "open"
    PROVE  Sound(CancelJob(s, j, h), E, P, {})
<1>1. Sound(Release([s EXCEPT !.jobs[j].state = "cancelled"], j, h), E, P, {})
  BY ReleaseSound
<1> QED
  BY <1>1, SettleSound DEF CancelJob

LEMMA FailSound ==
    ASSUME NEW s, NEW E, NEW P, NEW X, NEW j \in Jobs, NEW h \in HandOvers(s, j), Sound(s, E, P, X),
           s.jobs[j].state = "open"
    PROVE  Sound(Fail(s, j, h), E, P, X) /\ Writes(Fail(s, j, h).jobs[j]) \subseteq Writes(s.jobs[j])
BY ReleaseSound DEF Fail

LEMMA CancelWhole ==
    ASSUME IInv, NEW j \in Jobs, Cancel(j)
    PROVE  Whole'
<1>1. Sound(store', tickets \cup RunningCopy, RunningPoint, {})
  BY CancelJobSound DEF IInv, Whole, Cancel
<1> QED
  BY <1>1, StoreOnly DEF IInv, Cancel

\* One block more is outstanding.
LEMMA OutMore ==
    ASSUME NEW s \in Store, NEW j \in Jobs, NEW n \in Names
    PROVE  LET z == [s EXCEPT !.jobs[j].out = @ \cup {n}] IN
           /\ z \in Store /\ OnlyJob(s, z, j)
           /\ z.inflight = s.inflight /\ z.tasks = s.tasks /\ z.free = s.free
           /\ z.jobs[j].key = s.jobs[j].key /\ z.jobs[j].left = s.jobs[j].left
           /\ z.jobs[j].parked = s.jobs[j].parked /\ z.jobs[j].tailSlot = s.jobs[j].tailSlot
           /\ z.jobs[j].capture = s.jobs[j].capture /\ z.jobs[j].state = s.jobs[j].state
           /\ z.jobs[j].out = s.jobs[j].out \cup {n}
<1> DEFINE out == s.jobs[j].out \cup {n}
           r == [s.jobs[j] EXCEPT !.out = out]
           z == [s EXCEPT !.jobs[j].out = @ \cup {n}]
<1>1. s.jobs[j] \in Job /\ out \in SUBSET Names
  BY StoreFields, JobFields
<1>2. /\ r \in Job /\ r.key = s.jobs[j].key /\ r.left = s.jobs[j].left /\ r.parked = s.jobs[j].parked
      /\ r.tailSlot = s.jobs[j].tailSlot /\ r.capture = s.jobs[j].capture /\ r.state = s.jobs[j].state
      /\ r.out = out
  <2> HIDE DEF out
  <2> QED
    BY <1>1 DEF Job
<1>3. z = [s EXCEPT !.jobs[j] = r]
  OBVIOUS
<1> HIDE DEF r, z, out
<1>4. /\ z \in Store /\ z.jobs[j] = r /\ OnlyJob(s, z, j)
      /\ z.inflight = s.inflight /\ z.tasks = s.tasks /\ z.free = s.free
  <2>1. r \in Job
    BY <1>2
  <2> QED
    BY <1>1, <1>3, <2>1, RecordIs
<1> QED
  BY <1>2, <1>4 DEF z, out

\* The capture of j's small state and tail ended, before j is settled.
CaptureEnds(j, ok) ==
    LET r == store.jobs[j]
        r1 == [r EXCEPT !.capture = IF ok THEN "ok" ELSE "failed",
                        !.state = IF ~ok /\ @ = "open" THEN "failed" ELSE @,
                        !.tailSlot = NoSlot]
        s1 == [store EXCEPT !.jobs[j] = r1]
    IN IF r.tailSlot = NoSlot THEN s1
       ELSE IF s1.jobs[j].state = "open"
       THEN LET t == Last(BlocksOf[r.key]) IN
            Queue([s1 EXCEPT !.jobs[j].out = @ \cup {t}],
                  [kind |-> "block", job |-> j, name |-> t, slot |-> r.tailSlot])
       ELSE GiveSlot(s1, r.tailSlot)

LEMMA CapturedSound ==
    ASSUME IInv, NEW j \in Jobs, NEW ok \in BOOLEAN, Captured(j, ok)
    PROVE  /\ Sound(CaptureEnds(j, ok), tickets \cup RunningCopy, RunningPoint, {})
           /\ store' = Settle(CaptureEnds(j, ok), j)
<1> DEFINE E == tickets \cup RunningCopy
           r == store.jobs[j]
           c == IF ok THEN "ok" ELSE "failed"
           st == IF ~ok /\ r.state = "open" THEN "failed" ELSE r.state
           r1 == [r EXCEPT !.capture = c, !.state = st, !.tailSlot = NoSlot]
           s1 == [store EXCEPT !.jobs[j] = r1]
           t == Last(BlocksOf[r.key])
           x == [job |-> j, name |-> t, slot |-> r.tailSlot]
           s2 == [s1 EXCEPT !.jobs[j].out = @ \cup {t}]
           task == [kind |-> "block", job |-> j, name |-> t, slot |-> r.tailSlot]
           s3 == GiveSlot(s1, r.tailSlot)
           z == IF r.tailSlot = NoSlot THEN s1
                ELSE IF s1.jobs[j].state = "open" THEN Queue(s2, task) ELSE s3
<1>1. /\ store \in Store /\ r \in Job /\ Sound(store, E, RunningPoint, {}) /\ UNCHANGED <<tickets, running>>
      /\ r.state \in LiveStates /\ r.capture = "pending"
  BY SoundParts DEF IInv, Whole, Captured, Live
<1>2. store' = Settle(z, j) /\ CaptureEnds(j, ok) = z
  BY DEF Captured, CaptureEnds
<1>3. r.state \in {"open", "failed", "cancelled"}
  BY <1>1 DEF Sound, JobsFit, JobFits, LiveStates
<1>4. c \in {"ok", "failed"} /\ st \in {"open", "failed", "cancelled"} /\ (r.state # "open" => st = r.state)
  BY <1>3
<1>5. TailBlock(r.key) # {} => TailBlock(r.key) = {t}
  BY DEF TailBlock
<1>50. MayEnd(r, c, st, t)
  BY <1>1, <1>3, <1>4, <1>5 DEF MayEnd
<1>6. r.key \in Keys /\ t \in Names /\ r.tailSlot \in WriteSlots \cup {NoSlot} /\ r.out \in SUBSET Names
  BY <1>1, JobFields, NamesType
<1>7. /\ r1 \in Job /\ r1.key = r.key /\ r1.left = r.left /\ r1.parked = r.parked /\ r1.tailSlot = NoSlot
      /\ r1.capture = c /\ r1.state = st /\ r1.out = r.out
  <2> HIDE DEF c, st, r
  <2> QED
    BY <1>1, <1>4 DEF Job, LiveStates
<1> HIDE DEF c, st, t
<1>8. /\ s1 \in Store /\ s1.jobs[j] = r1 /\ OnlyJob(store, s1, j)
      /\ s1.inflight = store.inflight /\ s1.tasks = store.tasks /\ s1.free = store.free
  <2> HIDE DEF r1
  <2> QED
    BY <1>1, <1>7, RecordIs
<1> SUFFICES Sound(z, E, RunningPoint, {})
  BY <1>2
<1>9. CASE r.tailSlot = NoSlot
  <2> HIDE DEF r1, s1
  <2>1. CaptureEnded(store, s1, j, c, st, {}, {})
    BY <1>7, <1>8 DEF CaptureEnded
  <2>2. TailGoes(r, j, st, {}, {}, {}, t)
    BY <1>9 DEF TailGoes
  <2> HIDE DEF E
  <2>3. Sound(s1, E \cup {}, RunningPoint, {})
    BY <1>1, <1>50, <2>1, <2>2, CaptureSound
  <2> QED
    BY <1>9, <2>3
<1>10. CASE r.tailSlot # NoSlot /\ st = "open"
  <2> HIDE DEF r1, s1
  <2>1. /\ s2 \in Store /\ OnlyJob(s1, s2, j)
        /\ s2.inflight = s1.inflight /\ s2.tasks = s1.tasks /\ s2.free = s1.free
        /\ s2.jobs[j].key = r1.key /\ s2.jobs[j].left = r1.left /\ s2.jobs[j].parked = r1.parked
        /\ s2.jobs[j].tailSlot = r1.tailSlot /\ s2.jobs[j].capture = r1.capture
        /\ s2.jobs[j].state = r1.state /\ s2.jobs[j].out = r1.out \cup {t}
    BY <1>6, <1>8, OutMore
  <2> HIDE DEF s2
  <2>4. CaptureEnded(store, s2, j, c, st, {t}, {})
    BY <1>7, <1>8, <2>1 DEF CaptureEnded, OnlyJob
  <2>5. TailGoes(r, j, st, {t}, {}, {x}, t)
    BY <1>10 DEF TailGoes
  <2>6. z = Queue(s2, task)
    BY <1>7, <1>8, <1>10
  <2>7. Sound(s2, E \cup {x}, RunningPoint, {}) /\ x \notin E
    <3>1. Sound(s2, E \cup {x}, RunningPoint, {})
      <4> HIDE DEF E, x
      <4> QED
        BY <1>1, <1>50, <2>4, <2>5, CaptureSound
    <3>2. x.slot = r.tailSlot
      OBVIOUS
    <3>3. \A y \in E : y.slot # r.tailSlot
      BY <1>1, <1>10 DEF Sound, SlotsFit, TailsFit
    <3> QED
      BY <3>1, <3>2, <3>3
  <2>8. task = [kind |-> "block", job |-> x.job, name |-> x.name, slot |-> x.slot]
    OBVIOUS
  <2> HIDE DEF x, E, z, task
  <2>9. Sound(z, (E \cup {x}) \ {x}, RunningPoint, {})
    BY <2>6, <2>7, <2>8, QueueCopySound
  <2>10. (E \cup {x}) \ {x} = E
    BY <2>7
  <2> QED
    BY <2>9, <2>10
<1>11. CASE r.tailSlot # NoSlot /\ st # "open"
  <2> HIDE DEF r1, s1
  <2>1. s3 \in Store
    BY <1>6, <1>8, GiveSlotType DEF Keeps
  <2>2. /\ s3.jobs = s1.jobs /\ s3.inflight = s1.inflight /\ s3.tasks = s1.tasks
        /\ s3.free = s1.free \cup {r.tailSlot}
    <3>1. s3 = [s1 EXCEPT !.free = s1.free \cup {r.tailSlot}]
      BY <1>11 DEF GiveSlot
    <3> HIDE DEF s3
    <3> QED
      BY <1>8, <3>1 DEF Store
  <2>3. z = s3
    BY <1>7, <1>8, <1>11
  <2> HIDE DEF s3
  <2>4. CaptureEnded(store, s3, j, c, st, {}, {r.tailSlot})
    BY <1>7, <1>8, <2>1, <2>2 DEF CaptureEnded, OnlyJob
  <2>5. TailGoes(r, j, st, {}, {r.tailSlot}, {}, t)
    BY <1>11 DEF TailGoes
  <2>6. Sound(s3, E \cup {}, RunningPoint, {})
    <3> HIDE DEF E
    <3> QED
      BY <1>1, <1>50, <2>4, <2>5, CaptureSound
  <2> QED
    BY <2>3, <2>6
<1> QED
  BY <1>9, <1>10, <1>11

LEMMA CapturedWhole ==
    ASSUME IInv, NEW j \in Jobs, NEW ok \in BOOLEAN, Captured(j, ok)
    PROVE  Whole'
<1>1. Sound(Settle(CaptureEnds(j, ok), j), tickets \cup RunningCopy, RunningPoint, {})
  BY CapturedSound, SettleSound
<1>2. store' = Settle(CaptureEnds(j, ok), j)
  BY CapturedSound
<1> QED
  BY <1>1, <1>2, StoreOnly DEF IInv, Captured

LEMMA StageWhole ==
    ASSUME IInv, NEW j \in Jobs, NEW n \in Names, NEW w \in WriteSlots, Stage(j, n, w)
    PROVE  Whole'
<1> DEFINE E == tickets \cup RunningCopy
           x == [job |-> j, name |-> n, slot |-> w]
<1>1. /\ store.jobs[j].state = "open" /\ n \in store.jobs[j].left /\ w \in store.free
      /\ store' = Hand(store, j, {n}, {w}) /\ tickets' = tickets \cup {x} /\ UNCHANGED running
  BY DEF Stage
<1>2. store \in Store /\ Sound(store, E, RunningPoint, {}) /\ RunningCopy \cap tickets = {}
  BY DEF IInv, TypeOK, Whole
<1>3. Handed(store, store', j, {n}, {w})
  BY <1>1, <1>2, HandIs
<1>4. NewCopies(store, {x}, j, {n}, {w})
  BY <1>1 DEF NewCopies, Copy
<1>5. {n} \subseteq store.jobs[j].left
  BY <1>1
<1> HIDE DEF x, E
<1>6. Sound(store', E \cup {x}, RunningPoint, {}) /\ {x} \cap (QueuedCopies(store.tasks) \cup E) = {}
  BY <1>1, <1>2, <1>3, <1>4, <1>5, HandedSound
<1>7. RunningCopy' = RunningCopy /\ RunningPoint' = RunningPoint
  BY <1>1 DEF RunningCopy, RunningPoint
<1>8. tickets' \cup RunningCopy' = E \cup {x} /\ RunningCopy' \cap tickets' = {}
  BY <1>1, <1>2, <1>6, <1>7 DEF E
<1> QED
  BY <1>6, <1>7, <1>8 DEF Whole

LEMMA GuardWhole ==
    ASSUME IInv, NEW j \in Jobs, NEW from, Guard(j, from)
    PROVE  Whole'
<1> DEFINE E == tickets \cup RunningCopy
           left == store.jobs[j].left
           N(f) == {[job |-> j, name |-> n, slot |-> f[n]] : n \in left}
<1>1. store.jobs[j].state = "open" /\ UNCHANGED running
  BY DEF Guard
<1>2. store \in Store /\ Sound(store, E, RunningPoint, {}) /\ RunningCopy \cap tickets = {}
  BY DEF IInv, TypeOK, Whole
<1>3. CASE \E h \in HandOvers(store, j) : store' = CancelJob(store, j, h) /\ UNCHANGED tickets
  <2>1. Sound(store', E, RunningPoint, {})
    BY <1>1, <1>2, <1>3, CancelJobSound
  <2> QED
    BY <1>1, <1>3, <2>1, StoreOnly DEF IInv
<1>4. CASE \E f \in {g \in [left -> store.free] : IsInjective(g)} :
              /\ store' = Hand(store, j, left, Range(f)) /\ tickets' = tickets \cup N(f)
  <2>1. PICK f \in [left -> store.free] : /\ IsInjective(f) /\ store' = Hand(store, j, left, Range(f))
                                          /\ tickets' = tickets \cup N(f)
    BY <1>4
  <2>2. left \in SUBSET Names /\ store.free \in SUBSET WriteSlots
    BY <1>2, SoundParts, JobFields
  <2>3. Handed(store, store', j, left, Range(f))
    BY <1>2, <2>1, <2>2, HandIs
  <2> HIDE DEF left
  <2>4. NewCopies(store, N(f), j, left, Range(f))
    <3>1. \A x \in N(f) : /\ x \in Copy /\ x.job = j /\ x.name \in left /\ x.slot = f[x.name]
                          /\ x.slot \in store.free
      <4> SUFFICES ASSUME NEW n \in left
                   PROVE  LET x == [job |-> j, name |-> n, slot |-> f[n]] IN
                          /\ x \in Copy /\ x.job = j /\ x.name \in left /\ x.slot = f[x.name]
                          /\ x.slot \in store.free
        OBVIOUS
      <4>1. f[n] \in store.free /\ f[n] \in WriteSlots /\ n \in Names
        BY <2>1, <2>2
      <4> QED
        BY <4>1 DEF Copy
    <3>2. \A n \in left : \E x \in N(f) : x.name = n /\ x.slot = f[n]
      <4> SUFFICES ASSUME NEW n \in left PROVE \E x \in N(f) : x.name = n /\ x.slot = f[n]
        OBVIOUS
      <4> DEFINE x == [job |-> j, name |-> n, slot |-> f[n]]
      <4>1. x \in N(f) /\ x.name = n /\ x.slot = f[n]
        OBVIOUS
      <4> HIDE DEF N, x
      <4> QED
        BY <4>1
    <3>3. \A x \in N(f) : x = [job |-> j, name |-> x.name, slot |-> x.slot]
      OBVIOUS
    <3>4. \A m, n \in left : f[m] = f[n] => m = n
      BY <2>1 DEF IsInjective
    <3>5. \A w : w \in Range(f) <=> \E n \in left : f[n] = w
      BY <2>1 DEF Range
    <3> DEFINE M == N(f)
    <3> HIDE DEF N
    <3>6. ASSUME NEW x \in M, NEW y \in M, x.slot = y.slot \/ x.name = y.name PROVE x = y
      <4>1. x.name = y.name /\ x.slot = y.slot
        BY <3>1, <3>4, <3>6
      <4> QED
        BY <3>3, <4>1
    <3>7. \A w : w \in Range(f) <=> \E x \in M : x.slot = w
      BY <3>1, <3>2, <3>5
    <3> QED
      BY <3>1, <3>6, <3>7 DEF NewCopies
  <2> DEFINE M == N(f)
  <2>5. tickets' = tickets \cup M /\ NewCopies(store, M, j, left, Range(f))
    BY <2>1, <2>4
  <2>6. left \subseteq store.jobs[j].left
    BY DEF left
  <2> HIDE DEF M, E, N
  <2>7. Sound(store', E \cup M, RunningPoint, {}) /\ M \cap (QueuedCopies(store.tasks) \cup E) = {}
    BY <1>1, <1>2, <2>3, <2>5, <2>6, HandedSound
  <2>8. RunningCopy' = RunningCopy /\ RunningPoint' = RunningPoint
    BY <1>1 DEF RunningCopy, RunningPoint
  <2>9. tickets' \cup RunningCopy' = E \cup M /\ RunningCopy' \cap tickets' = {}
    BY <1>2, <2>5, <2>7, <2>8 DEF E
  <2> QED
    BY <2>7, <2>8, <2>9 DEF Whole
<1> QED
  BY <1>3, <1>4 DEF Guard

LEMMA StagedWhole ==
    ASSUME IInv, NEW t \in tickets, NEW ok \in BOOLEAN, Staged(t, ok)
    PROVE  Whole'
<1> DEFINE E == tickets \cup RunningCopy
           j == t.job
           s(h) == IF ~ok /\ store.jobs[j].state = "open" THEN Fail(store, j, h) ELSE store
           task == [kind |-> "block", job |-> j, name |-> t.name, slot |-> t.slot]
           back(h) == GiveBack(s(h), j, t.name, t.slot)
<1>1. /\ store \in Store /\ Sound(store, E, RunningPoint, {}) /\ RunningCopy \cap tickets = {}
      /\ t \in E /\ j \in Jobs /\ t.name \in Names
  BY DEF IInv, TypeOK, Whole
<1>2. tickets' = tickets \ {t} /\ UNCHANGED running
  BY DEF Staged
<1>3. PICK h \in HandOvers(store, j) :
        \/ store' = Queue(s(h), task)
        \/ store' = Settle(DropInflight(back(h), j, t.name), j)
  BY DEF Staged
<1>4. Sound(s(h), E, RunningPoint, {})
  <2>1. CASE ~ok /\ store.jobs[j].state = "open"
    <3>1. Sound(Fail(store, j, h), E, RunningPoint, {})
      BY <1>1, <2>1, FailSound
    <3> QED
      BY <2>1, <3>1
  <2>2. CASE ~(~ok /\ store.jobs[j].state = "open")
    BY <1>1, <2>2
  <2> QED
    BY <2>1, <2>2
<1> DEFINE z == s(h)
           b == GiveBack(z, j, t.name, t.slot)
<1>5. Sound(z, E, RunningPoint, {}) /\ back(h) = b
  BY <1>4
<1> HIDE DEF z, s
<1>6. Sound(store', E \ {t}, RunningPoint, {})
  <2>1. Sound(Queue(z, task), E \ {t}, RunningPoint, {})
    BY <1>1, <1>5, QueueCopySound
  <2>2. Sound(b, E \ {t}, RunningPoint, {<<j, t.name>>}) /\ t.name \notin Writes(b.jobs[j])
    BY <1>1, <1>5, GiveBackSound
  <2>3. Sound(Settle(DropInflight(b, j, t.name), j), E \ {t}, RunningPoint, {})
    <3> HIDE DEF b
    <3> QED
      BY <1>1, <2>2, GoneSound
  <2> QED
    BY <1>3, <1>5, <2>1, <2>3 DEF z
<1>7. RunningCopy' = RunningCopy /\ RunningPoint' = RunningPoint
  BY <1>2 DEF RunningCopy, RunningPoint
<1>8. tickets' \cup RunningCopy' = E \ {t} /\ RunningCopy' \cap tickets' = {}
  BY <1>1, <1>2, <1>7
<1> QED
  BY <1>6, <1>7, <1>8 DEF Whole

-----------------------------------------------------------------------------
(* The writer's actions *)

\* The writer is idle and takes the first task.
LEMMA TakenSound ==
    ASSUME IInv, NEW kind, Takes(kind)
    PROVE  /\ RunningCopy = {} /\ RunningPoint = {} /\ Requeued(store, Popped)
           /\ Head(store.tasks) \in Task /\ Head(store.tasks).kind = kind
           /\ kind = "block" => /\ Part(Head(store.tasks)) \notin tickets
                                /\ Sound(Popped, tickets \cup {Part(Head(store.tasks))}, {}, {})
           /\ kind = "point" => /\ Head(store.tasks).job \notin QueuedPoints(Popped.tasks)
                                /\ Sound(Popped, tickets, {Head(store.tasks).job}, {})
           /\ kind \notin {"block", "point"} => Sound(Popped, tickets, {}, {})
<1>1. running = Idle /\ store.tasks # << >> /\ Head(store.tasks).kind = kind
  BY DEF Takes
<1>2. RunningCopy = {} /\ RunningPoint = {}
  BY <1>1 DEF RunningCopy, RunningPoint, Idle
<1>3. Sound(store, tickets, {}, {})
  BY <1>2 DEF IInv, Whole
<1>4. LET z == Popped
          t == Head(store.tasks) IN
      /\ Requeued(store, z) /\ t \in Task
      /\ t.kind = "block" => Part(t) \notin tickets /\ Sound(z, tickets \cup {Part(t)}, {}, {})
      /\ t.kind = "point" => t.job \notin {} \cup QueuedPoints(z.tasks) /\ Sound(z, tickets, {} \cup {t.job}, {})
      /\ t.kind \notin {"block", "point"} => Sound(z, tickets, {}, {})
  BY <1>1, <1>3, PopSound DEF Popped
<1> QED
  BY <1>1, <1>2, <1>4

LEMMA IdleWhole ==
    ASSUME Sound(store', tickets, {}, {}), UNCHANGED tickets, running' = Idle
    PROVE  Whole'
<1>1. RunningCopy' = {} /\ RunningPoint' = {}
  BY DEF RunningCopy, RunningPoint, Idle
<1>2. tickets' \cup RunningCopy' = tickets
  BY <1>1
<1> QED
  BY <1>1, <1>2 DEF Whole

LEMMA TakeBlockWhole ==
    ASSUME IInv, TakeBlock
    PROVE  Whole'
<1> DEFINE t == Head(store.tasks)
           x == Part(t)
           E == tickets \cup {x}
           b == GiveBack(Popped, x.job, x.name, x.slot)
<1>1. /\ t \in Task /\ t.kind = "block" /\ x \notin tickets /\ Sound(Popped, E, {}, {})
  BY TakenSound DEF TakeBlock
<1>2. x.job = t.job /\ x.name = t.name /\ x.slot = t.slot
  BY DEF Part
<1>3. \/ running' = t /\ store' = Popped
      \/ running' = Idle /\ store' = Settle(DropInflight(b, x.job, x.name), x.job)
  BY <1>2 DEF TakeBlock
<1>4. UNCHANGED tickets
  BY DEF TakeBlock
<1>5. CASE running' = t /\ store' = Popped
  <2>1. RunningCopy' = {x} /\ RunningPoint' = {}
    BY <1>1, <1>5 DEF RunningCopy, RunningPoint
  <2>2. tickets' \cup RunningCopy' = E /\ RunningCopy' \cap tickets' = {}
    BY <1>1, <1>4, <2>1
  <2> QED
    BY <1>1, <1>5, <2>1, <2>2 DEF Whole
<1>6. CASE running' = Idle /\ store' = Settle(DropInflight(b, x.job, x.name), x.job)
  <2>1. x \in E /\ E \ {x} = tickets
    BY <1>1
  <2>2. x.job \in Jobs /\ x.name \in Names
    BY <1>1, <2>1, SoundParts
  <2> HIDE DEF x, E
  <2>3. Sound(b, E \ {x}, {}, {<<x.job, x.name>>}) /\ x.name \notin Writes(b.jobs[x.job])
    BY <1>1, <2>1, GiveBackSound
  <2> HIDE DEF b
  <2>4. Sound(store', tickets, {}, {})
    BY <1>6, <2>1, <2>2, <2>3, GoneSound
  <2> QED
    BY <1>4, <1>6, <2>4, IdleWhole
<1> QED
  BY <1>3, <1>5, <1>6

\* Whom a write may hand its blocks to does not depend on what is outstanding.
LEMMA SameHandOvers ==
    ASSUME NEW s, NEW z, NEW j \in Jobs, OnlyJob(s, z, j), z.jobs[j].left = s.jobs[j].left
    PROVE  HandOvers(z, j) = HandOvers(s, j)
<1>1. \A n : Takers(z, j, n) = Takers(s, j, n)
  BY DEF Takers, OnlyJob, NamesOf
<1> QED
  BY <1>1 DEF HandOvers

LEMMA GiveBackHandOvers ==
    ASSUME NEW s, NEW E, NEW P, NEW x \in E, Sound(s, E, P, {}), NEW h \in HandOvers(s, x.job)
    PROVE  h \in HandOvers(GiveBack(s, x.job, x.name, x.slot), x.job)
<1> DEFINE z == GiveBack(s, x.job, x.name, x.slot)
<1>1. OnlyJob(s, z, x.job) /\ z.jobs[x.job].left = s.jobs[x.job].left
  BY GiveBackSound
<1>2. x.job \in Jobs
  BY SoundParts
<1> HIDE DEF z
<1>3. HandOvers(z, x.job) = HandOvers(s, x.job)
  BY <1>1, <1>2, SameHandOvers
<1> QED
  BY <1>3 DEF z

LEMMA BlockWrittenWhole ==
    ASSUME IInv, NEW ok \in BOOLEAN, BlockWritten(ok)
    PROVE  Whole'
<1> DEFINE x == Part(running)
           E == tickets \cup {x}
           j == x.job
           n == x.name
           b == GiveBack(store, j, n, x.slot)
           c(h) == IF ok THEN AddBlock(b, n)
                   ELSE IF b.jobs[j].state = "open" THEN Fail(b, j, h) ELSE b
<1>1. running.kind = "block" /\ running' = Idle /\ UNCHANGED tickets
  BY DEF BlockWritten
<1>2. x.job = running.job /\ x.name = running.name /\ x.slot = running.slot
  BY DEF Part
<1>3. PICK h \in HandOvers(store, j) : store' = Settle(DropInflight(c(h), j, n), j)
  BY <1>2 DEF BlockWritten
<1>4. RunningCopy = {x} /\ RunningPoint = {} /\ RunningCopy \cap tickets = {} /\ Sound(store, E, {}, {})
  BY <1>1 DEF IInv, Whole, RunningCopy, RunningPoint
<1>5. x \in E /\ E \ {x} = tickets
  BY <1>4
<1>6. j \in Jobs /\ n \in Names
  BY <1>4, <1>5, SoundParts
<1> DEFINE X == {<<j, n>>}
<1> SUFFICES Sound(store', tickets, {}, {})
  BY <1>1, IdleWhole
<1> HIDE DEF x, E
<1>7. Sound(b, tickets, {}, X) /\ n \notin Writes(b.jobs[j])
  <2>1. Sound(b, E \ {x}, {}, X) /\ n \notin Writes(b.jobs[j])
    BY <1>4, <1>5, GiveBackSound
  <2> HIDE DEF b, j, n, X
  <2> QED
    BY <1>5, <2>1
<1>8. h \in HandOvers(b, j)
  BY <1>3, <1>4, <1>5, GiveBackHandOvers
<1>9. Sound(c(h), tickets, {}, X) /\ n \notin Writes(c(h).jobs[j])
  <2> HIDE DEF b, j, n, X
  <2>1. CASE ok
    <3>1. b \in Store
      BY <1>7, SoundParts
    <3>2. Alike(b, AddBlock(b, n))
      BY <1>6, <3>1, AddBlockAlike
    <3>3. Sound(AddBlock(b, n), tickets, {}, X) /\ AddBlock(b, n).jobs = b.jobs
      BY <1>7, <3>2, AlikeSound DEF Alike
    <3>4. c(h) = AddBlock(b, n)
      BY <2>1
    <3> QED
      BY <1>7, <3>3, <3>4
  <2>2. CASE ~ok /\ b.jobs[j].state = "open"
    <3>1. c(h) = Fail(b, j, h)
      BY <2>2
    <3>2. Sound(Fail(b, j, h), tickets, {}, X) /\ Writes(Fail(b, j, h).jobs[j]) \subseteq Writes(b.jobs[j])
      BY <1>6, <1>7, <1>8, <2>2, FailSound
    <3> QED
      BY <1>7, <3>1, <3>2
  <2>3. CASE ~ok /\ b.jobs[j].state # "open"
    <3>1. c(h) = b
      BY <2>3
    <3> QED
      BY <1>7, <3>1
  <2> QED
    BY <2>1, <2>2, <2>3
<1> DEFINE d == c(h)
<1>10. Sound(d, tickets, {}, {<<j, n>>}) /\ n \notin Writes(d.jobs[j])
       /\ store' = Settle(DropInflight(d, j, n), j)
  BY <1>3, <1>9
<1> HIDE DEF d, c, b, j, n
<1> QED
  BY <1>6, <1>10, GoneSound

LEMMA TakePointWhole ==
    ASSUME IInv, TakePoint
    PROVE  Whole'
<1> DEFINE j == Head(store.tasks).job
           flag == store.jobs[j].key \in store.shared
<1>1. /\ Requeued(store, Popped) /\ j \notin QueuedPoints(Popped.tasks)
      /\ Sound(Popped, tickets, {j}, {}) /\ RunningCopy = {}
  BY TakenSound DEF TakePoint
<1>2. UNCHANGED tickets
  BY DEF TakePoint
<1>3. \/ store' = [Popped EXCEPT !.jobs[j].parked = TRUE] /\ UNCHANGED running
      \/ store' = EndJob(Popped, j, FALSE) /\ UNCHANGED running
      \/ store' = Popped /\ running' = [kind |-> "point", job |-> j, flag |-> flag]
  BY DEF TakePoint
<1>4. running = Idle
  BY DEF TakePoint, Takes
<1>5. j \in Jobs /\ {j} \ {j} = {}
  BY <1>1 DEF Sound
<1>6. /\ Popped.jobs[j].state = "publishing" /\ Popped.jobs[j].out = {}
      /\ Popped.jobs[j].tailSlot = NoSlot
  <2>1. Popped.jobs[j].state = "publishing"
    BY <1>1 DEF Sound, QueueFits
  <2>2. JobFits(Popped.jobs[j])
    BY <1>1, <1>5 DEF Sound, JobsFit
  <2> QED
    BY <2>1, <2>2 DEF JobFits
<1> HIDE DEF j, flag
<1>7. CASE store' = [Popped EXCEPT !.jobs[j].parked = TRUE] /\ UNCHANGED running
  <2>1. Sound(store', tickets, {}, {})
    BY <1>1, <1>5, <1>6, <1>7, ParkSound
  <2> QED
    BY <1>2, <1>4, <1>7, <2>1, IdleWhole
<1>8. CASE store' = EndJob(Popped, j, FALSE) /\ UNCHANGED running
  <2>1. Sound(EndJob(Popped, j, FALSE), tickets, {j} \ {j}, {})
    BY <1>1, <1>5, <1>6, EndJobSound
  <2>2. Sound(store', tickets, {}, {})
    BY <1>5, <1>8, <2>1
  <2> QED
    BY <1>2, <1>4, <1>8, <2>2, IdleWhole
<1>9. CASE store' = Popped /\ running' = [kind |-> "point", job |-> j, flag |-> flag]
  <2>1. RunningCopy' = {} /\ RunningPoint' = {j}
    BY <1>9 DEF RunningCopy, RunningPoint
  <2>2. tickets' \cup RunningCopy' = tickets
    BY <1>2, <2>1
  <2> QED
    BY <1>1, <1>9, <2>1, <2>2 DEF Whole
<1> QED
  BY <1>3, <1>7, <1>8, <1>9

LEMMA PointWrittenWhole ==
    ASSUME IInv, PointWritten
    PROVE  Whole'
<1> DEFINE j == running.job
           k == store.jobs[j].key
           s0 == Ref(store, Blocks(k))
           points == s0.points \cup {k}
           stored == s0.stored + FileBytes
           s1 == [s0 EXCEPT !.points = points, !.stored = stored]
           s2 == EndJob(s1, j, TRUE)
           s3 == IF k \in s2.shared /\ ~running.flag
                 THEN Queue(s2, [kind |-> "shared", key |-> k]) ELSE s2
           s4 == Queue(store, [kind |-> "unlink", keys |-> {k}, names |-> {}])
<1>1. running.kind = "point" /\ running' = Idle /\ UNCHANGED tickets
  BY DEF PointWritten
<1>2. store' = TrimPath(s3, k) \/ store' = EndJob(s4, j, FALSE)
  BY DEF PointWritten
<1>3. RunningCopy = {} /\ RunningPoint = {j} /\ Sound(store, tickets, {j}, {}) /\ store \in Store
  BY <1>1 DEF IInv, TypeOK, Whole, RunningCopy, RunningPoint
<1>4. j \in Jobs /\ {j} \ {j} = {} /\ k \in Keys
  BY <1>1, <1>3, RunningFields, StoreFields, JobFields DEF IInv
<1>5. /\ store.jobs[j].out = {} /\ store.jobs[j].tailSlot = NoSlot
      /\ j \notin QueuedPoints(store.tasks) /\ Once(store.tasks)
  <2>1. store.jobs[j].state = "publishing" /\ j \notin QueuedPoints(store.tasks) /\ Once(store.tasks)
    BY <1>3 DEF Sound, QueueFits
  <2>2. JobFits(store.jobs[j])
    BY <1>3, <1>4 DEF Sound, JobsFit
  <2> QED
    BY <2>1, <2>2 DEF JobFits
<1> HIDE DEF j, k
<1>6. ASSUME NEW s, Alike(store, s), NEW b \in BOOLEAN
      PROVE  Sound(EndJob(s, j, b), tickets, {}, {}) /\ EndJob(s, j, b) \in Store
  <2>1. Sound(s, tickets, {j}, {})
    BY <1>3, <1>6, AlikeSound
  <2>2. s.jobs[j].out = {} /\ s.jobs[j].tailSlot = NoSlot /\ j \notin QueuedPoints(s.tasks)
    BY <1>5, <1>6 DEF Alike
  <2>3. Sound(EndJob(s, j, b), tickets, {j} \ {j}, {})
    BY <1>4, <2>1, <2>2, EndJobSound
  <2>4. Sound(EndJob(s, j, b), tickets, {}, {})
    BY <1>4, <2>3
  <2> QED
    BY <2>4, SoundParts
<1>7. CASE store' = TrimPath(s3, k)
  <2>1. Alike(store, s1)
    <3>1. Alike(store, s0) /\ s0 \in Store
      BY <1>3, RefAlike DEF Alike
    <3> HIDE DEF s0
    <3>2. points \in SUBSET Keys /\ stored \in Int
      BY <1>4, <3>1, StoreFields, ConstantsAssumption
    <3> HIDE DEF points, stored
    <3>3. s1 \in Store /\ s1.jobs = s0.jobs /\ s1.inflight = s0.inflight /\ s1.free = s0.free /\ s1.tasks = s0.tasks
      BY <3>1, <3>2 DEF Store
    <3> HIDE DEF s1
    <3>4. Alike(s0, s1)
      BY <3>1, <3>3, FieldsAlike
    <3> QED
      BY <3>1, <3>4, AlikeTrans
  <2> HIDE DEF s1
  <2>2. Sound(s2, tickets, {}, {}) /\ s2 \in Store
    BY <1>6, <2>1
  <2> HIDE DEF s2
  <2>3. Alike(s2, s3)
    BY <1>4, <2>2, AlikeSelf, SharedTaskType, QueueAlike
  <2> HIDE DEF s3
  <2>4. Alike(s3, TrimPath(s3, k))
    BY <2>3, TrimPathAlike DEF Alike
  <2>5. Sound(store', tickets, {}, {})
    BY <1>7, <2>2, <2>3, <2>4, AlikeSound
  <2> QED
    BY <1>1, <2>5, IdleWhole
<1>8. CASE store' = EndJob(s4, j, FALSE)
  <2>1. Alike(store, s4)
    BY <1>3, <1>4, UnlinkType, QueueAlike
  <2> HIDE DEF s4
  <2>2. Sound(store', tickets, {}, {})
    BY <1>6, <1>8, <2>1
  <2> QED
    BY <1>1, <2>2, IdleWhole
<1> QED
  BY <1>2, <1>7, <1>8

LEMMA PointFailedWhole ==
    ASSUME IInv, PointFailed
    PROVE  Whole'
<1> DEFINE j == running.job
<1>1. running.kind = "point" /\ running' = Idle /\ UNCHANGED tickets /\ store' = EndJob(store, j, FALSE)
  BY DEF PointFailed
<1>2. RunningCopy = {} /\ RunningPoint = {j} /\ Sound(store, tickets, {j}, {}) /\ j \in Jobs /\ {j} \ {j} = {}
  BY <1>1, RunningFields DEF IInv, Whole, RunningCopy, RunningPoint
<1> HIDE DEF j
<1>3. store.jobs[j].state = "publishing" /\ j \notin QueuedPoints(store.tasks)
  BY <1>2 DEF Sound, QueueFits
<1>4. store.jobs[j].out = {} /\ store.jobs[j].tailSlot = NoSlot
  <2>1. JobFits(store.jobs[j])
    BY <1>2 DEF Sound, JobsFit
  <2> QED
    BY <1>3, <2>1 DEF JobFits
<1>5. Sound(EndJob(store, j, FALSE), tickets, {j} \ {j}, {})
  BY <1>2, <1>3, <1>4, EndJobSound
<1>6. Sound(store', tickets, {}, {})
  BY <1>1, <1>2, <1>5
<1> QED
  BY <1>1, <1>6, IdleWhole

LEMMA OtherTaskWhole ==
    ASSUME IInv, NEW ok \in BOOLEAN, TakeShared \/ SharedWritten(ok) \/ Unlink
    PROVE  Whole'
<1>1. CASE TakeShared \/ Unlink
  <2>1. Sound(Popped, tickets, {}, {}) /\ store' = Popped /\ UNCHANGED tickets
    BY <1>1, TakenSound DEF TakeShared, Unlink
  <2>2. RunningCopy' = {} /\ RunningPoint' = {}
    BY <1>1 DEF TakeShared, Unlink, Takes, RunningCopy, RunningPoint, Idle
  <2>3. tickets' \cup RunningCopy' = tickets
    BY <2>1, <2>2
  <2> QED
    BY <2>1, <2>2, <2>3 DEF Whole
<1>2. CASE SharedWritten(ok)
  <2>1. RunningCopy = {} /\ RunningPoint = {} /\ running' = Idle /\ UNCHANGED <<store, tickets>>
    BY <1>2 DEF SharedWritten, RunningCopy, RunningPoint
  <2>2. Sound(store', tickets, {}, {})
    BY <2>1 DEF IInv, Whole
  <2> QED
    BY <2>1, <2>2, IdleWhole
<1> QED
  BY <1>1, <1>2

-----------------------------------------------------------------------------
(* The theorems *)

LEMMA WholeInit == Init => IInv
<1> SUFFICES ASSUME Init PROVE IInv
  OBVIOUS
<1>1. /\ store \in Store /\ store.tasks = << >> /\ store.free = WriteSlots /\ store.jobs = [j \in Jobs |-> NoWrite]
      /\ store.inflight = [n \in Names |-> NoJob] /\ tickets = {} /\ running = Idle /\ TypeOK
  BY TypeInit DEF Init, TypeOK
<1>2. RunningCopy = {} /\ RunningPoint = {}
  BY <1>1 DEF RunningCopy, RunningPoint, Idle
<1>3. QueuedCopies(store.tasks) = {} /\ QueuedPoints(store.tasks) = {} /\ Once(store.tasks)
  BY <1>1 DEF QueuedCopies, QueuedPoints, Once
<1>4. JobFits(NoWrite) /\ Writes(NoWrite) = {} /\ NoWrite.tailSlot = NoSlot /\ NoWrite.out = {}
  BY DEF NoWrite, JobFits, Writes, LiveStates
<1> HIDE DEF NoWrite
<1>5. JobsFit(store) /\ Flights(store) /\ Owners(store, {})
  BY <1>1, <1>4 DEF JobsFit, Flights, Owners
<1>6. SlotsFit(store, {})
  BY <1>1, <1>4, ConstantsAssumption DEF SlotsFit, CopiesFit, TailsFit, FreeFits
<1>7. QueueFits(store, {}, {})
  BY <1>3 DEF QueueFits
<1>8. Sound(store, {}, {}, {})
  BY <1>1, <1>3, <1>5, <1>6, <1>7 DEF Sound
<1> QED
  BY <1>1, <1>2, <1>8 DEF IInv, Whole

LEMMA WholeStep ==
    ASSUME IInv, [Next]_vars
    PROVE  IInv'
<1>1. TypeOK'
  BY StepKeeps DEF IInv
<1>2. CASE Engine
  BY <1>1, <1>2, MarkSharedWhole, KeepWhole, ReadWhole, ForgetWhole, CapturedWhole, StageWhole,
     GuardWhole, CancelWhole, StagedWhole DEF Engine, IInv
<1>3. CASE Writer
  BY <1>1, <1>3, TakeBlockWhole, TakePointWhole, OtherTaskWhole, PointWrittenWhole, PointFailedWhole,
     BlockWrittenWhole DEF Writer, IInv
<1>4. CASE UNCHANGED vars
  <2>1. RunningCopy' = RunningCopy /\ RunningPoint' = RunningPoint /\ tickets' = tickets /\ store' = store
    BY <1>4 DEF vars, RunningCopy, RunningPoint
  <2> QED
    BY <1>1, <2>1 DEF IInv, Whole
<1> QED
  BY <1>2, <1>3, <1>4 DEF Next

LEMMA HoldersAre ==
    ASSUME IInv
    PROVE  Holders = QueuedCopies(store.tasks) \cup tickets \cup RunningCopy
<1>1. store.tasks \in Seq(Task) /\ \A t \in tickets : Part(t) = t
  BY StoreFields DEF IInv, TypeOK, Part
<1>2. Holders = {Part(t) : t \in tickets \cup BlockTasks}
  BY DEF Holders, Part
<1>3. BlockTasks = {t \in Range(store.tasks) : t.kind = "block"}
                     \cup (IF running.kind = "block" THEN {running} ELSE {})
  BY DEF BlockTasks
<1>4. {Part(t) : t \in {u \in Range(store.tasks) : u.kind = "block"}} = QueuedCopies(store.tasks)
  BY <1>1 DEF Range, QueuedCopies
<1> QED
  BY <1>1, <1>2, <1>3, <1>4 DEF RunningCopy

LEMMA WholeAccounts == IInv => WritesAccounted
<1> SUFFICES ASSUME IInv PROVE WritesAccounted
  OBVIOUS
<1> DEFINE H == QueuedCopies(store.tasks) \cup (tickets \cup RunningCopy)
<1>1. Sound(store, tickets \cup RunningCopy, RunningPoint, {}) /\ Holders = H
  BY HoldersAre DEF IInv, Whole
<1>2. /\ SlotsFit(store, H) /\ QueueFits(store, tickets \cup RunningCopy, RunningPoint)
      /\ \A j \in Jobs : JobFits(store.jobs[j])
      /\ Owners(store, {})
  BY <1>1 DEF Sound, JobsFit
<1>3. /\ \A x \in H : x.job \in Jobs /\ x.slot \in WriteSlots /\ x.name \in store.jobs[x.job].out
      /\ store.inflight \in [Names -> Jobs \cup {NoJob}] /\ store.tasks \in Seq(Task)
      /\ store.free \in SUBSET WriteSlots
  BY <1>1, SoundParts
<1> HIDE DEF H
<1>4. \A j \in Jobs : j \in Live(store) <=> store.jobs[j].state \in LiveStates
  BY DEF Live
<1>5. InflightOwned
  <2> SUFFICES ASSUME NEW n \in Names, store.inflight[n] # NoJob PROVE Owned(store.inflight[n], n)
    BY DEF InflightOwned
  <2> DEFINE j == store.inflight[n]
  <2>1. j \in Jobs /\ Owns(store.jobs[j], n) /\ JobFits(store.jobs[j])
    BY <1>2, <1>3 DEF Owners
  <2> HIDE DEF j
  <2>2. n \in Writes(store.jobs[j]) =>
          n \in store.jobs[j].left \cup store.jobs[j].out
            \/ (n \in TailBlock(store.jobs[j].key) /\ store.jobs[j].capture = "pending")
    BY <2>1 DEF Writes, JobFits
  <2>3. Owned(j, n)
    BY <1>4, <2>1, <2>2 DEF Owns, Owned, NamesOf
  <2> QED
    BY <2>3 DEF j
<1>6. SlotsOnce
  <2>1. \A x, y \in H : x.slot = y.slot => x = y
    BY <1>2 DEF SlotsFit, CopiesFit
  <2>2. \A j \in Jobs : \A x \in H : store.jobs[j].tailSlot # x.slot
    BY <1>2, <1>3, ConstantsAssumption DEF SlotsFit, TailsFit
  <2>3. \A w \in WriteSlots : w \in TailSlots <=> \E j \in Jobs : store.jobs[j].tailSlot = w
    BY <1>2, <1>4, ConstantsAssumption DEF TailSlots, JobFits, Live
  <2>4. \A w : w \in store.free <=> w \in WriteSlots \ ({x.slot : x \in H} \cup TailSlots)
    BY <1>2, <1>3, <2>3 DEF SlotsFit, FreeFits
  <2> QED
    BY <1>1, <2>1, <2>2, <2>4 DEF SlotsOnce, Live
<1>7. NoDanglingJob
  <2>1. \A x \in H : x.job \in Live(store) /\ x.name \in store.jobs[x.job].out
    BY <1>2, <1>3, <1>4 DEF JobFits
  <2>2. ASSUME NEW t \in Range(store.tasks) \cup {running}, t.kind = "point"
        PROVE  store.jobs[t.job].state = "publishing"
    <3>1. t.job \in QueuedPoints(store.tasks) \cup RunningPoint
      BY <2>2 DEF Range, QueuedPoints, RunningPoint
    <3> QED
      BY <1>2, <3>1 DEF QueueFits
  <2>3. \A j \in Jobs : store.jobs[j].parked => store.jobs[j].state = "publishing"
    BY <1>2 DEF JobFits
  <2> QED
    BY <1>1, <2>1, <2>2, <2>3 DEF NoDanglingJob
<1> QED
  BY <1>5, <1>6, <1>7 DEF WritesAccounted

\* The names in flight, the slots, the queued tasks and the pointers to
\* writes of every reachable store fit together (Sound), whatever the engine
\* and the writer interleave.
THEOREM WriteInvariant == Spec => []IInv
<1>1. Init => IInv
  BY WholeInit
<1>2. IInv /\ [Next]_vars => IInv'
  BY WholeStep
<1> QED
  BY <1>1, <1>2, PTL DEF Spec

\* A name in flight always belongs to a live write that still answers for it
\* (dropInflight, release), no write slot is held twice or lost (takeSlot,
\* giveSlot), and no ticket or task outlives its write (endJob).
THEOREM WritesAreAccounted == Spec => []WritesAccounted
BY WriteInvariant, WholeAccounts, PTL
=============================================================================
