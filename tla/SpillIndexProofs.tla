--------------------------- MODULE SpillIndexProofs ---------------------------
(***************************************************************************)
(* The index of SpillWrite is exact, for every value of the constants: its *)
(* references, byte counts and cap, the files of what it lists and the     *)
(* deletions queued for the writer.  At the end, what every step under the *)
(* lock does to the index and to the queue (Moves), and what a rebuilt     *)
(* store is (Fresh): SpillDiskProofs rests on these.                       *)
(*                                                                         *)
(* The invariant is about a store s and what the writer is at: the blocks  *)
(* B and the writes P of points it has on the way to disk.  Inside a       *)
(* critical section the names D may have one reference more than is owed,  *)
(* the names N may be in the index and in flight, and m units of room may  *)
(* be spoken for.                                                          *)
(***************************************************************************)
EXTENDS SpillWriteProofs

\* The sum of f over all writes, as the size of a set: one element for each unit.
Rows(f) == UNION {{j} \X (1 .. f[j]) : j \in Jobs}
Total(f) == Cardinality(Rows(f))

Naming(s, n) == {k \in s.points : n \in Blocks(k)}
Wanting(s, n) == {j \in Live(s) : n \in NamesOf(s, j)}

\* One reference for each indexed point and live write that names the block,
\* and one more for the names D.
RefsAre(s, D) ==
    \A n \in Names :
        s.refs[n] = Cardinality(Naming(s, n)) + Cardinality(Wanting(s, n)) + (IF n \in D THEN 1 ELSE 0)

Referenced(s) == \A n \in s.have : s.refs[n] > 0

StoredFits(s) == s.stored = Cardinality(s.have) + FileBytes * Cardinality(s.points)

PointsWhole(s) == \A k \in s.points : Blocks(k) \subseteq s.have

\* A point is stored or waits to be written once.
WaitsOnce(s) ==
    \A j \in Live(s) : /\ s.jobs[j].key \notin s.points
                       /\ \A i \in Live(s) : s.jobs[i].key = s.jobs[j].key => i = j

NamesFit(s) ==
    \A j \in Jobs : /\ s.jobs[j].left \cup s.jobs[j].out \subseteq Blocks(s.jobs[j].key)
                    /\ s.jobs[j].parked => s.jobs[j].state \in LiveStates

\* What the index has is not in flight, but for the names N.
HaveLanded(s, N) == \A n \in s.have \ N : s.inflight[n] = NoJob

\* The keys of a set of writes.
KeysOf(s, P) == {s.jobs[j].key : j \in P}

\* A queued block or point is not in the index yet; a queued deletion names
\* nothing that is, and comes before what will bring its names back.  B are
\* the blocks and P the writes of the points the writer is at.
BringsNew(s, t) ==
    /\ t.kind = "block" => t.name \notin s.have
    /\ t.kind = "point" => s.jobs[t.job].key \notin s.points
After(s, t, u) ==
    u.kind = "unlink" =>
        /\ t.kind = "block" => t.name \notin u.names
        /\ t.kind = "point" => s.jobs[t.job].key \notin u.keys
Deletes(s, u, B, P) ==
    u.kind = "unlink" =>
        /\ u.names \cap s.have = {} /\ u.keys \cap s.points = {}
        /\ u.names \cap B = {} /\ u.keys \cap KeysOf(s, P) = {}
QueueInOrder(s) == \A a, b \in DOMAIN s.tasks : a < b => After(s, s.tasks[a], s.tasks[b])
TasksFit(s, B, P) ==
    /\ \A a \in DOMAIN s.tasks : BringsNew(s, s.tasks[a]) /\ Deletes(s, s.tasks[a], B, P)
    /\ QueueInOrder(s)
    /\ B \cap s.have = {} /\ KeysOf(s, P) \cap s.points = {}

\* The units a write may still add.
Reserve(r) == Cardinality(Writes(r)) + (IF r.state \in {"open", "publishing"} THEN FileBytes ELSE 0)

Sizes(s) == [j \in Jobs |-> s.jobs[j].size]
Reserves(s) == [j \in Jobs |-> Reserve(s.jobs[j])]

\* Every write has reserved what it may add, and with m more units the cap
\* holds whatever of it is added.
RoomFits(s, m) ==
    /\ \A j \in Jobs : /\ Reserve(s.jobs[j]) <= s.jobs[j].size
                       /\ s.jobs[j].state \notin LiveStates => s.jobs[j].size = 0
    /\ s.queued = Total(Sizes(s))
    /\ s.stored + Total(Reserves(s)) + m <= CapBytes

\* Names D may have one reference too many, m units are spoken for.
Books(s, D, m) ==
    /\ RefsAre(s, D) /\ StoredFits(s) /\ PointsWhole(s)
    /\ WaitsOnce(s) /\ NamesFit(s) /\ RoomFits(s, m)

Exact(s, D, N, B, P, m) ==
    s \in Store /\ Books(s, D, m) /\ HaveLanded(s, N) /\ TasksFit(s, B, P)

RunningName == IF running.kind = "block" THEN {running.name} ELSE {}

\* What it says of the whole state: between actions nothing is owed, and m
\* units of room are left (none need be, below zero the cap is passed).
Indexed(m) ==
    /\ Exact(store, {}, {}, RunningName, RunningPoint, m) /\ Referenced(store)
    /\ store.have \subseteq files /\ \A k \in store.points : manifest[k] # "none"

-----------------------------------------------------------------------------
(* Sums *)

LEMMA RowIn ==
    ASSUME NEW f \in [Jobs -> Nat], NEW x
    PROVE  x \in Rows(f) <=> \E j \in Jobs, i \in Nat : i \in 1 .. f[j] /\ x = <<j, i>>
BY DEF Rows

LEMMA RowsFinite ==
    ASSUME NEW f \in [Jobs -> Nat]
    PROVE  IsFiniteSet(Rows(f)) /\ Total(f) \in Nat
<1> DEFINE g == [j \in Jobs |-> {j} \X (1 .. f[j])]
           T == {g[j] : j \in Jobs}
<1>1. IsFiniteSet(T)
  <2>1. g \in Surjection(Jobs, T)
    BY DEF Surjection
  <2> QED
    BY <2>1, JobsFinite, FS_Surjection
<1>2. \A S \in T : IsFiniteSet(S)
  <2> SUFFICES ASSUME NEW j \in Jobs PROVE IsFiniteSet({j} \X (1 .. f[j]))
    OBVIOUS
  <2>1. IsFiniteSet({j})
    BY FS_Singleton
  <2>2. IsFiniteSet(1 .. f[j])
    BY FS_Interval
  <2> QED
    BY <2>1, <2>2, FS_Product
<1>3. Rows(f) = UNION T
  BY DEF Rows
<1>4. IsFiniteSet(Rows(f))
  <2> HIDE DEF T
  <2> QED
    BY <1>1, <1>2, <1>3, FS_UNION
<1> QED
  BY <1>4, FS_CardinalityType DEF Total

LEMMA TotalMono ==
    ASSUME NEW f \in [Jobs -> Nat], NEW g \in [Jobs -> Nat], \A j \in Jobs : f[j] <= g[j]
    PROVE  Total(f) <= Total(g)
<1>1. Rows(f) \subseteq Rows(g)
  <2> SUFFICES ASSUME NEW j \in Jobs, NEW i \in 1 .. f[j] PROVE <<j, i>> \in Rows(g)
    BY RowIn
  <2>1. i \in 1 .. g[j]
    OBVIOUS
  <2> QED
    BY <2>1, RowIn
<1> QED
  BY <1>1, RowsFinite, FS_Subset DEF Total

LEMMA TotalAdd ==
    ASSUME NEW f \in [Jobs -> Nat], NEW g \in [Jobs -> Nat], NEW h \in [Jobs -> Nat],
           \A j \in Jobs : h[j] = f[j] + g[j]
    PROVE  Total(h) = Total(f) + Total(g)
<1> DEFINE G == Rows(h) \ Rows(f)
           m == [x \in Rows(g) |-> <<x[1], f[x[1]] + x[2]>>]
<1>1. Rows(f) \subseteq Rows(h)
  <2> SUFFICES ASSUME NEW j \in Jobs, NEW i \in 1 .. f[j] PROVE <<j, i>> \in Rows(h)
    BY RowIn
  <2>1. i \in 1 .. h[j]
    OBVIOUS
  <2> QED
    BY <2>1, RowIn
<1>2. m \in [Rows(g) -> G]
  <2> SUFFICES ASSUME NEW j \in Jobs, NEW i \in 1 .. g[j] PROVE <<j, f[j] + i>> \in G
    BY RowIn
  <2>1. f[j] + i \in 1 .. h[j] /\ f[j] + i \notin 1 .. f[j]
    OBVIOUS
  <2> QED
    BY <2>1, RowIn
<1>3. ASSUME NEW x \in Rows(g), NEW y \in Rows(g), m[x] = m[y] PROVE x = y
  <2>1. PICK j \in Jobs, i \in Nat : i \in 1 .. g[j] /\ x = <<j, i>>
    BY RowIn
  <2>2. PICK k \in Jobs, l \in Nat : l \in 1 .. g[k] /\ y = <<k, l>>
    BY RowIn
  <2>3. j = k /\ f[j] + i = f[k] + l
    BY <1>3, <2>1, <2>2
  <2> QED
    BY <2>1, <2>2, <2>3
<1>4. ASSUME NEW y \in G PROVE \E x \in Rows(g) : m[x] = y
  <2>1. PICK j \in Jobs, i \in Nat : i \in 1 .. h[j] /\ y = <<j, i>>
    BY RowIn
  <2>2. i \notin 1 .. f[j]
    BY <2>1, RowIn
  <2>3. i - f[j] \in 1 .. g[j] /\ f[j] + (i - f[j]) = i
    BY <2>1, <2>2
  <2>4. <<j, i - f[j]>> \in Rows(g)
    BY <2>3, RowIn
  <2> QED
    BY <2>1, <2>3, <2>4
<1>5. ExistsBijection(Rows(g), G)
  <2> HIDE DEF m, G
  <2>1. m \in Injection(Rows(g), G)
    BY <1>2, <1>3 DEF Injection, IsInjective
  <2>2. m \in Surjection(Rows(g), G)
    BY <1>2, <1>4 DEF Surjection
  <2> QED
    BY <2>1, <2>2 DEF ExistsBijection, Bijection
<1>6. Cardinality(G) = Total(g) /\ IsFiniteSet(G)
  BY <1>5, RowsFinite, FS_Bijection DEF Total
<1>7. Rows(h) = Rows(f) \cup G /\ Rows(f) \cap G = {}
  BY <1>1
<1>8. Total(h) = Cardinality(Rows(f)) + Cardinality(G) - Cardinality({})
  <2> HIDE DEF G
  <2> QED
    BY <1>6, <1>7, RowsFinite, FS_Union DEF Total
<1> QED
  <2>1. Cardinality({}) = 0
    BY FS_EmptySet
  <2>2. Total(f) = Cardinality(Rows(f)) /\ Total(f) \in Nat /\ Total(g) \in Nat
    BY RowsFinite DEF Total
  <2> HIDE DEF G
  <2> QED
    BY <1>6, <1>8, <2>1, <2>2

\* A sum of one.
Only(j, c) == [i \in Jobs |-> IF i = j THEN c ELSE 0]

LEMMA TotalOnly ==
    ASSUME NEW j \in Jobs, NEW c \in Nat
    PROVE  Only(j, c) \in [Jobs -> Nat] /\ Total(Only(j, c)) = c
<1>1. Only(j, c) \in [Jobs -> Nat]
  BY DEF Only
<1> DEFINE f == Only(j, c)
           m == [i \in 1 .. c |-> <<j, i>>]
<1>2. f \in [Jobs -> Nat] /\ \A i \in Jobs : f[i] = IF i = j THEN c ELSE 0
  BY DEF Only
<1> HIDE DEF f
<1>3. m \in [1 .. c -> Rows(f)]
  BY <1>2, RowIn
<1>4. \A x \in Rows(f) : \E i \in 1 .. c : m[i] = x
  <2> SUFFICES ASSUME NEW k \in Jobs, NEW i \in 1 .. f[k] PROVE \E l \in 1 .. c : m[l] = <<k, i>>
    BY <1>2, RowIn
  <2>1. k = j /\ i \in 1 .. c
    BY <1>2
  <2> QED
    BY <2>1
<1>5. ExistsBijection(1 .. c, Rows(f))
  <2>1. m \in Injection(1 .. c, Rows(f))
    BY <1>3 DEF Injection, IsInjective
  <2>2. m \in Surjection(1 .. c, Rows(f))
    BY <1>3, <1>4 DEF Surjection
  <2> QED
    BY <2>1, <2>2 DEF ExistsBijection, Bijection
<1>6. Total(f) = c
  BY <1>5, FS_Interval, FS_Bijection DEF Total
<1> QED
  BY <1>1, <1>6 DEF f

\* Two sums that differ in one write.
LEMMA TotalPut ==
    ASSUME NEW f \in [Jobs -> Nat], NEW g \in [Jobs -> Nat], NEW j \in Jobs,
           \A i \in Jobs \ {j} : g[i] = f[i]
    PROVE  Total(g) + f[j] = Total(f) + g[j] /\ Total(f) \in Nat /\ Total(g) \in Nat
<1> DEFINE r == [i \in Jobs |-> IF i = j THEN 0 ELSE f[i]]
           a == Only(j, f[j])
           b == Only(j, g[j])
<1>1. r \in [Jobs -> Nat] /\ f[j] \in Nat /\ g[j] \in Nat
  OBVIOUS
<1>2. /\ a \in [Jobs -> Nat] /\ Total(a) = f[j] /\ b \in [Jobs -> Nat] /\ Total(b) = g[j]
      /\ \A i \in Jobs : f[i] = r[i] + a[i] /\ g[i] = r[i] + b[i]
  BY <1>1, TotalOnly DEF Only
<1> HIDE DEF r, a, b
<1>3. Total(f) = Total(r) + Total(a) /\ Total(g) = Total(r) + Total(b)
  <2>1. \A i \in Jobs : f[i] = r[i] + a[i]
    BY <1>2
  <2>2. \A i \in Jobs : g[i] = r[i] + b[i]
    BY <1>2
  <2>3. Total(f) = Total(r) + Total(a)
    BY <1>1, <1>2, <2>1, TotalAdd
  <2>4. Total(g) = Total(r) + Total(b)
    BY <1>1, <1>2, <2>2, TotalAdd
  <2> QED
    BY <2>3, <2>4
<1>4. Total(r) \in Nat /\ Total(f) \in Nat /\ Total(g) \in Nat
  BY <1>1, RowsFinite
<1> QED
  BY <1>1, <1>2, <1>3, <1>4

LEMMA TotalZero ==
    ASSUME NEW f \in [Jobs -> Nat], \A j \in Jobs : f[j] = 0
    PROVE  Total(f) = 0
<1>1. Rows(f) = {}
  BY RowIn
<1> QED
  BY <1>1, FS_EmptySet DEF Total

\* How many of the names of h each write takes.
Taken(h) == [i \in Jobs |-> Cardinality({n \in DOMAIN h : h[n] = i})]

LEMMA TotalTaken ==
    ASSUME NEW S \in SUBSET Names, NEW h \in [S -> Jobs \cup {NoJob}]
    PROVE  Taken(h) \in [Jobs -> Nat] /\ Total(Taken(h)) = Cardinality({n \in S : h[n] # NoJob})
<1> DEFINE K(i) == {n \in S : h[n] = i}
           N == {n \in S : h[n] # NoJob}
           f == Taken(h)
           bij == [i \in Jobs |-> CHOOSE g : g \in Bijection(1 .. f[i], K(i))]
           m == [x \in Rows(f) |-> bij[x[1]][x[2]]]
<1>1. \A i \in Jobs : /\ f[i] \in Nat /\ f[i] = Cardinality(K(i))
                      /\ bij[i] \in Bijection(1 .. f[i], K(i))
  <2> TAKE i \in Jobs
  <2>1. f[i] = Cardinality(K(i))
    BY DEF Taken
  <2>2. IsFiniteSet(K(i)) /\ f[i] \in Nat
    <3>1. K(i) \in SUBSET Names
      OBVIOUS
    <3> QED
      BY <2>1, <3>1, SubsetCardinality
  <2>3. ExistsBijection(1 .. f[i], K(i))
    BY <2>1, <2>2, FS_CardinalityType
  <2>4. \E g : g \in Bijection(1 .. f[i], K(i))
    BY <2>3 DEF ExistsBijection
  <2> QED
    BY <2>1, <2>2, <2>4
<1>2. f \in [Jobs -> Nat]
  BY <1>1 DEF Taken
<1> HIDE DEF f, bij
<1>3. \A i \in Jobs : /\ \A a \in 1 .. f[i] : bij[i][a] \in K(i)
                      /\ \A a, b \in 1 .. f[i] : bij[i][a] = bij[i][b] => a = b
                      /\ \A n \in K(i) : \E a \in 1 .. f[i] : bij[i][a] = n
  <2> TAKE i \in Jobs
  <2> DEFINE D == 1 .. f[i]
             g == bij[i]
             C == K(i)
  <2>1. g \in Bijection(D, C)
    BY <1>1
  <2> HIDE DEF D, g, C
  <2>2. \A a \in D : g[a] \in C
    BY <2>1 DEF Bijection, Injection
  <2>3. \A a, b \in D : g[a] = g[b] => a = b
    BY <2>1 DEF Bijection, Injection, IsInjective
  <2>4. \A n \in C : \E a \in D : g[a] = n
    BY <2>1 DEF Bijection, Surjection
  <2> QED
    BY <2>2, <2>3, <2>4 DEF D, g, C
<1>4. m \in [Rows(f) -> N]
  <2> SUFFICES ASSUME NEW i \in Jobs, NEW a \in 1 .. f[i] PROVE bij[i][a] \in N
    BY <1>2, RowIn
  <2>1. NoJob \notin Jobs
    BY ConstantsAssumption
  <2> QED
    BY <1>3, <2>1
<1>5. ASSUME NEW x \in Rows(f), NEW y \in Rows(f), m[x] = m[y] PROVE x = y
  <2>1. PICK i \in Jobs, a \in Nat : a \in 1 .. f[i] /\ x = <<i, a>>
    BY <1>2, RowIn
  <2>2. PICK j \in Jobs, b \in Nat : b \in 1 .. f[j] /\ y = <<j, b>>
    BY <1>2, RowIn
  <2>3. bij[i][a] = bij[j][b]
    BY <1>5, <2>1, <2>2
  <2>4. bij[i][a] \in K(i) /\ bij[j][b] \in K(j)
    BY <1>3, <2>1, <2>2
  <2>5. i = j
    BY <2>3, <2>4
  <2>6. a = b
    BY <1>3, <2>1, <2>2, <2>3, <2>5
  <2> QED
    BY <2>1, <2>2, <2>5, <2>6
<1>6. ASSUME NEW n \in N PROVE \E x \in Rows(f) : m[x] = n
  <2>1. h[n] \in Jobs /\ n \in K(h[n])
    OBVIOUS
  <2>2. PICK a \in 1 .. f[h[n]] : bij[h[n]][a] = n
    BY <1>3, <2>1
  <2>3. <<h[n], a>> \in Rows(f)
    BY <1>2, <2>1, RowIn
  <2> QED
    BY <2>2, <2>3
<1>7. ExistsBijection(Rows(f), N)
  <2> HIDE DEF m, N
  <2>1. m \in Injection(Rows(f), N)
    BY <1>4, <1>5 DEF Injection, IsInjective
  <2>2. m \in Surjection(Rows(f), N)
    BY <1>4, <1>6 DEF Surjection
  <2> QED
    BY <2>1, <2>2 DEF ExistsBijection, Bijection
<1>8. Total(f) = Cardinality(N)
  BY <1>2, <1>7, RowsFinite, FS_Bijection DEF Total
<1> QED
  BY <1>2, <1>8 DEF f

-----------------------------------------------------------------------------
(* Counts *)

LEMMA WritesCount ==
    ASSUME NEW r \in Job
    PROVE  /\ Writes(r) \in SUBSET Names /\ IsFiniteSet(Writes(r))
           /\ Cardinality(Writes(r)) \in Nat /\ Reserve(r) \in Nat
<1>1. Writes(r) \in SUBSET Names
  BY JobFields, NamesType DEF Writes
<1>2. IsFiniteSet(Writes(r)) /\ Cardinality(Writes(r)) \in Nat
  BY <1>1, SubsetCardinality
<1>3. Reserve(r) \in Nat
  BY <1>2, ConstantsAssumption DEF Reserve
<1> QED
  BY <1>1, <1>2, <1>3

LEMMA ReservesType ==
    ASSUME NEW s \in Store
    PROVE  /\ Sizes(s) \in [Jobs -> Nat] /\ Reserves(s) \in [Jobs -> Nat]
           /\ Total(Sizes(s)) \in Nat /\ Total(Reserves(s)) \in Nat
           /\ \A j \in Jobs : Sizes(s)[j] = s.jobs[j].size /\ Reserves(s)[j] = Reserve(s.jobs[j])
<1>1. \A j \in Jobs : s.jobs[j] \in Job
  BY StoreFields
<1>2. \A j \in Jobs : s.jobs[j].size \in Nat /\ Reserve(s.jobs[j]) \in Nat
  BY <1>1, JobFields, WritesCount
<1>3. Sizes(s) \in [Jobs -> Nat] /\ Reserves(s) \in [Jobs -> Nat]
  BY <1>2 DEF Sizes, Reserves
<1> QED
  BY <1>3, RowsFinite DEF Sizes, Reserves

LEMMA CountsType ==
    ASSUME NEW s \in Store, NEW n
    PROVE  /\ Naming(s, n) \in SUBSET Keys /\ IsFiniteSet(Naming(s, n)) /\ Cardinality(Naming(s, n)) \in Nat
           /\ Wanting(s, n) \in SUBSET Jobs /\ IsFiniteSet(Wanting(s, n)) /\ Cardinality(Wanting(s, n)) \in Nat
<1>1. Naming(s, n) \in SUBSET Keys
  BY StoreFields DEF Naming
<1>2. Wanting(s, n) \in SUBSET Jobs
  BY DEF Wanting, Live
<1>3. IsFiniteSet(Wanting(s, n))
  BY <1>2, JobsFinite, FS_Subset
<1> QED
  BY <1>1, <1>2, <1>3, SubsetCardinality, FS_CardinalityType

-----------------------------------------------------------------------------
(* Writes that want the same, and may add no more than before *)

Lesser(a, b) ==
    /\ b.key = a.key /\ b.size = a.size /\ Writes(b) \subseteq Writes(a)
    /\ b.state \in LiveStates <=> a.state \in LiveStates
    /\ b.state \in {"open", "publishing"} => a.state \in {"open", "publishing"}
    /\ b.left \cup b.out \subseteq Blocks(b.key)
    /\ b.parked => b.state \in LiveStates

LEMMA LesserReserve ==
    ASSUME NEW a \in Job, NEW b \in Job, Lesser(a, b)
    PROVE  Reserve(b) <= Reserve(a)
<1>1. Cardinality(Writes(b)) <= Cardinality(Writes(a))
  BY WritesCount, FS_Subset DEF Lesser
<1>2. (IF b.state \in {"open", "publishing"} THEN FileBytes ELSE 0)
          <= (IF a.state \in {"open", "publishing"} THEN FileBytes ELSE 0)
  BY ConstantsAssumption DEF Lesser
<1> QED
  BY <1>1, <1>2, WritesCount, ConstantsAssumption DEF Reserve

LEMMA SameWanting ==
    ASSUME NEW s, NEW z,
           \A j \in Jobs : /\ z.jobs[j].key = s.jobs[j].key
                           /\ z.jobs[j].state \in LiveStates <=> s.jobs[j].state \in LiveStates
    PROVE  Live(z) = Live(s) /\ \A n : Wanting(z, n) = Wanting(s, n)
BY DEF Live, Wanting, NamesOf

\* The index and its counts are the same.
SameIndex(s, z) ==
    /\ z \in Store /\ z.points = s.points /\ z.have = s.have /\ z.refs = s.refs
    /\ z.stored = s.stored /\ z.queued = s.queued

LEMMA LesserBooks ==
    ASSUME NEW s \in Store, NEW z, NEW D, NEW m \in Int, Books(s, D, m), SameIndex(s, z),
           \A j \in Jobs : Lesser(s.jobs[j], z.jobs[j])
    PROVE  Books(z, D, m)
<1>1. \A j \in Jobs : /\ z.jobs[j].key = s.jobs[j].key /\ z.jobs[j].size = s.jobs[j].size
                      /\ z.jobs[j].state \in LiveStates <=> s.jobs[j].state \in LiveStates
                      /\ z.jobs[j].left \cup z.jobs[j].out \subseteq Blocks(z.jobs[j].key)
                      /\ z.jobs[j].parked => z.jobs[j].state \in LiveStates
  BY DEF Lesser
<1>2. /\ z \in Store /\ z.points = s.points /\ z.have = s.have /\ z.refs = s.refs
      /\ z.stored = s.stored /\ z.queued = s.queued
  BY DEF SameIndex
<1>3. Live(z) = Live(s) /\ \A n : Wanting(z, n) = Wanting(s, n)
  BY <1>1, SameWanting
<1>4. \A n : Naming(z, n) = Naming(s, n)
  BY <1>2 DEF Naming
<1>5. RefsAre(z, D)
  BY <1>2, <1>3, <1>4 DEF Books, RefsAre
<1>6. StoredFits(z) /\ PointsWhole(z)
  BY <1>2 DEF Books, StoredFits, PointsWhole
<1>7. WaitsOnce(z)
  <2>1. \A j \in Live(z) : j \in Jobs
    BY DEF Live
  <2> QED
    BY <1>1, <1>2, <1>3, <2>1 DEF Books, WaitsOnce
<1>8. NamesFit(z)
  BY <1>1 DEF NamesFit
<1>9. \A j \in Jobs : s.jobs[j] \in Job /\ z.jobs[j] \in Job
  BY <1>2, StoreFields
<1>10. \A j \in Jobs : Reserve(z.jobs[j]) <= Reserve(s.jobs[j])
  BY <1>9, LesserReserve
<1>11. RoomFits(z, m)
  <2>1. Sizes(z) = Sizes(s)
    BY <1>1 DEF Sizes
  <2>2. Total(Reserves(z)) <= Total(Reserves(s))
    BY <1>2, <1>10, ReservesType, TotalMono
  <2>3. \A j \in Jobs : /\ Reserve(z.jobs[j]) <= z.jobs[j].size
                        /\ z.jobs[j].state \notin LiveStates => z.jobs[j].size = 0
    <3> SUFFICES ASSUME NEW j \in Jobs
                 PROVE  /\ Reserve(z.jobs[j]) <= z.jobs[j].size
                        /\ z.jobs[j].state \notin LiveStates => z.jobs[j].size = 0
      OBVIOUS
    <3>1. /\ Reserve(s.jobs[j]) <= s.jobs[j].size
          /\ s.jobs[j].state \notin LiveStates => s.jobs[j].size = 0
      BY DEF Books, RoomFits
    <3>2. Reserve(z.jobs[j]) \in Nat /\ Reserve(s.jobs[j]) \in Nat /\ s.jobs[j].size \in Nat
      BY <1>9, WritesCount, JobFields
    <3> QED
      BY <1>1, <1>10, <3>1, <3>2
  <2>4. z.queued = Total(Sizes(z))
    BY <1>2, <2>1 DEF Books, RoomFits
  <2>5. z.stored + Total(Reserves(z)) + m <= CapBytes
    <3>1. s.stored + Total(Reserves(s)) + m <= CapBytes
      BY DEF Books, RoomFits
    <3>2. s.stored \in Int /\ Total(Reserves(s)) \in Nat /\ Total(Reserves(z)) \in Nat /\ CapBytes \in Nat
      BY <1>2, StoreFields, ReservesType, ConstantsAssumption
    <3> QED
      BY <1>2, <2>2, <3>1, <3>2
  <2> QED
    BY <2>3, <2>4, <2>5 DEF RoomFits
<1> QED
  BY <1>5, <1>6, <1>7, <1>8, <1>11 DEF Books

-----------------------------------------------------------------------------
(* The queue *)

\* The index got no larger, and the writes of what is queued or published keep their keys.
Shrinks(s, z, Q) ==
    /\ z.have \subseteq s.have /\ z.points \subseteq s.points
    /\ \A j \in Q : z.jobs[j].key = s.jobs[j].key

LEMMA KeysOfSame ==
    ASSUME NEW s, NEW z, NEW P, \A j \in P : z.jobs[j].key = s.jobs[j].key
    PROVE  KeysOf(z, P) = KeysOf(s, P)
BY DEF KeysOf

\* What a queue that fits says, task by task.
LEMMA QueueParts ==
    ASSUME NEW s \in Store, NEW B, NEW P, TasksFit(s, B, P)
    PROVE  /\ DOMAIN s.tasks = 1 .. Len(s.tasks) /\ Len(s.tasks) \in Nat
           /\ \A a \in 1 .. Len(s.tasks) : /\ BringsNew(s, s.tasks[a]) /\ Deletes(s, s.tasks[a], B, P)
                                           /\ s.tasks[a] \in Task
                                           /\ s.tasks[a].kind = "point" => s.tasks[a].job \in QueuedPoints(s.tasks)
           /\ \A a, b \in 1 .. Len(s.tasks) : a < b => After(s, s.tasks[a], s.tasks[b])
           /\ B \cap s.have = {} /\ KeysOf(s, P) \cap s.points = {}
<1>1. s.tasks \in Seq(Task)
  BY StoreFields
<1>2. DOMAIN s.tasks = 1 .. Len(s.tasks) /\ Len(s.tasks) \in Nat
  BY <1>1
<1>3. \A a \in 1 .. Len(s.tasks) : /\ s.tasks[a] \in Task
                                   /\ s.tasks[a].kind = "point" => s.tasks[a].job \in QueuedPoints(s.tasks)
  BY <1>1, InQueue
<1> QED
  BY <1>2, <1>3 DEF TasksFit, QueueInOrder

LEMMA TaskShrinks ==
    ASSUME NEW s, NEW z, NEW B, NEW P, NEW Q, NEW t, Shrinks(s, z, Q), P \subseteq Q,
           t.kind = "point" => t.job \in Q, BringsNew(s, t), Deletes(s, t, B, P)
    PROVE  BringsNew(z, t) /\ Deletes(z, t, B, P) /\ \A u : After(s, t, u) => After(z, t, u)
<1>1. KeysOf(z, P) = KeysOf(s, P)
  BY KeysOfSame DEF Shrinks
<1>2. BringsNew(z, t)
  BY DEF Shrinks, BringsNew
<1>3. Deletes(z, t, B, P)
  BY <1>1 DEF Shrinks, Deletes
<1>4. \A u : After(s, t, u) => After(z, t, u)
  BY DEF Shrinks, After
<1> QED
  BY <1>2, <1>3, <1>4

LEMMA TasksShrink ==
    ASSUME NEW s \in Store, NEW z \in Store, NEW B, NEW P, TasksFit(s, B, P), z.tasks = s.tasks,
           Shrinks(s, z, QueuedPoints(s.tasks) \cup P)
    PROVE  TasksFit(z, B, P)
<1> DEFINE Q == QueuedPoints(s.tasks) \cup P
<1>1. /\ DOMAIN s.tasks = 1 .. Len(s.tasks)
      /\ \A a \in 1 .. Len(s.tasks) : /\ BringsNew(s, s.tasks[a]) /\ Deletes(s, s.tasks[a], B, P)
                                      /\ s.tasks[a].kind = "point" => s.tasks[a].job \in Q
      /\ \A a, b \in 1 .. Len(s.tasks) : a < b => After(s, s.tasks[a], s.tasks[b])
      /\ B \cap s.have = {} /\ KeysOf(s, P) \cap s.points = {}
  BY QueueParts
<1>2. Shrinks(s, z, Q) /\ P \subseteq Q
  OBVIOUS
<1> HIDE DEF Q
<1>3. \A a \in 1 .. Len(s.tasks) :
          /\ BringsNew(z, s.tasks[a]) /\ Deletes(z, s.tasks[a], B, P)
          /\ \A u : After(s, s.tasks[a], u) => After(z, s.tasks[a], u)
  <2> TAKE a \in 1 .. Len(s.tasks)
  <2> DEFINE v == s.tasks[a]
  <2>1. /\ BringsNew(s, v) /\ Deletes(s, v, B, P)
        /\ v.kind = "point" => v.job \in Q
    BY <1>1
  <2> HIDE DEF v
  <2>3. BringsNew(z, v) /\ Deletes(z, v, B, P) /\ \A u : After(s, v, u) => After(z, v, u)
    BY <1>2, <2>1, TaskShrinks
  <2> QED
    BY <2>3 DEF v
<1>4. QueueInOrder(z)
  BY <1>1, <1>3 DEF QueueInOrder
<1>5. KeysOf(z, P) = KeysOf(s, P)
  BY <1>2, KeysOfSame DEF Shrinks
<1>6. B \cap z.have = {} /\ KeysOf(z, P) \cap z.points = {}
  BY <1>1, <1>2, <1>5 DEF Shrinks
<1> QED
  BY <1>1, <1>3, <1>4, <1>6 DEF TasksFit

\* Less that the writer is at.
LEMMA TasksLess ==
    ASSUME NEW s, NEW B, NEW P, NEW C, NEW Q, TasksFit(s, B, P), C \subseteq B, Q \subseteq P
    PROVE  TasksFit(s, C, Q)
<1>1. KeysOf(s, Q) \subseteq KeysOf(s, P)
  BY DEF KeysOf
<1>2. \A a \in DOMAIN s.tasks : Deletes(s, s.tasks[a], C, Q)
  BY <1>1 DEF TasksFit, Deletes
<1> QED
  BY <1>1, <1>2 DEF TasksFit

\* A task t behind the others, whose names are not the writer's when it deletes.
LEMMA TasksAppend ==
    ASSUME NEW s \in Store, NEW z \in Store, NEW B, NEW P, NEW t \in Task, TasksFit(s, B, P),
           Shrinks(s, z, QueuedPoints(s.tasks) \cup P), Appended(s.tasks, z.tasks, t),
           BringsNew(z, t), Deletes(z, t, B, P), \A a \in 1 .. Len(s.tasks) : After(z, s.tasks[a], t)
    PROVE  TasksFit(z, B, P)
<1> DEFINE Q == QueuedPoints(s.tasks) \cup P
           n == Len(s.tasks)
<1>1. /\ n \in Nat
      /\ \A a \in 1 .. n : /\ BringsNew(s, s.tasks[a]) /\ Deletes(s, s.tasks[a], B, P)
                           /\ s.tasks[a].kind = "point" => s.tasks[a].job \in Q
      /\ \A a, b \in 1 .. n : a < b => After(s, s.tasks[a], s.tasks[b])
      /\ B \cap s.have = {} /\ KeysOf(s, P) \cap s.points = {}
  BY QueueParts
<1>2. Shrinks(s, z, Q) /\ P \subseteq Q
  OBVIOUS
<1>3. /\ DOMAIN z.tasks = 1 .. n + 1 /\ z.tasks[n + 1] = t /\ \A a \in 1 .. n : z.tasks[a] = s.tasks[a]
  BY DEF Appended
<1>4. \A a \in 1 .. n : After(z, s.tasks[a], t)
  OBVIOUS
<1> HIDE DEF Q, n
<1>5. \A a \in 1 .. n :
          /\ BringsNew(z, s.tasks[a]) /\ Deletes(z, s.tasks[a], B, P)
          /\ \A u : After(s, s.tasks[a], u) => After(z, s.tasks[a], u)
  <2> TAKE a \in 1 .. n
  <2> DEFINE v == s.tasks[a]
  <2>1. /\ BringsNew(s, v) /\ Deletes(s, v, B, P)
        /\ v.kind = "point" => v.job \in Q
    BY <1>1
  <2> HIDE DEF v
  <2>3. BringsNew(z, v) /\ Deletes(z, v, B, P) /\ \A u : After(s, v, u) => After(z, v, u)
    BY <1>2, <2>1, TaskShrinks
  <2> QED
    BY <2>3 DEF v
<1>6. \A a \in 1 .. n + 1 : a \in 1 .. n \/ a = n + 1
  BY <1>1
<1>7. \A a \in DOMAIN z.tasks : BringsNew(z, z.tasks[a]) /\ Deletes(z, z.tasks[a], B, P)
  BY <1>3, <1>5, <1>6
<1>8. QueueInOrder(z)
  <2> SUFFICES ASSUME NEW a \in 1 .. n + 1, NEW b \in 1 .. n + 1, a < b
               PROVE  After(z, z.tasks[a], z.tasks[b])
    BY <1>3 DEF QueueInOrder
  <2>1. a \in 1 .. n
    BY <1>1
  <2>2. CASE b \in 1 .. n
    BY <1>1, <1>3, <1>5, <2>1, <2>2
  <2>3. CASE b = n + 1
    BY <1>3, <1>4, <2>1, <2>3
  <2> QED
    BY <1>6, <2>2, <2>3
<1>9. KeysOf(z, P) = KeysOf(s, P)
  BY <1>2, KeysOfSame DEF Shrinks
<1>10. B \cap z.have = {} /\ KeysOf(z, P) \cap z.points = {}
  BY <1>1, <1>2, <1>9 DEF Shrinks
<1> QED
  BY <1>7, <1>8, <1>10 DEF TasksFit

\* A block or a point that is not in the index yet.
LEMMA TasksQueue ==
    ASSUME NEW s \in Store, NEW z \in Store, NEW B, NEW P, NEW t \in Task, TasksFit(s, B, P),
           Shrinks(s, z, QueuedPoints(s.tasks) \cup P), Appended(s.tasks, z.tasks, t),
           BringsNew(z, t), t.kind # "unlink"
    PROVE  TasksFit(z, B, P)
<1>1. Deletes(z, t, B, P) /\ \A a \in 1 .. Len(s.tasks) : After(z, s.tasks[a], t)
  BY DEF Deletes, After
<1> QED
  BY <1>1, TasksAppend

\* A deletion of what just left the index: K of its points, S of its blocks.
LEMMA TasksUnlink ==
    ASSUME NEW s \in Store, NEW z \in Store, NEW B, NEW P, TasksFit(s, B, P),
           Shrinks(s, z, QueuedPoints(s.tasks) \cup P),
           NEW K \in SUBSET s.points, NEW S \in SUBSET s.have,
           K \cap z.points = {}, S \cap z.have = {},
           z.tasks = Append(s.tasks, [kind |-> "unlink", keys |-> K, names |-> S])
    PROVE  TasksFit(z, B, P)
<1> DEFINE t == [kind |-> "unlink", keys |-> K, names |-> S]
<1>1. K \in SUBSET Keys /\ S \in SUBSET Names
  BY StoreFields
<1>2. t \in Task /\ t.kind = "unlink" /\ t.keys = K /\ t.names = S
  BY <1>1, UnlinkType
<1>3. Appended(s.tasks, z.tasks, t)
  BY <1>2, StoreFields, AppendIs
<1> HIDE DEF t
<1>4. /\ \A a \in 1 .. Len(s.tasks) : /\ BringsNew(s, s.tasks[a])
                                      /\ s.tasks[a].kind = "point" => s.tasks[a].job \in QueuedPoints(s.tasks)
      /\ B \cap s.have = {} /\ KeysOf(s, P) \cap s.points = {}
  BY QueueParts
<1>5. KeysOf(z, P) = KeysOf(s, P)
  BY KeysOfSame DEF Shrinks
<1>6. BringsNew(z, t)
  BY <1>2 DEF BringsNew
<1>7. Deletes(z, t, B, P)
  BY <1>2, <1>4, <1>5 DEF Deletes
<1>8. \A a \in 1 .. Len(s.tasks) : After(z, s.tasks[a], t)
  BY <1>2, <1>4 DEF After, BringsNew, Shrinks
<1> QED
  BY <1>2, <1>3, <1>6, <1>7, <1>8, TasksAppend

\* The writer takes the first task t.
Popping(t, B) == IF t.kind = "block" THEN B \cup {t.name} ELSE B
PoppingPoint(t, P) == IF t.kind = "point" THEN P \cup {t.job} ELSE P

LEMMA TasksPop ==
    ASSUME NEW s \in Store, NEW z \in Store, NEW t, TasksFit(s, {}, {}),
           Shrinks(s, z, QueuedPoints(s.tasks)), Shifted(s.tasks, z.tasks, t)
    PROVE  /\ TasksFit(z, Popping(t, {}), PoppingPoint(t, {}))
           /\ t.kind = "unlink" => t.names \cap z.have = {} /\ t.keys \cap z.points = {}
<1> DEFINE n == Len(z.tasks)
           B == Popping(t, {})
           P == PoppingPoint(t, {})
           Q == QueuedPoints(s.tasks)
<1>1. /\ \A a \in 1 .. Len(s.tasks) : /\ BringsNew(s, s.tasks[a]) /\ Deletes(s, s.tasks[a], {}, {})
                                      /\ s.tasks[a].kind = "point" => s.tasks[a].job \in Q
      /\ \A a, b \in 1 .. Len(s.tasks) : a < b => After(s, s.tasks[a], s.tasks[b])
  BY QueueParts
<1>2. Shrinks(s, z, Q)
  OBVIOUS
<1>3. /\ DOMAIN z.tasks = 1 .. n /\ n \in Nat /\ s.tasks[1] = t /\ 1 \in 1 .. Len(s.tasks)
      /\ \A a \in 1 .. n : a + 1 \in 1 .. Len(s.tasks) /\ z.tasks[a] = s.tasks[a + 1] /\ 1 < a + 1
  BY DEF Shifted
<1> HIDE DEF n, Q
<1>4. \A a \in 1 .. Len(s.tasks) :
          /\ BringsNew(z, s.tasks[a]) /\ Deletes(z, s.tasks[a], {}, {})
          /\ \A u : After(s, s.tasks[a], u) => After(z, s.tasks[a], u)
  <2> TAKE a \in 1 .. Len(s.tasks)
  <2> DEFINE v == s.tasks[a]
  <2>1. /\ BringsNew(s, v) /\ Deletes(s, v, {}, {})
        /\ v.kind = "point" => v.job \in Q
    BY <1>1
  <2>2. {} \subseteq Q
    OBVIOUS
  <2> HIDE DEF v
  <2>3. BringsNew(z, v) /\ Deletes(z, v, {}, {}) /\ \A u : After(s, v, u) => After(z, v, u)
    BY <1>2, <2>1, <2>2, TaskShrinks
  <2> QED
    BY <2>3 DEF v
<1>5. /\ BringsNew(z, t) /\ Deletes(z, t, {}, {})
      /\ \A a \in 1 .. n : After(z, t, z.tasks[a])
  BY <1>1, <1>3, <1>4
<1>6. /\ B = IF t.kind = "block" THEN {t.name} ELSE {}
      /\ KeysOf(z, P) = IF t.kind = "point" THEN {z.jobs[t.job].key} ELSE {}
  BY DEF Popping, PoppingPoint, KeysOf
<1> HIDE DEF B, P
<1>7. \A a \in 1 .. n : BringsNew(z, z.tasks[a]) /\ Deletes(z, z.tasks[a], B, P)
  <2> SUFFICES ASSUME NEW a \in 1 .. n PROVE BringsNew(z, z.tasks[a]) /\ Deletes(z, z.tasks[a], B, P)
    OBVIOUS
  <2>1. BringsNew(z, z.tasks[a]) /\ Deletes(z, z.tasks[a], {}, {}) /\ After(z, t, z.tasks[a])
    BY <1>3, <1>4, <1>5
  <2> QED
    BY <1>6, <2>1 DEF Deletes, After
<1>8. QueueInOrder(z)
  <2> SUFFICES ASSUME NEW a \in 1 .. n, NEW b \in 1 .. n, a < b PROVE After(z, z.tasks[a], z.tasks[b])
    BY <1>3 DEF QueueInOrder
  <2>1. a + 1 < b + 1
    BY <1>3
  <2>2. After(s, s.tasks[a + 1], s.tasks[b + 1])
    BY <1>1, <1>3, <2>1
  <2> QED
    BY <1>3, <1>4, <2>2
<1>9. B \cap z.have = {} /\ KeysOf(z, P) \cap z.points = {}
  BY <1>5, <1>6 DEF BringsNew
<1>10. TasksFit(z, B, P)
  BY <1>3, <1>7, <1>8, <1>9 DEF TasksFit
<1>11. t.kind = "unlink" => t.names \cap z.have = {} /\ t.keys \cap z.points = {}
  BY <1>5 DEF Deletes
<1> QED
  BY <1>10, <1>11 DEF B, P

\* The points of writes R that are not in the index behind the others.
LEMMA TasksExtend ==
    ASSUME NEW s \in Store, NEW z \in Store, NEW B, NEW P, TasksFit(s, B, P),
           Shrinks(s, z, QueuedPoints(s.tasks) \cup P),
           NEW N \in Nat, NEW R \in SUBSET Jobs, NEW f \in [1 .. N -> R],
           \A j \in R : z.jobs[j].key \notin z.points, Extended(s.tasks, z.tasks, f, N)
    PROVE  TasksFit(z, B, P)
<1> DEFINE Q == QueuedPoints(s.tasks) \cup P
           n == Len(s.tasks)
<1>1. /\ n \in Nat
      /\ \A a \in 1 .. n : /\ BringsNew(s, s.tasks[a]) /\ Deletes(s, s.tasks[a], B, P)
                           /\ s.tasks[a].kind = "point" => s.tasks[a].job \in Q
      /\ \A a, b \in 1 .. n : a < b => After(s, s.tasks[a], s.tasks[b])
      /\ B \cap s.have = {} /\ KeysOf(s, P) \cap s.points = {}
  BY QueueParts
<1>2. Shrinks(s, z, Q) /\ P \subseteq Q
  OBVIOUS
<1>3. /\ DOMAIN z.tasks = 1 .. n + N /\ \A a \in 1 .. n : z.tasks[a] = s.tasks[a]
      /\ \A i \in 1 .. N : z.tasks[n + i] = [kind |-> "point", job |-> f[i]]
  BY DEF Extended
<1> HIDE DEF Q, n
<1>4. \A a \in 1 .. n :
          /\ BringsNew(z, s.tasks[a]) /\ Deletes(z, s.tasks[a], B, P)
          /\ \A u : After(s, s.tasks[a], u) => After(z, s.tasks[a], u)
  BY <1>1, <1>2, TaskShrinks
<1>5. \A a \in 1 .. n + N : a \in 1 .. n \/ (a - n \in 1 .. N /\ a = n + (a - n))
  BY <1>1
<1>6. ASSUME NEW a \in 1 .. n + N, a \notin 1 .. n
      PROVE  /\ BringsNew(z, z.tasks[a]) /\ Deletes(z, z.tasks[a], B, P)
             /\ \A t : After(z, t, z.tasks[a])
  <2>1. PICK i \in 1 .. N : z.tasks[a] = [kind |-> "point", job |-> f[i]]
    BY <1>3, <1>5, <1>6
  <2>2. z.tasks[a].kind = "point" /\ z.jobs[z.tasks[a].job].key \notin z.points
    BY <2>1
  <2> QED
    BY <2>2 DEF BringsNew, Deletes, After
<1>7. \A a \in DOMAIN z.tasks : BringsNew(z, z.tasks[a]) /\ Deletes(z, z.tasks[a], B, P)
  BY <1>3, <1>4, <1>6
<1>8. QueueInOrder(z)
  <2> SUFFICES ASSUME NEW a \in 1 .. n + N, NEW b \in 1 .. n + N, a < b
               PROVE  After(z, z.tasks[a], z.tasks[b])
    BY <1>3 DEF QueueInOrder
  <2>1. CASE b \in 1 .. n
    <3>1. a \in 1 .. n
      BY <1>1, <2>1
    <3> QED
      BY <1>1, <1>3, <1>4, <2>1, <3>1
  <2>2. CASE b \notin 1 .. n
    BY <1>6, <2>2
  <2> QED
    BY <2>1, <2>2
<1>9. KeysOf(z, P) = KeysOf(s, P)
  BY <1>2, KeysOfSame DEF Shrinks
<1>10. B \cap z.have = {} /\ KeysOf(z, P) \cap z.points = {}
  BY <1>1, <1>2, <1>9 DEF Shrinks
<1> QED
  BY <1>7, <1>8, <1>10 DEF TasksFit

-----------------------------------------------------------------------------
(* Parked points that are ready go to the writer *)

LEMMA ExactIs ==
    ASSUME NEW s, NEW D, NEW N, NEW B, NEW P, NEW m, Exact(s, D, N, B, P, m)
    PROVE  /\ s \in Store /\ Books(s, D, m) /\ HaveLanded(s, N) /\ TasksFit(s, B, P)
           /\ RefsAre(s, D) /\ StoredFits(s) /\ PointsWhole(s)
           /\ WaitsOnce(s) /\ NamesFit(s) /\ RoomFits(s, m)
BY DEF Exact, Books

\* The jobs that may be queued when what is ready goes to the writer.
Parked(s) == {j \in Jobs : s.jobs[j].parked}
Queues(s, z, R) == \E N \in Nat : \E f \in [1 .. N -> R] : Extended(s.tasks, z.tasks, f, N)

\* A write is as it was but for its being parked.
Akin(a, b) == Kin(a, b) /\ b.size = a.size /\ (b.parked => a.parked)

LEMMA RecheckFields ==
    ASSUME NEW s \in Store
    PROVE  LET z == RecheckParked(s) IN
           /\ SameIndex(s, z) /\ z.inflight = s.inflight /\ z.free = s.free /\ z.shared = s.shared
           /\ \A j \in Jobs : Akin(s.jobs[j], z.jobs[j])
           /\ Queues(s, z, Parked(s))
<1> DEFINE ready == {j \in Jobs : s.jobs[j].parked /\ BlocksSettled(s, j)}
           order == SetToSeq(ready)
           N == Cardinality(ready)
           jobs == [j \in Jobs |-> IF j \in ready THEN [s.jobs[j] EXCEPT !.parked = FALSE]
                                   ELSE s.jobs[j]]
           tasks == s.tasks \o [i \in 1 .. N |-> [kind |-> "point", job |-> order[i]]]
           z == RecheckParked(s)
<1>1. ready \subseteq Parked(s) /\ Parked(s) \subseteq Jobs /\ \A j \in ready : s.jobs[j].parked
  BY DEF Parked
<1>2. order \in [1 .. N -> ready] /\ N \in Nat
  <2>1. IsFiniteSet(ready)
    BY JobsFinite, FS_Subset
  <2> QED
    BY <2>1, SetToSeqOnce
<1>3. z = [s EXCEPT !.jobs = jobs, !.tasks = tasks]
  <2>1. DOMAIN order = 1 .. N
    BY <1>2
  <2> QED
    BY <2>1 DEF RecheckParked
<1>4. z \in Store
  BY RecheckParkedType DEF Keeps
<1>5. /\ z.points = s.points /\ z.have = s.have /\ z.refs = s.refs /\ z.stored = s.stored
      /\ z.queued = s.queued /\ z.inflight = s.inflight /\ z.free = s.free /\ z.shared = s.shared
      /\ z.jobs = jobs /\ z.tasks = tasks
  <2> HIDE DEF jobs, tasks, z
  <2> QED
    BY <1>3 DEF Store
<1>6. \A j \in Jobs : Akin(s.jobs[j], jobs[j])
  <2> SUFFICES ASSUME NEW j \in Jobs PROVE Akin(s.jobs[j], jobs[j])
    OBVIOUS
  <2>1. s.jobs[j] \in Job
    BY StoreFields
  <2>2. CASE j \in ready
    <3>1. jobs[j] = [s.jobs[j] EXCEPT !.parked = FALSE]
      BY <2>2
    <3> HIDE DEF jobs, ready
    <3> QED
      BY <2>1, <3>1 DEF Job, Akin, Kin
  <2>3. CASE j \notin ready
    <3>1. jobs[j] = s.jobs[j]
      BY <2>3
    <3> QED
      BY <3>1 DEF Akin, Kin
  <2> QED
    BY <2>2, <2>3
<1>7. Queues(s, z, Parked(s))
  <2>1. s.tasks \in Seq(Task) /\ order \in [1 .. N -> Jobs] /\ order \in [1 .. N -> Parked(s)]
    BY <1>1, <1>2, StoreFields
  <2> HIDE DEF order, N, z
  <2>2. Extended(s.tasks, tasks, order, N)
    BY <1>2, <2>1, ConcatIs
  <2>3. Extended(s.tasks, z.tasks, order, N)
    BY <1>5, <2>2
  <2> QED
    BY <1>2, <2>1, <2>3 DEF Queues
<1>8. SameIndex(s, z)
  BY <1>4, <1>5 DEF SameIndex
<1> QED
  BY <1>5, <1>6, <1>7, <1>8

LEMMA AkinLesser ==
    ASSUME NEW a, NEW b, Akin(a, b), a.left \cup a.out \subseteq Blocks(a.key), a.parked => a.state \in LiveStates
    PROVE  Lesser(a, b)
<1>1. Writes(b) = Writes(a) /\ b.key = a.key /\ b.state = a.state /\ b.left = a.left /\ b.out = a.out
      /\ b.size = a.size /\ (b.parked => a.parked)
  BY DEF Akin, Kin, Writes
<1> QED
  BY <1>1 DEF Lesser

LEMMA RecheckExact ==
    ASSUME NEW s, NEW D, NEW N, NEW B, NEW P \in SUBSET Jobs, NEW m \in Int, Exact(s, D, N, B, P, m)
    PROVE  LET z == RecheckParked(s) IN
           /\ Exact(z, D, N, B, P, m) /\ SameIndex(s, z) /\ z.inflight = s.inflight
           /\ \A j \in Jobs : Akin(s.jobs[j], z.jobs[j])
<1> DEFINE z == RecheckParked(s)
<1>1. s \in Store /\ Books(s, D, m) /\ HaveLanded(s, N) /\ TasksFit(s, B, P) /\ WaitsOnce(s) /\ NamesFit(s)
  BY ExactIs
<1>2. /\ SameIndex(s, z) /\ z.inflight = s.inflight /\ \A j \in Jobs : Akin(s.jobs[j], z.jobs[j])
      /\ Queues(s, z, Parked(s))
  BY <1>1, RecheckFields
<1> HIDE DEF z
<1>3. \A j \in Jobs : Lesser(s.jobs[j], z.jobs[j])
  BY <1>1, <1>2, AkinLesser DEF NamesFit
<1>4. Books(z, D, m)
  BY <1>1, <1>2, <1>3, LesserBooks
<1>5. HaveLanded(z, N)
  BY <1>1, <1>2 DEF HaveLanded, SameIndex
<1>6. \A j \in Jobs : z.jobs[j].key = s.jobs[j].key
  BY <1>3 DEF Lesser
<1>7. QueuedPoints(s.tasks) \cup P \subseteq Jobs
  BY <1>1, StoreFields, InQueue
<1>8. Shrinks(s, z, QueuedPoints(s.tasks) \cup P)
  BY <1>2, <1>6, <1>7 DEF Shrinks, SameIndex
<1>9. \A j \in Parked(s) : z.jobs[j].key \notin z.points
  BY <1>1, <1>2, <1>6 DEF Parked, WaitsOnce, NamesFit, Live, SameIndex
<1>10. Parked(s) \in SUBSET Jobs /\ z \in Store
  BY <1>2 DEF Parked, SameIndex
<1>11. TasksFit(z, B, P)
  <2>1. PICK n \in Nat : \E f \in [1 .. n -> Parked(s)] : Extended(s.tasks, z.tasks, f, n)
    BY <1>2 DEF Queues
  <2>2. PICK f \in [1 .. n -> Parked(s)] : Extended(s.tasks, z.tasks, f, n)
    BY <2>1
  <2> QED
    BY <1>1, <1>8, <1>9, <1>10, <2>2, TasksExtend
<1>12. Exact(z, D, N, B, P, m)
  BY <1>4, <1>5, <1>10, <1>11 DEF Exact
<1> QED
  BY <1>2, <1>12 DEF z

-----------------------------------------------------------------------------
(* References and blocks *)

\* What a change of the index leaves alone.
SameWork(s, z) == z \in Store /\ z.jobs = s.jobs /\ z.inflight = s.inflight

LEMMA WorkShrinks ==
    ASSUME NEW s, NEW z, NEW Q, SameWork(s, z), z.have \subseteq s.have, z.points \subseteq s.points
    PROVE  Shrinks(s, z, Q)
BY DEF SameWork, Shrinks

\* Fewer units stored: the cap holds as before.
LEMMA RoomLess ==
    ASSUME NEW s \in Store, NEW z, NEW m \in Int, SameWork(s, z), RoomFits(s, m), z.queued = s.queued,
           NEW u \in Int, z.stored <= s.stored + u
    PROVE  RoomFits(z, m - u)
<1>1. Sizes(z) = Sizes(s) /\ Reserves(z) = Reserves(s)
  BY DEF SameWork, Sizes, Reserves
<1>2. s.stored + Total(Reserves(s)) + m <= CapBytes
  BY DEF RoomFits
<1>3. /\ s.stored \in Int /\ z.stored \in Int /\ Total(Reserves(s)) \in Nat /\ CapBytes \in Nat
  BY StoreFields, ReservesType, ConstantsAssumption DEF SameWork
<1>4. z.stored + Total(Reserves(z)) + (m - u) <= CapBytes
  BY <1>1, <1>2, <1>3
<1> QED
  BY <1>1, <1>4 DEF RoomFits, SameWork

LEMMA SameWaits ==
    ASSUME NEW s, NEW z, SameWork(s, z)
    PROVE  /\ \A n : Wanting(z, n) = Wanting(s, n)
           /\ NamesFit(s) => NamesFit(z)
           /\ z.points \subseteq s.points /\ WaitsOnce(s) => WaitsOnce(z)
           /\ \A N : z.have \subseteq s.have /\ HaveLanded(s, N) => HaveLanded(z, N)
BY DEF SameWork, Wanting, Live, NamesOf, NamesFit, WaitsOnce, HaveLanded

LEMMA RefExact ==
    ASSUME NEW s, NEW B, NEW P, NEW m \in Int, NEW S \in SUBSET Names,
           Exact(s, {}, {}, B, P, m), Referenced(s)
    PROVE  LET z == Ref(s, S) IN
           /\ Exact(z, S, {}, B, P, m) /\ Referenced(z) /\ SameWork(s, z)
           /\ z.have = s.have /\ z.points = s.points /\ z.stored = s.stored /\ z.queued = s.queued
<1> DEFINE refs == [n \in Names |-> IF n \in S THEN s.refs[n] + 1 ELSE s.refs[n]]
           z == Ref(s, S)
<1>1. s \in Store
  BY ExactIs
<1>2. z \in Store
  BY <1>1, RefType DEF Keeps
<1>3. z = [s EXCEPT !.refs = refs]
  BY DEF Ref
<1>4. /\ SameWork(s, z) /\ z.have = s.have /\ z.points = s.points /\ z.stored = s.stored
      /\ z.queued = s.queued /\ z.tasks = s.tasks /\ z.refs = refs
  <2> HIDE DEF refs, z
  <2> QED
    BY <1>1, <1>2, <1>3 DEF Store, SameWork
<1>5. \A n \in Names : z.refs[n] = s.refs[n] + (IF n \in S THEN 1 ELSE 0)
  BY <1>1, <1>4, StoreFields
<1> HIDE DEF z, refs
<1>6. RefsAre(z, S)
  <2> SUFFICES ASSUME NEW n \in Names
               PROVE  z.refs[n] = Cardinality(Naming(z, n)) + Cardinality(Wanting(z, n)) + (IF n \in S THEN 1 ELSE 0)
    BY DEF RefsAre
  <2>1. s.refs[n] = Cardinality(Naming(s, n)) + Cardinality(Wanting(s, n)) + 0
    BY ExactIs DEF RefsAre
  <2>2. Naming(z, n) = Naming(s, n) /\ Wanting(z, n) = Wanting(s, n)
    BY <1>4, SameWaits DEF Naming
  <2> QED
    BY <1>1, <1>5, <2>1, <2>2, CountsType
<1>7. StoredFits(z) /\ PointsWhole(z)
  BY <1>4, ExactIs DEF StoredFits, PointsWhole
<1>8. WaitsOnce(z) /\ NamesFit(z) /\ HaveLanded(z, {})
  BY <1>4, ExactIs, SameWaits
<1>9. RoomFits(z, m)
  <2>1. z.stored <= s.stored + 0
    BY <1>1, <1>4, StoreFields
  <2>2. RoomFits(z, m - 0)
    BY <1>1, <1>4, <2>1, ExactIs, RoomLess
  <2> QED
    BY <2>2
<1>10. TasksFit(z, B, P)
  <2>1. TasksFit(s, B, P)
    BY ExactIs
  <2>2. Shrinks(s, z, QueuedPoints(s.tasks) \cup P)
    BY <1>4, WorkShrinks
  <2> QED
    BY <1>1, <1>2, <1>4, <2>1, <2>2, TasksShrink
<1>11. Referenced(z)
  <2> SUFFICES ASSUME NEW n \in z.have PROVE z.refs[n] > 0
    BY DEF Referenced
  <2>1. n \in Names /\ s.refs[n] > 0 /\ s.refs[n] \in Nat
    BY <1>1, <1>4, StoreFields DEF Referenced
  <2> QED
    BY <1>5, <2>1
<1>12. Exact(z, S, {}, B, P, m)
  BY <1>2, <1>6, <1>7, <1>8, <1>9, <1>10 DEF Exact, Books
<1> QED
  BY <1>4, <1>11, <1>12 DEF z

LEMMA UnrefExact ==
    ASSUME NEW s, NEW N, NEW B, NEW P, NEW m \in Int, NEW D \in SUBSET Names, Exact(s, D, N, B, P, m)
    PROVE  LET z == Unref(s, D) IN
           /\ Exact(z, {}, N, B, P, m) /\ SameWork(s, z) /\ z.have = s.have /\ z.points = s.points
           /\ z.stored = s.stored /\ z.queued = s.queued /\ \A n \in Names \ D : z.refs[n] = s.refs[n]
<1> DEFINE refs == [n \in Names |-> IF n \in D /\ s.refs[n] > 0 THEN s.refs[n] - 1 ELSE s.refs[n]]
           z == Unref(s, D)
<1>1. s \in Store
  BY ExactIs
<1>2. z \in Store
  BY <1>1, RefType DEF Keeps
<1>3. z = [s EXCEPT !.refs = refs]
  BY DEF Unref
<1>4. /\ SameWork(s, z) /\ z.have = s.have /\ z.points = s.points /\ z.stored = s.stored
      /\ z.queued = s.queued /\ z.tasks = s.tasks /\ z.refs = refs
  <2> HIDE DEF refs, z
  <2> QED
    BY <1>1, <1>2, <1>3 DEF Store, SameWork
<1>5. \A n \in Names : z.refs[n] = IF n \in D /\ s.refs[n] > 0 THEN s.refs[n] - 1 ELSE s.refs[n]
  BY <1>4
<1> HIDE DEF z, refs
<1>6. RefsAre(z, {})
  <2> SUFFICES ASSUME NEW n \in Names
               PROVE  z.refs[n] = Cardinality(Naming(z, n)) + Cardinality(Wanting(z, n)) + 0
    BY DEF RefsAre
  <2>1. s.refs[n] = Cardinality(Naming(s, n)) + Cardinality(Wanting(s, n)) + (IF n \in D THEN 1 ELSE 0)
    BY ExactIs DEF RefsAre
  <2>2. Naming(z, n) = Naming(s, n) /\ Wanting(z, n) = Wanting(s, n)
    BY <1>4, SameWaits DEF Naming
  <2>3. Cardinality(Naming(s, n)) \in Nat /\ Cardinality(Wanting(s, n)) \in Nat
    BY <1>1, CountsType
  <2> QED
    BY <1>5, <2>1, <2>2, <2>3
<1>7. StoredFits(z) /\ PointsWhole(z)
  BY <1>4, ExactIs DEF StoredFits, PointsWhole
<1>8. WaitsOnce(z) /\ NamesFit(z) /\ HaveLanded(z, N)
  BY <1>4, ExactIs, SameWaits
<1>9. RoomFits(z, m)
  <2>1. z.stored <= s.stored + 0
    BY <1>1, <1>4, StoreFields
  <2>2. RoomFits(z, m - 0)
    BY <1>1, <1>4, <2>1, ExactIs, RoomLess
  <2> QED
    BY <2>2
<1>10. TasksFit(z, B, P)
  <2>1. TasksFit(s, B, P)
    BY ExactIs
  <2>2. Shrinks(s, z, QueuedPoints(s.tasks) \cup P)
    BY <1>4, WorkShrinks
  <2> QED
    BY <1>1, <1>2, <1>4, <2>1, <2>2, TasksShrink
<1>11. Exact(z, {}, N, B, P, m)
  BY <1>2, <1>6, <1>7, <1>8, <1>9, <1>10 DEF Exact, Books
<1>12. \A n \in Names \ D : z.refs[n] = s.refs[n]
  BY <1>5
<1> QED
  BY <1>4, <1>11, <1>12 DEF z

LEMMA DropExact ==
    ASSUME NEW s, NEW D, NEW N, NEW B, NEW P, NEW m \in Int, NEW S, Exact(s, D, N, B, P, m),
           \A k \in s.points : Blocks(k) \cap S = {}
    PROVE  LET z == DropBlocks(s, S) IN
           /\ Exact(z, D, N, B, P, m) /\ SameWork(s, z) /\ z.have = s.have \ S /\ z.points = s.points
           /\ z.refs = s.refs /\ z.queued = s.queued /\ z.stored <= s.stored
<1> DEFINE gone == S \cap s.have
           z == DropBlocks(s, S)
<1>1. s \in Store /\ z \in Store /\ gone \in SUBSET s.have /\ s.have \in SUBSET Names
  BY ExactIs, DropBlocksType, StoreFields DEF Keeps
<1>2. CASE gone = {}
  <2>1. z = s /\ s.have = s.have \ S
    BY <1>2 DEF DropBlocks
  <2>2. s.stored <= s.stored
    BY <1>1, StoreFields
  <2> QED
    BY <1>1, <2>1, <2>2 DEF SameWork
<1>3. CASE gone # {}
  <2>1. z = [s EXCEPT !.have = @ \ gone, !.stored = @ - Cardinality(gone),
                      !.tasks = Append(@, [kind |-> "unlink", keys |-> {}, names |-> gone])]
    BY <1>3 DEF DropBlocks
  <2>2. /\ SameWork(s, z) /\ z.have = s.have \ gone /\ z.points = s.points /\ z.refs = s.refs
        /\ z.queued = s.queued /\ z.stored = s.stored - Cardinality(gone)
        /\ z.tasks = Append(s.tasks, [kind |-> "unlink", keys |-> {}, names |-> gone])
    <3> HIDE DEF gone, z
    <3> QED
      BY <1>1, <2>1 DEF Store, SameWork
  <2>3. z.have = s.have \ S
    BY <2>2
  <2>4. Cardinality(gone) \in Nat /\ Cardinality(s.have) \in Nat /\ IsFiniteSet(s.have)
    BY <1>1, SubsetCardinality
  <2>5. Cardinality(z.have) = Cardinality(s.have) - Cardinality(gone)
    <3>1. s.have \cap gone = gone /\ IsFiniteSet(s.have)
      BY <1>1, <2>4
    <3>2. Cardinality(s.have \ gone) = Cardinality(s.have) - Cardinality(s.have \cap gone)
      BY <3>1, FS_Difference
    <3> QED
      BY <2>2, <3>1, <3>2
  <2> HIDE DEF gone, z
  <2>6. RefsAre(z, D)
    <3>1. \A n : Naming(z, n) = Naming(s, n) /\ Wanting(z, n) = Wanting(s, n)
      BY <2>2, SameWaits DEF Naming
    <3> QED
      BY <2>2, <3>1, ExactIs DEF RefsAre
  <2>7. StoredFits(z)
    <3>1. s.stored = Cardinality(s.have) + FileBytes * Cardinality(s.points)
      BY ExactIs DEF StoredFits
    <3>2. FileBytes * Cardinality(s.points) \in Int
      BY <1>1, StoreFields, SubsetCardinality, ConstantsAssumption
    <3> QED
      BY <2>2, <2>4, <2>5, <3>1, <3>2 DEF StoredFits
  <2>8. PointsWhole(z)
    BY <2>2, <2>3, ExactIs DEF PointsWhole
  <2>9. WaitsOnce(z) /\ NamesFit(z) /\ HaveLanded(z, N)
    BY <2>2, ExactIs, SameWaits
  <2>10. z.stored <= s.stored
    BY <1>1, <2>2, <2>4, StoreFields
  <2>11. RoomFits(z, m)
    <3>1. z.stored <= s.stored + 0
      BY <1>1, <2>2, <2>4, StoreFields
    <3>2. RoomFits(z, m - 0)
      BY <1>1, <2>2, <3>1, ExactIs, RoomLess
    <3> QED
      BY <3>2
  <2>12. TasksFit(z, B, P)
    <3>1. Shrinks(s, z, QueuedPoints(s.tasks) \cup P)
      BY <2>2, WorkShrinks
    <3>2. {} \in SUBSET s.points /\ {} \cap z.points = {} /\ gone \cap z.have = {}
      BY <2>2
    <3>3. TasksFit(s, B, P)
      BY ExactIs
    <3> QED
      BY <1>1, <2>2, <3>1, <3>2, <3>3, TasksUnlink
  <2>13. Exact(z, D, N, B, P, m)
    BY <1>1, <2>6, <2>7, <2>8, <2>9, <2>11, <2>12 DEF Exact, Books
  <2>14. /\ Exact(z, D, N, B, P, m) /\ SameWork(s, z) /\ z.have = s.have \ S /\ z.points = s.points
         /\ z.refs = s.refs /\ z.queued = s.queued /\ z.stored <= s.stored
    BY <2>2, <2>3, <2>10, <2>13
  <2> QED
    BY <2>14 DEF z
<1> QED
  BY <1>2, <1>3

LEMMA GcExact ==
    ASSUME NEW s, NEW D, NEW B, NEW P, NEW m \in Int, NEW S, Exact(s, D, {}, B, P, m),
           \A n \in s.have \ S : s.refs[n] > 0
    PROVE  LET z == Gc(s, S) IN
           /\ Exact(z, D, {}, B, P, m) /\ Referenced(z) /\ SameWork(s, z)
           /\ z.have \subseteq s.have /\ z.points = s.points
           /\ z.queued = s.queued /\ z.stored <= s.stored
<1> DEFINE U == Unreferenced(s, S)
           z == DropBlocks(s, U)
<1>1. s \in Store /\ s.refs \in [Names -> Nat] /\ s.have \in SUBSET Names
  BY ExactIs, StoreFields
<1>2. \A n \in U : n \in Names /\ s.refs[n] = 0
  BY <1>1 DEF Unreferenced
<1>3. \A k \in s.points : Blocks(k) \cap U = {}
  <2> SUFFICES ASSUME NEW k \in s.points, NEW n \in U, n \in Blocks(k) PROVE FALSE
    OBVIOUS
  <2>1. k \in Naming(s, n)
    BY DEF Naming
  <2>2. s.refs[n] = Cardinality(Naming(s, n)) + Cardinality(Wanting(s, n)) + (IF n \in D THEN 1 ELSE 0)
    BY <1>2, ExactIs DEF RefsAre
  <2>3. Cardinality(Naming(s, n)) = 0
    BY <1>1, <1>2, <2>2, CountsType
  <2> QED
    BY <1>1, <2>1, <2>3, CountsType, FS_EmptySet
<1> HIDE DEF U
<1>4. /\ Exact(z, D, {}, B, P, m) /\ SameWork(s, z) /\ z.have = s.have \ U /\ z.points = s.points
      /\ z.refs = s.refs /\ z.queued = s.queued /\ z.stored <= s.stored
  BY <1>3, DropExact
<1> HIDE DEF z
<1>5. Referenced(z)
  <2> SUFFICES ASSUME NEW n \in z.have PROVE s.refs[n] > 0
    BY <1>4 DEF Referenced
  <2>1. n \in s.have /\ n \notin U
    BY <1>4
  <2>2. s.inflight[n] = NoJob
    BY <2>1, ExactIs DEF HaveLanded
  <2>3. CASE n \in S
    <3>1. s.refs[n] # 0 /\ s.refs[n] \in Nat
      BY <1>1, <2>1, <2>2, <2>3 DEF U, Unreferenced
    <3> QED
      BY <3>1
  <2> QED
    BY <2>1, <2>3
<1> QED
  BY <1>4, <1>5 DEF z, U, Gc

Namers(S, n) == {k \in S : n \in Blocks(k)}

\* Points V leave the index: their references go, their files are queued.
LEMMA RemovedRefs ==
    ASSUME NEW s \in Store, NEW D, NEW S \in SUBSET s.points, NEW n \in Names, RefsAre(s, D)
    PROVE  LET c == Cardinality(Namers(S, n))
               left == Cardinality(Naming(s, n) \ S)
               w == Cardinality(Wanting(s, n)) IN
           /\ c \in Nat /\ left \in Nat /\ w \in Nat /\ s.refs[n] \in Nat
           /\ s.refs[n] = left + c + w + (IF n \in D THEN 1 ELSE 0)
           /\ (\A k \in S : n \notin Blocks(k)) => c = 0
<1> DEFINE C == Namers(S, n)
           A == Naming(s, n)
           w == Cardinality(Wanting(s, n))
<1>1. A \cap S = C /\ C \in SUBSET Keys /\ A \in SUBSET Keys /\ A \ S \in SUBSET Keys
  BY StoreFields, CountsType DEF Naming, Namers
<1>2. IsFiniteSet(A) /\ w \in Nat /\ s.refs[n] \in Nat
  BY CountsType, StoreFields
<1>3. s.refs[n] = Cardinality(A) + w + (IF n \in D THEN 1 ELSE 0)
  BY DEF RefsAre
<1>4. (\A k \in S : n \notin Blocks(k)) => C = {}
  BY DEF Namers
<1> HIDE DEF A, C, w
<1>5. Cardinality(C) \in Nat /\ Cardinality(A) \in Nat /\ Cardinality(A \ S) \in Nat
  BY <1>1, SubsetCardinality
<1>6. Cardinality(A \ S) = Cardinality(A) - Cardinality(A \cap S)
  BY <1>2, FS_Difference
<1>7. s.refs[n] = Cardinality(A \ S) + Cardinality(C) + w + (IF n \in D THEN 1 ELSE 0)
  <2>1. Cardinality(A \ S) = Cardinality(A) - Cardinality(C)
    BY <1>1, <1>6
  <2>2. Cardinality(A) = Cardinality(A \ S) + Cardinality(C)
    BY <1>5, <2>1
  <2> QED
    BY <1>2, <1>3, <1>5, <2>2
<1>8. (\A k \in S : n \notin Blocks(k)) => Cardinality(C) = 0
  BY <1>4, FS_EmptySet
<1> QED
  BY <1>2, <1>5, <1>7, <1>8 DEF A, C, w

\* z is s without the points of S, before their blocks are looked at.
Removed(s, z, S) ==
    /\ SameWork(s, z) /\ z.points = s.points \ S /\ z.have = s.have /\ z.queued = s.queued
    /\ z.stored = s.stored - FileBytes * Cardinality(S)
    /\ z.tasks = Append(s.tasks, [kind |-> "unlink", keys |-> S, names |-> {}])
    /\ \A n \in Names : LET c == Cardinality(Namers(S, n)) IN
                        z.refs[n] = IF c < s.refs[n] THEN s.refs[n] - c ELSE 0

LEMMA RemovedExact ==
    ASSUME NEW s, NEW z, NEW D, NEW B, NEW P, NEW m \in Int, NEW S \in SUBSET s.points,
           Exact(s, D, {}, B, P, m), Removed(s, z, S)
    PROVE  /\ Exact(z, D, {}, B, P, m) /\ z.stored <= s.stored
           /\ \A n \in Names : (\A k \in S : n \notin Blocks(k)) => z.refs[n] = s.refs[n]
<1>1. s \in Store /\ z \in Store /\ S \in SUBSET Keys /\ s.points \in SUBSET Keys
  BY ExactIs, StoreFields DEF Removed, SameWork
<1>2. \A n \in Names : LET c == Cardinality(Namers(S, n))
                           left == Cardinality(Naming(s, n) \ S)
                           w == Cardinality(Wanting(s, n)) IN
          /\ c \in Nat /\ left \in Nat /\ w \in Nat /\ s.refs[n] \in Nat
          /\ s.refs[n] = left + c + w + (IF n \in D THEN 1 ELSE 0)
          /\ (\A k \in S : n \notin Blocks(k)) => c = 0
  <2>1. RefsAre(s, D)
    BY ExactIs
  <2> TAKE n \in Names
  <2> QED
    BY <1>1, <2>1, RemovedRefs
<1>3. RefsAre(z, D) /\ \A n \in Names : (\A k \in S : n \notin Blocks(k)) => z.refs[n] = s.refs[n]
  <2> SUFFICES ASSUME NEW n \in Names
               PROVE  /\ z.refs[n] = Cardinality(Naming(z, n)) + Cardinality(Wanting(z, n)) + (IF n \in D THEN 1 ELSE 0)
                      /\ (\A k \in S : n \notin Blocks(k)) => z.refs[n] = s.refs[n]
    BY DEF RefsAre
  <2> DEFINE c == Cardinality(Namers(S, n))
             left == Cardinality(Naming(s, n) \ S)
             w == Cardinality(Wanting(s, n))
  <2>1. /\ c \in Nat /\ left \in Nat /\ w \in Nat /\ s.refs[n] \in Nat
        /\ s.refs[n] = left + c + w + (IF n \in D THEN 1 ELSE 0)
        /\ (\A k \in S : n \notin Blocks(k)) => c = 0
    BY <1>2
  <2>2. Naming(z, n) = Naming(s, n) \ S /\ Wanting(z, n) = Wanting(s, n)
    BY SameWaits DEF Removed, Naming
  <2>3. Cardinality(Naming(z, n)) = left /\ Cardinality(Wanting(z, n)) = w
    BY <2>2
  <2>4. z.refs[n] = IF c < s.refs[n] THEN s.refs[n] - c ELSE 0
    BY DEF Removed
  <2> DEFINE e == IF n \in D THEN 1 ELSE 0
             had == s.refs[n]
             has == z.refs[n]
  <2>7. e \in Nat /\ had \in Nat /\ had = left + c + w + e
    BY <2>1
  <2>8. has = IF c < had THEN had - c ELSE 0
    BY <2>4
  <2>9. c \in Nat /\ left \in Nat /\ w \in Nat
    BY <2>1
  <2> HIDE DEF c, left, w, e, had, has
  <2>10. has = left + w + e /\ (c = 0 => has = had)
    BY <2>7, <2>8, <2>9
  <2>5. z.refs[n] = left + w + (IF n \in D THEN 1 ELSE 0)
    BY <2>10 DEF has, e
  <2>6. (\A k \in S : n \notin Blocks(k)) => z.refs[n] = s.refs[n]
    BY <2>1, <2>10 DEF has, had
  <2> QED
    BY <2>3, <2>5, <2>6
<1>4. /\ Cardinality(S) \in Nat /\ Cardinality(s.points) \in Nat /\ Cardinality(s.have) \in Nat
      /\ Cardinality(s.points \ S) = Cardinality(s.points) - Cardinality(S)
  <2>1. IsFiniteSet(s.points) /\ s.points \cap S = S
    BY <1>1, SubsetCardinality
  <2>2. Cardinality(s.points \ S) = Cardinality(s.points) - Cardinality(s.points \cap S)
    BY <2>1, FS_Difference
  <2> QED
    BY <1>1, <2>1, <2>2, SubsetCardinality, StoreFields
<1>5. FileBytes * Cardinality(S) \in Nat
  BY <1>4, ConstantsAssumption
<1>6. StoredFits(z)
  <2>1. s.stored = Cardinality(s.have) + FileBytes * Cardinality(s.points)
    BY ExactIs DEF StoredFits
  <2>2. z.have = s.have /\ z.points = s.points \ S /\ z.stored = s.stored - FileBytes * Cardinality(S)
    BY DEF Removed
  <2> DEFINE a == Cardinality(s.points)
             b == Cardinality(S)
  <2>3. FileBytes * (a - b) = FileBytes * a - FileBytes * b /\ FileBytes * a \in Int /\ FileBytes * b \in Int
    <3>1. a \in Int /\ b \in Int /\ FileBytes \in Int
      BY <1>4, ConstantsAssumption
    <3> HIDE DEF a, b
    <3> QED
      BY <3>1
  <2>4. z.stored = Cardinality(s.have) + FileBytes * (a - b)
    BY <1>4, <2>1, <2>2, <2>3
  <2> QED
    BY <1>4, <2>2, <2>4 DEF StoredFits
<1>7. z.stored <= s.stored + 0 /\ z.stored <= s.stored
  <2>1. s.stored \in Int /\ z.stored = s.stored - FileBytes * Cardinality(S)
    BY <1>1, StoreFields DEF Removed
  <2> QED
    BY <1>5, <2>1
<1>8. RoomFits(z, m)
  <2>1. RoomFits(s, m) /\ SameWork(s, z) /\ z.queued = s.queued
    BY ExactIs DEF Removed
  <2>2. RoomFits(z, m - 0)
    BY <1>1, <1>7, <2>1, RoomLess
  <2> QED
    BY <2>2
<1>9. PointsWhole(z)
  BY ExactIs DEF Removed, PointsWhole
<1>10. WaitsOnce(z) /\ NamesFit(z) /\ HaveLanded(z, {})
  BY ExactIs, SameWaits DEF Removed
<1>11. TasksFit(z, B, P)
  <2>1. SameWork(s, z) /\ z.have \subseteq s.have /\ z.points \subseteq s.points
    BY DEF Removed
  <2>2. Shrinks(s, z, QueuedPoints(s.tasks) \cup P)
    BY <2>1, WorkShrinks
  <2>3. S \cap z.points = {} /\ {} \in SUBSET s.have /\ {} \cap z.have = {}
    BY DEF Removed
  <2>4. z.tasks = Append(s.tasks, [kind |-> "unlink", keys |-> S, names |-> {}]) /\ TasksFit(s, B, P)
    BY ExactIs DEF Removed
  <2> QED
    BY <1>1, <2>2, <2>3, <2>4, TasksUnlink
<1> QED
  BY <1>1, <1>3, <1>6, <1>7, <1>8, <1>9, <1>10, <1>11 DEF Exact, Books

LEMMA RemoveExact ==
    ASSUME NEW s, NEW D, NEW B, NEW P, NEW m \in Int, NEW V, Exact(s, D, {}, B, P, m), Referenced(s)
    PROVE  LET z == RemovePoints(s, V) IN
           /\ Exact(z, D, {}, B, P, m) /\ Referenced(z) /\ SameWork(s, z)
           /\ z.have \subseteq s.have /\ z.points = s.points \ V
           /\ z.queued = s.queued /\ z.stored <= s.stored
<1> DEFINE gone == V \cap s.points
           named(n) == Cardinality({k \in gone : n \in Blocks(k)})
           refs == [n \in Names |-> IF named(n) < s.refs[n] THEN s.refs[n] - named(n) ELSE 0]
           u == [kind |-> "unlink", keys |-> gone, names |-> {}]
           s1 == [s EXCEPT !.points = @ \ gone, !.shared = @ \ gone, !.refs = refs,
                           !.stored = @ - FileBytes * Cardinality(gone),
                           !.tasks = Append(@, u)]
           S == UNION {Blocks(k) : k \in gone}
           z == RemovePoints(s, V)
<1>1. s \in Store /\ s.points \in SUBSET Keys /\ gone \in SUBSET s.points /\ gone \in SUBSET Keys
      /\ s.stored \in Int /\ s.refs \in [Names -> Nat] /\ s.have \in SUBSET Names
  BY ExactIs, StoreFields
<1>2. z = IF gone = {} THEN s ELSE Gc(s1, S)
  BY DEF RemovePoints
<1>3. CASE gone = {}
  <2>1. z = s /\ s.points = s.points \ V
    BY <1>2, <1>3
  <2>2. s.stored <= s.stored
    BY <1>1
  <2> QED
    BY <1>1, <2>1, <2>2 DEF SameWork
<1>4. CASE gone # {}
  <2>1. u \in Task /\ Append(s.tasks, u) \in Seq(Task)
    BY <1>1, UnlinkType, AppendType
  <2>2. \A n \in Names : named(n) \in Nat
    BY <1>1, SubsetCardinality
  <2>3. refs \in [Names -> Nat] /\ \A n \in Names : refs[n] = IF named(n) < s.refs[n] THEN s.refs[n] - named(n) ELSE 0
    BY <1>1, <2>2
  <2>4. s.stored - FileBytes * Cardinality(gone) \in Int
    <3>1. Cardinality(gone) \in Nat /\ FileBytes \in Nat
      BY <1>1, SubsetCardinality, ConstantsAssumption
    <3> HIDE DEF gone
    <3> QED
      BY <1>1, <3>1
  <2> HIDE DEF gone, refs, u
  <2>5. /\ s1 \in Store /\ s1.points = s.points \ gone /\ s1.have = s.have /\ s1.queued = s.queued
        /\ s1.stored = s.stored - FileBytes * Cardinality(gone) /\ s1.tasks = Append(s.tasks, u)
        /\ s1.jobs = s.jobs /\ s1.inflight = s.inflight /\ s1.refs = refs
    BY <1>1, <2>1, <2>3, <2>4 DEF Store
  <2> HIDE DEF s1
  <2>6. Removed(s, s1, gone)
    BY <2>3, <2>5 DEF Removed, SameWork, u, Namers
  <2>7. /\ Exact(s1, D, {}, B, P, m) /\ s1.stored <= s.stored
        /\ \A n \in Names : (\A k \in gone : n \notin Blocks(k)) => s1.refs[n] = s.refs[n]
    BY <1>1, <2>6, RemovedExact
  <2>8. \A n \in s1.have \ S : s1.refs[n] > 0
    BY <1>1, <2>5, <2>7 DEF Referenced
  <2> HIDE DEF S
  <2>9. z = Gc(s1, S)
    BY <1>2, <1>4
  <2> HIDE DEF z
  <2>10. /\ Exact(z, D, {}, B, P, m) /\ Referenced(z) /\ SameWork(s1, z)
         /\ z.have \subseteq s1.have /\ z.points = s1.points
         /\ z.queued = s1.queued /\ z.stored <= s1.stored
    BY <2>7, <2>8, <2>9, GcExact
  <2>11. SameWork(s, z)
    BY <2>5, <2>10 DEF SameWork
  <2>12. z.points = s.points \ V
    BY <2>5, <2>10 DEF gone
  <2>13. z.stored <= s.stored
    <3>1. s1.stored \in Int /\ z.stored \in Int
      BY <2>5, <2>11, StoreFields DEF SameWork
    <3> QED
      BY <1>1, <2>7, <2>10, <3>1
  <2>14. /\ Exact(z, D, {}, B, P, m) /\ Referenced(z) /\ SameWork(s, z)
         /\ z.have \subseteq s.have /\ z.points = s.points \ V
         /\ z.queued = s.queued /\ z.stored <= s.stored
    BY <2>5, <2>10, <2>11, <2>12, <2>13
  <2> QED
    BY <2>14 DEF z
<1> QED
  BY <1>3, <1>4

-----------------------------------------------------------------------------
(* A step that leaves the index alone *)

LEMMA MoveExact ==
    ASSUME NEW s, NEW z, NEW D, NEW N, NEW B, NEW P \in SUBSET Jobs, NEW m \in Int,
           Exact(s, D, N, B, P, m), SameIndex(s, z),
           \A j \in Jobs : Lesser(s.jobs[j], z.jobs[j]),
           \A n \in Names : z.inflight[n] = s.inflight[n] \/ z.inflight[n] = NoJob
    PROVE  /\ Books(z, D, m) /\ HaveLanded(z, N) /\ s \in Store /\ z \in Store /\ TasksFit(s, B, P)
           /\ Shrinks(s, z, QueuedPoints(s.tasks) \cup P)
           /\ z.tasks = s.tasks => Exact(z, D, N, B, P, m)
<1>1. s \in Store /\ Books(s, D, m) /\ HaveLanded(s, N) /\ TasksFit(s, B, P) /\ z \in Store
  BY ExactIs DEF SameIndex
<1>2. Books(z, D, m)
  BY <1>1, LesserBooks
<1>3. HaveLanded(z, N)
  <2>1. s.have \in SUBSET Names /\ z.have = s.have
    BY <1>1, StoreFields DEF SameIndex
  <2> QED
    BY <1>1, <2>1 DEF HaveLanded
<1>4. QueuedPoints(s.tasks) \cup P \subseteq Jobs
  BY <1>1, StoreFields, InQueue
<1>5. \A j \in Jobs : z.jobs[j].key = s.jobs[j].key
  BY DEF Lesser
<1>6. Shrinks(s, z, QueuedPoints(s.tasks) \cup P)
  BY <1>4, <1>5 DEF Shrinks, SameIndex
<1>7. ASSUME z.tasks = s.tasks PROVE TasksFit(z, B, P)
  BY <1>1, <1>6, <1>7, TasksShrink
<1> QED
  BY <1>1, <1>2, <1>3, <1>6, <1>7 DEF Exact

\* Such a step that queues a task.
LEMMA QueuesExact ==
    ASSUME NEW s, NEW z, NEW D, NEW N, NEW B, NEW P \in SUBSET Jobs, NEW m \in Int, NEW t \in Task,
           Exact(s, D, N, B, P, m), SameIndex(s, z),
           \A j \in Jobs : Lesser(s.jobs[j], z.jobs[j]),
           \A n \in Names : z.inflight[n] = s.inflight[n] \/ z.inflight[n] = NoJob,
           z.tasks = Append(s.tasks, t), BringsNew(z, t), t.kind # "unlink"
    PROVE  Exact(z, D, N, B, P, m)
<1>1. /\ Books(z, D, m) /\ HaveLanded(z, N) /\ s \in Store /\ z \in Store /\ TasksFit(s, B, P)
      /\ Shrinks(s, z, QueuedPoints(s.tasks) \cup P)
  BY MoveExact
<1>2. Appended(s.tasks, z.tasks, t)
  BY <1>1, StoreFields, AppendIs
<1>3. TasksFit(z, B, P)
  BY <1>1, <1>2, TasksQueue
<1> QED
  BY <1>1, <1>3 DEF Exact

LEMMA SelfLesser ==
    ASSUME NEW s, NamesFit(s), NEW j \in Jobs
    PROVE  Lesser(s.jobs[j], s.jobs[j])
BY DEF NamesFit, Lesser

-----------------------------------------------------------------------------
(* A write leaves *)

\* EndJob before it gives its references back.
Leave(s, j, published) ==
    LET k == s.jobs[j].key
        s1 == GiveSlot(s, s.jobs[j].tailSlot)
    IN [s1 EXCEPT
          !.inflight = [n \in Names |-> IF @[n] = j THEN NoJob ELSE @[n]],
          !.queued = @ - s.jobs[j].size,
          !.shared = IF published THEN @ ELSE @ \ {k},
          !.jobs[j] = [NoWrite EXCEPT !.state = "ended"]]

Gone == [NoWrite EXCEPT !.state = "ended"]

Left(s, z, j) ==
    /\ z \in Store /\ z.points = s.points /\ z.have = s.have /\ z.refs = s.refs
    /\ z.stored = s.stored /\ z.tasks = s.tasks /\ z.queued = s.queued - s.jobs[j].size
    /\ OnlyJob(s, z, j) /\ z.jobs[j] = Gone /\ EndedRecord(Gone) /\ Gone.size = 0
    /\ \A n \in Names : z.inflight[n] = s.inflight[n] \/ z.inflight[n] = NoJob

LEMMA LeaveIs ==
    ASSUME NEW s \in Store, NEW j \in Jobs, NEW b \in BOOLEAN
    PROVE  Left(s, Leave(s, j, b), j)
<1> DEFINE k == s.jobs[j].key
           s1 == GiveSlot(s, s.jobs[j].tailSlot)
           inflight == [n \in Names |-> IF s1.inflight[n] = j THEN NoJob ELSE s1.inflight[n]]
           queued == s1.queued - s.jobs[j].size
           shared == IF b THEN s1.shared ELSE s1.shared \ {k}
           r == [NoWrite EXCEPT !.state = "ended"]
           jobs == [s1.jobs EXCEPT ![j] = r]
           z == [s1 EXCEPT !.inflight = inflight, !.queued = queued,
                           !.shared = shared, !.jobs = jobs]
<1>1. s.jobs[j] \in Job
  BY StoreFields
<1>2. /\ s1 \in Store /\ s1.inflight = s.inflight /\ s1.jobs = s.jobs /\ s1.tasks = s.tasks
      /\ s1.points = s.points /\ s1.have = s.have /\ s1.refs = s.refs
      /\ s1.stored = s.stored /\ s1.queued = s.queued
  <2>1. s1 \in Store
    BY <1>1, JobFields, GiveSlotType DEF Keeps
  <2> DEFINE free == s.free \cup ({s.jobs[j].tailSlot} \ {NoSlot})
  <2>2. s1 = [s EXCEPT !.free = free]
    BY DEF GiveSlot
  <2> HIDE DEF s1, free
  <2> QED
    BY <2>1, <2>2 DEF Store
<1> HIDE DEF s1
<1>3. r \in Job /\ EndedRecord(r) /\ r.size = 0
  BY ConstantsAssumption DEF NoWrite, Job, LiveStates, EndedRecord
<1>4. inflight \in [Names -> Jobs \cup {NoJob}] /\ shared \in SUBSET Keys
  BY <1>2, StoreFields
<1>5. queued \in Int
  BY <1>1, <1>2, StoreFields, JobFields
<1>6. jobs \in [Jobs -> Job] /\ jobs[j] = r /\ \A i \in Jobs \ {j} : jobs[i] = s.jobs[i]
  BY <1>2, <1>3, StoreFields
<1>7. \A n \in Names : inflight[n] = s.inflight[n] \/ inflight[n] = NoJob
  BY <1>2
<1>8. Leave(s, j, b) = z
  BY DEF Leave, s1
<1>9. /\ z \in Store /\ z.jobs = jobs /\ z.inflight = inflight /\ z.tasks = s.tasks
      /\ z.points = s.points /\ z.have = s.have /\ z.refs = s.refs
      /\ z.stored = s.stored /\ z.queued = s.queued - s.jobs[j].size
  <2>1. queued = s.queued - s.jobs[j].size
    BY <1>2
  <2> HIDE DEF inflight, queued, shared, jobs
  <2> QED
    BY <1>2, <1>4, <1>5, <1>6, <2>1 DEF Store
<1> HIDE DEF z, jobs, inflight, r
<1> QED
  BY <1>3, <1>6, <1>7, <1>8, <1>9 DEF Left, OnlyJob, Gone, r

\* Its references are still there, what it may add is free for others.
LEMMA LeftBooks ==
    ASSUME NEW s \in Store, NEW z, NEW j \in Live(s), NEW m \in Int, Books(s, {}, m), Left(s, z, j)
    PROVE  Books(z, Blocks(s.jobs[j].key), m + Reserve(s.jobs[j]))
<1> DEFINE k == s.jobs[j].key
           r == s.jobs[j]
<1>1. j \in Jobs /\ r \in Job /\ r.state \in LiveStates /\ r.size \in Nat /\ Reserve(r) \in Nat
  BY StoreFields, JobFields, WritesCount DEF Live
<1>2. /\ z \in Store /\ z.points = s.points /\ z.have = s.have /\ z.refs = s.refs
      /\ z.stored = s.stored /\ z.queued = s.queued - r.size
      /\ \A i \in Jobs \ {j} : z.jobs[i] = s.jobs[i]
      /\ z.jobs[j].state = "ended" /\ z.jobs[j].left = {} /\ z.jobs[j].out = {}
      /\ z.jobs[j].tailSlot = NoSlot /\ ~z.jobs[j].parked /\ z.jobs[j].size = 0
  <2>1. /\ z \in Store /\ z.points = s.points /\ z.have = s.have /\ z.refs = s.refs
        /\ z.stored = s.stored /\ z.queued = s.queued - r.size
        /\ \A i \in Jobs \ {j} : z.jobs[i] = s.jobs[i]
        /\ z.jobs[j] = Gone /\ EndedRecord(Gone) /\ Gone.size = 0
    BY DEF Left, OnlyJob
  <2> QED
    BY <2>1 DEF EndedRecord
<1>3. RefsAre(s, {}) /\ StoredFits(s) /\ PointsWhole(s) /\ WaitsOnce(s) /\ NamesFit(s) /\ RoomFits(s, m)
  BY DEF Books
<1> HIDE DEF r, k
<1>4. Live(z) = Live(s) \ {j}
  BY <1>1, <1>2 DEF Live, LiveStates
<1>5. RefsAre(z, Blocks(k))
  <2> SUFFICES ASSUME NEW n \in Names
               PROVE  z.refs[n] = Cardinality(Naming(z, n)) + Cardinality(Wanting(z, n)) + (IF n \in Blocks(k) THEN 1 ELSE 0)
    BY DEF RefsAre
  <2>1. s.refs[n] = Cardinality(Naming(s, n)) + Cardinality(Wanting(s, n)) + 0
    BY <1>3 DEF RefsAre
  <2>2. Naming(z, n) = Naming(s, n)
    BY <1>2 DEF Naming
  <2>3. /\ IsFiniteSet(Wanting(s, n)) /\ Cardinality(Wanting(s, n)) \in Nat /\ Cardinality(Naming(s, n)) \in Nat
    BY CountsType
  <2>4. Wanting(z, n) = Wanting(s, n) \ {j}
    <3>1. \A i \in Live(z) : i \in Jobs \ {j} /\ i \in Live(s)
      BY <1>4 DEF Live
    <3> QED
      BY <1>2, <1>4, <3>1 DEF Wanting, NamesOf
  <2>5. j \in Wanting(s, n) <=> n \in Blocks(k)
    BY DEF Wanting, NamesOf, k
  <2>6. CASE n \in Blocks(k)
    <3> DEFINE W == Wanting(s, n)
    <3>1. j \in W /\ IsFiniteSet(W)
      BY <2>3, <2>5, <2>6
    <3>2. Cardinality(W \ {j}) = Cardinality(W) - 1
      <4> HIDE DEF W
      <4> QED
        BY <3>1, FS_RemoveElement
    <3>3. Cardinality(Wanting(z, n)) = Cardinality(Wanting(s, n)) - 1
      BY <2>4, <3>2
    <3> QED
      BY <1>2, <2>1, <2>2, <2>3, <2>6, <3>3
  <2>7. CASE n \notin Blocks(k)
    <3>1. Wanting(z, n) = Wanting(s, n)
      BY <2>4, <2>5, <2>7
    <3> QED
      BY <1>2, <2>1, <2>2, <2>3, <2>7, <3>1
  <2> QED
    BY <2>6, <2>7
<1>6. StoredFits(z) /\ PointsWhole(z)
  BY <1>2, <1>3 DEF StoredFits, PointsWhole
<1>7. WaitsOnce(z)
  <2>1. \A i \in Live(z) : i \in Jobs \ {j} /\ i \in Live(s) /\ z.jobs[i] = s.jobs[i]
    BY <1>2, <1>4 DEF Live
  <2> QED
    BY <1>2, <1>3, <2>1 DEF WaitsOnce
<1>8. NamesFit(z)
  <2> SUFFICES ASSUME NEW i \in Jobs
               PROVE  /\ z.jobs[i].left \cup z.jobs[i].out \subseteq Blocks(z.jobs[i].key)
                      /\ z.jobs[i].parked => z.jobs[i].state \in LiveStates
    BY DEF NamesFit
  <2>1. CASE i = j
    BY <1>2, <2>1
  <2>2. CASE i # j
    BY <1>2, <1>3, <2>2 DEF NamesFit
  <2> QED
    BY <2>1, <2>2
<1>9. RoomFits(z, m + Reserve(r))
  <2>1. Writes(z.jobs[j]) = {} /\ Reserve(z.jobs[j]) = 0
    <3>1. Writes(z.jobs[j]) = {}
      BY <1>2 DEF Writes
    <3> QED
      BY <1>2, <3>1, FS_EmptySet DEF Reserve
  <2>2. \A i \in Jobs \ {j} : Sizes(z)[i] = Sizes(s)[i] /\ Reserves(z)[i] = Reserves(s)[i]
    BY <1>2 DEF Sizes, Reserves
  <2>3. /\ Sizes(s)[j] = r.size /\ Sizes(z)[j] = 0
        /\ Reserves(s)[j] = Reserve(r) /\ Reserves(z)[j] = 0
    BY <1>1, <1>2, <2>1 DEF Sizes, Reserves, r
  <2>4. /\ Sizes(s) \in [Jobs -> Nat] /\ Sizes(z) \in [Jobs -> Nat]
        /\ Reserves(s) \in [Jobs -> Nat] /\ Reserves(z) \in [Jobs -> Nat]
        /\ Total(Sizes(s)) \in Nat /\ Total(Sizes(z)) \in Nat
        /\ Total(Reserves(s)) \in Nat /\ Total(Reserves(z)) \in Nat
    BY <1>2, ReservesType
  <2>5. Total(Sizes(z)) + r.size = Total(Sizes(s)) + 0
    BY <1>1, <2>2, <2>3, <2>4, TotalPut
  <2>6. Total(Reserves(z)) + Reserve(r) = Total(Reserves(s)) + 0
    BY <1>1, <2>2, <2>3, <2>4, TotalPut
  <2>7. s.queued = Total(Sizes(s)) /\ s.stored + Total(Reserves(s)) + m <= CapBytes
    BY <1>3 DEF RoomFits
  <2>8. z.queued = Total(Sizes(z))
    BY <1>1, <1>2, <2>4, <2>5, <2>7
  <2>9. z.stored + Total(Reserves(z)) + (m + Reserve(r)) <= CapBytes
    <3>1. s.stored \in Int /\ CapBytes \in Nat
      BY StoreFields, ConstantsAssumption
    <3> QED
      BY <1>1, <1>2, <2>4, <2>6, <2>7, <3>1
  <2>10. \A i \in Jobs : /\ Reserve(z.jobs[i]) <= z.jobs[i].size
                         /\ z.jobs[i].state \notin LiveStates => z.jobs[i].size = 0
    <3> SUFFICES ASSUME NEW i \in Jobs
                 PROVE  /\ Reserve(z.jobs[i]) <= z.jobs[i].size
                        /\ z.jobs[i].state \notin LiveStates => z.jobs[i].size = 0
      OBVIOUS
    <3>1. CASE i = j
      BY <1>2, <2>1, <3>1
    <3>2. CASE i # j
      BY <1>2, <1>3, <3>2 DEF RoomFits
    <3> QED
      BY <3>1, <3>2
  <2> QED
    BY <2>8, <2>9, <2>10 DEF RoomFits
<1> QED
  BY <1>5, <1>6, <1>7, <1>8, <1>9 DEF Books, k, r

\* The room that is spoken for may be more than is needed.
LEMMA RoomSpare ==
    ASSUME NEW s \in Store, NEW D, NEW m \in Int, NEW l \in Int, Books(s, D, m), l <= m
    PROVE  Books(s, D, l)
<1>1. s.stored + Total(Reserves(s)) + m <= CapBytes
  BY DEF Books, RoomFits
<1>2. s.stored + Total(Reserves(s)) + l <= CapBytes
  <2>1. s.stored \in Int /\ Total(Reserves(s)) \in Nat /\ CapBytes \in Nat
    BY StoreFields, ReservesType, ConstantsAssumption
  <2> QED
    BY <1>1, <2>1
<1> QED
  BY <1>2 DEF Books, RoomFits

\* What the end of a write leaves of a store: the index, but for blocks nobody names.
Ends(s, z) == z.points = s.points /\ z.have \subseteq s.have

LEMMA LeaveParts ==
    ASSUME NEW s, NEW j, NEW b
    PROVE  LET k == s.jobs[j].key IN
           EndJob(s, j, b) = RecheckParked(Gc(Unref(Leave(s, j, b), Blocks(k)), Blocks(k)))
BY DEF EndJob, Leave

\* The references of a write that left go, then its blocks nobody names.
LEMMA LeftExact ==
    ASSUME NEW s, NEW B, NEW P \in SUBSET Jobs, NEW m \in Int, NEW k \in Keys,
           Exact(s, Blocks(k), {}, B, P, m), \A n \in s.have \ Blocks(k) : s.refs[n] > 0
    PROVE  LET z == RecheckParked(Gc(Unref(s, Blocks(k)), Blocks(k))) IN
           Exact(z, {}, {}, B, P, m) /\ Referenced(z) /\ Ends(s, z)
<1> DEFINE S == Blocks(k)
           u == Unref(s, S)
           g == Gc(u, S)
           z == RecheckParked(g)
<1>1. S \in SUBSET Names /\ s.have \in SUBSET Names
  BY NamesType, ExactIs, StoreFields
<1> HIDE DEF S
<1>2. /\ Exact(u, {}, {}, B, P, m) /\ u.have = s.have /\ u.points = s.points
      /\ \A n \in Names \ S : u.refs[n] = s.refs[n]
  <2>1. Exact(s, S, {}, B, P, m)
    BY DEF S
  <2> QED
    BY <1>1, <2>1, UnrefExact
<1>3. \A n \in u.have \ S : u.refs[n] > 0
  BY <1>1, <1>2 DEF S
<1> HIDE DEF u
<1>4. Exact(g, {}, {}, B, P, m) /\ Referenced(g) /\ g.have \subseteq u.have /\ g.points = u.points
  BY <1>2, <1>3, GcExact
<1> HIDE DEF g
<1>5. Exact(z, {}, {}, B, P, m) /\ SameIndex(g, z)
  BY <1>4, RecheckExact
<1> HIDE DEF z
<1>6. Referenced(z) /\ Ends(s, z)
  BY <1>2, <1>4, <1>5 DEF Referenced, SameIndex, Ends
<1> QED
  BY <1>5, <1>6 DEF z, g, u, S

LEMMA EndJobExact ==
    ASSUME NEW s, NEW B, NEW P \in SUBSET Jobs, NEW m \in Int, NEW j \in Live(s), NEW b \in BOOLEAN,
           Exact(s, {}, {}, B, P, m), Referenced(s), j \notin QueuedPoints(s.tasks) \cup P
    PROVE  LET z == EndJob(s, j, b) IN Exact(z, {}, {}, B, P, m) /\ Referenced(z) /\ Ends(s, z)
<1> DEFINE k == s.jobs[j].key
           y == Leave(s, j, b)
           z == EndJob(s, j, b)
<1>1. s \in Store /\ j \in Jobs /\ s.jobs[j] \in Job /\ k \in Keys /\ Reserve(s.jobs[j]) \in Nat
  BY ExactIs, StoreFields, JobFields, WritesCount DEF Live
<1>2. Left(s, y, j)
  BY <1>1, LeaveIs
<1>3. z = RecheckParked(Gc(Unref(y, Blocks(k)), Blocks(k)))
  BY LeaveParts
<1> HIDE DEF y, z
<1>4. y \in Store /\ y.tasks = s.tasks /\ y.points = s.points /\ y.have = s.have /\ y.refs = s.refs
  BY <1>2 DEF Left
<1>5. Books(y, Blocks(k), m)
  <2>1. Books(y, Blocks(k), m + Reserve(s.jobs[j]))
    BY <1>1, <1>2, ExactIs, LeftBooks
  <2>2. m <= m + Reserve(s.jobs[j]) /\ m + Reserve(s.jobs[j]) \in Int
    BY <1>1
  <2> HIDE DEF k
  <2> QED
    BY <1>4, <2>1, <2>2, RoomSpare
<1>6. HaveLanded(y, {})
  <2>1. HaveLanded(s, {}) /\ s.have \in SUBSET Names
    BY <1>1, ExactIs, StoreFields
  <2>2. \A n \in Names : y.inflight[n] = s.inflight[n] \/ y.inflight[n] = NoJob
    BY <1>2 DEF Left
  <2> QED
    BY <1>4, <2>1, <2>2 DEF HaveLanded
<1>7. TasksFit(y, B, P)
  <2>1. TasksFit(s, B, P) /\ QueuedPoints(s.tasks) \subseteq Jobs
    BY <1>1, ExactIs, StoreFields, InQueue
  <2>2. \A i \in QueuedPoints(s.tasks) \cup P : y.jobs[i].key = s.jobs[i].key
    BY <1>2, <2>1 DEF Left, OnlyJob
  <2>3. Shrinks(s, y, QueuedPoints(s.tasks) \cup P)
    BY <1>4, <2>2 DEF Shrinks
  <2> QED
    BY <1>1, <1>4, <2>1, <2>3, TasksShrink
<1>8. Exact(y, Blocks(k), {}, B, P, m)
  BY <1>4, <1>5, <1>6, <1>7 DEF Exact
<1>9. \A n \in y.have \ Blocks(k) : y.refs[n] > 0
  BY <1>4 DEF Referenced
<1> HIDE DEF k
<1>10. Exact(z, {}, {}, B, P, m) /\ Referenced(z) /\ Ends(y, z)
  BY <1>1, <1>3, <1>8, <1>9, LeftExact
<1>11. Ends(s, z)
  BY <1>4, <1>10 DEF Ends
<1> QED
  BY <1>10, <1>11 DEF z

-----------------------------------------------------------------------------
(* What the writer was at lands in the index *)

LEMMA TaskLands ==
    ASSUME NEW s, NEW z, NEW B, NEW P, NEW Q, NEW t, BringsNew(s, t), Deletes(s, t, B, P),
           z.have \subseteq s.have \cup B, z.points \subseteq s.points \cup KeysOf(s, P),
           \A i \in Q : z.jobs[i].key = s.jobs[i].key /\ z.jobs[i].key \notin z.points,
           t.kind = "point" => t.job \in Q, t.kind = "block" => t.name \notin z.have
    PROVE  BringsNew(z, t) /\ Deletes(z, t, {}, {}) /\ \A u : After(s, t, u) => After(z, t, u)
<1>1. BringsNew(z, t)
  BY DEF BringsNew
<1>2. KeysOf(z, {}) = {}
  BY DEF KeysOf
<1>3. Deletes(z, t, {}, {})
  BY <1>2 DEF Deletes
<1>4. \A u : After(s, t, u) => After(z, t, u)
  BY DEF After
<1> QED
  BY <1>1, <1>3, <1>4

LEMMA TasksLand ==
    ASSUME NEW s \in Store, NEW z \in Store, NEW B, NEW P, TasksFit(s, B, P), z.tasks = s.tasks,
           z.have \subseteq s.have \cup B, z.points \subseteq s.points \cup KeysOf(s, P),
           \A i \in QueuedPoints(s.tasks) : z.jobs[i].key = s.jobs[i].key /\ z.jobs[i].key \notin z.points,
           \A x \in QueuedCopies(s.tasks) : x.name \notin z.have
    PROVE  TasksFit(z, {}, {})
<1> DEFINE Q == QueuedPoints(s.tasks)
<1>1. /\ DOMAIN s.tasks = 1 .. Len(s.tasks)
      /\ \A a \in 1 .. Len(s.tasks) : /\ BringsNew(s, s.tasks[a]) /\ Deletes(s, s.tasks[a], B, P)
                                      /\ s.tasks[a].kind = "point" => s.tasks[a].job \in Q
      /\ \A a, b \in 1 .. Len(s.tasks) : a < b => After(s, s.tasks[a], s.tasks[b])
  BY QueueParts
<1>2. \A i \in Q : z.jobs[i].key = s.jobs[i].key /\ z.jobs[i].key \notin z.points
  OBVIOUS
<1>3. \A a \in 1 .. Len(s.tasks) : s.tasks[a].kind = "block" => s.tasks[a].name \notin z.have
  <2>1. s.tasks \in Seq(Task)
    BY StoreFields
  <2>2. \A a \in 1 .. Len(s.tasks) : s.tasks[a].kind = "block" => Part(s.tasks[a]) \in QueuedCopies(s.tasks)
    BY <2>1, InQueue
  <2>3. \A t : Part(t).name = t.name
    BY DEF Part
  <2> QED
    BY <2>2, <2>3
<1> HIDE DEF Q
<1>4. \A a \in 1 .. Len(s.tasks) :
          /\ BringsNew(z, s.tasks[a]) /\ Deletes(z, s.tasks[a], {}, {})
          /\ \A u : After(s, s.tasks[a], u) => After(z, s.tasks[a], u)
  <2> TAKE a \in 1 .. Len(s.tasks)
  <2> DEFINE v == s.tasks[a]
  <2>1. /\ BringsNew(s, v) /\ Deletes(s, v, B, P)
        /\ v.kind = "point" => v.job \in Q
    BY <1>1
  <2>2. v.kind = "block" => v.name \notin z.have
    BY <1>3
  <2> HIDE DEF v
  <2>3. BringsNew(z, v) /\ Deletes(z, v, {}, {}) /\ \A u : After(s, v, u) => After(z, v, u)
    BY <1>2, <2>1, <2>2, TaskLands
  <2> QED
    BY <2>3 DEF v
<1>5. QueueInOrder(z)
  BY <1>1, <1>4 DEF QueueInOrder
<1>6. KeysOf(z, {}) = {}
  BY DEF KeysOf
<1> QED
  BY <1>1, <1>4, <1>5, <1>6 DEF TasksFit

\* z is x with point k in the index.
Gains(x, z, k) ==
    /\ z \in Store /\ z.points = x.points \cup {k} /\ z.have = x.have /\ z.queued = x.queued
    /\ z.stored = x.stored + FileBytes /\ \A i \in Jobs : z.jobs[i] = x.jobs[i]
    /\ \A n \in Names : z.refs[n] = x.refs[n] + (IF n \in Blocks(k) THEN 1 ELSE 0)

LEMMA GainedBooks ==
    ASSUME NEW m \in Int, NEW x \in Store, NEW z, NEW D, NEW k \in Keys \ x.points, Books(x, D, m + FileBytes), Gains(x, z, k),
           Blocks(k) \subseteq x.have, \A i \in Live(x) : x.jobs[i].key # k
    PROVE  Books(z, D, m)
<1>1. /\ z \in Store /\ z.points = x.points \cup {k} /\ z.have = x.have /\ z.queued = x.queued
      /\ z.stored = x.stored + FileBytes /\ \A i \in Jobs : z.jobs[i] = x.jobs[i]
      /\ \A n \in Names : z.refs[n] = x.refs[n] + (IF n \in Blocks(k) THEN 1 ELSE 0)
  BY DEF Gains
<1>2. /\ RefsAre(x, D) /\ StoredFits(x) /\ PointsWhole(x) /\ WaitsOnce(x) /\ NamesFit(x)
      /\ RoomFits(x, m + FileBytes)
  BY DEF Books
<1>3. Live(z) = Live(x) /\ \A n : Wanting(z, n) = Wanting(x, n)
  BY <1>1, SameWanting
<1>4. RefsAre(z, D)
  <2> SUFFICES ASSUME NEW n \in Names
               PROVE  z.refs[n] = Cardinality(Naming(z, n)) + Cardinality(Wanting(z, n)) + (IF n \in D THEN 1 ELSE 0)
    BY DEF RefsAre
  <2> DEFINE A == Naming(x, n)
  <2>1. x.refs[n] = Cardinality(A) + Cardinality(Wanting(x, n)) + (IF n \in D THEN 1 ELSE 0)
    BY <1>2 DEF RefsAre
  <2>2. IsFiniteSet(A) /\ Cardinality(A) \in Nat /\ Cardinality(Wanting(x, n)) \in Nat /\ k \notin A
    BY CountsType DEF Naming
  <2>3. Naming(z, n) = IF n \in Blocks(k) THEN A \cup {k} ELSE A
    BY <1>1 DEF Naming
  <2> HIDE DEF A
  <2>4. Cardinality(A \cup {k}) = Cardinality(A) + 1
    BY <2>2, FS_AddElement
  <2>5. Cardinality(Naming(z, n)) = Cardinality(A) + (IF n \in Blocks(k) THEN 1 ELSE 0)
    BY <2>2, <2>3, <2>4
  <2>6. z.refs[n] = x.refs[n] + (IF n \in Blocks(k) THEN 1 ELSE 0) /\ Wanting(z, n) = Wanting(x, n)
    BY <1>1, <1>3
  <2> QED
    BY <2>1, <2>2, <2>5, <2>6
<1>5. StoredFits(z)
  <2> DEFINE a == Cardinality(x.points)
  <2>1. IsFiniteSet(x.points) /\ a \in Nat /\ Cardinality(x.have) \in Nat /\ FileBytes \in Nat
    BY StoreFields, SubsetCardinality, ConstantsAssumption
  <2>2. Cardinality(x.points \cup {k}) = a + 1
    BY <2>1, FS_AddElement
  <2>3. x.stored = Cardinality(x.have) + FileBytes * a
    BY <1>2 DEF StoredFits
  <2>4. FileBytes * (a + 1) = FileBytes * a + FileBytes /\ FileBytes * a \in Nat
    <3> HIDE DEF a
    <3> QED
      BY <2>1
  <2>5. z.stored = Cardinality(z.have) + FileBytes * (a + 1)
    BY <1>1, <2>1, <2>3, <2>4
  <2> QED
    BY <1>1, <2>2, <2>5 DEF StoredFits
<1>6. PointsWhole(z)
  BY <1>1, <1>2 DEF PointsWhole
<1>7. WaitsOnce(z)
  <2>1. \A i \in Live(x) : i \in Jobs
    BY DEF Live
  <2> QED
    BY <1>1, <1>2, <1>3, <2>1 DEF WaitsOnce
<1>8. NamesFit(z)
  BY <1>1, <1>2 DEF NamesFit
<1>9. RoomFits(z, m)
  <2>1. Sizes(z) = Sizes(x) /\ Reserves(z) = Reserves(x)
    BY <1>1 DEF Sizes, Reserves
  <2>2. x.queued = Total(Sizes(x)) /\ x.stored + Total(Reserves(x)) + (m + FileBytes) <= CapBytes
    BY <1>2 DEF RoomFits
  <2>3. x.stored \in Int /\ Total(Reserves(x)) \in Nat /\ CapBytes \in Nat /\ FileBytes \in Nat
    BY StoreFields, ReservesType, ConstantsAssumption
  <2> DEFINE c == Total(Reserves(x))
  <2>4. z.stored + c + m <= CapBytes
    <3> HIDE DEF c
    <3>1. x.stored + c + (m + FileBytes) <= CapBytes /\ c \in Nat
      BY <2>2, <2>3 DEF c
    <3> QED
      BY <1>1, <2>3, <3>1
  <2> QED
    BY <1>1, <1>2, <2>1, <2>2, <2>4 DEF RoomFits
<1> QED
  BY <1>4, <1>5, <1>6, <1>7, <1>8, <1>9 DEF Books

LEMMA PublishedExact ==
    ASSUME NEW m \in Int, NEW s, NEW j \in Live(s), Exact(s, {}, {}, {}, {j}, m), Referenced(s),
           s.jobs[j].state = "publishing", j \notin QueuedPoints(s.tasks),
           \A i \in QueuedPoints(s.tasks) : i \in Live(s),
           \A x \in QueuedCopies(s.tasks) : x.name \notin s.have,
           Blocks(s.jobs[j].key) \subseteq s.have
    PROVE  LET k == s.jobs[j].key
               p == [Ref(s, Blocks(k)) EXCEPT !.points = @ \cup {k}, !.stored = @ + FileBytes]
               z == EndJob(p, j, TRUE) IN
           /\ Exact(z, {}, {}, {}, {}, m) /\ Referenced(z)
           /\ z.points = s.points \cup {k} /\ z.have \subseteq s.have
<1> DEFINE k == s.jobs[j].key
           r == Ref(s, Blocks(k))
           p == [r EXCEPT !.points = @ \cup {k}, !.stored = @ + FileBytes]
           x == Leave(s, j, TRUE)
           y == Leave(p, j, TRUE)
           z == EndJob(p, j, TRUE)
<1>1. /\ s \in Store /\ j \in Jobs /\ s.jobs[j] \in Job /\ k \in Keys /\ Books(s, {}, m)
      /\ HaveLanded(s, {}) /\ TasksFit(s, {}, {j}) /\ WaitsOnce(s) /\ Reserve(s.jobs[j]) \in Nat
  BY ExactIs, StoreFields, JobFields, WritesCount DEF Live
<1>2. k \notin s.points /\ \A i \in Live(s) : s.jobs[i].key = k => i = j
  BY <1>1 DEF WaitsOnce
<1>3. /\ r \in Store /\ r.jobs = s.jobs /\ r.inflight = s.inflight /\ r.tasks = s.tasks /\ r.have = s.have
      /\ r.points = s.points /\ r.stored = s.stored /\ r.queued = s.queued
      /\ \A n \in Names : r.refs[n] = s.refs[n] + (IF n \in Blocks(k) THEN 1 ELSE 0)
  <2> DEFINE refs == [n \in Names |-> IF n \in Blocks(k) THEN s.refs[n] + 1 ELSE s.refs[n]]
  <2>1. r \in Store
    BY <1>1, RefType DEF Keeps
  <2>2. r = [s EXCEPT !.refs = refs]
    BY DEF Ref
  <2>3. \A n \in Names : refs[n] = s.refs[n] + (IF n \in Blocks(k) THEN 1 ELSE 0)
    BY <1>1, StoreFields
  <2> HIDE DEF refs, r, k
  <2>4. /\ r.jobs = s.jobs /\ r.inflight = s.inflight /\ r.tasks = s.tasks /\ r.have = s.have
        /\ r.points = s.points /\ r.stored = s.stored /\ r.queued = s.queued /\ r.refs = refs
    BY <1>1, <2>1, <2>2 DEF Store
  <2> QED
    BY <2>1, <2>3, <2>4
<1> HIDE DEF r, k
<1>4. /\ p \in Store /\ p.jobs = s.jobs /\ p.inflight = s.inflight /\ p.tasks = s.tasks /\ p.have = s.have
      /\ p.points = s.points \cup {k} /\ p.stored = s.stored + FileBytes /\ p.queued = s.queued
      /\ p.refs = r.refs
  <2>1. r.points \cup {k} \in SUBSET Keys /\ r.stored + FileBytes \in Int
    BY <1>1, <1>3, StoreFields, ConstantsAssumption
  <2> QED
    BY <1>3, <2>1 DEF Store
<1> HIDE DEF p
<1>5. Left(s, x, j) /\ Left(p, y, j)
  BY <1>1, <1>4, LeaveIs
<1> HIDE DEF x, y
<1>6. /\ x \in Store /\ x.points = s.points /\ x.have = s.have
      /\ \A i \in Jobs : i # j => x.jobs[i] = s.jobs[i]
      /\ x.jobs[j].state = "ended"
  BY <1>5 DEF Left, OnlyJob, EndedRecord
<1>7. Books(x, Blocks(k), m + FileBytes)
  <2>1. Books(x, Blocks(k), m + Reserve(s.jobs[j]))
    BY <1>1, <1>5, LeftBooks DEF k
  <2>2. Cardinality(Writes(s.jobs[j])) \in Nat /\ FileBytes \in Nat
    BY <1>1, WritesCount, ConstantsAssumption
  <2>3. m + FileBytes <= m + Reserve(s.jobs[j])
    BY <2>2 DEF Reserve
  <2>4. m + FileBytes \in Int /\ m + Reserve(s.jobs[j]) \in Int
    BY <1>1, <2>2
  <2> QED
    BY <1>6, <2>1, <2>3, <2>4, RoomSpare
<1>8. Gains(x, y, k)
  <2>1. /\ y \in Store /\ y.points = p.points /\ y.have = p.have /\ y.refs = p.refs /\ y.stored = p.stored
        /\ y.queued = p.queued - p.jobs[j].size /\ OnlyJob(p, y, j) /\ y.jobs[j] = Gone
    BY <1>5 DEF Left
  <2>2. /\ x.refs = s.refs /\ x.stored = s.stored /\ x.queued = s.queued - s.jobs[j].size
        /\ OnlyJob(s, x, j) /\ x.jobs[j] = Gone
    BY <1>5 DEF Left
  <2>3. \A i \in Jobs : y.jobs[i] = x.jobs[i]
    BY <1>4, <2>1, <2>2 DEF OnlyJob
  <2>4. \A n \in Names : y.refs[n] = x.refs[n] + (IF n \in Blocks(k) THEN 1 ELSE 0)
    BY <1>3, <1>4, <2>1, <2>2
  <2> QED
    BY <1>4, <1>6, <2>1, <2>2, <2>3, <2>4 DEF Gains
<1>9. Books(y, Blocks(k), m)
  <2>1. \A i \in Live(x) : x.jobs[i].key # k
    <3>1. \A i \in Live(x) : i \in Jobs /\ i # j
      BY <1>6 DEF Live, LiveStates
    <3>2. \A i \in Live(x) : i \in Live(s) /\ x.jobs[i] = s.jobs[i]
      BY <1>6, <3>1 DEF Live
    <3> QED
      BY <1>2, <3>1, <3>2
  <2>2. k \in Keys \ x.points /\ Blocks(k) \subseteq x.have
    BY <1>1, <1>2, <1>6 DEF k
  <2> QED
    BY <1>6, <1>7, <1>8, <2>1, <2>2, GainedBooks
<1>10. /\ y \in Store /\ y.tasks = s.tasks /\ y.points = s.points \cup {k} /\ y.have = s.have
       /\ \A i \in Jobs \ {j} : y.jobs[i] = s.jobs[i]
       /\ y.refs = r.refs
       /\ \A n \in Names : y.inflight[n] = s.inflight[n] \/ y.inflight[n] = NoJob
  BY <1>4, <1>5 DEF Left, OnlyJob
<1>11. HaveLanded(y, {})
  BY <1>1, <1>10, StoreFields DEF HaveLanded
<1>12. TasksFit(y, {}, {})
  <2>1. QueuedPoints(s.tasks) \subseteq Jobs
    BY <1>1, StoreFields, InQueue
  <2>2. \A i \in QueuedPoints(s.tasks) : y.jobs[i].key = s.jobs[i].key /\ y.jobs[i].key \notin y.points
    <3> TAKE i \in QueuedPoints(s.tasks)
    <3>1. i \in Jobs \ {j} /\ i \in Live(s)
      BY <2>1
    <3>2. s.jobs[i].key \notin s.points /\ s.jobs[i].key # k
      BY <1>1, <1>2, <3>1 DEF WaitsOnce
    <3> QED
      BY <1>10, <3>1, <3>2
  <2>3. y.points \subseteq s.points \cup KeysOf(s, {j})
    BY <1>10 DEF KeysOf, k
  <2>4. y.have \subseteq s.have \cup {} /\ \A c \in QueuedCopies(s.tasks) : c.name \notin y.have
    BY <1>10
  <2> QED
    BY <1>1, <1>10, <2>2, <2>3, <2>4, TasksLand
<1>13. Exact(y, Blocks(k), {}, {}, {}, m)
  BY <1>9, <1>10, <1>11, <1>12 DEF Exact
<1>14. \A n \in y.have \ Blocks(k) : y.refs[n] > 0
  <2>1. s.have \in SUBSET Names /\ s.refs \in [Names -> Nat]
    BY <1>1, StoreFields
  <2> QED
    BY <1>3, <1>10, <2>1 DEF Referenced
<1>15. z = RecheckParked(Gc(Unref(y, Blocks(k)), Blocks(k)))
  BY <1>4, LeaveParts DEF y, k
<1> HIDE DEF z
<1>16. Exact(z, {}, {}, {}, {}, m) /\ Referenced(z) /\ Ends(y, z)
  BY <1>1, <1>13, <1>14, <1>15, LeftExact
<1> QED
  BY <1>10, <1>16 DEF Ends, z, p, r, k

-----------------------------------------------------------------------------
(* One write's record changes *)

LEMMA RecordIndex ==
    ASSUME NEW s \in Store, NEW j \in Jobs, NEW r \in Job, NEW z, z = [s EXCEPT !.jobs[j] = r]
    PROVE  /\ SameIndex(s, z) /\ z.jobs[j] = r /\ OnlyJob(s, z, j)
           /\ z.inflight = s.inflight /\ z.tasks = s.tasks
<1>1. z \in Store
  BY JobUpdateType DEF Keeps
<1>2. /\ z.points = s.points /\ z.have = s.have /\ z.refs = s.refs
      /\ z.stored = s.stored /\ z.queued = s.queued
      /\ z.jobs = [s.jobs EXCEPT ![j] = r] /\ z.inflight = s.inflight /\ z.tasks = s.tasks
  BY DEF Store
<1>3. s.jobs \in [Jobs -> Job]
  BY StoreFields
<1> QED
  BY <1>1, <1>2, <1>3 DEF SameIndex, OnlyJob

LEMMA OnlyLesser ==
    ASSUME NEW s, NEW z, NEW j \in Jobs, NamesFit(s), OnlyJob(s, z, j), Lesser(s.jobs[j], z.jobs[j])
    PROVE  \A i \in Jobs : Lesser(s.jobs[i], z.jobs[i])
BY SelfLesser DEF OnlyJob

-----------------------------------------------------------------------------
(* A write is published or ends when nothing of it is left to do *)

LEMMA PublishExact ==
    ASSUME NEW s, NEW B, NEW P \in SUBSET Jobs, NEW m \in Int, NEW j \in Jobs,
           Exact(s, {}, {}, B, P, m), s.jobs[j].state = "open"
    PROVE  LET z == Queue([s EXCEPT !.jobs[j].state = "publishing"], [kind |-> "point", job |-> j]) IN
           Exact(z, {}, {}, B, P, m) /\ SameIndex(s, z)
<1> DEFINE a == s.jobs[j]
           r == [a EXCEPT !.state = "publishing"]
           t == [kind |-> "point", job |-> j]
           s1 == [s EXCEPT !.jobs[j].state = "publishing"]
           z == Queue(s1, t)
<1>1. s \in Store /\ a \in Job /\ NamesFit(s) /\ WaitsOnce(s) /\ j \in Live(s)
  BY ExactIs, StoreFields DEF Live, LiveStates
<1>2. /\ r \in Job /\ r.state = "publishing" /\ r.key = a.key /\ r.left = a.left
      /\ r.out = a.out /\ r.tailSlot = a.tailSlot /\ r.parked = a.parked /\ r.size = a.size
  <2> HIDE DEF a
  <2> QED
    BY <1>1 DEF Job, LiveStates
<1>3. s1 = [s EXCEPT !.jobs[j] = r]
  OBVIOUS
<1>4. t \in Task /\ t.kind = "point" /\ t.job = j
  BY PointTaskType
<1> HIDE DEF r, t, s1
<1>5. /\ SameIndex(s, s1) /\ s1.jobs[j] = r /\ OnlyJob(s, s1, j)
      /\ s1.inflight = s.inflight /\ s1.tasks = s.tasks
  BY <1>1, <1>2, <1>3, RecordIndex
<1>6. /\ z \in Store /\ z.points = s1.points /\ z.have = s1.have /\ z.refs = s1.refs
      /\ z.stored = s1.stored /\ z.queued = s1.queued /\ z.jobs = s1.jobs
      /\ z.inflight = s1.inflight /\ z.tasks = Append(s1.tasks, t)
  <2>1. z \in Store
    BY <1>4, <1>5, QueueType DEF Keeps, SameIndex
  <2> QED
    BY <1>5, <2>1 DEF Queue, Store, SameIndex
<1> HIDE DEF z
<1>7. SameIndex(s, z)
  BY <1>5, <1>6 DEF SameIndex
<1>8. Lesser(a, r)
  <2>1. Writes(r) = Writes(a)
    BY <1>2 DEF Writes
  <2>2. a.left \cup a.out \subseteq Blocks(a.key) /\ (a.parked => a.state \in LiveStates)
    BY <1>1 DEF NamesFit
  <2> QED
    BY <1>2, <2>1, <2>2 DEF Lesser, LiveStates, a
<1>9. \A i \in Jobs : Lesser(s.jobs[i], z.jobs[i])
  <2>1. OnlyJob(s, z, j) /\ Lesser(s.jobs[j], z.jobs[j])
    BY <1>5, <1>6, <1>8 DEF OnlyJob, a
  <2> QED
    BY <1>1, <2>1, OnlyLesser
<1>10. BringsNew(z, t)
  <2>1. s.jobs[j].key \notin s.points
    BY <1>1 DEF WaitsOnce
  <2> QED
    BY <1>2, <1>4, <1>5, <1>7, <1>6, <2>1 DEF BringsNew, SameIndex, a
<1>11. Exact(z, {}, {}, B, P, m)
  <2>1. \A n \in Names : z.inflight[n] = s.inflight[n] \/ z.inflight[n] = NoJob
    BY <1>5, <1>6
  <2>2. z.tasks = Append(s.tasks, t) /\ t.kind # "unlink"
    BY <1>4, <1>5, <1>6
  <2> QED
    BY <1>4, <1>7, <1>9, <1>10, <2>1, <2>2, QueuesExact
<1> QED
  BY <1>7, <1>11 DEF z, s1, t

LEMMA SettleExact ==
    ASSUME NEW s, NEW E, NEW B, NEW P, NEW m \in Int, NEW j \in Jobs,
           Exact(s, {}, {}, B, P, m), Referenced(s), Sound(s, E, P, {})
    PROVE  LET z == Settle(s, j) IN Exact(z, {}, {}, B, P, m) /\ Referenced(z) /\ Ends(s, z)
<1> DEFINE r == s.jobs[j]
           z == Settle(s, j)
<1>1. P \in SUBSET Jobs
  BY DEF Sound
<1>2. CASE r.state = "open" /\ r.left = {} /\ r.out = {} /\ r.capture = "ok" /\ r.tailSlot = NoSlot
  <2>1. z = Queue([s EXCEPT !.jobs[j].state = "publishing"], [kind |-> "point", job |-> j])
    BY <1>2 DEF Settle
  <2> HIDE DEF z
  <2>2. Exact(z, {}, {}, B, P, m) /\ SameIndex(s, z)
    BY <1>1, <1>2, <2>1, PublishExact
  <2>3. Referenced(z) /\ Ends(s, z)
    BY <2>2 DEF Referenced, SameIndex, Ends
  <2> QED
    BY <2>2, <2>3 DEF z
<1>3. CASE r.state \in {"failed", "cancelled"} /\ r.out = {} /\ r.capture # "pending"
  <2>1. z = EndJob(s, j, FALSE)
    BY <1>3 DEF Settle
  <2>2. j \notin QueuedPoints(s.tasks) \cup P
    BY <1>3 DEF Sound, QueueFits
  <2>3. j \in Live(s)
    BY <1>3 DEF Live, LiveStates
  <2> QED
    BY <1>1, <2>1, <2>2, <2>3, EndJobExact
<1>4. CASE /\ ~(r.state = "open" /\ r.left = {} /\ r.out = {} /\ r.capture = "ok" /\ r.tailSlot = NoSlot)
           /\ ~(r.state \in {"failed", "cancelled"} /\ r.out = {} /\ r.capture # "pending")
  <2>1. z = s
    BY <1>4 DEF Settle
  <2> QED
    BY <2>1 DEF Ends
<1> QED
  BY <1>2, <1>3, <1>4

-----------------------------------------------------------------------------
(* A block is given back, its name dropped *)

LEMMA GiveBackIs ==
    ASSUME NEW s \in Store, NEW j \in Jobs, NEW n \in Names, NEW w \in WriteSlots
    PROVE  LET z == GiveBack(s, j, n, w) IN
           /\ SameIndex(s, z) /\ OnlyJob(s, z, j) /\ z.inflight = s.inflight /\ z.tasks = s.tasks
           /\ z.jobs[j] \in Job /\ z.jobs[j].key = s.jobs[j].key /\ z.jobs[j].state = s.jobs[j].state
           /\ z.jobs[j].left = s.jobs[j].left /\ z.jobs[j].out = s.jobs[j].out \ {n}
           /\ z.jobs[j].tailSlot = s.jobs[j].tailSlot /\ z.jobs[j].parked = s.jobs[j].parked
           /\ z.jobs[j].size = s.jobs[j].size
<1> DEFINE a == s.jobs[j]
           out == a.out \ {n}
           r == [a EXCEPT !.out = out]
           s1 == GiveSlot(s, w)
           z == GiveBack(s, j, n, w)
<1>1. a \in Job /\ w # NoSlot
  BY StoreFields, ConstantsAssumption
<1>2. /\ SameIndex(s, s1) /\ s1.jobs = s.jobs /\ s1.inflight = s.inflight /\ s1.tasks = s.tasks
  <2>1. s1 \in Store
    BY GiveSlotType DEF Keeps
  <2>2. s1 = [s EXCEPT !.free = s.free \cup {w}]
    BY <1>1 DEF GiveSlot
  <2> HIDE DEF s1
  <2>3. /\ s1.jobs = s.jobs /\ s1.inflight = s.inflight /\ s1.tasks = s.tasks /\ s1.points = s.points
        /\ s1.have = s.have /\ s1.refs = s.refs /\ s1.stored = s.stored /\ s1.queued = s.queued
    BY <2>1, <2>2 DEF Store
  <2> QED
    BY <2>1, <2>3 DEF SameIndex
<1>3. /\ r \in Job /\ r.key = a.key /\ r.state = a.state /\ r.left = a.left
      /\ r.out = out /\ r.tailSlot = a.tailSlot /\ r.parked = a.parked /\ r.size = a.size
  <2>1. out \in SUBSET Names
    BY <1>1, JobFields
  <2> HIDE DEF a, out
  <2> QED
    BY <1>1, <2>1 DEF Job
<1>4. z = [s1 EXCEPT !.jobs[j] = r]
  <2>1. z = [s1 EXCEPT !.jobs[j].out = @ \ {n}]
    BY DEF GiveBack
  <2>2. s1.jobs[j] = a
    BY <1>2
  <2> HIDE DEF s1
  <2> QED
    BY <1>2, <2>1, <2>2
<1> HIDE DEF r, s1, z, out
<1>5. /\ SameIndex(s1, z) /\ z.jobs[j] = r /\ OnlyJob(s1, z, j)
      /\ z.inflight = s1.inflight /\ z.tasks = s1.tasks
  <2>1. s1 \in Store
    BY <1>2 DEF SameIndex
  <2>2. r \in Job
    BY <1>3
  <2>3. z = [s1 EXCEPT !.jobs[j] = r]
    BY <1>4
  <2> HIDE DEF a
  <2>4. SameIndex(s1, z)
    BY <2>1, <2>2, <2>3, RecordIndex
  <2>5. z.jobs[j] = r
    <3>1. z.jobs = [s1.jobs EXCEPT ![j] = r] /\ s1.jobs \in [Jobs -> Job]
      BY <2>1, <2>3 DEF Store
    <3> QED
      BY <3>1
  <2>6. OnlyJob(s1, z, j)
    BY <2>1, <2>2, <2>3, RecordIndex
  <2>7. z.inflight = s1.inflight /\ z.tasks = s1.tasks
    BY <2>1, <2>2, <2>3, RecordIndex
  <2> QED
    BY <2>4, <2>5, <2>6, <2>7
<1>6. SameIndex(s, z) /\ OnlyJob(s, z, j)
  BY <1>2, <1>5 DEF SameIndex, OnlyJob
<1> QED
  BY <1>2, <1>3, <1>5, <1>6 DEF z, out

\* Its unit of room is spoken for by the block alone.
LEMMA GiveBackExact ==
    ASSUME NEW s, NEW E, NEW B, NEW P, NEW m \in Int, NEW x \in E,
           Exact(s, {}, {}, B, P, m), Sound(s, E, P, {})
    PROVE  LET z == GiveBack(s, x.job, x.name, x.slot) IN
           Exact(z, {}, {}, B, P, m + 1) /\ SameIndex(s, z) /\ z.inflight = s.inflight /\ z.tasks = s.tasks
<1> DEFINE j == x.job
           n == x.name
           w == x.slot
           a == s.jobs[j]
           z == GiveBack(s, j, n, w)
           r == z.jobs[j]
<1>1. /\ s \in Store /\ j \in Jobs /\ n \in Names /\ w \in WriteSlots /\ n \in a.out /\ a \in Job
      /\ P \in SUBSET Jobs /\ NamesFit(s) /\ JobFits(a)
  <2>1. /\ s \in Store /\ j \in Jobs /\ n \in Names /\ w \in WriteSlots /\ n \in a.out
        /\ s.jobs \in [Jobs -> Job]
    BY SoundParts
  <2>2. P \in SUBSET Jobs /\ JobFits(a)
    BY <2>1 DEF Sound, JobsFit
  <2> QED
    BY <2>1, <2>2, ExactIs
<1>2. /\ SameIndex(s, z) /\ OnlyJob(s, z, j) /\ z.inflight = s.inflight /\ z.tasks = s.tasks
      /\ r \in Job /\ r.key = a.key /\ r.state = a.state /\ r.left = a.left /\ r.out = a.out \ {n}
      /\ r.tailSlot = a.tailSlot /\ r.parked = a.parked /\ r.size = a.size
  BY <1>1, GiveBackIs
<1> HIDE DEF j, n, w, a, z, r
<1>3. Writes(r) = Writes(a) \ {n} /\ n \in Writes(a)
  <2>1. n \notin a.left /\ (a.tailSlot # NoSlot => n \notin TailBlock(a.key))
    BY <1>1 DEF JobFits
  <2> QED
    BY <1>1, <1>2, <2>1 DEF Writes
<1>4. a.left \cup a.out \subseteq Blocks(a.key) /\ (a.parked => a.state \in LiveStates)
  BY <1>1 DEF NamesFit, a
<1>5. Lesser(a, r)
  BY <1>2, <1>3, <1>4 DEF Lesser
<1>6. \A i \in Jobs : Lesser(s.jobs[i], z.jobs[i])
  BY <1>1, <1>2, <1>5, OnlyLesser DEF a, r
<1>7. Exact(z, {}, {}, B, P, m) /\ z \in Store
  BY <1>1, <1>2, <1>6, MoveExact
<1>8. Reserve(a) = Reserve(r) + 1
  <2> DEFINE W == Writes(a)
  <2>1. IsFiniteSet(W) /\ Cardinality(W) \in Nat /\ n \in W /\ FileBytes \in Nat
    BY <1>1, <1>3, WritesCount, ConstantsAssumption
  <2> HIDE DEF W
  <2>2. Cardinality(W \ {n}) = Cardinality(W) - 1
    BY <2>1, FS_RemoveElement
  <2>3. Cardinality(Writes(r)) = Cardinality(Writes(a)) - 1
    BY <1>3, <2>2 DEF W
  <2> QED
    BY <1>2, <2>1, <2>3 DEF Reserve, W
<1>9. Total(Reserves(z)) + 1 = Total(Reserves(s))
  <2>1. /\ Reserves(s) \in [Jobs -> Nat] /\ Reserves(z) \in [Jobs -> Nat]
        /\ Reserves(s)[j] = Reserve(a) /\ Reserves(z)[j] = Reserve(r)
    BY <1>1, <1>7, ReservesType DEF a, r
  <2>2. \A i \in Jobs \ {j} : Reserves(z)[i] = Reserves(s)[i]
    BY <1>2 DEF Reserves, OnlyJob
  <2>3. /\ Total(Reserves(z)) + Reserve(a) = Total(Reserves(s)) + Reserve(r)
        /\ Total(Reserves(s)) \in Nat /\ Total(Reserves(z)) \in Nat
    BY <1>1, <2>1, <2>2, TotalPut
  <2>4. Reserve(r) \in Nat
    BY <1>2, WritesCount
  <2> QED
    BY <1>8, <2>3, <2>4
<1>10. RoomFits(z, m + 1)
  <2>1. RoomFits(z, m) /\ RoomFits(s, m)
    BY <1>7, ExactIs
  <2>2. s.stored + Total(Reserves(s)) + m <= CapBytes
    BY <2>1 DEF RoomFits
  <2>3. s.stored \in Int /\ z.stored = s.stored /\ Total(Reserves(z)) \in Nat /\ CapBytes \in Nat
    BY <1>1, <1>2, <1>7, StoreFields, ReservesType, ConstantsAssumption DEF SameIndex
  <2>4. z.stored + Total(Reserves(z)) + (m + 1) <= CapBytes
    BY <1>9, <2>2, <2>3
  <2> QED
    BY <2>1, <2>4 DEF RoomFits
<1>11. Exact(z, {}, {}, B, P, m + 1)
  BY <1>7, <1>10 DEF Exact, Books
<1> QED
  BY <1>2, <1>11 DEF z, j, n, w

LEMMA DropInflightExact ==
    ASSUME NEW s, NEW N, NEW B, NEW P \in SUBSET Jobs, NEW m \in Int, NEW j \in Jobs, NEW n \in Names,
           Exact(s, {}, N, B, P, m), Referenced(s), N = {} \/ (N = {n} /\ s.inflight[n] = j)
    PROVE  LET z == DropInflight(s, j, n) IN
           Exact(z, {}, {}, B, P, m) /\ Referenced(z) /\ Ends(s, z) /\ z.have = s.have
<1>1. CASE s.inflight[n] # j
  <2>1. DropInflight(s, j, n) = s /\ N = {}
    BY <1>1 DEF DropInflight
  <2> QED
    BY <2>1 DEF Ends
<1>2. CASE s.inflight[n] = j
  <2> DEFINE inflight == [s.inflight EXCEPT ![n] = NoJob]
             y == [s EXCEPT !.inflight = inflight]
             z == RecheckParked(y)
  <2>1. DropInflight(s, j, n) = z
    BY <1>2 DEF DropInflight
  <2>2. s \in Store /\ inflight \in [Names -> Jobs \cup {NoJob}] /\ s.inflight \in [Names -> Jobs \cup {NoJob}]
    BY ExactIs, StoreFields
  <2>3. /\ inflight[n] = NoJob
        /\ \A l \in Names : inflight[l] = s.inflight[l] \/ inflight[l] = NoJob
    BY <2>2
  <2>4. SameIndex(s, y) /\ y.jobs = s.jobs /\ y.tasks = s.tasks /\ y.inflight = inflight
    <3> HIDE DEF inflight
    <3> QED
      BY <2>2 DEF Store, SameIndex
  <2> HIDE DEF inflight, y
  <2>5. \A i \in Jobs : Lesser(s.jobs[i], y.jobs[i])
    BY <2>4, ExactIs, SelfLesser
  <2>6. Exact(y, {}, N, B, P, m)
    BY <2>3, <2>4, <2>5, MoveExact
  <2>7. Exact(y, {}, {}, B, P, m)
    <3>1. HaveLanded(y, N)
      BY <2>6, ExactIs
    <3>2. HaveLanded(y, {})
      BY <2>3, <2>4, <3>1 DEF HaveLanded
    <3> QED
      BY <2>6, <3>2 DEF Exact
  <2> HIDE DEF z
  <2>8. Exact(z, {}, {}, B, P, m) /\ SameIndex(y, z)
    BY <2>7, RecheckExact DEF z
  <2>9. Referenced(z) /\ Ends(s, z) /\ z.have = s.have
    BY <2>4, <2>8 DEF Referenced, SameIndex, Ends
  <2> QED
    BY <2>1, <2>8, <2>9
<1> QED
  BY <1>1, <1>2

-----------------------------------------------------------------------------
(* A block lands in the index *)

LEMMA LandExact ==
    ASSUME NEW m \in Int, NEW s, NEW n \in Names, Exact(s, {}, {}, {n}, {}, m + 1), Referenced(s), s.refs[n] > 0,
           \A x \in QueuedCopies(s.tasks) : x.name \notin s.have \cup {n},
           \A i \in QueuedPoints(s.tasks) : i \in Live(s)
    PROVE  LET z == AddBlock(s, n) IN
           /\ Exact(z, {}, {n}, {}, {}, m) /\ Referenced(z) /\ SameWork(s, z) /\ z.tasks = s.tasks
           /\ z.have = s.have \cup {n} /\ z.points = s.points
<1> DEFINE have == s.have \cup {n}
           stored == s.stored + 1
           z == AddBlock(s, n)
<1>1. s \in Store /\ n \notin s.have /\ TasksFit(s, {n}, {}) /\ WaitsOnce(s)
  BY ExactIs DEF TasksFit
<1>2. z = [s EXCEPT !.have = have, !.stored = stored]
  BY <1>1 DEF AddBlock
<1>3. z \in Store
  BY <1>1, AddBlockType DEF Keeps
<1>4. /\ SameWork(s, z) /\ z.tasks = s.tasks /\ z.have = s.have \cup {n} /\ z.points = s.points
      /\ z.refs = s.refs /\ z.queued = s.queued /\ z.stored = s.stored + 1
  <2> HIDE DEF z
  <2> QED
    BY <1>1, <1>2, <1>3 DEF Store, SameWork
<1> HIDE DEF z, have, stored
<1>5. RefsAre(z, {})
  <2>1. \A l : Naming(z, l) = Naming(s, l) /\ Wanting(z, l) = Wanting(s, l)
    BY <1>4, SameWaits DEF Naming
  <2> QED
    BY <1>4, <2>1, ExactIs DEF RefsAre
<1>6. StoredFits(z)
  <2>1. s.stored = Cardinality(s.have) + FileBytes * Cardinality(s.points)
    BY ExactIs DEF StoredFits
  <2>2. IsFiniteSet(s.have) /\ Cardinality(s.have) \in Nat /\ FileBytes * Cardinality(s.points) \in Int
    <3>1. IsFiniteSet(s.have) /\ Cardinality(s.have) \in Nat /\ Cardinality(s.points) \in Nat
      BY <1>1, StoreFields, SubsetCardinality
    <3>2. FileBytes * Cardinality(s.points) \in Int
      BY <3>1, ConstantsAssumption
    <3> QED
      BY <3>1, <3>2
  <2>3. Cardinality(s.have \cup {n}) = Cardinality(s.have) + 1
    BY <1>1, <2>2, FS_AddElement
  <2> QED
    BY <1>4, <2>1, <2>2, <2>3 DEF StoredFits
<1>7. PointsWhole(z)
  BY <1>4, ExactIs DEF PointsWhole
<1>8. WaitsOnce(z) /\ NamesFit(z)
  BY <1>4, ExactIs, SameWaits
<1>9. HaveLanded(z, {n})
  BY <1>4, ExactIs DEF HaveLanded, SameWork
<1>10. RoomFits(z, m)
  <2>1. z.stored <= s.stored + 1
    BY <1>1, <1>4, StoreFields
  <2> DEFINE l == m + 1
  <2>2. RoomFits(s, l) /\ l \in Int /\ l - 1 = m
    BY ExactIs
  <2> HIDE DEF l
  <2>3. RoomFits(z, l - 1)
    BY <1>1, <1>4, <2>1, <2>2, RoomLess
  <2> QED
    BY <2>2, <2>3
<1>11. TasksFit(z, {}, {})
  <2>1. z.have \subseteq s.have \cup {n} /\ z.points \subseteq s.points \cup KeysOf(s, {})
    BY <1>4
  <2>2. \A i \in QueuedPoints(s.tasks) : z.jobs[i].key = s.jobs[i].key /\ z.jobs[i].key \notin z.points
    BY <1>1, <1>4 DEF WaitsOnce, SameWork
  <2>3. \A x \in QueuedCopies(s.tasks) : x.name \notin z.have
    BY <1>4
  <2> QED
    BY <1>1, <1>3, <1>4, <2>1, <2>2, <2>3, TasksLand
<1>12. Referenced(z)
  BY <1>4 DEF Referenced
<1>13. Exact(z, {}, {n}, {}, {}, m)
  BY <1>3, <1>5, <1>6, <1>7, <1>8, <1>9, <1>10, <1>11 DEF Exact, Books
<1> QED
  BY <1>4, <1>12, <1>13 DEF z

-----------------------------------------------------------------------------
(* A write that will not publish hands its blocks over *)

TakenOf(s, j, h, i) == {n \in s.jobs[j].left : h[n] = i}

Handing(s, z, j, st, h) ==
    /\ z \in Store /\ z.points = s.points /\ z.have = s.have /\ z.refs = s.refs
    /\ z.stored = s.stored /\ z.tasks = s.tasks /\ z.shared = s.shared
    /\ z.queued = s.queued + Cardinality({n \in s.jobs[j].left : h[n] # NoJob})
    /\ \A i \in Jobs : /\ z.jobs[i].key = s.jobs[i].key /\ z.jobs[i].out = s.jobs[i].out
                       /\ z.jobs[i].tailSlot = s.jobs[i].tailSlot /\ z.jobs[i].parked = s.jobs[i].parked
                       /\ i # j => /\ z.jobs[i].state = s.jobs[i].state
                                   /\ z.jobs[i].left = s.jobs[i].left \cup TakenOf(s, j, h, i)
                                   /\ z.jobs[i].size = s.jobs[i].size + Cardinality(TakenOf(s, j, h, i))
    /\ z.jobs[j].state = st /\ z.jobs[j].left = {} /\ z.jobs[j].size = s.jobs[j].size
    /\ \A n \in Names \ s.jobs[j].left : z.inflight[n] = s.inflight[n]
    /\ \A n \in s.jobs[j].left :
          z.inflight[n] = IF h[n] # NoJob THEN h[n]
                          ELSE IF s.inflight[n] = j THEN NoJob ELSE s.inflight[n]

\* Only another open write takes a block, one that it names.
LEMMA TakersTake ==
    ASSUME NEW s, NEW j, NEW h \in HandOvers(s, j), NEW n \in s.jobs[j].left, h[n] # NoJob
    PROVE  /\ h[n] \in Jobs \ {j} /\ s.jobs[h[n]].state = "open" /\ n \in Blocks(s.jobs[h[n]].key)
BY DEF HandOvers, Takers, NamesOf

LEMMA HandingReserves ==
    ASSUME NEW s \in Store, NEW z, NEW j \in Jobs, NEW st \in {"failed", "cancelled"}, NEW h \in HandOvers(s, j),
           Handing(s, z, j, st, h), s.jobs[j].state = "open", JobFits(s.jobs[j])
    PROVE  /\ Reserve(s.jobs[j]) = Reserve(z.jobs[j]) + Cardinality(s.jobs[j].left) + FileBytes
           /\ \A i \in Jobs \ {j} :
                 Reserve(z.jobs[i]) <= Reserve(s.jobs[i]) + Cardinality(TakenOf(s, j, h, i))
<1> DEFINE a == s.jobs[j]
           b == z.jobs[j]
<1>1. z \in Store /\ a \in Job /\ b \in Job /\ \A i \in Jobs : s.jobs[i] \in Job /\ z.jobs[i] \in Job
  BY StoreFields DEF Handing
<1>2. Reserve(a) = Reserve(b) + Cardinality(a.left) + FileBytes
  <2>1. b.key = a.key /\ b.out = a.out /\ b.tailSlot = a.tailSlot /\ b.left = {} /\ b.state = st
    BY DEF Handing
  <2>2. a.left \cap a.out = {} /\ (a.tailSlot # NoSlot => a.left \cap TailBlock(a.key) = {})
    BY DEF JobFits
  <2>3. Writes(a) = a.left \cup Writes(b) /\ a.left \cap Writes(b) = {}
    BY <2>1, <2>2 DEF Writes
  <2>4. a.state = "open"
    OBVIOUS
  <2>5. a.left \in SUBSET Names
    BY <1>1, JobFields
  <2> HIDE DEF a, b
  <2>6. IsFiniteSet(a.left) /\ Cardinality(a.left) \in Nat
    BY <2>5, SubsetCardinality
  <2>7. IsFiniteSet(Writes(b)) /\ Cardinality(Writes(b)) \in Nat
    BY <1>1, WritesCount
  <2>8. Cardinality(a.left \cup Writes(b)) = Cardinality(a.left) + Cardinality(Writes(b))
    BY <2>3, <2>6, <2>7, FS_Union, FS_EmptySet
  <2>9. Reserve(a) = Cardinality(Writes(a)) + FileBytes /\ Reserve(b) = Cardinality(Writes(b)) + 0
    BY <2>1, <2>4 DEF Reserve
  <2> QED
    BY <2>3, <2>6, <2>7, <2>8, <2>9, ConstantsAssumption
<1>3. ASSUME NEW i \in Jobs \ {j}
      PROVE  Reserve(z.jobs[i]) <= Reserve(s.jobs[i]) + Cardinality(TakenOf(s, j, h, i))
  <2> DEFINE c == s.jobs[i]
             d == z.jobs[i]
             T == TakenOf(s, j, h, i)
  <2>1. d.key = c.key /\ d.out = c.out /\ d.tailSlot = c.tailSlot /\ d.state = c.state /\ d.left = c.left \cup T
    BY DEF Handing
  <2>2. Writes(d) = Writes(c) \cup T
    <3> HIDE DEF c, d, T
    <3> QED
      BY <2>1 DEF Writes
  <2>3. T \in SUBSET Names
    BY <1>1, JobFields DEF TakenOf
  <2>4. c \in Job
    BY <1>1
  <2> HIDE DEF c, d, T
  <2>5. IsFiniteSet(T) /\ Cardinality(T) \in Nat
    BY <2>3, SubsetCardinality
  <2>6. IsFiniteSet(Writes(c)) /\ Cardinality(Writes(c)) \in Nat
    BY <2>4, WritesCount
  <2>7. Cardinality(Writes(c) \cup T) = Cardinality(Writes(c)) + Cardinality(T) - Cardinality(Writes(c) \cap T)
    BY <2>5, <2>6, FS_Union
  <2>8. Cardinality(Writes(c) \cap T) \in Nat
    BY <2>6, FS_Intersection, FS_CardinalityType
  <2>9. Cardinality(Writes(d)) <= Cardinality(Writes(c)) + Cardinality(T)
    BY <2>2, <2>5, <2>6, <2>7, <2>8
  <2>10. Cardinality(Writes(d)) \in Nat
    BY <2>2, <2>5, <2>6, FS_Union, FS_CardinalityType
  <2> DEFINE f == IF c.state \in {"open", "publishing"} THEN FileBytes ELSE 0
  <2>11. f \in Nat /\ Reserve(c) = Cardinality(Writes(c)) + f /\ Reserve(d) = Cardinality(Writes(d)) + f
    BY <2>1, ConstantsAssumption DEF Reserve
  <2> HIDE DEF f
  <2>12. Reserve(d) <= Reserve(c) + Cardinality(T)
    BY <2>5, <2>6, <2>9, <2>10, <2>11
  <2> QED
    BY <2>12 DEF c, d, T
<1> QED
  BY <1>2, <1>3

LEMMA HandingRoom ==
    ASSUME NEW s \in Store, NEW z, NEW m \in Int, NEW j \in Jobs, NEW st \in {"failed", "cancelled"},
           NEW h \in HandOvers(s, j), Handing(s, z, j, st, h), s.jobs[j].state = "open",
           JobFits(s.jobs[j]), RoomFits(s, m)
    PROVE  RoomFits(z, m)
<1> DEFINE L == s.jobs[j].left
           g == Taken(h)
           ra == Reserve(s.jobs[j])
           rb == Reserve(z.jobs[j])
           H == {n \in L : h[n] # NoJob}
<1>1. z \in Store /\ \A i \in Jobs : s.jobs[i] \in Job /\ z.jobs[i] \in Job
  BY StoreFields DEF Handing
<1>2. L \in SUBSET Names /\ h \in [L -> Jobs \cup {NoJob}]
  BY <1>1, JobFields, HandOversType
<1>3. \A i \in Jobs : g[i] = Cardinality(TakenOf(s, j, h, i))
  <2> TAKE i \in Jobs
  <2>1. {n \in DOMAIN h : h[n] = i} = TakenOf(s, j, h, i)
    BY <1>2 DEF TakenOf
  <2> QED
    BY <2>1 DEF Taken
<1>4. g \in [Jobs -> Nat] /\ Total(g) = Cardinality(H)
  BY <1>2, TotalTaken
<1>5. \A i \in Jobs : i = j \/ s.jobs[i].state # "open" => g[i] = 0
  <2> SUFFICES ASSUME NEW i \in Jobs, i = j \/ s.jobs[i].state # "open" PROVE g[i] = 0
    OBVIOUS
  <2>1. NoJob \notin Jobs
    BY ConstantsAssumption
  <2>2. TakenOf(s, j, h, i) = {}
    BY <2>1, TakersTake DEF TakenOf
  <2> QED
    BY <1>3, <2>2, FS_EmptySet
<1> HIDE DEF g
<1>6. /\ ra = rb + Cardinality(L) + FileBytes
      /\ \A i \in Jobs \ {j} : Reserve(z.jobs[i]) <= Reserve(s.jobs[i]) + g[i]
  BY <1>3, HandingReserves
<1>7. /\ ra \in Nat /\ rb \in Nat /\ Cardinality(L) \in Nat /\ Cardinality(H) \in Nat /\ Cardinality(H) <= Cardinality(L)
  <2>1. IsFiniteSet(L) /\ H \subseteq L
    BY <1>2, SubsetCardinality
  <2>2. Cardinality(H) <= Cardinality(L) /\ IsFiniteSet(H)
    <3> HIDE DEF L, H
    <3> QED
      BY <2>1, FS_Subset
  <2> QED
    BY <1>1, <2>1, <2>2, WritesCount, FS_CardinalityType
<1>8. /\ Sizes(s) \in [Jobs -> Nat] /\ Sizes(z) \in [Jobs -> Nat]
      /\ Reserves(s) \in [Jobs -> Nat] /\ Reserves(z) \in [Jobs -> Nat]
      /\ Total(Sizes(s)) \in Nat /\ Total(Sizes(z)) \in Nat
      /\ Total(Reserves(s)) \in Nat /\ Total(Reserves(z)) \in Nat
      /\ \A i \in Jobs : Sizes(s)[i] = s.jobs[i].size /\ Reserves(s)[i] = Reserve(s.jobs[i])
      /\ \A i \in Jobs : Sizes(z)[i] = z.jobs[i].size /\ Reserves(z)[i] = Reserve(z.jobs[i])
  BY <1>1, ReservesType
<1>9. /\ s.queued = Total(Sizes(s)) /\ s.stored + Total(Reserves(s)) + m <= CapBytes
      /\ \A i \in Jobs : /\ Reserve(s.jobs[i]) <= s.jobs[i].size
                         /\ s.jobs[i].state \notin LiveStates => s.jobs[i].size = 0
  BY DEF RoomFits
<1>10. \A i \in Jobs : /\ s.jobs[i].size \in Nat /\ g[i] \in Nat
                       /\ Reserve(s.jobs[i]) \in Nat /\ Reserve(z.jobs[i]) \in Nat
  BY <1>1, <1>4, JobFields, WritesCount
<1>11. \A i \in Jobs : z.jobs[i].size = s.jobs[i].size + g[i]
  <2> TAKE i \in Jobs
  <2>1. CASE i = j
    BY <1>5, <1>10, <2>1 DEF Handing
  <2>2. CASE i # j
    BY <1>3, <2>2 DEF Handing
  <2> QED
    BY <2>1, <2>2
<1>12. Total(Sizes(z)) = Total(Sizes(s)) + Total(g)
  <2>1. \A i \in Jobs : Sizes(z)[i] = Sizes(s)[i] + g[i]
    BY <1>8, <1>11
  <2>2. g \in [Jobs -> Nat] /\ Sizes(s) \in [Jobs -> Nat] /\ Sizes(z) \in [Jobs -> Nat]
    BY <1>4, <1>8
  <2> QED
    BY <2>1, <2>2, TotalAdd
<1>13. z.queued = Total(Sizes(z))
  <2>1. z.queued = s.queued + Cardinality(H)
    BY DEF Handing
  <2> QED
    BY <1>4, <1>9, <1>12, <2>1
<1> HIDE DEF H, L
<1>14. Total(Reserves(z)) <= Total(Reserves(s))
  <2> DEFINE f == [Reserves(s) EXCEPT ![j] = rb]
             fg == [i \in Jobs |-> f[i] + g[i]]
  <2>1. f \in [Jobs -> Nat] /\ f[j] = rb /\ \A i \in Jobs \ {j} : f[i] = Reserves(s)[i]
    BY <1>7, <1>8
  <2>2. Total(f) + ra = Total(Reserves(s)) + rb /\ Total(f) \in Nat
    <3>1. f \in [Jobs -> Nat] /\ Reserves(s) \in [Jobs -> Nat] /\ Reserves(s)[j] = ra
      BY <1>8, <2>1
    <3> HIDE DEF f, ra, rb
    <3>2. Total(f) + Reserves(s)[j] = Total(Reserves(s)) + f[j] /\ Total(f) \in Nat
      BY <2>1, <3>1, TotalPut
    <3> QED
      BY <2>1, <3>1, <3>2
  <2> HIDE DEF f
  <2>3. fg \in [Jobs -> Nat] /\ \A i \in Jobs : fg[i] = f[i] + g[i]
    BY <1>4, <2>1
  <2> HIDE DEF fg
  <2>4. Total(fg) = Total(f) + Total(g)
    BY <1>4, <2>1, <2>3, TotalAdd
  <2>5. \A i \in Jobs : Reserves(z)[i] <= fg[i]
    <3> TAKE i \in Jobs
    <3>1. CASE i = j
      BY <1>5, <1>7, <1>8, <2>1, <2>3, <3>1
    <3>2. CASE i # j
      BY <1>6, <1>8, <2>1, <2>3, <3>2
    <3> QED
      BY <3>1, <3>2
  <2>6. Total(Reserves(z)) <= Total(fg)
    BY <1>8, <2>3, <2>5, TotalMono
  <2>7. FileBytes \in Nat
    BY ConstantsAssumption
  <2> HIDE DEF ra, rb
  <2> QED
    BY <1>4, <1>6, <1>7, <1>8, <2>2, <2>4, <2>6, <2>7
<1>15. \A i \in Jobs : /\ Reserve(z.jobs[i]) <= z.jobs[i].size
                       /\ z.jobs[i].state \notin LiveStates => z.jobs[i].size = 0
  <2> TAKE i \in Jobs
  <2>1. CASE i = j
    <3>1. rb <= ra
      BY <1>6, <1>7, ConstantsAssumption
    <3>2. ra <= s.jobs[j].size /\ z.jobs[j].size = s.jobs[j].size /\ z.jobs[j].state \in LiveStates
      BY <1>9 DEF Handing, LiveStates
    <3> QED
      BY <1>7, <1>10, <2>1, <3>1, <3>2
  <2>2. CASE i # j
    <3>1. Reserve(z.jobs[i]) <= Reserve(s.jobs[i]) + g[i] /\ Reserve(s.jobs[i]) <= s.jobs[i].size
      BY <1>6, <1>9, <2>2
    <3>2. Reserve(z.jobs[i]) <= z.jobs[i].size
      BY <1>10, <1>11, <3>1
    <3>3. ASSUME z.jobs[i].state \notin LiveStates PROVE z.jobs[i].size = 0
      <4>1. z.jobs[i].state = s.jobs[i].state
        BY <2>2 DEF Handing
      <4>2. s.jobs[i].state # "open" /\ s.jobs[i].size = 0
        BY <1>9, <3>3, <4>1 DEF LiveStates
      <4> QED
        BY <1>5, <1>11, <4>2
    <3> QED
      BY <3>2, <3>3
  <2> QED
    BY <2>1, <2>2
<1>16. z.stored + Total(Reserves(z)) + m <= CapBytes
  <2>1. z.stored = s.stored /\ s.stored \in Int /\ CapBytes \in Nat
    BY StoreFields, ConstantsAssumption DEF Handing
  <2> QED
    BY <1>8, <1>9, <1>14, <2>1
<1> QED
  BY <1>13, <1>15, <1>16 DEF RoomFits

LEMMA HandingExact ==
    ASSUME NEW s, NEW z, NEW E, NEW B, NEW P, NEW X, NEW m \in Int, NEW j \in Jobs,
           NEW st \in {"failed", "cancelled"}, NEW h \in HandOvers(s, j), Handing(s, z, j, st, h),
           s.jobs[j].state = "open", Exact(s, {}, {}, B, P, m), Sound(s, E, P, X)
    PROVE  Exact(z, {}, {}, B, P, m) /\ z.have = s.have /\ z.points = s.points /\ z.refs = s.refs
<1>1. /\ s \in Store /\ z \in Store /\ z.points = s.points /\ z.have = s.have /\ z.refs = s.refs
      /\ z.stored = s.stored /\ z.tasks = s.tasks
      /\ \A i \in Jobs : z.jobs[i].key = s.jobs[i].key /\ z.jobs[i].out = s.jobs[i].out
                         /\ z.jobs[i].parked = s.jobs[i].parked
      /\ \A i \in Jobs : i # j => /\ z.jobs[i].state = s.jobs[i].state
                                  /\ z.jobs[i].left = s.jobs[i].left \cup TakenOf(s, j, h, i)
      /\ z.jobs[j].state = st /\ z.jobs[j].left = {}
      /\ \A n \in Names \ s.jobs[j].left : z.inflight[n] = s.inflight[n]
  BY ExactIs DEF Handing
<1>2. /\ RefsAre(s, {}) /\ StoredFits(s) /\ PointsWhole(s) /\ WaitsOnce(s) /\ NamesFit(s)
      /\ RoomFits(s, m) /\ HaveLanded(s, {}) /\ TasksFit(s, B, P)
  BY ExactIs
<1>3. \A i \in Jobs : z.jobs[i].state \in LiveStates <=> s.jobs[i].state \in LiveStates
  BY <1>1 DEF LiveStates
<1>4. Live(z) = Live(s) /\ \A n : Wanting(z, n) = Wanting(s, n)
  BY <1>1, <1>3, SameWanting
<1>5. RefsAre(z, {})
  <2>1. \A n : Naming(z, n) = Naming(s, n)
    BY <1>1 DEF Naming
  <2> QED
    BY <1>1, <1>2, <1>4, <2>1 DEF RefsAre
<1>6. StoredFits(z) /\ PointsWhole(z)
  BY <1>1, <1>2 DEF StoredFits, PointsWhole
<1>7. WaitsOnce(z)
  <2>1. \A i \in Live(s) : i \in Jobs
    BY DEF Live
  <2> QED
    BY <1>1, <1>2, <1>4, <2>1 DEF WaitsOnce
<1>8. NamesFit(z)
  <2> SUFFICES ASSUME NEW i \in Jobs
               PROVE  /\ z.jobs[i].left \cup z.jobs[i].out \subseteq Blocks(z.jobs[i].key)
                      /\ z.jobs[i].parked => z.jobs[i].state \in LiveStates
    BY DEF NamesFit
  <2>1. s.jobs[i].left \cup s.jobs[i].out \subseteq Blocks(s.jobs[i].key)
        /\ (s.jobs[i].parked => s.jobs[i].state \in LiveStates)
    BY <1>2 DEF NamesFit
  <2>2. NoJob \notin Jobs
    BY ConstantsAssumption
  <2>3. TakenOf(s, j, h, i) \subseteq Blocks(s.jobs[i].key)
    BY <2>2, TakersTake DEF TakenOf
  <2>4. z.jobs[i].left \subseteq s.jobs[i].left \cup TakenOf(s, j, h, i)
    BY <1>1
  <2> QED
    BY <1>1, <1>3, <2>1, <2>3, <2>4
<1>9. RoomFits(z, m)
  <2>1. JobFits(s.jobs[j])
    BY DEF Sound, JobsFit
  <2> QED
    BY <1>1, <1>2, <2>1, HandingRoom
<1>10. HaveLanded(z, {})
  <2> SUFFICES ASSUME NEW n \in s.have PROVE z.inflight[n] = NoJob
    BY <1>1 DEF HaveLanded
  <2>1. n \in Names /\ s.inflight[n] = NoJob
    BY <1>1, <1>2, StoreFields DEF HaveLanded
  <2>2. n \notin s.jobs[j].left
    <3>1. \A l \in s.jobs[j].left : s.inflight[l] = j
      BY DEF Sound, Flights, Writes
    <3> QED
      BY <2>1, <3>1, ConstantsAssumption
  <2> QED
    BY <1>1, <2>1, <2>2
<1>11. TasksFit(z, B, P)
  <2>1. QueuedPoints(s.tasks) \cup P \subseteq Jobs
    BY SoundParts
  <2>2. Shrinks(s, z, QueuedPoints(s.tasks) \cup P)
    BY <1>1, <2>1 DEF Shrinks
  <2> QED
    BY <1>1, <1>2, <2>2, TasksShrink
<1>12. Exact(z, {}, {}, B, P, m)
  BY <1>1, <1>5, <1>6, <1>7, <1>8, <1>9, <1>10, <1>11 DEF Exact, Books
<1> QED
  BY <1>1, <1>12

LEMMA ReleaseIs ==
    ASSUME NEW s \in Store, NEW j \in Jobs, NEW st \in {"failed", "cancelled"}, NEW h \in HandOvers(s, j)
    PROVE  \E y : /\ Handing(s, y, j, st, h)
                  /\ Release([s EXCEPT !.jobs[j].state = st], j, h) = RecheckParked(y)
<1> DEFINE r == [s.jobs[j] EXCEPT !.state = st]
           s0 == [s EXCEPT !.jobs[j].state = st]
           taken(i) == {n \in DOMAIN h : h[n] = i}
           left(i) == IF i = j THEN {} ELSE s0.jobs[i].left \cup taken(i)
           size(i) == s0.jobs[i].size + (IF i = j THEN 0 ELSE Cardinality(taken(i)))
           rec(i) == [s0.jobs[i] EXCEPT !.left = left(i), !.size = size(i)]
           jobs == [i \in Jobs |-> rec(i)]
           inflight == [n \in Names |->
                          IF n \notin DOMAIN h THEN s0.inflight[n]
                          ELSE IF h[n] # NoJob THEN h[n]
                          ELSE IF s0.inflight[n] = j THEN NoJob ELSE s0.inflight[n]]
           queued == s0.queued + HandedBytes(h)
           y == [s0 EXCEPT !.jobs = jobs, !.inflight = inflight, !.queued = queued]
<1>1. s.jobs[j] \in Job
  BY StoreFields
<1>2. /\ r \in Job /\ r.state = st /\ r.key = s.jobs[j].key /\ r.left = s.jobs[j].left
      /\ r.out = s.jobs[j].out /\ r.tailSlot = s.jobs[j].tailSlot
      /\ r.parked = s.jobs[j].parked /\ r.size = s.jobs[j].size
  BY <1>1 DEF Job, LiveStates
<1>3. /\ s0 \in Store /\ SameIndex(s, s0) /\ s0.jobs[j] = r /\ OnlyJob(s, s0, j)
      /\ s0.inflight = s.inflight /\ s0.tasks = s.tasks /\ s0.shared = s.shared
  <2>1. s0 = [s EXCEPT !.jobs[j] = r]
    OBVIOUS
  <2> HIDE DEF r, s0
  <2>2. SameIndex(s, s0) /\ OnlyJob(s, s0, j) /\ s0.inflight = s.inflight /\ s0.tasks = s.tasks
    BY <1>2, <2>1, RecordIndex
  <2>3. s0.jobs[j] = r
    BY <1>2, <2>1, RecordIs
  <2>4. s0.shared = s.shared
    BY <2>1 DEF Store
  <2> QED
    BY <2>2, <2>3, <2>4 DEF SameIndex
<1>4. h \in [s.jobs[j].left -> Jobs \cup {NoJob}] /\ DOMAIN h = s.jobs[j].left /\ s.jobs[j].left \in SUBSET Names
  BY <1>1, HandOversType, JobFields
<1>5. Release(s0, j, h) = RecheckParked(y)
  BY DEF Release
<1> HIDE DEF r, s0
<1>6. \A i \in Jobs : /\ rec(i) \in Job /\ rec(i).key = s0.jobs[i].key /\ rec(i).out = s0.jobs[i].out
                      /\ rec(i).tailSlot = s0.jobs[i].tailSlot /\ rec(i).parked = s0.jobs[i].parked
                      /\ rec(i).state = s0.jobs[i].state /\ rec(i).left = left(i) /\ rec(i).size = size(i)
  <2> SUFFICES ASSUME NEW i \in Jobs
               PROVE  /\ rec(i) \in Job /\ rec(i).key = s0.jobs[i].key /\ rec(i).out = s0.jobs[i].out
                      /\ rec(i).tailSlot = s0.jobs[i].tailSlot /\ rec(i).parked = s0.jobs[i].parked
                      /\ rec(i).state = s0.jobs[i].state /\ rec(i).left = left(i) /\ rec(i).size = size(i)
    OBVIOUS
  <2>1. s0.jobs[i] \in Job
    BY <1>3, StoreFields
  <2>2. taken(i) \in SUBSET Names
    BY <1>4
  <2>3. Cardinality(taken(i)) \in Nat
    BY <2>2, SubsetCardinality
  <2>4. left(i) \in SUBSET Names
    BY <2>1, <2>2, JobFields
  <2>5. size(i) \in Nat
    BY <2>1, <2>3, JobFields
  <2> HIDE DEF left, size
  <2> QED
    BY <2>1, <2>4, <2>5 DEF Job
<1>7. \A i \in Jobs : taken(i) = TakenOf(s, j, h, i)
  BY <1>4 DEF TakenOf
<1>8. {n \in DOMAIN h : h[n] # NoJob} = {n \in s.jobs[j].left : h[n] # NoJob}
  BY <1>4
<1>9. /\ inflight \in [Names -> Jobs \cup {NoJob}]
      /\ \A n \in Names \ s.jobs[j].left : inflight[n] = s.inflight[n]
      /\ \A n \in s.jobs[j].left : inflight[n] = IF h[n] # NoJob THEN h[n]
                                                 ELSE IF s.inflight[n] = j THEN NoJob ELSE s.inflight[n]
  BY <1>3, <1>4, StoreFields
<1>10. queued \in Int /\ queued = s.queued + Cardinality({n \in s.jobs[j].left : h[n] # NoJob})
  <2>1. {n \in s.jobs[j].left : h[n] # NoJob} \in SUBSET Names
    BY <1>4
  <2>2. HandedBytes(h) = Cardinality({n \in s.jobs[j].left : h[n] # NoJob})
    BY <1>8 DEF HandedBytes
  <2>3. HandedBytes(h) \in Nat
    BY <2>1, <2>2, SubsetCardinality
  <2>4. s0.queued = s.queued /\ s.queued \in Int
    BY <1>3, StoreFields DEF SameIndex
  <2> QED
    BY <2>2, <2>3, <2>4
<1>11. jobs \in [Jobs -> Job] /\ \A i \in Jobs : jobs[i] = rec(i)
  <2> HIDE DEF rec
  <2> QED
    BY <1>6
<1>12. \A i \in Jobs : /\ i = j => left(i) = {} /\ size(i) = s0.jobs[i].size
                       /\ i # j => /\ left(i) = s0.jobs[i].left \cup TakenOf(s, j, h, i)
                                   /\ size(i) = s0.jobs[i].size + Cardinality(TakenOf(s, j, h, i))
  <2> TAKE i \in Jobs
  <2>1. s0.jobs[i].size \in Nat
    BY <1>3, StoreFields, JobFields
  <2>2. taken(i) = TakenOf(s, j, h, i)
    BY <1>7
  <2>3. CASE i = j
    <3>1. left(i) = {} /\ size(i) = s0.jobs[i].size + 0
      BY <2>3
    <3> HIDE DEF left, size, taken
    <3> QED
      BY <2>1, <2>3, <3>1
  <2>4. CASE i # j
    <3>1. left(i) = s0.jobs[i].left \cup taken(i) /\ size(i) = s0.jobs[i].size + Cardinality(taken(i))
      BY <2>4
    <3> HIDE DEF left, size, taken
    <3> QED
      BY <2>2, <2>4, <3>1
  <2> QED
    BY <2>3, <2>4
<1> HIDE DEF jobs, inflight, queued, rec, left, size
<1>13. /\ y \in Store /\ y.jobs = jobs /\ y.inflight = inflight /\ y.tasks = s.tasks /\ y.queued = queued
       /\ y.points = s.points /\ y.have = s.have /\ y.refs = s.refs /\ y.stored = s.stored /\ y.shared = s.shared
  BY <1>3, <1>9, <1>10, <1>11 DEF Store, SameIndex
<1> HIDE DEF y
<1>14. \A i \in Jobs : /\ y.jobs[i].key = s0.jobs[i].key /\ y.jobs[i].out = s0.jobs[i].out
                       /\ y.jobs[i].tailSlot = s0.jobs[i].tailSlot /\ y.jobs[i].parked = s0.jobs[i].parked
                       /\ y.jobs[i].state = s0.jobs[i].state /\ y.jobs[i].left = left(i) /\ y.jobs[i].size = size(i)
  BY <1>6, <1>11, <1>13
<1>15. Handing(s, y, j, st, h)
  <2>1. \A i \in Jobs : /\ y.jobs[i].key = s.jobs[i].key /\ y.jobs[i].out = s.jobs[i].out
                        /\ y.jobs[i].tailSlot = s.jobs[i].tailSlot /\ y.jobs[i].parked = s.jobs[i].parked
    <3> TAKE i \in Jobs
    <3>1. CASE i = j
      BY <1>2, <1>3, <1>14, <3>1
    <3>2. CASE i # j
      BY <1>3, <1>14, <3>2 DEF OnlyJob
    <3> QED
      BY <3>1, <3>2
  <2>2. \A i \in Jobs : i # j => /\ y.jobs[i].state = s.jobs[i].state
                                 /\ y.jobs[i].left = s.jobs[i].left \cup TakenOf(s, j, h, i)
                                 /\ y.jobs[i].size = s.jobs[i].size + Cardinality(TakenOf(s, j, h, i))
    BY <1>3, <1>12, <1>14 DEF OnlyJob
  <2>3. y.jobs[j].state = st /\ y.jobs[j].left = {} /\ y.jobs[j].size = s.jobs[j].size
    BY <1>2, <1>3, <1>12, <1>14
  <2>4. /\ \A n \in Names \ s.jobs[j].left : y.inflight[n] = s.inflight[n]
        /\ \A n \in s.jobs[j].left : y.inflight[n] = IF h[n] # NoJob THEN h[n]
                                                     ELSE IF s.inflight[n] = j THEN NoJob ELSE s.inflight[n]
    BY <1>9, <1>13
  <2> QED
    BY <1>10, <1>13, <2>1, <2>2, <2>3, <2>4 DEF Handing
<1> QED
  BY <1>5, <1>15 DEF s0

LEMMA ReleaseExact ==
    ASSUME NEW s, NEW E, NEW B, NEW P, NEW X, NEW m \in Int, NEW j \in Jobs, NEW st \in {"failed", "cancelled"},
           NEW h \in HandOvers(s, j), s.jobs[j].state = "open", Exact(s, {}, {}, B, P, m),
           Referenced(s), Sound(s, E, P, X)
    PROVE  LET z == Release([s EXCEPT !.jobs[j].state = st], j, h) IN
           Exact(z, {}, {}, B, P, m) /\ Referenced(z) /\ Ends(s, z)
<1> DEFINE z == Release([s EXCEPT !.jobs[j].state = st], j, h)
<1>1. s \in Store /\ P \in SUBSET Jobs
  BY ExactIs DEF Sound
<1>2. PICK y : Handing(s, y, j, st, h) /\ z = RecheckParked(y)
  BY <1>1, ReleaseIs
<1> HIDE DEF z
<1>3. Exact(y, {}, {}, B, P, m) /\ y.have = s.have /\ y.points = s.points /\ y.refs = s.refs
  BY <1>2, HandingExact
<1>4. Exact(z, {}, {}, B, P, m) /\ SameIndex(y, z)
  BY <1>1, <1>2, <1>3, RecheckExact
<1>5. Referenced(z) /\ Ends(s, z)
  BY <1>3, <1>4 DEF Referenced, SameIndex, Ends
<1> QED
  BY <1>4, <1>5 DEF z

LEMMA FailExact ==
    ASSUME NEW s, NEW E, NEW B, NEW P, NEW X, NEW m \in Int, NEW j \in Jobs, NEW h \in HandOvers(s, j),
           s.jobs[j].state = "open", Exact(s, {}, {}, B, P, m), Referenced(s), Sound(s, E, P, X)
    PROVE  LET z == Fail(s, j, h) IN Exact(z, {}, {}, B, P, m) /\ Referenced(z) /\ Ends(s, z)
BY ReleaseExact DEF Fail

LEMMA EndsTrans ==
    ASSUME NEW s, NEW y, NEW z, Ends(s, y), Ends(y, z)
    PROVE  Ends(s, z)
BY DEF Ends

LEMMA CancelJobExact ==
    ASSUME NEW s, NEW E, NEW B, NEW P, NEW m \in Int, NEW j \in Jobs, NEW h \in HandOvers(s, j),
           s.jobs[j].state = "open", Exact(s, {}, {}, B, P, m), Referenced(s), Sound(s, E, P, {})
    PROVE  LET z == CancelJob(s, j, h) IN Exact(z, {}, {}, B, P, m) /\ Referenced(z) /\ Ends(s, z)
<1> DEFINE y == Release([s EXCEPT !.jobs[j].state = "cancelled"], j, h)
           z == Settle(y, j)
<1>1. Exact(y, {}, {}, B, P, m) /\ Referenced(y) /\ Ends(s, y)
  BY ReleaseExact
<1>2. Sound(y, E, P, {})
  BY ReleaseSound
<1> HIDE DEF y
<1>3. Exact(z, {}, {}, B, P, m) /\ Referenced(z) /\ Ends(y, z)
  BY <1>1, <1>2, SettleExact
<1>4. Ends(s, z)
  BY <1>1, <1>3, EndsTrans
<1> QED
  BY <1>3, <1>4 DEF CancelJob, y

-----------------------------------------------------------------------------
(* A write is registered *)

LEMMA RegisterIndex ==
    ASSUME NEW s \in Store, NEW j \in Jobs, NEW k \in Keys, NEW b \in BOOLEAN,
           NEW new \in SUBSET Names, NEW w \in WriteSlots \cup {NoSlot}
    PROVE  LET z == Register(s, j, k, b, new, w) IN
           /\ z.points = s.points /\ z.have = s.have /\ z.refs = s.refs /\ z.stored = s.stored
           /\ z.queued = s.queued + (Cardinality(new) + FileBytes)
           /\ z.jobs[j].size = Cardinality(new) + FileBytes /\ Cardinality(new) + FileBytes \in Nat
<1> DEFINE size == Cardinality(new) + FileBytes
           r == [NoWrite EXCEPT !.key = k, !.state = "open", !.left = new \ TailBlock(k),
                                !.tailSlot = w, !.size = size]
           z == Register(s, j, k, b, new, w)
<1>1. size \in Nat
  BY SubsetCardinality, ConstantsAssumption
<1>2. r.size = size
  <2> HIDE DEF size
  <2> QED
    BY DEF NoWrite
<1>3. z.jobs = [s.jobs EXCEPT ![j] = r] /\ s.jobs \in [Jobs -> Job]
  <2> HIDE DEF size
  <2> QED
    BY DEF Register, Store, size
<1>4. /\ z.points = s.points /\ z.have = s.have /\ z.refs = s.refs /\ z.stored = s.stored
      /\ z.queued = s.queued + size
  BY DEF Register, Store
<1> HIDE DEF z, r, size
<1> QED
  BY <1>1, <1>2, <1>3, <1>4 DEF z, size

\* The bytes of a write that registers blocks `new` fit under the cap.
Affords(s, new) == s.stored + s.queued + (Cardinality(new) + FileBytes) <= CapBytes

\* No room is kept free: the slack of a store in which writes are registered.
Slack(m) == m \in Int /\ m <= 0

\* The write j of k took over the references k was pinned with.
LEMMA RegisteredBooks ==
    ASSUME NEW m, Slack(m), NEW s \in Store, NEW z, NEW j \in Jobs, NEW k \in Keys, NEW new \in SUBSET Blocks(k), NEW w,
           Books(s, Blocks(k), m), Registered(s, z, j, k, new, w),
           z.points = s.points, z.have = s.have, z.refs = s.refs, z.stored = s.stored,
           z.queued = s.queued + (Cardinality(new) + FileBytes),
           z.jobs[j].size = Cardinality(new) + FileBytes,
           s.jobs[j].state = "unused", k \notin s.points, \A i \in Live(s) : s.jobs[i].key # k,
           Affords(s, new), w # NoSlot => TailBlock(k) \subseteq new
    PROVE  Books(z, {}, m)
<1> DEFINE size == Cardinality(new) + FileBytes
<1>1. z \in Store /\ OnlyJob(s, z, j) /\ z.jobs[j].key = k /\ z.jobs[j].state = "open"
      /\ z.jobs[j].left = new \ TailBlock(k) /\ z.jobs[j].out = {} /\ z.jobs[j].tailSlot = w
      /\ ~z.jobs[j].parked
  BY DEF Registered
<1>2. /\ RefsAre(s, Blocks(k)) /\ StoredFits(s) /\ PointsWhole(s) /\ WaitsOnce(s) /\ NamesFit(s)
      /\ RoomFits(s, m)
  BY DEF Books
<1>3. j \notin Live(s) /\ Live(z) = Live(s) \cup {j} /\ Live(s) \subseteq Jobs
  BY <1>1 DEF Live, LiveStates, OnlyJob
<1>4. RefsAre(z, {})
  <2> SUFFICES ASSUME NEW n \in Names
               PROVE  z.refs[n] = Cardinality(Naming(z, n)) + Cardinality(Wanting(z, n))
    <3>1. \A n \in Names : Cardinality(Naming(z, n)) \in Nat /\ Cardinality(Wanting(z, n)) \in Nat
      BY <1>1, CountsType
    <3> QED
      BY <3>1 DEF RefsAre
  <2>1. Naming(z, n) = Naming(s, n)
    BY DEF Naming
  <2>2. Wanting(z, n) = Wanting(s, n) \cup (IF n \in Blocks(k) THEN {j} ELSE {})
    <3>1. \A i \in Live(s) : z.jobs[i] = s.jobs[i]
      BY <1>1, <1>3 DEF OnlyJob
    <3> QED
      BY <1>1, <1>3, <3>1 DEF Wanting, NamesOf
  <2>3. j \notin Wanting(s, n)
    BY <1>3 DEF Wanting
  <2>4. /\ IsFiniteSet(Wanting(s, n)) /\ Cardinality(Wanting(s, n)) \in Nat /\ Cardinality(Naming(s, n)) \in Nat
    BY CountsType
  <2>5. s.refs[n] = Cardinality(Naming(s, n)) + Cardinality(Wanting(s, n)) + (IF n \in Blocks(k) THEN 1 ELSE 0)
    BY <1>2 DEF RefsAre
  <2> DEFINE W == Wanting(s, n)
  <2>6. CASE n \in Blocks(k)
    <3>1. Wanting(z, n) = W \cup {j} /\ IsFiniteSet(W) /\ j \notin W
      BY <2>2, <2>3, <2>4, <2>6
    <3> HIDE DEF W
    <3>2. Cardinality(W \cup {j}) = Cardinality(W) + 1
      BY <3>1, FS_AddElement
    <3> QED
      BY <2>1, <2>4, <2>5, <2>6, <3>1, <3>2 DEF W
  <2>7. CASE n \notin Blocks(k)
    <3>1. Wanting(z, n) = W
      BY <2>2, <2>7
    <3> QED
      BY <2>1, <2>4, <2>5, <2>7, <3>1
  <2> QED
    BY <2>6, <2>7
<1>5. StoredFits(z) /\ PointsWhole(z)
  BY <1>2 DEF StoredFits, PointsWhole
<1>6. WaitsOnce(z)
  <2>1. \A i \in Live(s) : z.jobs[i] = s.jobs[i]
    BY <1>1, <1>3 DEF OnlyJob
  <2> QED
    BY <1>1, <1>2, <1>3, <2>1 DEF WaitsOnce
<1>7. NamesFit(z)
  BY <1>1, <1>2 DEF NamesFit, OnlyJob
<1>8. RoomFits(z, m)
  <2>1. new \in SUBSET Names /\ IsFiniteSet(new) /\ Cardinality(new) \in Nat
    BY NamesType, SubsetCardinality
  <2>2. size \in Nat
    BY <2>1, ConstantsAssumption
  <2>3. Writes(z.jobs[j]) \subseteq new
    BY <1>1 DEF Writes
  <2>4. Cardinality(Writes(z.jobs[j])) <= Cardinality(new) /\ Cardinality(Writes(z.jobs[j])) \in Nat
    <3> DEFINE W == Writes(z.jobs[j])
    <3> HIDE DEF W
    <3>1. Cardinality(W) <= Cardinality(new)
      BY <2>1, <2>3, FS_Subset DEF W
    <3>2. W \in SUBSET Names
      BY <2>1, <2>3 DEF W
    <3> QED
      BY <3>1, <3>2, SubsetCardinality DEF W
  <2>5. Reserve(z.jobs[j]) <= size /\ z.jobs[j].size = size
    BY <1>1, <2>1, <2>4, ConstantsAssumption DEF Reserve
  <2>6. /\ \A i \in Jobs : /\ Reserve(s.jobs[i]) <= s.jobs[i].size
                           /\ s.jobs[i].state \notin LiveStates => s.jobs[i].size = 0
        /\ s.queued = Total(Sizes(s))
    BY <1>2 DEF RoomFits
  <2>7. /\ Sizes(s) \in [Jobs -> Nat] /\ Sizes(z) \in [Jobs -> Nat] /\ Reserves(z) \in [Jobs -> Nat]
        /\ \A i \in Jobs : /\ Sizes(s)[i] = s.jobs[i].size /\ Sizes(z)[i] = z.jobs[i].size
                           /\ Reserves(z)[i] = Reserve(z.jobs[i])
    BY <1>1, ReservesType
  <2>8. s.jobs[j].size = 0
    BY <2>6 DEF LiveStates
  <2>9. Total(Sizes(z)) + 0 = Total(Sizes(s)) + size /\ Total(Sizes(s)) \in Nat /\ Total(Sizes(z)) \in Nat
    <3>1. \A i \in Jobs \ {j} : Sizes(z)[i] = Sizes(s)[i]
      BY <1>1, <2>7 DEF OnlyJob
    <3>2. Sizes(s)[j] = 0 /\ Sizes(z)[j] = size
      BY <2>5, <2>7, <2>8
    <3> QED
      BY <2>7, <3>1, <3>2, TotalPut
  <2>10. \A i \in Jobs : /\ Reserve(z.jobs[i]) <= z.jobs[i].size
                         /\ z.jobs[i].state \notin LiveStates => z.jobs[i].size = 0
    <3> TAKE i \in Jobs
    <3>1. CASE i = j
      BY <1>1, <2>5, <3>1 DEF LiveStates
    <3>2. CASE i # j
      BY <1>1, <2>6, <3>2 DEF OnlyJob
    <3> QED
      BY <3>1, <3>2
  <2>11. Total(Reserves(z)) <= Total(Sizes(z)) /\ Total(Reserves(z)) \in Nat
    <3>1. \A i \in Jobs : Reserves(z)[i] <= Sizes(z)[i]
      BY <2>7, <2>10
    <3>2. Total(Reserves(z)) <= Total(Sizes(z))
      BY <2>7, <3>1, TotalMono
    <3> QED
      BY <1>1, <3>2, ReservesType
  <2>12. s.stored \in Int /\ s.queued \in Int /\ CapBytes \in Nat /\ s.stored + s.queued + size <= CapBytes
         /\ z.queued = s.queued + size
    BY StoreFields, ConstantsAssumption DEF Affords
  <2>15. m \in Int /\ m <= 0
    BY DEF Slack
  <2> HIDE DEF size
  <2>13. z.queued = Total(Sizes(z)) /\ z.stored + Total(Reserves(z)) <= CapBytes /\ z.stored \in Int
    BY <2>2, <2>6, <2>9, <2>11, <2>12
  <2>14. z.stored + Total(Reserves(z)) + m <= CapBytes
    <3> DEFINE c == Total(Reserves(z))
    <3> HIDE DEF c
    <3>1. z.stored + c <= CapBytes /\ c \in Nat /\ z.stored \in Int /\ CapBytes \in Nat
      BY <2>11, <2>12, <2>13 DEF c
    <3> QED
      BY <2>15, <3>1 DEF c
  <2> QED
    BY <2>10, <2>13, <2>14 DEF RoomFits
<1> QED
  BY <1>4, <1>5, <1>6, <1>7, <1>8 DEF Books

LEMMA RegisterExact ==
    ASSUME NEW m, Slack(m), NEW s, NEW B, NEW P, NEW j \in Jobs, NEW k \in Keys, NEW b \in BOOLEAN, NEW new \in SUBSET Blocks(k),
           NEW w \in WriteSlots \cup {NoSlot}, Exact(s, Blocks(k), {}, B, P, m), Referenced(s),
           s.jobs[j].state = "unused", k \notin s.points, \A i \in Live(s) : s.jobs[i].key # k,
           j \notin QueuedPoints(s.tasks) \cup P, QueuedPoints(s.tasks) \cup P \subseteq Jobs,
           new \cap s.have = {}, w # NoSlot => TailBlock(k) \subseteq new, Affords(s, new)
    PROVE  LET z == Register(s, j, k, b, new, w) IN
           Exact(z, {}, {}, B, P, m) /\ Referenced(z) /\ z.have = s.have /\ z.points = s.points
<1> DEFINE z == Register(s, j, k, b, new, w)
<1>1. s \in Store /\ Books(s, Blocks(k), m) /\ HaveLanded(s, {}) /\ TasksFit(s, B, P)
  BY ExactIs
<1>2. new \in SUBSET Names
  BY NamesType
<1>3. Registered(s, z, j, k, new, w)
  BY <1>1, <1>2, RegisterIs
<1>4. /\ z.points = s.points /\ z.have = s.have /\ z.refs = s.refs /\ z.stored = s.stored
      /\ z.queued = s.queued + (Cardinality(new) + FileBytes) /\ z.jobs[j].size = Cardinality(new) + FileBytes
  <2> DEFINE size == Cardinality(new) + FileBytes
  <2>1. LET y == Register(s, j, k, b, new, w) IN
        /\ y.points = s.points /\ y.have = s.have /\ y.refs = s.refs /\ y.stored = s.stored
        /\ y.queued = s.queued + size /\ y.jobs[j].size = size
    BY <1>1, <1>2, RegisterIndex
  <2> HIDE DEF size
  <2>2. /\ z.points = s.points /\ z.have = s.have /\ z.refs = s.refs /\ z.stored = s.stored
        /\ z.queued = s.queued + size /\ z.jobs[j].size = size
    BY <2>1
  <2> QED
    BY <2>2 DEF size
<1> HIDE DEF z
<1>5. Books(z, {}, m)
  BY <1>1, <1>3, <1>4, RegisteredBooks
<1>6. z \in Store /\ OnlyJob(s, z, j) /\ z.tasks = s.tasks
      /\ \A n \in Names : z.inflight[n] = IF n \in new THEN j ELSE s.inflight[n]
  BY <1>3 DEF Registered
<1>7. HaveLanded(z, {})
  BY <1>1, <1>4, <1>6, StoreFields DEF HaveLanded
<1>8. Shrinks(s, z, QueuedPoints(s.tasks) \cup P)
  BY <1>4, <1>6 DEF Shrinks, OnlyJob
<1>9. TasksFit(z, B, P)
  BY <1>1, <1>6, <1>8, TasksShrink
<1>10. Referenced(z)
  BY <1>4 DEF Referenced
<1>11. Exact(z, {}, {}, B, P, m)
  BY <1>5, <1>6, <1>7, <1>9 DEF Exact
<1> QED
  BY <1>4, <1>10, <1>11 DEF z

-----------------------------------------------------------------------------
(* The engine's actions *)

LEMMA IndexedIs ==
    ASSUME IInv, NEW m \in Int, Indexed(m)
    PROVE  /\ store \in Store /\ RunningPoint \in SUBSET Jobs
           /\ Exact(store, {}, {}, RunningName, RunningPoint, m) /\ Referenced(store)
           /\ Sound(store, tickets \cup RunningCopy, RunningPoint, {})
           /\ store.have \subseteq files /\ \A k \in store.points : manifest[k] # "none"
BY DEF IInv, TypeOK, Indexed, Whole, Sound

\* A step of the engine adds nothing to the index.
LEMMA EngineIndexed ==
    ASSUME NEW m \in Int, Indexed(m), UNCHANGED <<running, files, manifest>>,
           Exact(store', {}, {}, RunningName, RunningPoint, m), Referenced(store'),
           store'.have \subseteq store.have, store'.points \subseteq store.points
    PROVE  Indexed(m)'
BY DEF Indexed, RunningName, RunningPoint

\* The writes and what is in flight are as they were.
LEMMA RestExact ==
    ASSUME NEW s, NEW z, NEW D, NEW B, NEW P \in SUBSET Jobs, NEW m \in Int,
           Exact(s, D, {}, B, P, m), SameIndex(s, z), z.jobs = s.jobs, z.inflight = s.inflight
    PROVE  /\ z.tasks = s.tasks => Exact(z, D, {}, B, P, m)
           /\ \A t \in Task : z.tasks = Append(s.tasks, t) /\ BringsNew(z, t) /\ t.kind # "unlink" =>
                 Exact(z, D, {}, B, P, m)
<1>1. NamesFit(s)
  BY ExactIs
<1>2. \A j \in Jobs : Lesser(s.jobs[j], z.jobs[j])
  BY <1>1, SelfLesser
<1>3. z.tasks = s.tasks => Exact(z, D, {}, B, P, m)
  BY <1>2, MoveExact
<1>4. ASSUME NEW t \in Task, z.tasks = Append(s.tasks, t), BringsNew(z, t), t.kind # "unlink"
      PROVE  Exact(z, D, {}, B, P, m)
  BY <1>2, <1>4, QueuesExact
<1> QED
  BY <1>3, <1>4

\* A rewrite of k's manifest is queued.
LEMMA QueueSharedExact ==
    ASSUME NEW s, NEW B, NEW P \in SUBSET Jobs, NEW m \in Int, NEW k \in Keys, Exact(s, {}, {}, B, P, m)
    PROVE  LET z == Queue(s, [kind |-> "shared", key |-> k]) IN
           /\ Exact(z, {}, {}, B, P, m) /\ SameIndex(s, z) /\ z.shared = s.shared
<1> DEFINE t == [kind |-> "shared", key |-> k]
           z == Queue(s, t)
<1>1. s \in Store /\ t \in Task /\ t.kind = "shared"
  BY ExactIs, SharedTaskType
<1> HIDE DEF t
<1>2. z \in Store
  BY <1>1, QueueType DEF Keeps
<1>3. /\ SameIndex(s, z) /\ z.jobs = s.jobs /\ z.inflight = s.inflight /\ z.tasks = Append(s.tasks, t)
      /\ z.shared = s.shared
  BY <1>1, <1>2 DEF Queue, Store, SameIndex
<1> HIDE DEF z
<1>4. BringsNew(z, t)
  BY <1>1 DEF BringsNew
<1>5. Exact(z, {}, {}, B, P, m)
  BY <1>1, <1>3, <1>4, RestExact
<1> QED
  BY <1>3, <1>5 DEF z, t

LEMMA MarkSharedIndexed ==
    ASSUME IInv, NEW m \in Int, Indexed(m), NEW k \in Keys, MarkShared(k)
    PROVE  Indexed(m)'
<1> DEFINE shared == store.shared \cup {k}
           s == [store EXCEPT !.shared = shared]
<1>1. /\ store \in Store /\ shared \in SUBSET Keys /\ RunningPoint \in SUBSET Jobs
      /\ Exact(store, {}, {}, RunningName, RunningPoint, m) /\ Referenced(store)
  BY IndexedIs, StoreFields
<1>2. SameIndex(store, s) /\ s.jobs = store.jobs /\ s.inflight = store.inflight /\ s.tasks = store.tasks
  <2> HIDE DEF shared
  <2> QED
    BY <1>1 DEF Store, SameIndex
<1>3. store' = s \/ store' = Queue(s, [kind |-> "shared", key |-> k])
  BY DEF MarkShared
<1> HIDE DEF s
<1>4. Exact(s, {}, {}, RunningName, RunningPoint, m)
  BY <1>1, <1>2, RestExact
<1>5. Exact(store', {}, {}, RunningName, RunningPoint, m) /\ (store' = s \/ SameIndex(s, store'))
  BY <1>1, <1>3, <1>4, QueueSharedExact
<1>6. store'.have = store.have /\ store'.points = store.points /\ store'.refs = store.refs
  BY <1>2, <1>5 DEF SameIndex
<1> QED
  BY <1>1, <1>5, <1>6, EngineIndexed DEF Referenced, MarkShared

LEMMA ReadIndexed ==
    ASSUME IInv, NEW m \in Int, Indexed(m), NEW k, BeginRead(k) \/ EndRead(k)
    PROVE  Indexed(m)'
<1>1. UNCHANGED <<store, running, files, manifest>>
  BY DEF BeginRead, EndRead
<1> QED
  BY <1>1 DEF Indexed, RunningName, RunningPoint

\* No indexed point names a block of S.
Spared(s, S) == \A k \in s.points : Blocks(k) \cap S = {}

LEMMA DropSpared ==
    ASSUME NEW s, NEW B, NEW P, NEW m \in Int, NEW S, Exact(s, {}, {}, B, P, m), Referenced(s), Spared(s, S)
    PROVE  LET z == DropBlocks(s, S) IN
           Exact(z, {}, {}, B, P, m) /\ Referenced(z) /\ z.have = s.have \ S /\ z.points = s.points
<1> DEFINE z == DropBlocks(s, S)
<1>1. \A k \in s.points : Blocks(k) \cap S = {}
  BY DEF Spared
<1>2. /\ Exact(z, {}, {}, B, P, m) /\ z.have = s.have \ S /\ z.points = s.points /\ z.refs = s.refs
  BY <1>1, DropExact
<1> HIDE DEF z
<1>3. Referenced(z)
  BY <1>2 DEF Referenced
<1> QED
  BY <1>2, <1>3 DEF z

\* forget: the point, the points that name a damaged block, then those blocks.
LEMMA ForgetExact ==
    ASSUME NEW s, NEW B, NEW P, NEW m \in Int, NEW S, NEW V, Exact(s, {}, {}, B, P, m), Referenced(s),
           \A p \in s.points \ V : Blocks(p) \cap S = {}
    PROVE  LET z == DropBlocks(RemovePoints(s, V), S) IN
           Exact(z, {}, {}, B, P, m) /\ Referenced(z) /\ z.have \subseteq s.have /\ z.points \subseteq s.points
<1> DEFINE y == RemovePoints(s, V)
           z == DropBlocks(y, S)
<1>1. Exact(y, {}, {}, B, P, m) /\ Referenced(y) /\ y.have \subseteq s.have /\ y.points = s.points \ V
  BY RemoveExact
<1>2. Spared(y, S)
  BY <1>1 DEF Spared
<1> HIDE DEF y
<1>3. Exact(z, {}, {}, B, P, m) /\ Referenced(z) /\ z.have = y.have \ S /\ z.points = y.points
  BY <1>1, <1>2, DropSpared
<1> QED
  BY <1>1, <1>3 DEF z, y

LEMMA ForgetIndexed ==
    ASSUME IInv, NEW m \in Int, Indexed(m), NEW k, NEW gone, Forget(k, gone)
    PROVE  Indexed(m)'
<1> DEFINE V == {k} \cup {p \in store.points : Blocks(p) \cap gone # {}}
           z == DropBlocks(RemovePoints(store, V), gone)
           B == RunningName
           P == RunningPoint
<1>1. /\ Exact(store, {}, {}, B, P, m) /\ Referenced(store) /\ m \in Int
  BY IndexedIs
<1>2. store' = z
  BY DEF Forget
<1>3. \A p \in store.points \ V : Blocks(p) \cap gone = {}
  OBVIOUS
<1>4. Exact(z, {}, {}, B, P, m) /\ Referenced(z) /\ z.have \subseteq store.have /\ z.points \subseteq store.points
  <2> HIDE DEF V, B, P
  <2> QED
    BY <1>1, <1>3, ForgetExact
<1> HIDE DEF z
<1> QED
  BY <1>2, <1>4, EngineIndexed DEF Forget

\* keep refuses: the references go again, and the blocks nobody names.
LEMMA RefusedExact ==
    ASSUME NEW s, NEW B, NEW P, NEW m \in Int, NEW k \in Keys, Exact(s, Blocks(k), {}, B, P, m), Referenced(s)
    PROVE  LET z == Gc(Unref(s, Blocks(k)), Blocks(k)) IN
           Exact(z, {}, {}, B, P, m) /\ Referenced(z) /\ Ends(s, z)
<1> DEFINE D == Blocks(k)
           u == Unref(s, D)
           z == Gc(u, D)
<1>1. D \in SUBSET Names /\ s \in Store /\ s.have \in SUBSET Names
  BY NamesType, ExactIs, StoreFields
<1> HIDE DEF D
<1>2. /\ Exact(u, {}, {}, B, P, m) /\ u.have = s.have /\ u.points = s.points
      /\ \A n \in Names \ D : u.refs[n] = s.refs[n]
  BY <1>1, UnrefExact DEF D
<1> HIDE DEF u
<1>3. \A n \in u.have \ D : u.refs[n] > 0
  BY <1>1, <1>2 DEF Referenced
<1>4. Exact(z, {}, {}, B, P, m) /\ Referenced(z) /\ z.have \subseteq u.have /\ z.points = u.points
  BY <1>2, <1>3, GcExact
<1> QED
  BY <1>2, <1>4 DEF Ends, z, u, D

LEMMA KeepIndexed ==
    ASSUME IInv, NEW m \in Int, m <= 0, Indexed(m), NEW k \in Keys, NEW b \in BOOLEAN, NEW V, Keep(k, b, V)
    PROVE  Indexed(m)'
<1> DEFINE new == {n \in Blocks(k) : n \notin store.have /\ store.inflight[n] = NoJob}
           tail == new \cap TailBlock(k)
           need == Cardinality(new) + FileBytes
           pinned == Ref(store, Blocks(k))
           over == Over(store, need)
           s == IF over > 0 /\ over <= store.stored THEN RemovePoints(pinned, V) ELSE pinned
           refused == Gc(Unref(s, Blocks(k)), Blocks(k))
           B == RunningName
           P == RunningPoint
<1>1. PICK j \in NextJob(store) :
        \/ /\ Over(s, need) <= 0
           /\ \E w \in IF tail = {} THEN {NoSlot} ELSE s.free : store' = Register(s, j, k, b, new, w)
        \/ store' = refused
  BY DEF Keep
<1>2. ~AlreadyKept(store, k) /\ UNCHANGED <<running, files, manifest>>
  BY DEF Keep
<1>3. /\ store \in Store /\ Exact(store, {}, {}, B, P, m) /\ Referenced(store)
      /\ Sound(store, tickets \cup RunningCopy, P, {})
  BY IndexedIs
<1>4. /\ Exact(pinned, Blocks(k), {}, B, P, m) /\ Referenced(pinned) /\ SameWork(store, pinned)
      /\ pinned.have = store.have /\ pinned.points = store.points
  <2> DEFINE D == Blocks(k)
  <2>1. D \in SUBSET Names /\ m \in Int
    BY NamesType
  <2> HIDE DEF D, B, P
  <2>2. LET z == Ref(store, D) IN
        /\ Exact(z, D, {}, B, P, m) /\ Referenced(z) /\ SameWork(store, z)
        /\ z.have = store.have /\ z.points = store.points
    BY <1>3, <2>1, RefExact
  <2> QED
    BY <2>2 DEF D
<1>5. /\ Exact(s, Blocks(k), {}, B, P, m) /\ Referenced(s) /\ SameWork(store, s)
      /\ s.have \subseteq store.have /\ s.points \subseteq store.points
  <2> HIDE DEF pinned
  <2>1. LET z == RemovePoints(pinned, V) IN
        /\ Exact(z, Blocks(k), {}, B, P, m) /\ Referenced(z) /\ SameWork(pinned, z)
        /\ z.have \subseteq pinned.have /\ z.points = pinned.points \ V
    BY <1>4, RemoveExact
  <2> QED
    BY <1>4, <2>1 DEF SameWork
<1>6. Alike(store, s)
  <2>1. Alike(store, pinned)
    BY <1>3, RefAlike
  <2> HIDE DEF pinned
  <2>2. Alike(pinned, RemovePoints(pinned, V))
    BY <2>1, RemovePointsAlike DEF Alike
  <2> QED
    BY <2>1, <2>2, AlikeTrans
<1>7. Sound(s, tickets \cup RunningCopy, P, {})
  <2> HIDE DEF s, P
  <2> QED
    BY <1>3, <1>6, AlikeSound
<1>8. new \in SUBSET Blocks(k) /\ new \cap s.have = {} /\ tail = new \cap TailBlock(k)
  BY <1>5
<1>9. tail # {} => TailBlock(k) \subseteq new
  BY DEF TailBlock
<1>10. s \in Store /\ s.free \in SUBSET WriteSlots /\ s.jobs = store.jobs
  BY <1>5, StoreFields DEF SameWork
<1>11. need \in Int
  BY <1>8, NamesType, SubsetCardinality, ConstantsAssumption
<1> HIDE DEF new, tail, s, need
<1>12. CASE store' = refused
  <2>1. Exact(refused, {}, {}, B, P, m) /\ Referenced(refused) /\ Ends(s, refused)
    BY <1>5, RefusedExact
  <2> HIDE DEF refused
  <2> QED
    BY <1>2, <1>5, <1>12, <2>1, EngineIndexed DEF Ends
<1>13. ASSUME Over(s, need) <= 0, NEW w \in IF tail = {} THEN {NoSlot} ELSE s.free,
              store' = Register(s, j, k, b, new, w)
       PROVE  Indexed(m)'
  <2>1. j \in Jobs /\ s.jobs[j].state = "unused"
    BY <1>10 DEF NextJob
  <2>2. k \notin s.points /\ \A i \in Live(s) : s.jobs[i].key # k
    BY <1>2, <1>5, <1>10 DEF AlreadyKept, WaitingKeys, Live
  <2>3. j \notin QueuedPoints(s.tasks) \cup P /\ QueuedPoints(s.tasks) \cup P \subseteq Jobs
    <3>1. \A i \in QueuedPoints(s.tasks) \cup P : s.jobs[i].state = "publishing"
      BY <1>7 DEF Sound, QueueFits
    <3>2. QueuedPoints(s.tasks) \cup P \subseteq Jobs
      BY <1>7, SoundParts
    <3> QED
      BY <2>1, <3>1, <3>2
  <2>4. w \in WriteSlots \cup {NoSlot} /\ (w # NoSlot => TailBlock(k) \subseteq new)
    BY <1>9, <1>10, <1>13
  <2>5. s.stored + s.queued + (Cardinality(new) + FileBytes) <= CapBytes
    <3>1. s.stored \in Int /\ s.queued \in Int /\ CapBytes \in Nat
      BY <1>10, StoreFields, ConstantsAssumption
    <3>2. s.stored + s.queued + need - CapBytes <= 0
      BY <1>13 DEF Over
    <3>3. s.stored + s.queued + need <= CapBytes
      BY <1>11, <3>1, <3>2
    <3> QED
      BY <3>3 DEF need
  <2> DEFINE z == Register(s, j, k, b, new, w)
  <2>6. Exact(z, {}, {}, B, P, m) /\ Referenced(z) /\ z.have = s.have /\ z.points = s.points
    <3>1. /\ Exact(s, Blocks(k), {}, B, P, m) /\ Referenced(s) /\ new \in SUBSET Blocks(k) /\ new \cap s.have = {}
          /\ w \in WriteSlots \cup {NoSlot} /\ j \in Jobs
      BY <1>5, <1>8, <2>1, <2>4
    <3>3. QueuedPoints(s.tasks) \cup P \subseteq Jobs
      BY <2>3
    <3>4. s.jobs[j].state = "unused" /\ k \notin s.points /\ \A i \in Live(s) : s.jobs[i].key # k
      BY <2>1, <2>2
    <3>5. j \notin QueuedPoints(s.tasks) \cup P
      BY <2>3
    <3>6. w # NoSlot => TailBlock(k) \subseteq new
      BY <2>4
    <3>7. Affords(s, new) /\ Slack(m)
      BY <2>5 DEF Affords, Slack
    <3> HIDE DEF B, P, z, pinned, over, refused
    <3>2. LET y == Register(s, j, k, b, new, w) IN
          Exact(y, {}, {}, B, P, m) /\ Referenced(y) /\ y.have = s.have /\ y.points = s.points
      BY <3>1, <3>3, <3>4, <3>5, <3>6, <3>7, RegisterExact
    <3> QED
      BY <3>2 DEF z
  <2> HIDE DEF z
  <2>7. store' = z
    BY <1>13 DEF z
  <2> QED
    BY <1>2, <1>5, <2>6, <2>7, EngineIndexed
<1> QED
  BY <1>1, <1>12, <1>13

\* Blocks that are staged are as much to be written as before.
LEMMA HandExact ==
    ASSUME NEW s, NEW B, NEW P \in SUBSET Jobs, NEW m \in Int, NEW j \in Jobs, NEW S, NEW W,
           Exact(s, {}, {}, B, P, m), S \subseteq s.jobs[j].left
    PROVE  LET z == Hand(s, j, S, W) IN
           Exact(z, {}, {}, B, P, m) /\ SameIndex(s, z)
<1> DEFINE r == [s.jobs[j] EXCEPT !.left = s.jobs[j].left \ S, !.out = s.jobs[j].out \cup S]
           z == Hand(s, j, S, W)
<1>1. s \in Store /\ s.jobs[j] \in Job /\ S \in SUBSET Names /\ NamesFit(s)
  BY ExactIs, StoreFields, JobFields
<1>2. Handed(s, z, j, S, W)
  BY <1>1, HandIs
<1>3. z.jobs[j] = r /\ z.points = s.points /\ z.have = s.have /\ z.refs = s.refs
      /\ z.stored = s.stored /\ z.queued = s.queued
  <2> HIDE DEF r
  <2>1. z = [s EXCEPT !.jobs[j] = r, !.free = @ \ W]
    BY DEF Hand, r
  <2> HIDE DEF z
  <2> QED
    BY <1>1, <2>1 DEF Store
<1>4. r.size = s.jobs[j].size
  BY <1>1 DEF Job
<1> HIDE DEF z, r
<1>5. SameIndex(s, z) /\ OnlyJob(s, z, j) /\ z.inflight = s.inflight /\ z.tasks = s.tasks
  BY <1>2, <1>3 DEF SameIndex, Handed
<1>6. Lesser(s.jobs[j], z.jobs[j])
  <2>1. Writes(z.jobs[j]) \subseteq Writes(s.jobs[j])
    BY <1>2 DEF Handed, Writes
  <2>2. s.jobs[j].left \cup s.jobs[j].out \subseteq Blocks(s.jobs[j].key) /\ (s.jobs[j].parked => s.jobs[j].state \in LiveStates)
    BY <1>1 DEF NamesFit
  <2> QED
    BY <1>2, <1>3, <1>4, <2>1, <2>2 DEF Handed, Lesser
<1>7. \A i \in Jobs : Lesser(s.jobs[i], z.jobs[i])
  BY <1>1, <1>5, <1>6, OnlyLesser
<1>8. Exact(z, {}, {}, B, P, m)
  BY <1>5, <1>7, MoveExact
<1> QED
  BY <1>5, <1>8 DEF z

LEMMA HandIndexed ==
    ASSUME IInv, NEW m \in Int, Indexed(m), NEW j \in Jobs, NEW S, NEW W, S \subseteq store.jobs[j].left,
           store' = Hand(store, j, S, W), UNCHANGED <<running, files, manifest>>
    PROVE  Indexed(m)'
<1> DEFINE z == Hand(store, j, S, W)
           B == RunningName
           P == RunningPoint
<1>1. Exact(store, {}, {}, B, P, m) /\ Referenced(store) /\ m \in Int /\ P \in SUBSET Jobs
  BY IndexedIs
<1>2. Exact(z, {}, {}, B, P, m) /\ SameIndex(store, z)
  <2> HIDE DEF B, P
  <2> QED
    BY <1>1, HandExact
<1> HIDE DEF z
<1>3. store' = z /\ Referenced(z) /\ z.have = store.have /\ z.points = store.points
  BY <1>1, <1>2 DEF SameIndex, Referenced, z
<1> QED
  BY <1>2, <1>3, EngineIndexed

LEMMA StageIndexed ==
    ASSUME IInv, NEW m \in Int, Indexed(m), NEW j \in Jobs, NEW n \in Names, NEW w \in WriteSlots, Stage(j, n, w)
    PROVE  Indexed(m)'
<1>1. {n} \subseteq store.jobs[j].left /\ store' = Hand(store, j, {n}, {w}) /\ UNCHANGED <<running, files, manifest>>
  BY DEF Stage
<1> QED
  BY <1>1, HandIndexed

LEMMA CancelJobIndexed ==
    ASSUME IInv, NEW m \in Int, Indexed(m), NEW j \in Jobs, NEW h \in HandOvers(store, j), store.jobs[j].state = "open",
           store' = CancelJob(store, j, h), UNCHANGED <<running, files, manifest>>
    PROVE  Indexed(m)'
<1> DEFINE z == CancelJob(store, j, h)
           B == RunningName
           P == RunningPoint
           E == tickets \cup RunningCopy
<1>1. Exact(store, {}, {}, B, P, m) /\ Referenced(store) /\ m \in Int /\ Sound(store, E, P, {})
  BY IndexedIs
<1>2. Exact(z, {}, {}, B, P, m) /\ Referenced(z) /\ Ends(store, z)
  <2> HIDE DEF B, P, E
  <2> QED
    BY <1>1, CancelJobExact
<1> HIDE DEF z
<1>3. store' = z /\ z.have \subseteq store.have /\ z.points = store.points
  BY <1>2 DEF Ends, z
<1> QED
  BY <1>2, <1>3, EngineIndexed

LEMMA CancelIndexed ==
    ASSUME IInv, NEW m \in Int, Indexed(m), NEW j \in Jobs, Cancel(j)
    PROVE  Indexed(m)'
BY CancelJobIndexed DEF Cancel

LEMMA GuardIndexed ==
    ASSUME IInv, NEW m \in Int, Indexed(m), NEW j \in Jobs, NEW from, Guard(j, from)
    PROVE  Indexed(m)'
<1> DEFINE left == store.jobs[j].left
<1>1. store.jobs[j].state = "open" /\ UNCHANGED <<running, files, manifest>>
  BY DEF Guard
<1>2. \/ \E W : store' = Hand(store, j, left, W)
      \/ \E h \in HandOvers(store, j) : store' = CancelJob(store, j, h)
  BY DEF Guard
<1>3. left \subseteq store.jobs[j].left
  OBVIOUS
<1> HIDE DEF left
<1> QED
  BY <1>1, <1>2, <1>3, HandIndexed, CancelJobIndexed

\* Less room is spoken for than was.
LEMMA ExactSpare ==
    ASSUME NEW s, NEW N, NEW B, NEW P, NEW m \in Int, NEW l \in Int, Exact(s, {}, N, B, P, m), l <= m
    PROVE  Exact(s, {}, N, B, P, l)
<1>1. s \in Store /\ Books(s, {}, m) /\ HaveLanded(s, N) /\ TasksFit(s, B, P)
  BY ExactIs
<1>2. Books(s, {}, l)
  BY <1>1, RoomSpare
<1> QED
  BY <1>1, <1>2 DEF Exact

\* The writer is at less.
LEMMA ExactLess ==
    ASSUME NEW s, NEW D, NEW N, NEW B, NEW P, NEW C, NEW Q, NEW m, Exact(s, D, N, B, P, m), C \subseteq B, Q \subseteq P
    PROVE  Exact(s, D, N, C, Q, m)
<1>1. TasksFit(s, C, Q)
  BY ExactIs, TasksLess
<1> QED
  BY <1>1 DEF Exact

\* A block that is not to be written after all is given back, its name dropped
\* and its write settled.
LEMMA GoneExact ==
    ASSUME NEW s, NEW E, NEW B, NEW P, NEW m \in Int, NEW x \in E,
           Exact(s, {}, {}, B, P, m), Referenced(s), Sound(s, E, P, {})
    PROVE  LET z == Settle(DropInflight(GiveBack(s, x.job, x.name, x.slot), x.job, x.name), x.job) IN
           Exact(z, {}, {}, B, P, m) /\ Referenced(z) /\ Ends(s, z)
<1> DEFINE j == x.job
           n == x.name
           b == GiveBack(s, x.job, x.name, x.slot)
           d == DropInflight(b, j, n)
           z == Settle(d, j)
           X == {<<x.job, x.name>>}
<1>1. j \in Jobs /\ n \in Names /\ P \in SUBSET Jobs
  BY SoundParts DEF Sound
<1>2. Exact(b, {}, {}, B, P, m + 1) /\ SameIndex(s, b)
  BY GiveBackExact
<1>3. Sound(b, E \ {x}, P, X) /\ n \notin Writes(b.jobs[j])
  BY GiveBackSound
<1> HIDE DEF b
<1>4. Exact(b, {}, {}, B, P, m) /\ Referenced(b)
  <2>1. m + 1 \in Int /\ m <= m + 1
    OBVIOUS
  <2>2. Exact(b, {}, {}, B, P, m)
    BY <1>2, <2>1, ExactSpare
  <2> QED
    BY <1>2, <2>2 DEF SameIndex, Referenced
<1>5. Exact(d, {}, {}, B, P, m) /\ Referenced(d) /\ Ends(b, d)
  <2> HIDE DEF j, n
  <2> QED
    BY <1>1, <1>4, DropInflightExact
<1>6. Sound(d, E \ {x}, P, {})
  <2>1. X = {<<j, n>>}
    OBVIOUS
  <2> HIDE DEF j, n, X
  <2> QED
    BY <1>1, <1>3, <2>1, DropInflightSound
<1> HIDE DEF d, j
<1>7. Exact(z, {}, {}, B, P, m) /\ Referenced(z) /\ Ends(d, z)
  BY <1>1, <1>5, <1>6, SettleExact
<1>8. Ends(s, z)
  BY <1>2, <1>5, <1>7 DEF Ends, SameIndex
<1> QED
  BY <1>7, <1>8 DEF z, d, b, j

\* A block on its way to disk is not in the index.
LEMMA CopyNew ==
    ASSUME NEW s, NEW D, NEW E, NEW B, NEW P, NEW Q, NEW X, NEW m, NEW x \in QueuedCopies(s.tasks) \cup E,
           Exact(s, D, {}, B, P, m), Sound(s, E, Q, X)
    PROVE  x.name \notin s.have /\ s.inflight[x.name] = x.job /\ x.job \in Jobs /\ x.name \in Names
<1>1. x.job \in Jobs /\ x.name \in Names /\ x.name \in s.jobs[x.job].out
  BY SoundParts
<1>2. s.inflight[x.name] = x.job
  BY <1>1 DEF Sound, Flights, Writes
<1>3. x.job # NoJob
  BY <1>1, ConstantsAssumption
<1>4. HaveLanded(s, {})
  BY ExactIs
<1> QED
  BY <1>1, <1>2, <1>3, <1>4 DEF HaveLanded

LEMMA QueueCopyExact ==
    ASSUME NEW s, NEW E, NEW B, NEW P, NEW m \in Int, NEW x \in E, Exact(s, {}, {}, B, P, m), Sound(s, E, P, {})
    PROVE  LET z == Queue(s, [kind |-> "block", job |-> x.job, name |-> x.name, slot |-> x.slot]) IN
           Exact(z, {}, {}, B, P, m) /\ SameIndex(s, z)
<1> DEFINE t == [kind |-> "block", job |-> x.job, name |-> x.name, slot |-> x.slot]
           z == Queue(s, t)
<1>1. s \in Store /\ P \in SUBSET Jobs
  BY ExactIs DEF Sound
<1>2. t \in Task
  BY SoundParts, BlockTaskType
<1>3. x.name \notin s.have
  BY CopyNew
<1>4. t.kind = "block" /\ t.name \notin s.have
  BY <1>3
<1> HIDE DEF t
<1>5. z \in Store
  BY <1>1, <1>2, QueueType DEF Keeps
<1>6. SameIndex(s, z) /\ z.jobs = s.jobs /\ z.inflight = s.inflight /\ z.tasks = Append(s.tasks, t)
  BY <1>1, <1>5 DEF Queue, Store, SameIndex
<1> HIDE DEF z
<1>7. BringsNew(z, t) /\ t.kind # "unlink"
  BY <1>4, <1>6 DEF BringsNew, SameIndex
<1>8. Exact(z, {}, {}, B, P, m)
  BY <1>1, <1>2, <1>6, <1>7, RestExact
<1> QED
  BY <1>6, <1>8 DEF z, t

LEMMA StagedIndexed ==
    ASSUME IInv, NEW m \in Int, Indexed(m), NEW t \in tickets, NEW ok \in BOOLEAN, Staged(t, ok)
    PROVE  Indexed(m)'
<1> DEFINE E == tickets \cup RunningCopy
           B == RunningName
           P == RunningPoint
           j == t.job
           s(h) == IF ~ok /\ store.jobs[j].state = "open" THEN Fail(store, j, h) ELSE store
           task == [kind |-> "block", job |-> t.job, name |-> t.name, slot |-> t.slot]
           gone(y) == Settle(DropInflight(GiveBack(y, t.job, t.name, t.slot), t.job, t.name), t.job)
<1>1. /\ Exact(store, {}, {}, B, P, m) /\ Referenced(store) /\ m \in Int /\ Sound(store, E, P, {})
      /\ t \in E
  BY IndexedIs
<1>2. UNCHANGED <<running, files, manifest>>
  BY DEF Staged
<1>3. PICK h \in HandOvers(store, j) : store' = Queue(s(h), task) \/ store' = gone(s(h))
  BY DEF Staged
<1>4. j \in Jobs
  BY <1>1, SoundParts
<1> DEFINE y == s(h)
<1>5. Exact(y, {}, {}, B, P, m) /\ Referenced(y) /\ Ends(store, y) /\ Sound(y, E, P, {})
  <2> HIDE DEF B, P, E, j
  <2>1. CASE ~ok /\ store.jobs[j].state = "open"
    <3> DEFINE f == Fail(store, j, h)
    <3>1. Exact(f, {}, {}, B, P, m) /\ Referenced(f) /\ Ends(store, f)
      BY <1>1, <1>4, <2>1, FailExact
    <3>2. Sound(f, E, P, {})
      BY <1>1, <1>4, <2>1, FailSound
    <3>3. y = f
      BY <2>1
    <3> HIDE DEF f, y
    <3> QED
      BY <3>1, <3>2, <3>3
  <2>2. CASE ~(~ok /\ store.jobs[j].state = "open")
    <3>1. y = store
      BY <2>2
    <3> HIDE DEF y
    <3> QED
      BY <1>1, <3>1 DEF Ends
  <2> QED
    BY <2>1, <2>2
<1> SUFFICES Exact(store', {}, {}, B, P, m) /\ Referenced(store') /\ Ends(y, store')
  <2> HIDE DEF y
  <2> QED
    BY <1>2, <1>5, EngineIndexed DEF Ends
<1> HIDE DEF y, B, P, E
<1>6. CASE store' = Queue(y, task)
  <2> DEFINE z == Queue(y, task)
  <2>1. Exact(z, {}, {}, B, P, m) /\ SameIndex(y, z)
    BY <1>1, <1>5, QueueCopyExact
  <2> HIDE DEF z
  <2>2. Referenced(z) /\ Ends(y, z)
    BY <1>5, <2>1 DEF SameIndex, Referenced, Ends
  <2> QED
    BY <1>6, <2>1, <2>2 DEF z
<1>7. CASE store' = gone(y)
  <2> DEFINE z == gone(y)
  <2>1. Exact(z, {}, {}, B, P, m) /\ Referenced(z) /\ Ends(y, z)
    BY <1>1, <1>5, GoneExact
  <2> HIDE DEF z
  <2> QED
    BY <1>7, <2>1 DEF z
<1> QED
  BY <1>3, <1>6, <1>7 DEF y

LEMMA TailIn ==
    ASSUME NEW k \in Keys
    PROVE  TailBlock(k) \subseteq Blocks(k)
<1>1. BlocksOf[k] \in Seq(Names) /\ BlocksOf[k] # << >>
  BY NamesType
<1>2. Len(BlocksOf[k]) \in DOMAIN BlocksOf[k]
  BY <1>1
<1> QED
  BY <1>2 DEF TailBlock, Blocks, Range, Last

\* The capture of a write ended, its tail block t on its way to the writer or
\* given up: the write has no more to write than before.
LEMMA CaptureLesser ==
    ASSUME NEW a \in Job, NEW b \in Job, NEW t, a.left \cup a.out \subseteq Blocks(a.key),
           a.parked => a.state \in LiveStates,
           b.key = a.key, b.size = a.size, b.left = a.left, b.parked = a.parked, b.tailSlot = NoSlot,
           b.state = a.state \/ (a.state = "open" /\ b.state = "failed"),
           b.out = a.out \/ (b.out = a.out \cup {t} /\ a.tailSlot # NoSlot /\ TailBlock(a.key) = {t})
    PROVE  Lesser(a, b)
<1>1. TailBlock(a.key) \subseteq Blocks(a.key)
  BY JobFields, TailIn
<1>2. Writes(b) \subseteq Writes(a)
  BY DEF Writes
<1>3. b.left \cup b.out \subseteq Blocks(b.key)
  BY <1>1
<1> QED
  BY <1>2, <1>3 DEF Lesser, LiveStates

LEMMA OutMoreIndex ==
    ASSUME NEW s \in Store, NEW j \in Jobs, NEW n \in Names
    PROVE  LET z == [s EXCEPT !.jobs[j].out = @ \cup {n}] IN
           /\ SameIndex(s, z) /\ z.jobs[j] = [s.jobs[j] EXCEPT !.out = @ \cup {n}] /\ OnlyJob(s, z, j)
           /\ z.inflight = s.inflight /\ z.tasks = s.tasks
<1> DEFINE out == s.jobs[j].out \cup {n}
           r == [s.jobs[j] EXCEPT !.out = out]
           z == [s EXCEPT !.jobs[j].out = @ \cup {n}]
<1>1. s.jobs[j] \in Job /\ out \in SUBSET Names
  BY StoreFields, JobFields
<1>2. r \in Job
  <2> HIDE DEF out
  <2> QED
    BY <1>1 DEF Job
<1>3. z = [s EXCEPT !.jobs[j] = r]
  OBVIOUS
<1>5. r = [s.jobs[j] EXCEPT !.out = @ \cup {n}]
  OBVIOUS
<1> HIDE DEF r, z, out
<1>4. /\ SameIndex(s, z) /\ z.jobs[j] = r /\ OnlyJob(s, z, j)
      /\ z.inflight = s.inflight /\ z.tasks = s.tasks
  <2>1. SameIndex(s, z) /\ OnlyJob(s, z, j) /\ z.inflight = s.inflight /\ z.tasks = s.tasks
    BY <1>2, <1>3, RecordIndex
  <2>2. z.jobs = [s.jobs EXCEPT ![j] = r] /\ s.jobs \in [Jobs -> Job]
    BY <1>3 DEF Store
  <2> QED
    BY <2>1, <2>2
<1> QED
  BY <1>4, <1>5 DEF z

LEMMA CaptureExact ==
    ASSUME IInv, NEW m \in Int, Indexed(m), NEW j \in Jobs, NEW ok \in BOOLEAN, Captured(j, ok)
    PROVE  LET z == CaptureEnds(j, ok) IN
           Exact(z, {}, {}, RunningName, RunningPoint, m) /\ SameIndex(store, z)
<1> DEFINE B == RunningName
           P == RunningPoint
           r == store.jobs[j]
           c == IF ok THEN "ok" ELSE "failed"
           st == IF ~ok /\ r.state = "open" THEN "failed" ELSE r.state
           r1 == [r EXCEPT !.capture = c, !.state = st, !.tailSlot = NoSlot]
           s1 == [store EXCEPT !.jobs[j] = r1]
           t == Last(BlocksOf[r.key])
           task == [kind |-> "block", job |-> j, name |-> t, slot |-> r.tailSlot]
           out == r.out \cup {t}
           r2 == [r1 EXCEPT !.out = out]
           s2 == [s1 EXCEPT !.jobs[j].out = @ \cup {t}]
           s3 == GiveSlot(s1, r.tailSlot)
           z == IF r.tailSlot = NoSlot THEN s1
                ELSE IF s1.jobs[j].state = "open" THEN Queue(s2, task) ELSE s3
<1>1. /\ store \in Store /\ r \in Job /\ Exact(store, {}, {}, B, P, m) /\ m \in Int /\ P \in SUBSET Jobs
      /\ Sound(store, tickets \cup RunningCopy, P, {}) /\ r.capture = "pending" /\ NamesFit(store)
  BY IndexedIs, StoreFields, ExactIs DEF Captured
<1>2. CaptureEnds(j, ok) = z
  BY DEF CaptureEnds
<1>3. r.state \in {"open", "failed", "cancelled"}
  BY <1>1 DEF Captured, Live, Sound, JobsFit, JobFits, LiveStates
<1>4. c \in {"ok", "failed"} /\ st \in LiveStates /\ (st = r.state \/ (r.state = "open" /\ st = "failed"))
  BY <1>3 DEF LiveStates
<1>5. r.key \in Keys /\ t \in Names /\ r.tailSlot \in WriteSlots \cup {NoSlot} /\ r.out \in SUBSET Names
  BY <1>1, JobFields, NamesType
<1>6. TailBlock(r.key) # {} => TailBlock(r.key) = {t}
  BY DEF TailBlock
<1>7. /\ r1 \in Job /\ r1.key = r.key /\ r1.left = r.left /\ r1.parked = r.parked /\ r1.tailSlot = NoSlot
      /\ r1.state = st /\ r1.out = r.out /\ r1.size = r.size
  <2> HIDE DEF c, st, r
  <2> QED
    BY <1>1, <1>4 DEF Job, LiveStates
<1>8. /\ r2 \in Job /\ r2.key = r.key /\ r2.left = r.left /\ r2.parked = r.parked /\ r2.tailSlot = NoSlot
      /\ r2.state = st /\ r2.out = out /\ r2.size = r.size
  <2>1. out \in SUBSET Names
    BY <1>5
  <2> HIDE DEF r1, out
  <2> QED
    BY <1>7, <2>1 DEF Job
<1>9. r.left \cup r.out \subseteq Blocks(r.key) /\ (r.parked => r.state \in LiveStates)
  BY <1>1 DEF NamesFit
<1>10. Lesser(r, r1)
  <2> HIDE DEF r1, r, st
  <2> QED
    BY <1>1, <1>4, <1>7, <1>9, CaptureLesser
<1>11. r.tailSlot # NoSlot => TailBlock(r.key) = {t} /\ Lesser(r, r2)
  <2> SUFFICES ASSUME r.tailSlot # NoSlot PROVE TailBlock(r.key) = {t} /\ Lesser(r, r2)
    OBVIOUS
  <2>1. TailBlock(r.key) = {t}
    BY <1>1, <1>6 DEF Sound, JobsFit, JobFits
  <2>2. out = r.out \cup {t}
    OBVIOUS
  <2> HIDE DEF r2, r, st, out, t
  <2> QED
    BY <1>1, <1>4, <1>8, <1>9, <2>1, <2>2, CaptureLesser
<1>12. \A i \in Jobs : Lesser(store.jobs[i], store.jobs[i])
  BY <1>1, SelfLesser
<1>13. /\ SameIndex(store, s1) /\ s1.jobs[j] = r1 /\ OnlyJob(store, s1, j)
       /\ s1.inflight = store.inflight /\ s1.tasks = store.tasks
  <2> HIDE DEF r1
  <2> QED
    BY <1>1, <1>7, RecordIndex
<1>14. \A i \in Jobs : Lesser(store.jobs[i], s1.jobs[i])
  <2>1. Lesser(store.jobs[j], s1.jobs[j])
    BY <1>10, <1>13
  <2> HIDE DEF s1
  <2> QED
    BY <1>1, <1>13, <2>1, OnlyLesser
<1> SUFFICES Exact(z, {}, {}, B, P, m) /\ SameIndex(store, z)
  BY <1>2
<1>15. CASE r.tailSlot = NoSlot
  <2> HIDE DEF s1, B, P
  <2>1. Exact(s1, {}, {}, B, P, m)
    BY <1>1, <1>13, <1>14, MoveExact
  <2> QED
    BY <1>13, <1>15, <2>1
<1>16. CASE r.tailSlot # NoSlot /\ s1.jobs[j].state = "open"
  <2>1. z = Queue(s2, task)
    BY <1>16
  <2>2. s1 \in Store
    BY <1>13 DEF SameIndex
  <2>3. [s1.jobs[j] EXCEPT !.out = @ \cup {t}] = r2
    <3> HIDE DEF s1, r1
    <3> QED
      BY <1>7, <1>13
  <2> HIDE DEF s1
  <2>4. /\ SameIndex(s1, s2) /\ s2.jobs[j] = [s1.jobs[j] EXCEPT !.out = @ \cup {t}] /\ OnlyJob(s1, s2, j)
        /\ s2.inflight = s1.inflight /\ s2.tasks = s1.tasks
    BY <1>5, <2>2, OutMoreIndex
  <2> HIDE DEF s2, r2, r1
  <2>50. s2.jobs[j] = r2
    BY <2>3, <2>4
  <2>5. task \in Task /\ task.kind = "block" /\ task.name = t
    BY <1>5, <1>16, BlockTaskType
  <2> HIDE DEF task, z
  <2>6. s2 \in Store
    BY <2>4 DEF SameIndex
  <2>7. z \in Store
    BY <2>1, <2>5, <2>6, QueueType DEF Keeps
  <2>8. SameIndex(s2, z) /\ z.jobs = s2.jobs /\ z.inflight = s2.inflight /\ z.tasks = Append(s2.tasks, task)
    BY <2>1, <2>6, <2>7 DEF Queue, Store, SameIndex
  <2>9. /\ SameIndex(store, z) /\ OnlyJob(store, z, j) /\ z.jobs[j] = r2 /\ z.inflight = store.inflight
        /\ z.tasks = Append(store.tasks, task)
    BY <1>13, <2>4, <2>8, <2>50 DEF SameIndex, OnlyJob
  <2>10. \A i \in Jobs : Lesser(store.jobs[i], z.jobs[i])
    <3>1. Lesser(store.jobs[j], z.jobs[j])
      BY <1>11, <1>16, <2>9
    <3> QED
      BY <1>1, <2>9, <3>1, OnlyLesser
  <2>11. t \notin store.have
    <3>1. t \in Writes(r)
      BY <1>11, <1>16 DEF Writes
    <3>2. store.inflight[t] = j
      BY <1>1, <3>1 DEF Sound, Flights
    <3>3. HaveLanded(store, {})
      BY <1>1, ExactIs
    <3> QED
      BY <3>2, <3>3, ConstantsAssumption DEF HaveLanded
  <2>12. BringsNew(z, task) /\ task.kind # "unlink"
    BY <2>5, <2>9, <2>11 DEF BringsNew, SameIndex
  <2> HIDE DEF B, P
  <2>13. Exact(z, {}, {}, B, P, m)
    BY <1>1, <2>5, <2>9, <2>10, <2>12, QueuesExact
  <2> QED
    BY <2>9, <2>13
<1>17. CASE r.tailSlot # NoSlot /\ s1.jobs[j].state # "open"
  <2>1. z = s3
    BY <1>17
  <2>2. s1 \in Store
    BY <1>13 DEF SameIndex
  <2> HIDE DEF s1, z
  <2>3. s3 \in Store
    BY <1>5, <2>2, GiveSlotType DEF Keeps
  <2>4. /\ SameIndex(s1, s3) /\ s3.jobs = s1.jobs /\ s3.inflight = s1.inflight /\ s3.tasks = s1.tasks
    BY <2>2, <2>3 DEF GiveSlot, Store, SameIndex
  <2> HIDE DEF s3
  <2>5. SameIndex(store, s3) /\ s3.inflight = store.inflight /\ s3.tasks = store.tasks
        /\ \A i \in Jobs : Lesser(store.jobs[i], s3.jobs[i])
    BY <1>13, <1>14, <2>4 DEF SameIndex
  <2> HIDE DEF B, P
  <2>6. Exact(s3, {}, {}, B, P, m)
    BY <1>1, <2>5, MoveExact
  <2> QED
    BY <2>1, <2>5, <2>6
<1> QED
  BY <1>15, <1>16, <1>17

LEMMA CapturedIndexed ==
    ASSUME IInv, NEW m \in Int, Indexed(m), NEW j \in Jobs, NEW ok \in BOOLEAN, Captured(j, ok)
    PROVE  Indexed(m)'
<1> DEFINE E == tickets \cup RunningCopy
           B == RunningName
           P == RunningPoint
           y == CaptureEnds(j, ok)
           z == Settle(y, j)
<1>1. Exact(y, {}, {}, B, P, m) /\ SameIndex(store, y)
  BY CaptureExact
<1>2. Sound(y, E, P, {}) /\ store' = z
  BY CapturedSound
<1>3. Referenced(store) /\ m \in Int
  BY IndexedIs
<1> HIDE DEF y
<1>4. Referenced(y) /\ Ends(store, y)
  BY <1>1, <1>3 DEF SameIndex, Referenced, Ends
<1>5. Exact(z, {}, {}, B, P, m) /\ Referenced(z) /\ Ends(y, z)
  <2> HIDE DEF B, P, E
  <2> QED
    BY <1>1, <1>2, <1>3, <1>4, SettleExact
<1> HIDE DEF z
<1>6. UNCHANGED <<running, files, manifest>>
  BY DEF Captured
<1> QED
  BY <1>2, <1>4, <1>5, <1>6, EngineIndexed DEF Ends

-----------------------------------------------------------------------------
(* The writer's actions *)

\* The first task is taken: the writer is at what it brings.
LEMMA PopExact ==
    ASSUME NEW s, NEW m \in Int, Exact(s, {}, {}, {}, {}, m), Referenced(s), s.tasks # << >>
    PROVE  LET z == [s EXCEPT !.tasks = Tail(@)]
               t == Head(s.tasks) IN
           /\ Exact(z, {}, {}, Popping(t, {}), PoppingPoint(t, {}), m) /\ Referenced(z)
           /\ SameIndex(s, z) /\ z.jobs = s.jobs /\ z.inflight = s.inflight /\ t \in Task
           /\ t.kind = "unlink" => t.names \cap z.have = {} /\ t.keys \cap z.points = {}
<1> DEFINE q == s.tasks
           more == Tail(q)
           z == [s EXCEPT !.tasks = more]
           t == Head(q)
<1>1. s \in Store /\ q \in Seq(Task) /\ q # << >> /\ NamesFit(s) /\ TasksFit(s, {}, {})
  BY ExactIs, StoreFields
<1>2. more \in Seq(Task) /\ t \in Task
  BY <1>1
<1>3. Shifted(q, more, t)
  BY <1>1, TailIs
<1> HIDE DEF more, t
<1>4. SameIndex(s, z) /\ z.jobs = s.jobs /\ z.inflight = s.inflight /\ z.tasks = more
  BY <1>1, <1>2 DEF Store, SameIndex
<1> HIDE DEF z
<1>5. \A j \in Jobs : Lesser(s.jobs[j], z.jobs[j])
  BY <1>1, <1>4, SelfLesser
<1>6. /\ Books(z, {}, m) /\ HaveLanded(z, {}) /\ z \in Store
      /\ Shrinks(s, z, QueuedPoints(s.tasks))
  <2> DEFINE P == {}
  <2>1. P \in SUBSET Jobs /\ Exact(s, {}, {}, {}, P, m)
    OBVIOUS
  <2>2. QueuedPoints(s.tasks) \cup P = QueuedPoints(s.tasks)
    OBVIOUS
  <2> HIDE DEF P
  <2>3. /\ Books(z, {}, m) /\ HaveLanded(z, {}) /\ z \in Store
        /\ Shrinks(s, z, QueuedPoints(s.tasks) \cup P)
    BY <1>4, <1>5, <2>1, MoveExact
  <2> QED
    BY <2>2, <2>3
<1>7. Shifted(s.tasks, z.tasks, t)
  BY <1>3, <1>4
<1>8. /\ TasksFit(z, Popping(t, {}), PoppingPoint(t, {}))
      /\ t.kind = "unlink" => t.names \cap z.have = {} /\ t.keys \cap z.points = {}
  BY <1>1, <1>6, <1>7, TasksPop
<1>9. Exact(z, {}, {}, Popping(t, {}), PoppingPoint(t, {}), m)
  BY <1>6, <1>8 DEF Exact
<1>10. Referenced(z)
  BY <1>4 DEF SameIndex, Referenced
<1> QED
  BY <1>2, <1>4, <1>8, <1>9, <1>10 DEF z, t, more

LEMMA TakenExact ==
    ASSUME IInv, NEW m \in Int, Indexed(m), NEW kind, Takes(kind)
    PROVE  LET t == Head(store.tasks) IN
           /\ Exact(Popped, {}, {}, Popping(t, {}), PoppingPoint(t, {}), m) /\ Referenced(Popped)
           /\ SameIndex(store, Popped) /\ Popped.jobs = store.jobs /\ Popped.inflight = store.inflight
           /\ t \in Task /\ t.kind = kind
           /\ t.kind = "unlink" => t.names \cap Popped.have = {} /\ t.keys \cap Popped.points = {}
<1>1. running = Idle /\ store.tasks # << >> /\ Head(store.tasks).kind = kind
  BY DEF Takes
<1>2. RunningName = {} /\ RunningPoint = {}
  BY <1>1 DEF RunningName, RunningPoint, Idle
<1>3. Exact(store, {}, {}, {}, {}, m) /\ Referenced(store) /\ m \in Int
  BY <1>2, IndexedIs
<1> DEFINE z == [store EXCEPT !.tasks = Tail(@)]
           t == Head(store.tasks)
<1>4. /\ Exact(z, {}, {}, Popping(t, {}), PoppingPoint(t, {}), m) /\ Referenced(z)
      /\ SameIndex(store, z) /\ z.jobs = store.jobs /\ z.inflight = store.inflight /\ t \in Task
      /\ t.kind = "unlink" => t.names \cap z.have = {} /\ t.keys \cap z.points = {}
  BY <1>1, <1>3, PopExact
<1>5. Popped = z
  BY DEF Popped
<1> HIDE DEF z
<1> QED
  BY <1>1, <1>4, <1>5

\* The writer is idle, and the index has what is on disk.
LEMMA IdleIndexed ==
    ASSUME NEW m \in Int, running' = Idle, Exact(store', {}, {}, {}, {}, m), Referenced(store'),
           store'.have \subseteq files', \A k \in store'.points : manifest'[k] # "none"
    PROVE  Indexed(m)'
<1>1. RunningName' = {} /\ RunningPoint' = {}
  BY DEF RunningName, RunningPoint, Idle
<1> QED
  BY <1>1 DEF Indexed

LEMMA TakeBlockIndexed ==
    ASSUME IInv, NEW m \in Int, Indexed(m), TakeBlock
    PROVE  Indexed(m)'
<1> DEFINE t == Head(store.tasks)
           x == Part(t)
           E == tickets \cup {x}
           s == Popped
           z == Settle(DropInflight(GiveBack(s, x.job, x.name, x.slot), x.job, x.name), x.job)
<1>1. /\ t \in Task /\ t.kind = "block" /\ Sound(s, E, {}, {})
  BY TakenSound DEF TakeBlock
<1>2. /\ Exact(s, {}, {}, Popping(t, {}), PoppingPoint(t, {}), m) /\ Referenced(s) /\ SameIndex(store, s)
  BY TakenExact DEF TakeBlock
<1>3. x.job = t.job /\ x.name = t.name /\ x.slot = t.slot
  BY DEF Part
<1>4. Popping(t, {}) = {t.name} /\ PoppingPoint(t, {}) = {}
  BY <1>1 DEF Popping, PoppingPoint
<1>5. store.have \subseteq files /\ (\A k \in store.points : manifest[k] # "none") /\ UNCHANGED <<files, manifest>>
  BY IndexedIs DEF TakeBlock
<1>6. \/ running' = t /\ store' = s
      \/ running' = Idle /\ store' = z
  BY <1>3 DEF TakeBlock
<1> HIDE DEF s
<1>7. CASE running' = t /\ store' = s
  <2>1. RunningName' = {t.name} /\ RunningPoint' = {}
    BY <1>1, <1>7 DEF RunningName, RunningPoint
  <2> QED
    BY <1>2, <1>4, <1>5, <1>7, <2>1 DEF Indexed, SameIndex
<1>8. CASE running' = Idle /\ store' = z
  <2>1. x \in E /\ m \in Int /\ Exact(s, {}, {}, {}, {}, m)
    <3>1. Exact(s, {}, {}, {t.name}, {}, m)
      BY <1>2, <1>4
    <3>2. Exact(s, {}, {}, {}, {}, m)
      BY <3>1, ExactLess
    <3> QED
      BY <3>2
  <2> HIDE DEF E, x
  <2>2. Exact(z, {}, {}, {}, {}, m) /\ Referenced(z) /\ Ends(s, z)
    BY <1>1, <1>2, <2>1, GoneExact
  <2> HIDE DEF z
  <2> QED
    BY <1>2, <1>5, <1>8, <2>2, IdleIndexed DEF SameIndex, Ends
<1> QED
  BY <1>6, <1>7, <1>8

\* A block the writer is done with leaves the names in flight, its write is settled.
LEMMA FinishExact ==
    ASSUME NEW s, NEW E, NEW N, NEW B, NEW P, NEW m \in Int, NEW j \in Jobs, NEW n \in Names,
           Exact(s, {}, N, B, P, m), Referenced(s), N = {} \/ (N = {n} /\ s.inflight[n] = j),
           Sound(s, E, P, {<<j, n>>}), n \notin Writes(s.jobs[j])
    PROVE  LET z == Settle(DropInflight(s, j, n), j) IN
           Exact(z, {}, {}, B, P, m) /\ Referenced(z) /\ Ends(s, z)
<1> DEFINE d == DropInflight(s, j, n)
           z == Settle(d, j)
<1>1. P \in SUBSET Jobs
  BY DEF Sound
<1>2. Exact(d, {}, {}, B, P, m) /\ Referenced(d) /\ Ends(s, d)
  BY <1>1, DropInflightExact
<1>3. Sound(d, E, P, {})
  BY DropInflightSound
<1> HIDE DEF d
<1>4. Exact(z, {}, {}, B, P, m) /\ Referenced(z) /\ Ends(d, z)
  BY <1>2, <1>3, SettleExact
<1>5. Ends(s, z)
  BY <1>2, <1>4, EndsTrans
<1> QED
  BY <1>4, <1>5 DEF z, d

\* A block x the writer wrote is in the index.
LEMMA WrittenExact ==
    ASSUME NEW m \in Int, NEW s, NEW E, NEW x \in E, Exact(s, {}, {}, {x.name}, {}, m), Referenced(s), Sound(s, E, {}, {})
    PROVE  LET b == GiveBack(s, x.job, x.name, x.slot)
               z == Settle(DropInflight(AddBlock(b, x.name), x.job, x.name), x.job) IN
           /\ Exact(z, {}, {}, {}, {}, m) /\ Referenced(z)
           /\ z.points = s.points /\ z.have \subseteq s.have \cup {x.name}
<1> DEFINE j == x.job
           n == x.name
           X == {<<x.job, x.name>>}
           b == GiveBack(s, x.job, x.name, x.slot)
           c == AddBlock(b, n)
           z == Settle(DropInflight(c, j, n), j)
           N == {n}
<1>0. \A y \in QueuedCopies(s.tasks) \cup E : y.name \notin s.have /\ s.inflight[y.name] = y.job
  <2> DEFINE C == QueuedCopies(s.tasks) \cup E
             M == {x.name}
  <2> SUFFICES ASSUME NEW y \in C PROVE y.name \notin s.have /\ s.inflight[y.name] = y.job
    OBVIOUS
  <2>1. Exact(s, {}, {}, M, {}, m) /\ y \in QueuedCopies(s.tasks) \cup E
    OBVIOUS
  <2> HIDE DEF M, C
  <2> QED
    BY <2>1, CopyNew
<1>1. /\ j \in Jobs /\ n \in Names /\ s.inflight[n] = j /\ n \notin s.have /\ m \in Int /\ s \in Store
      /\ s.jobs[j] \in Job /\ n \in s.jobs[j].out
  BY CopyNew, SoundParts
<1>2. Exact(b, {}, {}, N, {}, m + 1) /\ SameIndex(s, b) /\ b.inflight = s.inflight /\ b.tasks = s.tasks
  BY <1>1, GiveBackExact
<1>3. /\ Sound(b, E \ {x}, {}, X) /\ n \notin Writes(b.jobs[j])
  BY GiveBackSound
<1> HIDE DEF b
<1>4. Exact(b, {}, {}, N, {}, m + 1) /\ Referenced(b) /\ b \in Store
  BY <1>2 DEF SameIndex, Referenced
<1>5. b.refs[n] > 0
  <2>1. j \in Wanting(s, n)
    <3>1. NamesFit(s) /\ JobFits(s.jobs[j])
      BY <1>1, ExactIs DEF Sound, JobsFit
    <3>2. n \in Blocks(s.jobs[j].key)
      BY <1>1, <3>1 DEF NamesFit
    <3>3. s.jobs[j].state \in LiveStates
      BY <1>1, <3>1 DEF JobFits
    <3> QED
      BY <1>1, <3>2, <3>3 DEF Wanting, Live, NamesOf
  <2>2. RefsAre(s, {})
    BY ExactIs
  <2>3. /\ IsFiniteSet(Wanting(s, n)) /\ Cardinality(Wanting(s, n)) \in Nat /\ Cardinality(Naming(s, n)) \in Nat
    BY <1>1, CountsType
  <2>4. Cardinality(Wanting(s, n)) # 0
    <3> DEFINE W == Wanting(s, n)
    <3>1. IsFiniteSet(W) /\ W # {}
      BY <2>1, <2>3
    <3> HIDE DEF W
    <3>2. Cardinality(W) # 0
      BY <3>1, FS_EmptySet
    <3> QED
      BY <3>2 DEF W
  <2>5. s.refs[n] = Cardinality(Naming(s, n)) + Cardinality(Wanting(s, n)) + 0
    BY <1>1, <2>2 DEF RefsAre
  <2> HIDE DEF n
  <2>6. s.refs[n] > 0
    BY <2>3, <2>4, <2>5
  <2> QED
    BY <1>2, <2>6 DEF SameIndex
<1>6. \A y \in QueuedCopies(b.tasks) : y.name \notin b.have \cup {n}
  <2> SUFFICES ASSUME NEW y \in QueuedCopies(s.tasks) PROVE y.name \notin s.have /\ y.name # n
    BY <1>2 DEF SameIndex
  <2>1. y.name \notin s.have /\ s.inflight[y.name] = y.job
    BY <1>0
  <2>2. y \notin E
    BY DEF Sound, QueueFits
  <2>3. y.name = n => y = x
    <3>1. CopiesFit(s, QueuedCopies(s.tasks) \cup E)
      BY DEF Sound, SlotsFit
    <3>2. y.name = n => y.job = j
      BY <1>1, <2>1
    <3> QED
      BY <3>1, <3>2 DEF CopiesFit
  <2> QED
    BY <2>1, <2>2, <2>3
<1>7. \A i \in QueuedPoints(b.tasks) : i \in Live(b)
  <2>1. \A i \in QueuedPoints(b.tasks) : b.jobs[i].state = "publishing" /\ i \in Jobs
    <3>1. QueueFits(b, E \ {x}, {})
      BY <1>3 DEF Sound
    <3>2. QueuedPoints(b.tasks) \cup {} \subseteq Jobs
      BY <1>3, SoundParts
    <3> QED
      BY <3>1, <3>2 DEF QueueFits
  <2> QED
    BY <2>1 DEF Live, LiveStates
<1> HIDE DEF n
<1>8. /\ Exact(c, {}, N, {}, {}, m) /\ Referenced(c) /\ SameWork(b, c) /\ c.tasks = b.tasks
      /\ c.have = b.have \cup {n} /\ c.points = b.points
  BY <1>1, <1>4, <1>5, <1>6, <1>7, LandExact
<1>9. Sound(c, E \ {x}, {}, X)
  <2>1. Alike(b, c)
    BY <1>1, <1>4, AddBlockAlike
  <2> HIDE DEF c, X
  <2> QED
    BY <1>3, <2>1, AlikeSound
<1>10. c.inflight[n] = j /\ n \notin Writes(c.jobs[j])
  BY <1>1, <1>2, <1>3, <1>8 DEF SameWork
<1>11. X = {<<j, n>>}
  BY DEF n
<1> HIDE DEF c, j, X
<1>12. Exact(z, {}, {}, {}, {}, m) /\ Referenced(z) /\ Ends(c, z)
  <2>1. Sound(c, E \ {x}, {}, {<<j, n>>})
    BY <1>9, <1>11
  <2>2. N = {n}
    OBVIOUS
  <2> HIDE DEF N
  <2> QED
    BY <1>1, <1>8, <1>10, <2>1, <2>2, FinishExact
<1> HIDE DEF z
<1>13. z.points = s.points /\ z.have \subseteq s.have \cup {n}
  BY <1>2, <1>8, <1>12 DEF Ends, SameIndex
<1> QED
  BY <1>12, <1>13 DEF z, c, b, n, j

\* A block x the writer could not write: its write fails if it was open.
LEMMA UnwrittenExact ==
    ASSUME NEW m \in Int, NEW s, NEW E, NEW x \in E, NEW h \in HandOvers(s, x.job), NEW B,
           Exact(s, {}, {}, B, {}, m), Referenced(s), Sound(s, E, {}, {})
    PROVE  LET b == GiveBack(s, x.job, x.name, x.slot)
               c == IF b.jobs[x.job].state = "open" THEN Fail(b, x.job, h) ELSE b
               z == Settle(DropInflight(c, x.job, x.name), x.job) IN
           Exact(z, {}, {}, B, {}, m) /\ Referenced(z) /\ Ends(s, z)
<1> DEFINE j == x.job
           n == x.name
           X == {<<x.job, x.name>>}
           b == GiveBack(s, x.job, x.name, x.slot)
           c == IF b.jobs[j].state = "open" THEN Fail(b, j, h) ELSE b
           z == Settle(DropInflight(c, j, n), j)
<1>1. j \in Jobs /\ n \in Names /\ m \in Int /\ m + 1 \in Int /\ m <= m + 1
  BY SoundParts
<1>2. Exact(b, {}, {}, B, {}, m + 1) /\ SameIndex(s, b)
  BY <1>1, GiveBackExact
<1>3. Sound(b, E \ {x}, {}, X) /\ n \notin Writes(b.jobs[j])
  BY GiveBackSound
<1>4. h \in HandOvers(b, j)
  BY GiveBackHandOvers
<1> HIDE DEF b
<1>5. Exact(b, {}, {}, B, {}, m) /\ Referenced(b) /\ Ends(s, b)
  <2>1. Exact(b, {}, {}, B, {}, m)
    BY <1>1, <1>2, ExactSpare
  <2> QED
    BY <1>2, <2>1 DEF SameIndex, Referenced, Ends
<1> HIDE DEF n, j
<1>6. Exact(c, {}, {}, B, {}, m) /\ Referenced(c) /\ Ends(b, c) /\ Sound(c, E \ {x}, {}, X) /\ n \notin Writes(c.jobs[j])
  <2> HIDE DEF X
  <2>1. CASE b.jobs[j].state = "open"
    <3> DEFINE f == Fail(b, j, h)
    <3>1. Exact(f, {}, {}, B, {}, m) /\ Referenced(f) /\ Ends(b, f)
      BY <1>1, <1>3, <1>4, <1>5, <2>1, FailExact
    <3>2. Sound(f, E \ {x}, {}, X) /\ Writes(f.jobs[j]) \subseteq Writes(b.jobs[j])
      BY <1>1, <1>3, <1>4, <2>1, FailSound
    <3>3. c = f
      BY <2>1
    <3> HIDE DEF f, c
    <3> QED
      BY <1>3, <3>1, <3>2, <3>3
  <2>2. CASE b.jobs[j].state # "open"
    <3>1. c = b
      BY <2>2
    <3> HIDE DEF c
    <3> QED
      BY <1>3, <1>5, <3>1 DEF Ends
  <2> QED
    BY <2>1, <2>2
<1> HIDE DEF c
<1>7. X = {<<j, n>>}
  BY DEF j, n
<1> HIDE DEF X
<1>8. Exact(z, {}, {}, B, {}, m) /\ Referenced(z) /\ Ends(c, z)
  <2>1. Sound(c, E \ {x}, {}, {<<j, n>>})
    BY <1>6, <1>7
  <2> DEFINE N == {}
  <2>2. N = {} /\ Exact(c, {}, N, B, {}, m)
    BY <1>6
  <2> HIDE DEF N
  <2> QED
    BY <1>1, <1>6, <2>1, <2>2, FinishExact
<1>9. Ends(s, z)
  <2> HIDE DEF z
  <2> QED
    BY <1>5, <1>6, <1>8 DEF Ends
<1> QED
  BY <1>8, <1>9 DEF z, c, b, n, j

LEMMA BlockWrittenIndexed ==
    ASSUME IInv, NEW m \in Int, Indexed(m), NEW ok \in BOOLEAN, BlockWritten(ok)
    PROVE  Indexed(m)'
<1> DEFINE x == Part(running)
           E == tickets \cup {x}
           b == GiveBack(store, x.job, x.name, x.slot)
           c(h) == IF b.jobs[x.job].state = "open" THEN Fail(b, x.job, h) ELSE b
           done(d) == Settle(DropInflight(d, x.job, x.name), x.job)
<1>1. running.kind = "block" /\ running' = Idle
  BY DEF BlockWritten
<1>2. x.job = running.job /\ x.name = running.name /\ x.slot = running.slot
  BY DEF Part
<1>3. RunningCopy = {x} /\ RunningPoint = {} /\ RunningName = {x.name}
  BY <1>1, <1>2 DEF RunningCopy, RunningPoint, RunningName
<1>4. /\ Exact(store, {}, {}, {x.name}, {}, m) /\ Referenced(store) /\ Sound(store, E, {}, {})
      /\ store.have \subseteq files /\ (\A k \in store.points : manifest[k] # "none")
  <2> HIDE DEF x
  <2> QED
    BY <1>3, IndexedIs
<1>5. x \in E
  OBVIOUS
<1>6. PICK h \in HandOvers(store, x.job) : store' = done(IF ok THEN AddBlock(b, x.name) ELSE c(h))
  BY <1>2 DEF BlockWritten
<1>7. UNCHANGED manifest /\ files \subseteq files' /\ (ok => x.name \in files')
  BY <1>2 DEF BlockWritten
<1>8. CASE ok
  <2> DEFINE z == done(AddBlock(b, x.name))
  <2>1. store' = z
    BY <1>6, <1>8
  <2>2. /\ Exact(z, {}, {}, {}, {}, m) /\ Referenced(z)
        /\ z.points = store.points /\ z.have \subseteq store.have \cup {x.name}
    <3> HIDE DEF x, E
    <3> QED
      BY <1>4, <1>5, WrittenExact
  <2> HIDE DEF z, x, E
  <2> QED
    BY <1>1, <1>4, <1>7, <1>8, <2>1, <2>2, IdleIndexed
<1>9. CASE ~ok
  <2> DEFINE z == done(c(h))
  <2>1. store' = z
    BY <1>6, <1>9
  <2>2. Exact(store, {}, {}, {}, {}, m)
    <3> HIDE DEF x
    <3>1. {} \subseteq {x.name}
      OBVIOUS
    <3> QED
      BY <1>4, <3>1, ExactLess
  <2>3. Exact(z, {}, {}, {}, {}, m) /\ Referenced(z) /\ Ends(store, z)
    <3> HIDE DEF x, E
    <3> QED
      BY <1>4, <1>5, <1>6, <2>2, UnwrittenExact
  <2> HIDE DEF z, x, E
  <2> QED
    BY <1>1, <1>4, <1>7, <2>1, <2>3, IdleIndexed DEF Ends
<1> QED
  BY <1>8, <1>9

\* A point whose write parks waits outside the queue.
LEMMA ParkExact ==
    ASSUME NEW s, NEW m \in Int, NEW j \in Jobs, Exact(s, {}, {}, {}, {}, m), s.jobs[j].state \in LiveStates
    PROVE  LET z == [s EXCEPT !.jobs[j].parked = TRUE] IN
           Exact(z, {}, {}, {}, {}, m) /\ SameIndex(s, z)
<1> DEFINE a == s.jobs[j]
           r == [a EXCEPT !.parked = TRUE]
           z == [s EXCEPT !.jobs[j].parked = TRUE]
           P == {}
<1>1. s \in Store /\ NamesFit(s) /\ a \in Job
  BY ExactIs, StoreFields
<1>2. /\ r \in Job /\ r.key = a.key /\ r.size = a.size /\ r.left = a.left /\ r.out = a.out
      /\ r.tailSlot = a.tailSlot /\ r.state = a.state
  BY <1>1 DEF Job
<1>3. Lesser(a, r)
  <2>1. a.left \cup a.out \subseteq Blocks(a.key)
    BY <1>1 DEF NamesFit
  <2>2. Writes(r) = Writes(a)
    BY <1>2 DEF Writes
  <2>3. a.state \in LiveStates
    OBVIOUS
  <2> HIDE DEF r, a
  <2> QED
    BY <1>2, <2>1, <2>2, <2>3 DEF Lesser
<1>4. z = [s EXCEPT !.jobs[j] = r]
  BY <1>1 DEF Store
<1> HIDE DEF r, z
<1>5. SameIndex(s, z) /\ z.jobs[j] = r /\ OnlyJob(s, z, j) /\ z.inflight = s.inflight /\ z.tasks = s.tasks
  BY <1>1, <1>2, <1>4, RecordIndex
<1>6. \A i \in Jobs : Lesser(s.jobs[i], z.jobs[i])
  BY <1>1, <1>3, <1>5, OnlyLesser
<1>7. P \in SUBSET Jobs /\ Exact(s, {}, {}, {}, P, m)
  OBVIOUS
<1> HIDE DEF P
<1>8. Exact(z, {}, {}, {}, P, m)
  BY <1>5, <1>6, <1>7, MoveExact
<1> QED
  BY <1>5, <1>8 DEF z, P

\* A write whose point is not published ends.
LEMMA GivenUpExact ==
    ASSUME NEW m \in Int, NEW s, NEW j \in Jobs, Exact(s, {}, {}, {}, {}, m), Referenced(s),
           s.jobs[j].state = "publishing", j \notin QueuedPoints(s.tasks)
    PROVE  LET z == EndJob(s, j, FALSE) IN
           Exact(z, {}, {}, {}, {}, m) /\ Referenced(z) /\ Ends(s, z)
<1> DEFINE P == {}
<1>1. P \in SUBSET Jobs /\ m \in Int /\ FALSE \in BOOLEAN /\ j \notin QueuedPoints(s.tasks) \cup P
  OBVIOUS
<1>2. Exact(s, {}, {}, {}, P, m)
  OBVIOUS
<1>3. j \in Live(s)
  BY DEF Live, LiveStates
<1> HIDE DEF P
<1>4. LET z == EndJob(s, j, FALSE) IN Exact(z, {}, {}, {}, P, m) /\ Referenced(z) /\ Ends(s, z)
  BY <1>1, <1>2, <1>3, EndJobExact
<1> QED
  BY <1>4 DEF P

LEMMA TakePointIndexed ==
    ASSUME IInv, NEW m \in Int, Indexed(m), TakePoint
    PROVE  Indexed(m)'
<1> DEFINE j == Head(store.tasks).job
           t == Head(store.tasks)
           s == Popped
           flag == store.jobs[j].key \in store.shared
<1>1. /\ j \notin QueuedPoints(s.tasks) /\ Sound(s, tickets, {j}, {})
  BY TakenSound DEF TakePoint
<1>2. /\ Exact(s, {}, {}, Popping(t, {}), PoppingPoint(t, {}), m) /\ Referenced(s) /\ SameIndex(store, s)
      /\ t.kind = "point"
  BY TakenExact DEF TakePoint
<1>3. Popping(t, {}) = {} /\ PoppingPoint(t, {}) = {j}
  BY <1>2 DEF Popping, PoppingPoint
<1>4. store.have \subseteq files /\ (\A k \in store.points : manifest[k] # "none") /\ UNCHANGED <<files, manifest>>
  BY IndexedIs DEF TakePoint
<1>5. \/ store' = [s EXCEPT !.jobs[j].parked = TRUE] /\ UNCHANGED running
      \/ store' = EndJob(s, j, FALSE) /\ UNCHANGED running
      \/ store' = s /\ running' = [kind |-> "point", job |-> j, flag |-> flag]
  BY DEF TakePoint
<1>6. running = Idle
  BY DEF TakePoint, Takes
<1>7. j \in Jobs /\ s.jobs[j].state = "publishing"
  <2>1. j \in Jobs
    BY <1>1 DEF Sound
  <2>2. QueueFits(s, tickets, {j})
    BY <1>1 DEF Sound
  <2> QED
    BY <2>1, <2>2 DEF QueueFits
<1>8. Exact(s, {}, {}, {}, {}, m) /\ m \in Int
  <2>1. Exact(s, {}, {}, {}, {j}, m)
    BY <1>2, <1>3
  <2>2. Exact(s, {}, {}, {}, {}, m)
    BY <2>1, ExactLess
  <2> QED
    BY <2>2
<1>9. store.have = s.have /\ store.points = s.points
  BY <1>2 DEF SameIndex
<1> HIDE DEF s, j, flag
<1>10. CASE store' = [s EXCEPT !.jobs[j].parked = TRUE] /\ UNCHANGED running
  <2>1. s.jobs[j].state \in LiveStates
    BY <1>7 DEF LiveStates
  <2> DEFINE z == [s EXCEPT !.jobs[j].parked = TRUE]
  <2>2. Exact(z, {}, {}, {}, {}, m) /\ SameIndex(s, z)
    BY <1>7, <1>8, <2>1, ParkExact
  <2>3. store' = z
    BY <1>10
  <2> HIDE DEF z
  <2>4. Referenced(z) /\ z.have = s.have /\ z.points = s.points
    BY <1>2, <2>2 DEF SameIndex, Referenced
  <2> QED
    BY <1>4, <1>6, <1>9, <1>10, <2>2, <2>3, <2>4, IdleIndexed
<1>11. CASE store' = EndJob(s, j, FALSE) /\ UNCHANGED running
  <2> DEFINE z == EndJob(s, j, FALSE)
  <2>1. Exact(z, {}, {}, {}, {}, m) /\ Referenced(z) /\ Ends(s, z)
    BY <1>1, <1>2, <1>7, <1>8, GivenUpExact
  <2>2. store' = z
    BY <1>11
  <2> HIDE DEF z
  <2> QED
    BY <1>4, <1>6, <1>9, <1>11, <2>1, <2>2, IdleIndexed DEF Ends
<1>12. CASE store' = s /\ running' = [kind |-> "point", job |-> j, flag |-> flag]
  <2>1. RunningName' = {} /\ RunningPoint' = {j}
    BY <1>12 DEF RunningName, RunningPoint
  <2>2. Exact(s, {}, {}, {}, {j}, m)
    BY <1>2, <1>3
  <2> QED
    BY <1>2, <1>4, <1>9, <1>12, <2>1, <2>2 DEF Indexed
<1> QED
  BY <1>5, <1>10, <1>11, <1>12

LEMMA PointFailedIndexed ==
    ASSUME IInv, NEW m \in Int, Indexed(m), PointFailed
    PROVE  Indexed(m)'
<1> DEFINE j == running.job
           k == store.jobs[j].key
           z == EndJob(store, j, FALSE)
<1>1. running.kind = "point" /\ running' = Idle /\ store' = z /\ UNCHANGED files
      /\ manifest' = [manifest EXCEPT ![k] = "none"]
  BY DEF PointFailed
<1>2. RunningPoint = {j} /\ RunningName = {} /\ manifest \in [Keys -> Manifests]
  BY <1>1 DEF RunningPoint, RunningName, IInv, TypeOK
<1>3. /\ store \in Store /\ Exact(store, {}, {}, {}, {j}, m) /\ Referenced(store) /\ j \in Jobs
      /\ Sound(store, tickets \cup RunningCopy, {j}, {})
      /\ store.have \subseteq files /\ \A i \in store.points : manifest[i] # "none"
  BY <1>2, IndexedIs
<1> HIDE DEF j
<1>4. store.jobs[j].state = "publishing" /\ j \notin QueuedPoints(store.tasks)
  BY <1>3 DEF Sound, QueueFits
<1>5. Exact(store, {}, {}, {}, {}, m)
  <2>1. {} \subseteq {j}
    OBVIOUS
  <2> QED
    BY <1>3, <2>1, ExactLess
<1>6. Exact(z, {}, {}, {}, {}, m) /\ Referenced(z) /\ Ends(store, z)
  BY <1>3, <1>4, <1>5, GivenUpExact
<1>7. k \notin store.points /\ store.points \in SUBSET Keys
  <2>1. WaitsOnce(store) /\ j \in Live(store)
    BY <1>3, <1>4, ExactIs DEF Live, LiveStates
  <2> QED
    BY <1>3, <2>1, StoreFields DEF WaitsOnce
<1> HIDE DEF z, k
<1>8. \A i \in z.points : manifest'[i] # "none"
  BY <1>1, <1>2, <1>3, <1>6, <1>7 DEF Ends
<1> QED
  BY <1>1, <1>3, <1>6, <1>8, IdleIndexed DEF Ends

\* What a publication leaves, its flag rewritten and its path trimmed.
LEMMA TrimExact ==
    ASSUME NEW m \in Int, NEW s, NEW k \in Keys, NEW flag, Exact(s, {}, {}, {}, {}, m), Referenced(s)
    PROVE  LET x == IF k \in s.shared /\ ~flag THEN Queue(s, [kind |-> "shared", key |-> k]) ELSE s
               z == TrimPath(x, k) IN
           /\ Exact(z, {}, {}, {}, {}, m) /\ Referenced(z)
           /\ z.points \subseteq s.points /\ z.have \subseteq s.have
<1> DEFINE x == IF k \in s.shared /\ ~flag THEN Queue(s, [kind |-> "shared", key |-> k]) ELSE s
           z == TrimPath(x, k)
           P == {}
<1>1. P \in SUBSET Jobs /\ m \in Int /\ Exact(s, {}, {}, {}, P, m)
  OBVIOUS
<1>2. Exact(x, {}, {}, {}, P, m) /\ Referenced(x) /\ x.points = s.points /\ x.have = s.have
  <2>1. CASE x = s
    BY <1>1, <2>1
  <2>2. CASE x = Queue(s, [kind |-> "shared", key |-> k])
    <3> DEFINE y == Queue(s, [kind |-> "shared", key |-> k])
    <3> HIDE DEF P
    <3>1. Exact(y, {}, {}, {}, P, m) /\ SameIndex(s, y)
      BY <1>1, QueueSharedExact
    <3>2. x = y
      BY <2>2
    <3> HIDE DEF x, y
    <3> QED
      BY <3>1, <3>2 DEF SameIndex, Referenced
  <2> QED
    BY <2>1, <2>2
<1> HIDE DEF x, P
<1>3. Exact(z, {}, {}, {}, P, m) /\ Referenced(z) /\ z.points \subseteq x.points /\ z.have \subseteq x.have
  <2>1. CASE z = x
    BY <1>2, <2>1
  <2>2. ASSUME NEW V, z = RemovePoints(x, V)
        PROVE  Exact(z, {}, {}, {}, P, m) /\ Referenced(z) /\ z.points \subseteq x.points /\ z.have \subseteq x.have
    <3>1. LET y == RemovePoints(x, V) IN
          /\ Exact(y, {}, {}, {}, P, m) /\ Referenced(y) /\ y.have \subseteq x.have /\ y.points = x.points \ V
      BY <1>1, <1>2, RemoveExact
    <3> HIDE DEF z
    <3> QED
      BY <2>2, <3>1
  <2>3. z = x \/ \E V : z = RemovePoints(x, V)
    BY DEF TrimPath
  <2> HIDE DEF z
  <2> QED
    BY <2>1, <2>2, <2>3
<1> QED
  BY <1>2, <1>3 DEF z, x, P

\* The files of a point that a missing block keeps out of the index are queued
\* for deletion: no other write is on its way to the same point.
LEMMA DiscardExact ==
    ASSUME NEW m \in Int, NEW s, NEW E, NEW j \in Jobs, Exact(s, {}, {}, {}, {j}, m), Sound(s, E, {j}, {})
    PROVE  LET z == Queue(s, [kind |-> "unlink", keys |-> {s.jobs[j].key}, names |-> {}]) IN
           Exact(z, {}, {}, {}, {}, m) /\ SameIndex(s, z) /\ z.jobs = s.jobs
<1> DEFINE k == s.jobs[j].key
           t == [kind |-> "unlink", keys |-> {k}, names |-> {}]
           z == Queue(s, t)
           q == s.tasks
           P == {}
<1>1. s \in Store /\ q \in Seq(Task) /\ TasksFit(s, {}, {j}) /\ NamesFit(s) /\ WaitsOnce(s) /\ k \in Keys
  BY ExactIs, StoreFields, JobFields
<1>2. t \in Task /\ t.kind = "unlink" /\ t.keys = {k} /\ t.names = {}
  BY <1>1, UnlinkType
<1>3. Append(q, t) \in Seq(Task) /\ Appended(q, Append(q, t), t)
  BY <1>1, <1>2, AppendIs
<1> HIDE DEF t
<1>4. SameIndex(s, z) /\ z.jobs = s.jobs /\ z.inflight = s.inflight /\ z.tasks = Append(q, t)
  BY <1>1, <1>3 DEF Queue, Store, SameIndex
<1> HIDE DEF z
<1>5. \A i \in Jobs : Lesser(s.jobs[i], z.jobs[i])
  BY <1>1, <1>4, SelfLesser
<1>6. Exact(s, {}, {}, {}, P, m) /\ P \in SUBSET Jobs /\ m \in Int
  <2>1. P \in SUBSET Jobs /\ P \subseteq {j}
    OBVIOUS
  <2> HIDE DEF P
  <2>2. Exact(s, {}, {}, {}, P, m)
    BY <2>1, ExactLess
  <2> QED
    BY <2>1, <2>2
<1>7. KeysOf(s, {j}) \cap s.points = {} /\ k \in KeysOf(s, {j})
  <2>1. k \in KeysOf(s, {j})
    BY DEF KeysOf
  <2> QED
    BY <1>1, <2>1 DEF TasksFit
<1>8. \A i \in QueuedPoints(q) : i \in Jobs /\ s.jobs[i].key # k
  <2> SUFFICES ASSUME NEW i \in QueuedPoints(q) PROVE i \in Jobs /\ s.jobs[i].key # k
    OBVIOUS
  <2>1. QueueFits(s, E, {j}) /\ QueuedPoints(q) \cup {j} \subseteq Jobs
    BY SoundParts DEF Sound
  <2>2. i \in Live(s) /\ j \in Live(s) /\ i # j
    BY <2>1 DEF QueueFits, Live, LiveStates
  <2>3. s.jobs[i].key = s.jobs[j].key => i = j
    BY <1>1, <2>2 DEF WaitsOnce
  <2> QED
    BY <2>1, <2>2, <2>3
<1> HIDE DEF P, k
<1>9. /\ Books(z, {}, m) /\ HaveLanded(z, {}) /\ z \in Store /\ TasksFit(s, {}, P)
      /\ Shrinks(s, z, QueuedPoints(q) \cup P)
  BY <1>4, <1>5, <1>6, MoveExact
<1>10. BringsNew(z, t)
  BY <1>2 DEF BringsNew
<1>11. Deletes(z, t, {}, P)
  BY <1>2, <1>4, <1>7 DEF Deletes, SameIndex, KeysOf, P
<1>12. \A a \in 1 .. Len(q) : After(z, q[a], t)
  <2> SUFFICES ASSUME NEW a \in 1 .. Len(q) PROVE After(z, q[a], t)
    OBVIOUS
  <2>1. q[a].kind = "point" => q[a].job \in QueuedPoints(q)
    BY <1>1, QueueParts
  <2>2. q[a].kind = "point" => s.jobs[q[a].job].key # k
    BY <1>8, <2>1
  <2> DEFINE u == q[a]
  <2> HIDE DEF u
  <2>3. u.kind = "point" => z.jobs[u.job].key \notin t.keys
    BY <1>2, <1>4, <2>2 DEF u
  <2>4. u.kind = "block" => u.name \notin t.names
    BY <1>2
  <2>5. After(z, u, t)
    BY <2>3, <2>4 DEF After
  <2> QED
    BY <2>5 DEF u
<1>13. Appended(s.tasks, z.tasks, t)
  BY <1>3, <1>4
<1>14. TasksFit(z, {}, P)
  BY <1>1, <1>2, <1>9, <1>10, <1>11, <1>12, <1>13, TasksAppend
<1>15. Exact(z, {}, {}, {}, P, m)
  BY <1>9, <1>14 DEF Exact
<1> QED
  BY <1>4, <1>15 DEF z, t, k, P

LEMMA PointWrittenIndexed ==
    ASSUME IInv, NEW m \in Int, Indexed(m), PointWritten
    PROVE  Indexed(m)'
<1> DEFINE j == running.job
           k == store.jobs[j].key
           p == [Ref(store, Blocks(k)) EXCEPT !.points = @ \cup {k}, !.stored = @ + FileBytes]
           y == EndJob(p, j, TRUE)
           x == IF k \in y.shared /\ ~running.flag THEN Queue(y, [kind |-> "shared", key |-> k]) ELSE y
           z == TrimPath(x, k)
           d == Queue(store, [kind |-> "unlink", keys |-> {k}, names |-> {}])
           e == EndJob(d, j, FALSE)
<1>1. running.kind = "point" /\ running' = Idle /\ UNCHANGED files
      /\ manifest' = [manifest EXCEPT ![k] = Flag(running.flag)]
  BY DEF PointWritten
<1>2. store' = IF Blocks(k) \subseteq store.have THEN z ELSE e
  BY DEF PointWritten
<1>3. RunningPoint = {j} /\ RunningName = {} /\ RunningCopy = {} /\ manifest \in [Keys -> Manifests]
  BY <1>1 DEF RunningPoint, RunningName, RunningCopy, IInv, TypeOK
<1>4. /\ store \in Store /\ Exact(store, {}, {}, {}, {j}, m) /\ Referenced(store) /\ j \in Jobs
      /\ Sound(store, tickets \cup {}, {j}, {})
      /\ store.have \subseteq files /\ \A i \in store.points : manifest[i] # "none"
  BY <1>3, IndexedIs
<1> HIDE DEF j
<1>5. store.jobs[j].state = "publishing" /\ j \notin QueuedPoints(store.tasks) /\ j \in Live(store)
  BY <1>4 DEF Sound, QueueFits, Live, LiveStates
<1>6. k \in Keys /\ store.points \in SUBSET Keys
  BY <1>4, StoreFields, JobFields
<1>7. \A i \in store.points \cup {k} : manifest'[i] # "none"
  <2>1. Flag(running.flag) # "none"
    BY DEF Flag
  <2> QED
    BY <1>1, <1>3, <1>4, <1>6, <2>1
<1>8. CASE Blocks(k) \subseteq store.have
  <2>1. \A i \in QueuedPoints(store.tasks) : i \in Live(store)
    <3>1. QueueFits(store, tickets \cup {}, {j}) /\ QueuedPoints(store.tasks) \cup {j} \subseteq Jobs
      BY <1>4, SoundParts DEF Sound
    <3> QED
      BY <3>1 DEF QueueFits, Live, LiveStates
  <2>2. \A c \in QueuedCopies(store.tasks) : c.name \notin store.have
    <3> SUFFICES ASSUME NEW c \in QueuedCopies(store.tasks) PROVE c.name \notin store.have
      OBVIOUS
    <3> DEFINE P == {j}
               E == tickets \cup {}
    <3>1. Exact(store, {}, {}, {}, P, m) /\ Sound(store, E, P, {}) /\ c \in QueuedCopies(store.tasks) \cup E
      BY <1>4
    <3> HIDE DEF P, E
    <3> QED
      BY <3>1, CopyNew
  <2>3. /\ Exact(y, {}, {}, {}, {}, m) /\ Referenced(y)
        /\ y.points = store.points \cup {k} /\ y.have \subseteq store.have
    BY <1>4, <1>5, <1>8, <2>1, <2>2, PublishedExact
  <2> HIDE DEF y, k
  <2>4. /\ Exact(z, {}, {}, {}, {}, m) /\ Referenced(z) /\ z.points \subseteq y.points /\ z.have \subseteq y.have
    BY <1>6, <2>3, TrimExact
  <2>5. store' = z
    BY <1>2, <1>8
  <2> HIDE DEF z
  <2> QED
    BY <1>1, <1>4, <1>7, <2>3, <2>4, <2>5, IdleIndexed
<1>9. CASE ~(Blocks(k) \subseteq store.have)
  <2>1. Exact(d, {}, {}, {}, {}, m) /\ SameIndex(store, d) /\ d.jobs = store.jobs
    BY <1>4, DiscardExact
  <2>2. QueuedPoints(d.tasks) = QueuedPoints(store.tasks)
    <3>1. store.tasks \in Seq(Task) /\ Once(store.tasks)
      BY <1>4, StoreFields DEF Sound, QueueFits
    <3> DEFINE u == [kind |-> "unlink", keys |-> {k}, names |-> {}]
    <3>2. u \in Task /\ u.kind = "unlink"
      BY <1>6, UnlinkType
    <3> HIDE DEF u
    <3>3. d.tasks = Append(store.tasks, u)
      BY <1>4 DEF Queue, Store, u
    <3> HIDE DEF d
    <3> QED
      BY <3>1, <3>2, <3>3, AppendsOther, AppendIs
  <2> HIDE DEF d, k
  <2>3. Referenced(d)
    BY <1>4, <2>1 DEF SameIndex, Referenced
  <2>4. Exact(e, {}, {}, {}, {}, m) /\ Referenced(e) /\ Ends(d, e)
    BY <1>4, <1>5, <2>1, <2>2, <2>3, GivenUpExact
  <2>5. store' = e
    BY <1>2, <1>9
  <2> HIDE DEF e
  <2> QED
    BY <1>1, <1>4, <1>7, <2>1, <2>4, <2>5, IdleIndexed DEF Ends, SameIndex
<1> QED
  BY <1>8, <1>9

LEMMA TakeOtherIndexed ==
    ASSUME IInv, NEW m \in Int, Indexed(m), TakeShared \/ Unlink
    PROVE  Indexed(m)'
<1> DEFINE t == Head(store.tasks)
           s == Popped
<1>1. Takes("shared") \/ Takes("unlink")
  BY DEF TakeShared, Unlink
<1>2. /\ Exact(s, {}, {}, Popping(t, {}), PoppingPoint(t, {}), m) /\ Referenced(s) /\ SameIndex(store, s)
      /\ t.kind \in {"shared", "unlink"} /\ t \in Task
      /\ t.kind = "unlink" => t.names \cap s.have = {} /\ t.keys \cap s.points = {}
  BY <1>1, TakenExact
<1>3. Popping(t, {}) = {} /\ PoppingPoint(t, {}) = {}
  BY <1>2 DEF Popping, PoppingPoint
<1>4. /\ store \in Store /\ store.have \subseteq files /\ \A i \in store.points : manifest[i] # "none"
      /\ store.points \in SUBSET Keys
  BY IndexedIs, StoreFields
<1>5. s.have = store.have /\ s.points = store.points
  BY <1>2 DEF SameIndex
<1>6. CASE TakeShared
  <2>1. store' = s /\ UNCHANGED <<files, manifest>> /\ (running' = t \/ running' = Idle) /\ t.kind = "shared"
    BY <1>6 DEF TakeShared, Takes
  <2> HIDE DEF s, t
  <2>2. RunningName' = {} /\ RunningPoint' = {}
    BY <2>1 DEF RunningName, RunningPoint, Idle
  <2> QED
    BY <1>2, <1>3, <1>4, <1>5, <2>1, <2>2 DEF Indexed
<1>7. CASE Unlink
  <2>1. /\ store' = s /\ running' = running /\ running = Idle /\ t.kind = "unlink"
        /\ files' = files \ t.names /\ manifest' = [k \in Keys |-> IF k \in t.keys THEN "none" ELSE manifest[k]]
    BY <1>7 DEF Unlink, Takes
  <2> HIDE DEF s, t
  <2>2. s.have \subseteq files' /\ \A i \in s.points : manifest'[i] # "none"
    BY <1>2, <1>4, <1>5, <2>1
  <2> QED
    BY <1>2, <1>3, <2>1, <2>2, IdleIndexed
<1> QED
  BY <1>6, <1>7

LEMMA SharedWrittenIndexed ==
    ASSUME IInv, NEW m \in Int, Indexed(m), NEW ok \in BOOLEAN, SharedWritten(ok)
    PROVE  Indexed(m)'
<1> DEFINE k == running.key
<1>1. running.kind = "shared" /\ running' = Idle /\ UNCHANGED <<store, files>>
  BY DEF SharedWritten
<1>2. RunningName = {} /\ RunningPoint = {} /\ manifest \in [Keys -> Manifests]
  BY <1>1 DEF RunningPoint, RunningName, IInv, TypeOK
<1>3. /\ Exact(store, {}, {}, {}, {}, m) /\ Referenced(store) /\ store \in Store
      /\ store.have \subseteq files /\ \A i \in store.points : manifest[i] # "none"
  BY <1>2, IndexedIs
<1>4. PICK v \in IF k \notin store.points THEN {"none"}
                 ELSE IF ok THEN {"shared"} ELSE {manifest[k], "shared"} : manifest' = [manifest EXCEPT ![k] = v]
  BY DEF SharedWritten
<1>5. k \in store.points => v # "none"
  BY <1>3, <1>4
<1>6. store.points \in SUBSET Keys
  BY <1>3, StoreFields
<1> HIDE DEF k
<1>7. \A i \in store.points : manifest'[i] # "none"
  BY <1>2, <1>3, <1>4, <1>5, <1>6
<1> QED
  BY <1>1, <1>3, <1>7, IdleIndexed

-----------------------------------------------------------------------------
(* The theorem *)

LEMMA IndexedInit == Init => Indexed(0)
<1> SUFFICES ASSUME Init PROVE Indexed(0)
  OBVIOUS
<1> DEFINE s == store
<1>1. /\ s \in Store /\ s.points = {} /\ s.have = {} /\ s.refs = [n \in Names |-> 0]
      /\ s.jobs = [j \in Jobs |-> NoWrite] /\ s.tasks = << >> /\ s.stored = 0 /\ s.queued = 0
      /\ files = {} /\ running = Idle
  BY TypeInit DEF Init, TypeOK
<1>2. RunningName = {} /\ RunningPoint = {}
  BY <1>1 DEF RunningName, RunningPoint, Idle
<1>3. /\ Writes(NoWrite) = {} /\ NoWrite.left \cup NoWrite.out = {} /\ ~NoWrite.parked
      /\ NoWrite.state \notin LiveStates /\ NoWrite.state \notin {"open", "publishing"} /\ NoWrite.size = 0
  BY DEF NoWrite, Writes, LiveStates
<1>4. \A j \in Jobs : s.jobs[j] = NoWrite
  BY <1>1
<1>5. Reserve(NoWrite) = 0
  BY <1>3, FS_EmptySet DEF Reserve
<1> HIDE DEF NoWrite, s
<1>6. Cardinality({}) = 0
  BY FS_EmptySet
<1>7. Live(s) = {}
  BY <1>3, <1>4 DEF Live
<1>8. RefsAre(s, {})
  <2> SUFFICES ASSUME NEW n \in Names
               PROVE  s.refs[n] = Cardinality(Naming(s, n)) + Cardinality(Wanting(s, n)) + 0
    BY DEF RefsAre
  <2>1. Naming(s, n) = {} /\ Wanting(s, n) = {} /\ s.refs[n] = 0
    BY <1>1, <1>7 DEF Naming, Wanting
  <2> QED
    BY <1>6, <2>1
<1>9. StoredFits(s)
  BY <1>1, <1>6, ConstantsAssumption DEF StoredFits
<1>10. PointsWhole(s) /\ WaitsOnce(s) /\ HaveLanded(s, {}) /\ Referenced(s)
  BY <1>1, <1>7 DEF PointsWhole, WaitsOnce, HaveLanded, Referenced
<1>11. NamesFit(s)
  BY <1>3, <1>4 DEF NamesFit
<1>12. RoomFits(s, 0)
  <2>1. /\ Sizes(s) \in [Jobs -> Nat] /\ Reserves(s) \in [Jobs -> Nat]
        /\ \A j \in Jobs : Sizes(s)[j] = 0 /\ Reserves(s)[j] = 0
    BY <1>1, <1>3, <1>4, <1>5, ReservesType
  <2>2. Total(Sizes(s)) = 0 /\ Total(Reserves(s)) = 0
    BY <2>1, TotalZero
  <2>3. \A j \in Jobs : /\ Reserve(s.jobs[j]) <= s.jobs[j].size
                        /\ s.jobs[j].state \notin LiveStates => s.jobs[j].size = 0
    BY <1>3, <1>4, <1>5
  <2>4. s.stored + Total(Reserves(s)) + 0 <= CapBytes
    BY <1>1, <2>2, ConstantsAssumption
  <2> QED
    BY <1>1, <2>2, <2>3, <2>4 DEF RoomFits
<1>13. TasksFit(s, {}, {})
  <2>1. DOMAIN s.tasks = {}
    BY <1>1
  <2>2. QueueInOrder(s)
    BY <2>1 DEF QueueInOrder
  <2> QED
    BY <1>1, <2>1, <2>2 DEF TasksFit, KeysOf
<1>14. Exact(s, {}, {}, {}, {}, 0)
  BY <1>1, <1>8, <1>9, <1>10, <1>11, <1>12, <1>13 DEF Exact, Books
<1> QED
  BY <1>1, <1>2, <1>10, <1>14 DEF Indexed, s

LEMMA IndexedStep ==
    ASSUME IInv, NEW m \in Int, m <= 0, Indexed(m), [Next]_vars
    PROVE  Indexed(m)'
<1>1. CASE Engine
  BY <1>1, MarkSharedIndexed, KeepIndexed, ReadIndexed, ForgetIndexed, CapturedIndexed, StageIndexed,
     GuardIndexed, CancelIndexed, StagedIndexed DEF Engine
<1>2. CASE Writer
  BY <1>2, TakeBlockIndexed, TakePointIndexed, TakeOtherIndexed, SharedWrittenIndexed,
     PointWrittenIndexed, PointFailedIndexed, BlockWrittenIndexed DEF Writer
<1>3. CASE UNCHANGED vars
  <2>1. RunningName' = RunningName /\ RunningPoint' = RunningPoint /\ UNCHANGED <<store, files, manifest>>
    BY <1>3 DEF vars, RunningName, RunningPoint
  <2> QED
    BY <2>1 DEF Indexed
<1> QED
  BY <1>1, <1>2, <1>3 DEF Next

LEMMA IndexedParts ==
    ASSUME IInv, NEW m \in Int, Indexed(m)
    PROVE  RefsExact /\ NoOrphanBlock /\ BytesExact /\ IndexedIsOnDisk /\ NoDeletionOfLive
<1> DEFINE s == store
<1>1. /\ s \in Store /\ Exact(s, {}, {}, RunningName, RunningPoint, m) /\ Referenced(s)
      /\ s.have \subseteq files /\ \A k \in s.points : manifest[k] # "none"
  BY IndexedIs
<1>2. /\ RefsAre(s, {}) /\ StoredFits(s) /\ PointsWhole(s) /\ RoomFits(s, m)
      /\ TasksFit(s, RunningName, RunningPoint)
  BY <1>1, ExactIs
<1>3. RefsExact
  <2> SUFFICES ASSUME NEW n \in Names
               PROVE  s.refs[n] = Cardinality(Naming(s, n)) + Cardinality(Wanting(s, n))
    BY DEF RefsExact, Naming, Wanting
  <2>1. s.refs[n] = Cardinality(Naming(s, n)) + Cardinality(Wanting(s, n)) + 0
    BY <1>2 DEF RefsAre
  <2>2. Cardinality(Naming(s, n)) \in Nat /\ Cardinality(Wanting(s, n)) \in Nat
    BY <1>1, CountsType
  <2> QED
    BY <2>1, <2>2
<1>4. NoOrphanBlock
  BY <1>1 DEF Referenced, NoOrphanBlock
<1>5. BytesExact
  <2>1. ASSUME Live(s) = {} PROVE s.queued = 0
    <3>1. \A j \in Jobs : s.jobs[j].size = 0
      BY <1>2, <2>1 DEF RoomFits, Live
    <3>2. Sizes(s) \in [Jobs -> Nat] /\ \A j \in Jobs : Sizes(s)[j] = 0
      BY <1>1, <3>1, ReservesType
    <3> QED
      BY <1>2, <3>2, TotalZero DEF RoomFits
  <2> QED
    BY <1>2, <2>1 DEF BytesExact, StoredFits
<1>6. IndexedIsOnDisk
  BY <1>1, <1>2 DEF IndexedIsOnDisk, PointsWhole
<1>7. NoDeletionOfLive
  BY <1>2 DEF NoDeletionOfLive, TasksFit, Deletes
<1> QED
  BY <1>3, <1>4, <1>5, <1>6, <1>7

LEMMA IndexedIsExact ==
    ASSUME IInv, Indexed(0)
    PROVE  IndexExact
<1>1. RefsExact /\ NoOrphanBlock /\ BytesExact /\ IndexedIsOnDisk /\ NoDeletionOfLive
  BY IndexedParts
<1>2. store \in Store /\ Exact(store, {}, {}, RunningName, RunningPoint, 0)
  BY IndexedIs
<1>3. CapHolds
  <2>1. store.stored + Total(Reserves(store)) + 0 <= CapBytes /\ store.stored \in Int /\ Total(Reserves(store)) \in Nat
    BY <1>2, ExactIs, StoreFields, ReservesType DEF RoomFits
  <2> DEFINE c == Total(Reserves(store))
  <2> HIDE DEF c
  <2>2. store.stored + c + 0 <= CapBytes /\ c \in Nat
    BY <2>1 DEF c
  <2> QED
    BY <2>1, <2>2, ConstantsAssumption DEF CapHolds
<1> QED
  BY <1>1, <1>3 DEF IndexExact

\* Through every interleaving of keeps, cancels, evictions, restores that
\* forget and the writer's unlocked disk work, the references count what names
\* a block (ref, remove, keep, endJob), no block is kept that nothing names
\* (gc), the byte counts are exact and within Config.cap_bytes, whatever a
\* lookup may return is whole on disk, and no queued deletion names it.
THEOREM IndexIsExact == Spec => []IndexExact
<1>1. Init => IInv /\ Indexed(0)
  BY WholeInit, IndexedInit
<1>2. IInv /\ Indexed(0) /\ [Next]_vars => IInv' /\ Indexed(0)'
  BY WholeStep, IndexedStep
<1>3. IInv /\ Indexed(0) => IndexExact
  BY IndexedIsExact
<1> QED
  BY <1>1, <1>2, <1>3, PTL DEF Spec



-----------------------------------------------------------------------------
(* What the steps under the lock do to the index *)

\* What is queued: the deletion of a block or of a point's files, the rewrite
\* of a manifest.
NameDoomed(s, n) == \E i \in DOMAIN s.tasks : s.tasks[i].kind = "unlink" /\ n \in s.tasks[i].names
PointDoomed(s, k) == \E i \in DOMAIN s.tasks : s.tasks[i].kind = "unlink" /\ k \in s.tasks[i].keys
Rewritten(s, k) == \E i \in DOMAIN s.tasks : s.tasks[i].kind = "shared" /\ s.tasks[i].key = k

\* The i-th task, a rewrite, is of a shared point, or of one whose deletion is
\* queued behind it.
RewriteHolds(s, i) ==
    \/ s.tasks[i].key \in s.points /\ s.tasks[i].key \in s.shared
    \/ \E h \in DOMAIN s.tasks : h > i /\ s.tasks[h].kind = "unlink" /\ s.tasks[i].key \in s.tasks[h].keys

\* The queue of z is that of s and more.
GoesOn(s, z) ==
    /\ DOMAIN s.tasks \subseteq DOMAIN z.tasks
    /\ \A i \in DOMAIN s.tasks : z.tasks[i] = s.tasks[i]
    /\ \A i \in DOMAIN z.tasks \ DOMAIN s.tasks : z.tasks[i].kind = "shared" => RewriteHolds(z, i)

\* z has queued the deletion of k's files.
NewlyDoomed(s, z, k) ==
    \E i \in DOMAIN z.tasks \ DOMAIN s.tasks : z.tasks[i].kind = "unlink" /\ k \in z.tasks[i].keys

\* Live writes of z are so in s, with the same points.
Fewer(s, z) == \A j \in Live(z) : j \in Live(s) /\ z.jobs[j].key = s.jobs[j].key

\* z is s some steps later, none of which published a point: whatever left the
\* index has its deletion queued, a flag set has its rewrite queued, a flag
\* is lost only with its point, and a live write keeps its point.
Moves(s, z) ==
    /\ z \in Store /\ GoesOn(s, z) /\ z.points \subseteq s.points /\ z.have \subseteq s.have
    /\ \A n \in s.have \ z.have : NameDoomed(z, n)
    /\ \A k \in s.points \ z.points : NewlyDoomed(s, z, k)
    /\ \A k \in z.points \cap z.shared : k \in s.shared \/ Rewritten(z, k)
    /\ \A k \in s.shared \ z.shared :
          k \notin z.points /\ \A j \in Live(s) \cap Live(z) : z.jobs[j].key # k
    /\ \A j \in Jobs : /\ j \in Live(z) => \/ j \in Live(s) /\ z.jobs[j].key = s.jobs[j].key
                                           \/ s.jobs[j].state = "unused"
                       /\ z.jobs[j].state = "unused" => s.jobs[j].state = "unused"

LEMMA DoomedStay ==
    ASSUME NEW s, NEW z, GoesOn(s, z)
    PROVE  /\ \A n : NameDoomed(s, n) => NameDoomed(z, n)
           /\ \A k : PointDoomed(s, k) => PointDoomed(z, k)
           /\ \A k : Rewritten(s, k) => Rewritten(z, k)
<1>1. \A i \in DOMAIN s.tasks : i \in DOMAIN z.tasks /\ z.tasks[i] = s.tasks[i]
  BY DEF GoesOn
<1> QED
  BY <1>1 DEF NameDoomed, PointDoomed, Rewritten

LEMMA MovesSelf ==
    ASSUME NEW s \in Store
    PROVE  Moves(s, s) /\ Fewer(s, s)
BY DEF Moves, Fewer, GoesOn

LEMMA FewerTrans ==
    ASSUME NEW s, NEW y, NEW z, Fewer(s, y), Fewer(y, z)
    PROVE  Fewer(s, z)
BY DEF Fewer

\* What is queued later comes later.
LEMMA LaterTask ==
    ASSUME NEW s \in Store, NEW z \in Store, NEW i \in DOMAIN s.tasks, NEW h \in DOMAIN z.tasks \ DOMAIN s.tasks
    PROVE  h > i
<1>1. s.tasks \in Seq(Task) /\ z.tasks \in Seq(Task)
  BY StoreFields
<1> DEFINE a == Len(s.tasks)
           b == Len(z.tasks)
<1>2. a \in Nat /\ b \in Nat /\ DOMAIN s.tasks = 1 .. a /\ DOMAIN z.tasks = 1 .. b
  BY <1>1
<1> HIDE DEF a, b
<1> QED
  BY <1>2

LEMMA RewriteStays ==
    ASSUME NEW s \in Store, NEW z, Moves(s, z),
           NEW i \in DOMAIN s.tasks, RewriteHolds(s, i)
    PROVE  RewriteHolds(z, i)
<1> DEFINE k == s.tasks[i].key
<1>1. /\ i \in DOMAIN z.tasks /\ z.tasks[i] = s.tasks[i] /\ z \in Store
      /\ \A h \in DOMAIN s.tasks : h \in DOMAIN z.tasks /\ z.tasks[h] = s.tasks[h]
  BY DEF Moves, GoesOn
<1>2. CASE k \in s.points /\ k \in s.shared
  <2>1. CASE k \in z.points
    BY <1>1, <1>2, <2>1 DEF Moves, RewriteHolds
  <2>2. CASE k \notin z.points
    <3>1. PICK h \in DOMAIN z.tasks \ DOMAIN s.tasks : z.tasks[h].kind = "unlink" /\ k \in z.tasks[h].keys
      BY <1>2, <2>2 DEF Moves, NewlyDoomed
    <3>2. h > i
      BY <1>1, LaterTask
    <3> QED
      BY <1>1, <3>1, <3>2 DEF RewriteHolds
  <2> QED
    BY <2>1, <2>2
<1>3. CASE \E h \in DOMAIN s.tasks : h > i /\ s.tasks[h].kind = "unlink" /\ k \in s.tasks[h].keys
  BY <1>1, <1>3 DEF RewriteHolds
<1> QED
  BY <1>2, <1>3 DEF RewriteHolds

LEMMA MovesTrans ==
    ASSUME NEW s, NEW y, NEW z, Moves(s, y), Moves(y, z)
    PROVE  Moves(s, z)
<1>1. /\ GoesOn(s, y) /\ GoesOn(y, z) /\ y.points \subseteq s.points /\ z.points \subseteq y.points
      /\ y.have \subseteq s.have /\ z.have \subseteq y.have /\ z \in Store /\ y \in Store
  BY DEF Moves
<1>2. GoesOn(s, z)
  <2>1. \A i \in DOMAIN y.tasks : y.tasks[i].kind = "shared" /\ RewriteHolds(y, i) => RewriteHolds(z, i)
    BY RewriteStays DEF Moves
  <2> QED
    BY <1>1, <2>1 DEF GoesOn
<1>3. \A n \in s.have \ z.have : NameDoomed(z, n)
  <2> TAKE n \in s.have \ z.have
  <2>1. CASE n \in y.have
    BY <2>1 DEF Moves
  <2>2. CASE n \notin y.have
    <3>1. NameDoomed(y, n)
      BY <2>2 DEF Moves
    <3> QED
      BY <1>1, <3>1, DoomedStay
  <2> QED
    BY <2>1, <2>2
<1>4. \A k \in s.points \ z.points : NewlyDoomed(s, z, k)
  <2> TAKE k \in s.points \ z.points
  <2>0. DOMAIN s.tasks \subseteq DOMAIN y.tasks /\ DOMAIN y.tasks \subseteq DOMAIN z.tasks
        /\ \A i \in DOMAIN y.tasks : z.tasks[i] = y.tasks[i]
    BY <1>1 DEF GoesOn
  <2>1. CASE k \in y.points
    <3>1. NewlyDoomed(y, z, k)
      BY <2>1 DEF Moves
    <3> QED
      BY <2>0, <3>1 DEF NewlyDoomed
  <2>2. CASE k \notin y.points
    <3>1. NewlyDoomed(s, y, k)
      BY <2>2 DEF Moves
    <3> QED
      BY <2>0, <3>1 DEF NewlyDoomed
  <2> QED
    BY <2>1, <2>2
<1>5. \A k \in z.points \cap z.shared : k \in s.shared \/ Rewritten(z, k)
  <2> TAKE k \in z.points \cap z.shared
  <2>1. k \in y.points
    BY <1>1
  <2>2. k \in y.shared \/ Rewritten(z, k)
    BY DEF Moves
  <2>3. k \in y.shared => k \in s.shared \/ Rewritten(y, k)
    BY <2>1 DEF Moves
  <2> QED
    BY <1>1, <2>2, <2>3, DoomedStay
<1>6. \A j \in Jobs : /\ j \in Live(z) => \/ j \in Live(s) /\ z.jobs[j].key = s.jobs[j].key
                                          \/ s.jobs[j].state = "unused"
                      /\ z.jobs[j].state = "unused" => s.jobs[j].state = "unused"
  <2> TAKE j \in Jobs
  <2>1. /\ j \in Live(z) => \/ j \in Live(y) /\ z.jobs[j].key = y.jobs[j].key
                            \/ y.jobs[j].state = "unused"
        /\ z.jobs[j].state = "unused" => y.jobs[j].state = "unused"
    BY DEF Moves
  <2>2. /\ j \in Live(y) => \/ j \in Live(s) /\ y.jobs[j].key = s.jobs[j].key
                            \/ s.jobs[j].state = "unused"
        /\ y.jobs[j].state = "unused" => s.jobs[j].state = "unused"
    BY DEF Moves
  <2> QED
    BY <2>1, <2>2
<1>7. \A k \in s.shared \ z.shared :
          k \notin z.points /\ \A j \in Live(s) \cap Live(z) : z.jobs[j].key # k
  <2> TAKE k \in s.shared \ z.shared
  <2>1. \A j \in Live(s) \cap Live(z) : j \in Live(y) /\ z.jobs[j].key = y.jobs[j].key
    <3> TAKE j \in Live(s) \cap Live(z)
    <3>1. j \in Jobs /\ s.jobs[j].state # "unused"
      BY DEF Live, LiveStates
    <3>2. \/ j \in Live(y) /\ z.jobs[j].key = y.jobs[j].key
          \/ y.jobs[j].state = "unused"
      BY <3>1 DEF Moves
    <3>3. y.jobs[j].state # "unused"
      BY <3>1 DEF Moves
    <3> QED
      BY <3>2, <3>3
  <2>2. CASE k \in y.shared
    <3>1. k \notin z.points /\ \A j \in Live(y) \cap Live(z) : z.jobs[j].key # k
      BY <2>2 DEF Moves
    <3> QED
      BY <2>1, <3>1
  <2>3. CASE k \notin y.shared
    <3>1. k \notin y.points /\ \A j \in Live(s) \cap Live(y) : y.jobs[j].key # k
      BY <2>3 DEF Moves
    <3> QED
      BY <1>1, <2>1, <3>1
  <2> QED
    BY <2>2, <2>3
<1> QED
  BY <1>1, <1>2, <1>3, <1>4, <1>5, <1>6, <1>7 DEF Moves

LEMMA WaitsFewer ==
    ASSUME NEW s, NEW z, WaitsOnce(s), Fewer(s, z), z.points \subseteq s.points
    PROVE  WaitsOnce(z)
<1> SUFFICES ASSUME NEW j \in Live(z)
             PROVE  /\ z.jobs[j].key \notin z.points
                    /\ \A i \in Live(z) : z.jobs[i].key = z.jobs[j].key => i = j
  BY DEF WaitsOnce
<1>1. j \in Live(s) /\ z.jobs[j].key = s.jobs[j].key
  BY DEF Fewer
<1>2. \A i \in Live(z) : i \in Live(s) /\ z.jobs[i].key = s.jobs[i].key
  BY DEF Fewer
<1> QED
  BY <1>1, <1>2 DEF WaitsOnce

\* Nothing queued.
LEMMA StillMoves ==
    ASSUME NEW s, NEW z \in Store, z.tasks = s.tasks, z.points = s.points, z.have = s.have,
           z.shared = s.shared, Fewer(s, z),
           \A j \in Jobs : z.jobs[j].state = "unused" => s.jobs[j].state = "unused"
    PROVE  Moves(s, z)
<1>1. GoesOn(s, z)
  BY DEF GoesOn
<1>2. \A j \in Live(z) : j \in Live(s) /\ z.jobs[j].key = s.jobs[j].key
  BY DEF Fewer
<1> QED
  BY <1>1, <1>2 DEF Moves

LEMMA SameFewer ==
    ASSUME NEW s, NEW z,
           \A j \in Jobs : z.jobs[j].key = s.jobs[j].key /\ z.jobs[j].state = s.jobs[j].state
    PROVE  Fewer(s, z)
BY DEF Fewer, Live

LEMMA TasksAre ==
    ASSUME NEW s \in Store, NEW t \in Task, NEW q, q = Append(s.tasks, t)
    PROVE  /\ DOMAIN s.tasks \subseteq DOMAIN q
           /\ \A i \in DOMAIN s.tasks : q[i] = s.tasks[i]
           /\ \A i \in DOMAIN q \ DOMAIN s.tasks : q[i] = t
           /\ \E i \in DOMAIN q \ DOMAIN s.tasks : q[i] = t
<1>1. s.tasks \in Seq(Task)
  BY StoreFields
<1>2. Appended(s.tasks, q, t)
  BY <1>1, AppendIs
<1> DEFINE p == s.tasks
           N == Len(p)
<1>3. N \in Nat /\ DOMAIN p = 1 .. N /\ DOMAIN q = 1 .. (N + 1)
  BY <1>1, <1>2 DEF Appended
<1>4. (\A i \in 1 .. N : q[i] = p[i]) /\ q[N + 1] = t
  BY <1>2 DEF Appended
<1> HIDE DEF N, p
<1>5. /\ DOMAIN p \subseteq DOMAIN q
      /\ \A i \in DOMAIN p : q[i] = p[i]
      /\ \A i \in DOMAIN q \ DOMAIN p : q[i] = t
      /\ \E i \in DOMAIN q \ DOMAIN p : q[i] = t
  <2>1. N + 1 \in (1 .. (N + 1)) \ (1 .. N) /\ \A i \in (1 .. (N + 1)) \ (1 .. N) : i = N + 1
    BY <1>3
  <2>2. 1 .. N \subseteq 1 .. (N + 1)
    BY <1>3
  <2> QED
    BY <1>3, <1>4, <2>1, <2>2
<1> QED
  BY <1>5 DEF p

\* A deletion is queued, of everything that leaves the index.
LEMMA UnlinkMoves ==
    ASSUME NEW s \in Store, NEW z \in Store, NEW K \in SUBSET Keys, NEW S \in SUBSET Names,
           z.tasks = Append(s.tasks, [kind |-> "unlink", keys |-> K, names |-> S]),
           z.points = s.points \ K, z.have = s.have \ S, z.jobs = s.jobs,
           z.shared = s.shared \ K, \A j \in Live(s) : s.jobs[j].key \notin K
    PROVE  Moves(s, z) /\ Fewer(s, z)
<1> DEFINE t == [kind |-> "unlink", keys |-> K, names |-> S]
<1>1. t \in Task /\ t.kind = "unlink" /\ t.keys = K /\ t.names = S
  BY UnlinkType
<1>2. z.tasks = Append(s.tasks, t)
  OBVIOUS
<1> HIDE DEF t
<1>3. /\ DOMAIN s.tasks \subseteq DOMAIN z.tasks
      /\ \A i \in DOMAIN s.tasks : z.tasks[i] = s.tasks[i]
      /\ \A i \in DOMAIN z.tasks \ DOMAIN s.tasks : z.tasks[i] = t
      /\ \E i \in DOMAIN z.tasks \ DOMAIN s.tasks : z.tasks[i] = t
  BY <1>1, <1>2, TasksAre
<1>4. GoesOn(s, z)
  BY <1>1, <1>3 DEF GoesOn
<1>5. (\A n \in S : NameDoomed(z, n)) /\ \A k \in K : NewlyDoomed(s, z, k)
  BY <1>1, <1>3 DEF NameDoomed, NewlyDoomed
<1>6. Live(z) = Live(s)
  BY DEF Live
<1>7. Fewer(s, z)
  BY <1>6 DEF Fewer
<1>8. \A k \in s.points \ z.points : NewlyDoomed(s, z, k)
  BY <1>5
<1>9. \A n \in s.have \ z.have : NameDoomed(z, n)
  BY <1>5
<1> QED
  BY <1>4, <1>6, <1>7, <1>8, <1>9 DEF Moves

\* s goes to z, and the writes of z are writes of s.
Goes(s, z) == Moves(s, z) /\ Fewer(s, z)

LEMMA GoesTrans ==
    ASSUME NEW s, NEW y, NEW z, Goes(s, y), Goes(y, z)
    PROVE  Goes(s, z)
BY MovesTrans, FewerTrans DEF Goes

LEMMA GoesSelf ==
    ASSUME NEW s \in Store
    PROVE  Goes(s, s)
BY MovesSelf DEF Goes

LEMMA GoesStore ==
    ASSUME NEW s, NEW z, Goes(s, z)
    PROVE  z \in Store /\ z.points \subseteq s.points /\ Fewer(s, z) /\ Moves(s, z)
BY DEF Goes, Moves

LEMMA GoesWaits ==
    ASSUME NEW s, NEW z, Goes(s, z), WaitsOnce(s)
    PROVE  WaitsOnce(z)
BY WaitsFewer, GoesStore

LEMMA RefGoes ==
    ASSUME NEW s \in Store, NEW S
    PROVE  Goes(s, Ref(s, S)) /\ Goes(s, Unref(s, S))
<1> DEFINE a == Ref(s, S)
           b == Unref(s, S)
<1>1. a \in Store /\ b \in Store
  BY RefType DEF Keeps
<1>2. /\ a.tasks = s.tasks /\ a.points = s.points /\ a.have = s.have /\ a.shared = s.shared /\ a.jobs = s.jobs
      /\ b.tasks = s.tasks /\ b.points = s.points /\ b.have = s.have /\ b.shared = s.shared /\ b.jobs = s.jobs
  BY DEF Ref, Unref, Store
<1> HIDE DEF a, b
<1>3. Fewer(s, a) /\ Fewer(s, b)
  BY <1>2, SameFewer
<1>4. Goes(s, a)
  BY <1>1, <1>2, <1>3, StillMoves DEF Goes
<1>5. Goes(s, b)
  BY <1>1, <1>2, <1>3, StillMoves DEF Goes
<1> QED
  BY <1>4, <1>5 DEF a, b

LEMMA DropGoes ==
    ASSUME NEW s \in Store, NEW S
    PROVE  Goes(s, DropBlocks(s, S))
<1> DEFINE gone == S \cap s.have
           z == DropBlocks(s, S)
           K == {}
<1>1. z \in Store /\ gone \in SUBSET Names
  BY DropBlocksType, StoreFields DEF Keeps
<1>2. CASE gone = {}
  BY <1>2, GoesSelf DEF DropBlocks
<1>3. CASE gone # {}
  <2>1. z = [s EXCEPT !.have = @ \ gone, !.stored = @ - Cardinality(gone),
                      !.tasks = Append(@, [kind |-> "unlink", keys |-> {}, names |-> gone])]
    BY <1>3 DEF DropBlocks
  <2>2. /\ z.jobs = s.jobs /\ z.points = s.points /\ z.shared = s.shared /\ z.have = s.have \ gone
        /\ z.tasks = Append(s.tasks, [kind |-> "unlink", keys |-> K, names |-> gone])
    BY <2>1 DEF Store
  <2>3. /\ z.points = s.points \ K /\ z.shared = s.shared \ K /\ z.have = s.have \ gone
        /\ \A j \in Live(s) : s.jobs[j].key \notin K
    BY <2>2
  <2>4. K \in SUBSET Keys
    OBVIOUS
  <2> HIDE DEF z, gone, K
  <2>5. Moves(s, z) /\ Fewer(s, z)
    BY <1>1, <2>2, <2>3, <2>4, UnlinkMoves
  <2> QED
    BY <2>5 DEF Goes, z
<1> QED
  BY <1>2, <1>3

LEMMA GcGoes ==
    ASSUME NEW s \in Store, NEW S
    PROVE  Goes(s, Gc(s, S))
BY DropGoes DEF Gc

LEMMA RemoveGoes ==
    ASSUME NEW s \in Store, NEW V, WaitsOnce(s)
    PROVE  Goes(s, RemovePoints(s, V))
<1> DEFINE gone == V \cap s.points
           named(n) == Cardinality({k \in gone : n \in Blocks(k)})
           refs == [n \in Names |-> IF named(n) < s.refs[n] THEN s.refs[n] - named(n) ELSE 0]
           stored == s.stored - FileBytes * Cardinality(gone)
           N == {}
           tasks == Append(s.tasks, [kind |-> "unlink", keys |-> gone, names |-> N])
           s1 == [s EXCEPT !.points = @ \ gone, !.shared = @ \ gone, !.refs = refs,
                           !.stored = stored, !.tasks = tasks]
<1>1. gone \in SUBSET Keys /\ N \in SUBSET Names
  BY StoreFields
<1>2. /\ s1.jobs = s.jobs /\ s1.have = s.have /\ s1.points = s.points \ gone /\ s1.shared = s.shared \ gone
      /\ s1.tasks = Append(s.tasks, [kind |-> "unlink", keys |-> gone, names |-> N])
  <2> HIDE DEF refs, stored, gone, N
  <2> QED
    BY DEF Store
<1>3. RemovePoints(s, V) = IF gone = {} THEN s ELSE Gc(s1, UNION {Blocks(k) : k \in gone})
  BY DEF RemovePoints
<1>4. s1 \in Store
  <2>1. refs \in [Names -> Nat]
    <3>1. \A n \in Names : named(n) \in Nat
      <4> SUFFICES ASSUME NEW n \in Names PROVE {k \in gone : n \in Blocks(k)} \in SUBSET Keys
        BY SubsetCardinality
      <4> QED
        BY <1>1
    <3> QED
      BY <3>1, StoreFields
  <2>2. stored \in Int
    <3>1. Cardinality(gone) \in Nat
      BY <1>1, SubsetCardinality
    <3> QED
      BY <3>1, StoreFields, ConstantsAssumption
  <2>3. tasks \in Seq(Task)
    BY <1>1, UnlinkType, AppendType
  <2>4. s.points \ gone \in SUBSET Keys /\ s.shared \ gone \in SUBSET Keys
    BY StoreFields
  <2> HIDE DEF refs, stored, gone, tasks
  <2> QED
    BY <2>1, <2>2, <2>3, <2>4 DEF Store
<1>5. \A j \in Live(s) : s.jobs[j].key \notin gone
  BY DEF WaitsOnce
<1> HIDE DEF s1, gone, N
<1>6. Moves(s, s1) /\ Fewer(s, s1)
  <2>1. s1.have = s.have \ N
    BY <1>2 DEF N
  <2> QED
    BY <1>1, <1>2, <1>4, <1>5, <2>1, UnlinkMoves
<1>7. Goes(s, Gc(s1, UNION {Blocks(k) : k \in gone}))
  <2>1. Goes(s, s1)
    BY <1>6 DEF Goes
  <2>2. Goes(s1, Gc(s1, UNION {Blocks(k) : k \in gone}))
    BY <1>4, GcGoes
  <2> QED
    BY <2>1, <2>2, GoesTrans
<1> QED
  BY <1>3, <1>7, GoesSelf

LEMMA TrimGoes ==
    ASSUME NEW s \in Store, NEW p, WaitsOnce(s)
    PROVE  Goes(s, TrimPath(s, p))
BY GoesSelf, RemoveGoes DEF TrimPath

LEMMA RecheckGoes ==
    ASSUME NEW s \in Store
    PROVE  Goes(s, RecheckParked(s))
<1> DEFINE z == RecheckParked(s)
<1>1. /\ SameIndex(s, z) /\ z.shared = s.shared /\ Queues(s, z, Parked(s))
      /\ \A j \in Jobs : Akin(s.jobs[j], z.jobs[j])
  BY RecheckFields
<1> HIDE DEF z
<1>2. z \in Store /\ z.points = s.points /\ z.have = s.have
  BY <1>1 DEF SameIndex
<1>3. \A j \in Jobs : z.jobs[j].key = s.jobs[j].key /\ z.jobs[j].state = s.jobs[j].state
  BY <1>1 DEF Akin, Kin
<1>4. GoesOn(s, z)
  <2>1. PICK N \in Nat : \E f \in [1 .. N -> Parked(s)] : Extended(s.tasks, z.tasks, f, N)
    BY <1>1 DEF Queues
  <2>2. PICK f : Extended(s.tasks, z.tasks, f, N)
    BY <2>1
  <2> DEFINE p == s.tasks
             q == z.tasks
             L == Len(p)
  <2>3. p \in Seq(Task) /\ q \in Seq(Task)
    BY <1>2, StoreFields
  <2>4. L \in Nat /\ DOMAIN p = 1 .. L /\ DOMAIN q = 1 .. (L + N)
    BY <2>2, <2>3 DEF Extended
  <2>5. /\ \A i \in 1 .. L : q[i] = p[i]
        /\ \A i \in 1 .. N : q[L + i] = [kind |-> "point", job |-> f[i]]
    BY <2>2 DEF Extended
  <2> HIDE DEF p, q, L
  <2>6. DOMAIN p \subseteq DOMAIN q /\ \A i \in DOMAIN p : q[i] = p[i]
    BY <2>1, <2>4, <2>5
  <2>7. \A i \in DOMAIN q \ DOMAIN p : q[i].kind # "shared"
    <3> TAKE i \in DOMAIN q \ DOMAIN p
    <3>1. i - L \in 1 .. N /\ L + (i - L) = i
      BY <2>1, <2>4
    <3>2. q[L + (i - L)] = [kind |-> "point", job |-> f[i - L]]
      BY <2>5, <3>1
    <3> QED
      BY <3>1, <3>2
  <2> QED
    BY <2>6, <2>7 DEF GoesOn, p, q
<1>5. Live(z) = Live(s)
  BY <1>3 DEF Live
<1>6. Fewer(s, z)
  BY <1>3, SameFewer
<1>7. Moves(s, z)
  BY <1>1, <1>2, <1>3, <1>4, <1>5 DEF Moves
<1> QED
  BY <1>6, <1>7 DEF Goes, z

LEMMA DropInflightGoes ==
    ASSUME NEW s \in Store, NEW j \in Jobs, NEW n \in Names
    PROVE  Goes(s, DropInflight(s, j, n))
<1> DEFINE y == [s EXCEPT !.inflight[n] = NoJob]
<1>1. y \in Store /\ y.tasks = s.tasks /\ y.points = s.points /\ y.have = s.have /\ y.shared = s.shared
      /\ y.jobs = s.jobs
  BY StoreFields DEF Store
<1> HIDE DEF y
<1>2. Goes(s, y)
  BY <1>1, SameFewer, StillMoves DEF Goes
<1>3. Goes(s, RecheckParked(y))
  BY <1>1, <1>2, RecheckGoes, GoesTrans
<1> QED
  BY <1>3, GoesSelf DEF DropInflight, y

LEMMA GiveBackGoes ==
    ASSUME NEW s \in Store, NEW j \in Jobs, NEW n \in Names, NEW w \in WriteSlots
    PROVE  Goes(s, GiveBack(s, j, n, w))
<1> DEFINE z == GiveBack(s, j, n, w)
           s1 == GiveSlot(s, w)
           free == s.free \cup ({w} \ {NoSlot})
<1>1. /\ SameIndex(s, z) /\ OnlyJob(s, z, j) /\ z.tasks = s.tasks
      /\ z.jobs[j].key = s.jobs[j].key /\ z.jobs[j].state = s.jobs[j].state
  BY GiveBackIs
<1>2. z.shared = s.shared
  <2>1. s1 = [s EXCEPT !.free = free]
    BY DEF GiveSlot
  <2>2. s1 \in Store /\ s1.shared = s.shared
    <3>1. s1.shared = s.shared
      <4> HIDE DEF s1, free
      <4> QED
        BY <2>1 DEF Store
    <3> QED
      BY <3>1, GiveSlotType DEF Keeps
  <2>3. z = [s1 EXCEPT !.jobs[j].out = @ \ {n}]
    BY DEF GiveBack
  <2> HIDE DEF s1, z
  <2> QED
    BY <2>2, <2>3 DEF Store
<1> HIDE DEF z, s1, free
<1>3. \A i \in Jobs : z.jobs[i].key = s.jobs[i].key /\ z.jobs[i].state = s.jobs[i].state
  BY <1>1 DEF OnlyJob
<1>4. Fewer(s, z)
  BY <1>3, SameFewer
<1>5. Goes(s, z)
  <2>1. z \in Store /\ z.points = s.points /\ z.have = s.have
    BY <1>1 DEF SameIndex
  <2> QED
    BY <1>1, <1>2, <1>3, <1>4, <2>1, StillMoves DEF Goes
<1> QED
  BY <1>5 DEF z

\* A write leaves; its flag goes with it unless it is published.
LEMMA LeaveGoes ==
    ASSUME NEW s \in Store, NEW j \in Jobs, NEW b \in BOOLEAN,
           b \/ (WaitsOnce(s) /\ j \in Live(s))
    PROVE  LET z == Leave(s, j, b) IN
           /\ Goes(s, z) /\ z.points = s.points /\ z.have = s.have /\ z.tasks = s.tasks
           /\ OnlyJob(s, z, j) /\ j \notin Live(z)
           /\ z.shared = IF b THEN s.shared ELSE s.shared \ {s.jobs[j].key}
<1> DEFINE k == s.jobs[j].key
           s1 == GiveSlot(s, s.jobs[j].tailSlot)
           free == s.free \cup ({s.jobs[j].tailSlot} \ {NoSlot})
           z == Leave(s, j, b)
<1>1. Left(s, z, j)
  BY LeaveIs
<1>2. z.shared = IF b THEN s.shared ELSE s.shared \ {k}
  <2>1. s1 = [s EXCEPT !.free = free]
    BY DEF GiveSlot
  <2>2. s1.shared = s.shared /\ s1 \in Store
    <3>1. s1.shared = s.shared
      <4> HIDE DEF s1, free
      <4> QED
        BY <2>1 DEF Store
    <3>2. s.jobs[j].tailSlot \in WriteSlots \cup {NoSlot}
      BY StoreFields, JobFields
    <3> QED
      BY <3>1, <3>2, GiveSlotType DEF Keeps
  <2> DEFINE inflight == [n \in Names |-> IF s1.inflight[n] = j THEN NoJob ELSE s1.inflight[n]]
             queued == s1.queued - s.jobs[j].size
             shared == IF b THEN s1.shared ELSE s1.shared \ {k}
             jobs == [s1.jobs EXCEPT ![j] = [NoWrite EXCEPT !.state = "ended"]]
  <2>3. z = [s1 EXCEPT !.inflight = inflight, !.queued = queued, !.shared = shared, !.jobs = jobs]
    BY DEF Leave
  <2>4. z.shared = shared
    <3> HIDE DEF z, s1, inflight, queued, shared, jobs
    <3> QED
      BY <2>2, <2>3 DEF Store
  <2> HIDE DEF z, s1
  <2> QED
    BY <2>2, <2>4
<1> HIDE DEF z, s1, free
<1>3. /\ z \in Store /\ z.points = s.points /\ z.have = s.have /\ z.tasks = s.tasks
      /\ \A i \in Jobs \ {j} : z.jobs[i] = s.jobs[i]
      /\ z.jobs[j].state = "ended"
  BY <1>1 DEF Left, OnlyJob, EndedRecord
<1>4. j \notin Live(z) /\ \A i \in Live(z) : i # j /\ i \in Live(s) /\ z.jobs[i] = s.jobs[i]
  BY <1>3 DEF Live, LiveStates
<1>5. Fewer(s, z)
  BY <1>4 DEF Fewer
<1>6. GoesOn(s, z)
  BY <1>3 DEF GoesOn
<1>7. \A l \in s.shared \ z.shared :
          l \notin z.points /\ \A i \in Live(s) \cap Live(z) : z.jobs[i].key # l
  <2> TAKE l \in s.shared \ z.shared
  <2>1. ~b /\ l = k
    BY <1>2
  <2>2. k \notin s.points /\ \A i \in Live(s) : s.jobs[i].key = k => i = j
    BY <2>1 DEF WaitsOnce
  <2> QED
    BY <1>3, <1>4, <2>1, <2>2
<1>8. z.shared \subseteq s.shared
  BY <1>2
<1>9. \A i \in Jobs : z.jobs[i].state = "unused" => s.jobs[i].state = "unused"
  BY <1>3
<1>10. Moves(s, z)
  BY <1>3, <1>4, <1>6, <1>7, <1>8, <1>9 DEF Moves
<1> QED
  BY <1>2, <1>3, <1>4, <1>5, <1>10 DEF Goes, OnlyJob, z, k

LEMMA EndJobGoes ==
    ASSUME NEW s \in Store, NEW j \in Jobs, NEW b \in BOOLEAN,
           b \/ (WaitsOnce(s) /\ j \in Live(s))
    PROVE  Goes(s, EndJob(s, j, b))
<1> DEFINE S == Blocks(s.jobs[j].key)
           l == Leave(s, j, b)
           u == Unref(l, S)
           g == Gc(u, S)
           z == RecheckParked(g)
<1>1. Goes(s, l) /\ l \in Store
  BY LeaveGoes, GoesStore
<1> HIDE DEF l
<1>2. Goes(s, u) /\ u \in Store
  <2>1. Goes(l, u)
    BY <1>1, RefGoes
  <2> QED
    BY <1>1, <2>1, GoesTrans, GoesStore
<1> HIDE DEF u
<1>3. Goes(s, g) /\ g \in Store
  <2>1. Goes(u, g)
    BY <1>2, GcGoes
  <2> QED
    BY <1>2, <2>1, GoesTrans, GoesStore
<1> HIDE DEF g
<1>4. Goes(s, z)
  BY <1>3, RecheckGoes, GoesTrans
<1>5. EndJob(s, j, b) = z
  BY LeaveParts DEF z, g, u, l
<1> QED
  BY <1>4, <1>5

\* A task other than a deletion is queued, a rewrite for a point only.
LEMMA QueueGoes ==
    ASSUME NEW s \in Store, NEW z \in Store, NEW t \in Task, z.tasks = Append(s.tasks, t),
           z.points = s.points, z.have = s.have,
           t.kind = "shared" => t.key \in s.points /\ t.key \in z.shared,
           z.shared = s.shared \/ (t.kind = "shared" /\ z.shared = s.shared \cup {t.key}),
           \A i \in Jobs : z.jobs[i].key = s.jobs[i].key /\ (z.jobs[i].state \in LiveStates => s.jobs[i].state \in LiveStates)
                           /\ (z.jobs[i].state = "unused" => s.jobs[i].state = "unused")
    PROVE  Goes(s, z)
<1>1. /\ DOMAIN s.tasks \subseteq DOMAIN z.tasks
      /\ \A i \in DOMAIN s.tasks : z.tasks[i] = s.tasks[i]
      /\ \A i \in DOMAIN z.tasks \ DOMAIN s.tasks : z.tasks[i] = t
      /\ \E i \in DOMAIN z.tasks : z.tasks[i] = t
  BY TasksAre
<1>2. GoesOn(s, z)
  BY <1>1 DEF GoesOn, RewriteHolds
<1>3. Fewer(s, z)
  BY DEF Fewer, Live
<1>4. \A k \in z.points \cap z.shared : k \in s.shared \/ Rewritten(z, k)
  <2> TAKE k \in z.points \cap z.shared
  <2>1. CASE k \in s.shared
    BY <2>1
  <2>2. CASE k \notin s.shared
    <3>1. t.kind = "shared" /\ k = t.key
      BY <2>2
    <3> QED
      BY <1>1, <3>1 DEF Rewritten
  <2> QED
    BY <2>1, <2>2
<1>5. s.shared \subseteq z.shared
  OBVIOUS
<1>6. \A j \in Jobs : j \in Live(z) => j \in Live(s) /\ z.jobs[j].key = s.jobs[j].key
  BY <1>3 DEF Fewer
<1>7. Moves(s, z)
  BY <1>2, <1>4, <1>5, <1>6 DEF Moves
<1> QED
  BY <1>3, <1>7 DEF Goes

LEMMA SettleGoes ==
    ASSUME NEW s \in Store, NEW j \in Jobs, WaitsOnce(s)
    PROVE  Goes(s, Settle(s, j))
<1> DEFINE r == s.jobs[j]
           z == Settle(s, j)
<1>1. CASE r.state = "open" /\ r.left = {} /\ r.out = {} /\ r.capture = "ok" /\ r.tailSlot = NoSlot
  <2> DEFINE a == [r EXCEPT !.state = "publishing"]
             t == [kind |-> "point", job |-> j]
             s1 == [s EXCEPT !.jobs[j] = a]
             tasks == Append(s1.tasks, t)
  <2>1. z = [s1 EXCEPT !.tasks = tasks]
    <3>1. z = Queue([s EXCEPT !.jobs[j].state = "publishing"], t)
      BY <1>1 DEF Settle
    <3>2. [s EXCEPT !.jobs[j].state = "publishing"] = s1
      OBVIOUS
    <3> QED
      BY <3>1, <3>2 DEF Queue
  <2>2. r \in Job
    BY StoreFields
  <2>3. a \in Job /\ a.key = r.key /\ a.state = "publishing"
    <3> HIDE DEF r
    <3> QED
      BY <2>2 DEF Job, LiveStates
  <2>4. t \in Task /\ t.kind = "point"
    BY PointTaskType
  <2> HIDE DEF a, t
  <2>5. /\ s1 \in Store /\ s1.points = s.points /\ s1.have = s.have /\ s1.shared = s.shared /\ s1.tasks = s.tasks
        /\ s1.jobs = [s.jobs EXCEPT ![j] = a] /\ s.jobs \in [Jobs -> Job]
    BY <2>3, JobUpdateType DEF Keeps, Store
  <2> HIDE DEF s1
  <2>6. z \in Store
    <3>1. z = Queue(s1, t)
      BY <2>1 DEF Queue
    <3> QED
      BY <2>4, <2>5, <3>1, QueueType DEF Keeps
  <2>7. /\ z.points = s.points /\ z.have = s.have /\ z.shared = s.shared /\ z.tasks = Append(s.tasks, t)
        /\ z.jobs = [s.jobs EXCEPT ![j] = a]
    <3>1. /\ z.points = s1.points /\ z.have = s1.have /\ z.shared = s1.shared /\ z.tasks = tasks /\ z.jobs = s1.jobs
      <4> HIDE DEF z, tasks
      <4> QED
        BY <2>1, <2>5 DEF Store
    <3> QED
      BY <2>5, <3>1
  <2> HIDE DEF z, tasks
  <2>8. \A i \in Jobs : z.jobs[i].key = s.jobs[i].key /\ (z.jobs[i].state \in LiveStates => s.jobs[i].state \in LiveStates)
                        /\ (z.jobs[i].state = "unused" => s.jobs[i].state = "unused")
    <3> TAKE i \in Jobs
    <3>1. CASE i = j
      <4>1. z.jobs[i] = a /\ s.jobs[i].state = "open"
        BY <1>1, <2>5, <2>7, <3>1
      <4> QED
        BY <2>3, <3>1, <4>1 DEF LiveStates
    <3>2. CASE i # j
      BY <2>5, <2>7, <3>2
    <3> QED
      BY <3>1, <3>2
  <2>9. Goes(s, z)
    BY <2>4, <2>6, <2>7, <2>8, QueueGoes
  <2> QED
    BY <2>9 DEF z
<1>2. CASE r.state \in {"failed", "cancelled"} /\ r.out = {} /\ r.capture # "pending"
  <2>1. z = EndJob(s, j, FALSE)
    BY <1>2 DEF Settle
  <2>2. j \in Live(s)
    BY <1>2 DEF Live, LiveStates
  <2> QED
    BY <2>1, <2>2, EndJobGoes
<1>3. CASE /\ ~(r.state = "open" /\ r.left = {} /\ r.out = {} /\ r.capture = "ok" /\ r.tailSlot = NoSlot)
           /\ ~(r.state \in {"failed", "cancelled"} /\ r.out = {} /\ r.capture # "pending")
  <2>1. z = s
    BY <1>3 DEF Settle
  <2> QED
    BY <2>1, GoesSelf
<1> QED
  BY <1>1, <1>2, <1>3

LEMMA ReleaseGoes ==
    ASSUME NEW s \in Store, NEW j \in Jobs, NEW st \in {"failed", "cancelled"}, NEW h \in HandOvers(s, j),
           s.jobs[j].state = "open"
    PROVE  Goes(s, Release([s EXCEPT !.jobs[j].state = st], j, h))
<1> DEFINE z == Release([s EXCEPT !.jobs[j].state = st], j, h)
<1>1. PICK y : Handing(s, y, j, st, h) /\ z = RecheckParked(y)
  BY ReleaseIs
<1> HIDE DEF z
<1>2. /\ y \in Store /\ y.points = s.points /\ y.have = s.have /\ y.tasks = s.tasks /\ y.shared = s.shared
      /\ y.jobs[j].state = st
      /\ \A i \in Jobs : y.jobs[i].key = s.jobs[i].key /\ (i # j => y.jobs[i].state = s.jobs[i].state)
  BY <1>1 DEF Handing
<1>3. Fewer(s, y)
  BY <1>2 DEF Fewer, Live, LiveStates
<1>4. \A i \in Jobs : y.jobs[i].state = "unused" => s.jobs[i].state = "unused"
  BY <1>2
<1>5. Goes(s, y)
  BY <1>2, <1>3, <1>4, StillMoves DEF Goes
<1>6. Goes(s, z)
  BY <1>1, <1>2, <1>5, RecheckGoes, GoesTrans
<1> QED
  BY <1>6 DEF z

LEMMA FailGoes ==
    ASSUME NEW s \in Store, NEW j \in Jobs, NEW h \in HandOvers(s, j), s.jobs[j].state = "open"
    PROVE  Goes(s, Fail(s, j, h))
BY ReleaseGoes DEF Fail

LEMMA CancelJobGoes ==
    ASSUME NEW s \in Store, NEW j \in Jobs, NEW h \in HandOvers(s, j), s.jobs[j].state = "open", WaitsOnce(s)
    PROVE  Goes(s, CancelJob(s, j, h))
<1> DEFINE y == Release([s EXCEPT !.jobs[j].state = "cancelled"], j, h)
<1>1. Goes(s, y) /\ y \in Store /\ WaitsOnce(y)
  BY ReleaseGoes, GoesStore, GoesWaits
<1> HIDE DEF y
<1>2. Goes(s, Settle(y, j))
  BY <1>1, SettleGoes, GoesTrans
<1> QED
  BY <1>2 DEF CancelJob, y

LEMMA HandGoes ==
    ASSUME NEW s \in Store, NEW j \in Jobs, NEW S \in SUBSET Names, NEW W
    PROVE  Goes(s, Hand(s, j, S, W))
<1> DEFINE r == [s.jobs[j] EXCEPT !.left = s.jobs[j].left \ S, !.out = s.jobs[j].out \cup S]
           jobs == [s.jobs EXCEPT ![j] = r]
           free == s.free \ W
           z == Hand(s, j, S, W)
<1>1. Handed(s, z, j, S, W)
  BY HandIs
<1>2. z = [s EXCEPT !.jobs = jobs, !.free = free]
  BY DEF Hand
<1>3. z.points = s.points /\ z.have = s.have /\ z.shared = s.shared
  <2> HIDE DEF z, jobs, free
  <2> QED
    BY <1>2 DEF Store
<1> HIDE DEF z
<1>4. /\ z \in Store /\ z.tasks = s.tasks
      /\ \A i \in Jobs : z.jobs[i].key = s.jobs[i].key /\ z.jobs[i].state = s.jobs[i].state
  BY <1>1 DEF Handed, OnlyJob
<1>5. Goes(s, z)
  BY <1>3, <1>4, SameFewer, StillMoves DEF Goes
<1> QED
  BY <1>5 DEF z

\* A copy goes to the writer.
LEMMA QueueCopyGoes ==
    ASSUME NEW s \in Store, NEW j \in Jobs, NEW n \in Names, NEW w \in WriteSlots
    PROVE  Goes(s, Queue(s, [kind |-> "block", job |-> j, name |-> n, slot |-> w]))
<1> DEFINE t == [kind |-> "block", job |-> j, name |-> n, slot |-> w]
           z == Queue(s, t)
<1>1. t \in Task /\ t.kind = "block"
  BY BlockTaskType
<1> HIDE DEF t
<1>2. z \in Store
  BY <1>1, QueueType DEF Keeps
<1>3. /\ z.tasks = Append(s.tasks, t) /\ z.points = s.points /\ z.have = s.have /\ z.shared = s.shared
      /\ z.jobs = s.jobs
  BY DEF Queue, Store
<1> HIDE DEF z
<1>4. Goes(s, z)
  <2>1. \A i \in Jobs : z.jobs[i].key = s.jobs[i].key /\ (z.jobs[i].state \in LiveStates => s.jobs[i].state \in LiveStates)
                        /\ (z.jobs[i].state = "unused" => s.jobs[i].state = "unused")
    BY <1>3
  <2>2. t.kind # "shared"
    BY <1>1
  <2> QED
    BY <1>1, <1>2, <1>3, <2>1, <2>2, QueueGoes
<1> QED
  BY <1>4 DEF z, t

\* A write is registered: the one step after which more writes are live.
LEMMA RegisterMoves ==
    ASSUME NEW s \in Store, NEW j \in Jobs, NEW k \in Keys, NEW b \in BOOLEAN,
           NEW new \in SUBSET Names, NEW w \in WriteSlots \cup {NoSlot},
           s.jobs[j].state = "unused", k \notin s.points
    PROVE  Moves(s, Register(s, j, k, b, new, w))
<1> DEFINE size == Cardinality(new) + FileBytes
           r == [NoWrite EXCEPT !.key = k, !.state = "open", !.left = new \ TailBlock(k),
                                !.tailSlot = w, !.size = size]
           jobs == [s.jobs EXCEPT ![j] = r]
           inflight == [n \in Names |-> IF n \in new THEN j ELSE s.inflight[n]]
           shared == IF b THEN s.shared \cup {k} ELSE s.shared
           free == s.free \ {w}
           queued == s.queued + size
           z == Register(s, j, k, b, new, w)
<1>1. Registered(s, z, j, k, new, w)
  <2> HIDE DEF size, r, jobs, inflight, shared, free, queued, z
  <2>1. Registered(s, Register(s, j, k, b, new, w), j, k, new, w)
    BY RegisterIs
  <2> QED
    BY <2>1 DEF z
<1>2. z.points = s.points /\ z.have = s.have
  <2> HIDE DEF size, r, jobs, inflight, shared, free, queued
  <2> QED
    BY DEF Register, Store
<1>3. z = [s EXCEPT !.jobs = jobs, !.inflight = inflight, !.shared = shared, !.free = free, !.queued = queued]
  BY DEF Register
<1>4. z.shared = shared
  <2> HIDE DEF jobs, inflight, shared, free, queued, z
  <2> QED
    BY <1>3 DEF Store
<1> HIDE DEF z, jobs, inflight, free, queued
<1>5. /\ z \in Store /\ z.tasks = s.tasks /\ \A i \in Jobs \ {j} : z.jobs[i] = s.jobs[i]
      /\ z.jobs[j].state = "open"
  BY <1>1 DEF Registered, OnlyJob
<1>6. GoesOn(s, z)
  BY <1>5 DEF GoesOn
<1>7. s.shared \subseteq z.shared /\ \A l \in z.points \cap z.shared : l \in s.shared
  BY <1>2, <1>4
<1> HIDE DEF shared
<1>8. \A i \in Jobs : /\ i \in Live(z) => \/ i \in Live(s) /\ z.jobs[i].key = s.jobs[i].key
                                          \/ s.jobs[i].state = "unused"
                      /\ z.jobs[i].state = "unused" => s.jobs[i].state = "unused"
  <2> TAKE i \in Jobs
  <2>1. CASE i = j
    BY <1>5, <2>1
  <2>2. CASE i # j
    BY <1>5, <2>2 DEF Live
  <2> QED
    BY <2>1, <2>2
<1>9. Moves(s, z)
  BY <1>2, <1>5, <1>6, <1>7, <1>8 DEF Moves
<1> QED
  BY <1>9 DEF z

LEMMA IndexedWaits ==
    ASSUME IInv, NEW m \in Int, Indexed(m)
    PROVE  store \in Store /\ WaitsOnce(store)
<1>1. Exact(store, {}, {}, RunningName, RunningPoint, m) /\ store \in Store
  BY IndexedIs
<1> QED
  BY <1>1, ExactIs

LEMMA MarkSharedMoves ==
    ASSUME IInv, NEW k \in Keys, MarkShared(k)
    PROVE  Moves(store, store')
<1> DEFINE shared == store.shared \cup {k}
           s == [store EXCEPT !.shared = shared]
           t == [kind |-> "shared", key |-> k]
<1>1. store \in Store /\ shared \in SUBSET Keys
  BY StoreFields DEF IInv, TypeOK
<1>2. /\ s \in Store /\ s.points = store.points /\ s.have = store.have /\ s.jobs = store.jobs
      /\ s.tasks = store.tasks /\ s.shared = shared
  <2> HIDE DEF shared
  <2> QED
    BY <1>1 DEF Store
<1>3. store' = IF k \in s.points THEN Queue(s, t) ELSE s
  BY DEF MarkShared
<1>4. t \in Task /\ t.kind = "shared" /\ t.key = k
  BY SharedTaskType
<1> HIDE DEF s, t
<1>5. CASE k \in s.points
  <2>1. store' \in Store
    BY <1>2, <1>3, <1>4, <1>5, QueueType DEF Keeps
  <2>2. /\ store'.points = store.points /\ store'.have = store.have /\ store'.shared = shared
        /\ store'.jobs = store.jobs /\ store'.tasks = Append(store.tasks, t)
    <3>1. store' = [s EXCEPT !.tasks = Append(s.tasks, t)]
      BY <1>3, <1>5 DEF Queue
    <3> HIDE DEF shared
    <3> QED
      BY <1>2, <3>1 DEF Store
  <2>3. \A i \in Jobs : /\ store'.jobs[i].key = store.jobs[i].key
                        /\ store'.jobs[i].state \in LiveStates => store.jobs[i].state \in LiveStates
                        /\ store'.jobs[i].state = "unused" => store.jobs[i].state = "unused"
    BY <2>2
  <2>4. Goes(store, store')
    <3> DEFINE z == store'
    <3>1. z \in Store /\ z.tasks = Append(store.tasks, t) /\ z.points = store.points /\ z.have = store.have
      BY <2>1, <2>2
    <3>2. t.kind = "shared" => t.key \in store.points /\ t.key \in z.shared
      BY <1>2, <1>4, <1>5, <2>2
    <3>3. t.kind = "shared" /\ z.shared = store.shared \cup {t.key}
      BY <1>4, <2>2
    <3>4. \A i \in Jobs : /\ z.jobs[i].key = store.jobs[i].key
                          /\ z.jobs[i].state \in LiveStates => store.jobs[i].state \in LiveStates
                          /\ z.jobs[i].state = "unused" => store.jobs[i].state = "unused"
      BY <2>3
    <3> HIDE DEF z
    <3>5. Goes(store, z)
      BY <1>1, <1>4, <3>1, <3>2, <3>3, <3>4, QueueGoes
    <3> QED
      BY <3>5 DEF z
  <2> QED
    BY <2>4 DEF Goes
<1>6. CASE k \notin s.points
  <2>1. store' = s
    BY <1>3, <1>6
  <2>2. GoesOn(store, s) /\ Live(s) = Live(store)
    BY <1>2 DEF GoesOn, Live
  <2>3. store.shared \subseteq s.shared /\ \A l \in s.points \cap s.shared : l \in store.shared
    BY <1>2, <1>6
  <2> HIDE DEF shared
  <2>4. Moves(store, s)
    BY <1>2, <2>2, <2>3 DEF Moves
  <2> QED
    BY <2>1, <2>4
<1> QED
  BY <1>5, <1>6

LEMMA ForgetMoves ==
    ASSUME IInv, NEW m \in Int, Indexed(m), NEW k, NEW gone, Forget(k, gone)
    PROVE  Moves(store, store')
<1> DEFINE V == {k} \cup {p \in store.points : Blocks(p) \cap gone # {}}
           y == RemovePoints(store, V)
<1>1. store \in Store /\ WaitsOnce(store)
  BY IndexedWaits
<1>2. store' = DropBlocks(y, gone)
  BY DEF Forget
<1> HIDE DEF V
<1>3. Goes(store, y) /\ y \in Store
  BY <1>1, RemoveGoes, GoesStore
<1> HIDE DEF y
<1>4. Goes(store, DropBlocks(y, gone))
  BY <1>3, DropGoes, GoesTrans
<1> QED
  BY <1>2, <1>4 DEF Goes

LEMMA KeepMoves ==
    ASSUME IInv, NEW m \in Int, Indexed(m), NEW k \in Keys, NEW b \in BOOLEAN, NEW V, Keep(k, b, V)
    PROVE  Moves(store, store')
<1> DEFINE new == {n \in Blocks(k) : n \notin store.have /\ store.inflight[n] = NoJob}
           tail == new \cap TailBlock(k)
           pinned == Ref(store, Blocks(k))
           over == Over(store, Cardinality(new) + FileBytes)
           s == IF over > 0 /\ over <= store.stored THEN RemovePoints(pinned, V) ELSE pinned
           u == Unref(s, Blocks(k))
           refused == Gc(u, Blocks(k))
<1>1. PICK j \in NextJob(store) :
        \/ \E w \in IF tail = {} THEN {NoSlot} ELSE s.free : store' = Register(s, j, k, b, new, w)
        \/ store' = refused
  BY DEF Keep
<1>2. store \in Store /\ WaitsOnce(store) /\ ~AlreadyKept(store, k)
  BY IndexedWaits DEF Keep
<1>3. new \in SUBSET Names
  BY NamesType
<1> HIDE DEF new, tail, over
<1>4. Goes(store, pinned) /\ pinned \in Store /\ WaitsOnce(pinned) /\ pinned.jobs = store.jobs
  <2>1. Goes(store, pinned)
    BY <1>2, RefGoes
  <2>2. pinned.jobs = store.jobs
    BY <1>2 DEF Ref, Store
  <2> HIDE DEF pinned
  <2> QED
    BY <1>2, <2>1, <2>2, GoesStore, GoesWaits
<1>5. Goes(store, s) /\ s \in Store /\ s.jobs = store.jobs
  <2> DEFINE x == RemovePoints(pinned, V)
  <2> HIDE DEF pinned
  <2>1. Goes(pinned, x)
    BY <1>4, RemoveGoes
  <2>2. x.jobs = pinned.jobs
    BY <1>4, RemovePointsAlike DEF Alike
  <2> HIDE DEF x
  <2>3. Goes(store, x) /\ x \in Store
    BY <1>4, <2>1, GoesTrans, GoesStore
  <2>4. s = x \/ s = pinned
    BY DEF x
  <2> HIDE DEF s
  <2> QED
    BY <1>4, <2>2, <2>3, <2>4
<1> HIDE DEF s
<1>6. CASE store' = refused
  <2>1. Goes(s, u) /\ u \in Store
    BY <1>5, RefGoes, GoesStore
  <2> HIDE DEF u
  <2>2. Goes(u, refused)
    BY <2>1, GcGoes
  <2>3. Goes(store, refused)
    BY <1>5, <2>1, <2>2, GoesTrans
  <2> QED
    BY <1>6, <2>3 DEF Goes
<1>7. ASSUME NEW w \in IF tail = {} THEN {NoSlot} ELSE s.free, store' = Register(s, j, k, b, new, w)
      PROVE  Moves(store, store')
  <2>1. j \in Jobs /\ s.jobs[j].state = "unused"
    BY <1>5 DEF NextJob
  <2>2. k \notin s.points
    BY <1>2, <1>5, GoesStore DEF AlreadyKept
  <2>3. w \in WriteSlots \cup {NoSlot}
    BY <1>5, StoreFields
  <2> DEFINE z == Register(s, j, k, b, new, w)
  <2>4. Moves(s, z)
    BY <1>3, <1>5, <2>1, <2>2, <2>3, RegisterMoves
  <2> HIDE DEF z
  <2>5. Moves(store, z)
    BY <1>5, <2>4, MovesTrans DEF Goes
  <2> QED
    BY <1>7, <2>5 DEF z
<1> QED
  BY <1>1, <1>6, <1>7

LEMMA StageMoves ==
    ASSUME IInv, NEW j \in Jobs, NEW n \in Names, NEW w, Stage(j, n, w)
    PROVE  Moves(store, store')
<1> DEFINE S == {n}
           W == {w}
<1>1. store \in Store /\ S \in SUBSET Names /\ store' = Hand(store, j, S, W)
  BY DEF IInv, TypeOK, Stage
<1> HIDE DEF S, W
<1>2. Goes(store, Hand(store, j, S, W))
  BY <1>1, HandGoes
<1> QED
  BY <1>1, <1>2 DEF Goes

LEMMA CancelMoves ==
    ASSUME IInv, NEW m \in Int, Indexed(m), NEW j \in Jobs, NEW h \in HandOvers(store, j),
           store.jobs[j].state = "open", store' = CancelJob(store, j, h)
    PROVE  Moves(store, store')
<1>1. Goes(store, CancelJob(store, j, h))
  BY IndexedWaits, CancelJobGoes
<1> QED
  BY <1>1 DEF Goes

LEMMA GuardMoves ==
    ASSUME IInv, NEW m \in Int, Indexed(m), NEW j \in Jobs, NEW from, Guard(j, from)
    PROVE  Moves(store, store')
<1> DEFINE left == store.jobs[j].left
<1>1. store \in Store /\ left \in SUBSET Names /\ store.jobs[j].state = "open"
  BY StoreFields, JobFields DEF IInv, TypeOK, Guard
<1>2. \/ \E W : store' = Hand(store, j, left, W)
      \/ \E h \in HandOvers(store, j) : store' = CancelJob(store, j, h)
  BY DEF Guard
<1> HIDE DEF left
<1>3. ASSUME NEW W, store' = Hand(store, j, left, W) PROVE Moves(store, store')
  <2>1. Goes(store, Hand(store, j, left, W))
    BY <1>1, HandGoes
  <2> QED
    BY <1>3, <2>1 DEF Goes
<1>4. ASSUME NEW h \in HandOvers(store, j), store' = CancelJob(store, j, h) PROVE Moves(store, store')
  BY <1>1, <1>4, CancelMoves
<1> QED
  BY <1>2, <1>3, <1>4

\* Block n of j, whose copy is over, is given back.
LEMMA GivenBackGoes ==
    ASSUME NEW s \in Store, WaitsOnce(s), NEW j \in Jobs, NEW n \in Names, NEW w \in WriteSlots
    PROVE  Goes(s, Settle(DropInflight(GiveBack(s, j, n, w), j, n), j))
<1> DEFINE x == GiveBack(s, j, n, w)
           y == DropInflight(x, j, n)
<1>1. Goes(s, x) /\ x \in Store
  BY GiveBackGoes, GoesStore
<1> HIDE DEF x
<1>2. Goes(s, y) /\ y \in Store /\ WaitsOnce(y)
  BY <1>1, DropInflightGoes, GoesTrans, GoesStore, GoesWaits
<1> HIDE DEF y
<1>3. Goes(s, Settle(y, j))
  BY <1>2, SettleGoes, GoesTrans
<1> QED
  BY <1>3 DEF y, x

LEMMA StagedMoves ==
    ASSUME IInv, NEW m \in Int, Indexed(m), NEW t, NEW ok, Staged(t, ok)
    PROVE  Moves(store, store')
<1> DEFINE j == t.job
           n == t.name
           w == t.slot
<1>1. store \in Store /\ WaitsOnce(store) /\ j \in Jobs /\ n \in Names /\ w \in WriteSlots
  <2>1. t \in [job : Jobs, name : Names, slot : WriteSlots]
    BY DEF IInv, TypeOK, Staged
  <2> QED
    BY <2>1, IndexedWaits
<1>2. PICK h \in HandOvers(store, j) :
        LET s == IF ~ok /\ store.jobs[j].state = "open" THEN Fail(store, j, h) ELSE store IN
        \/ store' = Queue(s, [kind |-> "block", job |-> j, name |-> n, slot |-> w])
        \/ store' = Settle(DropInflight(GiveBack(s, j, n, w), j, n), j)
  BY DEF Staged
<1> DEFINE s == IF ~ok /\ store.jobs[j].state = "open" THEN Fail(store, j, h) ELSE store
<1> HIDE DEF j, n, w
<1>3. Goes(store, s) /\ s \in Store /\ WaitsOnce(s)
  <2>1. Goes(store, s)
    BY <1>1, GoesSelf, FailGoes
  <2> HIDE DEF s
  <2> QED
    BY <1>1, <2>1, GoesStore, GoesWaits
<1>4. \/ store' = Queue(s, [kind |-> "block", job |-> j, name |-> n, slot |-> w])
      \/ store' = Settle(DropInflight(GiveBack(s, j, n, w), j, n), j)
  BY <1>2
<1> HIDE DEF s
<1>5. CASE store' = Queue(s, [kind |-> "block", job |-> j, name |-> n, slot |-> w])
  <2> DEFINE z == Queue(s, [kind |-> "block", job |-> j, name |-> n, slot |-> w])
  <2>1. Goes(s, z)
    BY <1>1, <1>3, QueueCopyGoes
  <2> HIDE DEF z
  <2>2. Goes(store, z)
    BY <1>3, <2>1, GoesTrans
  <2> QED
    BY <1>5, <2>2 DEF Goes, z
<1>6. CASE store' = Settle(DropInflight(GiveBack(s, j, n, w), j, n), j)
  <2> DEFINE z == Settle(DropInflight(GiveBack(s, j, n, w), j, n), j)
  <2>1. Goes(s, z)
    BY <1>1, <1>3, GivenBackGoes
  <2> HIDE DEF z
  <2>2. Goes(store, z)
    BY <1>3, <2>1, GoesTrans
  <2> QED
    BY <1>6, <2>2 DEF Goes, z
<1> QED
  BY <1>4, <1>5, <1>6

LEMMA JobsFewer ==
    ASSUME NEW s, NEW z,
           \A i \in Jobs : /\ z.jobs[i].key = s.jobs[i].key
                           /\ z.jobs[i].state \in LiveStates => s.jobs[i].state \in LiveStates
    PROVE  Fewer(s, z)
<1> SUFFICES ASSUME NEW i \in Live(z) PROVE i \in Live(s) /\ z.jobs[i].key = s.jobs[i].key
  BY DEF Fewer
<1>1. i \in Jobs /\ z.jobs[i].state \in LiveStates
  BY DEF Live
<1>2. z.jobs[i].key = s.jobs[i].key /\ s.jobs[i].state \in LiveStates
  BY <1>1
<1> QED
  BY <1>1, <1>2 DEF Live

LEMMA CaptureGoes ==
    ASSUME IInv, NEW m \in Int, Indexed(m), NEW j \in Jobs, NEW ok \in BOOLEAN, Captured(j, ok)
    PROVE  Goes(store, CaptureEnds(j, ok))
<1> DEFINE r == store.jobs[j]
           c == IF ok THEN "ok" ELSE "failed"
           st == IF ~ok /\ r.state = "open" THEN "failed" ELSE r.state
           r1 == [r EXCEPT !.capture = c, !.state = st, !.tailSlot = NoSlot]
           jobs1 == [store.jobs EXCEPT ![j] = r1]
           s1 == [store EXCEPT !.jobs = jobs1]
           t == Last(BlocksOf[r.key])
           task == [kind |-> "block", job |-> j, name |-> t, slot |-> r.tailSlot]
           out == r.out \cup {t}
           r2 == [r1 EXCEPT !.out = out]
           jobs2 == [jobs1 EXCEPT ![j] = r2]
           s2 == [s1 EXCEPT !.jobs = jobs2]
           z == CaptureEnds(j, ok)
<1>0. z = CaptureEnds(j, ok)
  OBVIOUS
<1>1. store \in Store /\ r \in Job /\ r.state \in LiveStates /\ z \in Store /\ SameIndex(store, z)
  BY IndexedWaits, StoreFields, CaptureExact DEF Captured, Live, SameIndex
<1>2. z = IF r.tailSlot = NoSlot THEN s1
          ELSE IF s1.jobs[j].state = "open" THEN Queue([s1 EXCEPT !.jobs[j].out = @ \cup {t}], task)
          ELSE GiveSlot(s1, r.tailSlot)
  BY DEF CaptureEnds
<1>3. /\ r1.key = r.key /\ r1.state = st /\ r1.out = r.out /\ r2.key = r.key /\ r2.state = st
      /\ r.key \in Keys /\ t \in Names /\ r.tailSlot \in WriteSlots \cup {NoSlot}
  <2>1. r.key \in Keys /\ t \in Names /\ r.tailSlot \in WriteSlots \cup {NoSlot}
    BY <1>1, JobFields, NamesType
  <2>2. r1.key = r.key /\ r1.state = st /\ r1.out = r.out /\ r2.key = r1.key /\ r2.state = r1.state
    <3> HIDE DEF r, c, st, out
    <3> QED
      BY <1>1 DEF Job
  <2> QED
    BY <2>1, <2>2
<1>4. store.jobs \in [Jobs -> Job]
  BY <1>1, StoreFields
<1>5. st \in LiveStates /\ st # "unused"
  BY <1>1 DEF LiveStates
<1> HIDE DEF r1, r2, st, c
<1>6. jobs1[j] = r1 /\ jobs2[j] = r2 /\ \A i \in Jobs \ {j} : jobs1[i] = store.jobs[i] /\ jobs2[i] = store.jobs[i]
  BY <1>4
<1>7. /\ s1.jobs = jobs1 /\ s1.tasks = store.tasks /\ s1.shared = store.shared
      /\ s1.points = store.points /\ s1.have = store.have
      /\ s2.jobs = jobs2 /\ s2.tasks = store.tasks /\ s2.shared = store.shared
      /\ s2.points = store.points /\ s2.have = store.have
  <2> HIDE DEF jobs1, jobs2
  <2> QED
    BY <1>1 DEF Store
<1>8. /\ \A i \in Jobs : jobs1[i].key = store.jobs[i].key /\ (jobs1[i].state \in LiveStates => store.jobs[i].state \in LiveStates)
                         /\ (jobs1[i].state = "unused" => store.jobs[i].state = "unused")
      /\ \A i \in Jobs : jobs2[i].key = store.jobs[i].key /\ (jobs2[i].state \in LiveStates => store.jobs[i].state \in LiveStates)
                         /\ (jobs2[i].state = "unused" => store.jobs[i].state = "unused")
  <2> HIDE DEF jobs1, jobs2
  <2>1. \A i \in Jobs \ {j} : jobs1[i] = store.jobs[i] /\ jobs2[i] = store.jobs[i]
    BY <1>6
  <2>2. /\ jobs1[j].key = store.jobs[j].key /\ jobs1[j].state = st
        /\ jobs2[j].key = store.jobs[j].key /\ jobs2[j].state = st
    BY <1>3, <1>6
  <2>3. store.jobs[j].state \in LiveStates
    BY <1>1
  <2> HIDE DEF r
  <2> QED
    BY <1>5, <2>1, <2>2, <2>3
<1>9. CASE r.tailSlot = NoSlot \/ s1.jobs[j].state # "open"
  <2>1. /\ z.jobs = jobs1 /\ z.tasks = store.tasks /\ z.shared = store.shared
        /\ z.points = store.points /\ z.have = store.have
    <3>1. CASE z = s1
      BY <1>7, <3>1
    <3>2. CASE z = GiveSlot(s1, r.tailSlot)
      <4> DEFINE free == s1.free \cup ({r.tailSlot} \ {NoSlot})
      <4>1. z = [s1 EXCEPT !.free = free]
        BY <3>2 DEF GiveSlot
      <4>2. s1 = [store EXCEPT !.jobs = jobs1]
        OBVIOUS
      <4> HIDE DEF s1, free, z, jobs1
      <4>3. DOMAIN s1 = DOMAIN store
        BY <4>2
      <4> QED
        BY <1>1, <1>7, <4>1, <4>2 DEF Store
    <3> QED
      BY <1>2, <1>9, <3>1, <3>2
  <2> HIDE DEF z, jobs1, jobs2, s1, s2, r, t, task, out
  <2>2. \A i \in Jobs : /\ z.jobs[i].key = store.jobs[i].key
                        /\ z.jobs[i].state \in LiveStates => store.jobs[i].state \in LiveStates
                        /\ z.jobs[i].state = "unused" => store.jobs[i].state = "unused"
    BY <1>8, <2>1
  <2>3. Fewer(store, z)
    BY <2>2, JobsFewer
  <2>4. z \in Store /\ z.have = store.have
    BY <1>1, <2>1
  <2>6. \A i \in Jobs : z.jobs[i].state = "unused" => store.jobs[i].state = "unused"
    BY <2>2
  <2>7. /\ z.tasks = store.tasks /\ z.shared = store.shared /\ z.points = store.points
    BY <2>1
  <2>5. Moves(store, z)
    BY <2>3, <2>4, <2>6, <2>7, StillMoves
  <2> QED
    BY <1>0, <2>3, <2>5 DEF Goes
<1>10. CASE r.tailSlot # NoSlot /\ s1.jobs[j].state = "open"
  <2>1. [s1 EXCEPT !.jobs[j].out = @ \cup {t}] = s2
    <3>1. s1.jobs[j] = r1 /\ r1.out = r.out
      BY <1>3, <1>6, <1>7
    <3> QED
      BY <1>7, <3>1 DEF r2
  <2>2. z = Queue(s2, task)
    BY <1>2, <1>10, <2>1
  <2>3. task \in Task /\ task.kind = "block"
    <3>1. r.tailSlot \in WriteSlots
      BY <1>3, <1>10
    <3> HIDE DEF t, r
    <3> QED
      BY <1>3, <3>1, BlockTaskType
  <2> DEFINE tasks == Append(store.tasks, task)
  <2>4. /\ z.jobs = jobs2 /\ z.tasks = tasks /\ z.shared = store.shared
        /\ z.points = store.points /\ z.have = store.have
    <3>1. z = [s2 EXCEPT !.tasks = tasks]
      BY <1>7, <2>2 DEF Queue
    <3>2. s2 = [store EXCEPT !.jobs = jobs2]
      OBVIOUS
    <3> HIDE DEF s2, tasks, z, jobs2
    <3> QED
      BY <1>1, <1>7, <3>1, <3>2 DEF Store
  <2>6. z.tasks = Append(store.tasks, task)
    BY <2>4
  <2> HIDE DEF z, jobs1, jobs2, task, s1, s2, r, t, out, tasks
  <2>5. task.kind # "shared"
    BY <2>3
  <2>7. \A i \in Jobs : z.jobs[i].key = store.jobs[i].key /\ (z.jobs[i].state \in LiveStates => store.jobs[i].state \in LiveStates)
                         /\ (z.jobs[i].state = "unused" => store.jobs[i].state = "unused")
    BY <1>8, <2>4
  <2>8. task \in Task /\ store \in Store /\ z \in Store
    BY <1>1, <2>3
  <2>9. z.points = store.points /\ z.have = store.have /\ z.shared = store.shared
    BY <2>4
  <2> QED
    BY <1>0, <2>5, <2>6, <2>7, <2>8, <2>9, QueueGoes
<1> QED
  BY <1>9, <1>10

LEMMA CapturedMoves ==
    ASSUME IInv, NEW m \in Int, Indexed(m), NEW j \in Jobs, NEW ok \in BOOLEAN, Captured(j, ok)
    PROVE  Moves(store, store')
<1> DEFINE y == CaptureEnds(j, ok)
<1>1. Goes(store, y) /\ WaitsOnce(store) /\ store' = Settle(y, j)
  BY CaptureGoes, IndexedWaits, CapturedSound
<1> HIDE DEF y
<1>2. y \in Store /\ WaitsOnce(y)
  BY <1>1, GoesStore, GoesWaits
<1>3. Goes(store, Settle(y, j))
  BY <1>1, <1>2, SettleGoes, GoesTrans
<1> QED
  BY <1>1, <1>3 DEF Goes

LEMMA EngineMoves ==
    ASSUME IInv, NEW m \in Int, m <= 0, Indexed(m), Engine
    PROVE  Moves(store, store')
<1>1. store \in Store
  BY IndexedWaits
<1>2. ASSUME NEW k \in Keys, MarkShared(k) PROVE Moves(store, store')
  BY <1>2, MarkSharedMoves
<1>3. ASSUME NEW k \in Keys, NEW b \in BOOLEAN, NEW V \in SUBSET store.points, Keep(k, b, V)
      PROVE  Moves(store, store')
  BY <1>3, KeepMoves
<1>4. ASSUME NEW k \in Keys, BeginRead(k) \/ EndRead(k) PROVE Moves(store, store')
  <2>1. store' = store
    BY <1>4 DEF BeginRead, EndRead
  <2> QED
    BY <1>1, <2>1, MovesSelf
<1>5. ASSUME NEW k \in Keys, NEW gone \in SUBSET Blocks(k), Forget(k, gone) PROVE Moves(store, store')
  BY <1>5, ForgetMoves
<1>6. ASSUME NEW j \in Jobs, NEW ok \in BOOLEAN, Captured(j, ok) PROVE Moves(store, store')
  BY <1>6, CapturedMoves
<1>7. ASSUME NEW j \in Jobs, NEW n \in Names, NEW w \in WriteSlots, Stage(j, n, w) PROVE Moves(store, store')
  BY <1>7, StageMoves
<1>8. ASSUME NEW j \in Jobs, NEW from, Guard(j, from) PROVE Moves(store, store')
  BY <1>8, GuardMoves
<1>9. ASSUME NEW j \in Jobs, Cancel(j) PROVE Moves(store, store')
  <2>1. PICK h \in HandOvers(store, j) : store' = CancelJob(store, j, h)
    BY <1>9 DEF Cancel
  <2> QED
    BY <1>9, <2>1, CancelMoves DEF Cancel
<1>10. ASSUME NEW t \in tickets, NEW ok \in BOOLEAN, Staged(t, ok) PROVE Moves(store, store')
  BY <1>10, StagedMoves
<1> QED
  BY <1>2, <1>3, <1>4, <1>5, <1>6, <1>7, <1>8, <1>9, <1>10 DEF Engine

\* The writer's steps, from the queue without the task it took.
LEMMA PoppedWaits ==
    ASSUME IInv, NEW m \in Int, Indexed(m), NEW kind, Takes(kind)
    PROVE  /\ Popped \in Store /\ WaitsOnce(Popped) /\ Popped.jobs = store.jobs
           /\ Popped.points = store.points /\ Popped.have = store.have /\ Popped.shared = store.shared
<1>1. SameIndex(store, Popped) /\ Popped.jobs = store.jobs
  BY TakenExact
<1>2. store \in Store /\ WaitsOnce(store)
  BY IndexedWaits
<1>3. Popped.shared = store.shared
  BY <1>2 DEF Popped, Store
<1>4. Popped \in Store /\ Popped.points = store.points /\ Popped.have = store.have
  BY <1>1 DEF SameIndex
<1>5. WaitsOnce(Popped)
  BY <1>1, <1>2, <1>4 DEF WaitsOnce, Live
<1> QED
  BY <1>1, <1>3, <1>4, <1>5

LEMMA TakeBlockMoves ==
    ASSUME IInv, NEW m \in Int, Indexed(m), TakeBlock
    PROVE  Moves(Popped, store')
<1> DEFINE t == Head(store.tasks)
           s == Popped
           z == Settle(DropInflight(GiveBack(s, t.job, t.name, t.slot), t.job, t.name), t.job)
<1>1. s \in Store /\ WaitsOnce(s)
  BY PoppedWaits DEF TakeBlock
<1>2. t \in Task /\ t.kind = "block"
  BY TakenSound DEF TakeBlock
<1>3. t.job \in Jobs /\ t.name \in Names /\ t.slot \in WriteSlots
  BY <1>2, TaskFields DEF BlockTask
<1>4. store' = s \/ store' = z
  BY DEF TakeBlock
<1> HIDE DEF s, t
<1>5. Goes(s, z)
  BY <1>1, <1>3, GivenBackGoes
<1> HIDE DEF z
<1>6. Moves(s, store')
  BY <1>1, <1>4, <1>5, MovesSelf DEF Goes
<1> QED
  BY <1>6 DEF s

LEMMA TakePointMoves ==
    ASSUME IInv, NEW m \in Int, Indexed(m), TakePoint
    PROVE  Moves(Popped, store')
<1> DEFINE j == Head(store.tasks).job
           s == Popped
           park == [s EXCEPT !.jobs[j].parked = TRUE]
           z == EndJob(s, j, FALSE)
<1>1. s \in Store /\ WaitsOnce(s)
  BY PoppedWaits DEF TakePoint
<1>2. j \in Jobs /\ s.jobs[j].state = "publishing"
  <2>1. Sound(s, tickets, {j}, {})
    BY TakenSound DEF TakePoint
  <2> HIDE DEF s, j
  <2> QED
    BY <2>1 DEF Sound, QueueFits
<1>3. store' = s \/ store' = park \/ store' = z
  BY DEF TakePoint
<1> HIDE DEF s, j
<1>4. Moves(s, park)
  <2> DEFINE a == s.jobs[j]
             r == [a EXCEPT !.parked = TRUE]
             jobs == [s.jobs EXCEPT ![j] = r]
  <2>1. a \in Job /\ s.jobs \in [Jobs -> Job]
    BY <1>1, <1>2, StoreFields
  <2>2. r \in Job /\ r.key = a.key /\ r.state = a.state
    <3> HIDE DEF a
    <3> QED
      BY <2>1 DEF Job
  <2>3. park = [s EXCEPT !.jobs = jobs] /\ park = [s EXCEPT !.jobs[j] = r]
    OBVIOUS
  <2> HIDE DEF r
  <2>4. \A i \in Jobs : jobs[i].key = s.jobs[i].key /\ jobs[i].state = s.jobs[i].state
    BY <2>1, <2>2
  <2>5. park \in Store
    BY <1>1, <1>2, <2>2, <2>3, JobUpdateType DEF Keeps
  <2> HIDE DEF park, jobs
  <2>6. /\ park.tasks = s.tasks /\ park.points = s.points /\ park.have = s.have /\ park.shared = s.shared
        /\ park.jobs = jobs
    BY <1>1, <2>3 DEF Store
  <2>7. \A i \in Jobs : park.jobs[i].key = s.jobs[i].key /\ park.jobs[i].state = s.jobs[i].state
    BY <2>4, <2>6
  <2>8. Fewer(s, park)
    BY <2>7, SameFewer
  <2>9. \A i \in Jobs : park.jobs[i].state = "unused" => s.jobs[i].state = "unused"
    BY <2>7
  <2> QED
    BY <2>5, <2>6, <2>8, <2>9, StillMoves
<1>5. j \in Live(s)
  BY <1>2 DEF Live, LiveStates
<1>6. Goes(s, z)
  BY <1>1, <1>2, <1>5, EndJobGoes
<1> HIDE DEF z, park
<1>7. Moves(s, store')
  BY <1>1, <1>3, <1>4, <1>6, MovesSelf DEF Goes
<1> QED
  BY <1>7 DEF s

LEMMA TakeOtherMoves ==
    ASSUME IInv, NEW m \in Int, Indexed(m), TakeShared \/ Unlink
    PROVE  Moves(Popped, store')
<1>1. Takes("shared") \/ Takes("unlink")
  BY DEF TakeShared, Unlink
<1>2. Popped \in Store
  BY <1>1, PoppedWaits
<1>3. store' = Popped
  BY DEF TakeShared, Unlink
<1> QED
  BY <1>2, <1>3, MovesSelf

\* The point being written is nowhere else on its way.
LEMMA PointIs ==
    ASSUME IInv, NEW m \in Int, Indexed(m), running.kind = "point"
    PROVE  /\ running.job \in Jobs /\ running.job \in Live(store)
           /\ store.jobs[running.job].state = "publishing"
           /\ store.jobs[running.job].key \in Keys
           /\ store.jobs[running.job].key \notin store.points
           /\ running.job \notin QueuedPoints(store.tasks)
           /\ Exact(store, {}, {}, {}, {running.job}, m)
           /\ Sound(store, tickets \cup {}, {running.job}, {})
<1> DEFINE j == running.job
<1>1. RunningPoint = {j} /\ RunningName = {} /\ RunningCopy = {}
  BY DEF RunningPoint, RunningName, RunningCopy
<1>2. /\ store \in Store /\ Exact(store, {}, {}, {}, {j}, m) /\ j \in Jobs
      /\ Sound(store, tickets \cup {}, {j}, {})
  BY <1>1, IndexedIs
<1> HIDE DEF j
<1>3. store.jobs[j].state = "publishing" /\ j \notin QueuedPoints(store.tasks)
  BY <1>2 DEF Sound, QueueFits
<1>4. j \in Live(store) /\ WaitsOnce(store)
  BY <1>2, <1>3, ExactIs DEF Live, LiveStates
<1>5. store.jobs[j].key \in Keys /\ store.jobs[j].key \notin store.points
  BY <1>2, <1>4, StoreFields, JobFields DEF WaitsOnce
<1> QED
  BY <1>2, <1>3, <1>4, <1>5 DEF j

LEMMA PointFailedMoves ==
    ASSUME IInv, NEW m \in Int, Indexed(m), PointFailed
    PROVE  Moves(store, store')
<1> DEFINE j == running.job
<1>1. running.kind = "point" /\ store' = EndJob(store, j, FALSE)
  BY DEF PointFailed
<1>2. j \in Jobs /\ j \in Live(store) /\ store \in Store /\ WaitsOnce(store)
  BY <1>1, PointIs, IndexedWaits
<1> HIDE DEF j
<1>3. Goes(store, EndJob(store, j, FALSE))
  BY <1>2, EndJobGoes
<1> QED
  BY <1>1, <1>3 DEF Goes

\* A point that a missing block keeps out of the index.
LEMMA DiscardMoves ==
    ASSUME IInv, NEW m \in Int, Indexed(m), PointWritten,
           ~(Blocks(store.jobs[running.job].key) \subseteq store.have)
    PROVE  Moves(store, store') /\ PointDoomed(store', store.jobs[running.job].key)
<1> DEFINE j == running.job
           k == store.jobs[j].key
           t == [kind |-> "unlink", keys |-> {k}, names |-> {}]
           d == Queue(store, t)
<1>1. running.kind = "point" /\ store' = EndJob(d, j, FALSE)
  BY DEF PointWritten
<1>2. j \in Jobs /\ j \in Live(store) /\ k \in Keys /\ store \in Store /\ WaitsOnce(store)
  BY <1>1, PointIs, IndexedWaits
<1>3. t \in Task /\ t.kind = "unlink" /\ k \in t.keys
  BY <1>2, UnlinkType
<1> HIDE DEF t
<1>4. d \in Store
  BY <1>2, <1>3, QueueType DEF Keeps
<1>5. /\ d.tasks = Append(store.tasks, t) /\ d.points = store.points /\ d.have = store.have
      /\ d.shared = store.shared /\ d.jobs = store.jobs
  BY <1>2 DEF Queue, Store
<1> HIDE DEF d, j, k
<1>6. WaitsOnce(d) /\ j \in Live(d)
  BY <1>2, <1>5 DEF WaitsOnce, Live
<1>7. /\ DOMAIN store.tasks \subseteq DOMAIN d.tasks
      /\ \A i \in DOMAIN store.tasks : d.tasks[i] = store.tasks[i]
      /\ \A i \in DOMAIN d.tasks \ DOMAIN store.tasks : d.tasks[i] = t
      /\ \E i \in DOMAIN d.tasks : d.tasks[i] = t
  BY <1>2, <1>3, <1>5, TasksAre
<1>8. Moves(store, d)
  <2>1. GoesOn(store, d)
    BY <1>3, <1>7 DEF GoesOn
  <2>2. \A i \in Jobs : /\ i \in Live(d) => i \in Live(store) /\ d.jobs[i].key = store.jobs[i].key
                        /\ d.jobs[i].state = "unused" => store.jobs[i].state = "unused"
    BY <1>5 DEF Live
  <2> QED
    BY <1>4, <1>5, <2>1, <2>2 DEF Moves
<1>9. PointDoomed(d, k)
  BY <1>3, <1>7 DEF PointDoomed
<1> DEFINE z == EndJob(d, j, FALSE)
<1>10. Goes(d, z)
  BY <1>2, <1>4, <1>6, EndJobGoes
<1>11. store' = z
  BY <1>1
<1> HIDE DEF z
<1>12. Moves(store, z) /\ PointDoomed(z, k)
  <2>1. Moves(d, z) /\ GoesOn(d, z)
    BY <1>10 DEF Goes, Moves
  <2> QED
    BY <1>8, <1>9, <2>1, MovesTrans, DoomedStay
<1> QED
  BY <1>11, <1>12 DEF j, k

\* The index with a point and its references.
Gained(s, k) == [Ref(s, Blocks(k)) EXCEPT !.points = s.points \cup {k}, !.stored = s.stored + FileBytes]

LEMMA GainedIs ==
    ASSUME NEW s \in Store, NEW k \in Keys
    PROVE  LET z == Gained(s, k) IN
           /\ z \in Store /\ z.points = s.points \cup {k} /\ z.have = s.have /\ z.shared = s.shared
           /\ z.tasks = s.tasks /\ z.jobs = s.jobs
<1> DEFINE r == Ref(s, Blocks(k))
           points == s.points \cup {k}
           stored == s.stored + FileBytes
           z == Gained(s, k)
<1>1. /\ r \in Store /\ r.points = s.points /\ r.have = s.have /\ r.shared = s.shared
      /\ r.tasks = s.tasks /\ r.jobs = s.jobs
  <2>1. r \in Store
    BY RefType DEF Keeps
  <2> QED
    BY <2>1 DEF Ref, Store
<1>2. points \in SUBSET Keys /\ stored \in Int
  BY StoreFields, ConstantsAssumption
<1>3. z = [r EXCEPT !.points = points, !.stored = stored]
  BY DEF Gained
<1> HIDE DEF z, r, stored
<1>4. /\ z \in Store /\ z.points = points /\ z.have = r.have /\ z.shared = r.shared
      /\ z.tasks = r.tasks /\ z.jobs = r.jobs
  <2> HIDE DEF points
  <2> QED
    BY <1>1, <1>2, <1>3 DEF Store
<1> QED
  BY <1>1, <1>4 DEF z

LEMMA PublishedMoves ==
    ASSUME IInv, NEW m \in Int, Indexed(m), PointWritten,
           Blocks(store.jobs[running.job].key) \subseteq store.have
    PROVE  LET j == running.job
               k == store.jobs[j].key IN
           /\ Moves(Gained(store, k), store') /\ j \notin Live(store')
           /\ k \in store'.points \cap store'.shared => running.flag \/ Rewritten(store', k)
<1> DEFINE j == running.job
           k == store.jobs[j].key
           p == [Ref(store, Blocks(k)) EXCEPT !.points = @ \cup {k}, !.stored = @ + FileBytes]
           y == EndJob(p, j, TRUE)
           x == IF k \in y.shared /\ ~running.flag THEN Queue(y, [kind |-> "shared", key |-> k]) ELSE y
           z == TrimPath(x, k)
           g == Gained(store, k)
<1>1. running.kind = "point"
  BY DEF PointWritten
<1>2. store' = z
  BY DEF PointWritten
<1>3. /\ j \in Jobs /\ j \in Live(store) /\ k \in Keys /\ store \in Store
      /\ store.jobs[j].state = "publishing" /\ j \notin QueuedPoints(store.tasks)
      /\ Exact(store, {}, {}, {}, {j}, m) /\ Referenced(store)
      /\ Sound(store, tickets \cup {}, {j}, {})
  BY <1>1, PointIs, IndexedIs
<1>4. p = g
  <2> DEFINE r == Ref(store, Blocks(k))
  <2>1. r.points = store.points /\ r.stored = store.stored
    BY <1>3 DEF Ref, Store
  <2> HIDE DEF r, k
  <2>2. g = [r EXCEPT !.points = store.points \cup {k}, !.stored = store.stored + FileBytes]
    BY DEF Gained, r
  <2>3. p = [r EXCEPT !.points = @ \cup {k}, !.stored = @ + FileBytes]
    BY DEF r
  <2> HIDE DEF p, g
  <2> QED
    BY <2>1, <2>2, <2>3
<1> HIDE DEF j
<1>5. \A i \in QueuedPoints(store.tasks) : i \in Live(store)
  <2>1. QueueFits(store, tickets \cup {}, {j}) /\ QueuedPoints(store.tasks) \cup {j} \subseteq Jobs
    BY <1>3, SoundParts DEF Sound
  <2> QED
    BY <2>1 DEF QueueFits, Live, LiveStates
<1>6. \A c \in QueuedCopies(store.tasks) : c.name \notin store.have
  <2> SUFFICES ASSUME NEW c \in QueuedCopies(store.tasks) PROVE c.name \notin store.have
    OBVIOUS
  <2> DEFINE P == {j}
             E == tickets \cup {}
  <2>1. Exact(store, {}, {}, {}, P, m) /\ Sound(store, E, P, {}) /\ c \in QueuedCopies(store.tasks) \cup E
    BY <1>3
  <2> HIDE DEF P, E
  <2> QED
    BY <2>1, CopyNew
<1>7. Exact(y, {}, {}, {}, {}, m) /\ y.points = store.points \cup {k}
  <2>1. Blocks(store.jobs[j].key) \subseteq store.have
    BY DEF j
  <2> HIDE DEF g, x, z
  <2>2. Exact(store, {}, {}, {}, {j}, m) /\ Referenced(store) /\ j \in Live(store)
        /\ store.jobs[j].state = "publishing" /\ j \notin QueuedPoints(store.tasks)
    BY <1>3
  <2>3. /\ Exact(y, {}, {}, {}, {}, m) /\ Referenced(y)
        /\ y.points = store.points \cup {k} /\ y.have \subseteq store.have
    BY <1>5, <1>6, <2>1, <2>2, PublishedExact
  <2> QED
    BY <2>3
<1>8. WaitsOnce(y) /\ y \in Store /\ k \in y.points
  BY <1>7, ExactIs
<1>9. g \in Store /\ g.jobs = store.jobs
  BY <1>3, GainedIs
<1> HIDE DEF p, g
<1>10. y = EndJob(g, j, TRUE)
  BY <1>4
<1>11. Goes(g, y)
  BY <1>3, <1>9, <1>10, EndJobGoes
<1>12. j \notin Live(y)
  <2> DEFINE l == Leave(g, j, TRUE)
             S == Blocks(g.jobs[j].key)
             a == Unref(l, S)
             b == Gc(a, S)
  <2>1. l \in Store /\ j \notin Live(l)
    <3>1. Goes(g, l) /\ j \notin Live(l)
      BY <1>3, <1>9, LeaveGoes
    <3> QED
      BY <3>1, GoesStore
  <2>2. y = RecheckParked(b)
    BY <1>10, LeaveParts
  <2> HIDE DEF l, S
  <2>3. Goes(l, a) /\ a \in Store
    BY <2>1, RefGoes, GoesStore
  <2> HIDE DEF a
  <2>4. Goes(a, b) /\ b \in Store
    BY <2>3, GcGoes, GoesStore
  <2> HIDE DEF b
  <2>5. Goes(b, RecheckParked(b))
    BY <2>4, RecheckGoes
  <2>6. Fewer(l, y)
    BY <2>2, <2>3, <2>4, <2>5, GoesTrans, GoesStore
  <2> QED
    BY <2>1, <2>6 DEF Fewer
<1> HIDE DEF y
<1> DEFINE t == [kind |-> "shared", key |-> k]
<1>13. Goes(y, x) /\ (k \in x.shared => running.flag \/ Rewritten(x, k))
  <2>1. CASE k \in y.shared /\ ~running.flag
    <3>1. t \in Task /\ t.kind = "shared" /\ t.key = k
      BY <1>3 DEF Task, SharedTask
    <3>2. x = Queue(y, t)
      BY <2>1
    <3> HIDE DEF t, x, k
    <3>3. x \in Store
      BY <1>8, <3>1, <3>2, QueueType DEF Keeps
    <3>4. /\ x.tasks = Append(y.tasks, t) /\ x.points = y.points /\ x.have = y.have /\ x.shared = y.shared
          /\ x.jobs = y.jobs
      BY <1>8, <3>2 DEF Queue, Store
    <3>5. \A i \in Jobs : x.jobs[i].key = y.jobs[i].key /\ (x.jobs[i].state \in LiveStates => y.jobs[i].state \in LiveStates)
                          /\ (x.jobs[i].state = "unused" => y.jobs[i].state = "unused")
      BY <3>4
    <3>6. Goes(y, x)
      BY <1>8, <2>1, <3>1, <3>3, <3>4, <3>5, QueueGoes
    <3>7. \E i \in DOMAIN x.tasks : x.tasks[i] = t
      BY <1>8, <3>1, <3>4, TasksAre
    <3> QED
      BY <3>1, <3>6, <3>7 DEF Rewritten
  <2>2. CASE ~(k \in y.shared /\ ~running.flag)
    <3>1. x = y
      BY <2>2
    <3> HIDE DEF x
    <3> QED
      BY <1>8, <2>2, <3>1, GoesSelf
  <2> QED
    BY <2>1, <2>2
<1> HIDE DEF x, t
<1>14. x \in Store /\ WaitsOnce(x)
  BY <1>8, <1>13, GoesStore, GoesWaits
<1>15. Goes(x, z)
  BY <1>14, TrimGoes
<1> HIDE DEF z, k
<1>16. Goes(y, z) /\ Goes(g, z)
  BY <1>11, <1>13, <1>15, GoesTrans
<1>17. j \notin Live(z)
  BY <1>12, <1>16, GoesStore DEF Fewer
<1>18. k \in z.points \cap z.shared => running.flag \/ Rewritten(z, k)
  <2> SUFFICES ASSUME k \in z.points \cap z.shared PROVE running.flag \/ Rewritten(z, k)
    OBVIOUS
  <2>1. GoesOn(x, z) /\ (k \in x.shared \/ Rewritten(z, k))
    BY <1>15 DEF Goes, Moves
  <2> QED
    BY <1>13, <2>1, DoomedStay
<1>19. Moves(g, z)
  BY <1>16 DEF Goes
<1> QED
  BY <1>2, <1>17, <1>18, <1>19 DEF g, k, j

LEMMA BlockWrittenMoves ==
    ASSUME IInv, NEW m \in Int, Indexed(m), NEW ok \in BOOLEAN, BlockWritten(ok)
    PROVE  Moves(IF ok THEN AddBlock(store, running.name) ELSE store, store')
<1> DEFINE j == running.job
           n == running.name
           w == running.slot
           s == GiveBack(store, j, n, w)
           a == AddBlock(store, n)
           b == AddBlock(s, n)
<1>1. running \in BlockTask /\ store \in Store /\ WaitsOnce(store)
  <2>1. running.kind = "block" /\ running \in Writing \cup SharedTask \cup {Idle}
    BY DEF IInv, TypeOK, BlockWritten
  <2> QED
    BY <2>1, IndexedWaits DEF Writing, SharedTask, Idle
<1>2. j \in Jobs /\ n \in Names /\ w \in WriteSlots
  BY <1>1 DEF BlockTask
<1>3. PICK h \in HandOvers(store, j) :
        store' = Settle(DropInflight(IF ok THEN b ELSE IF s.jobs[j].state = "open" THEN Fail(s, j, h) ELSE s, j, n), j)
  BY DEF BlockWritten
<1> HIDE DEF j, n, w
<1>4. Goes(store, s) /\ s \in Store /\ WaitsOnce(s)
  BY <1>1, <1>2, GiveBackGoes, GoesStore, GoesWaits
<1>5. /\ SameIndex(store, s) /\ s.tasks = store.tasks /\ h \in HandOvers(s, j)
      /\ \A i \in Jobs : s.jobs[i].key = store.jobs[i].key /\ s.jobs[i].state = store.jobs[i].state
  <2>1. /\ SameIndex(store, s) /\ s.tasks = store.tasks /\ OnlyJob(store, s, j)
        /\ s.jobs[j].key = store.jobs[j].key /\ s.jobs[j].state = store.jobs[j].state
        /\ s.jobs[j].left = store.jobs[j].left
    BY <1>1, <1>2, GiveBackIs
  <2> HIDE DEF s
  <2>2. \A i \in Jobs : s.jobs[i].key = store.jobs[i].key /\ s.jobs[i].state = store.jobs[i].state
    BY <2>1 DEF OnlyJob
  <2>3. \A o \in Names : Takers(s, j, o) = Takers(store, j, o)
    BY <2>2 DEF Takers, NamesOf
  <2>4. store.jobs[j].left \in SUBSET Names
    BY <1>1, <1>2, StoreFields, JobFields
  <2>5. h \in HandOvers(s, j)
    BY <2>1, <2>3, <2>4 DEF HandOvers
  <2> QED
    BY <2>1, <2>2, <2>5
<1>6. s.shared = store.shared
  <2> DEFINE g == GiveSlot(store, w)
             free == store.free \cup ({w} \ {NoSlot})
  <2>1. g = [store EXCEPT !.free = free]
    BY DEF GiveSlot
  <2>2. g \in Store
    BY <1>1, <1>2, GiveSlotType DEF Keeps
  <2>3. s = [g EXCEPT !.jobs[j].out = @ \ {n}]
    BY DEF GiveBack
  <2> HIDE DEF s, g, free
  <2> QED
    BY <1>1, <2>1, <2>2, <2>3 DEF Store
<1> HIDE DEF s
<1>7. CASE ok
  <2>1. a \in Store /\ b \in Store
    BY <1>1, <1>2, <1>4, AddBlockType DEF Keeps
  <2>2. /\ a.tasks = store.tasks /\ a.points = store.points /\ a.have = store.have \cup {n}
        /\ a.shared = store.shared /\ a.jobs = store.jobs
        /\ b.tasks = s.tasks /\ b.points = s.points /\ b.have = s.have \cup {n}
        /\ b.shared = s.shared /\ b.jobs = s.jobs
    BY <1>1, <1>4 DEF AddBlock, Store
  <2>3. store' = Settle(DropInflight(b, j, n), j)
    BY <1>3, <1>7
  <2> HIDE DEF a, b
  <2>4. b.tasks = a.tasks /\ b.points = a.points /\ b.have = a.have /\ b.shared = a.shared
    BY <1>5, <1>6, <2>2 DEF SameIndex
  <2>5. \A i \in Jobs : b.jobs[i].key = a.jobs[i].key /\ b.jobs[i].state = a.jobs[i].state
    BY <1>5, <2>2
  <2>6. Goes(a, b)
    BY <2>1, <2>4, <2>5, SameFewer, StillMoves DEF Goes
  <2>7. WaitsOnce(b)
    BY <1>4, <2>2 DEF WaitsOnce, Live
  <2> DEFINE y == DropInflight(b, j, n)
             z == Settle(y, j)
  <2>8. Goes(b, y) /\ y \in Store /\ WaitsOnce(y)
    BY <1>2, <2>1, <2>7, DropInflightGoes, GoesStore, GoesWaits
  <2> HIDE DEF y
  <2>9. Goes(y, z)
    BY <1>2, <2>8, SettleGoes
  <2>10. store' = z
    BY <2>3 DEF y
  <2> HIDE DEF z
  <2>11. Goes(a, z)
    BY <2>6, <2>8, <2>9, GoesTrans
  <2> QED
    BY <1>7, <2>10, <2>11 DEF Goes, a, n
<1>8. CASE ~ok
  <2> DEFINE f == IF s.jobs[j].state = "open" THEN Fail(s, j, h) ELSE s
             y == DropInflight(f, j, n)
             z == Settle(y, j)
  <2>1. store' = z
    BY <1>3, <1>8
  <2>2. Goes(s, f) /\ f \in Store /\ WaitsOnce(f)
    <3>1. Goes(s, f)
      BY <1>2, <1>4, <1>5, GoesSelf, FailGoes
    <3> HIDE DEF f
    <3> QED
      BY <1>4, <3>1, GoesStore, GoesWaits
  <2> HIDE DEF f
  <2>3. Goes(f, y) /\ y \in Store /\ WaitsOnce(y)
    BY <1>2, <2>2, DropInflightGoes, GoesStore, GoesWaits
  <2> HIDE DEF y
  <2>4. Goes(y, z)
    BY <1>2, <2>3, SettleGoes
  <2> HIDE DEF z
  <2>5. Goes(store, z)
    BY <1>4, <2>2, <2>3, <2>4, GoesTrans
  <2> QED
    BY <1>8, <2>1, <2>5 DEF Goes
<1> QED
  BY <1>7, <1>8

-----------------------------------------------------------------------------
(* What an open rebuilds *)

\* A store no write has touched: nothing queued or in flight, every slot free.
Fresh(s) ==
    /\ s \in Store /\ s.tasks = << >> /\ s.free = WriteSlots /\ s.queued = 0
    /\ s.inflight = [n \in Names |-> NoJob]
    /\ \A j \in Jobs : s.jobs[j] = NoWrite \/ s.jobs[j] = Gone

\* Its references, blocks and bytes are those of its points.
Recounted(s) ==
    /\ s.have = UNION {Blocks(k) : k \in s.points}
    /\ s.refs = [n \in Names |-> Cardinality({k \in s.points : n \in Blocks(k)})]
    /\ s.stored = Cardinality(UNION {Blocks(k) : k \in s.points}) + FileBytes * Cardinality(s.points)

LEMMA BlankIs ==
    /\ NoWrite \in Job /\ Gone \in Job
    /\ \A r \in {NoWrite, Gone} : /\ JobFits(r) /\ Writes(r) = {} /\ r.tailSlot = NoSlot
                                  /\ r.left = {} /\ r.out = {} /\ ~r.parked /\ r.size = 0
                                  /\ r.state \notin LiveStates
                                  /\ r.state \notin {"open", "publishing", "failed", "cancelled"}
<1>1. NoWrite \in Job
  BY ConstantsAssumption DEF NoWrite, Job
<1>2. /\ Gone.state = "ended" /\ Gone.key = NoWrite.key /\ Gone.capture = "pending"
      /\ Gone.left = {} /\ Gone.out = {} /\ Gone.tailSlot = NoSlot /\ Gone.parked = FALSE /\ Gone.size = 0
  BY DEF Gone, NoWrite
<1>3. Gone \in Job
  BY <1>1 DEF Gone, Job
<1>4. \A r \in {NoWrite, Gone} :
          /\ r.state \in {"unused", "ended"} /\ r.capture = "pending" /\ r.left = {} /\ r.out = {}
          /\ r.tailSlot = NoSlot /\ r.parked = FALSE /\ r.size = 0
  BY <1>2 DEF NoWrite
<1> QED
  BY <1>1, <1>3, <1>4 DEF JobFits, Writes, LiveStates

LEMMA FreshSound ==
    ASSUME NEW s, Fresh(s)
    PROVE  Sound(s, {}, {}, {})
<1>1. /\ s \in Store /\ s.tasks = << >> /\ s.free = WriteSlots
      /\ \A n \in Names : s.inflight[n] = NoJob
      /\ \A j \in Jobs : s.jobs[j] \in {NoWrite, Gone}
  BY DEF Fresh
<1>2. QueuedCopies(s.tasks) = {} /\ QueuedPoints(s.tasks) = {} /\ Once(s.tasks)
  BY <1>1 DEF QueuedCopies, QueuedPoints, Once
<1>3. \A j \in Jobs : /\ JobFits(s.jobs[j]) /\ Writes(s.jobs[j]) = {} /\ s.jobs[j].tailSlot = NoSlot
                      /\ s.jobs[j].out = {}
  BY <1>1, BlankIs
<1>4. JobsFit(s) /\ Flights(s) /\ Owners(s, {})
  BY <1>1, <1>3 DEF JobsFit, Flights, Owners
<1>5. SlotsFit(s, {})
  BY <1>1, <1>3, ConstantsAssumption DEF SlotsFit, CopiesFit, TailsFit, FreeFits
<1>6. QueueFits(s, {}, {})
  BY <1>2 DEF QueueFits
<1> QED
  BY <1>1, <1>2, <1>4, <1>5, <1>6 DEF Sound

LEMMA RebuiltExact ==
    ASSUME NEW s, Fresh(s), Recounted(s)
    PROVE  \E m : Slack(m) /\ Exact(s, {}, {}, {}, {}, m) /\ Referenced(s)
<1>1. /\ s \in Store /\ s.tasks = << >> /\ s.queued = 0
      /\ \A n \in Names : s.inflight[n] = NoJob
      /\ \A j \in Jobs : s.jobs[j] \in {NoWrite, Gone}
  BY DEF Fresh
<1>2. s.points \in SUBSET Keys /\ s.have \in SUBSET Names /\ s.stored \in Int
  BY <1>1, StoreFields
<1>3. \A j \in Jobs : /\ Writes(s.jobs[j]) = {} /\ s.jobs[j].left \cup s.jobs[j].out = {}
                      /\ ~s.jobs[j].parked /\ s.jobs[j].state \notin LiveStates
                      /\ s.jobs[j].state \notin {"open", "publishing"} /\ s.jobs[j].size = 0
  BY <1>1, BlankIs
<1>4. Cardinality({}) = 0
  BY FS_EmptySet
<1>5. \A j \in Jobs : Reserve(s.jobs[j]) = 0
  BY <1>3, <1>4 DEF Reserve
<1>6. Live(s) = {}
  BY <1>3 DEF Live
<1>7. \A n \in Names : s.refs[n] = Cardinality(Naming(s, n)) /\ Wanting(s, n) = {}
  BY <1>6 DEF Recounted, Naming, Wanting
<1>8. RefsAre(s, {})
  <2> SUFFICES ASSUME NEW n \in Names
               PROVE  s.refs[n] = Cardinality(Naming(s, n)) + Cardinality(Wanting(s, n)) + 0
    BY DEF RefsAre
  <2>1. Cardinality(Naming(s, n)) \in Nat
    BY <1>1, CountsType
  <2> QED
    BY <1>4, <1>7, <2>1
<1>9. StoredFits(s)
  BY DEF StoredFits, Recounted
<1>10. PointsWhole(s)
  BY DEF PointsWhole, Recounted
<1>11. WaitsOnce(s) /\ HaveLanded(s, {})
  BY <1>1, <1>2, <1>6 DEF WaitsOnce, HaveLanded
<1>12. NamesFit(s)
  BY <1>3 DEF NamesFit
<1>13. Referenced(s)
  <2> SUFFICES ASSUME NEW n \in s.have PROVE s.refs[n] > 0
    BY DEF Referenced
  <2>1. PICK k \in s.points : n \in Blocks(k)
    BY DEF Recounted
  <2>2. k \in Naming(s, n)
    BY <2>1 DEF Naming
  <2>3. IsFiniteSet(Naming(s, n)) /\ Cardinality(Naming(s, n)) \in Nat
    BY <1>1, CountsType
  <2>4. Cardinality(Naming(s, n)) # 0
    BY <2>2, <2>3, FS_EmptySet
  <2> QED
    BY <1>2, <1>7, <2>3, <2>4
<1>14. TasksFit(s, {}, {})
  <2>1. DOMAIN s.tasks = {}
    BY <1>1
  <2>2. QueueInOrder(s)
    BY <2>1 DEF QueueInOrder
  <2> QED
    BY <1>1, <2>1, <2>2 DEF TasksFit, KeysOf
<1> DEFINE m == IF CapBytes - s.stored < 0 THEN CapBytes - s.stored ELSE 0
<1>15. m \in Int /\ m <= 0 /\ s.stored + m <= CapBytes
  BY <1>2, ConstantsAssumption
<1> HIDE DEF m
<1>16. RoomFits(s, m)
  <2>1. /\ Sizes(s) \in [Jobs -> Nat] /\ Reserves(s) \in [Jobs -> Nat]
        /\ \A j \in Jobs : Sizes(s)[j] = 0 /\ Reserves(s)[j] = 0
    BY <1>1, <1>3, <1>5, ReservesType
  <2>2. Total(Sizes(s)) = 0 /\ Total(Reserves(s)) = 0
    BY <2>1, TotalZero
  <2>3. \A j \in Jobs : /\ Reserve(s.jobs[j]) <= s.jobs[j].size
                        /\ s.jobs[j].state \notin LiveStates => s.jobs[j].size = 0
    BY <1>3, <1>5
  <2>4. s.stored + Total(Reserves(s)) + m <= CapBytes
    BY <1>2, <1>15, <2>2
  <2> QED
    BY <1>1, <2>2, <2>3, <2>4 DEF RoomFits
<1>17. Exact(s, {}, {}, {}, {}, m)
  BY <1>1, <1>8, <1>9, <1>10, <1>11, <1>12, <1>14, <1>16 DEF Exact, Books
<1> QED
  BY <1>13, <1>15, <1>17 DEF Slack
=============================================================================
