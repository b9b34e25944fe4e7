--------------------------- MODULE SpillReadProofs ---------------------------
(***************************************************************************)
(* Theorems about SpillRead, for any points, restores, slots and readers:  *)
(* its types, ReadsAccounted and CommitsAreWhole.                          *)
(*                                                                         *)
(* Every step of rs is a change of one restore, its slots given back or    *)
(* not, and most end with the restore freed and the free slots given out.  *)
(* `Keeps` is what those three parts keep; each handler's lemma is the     *)
(* first part's and Released does the other two.                           *)
(***************************************************************************)
EXTENDS SpillRead, FiniteSetTheorems, NaturalsInduction, TLAPS

-----------------------------------------------------------------------------
(* Numbers *)

LEMMA SmallestOf ==
    ASSUME NEW S \in SUBSET Nat, S # {}
    PROVE  \E m \in S : \A n \in S : m <= n
<1> DEFINE Less == OpToRel(<, Nat)
<1>1. \A x, y \in Nat : <<y, x>> \in Less <=> y < x
  BY DEF OpToRel
<1>2. IsWellFoundedOn(Less, Nat)
  BY NatLessThanWellFounded
<1> HIDE DEF Less
<1>3. PICK x \in S : \A y \in S : ~ (<<y, x>> \in Less)
  BY <1>2, WFMin
<1>4. ASSUME NEW y \in S
      PROVE  x <= y
  <2>1. x \in Nat /\ y \in Nat /\ <<y, x>> \notin Less
    BY <1>3
  <2> QED
    BY <1>1, <2>1
<1> QED
  BY <1>4

\* An initial segment of the naturals after a is known by its size.
LEMMA Segment ==
    ASSUME NEW a \in Nat, NEW b \in Nat, NEW S \in SUBSET (a + 1 .. b),
           \A i \in S : \A j \in a + 1 .. i : j \in S
    PROVE  IsFiniteSet(S) /\ Cardinality(S) \in Nat /\ S = a + 1 .. a + Cardinality(S)
<1> DEFINE Out == {n \in Nat : n > a /\ n \notin S}
<1>1. b + 1 + a \in Out
  OBVIOUS
<1>2. PICK m \in Out : \A n \in Out : m <= n
  BY <1>1, SmallestOf
<1>3. S = a + 1 .. m - 1
  <2>1. ASSUME NEW i \in S
        PROVE  i < m
    <3>1. i \in Nat /\ a + 1 <= i /\ m \in Nat /\ m > a /\ m \notin S
      OBVIOUS
    <3>2. m \in a + 1 .. i => m \in S
      OBVIOUS
    <3> QED
      BY <3>1, <3>2
  <2>2. ASSUME NEW i \in a + 1 .. m - 1
        PROVE  i \in S
    <3>1. i \in Nat /\ a < i /\ i < m
      OBVIOUS
    <3>2. i \in Out => m <= i
      BY <1>2
    <3> QED
      BY <3>1, <3>2
  <2>3. ASSUME NEW i \in S
        PROVE  i \in a + 1 .. m - 1
    <3>1. i < m /\ i \in Nat /\ a + 1 <= i /\ m \in Nat
      BY <2>1
    <3> QED
      BY <3>1
  <2> QED
    BY <2>2, <2>3
<1>4. IsFiniteSet(S) /\ Cardinality(S) = m - 1 - a
  BY <1>2, <1>3, FS_Interval
<1>5. m > a /\ a + Cardinality(S) = m - 1 /\ Cardinality(S) \in Nat
  BY <1>2, <1>4
<1> QED
  BY <1>3, <1>4, <1>5
-----------------------------------------------------------------------------
(* The inductive invariant *)

Uses == {"queued", "reading", "ready"}
Pending == {"queued", "reading"}

AskedOf(x) == {i \in Idx : x.block[i] \in Pending}
SmallTask(x) == IF x.small \in Pending THEN 1 ELSE 0

\* A restore's blocks are given slots in order and handed out in order, and a
\* restore that ended holds none that is only waiting to be handed out.
Fits(x) ==
    /\ x.handed <= x.assigned /\ x.assigned <= Total[x.key]
    /\ \A i \in Idx : x.block[i] = "idle" <=> i > x.assigned
    /\ \A i \in Idx : x.block[i] = "handed" <=> i <= x.handed
    /\ x.phase \in {"unused", "freed"} => x.assigned = 0 /\ x.small = "queued"
    /\ x.phase \in {"live", "ended"} => x.disk = Cardinality(AskedOf(x)) + SmallTask(x)
    /\ x.phase = "ended" => \A i \in Idx : x.block[i] # "ready"

\* The slots of s, with the copies C on the device.
Held(s, C) ==
    /\ s.reads \in [Ids -> Read] /\ s.holder \in [ReadSlots -> (Ids \X Idx) \cup {Nobody}]
    /\ C \subseteq Copy
    /\ \A r \in Ids : Fits(s.reads[r])
    /\ \A v, w \in ReadSlots : s.holder[v] = s.holder[w] /\ s.holder[v] # Nobody => v = w
    /\ \A r \in Ids : s.reads[r].held = Cardinality(SlotsOf(s, r, Idx))
    /\ \A r \in Ids, i \in Idx : s.reads[r].block[i] \in Uses => \E w \in ReadSlots : s.holder[w] = <<r, i>>
    /\ \A w \in ReadSlots, r \in Ids, i \in Idx : s.holder[w] = <<r, i>> =>
          s.reads[r].block[i] \in Uses \/ \E c \in C : c.read = r /\ c.index = i
    /\ \A c \in C : /\ s.reads[c.read].phase = "live"
                    /\ c.index # 0 => /\ s.holder[c.slot] = <<c.read, c.index>>
                                      /\ s.reads[c.read].block[c.index] = "handed"

\* The restores that pin a point, that the index counts as reading it, and
\* that have a restore slot.
Using(x, k) == x.phase \in {"live", "ended"} /\ x.key = k
LiveUsing(x, k) == x.phase = "live" /\ x.key = k
HasSmall(x) == x.phase = "live" \/ (x.phase = "ended" /\ x.small \in Pending)
Users(s, k) == {r \in Ids : Using(s.reads[r], k)}
LiveUsers(s, k) == {r \in Ids : LiveUsing(s.reads[r], k)}
SmallUsers(s) == {r \in Ids : HasSmall(s.reads[r])}

Counted(s) ==
    /\ s.small \in 0 .. RestoreSlots /\ s.small + Cardinality(SmallUsers(s)) = RestoreSlots
    /\ s.pins \in [Keys -> Nat] /\ \A k \in Keys : s.pins[k] = Cardinality(Users(s, k))
    /\ s.reading \in [Keys -> Nat] /\ \A k \in Keys : s.reading[k] = Cardinality(LiveUsers(s, k))

\* A point out of the index is kept exactly while a restore pins it.
PointsPinned(s) ==
    /\ s.point \in [Keys -> {"listed", "removed", "freed"}]
    /\ \A k \in Keys : /\ s.point[k] = "freed" => s.pins[k] = 0
                       /\ s.point[k] = "removed" => s.pins[k] # 0

Good(s, C) == s \in ReadStore /\ Held(s, C) /\ Counted(s) /\ PointsPinned(s)

\* A restore that ended and is not freed has a reader at work for it.
Settled(s, r) == s.reads[r].phase = "ended" => s.reads[r].disk # 0
AllSettled(s) == \A r \in Ids : Settled(s, r)

NoneIdle(s) == FreeSlots(s) = {} \/ Wanted(s) = {} \/ \E r \in LiveReads(s) : s.reads[r].err

Keeps(s, C) == Good(s, C) /\ AllSettled(s) /\ NoneIdle(s)

\* The engine waits for, forgets or ends a restore that is live; it goes on
\* only when that one has no copy left.
EngineFits ==
    engine # Free => /\ rs.reads[engine.read].phase = "live"
                     /\ engine.pc # "quiesce" => \A c \in copies : c.read # engine.read

IInv ==
    /\ rx \in [Ids -> RxOf] /\ engine \in Ending \cup {Free}
    /\ Keeps(rs, copies) /\ EngineFits


-----------------------------------------------------------------------------
(* Slots *)

LEMMA SlotsAre ==
    ASSUME NEW s, NEW r \in Ids, NEW S \in SUBSET Idx, NEW w \in ReadSlots
    PROVE  w \in SlotsOf(s, r, S) <=> \E i \in S : s.holder[w] = <<r, i>>
BY DEF SlotsOf

LEMMA SlotsOfAll ==
    ASSUME NEW s, NEW r \in Ids, NEW w \in ReadSlots
    PROVE  w \in SlotsOf(s, r, Idx) <=> \E i \in Idx : s.holder[w] = <<r, i>>
BY SlotsAre

LEMMA SlotsFinite ==
    ASSUME NEW s, NEW r, NEW S
    PROVE  /\ SlotsOf(s, r, S) \in SUBSET ReadSlots /\ IsFiniteSet(SlotsOf(s, r, S))
           /\ Cardinality(SlotsOf(s, r, S)) \in Nat
<1>1. SlotsOf(s, r, S) \in SUBSET ReadSlots
  BY DEF SlotsOf
<1>2. IsFiniteSet(ReadSlots)
  BY ReadAssumption
<1> QED
  BY <1>1, <1>2, FS_Subset, FS_CardinalityType

LEMMA NobodyIsNone ==
    ASSUME NEW r \in Ids, NEW i \in Idx
    PROVE  <<r, i>> # Nobody
BY ReadAssumption

\* Giving back the slots of the blocks B of r, and no others.
Frees(s, z, r, B) ==
    /\ z.holder \in [ReadSlots -> (Ids \X Idx) \cup {Nobody}]
    /\ \A w \in ReadSlots : z.holder[w] = IF w \in SlotsOf(s, r, B) THEN Nobody ELSE s.holder[w]

LEMMA FreedSlots ==
    ASSUME NEW s, NEW z, NEW r \in Ids, NEW B \in SUBSET Idx, Frees(s, z, r, B)
    PROVE  /\ SlotsOf(z, r, Idx) = SlotsOf(s, r, Idx) \ SlotsOf(s, r, B)
           /\ \A q \in Ids \ {r} : SlotsOf(z, q, Idx) = SlotsOf(s, q, Idx)
           /\ \A w \in ReadSlots, q \in Ids, i \in Idx :
                 z.holder[w] = <<q, i>> <=> s.holder[w] = <<q, i>> /\ ~(q = r /\ i \in B)
<1>1. ASSUME NEW w \in ReadSlots, NEW q \in Ids, NEW i \in Idx
      PROVE  z.holder[w] = <<q, i>> <=> s.holder[w] = <<q, i>> /\ ~(q = r /\ i \in B)
  <2>1. <<q, i>> # Nobody
    BY NobodyIsNone
  <2>2. z.holder[w] = IF w \in SlotsOf(s, r, B) THEN Nobody ELSE s.holder[w]
    BY DEF Frees
  <2>3. w \in SlotsOf(s, r, B) <=> \E j \in B : s.holder[w] = <<r, j>>
    BY SlotsAre
  <2> QED
    BY <2>1, <2>2, <2>3
<1>2. ASSUME NEW q \in Ids \ {r}
      PROVE  SlotsOf(z, q, Idx) = SlotsOf(s, q, Idx)
  <2>1. ASSUME NEW w \in ReadSlots
        PROVE  w \in SlotsOf(z, q, Idx) <=> w \in SlotsOf(s, q, Idx)
    <3>1. w \in SlotsOf(z, q, Idx) <=> \E i \in Idx : z.holder[w] = <<q, i>>
      BY SlotsOfAll
    <3>2. w \in SlotsOf(s, q, Idx) <=> \E i \in Idx : s.holder[w] = <<q, i>>
      BY SlotsOfAll
    <3> QED
      BY <1>1, <3>1, <3>2
  <2> QED
    BY <2>1, SlotsFinite
<1>3. SlotsOf(z, r, Idx) = SlotsOf(s, r, Idx) \ SlotsOf(s, r, B)
  <2> SUFFICES ASSUME NEW w \in ReadSlots
               PROVE  w \in SlotsOf(z, r, Idx) <=> w \in SlotsOf(s, r, Idx) /\ w \notin SlotsOf(s, r, B)
    BY SlotsFinite
  <2>1. w \in SlotsOf(z, r, Idx) <=> \E i \in Idx : z.holder[w] = <<r, i>>
    BY SlotsOfAll
  <2>2. w \in SlotsOf(s, r, Idx) <=> \E i \in Idx : s.holder[w] = <<r, i>>
    BY SlotsOfAll
  <2>3. w \in SlotsOf(s, r, B) <=> \E i \in B : s.holder[w] = <<r, i>>
    BY SlotsAre
  <2>4. \A i \in Idx : z.holder[w] = <<r, i>> <=> s.holder[w] = <<r, i>> /\ i \notin B
    BY <1>1
  <2> QED
    BY <2>1, <2>2, <2>3, <2>4
<1> QED
  BY <1>1, <1>2, <1>3

LEMMA CountLess ==
    ASSUME NEW S, NEW T, IsFiniteSet(S), T \subseteq S
    PROVE  /\ Cardinality(S \ T) = Cardinality(S) - Cardinality(T) /\ Cardinality(T) \in Nat
           /\ Cardinality(S) \in Nat /\ Cardinality(T) <= Cardinality(S) /\ IsFiniteSet(T)
<1>1. IsFiniteSet(T) /\ Cardinality(T) \in Nat /\ Cardinality(S) \in Nat /\ Cardinality(T) <= Cardinality(S)
  BY FS_Subset, FS_CardinalityType
<1>2. Cardinality(S \ T) = Cardinality(S) - Cardinality(S \cap T)
  BY FS_Difference
<1>3. S \cap T = T
  OBVIOUS
<1> QED
  BY <1>1, <1>2, <1>3

-----------------------------------------------------------------------------
(* One restore changes *)

\* Only r's record changes, and the slots of its blocks B are given back.
Touches(s, z, r, B) ==
    /\ z.reads \in [Ids -> Read] /\ \A q \in Ids \ {r} : z.reads[q] = s.reads[q]
    /\ Frees(s, z, r, B)

\* What r does with its slots: a block in use keeps its slot, a slot kept has
\* its block in use or copied.
Consistent(s, z, r, B, D) ==
    /\ \A i \in Idx : z.reads[r].block[i] \in Uses => i \notin B /\ s.reads[r].block[i] \in Uses
    /\ \A i \in Idx \ B : (\E w \in ReadSlots : s.holder[w] = <<r, i>>) =>
          z.reads[r].block[i] \in Uses \/ \E c \in D : c.read = r /\ c.index = i
    /\ \A c \in D : c.read = r =>
          /\ z.reads[r].phase = "live"
          /\ c.index # 0 => /\ c.index \notin B /\ s.holder[c.slot] = <<r, c.index>>
                            /\ z.reads[r].block[c.index] = "handed"

SameOthers(C, D, r) == /\ D \subseteq Copy /\ \A c \in D : c \in C \/ c.read = r
                       /\ \A c \in C : c \in D \/ c.read = r

LEMMA CopyIs ==
    ASSUME NEW c \in Copy
    PROVE  c.read \in Ids /\ (c.index # 0 => c.index \in Idx /\ c.slot \in ReadSlots)
BY DEF Copy

LEMMA OneRead ==
    ASSUME NEW s, NEW z, NEW C, NEW D, NEW r \in Ids, NEW B \in SUBSET Idx,
           Held(s, C), Touches(s, z, r, B), Consistent(s, z, r, B, D), SameOthers(C, D, r),
           Fits(z.reads[r]),
           z.reads[r].held = s.reads[r].held - Cardinality(SlotsOf(s, r, B))
    PROVE  Held(z, D)
<1>1. /\ z.reads \in [Ids -> Read] /\ \A q \in Ids \ {r} : z.reads[q] = s.reads[q]
      /\ Frees(s, z, r, B)
  BY DEF Touches
<1>2. z.holder \in [ReadSlots -> (Ids \X Idx) \cup {Nobody}]
  BY <1>1 DEF Frees
<1>10. /\ SlotsOf(z, r, Idx) = SlotsOf(s, r, Idx) \ SlotsOf(s, r, B)
       /\ \A q \in Ids \ {r} : SlotsOf(z, q, Idx) = SlotsOf(s, q, Idx)
       /\ \A w \in ReadSlots, q \in Ids, i \in Idx :
             z.holder[w] = <<q, i>> <=> s.holder[w] = <<q, i>> /\ ~(q = r /\ i \in B)
  <2>1. Frees(s, z, r, B)
    BY <1>1
  <2> QED
    BY <2>1, FreedSlots
<1>3. \A w \in ReadSlots, q \in Ids, i \in Idx :
          z.holder[w] = <<q, i>> <=> s.holder[w] = <<q, i>> /\ ~(q = r /\ i \in B)
  BY <1>10
<1>4. \A q \in Ids : Fits(z.reads[q])
  BY <1>1 DEF Held
<1>5. \A v, w \in ReadSlots : z.holder[v] = z.holder[w] /\ z.holder[v] # Nobody => v = w
  <2> SUFFICES ASSUME NEW v \in ReadSlots, NEW w \in ReadSlots, z.holder[v] = z.holder[w], z.holder[v] # Nobody
               PROVE  v = w
    OBVIOUS
  <2>1. z.holder[v] = s.holder[v] /\ z.holder[w] = s.holder[w]
    BY <1>1 DEF Frees
  <2>2. \A p, q \in ReadSlots : s.holder[p] = s.holder[q] /\ s.holder[p] # Nobody => p = q
    BY DEF Held
  <2> QED
    BY <2>1, <2>2
<1>6. ASSUME NEW q \in Ids PROVE z.reads[q].held = Cardinality(SlotsOf(z, q, Idx))
  <2>1. s.reads[q].held = Cardinality(SlotsOf(s, q, Idx))
    BY DEF Held
  <2>2. CASE q # r
    <3>1. SlotsOf(z, q, Idx) = SlotsOf(s, q, Idx)
      BY <1>10, <2>2
    <3> QED
      BY <1>1, <2>1, <2>2, <3>1
  <2>3. CASE q = r
    <3>1. SlotsOf(s, r, B) \subseteq SlotsOf(s, r, Idx)
      BY DEF SlotsOf
    <3>2. Cardinality(SlotsOf(s, r, Idx) \ SlotsOf(s, r, B)) = Cardinality(SlotsOf(s, r, Idx)) - Cardinality(SlotsOf(s, r, B))
      BY <3>1, SlotsFinite, CountLess
    <3>3. SlotsOf(z, r, Idx) = SlotsOf(s, r, Idx) \ SlotsOf(s, r, B)
      BY <1>10
    <3> QED
      BY <2>1, <2>3, <3>2, <3>3
  <2> QED
    BY <2>2, <2>3
<1>7. ASSUME NEW q \in Ids, NEW i \in Idx, z.reads[q].block[i] \in Uses
      PROVE  \E w \in ReadSlots : z.holder[w] = <<q, i>>
  <2>1. s.reads[q].block[i] \in Uses /\ ~(q = r /\ i \in B)
    BY <1>1, <1>7 DEF Consistent
  <2>2. PICK w \in ReadSlots : s.holder[w] = <<q, i>>
    BY <2>1 DEF Held
  <2> QED
    BY <1>3, <2>1, <2>2
<1>8. ASSUME NEW w \in ReadSlots, NEW q \in Ids, NEW i \in Idx, z.holder[w] = <<q, i>>
      PROVE  z.reads[q].block[i] \in Uses \/ \E c \in D : c.read = q /\ c.index = i
  <2>1. s.holder[w] = <<q, i>> /\ ~(q = r /\ i \in B)
    BY <1>3, <1>8
  <2>2. CASE q = r
    BY <2>1, <2>2 DEF Consistent
  <2>3. CASE q # r
    <3>1. s.reads[q].block[i] \in Uses \/ \E c \in C : c.read = q /\ c.index = i
      BY <2>1 DEF Held
    <3> QED
      BY <1>1, <2>3, <3>1 DEF SameOthers
  <2> QED
    BY <2>2, <2>3
<1>9. ASSUME NEW c \in D
      PROVE  /\ z.reads[c.read].phase = "live"
             /\ c.index # 0 => /\ z.holder[c.slot] = <<c.read, c.index>>
                               /\ z.reads[c.read].block[c.index] = "handed"
  <2>1. c.read \in Ids /\ (c.index # 0 => c.index \in Idx /\ c.slot \in ReadSlots)
    BY CopyIs DEF SameOthers
  <2>2. CASE c.read = r
    BY <1>3, <2>1, <2>2 DEF Consistent
  <2>3. CASE c.read # r
    <3>1. c \in C
      BY <2>3 DEF SameOthers
    <3>2. /\ s.reads[c.read].phase = "live"
          /\ c.index # 0 => /\ s.holder[c.slot] = <<c.read, c.index>>
                            /\ s.reads[c.read].block[c.index] = "handed"
      BY <3>1 DEF Held
    <3> QED
      BY <1>1, <1>3, <2>1, <2>3, <3>2
  <2> QED
    BY <2>2, <2>3
<1> QED
  BY <1>1, <1>2, <1>4, <1>5, <1>6, <1>7, <1>8, <1>9 DEF Held, SameOthers

-----------------------------------------------------------------------------
(* Counts *)

Bit(b) == IF b THEN 1 ELSE 0

LEMMA IdsFinite == IsFiniteSet(Ids) /\ IsFiniteSet(Idx) /\ Idx \subseteq Nat
<1>1. 1 \in Int /\ MaxIds \in Int /\ MaxBlocks \in Int
  BY ReadAssumption
<1>2. IsFiniteSet(1 .. MaxIds) /\ IsFiniteSet(1 .. MaxBlocks)
  BY <1>1, FS_Interval
<1> QED
  BY <1>2 DEF Ids, Idx

LEMMA Tally ==
    ASSUME NEW S, NEW T, NEW r, IsFiniteSet(S), T \ {r} = S \ {r}
    PROVE  /\ Cardinality(T) = Cardinality(S) + Bit(r \in T) - Bit(r \in S)
           /\ Cardinality(S) \in Nat /\ Cardinality(T) \in Nat
           /\ r \in S => Cardinality(S) > 0
<1>1. IsFiniteSet(S \ {r}) /\ Cardinality(S \ {r}) = Cardinality(S) - Bit(r \in S)
  <2>1. /\ IsFiniteSet(S \ {r})
        /\ Cardinality(S \ {r}) = IF r \in S THEN Cardinality(S) - 1 ELSE Cardinality(S)
    BY FS_RemoveElement, Zenon
  <2>2. Cardinality(S) \in Nat
    BY FS_CardinalityType
  <2> QED
    BY <2>1, <2>2 DEF Bit
<1>2. Cardinality(S) \in Nat /\ Cardinality(S \ {r}) \in Nat
  BY <1>1, FS_CardinalityType, Zenon
<1>3. T = IF r \in T THEN (S \ {r}) \cup {r} ELSE S \ {r}
  OBVIOUS
<1>4. Cardinality((S \ {r}) \cup {r}) = Cardinality(S \ {r}) + 1
  BY <1>1, FS_AddElement
<1>5. Cardinality(T) = Cardinality(S \ {r}) + Bit(r \in T)
  <2>1. CASE r \in T
    <3>1. Cardinality(T) = Cardinality((S \ {r}) \cup {r})
      BY <1>3, <2>1, Zenon
    <3> QED
      BY <1>4, <2>1, <3>1 DEF Bit
  <2>2. CASE r \notin T
    <3>1. Cardinality(T) = Cardinality(S \ {r})
      BY <1>3, <2>2, Zenon
    <3> QED
      BY <1>2, <2>2, <3>1 DEF Bit
  <2> QED
    BY <2>1, <2>2
<1> QED
  BY <1>1, <1>2, <1>5 DEF Bit

\* At most r's record changes.
OnlyRead(s, z, r) == \A q \in Ids \ {r} : z.reads[q] = s.reads[q]

\* By how much the counts change with it.
Tallied(s, z, r) ==
    /\ \A k : /\ Cardinality(Users(z, k)) = Cardinality(Users(s, k)) + Bit(Using(z.reads[r], k)) - Bit(Using(s.reads[r], k))
              /\ Cardinality(Users(s, k)) \in Nat /\ Cardinality(Users(z, k)) \in Nat
              /\ Using(s.reads[r], k) => Cardinality(Users(s, k)) > 0
    /\ \A k : /\ Cardinality(LiveUsers(z, k)) = Cardinality(LiveUsers(s, k)) + Bit(LiveUsing(z.reads[r], k)) - Bit(LiveUsing(s.reads[r], k))
              /\ Cardinality(LiveUsers(s, k)) \in Nat /\ Cardinality(LiveUsers(z, k)) \in Nat
    /\ Cardinality(SmallUsers(z)) = Cardinality(SmallUsers(s)) + Bit(HasSmall(z.reads[r])) - Bit(HasSmall(s.reads[r]))
    /\ Cardinality(SmallUsers(s)) \in Nat /\ Cardinality(SmallUsers(z)) \in Nat

LEMMA Counts ==
    ASSUME NEW s, NEW z, NEW r \in Ids, OnlyRead(s, z, r)
    PROVE  Tallied(s, z, r)
<1>1. ASSUME NEW k
      PROVE  /\ Cardinality(Users(z, k)) = Cardinality(Users(s, k)) + Bit(Using(z.reads[r], k)) - Bit(Using(s.reads[r], k))
             /\ Cardinality(Users(s, k)) \in Nat /\ Cardinality(Users(z, k)) \in Nat
             /\ Using(s.reads[r], k) => Cardinality(Users(s, k)) > 0
  <2>1. /\ Users(s, k) \in SUBSET Ids /\ Users(z, k) \ {r} = Users(s, k) \ {r}
        /\ (r \in Users(s, k) <=> Using(s.reads[r], k)) /\ (r \in Users(z, k) <=> Using(z.reads[r], k))
    BY DEF Users, OnlyRead
  <2>2. IsFiniteSet(Users(s, k))
    BY <2>1, IdsFinite, FS_Subset
  <2> QED
    BY <2>1, <2>2, Tally DEF Bit
<1>2. ASSUME NEW k
      PROVE  /\ Cardinality(LiveUsers(z, k)) = Cardinality(LiveUsers(s, k)) + Bit(LiveUsing(z.reads[r], k)) - Bit(LiveUsing(s.reads[r], k))
             /\ Cardinality(LiveUsers(s, k)) \in Nat /\ Cardinality(LiveUsers(z, k)) \in Nat
  <2>1. /\ LiveUsers(s, k) \in SUBSET Ids /\ LiveUsers(z, k) \ {r} = LiveUsers(s, k) \ {r}
        /\ (r \in LiveUsers(s, k) <=> LiveUsing(s.reads[r], k)) /\ (r \in LiveUsers(z, k) <=> LiveUsing(z.reads[r], k))
    BY DEF LiveUsers, OnlyRead
  <2>2. IsFiniteSet(LiveUsers(s, k))
    BY <2>1, IdsFinite, FS_Subset
  <2> QED
    BY <2>1, <2>2, Tally DEF Bit
<1>3. /\ Cardinality(SmallUsers(z)) = Cardinality(SmallUsers(s)) + Bit(HasSmall(z.reads[r])) - Bit(HasSmall(s.reads[r]))
      /\ Cardinality(SmallUsers(s)) \in Nat /\ Cardinality(SmallUsers(z)) \in Nat
  <2>1. /\ SmallUsers(s) \in SUBSET Ids /\ SmallUsers(z) \ {r} = SmallUsers(s) \ {r}
        /\ (r \in SmallUsers(s) <=> HasSmall(s.reads[r])) /\ (r \in SmallUsers(z) <=> HasSmall(z.reads[r]))
    BY DEF SmallUsers, OnlyRead
  <2>2. IsFiniteSet(SmallUsers(s))
    BY <2>1, IdsFinite, FS_Subset
  <2> QED
    BY <2>1, <2>2, Tally DEF Bit
<1> QED
  BY <1>1, <1>2, <1>3 DEF Tallied

\* A restore whose phase, point and small slot stay is counted as before.
CountsAlike(x, y) == x.phase = y.phase /\ x.key = y.key /\ (HasSmall(x) <=> HasSmall(y))

LEMMA CountsKept ==
    ASSUME NEW s, NEW z, Counted(s), PointsPinned(s),
           z.small = s.small, z.pins = s.pins, z.reading = s.reading, z.point = s.point,
           \A q \in Ids : CountsAlike(z.reads[q], s.reads[q])
    PROVE  Counted(z) /\ PointsPinned(z)
<1>1. \A k : Users(z, k) = Users(s, k) /\ LiveUsers(z, k) = LiveUsers(s, k)
  BY DEF Users, LiveUsers, Using, LiveUsing, CountsAlike
<1>2. SmallUsers(z) = SmallUsers(s)
  BY DEF SmallUsers, CountsAlike
<1> QED
  BY <1>1, <1>2 DEF Counted, PointsPinned

\* How many tasks a reader has for a restore.
LEMMA Asked ==
    ASSUME NEW x, x.block \in [Idx -> BState]
    PROVE  /\ IsFiniteSet(AskedOf(x)) /\ Cardinality(AskedOf(x)) \in Nat
           /\ Cardinality(AskedOf(x)) = 0 <=> \A i \in Idx : x.block[i] \notin Pending
<1>1. AskedOf(x) \in SUBSET Idx
  BY DEF AskedOf
<1>2. IsFiniteSet(AskedOf(x)) /\ Cardinality(AskedOf(x)) \in Nat
  BY <1>1, IdsFinite, FS_Subset, FS_CardinalityType
<1>3. Cardinality(AskedOf(x)) = 0 <=> AskedOf(x) = {}
  BY <1>2, FS_EmptySet
<1> QED
  BY <1>2, <1>3 DEF AskedOf

LEMMA OneTaskLess ==
    ASSUME NEW x, NEW y, x.block \in [Idx -> BState], y.block \in [Idx -> BState], NEW i \in Idx,
           x.block[i] \in Pending, y.block[i] \notin Pending,
           \A j \in Idx \ {i} : x.block[j] \in Pending <=> y.block[j] \in Pending
    PROVE  Cardinality(AskedOf(y)) = Cardinality(AskedOf(x)) - 1 /\ Cardinality(AskedOf(x)) > 0
<1>1. AskedOf(y) \ {i} = AskedOf(x) \ {i} /\ i \in AskedOf(x) /\ i \notin AskedOf(y)
  BY DEF AskedOf
<1>2. IsFiniteSet(AskedOf(x))
  BY Asked
<1> QED
  BY <1>1, <1>2, Tally DEF Bit

-----------------------------------------------------------------------------
(* A restore is freed *)

LEMMA NoReadIs ==
    /\ NoRead \in Read /\ NoRead.phase = "unused" /\ NoRead.assigned = 0 /\ NoRead.handed = 0
    /\ NoRead.held = 0 /\ NoRead.disk = 0 /\ NoRead.small = "queued" /\ NoRead.err = FALSE
    /\ NoRead.key \in Keys /\ \A i \in Idx : NoRead.block[i] = "idle"
BY ReadAssumption DEF NoRead, Read, Phases, BState, Smalls, Idx

LEMMA HeldNone ==
    ASSUME NEW s, NEW C, Held(s, C), NEW r \in Ids, s.reads[r].held = 0
    PROVE  \A w \in ReadSlots, i \in Idx : s.holder[w] # <<r, i>>
<1>1. Cardinality(SlotsOf(s, r, Idx)) = 0
  BY DEF Held
<1>2. SlotsOf(s, r, Idx) = {}
  BY <1>1, SlotsFinite, FS_EmptySet
<1> QED
  BY <1>2, SlotsAre

LEMMA EndedHasNoCopy ==
    ASSUME NEW s, NEW C, Held(s, C), NEW r \in Ids, s.reads[r].phase # "live"
    PROVE  \A c \in C : c.read # r
BY DEF Held

\* A restore that ended and holds a slot has a reader at work for it.
LEMMA EndedHolds ==
    ASSUME NEW s, NEW C, Held(s, C), NEW r \in Ids, s.reads[r].phase = "ended", s.reads[r].disk = 0
    PROVE  s.reads[r].held = 0 /\ s.reads[r].small \notin Pending
<1>1. s.reads[r] \in Read /\ Fits(s.reads[r])
  BY DEF Held
<1>2. s.reads[r].block \in [Idx -> BState]
  BY <1>1 DEF Read
<1>3. 0 = Cardinality(AskedOf(s.reads[r])) + SmallTask(s.reads[r])
  BY <1>1 DEF Fits
<1>4. Cardinality(AskedOf(s.reads[r])) = 0 /\ s.reads[r].small \notin Pending
  BY <1>2, <1>3, Asked DEF SmallTask
<1>5. \A i \in Idx : s.reads[r].block[i] \notin Uses
  BY <1>1, <1>2, <1>4, Asked DEF Fits, Uses, Pending
<1>6. \A w \in ReadSlots, i \in Idx : s.holder[w] # <<r, i>>
  BY <1>5, EndedHasNoCopy DEF Held
<1>7. SlotsOf(s, r, Idx) = {}
  <2> SUFFICES ASSUME NEW w \in ReadSlots PROVE w \notin SlotsOf(s, r, Idx)
    BY SlotsFinite
  <2>1. w \in SlotsOf(s, r, Idx) <=> \E i \in Idx : s.holder[w] = <<r, i>>
    BY SlotsOfAll
  <2> QED
    BY <1>6, <2>1
<1>8. Cardinality(SlotsOf(s, r, Idx)) = 0
  BY <1>7, FS_EmptySet
<1> QED
  BY <1>4, <1>8 DEF Held

LEMMA StoreFields ==
    ASSUME NEW s \in ReadStore
    PROVE  /\ s.reads \in [Ids -> Read] /\ s.holder \in [ReadSlots -> (Ids \X Idx) \cup {Nobody}]
           /\ s.small \in 0 .. RestoreSlots /\ s.point \in [Keys -> {"listed", "removed", "freed"}]
           /\ s.pins \in [Keys -> Nat] /\ s.reading \in [Keys -> Nat]
BY DEF ReadStore

LEMMA ReadFields ==
    ASSUME NEW x \in Read
    PROVE  /\ x.phase \in Phases /\ x.key \in Keys /\ x.block \in [Idx -> BState] /\ x.small \in Smalls
           /\ x.assigned \in 0 .. MaxBlocks /\ x.handed \in 0 .. MaxBlocks /\ x.err \in BOOLEAN
           /\ x.disk \in Nat /\ x.held \in Nat /\ MaxBlocks \in Nat
           /\ Total[x.key] \in 0 .. MaxBlocks
BY ReadAssumption DEF Read

\* Nothing changes on r's slots.
LEMMA NoSlotOf ==
    ASSUME NEW s, NEW r
    PROVE  SlotsOf(s, r, {}) = {} /\ Cardinality(SlotsOf(s, r, {})) = 0
<1>1. SlotsOf(s, r, {}) = {}
  BY DEF SlotsOf
<1> QED
  BY <1>1, FS_EmptySet

LEMMA FreesNone ==
    ASSUME NEW s, NEW z, NEW r, s.holder \in [ReadSlots -> (Ids \X Idx) \cup {Nobody}], z.holder = s.holder
    PROVE  Frees(s, z, r, {})
BY NoSlotOf DEF Frees

FreedRead(k) == [NoRead EXCEPT !.phase = "freed", !.key = k]

LEMMA FreedReadFits ==
    ASSUME NEW k \in Keys
    PROVE  /\ FreedRead(k) \in Read /\ Fits(FreedRead(k)) /\ FreedRead(k).phase = "freed" /\ FreedRead(k).key = k
           /\ FreedRead(k).held = 0 /\ FreedRead(k).disk = 0
           /\ \A i \in Idx : FreedRead(k).block[i] = "idle"
<1> DEFINE x == FreedRead(k)
<1>1. /\ x \in Read /\ x.phase = "freed" /\ x.key = k /\ x.held = 0 /\ x.disk = 0
      /\ x.assigned = 0 /\ x.handed = 0 /\ x.small = "queued" /\ \A i \in Idx : x.block[i] = "idle"
  BY NoReadIs DEF Read, Phases, FreedRead
<1>2. 0 <= Total[k] /\ \A i \in Idx : i \in Nat /\ i > 0 /\ ~(i <= 0)
  BY ReadAssumption DEF Idx
<1> HIDE DEF x
<1>3. Fits(x)
  <2>1. /\ \A i \in Idx : x.block[i] = "idle" <=> i > x.assigned
        /\ \A i \in Idx : x.block[i] = "handed" <=> i <= x.handed
    BY <1>1, <1>2
  <2>2. x.handed <= x.assigned /\ x.assigned <= Total[x.key]
    BY <1>1, <1>2
  <2> QED
    BY <1>1, <2>1, <2>2 DEF Fits
<1> QED
  BY <1>1, <1>3 DEF x

MayFree(s, r) == s.reads[r].phase = "ended" /\ s.reads[r].disk = 0 /\ s.reads[r].held = 0

FreesRead(s, z, r, k) ==
    /\ z \in ReadStore /\ z.reads[r] = FreedRead(k) /\ OnlyRead(s, z, r)
    /\ z.holder = s.holder /\ z.small = s.small /\ z.reading = s.reading
    /\ z.pins[k] = s.pins[k] - 1
    /\ z.point[k] = IF s.pins[k] = 1 /\ s.point[k] = "removed" THEN "freed" ELSE s.point[k]
    /\ \A j \in Keys \ {k} : z.pins[j] = s.pins[j] /\ z.point[j] = s.point[j]

LEMMA FreedStore ==
    ASSUME NEW s \in ReadStore, NEW r \in Ids, MayFree(s, r), s.pins[s.reads[r].key] > 0
    PROVE  FreesRead(s, MaybeFreeRead(s, r), r, s.reads[r].key)
<1> DEFINE k == s.reads[r].key
           z == MaybeFreeRead(s, r)
           x == FreedRead(k)
<1>1. s.reads[r] \in Read /\ k \in Keys /\ s.pins[k] > 0
  BY StoreFields, ReadFields
<1>2. x \in Read
  BY <1>1, FreedReadFits
<1> HIDE DEF z
<1> HIDE DEF x, k
<1>3. z = [s EXCEPT !.reads[r] = x, !.pins[k] = @ - 1,
                    !.point[k] = IF s.pins[k] = 1 /\ @ = "removed" THEN "freed" ELSE @]
  BY DEF z, MaybeFreeRead, MayFree, FreedRead, x, k
<1>4. s.pins[k] - 1 \in Nat
  BY <1>1, StoreFields
<1>5. z.reads = [s.reads EXCEPT ![r] = x] /\ z.pins = [s.pins EXCEPT ![k] = @ - 1]
      /\ z.point = [s.point EXCEPT ![k] = IF s.pins[k] = 1 /\ @ = "removed" THEN "freed" ELSE @]
      /\ z.holder = s.holder /\ z.small = s.small /\ z.reading = s.reading
  BY <1>3 DEF ReadStore
<1>6. z.reads \in [Ids -> Read] /\ z.pins \in [Keys -> Nat] /\ z.point \in [Keys -> {"listed", "removed", "freed"}]
  BY <1>1, <1>2, <1>4, <1>5, StoreFields
<1>7. z \in ReadStore
  BY <1>3, <1>5, <1>6 DEF ReadStore
<1> QED
  <2>1. z.reads[r] = x /\ \A q \in Ids \ {r} : z.reads[q] = s.reads[q]
    BY <1>5, StoreFields
  <2>2. /\ z.pins[k] = s.pins[k] - 1
        /\ z.point[k] = IF s.pins[k] = 1 /\ s.point[k] = "removed" THEN "freed" ELSE s.point[k]
        /\ \A j \in Keys \ {k} : z.pins[j] = s.pins[j] /\ z.point[j] = s.point[j]
    BY <1>1, <1>5, StoreFields
  <2>3. FreesRead(s, z, r, k)
    BY <1>5, <1>7, <2>1, <2>2 DEF FreesRead, OnlyRead, x
  <2> QED
    BY <2>3, Zenon DEF z, k

LEMMA FreeingKeepsGood ==
    ASSUME NEW s, NEW C, NEW r \in Ids, Good(s, C), \A q \in Ids \ {r} : Settled(s, q),
           NEW z, z = MaybeFreeRead(s, r)
    PROVE  Good(z, C) /\ \A q \in Ids : Settled(z, q)
<1>1. s \in ReadStore /\ Held(s, C) /\ Counted(s) /\ PointsPinned(s)
  BY DEF Good
<1> DEFINE k == s.reads[r].key
<1>2. s.reads[r] \in Read /\ k \in Keys
  BY <1>1, StoreFields, ReadFields
<1>3. CASE s.reads[r].phase # "ended" \/ s.reads[r].disk # 0 \/ s.reads[r].held # 0
  <2>1. z = s
    BY <1>3 DEF MaybeFreeRead
  <2>2. Settled(s, r)
    BY <1>1, <1>3, EndedHolds DEF Settled
  <2> QED
    BY <2>1, <2>2
<1>4. CASE MayFree(s, r)
  <2> USE DEF MayFree
  <2>1. s.reads[r].small \notin Pending
    BY <1>1, <1>4, EndedHolds
  <2>2. s.pins[k] \in Nat /\ s.pins[k] > 0
    <3>1. Using(s.reads[r], k)
      BY <1>4 DEF Using
    <3>2. Tallied(s, s, r)
      BY Counts DEF OnlyRead
    <3>3. Cardinality(Users(s, k)) \in Nat /\ Cardinality(Users(s, k)) > 0
      BY <3>1, <3>2 DEF Tallied
    <3> QED
      BY <1>1, <1>2, <3>3 DEF Counted
  <2>3. FreesRead(s, z, r, k)
    BY <1>1, <1>4, <2>2, FreedStore
  <2>11. /\ z \in ReadStore /\ z.reads[r] = FreedRead(k) /\ OnlyRead(s, z, r)
         /\ z.holder = s.holder /\ z.small = s.small /\ z.reading = s.reading
    BY <2>3 DEF FreesRead
  <2> DEFINE x == z.reads[r]
  <2>4. /\ x \in Read /\ Fits(x) /\ x.phase = "freed" /\ x.key = k /\ x.held = 0 /\ x.disk = 0
        /\ \A i \in Idx : x.block[i] = "idle"
    BY <1>2, <2>11, FreedReadFits
  <2>5. Held(z, C)
    <3>1. Touches(s, z, r, {})
      <4>1. Frees(s, z, r, {})
        BY <1>1, <2>11, FreesNone, StoreFields
      <4> QED
        BY <2>11, <4>1, StoreFields DEF Touches, OnlyRead
    <3>2. Consistent(s, z, r, {}, C)
      <4>1. \A w \in ReadSlots, i \in Idx : s.holder[w] # <<r, i>>
        BY <1>1, <1>4, HeldNone
      <4>2. \A c \in C : c.read # r
        BY <1>1, <1>4, EndedHasNoCopy
      <4> QED
        BY <2>4, <4>1, <4>2 DEF Consistent, Uses
    <3>3. SameOthers(C, C, r)
      BY <1>1 DEF SameOthers, Held
    <3>4. x.held = s.reads[r].held - Cardinality(SlotsOf(s, r, {}))
      BY <1>4, <2>4, NoSlotOf
    <3> QED
      BY <1>1, <2>4, <3>1, <3>2, <3>3, <3>4, OneRead
  <2>6. /\ ~HasSmall(x) /\ ~HasSmall(s.reads[r])
        /\ \A j : ~LiveUsing(x, j) /\ ~LiveUsing(s.reads[r], j) /\ ~Using(x, j)
        /\ \A j : Using(s.reads[r], j) <=> j = k
    BY <1>4, <2>1, <2>4 DEF HasSmall, LiveUsing, Using
  <2>7. /\ \A j \in Keys : /\ Cardinality(LiveUsers(z, j)) = Cardinality(LiveUsers(s, j))
                           /\ Cardinality(Users(z, j)) = Cardinality(Users(s, j)) - Bit(j = k)
        /\ Cardinality(SmallUsers(z)) = Cardinality(SmallUsers(s))
    <3>1. Tallied(s, z, r)
      BY <2>11, Counts
    <3> QED
      BY <2>6, <3>1 DEF Tallied, Bit
  <2>8. Counted(z)
    BY <1>1, <1>2, <2>3, <2>7, StoreFields DEF FreesRead, Counted, Bit
  <2>9. PointsPinned(z)
    BY <1>1, <1>2, <2>2, <2>3, StoreFields DEF FreesRead, PointsPinned
  <2>10. \A q \in Ids : Settled(z, q)
    BY <2>4, <2>11 DEF Settled, OnlyRead
  <2> QED
    BY <2>5, <2>8, <2>9, <2>10, <2>11 DEF Good
<1> QED
  BY <1>3, <1>4 DEF MayFree

-----------------------------------------------------------------------------
(* Free slots are given out *)

LEMMA WantedIs ==
    ASSUME NEW s, s.reads \in [Ids -> Read], NEW r, NEW i
    PROVE  <<r, i>> \in Wanted(s) <=>
              /\ r \in Ids /\ s.reads[r].phase = "live" /\ ~s.reads[r].err
              /\ i \in s.reads[r].assigned + 1 .. Total[s.reads[r].key]
BY DEF Wanted, LiveReads

LEMMA WantedType ==
    ASSUME NEW s, s.reads \in [Ids -> Read]
    PROVE  Wanted(s) \subseteq Ids \X Idx
<1> SUFFICES ASSUME NEW b \in Wanted(s) PROVE b \in Ids \X Idx
  OBVIOUS
<1>5. PICK r \in LiveReads(s) : \E i \in s.reads[r].assigned + 1 .. Total[s.reads[r].key] : b = <<r, i>>
  BY DEF Wanted
<1>1. PICK i \in s.reads[r].assigned + 1 .. Total[s.reads[r].key] : b = <<r, i>>
  BY <1>5
<1>2. r \in Ids /\ s.reads[r] \in Read
  BY DEF LiveReads
<1>3. s.reads[r].assigned \in Nat /\ Total[s.reads[r].key] \in 0 .. MaxBlocks /\ MaxBlocks \in Nat
  BY <1>2, ReadFields
<1>4. i \in Idx
  BY <1>3 DEF Idx
<1> QED
  BY <1>1, <1>2, <1>4

SlotsFor(g, r) == {w \in DOMAIN g : g[w] # Nobody /\ g[w][1] = r}
BlocksFor(g, r) == {i \in Idx : <<r, i>> \in Given(g)}

\* What an allotment gives each restore: the next blocks, as many as it gets
\* slots.
LEMMA AllotmentIs ==
    ASSUME NEW s, s.reads \in [Ids -> Read], NEW g \in Allotments(s)
    PROVE  /\ g \in [FreeSlots(s) -> Wanted(s) \cup {Nobody}]
           /\ \A v, w \in FreeSlots(s) : g[v] = g[w] /\ g[v] # Nobody => v = w
           /\ \A b \in Given(g) : \A i \in s.reads[b[1]].assigned + 1 .. b[2] : <<b[1], i>> \in Given(g)
           /\ (\E w \in FreeSlots(s) : g[w] = Nobody) => Wanted(s) \subseteq Given(g)
BY DEF Allotments

LEMMA GivenIs ==
    ASSUME NEW s, s.reads \in [Ids -> Read], NEW g \in Allotments(s), NEW r \in Ids, NEW i \in Idx
    PROVE  /\ <<r, i>> \in Given(g) <=> \E w \in FreeSlots(s) : g[w] = <<r, i>>
           /\ <<r, i>> \in Given(g) => <<r, i>> \in Wanted(s)
<1>1. g \in [FreeSlots(s) -> Wanted(s) \cup {Nobody}] /\ <<r, i>> # Nobody
  BY AllotmentIs, NobodyIsNone
<1> QED
  BY <1>1 DEF Given

LEMMA GotIs ==
    ASSUME NEW s, s.reads \in [Ids -> Read], NEW g \in Allotments(s), NEW r \in Ids
    PROVE  /\ SlotsFor(g, r) = {w \in FreeSlots(s) : \E i \in Idx : g[w] = <<r, i>>}
           /\ IsFiniteSet(SlotsFor(g, r)) /\ Got(g, r) = Cardinality(SlotsFor(g, r)) /\ Got(g, r) \in Nat
           /\ Got(g, r) = Cardinality(BlocksFor(g, r))
<1>1. g \in [FreeSlots(s) -> Wanted(s) \cup {Nobody}] /\ Wanted(s) \subseteq Ids \X Idx
  BY AllotmentIs, WantedType
<1>2. \A w \in FreeSlots(s) : g[w] = Nobody \/ g[w] \in Ids \X Idx
  BY <1>1
<1>3. SlotsFor(g, r) = {w \in FreeSlots(s) : \E i \in Idx : g[w] = <<r, i>>}
  <2> SUFFICES ASSUME NEW w \in FreeSlots(s)
               PROVE  g[w] # Nobody /\ g[w][1] = r <=> \E i \in Idx : g[w] = <<r, i>>
    BY <1>1 DEF SlotsFor
  <2>1. \A i \in Idx : <<r, i>> # Nobody
    BY NobodyIsNone
  <2> QED
    BY <1>2, <2>1
<1>4. SlotsFor(g, r) \in SUBSET ReadSlots
  BY <1>3 DEF FreeSlots
<1>5. IsFiniteSet(SlotsFor(g, r)) /\ Cardinality(SlotsFor(g, r)) \in Nat
  BY <1>4, ReadAssumption, FS_Subset, FS_CardinalityType
<1>6. Got(g, r) = Cardinality(SlotsFor(g, r))
  BY DEF Got, SlotsFor
<1>7. Cardinality(SlotsFor(g, r)) = Cardinality(BlocksFor(g, r))
  <2> DEFINE f == [w \in SlotsFor(g, r) |-> g[w][2]]
  <2>1. \A w \in SlotsFor(g, r) : f[w] \in BlocksFor(g, r) /\ g[w] = <<r, f[w]>>
    <3> SUFFICES ASSUME NEW w \in SlotsFor(g, r)
                 PROVE  f[w] \in BlocksFor(g, r) /\ g[w] = <<r, f[w]>>
      OBVIOUS
    <3>1. w \in FreeSlots(s)
      BY <1>3
    <3>2. PICK i \in Idx : g[w] = <<r, i>>
      BY <1>3
    <3>3. f[w] = i
      BY <3>2
    <3>4. <<r, i>> \in Given(g)
      BY <3>1, <3>2, GivenIs
    <3> QED
      BY <3>2, <3>3, <3>4 DEF BlocksFor
  <2>2. f \in [SlotsFor(g, r) -> BlocksFor(g, r)]
    BY <2>1
  <2>3. \A v, w \in SlotsFor(g, r) : f[v] = f[w] => v = w
    <3> SUFFICES ASSUME NEW v \in SlotsFor(g, r), NEW w \in SlotsFor(g, r), f[v] = f[w]
                 PROVE  v = w
      OBVIOUS
    <3>1. g[v] = g[w] /\ g[v] = <<r, f[v]>> /\ f[v] \in BlocksFor(g, r)
      BY <2>1
    <3>2. g[v] # Nobody
      BY <3>1, NobodyIsNone DEF BlocksFor
    <3>3. v \in FreeSlots(s) /\ w \in FreeSlots(s)
      BY <1>3
    <3> QED
      BY <3>1, <3>2, <3>3, AllotmentIs
  <2>4. \A i \in BlocksFor(g, r) : \E w \in SlotsFor(g, r) : f[w] = i
    <3> SUFFICES ASSUME NEW i \in BlocksFor(g, r)
                 PROVE  \E w \in SlotsFor(g, r) : f[w] = i
      OBVIOUS
    <3>1. i \in Idx /\ <<r, i>> \in Given(g)
      BY DEF BlocksFor
    <3>2. PICK w \in FreeSlots(s) : g[w] = <<r, i>>
      BY <3>1, GivenIs
    <3>3. w \in SlotsFor(g, r)
      BY <1>3, <3>1, <3>2
    <3>4. g[w] = <<r, f[w]>>
      BY <2>1, <3>3
    <3> QED
      BY <3>2, <3>3, <3>4
  <2> HIDE DEF f
  <2>5. ExistsBijection(SlotsFor(g, r), BlocksFor(g, r))
    BY <2>2, <2>3, <2>4 DEF ExistsBijection, Bijection, Injection, Surjection, IsInjective
  <2> QED
    BY <1>5, <2>5, FS_Bijection
<1> QED
  BY <1>3, <1>5, <1>6, <1>7

\* The slots and blocks r gets.
GivesTo(s, g, r) ==
    /\ Got(g, r) \in Nat /\ BlocksFor(g, r) = s.reads[r].assigned + 1 .. s.reads[r].assigned + Got(g, r)
    /\ Got(g, r) > 0 => /\ s.reads[r].phase = "live" /\ ~s.reads[r].err
                        /\ s.reads[r].assigned + Got(g, r) <= Total[s.reads[r].key]

LEMMA Gives ==
    ASSUME NEW s, s.reads \in [Ids -> Read], NEW g \in Allotments(s), NEW r \in Ids
    PROVE  GivesTo(s, g, r)
<1> DEFINE a == s.reads[r].assigned
           n == Got(g, r)
           t == Total[s.reads[r].key]
           S == BlocksFor(g, r)
<1>1. a \in Nat /\ t \in Nat /\ t <= MaxBlocks /\ MaxBlocks \in Nat
  BY ReadFields
<1>2. n \in Nat /\ n = Cardinality(S)
  BY GotIs
<1>3. ASSUME NEW i \in S
      PROVE  i \in a + 1 .. t /\ s.reads[r].phase = "live" /\ ~s.reads[r].err
  <2>1. <<r, i>> \in Wanted(s)
    BY GivenIs DEF BlocksFor
  <2> QED
    BY <2>1, WantedIs
<1>4. ASSUME NEW i \in S, NEW j \in a + 1 .. i
      PROVE  j \in S
  <2>1. <<r, i>> \in Given(g) /\ i \in Idx
    BY DEF BlocksFor
  <2>2. <<r, j>> \in Given(g)
    BY <2>1, AllotmentIs
  <2>3. j \in Idx
    BY <1>1, <2>1 DEF Idx
  <2> QED
    BY <2>2, <2>3 DEF BlocksFor
<1> HIDE DEF a, n, t, S
<1>5. S \in SUBSET (a + 1 .. t) /\ \A i \in S : \A j \in a + 1 .. i : j \in S
  BY <1>3, <1>4
<1>6. S = a + 1 .. a + Cardinality(S)
  BY <1>1, <1>5, Segment
<1>7. n > 0 => a + n \in S
  BY <1>1, <1>2, <1>6
<1>8. n > 0 => s.reads[r].phase = "live" /\ ~s.reads[r].err /\ a + n <= t
  BY <1>1, <1>2, <1>3, <1>7
<1> QED
  BY <1>2, <1>6, <1>8 DEF GivesTo, a, n, t, S

\* How a store changes when its free slots are given out.
Allots(s, z, g) ==
    /\ z.small = s.small /\ z.point = s.point /\ z.pins = s.pins /\ z.reading = s.reading
    /\ z.holder \in [ReadSlots -> (Ids \X Idx) \cup {Nobody}]
    /\ \A w \in ReadSlots : z.holder[w] = IF w \in FreeSlots(s) THEN g[w] ELSE s.holder[w]
    /\ \A r \in Ids : z.reads[r] = Queued(r, s.reads[r], g)

LEMMA QueuedIs ==
    ASSUME NEW x \in Read, NEW r \in Ids, NEW g, Got(g, r) \in Nat
    PROVE  LET y == Queued(r, x, g) IN
           /\ y.phase = x.phase /\ y.key = x.key /\ y.handed = x.handed /\ y.small = x.small /\ y.err = x.err
           /\ y.assigned = x.assigned + Got(g, r) /\ y.disk = x.disk + Got(g, r) /\ y.held = x.held + Got(g, r)
           /\ y.block \in [Idx -> BState]
           /\ \A i \in Idx : y.block[i] = IF i \in BlocksFor(g, r) THEN "queued" ELSE x.block[i]
           /\ x.assigned + Got(g, r) <= MaxBlocks => y \in Read
<1> DEFINE n == Got(g, r)
           b == [i \in Idx |-> IF <<r, i>> \in Given(g) THEN "queued" ELSE x.block[i]]
           y == [x EXCEPT !.block = b, !.assigned = @ + n, !.disk = @ + n, !.held = @ + n]
<1>1. Queued(r, x, g) = y
  BY DEF Queued, n
<1>2. b \in [Idx -> BState] /\ \A i \in Idx : b[i] = IF i \in BlocksFor(g, r) THEN "queued" ELSE x.block[i]
  BY ReadFields DEF BState, BlocksFor
<1> HIDE DEF n, b
<1>3. n \in Nat
  BY DEF n
<1>4. /\ y.phase = x.phase /\ y.key = x.key /\ y.handed = x.handed /\ y.small = x.small /\ y.err = x.err
      /\ y.assigned = x.assigned + n /\ y.disk = x.disk + n /\ y.held = x.held + n /\ y.block = b
  BY DEF Read
<1>5. x.assigned + n <= MaxBlocks => y \in Read
  <2> SUFFICES ASSUME x.assigned + n <= MaxBlocks PROVE y \in Read
    OBVIOUS
  <2>1. x.assigned + n \in 0 .. MaxBlocks /\ x.disk + n \in Nat /\ x.held + n \in Nat
    BY <1>3, ReadFields
  <2> QED
    BY <1>2, <2>1 DEF Read
<1> HIDE DEF y
<1> QED
  BY <1>1, <1>2, <1>4, <1>5 DEF n

LEMMA AllotIs ==
    ASSUME NEW s \in ReadStore, NEW g \in Allotments(s)
    PROVE  Allots(s, Allot(s, g), g) /\ Allot(s, g) \in ReadStore
<1> DEFINE z == Allot(s, g)
           R == [r \in Ids |-> Queued(r, s.reads[r], g)]
           H == [w \in ReadSlots |-> IF w \in DOMAIN g THEN g[w] ELSE s.holder[w]]
<1>1. s.reads \in [Ids -> Read] /\ s.holder \in [ReadSlots -> (Ids \X Idx) \cup {Nobody}]
  BY StoreFields
<1>2. DOMAIN g = FreeSlots(s) /\ \A w \in FreeSlots(s) : g[w] \in (Ids \X Idx) \cup {Nobody}
  BY <1>1, AllotmentIs, WantedType
<1>3. R \in [Ids -> Read]
  <2> SUFFICES ASSUME NEW r \in Ids PROVE Queued(r, s.reads[r], g) \in Read
    OBVIOUS
  <2>1. s.reads[r] \in Read
    BY <1>1
  <2>2. GivesTo(s, g, r)
    BY <1>1, Gives
  <2>3. Got(g, r) \in Nat /\ s.reads[r].assigned + Got(g, r) <= MaxBlocks
    <3>1. /\ s.reads[r].assigned \in 0 .. MaxBlocks /\ MaxBlocks \in Nat
          /\ Total[s.reads[r].key] \in 0 .. MaxBlocks
      BY <2>1, ReadFields
    <3> QED
      BY <2>2, <3>1, SMTT(30) DEF GivesTo
  <2> QED
    BY <2>1, <2>3, QueuedIs
<1>4. H \in [ReadSlots -> (Ids \X Idx) \cup {Nobody}]
  BY <1>1, <1>2
<1>5. z = [s EXCEPT !.reads = R, !.holder = H]
  BY DEF Allot
<1>6. \A w \in ReadSlots : H[w] = IF w \in FreeSlots(s) THEN g[w] ELSE s.holder[w]
  BY <1>2
<1>7. \A r \in Ids : R[r] = Queued(r, s.reads[r], g)
  OBVIOUS
<1> HIDE DEF R, H, z
<1>8. /\ z.small = s.small /\ z.point = s.point /\ z.pins = s.pins /\ z.reading = s.reading
      /\ z.reads = R /\ z.holder = H /\ z \in ReadStore
  BY <1>3, <1>4, <1>5 DEF ReadStore
<1> QED
  BY <1>4, <1>6, <1>7, <1>8 DEF Allots, z

\* The restore r after its share.
Grows(s, z, g, r) ==
    LET x == s.reads[r]
        y == z.reads[r]
        n == Got(g, r)
    IN /\ x \in Read /\ y \in Read /\ n \in Nat
       /\ y.phase = x.phase /\ y.key = x.key /\ y.handed = x.handed /\ y.small = x.small /\ y.err = x.err
       /\ y.assigned = x.assigned + n /\ y.disk = x.disk + n /\ y.held = x.held + n
       /\ \A i \in Idx : y.block[i] = IF x.assigned < i /\ i <= x.assigned + n THEN "queued" ELSE x.block[i]
       /\ n > 0 => x.phase = "live" /\ ~x.err /\ x.assigned + n <= Total[x.key]

LEMMA GrowsAll ==
    ASSUME NEW s \in ReadStore, NEW g \in Allotments(s), NEW z \in ReadStore, Allots(s, z, g), NEW r \in Ids
    PROVE  Grows(s, z, g, r)
<1>1. s.reads[r] \in Read /\ z.reads[r] \in Read /\ s.reads \in [Ids -> Read]
  BY StoreFields
<1>2. GivesTo(s, g, r)
  BY <1>1, Gives
<1>3. Got(g, r) \in Nat
  BY <1>2 DEF GivesTo
<1>4. z.reads[r] = Queued(r, s.reads[r], g)
  BY DEF Allots
<1>5. \A i \in Idx : i \in BlocksFor(g, r) <=> s.reads[r].assigned < i /\ i <= s.reads[r].assigned + Got(g, r)
  <2>1. s.reads[r].assigned \in Nat /\ \A i \in Idx : i \in Nat
    BY <1>1, ReadFields DEF Idx
  <2> QED
    BY <1>2, <1>3, <2>1 DEF GivesTo
<1>6. /\ z.reads[r].phase = s.reads[r].phase /\ z.reads[r].key = s.reads[r].key /\ z.reads[r].handed = s.reads[r].handed
      /\ z.reads[r].small = s.reads[r].small /\ z.reads[r].err = s.reads[r].err
      /\ z.reads[r].assigned = s.reads[r].assigned + Got(g, r)
      /\ z.reads[r].disk = s.reads[r].disk + Got(g, r) /\ z.reads[r].held = s.reads[r].held + Got(g, r)
      /\ \A i \in Idx : z.reads[r].block[i] = IF i \in BlocksFor(g, r) THEN "queued" ELSE s.reads[r].block[i]
  BY <1>1, <1>3, <1>4, QueuedIs
<1> QED
  BY <1>1, <1>2, <1>3, <1>5, <1>6 DEF Grows, GivesTo

LEMMA GrowsFits ==
    ASSUME NEW s, NEW z, NEW g, NEW r \in Ids, Grows(s, z, g, r), Fits(s.reads[r])
    PROVE  /\ Fits(z.reads[r]) /\ CountsAlike(z.reads[r], s.reads[r])
           /\ \A i \in Idx : z.reads[r].block[i] \in Uses <=>
                 s.reads[r].block[i] \in Uses \/ (s.reads[r].assigned < i /\ i <= s.reads[r].assigned + Got(g, r))
           /\ \A i \in Idx : s.reads[r].block[i] = "handed" => z.reads[r].block[i] = "handed"
<1> DEFINE x == s.reads[r]
           y == z.reads[r]
           n == Got(g, r)
<1>1. /\ x \in Read /\ y \in Read /\ n \in Nat
      /\ y.phase = x.phase /\ y.key = x.key /\ y.handed = x.handed /\ y.small = x.small /\ y.err = x.err
      /\ y.assigned = x.assigned + n /\ y.disk = x.disk + n /\ y.held = x.held + n
      /\ \A i \in Idx : y.block[i] = IF x.assigned < i /\ i <= x.assigned + n THEN "queued" ELSE x.block[i]
      /\ n > 0 => x.phase = "live" /\ ~x.err /\ x.assigned + n <= Total[x.key]
  BY DEF Grows
<1>2. /\ x.handed <= x.assigned /\ x.assigned <= Total[x.key]
      /\ \A i \in Idx : x.block[i] = "idle" <=> i > x.assigned
      /\ \A i \in Idx : x.block[i] = "handed" <=> i <= x.handed
      /\ x.phase \in {"unused", "freed"} => x.assigned = 0 /\ x.small = "queued"
      /\ x.phase \in {"live", "ended"} => x.disk = Cardinality(AskedOf(x)) + SmallTask(x)
      /\ x.phase = "ended" => \A i \in Idx : x.block[i] # "ready"
  BY DEF Fits
<1> HIDE DEF x, y, n
<1>3. /\ x.assigned \in Nat /\ x.handed \in Nat /\ Total[x.key] \in Nat /\ \A i \in Idx : i \in Nat
      /\ x.block \in [Idx -> BState] /\ y.block \in [Idx -> BState]
      /\ Total[x.key] <= MaxBlocks /\ MaxBlocks \in Nat
  BY <1>1, ReadFields DEF Idx
<1>4. \A i \in Idx : x.assigned < i => x.block[i] = "idle" /\ x.block[i] \notin Uses /\ x.block[i] \notin Pending
  BY <1>2, <1>3 DEF Uses, Pending
<1>5. \A i \in Idx : y.block[i] \in Uses <=> x.block[i] \in Uses \/ (x.assigned < i /\ i <= x.assigned + n)
  BY <1>1, <1>4 DEF Uses
<1>6. \A i \in Idx : x.block[i] = "handed" => y.block[i] = "handed"
  BY <1>1, <1>4
<1>7. CountsAlike(y, x)
  BY <1>1 DEF CountsAlike, HasSmall
<1>8. Cardinality(AskedOf(y)) = Cardinality(AskedOf(x)) + n
  <2> DEFINE N == x.assigned + 1 .. x.assigned + n
  <2>1. N \subseteq Idx
    <3>1. CASE n > 0
      BY <1>1, <1>3, <3>1 DEF Idx
    <3>2. CASE n = 0
      BY <1>1, <1>3, <3>2
    <3> QED
      BY <1>1, <3>1, <3>2
  <2>2. IsFiniteSet(N) /\ Cardinality(N) = n
    <3> DEFINE p == x.assigned + 1
               q == x.assigned + n
    <3>1. p \in Int /\ q \in Int /\ q - p + 1 = n /\ (p > q <=> n = 0)
      BY <1>1, <1>3
    <3> HIDE DEF p, q
    <3>2. IsFiniteSet(p .. q) /\ Cardinality(p .. q) = IF p > q THEN 0 ELSE q - p + 1
      BY <3>1, FS_Interval
    <3>3. IsFiniteSet(p .. q) /\ Cardinality(p .. q) = n
      BY <3>1, <3>2
    <3> QED
      BY <3>3 DEF p, q
  <2>3. \A i \in Idx : i \in N <=> x.assigned < i /\ i <= x.assigned + n
    BY <1>1, <1>3
  <2> HIDE DEF N
  <2>4. AskedOf(y) = AskedOf(x) \cup N
    BY <1>1, <2>1, <2>3 DEF AskedOf, Pending
  <2>5. AskedOf(x) \cap N = {}
    BY <1>4, <2>3 DEF AskedOf
  <2>6. IsFiniteSet(AskedOf(x)) /\ Cardinality(AskedOf(x)) \in Nat
    BY <1>3, Asked
  <2>7. Cardinality(AskedOf(x) \cup N) = Cardinality(AskedOf(x)) + Cardinality(N) - Cardinality(AskedOf(x) \cap N)
    BY <2>2, <2>6, FS_Union
  <2>8. Cardinality(AskedOf(x) \cap N) = 0
    BY <2>5, FS_EmptySet
  <2> QED
    BY <1>1, <2>2, <2>4, <2>6, <2>7, <2>8
<1>9. Fits(y)
  <2>1. y.handed <= y.assigned /\ y.assigned <= Total[y.key]
    BY <1>1, <1>2, <1>3
  <2>2. \A i \in Idx : y.block[i] = "idle" <=> i > y.assigned
    BY <1>1, <1>2, <1>3
  <2>3. \A i \in Idx : y.block[i] = "handed" <=> i <= y.handed
    BY <1>1, <1>2, <1>3, <1>4
  <2>4. y.phase \in {"unused", "freed"} => y.assigned = 0 /\ y.small = "queued"
    BY <1>1, <1>2
  <2>5. y.phase \in {"live", "ended"} => y.disk = Cardinality(AskedOf(y)) + SmallTask(y)
    <3>1. SmallTask(y) = SmallTask(x) /\ SmallTask(x) \in Nat /\ Cardinality(AskedOf(x)) \in Nat
      BY <1>1, <1>3, Asked DEF SmallTask
    <3> QED
      BY <1>1, <1>2, <1>8, <3>1
  <2>6. y.phase = "ended" => \A i \in Idx : y.block[i] # "ready"
    BY <1>1, <1>2
  <2> QED
    BY <2>1, <2>2, <2>3, <2>4, <2>5, <2>6 DEF Fits
<1> QED
  BY <1>5, <1>6, <1>7, <1>9 DEF x, y, n

\* Who holds which slot after the free ones are given out.
LEMMA AllottedHolders ==
    ASSUME NEW s \in ReadStore, NEW g \in Allotments(s), NEW z, Allots(s, z, g),
           NEW w \in ReadSlots, NEW r \in Ids, NEW i \in Idx
    PROVE  z.holder[w] = <<r, i>> <=> s.holder[w] = <<r, i>> \/ (w \in FreeSlots(s) /\ g[w] = <<r, i>>)
<1>1. z.holder[w] = IF w \in FreeSlots(s) THEN g[w] ELSE s.holder[w]
  BY DEF Allots
<1>2. w \in FreeSlots(s) <=> s.holder[w] = Nobody
  BY DEF FreeSlots
<1> QED
  BY <1>1, <1>2, NobodyIsNone

LEMMA AllotKeepsHeld ==
    ASSUME NEW s \in ReadStore, NEW C, Held(s, C), NEW g \in Allotments(s), NEW z \in ReadStore, Allots(s, z, g)
    PROVE  Held(z, C)
<1>1. s.reads \in [Ids -> Read] /\ z.reads \in [Ids -> Read]
      /\ s.holder \in [ReadSlots -> (Ids \X Idx) \cup {Nobody}]
      /\ z.holder \in [ReadSlots -> (Ids \X Idx) \cup {Nobody}]
  BY StoreFields
<1>2. \A r \in Ids : Fits(s.reads[r]) /\ Grows(s, z, g, r)
  BY GrowsAll DEF Held
<1>3. \A r \in Ids : /\ Fits(z.reads[r])
                     /\ \A i \in Idx : z.reads[r].block[i] \in Uses <=>
                           s.reads[r].block[i] \in Uses \/ (s.reads[r].assigned < i /\ i <= s.reads[r].assigned + Got(g, r))
                     /\ \A i \in Idx : s.reads[r].block[i] = "handed" => z.reads[r].block[i] = "handed"
  BY <1>2, GrowsFits
<1>4. \A w \in ReadSlots, r \in Ids, i \in Idx :
         z.holder[w] = <<r, i>> <=> s.holder[w] = <<r, i>> \/ (w \in FreeSlots(s) /\ g[w] = <<r, i>>)
  BY AllottedHolders
\* The blocks that were given a slot.
<1>5. ASSUME NEW r \in Ids, NEW i \in Idx
      PROVE  (\E w \in FreeSlots(s) : g[w] = <<r, i>>) <=> s.reads[r].assigned < i /\ i <= s.reads[r].assigned + Got(g, r)
  <2>1. GivesTo(s, g, r)
    BY <1>1, Gives
  <2>2. i \in BlocksFor(g, r) <=> \E w \in FreeSlots(s) : g[w] = <<r, i>>
    BY <1>1, GivenIs, ZenonT(30) DEF BlocksFor
  <2>3. s.reads[r].assigned \in Nat /\ i \in Nat
    BY <1>1, ReadFields DEF Idx
  <2> QED
    BY <2>1, <2>2, <2>3 DEF GivesTo
\* None of them had one.
<1>6. ASSUME NEW r \in Ids, NEW i \in Idx, s.reads[r].assigned < i
      PROVE  \A w \in ReadSlots : s.holder[w] # <<r, i>>
  <2>1. s.reads[r].block[i] = "idle"
    BY <1>2, <1>6, ReadFields, <1>1 DEF Fits, Idx
  <2>2. \A c \in C : c.index # 0 => s.reads[c.read].block[c.index] = "handed"
    BY DEF Held
  <2>3. i # 0
    BY DEF Idx
  <2>4. ~ \E c \in C : c.read = r /\ c.index = i
    BY <2>1, <2>2, <2>3
  <2>5. s.reads[r].block[i] \notin Uses
    BY <2>1 DEF Uses
  <2>6. \A w \in ReadSlots : s.holder[w] = <<r, i>> =>
          s.reads[r].block[i] \in Uses \/ \E c \in C : c.read = r /\ c.index = i
    BY DEF Held
  <2> QED
    BY <2>4, <2>5, <2>6
<1>7. ASSUME NEW v \in ReadSlots, NEW w \in ReadSlots, z.holder[v] = z.holder[w], z.holder[v] # Nobody
      PROVE  v = w
  <2>1. PICK r \in Ids, i \in Idx : z.holder[v] = <<r, i>>
    BY <1>1, <1>7
  <2>2. z.holder[w] = <<r, i>>
    BY <1>7, <2>1
  <2>3. CASE s.holder[v] = <<r, i>> /\ s.holder[w] = <<r, i>>
    <3>1. \A p, q \in ReadSlots : s.holder[p] = s.holder[q] /\ s.holder[p] # Nobody => p = q
      BY DEF Held
    <3>2. <<r, i>> # Nobody
      BY NobodyIsNone
    <3> QED
      BY <2>3, <3>1, <3>2
  <2>4. CASE /\ v \in FreeSlots(s) /\ g[v] = <<r, i>> /\ w \in FreeSlots(s) /\ g[w] = <<r, i>>
    <3>1. \A p, q \in FreeSlots(s) : g[p] = g[q] /\ g[p] # Nobody => p = q
      BY <1>1, AllotmentIs
    <3>2. <<r, i>> # Nobody
      BY NobodyIsNone
    <3> QED
      BY <2>4, <3>1, <3>2
  <2>5. (\E u \in FreeSlots(s) : g[u] = <<r, i>>) => \A u \in ReadSlots : s.holder[u] # <<r, i>>
    BY <1>5, <1>6
  <2> QED
    BY <1>4, <2>1, <2>2, <2>3, <2>4, <2>5
<1>8. ASSUME NEW r \in Ids
      PROVE  z.reads[r].held = Cardinality(SlotsOf(z, r, Idx))
  <2>1. /\ SlotsFor(g, r) = {w \in FreeSlots(s) : \E i \in Idx : g[w] = <<r, i>>}
        /\ IsFiniteSet(SlotsFor(g, r)) /\ Got(g, r) = Cardinality(SlotsFor(g, r)) /\ Got(g, r) \in Nat
    BY <1>1, GotIs
  <2>2. SlotsFor(g, r) \subseteq ReadSlots
    BY <2>1 DEF FreeSlots
  <2>3. ASSUME NEW w \in ReadSlots
        PROVE  w \in SlotsOf(z, r, Idx) <=> w \in SlotsOf(s, r, Idx) \/ w \in SlotsFor(g, r)
    <3>1. w \in SlotsOf(z, r, Idx) <=> \E i \in Idx : z.holder[w] = <<r, i>>
      BY SlotsOfAll
    <3>2. w \in SlotsOf(s, r, Idx) <=> \E i \in Idx : s.holder[w] = <<r, i>>
      BY SlotsOfAll
    <3> QED
      BY <1>4, <2>1, <3>1, <3>2
  <2>4. SlotsOf(z, r, Idx) = SlotsOf(s, r, Idx) \cup SlotsFor(g, r)
    BY <2>2, <2>3, SlotsFinite
  <2>5. SlotsOf(s, r, Idx) \cap SlotsFor(g, r) = {}
    <3> SUFFICES ASSUME NEW w \in ReadSlots, w \in SlotsOf(s, r, Idx), w \in SlotsFor(g, r) PROVE FALSE
      BY <2>2
    <3>1. PICK i \in Idx : s.holder[w] = <<r, i>>
      BY SlotsAre
    <3>2. s.holder[w] = Nobody
      BY <2>1 DEF FreeSlots
    <3> QED
      BY <3>1, <3>2, NobodyIsNone
  <2>6. IsFiniteSet(SlotsOf(s, r, Idx)) /\ Cardinality(SlotsOf(s, r, Idx)) \in Nat
    BY SlotsFinite
  <2>7. Cardinality(SlotsOf(z, r, Idx)) = Cardinality(SlotsOf(s, r, Idx)) + Cardinality(SlotsFor(g, r)) - Cardinality(SlotsOf(s, r, Idx) \cap SlotsFor(g, r))
    BY <2>1, <2>4, <2>6, FS_Union
  <2>8. Cardinality(SlotsOf(z, r, Idx)) = s.reads[r].held + Got(g, r)
    <3>1. Cardinality(SlotsOf(s, r, Idx) \cap SlotsFor(g, r)) = 0
      BY <2>5, FS_EmptySet
    <3>2. s.reads[r].held = Cardinality(SlotsOf(s, r, Idx))
      BY DEF Held
    <3> QED
      BY <2>1, <2>6, <2>7, <3>1, <3>2
  <2> QED
    BY <1>2, <2>8 DEF Grows
<1>9. ASSUME NEW r \in Ids, NEW i \in Idx, z.reads[r].block[i] \in Uses
      PROVE  \E w \in ReadSlots : z.holder[w] = <<r, i>>
  <2>1. CASE s.reads[r].block[i] \in Uses
    <3>1. PICK w \in ReadSlots : s.holder[w] = <<r, i>>
      BY <2>1 DEF Held
    <3> QED
      BY <1>4, <3>1
  <2>2. CASE s.reads[r].assigned < i /\ i <= s.reads[r].assigned + Got(g, r)
    <3>1. PICK w \in FreeSlots(s) : g[w] = <<r, i>>
      BY <1>5, <2>2
    <3>2. w \in ReadSlots
      BY DEF FreeSlots
    <3> QED
      BY <1>4, <3>1, <3>2
  <2> QED
    BY <1>3, <1>9, <2>1, <2>2
<1>10. ASSUME NEW w \in ReadSlots, NEW r \in Ids, NEW i \in Idx, z.holder[w] = <<r, i>>
       PROVE  z.reads[r].block[i] \in Uses \/ \E c \in C : c.read = r /\ c.index = i
  <2>1. CASE s.holder[w] = <<r, i>>
    <3>1. s.reads[r].block[i] \in Uses \/ \E c \in C : c.read = r /\ c.index = i
      BY <2>1 DEF Held
    <3> QED
      BY <1>3, <3>1
  <2>2. CASE w \in FreeSlots(s) /\ g[w] = <<r, i>>
    BY <1>3, <1>5, <2>2
  <2> QED
    BY <1>4, <1>10, <2>1, <2>2
<1>11. ASSUME NEW c \in C
       PROVE  /\ z.reads[c.read].phase = "live"
              /\ c.index # 0 => /\ z.holder[c.slot] = <<c.read, c.index>>
                                /\ z.reads[c.read].block[c.index] = "handed"
  <2>1. c.read \in Ids /\ (c.index # 0 => c.index \in Idx /\ c.slot \in ReadSlots)
    BY CopyIs DEF Held
  <2>2. /\ s.reads[c.read].phase = "live"
        /\ c.index # 0 => /\ s.holder[c.slot] = <<c.read, c.index>>
                          /\ s.reads[c.read].block[c.index] = "handed"
    BY DEF Held
  <2>3. z.reads[c.read].phase = s.reads[c.read].phase
    BY <1>2, <2>1 DEF Grows
  <2> QED
    BY <1>3, <1>4, <2>1, <2>2, <2>3
<1> QED
  BY <1>1, <1>3, <1>7, <1>8, <1>9, <1>10, <1>11, ZenonT(30) DEF Held

LEMMA AllotLeavesNoneIdle ==
    ASSUME NEW s \in ReadStore, NEW g \in Allotments(s), NEW z \in ReadStore, Allots(s, z, g)
    PROVE  FreeSlots(z) = {} \/ Wanted(z) = {}
<1>1. s.reads \in [Ids -> Read] /\ z.reads \in [Ids -> Read]
  BY StoreFields
<1> SUFFICES ASSUME NEW w \in FreeSlots(z), NEW b \in Wanted(z) PROVE FALSE
  OBVIOUS
<1>2. PICK r \in Ids, i \in Idx : b = <<r, i>>
  BY <1>1, WantedType
<1>3. /\ z.reads[r].phase = "live" /\ ~z.reads[r].err
      /\ i \in z.reads[r].assigned + 1 .. Total[z.reads[r].key]
  BY <1>1, <1>2, WantedIs
<1>4. Grows(s, z, g, r) /\ GivesTo(s, g, r)
  BY <1>1, GrowsAll, Gives
<1>5. s.reads[r].assigned \in Nat /\ Got(g, r) \in Nat /\ i \in Nat /\ Total[z.reads[r].key] \in Nat
  BY <1>1, <1>4, ReadFields DEF Grows, Idx
<1>6. <<r, i>> \in Wanted(s)
  <2>1. /\ s.reads[r].phase = "live" /\ ~s.reads[r].err
        /\ i \in s.reads[r].assigned + 1 .. Total[s.reads[r].key]
    BY <1>3, <1>4, <1>5 DEF Grows
  <2> QED
    BY <1>1, <2>1, WantedIs
<1>7. w \in ReadSlots /\ w \in FreeSlots(s) /\ g[w] = Nobody
  <2>1. w \in ReadSlots /\ z.holder[w] = Nobody
    BY DEF FreeSlots
  <2> QED
    BY <2>1 DEF Allots, FreeSlots
<1>8. <<r, i>> \in Given(g)
  BY <1>1, <1>6, <1>7, AllotmentIs
<1>9. i <= s.reads[r].assigned + Got(g, r)
  BY <1>4, <1>5, <1>8 DEF GivesTo, BlocksFor
<1> QED
  BY <1>3, <1>4, <1>5, <1>9 DEF Grows

LEMMA AssignKeepsGood ==
    ASSUME NEW s, NEW C, Good(s, C), AllSettled(s), NEW z \in Assign(s)
    PROVE  Good(z, C) /\ AllSettled(z) /\ NoneIdle(z)
<1>1. s \in ReadStore /\ Held(s, C) /\ Counted(s) /\ PointsPinned(s)
  BY DEF Good
<1>2. PICK g \in Allotments(s) : z = Allot(s, g)
  BY DEF Assign
<1>3. z \in ReadStore /\ Allots(s, z, g)
  BY <1>1, <1>2, AllotIs
<1>4. Held(z, C)
  BY <1>1, <1>3, AllotKeepsHeld
<1>5. \A r \in Ids : Grows(s, z, g, r)
  BY <1>1, <1>3, GrowsAll
<1>6. Counted(z) /\ PointsPinned(z)
  <2>1. \A r \in Ids : CountsAlike(z.reads[r], s.reads[r])
    BY <1>5 DEF Grows, CountsAlike, HasSmall
  <2>2. z.small = s.small /\ z.pins = s.pins /\ z.reading = s.reading /\ z.point = s.point
    BY <1>3 DEF Allots
  <2> QED
    BY <1>1, <2>1, <2>2, CountsKept
<1>7. AllSettled(z)
  <2> SUFFICES ASSUME NEW r \in Ids, z.reads[r].phase = "ended" PROVE z.reads[r].disk # 0
    BY DEF AllSettled, Settled
  <2>1. Grows(s, z, g, r)
    BY <1>5
  <2>2. s.reads[r].phase = "ended" /\ s.reads[r].disk # 0 /\ s.reads[r].disk \in Nat
    BY <2>1, ReadFields DEF Grows, AllSettled, Settled
  <2> QED
    BY <2>1, <2>2 DEF Grows
<1>8. NoneIdle(z)
  BY <1>1, <1>3, AllotLeavesNoneIdle DEF NoneIdle
<1> QED
  BY <1>3, <1>4, <1>6, <1>7, <1>8 DEF Good

LEMMA FreeAndAssign ==
    ASSUME NEW s, NEW C, NEW r \in Ids, Good(s, C), \A q \in Ids \ {r} : Settled(s, q),
           NEW z \in Assign(MaybeFreeRead(s, r))
    PROVE  Good(z, C) /\ AllSettled(z) /\ NoneIdle(z)
<1>1. Good(MaybeFreeRead(s, r), C) /\ AllSettled(MaybeFreeRead(s, r))
  BY FreeingKeepsGood DEF AllSettled
<1> QED
  BY <1>1, AssignKeepsGood

-----------------------------------------------------------------------------
(* One step of a restore *)

SameRest(s, z) == z.small = s.small /\ z.point = s.point /\ z.pins = s.pins /\ z.reading = s.reading

LEMMA SettledOthers ==
    ASSUME NEW s, NEW z, NEW r, AllSettled(s), OnlyRead(s, z, r)
    PROVE  \A q \in Ids \ {r} : Settled(z, q)
BY DEF AllSettled, Settled, OnlyRead

\* Good is kept by a change of one restore that keeps what is counted.
LEMMA OneGood ==
    ASSUME NEW s, NEW z \in ReadStore, NEW C, NEW D, NEW r \in Ids, NEW B \in SUBSET Idx, Good(s, C),
           OnlyRead(s, z, r), Frees(s, z, r, B), SameRest(s, z), CountsAlike(z.reads[r], s.reads[r]),
           Consistent(s, z, r, B, D), SameOthers(C, D, r), Fits(z.reads[r]),
           z.reads[r].held = s.reads[r].held - Cardinality(SlotsOf(s, r, B))
    PROVE  Good(z, D)
<1>1. s \in ReadStore /\ Held(s, C) /\ Counted(s) /\ PointsPinned(s)
  BY DEF Good
<1>2. Touches(s, z, r, B)
  BY StoreFields DEF Touches, OnlyRead
<1>3. Held(z, D)
  BY <1>1, <1>2, OneRead
<1>4. \A q \in Ids : CountsAlike(z.reads[q], s.reads[q])
  BY DEF OnlyRead, CountsAlike
<1>5. Counted(z) /\ PointsPinned(z)
  <2>1. z.small = s.small /\ z.point = s.point /\ z.pins = s.pins /\ z.reading = s.reading
    BY DEF SameRest
  <2> QED
    BY <1>1, <1>4, <2>1, CountsKept
<1> QED
  BY <1>3, <1>5 DEF Good

\* giveRead
GivesBack(s, z, r, B) ==
    /\ z \in ReadStore /\ OnlyRead(s, z, r) /\ Frees(s, z, r, B) /\ SameRest(s, z)
    /\ z.reads[r] = [s.reads[r] EXCEPT !.held = @ - Cardinality(SlotsOf(s, r, B))]

LEMMA HeldEnough ==
    ASSUME NEW s, NEW C, Held(s, C), NEW r \in Ids, NEW B \in SUBSET Idx
    PROVE  s.reads[r].held - Cardinality(SlotsOf(s, r, B)) \in Nat
<1>1. SlotsOf(s, r, B) \subseteq SlotsOf(s, r, Idx)
  BY DEF SlotsOf
<1>2. /\ Cardinality(SlotsOf(s, r, B)) \in Nat /\ Cardinality(SlotsOf(s, r, Idx)) \in Nat
      /\ Cardinality(SlotsOf(s, r, B)) <= Cardinality(SlotsOf(s, r, Idx))
  BY <1>1, SlotsFinite, CountLess
<1>3. s.reads[r].held = Cardinality(SlotsOf(s, r, Idx))
  BY DEF Held
<1> QED
  BY <1>2, <1>3

LEMMA GiveReadIs ==
    ASSUME NEW s \in ReadStore, NEW r \in Ids, NEW B \in SUBSET Idx,
           s.reads[r].held - Cardinality(SlotsOf(s, r, B)) \in Nat
    PROVE  GivesBack(s, GiveRead(s, r, B), r, B)
<1> DEFINE z == GiveRead(s, r, B)
           n == Cardinality(SlotsOf(s, r, B))
           H == [w \in ReadSlots |-> IF w \in SlotsOf(s, r, B) THEN Nobody ELSE s.holder[w]]
           x == [s.reads[r] EXCEPT !.held = @ - n]
<1>1. s.reads[r] \in Read /\ s.reads[r].held - n \in Nat
  BY StoreFields
<1>2. H \in [ReadSlots -> (Ids \X Idx) \cup {Nobody}]
  BY StoreFields
<1>3. \A w \in ReadSlots : H[w] = IF w \in SlotsOf(s, r, B) THEN Nobody ELSE s.holder[w]
  OBVIOUS
<1>4. z = [s EXCEPT !.holder = H, !.reads[r].held = @ - n]
  BY DEF GiveRead
<1> HIDE DEF n, H, z
<1>5. x \in Read
  BY <1>1 DEF Read
<1>6. z.holder = H /\ z.reads = [s.reads EXCEPT ![r] = x] /\ SameRest(s, z)
  BY <1>4 DEF ReadStore, SameRest
<1> HIDE DEF x
<1>7. z.reads \in [Ids -> Read] /\ z.reads[r] = x /\ OnlyRead(s, z, r)
  BY <1>5, <1>6, StoreFields DEF OnlyRead
<1>8. z \in ReadStore
  BY <1>2, <1>4, <1>6, <1>7 DEF ReadStore
<1>9. Frees(s, z, r, B)
  BY <1>2, <1>3, <1>6 DEF Frees
<1> QED
  BY <1>6, <1>7, <1>8, <1>9 DEF GivesBack, x, n, z

\* A change of one restore's record, no more.
Put(s, r, x) == [s EXCEPT !.reads[r] = x]
PutsRead(s, z, r, x) == z \in ReadStore /\ OnlyRead(s, z, r) /\ SameRest(s, z) /\ z.holder = s.holder /\ z.reads[r] = x

LEMMA RecordPut ==
    ASSUME NEW s \in ReadStore, NEW r \in Ids, NEW x \in Read
    PROVE  PutsRead(s, Put(s, r, x), r, x)
<1> DEFINE z == Put(s, r, x)
<1>4. z = [s EXCEPT !.reads[r] = x]
  BY DEF Put
<1> HIDE DEF z
<1>1. z.reads = [s.reads EXCEPT ![r] = x] /\ z.holder = s.holder /\ SameRest(s, z)
  BY <1>4 DEF ReadStore, SameRest
<1>2. z.reads \in [Ids -> Read] /\ z.reads[r] = x /\ OnlyRead(s, z, r)
  BY <1>1, StoreFields DEF OnlyRead
<1>3. z \in ReadStore
  BY <1>1, <1>2, <1>4 DEF ReadStore
<1> QED
  BY <1>1, <1>2, <1>3 DEF PutsRead, z

-----------------------------------------------------------------------------
(* A block is lost: not read, or not read right *)

Lost(s, z, r, i) ==
    /\ z \in ReadStore /\ OnlyRead(s, z, r) /\ Frees(s, z, r, {i}) /\ SameRest(s, z)
    /\ LET x == s.reads[r]
           y == z.reads[r]
       IN /\ y.phase = x.phase /\ y.key = x.key /\ y.assigned = x.assigned /\ y.handed = x.handed
          /\ y.small = x.small /\ y.disk = x.disk - 1
          /\ y.held = x.held - Cardinality(SlotsOf(s, r, {i}))
          /\ y.block[i] = "failed" /\ \A j \in Idx \ {i} : y.block[j] = x.block[j]

LEMMA PendingInUse ==
    ASSUME NEW x \in Read, Fits(x), NEW i \in Idx, x.block[i] # "idle"
    PROVE  x.phase \in {"live", "ended"}
<1>1. i > 0 /\ i \in Nat /\ x.assigned \in Nat
  BY ReadFields DEF Idx
<1>2. ~(i > x.assigned)
  BY DEF Fits
<1>3. x.assigned # 0
  BY <1>1, <1>2
<1> QED
  BY <1>3, ReadFields DEF Fits, Phases

LEMMA LostGood ==
    ASSUME NEW s, NEW C, Good(s, C), NEW r \in Ids, NEW i \in Idx, s.reads[r].block[i] \in Pending,
           NEW z, Lost(s, z, r, i)
    PROVE  Good(z, C)
<1> DEFINE x == s.reads[r]
           y == z.reads[r]
<1>1. /\ z \in ReadStore /\ OnlyRead(s, z, r) /\ Frees(s, z, r, {i}) /\ SameRest(s, z)
      /\ y.phase = x.phase /\ y.key = x.key /\ y.assigned = x.assigned /\ y.handed = x.handed
      /\ y.small = x.small /\ y.disk = x.disk - 1
      /\ y.held = x.held - Cardinality(SlotsOf(s, r, {i}))
      /\ y.block[i] = "failed" /\ \A j \in Idx \ {i} : y.block[j] = x.block[j]
  BY DEF Lost
<1>2. s \in ReadStore /\ Held(s, C)
  BY DEF Good
<1>3. x \in Read /\ y \in Read /\ Fits(x)
  BY <1>1, <1>2, StoreFields DEF Held
<1> HIDE DEF y
<1>4. x.block \in [Idx -> BState] /\ y.block \in [Idx -> BState]
  BY <1>3, ReadFields
<1>5. Fits(y)
  <2>1. x.block[i] # "idle" /\ x.block[i] # "handed" /\ x.block[i] # "ready"
    BY DEF Pending
  <2>2. /\ \A j \in Idx : y.block[j] = "idle" <=> x.block[j] = "idle"
        /\ \A j \in Idx : y.block[j] = "handed" <=> x.block[j] = "handed"
        /\ \A j \in Idx : y.block[j] = "ready" <=> x.block[j] = "ready"
    BY <1>1, <2>1
  <2>3. y.phase \in {"live", "ended"} => y.disk = Cardinality(AskedOf(y)) + SmallTask(y)
    <3>1. Cardinality(AskedOf(y)) = Cardinality(AskedOf(x)) - 1 /\ Cardinality(AskedOf(x)) > 0
      <4>1. y.block[i] \notin Pending /\ \A j \in Idx \ {i} : x.block[j] \in Pending <=> y.block[j] \in Pending
        BY <1>1 DEF Pending
      <4> QED
        BY <1>4, <4>1, OneTaskLess
    <3>2. Cardinality(AskedOf(x)) \in Nat /\ SmallTask(y) = SmallTask(x) /\ SmallTask(x) \in Nat
      BY <1>1, <1>4, Asked DEF SmallTask
    <3>3. y.phase \in {"live", "ended"} => x.disk = Cardinality(AskedOf(x)) + SmallTask(x)
      BY <1>1, <1>3 DEF Fits
    <3> QED
      BY <1>1, <3>1, <3>2, <3>3
  <2> QED
    BY <1>1, <1>3, <2>2, <2>3 DEF Fits
<1>6. Consistent(s, z, r, {i}, C)
  <2>1. \A j \in Idx : y.block[j] \in Uses => j # i /\ x.block[j] \in Uses
    BY <1>1 DEF Uses
  <2>2. ASSUME NEW j \in Idx \ {i}, NEW w \in ReadSlots, s.holder[w] = <<r, j>>
        PROVE  y.block[j] \in Uses \/ \E c \in C : c.read = r /\ c.index = j
    BY <1>1, <1>2, <2>2 DEF Held
  <2>3. ASSUME NEW c \in C, c.read = r
        PROVE  /\ y.phase = "live"
               /\ c.index # 0 => /\ c.index # i /\ s.holder[c.slot] = <<r, c.index>>
                                 /\ y.block[c.index] = "handed"
    <3>1. /\ x.phase = "live"
          /\ c.index # 0 => /\ s.holder[c.slot] = <<r, c.index>> /\ x.block[c.index] = "handed"
      BY <1>2, <2>3 DEF Held
    <3>2. c.index # 0 => c.index \in Idx
      BY <1>2, CopyIs DEF Held
    <3> QED
      BY <1>1, <3>1, <3>2 DEF Pending
  <2> QED
    BY <2>1, <2>2, <2>3 DEF Consistent, y
<1>7. SameOthers(C, C, r)
  BY <1>2 DEF SameOthers, Held
<1>8. CountsAlike(y, x)
  BY <1>1 DEF CountsAlike, HasSmall
<1> QED
  BY <1>1, <1>5, <1>6, <1>7, <1>8, OneGood DEF y

\* readTake of a block whose restore ended or failed.
LEMMA SkippedIsLost ==
    ASSUME NEW s, NEW C, Good(s, C), NEW r \in Ids, NEW i \in Idx, s.reads[r].block[i] \in Pending, NEW z,
           z = [GiveRead(s, r, {i}) EXCEPT !.reads[r].block[i] = "failed", !.reads[r].disk = @ - 1]
    PROVE  Lost(s, z, r, i)
<1> DEFINE g == GiveRead(s, r, {i})
           n == Cardinality(SlotsOf(s, r, {i}))
           x == [s.reads[r] EXCEPT !.held = @ - n]
           y == [x EXCEPT !.block[i] = "failed", !.disk = @ - 1]
<1>1. s \in ReadStore /\ Held(s, C) /\ s.reads[r] \in Read /\ Fits(s.reads[r])
  BY StoreFields DEF Good, Held
<1>2. s.reads[r].held - n \in Nat
  BY <1>1, HeldEnough
<1>3. GivesBack(s, g, r, {i})
  BY <1>1, <1>2, GiveReadIs
<1>4. s.reads[r].disk - 1 \in Nat
  <2>1. s.reads[r].phase \in {"live", "ended"}
    BY <1>1, PendingInUse DEF Pending
  <2>2. /\ s.reads[r].disk = Cardinality(AskedOf(s.reads[r])) + SmallTask(s.reads[r])
        /\ s.reads[r].block \in [Idx -> BState]
    BY <1>1, <2>1, ReadFields DEF Fits
  <2>3. Cardinality(AskedOf(s.reads[r])) \in Nat /\ Cardinality(AskedOf(s.reads[r])) # 0
    BY <2>2, Asked
  <2> QED
    BY <2>2, <2>3 DEF SmallTask
<1>5. /\ g \in ReadStore /\ OnlyRead(s, g, r) /\ Frees(s, g, r, {i}) /\ SameRest(s, g)
      /\ g.reads[r] = x
  BY <1>3 DEF GivesBack
<1>11. z = [g EXCEPT !.reads[r].block[i] = "failed", !.reads[r].disk = @ - 1]
  BY DEF g
<1> HIDE DEF g, n
<1>6. x \in Read /\ y \in Read
  BY <1>1, <1>2, <1>4 DEF Read, BState
<1>7. /\ y.phase = s.reads[r].phase /\ y.key = s.reads[r].key /\ y.assigned = s.reads[r].assigned
      /\ y.handed = s.reads[r].handed /\ y.small = s.reads[r].small /\ y.disk = s.reads[r].disk - 1
      /\ y.held = s.reads[r].held - n
      /\ y.block[i] = "failed" /\ \A j \in Idx \ {i} : y.block[j] = s.reads[r].block[j]
  BY <1>1 DEF Read
<1> HIDE DEF x
<1>8. z = Put(g, r, y)
  <2>1. g.reads[r] = x
    BY <1>5
  <2>2. [g EXCEPT !.reads[r].block[i] = "failed", !.reads[r].disk = @ - 1]
           = Put(g, r, [g.reads[r] EXCEPT !.block[i] = "failed", !.disk = @ - 1])
    BY DEF Put
  <2>3. z = Put(g, r, [g.reads[r] EXCEPT !.block[i] = "failed", !.disk = @ - 1])
    BY <1>11, <2>2, Zenon
  <2> QED
    BY <2>1, <2>3, Zenon
<1> HIDE DEF y
<1>9. z \in ReadStore /\ OnlyRead(g, z, r) /\ SameRest(g, z) /\ z.holder = g.holder /\ z.reads[r] = y
  <2>1. PutsRead(g, Put(g, r, y), r, y)
    BY <1>5, <1>6, RecordPut
  <2> QED
    BY <1>8, <2>1 DEF PutsRead
<1>10. OnlyRead(s, z, r) /\ SameRest(s, z) /\ Frees(s, z, r, {i})
  BY <1>5, <1>9 DEF OnlyRead, SameRest, Frees
<1> QED
  BY <1>7, <1>9, <1>10 DEF Lost, n

\* A pending block is counted among its restore's tasks.
LEMMA PendingCounted ==
    ASSUME NEW x \in Read, Fits(x), NEW i \in Idx, x.block[i] \in Pending
    PROVE  x.disk - 1 \in Nat /\ x.phase \in {"live", "ended"}
<1>1. x.phase \in {"live", "ended"}
  BY PendingInUse DEF Pending
<1>2. x.disk = Cardinality(AskedOf(x)) + SmallTask(x) /\ x.block \in [Idx -> BState]
  BY <1>1, ReadFields DEF Fits
<1>3. Cardinality(AskedOf(x)) \in Nat /\ Cardinality(AskedOf(x)) # 0
  BY <1>2, Asked
<1> QED
  BY <1>1, <1>2, <1>3 DEF SmallTask

\* readDone of a block that was not read right: its slot is given back.
LessDisk(s, r) == [s EXCEPT !.reads[r].disk = @ - 1]
ReadFailed(s, r, i) == [GiveRead(LessDisk(s, r), r, {i}) EXCEPT !.reads[r].block[i] = "failed"]

LEMMA LessDiskIs ==
    ASSUME NEW s \in ReadStore, NEW r \in Ids, s.reads[r].disk - 1 \in Nat
    PROVE  PutsRead(s, LessDisk(s, r), r, [s.reads[r] EXCEPT !.disk = @ - 1])
<1> DEFINE x == [s.reads[r] EXCEPT !.disk = @ - 1]
<1>1. x \in Read
  BY StoreFields DEF Read
<1>2. LessDisk(s, r) = Put(s, r, x)
  BY DEF LessDisk, Put
<1> HIDE DEF x
<1>3. PutsRead(s, Put(s, r, x), r, x)
  BY <1>1, RecordPut
<1> QED
  BY <1>2, <1>3 DEF x

LEMMA FailedIsLost ==
    ASSUME NEW s, NEW C, Good(s, C), NEW r \in Ids, NEW i \in Idx, s.reads[r].block[i] \in Pending
    PROVE  /\ Lost(s, ReadFailed(s, r, i), r, i)
           /\ ReadFailed(s, r, i).reads[r].err = s.reads[r].err
<1> DEFINE z == ReadFailed(s, r, i)
           d == LessDisk(s, r)
           g == GiveRead(d, r, {i})
           n == Cardinality(SlotsOf(s, r, {i}))
           x == [s.reads[r] EXCEPT !.disk = @ - 1]
           u == [x EXCEPT !.held = @ - n]
           y == [u EXCEPT !.block[i] = "failed"]
<1>1. s \in ReadStore /\ Held(s, C) /\ s.reads[r] \in Read /\ Fits(s.reads[r])
  BY StoreFields DEF Good, Held
<1>2. s.reads[r].held - n \in Nat /\ s.reads[r].disk - 1 \in Nat
  BY <1>1, HeldEnough, PendingCounted
<1>3. d \in ReadStore /\ OnlyRead(s, d, r) /\ SameRest(s, d) /\ d.holder = s.holder /\ d.reads[r] = x
  <2>1. PutsRead(s, d, r, x)
    BY <1>1, <1>2, LessDiskIs
  <2> QED
    BY <2>1 DEF PutsRead
<1>4. SlotsOf(d, r, {i}) = SlotsOf(s, r, {i})
  BY <1>3 DEF SlotsOf
<1>5. x.held - n \in Nat /\ x \in Read /\ u \in Read /\ y \in Read
  BY <1>1, <1>2 DEF Read, BState
<1>6. /\ y.phase = s.reads[r].phase /\ y.key = s.reads[r].key /\ y.assigned = s.reads[r].assigned
      /\ y.handed = s.reads[r].handed /\ y.small = s.reads[r].small /\ y.disk = s.reads[r].disk - 1
      /\ y.held = s.reads[r].held - n /\ y.err = s.reads[r].err
      /\ y.block[i] = "failed" /\ \A j \in Idx \ {i} : y.block[j] = s.reads[r].block[j]
  BY <1>1 DEF Read
<1>7. z = [g EXCEPT !.reads[r].block[i] = "failed"]
  BY DEF ReadFailed
<1> HIDE DEF z, d, n, x
<1>8. g \in ReadStore /\ OnlyRead(d, g, r) /\ Frees(d, g, r, {i}) /\ SameRest(d, g) /\ g.reads[r] = u
  <2>1. d.reads[r].held - Cardinality(SlotsOf(d, r, {i})) \in Nat
    BY <1>3, <1>4, <1>5 DEF n
  <2>2. GivesBack(d, GiveRead(d, r, {i}), r, {i})
    BY <1>3, <2>1, GiveReadIs
  <2> QED
    BY <1>3, <1>4, <2>2 DEF GivesBack, n
<1> HIDE DEF g, u
<1>9. z = Put(g, r, y)
  <2>1. [g EXCEPT !.reads[r].block[i] = "failed"] = Put(g, r, [g.reads[r] EXCEPT !.block[i] = "failed"])
    BY DEF Put
  <2>2. z = Put(g, r, [g.reads[r] EXCEPT !.block[i] = "failed"])
    BY <1>7, <2>1, Zenon
  <2>3. g.reads[r] = u
    BY <1>8
  <2> QED
    BY <2>2, <2>3, Zenon
<1> HIDE DEF y
<1>10. z \in ReadStore /\ OnlyRead(g, z, r) /\ SameRest(g, z) /\ z.holder = g.holder /\ z.reads[r] = y
  <2>1. PutsRead(g, Put(g, r, y), r, y)
    BY <1>5, <1>8, RecordPut
  <2> QED
    BY <1>9, <2>1 DEF PutsRead
<1>11. OnlyRead(s, z, r) /\ SameRest(s, z)
  BY <1>3, <1>8, <1>10 DEF OnlyRead, SameRest
<1>12. Frees(s, z, r, {i})
  <2>1. Frees(d, g, r, {i}) /\ z.holder = g.holder /\ d.holder = s.holder
    BY <1>3, <1>8, <1>10
  <2> QED
    BY <1>4, <2>1 DEF Frees
<1>13. Lost(s, z, r, i)
  BY <1>6, <1>10, <1>11, <1>12 DEF Lost, n
<1> QED
  BY <1>6, <1>10, <1>13 DEF z

\* The same with the restore marked failed.
LEMMA MarkedIsLost ==
    ASSUME NEW s, NEW f, NEW r \in Ids, NEW i \in Idx, Lost(s, f, r, i), NEW z, z = [f EXCEPT !.reads[r].err = TRUE]
    PROVE  Lost(s, z, r, i) /\ z.reads[r].err = TRUE
<1> DEFINE x == [f.reads[r] EXCEPT !.err = TRUE]
<1>1. /\ f \in ReadStore /\ OnlyRead(s, f, r) /\ Frees(s, f, r, {i}) /\ SameRest(s, f)
      /\ f.reads[r] \in Read
  BY StoreFields DEF Lost
<1>2. /\ x \in Read /\ x.err = TRUE
      /\ x.phase = f.reads[r].phase /\ x.key = f.reads[r].key /\ x.assigned = f.reads[r].assigned
      /\ x.handed = f.reads[r].handed /\ x.small = f.reads[r].small /\ x.disk = f.reads[r].disk
      /\ x.held = f.reads[r].held /\ x.block = f.reads[r].block
  BY <1>1 DEF Read
<1>3. z = Put(f, r, x)
  BY DEF Put
<1> HIDE DEF x
<1>4. z \in ReadStore /\ OnlyRead(f, z, r) /\ SameRest(f, z) /\ z.holder = f.holder /\ z.reads[r] = x
  <2>1. PutsRead(f, Put(f, r, x), r, x)
    BY <1>1, <1>2, RecordPut
  <2> QED
    BY <1>3, <2>1 DEF PutsRead
<1>5. OnlyRead(s, z, r) /\ SameRest(s, z) /\ Frees(s, z, r, {i})
  BY <1>1, <1>4 DEF OnlyRead, SameRest, Frees
<1> QED
  BY <1>2, <1>4, <1>5 DEF Lost

-----------------------------------------------------------------------------
(* A record changes and no slot does *)

LEMMA PutGood ==
    ASSUME NEW s, NEW C, NEW D, Good(s, C), NEW r \in Ids, NEW y \in Read, Fits(y),
           CountsAlike(y, s.reads[r]), y.held = s.reads[r].held,
           Consistent(s, Put(s, r, y), r, {}, D), SameOthers(C, D, r)
    PROVE  Good(Put(s, r, y), D) /\ OnlyRead(s, Put(s, r, y), r) /\ Put(s, r, y).reads[r] = y
<1> DEFINE z == Put(s, r, y)
<1>1. s \in ReadStore
  BY DEF Good
<1>2. PutsRead(s, z, r, y)
  BY <1>1, RecordPut
<1> HIDE DEF z
<1>3. /\ z \in ReadStore /\ OnlyRead(s, z, r) /\ SameRest(s, z) /\ z.holder = s.holder /\ z.reads[r] = y
  BY <1>2 DEF PutsRead
<1>4. Frees(s, z, r, {})
  BY <1>1, <1>3, StoreFields, FreesNone
<1>5. z.reads[r].held = s.reads[r].held - Cardinality(SlotsOf(s, r, {}))
  <2>1. s.reads[r].held \in Nat
    BY <1>1, StoreFields, ReadFields
  <2> QED
    BY <1>3, <2>1, NoSlotOf
<1>6. Consistent(s, z, r, {}, D)
  BY DEF z
<1>7. Fits(z.reads[r]) /\ CountsAlike(z.reads[r], s.reads[r])
  BY <1>3
<1>8. Good(z, D)
  BY <1>3, <1>4, <1>5, <1>6, <1>7, OneGood
<1> QED
  BY <1>3, <1>8 DEF z

\* The blocks in use are the same, and so are those handed out.
SameUse(x, y) ==
    /\ y.phase = x.phase
    /\ \A i \in Idx : y.block[i] \in Uses <=> x.block[i] \in Uses
    /\ \A i \in Idx : y.block[i] = "handed" <=> x.block[i] = "handed"

LEMMA SameUseIsConsistent ==
    ASSUME NEW s, NEW C, Good(s, C), NEW r \in Ids, NEW y \in Read, SameUse(s.reads[r], y)
    PROVE  Consistent(s, Put(s, r, y), r, {}, C) /\ SameOthers(C, C, r)
<1>1. s \in ReadStore /\ Held(s, C)
  BY DEF Good
<1>2. Put(s, r, y).reads[r] = y
  BY <1>1, RecordPut DEF PutsRead
<1>3. \A i \in Idx : y.block[i] \in Uses => i \notin {} /\ s.reads[r].block[i] \in Uses
  BY DEF SameUse
<1>4. \A i \in Idx : (\E w \in ReadSlots : s.holder[w] = <<r, i>>) =>
          y.block[i] \in Uses \/ \E c \in C : c.read = r /\ c.index = i
  BY <1>1 DEF Held, SameUse
<1>5. ASSUME NEW c \in C, c.read = r
      PROVE  /\ y.phase = "live"
             /\ c.index # 0 => s.holder[c.slot] = <<r, c.index>> /\ y.block[c.index] = "handed"
  <2>1. /\ s.reads[r].phase = "live"
        /\ c.index # 0 => s.holder[c.slot] = <<r, c.index>> /\ s.reads[r].block[c.index] = "handed"
    BY <1>1, <1>5 DEF Held
  <2>2. c.index # 0 => c.index \in Idx
    BY <1>1, CopyIs DEF Held
  <2> QED
    BY <2>1, <2>2 DEF SameUse
<1>6. SameOthers(C, C, r)
  BY <1>1 DEF SameOthers, Held
<1> QED
  BY <1>2, <1>3, <1>4, <1>5, <1>6 DEF Consistent

LEMMA AlikeGood ==
    ASSUME NEW s, NEW C, Good(s, C), NEW r \in Ids, NEW y \in Read, Fits(y),
           SameUse(s.reads[r], y), CountsAlike(y, s.reads[r]), y.held = s.reads[r].held
    PROVE  Good(Put(s, r, y), C) /\ OnlyRead(s, Put(s, r, y), r) /\ Put(s, r, y).reads[r] = y
BY SameUseIsConsistent, PutGood

\* No slot gets free, no restore asks for another block: no slot idles.
LEMMA IdleKept ==
    ASSUME NEW s \in ReadStore, NEW r \in Ids, NEW y \in Read, NoneIdle(s),
           y.phase = s.reads[r].phase, y.key = s.reads[r].key, y.assigned = s.reads[r].assigned,
           s.reads[r].err => y.err
    PROVE  NoneIdle(Put(s, r, y))
<1> DEFINE z == Put(s, r, y)
<1>1. PutsRead(s, z, r, y)
  BY RecordPut
<1> HIDE DEF z
<1>2. z \in ReadStore /\ OnlyRead(s, z, r) /\ z.holder = s.holder /\ z.reads[r] = y
  BY <1>1 DEF PutsRead
<1>3. FreeSlots(z) = FreeSlots(s)
  BY <1>2 DEF FreeSlots
<1>4. Wanted(z) \subseteq Wanted(s)
  <2> SUFFICES ASSUME NEW b \in Wanted(z) PROVE b \in Wanted(s)
    OBVIOUS
  <2>1. z.reads \in [Ids -> Read] /\ s.reads \in [Ids -> Read]
    BY <1>2, StoreFields
  <2>2. PICK q \in Ids, i \in Idx : b = <<q, i>>
    BY <2>1, WantedType
  <2>3. /\ z.reads[q].phase = "live" /\ ~z.reads[q].err
        /\ i \in z.reads[q].assigned + 1 .. Total[z.reads[q].key]
    BY <2>1, <2>2, WantedIs
  <2>4. /\ s.reads[q].phase = "live" /\ ~s.reads[q].err
        /\ i \in s.reads[q].assigned + 1 .. Total[s.reads[q].key]
    BY <1>2, <2>3 DEF OnlyRead
  <2> QED
    BY <2>1, <2>2, <2>4, WantedIs
<1>5. (\E q \in LiveReads(s) : s.reads[q].err) => \E q \in LiveReads(z) : z.reads[q].err
  BY <1>2 DEF LiveReads, OnlyRead
<1> QED
  BY <1>3, <1>4, <1>5 DEF NoneIdle, z

LEMMA FitsAs ==
    ASSUME NEW x, NEW y, Fits(x), y.phase = x.phase, y.key = x.key, y.assigned = x.assigned, y.handed = x.handed,
           y.small = x.small,
           \A i \in Idx : y.block[i] = "idle" <=> x.block[i] = "idle",
           \A i \in Idx : y.block[i] = "handed" <=> x.block[i] = "handed",
           y.phase \in {"live", "ended"} => y.disk = Cardinality(AskedOf(y)) + SmallTask(y),
           y.phase = "ended" => \A i \in Idx : y.block[i] # "ready"
    PROVE  Fits(y)
BY DEF Fits

\* A restore's record after a step that moves no slot.
Alike(x, y) ==
    /\ SameUse(x, y) /\ CountsAlike(y, x) /\ y.held = x.held /\ y.assigned = x.assigned
    /\ x.err => y.err
    /\ y.phase = "ended" => y.disk # 0

LEMMA AlikeStep ==
    ASSUME NEW s, NEW C, Keeps(s, C), NEW r \in Ids, NEW y \in Read, Fits(y), Alike(s.reads[r], y)
    PROVE  Keeps(Put(s, r, y), C) /\ OnlyRead(s, Put(s, r, y), r) /\ Put(s, r, y).reads[r] = y
<1>1. Good(s, C) /\ s \in ReadStore
  BY DEF Keeps, Good
<1>2. SameUse(s.reads[r], y) /\ CountsAlike(y, s.reads[r]) /\ y.held = s.reads[r].held
  BY DEF Alike
<1>3. Good(Put(s, r, y), C) /\ OnlyRead(s, Put(s, r, y), r) /\ Put(s, r, y).reads[r] = y
  BY <1>1, <1>2, AlikeGood
<1>4. NoneIdle(Put(s, r, y))
  <2>1. y.phase = s.reads[r].phase /\ y.key = s.reads[r].key
    BY <1>2 DEF CountsAlike
  <2>2. y.assigned = s.reads[r].assigned
    BY DEF Alike
  <2>3. s.reads[r].err => y.err
    BY Zenon DEF Alike
  <2> QED
    BY <1>1, <2>1, <2>2, <2>3, IdleKept DEF Keeps
<1>5. AllSettled(Put(s, r, y))
  <2>1. \A q \in Ids \ {r} : Settled(Put(s, r, y), q)
    BY <1>3, SettledOthers DEF Keeps
  <2>2. Settled(Put(s, r, y), r)
    <3>1. y.phase = "ended" => y.disk # 0
      BY DEF Alike
    <3> QED
      BY <1>3, <3>1 DEF Settled
  <2> QED
    BY <2>1, <2>2 DEF AllSettled
<1> QED
  BY <1>3, <1>4, <1>5 DEF Keeps

LEMMA ReadOf ==
    ASSUME NEW s, NEW C, Keeps(s, C), NEW r \in Ids
    PROVE  /\ s \in ReadStore /\ s.reads[r] \in Read /\ Fits(s.reads[r]) /\ s.reads[r].block \in [Idx -> BState]
           /\ s.reads[r].phase = "ended" => s.reads[r].disk # 0
BY StoreFields, ReadFields DEF Keeps, Good, Held, AllSettled, Settled

\* readTake of a block.
LEMMA TakenGood ==
    ASSUME NEW s, NEW C, Keeps(s, C), NEW r \in Ids, NEW i \in Idx, s.reads[r].block[i] = "queued",
           NEW z, z = [s EXCEPT !.reads[r].block[i] = "reading"]
    PROVE  Keeps(z, C) /\ OnlyRead(s, z, r) /\ z.reads[r].phase = s.reads[r].phase
<1> DEFINE x == s.reads[r]
           y == [x EXCEPT !.block[i] = "reading"]
<1>1. x \in Read /\ Fits(x) /\ (x.phase = "ended" => x.disk # 0)
  BY ReadOf
<1>2. z = Put(s, r, y)
  BY DEF Put
<1>3. /\ y \in Read /\ y.phase = x.phase /\ y.key = x.key /\ y.assigned = x.assigned /\ y.handed = x.handed
      /\ y.small = x.small /\ y.disk = x.disk /\ y.held = x.held /\ y.err = x.err
      /\ y.block[i] = "reading" /\ \A j \in Idx \ {i} : y.block[j] = x.block[j]
  BY <1>1 DEF Read, BState
<1> HIDE DEF y
<1>4. /\ \A j \in Idx : y.block[j] \in Uses <=> x.block[j] \in Uses
      /\ \A j \in Idx : y.block[j] \in Pending <=> x.block[j] \in Pending
      /\ \A j \in Idx : y.block[j] = "idle" <=> x.block[j] = "idle"
      /\ \A j \in Idx : y.block[j] = "handed" <=> x.block[j] = "handed"
      /\ \A j \in Idx : y.block[j] = "ready" <=> x.block[j] = "ready"
  BY <1>3 DEF Uses, Pending
<1>5. AskedOf(y) = AskedOf(x) /\ SmallTask(y) = SmallTask(x)
  BY <1>3, <1>4 DEF AskedOf, SmallTask
<1>6. Fits(y)
  BY <1>1, <1>3, <1>4, <1>5, FitsAs DEF Fits
<1>7. Alike(x, y)
  BY <1>1, <1>3, <1>4 DEF Alike, SameUse, CountsAlike, HasSmall
<1>8. Alike(s.reads[r], y) /\ y \in Read
  BY <1>3, <1>7
<1>9. Keeps(z, C) /\ OnlyRead(s, z, r) /\ z.reads[r] = y
  <2>1. Keeps(Put(s, r, y), C) /\ OnlyRead(s, Put(s, r, y), r) /\ Put(s, r, y).reads[r] = y
    BY <1>6, <1>8, AlikeStep, Zenon
  <2> QED
    BY <1>2, <2>1, Zenon
<1> QED
  BY <1>3, <1>9

\* readDone of a block read right, its restore still live.
LEMMA ReadyGood ==
    ASSUME NEW s, NEW C, Keeps(s, C), NEW r \in Ids, NEW i \in Idx, s.reads[r].block[i] = "reading",
           s.reads[r].phase = "live", NEW z, z = [LessDisk(s, r) EXCEPT !.reads[r].block[i] = "ready"]
    PROVE  Keeps(z, C) /\ OnlyRead(s, z, r) /\ z.reads[r].phase = s.reads[r].phase
<1> DEFINE x == s.reads[r]
           u == [x EXCEPT !.disk = @ - 1]
           y == [u EXCEPT !.block[i] = "ready"]
<1>1. s \in ReadStore /\ x \in Read /\ Fits(x) /\ x.block \in [Idx -> BState]
  BY ReadOf
<1>3. x.disk - 1 \in Nat
  BY <1>1, PendingCounted DEF Pending
<1>2. z = Put(s, r, y)
  <2> DEFINE d == LessDisk(s, r)
  <2>1. PutsRead(s, d, r, u)
    BY <1>1, <1>3, LessDiskIs
  <2>2. d.reads[r] = u /\ d = Put(s, r, u)
    BY <2>1 DEF PutsRead, Put, LessDisk
  <2> HIDE DEF d
  <2>3. [d EXCEPT !.reads[r].block[i] = "ready"] = Put(d, r, [d.reads[r] EXCEPT !.block[i] = "ready"])
    BY DEF Put
  <2>4. z = [d EXCEPT !.reads[r].block[i] = "ready"]
    BY DEF d
  <2>5. z = Put(d, r, [d.reads[r] EXCEPT !.block[i] = "ready"])
    BY <2>3, <2>4, Zenon
  <2> HIDE DEF u
  <2>6. z = Put(d, r, y)
    BY <2>2, <2>5, Zenon
  <2> HIDE DEF y
  <2>7. Put(Put(s, r, u), r, y) = Put(s, r, y)
    BY <1>1 DEF Put, ReadStore
  <2> QED
    BY <2>2, <2>6, <2>7, Zenon
<1>4. /\ y \in Read /\ y.phase = x.phase /\ y.key = x.key /\ y.assigned = x.assigned /\ y.handed = x.handed
      /\ y.small = x.small /\ y.disk = x.disk - 1 /\ y.held = x.held /\ y.err = x.err
      /\ y.block[i] = "ready" /\ \A j \in Idx \ {i} : y.block[j] = x.block[j]
  BY <1>1, <1>3 DEF Read, BState
<1> HIDE DEF y, u
<1>5. /\ \A j \in Idx : y.block[j] \in Uses <=> x.block[j] \in Uses
      /\ \A j \in Idx \ {i} : x.block[j] \in Pending <=> y.block[j] \in Pending
      /\ x.block[i] \in Pending /\ y.block[i] \notin Pending
      /\ \A j \in Idx : y.block[j] = "idle" <=> x.block[j] = "idle"
      /\ \A j \in Idx : y.block[j] = "handed" <=> x.block[j] = "handed"
  BY <1>4 DEF Uses, Pending
<1>6. y.disk = Cardinality(AskedOf(y)) + SmallTask(y)
  <2>1. y.block \in [Idx -> BState]
    BY <1>4, ReadFields
  <2>2. Cardinality(AskedOf(y)) = Cardinality(AskedOf(x)) - 1 /\ Cardinality(AskedOf(x)) \in Nat
    BY <1>1, <1>5, <2>1, OneTaskLess, Asked
  <2>3. x.disk = Cardinality(AskedOf(x)) + SmallTask(x)
    BY <1>1 DEF Fits
  <2>4. SmallTask(y) = SmallTask(x) /\ SmallTask(x) \in Nat
    BY <1>4 DEF SmallTask
  <2> QED
    BY <1>4, <2>2, <2>3, <2>4
<1>7. Fits(y)
  BY <1>1, <1>4, <1>5, <1>6, FitsAs DEF Fits
<1>8. Alike(x, y)
  BY <1>1, <1>4, <1>5 DEF Alike, SameUse, CountsAlike, HasSmall
<1>9. Alike(s.reads[r], y) /\ y \in Read
  BY <1>4, <1>8
<1>10. Keeps(z, C) /\ OnlyRead(s, z, r) /\ z.reads[r] = y
  <2>1. Keeps(Put(s, r, y), C) /\ OnlyRead(s, Put(s, r, y), r) /\ Put(s, r, y).reads[r] = y
    BY <1>7, <1>9, AlikeStep, Zenon
  <2> QED
    BY <1>2, <2>1, Zenon
<1> QED
  BY <1>4, <1>10

\* The small state of a live restore is taken, or has been read.
LEMMA SmallTaken ==
    ASSUME NEW s, NEW C, Keeps(s, C), NEW r \in Ids, s.reads[r].phase = "live", s.reads[r].small = "queued",
           NEW z, z = [s EXCEPT !.reads[r].small = "reading"]
    PROVE  Keeps(z, C) /\ OnlyRead(s, z, r) /\ z.reads[r].phase = s.reads[r].phase
<1> DEFINE x == s.reads[r]
           y == [x EXCEPT !.small = "reading"]
<1>1. s \in ReadStore /\ x \in Read /\ Fits(x)
  BY ReadOf
<1>2. z = Put(s, r, y)
  BY DEF Put
<1>3. /\ y \in Read /\ y.phase = x.phase /\ y.key = x.key /\ y.assigned = x.assigned /\ y.handed = x.handed
      /\ y.disk = x.disk /\ y.held = x.held /\ y.err = x.err /\ y.block = x.block /\ y.small = "reading"
  BY <1>1 DEF Read, Smalls
<1> HIDE DEF y
<1>4. AskedOf(y) = AskedOf(x) /\ SmallTask(y) = SmallTask(x)
  BY <1>3 DEF AskedOf, SmallTask, Pending
<1>5. Fits(y)
  BY <1>1, <1>3, <1>4 DEF Fits
<1>6. Alike(x, y)
  BY <1>3 DEF Alike, SameUse, CountsAlike, HasSmall
<1>7. Alike(s.reads[r], y) /\ y \in Read
  BY <1>3, <1>6
<1>8. Keeps(z, C) /\ OnlyRead(s, z, r) /\ z.reads[r] = y
  <2>1. Keeps(Put(s, r, y), C) /\ OnlyRead(s, Put(s, r, y), r) /\ Put(s, r, y).reads[r] = y
    BY <1>5, <1>7, AlikeStep, ZenonT(30)
  <2> QED
    BY <1>2, <2>1, Zenon
<1> QED
  BY <1>3, <1>8

ErrStays(x, e) == x.err => e
SmallDone(s, r, v, e) == [s EXCEPT !.reads[r].disk = @ - 1, !.reads[r].small = v, !.reads[r].err = e]

LEMMA SmallReadGood ==
    ASSUME NEW s, NEW C, Keeps(s, C), NEW r \in Ids, s.reads[r].phase = "live", s.reads[r].small = "reading",
           NEW v \in {"ready", "failed"}, NEW e \in BOOLEAN, ErrStays(s.reads[r], e),
           NEW z, z = SmallDone(s, r, v, e)
    PROVE  Keeps(z, C) /\ OnlyRead(s, z, r) /\ z.reads[r].phase = s.reads[r].phase
<1> DEFINE x == s.reads[r]
           u == [x EXCEPT !.disk = @ - 1, !.small = v]
           y == [u EXCEPT !.err = e]
<1>1. s \in ReadStore /\ x \in Read /\ Fits(x) /\ x.block \in [Idx -> BState] /\ x.disk \in Nat
  BY ReadOf, ReadFields
<1>2. z = Put(s, r, y)
  BY DEF Put, SmallDone
<1>3. x.disk = Cardinality(AskedOf(x)) + 1 /\ Cardinality(AskedOf(x)) \in Nat
  BY <1>1, Asked DEF Fits, SmallTask, Pending
<1>4. /\ y \in Read /\ y.phase = x.phase /\ y.key = x.key /\ y.assigned = x.assigned /\ y.handed = x.handed
      /\ y.disk = x.disk - 1 /\ y.held = x.held /\ y.block = x.block /\ y.small = v /\ y.err = e
  <2>1. x.disk - 1 \in Nat
    BY <1>1, <1>3
  <2>2. u \in Read /\ u.phase = x.phase /\ u.key = x.key /\ u.assigned = x.assigned /\ u.handed = x.handed
        /\ u.disk = x.disk - 1 /\ u.held = x.held /\ u.block = x.block /\ u.small = v
    BY <1>1, <2>1 DEF Read, Smalls
  <2> HIDE DEF u
  <2>3. /\ y \in Read /\ y.phase = u.phase /\ y.key = u.key /\ y.assigned = u.assigned /\ y.handed = u.handed
        /\ y.disk = u.disk /\ y.held = u.held /\ y.block = u.block /\ y.small = u.small
    BY <2>2 DEF Read
  <2>4. y.err = e
    BY <2>2 DEF Read
  <2> QED
    BY <2>2, <2>3, <2>4
<1> HIDE DEF y, u
<1>5. x.err => y.err
  BY <1>4, Zenon DEF ErrStays
<1>6. AskedOf(y) = AskedOf(x) /\ SmallTask(y) = 0
  BY <1>4 DEF AskedOf, SmallTask, Pending
<1>7. Fits(y)
  BY <1>1, <1>3, <1>4, <1>6 DEF Fits
<1>8. SameUse(x, y) /\ CountsAlike(y, x) /\ y.held = x.held /\ y.assigned = x.assigned /\ (y.phase = "ended" => y.disk # 0)
  BY <1>4 DEF SameUse, CountsAlike, HasSmall
<1>9. Alike(s.reads[r], y)
  BY <1>5, <1>8, Zenon DEF Alike
<1>10. Keeps(z, C) /\ OnlyRead(s, z, r) /\ z.reads[r] = y
  <2>1. Keeps(Put(s, r, y), C) /\ OnlyRead(s, Put(s, r, y), r) /\ Put(s, r, y).reads[r] = y
    BY <1>4, <1>7, <1>9, AlikeStep, Zenon
  <2> QED
    BY <1>2, <2>1, Zenon
<1> QED
  BY <1>4, <1>10
-----------------------------------------------------------------------------
(* Restores that go on *)

KeepsLive(s, z) == \A q \in Ids : s.reads[q].phase = "live" => z.reads[q].phase = "live"

LEMMA LiveAsOne ==
    ASSUME NEW s, NEW z, NEW r \in Ids, OnlyRead(s, z, r), z.reads[r].phase = s.reads[r].phase
    PROVE  KeepsLive(s, z)
BY DEF KeepsLive, OnlyRead

\* Freeing a restore that ended and giving out slots change no live one.
LEMMA Released ==
    ASSUME NEW s, NEW C, NEW r \in Ids, Good(s, C), \A q \in Ids \ {r} : Settled(s, q),
           NEW z \in Assign(MaybeFreeRead(s, r))
    PROVE  Keeps(z, C) /\ KeepsLive(s, z)
<1> DEFINE f == MaybeFreeRead(s, r)
<1>1. Good(f, C) /\ AllSettled(f) /\ s \in ReadStore
  BY FreeingKeepsGood DEF AllSettled, Good
<1>2. Keeps(z, C)
  BY FreeAndAssign DEF Keeps
<1>3. KeepsLive(s, f)
  <2>1. CASE MayFree(s, r)
    <3> DEFINE k == s.reads[r].key
               x == FreedRead(k)
    <3>1. f = [s EXCEPT !.reads[r] = x, !.pins[k] = @ - 1,
                        !.point[k] = IF s.pins[k] = 1 /\ @ = "removed" THEN "freed" ELSE @]
      BY <2>1 DEF MaybeFreeRead, MayFree, FreedRead
    <3> HIDE DEF x, k, f
    <3>2. f.reads = [s.reads EXCEPT ![r] = x]
      BY <1>1, <3>1 DEF ReadStore
    <3> QED
      BY <1>1, <2>1, <3>2, StoreFields DEF KeepsLive, MayFree
  <2>2. CASE ~MayFree(s, r)
    <3>1. f = s
      BY <2>2 DEF MaybeFreeRead, MayFree
    <3> QED
      BY <3>1 DEF KeepsLive
  <2> QED
    BY <2>1, <2>2
<1>4. KeepsLive(f, z)
  <2>1. f \in ReadStore
    BY <1>1 DEF Good
  <2>2. PICK g \in Allotments(f) : z = Allot(f, g)
    BY DEF Assign
  <2> HIDE DEF f
  <2>3. z \in ReadStore /\ Allots(f, z, g)
    BY <2>1, <2>2, AllotIs
  <2>4. \A q \in Ids : Grows(f, z, g, q)
    BY <2>1, <2>3, GrowsAll
  <2> QED
    BY <2>4 DEF Grows, KeepsLive
<1> QED
  BY <1>2, <1>3, <1>4 DEF KeepsLive

-----------------------------------------------------------------------------
(* Copies *)

LEMMA CopySame ==
    ASSUME NEW c \in Copy, NEW d \in Copy, c.index # 0, d.index = c.index, d.read = c.read, d.slot = c.slot
    PROVE  c = d
BY DEF Copy

LEMMA SmallCopyStarts ==
    ASSUME NEW s, NEW C, Keeps(s, C), NEW r \in Ids, s.reads[r].phase = "live"
    PROVE  Keeps(s, C \cup {[read |-> r, index |-> 0]})
<1> DEFINE d == [read |-> r, index |-> 0]
<1>1. d \in Copy /\ d.read = r /\ d.index = 0
  BY DEF Copy
<1> HIDE DEF d
<1>2. Held(s, C)
  BY DEF Keeps, Good
<1>3. \A w \in ReadSlots, q \in Ids, i \in Idx : s.holder[w] = <<q, i>> =>
         s.reads[q].block[i] \in Uses \/ \E c \in C \cup {d} : c.read = q /\ c.index = i
  <2>1. \A w \in ReadSlots, q \in Ids, i \in Idx : s.holder[w] = <<q, i>> =>
           s.reads[q].block[i] \in Uses \/ \E c \in C : c.read = q /\ c.index = i
    BY <1>2 DEF Held
  <2> QED
    BY <2>1
<1>4. \A c \in C \cup {d} :
         /\ s.reads[c.read].phase = "live"
         /\ c.index # 0 => s.holder[c.slot] = <<c.read, c.index>> /\ s.reads[c.read].block[c.index] = "handed"
  <2>1. \A c \in C :
           /\ s.reads[c.read].phase = "live"
           /\ c.index # 0 => s.holder[c.slot] = <<c.read, c.index>> /\ s.reads[c.read].block[c.index] = "handed"
    BY <1>2 DEF Held
  <2> QED
    BY <1>1, <2>1
<1>5. C \cup {d} \subseteq Copy
  BY <1>1, <1>2 DEF Held
<1>6. Held(s, C \cup {d})
  BY <1>2, <1>3, <1>4, <1>5 DEF Held
<1> QED
  BY <1>6 DEF Keeps, Good, d

LEMMA SmallCopyEnds ==
    ASSUME NEW s, NEW C, Keeps(s, C), NEW c \in C, c.index = 0
    PROVE  Keeps(s, C \ {c})
<1>1. Held(s, C)
  BY DEF Keeps, Good
<1>2. \A i \in Idx : i # 0
  BY DEF Idx
<1>3. \A w \in ReadSlots, r \in Ids, i \in Idx : s.holder[w] = <<r, i>> =>
         s.reads[r].block[i] \in Uses \/ \E d \in C \ {c} : d.read = r /\ d.index = i
  <2> SUFFICES ASSUME NEW w \in ReadSlots, NEW r \in Ids, NEW i \in Idx, s.holder[w] = <<r, i>>,
                      s.reads[r].block[i] \notin Uses
               PROVE  \E d \in C \ {c} : d.read = r /\ d.index = i
    OBVIOUS
  <2>1. PICK d \in C : d.read = r /\ d.index = i
    BY <1>1 DEF Held
  <2> QED
    BY <1>2, <2>1
<1>4. Held(s, C \ {c})
  BY <1>1, <1>3 DEF Held
<1> QED
  BY <1>4 DEF Keeps, Good

\* A copy of a block completed: its slot is given back.
LEMMA CopyEnds ==
    ASSUME NEW s, NEW C, Good(s, C), NEW c \in C, c.index # 0
    PROVE  LET z == GiveRead(s, c.read, {c.index}) IN
           Good(z, C \ {c}) /\ OnlyRead(s, z, c.read) /\ z.reads[c.read].phase = s.reads[c.read].phase
<1>1. s \in ReadStore /\ Held(s, C) /\ C \subseteq Copy
  BY DEF Good, Held
<1>2. c \in Copy /\ c.read \in Ids /\ c.index \in Idx /\ c.slot \in ReadSlots
  BY <1>1, CopyIs
<1> DEFINE r == c.read
           i == c.index
           z == GiveRead(s, r, {i})
           x == s.reads[r]
           n == Cardinality(SlotsOf(s, r, {i}))
           y == [x EXCEPT !.held = @ - n]
<1>3. x \in Read /\ Fits(x) /\ x.phase = "live" /\ s.holder[c.slot] = <<r, i>> /\ x.block[i] = "handed"
  BY <1>1, <1>2, StoreFields DEF Held
<1>4. x.held - n \in Nat
  BY <1>1, <1>2, HeldEnough
<1>5. GivesBack(s, z, r, {i})
  BY <1>1, <1>2, <1>4, GiveReadIs
<1>6. z \in ReadStore /\ OnlyRead(s, z, r) /\ Frees(s, z, r, {i}) /\ SameRest(s, z) /\ z.reads[r] = y
  BY <1>5 DEF GivesBack
<1> HIDE DEF z, n
<1>7. /\ y.phase = x.phase /\ y.key = x.key /\ y.assigned = x.assigned /\ y.handed = x.handed
      /\ y.small = x.small /\ y.disk = x.disk /\ y.held = x.held - n /\ y.block = x.block
  BY <1>3 DEF Read
<1> HIDE DEF y
<1>8. Fits(y)
  BY <1>3, <1>7 DEF Fits, AskedOf, SmallTask
<1>9. Consistent(s, z, r, {i}, C \ {c})
  <2>1. \A j \in Idx : y.block[j] \in Uses => j # i /\ x.block[j] \in Uses
    BY <1>3, <1>7 DEF Uses
  <2>2. ASSUME NEW j \in Idx \ {i}, NEW w \in ReadSlots, s.holder[w] = <<r, j>>
        PROVE  y.block[j] \in Uses \/ \E d \in C \ {c} : d.read = r /\ d.index = j
    <3>1. x.block[j] \in Uses \/ \E d \in C : d.read = r /\ d.index = j
      BY <1>1, <1>2, <2>2 DEF Held
    <3> QED
      BY <1>7, <3>1
  <2>3. ASSUME NEW d \in C \ {c}, d.read = r
        PROVE  /\ y.phase = "live"
               /\ d.index # 0 => /\ d.index # i /\ s.holder[d.slot] = <<r, d.index>>
                                 /\ y.block[d.index] = "handed"
    <3>1. d.index # 0 => s.holder[d.slot] = <<r, d.index>> /\ x.block[d.index] = "handed"
      BY <1>1, <2>3 DEF Held
    <3>2. d.index # 0 => d.slot \in ReadSlots
      BY <1>1, CopyIs
    <3>3. d.index # 0 => d.index # i
      <4> SUFFICES ASSUME d.index # 0, d.index = i PROVE FALSE
        OBVIOUS
      <4>1. s.holder[d.slot] = s.holder[c.slot] /\ s.holder[c.slot] # Nobody
        BY <1>2, <1>3, <3>1, NobodyIsNone
      <4>2. \A v, w \in ReadSlots : s.holder[v] = s.holder[w] /\ s.holder[v] # Nobody => v = w
        BY <1>1 DEF Held
      <4>3. d.slot = c.slot
        BY <1>2, <3>2, <4>1, <4>2
      <4>4. d \in Copy
        BY <1>1
      <4> QED
        BY <1>2, <2>3, <4>3, <4>4, CopySame
    <3> QED
      BY <1>3, <1>7, <3>1, <3>3
  <2> QED
    BY <1>6, <2>1, <2>2, <2>3 DEF Consistent
<1>10. SameOthers(C, C \ {c}, r)
  BY <1>1 DEF SameOthers
<1>11. CountsAlike(y, x)
  BY <1>7 DEF CountsAlike, HasSmall
<1>12. Good(z, C \ {c})
  <2>1. Fits(z.reads[r]) /\ CountsAlike(z.reads[r], s.reads[r]) /\ z.reads[r].held = s.reads[r].held - Cardinality(SlotsOf(s, r, {i}))
    BY <1>6, <1>7, <1>8, <1>11 DEF n
  <2> QED
    BY <1>2, <1>6, <1>9, <1>10, <2>1, OneGood
<1> QED
  BY <1>6, <1>7, <1>12 DEF z
-----------------------------------------------------------------------------
(* readReady hands out a block *)

Handed(x, i) == [x EXCEPT !.block[i] = "handed", !.handed = i]

LEMMA HandedFits ==
    ASSUME NEW x \in Read, Fits(x), NEW i \in Idx, i = x.handed + 1, x.block[i] = "ready"
    PROVE  LET y == Handed(x, i) IN
           /\ y \in Read /\ Fits(y) /\ CountsAlike(y, x) /\ y.held = x.held /\ y.assigned = x.assigned
           /\ y.key = x.key /\ y.phase = x.phase /\ y.err = x.err
           /\ y.block[i] = "handed" /\ \A j \in Idx \ {i} : y.block[j] = x.block[j]
<1> DEFINE y == Handed(x, i)
<1>1. i \in 1 .. MaxBlocks /\ i \in 0 .. MaxBlocks /\ x.block \in [Idx -> BState]
  BY ReadFields DEF Idx
<1>2. /\ y \in Read /\ y.phase = x.phase /\ y.key = x.key /\ y.assigned = x.assigned /\ y.handed = i
      /\ y.small = x.small /\ y.disk = x.disk /\ y.held = x.held /\ y.err = x.err
      /\ y.block[i] = "handed" /\ \A j \in Idx \ {i} : y.block[j] = x.block[j]
  BY <1>1 DEF Handed, Read, BState
<1> HIDE DEF y
<1>3. CountsAlike(y, x)
  BY <1>2 DEF CountsAlike, HasSmall
<1>4. AskedOf(y) = AskedOf(x) /\ SmallTask(y) = SmallTask(x)
  <2>1. \A j \in Idx : y.block[j] \in Pending <=> x.block[j] \in Pending
    BY <1>2 DEF Pending
  <2> QED
    BY <1>2, <2>1 DEF AskedOf, SmallTask
<1>5. i <= x.assigned
  <2>1. x.assigned \in Nat /\ i \in Nat
    BY <1>1, ReadFields
  <2> QED
    BY <2>1 DEF Fits
<1>6. \A j \in Idx : y.block[j] = "handed" <=> j <= i
  <2> SUFFICES ASSUME NEW j \in Idx PROVE y.block[j] = "handed" <=> j <= i
    OBVIOUS
  <2>1. x.block[j] = "handed" <=> j <= x.handed
    BY DEF Fits
  <2>2. j \in Nat /\ x.handed \in Nat /\ i = x.handed + 1
    BY ReadFields, IdsFinite
  <2>3. CASE j = i
    BY <1>2, <2>2, <2>3
  <2>4. CASE j # i
    <3>1. y.block[j] = x.block[j]
      BY <1>2, <2>4
    <3>2. j <= i <=> j <= x.handed
      BY <2>2, <2>4
    <3> QED
      BY <2>1, <3>1, <3>2
  <2> QED
    BY <2>3, <2>4
<1>7. \A j \in Idx : y.block[j] = "idle" <=> j > y.assigned
  BY <1>2 DEF Fits
<1>8. \A j \in Idx : y.block[j] = "ready" => x.block[j] = "ready"
  BY <1>2
<1>9. Fits(y)
  BY <1>2, <1>4, <1>5, <1>6, <1>7, <1>8 DEF Fits
<1> QED
  BY <1>2, <1>3, <1>9 DEF y

\* Its copy to the device starts.
LEMMA HandedOut ==
    ASSUME NEW s, NEW C, Keeps(s, C), NEW r \in Ids, NEW i \in Idx, i = s.reads[r].handed + 1,
           s.reads[r].block[i] = "ready", s.reads[r].phase = "live", NEW w \in SlotsOf(s, r, {i}), NEW d,
           d = [read |-> r, index |-> i, slot |-> w]
    PROVE  Keeps(HandOut(s, r, i), C \cup {d}) /\ OnlyRead(s, HandOut(s, r, i), r)
           /\ HandOut(s, r, i).reads[r].phase = "live" /\ d \notin C
<1> DEFINE x == s.reads[r]
           y == Handed(x, i)
           D == C \cup {d}
<1>1. s \in ReadStore /\ Good(s, C) /\ Held(s, C) /\ AllSettled(s) /\ NoneIdle(s)
  BY DEF Keeps, Good
<1>2. x \in Read /\ Fits(x)
  BY ReadOf
<1>3. /\ y \in Read /\ Fits(y) /\ CountsAlike(y, x) /\ y.held = x.held /\ y.assigned = x.assigned
      /\ y.key = x.key /\ y.phase = x.phase /\ y.err = x.err
      /\ y.block[i] = "handed" /\ \A j \in Idx \ {i} : y.block[j] = x.block[j]
  BY <1>2, HandedFits
<1>4. HandOut(s, r, i) = Put(s, r, y)
  BY DEF HandOut, Put, Handed
<1> HIDE DEF y
<1>5. w \in ReadSlots /\ s.holder[w] = <<r, i>>
  BY DEF SlotsOf
<1>6. d \in Copy /\ d.read = r /\ d.index = i /\ d.slot = w /\ i # 0
  BY <1>5 DEF Copy, Idx
<1>7. Consistent(s, Put(s, r, y), r, {}, D)
  <2>1. Put(s, r, y).reads[r] = y
    BY <1>1, <1>3, RecordPut DEF PutsRead
  <2>2. \A j \in Idx : y.block[j] \in Uses => x.block[j] \in Uses
    BY <1>3 DEF Uses
  <2>3. ASSUME NEW j \in Idx, NEW v \in ReadSlots, s.holder[v] = <<r, j>>
        PROVE  y.block[j] \in Uses \/ \E c \in D : c.read = r /\ c.index = j
    <3>1. x.block[j] \in Uses \/ \E c \in C : c.read = r /\ c.index = j
      BY <1>1, <2>3 DEF Held
    <3>2. CASE j = i
      BY <1>6, <3>2
    <3>3. CASE j # i
      BY <1>3, <3>1, <3>3
    <3> QED
      BY <3>2, <3>3
  <2>4. ASSUME NEW c \in D, c.read = r
        PROVE  /\ y.phase = "live"
               /\ c.index # 0 => s.holder[c.slot] = <<r, c.index>> /\ y.block[c.index] = "handed"
    <3>1. CASE c = d
      BY <1>3, <1>5, <1>6, <3>1
    <3>2. CASE c \in C
      <4>1. c.index # 0 => s.holder[c.slot] = <<r, c.index>> /\ x.block[c.index] = "handed"
        BY <1>1, <2>4, <3>2 DEF Held
      <4>2. c.index # 0 => c.index \in Idx
        BY <1>1, <3>2, CopyIs DEF Held
      <4> QED
        BY <1>3, <4>1, <4>2
    <3> QED
      BY <3>1, <3>2
  <2>5. \A j \in Idx : (\E v \in ReadSlots : s.holder[v] = <<r, j>>) =>
            y.block[j] \in Uses \/ \E c \in D : c.read = r /\ c.index = j
    BY <2>3
  <2> HIDE DEF D
  <2> QED
    BY <2>1, <2>2, <2>4, <2>5 DEF Consistent
<1>8. SameOthers(C, D, r)
  BY <1>1, <1>6 DEF SameOthers, Held
<1>9. d \notin C
  <2> SUFFICES ASSUME d \in C PROVE FALSE
    OBVIOUS
  <2>1. s.reads[r].block[i] = "handed"
    BY <1>1, <1>6 DEF Held
  <2> QED
    BY <2>1
<1> HIDE DEF D
<1>10. Good(Put(s, r, y), D) /\ OnlyRead(s, Put(s, r, y), r) /\ Put(s, r, y).reads[r] = y
  BY <1>1, <1>3, <1>7, <1>8, PutGood, Zenon
<1>11. NoneIdle(Put(s, r, y))
  <2>1. x.err => y.err
    BY <1>3, Zenon
  <2> QED
    BY <1>1, <1>3, <2>1, IdleKept, Zenon
<1>12. AllSettled(Put(s, r, y))
  <2>1. \A q \in Ids \ {r} : Settled(Put(s, r, y), q)
    BY <1>1, <1>10, SettledOthers
  <2>2. Settled(Put(s, r, y), r)
    BY <1>3, <1>10 DEF Settled
  <2> QED
    BY <2>1, <2>2 DEF AllSettled
<1>13. Keeps(Put(s, r, y), D)
  BY <1>10, <1>11, <1>12 DEF Keeps
<1>14. Put(s, r, y).reads[r].phase = "live"
  BY <1>3, <1>10
<1> QED
  BY <1>4, <1>9, <1>10, <1>13, <1>14, Zenon DEF D

\* Its copy cannot start: the slot goes back at once.
LEMMA HandedBack ==
    ASSUME NEW s, NEW C, Keeps(s, C), NEW r \in Ids, NEW i \in Idx, i = s.reads[r].handed + 1,
           s.reads[r].block[i] = "ready", s.reads[r].phase = "live",
           NEW z \in Release(HandOut(s, r, i), r, i)
    PROVE  Keeps(z, C) /\ KeepsLive(s, z)
<1> DEFINE h == HandOut(s, r, i)
           g == GiveRead(h, r, {i})
<1>1. \E w \in ReadSlots : s.holder[w] = <<r, i>>
  BY DEF Keeps, Good, Held, Uses
<1>2. PICK w \in SlotsOf(s, r, {i}) : TRUE
  BY <1>1, SlotsAre
<1> DEFINE d == [read |-> r, index |-> i, slot |-> w]
<1>3. d.read = r /\ d.index = i /\ i # 0
  BY DEF Idx
<1>4. Keeps(h, C \cup {d}) /\ OnlyRead(s, h, r) /\ h.reads[r].phase = "live" /\ d \notin C
  BY HandedOut
<1>5. z \in Assign(MaybeFreeRead(g, r))
  BY DEF Release
<1> HIDE DEF h, d
<1>6. Good(h, C \cup {d}) /\ AllSettled(h)
  BY <1>4 DEF Keeps
<1>7. (C \cup {d}) \ {d} = C
  BY <1>4
<1>8. LET v == GiveRead(h, d.read, {d.index}) IN
      Good(v, (C \cup {d}) \ {d}) /\ OnlyRead(h, v, d.read) /\ v.reads[d.read].phase = h.reads[d.read].phase
  <2>1. d \in C \cup {d} /\ d.index # 0
    BY <1>3
  <2> QED
    BY <1>6, <2>1, CopyEnds
<1>9. Good(g, C) /\ OnlyRead(h, g, r) /\ g.reads[r].phase = h.reads[r].phase
  BY <1>3, <1>7, <1>8, Zenon
<1> HIDE DEF g
<1>10. \A q \in Ids \ {r} : Settled(g, q)
  BY <1>6, <1>9, SettledOthers
<1>11. Keeps(z, C) /\ KeepsLive(g, z)
  BY <1>5, <1>9, <1>10, Released
<1>12. KeepsLive(s, h) /\ KeepsLive(h, g)
  BY <1>4, <1>9, LiveAsOne
<1> QED
  BY <1>11, <1>12 DEF KeepsLive

\* done, of a block's copy.
LEMMA CopyReleased ==
    ASSUME NEW s, NEW C, Keeps(s, C), NEW c \in C, c.index # 0, NEW z \in Release(s, c.read, c.index)
    PROVE  Keeps(z, C \ {c}) /\ KeepsLive(s, z)
<1> DEFINE r == c.read
           g == GiveRead(s, r, {c.index})
<1>1. Good(s, C) /\ AllSettled(s) /\ r \in Ids
  BY CopyIs DEF Keeps, Good, Held
<1>2. Good(g, C \ {c}) /\ OnlyRead(s, g, r) /\ g.reads[r].phase = s.reads[r].phase
  BY <1>1, CopyEnds
<1>3. z \in Assign(MaybeFreeRead(g, r))
  BY DEF Release
<1> HIDE DEF g, r
<1>4. \A q \in Ids \ {r} : Settled(g, q)
  BY <1>1, <1>2, SettledOthers
<1>5. Keeps(z, C \ {c}) /\ KeepsLive(g, z)
  BY <1>1, <1>2, <1>3, <1>4, Released
<1>6. KeepsLive(s, g)
  BY <1>1, <1>2, LiveAsOne
<1> QED
  BY <1>5, <1>6 DEF KeepsLive
-----------------------------------------------------------------------------
(* Readers *)

\* readTake of a block whose restore ended or failed.
LEMMA SkipBlockGood ==
    ASSUME NEW s, NEW C, Keeps(s, C), NEW r \in Ids, NEW i \in Idx, s.reads[r].block[i] = "queued",
           NEW z \in Assign(MaybeFreeRead([GiveRead(s, r, {i}) EXCEPT !.reads[r].block[i] = "failed",
                                                                   !.reads[r].disk = @ - 1], r))
    PROVE  Keeps(z, C) /\ KeepsLive(s, z)
<1> DEFINE g == [GiveRead(s, r, {i}) EXCEPT !.reads[r].block[i] = "failed", !.reads[r].disk = @ - 1]
<1>1. Good(s, C) /\ AllSettled(s) /\ s.reads[r].block[i] \in Pending
  BY DEF Keeps, Pending
<1>2. Lost(s, g, r, i)
  BY <1>1, SkippedIsLost
<1>3. z \in Assign(MaybeFreeRead(g, r))
  OBVIOUS
<1> HIDE DEF g
<1>4. Good(g, C)
  BY <1>1, <1>2, LostGood
<1>5. OnlyRead(s, g, r) /\ g.reads[r].phase = s.reads[r].phase
  BY <1>2 DEF Lost
<1>6. \A q \in Ids \ {r} : Settled(g, q)
  BY <1>1, <1>5, SettledOthers
<1>7. Keeps(z, C) /\ KeepsLive(g, z)
  BY <1>3, <1>4, <1>6, Released
<1>8. KeepsLive(s, g)
  BY <1>5, LiveAsOne
<1> QED
  BY <1>7, <1>8 DEF KeepsLive

\* readDone of a block whose restore ended.
LEMMA LateBlockGood ==
    ASSUME NEW s, NEW C, Keeps(s, C), NEW r \in Ids, NEW i \in Idx, s.reads[r].block[i] = "reading",
           NEW z \in Assign(MaybeFreeRead(ReadFailed(s, r, i), r))
    PROVE  Keeps(z, C) /\ KeepsLive(s, z)
<1> DEFINE g == ReadFailed(s, r, i)
<1>1. Good(s, C) /\ AllSettled(s) /\ s.reads[r].block[i] \in Pending
  BY DEF Keeps, Pending
<1>2. Lost(s, g, r, i)
  BY <1>1, FailedIsLost
<1> HIDE DEF g
<1>4. Good(g, C)
  BY <1>1, <1>2, LostGood
<1>5. OnlyRead(s, g, r) /\ g.reads[r].phase = s.reads[r].phase
  BY <1>2 DEF Lost
<1>6. \A q \in Ids \ {r} : Settled(g, q)
  BY <1>1, <1>5, SettledOthers
<1>7. Keeps(z, C) /\ KeepsLive(g, z)
  BY <1>4, <1>6, Released DEF g
<1>8. KeepsLive(s, g)
  BY <1>5, LiveAsOne
<1> QED
  BY <1>7, <1>8 DEF KeepsLive

\* readDone of a live restore's block that was not read right: its slot comes
\* back without assign, but the restore has failed.
LEMMA BadBlockGood ==
    ASSUME NEW s, NEW C, Keeps(s, C), NEW r \in Ids, NEW i \in Idx, s.reads[r].block[i] = "reading",
           s.reads[r].phase = "live", NEW z, z = [ReadFailed(s, r, i) EXCEPT !.reads[r].err = TRUE]
    PROVE  Keeps(z, C) /\ KeepsLive(s, z)
<1>1. Good(s, C) /\ AllSettled(s) /\ s.reads[r].block[i] \in Pending
  BY DEF Keeps, Pending
<1>2. Lost(s, ReadFailed(s, r, i), r, i)
  BY <1>1, FailedIsLost
<1>3. Lost(s, z, r, i) /\ z.reads[r].err = TRUE
  BY <1>2, MarkedIsLost
<1>4. Good(z, C)
  BY <1>1, <1>3, LostGood
<1>5. OnlyRead(s, z, r) /\ z.reads[r].phase = s.reads[r].phase
  BY <1>3 DEF Lost
<1>6. NoneIdle(z)
  <2>1. r \in LiveReads(z)
    BY <1>5 DEF LiveReads
  <2> QED
    BY <1>3, <2>1, Zenon DEF NoneIdle
<1>7. AllSettled(z)
  <2>1. \A q \in Ids \ {r} : Settled(z, q)
    BY <1>1, <1>5, SettledOthers
  <2>2. Settled(z, r)
    BY <1>5 DEF Settled
  <2> QED
    BY <2>1, <2>2 DEF AllSettled
<1>8. KeepsLive(s, z)
  BY <1>5, LiveAsOne
<1> QED
  BY <1>4, <1>6, <1>7, <1>8 DEF Keeps

-----------------------------------------------------------------------------
(* Restores begin and end *)

\* How the counts follow a restore.
Recounts(s, z, r) ==
    /\ z.small + Bit(HasSmall(z.reads[r])) = s.small + Bit(HasSmall(s.reads[r]))
    /\ \A k \in Keys : z.pins[k] + Bit(Using(s.reads[r], k)) = s.pins[k] + Bit(Using(z.reads[r], k))
    /\ \A k \in Keys : z.reading[k] + Bit(LiveUsing(s.reads[r], k)) = s.reading[k] + Bit(LiveUsing(z.reads[r], k))

LEMMA CountedAfter ==
    ASSUME NEW s, NEW z \in ReadStore, NEW r \in Ids, Counted(s), OnlyRead(s, z, r), Recounts(s, z, r)
    PROVE  Counted(z)
<1>1. Tallied(s, z, r)
  BY Counts
<1>2. /\ z.small \in 0 .. RestoreSlots /\ z.pins \in [Keys -> Nat] /\ z.reading \in [Keys -> Nat]
  BY StoreFields
<1>3. z.small + Cardinality(SmallUsers(z)) = RestoreSlots
  <2>1. s.small + Cardinality(SmallUsers(s)) = RestoreSlots /\ s.small \in 0 .. RestoreSlots
    BY DEF Counted
  <2>2. /\ Cardinality(SmallUsers(z)) = Cardinality(SmallUsers(s)) + Bit(HasSmall(z.reads[r])) - Bit(HasSmall(s.reads[r]))
        /\ Cardinality(SmallUsers(s)) \in Nat
    BY <1>1 DEF Tallied
  <2>3. z.small + Bit(HasSmall(z.reads[r])) = s.small + Bit(HasSmall(s.reads[r]))
    BY DEF Recounts
  <2> QED
    BY <1>2, <2>1, <2>2, <2>3 DEF Bit
<1>4. ASSUME NEW k \in Keys
      PROVE  z.pins[k] = Cardinality(Users(z, k)) /\ z.reading[k] = Cardinality(LiveUsers(z, k))
  <2>1. s.pins[k] = Cardinality(Users(s, k)) /\ s.reading[k] = Cardinality(LiveUsers(s, k))
    BY DEF Counted
  <2>2. /\ Cardinality(Users(z, k)) = Cardinality(Users(s, k)) + Bit(Using(z.reads[r], k)) - Bit(Using(s.reads[r], k))
        /\ Cardinality(LiveUsers(z, k)) = Cardinality(LiveUsers(s, k)) + Bit(LiveUsing(z.reads[r], k)) - Bit(LiveUsing(s.reads[r], k))
        /\ Cardinality(Users(s, k)) \in Nat /\ Cardinality(LiveUsers(s, k)) \in Nat
    BY <1>1 DEF Tallied
  <2>3. /\ z.pins[k] + Bit(Using(s.reads[r], k)) = s.pins[k] + Bit(Using(z.reads[r], k))
        /\ z.reading[k] + Bit(LiveUsing(s.reads[r], k)) = s.reading[k] + Bit(LiveUsing(z.reads[r], k))
        /\ z.pins[k] \in Nat /\ z.reading[k] \in Nat
    BY <1>2 DEF Recounts
  <2> QED
    BY <2>1, <2>2, <2>3 DEF Bit
<1> QED
  BY <1>2, <1>3, <1>4 DEF Counted

LEMMA HeldSame ==
    ASSUME NEW s, NEW z, NEW C, Held(s, C), z.reads = s.reads, z.holder = s.holder
    PROVE  Held(z, C)
<1>1. \A r : SlotsOf(z, r, Idx) = SlotsOf(s, r, Idx)
  BY DEF SlotsOf
<1>2. \A r \in Ids : s.reads[r].held = Cardinality(SlotsOf(s, r, Idx))
  BY DEF Held
<1>3. \A r \in Ids : z.reads[r].held = Cardinality(SlotsOf(z, r, Idx))
  BY <1>1, <1>2
<1>4. \A w \in ReadSlots, r \in Ids, i \in Idx : z.holder[w] = <<r, i>> =>
          z.reads[r].block[i] \in Uses \/ \E c \in C : c.read = r /\ c.index = i
  BY DEF Held
<1>5. \A c \in C : /\ z.reads[c.read].phase = "live"
                   /\ c.index # 0 => /\ z.holder[c.slot] = <<c.read, c.index>>
                                     /\ z.reads[c.read].block[c.index] = "handed"
  BY DEF Held
<1>6. /\ z.reads \in [Ids -> Read] /\ z.holder \in [ReadSlots -> (Ids \X Idx) \cup {Nobody}]
      /\ C \subseteq Copy
      /\ \A r \in Ids : Fits(z.reads[r])
      /\ \A v, w \in ReadSlots : z.holder[v] = z.holder[w] /\ z.holder[v] # Nobody => v = w
  BY DEF Held
<1>7. \A r \in Ids, i \in Idx : z.reads[r].block[i] \in Uses => \E w \in ReadSlots : z.holder[w] = <<r, i>>
  <2>1. \A r \in Ids, i \in Idx : s.reads[r].block[i] \in Uses => \E w \in ReadSlots : s.holder[w] = <<r, i>>
    BY DEF Held
  <2> QED
    BY <2>1
<1> QED
  BY <1>3, <1>4, <1>5, <1>6, <1>7, Zenon DEF Held

\* The small state of a restore that ended is not read, or was read too late.
LEMMA SmallGoneGood ==
    ASSUME NEW s, NEW C, Keeps(s, C), NEW r \in Ids, s.reads[r].phase = "ended", s.reads[r].small \in Pending,
           NEW z \in Assign(MaybeFreeRead(SmallGone(s, r), r))
    PROVE  Keeps(z, C) /\ KeepsLive(s, z)
<1> DEFINE x == s.reads[r]
           y == [x EXCEPT !.disk = @ - 1, !.small = "failed"]
           g == SmallGone(s, r)
           t == Put(s, r, y)
<1>1. /\ s \in ReadStore /\ x \in Read /\ Fits(x) /\ x.block \in [Idx -> BState]
      /\ Good(s, C) /\ Held(s, C) /\ Counted(s) /\ PointsPinned(s) /\ AllSettled(s)
  BY ReadOf DEF Keeps, Good
<1>2. x.disk = Cardinality(AskedOf(x)) + 1 /\ Cardinality(AskedOf(x)) \in Nat
  BY <1>1, Asked DEF Fits, SmallTask
<1>3. /\ y \in Read /\ y.phase = "ended" /\ y.key = x.key /\ y.assigned = x.assigned /\ y.handed = x.handed
      /\ y.disk = x.disk - 1 /\ y.held = x.held /\ y.block = x.block /\ y.small = "failed"
  <2>1. x.disk - 1 \in Nat
    BY <1>2
  <2> QED
    BY <1>1, <2>1 DEF Read, Smalls
<1>4. g = [t EXCEPT !.small = @ + 1]
  BY DEF SmallGone, Put
<1> HIDE DEF y
<1>5. AskedOf(y) = AskedOf(x) /\ SmallTask(y) = 0
  BY <1>3 DEF AskedOf, SmallTask, Pending
<1>6. Fits(y)
  BY <1>1, <1>2, <1>3, <1>5 DEF Fits
<1>7. PutsRead(s, t, r, y)
  BY <1>1, <1>3, RecordPut
<1>8. Held(t, C)
  <2>1. SameUse(s.reads[r], y)
    BY <1>3 DEF SameUse
  <2>2. Consistent(s, Put(s, r, y), r, {}, C) /\ SameOthers(C, C, r)
    BY <1>1, <1>3, <2>1, SameUseIsConsistent, Zenon
  <2> HIDE DEF t
  <2>3. t \in ReadStore /\ OnlyRead(s, t, r) /\ t.holder = s.holder /\ t.reads[r] = y
    BY <1>7 DEF PutsRead
  <2>4. Touches(s, t, r, {})
    <3>1. Frees(s, t, r, {})
      BY <1>1, <2>3, StoreFields, FreesNone
    <3> QED
      BY <2>3, <3>1, StoreFields DEF Touches, OnlyRead
  <2>5. t.reads[r].held = s.reads[r].held - Cardinality(SlotsOf(s, r, {}))
    <3>1. x.held \in Nat
      BY <1>1, ReadFields
    <3> QED
      BY <1>3, <2>3, <3>1, NoSlotOf
  <2>6. Consistent(s, t, r, {}, C)
    BY <2>2 DEF t
  <2>7. Fits(t.reads[r])
    BY <1>6, <2>3
  <2> QED
    BY <1>1, <2>2, <2>4, <2>5, <2>6, <2>7, OneRead
<1> HIDE DEF t, g
<1>9. t \in ReadStore /\ OnlyRead(s, t, r) /\ SameRest(s, t) /\ t.reads[r] = y
  BY <1>7 DEF PutsRead
<1>10. HasSmall(x) /\ ~HasSmall(y)
  BY <1>3 DEF HasSmall, Pending
<1>11. s.small < RestoreSlots /\ s.small \in Nat /\ RestoreSlots \in Nat
  <2>1. Tallied(s, t, r)
    BY <1>9, Counts
  <2>2. /\ Cardinality(SmallUsers(t)) = Cardinality(SmallUsers(s)) - 1
        /\ Cardinality(SmallUsers(s)) \in Nat /\ Cardinality(SmallUsers(t)) \in Nat
    BY <1>9, <1>10, <2>1 DEF Tallied, Bit
  <2>3. s.small + Cardinality(SmallUsers(s)) = RestoreSlots /\ s.small \in 0 .. RestoreSlots
    BY <1>1 DEF Counted
  <2> QED
    BY <2>2, <2>3, ReadAssumption
<1>12. /\ g \in ReadStore /\ g.small = s.small + 1 /\ g.reads = t.reads /\ g.holder = t.holder
       /\ g.point = s.point /\ g.pins = s.pins /\ g.reading = s.reading
  <2>1. t.small = s.small /\ t.point = s.point /\ t.pins = s.pins /\ t.reading = s.reading
    BY <1>9 DEF SameRest
  <2>2. t.small + 1 \in 0 .. RestoreSlots
    BY <1>11, <2>1
  <2> QED
    BY <1>4, <1>9, <2>1, <2>2 DEF ReadStore
<1>13. OnlyRead(s, g, r) /\ g.reads[r] = y
  BY <1>9, <1>12 DEF OnlyRead
<1>14. Counted(g)
  <2>1. \A k \in Keys : /\ Using(s.reads[r], k) <=> Using(y, k)
                        /\ ~LiveUsing(s.reads[r], k) /\ ~LiveUsing(y, k)
    BY <1>3 DEF Using, LiveUsing
  <2>2. Recounts(s, g, r)
    <3>1. g.small + Bit(HasSmall(g.reads[r])) = s.small + Bit(HasSmall(s.reads[r]))
      BY <1>10, <1>11, <1>12, <1>13 DEF Bit
    <3>2. \A k \in Keys : g.pins[k] + Bit(Using(s.reads[r], k)) = s.pins[k] + Bit(Using(g.reads[r], k))
      BY <1>12, <1>13, <2>1 DEF Bit
    <3>3. \A k \in Keys : g.reading[k] + Bit(LiveUsing(s.reads[r], k)) = s.reading[k] + Bit(LiveUsing(g.reads[r], k))
      BY <1>12, <1>13, <2>1 DEF Bit
    <3> QED
      BY <3>1, <3>2, <3>3 DEF Recounts
  <2> QED
    BY <1>1, <1>12, <1>13, <2>2, CountedAfter
<1>15. PointsPinned(g)
  BY <1>1, <1>12 DEF PointsPinned
<1>16. Held(g, C)
  BY <1>8, <1>12, HeldSame
<1>17. Good(g, C)
  BY <1>12, <1>14, <1>15, <1>16 DEF Good
<1>18. \A q \in Ids \ {r} : Settled(g, q)
  BY <1>1, <1>13, SettledOthers
<1>19. Keeps(z, C) /\ KeepsLive(g, z)
  BY <1>17, <1>18, Released DEF g
<1>20. KeepsLive(s, g)
  BY <1>13 DEF KeepsLive, OnlyRead
<1> QED
  BY <1>19, <1>20 DEF KeepsLive
\* The record of a restore after endRead.
ReadyOf(x) == {i \in Idx : x.block[i] = "ready"}
EndedRecord(x, n) ==
    [x EXCEPT !.held = @ - n, !.phase = "ended",
              !.block = [i \in Idx |-> IF i \in ReadyOf(x) THEN "failed" ELSE @[i]]]

LEMMA EndedFits ==
    ASSUME NEW x \in Read, Fits(x), x.phase = "live", NEW n \in Nat, x.held - n \in Nat
    PROVE  LET y == EndedRecord(x, n) IN
           /\ y \in Read /\ Fits(y) /\ y.phase = "ended" /\ y.key = x.key /\ y.small = x.small
           /\ y.disk = x.disk /\ y.held = x.held - n
           /\ \A i \in Idx : y.block[i] = IF x.block[i] = "ready" THEN "failed" ELSE x.block[i]
<1> DEFINE H == [i \in Idx |-> IF i \in ReadyOf(x) THEN "failed" ELSE x.block[i]]
           y == EndedRecord(x, n)
<1>1. x.block \in [Idx -> BState]
  BY ReadFields
<1>2. H \in [Idx -> BState] /\ \A i \in Idx : H[i] = IF x.block[i] = "ready" THEN "failed" ELSE x.block[i]
  BY <1>1 DEF BState, ReadyOf
<1>3. y = [x EXCEPT !.held = @ - n, !.phase = "ended", !.block = H]
  BY DEF EndedRecord
<1> HIDE DEF H, y
<1>4. /\ y \in Read /\ y.phase = "ended" /\ y.key = x.key /\ y.small = x.small /\ y.disk = x.disk
      /\ y.held = x.held - n /\ y.block = H /\ y.assigned = x.assigned /\ y.handed = x.handed
  BY <1>2, <1>3 DEF Read, Phases
<1>5. /\ \A i \in Idx : y.block[i] \in Pending <=> x.block[i] \in Pending
      /\ \A i \in Idx : y.block[i] = "idle" <=> x.block[i] = "idle"
      /\ \A i \in Idx : y.block[i] = "handed" <=> x.block[i] = "handed"
      /\ \A i \in Idx : y.block[i] # "ready"
  BY <1>2, <1>4 DEF Pending
<1>6. AskedOf(y) = AskedOf(x) /\ SmallTask(y) = SmallTask(x)
  BY <1>4, <1>5 DEF AskedOf, SmallTask
<1>7. Fits(y)
  BY <1>4, <1>5, <1>6 DEF Fits
<1> QED
  BY <1>2, <1>4, <1>7 DEF y

\* endRead of a restore with no copy on the device.
LEMMA EndedIs ==
    ASSUME NEW s \in ReadStore, NEW r \in Ids, NEW n, n = Cardinality(SlotsOf(s, r, ReadyOf(s.reads[r]))),
           s.reads[r].held - n \in Nat, s.reads[r].phase = "live", EndedRecord(s.reads[r], n) \in Read,
           NEW c \in {0, 1}, c = (IF s.reads[r].small \in {"queued", "reading"} THEN 0 ELSE 1),
           s.small + c \in 0 .. RestoreSlots, s.reading[s.reads[r].key] - 1 \in Nat
    PROVE  LET z == Ended(s, r) IN
           /\ z \in ReadStore /\ OnlyRead(s, z, r) /\ Frees(s, z, r, ReadyOf(s.reads[r]))
           /\ z.reads[r] = EndedRecord(s.reads[r], n) /\ z.small = s.small + c
           /\ z.pins = s.pins /\ z.point = s.point
           /\ z.reading = [s.reading EXCEPT ![s.reads[r].key] = @ - 1]
<1> DEFINE B == ReadyOf(s.reads[r])
           g == GiveRead(s, r, B)
           x == s.reads[r]
           k == x.key
           u == [x EXCEPT !.held = @ - n]
           y == EndedRecord(x, n)
           z == Ended(s, r)
           H == [i \in Idx |-> IF i \in B THEN "failed" ELSE x.block[i]]
<1>1. B \in SUBSET Idx /\ x \in Read /\ k \in Keys
  BY StoreFields, ReadFields DEF ReadyOf
<1>2. GivesBack(s, g, r, B)
  BY <1>1, GiveReadIs
<1>3. z = [g EXCEPT !.reads[r].phase = "ended",
                    !.reads[r].block = [i \in Idx |-> IF i \in B THEN "failed" ELSE @[i]],
                    !.small = @ + c, !.reading[k] = @ - 1]
  BY DEF Ended, ReadyOf
<1> HIDE DEF g, z, B
<1>4. /\ g \in ReadStore /\ OnlyRead(s, g, r) /\ Frees(s, g, r, B) /\ SameRest(s, g) /\ g.reads[r] = u
  BY <1>2 DEF GivesBack, B
<1>5. y = [u EXCEPT !.phase = "ended", !.block = H]
  BY <1>1 DEF EndedRecord, Read, B
<1>6. u.block = x.block
  BY <1>1 DEF Read
<1> HIDE DEF u, y
<1>7. z.reads = [g.reads EXCEPT ![r] = [g.reads[r] EXCEPT !.phase = "ended",
                                           !.block = [i \in Idx |-> IF i \in B THEN "failed" ELSE @[i]]]]
      /\ z.small = g.small + c /\ z.holder = g.holder /\ z.point = g.point /\ z.pins = g.pins
      /\ z.reading = [g.reading EXCEPT ![k] = @ - 1]
  BY <1>3, <1>4 DEF ReadStore
<1>8. [g.reads[r] EXCEPT !.phase = "ended", !.block = [i \in Idx |-> IF i \in B THEN "failed" ELSE @[i]]] = y
  BY <1>4, <1>5, <1>6
<1>9. z.reads = [g.reads EXCEPT ![r] = y]
  BY <1>7, <1>8, Zenon
<1>10. y \in Read
  BY DEF y
<1>11. z.reads \in [Ids -> Read] /\ z.reads[r] = y /\ OnlyRead(g, z, r)
  BY <1>4, <1>9, <1>10, StoreFields DEF OnlyRead
<1>12. g.small = s.small /\ g.point = s.point /\ g.pins = s.pins /\ g.reading = s.reading
  BY <1>4 DEF SameRest
<1>13. z.reading \in [Keys -> Nat]
  BY <1>1, <1>7, <1>12, StoreFields
<1>14. z \in ReadStore
  <2>1. z.small \in 0 .. RestoreSlots
    BY <1>7, <1>12
  <2> QED
    BY <1>3, <1>4, <1>7, <1>11, <1>13, <2>1 DEF ReadStore
<1>15. OnlyRead(s, z, r)
  BY <1>4, <1>11 DEF OnlyRead
<1>16. Frees(s, z, r, B)
  BY <1>4, <1>7 DEF Frees
<1>17. z.reading = [s.reading EXCEPT ![k] = @ - 1]
  BY <1>7, <1>12, Zenon
<1> QED
  BY <1>7, <1>11, <1>12, <1>14, <1>15, <1>16, <1>17 DEF z, y, B
LEMMA EndedGood ==
    ASSUME NEW s, NEW C, Keeps(s, C), NEW r \in Ids, s.reads[r].phase = "live", \A c \in C : c.read # r,
           NEW z \in Assign(MaybeFreeRead(Ended(s, r), r))
    PROVE  /\ Keeps(z, C)
           /\ \A q \in Ids \ {r} : s.reads[q].phase = "live" => z.reads[q].phase = "live"
<1> DEFINE x == s.reads[r]
           k == x.key
           B == ReadyOf(x)
           n == Cardinality(SlotsOf(s, r, B))
           y == EndedRecord(x, n)
           b == IF x.small \in {"queued", "reading"} THEN 0 ELSE 1
           g == Ended(s, r)
<1>1. /\ s \in ReadStore /\ x \in Read /\ Fits(x) /\ k \in Keys
      /\ Good(s, C) /\ Held(s, C) /\ Counted(s) /\ PointsPinned(s) /\ AllSettled(s)
  BY ReadOf, ReadFields DEF Keeps, Good
<1>2. B \in SUBSET Idx
  BY DEF ReadyOf
<1>3. x.held - n \in Nat /\ n \in Nat
  BY <1>1, <1>2, HeldEnough, SlotsFinite
<1>4. /\ y \in Read /\ Fits(y) /\ y.phase = "ended" /\ y.key = k /\ y.small = x.small
      /\ y.disk = x.disk /\ y.held = x.held - n
      /\ \A i \in Idx : y.block[i] = IF x.block[i] = "ready" THEN "failed" ELSE x.block[i]
  BY <1>1, <1>3, EndedFits
<1>5. b \in {0, 1} /\ b = 1 - Bit(HasSmall(y)) /\ HasSmall(x)
  BY <1>4 DEF Bit, HasSmall, Pending
<1>6. /\ Using(x, k) /\ Using(y, k) /\ LiveUsing(x, k) /\ ~LiveUsing(y, k)
      /\ \A j : j # k => ~Using(x, j) /\ ~Using(y, j) /\ ~LiveUsing(x, j) /\ ~LiveUsing(y, j)
  BY <1>4 DEF Using, LiveUsing
<1> HIDE DEF y, n
<1>7. s.reading[k] - 1 \in Nat /\ s.small + b \in 0 .. RestoreSlots
  <2> DEFINE t == Put(s, r, y)
  <2>1. PutsRead(s, t, r, y)
    BY <1>1, <1>4, RecordPut
  <2> HIDE DEF t
  <2>2. OnlyRead(s, t, r) /\ t.reads[r] = y
    BY <2>1 DEF PutsRead
  <2>3. Tallied(s, t, r)
    BY <2>2, Counts
  <2>4. /\ Cardinality(LiveUsers(t, k)) = Cardinality(LiveUsers(s, k)) - 1 /\ Cardinality(LiveUsers(t, k)) \in Nat
        /\ Cardinality(LiveUsers(s, k)) \in Nat
    BY <1>6, <2>2, <2>3 DEF Tallied, Bit
  <2>5. /\ Cardinality(SmallUsers(t)) = Cardinality(SmallUsers(s)) - b
        /\ Cardinality(SmallUsers(s)) \in Nat /\ Cardinality(SmallUsers(t)) \in Nat
    <3> HIDE DEF b
    <3> QED
      BY <1>5, <2>2, <2>3 DEF Tallied, Bit
  <2>6. /\ s.small + Cardinality(SmallUsers(s)) = RestoreSlots /\ s.small \in 0 .. RestoreSlots
        /\ s.reading[k] = Cardinality(LiveUsers(s, k))
    BY <1>1 DEF Counted
  <2>7. RestoreSlots \in Nat
    BY ReadAssumption
  <2> HIDE DEF b
  <2> QED
    BY <1>5, <2>4, <2>5, <2>6, <2>7
<1>8. /\ g \in ReadStore /\ OnlyRead(s, g, r) /\ Frees(s, g, r, B) /\ g.reads[r] = y /\ g.small = s.small + b
      /\ g.pins = s.pins /\ g.point = s.point /\ g.reading = [s.reading EXCEPT ![k] = @ - 1]
  BY <1>1, <1>3, <1>4, <1>5, <1>7, EndedIs, ZenonT(30) DEF y, n
<1> HIDE DEF g
<1>9. Held(g, C)
  <2>1. Touches(s, g, r, B)
    BY <1>8, StoreFields DEF Touches, OnlyRead
  <2>2. Consistent(s, g, r, B, C)
    <3>1. \A i \in Idx : y.block[i] \in Uses => i \notin B /\ x.block[i] \in Uses
      BY <1>4 DEF Uses, ReadyOf
    <3>2. \A i \in Idx \ B : x.block[i] \in Uses => y.block[i] \in Uses
      BY <1>4 DEF Uses, ReadyOf
    <3>3. \A i \in Idx : (\E w \in ReadSlots : s.holder[w] = <<r, i>>) => x.block[i] \in Uses
      BY <1>1 DEF Held
    <3> HIDE DEF B
    <3> QED
      BY <1>8, <3>1, <3>2, <3>3 DEF Consistent
  <2>3. SameOthers(C, C, r)
    BY <1>1 DEF SameOthers, Held
  <2>4. g.reads[r].held = s.reads[r].held - Cardinality(SlotsOf(s, r, B)) /\ Fits(g.reads[r])
    BY <1>4, <1>8 DEF n
  <2> HIDE DEF B
  <2> QED
    BY <1>1, <1>2, <2>1, <2>2, <2>3, <2>4, OneRead
<1>10. Counted(g)
  <2>1. g.small + Bit(HasSmall(g.reads[r])) = s.small + Bit(HasSmall(s.reads[r]))
    <3>1. s.small \in Nat
      BY <1>1, StoreFields
    <3> HIDE DEF b
    <3> QED
      BY <1>5, <1>8, <3>1 DEF Bit
  <2>2. \A j \in Keys : g.pins[j] + Bit(Using(s.reads[r], j)) = s.pins[j] + Bit(Using(g.reads[r], j))
    <3>1. \A j \in Keys : Using(s.reads[r], j) <=> Using(g.reads[r], j)
      BY <1>6, <1>8
    <3> QED
      BY <1>8, <3>1 DEF Bit
  <2>3. \A j \in Keys : g.reading[j] + Bit(LiveUsing(s.reads[r], j)) = s.reading[j] + Bit(LiveUsing(g.reads[r], j))
    <3> SUFFICES ASSUME NEW j \in Keys
                 PROVE  g.reading[j] + Bit(LiveUsing(s.reads[r], j)) = s.reading[j] + Bit(LiveUsing(g.reads[r], j))
      OBVIOUS
    <3>1. s.reading \in [Keys -> Nat]
      BY <1>1, StoreFields
    <3>2. CASE j = k
      <4>1. g.reading[j] = s.reading[j] - 1
        BY <1>8, <3>1, <3>2
      <4>2. LiveUsing(s.reads[r], j) /\ ~LiveUsing(g.reads[r], j)
        BY <1>6, <1>8, <3>2
      <4> QED
        BY <3>1, <4>1, <4>2 DEF Bit
    <3>3. CASE j # k
      <4>1. g.reading[j] = s.reading[j]
        BY <1>8, <3>1, <3>3
      <4>2. ~LiveUsing(s.reads[r], j) /\ ~LiveUsing(g.reads[r], j)
        BY <1>6, <1>8, <3>3
      <4> QED
        BY <4>1, <4>2 DEF Bit
    <3> QED
      BY <3>2, <3>3
  <2>4. Recounts(s, g, r)
    BY <2>1, <2>2, <2>3 DEF Recounts
  <2> QED
    BY <1>1, <1>8, <2>4, CountedAfter
<1>11. PointsPinned(g)
  BY <1>1, <1>8 DEF PointsPinned
<1>12. Good(g, C)
  BY <1>8, <1>9, <1>10, <1>11 DEF Good
<1>13. \A q \in Ids \ {r} : Settled(g, q)
  BY <1>1, <1>8, SettledOthers
<1>14. Keeps(z, C) /\ KeepsLive(g, z)
  BY <1>12, <1>13, Released DEF g
<1> QED
  BY <1>8, <1>14 DEF KeepsLive, OnlyRead

-----------------------------------------------------------------------------
(* beginRead *)

LEMMA BegunFits ==
    ASSUME NEW k \in Keys
    PROVE  LET y == [NoRead EXCEPT !.phase = "live", !.key = k, !.disk = 1] IN
           /\ y \in Read /\ Fits(y) /\ y.phase = "live" /\ y.key = k /\ y.held = 0
           /\ \A i \in Idx : y.block[i] = "idle"
<1> DEFINE y == [NoRead EXCEPT !.phase = "live", !.key = k, !.disk = 1]
<1>1. /\ y \in Read /\ y.phase = "live" /\ y.key = k /\ y.disk = 1 /\ y.assigned = 0 /\ y.handed = 0
      /\ y.held = 0 /\ y.small = "queued" /\ y.block = NoRead.block
  <2>1. NoRead \in Read
    BY NoReadIs
  <2> QED
    BY <2>1, NoReadIs DEF Read, Phases
<1> HIDE DEF y
<1>2. /\ \A i \in Idx : y.block[i] = "idle"
      /\ Total[k] \in Nat /\ \A i \in Idx : i \in Nat /\ i > 0
  BY <1>1, NoReadIs, ReadAssumption DEF Idx
<1>3. AskedOf(y) = {} /\ SmallTask(y) = 1
  BY <1>1, <1>2 DEF AskedOf, SmallTask, Pending
<1>4. Cardinality(AskedOf(y)) = 0
  BY <1>3, FS_EmptySet
<1>5. Fits(y)
  BY <1>1, <1>2, <1>3, <1>4 DEF Fits
<1> QED
  BY <1>1, <1>2, <1>5 DEF y

\* A restore that was not begun has no slot and no copy.
LEMMA UnusedIs ==
    ASSUME NEW s, NEW C, Held(s, C), NEW r \in Ids, s.reads[r].phase = "unused", s.reads[r] \in Read
    PROVE  /\ \A w \in ReadSlots, i \in Idx : s.holder[w] # <<r, i>>
           /\ \A c \in C : c.read # r
           /\ s.reads[r].held = 0
<1>1. \A c \in C : c.read # r
  BY EndedHasNoCopy
<1>2. \A i \in Idx : s.reads[r].block[i] = "idle"
  BY PendingInUse DEF Held
<1>3. \A w \in ReadSlots, i \in Idx : s.holder[w] # <<r, i>>
  <2> SUFFICES ASSUME NEW w \in ReadSlots, NEW i \in Idx, s.holder[w] = <<r, i>> PROVE FALSE
    OBVIOUS
  <2>1. s.reads[r].block[i] \in Uses \/ \E c \in C : c.read = r /\ c.index = i
    BY DEF Held
  <2> QED
    BY <1>1, <1>2, <2>1 DEF Uses
<1>4. SlotsOf(s, r, Idx) = {}
  <2>1. \A w \in ReadSlots : w \notin SlotsOf(s, r, Idx)
    BY <1>3, SlotsAre
  <2> QED
    BY <2>1, SlotsFinite
<1>5. s.reads[r].held = Cardinality(SlotsOf(s, r, Idx))
  BY DEF Held
<1> QED
  BY <1>1, <1>3, <1>4, <1>5, FS_EmptySet

Begun(s, r, k) ==
    [s EXCEPT !.reads[r] = [NoRead EXCEPT !.phase = "live", !.key = k, !.disk = 1],
              !.small = @ - 1, !.pins[k] = @ + 1, !.reading[k] = @ + 1]

LEMMA BegunIs ==
    ASSUME NEW s \in ReadStore, NEW r \in Ids, NEW k \in Keys, s.small > 0, NEW y \in Read,
           y = [NoRead EXCEPT !.phase = "live", !.key = k, !.disk = 1]
    PROVE  LET z == Begun(s, r, k) IN
           /\ z \in ReadStore /\ OnlyRead(s, z, r) /\ z.reads[r] = y /\ z.holder = s.holder
           /\ z.small = s.small - 1 /\ z.point = s.point
           /\ z.pins[k] = s.pins[k] + 1 /\ z.reading[k] = s.reading[k] + 1
           /\ \A j \in Keys \ {k} : z.pins[j] = s.pins[j] /\ z.reading[j] = s.reading[j]
<1> DEFINE z == Begun(s, r, k)
<1>1. z = [s EXCEPT !.reads[r] = y, !.small = @ - 1, !.pins[k] = @ + 1, !.reading[k] = @ + 1]
  BY DEF Begun
<1> HIDE DEF z
<1>2. /\ z.reads = [s.reads EXCEPT ![r] = y] /\ z.holder = s.holder /\ z.small = s.small - 1 /\ z.point = s.point
      /\ z.pins = [s.pins EXCEPT ![k] = @ + 1] /\ z.reading = [s.reading EXCEPT ![k] = @ + 1]
  BY <1>1 DEF ReadStore
<1>3. /\ z.reads \in [Ids -> Read] /\ z.reads[r] = y /\ OnlyRead(s, z, r)
      /\ z.pins \in [Keys -> Nat] /\ z.reading \in [Keys -> Nat] /\ z.small \in 0 .. RestoreSlots
  <2>1. /\ s.reads \in [Ids -> Read] /\ s.pins \in [Keys -> Nat] /\ s.reading \in [Keys -> Nat]
        /\ s.small \in 0 .. RestoreSlots /\ RestoreSlots \in Nat
    BY StoreFields, ReadAssumption
  <2>2. z.reads \in [Ids -> Read] /\ z.reads[r] = y /\ OnlyRead(s, z, r)
    BY <1>2, <2>1 DEF OnlyRead
  <2>3. z.pins \in [Keys -> Nat] /\ z.reading \in [Keys -> Nat]
    BY <1>2, <2>1
  <2>4. z.small \in 0 .. RestoreSlots
    BY <1>2, <2>1
  <2> QED
    BY <2>2, <2>3, <2>4
<1>4. z \in ReadStore
  BY <1>1, <1>2, <1>3, StoreFields DEF ReadStore
<1> QED
  BY <1>2, <1>3, <1>4, StoreFields DEF z
LEMMA BegunGood ==
    ASSUME NEW s, NEW C, Keeps(s, C), NEW r \in Ids, NEW k \in Keys, s.reads[r].phase = "unused",
           s.small > 0, s.point[k] = "listed", NEW z \in Assign(Begun(s, r, k))
    PROVE  Keeps(z, C) /\ KeepsLive(s, z)
<1> DEFINE x == s.reads[r]
           y == [NoRead EXCEPT !.phase = "live", !.key = k, !.disk = 1]
           g == Begun(s, r, k)
<1>1. /\ s \in ReadStore /\ x \in Read
      /\ Good(s, C) /\ Held(s, C) /\ Counted(s) /\ PointsPinned(s) /\ AllSettled(s)
  BY ReadOf DEF Keeps, Good
<1>2. /\ y \in Read /\ Fits(y) /\ y.phase = "live" /\ y.key = k /\ y.held = 0
      /\ \A i \in Idx : y.block[i] = "idle"
  BY BegunFits
<1>3. /\ g \in ReadStore /\ OnlyRead(s, g, r) /\ g.reads[r] = y /\ g.holder = s.holder
      /\ g.small = s.small - 1 /\ g.point = s.point
      /\ g.pins[k] = s.pins[k] + 1 /\ g.reading[k] = s.reading[k] + 1
      /\ \A j \in Keys \ {k} : g.pins[j] = s.pins[j] /\ g.reading[j] = s.reading[j]
  BY <1>1, <1>2, BegunIs, ZenonT(30)
<1> HIDE DEF y, g
<1>4. /\ \A w \in ReadSlots, i \in Idx : s.holder[w] # <<r, i>>
      /\ \A c \in C : c.read # r
      /\ x.held = 0
  BY <1>1, UnusedIs
<1>5. Held(g, C)
  <2>1. Touches(s, g, r, {})
    <3>1. Frees(s, g, r, {})
      BY <1>1, <1>3, StoreFields, FreesNone
    <3> QED
      BY <1>3, <3>1, StoreFields DEF Touches, OnlyRead
  <2>2. Consistent(s, g, r, {}, C)
    <3>1. \A i \in Idx : y.block[i] \notin Uses
      BY <1>2 DEF Uses
    <3> QED
      BY <1>3, <1>4, <3>1 DEF Consistent
  <2>3. SameOthers(C, C, r)
    BY <1>1 DEF SameOthers, Held
  <2>4. g.reads[r].held = s.reads[r].held - Cardinality(SlotsOf(s, r, {})) /\ Fits(g.reads[r])
    BY <1>2, <1>3, <1>4, NoSlotOf
  <2> QED
    BY <1>1, <2>1, <2>2, <2>3, <2>4, OneRead
<1>6. /\ HasSmall(y) /\ ~HasSmall(x) /\ Using(y, k) /\ LiveUsing(y, k)
      /\ \A j : ~Using(x, j) /\ ~LiveUsing(x, j)
      /\ \A j : j # k => ~Using(y, j) /\ ~LiveUsing(y, j)
  BY <1>2 DEF HasSmall, Using, LiveUsing
<1>7. Counted(g)
  <2>1. s.small \in Nat /\ s.pins \in [Keys -> Nat] /\ s.reading \in [Keys -> Nat]
    BY <1>1, StoreFields
  <2>2. g.small + Bit(HasSmall(g.reads[r])) = s.small + Bit(HasSmall(s.reads[r]))
    BY <1>3, <1>6, <2>1 DEF Bit
  <2>3. ASSUME NEW j \in Keys
        PROVE  /\ g.pins[j] + Bit(Using(s.reads[r], j)) = s.pins[j] + Bit(Using(g.reads[r], j))
               /\ g.reading[j] + Bit(LiveUsing(s.reads[r], j)) = s.reading[j] + Bit(LiveUsing(g.reads[r], j))
    <3>1. CASE j = k
      BY <1>3, <1>6, <2>1, <3>1 DEF Bit
    <3>2. CASE j # k
      <4>1. g.pins[j] = s.pins[j] /\ g.reading[j] = s.reading[j]
        BY <1>3, <3>2
      <4> QED
        BY <1>3, <1>6, <3>2, <4>1 DEF Bit
    <3> QED
      BY <3>1, <3>2
  <2>4. Recounts(s, g, r)
    BY <2>2, <2>3 DEF Recounts
  <2> QED
    BY <1>1, <1>3, <2>4, CountedAfter
<1>8. PointsPinned(g)
  <2>1. g.point \in [Keys -> {"listed", "removed", "freed"}]
    BY <1>3, StoreFields
  <2>2. ASSUME NEW j \in Keys
        PROVE  (g.point[j] = "freed" => g.pins[j] = 0) /\ (g.point[j] = "removed" => g.pins[j] # 0)
    <3>1. CASE j = k
      BY <1>3, <3>1
    <3>2. CASE j # k
      BY <1>1, <1>3, <3>2 DEF PointsPinned
    <3> QED
      BY <3>1, <3>2
  <2> QED
    BY <2>1, <2>2 DEF PointsPinned
<1>9. Good(g, C)
  BY <1>3, <1>5, <1>7, <1>8 DEF Good
<1>10. AllSettled(g)
  <2>1. \A q \in Ids \ {r} : Settled(g, q)
    BY <1>1, <1>3, SettledOthers
  <2>2. Settled(g, r)
    BY <1>2, <1>3 DEF Settled
  <2> QED
    BY <2>1, <2>2 DEF AllSettled
<1>11. g = MaybeFreeRead(g, r)
  BY <1>2, <1>3 DEF MaybeFreeRead
<1>12. Keeps(z, C) /\ KeepsLive(g, z)
  <2>1. z \in Assign(MaybeFreeRead(g, r))
    BY <1>11, Zenon DEF g
  <2>2. \A q \in Ids \ {r} : Settled(g, q)
    BY <1>10 DEF AllSettled
  <2> QED
    BY <1>9, <2>1, <2>2, Released
<1>13. KeepsLive(s, g)
  BY <1>3 DEF KeepsLive, OnlyRead
<1> QED
  BY <1>12, <1>13 DEF KeepsLive

-----------------------------------------------------------------------------
(* A point leaves the index *)

LEMMA RemovedGood ==
    ASSUME NEW s, NEW C, Keeps(s, C), NEW k \in Keys
    PROVE  Keeps(Remove(s, k), C) /\ Remove(s, k).reads = s.reads
<1> DEFINE z == Remove(s, k)
           P == [s.point EXCEPT ![k] = IF s.pins[k] > 0 THEN "removed" ELSE "freed"]
<1>1. s \in ReadStore /\ Held(s, C) /\ Counted(s) /\ PointsPinned(s) /\ AllSettled(s) /\ NoneIdle(s)
  BY DEF Keeps, Good
<1>2. CASE s.point[k] # "listed"
  BY <1>2 DEF Remove
<1>3. CASE s.point[k] = "listed"
  <2>1. z = [s EXCEPT !.point = P]
    BY <1>3 DEF Remove
  <2>2. s.point \in [Keys -> {"listed", "removed", "freed"}] /\ s.pins \in [Keys -> Nat]
    BY <1>1, StoreFields
  <2>3. /\ P \in [Keys -> {"listed", "removed", "freed"}]
        /\ P[k] = IF s.pins[k] > 0 THEN "removed" ELSE "freed"
        /\ \A j \in Keys \ {k} : P[j] = s.point[j]
    BY <2>2
  <2> HIDE DEF z, P
  <2>4. /\ z \in ReadStore /\ z.reads = s.reads /\ z.holder = s.holder /\ z.small = s.small
        /\ z.pins = s.pins /\ z.reading = s.reading /\ z.point = P
    BY <1>1, <2>1, <2>3 DEF ReadStore
  <2>5. Held(z, C)
    BY <1>1, <2>4, HeldSame
  <2>6. Counted(z)
    <3>1. SmallUsers(z) = SmallUsers(s) /\ \A j : Users(z, j) = Users(s, j) /\ LiveUsers(z, j) = LiveUsers(s, j)
      BY <2>4 DEF SmallUsers, Users, LiveUsers
    <3> QED
      BY <1>1, <2>4, <3>1 DEF Counted
  <2>7. PointsPinned(z)
    <3>1. ASSUME NEW j \in Keys
          PROVE  (z.point[j] = "freed" => z.pins[j] = 0) /\ (z.point[j] = "removed" => z.pins[j] # 0)
      <4>1. CASE j = k
        <5>1. s.pins[k] \in Nat
          BY <2>2
        <5> QED
          BY <2>3, <2>4, <4>1, <5>1
      <4>2. CASE j # k
        BY <1>1, <2>3, <2>4, <4>2 DEF PointsPinned
      <4> QED
        BY <4>1, <4>2
    <3> QED
      BY <2>3, <2>4, <3>1 DEF PointsPinned
  <2>8. AllSettled(z)
    BY <1>1, <2>4 DEF AllSettled, Settled
  <2>9. NoneIdle(z)
    <3>1. FreeSlots(z) = FreeSlots(s) /\ Wanted(z) = Wanted(s) /\ LiveReads(z) = LiveReads(s)
      BY <2>4 DEF FreeSlots, Wanted, LiveReads
    <3> QED
      BY <1>1, <2>4, <3>1, Zenon DEF NoneIdle
  <2> QED
    BY <2>4, <2>5, <2>6, <2>7, <2>8, <2>9 DEF Keeps, Good, z
<1> QED
  BY <1>1, <1>2, <1>3
-----------------------------------------------------------------------------
(* Steps *)

LEMMA InvIs ==
    ASSUME IInv
    PROVE  /\ rx \in [Ids -> RxOf] /\ engine \in Ending \cup {Free} /\ Keeps(rs, copies)
           /\ rs \in ReadStore /\ rs.reads \in [Ids -> Read] /\ copies \subseteq Copy
           /\ \A r \in Ids : rs.reads[r] \in Read /\ Fits(rs.reads[r])
           /\ engine # Free => /\ engine \in Ending /\ engine.read \in Ids
                               /\ rs.reads[engine.read].phase = "live"
                               /\ engine.pc # "quiesce" => \A c \in copies : c.read # engine.read
BY StoreFields DEF IInv, EngineFits, Keeps, Good, Held, Ending

\* The restore the engine is ending stays live through the steps of others.
LEMMA EngineKept ==
    ASSUME IInv, KeepsLive(rs, rs'), engine' = engine,
           \A c \in copies' : c \in copies
    PROVE  EngineFits'
<1>1. engine # Free => /\ engine.read \in Ids /\ rs.reads[engine.read].phase = "live"
                       /\ engine.pc # "quiesce" => \A c \in copies : c.read # engine.read
  BY InvIs
<1> QED
  BY <1>1 DEF EngineFits, KeepsLive

LEMMA ReaderStep ==
    ASSUME IInv, Reader
    PROVE  IInv' /\ KeepsLive(rs, rs')
<1>1. Keeps(rs, copies) /\ rs \in ReadStore /\ \A r \in Ids : rs.reads[r] \in Read /\ Fits(rs.reads[r])
  BY InvIs
<1>2. CASE \E r \in Ids, i \in Idx : SkipBlock(r, i) \/ TakeBlock(r, i)
  <2>1. PICK r \in Ids, i \in Idx : SkipBlock(r, i) \/ TakeBlock(r, i)
    BY <1>2
  <2>2. CASE SkipBlock(r, i)
    <3>1. /\ rs.reads[r].block[i] = "queued"
          /\ rs' \in Assign(MaybeFreeRead([GiveRead(rs, r, {i}) EXCEPT !.reads[r].block[i] = "failed",
                                                                      !.reads[r].disk = @ - 1], r))
      BY <2>2 DEF SkipBlock
    <3>2. Keeps(rs', copies) /\ KeepsLive(rs, rs')
      BY <1>1, <3>1, SkipBlockGood
    <3> QED
      BY <2>2, <3>2, InvIs, EngineKept DEF IInv, SkipBlock
  <2>3. CASE TakeBlock(r, i)
    <3>1. rs.reads[r].block[i] = "queued" /\ rs' = [rs EXCEPT !.reads[r].block[i] = "reading"]
      BY <2>3 DEF TakeBlock
    <3>2. Keeps(rs', copies) /\ OnlyRead(rs, rs', r) /\ rs'.reads[r].phase = rs.reads[r].phase
      BY <1>1, <3>1, TakenGood
    <3>3. KeepsLive(rs, rs')
      BY <3>2, LiveAsOne
    <3> QED
      BY <2>3, <3>2, <3>3, InvIs, EngineKept DEF IInv, TakeBlock
  <2> QED
    BY <2>1, <2>2, <2>3
<1>3. CASE \E r \in Ids, i \in Idx, ok \in BOOLEAN : BlockRead(r, i, ok)
  <2>1. PICK r \in Ids, i \in Idx, ok \in BOOLEAN : BlockRead(r, i, ok)
    BY <1>3
  <2>2. rs.reads[r].block[i] = "reading" /\ UNCHANGED <<rx, copies, engine>>
    BY <2>1 DEF BlockRead
  <2>3. Keeps(rs', copies) /\ KeepsLive(rs, rs')
    <3>1. rs.reads[r].phase \in {"live", "ended"}
      BY <1>1, <2>2, PendingInUse
    <3>2. CASE rs.reads[r].phase = "ended"
      <4>1. rs' \in Assign(MaybeFreeRead(ReadFailed(rs, r, i), r))
        BY <2>1, <3>2 DEF BlockRead, ReadFailed, LessDisk
      <4> QED
        BY <1>1, <2>2, <4>1, LateBlockGood
    <3>3. CASE rs.reads[r].phase = "live"
      <4>1. CASE ok
        <5>1. rs' = [LessDisk(rs, r) EXCEPT !.reads[r].block[i] = "ready"]
          BY <2>1, <3>3, <4>1 DEF BlockRead, LessDisk
        <5>2. Keeps(rs', copies) /\ OnlyRead(rs, rs', r) /\ rs'.reads[r].phase = rs.reads[r].phase
          BY <1>1, <2>2, <3>3, <5>1, ReadyGood, ZenonT(30)
        <5> QED
          BY <5>2, LiveAsOne
      <4>2. CASE ~ok
        <5>1. rs' = [ReadFailed(rs, r, i) EXCEPT !.reads[r].err = TRUE]
          BY <2>1, <3>3, <4>2 DEF BlockRead, ReadFailed, LessDisk
        <5> QED
          BY <1>1, <2>2, <3>3, <5>1, BadBlockGood
      <4> QED
        BY <4>1, <4>2
    <3> QED
      BY <3>1, <3>2, <3>3
  <2> QED
    BY <2>2, <2>3, InvIs, EngineKept DEF IInv
<1>4. CASE \E r \in Ids : SkipSmall(r) \/ TakeSmall(r)
  <2>1. PICK r \in Ids : SkipSmall(r) \/ TakeSmall(r)
    BY <1>4
  <2>2. CASE SkipSmall(r)
    <3>1. /\ rs.reads[r].phase = "ended" /\ rs.reads[r].small \in Pending
          /\ rs' \in Assign(MaybeFreeRead(SmallGone(rs, r), r))
      BY <2>2 DEF SkipSmall, Pending
    <3>2. Keeps(rs', copies) /\ KeepsLive(rs, rs')
      BY <1>1, <3>1, SmallGoneGood
    <3> QED
      BY <2>2, <3>2, InvIs, EngineKept DEF IInv, SkipSmall
  <2>3. CASE TakeSmall(r)
    <3>1. /\ rs.reads[r].phase = "live" /\ rs.reads[r].small = "queued"
          /\ rs' = [rs EXCEPT !.reads[r].small = "reading"]
      BY <2>3 DEF TakeSmall
    <3>2. Keeps(rs', copies) /\ OnlyRead(rs, rs', r) /\ rs'.reads[r].phase = rs.reads[r].phase
      BY <1>1, <3>1, SmallTaken
    <3>3. KeepsLive(rs, rs')
      BY <3>2, LiveAsOne
    <3> QED
      BY <2>3, <3>2, <3>3, InvIs, EngineKept DEF IInv, TakeSmall
  <2> QED
    BY <2>1, <2>2, <2>3
<1>5. CASE \E r \in Ids, ok \in BOOLEAN : SmallRead(r, ok)
  <2>1. PICK r \in Ids, ok \in BOOLEAN : SmallRead(r, ok)
    BY <1>5
  <2>2. rs.reads[r].small = "reading" /\ UNCHANGED <<rx, copies, engine>>
    BY <2>1 DEF SmallRead
  <2>3. Keeps(rs', copies) /\ KeepsLive(rs, rs')
    <3>1. rs.reads[r].phase \in {"live", "ended"}
      BY <1>1, <2>2, ReadFields DEF Fits, Phases
    <3>2. CASE rs.reads[r].phase = "ended"
      <4>1. rs' \in Assign(MaybeFreeRead(SmallGone(rs, r), r)) /\ rs.reads[r].small \in Pending
        BY <2>1, <2>2, <3>2 DEF SmallRead, Pending
      <4> QED
        BY <1>1, <3>2, <4>1, SmallGoneGood
    <3>3. CASE rs.reads[r].phase = "live"
      <4> DEFINE v == IF ok THEN "ready" ELSE "failed"
                 e == rs.reads[r].err \/ ~ok
      <4>1. rs' = SmallDone(rs, r, v, e)
        BY <2>1, <3>3 DEF SmallRead, SmallDone
      <4>2. v \in {"ready", "failed"}
        OBVIOUS
      <4>3. e \in BOOLEAN
        BY Zenon
      <4>4. ErrStays(rs.reads[r], e)
        BY Zenon DEF ErrStays
      <4> HIDE DEF v, e
      <4>5. Keeps(rs', copies) /\ OnlyRead(rs, rs', r) /\ rs'.reads[r].phase = rs.reads[r].phase
        BY <1>1, <2>2, <3>3, <4>1, <4>2, <4>3, <4>4, SmallReadGood
      <4> QED
        BY <4>5, LiveAsOne
    <3> QED
      BY <3>1, <3>2, <3>3
  <2> QED
    BY <2>2, <2>3, InvIs, EngineKept DEF IInv
<1> QED
  BY <1>2, <1>3, <1>4, <1>5 DEF Reader
-----------------------------------------------------------------------------
(* The engine's steps *)

\* With the engine idle there is nothing it is ending.
LEMMA EngineIdle ==
    ASSUME engine' = Free
    PROVE  EngineFits' /\ engine' \in Ending \cup {Free}
BY DEF EngineFits

LEMMA RxTyped ==
    ASSUME IInv, NEW r \in Ids
    PROVE  /\ [rx EXCEPT ![r].failed = TRUE] \in [Ids -> RxOf]
           /\ [rx EXCEPT ![r].small = "pending"] \in [Ids -> RxOf]
           /\ [rx EXCEPT ![r].small = "done"] \in [Ids -> RxOf]
           /\ [rx EXCEPT ![r] = NoRx] \in [Ids -> RxOf]
<1>1. rx \in [Ids -> RxOf] /\ NoRx \in RxOf
  BY InvIs DEF RxOf, NoRx
<1>2. rx[r] \in RxOf
  BY <1>1
<1>3. /\ [rx[r] EXCEPT !.failed = TRUE] \in RxOf /\ [rx[r] EXCEPT !.small = "pending"] \in RxOf
      /\ [rx[r] EXCEPT !.small = "done"] \in RxOf
  BY <1>2 DEF RxOf
<1>4. \A y \in RxOf : [rx EXCEPT ![r] = y] \in [Ids -> RxOf]
  BY <1>1
<1> QED
  BY <1>1, <1>3, <1>4

LEMMA BeginStep ==
    ASSUME IInv, NEW r \in Ids, NEW k \in Keys, BeginRead(r, k)
    PROVE  IInv' /\ KeepsLive(rs, rs')
<1>1. Keeps(rs, copies)
  BY InvIs
<1>2. /\ engine = Free /\ rs.reads[r].phase = "unused" /\ rs.point[k] = "listed" /\ rs.small > 0
      /\ rs' \in Assign(Begun(rs, r, k)) /\ UNCHANGED <<rx, copies, engine>>
  BY DEF BeginRead, EngineFree, NextId, Begun
<1>3. Keeps(rs', copies) /\ KeepsLive(rs, rs')
  BY <1>1, <1>2, BegunGood
<1> QED
  BY <1>2, <1>3, EngineIdle DEF IInv

\* The next block to hand out is one of the point's.
LEMMA NextIsBlock ==
    ASSUME NEW x \in Read, Fits(x), x.handed # Total[x.key]
    PROVE  x.handed + 1 \in Idx
<1>1. /\ x.handed \in Nat /\ x.assigned \in Nat /\ Total[x.key] \in Nat /\ MaxBlocks \in Nat
      /\ Total[x.key] <= MaxBlocks
  BY ReadFields
<1>2. x.handed <= x.assigned /\ x.assigned <= Total[x.key]
  BY DEF Fits
<1> QED
  BY <1>1, <1>2 DEF Idx

LEMMA HandStep ==
    ASSUME IInv, NEW r \in Ids, RxStep(r)
    PROVE  IInv' /\ KeepsLive(rs, rs')
<1> DEFINE i == Next_(r)
<1>1. /\ engine = Free /\ rs.reads[r].phase = "live" /\ rs.reads[r].block[i] = "ready"
      /\ rs.reads[r].handed # Total[rs.reads[r].key] /\ engine' = engine
  BY DEF RxStep, Running, EngineFree, AllHanded
<1>2. i \in Idx /\ i = rs.reads[r].handed + 1
  BY <1>1, InvIs, NextIsBlock DEF Next_
<1>3. Keeps(rs, copies)
  BY InvIs
<1>4. \/ /\ rs' = HandOut(rs, r, i) /\ UNCHANGED rx
         /\ \E w \in SlotsOf(rs, r, {i}) : copies' = copies \cup {[read |-> r, index |-> i, slot |-> w]}
      \/ /\ rs' \in Release(HandOut(rs, r, i), r, i)
         /\ rx' = [rx EXCEPT ![r].failed = TRUE] /\ UNCHANGED copies
  BY DEF RxStep
<1> HIDE DEF i
<1>5. CASE /\ rs' = HandOut(rs, r, i) /\ UNCHANGED rx
           /\ \E w \in SlotsOf(rs, r, {i}) : copies' = copies \cup {[read |-> r, index |-> i, slot |-> w]}
  <2>1. PICK w \in SlotsOf(rs, r, {i}) : copies' = copies \cup {[read |-> r, index |-> i, slot |-> w]}
    BY <1>5
  <2> DEFINE d == [read |-> r, index |-> i, slot |-> w]
  <2>3. copies' = copies \cup {d} /\ d = [read |-> r, index |-> i, slot |-> w]
    BY <2>1
  <2> HIDE DEF d
  <2>2. Keeps(HandOut(rs, r, i), copies \cup {d}) /\ OnlyRead(rs, HandOut(rs, r, i), r)
        /\ HandOut(rs, r, i).reads[r].phase = "live"
    BY <1>1, <1>2, <1>3, <2>3, HandedOut
  <2>4. Keeps(rs', copies') /\ KeepsLive(rs, rs')
    BY <1>1, <1>5, <2>2, <2>3, LiveAsOne
  <2> QED
    BY <1>1, <1>5, <2>4, InvIs, EngineIdle DEF IInv
<1>6. CASE /\ rs' \in Release(HandOut(rs, r, i), r, i)
           /\ rx' = [rx EXCEPT ![r].failed = TRUE] /\ UNCHANGED copies
  <2>1. Keeps(rs', copies) /\ KeepsLive(rs, rs')
    BY <1>1, <1>2, <1>3, <1>6, HandedBack
  <2>2. rx' \in [Ids -> RxOf]
    BY <1>6, RxTyped
  <2> QED
    BY <1>1, <1>6, <2>1, <2>2, EngineIdle DEF IInv
<1> QED
  BY <1>4, <1>5, <1>6

LEMMA RxStays ==
    ASSUME IInv, NEW r \in Ids, RxSmall(r) \/ RxFails(r)
    PROVE  IInv' /\ KeepsLive(rs, rs')
<1>1. Keeps(rs, copies) /\ KeepsLive(rs, rs)
  BY InvIs DEF KeepsLive
<1>2. engine = Free /\ engine' = engine /\ rs' = rs /\ rs.reads[r].phase = "live"
  BY DEF RxSmall, RxFails, Running, EngineFree
<1>3. rx' \in [Ids -> RxOf]
  BY RxTyped DEF RxSmall, RxFails
<1>4. Keeps(rs, copies')
  <2>1. CASE copies' = copies
    BY <1>1, <2>1
  <2>2. CASE copies' = copies \cup {[read |-> r, index |-> 0]}
    <3>1. Keeps(rs, copies \cup {[read |-> r, index |-> 0]})
      BY <1>1, <1>2, SmallCopyStarts
    <3> QED
      BY <2>2, <3>1, Zenon
  <2> QED
    BY <2>1, <2>2 DEF RxSmall, RxFails
<1> QED
  BY <1>1, <1>2, <1>3, <1>4, EngineIdle DEF IInv

\* A copy's event completed.
LEMMA DoneKeeps ==
    ASSUME IInv, NEW c \in copies, Done(c)
    PROVE  /\ Keeps(rs', copies') /\ KeepsLive(rs, rs') /\ rx' \in [Ids -> RxOf]
           /\ copies' = copies \ {c}
<1>1. Keeps(rs, copies) /\ c.read \in Ids /\ rx \in [Ids -> RxOf]
  BY InvIs, CopyIs
<1>2. copies' = copies \ {c}
  BY DEF Done
<1>3. CASE c.index = 0
  <2>1. rx' = [rx EXCEPT ![c.read].small = "done"] /\ rs' = rs
    BY <1>3 DEF Done
  <2>2. rx' \in [Ids -> RxOf]
    BY <1>1, <2>1, RxTyped
  <2>3. Keeps(rs, copies \ {c})
    BY <1>1, <1>3, SmallCopyEnds
  <2> QED
    BY <1>2, <2>1, <2>2, <2>3 DEF KeepsLive
<1>4. CASE c.index # 0
  <2>1. rs' \in Release(rs, c.read, c.index) /\ rx' = rx
    BY <1>4 DEF Done
  <2>2. Keeps(rs', copies \ {c}) /\ KeepsLive(rs, rs')
    BY <1>1, <1>4, <2>1, CopyReleased
  <2> QED
    BY <1>1, <1>2, <2>1, <2>2
<1> QED
  BY <1>3, <1>4

LEMMA CopyStep ==
    ASSUME IInv, NEW c \in copies, CopyDone(c)
    PROVE  IInv' /\ KeepsLive(rs, rs')
<1>1. engine = Free /\ Done(c) /\ engine' = engine
  BY DEF CopyDone, EngineFree
<1> QED
  BY <1>1, DoneKeeps, EngineIdle DEF IInv

\* What rxCommit and rxEnd leave: every live restore but r.
EndsOnly(s, z, r) == \A q \in Ids \ {r} : s.reads[q].phase = "live" => z.reads[q].phase = "live"

LEMMA CommitStep ==
    ASSUME IInv, NEW r \in Ids, Commit(r)
    PROVE  IInv' /\ EndsOnly(rs, rs', r)
<1>1. Keeps(rs, copies)
  BY InvIs
<1>2. /\ engine = Free /\ rs.reads[r].phase = "live" /\ \A c \in copies : c.read # r
      /\ rs' \in Assign(MaybeFreeRead(Ended(rs, r), r)) /\ rx' = [rx EXCEPT ![r] = NoRx]
      /\ UNCHANGED <<copies, engine>>
  BY DEF Commit, Running, EngineFree, RxReady
<1>3. Keeps(rs', copies) /\ EndsOnly(rs, rs', r)
  BY <1>1, <1>2, EndedGood DEF EndsOnly
<1>4. rx' \in [Ids -> RxOf]
  BY <1>2, RxTyped
<1> QED
  BY <1>2, <1>3, <1>4, EngineIdle DEF IInv

LEMMA EndStep ==
    ASSUME IInv, EndRead
    PROVE  IInv'
<1> DEFINE r == engine.read
<1>0. engine # Free
  BY DEF EndRead, Free
<1>1. Keeps(rs, copies) /\ r \in Ids /\ rs.reads[r].phase = "live" /\ \A c \in copies : c.read # r
  BY <1>0, InvIs DEF EndRead
<1>2. /\ rs' \in Assign(MaybeFreeRead(Ended(rs, r), r)) /\ rx' = [rx EXCEPT ![r] = NoRx]
      /\ copies' = copies /\ engine' = Free
  BY DEF EndRead
<1>3. Keeps(rs', copies)
  BY <1>1, <1>2, EndedGood
<1>4. rx' \in [Ids -> RxOf]
  BY <1>1, <1>2, RxTyped
<1> QED
  BY <1>2, <1>3, <1>4, EngineIdle DEF IInv

LEMMA EndBegins ==
    ASSUME IInv, NEW r \in Ids, NEW forget \in BOOLEAN, RxEnd(r, forget)
    PROVE  IInv' /\ KeepsLive(rs, rs')
<1>1. /\ rs.reads[r].phase = "live" /\ rs' = rs /\ rx' = rx /\ copies' = copies
      /\ engine' = [pc |-> "quiesce", read |-> r, forget |-> forget]
  BY DEF RxEnd
<1>2. engine' \in Ending /\ engine'.read = r /\ engine'.pc = "quiesce"
  BY <1>1 DEF Ending
<1>3. EngineFits'
  BY <1>1, <1>2 DEF EngineFits
<1> QED
  BY <1>1, <1>2, <1>3, InvIs DEF IInv, KeepsLive

LEMMA QuiesceStep ==
    ASSUME IInv, RxQuiesce
    PROVE  IInv' /\ KeepsLive(rs, rs')
<1>1. engine.pc = "quiesce"
  BY DEF RxQuiesce
<1>2. engine \in Ending /\ engine.read \in Ids /\ rs.reads[engine.read].phase = "live"
  BY <1>1, InvIs DEF Free
<1>3. CASE (\E c \in copies : c.read = engine.read /\ Done(c)) /\ UNCHANGED engine
  <2>1. PICK c \in copies : c.read = engine.read /\ Done(c)
    BY <1>3
  <2>2. /\ Keeps(rs', copies') /\ KeepsLive(rs, rs') /\ rx' \in [Ids -> RxOf]
        /\ copies' = copies \ {c}
    BY <2>1, DoneKeeps
  <2>3. EngineFits'
    BY <1>3, <2>2, EngineKept
  <2> QED
    BY <1>2, <1>3, <2>2, <2>3 DEF IInv
<1>4. CASE /\ \A c \in copies : c.read # engine.read
           /\ engine' = [engine EXCEPT !.pc = IF engine.forget THEN "forget" ELSE "end"]
           /\ UNCHANGED <<rs, rx, copies>>
  <2> DEFINE p == IF engine.forget THEN "forget" ELSE "end"
  <2>1. p \in {"forget", "end"} /\ engine' = [engine EXCEPT !.pc = p]
    BY <1>4
  <2> HIDE DEF p
  <2>2. engine' \in Ending /\ engine'.read = engine.read
    BY <1>2, <2>1 DEF Ending
  <2>3. EngineFits'
    BY <1>2, <1>4, <2>2 DEF EngineFits
  <2> QED
    BY <1>4, <2>2, <2>3, InvIs DEF IInv, KeepsLive
<1> QED
  BY <1>3, <1>4 DEF RxQuiesce

LEMMA ForgetStep ==
    ASSUME IInv, RxForget
    PROVE  IInv' /\ KeepsLive(rs, rs')
<1>1. engine.pc = "forget" /\ engine' = [engine EXCEPT !.pc = "end"] /\ UNCHANGED <<rx, copies>>
  BY DEF RxForget
<1>2. engine # Free
  BY <1>1 DEF Free
<1>3. /\ engine \in Ending /\ engine.read \in Ids /\ rs.reads[engine.read].phase = "live"
      /\ \A c \in copies : c.read # engine.read
  BY <1>1, <1>2, InvIs
<1>4. Keeps(rs, copies) /\ rs.reads[engine.read].key \in Keys
  BY <1>3, InvIs, ReadFields
<1>5. PICK k2 \in Keys : rs' = Remove(Remove(rs, rs.reads[engine.read].key), k2)
  BY DEF RxForget
<1>6. Keeps(rs', copies) /\ rs'.reads = rs.reads
  <2>1. Keeps(Remove(rs, rs.reads[engine.read].key), copies)
        /\ Remove(rs, rs.reads[engine.read].key).reads = rs.reads
    BY <1>4, RemovedGood
  <2> QED
    BY <1>5, <2>1, RemovedGood
<1>7. engine' \in Ending /\ engine'.read = engine.read
  BY <1>1, <1>3 DEF Ending
<1>8. EngineFits'
  BY <1>1, <1>3, <1>6, <1>7 DEF EngineFits
<1> QED
  BY <1>1, <1>6, <1>7, <1>8, InvIs DEF IInv, KeepsLive

LEMMA DropStep ==
    ASSUME IInv, NEW k \in Keys, Evict(k) \/ Forget(k)
    PROVE  IInv' /\ KeepsLive(rs, rs')
<1>1. engine = Free /\ rs' = Remove(rs, k) /\ UNCHANGED <<rx, copies, engine>>
  BY DEF Evict, Forget, EngineFree
<1>2. Keeps(rs, copies)
  BY InvIs
<1>3. Keeps(rs', copies) /\ rs'.reads = rs.reads
  BY <1>1, <1>2, RemovedGood
<1> QED
  BY <1>1, <1>3, InvIs, EngineIdle DEF IInv, KeepsLive
-----------------------------------------------------------------------------
(* Theorems *)

LEMMA InitInvariant ==
    ASSUME ReadInit
    PROVE  IInv
<1>1. /\ rs.reads = [r \in Ids |-> NoRead] /\ rs.holder = [w \in ReadSlots |-> Nobody]
      /\ rs.small = RestoreSlots /\ rs.point = [k \in Keys |-> "listed"]
      /\ rs.pins = [k \in Keys |-> 0] /\ rs.reading = [k \in Keys |-> 0]
      /\ copies = {} /\ engine = Free /\ rx = [r \in Ids |-> NoRx]
  BY DEF ReadInit
<1>2. /\ NoRead \in Read /\ NoRead.phase = "unused" /\ NoRead.assigned = 0 /\ NoRead.handed = 0
      /\ NoRead.held = 0 /\ NoRead.small = "queued" /\ NoRead.key \in Keys
      /\ \A i \in Idx : NoRead.block[i] = "idle"
  BY NoReadIs
<1>3. rs \in ReadStore
  <2>1. /\ [r \in Ids |-> NoRead] \in [Ids -> Read]
        /\ [w \in ReadSlots |-> Nobody] \in [ReadSlots -> (Ids \X Idx) \cup {Nobody}]
        /\ RestoreSlots \in 0 .. RestoreSlots
        /\ [k \in Keys |-> "listed"] \in [Keys -> {"listed", "removed", "freed"}]
        /\ [k \in Keys |-> 0] \in [Keys -> Nat]
    BY <1>2, ReadAssumption
  <2> QED
    BY <2>1 DEF ReadInit, ReadStore
<1>4. Fits(NoRead)
  <2>1. Total[NoRead.key] \in Nat /\ \A i \in Idx : i \in Nat /\ i > 0
    BY <1>2, ReadAssumption DEF Idx
  <2> QED
    BY <1>2, <2>1 DEF Fits
<1>5. Held(rs, copies)
  <2>1. \A w \in ReadSlots, r \in Ids, i \in Idx : rs.holder[w] # <<r, i>>
    BY <1>1, NobodyIsNone
  <2>2. \A r \in Ids : SlotsOf(rs, r, Idx) = {}
    <3> SUFFICES ASSUME NEW r \in Ids, NEW w \in ReadSlots PROVE w \notin SlotsOf(rs, r, Idx)
      BY SlotsFinite
    <3> QED
      BY <2>1, SlotsOfAll
  <2>3. \A r \in Ids : rs.reads[r].held = Cardinality(SlotsOf(rs, r, Idx))
    BY <1>1, <1>2, <2>2, FS_EmptySet
  <2>4. /\ rs.reads \in [Ids -> Read] /\ rs.holder \in [ReadSlots -> (Ids \X Idx) \cup {Nobody}]
        /\ copies \subseteq Copy
        /\ \A r \in Ids : Fits(rs.reads[r])
        /\ \A v, w \in ReadSlots : rs.holder[v] = rs.holder[w] /\ rs.holder[v] # Nobody => v = w
    BY <1>1, <1>3, <1>4, StoreFields
  <2>5. \A r \in Ids, i \in Idx : rs.reads[r].block[i] \notin Uses
    BY <1>1, <1>2 DEF Uses
  <2> QED
    BY <1>1, <2>1, <2>3, <2>4, <2>5 DEF Held
<1>6. \A r \in Ids : rs.reads[r].phase = "unused"
  BY <1>1, <1>2
<1>7. Counted(rs)
  <2>1. SmallUsers(rs) = {} /\ \A k : Users(rs, k) = {} /\ LiveUsers(rs, k) = {}
    BY <1>6 DEF SmallUsers, Users, LiveUsers, HasSmall, Using, LiveUsing
  <2>2. Cardinality(SmallUsers(rs)) = 0 /\ \A k : Cardinality(Users(rs, k)) = 0 /\ Cardinality(LiveUsers(rs, k)) = 0
    BY <2>1, FS_EmptySet
  <2>3. RestoreSlots \in Nat
    BY ReadAssumption
  <2> QED
    BY <1>1, <2>2, <2>3 DEF Counted
<1>8. PointsPinned(rs)
  BY <1>1 DEF PointsPinned
<1>9. AllSettled(rs)
  BY <1>6 DEF AllSettled, Settled
<1>10. NoneIdle(rs)
  <2>1. \A b : b \notin Wanted(rs)
    BY <1>6 DEF Wanted, LiveReads
  <2> QED
    BY <2>1 DEF NoneIdle
<1>11. rx \in [Ids -> RxOf] /\ EngineFits
  BY <1>1 DEF RxOf, NoRx, EngineFits
<1> QED
  BY <1>1, <1>3, <1>5, <1>7, <1>8, <1>9, <1>10, <1>11 DEF IInv, Keeps, Good

LEMMA Stutters ==
    ASSUME IInv, UNCHANGED rvars
    PROVE  IInv'
<1>1. rs' = rs /\ rx' = rx /\ copies' = copies /\ engine' = engine
  BY DEF rvars
<1>2. EngineFits'
  BY <1>1 DEF IInv, EngineFits
<1> QED
  BY <1>1, <1>2 DEF IInv

\* A restore stops being live by rxCommit, or by the end of rxEnd.
LEMMA NextKeeps ==
    ASSUME IInv, ReadNext
    PROVE  /\ IInv'
           /\ \/ EndRead \/ KeepsLive(rs, rs')
              \/ \E r \in Ids : Commit(r) /\ EndsOnly(rs, rs', r)
<1>1. CASE Reader
  BY <1>1, ReaderStep
<1>2. CASE \E r \in Ids, k \in Keys : BeginRead(r, k)
  BY <1>2, BeginStep
<1>3. CASE \E r \in Ids : RxStep(r) \/ RxSmall(r) \/ RxFails(r)
  <2>1. PICK r \in Ids : RxStep(r) \/ RxSmall(r) \/ RxFails(r)
    BY <1>3
  <2>2. IInv' /\ KeepsLive(rs, rs')
    BY <2>1, HandStep, RxStays
  <2> QED
    BY <2>2
<1>4. CASE \E r \in Ids : Commit(r)
  <2>1. PICK r \in Ids : Commit(r)
    BY <1>4
  <2>2. IInv' /\ EndsOnly(rs, rs', r)
    BY <2>1, CommitStep
  <2> QED
    BY <2>1, <2>2
<1>5. CASE \E r \in Ids, forget \in BOOLEAN : RxEnd(r, forget)
  BY <1>5, EndBegins
<1>6. CASE \E c \in copies : CopyDone(c)
  BY <1>6, CopyStep
<1>7. CASE RxQuiesce
  BY <1>7, QuiesceStep
<1>8. CASE RxForget
  BY <1>8, ForgetStep
<1>9. CASE EndRead
  BY <1>9, EndStep
<1>10. CASE \E k \in Keys : Evict(k) \/ Forget(k)
  BY <1>10, DropStep
<1>11. Restoring \/ Reader
  BY DEF ReadNext
<1> QED
  BY <1>1, <1>2, <1>3, <1>4, <1>5, <1>6, <1>7, <1>8, <1>9, <1>10, <1>11 DEF Restoring

\* The slots, counts, points and restores of one rank fit together in every
\* state: the inductive invariant (store.zig, spill_tier.zig).
THEOREM ReadInvariant == ReadSpec => []IInv
<1>1. ReadInit => IInv
  BY InitInvariant
<1>2. IInv /\ [ReadNext]_rvars => IInv'
  BY NextKeeps, Stutters
<1> QED
  BY <1>1, <1>2, PTL DEF ReadSpec

\* Every field keeps its range: no count goes below zero, no slot has an owner
\* that is no restore (ReadTypeOK).
THEOREM ReadTypes == ReadSpec => []ReadTypeOK
<1>1. IInv => ReadTypeOK
  BY InvIs DEF ReadTypeOK
<1> QED
  BY <1>1, ReadInvariant, PTL

LEMMA SlotsAreExact ==
    ASSUME IInv
    PROVE  SlotsExact
<1>1. /\ Held(rs, copies) /\ Counted(rs) /\ rs \in ReadStore
      /\ \A r \in Ids : rs.reads[r] \in Read /\ Fits(rs.reads[r])
  BY InvIs DEF Keeps, Good
<1>2. \A r \in Ids : rs.reads[r].held = Cardinality(SlotsOf(rs, r, Idx))
  BY <1>1 DEF Held
<1>3. ASSUME NEW r \in Ids, InUse(r)
      PROVE  rs.reads[r].disk = Tasks(r)
  <2>1. rs.reads[r].disk = Cardinality(AskedOf(rs.reads[r])) + SmallTask(rs.reads[r])
    BY <1>1, <1>3 DEF InUse, Fits
  <2> QED
    BY <2>1 DEF Tasks, AskedOf, SmallTask, Pending
<1>4. ASSUME NEW w \in ReadSlots, rs.holder[w] # Nobody
      PROVE  InUse(rs.holder[w][1])
  <2>1. PICK r \in Ids, i \in Idx : rs.holder[w] = <<r, i>>
    BY <1>1, <1>4, StoreFields
  <2>2. rs.reads[r].block[i] \in Uses \/ \E c \in copies : c.read = r /\ c.index = i
    BY <1>1, <2>1 DEF Held
  <2>3. rs.reads[r].block[i] # "idle"
    <3>1. CASE rs.reads[r].block[i] \in Uses
      BY <3>1 DEF Uses
    <3>2. CASE \E c \in copies : c.read = r /\ c.index = i
      <4>1. PICK c \in copies : c.read = r /\ c.index = i
        BY <3>2
      <4>2. c.index # 0
        BY <4>1 DEF Idx
      <4>3. rs.reads[c.read].block[c.index] = "handed"
        BY <1>1, <4>2 DEF Held
      <4> QED
        BY <4>1, <4>3
    <3> QED
      BY <2>2, <3>1, <3>2
  <2>4. rs.reads[r].phase \in {"live", "ended"}
    BY <1>1, <2>3, PendingInUse
  <2> QED
    BY <2>1, <2>4 DEF InUse
<1>5. rs.small + Cardinality({r \in Ids :
          \/ rs.reads[r].phase = "live"
          \/ rs.reads[r].phase = "ended" /\ rs.reads[r].small \in {"queued", "reading"}})
      = RestoreSlots
  <2>1. SmallUsers(rs) = {r \in Ids :
          \/ rs.reads[r].phase = "live"
          \/ rs.reads[r].phase = "ended" /\ rs.reads[r].small \in {"queued", "reading"}}
    BY DEF SmallUsers, HasSmall, Pending
  <2>2. rs.small + Cardinality(SmallUsers(rs)) = RestoreSlots
    BY <1>1 DEF Counted
  <2> QED
    BY <2>1, <2>2, Zenon
<1> QED
  BY <1>2, <1>3, <1>4, <1>5 DEF SlotsExact

LEMMA SlotsAreExclusive ==
    ASSUME IInv
    PROVE  SlotsExclusive
<1>1. Held(rs, copies) /\ rs \in ReadStore
  BY InvIs DEF Keeps, Good
<1>2. ASSUME NEW r \in Ids, NEW i \in Idx, rs.reads[r].block[i] \in {"queued", "reading", "ready"}
      PROVE  SlotsOf(rs, r, {i}) # {}
  <2>1. PICK w \in ReadSlots : rs.holder[w] = <<r, i>>
    BY <1>1, <1>2 DEF Held, Uses
  <2>2. w \in SlotsOf(rs, r, {i})
    BY <2>1, SlotsAre
  <2> QED
    BY <2>2
<1>3. \A c \in copies : c.index # 0 =>
          rs.holder[c.slot] = <<c.read, c.index>> /\ rs.reads[c.read].block[c.index] = "handed"
  BY <1>1 DEF Held
<1>4. ASSUME NEW w \in ReadSlots, rs.holder[w] # Nobody
      PROVE  LET r == rs.holder[w][1]
                 i == rs.holder[w][2]
             IN \/ rs.reads[r].block[i] \in {"queued", "reading", "ready"}
                \/ \E c \in copies : c.read = r /\ c.index = i
  <2>1. PICK r \in Ids, i \in Idx : rs.holder[w] = <<r, i>>
    BY <1>1, <1>4, StoreFields
  <2>2. rs.reads[r].block[i] \in Uses \/ \E c \in copies : c.read = r /\ c.index = i
    BY <1>1, <2>1 DEF Held
  <2> QED
    BY <2>1, <2>2 DEF Uses
<1> QED
  BY <1>2, <1>3, <1>4 DEF SlotsExclusive

LEMMA PointsOutlive ==
    ASSUME IInv
    PROVE  PointsOutliveReads
<1>1. Counted(rs) /\ PointsPinned(rs) /\ \A r \in Ids : rs.reads[r] \in Read
  BY InvIs DEF Keeps, Good
<1>2. ASSUME NEW r \in Ids, InUse(r)
      PROVE  rs.point[rs.reads[r].key] # "freed"
  <2> DEFINE k == rs.reads[r].key
  <2>1. k \in Keys /\ Using(rs.reads[r], k)
    BY <1>1, <1>2, ReadFields DEF InUse, Using
  <2>2. Tallied(rs, rs, r)
    BY Counts DEF OnlyRead
  <2>3. Cardinality(Users(rs, k)) > 0
    BY <2>1, <2>2 DEF Tallied
  <2>4. rs.pins[k] # 0
    BY <1>1, <2>1, <2>3 DEF Counted
  <2> QED
    BY <1>1, <2>1, <2>4 DEF PointsPinned
<1>3. ASSUME NEW k \in Keys, rs.point[k] = "removed"
      PROVE  \E r \in Ids : InUse(r) /\ rs.reads[r].key = k
  <2>1. Cardinality(Users(rs, k)) # 0
    BY <1>1, <1>3 DEF Counted, PointsPinned
  <2>2. Users(rs, k) # {}
    BY <2>1, FS_EmptySet
  <2> QED
    BY <2>2 DEF Users, Using, InUse
<1> QED
  BY <1>2, <1>3 DEF PointsOutliveReads

\* Slots, counts, points and restores are accounted for wherever a restore is
\* cut short, whatever the readers, the copies and the engine do meanwhile
\* (ReadsAccounted).
THEOREM ReadsAreAccounted == ReadSpec => []ReadsAccounted
<1>1. ASSUME IInv
      PROVE  ReadsAccounted
  <2>1. /\ Keeps(rs, copies) /\ Held(rs, copies) /\ AllSettled(rs) /\ NoneIdle(rs)
        /\ \A r \in Ids : rs.reads[r] \in Read /\ Fits(rs.reads[r])
    BY <1>1, InvIs DEF Keeps, Good
  <2>2. SlotsExact /\ SlotsExclusive /\ PointsOutliveReads
    BY <1>1, SlotsAreExact, SlotsAreExclusive, PointsOutlive
  <2>3. FreedWhenDone
    <3>1. ASSUME NEW r \in Ids, rs.reads[r].phase = "freed"
          PROVE  \A c \in copies : c.read # r
      BY <2>1, <3>1, EndedHasNoCopy
    <3>2. ASSUME NEW r \in Ids, rs.reads[r].phase = "ended"
          PROVE  Tasks(r) > 0
      <4>1. rs.reads[r].disk = Tasks(r)
        BY <2>2, <3>2 DEF SlotsExact, InUse
      <4>2. rs.reads[r].disk \in Nat /\ rs.reads[r].disk # 0
        BY <2>1, <3>2, ReadFields DEF AllSettled, Settled
      <4> QED
        BY <4>1, <4>2
    <3> QED
      BY <3>1, <3>2 DEF FreedWhenDone
  <2>4. IdleOnlyByFailure
    BY <2>1, Zenon DEF NoneIdle, IdleOnlyByFailure
  <2> QED
    BY <2>2, <2>3, <2>4 DEF ReadsAccounted
<1>2. IInv => ReadsAccounted
  BY <1>1
<1> QED
  BY <1>2, ReadInvariant, PTL

CommitIsWhole(r) ==
    (rs.reads[r].phase = "live" /\ rs'.reads[r].phase \in {"ended", "freed"} /\ EngineFree) =>
        /\ \A i \in 1 .. Total[rs.reads[r].key] : rs.reads[r].block[i] = "handed"
        /\ rx[r].small = "done" /\ ~rs.reads[r].err
        /\ \A c \in copies : c.read # r

\* A restore that commits has installed every block and the small state, each
\* from a read that succeeded (CommitsAreWhole).
THEOREM CommitsWhole == ReadSpec => CommitsAreWhole
<1>1. ASSUME IInv, [ReadNext]_rvars, NEW r \in Ids
      PROVE  CommitIsWhole(r)
  <2> SUFFICES ASSUME rs.reads[r].phase = "live", rs'.reads[r].phase \in {"ended", "freed"}, EngineFree
               PROVE  /\ \A i \in 1 .. Total[rs.reads[r].key] : rs.reads[r].block[i] = "handed"
                      /\ rx[r].small = "done" /\ ~rs.reads[r].err
                      /\ \A c \in copies : c.read # r
    BY DEF CommitIsWhole
  <2>1. ReadNext
    BY <1>1 DEF rvars
  <2>2. ~EndRead
    BY DEF EngineFree, EndRead, Free
  <2>3. ~KeepsLive(rs, rs')
    BY DEF KeepsLive
  <2>4. PICK q \in Ids : Commit(q) /\ EndsOnly(rs, rs', q)
    BY <1>1, <2>1, <2>2, <2>3, NextKeeps
  <2>5. q = r
    BY <2>4 DEF EndsOnly
  <2>6. /\ rs.reads[r].handed = Total[rs.reads[r].key] /\ rx[r].small = "done"
        /\ \A c \in copies : c.read # r
    BY <2>4, <2>5 DEF Commit, RxReady, AllHanded
  <2>7. ~rs.reads[r].err
    BY <2>4, <2>5, Zenon DEF Commit
  <2>8. rs.reads[r] \in Read /\ Fits(rs.reads[r])
    BY <1>1, InvIs
  <2>9. ASSUME NEW i \in 1 .. Total[rs.reads[r].key]
        PROVE  rs.reads[r].block[i] = "handed"
    <3>1. Total[rs.reads[r].key] \in 0 .. MaxBlocks /\ MaxBlocks \in Nat
      BY <2>8, ReadFields
    <3>2. i \in Idx /\ i <= rs.reads[r].handed
      BY <2>6, <3>1 DEF Idx
    <3> QED
      BY <2>8, <3>2 DEF Fits
  <2> QED
    BY <2>6, <2>7, <2>9
<1>2. IInv /\ [ReadNext]_rvars =>
        [\A r \in Ids : (rs.reads[r].phase = "live" /\ rs'.reads[r].phase \in {"ended", "freed"}
                       /\ EngineFree) =>
          /\ \A i \in 1 .. Total[rs.reads[r].key] : rs.reads[r].block[i] = "handed"
          /\ rx[r].small = "done" /\ ~rs.reads[r].err
          /\ \A c \in copies : c.read # r]_rvars
  BY <1>1, Zenon DEF CommitIsWhole
<1> QED
  BY <1>2, ReadInvariant, PTL DEF ReadSpec, CommitsAreWhole
=============================================================================
