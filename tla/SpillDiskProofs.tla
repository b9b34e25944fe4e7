--------------------------- MODULE SpillDiskProofs ---------------------------
(***************************************************************************)
(* A point the spill store has published survives whatever a crash leaves  *)
(* of the two directories, and the directories say what the index says,    *)
(* for every value of the constants: with crashes at every step of the     *)
(* writer's disk work and of the open after it, SpillDisk implements       *)
(* DurablePoints and keeps IndexIsDisk.                                    *)
(*                                                                         *)
(* Six arguments: no step under the lock but a publication adds a point    *)
(* to the index (Moves); each step of a publication puts one more file of  *)
(* the point beyond a power loss (Progress); what a scan rebuilds is a     *)
(* store like any other, whose points are the whole ones (Fresh); what     *)
(* SpillWrite calls the disk is what is there, but for what the running    *)
(* task has done already (View); every file is of the index, of the        *)
(* running task or of a queued deletion (Neat); and what a write waits for *)
(* and is not stored is on its way or nobody's (Covered).                  *)
(***************************************************************************)
EXTENDS SpillIndexProofs, SpillDisk

\* What a crash leaves of the store, and what a scan makes of that.
LEMMA ClosedFresh ==
    ASSUME store \in Store
    PROVE  Fresh(Closed) /\ Recounted(Closed) /\ Closed.points = {} /\ Closed.have = {}
<1> DEFINE jobs == [j \in Jobs |-> IF store.jobs[j].state = "unused" THEN NoWrite
                              ELSE [NoWrite EXCEPT !.state = "ended"]]
           c == Closed
<1>1. /\ c.points = {} /\ c.shared = {} /\ c.have = {} /\ c.refs = [n \in Names |-> 0]
      /\ c.inflight = [n \in Names |-> NoJob] /\ c.jobs = jobs /\ c.tasks = << >>
      /\ c.free = WriteSlots /\ c.stored = 0 /\ c.queued = 0
  BY DEF Closed
<1>2. \A j \in Jobs : jobs[j] = NoWrite \/ jobs[j] = Gone
  BY DEF Gone
<1>3. jobs \in [Jobs -> Job]
  <2> DEFINE r(j) == IF store.jobs[j].state = "unused" THEN NoWrite ELSE Gone
  <2>1. jobs = [j \in Jobs |-> r(j)]
    BY DEF Gone
  <2>2. \A j \in Jobs : r(j) \in Job
    BY BlankIs
  <2> QED
    BY <2>1, <2>2
<1>4. c = [points |-> {}, shared |-> {}, have |-> {}, refs |-> [n \in Names |-> 0],
           inflight |-> [n \in Names |-> NoJob], jobs |-> jobs,
           tasks |-> << >>, free |-> WriteSlots, stored |-> 0, queued |-> 0]
  BY DEF Closed
<1>5. << >> \in Seq(Task)
  OBVIOUS
<1>6. c \in Store
  <2> HIDE DEF jobs, c
  <2> QED
    BY <1>3, <1>4, <1>5 DEF Store
<1>7. Fresh(c)
  <2> HIDE DEF c, jobs
  <2> QED
    BY <1>1, <1>2, <1>6 DEF Fresh
<1>8. Recounted(c)
  <2>1. c.points = {} /\ c.have = {} /\ c.refs = [n \in Names |-> 0] /\ c.stored = 0
    BY <1>1
  <2> HIDE DEF c
  <2>2. Cardinality({}) = 0
    BY FS_EmptySet
  <2>3. UNION {Blocks(k) : k \in c.points} = {} /\ \A n : {k \in c.points : n \in Blocks(k)} = {}
    BY <2>1
  <2>4. c.stored = 0 + FileBytes * 0
    BY <2>1, ConstantsAssumption
  <2> QED
    BY <2>1, <2>2, <2>3, <2>4 DEF Recounted
<1> QED
  BY <1>1, <1>7, <1>8 DEF c

LEMMA RebuiltFresh ==
    ASSUME store \in Store, NEW R \in SUBSET Keys
    PROVE  Fresh(Rebuilt(R)) /\ Recounted(Rebuilt(R)) /\ Rebuilt(R).points = R
<1> DEFINE c == Closed
           shared == {k \in R : live[Man(k)].shared}
           have == UNION {Blocks(k) : k \in R}
           refs == [n \in Names |-> Cardinality({k \in R : n \in Blocks(k)})]
           stored == Cardinality(have) + FileBytes * Cardinality(R)
           z == Rebuilt(R)
<1>1. Fresh(c)
  BY ClosedFresh
<1>2. \A k \in Keys : Blocks(k) \in SUBSET Names
  BY NamesType
<1>3. IsFiniteSet(Keys) /\ IsFiniteSet(Names) /\ have \in SUBSET Names /\ shared \in SUBSET Keys
  BY <1>2, ConstantsAssumption
<1>4. Cardinality(R) \in Nat /\ Cardinality(have) \in Nat
  BY <1>3, FS_Subset, FS_CardinalityType
<1>5. stored \in Int
  <2> DEFINE a == Cardinality(R)
             b == Cardinality(have)
  <2> HIDE DEF a, b
  <2> QED
    BY <1>4, ConstantsAssumption DEF a, b
<1>6. refs \in [Names -> Nat]
  <2> SUFFICES ASSUME NEW n \in Names PROVE Cardinality({k \in R : n \in Blocks(k)}) \in Nat
    OBVIOUS
  <2>1. IsFiniteSet({k \in R : n \in Blocks(k)})
    BY <1>3, FS_Subset
  <2> QED
    BY <2>1, FS_CardinalityType
<1>7. z = [c EXCEPT !.points = R, !.shared = shared, !.have = have, !.refs = refs, !.stored = stored]
  BY DEF Rebuilt
<1> HIDE DEF z, c, shared, refs, stored
<1>8. /\ z \in Store /\ z.points = R /\ z.have = have /\ z.refs = refs /\ z.stored = stored
      /\ z.tasks = c.tasks /\ z.free = c.free /\ z.queued = c.queued /\ z.inflight = c.inflight /\ z.jobs = c.jobs
  <2> HIDE DEF have
  <2>1. c \in Store
    BY <1>1 DEF Fresh
  <2> QED
    BY <1>3, <1>5, <1>6, <1>7, <2>1 DEF Store
<1>9. Fresh(z)
  BY <1>1, <1>8 DEF Fresh
<1>10. Recounted(z)
  BY <1>8 DEF Recounted, refs, stored
<1> QED
  BY <1>8, <1>9, <1>10 DEF z

-----------------------------------------------------------------------------
(* The files of a point, and what a power loss may leave of them *)

\* The files of a point; what a file may hold.
FilesOf(k) == {Man(k), Ids(k), St(k)} \cup {Blk(n) : n \in Blocks(k)}

Fits(f, c) ==
    /\ c = Manifest(c.by, c.shared, c.crc) /\ c.shared \in BOOLEAN
    /\ f[1] # "man" => c = Plain(c.by)

\* What a process sees, l, is among what may be left, g.
Mapped(l, g) ==
    /\ l = [f \in Files |-> l[f]] /\ g = [f \in Files |-> g[f]]
    /\ \A f \in Files : l[f] \in g[f] /\ \A c \in g[f] : Fits(f, c)

\* No file but those of S changed, and none may be more than before.
Kept(l, g, z, w, S) == \A f \in Files \ S : z[f] = l[f] /\ w[f] \subseteq g[f]

\* Every file of the point is there; it is there whatever is lost.
Complete(l, k) == \A f \in FilesOf(k) : l[f] # Absent
Lasting(g, k) ==
    \A m \in g[Man(k)] :
        /\ m.by # Absent.by
        /\ g[St(k)] = {Plain(m.by)} /\ Absent \notin g[Ids(k)]
        /\ \A n \in Blocks(k) : g[Blk(n)] = {Plain(m.crc[n])} /\ m.crc[n] # Absent.by

LEMMA FilesIn ==
    /\ \A k \in Keys : Man(k) \in Files /\ Ids(k) \in Files /\ St(k) \in Files /\ FilesOf(k) \subseteq Files
    /\ \A n \in Names : Blk(n) \in Files /\ Blk(n) \in BlockFiles
    /\ \A k \in Keys : Man(k) \in PointFiles /\ Ids(k) \in PointFiles /\ St(k) \in PointFiles
    /\ \A f \in Files : \/ \E n \in Names : f = Blk(n)
                        \/ \E k \in Keys : f \in {Man(k), Ids(k), St(k)}
<1>1. \A k \in Keys : Man(k) \in PointFiles /\ Ids(k) \in PointFiles /\ St(k) \in PointFiles
  BY DEF PointFiles
<1>2. \A n \in Names : Blk(n) \in BlockFiles
  BY DEF BlockFiles
<1>3. \A k \in Keys : Blocks(k) \subseteq Names
  BY NamesType
<1>4. \A f \in Files : \/ \E n \in Names : f = Blk(n)
                       \/ \E k \in Keys : f \in {Man(k), Ids(k), St(k)}
  BY DEF Files, BlockFiles, PointFiles
<1> QED
  BY <1>1, <1>2, <1>3, <1>4 DEF Files, FilesOf

LEMMA Apart ==
    /\ \A k, p : (Man(p) = Man(k) \/ Ids(p) = Ids(k) \/ St(p) = St(k)) => p = k
    /\ \A n, o : Blk(n) = Blk(o) => n = o
    /\ \A k, p, n : /\ Man(k) # Ids(p) /\ Man(k) # St(p) /\ Ids(k) # St(p)
                    /\ Man(k) # Blk(n) /\ Ids(k) # Blk(n) /\ St(k) # Blk(n)
    /\ \A k, n : /\ Man(k)[1] = "man" /\ Ids(k)[1] = "ids" /\ St(k)[1] = "st" /\ Blk(n)[1] = "blk"
                 /\ Man(k)[2] = k /\ Ids(k)[2] = k /\ St(k)[2] = k /\ Blk(n)[2] = n
BY DEF Man, Ids, St, Blk

LEMMA FilesOfApart ==
    /\ \A k, p : Man(p) \in FilesOf(k) \/ Ids(p) \in FilesOf(k) \/ St(p) \in FilesOf(k) => p = k
    /\ \A k, n : Blk(n) \in FilesOf(k) => n \in Blocks(k)
BY Apart DEF FilesOf

LEMMA PlainIs ==
    /\ \A a, b : Plain(a) = Plain(b) => a = b
    /\ \A a : Plain(a).by = a /\ Plain(a).shared = FALSE
    /\ \A a, b, c : /\ Manifest(a, b, c).by = a /\ Manifest(a, b, c).shared = b /\ Manifest(a, b, c).crc = c
    /\ Absent.by = 0 /\ Absent.shared = FALSE
    /\ \A a : a # 0 => Plain(a) # Absent
    /\ \A c : c.by # 0 => c # Absent
<1>1. \A a : Plain(a).by = a /\ Plain(a).shared = FALSE
  BY DEF Plain
<1> QED
  BY <1>1 DEF Absent, Manifest

LEMMA PlainFits ==
    ASSUME NEW f, NEW j
    PROVE  Fits(f, Plain(j)) /\ Fits(f, Absent)
<1>1. \A a : Plain(a) = Manifest(Plain(a).by, Plain(a).shared, Plain(a).crc) /\ Plain(a).by = a /\ Plain(a).shared = FALSE
  BY DEF Plain, Manifest
<1> QED
  BY <1>1 DEF Fits, Absent

LEMMA ManifestFits ==
    ASSUME NEW k, NEW j, NEW b \in BOOLEAN, NEW c
    PROVE  Fits(Man(k), Manifest(j, b, c))
BY PlainIs, Apart DEF Fits

LEMMA SharedFits ==
    ASSUME NEW k, NEW c, Fits(Man(k), c)
    PROVE  LET d == [c EXCEPT !.shared = TRUE] IN
           Fits(Man(k), d) /\ d.by = c.by /\ d.crc = c.crc /\ d.shared = TRUE /\ d # Absent
<1> DEFINE d == [c EXCEPT !.shared = TRUE]
<1>1. c = [by |-> c.by, shared |-> c.shared, crc |-> c.crc]
  BY DEF Fits, Manifest
<1>2. d = [by |-> c.by, shared |-> TRUE, crc |-> c.crc]
  <2> DEFINE a == c.by
             b == c.shared
             e == c.crc
  <2>1. c = [by |-> a, shared |-> b, crc |-> e] /\ d = [c EXCEPT !.shared = TRUE]
    BY <1>1
  <2> HIDE DEF a, b, e, d
  <2>2. d = [by |-> a, shared |-> TRUE, crc |-> e]
    BY <2>1
  <2> QED
    BY <2>2 DEF a, e
<1>3. d.by = c.by /\ d.crc = c.crc /\ d.shared = TRUE
  BY <1>2
<1> HIDE DEF d
<1> QED
  BY <1>2, <1>3, Apart, PlainIs DEF Fits, Manifest, d

\* One entry of l set.
Puts(l, g, z, w, f, c) == z = [l EXCEPT ![f] = c] /\ w = [g EXCEPT ![f] = @ \cup {c}]

LEMMA PutMapped ==
    ASSUME NEW l, NEW g, NEW z, NEW w, Mapped(l, g), NEW f \in Files, NEW c, Fits(f, c),
           Puts(l, g, z, w, f, c)
    PROVE  Mapped(z, w) /\ Kept(l, g, z, w, {f})
<1>1. l = [h \in Files |-> l[h]] /\ g = [h \in Files |-> g[h]]
  BY DEF Mapped
<1>2. /\ z = [h \in Files |-> IF h = f THEN c ELSE l[h]]
      /\ w = [h \in Files |-> IF h = f THEN g[h] \cup {c} ELSE g[h]]
  BY <1>1 DEF Puts
<1>3. \A h \in Files : /\ z[h] = IF h = f THEN c ELSE l[h]
                       /\ w[h] = IF h = f THEN g[h] \cup {c} ELSE g[h]
  BY <1>2
<1>4. z = [h \in Files |-> z[h]] /\ w = [h \in Files |-> w[h]]
  BY <1>2
<1>5. \A h \in Files : z[h] \in w[h] /\ \A d \in w[h] : Fits(h, d)
  BY <1>3 DEF Mapped
<1> QED
  BY <1>3, <1>4, <1>5 DEF Mapped, Kept

LEMMA SyncMapped ==
    ASSUME NEW l, NEW g, NEW w, Mapped(l, g), NEW dir,
           w = [f \in Files |-> IF f \in dir THEN {l[f]} ELSE g[f]]
    PROVE  Mapped(l, w) /\ Kept(l, g, l, w, {}) /\ \A f \in dir \cap Files : w[f] = {l[f]}
<1>1. \A f \in Files : w[f] = IF f \in dir THEN {l[f]} ELSE g[f]
  OBVIOUS
<1>2. w = [f \in Files |-> w[f]]
  OBVIOUS
<1> QED
  BY <1>1, <1>2 DEF Mapped, Kept

LEMMA KeptComplete ==
    ASSUME NEW l, NEW g, NEW z, NEW w, NEW S, Kept(l, g, z, w, S), NEW k \in Keys, FilesOf(k) \cap S = {},
           Complete(l, k)
    PROVE  Complete(z, k)
BY FilesIn DEF Kept, Complete

LEMMA SomeLasting ==
    ASSUME NEW g, NEW w, NEW k \in Keys, Lasting(g, k),
           \A f \in FilesOf(k) \ {Man(k)} : w[f] \subseteq g[f] /\ w[f] # {},
           \A m \in w[Man(k)] : \E o \in g[Man(k)] : m.by = o.by /\ m.crc = o.crc
    PROVE  Lasting(w, k)
<1> SUFFICES ASSUME NEW m \in w[Man(k)]
             PROVE  /\ m.by # Absent.by
                    /\ w[St(k)] = {Plain(m.by)} /\ Absent \notin w[Ids(k)]
                    /\ \A n \in Blocks(k) : w[Blk(n)] = {Plain(m.crc[n])} /\ m.crc[n] # Absent.by
  BY DEF Lasting
<1>1. PICK o \in g[Man(k)] : m.by = o.by /\ m.crc = o.crc
  OBVIOUS
<1>2. /\ o.by # Absent.by
      /\ g[St(k)] = {Plain(o.by)} /\ Absent \notin g[Ids(k)]
      /\ \A n \in Blocks(k) : g[Blk(n)] = {Plain(o.crc[n])} /\ o.crc[n] # Absent.by
  BY DEF Lasting
<1>3. /\ St(k) \in FilesOf(k) \ {Man(k)} /\ Ids(k) \in FilesOf(k) \ {Man(k)}
      /\ \A n \in Blocks(k) : Blk(n) \in FilesOf(k) \ {Man(k)}
  BY Apart DEF FilesOf
<1>4. w[St(k)] = {Plain(o.by)} /\ Absent \notin w[Ids(k)]
  BY <1>2, <1>3
<1>5. \A n \in Blocks(k) : w[Blk(n)] = {Plain(o.crc[n])}
  BY <1>2, <1>3
<1> QED
  BY <1>1, <1>2, <1>4, <1>5

LEMMA KeptLasting ==
    ASSUME NEW l, NEW g, NEW z, NEW w, NEW S, Kept(l, g, z, w, S), Mapped(z, w),
           NEW k \in Keys, FilesOf(k) \cap S = {}, Lasting(g, k)
    PROVE  Lasting(w, k)
<1>1. \A f \in FilesOf(k) : w[f] \subseteq g[f] /\ z[f] \in w[f]
  BY FilesIn DEF Kept, Mapped
<1>2. Man(k) \in FilesOf(k)
  BY DEF FilesOf
<1> QED
  BY <1>1, <1>2, SomeLasting

LEMMA LastingComplete ==
    ASSUME NEW l, NEW g, Mapped(l, g), NEW k \in Keys, Lasting(g, k)
    PROVE  Complete(l, k)
<1>1. \A f \in FilesOf(k) : l[f] \in g[f]
  BY FilesIn DEF Mapped
<1>2. /\ Man(k) \in FilesOf(k) /\ St(k) \in FilesOf(k) /\ Ids(k) \in FilesOf(k)
      /\ \A n \in Blocks(k) : Blk(n) \in FilesOf(k)
  BY DEF FilesOf
<1> DEFINE m == l[Man(k)]
<1>3. /\ m.by # Absent.by
      /\ g[St(k)] = {Plain(m.by)} /\ Absent \notin g[Ids(k)]
      /\ \A n \in Blocks(k) : g[Blk(n)] = {Plain(m.crc[n])} /\ m.crc[n] # Absent.by
  BY <1>1, <1>2 DEF Lasting
<1>4. m # Absent
  BY <1>3
<1>5. l[St(k)] = Plain(m.by) /\ l[Ids(k)] # Absent
  BY <1>1, <1>2, <1>3
<1>6. \A n \in Blocks(k) : l[Blk(n)] = Plain(m.crc[n]) /\ m.crc[n] # Absent.by
  BY <1>1, <1>2, <1>3
<1>7. \A n \in Blocks(k) : l[Blk(n)] # Absent
  BY <1>6, PlainIs
<1>8. l[St(k)] # Absent
  BY <1>3, <1>5, PlainIs
<1> QED
  BY <1>4, <1>5, <1>7, <1>8 DEF Complete, FilesOf

LEMMA IntactIs == \A k : Intact(k) <=> Complete(live, k)
BY DEF Intact, FilesThere, Present, Complete, FilesOf

-----------------------------------------------------------------------------
(* How far a publication is *)

\* How far the writer is with the files of a point: i steps of the publication
\* done (or of undoing it), by the write j, with the flag b in its manifest.
Sums(l, k) == [n \in Blocks(k) |-> l[Blk(n)].by]

Progress(k, j, b, i, l, g) ==
    /\ \A n \in Blocks(k) : l[Blk(n)] # Absent
    /\ i \in 1 .. 6 => \A n \in Blocks(k) : g[Blk(n)] = {l[Blk(n)]}
    /\ i \in 2 .. 6 => l[Ids(k)] = Plain(j)
    /\ i \in 3 .. 6 => l[St(k)] = Plain(j)
    /\ i \in 4 .. 6 => g[Ids(k)] = {l[Ids(k)]} /\ g[St(k)] = {l[St(k)]}
    /\ i \in 5 .. 6 => l[Man(k)] = Manifest(j, b, Sums(l, k))
    /\ i = 6 => g[Man(k)] = {l[Man(k)]}
    /\ i \in 8 .. 10 => l[Man(k)] = Absent

LEMMA PublishedIs ==
    /\ Published = 6 /\ Undone = 10
    /\ Publication[1] = "blocks" /\ Publication[2] = "ids" /\ Publication[3] = "st"
    /\ Publication[4] = "points" /\ Publication[5] = "man" /\ Publication[6] = "points"
    /\ \A k : Deletion(k)[1] = Man(k) /\ Deletion(k)[2] = St(k) /\ Deletion(k)[3] = Ids(k) /\ Len(Deletion(k)) = 3
<1>1. Published = 6
  BY DEF Published, Publication
<1>2. Undone = 10
  BY <1>1 DEF Undone
<1> QED
  BY <1>1, <1>2 DEF Publication, Deletion

\* Nothing the index lists is among the files of S.
Spares(s, S) ==
    /\ \A k \in s.points : FilesOf(k) \cap S = {}
    /\ \A n \in s.have : Blk(n) \notin S

LEMMA SparesNone == \A s : Spares(s, {})
BY DEF Spares

LEMMA SparesBlock ==
    ASSUME NEW s \in Store, PointsWhole(s), NEW n \in Names, n \notin s.have
    PROVE  Spares(s, {Blk(n)})
<1>1. \A k \in s.points : n \notin Blocks(k)
  BY DEF PointsWhole
<1> QED
  BY <1>1, FilesOfApart, Apart DEF Spares

LEMMA SparesPoint ==
    ASSUME NEW s \in Store, NEW k \in Keys, k \notin s.points, NEW f \in {Man(k), Ids(k), St(k)}
    PROVE  Spares(s, {f})
BY FilesOfApart, Apart DEF Spares

LEMMA OneKept ==
    ASSUME NEW l, NEW g, NEW z, NEW w, NEW S, Kept(l, g, z, w, S), Mapped(z, w)
    PROVE  \A f \in Files \ S : z[f] = l[f] /\ (g[f] = {l[f]} => w[f] = {z[f]})
BY DEF Kept, Mapped

LEMMA ProgressKept ==
    ASSUME NEW l, NEW g, NEW z, NEW w, NEW S, Kept(l, g, z, w, S), Mapped(z, w),
           NEW k \in Keys, FilesOf(k) \cap S = {}, NEW j, NEW b, NEW i \in Nat, Progress(k, j, b, i, l, g)
    PROVE  Progress(k, j, b, i, z, w)
<1>1. \A f \in FilesOf(k) : z[f] = l[f] /\ (g[f] = {l[f]} => w[f] = {z[f]})
  BY OneKept, FilesIn
<1>2. /\ z[Man(k)] = l[Man(k)] /\ (g[Man(k)] = {l[Man(k)]} => w[Man(k)] = {z[Man(k)]})
      /\ z[Ids(k)] = l[Ids(k)] /\ (g[Ids(k)] = {l[Ids(k)]} => w[Ids(k)] = {z[Ids(k)]})
      /\ z[St(k)] = l[St(k)] /\ (g[St(k)] = {l[St(k)]} => w[St(k)] = {z[St(k)]})
      /\ \A n \in Blocks(k) : z[Blk(n)] = l[Blk(n)] /\ (g[Blk(n)] = {l[Blk(n)]} => w[Blk(n)] = {z[Blk(n)]})
  BY <1>1 DEF FilesOf
<1>3. Sums(z, k) = Sums(l, k)
  BY <1>2 DEF Sums
<1> QED
  BY <1>2, <1>3 DEF Progress

\* One step further, by an fsync or by writing a file.
LEMMA SyncProgress ==
    ASSUME NEW l, NEW g, NEW w, Mapped(l, g), NEW dir,
           w = [f \in Files |-> IF f \in dir THEN {l[f]} ELSE g[f]],
           NEW k \in Keys, NEW j, NEW b, NEW i \in {0, 3, 5}, Progress(k, j, b, i, l, g),
           i = 0 => dir = BlockFiles, i # 0 => dir = PointFiles
    PROVE  Progress(k, j, b, i + 1, l, w)
<1>1. Mapped(l, w) /\ Kept(l, g, l, w, {}) /\ \A f \in dir \cap Files : w[f] = {l[f]}
  BY SyncMapped
<1>2. Progress(k, j, b, i, l, w)
  BY <1>1, ProgressKept
<1>3. CASE i = 0
  <2>1. \A n \in Blocks(k) : w[Blk(n)] = {l[Blk(n)]}
    BY <1>1, <1>3, FilesIn, NamesType
  <2> QED
    BY <1>2, <1>3, <2>1 DEF Progress
<1>4. CASE i # 0
  <2>1. w[Ids(k)] = {l[Ids(k)]} /\ w[St(k)] = {l[St(k)]} /\ w[Man(k)] = {l[Man(k)]}
    BY <1>1, <1>4, FilesIn
  <2> QED
    BY <1>2, <1>4, <2>1 DEF Progress
<1> QED
  BY <1>3, <1>4

LEMMA PutProgress ==
    ASSUME NEW l, NEW g, NEW z, NEW w, Mapped(z, w), NEW k \in Keys, NEW j, NEW b, NEW i \in {1, 2, 4},
           NEW f, f = (IF i = 1 THEN Ids(k) ELSE IF i = 2 THEN St(k) ELSE Man(k)),
           Kept(l, g, z, w, {f}), Progress(k, j, b, i, l, g),
           z[f] = IF i = 4 THEN Manifest(j, b, Sums(l, k)) ELSE Plain(j)
    PROVE  Progress(k, j, b, i + 1, z, w)
<1>1. \A h \in FilesOf(k) \ {f} : z[h] = l[h] /\ (g[h] = {l[h]} => w[h] = {z[h]})
  BY OneKept, FilesIn
<1>2. /\ \A n \in Blocks(k) : Blk(n) \in FilesOf(k) \ {f}
      /\ i # 1 => Ids(k) \in FilesOf(k) \ {f}
      /\ i # 2 => St(k) \in FilesOf(k) \ {f}
  BY Apart DEF FilesOf
<1>3. /\ \A n \in Blocks(k) : z[Blk(n)] = l[Blk(n)] /\ (g[Blk(n)] = {l[Blk(n)]} => w[Blk(n)] = {z[Blk(n)]})
      /\ i # 1 => z[Ids(k)] = l[Ids(k)] /\ (g[Ids(k)] = {l[Ids(k)]} => w[Ids(k)] = {z[Ids(k)]})
      /\ i # 2 => z[St(k)] = l[St(k)] /\ (g[St(k)] = {l[St(k)]} => w[St(k)] = {z[St(k)]})
  BY <1>1, <1>2
<1>4. Sums(z, k) = Sums(l, k)
  BY <1>3 DEF Sums
<1>5. /\ \A n \in Blocks(k) : z[Blk(n)] # Absent /\ w[Blk(n)] = {z[Blk(n)]}
      /\ i = 1 => z[Ids(k)] = Plain(j)
      /\ i = 2 => z[Ids(k)] = Plain(j) /\ z[St(k)] = Plain(j)
      /\ i = 4 => /\ z[Ids(k)] = Plain(j) /\ z[St(k)] = Plain(j)
                  /\ w[Ids(k)] = {z[Ids(k)]} /\ w[St(k)] = {z[St(k)]}
                  /\ z[Man(k)] = Manifest(j, b, Sums(z, k))
  BY <1>3, <1>4 DEF Progress
<1> QED
  BY <1>5 DEF Progress

\* Undoing it, the manifest first.
LEMMA UndoProgress ==
    ASSUME NEW l, NEW g, NEW z, NEW w, Mapped(z, w), NEW k \in Keys, NEW j, NEW b, NEW i \in {7, 8, 9},
           NEW f, f = (IF i = 7 THEN Man(k) ELSE IF i = 8 THEN St(k) ELSE Ids(k)),
           Kept(l, g, z, w, {f}), Progress(k, j, b, i, l, g), z[f] = Absent
    PROVE  Progress(k, j, b, i + 1, z, w)
<1>1. \A h \in FilesOf(k) \ {f} : z[h] = l[h]
  BY OneKept, FilesIn
<1>2. /\ \A n \in Blocks(k) : Blk(n) \in FilesOf(k) \ {f}
      /\ i # 7 => Man(k) \in FilesOf(k) \ {f}
  BY Apart DEF FilesOf
<1>3. (\A n \in Blocks(k) : z[Blk(n)] = l[Blk(n)]) /\ (i # 7 => z[Man(k)] = l[Man(k)])
  BY <1>1, <1>2
<1> QED
  BY <1>3 DEF Progress

\* A publication that is done cannot be lost.
LEMMA DoneLasting ==
    ASSUME NEW l, NEW g, Mapped(l, g), NEW k \in Keys, NEW j \in Jobs, NEW b, Progress(k, j, b, 6, l, g)
    PROVE  Lasting(g, k) /\ Complete(l, k)
<1>1. /\ \A n \in Blocks(k) : l[Blk(n)] # Absent /\ g[Blk(n)] = {l[Blk(n)]}
      /\ l[Ids(k)] = Plain(j) /\ l[St(k)] = Plain(j)
      /\ g[Ids(k)] = {l[Ids(k)]} /\ g[St(k)] = {l[St(k)]}
      /\ l[Man(k)] = Manifest(j, b, Sums(l, k)) /\ g[Man(k)] = {l[Man(k)]}
  BY DEF Progress
<1>2. j # 0
  BY DEF Jobs
<1> DEFINE m == Manifest(j, b, Sums(l, k))
<1>3. m.by = j /\ \A n \in Blocks(k) : m.crc[n] = l[Blk(n)].by
  BY PlainIs DEF Sums
<1>4. \A n \in Blocks(k) : l[Blk(n)] = Plain(l[Blk(n)].by)
  BY FilesIn, NamesType, Apart DEF Mapped, Fits
<1>5. \A n \in Blocks(k) : l[Blk(n)].by # 0
  BY <1>1, <1>4 DEF Absent
<1>6. g[Man(k)] = {m} /\ g[St(k)] = {Plain(j)} /\ g[Ids(k)] = {Plain(j)}
  BY <1>1
<1>7. \A n \in Blocks(k) : g[Blk(n)] = {Plain(m.crc[n])} /\ m.crc[n] # Absent.by
  BY <1>1, <1>3, <1>4, <1>5, PlainIs
<1>8. m.by # Absent.by /\ Absent \notin g[Ids(k)] /\ g[St(k)] = {Plain(m.by)}
  BY <1>2, <1>3, <1>6, PlainIs
<1> HIDE DEF m
<1>9. Lasting(g, k)
  BY <1>6, <1>7, <1>8 DEF Lasting
<1> QED
  BY <1>9, LastingComplete

-----------------------------------------------------------------------------
(* The invariant *)

DiskTypes ==
    /\ Mapped(live, may)
    /\ phase \in {"up", "down", "sweep"} /\ step \in 0 .. 10
    /\ temps \in BOOLEAN /\ sweep \subseteq Files /\ sealed \subseteq Keys

PhaseFits == phase # "up" => running = Idle /\ reading = {} /\ tickets = {}

\* The index is exact while the store is open, and what an open rebuilds is.
IndexFits ==
    /\ phase = "up" => \E m : Slack(m) /\ Indexed(m)
    /\ phase = "sweep" => \E m : Slack(m) /\ Exact(store, {}, {}, {}, {}, m) /\ Referenced(store)

\* Whatever the index lists is there.
Listed ==
    /\ \A k \in store.points : Complete(live, k)
    /\ \A n \in store.have : live[Blk(n)] # Absent

\* What the open deletes is of no point that is whole, and no block it found.
SweepFits ==
    phase = "sweep" =>
        /\ store.have \subseteq UNION {Blocks(k) : k \in store.points}
        /\ \A k \in Keys : Complete(live, k) => FilesOf(k) \cap sweep = {}

SealedFits == phase # "down" => sealed \subseteq store.points

RunningKey == store.jobs[running.job].key

WriterFits ==
    /\ running.kind = "point" => Progress(RunningKey, running.job, running.flag, step, live, may)
    /\ running.kind = "block" => step \in {0, 1} /\ (step = 1 => live[Blk(running.name)] # Absent)
    /\ running.kind = "shared" => step \in {0, 1, 2} /\ (step # 0 => live[Man(running.key)].shared = TRUE)

Core ==
    /\ IInv /\ DiskTypes /\ PhaseFits /\ IndexFits /\ Listed /\ SweepFits /\ SealedFits
    /\ WriterFits /\ SealedIsDurable

LEMMA SealedIs == SealedIsDurable <=> \A k \in sealed : Lasting(may, k)
BY DEF SealedIsDurable, Lasting

LEMMA Busy ==
    ASSUME PhaseFits, running.kind \in {"block", "point", "shared"}
    PROVE  phase = "up"
BY DEF PhaseFits, Idle

\* An open store.
LEMMA UpIs ==
    ASSUME Core, phase = "up"
    PROVE  /\ \E m \in Int : m <= 0 /\ Indexed(m)
           /\ store \in Store /\ PointsWhole(store)
           /\ running.kind = "block" => running.name \in Names /\ running.name \notin store.have
                                        /\ running \in BlockTask
           /\ running.kind = "point" => /\ running.job \in Jobs /\ running.job \in Live(store)
                                        /\ store.jobs[running.job].state = "publishing"
                                        /\ RunningKey \in Keys /\ RunningKey \notin store.points
           /\ running.kind = "shared" => running.key \in Keys
<1>1. PICK m : Slack(m) /\ Indexed(m)
  BY DEF Core, IndexFits
<1>2. m \in Int /\ m <= 0 /\ IInv
  BY <1>1 DEF Slack, Core
<1>3. store \in Store /\ Exact(store, {}, {}, RunningName, RunningPoint, m)
  BY <1>1, <1>2, IndexedIs
<1>4. PointsWhole(store) /\ RunningName \cap store.have = {}
  BY <1>3, ExactIs DEF TasksFit
<1>5. running \in Writing \cup SharedTask \cup {Idle}
  BY <1>2 DEF IInv, TypeOK
<1>6. ASSUME running.kind = "block"
      PROVE  running.name \in Names /\ running.name \notin store.have /\ running \in BlockTask
  <2>1. running \in BlockTask
    BY <1>5, <1>6 DEF Writing, SharedTask, Idle
  <2> QED
    BY <1>4, <1>6, <2>1 DEF BlockTask, RunningName
<1>7. ASSUME running.kind = "point"
      PROVE  /\ running.job \in Jobs /\ running.job \in Live(store)
             /\ store.jobs[running.job].state = "publishing"
             /\ RunningKey \in Keys /\ RunningKey \notin store.points
  BY <1>1, <1>2, <1>7, PointIs DEF RunningKey
<1>8. ASSUME running.kind = "shared" PROVE running.key \in Keys
  BY <1>5, <1>8 DEF Writing, BlockTask, SharedTask, Idle
<1> QED
  BY <1>1, <1>2, <1>3, <1>4, <1>6, <1>7, <1>8

\* A step of the disk that leaves what the index lists.
LEMMA ListedKept ==
    ASSUME NEW s, s.points \subseteq Keys, s.have \subseteq Names, NEW l, NEW g, NEW z, NEW w, NEW S,
           Kept(l, g, z, w, S), Spares(s, S),
           \A k \in s.points : Complete(l, k), \A n \in s.have : l[Blk(n)] # Absent
    PROVE  /\ \A k \in s.points : Complete(z, k)
           /\ \A n \in s.have : z[Blk(n)] # Absent
<1>1. \A k \in s.points : FilesOf(k) \cap S = {} /\ k \in Keys
  BY DEF Spares
<1>2. \A k \in s.points : Complete(z, k)
  BY <1>1, KeptComplete
<1>3. \A n \in s.have : Blk(n) \in Files \ S
  BY FilesIn DEF Spares
<1> QED
  BY <1>2, <1>3 DEF Kept

LEMMA OnDiskKeeps ==
    ASSUME Core, phase = "up", UNCHANGED <<vars, phase, sweep, sealed>>,
           step' \in 0 .. 10, temps' \in BOOLEAN, Mapped(live', may'), Listed', SealedIsDurable', WriterFits'
    PROVE  Core'
<1>1. IInv'
  <2>1. UNCHANGED vars
    OBVIOUS
  <2> QED
    BY <2>1, WholeStep DEF Core
<1>2. \A m : Indexed(m) => Indexed(m)'
  <2>1. UNCHANGED <<store, running, files, manifest>>
    BY DEF vars
  <2>2. RunningName' = RunningName /\ RunningPoint' = RunningPoint
    BY <2>1 DEF RunningName, RunningPoint
  <2> QED
    BY <2>1, <2>2 DEF Indexed
<1>3. IndexFits' /\ SweepFits'
  BY <1>2 DEF Core, IndexFits, SweepFits
<1>4. PhaseFits' /\ SealedFits'
  BY DEF Core, PhaseFits, SealedFits, vars
<1>5. DiskTypes'
  BY DEF Core, DiskTypes
<1> QED
  BY <1>1, <1>3, <1>4, <1>5 DEF Core

LEMMA SparedKeeps ==
    ASSUME Core, phase = "up", UNCHANGED <<vars, phase, sweep, sealed>>,
           step' \in 0 .. 10, temps' \in BOOLEAN, Mapped(live', may'),
           NEW S, Kept(live, may, live', may', S), Spares(store, S), WriterFits'
    PROVE  Core'
<1>1. store' = store /\ sealed' = sealed /\ store \in Store /\ sealed \subseteq store.points
  BY UpIs DEF vars, Core, SealedFits
<1>2. store.points \subseteq Keys /\ store.have \subseteq Names
  BY <1>1, StoreFields
<1>3. Listed'
  <2> DEFINE z == live'
             w == may'
  <2>1. Kept(live, may, z, w, S)
    OBVIOUS
  <2>2. (\A k \in store.points : Complete(live, k)) /\ \A n \in store.have : live[Blk(n)] # Absent
    BY DEF Core, Listed
  <2> HIDE DEF z, w
  <2>3. (\A k \in store.points : Complete(z, k)) /\ \A n \in store.have : z[Blk(n)] # Absent
    BY <1>2, <2>1, <2>2, ListedKept
  <2> QED
    BY <1>1, <2>3 DEF Listed, z
<1>4. SealedIsDurable'
  <2> DEFINE z == live'
             w == may'
  <2>1. Kept(live, may, z, w, S) /\ Mapped(z, w)
    OBVIOUS
  <2>2. \A k \in sealed : Lasting(may, k) /\ k \in Keys /\ FilesOf(k) \cap S = {}
    BY <1>1, <1>2, SealedIs DEF Core, Spares
  <2> HIDE DEF z, w
  <2>3. \A k \in sealed : Lasting(w, k)
    BY <2>1, <2>2, KeptLasting
  <2>4. \A k \in sealed' : Lasting(may', k)
    BY <1>1, <2>3 DEF w
  <2> QED
    BY <2>4 DEF SealedIsDurable, Lasting
<1> QED
  BY <1>3, <1>4, OnDiskKeeps

-----------------------------------------------------------------------------
(* The writer's steps on the disk *)

\* The writer's steps on the disk.
LEMMA EntryIs ==
    ASSUME Mapped(live, may), NEW f \in Files, NEW c, Fits(f, c), Entry(f, c)
    PROVE  /\ Mapped(live', may') /\ Kept(live, may, live', may', {f})
           /\ live'[f] = c /\ may'[f] = may[f] \cup {c}
<1> DEFINE z == live'
           w == may'
<1>1. Puts(live, may, z, w, f, c)
  BY DEF Puts, Entry, Survivors
<1>3. Mapped(live, may) /\ f \in Files /\ Fits(f, c)
  OBVIOUS
<1> HIDE DEF z, w
<1>2. Mapped(z, w) /\ Kept(live, may, z, w, {f}) /\ z[f] = c /\ w[f] = may[f] \cup {c}
  <2> DEFINE l == live
             g == may
  <2>1. Puts(l, g, z, w, f, c) /\ Mapped(l, g)
    BY <1>1, <1>3
  <2> HIDE DEF l, g
  <2>2. Mapped(z, w)
    BY <2>1, <1>3, PutMapped
  <2>3. Kept(l, g, z, w, {f})
    BY <2>1, <1>3, PutMapped
  <2>4. z[f] = c /\ w[f] = g[f] \cup {c}
    <3>1. f \in DOMAIN l /\ f \in DOMAIN g
      BY <1>3, <2>1 DEF Mapped
    <3> QED
      BY <2>1, <3>1 DEF Puts
  <2> QED
    BY <2>2, <2>3, <2>4 DEF l, g
<1> QED
  BY <1>2 DEF z, w

LEMMA SyncIs ==
    ASSUME Mapped(live, may), NEW dir, SyncDir(dir)
    PROVE  Mapped(live', may') /\ Kept(live, may, live', may', {}) /\ live' = live
<1> DEFINE w == may'
<1>1. w = [f \in Files |-> IF f \in dir THEN {live[f]} ELSE may[f]] /\ live' = live
  BY DEF SyncDir
<1> HIDE DEF w
<1>2. Mapped(live, w) /\ Kept(live, may, live, w, {})
  BY <1>1, SyncMapped
<1> QED
  BY <1>1, <1>2 DEF w

LEMMA PutBlockCore ==
    ASSUME Core, PutBlock
    PROVE  Core'
<1> DEFINE n == running.name
           c == Plain(running.job)
<1>1. phase = "up"
  BY Busy DEF Core, PutBlock
<1>2. /\ n \in Names /\ n \notin store.have /\ store \in Store /\ PointsWhole(store)
      /\ running \in BlockTask
  BY <1>1, UpIs DEF PutBlock
<1>3. Blk(n) \in Files /\ Mapped(live, may)
  BY <1>2, FilesIn DEF Core, DiskTypes
<1>4. Entry(Blk(n), c) /\ Fits(Blk(n), c)
  BY PlainFits DEF PutBlock
<1>5. c # Absent
  BY <1>2, PlainIs DEF BlockTask, Jobs
<1> HIDE DEF c
<1>6. /\ Mapped(live', may') /\ Kept(live, may, live', may', {Blk(n)}) /\ live'[Blk(n)] = c
  BY <1>3, <1>4, EntryIs
<1>7. Spares(store, {Blk(n)})
  BY <1>2, SparesBlock
<1>8. /\ UNCHANGED <<vars, phase, sweep, sealed>> /\ step' = 1 /\ temps' \in BOOLEAN
      /\ running.kind = "block" /\ running' = running
  BY DEF PutBlock, OnDisk, vars, Core, DiskTypes
<1>9. WriterFits'
  BY <1>5, <1>6, <1>8 DEF WriterFits
<1> QED
  BY <1>1, <1>6, <1>7, <1>8, <1>9, SparedKeeps

LEMMA PublishCore ==
    ASSUME Core, Publish
    PROVE  Core'
<1> DEFINE j == running.job
           k == RunningKey
           b == running.flag
           i == step
           z == live'
           w == may'
<1>1. running.kind = "point" /\ i \in 0 .. 5
  BY PublishedIs DEF Publish, Core, DiskTypes
<1>2. phase = "up"
  BY <1>1, Busy DEF Core
<1>3. j \in Jobs /\ k \in Keys /\ k \notin store.points /\ store \in Store
  BY <1>1, <1>2, UpIs
<1>4. Mapped(live, may) /\ Progress(k, j, b, i, live, may)
  BY <1>1 DEF Core, DiskTypes, WriterFits
<1>5. /\ UNCHANGED <<vars, phase, sweep, sealed>> /\ step' = i + 1 /\ temps' \in BOOLEAN
      /\ running' = running /\ RunningKey' = k
  BY DEF Publish, OnDisk, vars, Core, DiskTypes, RunningKey
<1>6. /\ i = 0 => SyncDir(BlockFiles)
      /\ i \in {3, 5} => SyncDir(PointFiles)
      /\ i = 1 => Entry(Ids(k), Plain(j))
      /\ i = 2 => Entry(St(k), Plain(j))
      /\ i = 4 => Entry(Man(k), Manifest(j, b, Sums(live, k)))
  <2>1. Checksums(k) = Sums(live, k)
    BY DEF Checksums, Sums
  <2> DEFINE op == Publication[i + 1]
  <2>2. \/ op = "blocks" /\ SyncDir(BlockFiles)
        \/ op = "points" /\ SyncDir(PointFiles)
        \/ op = "ids" /\ Entry(Ids(k), Plain(j))
        \/ op = "st" /\ Entry(St(k), Plain(j))
        \/ op = "man" /\ Entry(Man(k), Manifest(j, b, Sums(live, k)))
    BY <2>1 DEF Publish, RunningKey
  <2>3. /\ i = 0 => op = "blocks"
        /\ i \in {3, 5} => op = "points"
        /\ i = 1 => op = "ids"
        /\ i = 2 => op = "st"
        /\ i = 4 => op = "man"
    BY <1>1, PublishedIs
  <2> HIDE DEF op, i, k, j, b
  <2> QED
    BY <2>2, <2>3
<1> SUFFICES \E S : /\ Mapped(z, w) /\ Kept(live, may, z, w, S) /\ Spares(store, S)
                    /\ Progress(k, j, b, i + 1, z, w)
  <2>1. PICK S : /\ Mapped(z, w) /\ Kept(live, may, z, w, S) /\ Spares(store, S)
                 /\ Progress(k, j, b, i + 1, z, w)
    OBVIOUS
  <2>2. WriterFits'
    BY <1>1, <1>5, <2>1 DEF WriterFits
  <2> QED
    BY <1>1, <1>2, <1>5, <2>1, <2>2, SparedKeeps
<1> HIDE DEF z, w, i, j, k, b
<1>7. CASE i \in {0, 3, 5}
  <2> DEFINE dir == IF i = 0 THEN BlockFiles ELSE PointFiles
  <2>1. SyncDir(dir)
    BY <1>6, <1>7
  <2>2. w = [f \in Files |-> IF f \in dir THEN {live[f]} ELSE may[f]] /\ z = live
    BY <2>1 DEF SyncDir, w, z
  <2>3. (i = 0 => dir = BlockFiles) /\ (i # 0 => dir = PointFiles)
    OBVIOUS
  <2> HIDE DEF dir
  <2>4. Mapped(z, w) /\ Kept(live, may, z, w, {})
    BY <1>4, <2>2, SyncMapped
  <2>5. Progress(k, j, b, i + 1, z, w)
    BY <1>3, <1>4, <1>7, <2>2, <2>3, SyncProgress
  <2> QED
    BY <2>4, <2>5, SparesNone
<1>8. CASE i \in {1, 2, 4}
  <2> DEFINE f == IF i = 1 THEN Ids(k) ELSE IF i = 2 THEN St(k) ELSE Man(k)
             c == IF i = 4 THEN Manifest(j, b, Sums(live, k)) ELSE Plain(j)
  <2>1. Entry(f, c)
    BY <1>6, <1>8
  <2>2. f \in Files /\ f \in {Man(k), Ids(k), St(k)}
    BY <1>3, FilesIn
  <2>3. Fits(f, c)
    <3>1. b \in BOOLEAN
      BY <1>1 DEF b, Core, IInv, TypeOK, Writing, BlockTask, SharedTask, Idle
    <3>2. Fits(f, Plain(j)) /\ Fits(Man(k), Manifest(j, b, Sums(live, k)))
      BY <3>1, PlainFits, ManifestFits
    <3> QED
      BY <3>2
  <2>4. f = (IF i = 1 THEN Ids(k) ELSE IF i = 2 THEN St(k) ELSE Man(k))
    OBVIOUS
  <2>5. c = IF i = 4 THEN Manifest(j, b, Sums(live, k)) ELSE Plain(j)
    OBVIOUS
  <2> HIDE DEF f, c
  <2>6. Mapped(z, w) /\ Kept(live, may, z, w, {f}) /\ z[f] = c
    BY <1>4, <2>1, <2>2, <2>3, EntryIs DEF z, w
  <2>7. Progress(k, j, b, i + 1, z, w)
    BY <1>3, <1>4, <1>8, <2>4, <2>5, <2>6, PutProgress
  <2>8. Spares(store, {f})
    BY <1>3, <2>2, SparesPoint
  <2> QED
    BY <2>6, <2>7, <2>8
<1> QED
  BY <1>1, <1>7, <1>8 DEF i

LEMMA PublishFailsCore ==
    ASSUME Core, PublishFails
    PROVE  Core'
<1>1. running.kind = "point" /\ step \in 0 .. 5 /\ step' = 7
  BY PublishedIs DEF PublishFails, Core, DiskTypes
<1>2. phase = "up"
  BY <1>1, Busy DEF Core
<1>3. /\ UNCHANGED <<vars, live, may, phase, sweep, sealed>> /\ temps' \in BOOLEAN
      /\ running' = running /\ RunningKey' = RunningKey
  BY DEF PublishFails, vars, Core, DiskTypes, RunningKey
<1>4. Progress(RunningKey, running.job, running.flag, 7, live, may)
  BY <1>1 DEF Core, WriterFits, Progress
<1>5. WriterFits'
  BY <1>1, <1>3, <1>4 DEF WriterFits
<1>6. Mapped(live', may') /\ Kept(live, may, live', may', {}) /\ Spares(store, {})
  BY <1>3, SparesNone DEF Core, DiskTypes, Kept
<1> QED
  BY <1>1, <1>2, <1>3, <1>5, <1>6, SparedKeeps

LEMMA UndoCore ==
    ASSUME Core, Undo
    PROVE  Core'
<1> DEFINE j == running.job
           k == RunningKey
           b == running.flag
           i == step
           z == live'
           w == may'
           f == IF i = 7 THEN Man(k) ELSE IF i = 8 THEN St(k) ELSE Ids(k)
<1>1. running.kind = "point" /\ i \in {7, 8, 9}
  BY PublishedIs DEF Undo, Core, DiskTypes
<1>2. phase = "up"
  BY <1>1, Busy DEF Core
<1>3. j \in Jobs /\ k \in Keys /\ k \notin store.points /\ store \in Store
  BY <1>1, <1>2, UpIs
<1>4. Mapped(live, may) /\ Progress(k, j, b, i, live, may)
  BY <1>1 DEF Core, DiskTypes, WriterFits
<1>5. /\ UNCHANGED <<vars, phase, sweep, sealed>> /\ step' = i + 1 /\ temps' \in BOOLEAN
      /\ running' = running /\ RunningKey' = k
  BY DEF Undo, OnDisk, vars, Core, DiskTypes, RunningKey
<1>6. Entry(f, Absent)
  <2>1. Entry(Deletion(k)[i - 6], Absent)
    BY PublishedIs DEF Undo, RunningKey
  <2>2. /\ i = 7 => Deletion(k)[i - 6] = Man(k)
        /\ i = 8 => Deletion(k)[i - 6] = St(k)
        /\ i = 9 => Deletion(k)[i - 6] = Ids(k)
    BY PublishedIs
  <2>3. Deletion(k)[i - 6] = f
    BY <1>1, <2>2
  <2> QED
    BY <2>1, <2>3
<1>7. f \in {Man(k), Ids(k), St(k)} /\ f \in Files
  BY <1>3, FilesIn
<1>8. f = (IF i = 7 THEN Man(k) ELSE IF i = 8 THEN St(k) ELSE Ids(k))
  OBVIOUS
<1> HIDE DEF f
<1>9. Mapped(z, w) /\ Kept(live, may, z, w, {f}) /\ z[f] = Absent
  BY <1>4, <1>6, <1>7, PlainFits, EntryIs
<1>10. Spares(store, {f})
  BY <1>3, <1>7, SparesPoint
<1>11. Progress(k, j, b, i + 1, z, w)
  <2> HIDE DEF z, w, i, j, k, b
  <2> QED
    BY <1>1, <1>3, <1>4, <1>8, <1>9, UndoProgress
<1>12. WriterFits'
  BY <1>1, <1>5, <1>11 DEF WriterFits
<1> QED
  BY <1>1, <1>2, <1>5, <1>9, <1>10, <1>12, SparedKeeps

\* A manifest written again: the same write, the same checksums.
LEMMA RewrittenKept ==
    ASSUME NEW l, NEW g, NEW z, NEW w, Mapped(l, g), Mapped(z, w), NEW p \in Keys,
           Kept(l, g, z, w, {Man(p)}), NEW c, z[Man(p)] = c, w[Man(p)] = g[Man(p)] \cup {c},
           c.by = l[Man(p)].by, c.crc = l[Man(p)].crc, c # Absent
    PROVE  /\ \A k \in Keys : Complete(l, k) => Complete(z, k)
           /\ \A k \in Keys : Lasting(g, k) => Lasting(w, k)
           /\ \A n \in Names : z[Blk(n)] = l[Blk(n)]
<1>1. \A f \in Files \ {Man(p)} : z[f] = l[f] /\ w[f] \subseteq g[f]
  BY DEF Kept
<1>2. \A f \in Files : l[f] \in g[f] /\ z[f] \in w[f]
  BY DEF Mapped
<1>3. \A k \in Keys : Complete(l, k) => Complete(z, k)
  BY <1>1, FilesIn DEF Complete
<1>4. ASSUME NEW k \in Keys, Lasting(g, k) PROVE Lasting(w, k)
  <2>1. \A f \in FilesOf(k) \ {Man(k)} : w[f] \subseteq g[f] /\ w[f] # {}
    <3> TAKE f \in FilesOf(k) \ {Man(k)}
    <3>1. f # Man(p)
      BY FilesOfApart
    <3>2. f \in Files
      BY FilesIn
    <3> QED
      BY <1>1, <1>2, <3>1, <3>2
  <2>2. \A m \in w[Man(k)] : \E o \in g[Man(k)] : m.by = o.by /\ m.crc = o.crc
    <3>1. CASE k = p
      <4>1. l[Man(p)] \in g[Man(p)]
        BY <1>2, FilesIn
      <4> QED
        BY <3>1, <4>1
    <3>2. CASE k # p
      <4>1. Man(k) \in Files \ {Man(p)}
        BY <3>2, FilesIn, Apart
      <4> QED
        BY <1>1, <4>1
    <3> QED
      BY <3>1, <3>2
  <2> QED
    BY <1>4, <2>1, <2>2, SomeLasting
<1>5. \A n \in Names : z[Blk(n)] = l[Blk(n)]
  BY <1>1, FilesIn, Apart
<1> QED
  BY <1>3, <1>4, <1>5

LEMMA RewriteCore ==
    ASSUME Core, Rewrite
    PROVE  Core'
<1> DEFINE k == running.key
           z == live'
           w == may'
<1>1. running.kind = "shared" /\ step \in {0, 1}
  BY DEF Rewrite, Core, DiskTypes
<1>2. phase = "up"
  BY <1>1, Busy DEF Core
<1>3. k \in Keys /\ store \in Store /\ Man(k) \in Files
  BY <1>1, <1>2, UpIs, FilesIn
<1>4. Mapped(live, may) /\ (step # 0 => live[Man(k)].shared = TRUE)
  BY <1>1 DEF Core, DiskTypes, WriterFits
<1>5. /\ UNCHANGED <<vars, phase, sweep, sealed>> /\ step' = step + 1 /\ temps' \in BOOLEAN
      /\ running' = running /\ store' = store /\ sealed' = sealed
  BY DEF Rewrite, OnDisk, vars, Core, DiskTypes
<1>6. CASE step = 0
  <2> DEFINE f == Man(k)
             c == [live[f] EXCEPT !.shared = TRUE]
  <2>1. Entry(f, c)
    BY <1>6 DEF Rewrite
  <2>2. Fits(f, live[f])
    BY <1>3, <1>4 DEF Mapped
  <2>3. Fits(f, c) /\ c.by = live[f].by /\ c.crc = live[f].crc /\ c.shared = TRUE /\ c # Absent
    BY <2>2, SharedFits
  <2> HIDE DEF c
  <2>4. Mapped(z, w) /\ Kept(live, may, z, w, {f}) /\ z[f] = c /\ w[f] = may[f] \cup {c}
    BY <1>3, <1>4, <2>1, <2>3, EntryIs
  <2>5. WriterFits'
    BY <1>1, <1>5, <1>6, <2>3, <2>4 DEF WriterFits
  <2>6. store.points \subseteq Keys /\ store.have \subseteq Names /\ sealed \subseteq Keys
    BY <1>3, StoreFields DEF Core, DiskTypes
  <2> HIDE DEF z, w, k
  <2>7. /\ \A p \in Keys : Complete(live, p) => Complete(z, p)
        /\ \A p \in Keys : Lasting(may, p) => Lasting(w, p)
        /\ \A n \in Names : z[Blk(n)] = live[Blk(n)]
    BY <1>3, <1>4, <2>3, <2>4, RewrittenKept
  <2>8. Listed'
    <3>1. (\A p \in store.points : Complete(z, p)) /\ \A n \in store.have : z[Blk(n)] # Absent
      BY <2>6, <2>7 DEF Core, Listed
    <3> QED
      BY <1>5, <3>1 DEF Listed, z
  <2>9. SealedIsDurable'
    <3>1. \A p \in sealed : Lasting(w, p)
      BY <2>6, <2>7, SealedIs DEF Core
    <3>2. \A p \in sealed' : Lasting(may', p)
      BY <1>5, <3>1 DEF w
    <3> QED
      BY <3>2 DEF SealedIsDurable, Lasting
  <2>10. Mapped(live', may') /\ step' \in 0 .. 10
    BY <1>5, <1>6, <2>4 DEF z, w
  <2> QED
    BY <1>2, <1>5, <2>5, <2>8, <2>9, <2>10, OnDiskKeeps
<1>7. CASE step = 1
  <2>1. SyncDir(PointFiles)
    BY <1>7 DEF Rewrite
  <2>2. Mapped(z, w) /\ Kept(live, may, z, w, {}) /\ z = live
    BY <1>4, <2>1, SyncIs
  <2>3. WriterFits'
    BY <1>1, <1>4, <1>5, <1>7, <2>2 DEF WriterFits
  <2>4. step' \in 0 .. 10
    BY <1>5, <1>7
  <2> QED
    BY <1>2, <1>5, <2>2, <2>3, <2>4, SparesNone, SparedKeeps
<1> QED
  BY <1>1, <1>6, <1>7

LEMMA DeleteOneCore ==
    ASSUME Core, DeleteOne
    PROVE  Core'
<1> DEFINE t == Head(store.tasks)
<1>1. phase = "up" /\ Takes("unlink") /\ running = Idle
  BY DEF DeleteOne, Takes
<1>2. PICK m \in Int : m <= 0 /\ Indexed(m)
  BY <1>1, UpIs
<1>3. store \in Store /\ PointsWhole(store) /\ Mapped(live, may)
  BY <1>1, UpIs DEF Core, DiskTypes
<1>4. /\ t \in Task /\ t.kind = "unlink" /\ t.names \cap store.have = {} /\ t.keys \cap store.points = {}
  <2>1. /\ SameIndex(store, Popped) /\ t \in Task /\ t.kind = "unlink"
        /\ t.kind = "unlink" => t.names \cap Popped.have = {} /\ t.keys \cap Popped.points = {}
    BY <1>1, <1>2, TakenExact DEF Core
  <2> HIDE DEF t
  <2> QED
    BY <2>1 DEF SameIndex
<1>5. t.keys \in SUBSET Keys /\ t.names \in SUBSET Names
  BY <1>4, TaskFields
<1>6. PICK f \in NextDeletions(t) : Entry(f, Absent)
  BY DEF DeleteOne
<1> HIDE DEF t
<1>7. f \in Files /\ Spares(store, {f})
  <2>1. CASE \E n \in t.names : f = Blk(n)
    BY <1>3, <1>4, <1>5, <2>1, FilesIn, SparesBlock
  <2>2. CASE \E k \in t.keys : f \in {Man(k), Ids(k), St(k)}
    BY <1>3, <1>4, <1>5, <2>2, FilesIn, SparesPoint
  <2>3. (\E n \in t.names : f = Blk(n)) \/ \E k \in t.keys : \E i \in 1 .. Len(Deletion(k)) : f = Deletion(k)[i]
    BY <1>6 DEF NextDeletions
  <2>4. ASSUME NEW k \in t.keys, NEW i \in 1 .. Len(Deletion(k)), f = Deletion(k)[i]
        PROVE  f \in {Man(k), Ids(k), St(k)}
    <3>1. i \in 1 .. 3
      BY PublishedIs
    <3> QED
      BY <2>4, <3>1, PublishedIs
  <2> QED
    BY <2>1, <2>2, <2>3, <2>4
<1>8. Mapped(live', may') /\ Kept(live, may, live', may', {f})
  BY <1>3, <1>6, <1>7, PlainFits, EntryIs
<1>9. /\ UNCHANGED <<vars, phase, sweep, sealed>> /\ temps' \in BOOLEAN /\ step' \in 0 .. 10 /\ running' = Idle
  BY <1>1 DEF DeleteOne, vars, Core, DiskTypes
<1>10. WriterFits'
  BY <1>9 DEF WriterFits, Idle
<1> QED
  BY <1>1, <1>7, <1>8, <1>9, <1>10, SparedKeeps

-----------------------------------------------------------------------------
(* The steps under the lock *)

\* The critical sections.
LEMMA LockedKeeps ==
    ASSUME Core, phase = "up", phase' = "up", [Next]_vars, UNCHANGED <<sweep, temps>>, step' \in 0 .. 10,
           sealed' \subseteq store'.points, Mapped(live', may'), Listed', SealedIsDurable', WriterFits'
    PROVE  Core'
<1>1. IInv'
  BY WholeStep DEF Core
<1>2. IndexFits'
  <2>1. PICK m : Slack(m) /\ Indexed(m)
    BY DEF Core, IndexFits
  <2>2. m \in Int /\ m <= 0 /\ IInv
    BY <2>1 DEF Slack, Core
  <2>3. Indexed(m)'
    BY <2>1, <2>2, IndexedStep
  <2> QED
    BY <2>1, <2>3 DEF IndexFits
<1>3. PhaseFits' /\ SweepFits' /\ SealedFits'
  BY DEF PhaseFits, SweepFits, SealedFits
<1>4. store'.points \subseteq Keys
  BY <1>1, StoreFields DEF IInv, TypeOK
<1>5. DiskTypes'
  BY <1>4 DEF Core, DiskTypes
<1> QED
  BY <1>1, <1>2, <1>3, <1>5 DEF Core

LEMMA FewerKeeps ==
    ASSUME Core, phase = "up", phase' = "up", [Next]_vars, UNCHANGED <<live, may, sweep, temps>>, step' \in 0 .. 10,
           sealed' = sealed \cap store'.points, store'.points \subseteq store.points, store'.have \subseteq store.have,
           WriterFits'
    PROVE  Core'
<1>1. Listed'
  BY DEF Core, Listed
<1>2. SealedIsDurable'
  <2>1. \A k \in sealed' : Lasting(may', k)
    BY SealedIs DEF Core
  <2> QED
    BY <2>1 DEF SealedIsDurable, Lasting
<1>3. Mapped(live', may')
  BY DEF Core, DiskTypes
<1> QED
  BY <1>1, <1>2, <1>3, LockedKeeps

LEMMA EngineWorks ==
    ASSUME Engine
    PROVE  running' = running
BY DEF Engine, MarkShared, Keep, BeginRead, EndRead, Forget, Captured, Stage, Guard, Cancel, Staged

\* A running point keeps its key.
LEMMA KeyStays ==
    ASSUME Core, phase = "up", Engine, running.kind = "point"
    PROVE  RunningKey' = RunningKey
<1> DEFINE j == running.job
           z == store'
<1>1. PICK m \in Int : m <= 0 /\ Indexed(m)
  BY UpIs
<1>2. IInv /\ IInv' /\ Indexed(m)'
  BY <1>1, WholeStep, IndexedStep DEF Core, Next
<1>3. running' = running
  BY EngineWorks
<1>4. j \in Jobs /\ j \in Live(store)
  BY UpIs
<1>5. j \in Live(z)
  <2>1. Sound(store, tickets \cup RunningCopy, RunningPoint, {})'
    BY <1>2 DEF IInv, Whole
  <2>2. RunningPoint' = {j}
    BY <1>3 DEF RunningPoint
  <2>3. z.jobs[j].state = "publishing"
    BY <2>1, <2>2 DEF Sound, QueueFits
  <2> QED
    BY <1>4, <2>3 DEF Live, LiveStates
<1>6. Moves(store, z)
  BY <1>1, <1>2, EngineMoves
<1> HIDE DEF z, j
<1>7. z.jobs[j].key = store.jobs[j].key
  BY <1>4, <1>5, <1>6 DEF Moves, Live, LiveStates
<1> QED
  BY <1>3, <1>7 DEF RunningKey, j, z

LEMMA EngineCore ==
    ASSUME Core, EngineStep
    PROVE  Core'
<1>1. phase = "up" /\ Engine /\ sealed' = sealed \cap store'.points
      /\ UNCHANGED <<live, may, temps, step, phase, sweep>>
  BY DEF EngineStep
<1>2. PICK m \in Int : m <= 0 /\ Indexed(m)
  BY <1>1, UpIs
<1>3. Moves(store, store')
  BY <1>1, <1>2, EngineMoves DEF Core
<1>4. store'.points \subseteq store.points /\ store'.have \subseteq store.have
  BY <1>3 DEF Moves
<1>5. running' = running
  BY <1>1, EngineWorks
<1>6. running.kind = "point" => RunningKey' = RunningKey
  BY <1>1, KeyStays
<1>7. WriterFits'
  BY <1>1, <1>5, <1>6 DEF Core, WriterFits
<1>8. [Next]_vars /\ step' \in 0 .. 10
  BY <1>1 DEF Next, Core, DiskTypes
<1> QED
  BY <1>1, <1>4, <1>7, <1>8, FewerKeeps

LEMMA TakeCore ==
    ASSUME Core, Take
    PROVE  Core'
<1>1. phase = "up" /\ step' = 0 /\ sealed' = sealed \cap store'.points
      /\ UNCHANGED <<live, may, temps, phase, sweep>>
  BY DEF Take, Locked
<1>2. PICK m \in Int : m <= 0 /\ Indexed(m)
  BY <1>1, UpIs
<1>3. IInv /\ store \in Store /\ Listed
  BY <1>1, UpIs DEF Core
<1>4. Takes("block") \/ Takes("point") \/ Takes("shared")
  BY DEF Take, TakeBlock, TakePoint, TakeShared
<1>5. running = Idle
  BY <1>4 DEF Takes
<1>6. Popped.points = store.points /\ Popped.have = store.have /\ Popped.jobs = store.jobs
  BY <1>2, <1>3, <1>4, PoppedWaits
<1>7. Moves(Popped, store')
  BY <1>2, <1>3, TakeBlockMoves, TakePointMoves, TakeOtherMoves DEF Take
<1>8. store'.points \subseteq store.points /\ store'.have \subseteq store.have
  BY <1>6, <1>7 DEF Moves
<1>9. [Next]_vars
  BY DEF Take, Next, Writer
<1>10. WriterFits'
  <2>1. CASE TakeBlock
    <3>1. Head(store.tasks).kind = "block"
      BY <2>1 DEF TakeBlock, Takes
    <3>2. running'.kind \in {"block", "idle"}
      BY <2>1, <3>1 DEF TakeBlock, Idle
    <3> QED
      BY <1>1, <3>2 DEF WriterFits
  <2>2. CASE TakeShared
    <3>1. Head(store.tasks).kind = "shared"
      BY <2>2 DEF TakeShared, Takes
    <3>2. running'.kind \in {"shared", "idle"}
      BY <2>2, <3>1 DEF TakeShared, Idle
    <3> QED
      BY <1>1, <3>2 DEF WriterFits
  <2>3. CASE TakePoint
    <3> DEFINE j == Head(store.tasks).job
               k == store.jobs[j].key
    <3>1. \/ running' = running
          \/ /\ Blocks(k) \subseteq store.have /\ store' = Popped
             /\ running' = [kind |-> "point", job |-> j, flag |-> k \in store.shared]
      BY <2>3 DEF TakePoint
    <3>2. CASE running' = running
      BY <1>5, <3>2 DEF WriterFits, Idle
    <3>3. CASE /\ Blocks(k) \subseteq store.have /\ store' = Popped
               /\ running' = [kind |-> "point", job |-> j, flag |-> k \in store.shared]
      <4>1. running'.kind = "point" /\ running'.job = j
        BY <3>3
      <4>2. RunningKey' = k
        BY <1>6, <3>3, <4>1 DEF RunningKey
      <4>3. \A n \in Blocks(k) : live[Blk(n)] # Absent
        BY <1>3, <3>3 DEF Listed
      <4> HIDE DEF k, j
      <4>4. Progress(k, running'.job, running'.flag, 0, live, may)
        BY <4>3 DEF Progress
      <4> QED
        BY <1>1, <4>1, <4>2, <4>4 DEF WriterFits
    <3> QED
      BY <3>1, <3>2, <3>3
  <2> QED
    BY <2>1, <2>2, <2>3 DEF Take
<1> QED
  BY <1>1, <1>8, <1>9, <1>10, FewerKeeps

LEMMA DeletedCore ==
    ASSUME Core, Deleted
    PROVE  Core'
<1>1. phase = "up" /\ step' = 0 /\ sealed' = sealed \cap store'.points
      /\ UNCHANGED <<live, may, temps, phase, sweep>> /\ Unlink
  BY DEF Deleted, Locked
<1>2. Takes("unlink") /\ store' = Popped /\ running' = running
  BY <1>1 DEF Unlink
<1>3. store.points \subseteq store.points /\ Popped.points = store.points /\ Popped.have = store.have
  <2>1. PICK m \in Int : m <= 0 /\ Indexed(m)
    BY <1>1, UpIs
  <2> QED
    BY <1>2, <2>1, PoppedWaits DEF Core
<1>4. [Next]_vars
  BY <1>1 DEF Next, Writer
<1>5. WriterFits'
  BY <1>2 DEF Takes, WriterFits, Idle
<1> QED
  BY <1>1, <1>2, <1>3, <1>4, <1>5, FewerKeeps

LEMMA PointUndoneCore ==
    ASSUME Core, PointUndone
    PROVE  Core'
<1>1. phase = "up" /\ step' = 0 /\ sealed' = sealed \cap store'.points
      /\ UNCHANGED <<live, may, temps, phase, sweep>> /\ PointFailed
  BY DEF PointUndone, Locked
<1>2. PICK m \in Int : m <= 0 /\ Indexed(m)
  BY <1>1, UpIs
<1>3. Moves(store, store')
  BY <1>1, <1>2, PointFailedMoves DEF Core
<1>4. store'.points \subseteq store.points /\ store'.have \subseteq store.have
  BY <1>3 DEF Moves
<1>5. [Next]_vars
  BY <1>1 DEF Next, Writer
<1>6. WriterFits'
  BY <1>1 DEF PointFailed, WriterFits, Idle
<1> QED
  BY <1>1, <1>4, <1>5, <1>6, FewerKeeps

LEMMA BlockDoneCore ==
    ASSUME Core, NEW ok \in BOOLEAN, BlockDone(ok)
    PROVE  Core'
<1> DEFINE n == running.name
           a == AddBlock(store, n)
<1>1. phase = "up" /\ step' = 0 /\ sealed' = sealed \cap store'.points
      /\ UNCHANGED <<live, may, temps, phase, sweep>> /\ BlockWritten(ok)
      /\ running.kind = "block" /\ (ok => step = 1) /\ running' = Idle
  BY DEF BlockDone, Locked, BlockWritten
<1>2. PICK m \in Int : m <= 0 /\ Indexed(m)
  BY <1>1, UpIs
<1>3. Moves(IF ok THEN a ELSE store, store') /\ store \in Store /\ n \in Names
  BY <1>1, <1>2, BlockWrittenMoves, UpIs DEF Core
<1>4. a.points = store.points /\ a.have = store.have \cup {n}
  BY <1>3 DEF AddBlock, Store
<1> HIDE DEF a
<1>5. store'.points \subseteq store.points /\ store'.have \subseteq (IF ok THEN store.have \cup {n} ELSE store.have)
  BY <1>3, <1>4 DEF Moves
<1>6. ok => live[Blk(n)] # Absent
  BY <1>1 DEF Core, WriterFits
<1>7. Listed'
  BY <1>1, <1>5, <1>6 DEF Core, Listed
<1>8. SealedIsDurable'
  <2>1. \A k \in sealed' : Lasting(may', k)
    BY <1>1, SealedIs DEF Core
  <2> QED
    BY <2>1 DEF SealedIsDurable, Lasting
<1>9. [Next]_vars
  BY <1>1 DEF Next, Writer
<1>10. WriterFits' /\ Mapped(live', may') /\ sealed' \subseteq store'.points /\ step' \in 0 .. 10
  BY <1>1 DEF WriterFits, Idle, Core, DiskTypes
<1> QED
  BY <1>1, <1>7, <1>8, <1>9, <1>10, LockedKeeps

LEMMA PointDoneCore ==
    ASSUME Core, PointDone
    PROVE  Core'
<1> DEFINE j == running.job
           k == RunningKey
<1>1. phase = "up" /\ step = 6 /\ step' = 0 /\ sealed' = (sealed \cup {k}) \cap store'.points
      /\ UNCHANGED <<live, may, temps, phase, sweep>> /\ PointWritten
      /\ running.kind = "point" /\ running' = Idle
  BY PublishedIs DEF PointDone, PointWritten, RunningKey
<1>2. PICK m \in Int : m <= 0 /\ Indexed(m)
  BY <1>1, UpIs
<1>3. j \in Jobs /\ k \in Keys /\ k \notin store.points /\ store \in Store /\ Mapped(live, may)
  BY <1>1, UpIs DEF Core, DiskTypes
<1>4. Progress(k, j, running.flag, 6, live, may)
  BY <1>1 DEF Core, WriterFits
<1>5. Lasting(may, k) /\ Complete(live, k)
  BY <1>3, <1>4, DoneLasting
<1>6. store'.points \subseteq store.points \cup {k} /\ store'.have \subseteq store.have
  <2>1. CASE Blocks(k) \subseteq store.have
    <3>1. Moves(Gained(store, k), store')
      BY <1>1, <1>2, <2>1, PublishedMoves DEF Core, RunningKey
    <3>2. Gained(store, k).points = store.points \cup {k} /\ Gained(store, k).have = store.have
      BY <1>3, GainedIs
    <3> QED
      BY <3>1, <3>2 DEF Moves
  <2>2. CASE ~(Blocks(k) \subseteq store.have)
    <3>1. Moves(store, store')
      BY <1>1, <1>2, <2>2, DiscardMoves DEF Core, RunningKey
    <3> QED
      BY <3>1 DEF Moves
  <2> QED
    BY <2>1, <2>2
<1>7. Listed'
  BY <1>1, <1>5, <1>6 DEF Core, Listed
<1>8. SealedIsDurable'
  <2>1. \A p \in sealed' : Lasting(may', p)
    BY <1>1, <1>5, SealedIs DEF Core
  <2> QED
    BY <2>1 DEF SealedIsDurable, Lasting
<1>9. [Next]_vars
  BY <1>1 DEF Next, Writer
<1>10. WriterFits' /\ Mapped(live', may') /\ sealed' \subseteq store'.points /\ step' \in 0 .. 10
  BY <1>1, <1>3 DEF WriterFits, Idle
<1> QED
  BY <1>1, <1>7, <1>8, <1>9, <1>10, LockedKeeps

LEMMA SharedDoneCore ==
    ASSUME Core, NEW ok \in BOOLEAN, SharedDone(ok)
    PROVE  Core'
<1> DEFINE k == running.key
           z == live'
           w == may'
<1>1. phase = "up" /\ phase' = "up" /\ step' = 0 /\ UNCHANGED <<temps, sweep, sealed>> /\ SharedWritten(ok)
      /\ running.kind = "shared" /\ running' = Idle /\ store' = store
      /\ IF k \in store.points THEN UNCHANGED <<live, may>> ELSE Entry(Man(k), Absent)
  BY DEF SharedDone, SharedWritten
<1>2. k \in Keys /\ store \in Store /\ Mapped(live, may)
  BY <1>1, UpIs DEF Core, DiskTypes
<1>3. \E S : Mapped(z, w) /\ Kept(live, may, z, w, S) /\ Spares(store, S)
  <2>1. CASE k \in store.points
    <3>1. Mapped(z, w) /\ Kept(live, may, z, w, {}) /\ Spares(store, {})
      BY <1>1, <1>2, <2>1, SparesNone DEF Kept
    <3> QED
      BY <3>1
  <2>2. CASE k \notin store.points
    <3>1. Man(k) \in Files /\ Fits(Man(k), Absent) /\ Entry(Man(k), Absent)
      BY <1>1, <1>2, <2>2, FilesIn, PlainFits
    <3>2. Mapped(z, w) /\ Kept(live, may, z, w, {Man(k)})
      BY <1>2, <3>1, EntryIs
    <3>3. Spares(store, {Man(k)})
      BY <1>2, <2>2, SparesPoint
    <3> QED
      BY <3>2, <3>3
  <2> QED
    BY <2>1, <2>2
<1>4. PICK S : Mapped(z, w) /\ Kept(live, may, z, w, S) /\ Spares(store, S)
  BY <1>3
<1>5. store.points \subseteq Keys /\ store.have \subseteq Names /\ sealed \subseteq store.points
  BY <1>1, <1>2, StoreFields DEF Core, SealedFits
<1>6. (\A p \in store.points : Complete(live, p)) /\ \A n \in store.have : live[Blk(n)] # Absent
  BY DEF Core, Listed
<1>7. \A p \in sealed : Lasting(may, p) /\ p \in Keys /\ FilesOf(p) \cap S = {}
  BY <1>4, <1>5, SealedIs DEF Core, Spares
<1> HIDE DEF z, w
<1>8. (\A p \in store.points : Complete(z, p)) /\ \A n \in store.have : z[Blk(n)] # Absent
  BY <1>4, <1>5, <1>6, ListedKept
<1>9. \A p \in sealed : Lasting(w, p)
  BY <1>4, <1>7, KeptLasting
<1>10. Listed'
  BY <1>1, <1>8 DEF Listed, z
<1>11. SealedIsDurable'
  <2>1. \A p \in sealed' : Lasting(may', p)
    BY <1>1, <1>9 DEF w
  <2> QED
    BY <2>1 DEF SealedIsDurable, Lasting
<1>12. [Next]_vars
  BY <1>1 DEF Next, Writer
<1>13. WriterFits' /\ Mapped(live', may') /\ sealed' \subseteq store'.points /\ step' \in 0 .. 10
  BY <1>1, <1>4, <1>5 DEF WriterFits, Idle, z, w
<1> QED
  BY <1>1, <1>10, <1>11, <1>12, <1>13, LockedKeeps

-----------------------------------------------------------------------------
(* Crashes and the next open *)

\* Crashes and the next open.
LEMMA StopsCore ==
    ASSUME Core, Stops, Mapped(live', may'), \A f \in Files : may'[f] \subseteq may[f]
    PROVE  Core'
<1>1. store \in Store /\ sealed \subseteq Keys
  BY DEF Core, IInv, TypeOK, DiskTypes
<1>2. /\ phase' = "down" /\ store' = Closed /\ reading' = {} /\ tickets' = {} /\ running' = Idle
      /\ files' = {} /\ manifest' = [k \in Keys |-> "none"] /\ sweep' = {} /\ step' = 0 /\ sealed' = sealed
  BY DEF Stops
<1>3. temps' \in BOOLEAN
  <2>1. temps \in BOOLEAN /\ temps' \in {temps, temps \/ Putting}
    BY DEF Core, DiskTypes, Stops
  <2>2. (temps \/ Putting) \in BOOLEAN
    OBVIOUS
  <2> QED
    BY <2>1, <2>2
<1>4. Fresh(store') /\ store'.points = {} /\ store'.have = {}
  BY <1>1, <1>2, ClosedFresh
<1>5. manifest' \in [Keys -> Manifests] /\ reading' \subseteq Keys /\ files' \subseteq Names
  BY <1>2 DEF Manifests
<1>6. IInv'
  <2> DEFINE z == store'
  <2>1. Fresh(z) /\ tickets' = {} /\ running' = Idle
    BY <1>2, <1>4, <1>5
  <2> HIDE DEF z
  <2>2. Sound(z, {}, {}, {}) /\ z \in Store
    BY <2>1, FreshSound DEF Fresh
  <2>3. Sound(store', {}, {}, {}) /\ store' \in Store
    BY <2>2 DEF z
  <2>4. TypeOK'
    BY <1>2, <1>4, <1>5, <2>1, <2>3 DEF TypeOK
  <2>5. RunningCopy' = {} /\ RunningPoint' = {}
    BY <2>1 DEF RunningCopy, RunningPoint, Idle
  <2>6. Whole'
    BY <2>1, <2>3, <2>5 DEF Whole
  <2> QED
    BY <2>4, <2>6 DEF IInv
<1>7. DiskTypes'
  BY <1>1, <1>2, <1>3 DEF DiskTypes
<1>8. PhaseFits' /\ IndexFits' /\ SweepFits' /\ SealedFits'
  BY <1>2 DEF PhaseFits, IndexFits, SweepFits, SealedFits
<1>9. Listed' /\ WriterFits'
  BY <1>2, <1>4 DEF Listed, WriterFits, Idle
<1>10. SealedIsDurable'
  <2> DEFINE z == live'
             w == may'
  <2>1. Mapped(z, w) /\ \A f \in Files : w[f] \subseteq may[f]
    OBVIOUS
  <2>2. \A k \in sealed : k \in Keys /\ Lasting(may, k)
    BY <1>1, SealedIs DEF Core
  <2> HIDE DEF z, w
  <2>3. ASSUME NEW k \in sealed PROVE Lasting(w, k)
    <3>1. \A f \in FilesOf(k) : w[f] \subseteq may[f] /\ w[f] # {}
      BY <2>1, <2>2, FilesIn DEF Mapped
    <3>2. Man(k) \in FilesOf(k)
      BY DEF FilesOf
    <3> QED
      BY <2>2, <3>1, <3>2, SomeLasting
  <2>4. \A k \in sealed' : Lasting(may', k)
    BY <1>2, <2>3 DEF w
  <2> QED
    BY <2>4 DEF SealedIsDurable, Lasting
<1> QED
  BY <1>6, <1>7, <1>8, <1>9, <1>10 DEF Core

LEMMA KillCore ==
    ASSUME Core, Kill
    PROVE  Core'
<1>1. Stops /\ live' = live /\ may' = may
  BY DEF Kill
<1>2. Mapped(live', may')
  BY <1>1 DEF Core, DiskTypes
<1> QED
  BY <1>1, <1>2, StopsCore

LEMMA PowerLossCore ==
    ASSUME Core, PowerLoss
    PROVE  Core'
<1>1. Stops /\ Mapped(live, may)
  BY DEF PowerLoss, Core, DiskTypes
<1>2. PICK b \in Outcomes("blk"), i \in Outcomes("ids"), s \in Outcomes("st"), m \in Outcomes("man") :
          live' = [f \in Files |-> IF may[f] = {live[f]} THEN live[f]
                                   ELSE [blk |-> b, ids |-> i, st |-> s, man |-> m][f[1]][f]]
  BY DEF PowerLoss
<1> DEFINE left == [blk |-> b, ids |-> i, st |-> s, man |-> m]
           z == live'
           w == may'
<1>3. z = [f \in Files |-> IF may[f] = {live[f]} THEN live[f] ELSE left[f[1]][f]]
  BY <1>2
<1>4. w = [f \in Files |-> {z[f]}]
  BY DEF PowerLoss
<1>5. left["blk"] = b /\ left["ids"] = i /\ left["st"] = s /\ left["man"] = m
  OBVIOUS
<1>6. \A kind, g : g \in Outcomes(kind) => \A f \in Files : f[1] = kind /\ may[f] # {live[f]} => g[f] \in may[f]
  BY DEF Outcomes, Unsynced
<1> HIDE DEF left, z, w
<1>7. ASSUME NEW f \in Files PROVE z[f] \in may[f]
  <2>1. CASE may[f] = {live[f]}
    BY <1>3, <2>1
  <2>2. CASE may[f] # {live[f]}
    <3>1. f[1] \in {"blk", "ids", "st", "man"}
      BY FilesIn, Apart
    <3>2. left[f[1]] \in Outcomes(f[1])
      BY <1>5, <3>1
    <3>3. left[f[1]][f] \in may[f]
      BY <1>6, <2>2, <3>2
    <3> QED
      BY <1>3, <2>2, <3>3
  <2> QED
    BY <2>1, <2>2
<1>8. \A f \in Files : w[f] = {z[f]} /\ w[f] \subseteq may[f]
  BY <1>4, <1>7
<1>9. Mapped(z, w)
  <2>1. z = [f \in Files |-> z[f]]
    BY <1>3
  <2>2. w = [f \in Files |-> w[f]]
    BY <1>4
  <2>3. \A f \in Files : \A c \in may[f] : Fits(f, c)
    BY <1>1 DEF Mapped
  <2> QED
    BY <1>8, <2>1, <2>2, <2>3 DEF Mapped
<1> QED
  BY <1>1, <1>8, <1>9, StopsCore DEF z, w

\* What is whole is kept or recovered, and what is recovered is whole.
LEMMA VerdictIs ==
    ASSUME NEW k \in Keys, NEW unread, NEW unsure
    PROVE  /\ Present(Man(k)) /\ Verdict(k, unread, unsure) = "recovered" => Complete(live, k)
           /\ Complete(live, k) => Present(Man(k)) /\ Verdict(k, unread, unsure) \in {"recovered", "kept"}
<1> DEFINE q == BlocksOf[k]
<1>1. q \in Seq(Names) /\ Blocks(k) = {q[i] : i \in DOMAIN q}
  BY NamesType DEF Blocks, Range
<1>2. DOMAIN q = 1 .. Len(q) /\ \A i \in DOMAIN q : q[i] \in Blocks(k) /\ \A h \in 1 .. i : h \in DOMAIN q
  BY <1>1
<1>3. CutShort(k, unsure) <=>
        \E i \in DOMAIN q : ~Present(Blk(q[i])) /\ \A h \in 1 .. i : q[h] \notin unsure
  BY DEF CutShort
<1> HIDE DEF q
<1>4. ASSUME ~CutShort(k, unsure), Blocks(k) \cap unsure = {}
      PROVE  \A n \in Blocks(k) : Present(Blk(n))
  <2> SUFFICES ASSUME NEW i \in DOMAIN q PROVE Present(Blk(q[i]))
    BY <1>1
  <2>1. \A h \in 1 .. i : q[h] \in Blocks(k)
    BY <1>2
  <2>2. \A h \in 1 .. i : q[h] \notin unsure
    BY <1>4, <2>1
  <2> QED
    BY <1>3, <1>4, <2>2
<1>5. (\A n \in Blocks(k) : Present(Blk(n))) => ~CutShort(k, unsure)
  BY <1>2, <1>3
<1>6. Complete(live, k) <=> Present(Man(k)) /\ FilesThere(k) /\ \A n \in Blocks(k) : Present(Blk(n))
  BY IntactIs DEF Intact
<1> QED
  BY <1>4, <1>5, <1>6 DEF Verdict

LEMMA ScanCore ==
    ASSUME Core, NEW unread, NEW unsure, Scan(unread, unsure)
    PROVE  Core'
<1> DEFINE found == {k \in Keys : Present(Man(k))}
           R == {k \in found : Verdict(k, unread, unsure) = "recovered"}
           kept == {k \in found : Verdict(k, unread, unsure) = "kept"}
           s == store'
<1>1. /\ phase = "down" /\ phase' = "sweep" /\ temps' = FALSE /\ store' = Rebuilt(R)
      /\ sweep' = Orphans(R, kept, unsure) /\ sealed' = sealed \ kept
      /\ UNCHANGED <<reading, tickets, running, files, manifest, live, may, step>>
  BY DEF Scan
<1>2. store \in Store /\ sealed \subseteq Keys /\ reading \subseteq Keys /\ files \subseteq Names
      /\ manifest \in [Keys -> Manifests] /\ running = Idle /\ tickets = {} /\ reading = {}
  BY <1>1 DEF Core, IInv, TypeOK, DiskTypes, PhaseFits
<1>3. R \in SUBSET Keys
  OBVIOUS
<1>4. /\ \A k \in Keys : k \in R => Complete(live, k)
      /\ \A k \in Keys : Complete(live, k) => k \in R \cup kept
  BY VerdictIs
<1> HIDE DEF R, kept
<1>5. Fresh(s) /\ Recounted(s) /\ s.points = R
  BY <1>1, <1>2, <1>3, RebuiltFresh
<1>6. IInv'
  <2> DEFINE z == store'
  <2>1. Fresh(z) /\ tickets' = {} /\ running' = Idle
    BY <1>1, <1>2, <1>5
  <2> HIDE DEF z
  <2>2. Sound(z, {}, {}, {}) /\ z \in Store
    BY <2>1, FreshSound DEF Fresh
  <2>3. Sound(store', {}, {}, {}) /\ store' \in Store
    BY <2>2 DEF z
  <2>4. TypeOK'
    BY <1>1, <1>2, <1>5, <2>1, <2>3 DEF TypeOK
  <2>5. RunningCopy' = {} /\ RunningPoint' = {}
    BY <2>1 DEF RunningCopy, RunningPoint, Idle
  <2>6. Whole'
    BY <2>1, <2>3, <2>5 DEF Whole
  <2> QED
    BY <2>4, <2>6 DEF IInv
<1>7. IndexFits'
  <2> HIDE DEF s
  <2>1. \E m : Slack(m) /\ Exact(s, {}, {}, {}, {}, m) /\ Referenced(s)
    BY <1>5, RebuiltExact
  <2> QED
    BY <1>1, <2>1 DEF IndexFits, s
<1>8. s.have = UNION {Blocks(k) : k \in R}
  BY <1>5 DEF Recounted
<1>9. Listed'
  <2>1. \A k \in R : Complete(live, k)
    BY <1>3, <1>4
  <2>2. \A n \in s.have : live[Blk(n)] # Absent
    BY <1>8, <2>1 DEF Complete, FilesOf
  <2> QED
    BY <1>1, <1>5, <2>1, <2>2 DEF Listed
<1>10. SweepFits'
  <2> DEFINE o == Orphans(R, kept, unsure)
  <2>1. \A f \in o : \/ \E k \in Keys \ (R \cup kept) : f \in {Man(k), Ids(k), St(k)}
                     \/ kept = {} /\ \E n \in Names : f = Blk(n) /\ \A k \in R : n \notin Blocks(k)
    <3>1. \A f \in PointFiles : \E k \in Keys : f \in {Man(k), Ids(k), St(k)} /\ f[2] = k
      BY Apart DEF PointFiles
    <3>2. \A f \in o : \/ f \in PointFiles /\ f[2] \notin R \cup kept
                       \/ kept = {} /\ \E n \in Names : f = Blk(n) /\ \A k \in R : n \notin Blocks(k)
      BY DEF Orphans
    <3> HIDE DEF o
    <3> QED
      BY <3>1, <3>2
  <2> HIDE DEF o
  <2>2. \A k \in Keys : Complete(live, k) => FilesOf(k) \cap o = {}
    <3> SUFFICES ASSUME NEW k \in Keys, Complete(live, k), NEW f \in FilesOf(k), f \in o PROVE FALSE
      OBVIOUS
    <3>1. k \in R \cup kept
      BY <1>4
    <3>2. ASSUME NEW p \in Keys \ (R \cup kept), f \in {Man(p), Ids(p), St(p)} PROVE FALSE
      <4>1. p = k
        BY <3>2, FilesOfApart
      <4> QED
        BY <3>1, <4>1
    <3>3. ASSUME kept = {}, NEW n \in Names, f = Blk(n), \A p \in R : n \notin Blocks(p) PROVE FALSE
      <4>1. n \in Blocks(k)
        BY <3>3, FilesOfApart
      <4> QED
        BY <3>1, <3>3, <4>1
    <3> QED
      BY <2>1, <3>2, <3>3
  <2>3. sweep' = o
    BY <1>1 DEF o
  <2> QED
    BY <1>1, <1>5, <1>8, <2>2, <2>3 DEF SweepFits
<1>11. sealed' \subseteq R
  <2> SUFFICES ASSUME NEW k \in sealed, k \notin kept PROVE k \in R
    BY <1>1
  <2>1. k \in Keys /\ Lasting(may, k) /\ Mapped(live, may)
    BY <1>2, SealedIs DEF Core, DiskTypes
  <2> QED
    BY <1>4, <2>1, LastingComplete
<1>12. SealedFits' /\ PhaseFits' /\ WriterFits'
  BY <1>1, <1>2, <1>5, <1>11 DEF SealedFits, PhaseFits, WriterFits, Idle
<1>13. DiskTypes'
  <2>1. sweep' \subseteq Files
    BY <1>1 DEF Orphans, Files, BlockFiles
  <2> QED
    BY <1>1, <1>2, <2>1 DEF Core, DiskTypes
<1>14. SealedIsDurable'
  <2>1. \A k \in sealed' : Lasting(may', k)
    BY <1>1, SealedIs DEF Core
  <2> QED
    BY <2>1 DEF SealedIsDurable, Lasting
<1> QED
  BY <1>6, <1>7, <1>9, <1>10, <1>12, <1>13, <1>14 DEF Core

\* A deletion of the open, seen by the points that are whole.
LEMMA SweepIs ==
    ASSUME Core, NEW f \in sweep, Sweep(f)
    PROVE  /\ f \in Files /\ phase = "sweep" /\ Mapped(live', may') /\ Kept(live, may, live', may', {f})
           /\ live'[f] = Absent /\ \A k \in Keys : Complete(live, k) => f \notin FilesOf(k)
<1>1. f \in Files /\ phase = "sweep" /\ Entry(f, Absent) /\ Mapped(live, may)
  BY DEF Sweep, Core, DiskTypes
<1>2. \A k \in Keys : Complete(live, k) => f \notin FilesOf(k)
  BY <1>1 DEF Core, SweepFits
<1> QED
  BY <1>1, <1>2, PlainFits, EntryIs

LEMMA SweepCore ==
    ASSUME Core, NEW f \in sweep, Sweep(f)
    PROVE  Core'
<1> DEFINE z == live'
           w == may'
<1>1. /\ f \in Files /\ phase = "sweep" /\ Mapped(z, w) /\ Kept(live, may, z, w, {f})
      /\ z[f] = Absent /\ \A k \in Keys : Complete(live, k) => f \notin FilesOf(k)
  BY SweepIs
<1>2. phase' = "sweep" /\ sweep' = sweep \ {f} /\ UNCHANGED <<vars, temps, step, phase, sealed>>
  BY <1>1 DEF Sweep
<1>3. store' = store /\ running' = running /\ tickets' = tickets /\ reading' = reading
  BY <1>2 DEF vars
<1>4. store \in Store /\ running = Idle /\ sealed \subseteq store.points
  BY <1>1 DEF Core, IInv, TypeOK, PhaseFits, SealedFits
<1>5. store.points \subseteq Keys /\ store.have \subseteq Names
  BY <1>4, StoreFields
<1>6. (\A p \in store.points : Complete(live, p)) /\ \A n \in store.have : live[Blk(n)] # Absent
  BY DEF Core, Listed
<1>7. Spares(store, {f})
  <2>1. \A n \in store.have : \E k \in store.points : n \in Blocks(k)
    BY <1>1 DEF Core, SweepFits
  <2>2. \A k \in store.points : f \notin FilesOf(k)
    BY <1>1, <1>5, <1>6
  <2> QED
    BY <2>1, <2>2 DEF Spares, FilesOf
<1> HIDE DEF z, w
<1>8. (\A p \in store.points : Complete(z, p)) /\ \A n \in store.have : z[Blk(n)] # Absent
  BY <1>1, <1>5, <1>6, <1>7, ListedKept
<1>9. Listed'
  BY <1>3, <1>8 DEF Listed, z
<1>10. SealedIsDurable'
  <2>1. \A p \in sealed : Lasting(may, p) /\ p \in Keys /\ FilesOf(p) \cap {f} = {}
    BY <1>4, <1>5, <1>7, SealedIs DEF Core, Spares
  <2>2. \A p \in sealed : Lasting(w, p)
    BY <1>1, <2>1, KeptLasting
  <2>3. \A p \in sealed' : Lasting(may', p)
    BY <1>2, <2>2 DEF w
  <2> QED
    BY <2>3 DEF SealedIsDurable, Lasting
<1>11. \A k \in Keys : Complete(z, k) => Complete(live, k)
  <2> SUFFICES ASSUME NEW k \in Keys, Complete(z, k), NEW h \in FilesOf(k) PROVE live[h] # Absent
    BY DEF Complete
  <2>1. z[h] # Absent /\ h \in Files
    BY FilesIn DEF Complete
  <2> QED
    BY <1>1, <2>1 DEF Kept
<1>12. SweepFits'
  <2>1. \A k \in Keys : Complete(z, k) => FilesOf(k) \cap sweep' = {}
    BY <1>1, <1>2, <1>11 DEF Core, SweepFits
  <2> QED
    BY <1>1, <1>3, <2>1 DEF Core, SweepFits, z
<1>13. IInv'
  BY <1>2, WholeStep DEF Core
<1>14. IndexFits'
  BY <1>1, <1>2, <1>3 DEF Core, IndexFits
<1>15. SealedFits' /\ PhaseFits' /\ WriterFits'
  BY <1>2, <1>3, <1>4 DEF Core, SealedFits, PhaseFits, WriterFits, Idle
<1>16. DiskTypes'
  BY <1>1, <1>2 DEF Core, DiskTypes, z, w
<1> QED
  BY <1>9, <1>10, <1>12, <1>13, <1>14, <1>15, <1>16 DEF Core

LEMMA OpenedCore ==
    ASSUME Core, Opened
    PROVE  Core'
<1>1. /\ phase = "sweep" /\ phase' = "up" /\ files' = {n \in Names : Present(Blk(n))}
      /\ manifest' = [k \in Keys |-> IF Present(Man(k)) THEN Flag(live[Man(k)].shared) ELSE "none"]
      /\ UNCHANGED <<store, reading, tickets, running, live, may, temps, step, sweep, sealed>>
  BY DEF Opened
<1>2. store \in Store /\ running = Idle /\ sealed \subseteq store.points
  BY <1>1 DEF Core, IInv, TypeOK, PhaseFits, SealedFits
<1>3. store.points \subseteq Keys /\ store.have \subseteq Names
  BY <1>2, StoreFields
<1>4. PICK m : Slack(m) /\ Exact(store, {}, {}, {}, {}, m) /\ Referenced(store)
  BY <1>1 DEF Core, IndexFits
<1>5. \A b : Flag(b) \in {"shared", "private"}
  BY DEF Flag
<1>6. IInv'
  <2>1. TypeOK'
    <3>1. manifest' \in [Keys -> Manifests]
      BY <1>1, <1>5 DEF Manifests
    <3>2. files' \subseteq Names
      BY <1>1
    <3> QED
      BY <1>1, <3>1, <3>2 DEF Core, IInv, TypeOK
  <2>2. Whole'
    <3>1. RunningCopy' = RunningCopy /\ RunningPoint' = RunningPoint
      BY <1>1 DEF RunningCopy, RunningPoint
    <3> QED
      BY <1>1, <3>1 DEF Core, IInv, Whole
  <2> QED
    BY <2>1, <2>2 DEF IInv
<1>7. Indexed(m)'
  <2>1. RunningName' = {} /\ RunningPoint' = {}
    BY <1>1, <1>2 DEF RunningName, RunningPoint, Idle
  <2>2. store.have \subseteq files'
    BY <1>1, <1>3 DEF Core, Listed, Present
  <2>3. \A k \in store.points : manifest'[k] # "none"
    <3> SUFFICES ASSUME NEW k \in store.points PROVE manifest'[k] # "none"
      OBVIOUS
    <3>1. Present(Man(k)) /\ k \in Keys
      BY <1>3 DEF Core, Listed, Complete, FilesOf, Present
    <3> QED
      BY <1>1, <1>5, <3>1
  <2> QED
    BY <1>1, <1>4, <2>1, <2>2, <2>3 DEF Indexed
<1>8. IndexFits' /\ PhaseFits' /\ SweepFits' /\ SealedFits'
  BY <1>1, <1>2, <1>4, <1>7 DEF IndexFits, PhaseFits, SweepFits, SealedFits
<1>9. Listed' /\ DiskTypes'
  BY <1>1 DEF Core, Listed, DiskTypes
<1>10. WriterFits'
  BY <1>1, <1>2 DEF WriterFits, Idle
<1>11. SealedIsDurable'
  <2>1. \A k \in sealed' : Lasting(may', k)
    BY <1>1, SealedIs DEF Core
  <2> QED
    BY <2>1 DEF SealedIsDurable, Lasting
<1> QED
  BY <1>6, <1>8, <1>9, <1>10, <1>11 DEF Core

LEMMA CoreInit ==
    ASSUME DiskInit
    PROVE  Core
<1>1. /\ Init /\ live = [f \in Files |-> Absent] /\ may = [f \in Files |-> {Absent}]
      /\ temps = FALSE /\ step = 0 /\ phase = "up" /\ sweep = {} /\ sealed = {}
  BY DEF DiskInit
<1>2. IInv /\ Indexed(0)
  BY <1>1, WholeInit, IndexedInit
<1>3. store.points = {} /\ store.have = {} /\ running = Idle
  BY <1>1 DEF Init
<1>4. Slack(0)
  BY DEF Slack
<1>5. IndexFits /\ PhaseFits /\ SweepFits /\ SealedFits
  BY <1>1, <1>2, <1>4 DEF IndexFits, PhaseFits, SweepFits, SealedFits
<1>6. Listed /\ WriterFits
  BY <1>3 DEF Listed, WriterFits, Idle
<1>7. Mapped(live, may)
  <2>1. \A f \in Files : live[f] = Absent /\ may[f] = {Absent} /\ Fits(f, Absent)
    BY <1>1, PlainFits
  <2>2. live = [f \in Files |-> live[f]] /\ may = [f \in Files |-> may[f]]
    BY <1>1
  <2> QED
    BY <2>1, <2>2 DEF Mapped
<1>8. DiskTypes
  <2>1. temps \in BOOLEAN
    BY <1>1, Zenon
  <2>2. step \in 0 .. 10 /\ sweep \subseteq Files /\ sealed \subseteq Keys /\ phase \in {"up", "down", "sweep"}
    BY <1>1
  <2> QED
    BY <1>7, <2>1, <2>2 DEF DiskTypes
<1>9. SealedIsDurable
  BY <1>1 DEF SealedIsDurable
<1> QED
  BY <1>2, <1>5, <1>6, <1>8, <1>9 DEF Core

LEMMA CoreStep ==
    ASSUME Core, [DiskNext]_allVars
    PROVE  Core'
<1>1. CASE DiskStep
  BY <1>1, TakeCore, PointDoneCore, PointUndoneCore, DeletedCore, BlockDoneCore, SharedDoneCore, PutBlockCore,
     PublishCore, UndoCore, RewriteCore, DeleteOneCore, KillCore, PowerLossCore, SweepCore, OpenedCore DEF DiskStep
<1>2. CASE DiskFails
  BY <1>2, BlockDoneCore, SharedDoneCore, PublishFailsCore DEF DiskFails
<1>3. CASE EngineStep
  BY <1>3, EngineCore
<1>4. CASE \E unread \in SUBSET Keys, unsure \in SUBSET Names : Scan(unread, unsure)
  BY <1>4, ScanCore
<1>5. CASE UNCHANGED allVars
  <2>1. UNCHANGED <<vars, live, may, temps, step, phase, sweep, sealed>>
    BY <1>5 DEF allVars, diskVars
  <2>2. UNCHANGED <<store, reading, tickets, running, files, manifest>>
    BY <2>1 DEF vars
  <2>3. IInv'
    BY <2>1, WholeStep DEF Core
  <2>4. RunningName' = RunningName /\ RunningPoint' = RunningPoint /\ RunningKey' = RunningKey
    BY <2>2 DEF RunningName, RunningPoint, RunningKey
  <2>5. \A m : Indexed(m) => Indexed(m)'
    BY <2>2, <2>4 DEF Indexed
  <2>6. IndexFits' /\ PhaseFits' /\ SweepFits' /\ SealedFits' /\ Listed'
    BY <2>1, <2>2, <2>5 DEF Core, IndexFits, PhaseFits, SweepFits, SealedFits, Listed
  <2>7. WriterFits' /\ DiskTypes'
    BY <2>1, <2>2, <2>4 DEF Core, WriterFits, DiskTypes
  <2>8. SealedIsDurable'
    BY <2>1 DEF Core, SealedIsDurable
  <2> QED
    BY <2>3, <2>6, <2>7, <2>8 DEF Core
<1> QED
  BY <1>1, <1>2, <1>3, <1>4, <1>5 DEF DiskNext

-----------------------------------------------------------------------------
(* The theorems *)

\* Which steps there are: only a crash, the scan, its deletions and the end of
\* the open change whether the store is open.
LEMMA StepsAre ==
    ASSUME Core, [DiskNext]_allVars
    PROVE  \/ phase = "up" /\ phase' = "up" /\ (EngineStep \/ Take \/ Deleted \/ PointUndone
                                                 \/ \E ok \in BOOLEAN : BlockDone(ok))
           \/ phase = "up" /\ PointDone
           \/ phase' = phase /\ store' = store /\ sealed' = sealed
                /\ (phase = "sweep" => UNCHANGED live \/ \E f \in sweep : Sweep(f))
                /\ (phase = "down" => UNCHANGED live)
           \/ Stops
           \/ Opened
           \/ \E unread, unsure : Scan(unread, unsure)
<1>1. \A ok : BlockDone(ok) \/ SharedDone(ok) => running.kind \in {"block", "shared"}
  BY DEF BlockDone, SharedDone
<1>2. PutBlock \/ Publish \/ PublishFails \/ Undo \/ Rewrite => running.kind \in {"block", "point", "shared"}
  BY DEF PutBlock, Publish, PublishFails, Undo, Rewrite
<1>3. running.kind \in {"block", "point", "shared"} => phase = "up"
  BY Busy DEF Core
<1>4. CASE PutBlock \/ Publish \/ PublishFails \/ Undo \/ Rewrite \/ DeleteOne
  <2>1. UNCHANGED <<store, phase, sealed>>
    BY <1>4 DEF PutBlock, Publish, PublishFails, Undo, Rewrite, DeleteOne, OnDisk, vars
  <2>2. phase = "up"
    BY <1>2, <1>3, <1>4 DEF DeleteOne
  <2> QED
    BY <2>1, <2>2
<1>5. ASSUME NEW ok \in BOOLEAN, SharedDone(ok)
      PROVE  phase' = phase /\ store' = store /\ sealed' = sealed /\ phase = "up"
  BY <1>5 DEF SharedDone, SharedWritten
<1>6. ASSUME NEW f \in sweep, Sweep(f)
      PROVE  phase' = phase /\ store' = store /\ sealed' = sealed /\ phase = "sweep"
  BY <1>6 DEF Sweep, vars
<1>7. UNCHANGED allVars => UNCHANGED <<phase, store, sealed, live>>
  BY DEF allVars, diskVars, vars
<1>8. Kill \/ PowerLoss => Stops
  BY DEF Kill, PowerLoss
<1>9. EngineStep \/ Take \/ Deleted \/ PointUndone \/ (\E ok \in BOOLEAN : BlockDone(ok))
        => phase = "up" /\ phase' = "up"
  BY DEF EngineStep, Take, Deleted, PointUndone, BlockDone, Locked
<1>10. PointDone => phase = "up"
  BY DEF PointDone
<1>11. CASE DiskStep
  BY <1>4, <1>5, <1>6, <1>8, <1>9, <1>10, <1>11 DEF DiskStep
<1>12. CASE DiskFails
  BY <1>4, <1>5, <1>9, <1>12 DEF DiskFails
<1>13. CASE EngineStep
  BY <1>9, <1>13
<1>14. CASE \E unread \in SUBSET Keys, unsure \in SUBSET Names : Scan(unread, unsure)
  BY <1>14
<1>15. CASE UNCHANGED allVars
  BY <1>7, <1>15
<1> QED
  BY <1>11, <1>12, <1>13, <1>14, <1>15 DEF DiskNext

\* No step under the lock but a publication lists a point that was not.
LEMMA LockedPoints ==
    ASSUME Core, phase = "up",
           EngineStep \/ Take \/ Deleted \/ PointUndone \/ \E ok \in BOOLEAN : BlockDone(ok)
    PROVE  store'.points \subseteq store.points /\ sealed' = sealed \cap store'.points
<1>1. PICK m \in Int : m <= 0 /\ Indexed(m)
  BY UpIs
<1>2. IInv /\ store \in Store
  BY UpIs DEF Core
<1>3. CASE EngineStep
  <2>1. Moves(store, store')
    BY <1>1, <1>2, <1>3, EngineMoves DEF EngineStep
  <2> QED
    BY <1>3, <2>1 DEF EngineStep, Moves
<1>4. CASE Take
  <2>1. Takes("block") \/ Takes("point") \/ Takes("shared")
    BY <1>4 DEF Take, TakeBlock, TakePoint, TakeShared
  <2>2. Popped.points = store.points
    BY <1>1, <1>2, <2>1, PoppedWaits
  <2>3. Moves(Popped, store')
    BY <1>1, <1>2, <1>4, TakeBlockMoves, TakePointMoves, TakeOtherMoves DEF Take
  <2> QED
    BY <1>4, <2>2, <2>3 DEF Take, Locked, Moves
<1>5. CASE Deleted
  <2>1. Takes("unlink") /\ store' = Popped
    BY <1>5 DEF Deleted, Unlink
  <2>2. Popped.points = store.points
    BY <1>1, <1>2, <2>1, PoppedWaits
  <2> QED
    BY <1>5, <2>1, <2>2 DEF Deleted, Locked
<1>6. CASE PointUndone
  <2>1. Moves(store, store')
    BY <1>1, <1>2, <1>6, PointFailedMoves DEF PointUndone
  <2> QED
    BY <1>6, <2>1 DEF PointUndone, Locked, Moves
<1>7. ASSUME NEW ok \in BOOLEAN, BlockDone(ok)
      PROVE  store'.points \subseteq store.points /\ sealed' = sealed \cap store'.points
  <2> DEFINE a == AddBlock(store, running.name)
  <2>1. Moves(IF ok THEN a ELSE store, store')
    BY <1>1, <1>2, <1>7, BlockWrittenMoves DEF BlockDone
  <2>2. a.points = store.points
    BY <1>2 DEF AddBlock, Store
  <2> HIDE DEF a
  <2> QED
    BY <1>7, <2>1, <2>2 DEF BlockDone, Locked, Moves
<1> QED
  BY <1>3, <1>4, <1>5, <1>6, <1>7

\* A publication lists its point at most, which was not listed.
LEMMA PointDonePoints ==
    ASSUME Core, PointDone
    PROVE  \E k \in Keys : /\ k \notin store.points /\ store'.points \subseteq store.points \cup {k}
                           /\ sealed' = (sealed \cup {k}) \cap store'.points
<1> DEFINE k == RunningKey
<1>1. phase = "up" /\ sealed' = (sealed \cup {k}) \cap store'.points /\ PointWritten /\ running.kind = "point"
  BY DEF PointDone, PointWritten, RunningKey
<1>2. PICK m \in Int : m <= 0 /\ Indexed(m)
  BY <1>1, UpIs
<1>3. k \in Keys /\ k \notin store.points /\ store \in Store
  BY <1>1, UpIs
<1>4. store'.points \subseteq store.points \cup {k}
  <2>1. CASE Blocks(k) \subseteq store.have
    <3>1. Moves(Gained(store, k), store')
      BY <1>1, <1>2, <2>1, PublishedMoves DEF Core, RunningKey
    <3>2. Gained(store, k).points = store.points \cup {k}
      BY <1>3, GainedIs
    <3> QED
      BY <3>1, <3>2 DEF Moves
  <2>2. CASE ~(Blocks(k) \subseteq store.have)
    <3>1. Moves(store, store')
      BY <1>1, <1>2, <2>2, DiscardMoves DEF Core, RunningKey
    <3> QED
      BY <3>1 DEF Moves
  <2> QED
    BY <2>1, <2>2
<1> QED
  BY <1>1, <1>3, <1>4

-----------------------------------------------------------------------------
\* The state of the writer, of the directories and of what a power loss may
\* leave of them fit together at every step of the disk work, of a crash and of
\* the open that follows it (writeBlock, publishPoint, rewriteShared, scan).
THEOREM DiskInvariant == DiskSpec => []Core
<1>1. DiskInit => Core
  BY CoreInit
<1>2. Core /\ [DiskNext]_allVars => Core'
  BY CoreStep
<1> QED
  BY <1>1, <1>2, PTL DEF DiskSpec

LEMMA FaultedType == DiskSpec => [](faulted \in BOOLEAN)
<1>1. DiskInit => faulted \in BOOLEAN
  BY DEF DiskInit
<1>2. faulted \in BOOLEAN /\ [DiskNext]_allVars => (faulted \in BOOLEAN)'
  <2> SUFFICES ASSUME faulted \in BOOLEAN, [DiskNext]_allVars PROVE faulted' \in BOOLEAN
    OBVIOUS
  <2>1. \/ faulted' = faulted \/ faulted' = TRUE \/ faulted' = (faulted \/ DamageFound)
        \/ faulted' = (faulted \/ ~Scan({}, {}))
    BY Zenon DEF DiskNext, allVars, diskVars
  <2>2. (faulted \/ DamageFound) \in BOOLEAN /\ (faulted \/ ~Scan({}, {})) \in BOOLEAN
    OBVIOUS
  <2> QED
    BY <2>1, <2>2, Zenon
<1> QED
  BY <1>1, <1>2, PTL DEF DiskSpec

LEMMA CoreTypes ==
    ASSUME Core, faulted \in BOOLEAN
    PROVE  DiskTypeOK
<1>1. IInv /\ DiskTypes
  BY DEF Core
<1>2. TypeOK
  BY <1>1 DEF IInv
<1>3. step \in 0 .. Undone
  BY <1>1, PublishedIs DEF DiskTypes
<1>4. \A f \in Files : live[f] \in may[f]
  BY <1>1 DEF DiskTypes, Mapped
<1> QED
  BY <1>1, <1>2, <1>3, <1>4 DEF DiskTypes, DiskTypeOK

\* Every variable keeps its type through crashes and opens, and what a process
\* sees in a directory is always one of the outcomes of a power loss.
THEOREM DiskTypesHold == DiskSpec => []DiskTypeOK
BY DiskInvariant, FaultedType, CoreTypes, PTL

\* publishPoint's order of writes and fsyncs: whatever a power loss takes, a
\* point that was published and not removed is there whole, its manifest, its
\* files and all its blocks, with the bytes the manifest has checksums of.
THEOREM PublishedSurvives == DiskSpec => []SealedIsDurable
<1>1. Core => SealedIsDurable
  BY DEF Core
<1> QED
  BY <1>1, DiskInvariant, PTL

LEMMA OpenKeepsWhole ==
    ASSUME Core, [DiskNext]_allVars, phase # "up", phase' # "down"
    PROVE  \A k \in Keys : Intact(k) => Intact(k)'
<1>1. \A k \in Keys : (\A f \in FilesOf(k) : live'[f] = live[f]) => (Intact(k) => Intact(k)')
  BY DEF Intact, FilesThere, Present, FilesOf
<1>2. CASE UNCHANGED live
  BY <1>1, <1>2
<1>3. CASE \E f \in sweep : Sweep(f)
  <2> SUFFICES ASSUME NEW f \in sweep, Sweep(f), NEW k \in Keys, Intact(k) PROVE Intact(k)'
    BY <1>3
  <2>1. Kept(live, may, live', may', {f}) /\ f \notin FilesOf(k)
    BY SweepIs, IntactIs
  <2>2. \A h \in FilesOf(k) : live'[h] = live[h]
    BY <2>1, FilesIn DEF Kept
  <2> QED
    BY <1>1, <2>2
<1>4. Opened \/ (\E unread, unsure : Scan(unread, unsure)) => UNCHANGED live
  BY DEF Opened, Scan
<1>5. Stops => phase' = "down"
  BY DEF Stops
<1>6. phase \in {"up", "down", "sweep"}
  BY DEF Core, DiskTypes
<1> QED
  BY <1>2, <1>3, <1>4, <1>5, <1>6, StepsAre DEF PointDone

\* "Only damage deletes" (scan, the deletion of orphans): an open that could
\* not read a point or a block, and one that is itself cut short, deletes no
\* file of a point that is whole.
THEOREM OpenIsHarmless == DiskSpec => OpenLosesNothing
<1>1. Core /\ [DiskNext]_allVars =>
        [phase # "up" /\ phase' # "down" => \A k \in Keys : Intact(k) => Intact(k)']_allVars
  BY OpenKeepsWhole
<1> QED
  BY <1>1, DiskInvariant, PTL DEF DiskSpec, OpenLosesNothing

-----------------------------------------------------------------------------
\* The store implements the abstract one: each step is one of DurablePoints or
\* leaves what it is about alone.
LEMMA StepRefines ==
    ASSUME Core, Core', [DiskNext]_allVars
    PROVE  [Durable!Next]_(Durable!dvars)
<1>1. CASE phase = "up" /\ phase' = "up" /\ (EngineStep \/ Take \/ Deleted \/ PointUndone
                                              \/ \E ok \in BOOLEAN : BlockDone(ok))
  <2>1. store'.points \subseteq store.points /\ sealed' = sealed \cap store'.points
    BY <1>1, LockedPoints
  <2>2. Durable!Remove
    BY <1>1, <2>1 DEF Durable!Remove
  <2> QED
    BY <2>2 DEF Durable!Next
<1>2. CASE phase = "up" /\ PointDone
  <2>1. PICK k \in Keys : /\ k \notin store.points /\ store'.points \subseteq store.points \cup {k}
                          /\ sealed' = (sealed \cup {k}) \cap store'.points
    BY <1>2, PointDonePoints
  <2>2. phase' = "up"
    BY <1>2 DEF PointDone
  <2>3. Durable!Publish(k)
    BY <1>2, <2>1, <2>2 DEF Durable!Publish
  <2> QED
    BY <2>3 DEF Durable!Next
<1>3. CASE phase' = phase /\ store' = store /\ sealed' = sealed
  BY <1>3 DEF Durable!dvars
<1>4. CASE Stops
  <2>1. phase' = "down" /\ sealed' = sealed /\ phase \in {"up", "sweep"}
    BY <1>4 DEF Stops
  <2>2. CASE phase = "up"
    BY <2>1, <2>2 DEF Durable!Stop, Durable!Next
  <2>3. CASE phase = "sweep"
    BY <2>1, <2>3 DEF Durable!dvars
  <2> QED
    BY <2>1, <2>2, <2>3
<1>5. CASE Opened
  <2>1. phase = "sweep" /\ phase' = "up" /\ store' = store /\ sealed' = sealed
    BY <1>5 DEF Opened
  <2>2. sealed \subseteq store.points /\ store.points \subseteq Keys
    <3>1. store \in Store
      BY DEF Core, IInv, TypeOK
    <3> QED
      BY <2>1, <3>1, StoreFields DEF Core, SealedFits
  <2>3. Durable!Start
    BY <2>1, <2>2 DEF Durable!Start
  <2> QED
    BY <2>3 DEF Durable!Next
<1>6. ASSUME NEW unread, NEW unsure, Scan(unread, unsure)
      PROVE  [Durable!Next]_(Durable!dvars)
  <2>1. phase = "down" /\ phase' = "sweep" /\ sealed' \subseteq sealed
    BY <1>6 DEF Scan
  <2>2. CASE Unreadable
    BY <2>1, <2>2 DEF Durable!Overlook, Durable!Next
  <2>3. CASE ~Unreadable
    <3>1. unread = {} /\ unsure = {}
      BY <1>6, <2>3 DEF Scan
    <3>2. \A k \in Keys : Verdict(k, unread, unsure) # "kept"
      BY <3>1 DEF Verdict
    <3>3. sealed' = sealed
      BY <1>6, <3>2 DEF Scan
    <3> QED
      BY <2>1, <3>3 DEF Durable!dvars
  <2> QED
    BY <2>2, <2>3
<1> QED
  BY <1>1, <1>2, <1>3, <1>4, <1>5, <1>6, StepsAre

\* A point that was published is listed again after every restart until the
\* store itself removes it: the spill store with its directories, crashes at
\* every step and opens implements DurablePoints.
THEOREM PromiseKept == DiskSpec => KeepsItsPromise
<1>1. DiskInit => Durable!Init
  BY DEF DiskInit, Init, Durable!Init
<1>2. Core /\ Core' /\ [DiskNext]_allVars => [Durable!Next]_(Durable!dvars)
  BY StepRefines
<1> QED
  BY <1>1, <1>2, DiskInvariant, PTL DEF DiskSpec, KeepsItsPromise, Durable!Spec
-----------------------------------------------------------------------------
(* The directories are what the index says of them *)

\* The block names and the points the writer r is at, i steps into its task,
\* or deletes: they are as they were, or as they will be.
Unlinks(r, s) == r = Idle /\ s.tasks # << >> /\ Head(s.tasks).kind = "unlink"
LooseNames(r, s, i) ==
    IF Unlinks(r, s) THEN Head(s.tasks).names
    ELSE IF r.kind = "block" /\ i = 1 THEN {r.name} ELSE {}
LooseKeys(r, s) ==
    IF Unlinks(r, s) THEN Head(s.tasks).keys
    ELSE IF r.kind = "point" THEN {s.jobs[r.job].key}
    ELSE IF r.kind = "shared" THEN {r.key} ELSE {}

\* What the manifest file of k says.
Seen(l, k) == IF l[Man(k)] # Absent THEN Flag(l[Man(k)].shared) ELSE "none"

\* Block files b and manifests p are those of the directories l, but for the
\* names N and the points K.
Mirrors(b, p, l, N, K) ==
    /\ \A n \in Names \ N : n \in b <=> l[Blk(n)] # Absent
    /\ \A k \in Keys \ K : p[k] = Seen(l, k)

View == phase = "up" => Mirrors(files, manifest, live, LooseNames(running, store, step), LooseKeys(running, store))

LEMMA MirrorsNext ==
    ASSUME NEW b, NEW p, NEW l, NEW N, NEW K, Mirrors(b, p, l, N, K),
           NEW c, NEW q, NEW z, NEW M, NEW L,
           \A n \in Names \ N : n \in M \/ ((n \in c <=> n \in b) /\ z[Blk(n)] = l[Blk(n)]),
           \A n \in (Names \cap N) \ M : n \in c <=> z[Blk(n)] # Absent,
           \A k \in Keys \ K : k \in L \/ (q[k] = p[k] /\ z[Man(k)] = l[Man(k)]),
           \A k \in (Keys \cap K) \ L : q[k] = Seen(z, k)
    PROVE  Mirrors(c, q, z, M, L)
BY DEF Mirrors, Seen

LEMMA LooseIs ==
    ASSUME NEW r, NEW s, NEW i
    PROVE  /\ r.kind \in {"block", "point", "shared"} => ~Unlinks(r, s)
           /\ r.kind = "block" => LooseNames(r, s, i) = (IF i = 1 THEN {r.name} ELSE {}) /\ LooseKeys(r, s) = {}
           /\ r.kind = "point" => LooseNames(r, s, i) = {} /\ LooseKeys(r, s) = {s.jobs[r.job].key}
           /\ r.kind = "shared" => LooseNames(r, s, i) = {} /\ LooseKeys(r, s) = {r.key}
           /\ Unlinks(r, s) => LooseNames(r, s, i) = Head(s.tasks).names /\ LooseKeys(r, s) = Head(s.tasks).keys
           /\ r = Idle /\ ~Unlinks(r, s) => LooseNames(r, s, i) = {} /\ LooseKeys(r, s) = {}
BY DEF LooseNames, LooseKeys, Unlinks, Idle

\* Nothing but the files of S changed, which are of names and points that are
\* loose now.
LEMMA DiskView ==
    ASSUME View, phase = "up", phase' = "up", UNCHANGED <<files, manifest>>,
           NEW S, \A f \in Files \ S : live'[f] = live[f],
           LooseNames(running, store, step) \subseteq LooseNames(running, store, step)',
           LooseKeys(running, store) \subseteq LooseKeys(running, store)',
           \A n \in Names : Blk(n) \in S => n \in LooseNames(running, store, step)',
           \A k \in Keys : Man(k) \in S => k \in LooseKeys(running, store)'
    PROVE  View'
<1> DEFINE N == LooseNames(running, store, step)
           K == LooseKeys(running, store)
           M == N'
           L == K'
           z == live'
<1>1. Mirrors(files, manifest, live, N, K)
  BY DEF View
<1>2. /\ \A n \in Names \ N : n \in M \/ z[Blk(n)] = live[Blk(n)]
      /\ \A k \in Keys \ K : k \in L \/ z[Man(k)] = live[Man(k)]
  BY FilesIn
<1>3. N \subseteq M /\ K \subseteq L
  OBVIOUS
<1> HIDE DEF N, K, M, L, z
<1>4. Mirrors(files, manifest, z, M, L)
  BY <1>1, <1>2, <1>3, MirrorsNext
<1> QED
  BY <1>4 DEF View, M, L, z, N, K

LEMMA PutBlockView ==
    ASSUME Core, View, PutBlock
    PROVE  View'
<1>1. phase = "up" /\ running.kind = "block" /\ step = 0
  BY Busy DEF Core, PutBlock
<1>2. /\ UNCHANGED <<files, manifest>> /\ running' = running /\ store' = store /\ phase' = phase /\ step' = 1
  BY <1>1 DEF PutBlock, OnDisk, vars
<1>3. running.name \in Names /\ Mapped(live, may)
  BY <1>1, UpIs DEF Core, DiskTypes
<1> DEFINE f == Blk(running.name)
<1>4. \A h \in Files \ {f} : live'[h] = live[h]
  BY <1>3 DEF PutBlock, Entry, Mapped
<1>5. /\ LooseNames(running, store, step) = {} /\ LooseKeys(running, store) = {}
      /\ LooseNames(running', store', step') = {running.name}
  <2>1. running'.kind = "block" /\ running'.name = running.name /\ step' = 1 /\ step # 1
    BY <1>1, <1>2
  <2> QED
    BY <1>1, <2>1, LooseIs
<1>6. /\ \A n \in Names : Blk(n) \in {f} => n \in LooseNames(running', store', step')
      /\ \A k \in Keys : Man(k) \notin {f}
  BY <1>5, Apart
<1> HIDE DEF f
<1> QED
  BY <1>1, <1>2, <1>4, <1>5, <1>6, DiskView

\* A step of the writer's task on a point, or on its manifest.
LEMMA PointView ==
    ASSUME Core, View, running.kind \in {"point", "shared"}, UNCHANGED <<vars, phase>>,
           NEW k, k = (IF running.kind = "point" THEN RunningKey ELSE running.key),
           NEW S \in SUBSET {Man(k), Ids(k), St(k)}, \A f \in Files \ S : live'[f] = live[f]
    PROVE  View'
<1>1. phase = "up"
  BY Busy DEF Core
<1>2. /\ UNCHANGED <<files, manifest>> /\ running' = running /\ store' = store /\ phase' = phase
  BY DEF vars
<1>3. /\ LooseNames(running, store, step) = {} /\ LooseKeys(running, store) = {k}
      /\ LooseNames(running', store', step') = {} /\ LooseKeys(running', store') = {k}
  BY <1>2, LooseIs DEF RunningKey
<1>4. /\ \A n \in Names : Blk(n) \notin S
      /\ \A p \in Keys : Man(p) \in S => p \in LooseKeys(running', store')
  BY <1>3, Apart
<1> QED
  BY <1>1, <1>2, <1>3, <1>4, DiskView

LEMMA PublishView ==
    ASSUME Core, View, Publish \/ PublishFails \/ Undo \/ Rewrite
    PROVE  View'
<1> DEFINE k == IF running.kind = "point" THEN RunningKey ELSE running.key
<1>1. running.kind \in {"point", "shared"} /\ UNCHANGED <<vars, phase>>
  BY DEF Publish, PublishFails, Undo, Rewrite, OnDisk
<1>2. Mapped(live, may)
  BY DEF Core, DiskTypes
<1>3. \A f, c : Entry(f, c) => \A h \in Files \ {f} : live'[h] = live[h]
  BY <1>2 DEF Entry, Mapped
<1>4. \A dir : SyncDir(dir) => live' = live
  BY DEF SyncDir
<1>5. \E S \in SUBSET {Man(k), Ids(k), St(k)} : \A f \in Files \ S : live'[f] = live[f]
  <2>1. CASE Publish
    <3>1. k = store.jobs[running.job].key
      BY <2>1 DEF Publish, RunningKey
    <3>2. (\E dir : SyncDir(dir)) \/ \E f \in {Man(k), Ids(k), St(k)} : \E c : Entry(f, c)
      BY <2>1, <3>1 DEF Publish
    <3> HIDE DEF k
    <3> QED
      BY <1>3, <1>4, <3>2
  <2>2. CASE PublishFails
    BY <2>2 DEF PublishFails
  <2>3. CASE Undo
    <3> DEFINE i == step - Published
    <3>1. Entry(Deletion(k)[i], Absent) /\ i \in 1 .. 3
      BY <2>3, PublishedIs DEF Undo, RunningKey, Core, DiskTypes
    <3> DEFINE f == Deletion(k)[i]
    <3>2. f \in {Man(k), Ids(k), St(k)} /\ Entry(f, Absent)
      BY <3>1, PublishedIs
    <3> HIDE DEF k, i, f
    <3>3. \A h \in Files \ {f} : live'[h] = live[h]
      BY <1>3, <3>2
    <3> QED
      BY <3>2, <3>3
  <2>4. CASE Rewrite
    <3>1. k = running.key
      BY <2>4 DEF Rewrite
    <3>2. (\E dir : SyncDir(dir)) \/ \E c : Entry(Man(k), c)
      BY <2>4, <3>1 DEF Rewrite
    <3> HIDE DEF k
    <3> QED
      BY <1>3, <1>4, <3>2
  <2> QED
    BY <2>1, <2>2, <2>3, <2>4
<1> HIDE DEF k
<1>6. PICK S \in SUBSET {Man(k), Ids(k), St(k)} : \A f \in Files \ S : live'[f] = live[f]
  BY <1>5
<1> QED
  BY <1>1, <1>6, PointView DEF k

\* A deletion task is about a set of names and one of points.
LEMMA UnlinkHead ==
    ASSUME Core, phase = "up", Takes("unlink")
    PROVE  LET t == Head(store.tasks) IN
           /\ t.keys \in SUBSET Keys /\ t.names \in SUBSET Names
           /\ \A f \in NextDeletions(t) : \/ \E n \in t.names : f = Blk(n)
                                          \/ \E k \in t.keys : f \in {Man(k), Ids(k), St(k)}
<1> DEFINE t == Head(store.tasks)
<1>1. PICK m \in Int : m <= 0 /\ Indexed(m)
  BY UpIs
<1>2. t \in Task /\ t.kind = "unlink"
  BY <1>1, TakenExact DEF Core
<1>3. t.keys \in SUBSET Keys /\ t.names \in SUBSET Names
  BY <1>2, TaskFields
<1> HIDE DEF t
<1>4. ASSUME NEW f \in NextDeletions(t)
      PROVE  \/ \E n \in t.names : f = Blk(n)
             \/ \E k \in t.keys : f \in {Man(k), Ids(k), St(k)}
  <2>1. (\E n \in t.names : f = Blk(n)) \/ \E k \in t.keys : \E i \in 1 .. Len(Deletion(k)) : f = Deletion(k)[i]
    BY <1>4 DEF NextDeletions
  <2>2. ASSUME NEW k \in t.keys, NEW i \in 1 .. Len(Deletion(k)), f = Deletion(k)[i]
        PROVE  f \in {Man(k), Ids(k), St(k)}
    <3>1. i \in 1 .. 3
      BY PublishedIs
    <3> QED
      BY <2>2, <3>1, PublishedIs
  <2> QED
    BY <2>1, <2>2
<1> QED
  BY <1>3, <1>4 DEF t

LEMMA TakesUnlinks == Takes("unlink") <=> Unlinks(running, store)
BY DEF Takes, Unlinks

LEMMA DeleteOneView ==
    ASSUME Core, View, DeleteOne
    PROVE  View'
<1> DEFINE t == Head(store.tasks)
<1>1. phase = "up" /\ Takes("unlink") /\ UNCHANGED <<vars, phase, step>>
  BY DEF DeleteOne
<1>2. /\ UNCHANGED <<files, manifest>> /\ running' = running /\ store' = store /\ phase' = phase /\ step' = step
  BY <1>1 DEF vars
<1>3. PICK f \in NextDeletions(t) : Entry(f, Absent)
  BY DEF DeleteOne
<1>4. \A h \in Files \ {f} : live'[h] = live[h]
  <2>1. Mapped(live, may)
    BY DEF Core, DiskTypes
  <2> QED
    BY <1>3, <2>1 DEF Entry, Mapped
<1>5. /\ LooseNames(running', store', step') = t.names /\ LooseNames(running, store, step) = t.names
      /\ LooseKeys(running', store') = t.keys /\ LooseKeys(running, store) = t.keys
  BY <1>1, <1>2, LooseIs, TakesUnlinks
<1>6. (\E n \in t.names : f = Blk(n)) \/ \E k \in t.keys : f \in {Man(k), Ids(k), St(k)}
  BY <1>1, <1>3, UnlinkHead
<1> HIDE DEF t
<1>7. /\ \A n \in Names : Blk(n) \in {f} => n \in t.names
      /\ \A k \in Keys : Man(k) \in {f} => k \in t.keys
  BY <1>6, Apart
<1> QED
  BY <1>1, <1>2, <1>4, <1>5, <1>7, DiskView

\* A deletion at the head of the queue stays there.
LEMMA HeadStays ==
    ASSUME NEW s \in Store, NEW z \in Store, GoesOn(s, z), s.tasks # << >>
    PROVE  z.tasks # << >> /\ Head(z.tasks) = Head(s.tasks)
<1>1. s.tasks \in Seq(Task) /\ z.tasks \in Seq(Task)
  BY StoreFields
<1>2. 1 \in DOMAIN s.tasks /\ Head(s.tasks) = s.tasks[1]
  BY <1>1
<1>3. 1 \in DOMAIN z.tasks /\ z.tasks[1] = s.tasks[1]
  BY <1>2 DEF GoesOn
<1> QED
  BY <1>1, <1>2, <1>3

LEMMA EngineView ==
    ASSUME Core, View, EngineStep
    PROVE  View'
<1>1. phase = "up" /\ Engine /\ UNCHANGED <<live, step, phase>>
  BY DEF EngineStep
<1>2. PICK m \in Int : m <= 0 /\ Indexed(m)
  BY <1>1, UpIs
<1>3. Moves(store, store') /\ store \in Store
  BY <1>1, <1>2, EngineMoves, UpIs DEF Core
<1>4. running' = running
  BY <1>1, EngineWorks
<1>5. UNCHANGED <<files, manifest>>
  BY <1>1 DEF Engine, MarkShared, Keep, BeginRead, EndRead, Forget, Captured, Stage, Guard, Cancel, Staged
<1>6. running.kind = "point" => store'.jobs[running'.job].key = store.jobs[running.job].key
  BY <1>1, KeyStays DEF RunningKey
<1>7. Unlinks(running, store) => Unlinks(running', store') /\ Head(store'.tasks) = Head(store.tasks)
  <2>1. GoesOn(store, store') /\ store' \in Store
    BY <1>3 DEF Moves
  <2> QED
    BY <1>3, <1>4, <2>1, HeadStays DEF Unlinks
<1>8. /\ LooseNames(running, store, step) \subseteq LooseNames(running', store', step')
      /\ LooseKeys(running, store) \subseteq LooseKeys(running', store')
  <2>1. running.kind \in {"block", "point", "shared", "idle"}
    BY DEF Core, IInv, TypeOK, Writing, BlockTask, SharedTask, Idle
  <2>2. running.kind = "idle" => running = Idle
    BY DEF Core, IInv, TypeOK, Writing, BlockTask, SharedTask, Idle
  <2>3. CASE running.kind # "idle"
    BY <1>1, <1>4, <1>6, <2>1, <2>3, LooseIs
  <2>4. CASE running = Idle
    BY <1>1, <1>4, <1>7, <2>4, LooseIs
  <2> QED
    BY <2>2, <2>3, <2>4
<1>9. /\ \A f \in Files \ {} : live'[f] = live[f]
      /\ \A n \in Names : Blk(n) \notin {}
      /\ \A k \in Keys : Man(k) \notin {}
  BY <1>1
<1>10. phase = "up" /\ phase' = "up" /\ UNCHANGED <<files, manifest>>
  BY <1>1, <1>5
<1> DEFINE S == {}
<1>11. /\ \A f \in Files \ S : live'[f] = live[f]
       /\ \A n \in Names : Blk(n) \in S => n \in LooseNames(running, store, step)'
       /\ \A k \in Keys : Man(k) \in S => k \in LooseKeys(running, store)'
  BY <1>9
<1> HIDE DEF S
<1> QED
  BY <1>8, <1>10, <1>11, DiskView

LEMMA TakeView ==
    ASSUME Core, View, Take
    PROVE  View'
<1>1. phase = "up" /\ phase' = "up" /\ UNCHANGED live
  BY DEF Take, Locked
<1>2. UNCHANGED <<files, manifest>>
  BY DEF Take, TakeBlock, TakePoint, TakeShared
<1>3. running = Idle /\ ~Takes("unlink")
  BY DEF Take, TakeBlock, TakePoint, TakeShared, Takes
<1>4. LooseNames(running, store, step) = {} /\ LooseKeys(running, store) = {}
  BY <1>3, LooseIs, TakesUnlinks
<1> QED
  BY <1>1, <1>2, <1>4, DiskView

\* A critical section that ends a task: what was loose is as the files are.
LEMMA EndView ==
    ASSUME View, phase = "up",
           \A n \in Names \ LooseNames(running, store, step) :
               (n \in files' <=> n \in files) /\ live'[Blk(n)] = live[Blk(n)],
           \A n \in Names \cap LooseNames(running, store, step) : n \in files' <=> live'[Blk(n)] # Absent,
           \A k \in Keys \ LooseKeys(running, store) : manifest'[k] = manifest[k] /\ live'[Man(k)] = live[Man(k)],
           \A k \in Keys \cap LooseKeys(running, store) : manifest'[k] = Seen(live', k)
    PROVE  View'
<1> DEFINE N == LooseNames(running, store, step)
           K == LooseKeys(running, store)
           z == live'
           b == files'
           p == manifest'
<1>1. Mirrors(files, manifest, live, N, K)
  BY DEF View
<1> HIDE DEF N, K, z, b, p
<1>2. \A M, L : Mirrors(b, p, z, M, L)
  <2>1. /\ \A n \in Names \ N : (n \in b <=> n \in files) /\ z[Blk(n)] = live[Blk(n)]
        /\ \A n \in Names \cap N : n \in b <=> z[Blk(n)] # Absent
        /\ \A k \in Keys \ K : p[k] = manifest[k] /\ z[Man(k)] = live[Man(k)]
        /\ \A k \in Keys \cap K : p[k] = Seen(z, k)
    BY DEF N, K, z, b, p
  <2> QED
    BY <1>1, <2>1, MirrorsNext
<1> QED
  BY <1>2 DEF View, b, p, z

LEMMA PointDoneView ==
    ASSUME Core, View, PointDone
    PROVE  View'
<1> DEFINE k == RunningKey
<1>1. phase = "up" /\ step = 6 /\ UNCHANGED <<live, files>> /\ running.kind = "point"
      /\ manifest' = [manifest EXCEPT ![k] = Flag(running.flag)]
  BY PublishedIs DEF PointDone, PointWritten, RunningKey
<1>2. LooseNames(running, store, step) = {} /\ LooseKeys(running, store) = {k}
  BY <1>1, LooseIs DEF RunningKey
<1>3. running.job \in Jobs /\ k \in Keys /\ manifest \in [Keys -> Manifests]
  BY <1>1, UpIs DEF Core, IInv, TypeOK
<1>4. live[Man(k)] = Manifest(running.job, running.flag, Sums(live, k))
  BY <1>1 DEF Core, WriterFits, Progress
<1>5. Seen(live, k) = Flag(running.flag)
  BY <1>3, <1>4, PlainIs DEF Seen, Jobs
<1> HIDE DEF k
<1>6. manifest'[k] = Seen(live, k) /\ \A p \in Keys \ {k} : manifest'[p] = manifest[p]
  BY <1>1, <1>3, <1>5
<1> QED
  BY <1>1, <1>2, <1>6, EndView

LEMMA PointUndoneView ==
    ASSUME Core, View, PointUndone
    PROVE  View'
<1> DEFINE k == RunningKey
<1>1. phase = "up" /\ step = 10 /\ UNCHANGED <<live, files>> /\ running.kind = "point"
      /\ manifest' = [manifest EXCEPT ![k] = "none"]
  BY PublishedIs DEF PointUndone, Locked, PointFailed, RunningKey
<1>2. LooseNames(running, store, step) = {} /\ LooseKeys(running, store) = {k}
  BY <1>1, LooseIs DEF RunningKey
<1>3. k \in Keys /\ manifest \in [Keys -> Manifests]
  BY <1>1, UpIs DEF Core, IInv, TypeOK
<1>4. live[Man(k)] = Absent
  BY <1>1 DEF Core, WriterFits, Progress
<1>5. Seen(live, k) = "none"
  BY <1>4 DEF Seen
<1> HIDE DEF k
<1>6. manifest'[k] = Seen(live, k) /\ \A p \in Keys \ {k} : manifest'[p] = manifest[p]
  BY <1>1, <1>3, <1>5
<1> QED
  BY <1>1, <1>2, <1>6, EndView

\* A deletion that has nothing left to do: nothing is left of what it deletes.
LEMMA DeletedAll ==
    ASSUME NEW t, NextDeletions(t) = {}, t.keys \in SUBSET Keys, t.names \in SUBSET Names
    PROVE  /\ \A n \in t.names : live[Blk(n)] = Absent
           /\ \A k \in t.keys : \A f \in {Man(k), Ids(k), St(k)} : live[f] = Absent
<1>1. \A n \in t.names : live[Blk(n)] = Absent
  BY DEF NextDeletions, Present
<1>2. ASSUME NEW k \in t.keys PROVE \A f \in {Man(k), Ids(k), St(k)} : live[f] = Absent
  <2> DEFINE D == Deletion(k)
  <2>1. D[1] = Man(k) /\ D[2] = St(k) /\ D[3] = Ids(k) /\ Len(D) = 3
    BY PublishedIs
  <2>2. \A i \in 1 .. 3 : D[i] \in PointFiles
    BY <2>1, FilesIn
  <2> HIDE DEF D
  <2>3. \A i \in 1 .. 3 : Present(D[i]) => \E h \in 1 .. i - 1 : Present(D[h])
    <3> SUFFICES ASSUME NEW i \in 1 .. 3, Present(D[i]), \A h \in 1 .. i - 1 : ~Present(D[h]) PROVE FALSE
      OBVIOUS
    <3>1. D[i] \in NextDeletions(t)
      BY <2>1, <2>2 DEF NextDeletions, D
    <3> QED
      BY <3>1
  <2>4. ~Present(D[1])
    BY <2>3
  <2>5. ~Present(D[2])
    BY <2>3, <2>4
  <2>6. ~Present(D[3])
    <3> SUFFICES ASSUME Present(D[3]) PROVE FALSE
      OBVIOUS
    <3>1. PICK h \in 1 .. 3 - 1 : Present(D[h])
      BY <2>3
    <3>2. h = 1 \/ h = 2
      BY <3>1
    <3> QED
      BY <2>4, <2>5, <3>1, <3>2
  <2> QED
    BY <2>1, <2>4, <2>5, <2>6 DEF Present
<1> QED
  BY <1>1, <1>2

LEMMA DeletedView ==
    ASSUME Core, View, Deleted
    PROVE  View'
<1> DEFINE t == Head(store.tasks)
<1>1. phase = "up" /\ Takes("unlink") /\ UNCHANGED live /\ files' = files \ t.names
      /\ manifest' = [k \in Keys |-> IF k \in t.keys THEN "none" ELSE manifest[k]]
  BY DEF Deleted, Locked, Unlink
<1>2. LooseNames(running, store, step) = t.names /\ LooseKeys(running, store) = t.keys
  BY <1>1, LooseIs, TakesUnlinks
<1>3. t.keys \in SUBSET Keys /\ t.names \in SUBSET Names /\ NextDeletions(t) = {}
  BY <1>1, UnlinkHead DEF Deleted
<1> HIDE DEF t
<1>4. /\ \A n \in t.names : live[Blk(n)] = Absent
      /\ \A k \in t.keys : live[Man(k)] = Absent
  BY <1>3, DeletedAll
<1>5. \A k \in t.keys : Seen(live, k) = "none"
  BY <1>4 DEF Seen
<1> QED
  BY <1>1, <1>2, <1>4, <1>5, EndView

LEMMA BlockDoneView ==
    ASSUME Core, View, NEW ok \in BOOLEAN, BlockDone(ok)
    PROVE  View'
<1> DEFINE n == running.name
<1>1. phase = "up" /\ UNCHANGED <<live, manifest>> /\ running.kind = "block"
      /\ files' = IF step = 1 THEN files \cup {n} ELSE files
  BY DEF BlockDone, Locked, BlockWritten
<1>2. LooseNames(running, store, step) = (IF step = 1 THEN {n} ELSE {}) /\ LooseKeys(running, store) = {}
  BY <1>1, LooseIs
<1>3. step = 1 => live[Blk(n)] # Absent
  BY <1>1 DEF Core, WriterFits
<1> HIDE DEF n
<1> QED
  BY <1>1, <1>2, <1>3, EndView

LEMMA SharedDoneView ==
    ASSUME Core, View, NEW ok \in BOOLEAN, SharedDone(ok)
    PROVE  View'
<1> DEFINE k == running.key
<1>1. phase = "up" /\ running.kind = "shared" /\ UNCHANGED files
      /\ manifest' = [manifest EXCEPT ![k] = IF k \notin store.points THEN "none" ELSE Flag(live[Man(k)].shared)]
      /\ IF k \in store.points THEN UNCHANGED <<live, may>> ELSE Entry(Man(k), Absent)
  BY DEF SharedDone, SharedWritten
<1>2. LooseNames(running, store, step) = {} /\ LooseKeys(running, store) = {k}
  BY <1>1, LooseIs
<1>3. k \in Keys /\ manifest \in [Keys -> Manifests] /\ Mapped(live, may) /\ Man(k) \in Files
  BY <1>1, UpIs, FilesIn DEF Core, IInv, TypeOK, DiskTypes
<1> HIDE DEF k
<1>4. CASE k \in store.points
  <2>1. live[Man(k)] # Absent
    BY <1>4 DEF Core, Listed, Complete, FilesOf
  <2>2. manifest'[k] = Seen(live, k) /\ \A p \in Keys \ {k} : manifest'[p] = manifest[p]
    BY <1>1, <1>3, <1>4, <2>1 DEF Seen
  <2> QED
    BY <1>1, <1>2, <1>4, <2>2, EndView
<1>5. CASE k \notin store.points
  <2> DEFINE z == live'
  <2>1. Entry(Man(k), Absent) /\ Fits(Man(k), Absent)
    BY <1>1, <1>5, PlainFits
  <2>2. Kept(live, may, z, may', {Man(k)}) /\ z[Man(k)] = Absent
    BY <1>3, <2>1, EntryIs
  <2>3. (\A n \in Names : z[Blk(n)] = live[Blk(n)]) /\ \A p \in Keys \ {k} : z[Man(p)] = live[Man(p)]
    BY <2>2, FilesIn, Apart DEF Kept
  <2>4. manifest'[k] = Seen(z, k) /\ \A p \in Keys \ {k} : manifest'[p] = manifest[p]
    BY <1>1, <1>3, <1>5, <2>2 DEF Seen
  <2> QED
    BY <1>1, <1>2, <2>3, <2>4, EndView
<1> QED
  BY <1>4, <1>5

LEMMA ViewStep ==
    ASSUME Core, View, [DiskNext]_allVars
    PROVE  View'
<1>1. CASE EngineStep \/ Take \/ PointDone \/ PointUndone \/ Deleted
  BY <1>1, EngineView, TakeView, PointDoneView, PointUndoneView, DeletedView
<1>2. CASE PutBlock \/ Publish \/ PublishFails \/ Undo \/ Rewrite \/ DeleteOne
  BY <1>2, PutBlockView, PublishView, DeleteOneView
<1>3. CASE \E ok \in BOOLEAN : BlockDone(ok) \/ SharedDone(ok)
  BY <1>3, BlockDoneView, SharedDoneView
<1>4. CASE phase' # "up"
  BY <1>4 DEF View
<1>5. CASE Opened
  <2> DEFINE z == live'
  <2>1. /\ live' = live /\ files' = {n \in Names : Present(Blk(n))}
        /\ manifest' = [k \in Keys |-> IF Present(Man(k)) THEN Flag(live[Man(k)].shared) ELSE "none"]
    BY <1>5 DEF Opened
  <2>2. /\ \A n \in Names : n \in files' <=> live'[Blk(n)] # Absent
        /\ \A k \in Keys : manifest'[k] = Seen(live', k)
    BY <2>1 DEF Present, Seen
  <2> QED
    BY <2>2 DEF View, Mirrors
<1>6. CASE UNCHANGED allVars
  BY <1>6 DEF allVars, diskVars, vars, View
<1>7. Kill \/ PowerLoss => phase' # "up"
  BY DEF Kill, PowerLoss, Stops
<1>8. (\E f \in sweep : Sweep(f)) => phase' # "up"
  BY DEF Sweep
<1>9. (\E unread, unsure : Scan(unread, unsure)) => phase' # "up"
  BY DEF Scan
<1>10. CASE DiskStep
  BY <1>1, <1>2, <1>3, <1>4, <1>5, <1>7, <1>8, <1>10 DEF DiskStep
<1>11. CASE DiskFails
  BY <1>2, <1>3, <1>11 DEF DiskFails
<1> QED
  BY <1>1, <1>4, <1>6, <1>9, <1>10, <1>11 DEF DiskNext

LEMMA ViewIs ==
    ASSUME View
    PROVE  ViewIsDisk
<1> SUFFICES ASSUME phase = "up", running = Idle
             PROVE  /\ \A n \in Names \ Deleting.names : n \in files <=> Present(Blk(n))
                    /\ \A k \in Keys \ Deleting.keys : manifest[k] = Seen(live, k)
  BY DEF ViewIsDisk, Seen, Present
<1>1. LooseNames(running, store, step) = Deleting.names /\ LooseKeys(running, store) = Deleting.keys
  BY LooseIs, TakesUnlinks DEF Deleting
<1> QED
  BY <1>1 DEF View, Mirrors, Present

\* What the store believes of its directories between two tasks is what they
\* hold, through crashes at every step and every open.
LEMMA ViewHolds == DiskSpec => []View
<1>1. DiskInit => View
  <2> SUFFICES ASSUME DiskInit PROVE View
    OBVIOUS
  <2>1. live = [f \in Files |-> Absent] /\ files = {} /\ manifest = [k \in Keys |-> "none"]
    BY DEF DiskInit, Init
  <2>2. \A k \in Keys : Seen(live, k) = "none"
    BY <2>1, FilesIn DEF Seen
  <2> QED
    BY <2>1, <2>2, FilesIn DEF View, Mirrors
<1>2. Core /\ View /\ [DiskNext]_allVars => View'
  BY ViewStep
<1> QED
  BY <1>1, <1>2, DiskInvariant, PTL DEF DiskSpec

LEMMA CoreRebuilt ==
    ASSUME Core
    PROVE  RebuiltIsExact
<1> SUFFICES ASSUME phase = "up" PROVE RefsExact /\ BytesExact /\ IndexedIsOnDisk /\ NoOrphanBlock
  BY DEF RebuiltIsExact
<1>1. PICK m \in Int : m <= 0 /\ Indexed(m)
  BY UpIs
<1> QED
  BY <1>1, IndexedParts DEF Core
-----------------------------------------------------------------------------
(* Nothing is left in the directories that nobody will delete *)

FilesAt(k) == {Man(k), Ids(k), St(k)}

\* The files the writer r puts, i steps into its task; the point whose
\* manifest it writes again.
Underway(r, s, i) ==
    IF r.kind = "block" /\ i = 1 THEN {Blk(r.name)}
    ELSE IF r.kind = "point" THEN FilesAt(s.jobs[r.job].key) ELSE {}
Rewriting(r) == IF r.kind = "shared" THEN {r.key} ELSE {}

\* Every file there is, but for those of S, the index has or a queued task
\* deletes; a flag is in its manifest or, but for the points R, on its way.
Tidy(s, l, S, R) ==
    /\ \A n \in Names : l[Blk(n)] # Absent => n \in s.have \/ NameDoomed(s, n) \/ Blk(n) \in S
    /\ \A k \in Keys : \A f \in FilesAt(k) : l[f] # Absent => k \in s.points \/ PointDoomed(s, k) \/ f \in S
    /\ \A k \in s.points : k \in s.shared => l[Man(k)].shared \/ Rewritten(s, k) \/ k \in R
    /\ \A k \in s.points : l[Man(k)].shared => k \in s.shared

RewritesHold(s) == \A i \in DOMAIN s.tasks : s.tasks[i].kind = "shared" => RewriteHolds(s, i)

WriterNeat(r, s, i) ==
    /\ r.kind = "shared" => (r.key \in s.points /\ r.key \in s.shared) \/ PointDoomed(s, r.key)
    /\ r.kind = "point" => i <= 6 /\ (r.flag => s.jobs[r.job].key \in s.shared)

UpNeat(s, l, r, i) ==
    /\ Tidy(s, l, Underway(r, s, i), Rewriting(r))
    /\ RewritesHold(s) /\ WriterNeat(r, s, i)

Neat ==
    ~faulted =>
        /\ phase = "up" => UpNeat(store, live, running, step)
        /\ phase = "sweep" => Tidy(store, live, sweep, {}) /\ store.tasks = << >>

NoTemps == phase # "down" => ~temps

LEMMA TidyMoves ==
    ASSUME NEW s, NEW z, NEW l, NEW S, NEW R, Tidy(s, l, S, R), Moves(s, z)
    PROVE  Tidy(z, l, S, R)
<1>1. GoesOn(s, z) /\ z.points \subseteq s.points
  BY DEF Moves
<1>2. /\ \A n : NameDoomed(s, n) => NameDoomed(z, n)
      /\ \A k : PointDoomed(s, k) => PointDoomed(z, k)
      /\ \A k : Rewritten(s, k) => Rewritten(z, k)
  BY <1>1, DoomedStay
<1>3. \A n \in s.have : n \in z.have \/ NameDoomed(z, n)
  BY DEF Moves
<1>4. \A k \in s.points : k \in z.points \/ PointDoomed(z, k)
  BY DEF Moves, NewlyDoomed, PointDoomed
<1>5. \A k \in z.points \cap z.shared : k \in s.shared \/ Rewritten(z, k)
  BY DEF Moves
<1>6. \A k \in z.points : k \in s.shared => k \in z.shared
  BY DEF Moves
<1>7. \A n \in Names : l[Blk(n)] # Absent => n \in z.have \/ NameDoomed(z, n) \/ Blk(n) \in S
  BY <1>2, <1>3 DEF Tidy
<1>8. \A k \in Keys : \A f \in FilesAt(k) : l[f] # Absent => k \in z.points \/ PointDoomed(z, k) \/ f \in S
  BY <1>2, <1>4 DEF Tidy
<1>9. \A k \in z.points : k \in z.shared => l[Man(k)].shared \/ Rewritten(z, k) \/ k \in R
  BY <1>1, <1>2, <1>5 DEF Tidy
<1>10. \A k \in z.points : l[Man(k)].shared => k \in z.shared
  BY <1>1, <1>6 DEF Tidy
<1> QED
  BY <1>7, <1>8, <1>9, <1>10 DEF Tidy

LEMMA HoldMoves ==
    ASSUME NEW s \in Store, NEW z, RewritesHold(s), Moves(s, z)
    PROVE  RewritesHold(z)
<1> SUFFICES ASSUME NEW i \in DOMAIN z.tasks, z.tasks[i].kind = "shared" PROVE RewriteHolds(z, i)
  BY DEF RewritesHold
<1>1. CASE i \in DOMAIN s.tasks
  <2>1. RewriteHolds(s, i)
    BY <1>1 DEF Moves, GoesOn, RewritesHold
  <2>2. z \in Store
    BY DEF Moves
  <2> QED
    BY <1>1, <2>1, <2>2, RewriteStays
<1>2. CASE i \notin DOMAIN s.tasks
  BY <1>2 DEF Moves, GoesOn
<1> QED
  BY <1>1, <1>2

\* With the writer between two tasks.
LEMMA IdleNeat ==
    ASSUME NEW s, NEW l, NEW r, NEW i, Tidy(s, l, {}, {}), RewritesHold(s),
           r = Idle \/ (r.kind = "block" /\ i = 0)
    PROVE  UpNeat(s, l, r, i)
<1>1. Underway(r, s, i) = {} /\ Rewriting(r) = {} /\ WriterNeat(r, s, i)
  BY DEF Underway, Rewriting, WriterNeat, Idle
<1> QED
  BY <1>1 DEF UpNeat

LEMMA EngineNeat ==
    ASSUME Core, EngineStep, UpNeat(store, live, running, step)
    PROVE  UpNeat(store, live, running, step)'
<1> DEFINE s == store
           z == store'
           r == running
           i == step
           k == s.jobs[r.job].key
<1>1. phase = "up" /\ Engine /\ UNCHANGED <<live, step>> /\ running' = r
  BY EngineWorks DEF EngineStep
<1>2. PICK m \in Int : m <= 0 /\ Indexed(m)
  BY <1>1, UpIs
<1>3. Moves(s, z) /\ s \in Store
  BY <1>1, <1>2, EngineMoves, UpIs DEF Core
<1>4. r.kind = "point" => z.jobs[r.job].key = k /\ r.job \in Live(s) /\ r.job \in Live(z)
  <2>1. ASSUME r.kind = "point" PROVE r.job \in Live(z)
    <3>1. IInv'
      BY <1>1, <1>2, WholeStep DEF Core, Next
    <3>2. RunningPoint' = {r.job}
      BY <1>1, <2>1 DEF RunningPoint
    <3>3. Sound(store, tickets \cup RunningCopy, RunningPoint, {})'
      BY <3>1 DEF IInv, Whole
    <3>4. z.jobs[r.job].state = "publishing" /\ r.job \in Jobs
      BY <1>1, <2>1, <3>2, <3>3, UpIs DEF Sound, QueueFits
    <3> QED
      BY <3>4 DEF Live, LiveStates
  <2> QED
    BY <1>1, <2>1, UpIs, KeyStays DEF RunningKey
<1>5. Underway(r, z, i) = Underway(r, s, i)
  BY <1>4 DEF Underway
<1> HIDE DEF s, z, r, i
<1>6. Tidy(z, live, Underway(r, s, i), Rewriting(r)) /\ RewritesHold(z)
  BY <1>3, TidyMoves, HoldMoves DEF UpNeat, s, r, i
<1>7. WriterNeat(r, z, i)
  <2>0. WriterNeat(r, s, i)
    BY DEF UpNeat, s, r, i
  <2>1. ASSUME r.kind = "shared" PROVE (r.key \in z.points /\ r.key \in z.shared) \/ PointDoomed(z, r.key)
    <3>1. CASE PointDoomed(s, r.key)
      BY <1>3, <3>1, DoomedStay DEF Moves
    <3>2. CASE r.key \in s.points /\ r.key \in s.shared
      BY <1>3, <3>2 DEF Moves, NewlyDoomed, PointDoomed
    <3> QED
      BY <2>0, <2>1, <3>1, <3>2 DEF WriterNeat
  <2>2. ASSUME r.kind = "point" PROVE i <= 6 /\ (r.flag => z.jobs[r.job].key \in z.shared)
    <3>1. i <= 6 /\ (r.flag => k \in s.shared)
      BY <2>0, <2>2 DEF WriterNeat
    <3>2. k \in s.shared => k \in z.shared
      <4>1. r.job \in Live(s) \cap Live(z) /\ z.jobs[r.job].key = k
        BY <1>4, <2>2
      <4>2. \A p \in s.shared \ z.shared : \A j \in Live(s) \cap Live(z) : z.jobs[j].key # p
        BY <1>3 DEF Moves
      <4> HIDE DEF k
      <4> QED
        BY <4>1, <4>2
    <3> QED
      BY <1>4, <2>2, <3>1, <3>2
  <2> QED
    BY <2>1, <2>2 DEF WriterNeat
<1> QED
  BY <1>1, <1>5, <1>6, <1>7 DEF UpNeat, z, r, i

\* The task at the head of the queue is taken: what it would delete, or write
\* again, is no longer in the queue.
LEMMA PoppedTidy ==
    ASSUME NEW s \in Store, s.tasks # << >>, NEW y, y \in Store, y.tasks = Tail(s.tasks),
           y.points = s.points, y.have = s.have, y.shared = s.shared,
           NEW l, Tidy(s, l, {}, {}), RewritesHold(s), NEW t, t = Head(s.tasks)
    PROVE  /\ RewritesHold(y)
           /\ t.kind = "shared" => (t.key \in y.points /\ t.key \in y.shared) \/ PointDoomed(y, t.key)
           /\ Tidy(y, l, IF t.kind = "unlink" THEN {Blk(n) : n \in t.names} \cup UNION {FilesAt(k) : k \in t.keys} ELSE {},
                         IF t.kind = "shared" THEN {t.key} ELSE {})
<1> DEFINE p == s.tasks
           q == y.tasks
           N == Len(p)
<1>1. p \in Seq(Task) /\ p # << >>
  BY StoreFields
<1>2. N \in Nat /\ N > 0 /\ DOMAIN p = 1 .. N /\ DOMAIN q = 1 .. (N - 1) /\ t = p[1]
      /\ \A i \in 1 .. (N - 1) : q[i] = p[i + 1]
  BY <1>1
<1> HIDE DEF N, p, q
<1>3. \A i \in DOMAIN p : i = 1 \/ (i - 1 \in DOMAIN q /\ q[i - 1] = p[i])
  <2> TAKE i \in DOMAIN p
  <2>1. i # 1 => i - 1 \in 1 .. (N - 1) /\ (i - 1) + 1 = i
    BY <1>2
  <2> QED
    BY <1>2, <2>1
<1>4. \A n : NameDoomed(s, n) => NameDoomed(y, n) \/ (t.kind = "unlink" /\ n \in t.names)
  BY <1>2, <1>3 DEF NameDoomed, p, q
<1>5. \A k : PointDoomed(s, k) => PointDoomed(y, k) \/ (t.kind = "unlink" /\ k \in t.keys)
  BY <1>2, <1>3 DEF PointDoomed, p, q
<1>6. \A k : Rewritten(s, k) => Rewritten(y, k) \/ (t.kind = "shared" /\ k = t.key)
  BY <1>2, <1>3 DEF Rewritten, p, q
<1>7. \A k : \A i \in DOMAIN p : (\E h \in DOMAIN p : h > i /\ p[h].kind = "unlink" /\ k \in p[h].keys) =>
          \E h \in DOMAIN q : h > i - 1 /\ q[h].kind = "unlink" /\ k \in q[h].keys
  <2> SUFFICES ASSUME NEW i \in DOMAIN p, NEW k, NEW h \in DOMAIN p, h > i, p[h].kind = "unlink", k \in p[h].keys
               PROVE  \E g \in DOMAIN q : g > i - 1 /\ q[g].kind = "unlink" /\ k \in q[g].keys
    OBVIOUS
  <2>1. h # 1 /\ h - 1 > i - 1
    BY <1>2
  <2>2. h - 1 \in DOMAIN q /\ q[h - 1] = p[h]
    BY <1>3, <2>1
  <2> QED
    BY <2>1, <2>2
<1>8. \A i \in DOMAIN p : p[i].kind = "shared" =>
          \/ p[i].key \in s.points /\ p[i].key \in s.shared
          \/ \E h \in DOMAIN p : h > i /\ p[h].kind = "unlink" /\ p[i].key \in p[h].keys
  BY DEF RewritesHold, RewriteHolds, p
<1>9. RewritesHold(y)
  <2> SUFFICES ASSUME NEW i \in DOMAIN q, q[i].kind = "shared"
               PROVE  \/ q[i].key \in s.points /\ q[i].key \in s.shared
                      \/ \E h \in DOMAIN q : h > i /\ q[h].kind = "unlink" /\ q[i].key \in q[h].keys
    BY DEF RewritesHold, RewriteHolds, q
  <2>1. i + 1 \in DOMAIN p /\ q[i] = p[i + 1] /\ (i + 1) - 1 = i
    BY <1>2
  <2> DEFINE a == i + 1
  <2>2. a \in DOMAIN p /\ q[i] = p[a] /\ a - 1 = i
    BY <2>1
  <2> HIDE DEF a
  <2>3. \/ p[a].key \in s.points /\ p[a].key \in s.shared
        \/ \E h \in DOMAIN p : h > a /\ p[h].kind = "unlink" /\ p[a].key \in p[h].keys
    BY <1>8, <2>2
  <2> QED
    BY <1>7, <2>2, <2>3
<1>10. t.kind = "shared" => (t.key \in y.points /\ t.key \in y.shared) \/ PointDoomed(y, t.key)
  <2> SUFFICES ASSUME t.kind = "shared" PROVE (t.key \in s.points /\ t.key \in s.shared) \/ PointDoomed(y, t.key)
    OBVIOUS
  <2>1. 1 \in DOMAIN p /\ p[1] = t
    BY <1>2
  <2>2. (\E h \in DOMAIN p : h > 1 /\ p[h].kind = "unlink" /\ t.key \in p[h].keys) => PointDoomed(y, t.key)
    <3>1. (\E h \in DOMAIN p : h > 1 /\ p[h].kind = "unlink" /\ t.key \in p[h].keys) =>
              \E h \in DOMAIN q : h > 1 - 1 /\ q[h].kind = "unlink" /\ t.key \in q[h].keys
      BY <1>7, <2>1
    <3> QED
      BY <3>1 DEF PointDoomed, q
  <2> QED
    BY <1>8, <2>1, <2>2
<1> DEFINE S == IF t.kind = "unlink" THEN {Blk(n) : n \in t.names} \cup UNION {FilesAt(k) : k \in t.keys} ELSE {}
           R == IF t.kind = "shared" THEN {t.key} ELSE {}
<1>11. /\ \A n : t.kind = "unlink" /\ n \in t.names => Blk(n) \in S
       /\ \A k : t.kind = "unlink" /\ k \in t.keys => \A f \in FilesAt(k) : f \in S
       /\ \A k : t.kind = "shared" /\ k = t.key => k \in R
  OBVIOUS
<1> HIDE DEF S, R
<1>12. Tidy(y, l, S, R)
  <2>1. \A n \in Names : l[Blk(n)] # Absent => n \in y.have \/ NameDoomed(y, n) \/ Blk(n) \in S
    BY <1>4, <1>11 DEF Tidy
  <2>2. \A k \in Keys : \A f \in FilesAt(k) : l[f] # Absent => k \in y.points \/ PointDoomed(y, k) \/ f \in S
    BY <1>5, <1>11 DEF Tidy
  <2>3. \A k \in y.points : k \in y.shared => l[Man(k)].shared \/ Rewritten(y, k) \/ k \in R
    BY <1>6, <1>11 DEF Tidy
  <2>4. \A k \in y.points : l[Man(k)].shared => k \in y.shared
    BY DEF Tidy
  <2> QED
    BY <2>1, <2>2, <2>3, <2>4 DEF Tidy
<1> QED
  BY <1>9, <1>10, <1>12 DEF S, R

\* Other files: what there is now was there, or is of S.
LEMMA TidyFiles ==
    ASSUME NEW s, s.points \subseteq Keys, NEW l, NEW Q, NEW R, Tidy(s, l, Q, R), NEW z, NEW S,
           \A f \in Files : z[f] # Absent => f \in S \/ (l[f] # Absent /\ f \notin Q),
           \A k \in s.points : z[Man(k)] = l[Man(k)]
    PROVE  Tidy(s, z, S, R)
<1>1. \A n \in Names : z[Blk(n)] # Absent => n \in s.have \/ NameDoomed(s, n) \/ Blk(n) \in S
  BY FilesIn DEF Tidy
<1>2. \A k \in Keys : \A f \in FilesAt(k) : z[f] # Absent => k \in s.points \/ PointDoomed(s, k) \/ f \in S
  <2> SUFFICES ASSUME NEW k \in Keys, NEW f \in FilesAt(k), z[f] # Absent
               PROVE  k \in s.points \/ PointDoomed(s, k) \/ f \in S
    OBVIOUS
  <2>1. f \in Files
    BY FilesIn DEF FilesAt
  <2> QED
    BY <2>1 DEF Tidy
<1>3. /\ \A k \in s.points : k \in s.shared => z[Man(k)].shared \/ Rewritten(s, k) \/ k \in R
      /\ \A k \in s.points : z[Man(k)].shared => k \in s.shared
  BY DEF Tidy
<1> QED
  BY <1>1, <1>2, <1>3 DEF Tidy

LEMMA NoneDoomed ==
    ASSUME Core, phase = "up"
    PROVE  /\ \A k \in store.points : ~PointDoomed(store, k)
           /\ \A n \in store.have : ~NameDoomed(store, n)
<1>1. PICK m \in Int : m <= 0 /\ Indexed(m)
  BY UpIs
<1>2. NoDeletionOfLive
  BY <1>1, IndexedParts DEF Core
<1> QED
  BY <1>2 DEF NoDeletionOfLive, PointDoomed, NameDoomed

LEMMA TakeNeat ==
    ASSUME Core, Take, UpNeat(store, live, running, step)
    PROVE  UpNeat(store, live, running, step)'
<1> DEFINE s == store
           z == store'
           y == Popped
           t == Head(s.tasks)
           R == IF t.kind = "shared" THEN {t.key} ELSE {}
<1>1. phase = "up" /\ step' = 0 /\ live' = live
  BY DEF Take, Locked
<1>2. PICK m \in Int : m <= 0 /\ Indexed(m)
  BY <1>1, UpIs
<1>3. IInv /\ s \in Store /\ s.points \subseteq Keys
  BY <1>1, UpIs, StoreFields DEF Core
<1>4. Takes("block") \/ Takes("point") \/ Takes("shared")
  BY DEF Take, TakeBlock, TakePoint, TakeShared
<1>5. running = Idle /\ s.tasks # << >> /\ t.kind # "unlink"
  BY <1>4 DEF Takes
<1>6. /\ y \in Store /\ y.points = s.points /\ y.have = s.have /\ y.jobs = s.jobs /\ y.shared = s.shared
      /\ y.tasks = Tail(s.tasks)
  BY <1>2, <1>3, <1>4, PoppedWaits DEF Popped, Store
<1>7. Tidy(s, live, {}, {}) /\ RewritesHold(s)
  <2>1. Underway(running, s, step) = {} /\ Rewriting(running) = {}
    BY <1>5 DEF Underway, Rewriting, Idle
  <2> QED
    BY <2>1 DEF UpNeat
<1>8. Moves(y, z)
  BY <1>2, <1>3, TakeBlockMoves, TakePointMoves, TakeOtherMoves DEF Take
<1> HIDE DEF t
<1>9. /\ RewritesHold(y) /\ Tidy(y, live, {}, R)
      /\ t.kind = "shared" => (t.key \in y.points /\ t.key \in y.shared) \/ PointDoomed(y, t.key)
  <2> HIDE DEF s, y
  <2> QED
    BY <1>3, <1>5, <1>6, <1>7, PoppedTidy DEF t
<1>10. CASE TakeBlock
  <2>1. t.kind = "block" /\ (running' = t \/ running' = Idle)
    BY <1>10 DEF TakeBlock, Takes, t
  <2> HIDE DEF z, y, s
  <2>2. Tidy(z, live, {}, {}) /\ RewritesHold(z)
    BY <1>6, <1>8, <1>9, <2>1, TidyMoves, HoldMoves
  <2>3. UpNeat(z, live, running', 0)
    BY <2>1, <2>2, IdleNeat
  <2> QED
    BY <1>1, <2>3 DEF z
<1>11. CASE TakePoint
  <2> DEFINE j == t.job
             k == s.jobs[j].key
  <2>1. t.kind = "point"
    BY <1>11 DEF TakePoint, Takes, t
  <2>2. \/ running' = running
        \/ store' = y /\ running' = [kind |-> "point", job |-> j, flag |-> k \in s.shared]
    BY <1>11 DEF TakePoint, t
  <2>3. CASE running' = running
    <3> HIDE DEF z, y, s
    <3>1. Tidy(z, live, {}, {}) /\ RewritesHold(z)
      BY <1>6, <1>8, <1>9, <2>1, TidyMoves, HoldMoves
    <3>2. UpNeat(z, live, running', 0)
      BY <1>5, <2>3, <3>1, IdleNeat
    <3> QED
      BY <1>1, <3>2 DEF z
  <2>4. CASE store' = y /\ running' = [kind |-> "point", job |-> j, flag |-> k \in s.shared]
    <3> DEFINE r == running'
               S == Underway(r, y, 0)
    <3>1. r.kind = "point" /\ r.job = j /\ (r.flag <=> k \in s.shared)
      BY <2>4
    <3> HIDE DEF r, y, s
    <3>2. Rewriting(r) = {} /\ WriterNeat(r, y, 0)
      BY <1>6, <3>1 DEF Rewriting, WriterNeat
    <3>3. Tidy(y, live, {}, {})
      BY <1>9, <2>1
    <3> HIDE DEF S
    <3>4. Tidy(y, live, S, {})
      BY <1>3, <1>6, <3>3, TidyFiles
    <3>5. UpNeat(y, live, r, 0)
      BY <1>9, <3>2, <3>4 DEF UpNeat, S
    <3> QED
      BY <1>1, <2>4, <3>5 DEF r
  <2> QED
    BY <2>2, <2>3, <2>4
<1>12. CASE TakeShared
  <2>1. t.kind = "shared" /\ z = y /\ running' = IF t.key \in s.points THEN t ELSE Idle
    BY <1>12 DEF TakeShared, Takes, t
  <2> DEFINE r == running'
  <2> HIDE DEF r, z, y, s
  <2>2. CASE t.key \in s.points
    <3>1. r = t /\ Underway(r, y, 0) = {} /\ Rewriting(r) = R
      BY <2>1, <2>2 DEF Underway, Rewriting, r
    <3>2. WriterNeat(r, y, 0)
      BY <1>9, <2>1, <3>1 DEF WriterNeat
    <3>3. UpNeat(z, live, r, 0)
      BY <1>9, <2>1, <3>1, <3>2 DEF UpNeat
    <3> QED
      BY <1>1, <3>3 DEF z, r
  <2>3. CASE t.key \notin s.points
    <3>1. r = Idle
      BY <2>1, <2>3 DEF r
    <3>2. Tidy(y, live, {}, {})
      BY <1>6, <1>9, <2>1, <2>3 DEF Tidy
    <3>3. UpNeat(z, live, r, 0)
      BY <1>9, <2>1, <3>1, <3>2, IdleNeat
    <3> QED
      BY <1>1, <3>3 DEF z, r
  <2> QED
    BY <2>2, <2>3
<1> QED
  BY <1>10, <1>11, <1>12 DEF Take

LEMMA DeletedNeat ==
    ASSUME Core, Deleted, UpNeat(store, live, running, step)
    PROVE  UpNeat(store, live, running, step)'
<1> DEFINE s == store
           z == store'
           t == Head(s.tasks)
           S == {Blk(n) : n \in t.names} \cup UNION {FilesAt(k) : k \in t.keys}
<1>1. phase = "up" /\ step' = 0 /\ live' = live /\ Takes("unlink") /\ z = Popped /\ running' = running
  BY DEF Deleted, Locked, Unlink
<1>2. PICK m \in Int : m <= 0 /\ Indexed(m)
  BY <1>1, UpIs
<1>3. IInv /\ s \in Store /\ s.points \subseteq Keys
  BY <1>1, UpIs, StoreFields DEF Core
<1>4. running = Idle /\ s.tasks # << >> /\ t.kind = "unlink"
  BY <1>1 DEF Takes
<1>5. /\ z \in Store /\ z.points = s.points /\ z.have = s.have /\ z.shared = s.shared /\ z.tasks = Tail(s.tasks)
  BY <1>1, <1>2, <1>3, PoppedWaits DEF Popped, Store
<1>6. Tidy(s, live, {}, {}) /\ RewritesHold(s)
  <2>1. Underway(running, s, step) = {} /\ Rewriting(running) = {}
    BY <1>4 DEF Underway, Rewriting, Idle
  <2> QED
    BY <2>1 DEF UpNeat
<1>7. t.keys \in SUBSET Keys /\ t.names \in SUBSET Names /\ NextDeletions(t) = {}
  BY <1>1, UnlinkHead DEF Deleted
<1> HIDE DEF t
<1>8. \A f \in S : live[f] = Absent
  BY <1>7, DeletedAll DEF FilesAt
<1> HIDE DEF S, z, s
<1>9. RewritesHold(z) /\ Tidy(z, live, S, {})
  BY <1>3, <1>4, <1>5, <1>6, PoppedTidy DEF t, S
<1>10. Tidy(z, live, {}, {})
  BY <1>3, <1>5, <1>8, <1>9, TidyFiles
<1>11. UpNeat(z, live, running', 0)
  BY <1>1, <1>4, <1>9, <1>10, IdleNeat
<1> QED
  BY <1>1, <1>11 DEF z

LEMMA BlockDoneNeat ==
    ASSUME Core, BlockDone(TRUE), UpNeat(store, live, running, step)
    PROVE  UpNeat(store, live, running, step)'
<1> DEFINE n == running.name
           s == store
           z == store'
           a == AddBlock(s, n)
<1>1. phase = "up" /\ step = 1 /\ step' = 0 /\ live' = live /\ BlockWritten(TRUE)
      /\ running.kind = "block" /\ running' = Idle
  BY DEF BlockDone, Locked, BlockWritten
<1>2. PICK m \in Int : m <= 0 /\ Indexed(m)
  BY <1>1, UpIs
<1>3. Moves(a, z) /\ s \in Store /\ n \in Names /\ s.points \subseteq Keys
  BY <1>1, <1>2, BlockWrittenMoves, UpIs, StoreFields DEF Core
<1>4. a.points = s.points /\ a.have = s.have \cup {n} /\ a.tasks = s.tasks /\ a.shared = s.shared
      /\ a \in Store
  <2>1. a.points = s.points /\ a.have = s.have \cup {n} /\ a.tasks = s.tasks /\ a.shared = s.shared
    BY <1>3 DEF AddBlock, Store
  <2>2. a \in Store
    BY <1>3, AddBlockType DEF Keeps
  <2> QED
    BY <2>1, <2>2
<1>5. Tidy(s, live, {Blk(n)}, {}) /\ RewritesHold(s)
  BY <1>1 DEF UpNeat, Underway, Rewriting
<1> HIDE DEF a, s, z, n
<1>6. RewritesHold(a)
  BY <1>4, <1>5 DEF RewritesHold, RewriteHolds
<1>7. Tidy(a, live, {}, {})
  <2>1. /\ \A x : NameDoomed(a, x) <=> NameDoomed(s, x)
        /\ \A x : PointDoomed(a, x) <=> PointDoomed(s, x)
        /\ \A x : Rewritten(a, x) <=> Rewritten(s, x)
    BY <1>4 DEF NameDoomed, PointDoomed, Rewritten
  <2>2. /\ \A x : Blk(x) \in {Blk(n)} => x = n
        /\ \A k : \A f \in FilesAt(k) : f \notin {Blk(n)}
    BY Apart DEF FilesAt
  <2> QED
    BY <1>4, <1>5, <2>1, <2>2 DEF Tidy
<1>8. Tidy(z, live, {}, {}) /\ RewritesHold(z)
  BY <1>3, <1>4, <1>6, <1>7, TidyMoves, HoldMoves
<1>9. UpNeat(z, live, running', 0)
  BY <1>1, <1>8, IdleNeat
<1> QED
  BY <1>1, <1>9 DEF z

LEMMA PointDoneNeat ==
    ASSUME Core, PointDone, UpNeat(store, live, running, step)
    PROVE  UpNeat(store, live, running, step)'
<1> DEFINE j == running.job
           k == RunningKey
           s == store
           z == store'
           r == running
<1>1. phase = "up" /\ step = 6 /\ step' = 0 /\ live' = live /\ PointWritten
      /\ r.kind = "point" /\ running' = Idle /\ k = s.jobs[j].key
  BY PublishedIs DEF PointDone, PointWritten, RunningKey
<1>2. PICK m \in Int : m <= 0 /\ Indexed(m)
  BY <1>1, UpIs
<1>3. j \in Jobs /\ k \in Keys /\ k \notin s.points /\ s \in Store /\ Mapped(live, may) /\ s.points \subseteq Keys
  BY <1>1, UpIs, StoreFields DEF Core, DiskTypes
<1>4. live[Man(k)] = Manifest(j, r.flag, Sums(live, k))
  BY <1>1 DEF Core, WriterFits, Progress
<1>5. live[Man(k)].shared = r.flag
  BY <1>4, PlainIs
<1>6. Tidy(s, live, FilesAt(k), {}) /\ RewritesHold(s) /\ (r.flag => k \in s.shared)
  BY <1>1 DEF UpNeat, Underway, Rewriting, WriterNeat
<1>7. CASE Blocks(k) \subseteq s.have
  <2> DEFINE g == Gained(s, k)
  <2>1. Moves(g, z) /\ (k \in z.points \cap z.shared => r.flag \/ Rewritten(z, k))
    BY <1>1, <1>2, <1>7, PublishedMoves DEF Core, RunningKey
  <2>2. /\ g \in Store /\ g.points = s.points \cup {k} /\ g.have = s.have /\ g.shared = s.shared
        /\ g.tasks = s.tasks
    BY <1>3, GainedIs
  <2> HIDE DEF g, s, z, j, k, r
  <2>3. RewritesHold(g)
    BY <1>6, <2>2 DEF RewritesHold, RewriteHolds
  <2>4. Tidy(g, live, {}, {k})
    <3>1. /\ \A x : NameDoomed(g, x) <=> NameDoomed(s, x)
          /\ \A x : PointDoomed(g, x) <=> PointDoomed(s, x)
          /\ \A x : Rewritten(g, x) <=> Rewritten(s, x)
      BY <2>2 DEF NameDoomed, PointDoomed, Rewritten
    <3>2. /\ \A n : Blk(n) \notin FilesAt(k)
          /\ \A p : \A f \in FilesAt(p) : f \in FilesAt(k) => p = k
      BY Apart DEF FilesAt
    <3>3. \A n \in Names : live[Blk(n)] # Absent => n \in g.have \/ NameDoomed(g, n) \/ Blk(n) \in {}
      BY <1>6, <2>2, <3>1, <3>2 DEF Tidy
    <3>4. \A p \in Keys : \A f \in FilesAt(p) : live[f] # Absent => p \in g.points \/ PointDoomed(g, p) \/ f \in {}
      BY <1>6, <2>2, <3>1, <3>2 DEF Tidy
    <3>5. \A p \in g.points : p \in g.shared => live[Man(p)].shared \/ Rewritten(g, p) \/ p \in {k}
      BY <1>6, <2>2, <3>1 DEF Tidy
    <3>6. \A p \in g.points : live[Man(p)].shared => p \in g.shared
      BY <1>5, <1>6, <2>2 DEF Tidy
    <3> QED
      BY <3>3, <3>4, <3>5, <3>6 DEF Tidy
  <2>5. Tidy(z, live, {}, {k}) /\ RewritesHold(z)
    BY <2>1, <2>2, <2>3, <2>4, TidyMoves, HoldMoves
  <2>6. Tidy(z, live, {}, {})
    BY <1>5, <2>1, <2>5 DEF Tidy
  <2>7. UpNeat(z, live, running', 0)
    BY <1>1, <2>5, <2>6, IdleNeat
  <2> QED
    BY <1>1, <2>7 DEF z
<1>8. CASE ~(Blocks(k) \subseteq s.have)
  <2>1. Moves(s, z) /\ PointDoomed(z, k)
    BY <1>1, <1>2, <1>8, DiscardMoves DEF Core, RunningKey
  <2> HIDE DEF s, z, j, k, r
  <2>2. Tidy(z, live, FilesAt(k), {}) /\ RewritesHold(z)
    BY <1>3, <1>6, <2>1, TidyMoves, HoldMoves
  <2>3. Tidy(z, live, {}, {})
    <3>1. /\ \A n : Blk(n) \notin FilesAt(k)
          /\ \A p : \A f \in FilesAt(p) : f \in FilesAt(k) => p = k
      BY Apart DEF FilesAt
    <3>2. \A p \in Keys : \A f \in FilesAt(p) : live[f] # Absent => p \in z.points \/ PointDoomed(z, p) \/ f \in {}
      BY <2>1, <2>2, <3>1 DEF Tidy
    <3> QED
      BY <2>2, <3>1, <3>2 DEF Tidy
  <2>4. UpNeat(z, live, running', 0)
    BY <1>1, <2>2, <2>3, IdleNeat
  <2> QED
    BY <1>1, <2>4 DEF z
<1> QED
  BY <1>7, <1>8

LEMMA SharedDoneNeat ==
    ASSUME Core, SharedDone(TRUE), UpNeat(store, live, running, step)
    PROVE  UpNeat(store, live, running, step)'
<1> DEFINE k == running.key
           s == store
           z == live'
<1>1. phase = "up" /\ step = 2 /\ step' = 0
      /\ running.kind = "shared" /\ running' = Idle /\ store' = s
      /\ IF k \in s.points THEN UNCHANGED <<live, may>> ELSE Entry(Man(k), Absent)
  BY DEF SharedDone, SharedWritten
<1>2. k \in Keys /\ s \in Store /\ Mapped(live, may) /\ s.points \subseteq Keys
  BY <1>1, UpIs, StoreFields DEF Core, DiskTypes
<1>3. Tidy(s, live, {}, {k}) /\ RewritesHold(s)
  BY <1>1 DEF UpNeat, Underway, Rewriting
<1>4. live[Man(k)].shared = TRUE
  BY <1>1 DEF Core, WriterFits
<1> HIDE DEF k, s, z
<1>5. Tidy(s, live, {}, {}) \/ k \notin s.points
  BY <1>3, <1>4 DEF Tidy
<1>6. Tidy(s, z, {}, {})
  <2>1. CASE k \in s.points
    BY <1>1, <1>5, <2>1 DEF z
  <2>2. CASE k \notin s.points
    <3>1. Man(k) \in Files /\ Fits(Man(k), Absent) /\ Entry(Man(k), Absent)
      BY <1>1, <1>2, <2>2, FilesIn, PlainFits
    <3>2. Kept(live, may, z, may', {Man(k)}) /\ z[Man(k)] = Absent
      BY <1>2, <3>1, EntryIs DEF z
    <3>3. /\ \A f \in Files : z[f] # Absent => live[f] # Absent
          /\ \A p \in s.points : z[Man(p)] = live[Man(p)]
      BY <1>2, <2>2, <3>2, FilesIn, Apart DEF Kept
    <3>4. Tidy(s, live, {}, {})
      BY <1>3, <2>2 DEF Tidy
    <3> QED
      BY <1>2, <3>3, <3>4, TidyFiles
  <2> QED
    BY <2>1, <2>2
<1>7. UpNeat(s, z, running', 0)
  BY <1>1, <1>3, <1>6, IdleNeat
<1> QED
  BY <1>1, <1>7 DEF z

LEMMA PutBlockNeat ==
    ASSUME Core, PutBlock, UpNeat(store, live, running, step)
    PROVE  UpNeat(store, live, running, step)'
<1> DEFINE n == running.name
           s == store
           z == live'
           r == running
           f == Blk(n)
<1>1. phase = "up" /\ r.kind = "block" /\ step = 0 /\ step' = 1 /\ store' = s /\ running' = r
      /\ Entry(f, Plain(r.job))
  BY Busy DEF Core, PutBlock, OnDisk, vars
<1>2. s \in Store /\ Mapped(live, may) /\ s.points \subseteq Keys
  BY <1>1, UpIs, StoreFields DEF Core, DiskTypes
<1>3. \A h \in Files \ {f} : z[h] = live[h]
  BY <1>1, <1>2 DEF Entry, Mapped
<1>4. Tidy(s, live, {}, {}) /\ RewritesHold(s)
  BY <1>1 DEF UpNeat, Underway, Rewriting
<1>5. \A p \in s.points : Man(p) \in Files \ {f}
  BY <1>2, FilesIn, Apart
<1>6. Underway(r, s, 1) = {f} /\ Rewriting(r) = {} /\ WriterNeat(r, s, 1)
  BY <1>1 DEF Underway, Rewriting, WriterNeat
<1> HIDE DEF z, f, s, r
<1>7. Tidy(s, z, {f}, {})
  BY <1>2, <1>3, <1>4, <1>5, TidyFiles
<1>8. UpNeat(s, z, r, 1)
  BY <1>4, <1>6, <1>7 DEF UpNeat
<1> QED
  BY <1>1, <1>8 DEF z

\* A step of a publication.
LEMMA PublishNeat ==
    ASSUME Core, Publish, UpNeat(store, live, running, step)
    PROVE  UpNeat(store, live, running, step)'
<1> DEFINE s == store
           z == live'
           r == running
           k == RunningKey
           i == step
<1>1. r.kind = "point" /\ i \in 0 .. 5 /\ i' = i + 1 /\ store' = s /\ running' = r
  BY PublishedIs DEF Publish, Core, DiskTypes, OnDisk, vars
<1>2. phase = "up"
  BY <1>1, Busy DEF Core
<1>3. k \in Keys /\ k \notin s.points /\ s \in Store /\ Mapped(live, may) /\ s.points \subseteq Keys
  BY <1>1, <1>2, UpIs, StoreFields DEF Core, DiskTypes
<1>4. \A f \in Files \ FilesAt(k) : z[f] = live[f]
  <2>1. k = s.jobs[r.job].key
    BY DEF RunningKey
  <2>2. (\E dir : SyncDir(dir)) \/ \E f \in FilesAt(k) : \E c : Entry(f, c)
    BY <2>1 DEF Publish, FilesAt
  <2>3. \A f, c : Entry(f, c) => \A h \in Files \ {f} : z[h] = live[h]
    BY <1>3 DEF Entry, Mapped
  <2>4. \A dir : SyncDir(dir) => z = live
    BY DEF SyncDir
  <2> HIDE DEF k, z
  <2> QED
    BY <2>2, <2>3, <2>4
<1>5. /\ Underway(r, s, i) = FilesAt(k) /\ Underway(r, s, i') = FilesAt(k) /\ Rewriting(r) = {}
      /\ WriterNeat(r, s, i) => WriterNeat(r, s, i')
  BY <1>1 DEF Underway, Rewriting, WriterNeat, RunningKey
<1>6. Tidy(s, live, FilesAt(k), {}) /\ RewritesHold(s) /\ WriterNeat(r, s, i')
  BY <1>5 DEF UpNeat
<1> HIDE DEF z, s, r, k, i
<1>7. \A p \in s.points : Man(p) \in Files \ FilesAt(k)
  BY <1>3, FilesIn, Apart DEF FilesAt
<1>8. Tidy(s, z, FilesAt(k), {})
  BY <1>3, <1>4, <1>6, <1>7, TidyFiles
<1>9. UpNeat(s, z, r, i')
  BY <1>5, <1>6, <1>8 DEF UpNeat
<1> QED
  BY <1>1, <1>9 DEF z, i

LEMMA RewriteNeat ==
    ASSUME Core, Rewrite, UpNeat(store, live, running, step)
    PROVE  UpNeat(store, live, running, step)'
<1> DEFINE k == running.key
           s == store
           z == live'
           r == running
           f == Man(k)
           c == [live[f] EXCEPT !.shared = TRUE]
<1>1. r.kind = "shared" /\ step \in {0, 1} /\ store' = s /\ running' = r
      /\ IF step = 0 THEN Entry(f, c) ELSE SyncDir(PointFiles)
  BY DEF Rewrite, Core, DiskTypes, OnDisk, vars
<1>2. phase = "up"
  BY <1>1, Busy DEF Core
<1>3. k \in Keys /\ s \in Store /\ Mapped(live, may) /\ s.points \subseteq Keys /\ f \in Files
  BY <1>1, <1>2, UpIs, StoreFields, FilesIn DEF Core, DiskTypes
<1>4. \A q, i : /\ r.kind = "shared" => Underway(r, q, i) = {} /\ Rewriting(r) = {k}
                /\ r.kind = "shared" => (WriterNeat(r, q, i) <=> ((k \in q.points /\ k \in q.shared) \/ PointDoomed(q, k)))
  BY DEF Underway, Rewriting, WriterNeat
<1>5. Tidy(s, live, {}, {k}) /\ RewritesHold(s) /\ ((k \in s.points /\ k \in s.shared) \/ PointDoomed(s, k))
  BY <1>1, <1>4 DEF UpNeat
<1>6. k \in s.points => k \in s.shared /\ live[f] # Absent
  <2>1. \A p \in s.points : ~PointDoomed(s, p)
    BY <1>2, NoneDoomed
  <2>2. k \in s.points => live[f] # Absent
    BY DEF Core, Listed, Complete, FilesOf
  <2> QED
    BY <1>5, <2>1, <2>2
<1>7. Tidy(s, z, {}, {k})
  <2>1. CASE step = 1
    BY <1>1, <1>5, <2>1 DEF SyncDir
  <2>2. CASE step = 0
    <3>1. c.shared = TRUE /\ Entry(f, c)
      <4>1. Fits(f, live[f])
        BY <1>3 DEF Mapped
      <4> QED
        BY <1>1, <2>2, <4>1, SharedFits
    <3>2. (\A h \in Files \ {f} : z[h] = live[h]) /\ z[f] = c
      BY <1>3, <3>1 DEF Entry, Mapped
    <3>3. k \in s.points \/ PointDoomed(s, k)
      BY <1>5
    <3> HIDE DEF c, z, s
    <3>4. /\ \A n \in Names : z[Blk(n)] = live[Blk(n)]
          /\ \A p \in Keys \ {k} : \A h \in FilesAt(p) : z[h] = live[h]
      BY <3>2, FilesIn, Apart DEF FilesAt
    <3>5. \A n \in Names : z[Blk(n)] # Absent => n \in s.have \/ NameDoomed(s, n) \/ Blk(n) \in {}
      BY <1>5, <3>4 DEF Tidy
    <3>6. \A p \in Keys : \A h \in FilesAt(p) : z[h] # Absent => p \in s.points \/ PointDoomed(s, p) \/ h \in {}
      BY <1>5, <3>3, <3>4 DEF Tidy
    <3>7. \A p \in s.points : p \in s.shared => z[Man(p)].shared \/ Rewritten(s, p) \/ p \in {k}
      BY <1>3, <1>5, <3>4 DEF Tidy, FilesAt
    <3>8. \A p \in s.points : z[Man(p)].shared => p \in s.shared
      BY <1>3, <1>5, <1>6, <3>4 DEF Tidy, FilesAt
    <3> QED
      BY <3>5, <3>6, <3>7, <3>8 DEF Tidy
  <2> QED
    BY <1>1, <2>1, <2>2
<1>8. UpNeat(s, z, r, step')
  BY <1>1, <1>4, <1>5, <1>7 DEF UpNeat
<1> QED
  BY <1>1, <1>8

LEMMA DeleteOneNeat ==
    ASSUME Core, Core', DeleteOne, UpNeat(store, live, running, step)
    PROVE  UpNeat(store, live, running, step)'
<1> DEFINE s == store
           z == live'
<1>1. phase = "up" /\ Takes("unlink") /\ step' = step /\ store' = s /\ running' = running /\ running = Idle
  BY DEF DeleteOne, Takes, vars
<1>2. s \in Store /\ Mapped(live, may) /\ s.points \subseteq Keys
  BY <1>1, UpIs, StoreFields DEF Core, DiskTypes
<1>3. PICK f \in NextDeletions(Head(s.tasks)) : Entry(f, Absent)
  BY DEF DeleteOne
<1>4. \A h \in Files : z[h] = live[h] \/ (h = f /\ z[h] = Absent)
  BY <1>2, <1>3 DEF Entry, Mapped
<1>5. \A p \in s.points : z[Man(p)] # Absent
  <2>1. Listed'
    BY DEF Core
  <2> QED
    BY <1>1, <2>1 DEF Listed, Complete, FilesOf
<1>6. Tidy(s, live, {}, {}) /\ RewritesHold(s)
  BY <1>1 DEF UpNeat, Underway, Rewriting, Idle
<1> HIDE DEF s, z
<1>7. \A p \in s.points : z[Man(p)] = live[Man(p)]
  BY <1>2, <1>4, <1>5, FilesIn
<1>8. Tidy(s, z, {}, {})
  BY <1>2, <1>4, <1>6, <1>7, TidyFiles
<1>9. UpNeat(s, z, running, step)
  BY <1>1, <1>6, <1>8, IdleNeat
<1> QED
  BY <1>1, <1>9 DEF z

\* An open that could read everything finds every point whole or cut short.
LEMMA ScanNeat ==
    ASSUME Core, Core', Scan({}, {})
    PROVE  Tidy(store', live', sweep', {}) /\ store'.tasks = << >>
<1> DEFINE found == {k \in Keys : Present(Man(k))}
           R == {k \in found : Verdict(k, {}, {}) = "recovered"}
           kept == {k \in found : Verdict(k, {}, {}) = "kept"}
           s == store'
<1>1. store' = Rebuilt(R) /\ sweep' = Orphans(R, kept, {}) /\ live' = live
  BY DEF Scan
<1>2. kept = {}
  <2>1. \A k \in Keys : Verdict(k, {}, {}) # "kept"
    BY DEF Verdict
  <2> QED
    BY <2>1
<1>3. R \in SUBSET Keys /\ store \in Store
  BY DEF Core, IInv, TypeOK
<1> HIDE DEF R, kept
<1>4. Fresh(s) /\ Recounted(s) /\ s.points = R
  BY <1>1, <1>3, RebuiltFresh
<1>5. s.shared = {k \in R : live[Man(k)].shared}
  <2>1. Closed \in Store
    BY <1>3, ClosedFresh DEF Fresh
  <2> DEFINE c == Closed
             shared == {k \in R : live[Man(k)].shared}
             have == UNION {Blocks(k) : k \in R}
             refs == [n \in Names |-> Cardinality({k \in R : n \in Blocks(k)})]
             stored == Cardinality(have) + FileBytes * Cardinality(R)
  <2>2. s = [c EXCEPT !.points = R, !.shared = shared, !.have = have, !.refs = refs, !.stored = stored]
    BY <1>1 DEF Rebuilt
  <2>3. c \in Store
    BY <2>1
  <2> HIDE DEF c, shared, have, refs, stored, s
  <2>4. s.shared = shared
    BY <2>2, <2>3 DEF Store
  <2> QED
    BY <2>4 DEF shared
<1>6. s.have = UNION {Blocks(k) : k \in R} /\ s.tasks = << >>
  BY <1>4 DEF Recounted, Fresh
<1> DEFINE o == Orphans(R, {}, {})
<1>7. /\ \A f \in PointFiles : live[f] # Absent /\ f[2] \notin R => f \in o
      /\ \A n \in Names : live[Blk(n)] # Absent /\ (\A k \in R : n \notin Blocks(k)) => Blk(n) \in o
  BY DEF Orphans, Present
<1> HIDE DEF o, s
<1>8. \A n \in Names : live[Blk(n)] # Absent => n \in s.have \/ Blk(n) \in o
  BY <1>6, <1>7
<1>9. \A k \in Keys : \A f \in FilesAt(k) : live[f] # Absent => k \in s.points \/ f \in o
  <2>1. \A k \in Keys : \A f \in FilesAt(k) : f \in PointFiles /\ f[2] = k
    BY FilesIn, Apart DEF FilesAt
  <2> QED
    BY <1>4, <1>7, <2>1
<1>10. \A k \in s.points : (k \in s.shared => live[Man(k)].shared) /\ (live[Man(k)].shared => k \in s.shared)
  BY <1>4, <1>5
<1>11. Tidy(s, live, o, {})
  BY <1>8, <1>9, <1>10 DEF Tidy
<1> QED
  BY <1>1, <1>2, <1>6, <1>11 DEF o, s

LEMMA SweepNeat ==
    ASSUME Core, Core', NEW f \in sweep, Sweep(f), Tidy(store, live, sweep, {})
    PROVE  Tidy(store', live', sweep', {})
<1> DEFINE s == store
           z == live'
<1>1. Entry(f, Absent) /\ sweep' = sweep \ {f} /\ store' = s
  BY DEF Sweep, vars
<1>2. s \in Store /\ Mapped(live, may) /\ s.points \subseteq Keys
  BY StoreFields DEF Core, DiskTypes, IInv, TypeOK
<1>3. \A h \in Files : z[h] = live[h] \/ (h = f /\ z[h] = Absent)
  BY <1>1, <1>2 DEF Entry, Mapped
<1>4. \A h \in Files : h = f => z[h] = Absent
  BY <1>1, <1>2 DEF Entry, Mapped
<1>5. \A p \in s.points : z[Man(p)] # Absent
  <2>1. Listed'
    BY DEF Core
  <2> QED
    BY <1>1, <2>1 DEF Listed, Complete, FilesOf
<1>6. \A p \in s.points : z[Man(p)] = live[Man(p)]
  BY <1>2, <1>3, <1>5, FilesIn
<1> DEFINE Q == sweep
           S == sweep'
<1>7. \A h \in Files : z[h] # Absent => h \in S \/ (live[h] # Absent /\ h \notin Q)
  BY <1>1, <1>3, <1>4
<1> HIDE DEF s, z, S, Q
<1>8. Tidy(s, z, S, {})
  <2>1. Tidy(s, live, Q, {})
    BY DEF s, Q
  <2> QED
    BY <1>2, <1>6, <1>7, <2>1, TidyFiles
<1> QED
  BY <1>1, <1>8 DEF z, S

LEMMA OpenedNeat ==
    ASSUME Core, Opened, Tidy(store, live, sweep, {}), store.tasks = << >>
    PROVE  UpNeat(store, live, running, step)'
<1>1. sweep = {} /\ store' = store /\ live' = live /\ running' = Idle /\ step' = step
  BY DEF Opened, Core, PhaseFits
<1>2. RewritesHold(store)
  BY DEF RewritesHold
<1>3. UpNeat(store, live, Idle, step)
  BY <1>1, <1>2, IdleNeat
<1> QED
  BY <1>1, <1>3

\* A failed step is a fault.
LEMMA NeatStep ==
    ASSUME Core, Core', Neat, [DiskNext]_allVars
    PROVE  Neat'
<1> SUFFICES ASSUME ~faulted'
             PROVE  /\ phase' = "up" => UpNeat(store, live, running, step)'
                    /\ phase' = "sweep" => Tidy(store, live, sweep, {})' /\ (store.tasks = << >>)'
  BY DEF Neat
<1> DEFINE U == UpNeat(store, live, running, step)
<1>1. ~faulted /\ (DiskStep \/ EngineStep \/ UNCHANGED allVars
                   \/ (phase = "down" /\ Scan({}, {}) /\ phase' = "sweep"))
  <2>1. CASE DiskStep /\ UNCHANGED faulted
    BY <2>1
  <2>2. CASE DiskFails /\ faulted' = TRUE
    BY <2>2
  <2>3. CASE EngineStep /\ faulted' = (faulted \/ DamageFound)
    BY <2>3
  <2>4. ASSUME NEW unread \in SUBSET Keys, NEW unsure \in SUBSET Names, Scan(unread, unsure),
               faulted' = (faulted \/ ~Scan({}, {}))
        PROVE  ~faulted /\ phase = "down" /\ Scan({}, {}) /\ phase' = "sweep"
    <3>1. phase = "down" /\ phase' = "sweep"
      BY <2>4 DEF Scan
    <3> QED
      BY <2>4, <3>1
  <2>5. CASE UNCHANGED allVars
    BY <2>5 DEF allVars, diskVars
  <2> QED
    BY <2>1, <2>2, <2>3, <2>4, <2>5, Zenon DEF DiskNext
<1>2. (phase = "up" => U) /\ (phase = "sweep" => Tidy(store, live, sweep, {}) /\ store.tasks = << >>)
  BY <1>1 DEF Neat
<1>3. running.kind \in {"block", "point", "shared"} => phase = "up"
  BY Busy DEF Core
<1>4. CASE EngineStep
  BY <1>2, <1>4, EngineNeat DEF EngineStep
<1>5. CASE UNCHANGED allVars
  BY <1>2, <1>5 DEF allVars, diskVars, vars
<1>6. CASE phase = "down" /\ Scan({}, {}) /\ phase' = "sweep"
  BY <1>6, ScanNeat
<1>7. CASE Take \/ PointDone \/ Deleted \/ DeleteOne
  <2>1. phase = "up" /\ phase' = "up"
    BY <1>7 DEF Take, PointDone, Deleted, DeleteOne, Locked
  <2> QED
    BY <1>2, <1>7, <2>1, TakeNeat, PointDoneNeat, DeletedNeat, DeleteOneNeat
<1>8. CASE BlockDone(TRUE) \/ SharedDone(TRUE)
  <2>1. phase = "up" /\ phase' = "up"
    BY <1>8 DEF BlockDone, SharedDone, Locked
  <2> QED
    BY <1>2, <1>8, <2>1, BlockDoneNeat, SharedDoneNeat
<1>9. CASE PutBlock \/ Publish \/ Rewrite
  <2>1. phase = "up" /\ phase' = "up"
    BY <1>3, <1>9 DEF PutBlock, Publish, Rewrite, OnDisk
  <2> QED
    BY <1>2, <1>9, <2>1, PutBlockNeat, PublishNeat, RewriteNeat
<1>10. ~(PointUndone \/ Undo)
  <2>1. PointUndone \/ Undo => running.kind = "point" /\ step \in 7 .. 10
    <3>1. Published = 6 /\ Undone = 10
      BY PublishedIs
    <3>2. ASSUME PointUndone PROVE running.kind = "point" /\ step = 10
      BY <3>1, <3>2 DEF PointUndone, PointFailed
    <3>3. ASSUME Undo PROVE running.kind = "point" /\ step \in 7 .. 10
      BY <3>1, <3>3 DEF Undo
    <3> QED
      BY <3>2, <3>3
  <2>2. running.kind = "point" => step <= 6
    BY <1>2, <1>3 DEF UpNeat, WriterNeat
  <2> QED
    BY <2>1, <2>2
<1>11. CASE Kill \/ PowerLoss
  BY <1>11 DEF Kill, PowerLoss, Stops
<1>12. CASE \E f \in sweep : Sweep(f)
  <2> PICK f \in sweep : Sweep(f)
    BY <1>12
  <2>1. phase = "sweep" /\ phase' = "sweep" /\ store' = store
    BY DEF Sweep, vars
  <2> QED
    BY <1>2, <2>1, SweepNeat
<1>13. CASE Opened
  <2>1. phase = "sweep" /\ phase' = "up"
    BY <1>13 DEF Opened
  <2> QED
    BY <1>2, <1>13, <2>1, OpenedNeat
<1> QED
  BY <1>1, <1>4, <1>5, <1>6, <1>7, <1>8, <1>9, <1>10, <1>11, <1>12, <1>13 DEF DiskStep

LEMMA TempsStep ==
    ASSUME NoTemps, [DiskNext]_allVars
    PROVE  NoTemps'
<1>1. CASE phase' = phase /\ temps' = temps
  BY <1>1 DEF NoTemps
<1>2. CASE Stops
  BY <1>2 DEF Stops, NoTemps
<1>3. CASE \E unread, unsure : Scan(unread, unsure)
  BY <1>3 DEF Scan, NoTemps
<1>4. CASE Opened
  BY <1>4 DEF Opened, NoTemps
<1>5. /\ Take \/ PointDone \/ PointUndone \/ Deleted => UNCHANGED <<phase, temps>>
      /\ EngineStep => UNCHANGED <<phase, temps>>
      /\ \A ok : BlockDone(ok) \/ SharedDone(ok) => UNCHANGED <<phase, temps>>
      /\ PutBlock \/ Publish \/ PublishFails \/ Undo \/ Rewrite \/ DeleteOne => UNCHANGED <<phase, temps>>
      /\ \A f \in sweep : Sweep(f) => UNCHANGED <<phase, temps>>
      /\ UNCHANGED allVars => UNCHANGED <<phase, temps>>
      /\ Kill \/ PowerLoss => Stops
  BY DEF Take, PointDone, PointUndone, Deleted, Locked, EngineStep, BlockDone, SharedDone, PutBlock, Publish,
         PublishFails, Undo, Rewrite, DeleteOne, OnDisk, Sweep, allVars, diskVars, Kill, PowerLoss
<1> QED
  BY <1>1, <1>2, <1>3, <1>4, <1>5 DEF DiskNext, DiskStep, DiskFails

\* With nothing queued and the writer idle every file is of the index.
LEMMA NeatAtRest ==
    ASSUME Core, View, Neat, NoTemps
    PROVE  NothingLeftBehind
<1> SUFFICES ASSUME phase = "up", AtRest, ~faulted
             PROVE  /\ DiskIsIndexAtRest
                    /\ ~temps
                    /\ \A n \in Names : Present(Blk(n)) <=> n \in store.have
                    /\ \A k \in Keys, f \in PointFiles : f[2] = k => (Present(f) <=> k \in store.points)
  BY DEF NothingLeftBehind
<1> DEFINE s == store
<1>1. s.tasks = << >> /\ running = Idle
  BY DEF AtRest
<1>2. Tidy(s, live, {}, {})
  BY <1>1 DEF Neat, UpNeat, Underway, Rewriting, Idle
<1>3. \A x : ~NameDoomed(s, x) /\ ~PointDoomed(s, x) /\ ~Rewritten(s, x)
  BY <1>1 DEF NameDoomed, PointDoomed, Rewritten
<1>4. Mirrors(files, manifest, live, {}, {})
  BY <1>1 DEF View, LooseNames, LooseKeys, Unlinks, Idle
<1>5. /\ s \in Store /\ s.points \subseteq Keys /\ s.have \subseteq Names /\ files \subseteq Names
      /\ Mapped(live, may)
  BY UpIs, StoreFields DEF Core, IInv, TypeOK, DiskTypes
<1>6. (\A k \in s.points : Complete(live, k)) /\ \A n \in s.have : live[Blk(n)] # Absent
  BY DEF Core, Listed
<1> HIDE DEF s
<1>7. \A n \in Names : live[Blk(n)] # Absent <=> n \in s.have
  BY <1>2, <1>3, <1>6 DEF Tidy
<1>8. \A k \in Keys : \A f \in FilesAt(k) : live[f] # Absent <=> k \in s.points
  BY <1>2, <1>3, <1>6 DEF Tidy, Complete, FilesAt, FilesOf
<1>9. \A k \in s.points : live[Man(k)].shared <=> k \in s.shared
  BY <1>2, <1>3 DEF Tidy
<1>10. files = s.have
  BY <1>4, <1>5, <1>7 DEF Mirrors
<1>11. \A k \in Keys : manifest[k] = IF k \in s.points THEN Flag(k \in s.shared) ELSE "none"
  <2> TAKE k \in Keys
  <2>1. manifest[k] = IF live[Man(k)] # Absent THEN Flag(live[Man(k)].shared) ELSE "none"
    BY <1>4 DEF Mirrors, Seen
  <2>2. live[Man(k)] # Absent <=> k \in s.points
    BY <1>8 DEF FilesAt
  <2>3. k \in s.points => Flag(live[Man(k)].shared) = Flag(k \in s.shared)
    BY <1>9 DEF Flag
  <2> QED
    BY <2>1, <2>2, <2>3
<1>12. \A k \in Keys, f \in PointFiles : f[2] = k => (Present(f) <=> k \in s.points)
  <2>1. \A f \in PointFiles : \E k \in Keys : f \in FilesAt(k) /\ f[2] = k
    BY Apart DEF PointFiles, FilesAt
  <2> QED
    BY <1>8, <2>1 DEF Present
<1>13. ~temps
  BY DEF NoTemps
<1> QED
  BY <1>7, <1>10, <1>11, <1>12, <1>13 DEF DiskIsIndexAtRest, Present, s

LEMMA NeatHolds == DiskSpec => [](Neat /\ NoTemps)
<1>1. DiskInit => Neat /\ NoTemps
  <2> SUFFICES ASSUME DiskInit PROVE Neat /\ NoTemps
    OBVIOUS
  <2> DEFINE s == store
  <2>1. /\ live = [f \in Files |-> Absent] /\ phase = "up" /\ ~temps /\ running = Idle
        /\ s.tasks = << >> /\ s.points = {}
    BY DEF DiskInit, Init
  <2> HIDE DEF s
  <2>2. Tidy(s, live, {}, {})
    <3>1. /\ \A n \in Names : live[Blk(n)] = Absent
          /\ \A k \in Keys : \A f \in FilesAt(k) : live[f] = Absent
      BY <2>1, FilesIn DEF FilesAt
    <3> QED
      BY <2>1, <3>1 DEF Tidy
  <2>3. RewritesHold(s)
    BY <2>1 DEF RewritesHold
  <2>4. UpNeat(s, live, running, step)
    BY <2>1, <2>2, <2>3, IdleNeat
  <2> QED
    BY <2>1, <2>4 DEF Neat, NoTemps, s
<1>2. Core /\ Core' /\ Neat /\ NoTemps /\ [DiskNext]_allVars => (Neat /\ NoTemps)'
  BY NeatStep, TempsStep
<1> QED
  BY <1>1, <1>2, DiskInvariant, PTL DEF DiskSpec
-----------------------------------------------------------------------------
(* Every block an open write names is stored or on its way *)

\* A tail's name covers its length and its write's whole lineage (blockNames
\* in format.zig), so no other point names it.
TailsApart == \A k \in Keys : \A p \in Keys \ {k} : TailBlock(k) \cap Blocks(p) = {}

\* No write failed, and a cancelled one has handed over what it had to stage.
Sane(s) ==
    \A j \in Jobs : /\ s.jobs[j].state # "failed"
                    /\ s.jobs[j].state = "cancelled" => s.jobs[j].left = {}

\* A name in flight is one its write has to stage or to write, or its tail,
\* but for the pairs X.
Held(s, X) ==
    \A n \in Names : s.inflight[n] # NoJob =>
        \/ n \in Writes(s.jobs[s.inflight[n]]) \cup TailBlock(s.jobs[s.inflight[n]].key)
        \/ <<s.inflight[n], n>> \in X

\* Between actions an open write references what it names; a block whose last
\* reference went inside one is nobody's.
OnItsWay(s, n) == n \in s.have \/ s.inflight[n] # NoJob
Awaited(s) ==
    \A j \in Jobs : s.jobs[j].state = "open" =>
        \A n \in Blocks(s.jobs[j].key) : OnItsWay(s, n) \/ s.refs[n] = 0

Covered(s, X) == Sane(s) /\ Held(s, X) /\ Awaited(s)

\* z is s less some references and blocks without one.
Lets(s, z) ==
    /\ SameWork(s, z)
    /\ \A n \in Names : s.refs[n] = 0 => z.refs[n] = 0
    /\ \A n \in s.have \ z.have : z.refs[n] = 0

LEMMA LetsCovered ==
    ASSUME NEW s \in Store, NEW z, NEW X, Covered(s, X), Lets(s, z)
    PROVE  Covered(z, X)
<1>1. z.jobs = s.jobs /\ z.inflight = s.inflight
  BY DEF Lets, SameWork
<1>2. Sane(z) /\ Held(z, X)
  BY <1>1 DEF Covered, Sane, Held
<1>3. Awaited(z)
  <2> SUFFICES ASSUME NEW j \in Jobs, z.jobs[j].state = "open", NEW n \in Blocks(z.jobs[j].key)
               PROVE  OnItsWay(z, n) \/ z.refs[n] = 0
    BY DEF Awaited
  <2>1. n \in Names
    BY <1>1, StoreFields, JobFields, NamesType
  <2>2. OnItsWay(s, n) \/ s.refs[n] = 0
    BY <1>1 DEF Covered, Awaited
  <2> QED
    BY <1>1, <2>1, <2>2 DEF Lets, OnItsWay
<1> QED
  BY <1>2, <1>3 DEF Covered

LEMMA LetsTrans ==
    ASSUME NEW s \in Store, NEW y, NEW z, Lets(s, y), Lets(y, z)
    PROVE  Lets(s, z)
<1>1. SameWork(s, z)
  BY DEF Lets, SameWork
<1>2. s.have \in SUBSET Names
  BY StoreFields
<1> QED
  BY <1>1, <1>2 DEF Lets

LEMMA LetsSelf ==
    ASSUME NEW s \in Store
    PROVE  Lets(s, s)
BY DEF Lets, SameWork

LEMMA UnrefLets ==
    ASSUME NEW s \in Store, NEW S
    PROVE  Lets(s, Unref(s, S))
<1> DEFINE z == Unref(s, S)
           refs == [n \in Names |-> IF n \in S /\ s.refs[n] > 0 THEN s.refs[n] - 1 ELSE s.refs[n]]
<1>1. z \in Store
  BY RefType DEF Keeps
<1>2. z = [s EXCEPT !.refs = refs]
  BY DEF Unref
<1>3. \A n \in Names : s.refs[n] = 0 => refs[n] = 0
  BY StoreFields
<1> HIDE DEF z, refs
<1>4. z.jobs = s.jobs /\ z.inflight = s.inflight /\ z.have = s.have /\ z.refs = refs
  BY <1>2 DEF Store
<1>5. Lets(s, z)
  BY <1>1, <1>3, <1>4 DEF Lets, SameWork
<1> QED
  BY <1>5 DEF z

LEMMA GcLets ==
    ASSUME NEW s \in Store, NEW S
    PROVE  Lets(s, Gc(s, S))
<1> DEFINE U == Unreferenced(s, S)
           gone == U \cap s.have
           z == DropBlocks(s, U)
<1>1. z \in Store
  BY DropBlocksType DEF Keeps
<1>2. \A n \in gone : s.refs[n] = 0
  BY DEF Unreferenced
<1>3. CASE gone = {}
  BY <1>3, LetsSelf DEF DropBlocks, Gc
<1>4. CASE gone # {}
  <2>1. z = [s EXCEPT !.have = @ \ gone, !.stored = @ - Cardinality(gone),
                      !.tasks = Append(@, [kind |-> "unlink", keys |-> {}, names |-> gone])]
    BY <1>4 DEF DropBlocks
  <2> HIDE DEF z, gone, U
  <2>2. z.jobs = s.jobs /\ z.inflight = s.inflight /\ z.have = s.have \ gone /\ z.refs = s.refs
    BY <2>1 DEF Store
  <2>3. Lets(s, z)
    BY <1>1, <1>2, <2>2 DEF Lets, SameWork
  <2> QED
    BY <2>3 DEF Gc, z, U
<1> QED
  BY <1>3, <1>4

LEMMA RemoveLets ==
    ASSUME NEW s \in Store, NEW V
    PROVE  Lets(s, RemovePoints(s, V))
<1> DEFINE gone == V \cap s.points
           named(n) == Cardinality({k \in gone : n \in Blocks(k)})
           refs == [n \in Names |-> IF named(n) < s.refs[n] THEN s.refs[n] - named(n) ELSE 0]
           stored == s.stored - FileBytes * Cardinality(gone)
           tasks == Append(s.tasks, [kind |-> "unlink", keys |-> gone, names |-> {}])
           s1 == [s EXCEPT !.points = @ \ gone, !.shared = @ \ gone, !.refs = refs,
                           !.stored = stored, !.tasks = tasks]
<1>1. gone \in SUBSET Keys
  BY StoreFields
<1>2. RemovePoints(s, V) = IF gone = {} THEN s ELSE Gc(s1, UNION {Blocks(k) : k \in gone})
  BY DEF RemovePoints
<1>3. \A n \in Names : named(n) \in Nat
  <2> SUFFICES ASSUME NEW n \in Names PROVE {k \in gone : n \in Blocks(k)} \in SUBSET Keys
    BY SubsetCardinality
  <2> QED
    BY <1>1
<1> HIDE DEF named
<1>4. refs \in [Names -> Nat] /\ \A n \in Names : s.refs[n] = 0 => refs[n] = 0
  BY <1>3, StoreFields
<1>5. stored \in Int
  <2>1. Cardinality(gone) \in Nat
    BY <1>1, SubsetCardinality
  <2> QED
    BY <2>1, StoreFields, ConstantsAssumption
<1>6. tasks \in Seq(Task)
  <2> DEFINE N == {}
  <2>1. N \in SUBSET Names
    OBVIOUS
  <2> HIDE DEF N
  <2>2. Append(s.tasks, [kind |-> "unlink", keys |-> gone, names |-> N]) \in Seq(Task)
    BY <1>1, <2>1, UnlinkType, AppendType
  <2> QED
    BY <2>2 DEF N
<1>7. s.points \ gone \in SUBSET Keys /\ s.shared \ gone \in SUBSET Keys
  BY StoreFields
<1> HIDE DEF refs, stored, tasks, gone
<1>8. s1 \in Store /\ s1.jobs = s.jobs /\ s1.inflight = s.inflight /\ s1.have = s.have /\ s1.refs = refs
  BY <1>4, <1>5, <1>6, <1>7 DEF Store
<1> HIDE DEF s1
<1>9. Lets(s, s1)
  BY <1>4, <1>8 DEF Lets, SameWork
<1>10. Lets(s, Gc(s1, UNION {Blocks(k) : k \in gone}))
  BY <1>8, <1>9, GcLets, LetsTrans
<1> QED
  BY <1>2, <1>10, LetsSelf

LEMMA TrimLets ==
    ASSUME NEW s \in Store, NEW p
    PROVE  Lets(s, TrimPath(s, p))
BY LetsSelf, RemoveLets DEF TrimPath

\* The writes change: none opens, and what was to be staged or written still
\* is, but for the pairs X.
LEMMA MoveCovered ==
    ASSUME NEW s \in Store, NEW z, NEW X, Covered(s, {}), Sane(z),
           z.have = s.have, z.refs = s.refs, z.inflight = s.inflight,
           \A j \in Jobs : /\ z.jobs[j].key = s.jobs[j].key
                           /\ z.jobs[j].state = "open" => s.jobs[j].state = "open",
           \A j \in Jobs : \A n \in Writes(s.jobs[j]) :
              n \in Writes(z.jobs[j]) \cup TailBlock(s.jobs[j].key) \/ <<j, n>> \in X
    PROVE  Covered(z, X)
<1>1. Held(z, X)
  <2> SUFFICES ASSUME NEW n \in Names, z.inflight[n] # NoJob
               PROVE  \/ n \in Writes(z.jobs[z.inflight[n]]) \cup TailBlock(z.jobs[z.inflight[n]].key)
                      \/ <<z.inflight[n], n>> \in X
    BY DEF Held
  <2> DEFINE i == s.inflight[n]
  <2>1. i \in Jobs /\ i = z.inflight[n]
    BY StoreFields
  <2>2. n \in Writes(s.jobs[i]) \cup TailBlock(s.jobs[i].key)
    BY <2>1 DEF Covered, Held
  <2> HIDE DEF i
  <2>3. n \in Writes(z.jobs[i]) \cup TailBlock(z.jobs[i].key) \/ <<i, n>> \in X
    BY <2>1, <2>2
  <2> QED
    BY <2>1, <2>3
<1>2. Awaited(z)
  BY DEF Covered, Awaited, OnItsWay
<1> QED
  BY <1>1, <1>2 DEF Covered

\* Its jobs are the same but for their being parked.
LEMMA RecheckCovered ==
    ASSUME NEW s \in Store, NEW X, Covered(s, X)
    PROVE  Covered(RecheckParked(s), X)
<1> DEFINE z == RecheckParked(s)
<1>1. SameIndex(s, z) /\ z.inflight = s.inflight /\ \A j \in Jobs : Akin(s.jobs[j], z.jobs[j])
  BY RecheckFields
<1> HIDE DEF z
<1>2. z.have = s.have /\ z.refs = s.refs
  BY <1>1 DEF SameIndex
<1>3. \A j \in Jobs : /\ z.jobs[j].key = s.jobs[j].key /\ z.jobs[j].state = s.jobs[j].state
                      /\ z.jobs[j].left = s.jobs[j].left /\ Writes(z.jobs[j]) = Writes(s.jobs[j])
  BY <1>1 DEF Akin, Kin, Writes
<1>4. Sane(z)
  BY <1>3 DEF Covered, Sane
<1>5. Awaited(z)
  BY <1>1, <1>2, <1>3 DEF Covered, Awaited, OnItsWay
<1>6. \A n \in Names : s.inflight[n] # NoJob => s.inflight[n] \in Jobs
  BY StoreFields
<1>7. Held(z, X)
  BY <1>1, <1>3, <1>6 DEF Covered, Held
<1> QED
  BY <1>4, <1>5, <1>7 DEF Covered, z

\* A write with nothing left to stage or to write ends: only its tail was in
\* flight for it, which no other point names.
LEMMA LeaveCovered ==
    ASSUME TailsApart, NEW s \in Store, NEW j \in Jobs, NEW b \in BOOLEAN, Covered(s, {}),
           s.jobs[j].left = {}, s.jobs[j].out = {},
           \A i \in Live(s) : s.jobs[i].key = s.jobs[j].key => i = j
    PROVE  Covered(Leave(s, j, b), {})
<1> DEFINE z == Leave(s, j, b)
           k == s.jobs[j].key
<1>1. Left(s, z, j)
  BY LeaveIs
<1>2. \A n \in Names : z.inflight[n] = IF s.inflight[n] = j THEN NoJob ELSE s.inflight[n]
  <2> DEFINE s1 == GiveSlot(s, s.jobs[j].tailSlot)
             inflight == [n \in Names |-> IF s1.inflight[n] = j THEN NoJob ELSE s1.inflight[n]]
             queued == s1.queued - s.jobs[j].size
             shared == IF b THEN s1.shared ELSE s1.shared \ {k}
             r == [NoWrite EXCEPT !.state = "ended"]
  <2>1. z = [s1 EXCEPT !.inflight = inflight, !.queued = queued, !.shared = shared, !.jobs[j] = r]
    BY DEF Leave
  <2>2. s1 \in Store
    BY StoreFields, JobFields, GiveSlotType DEF Keeps
  <2>3. s1.inflight = s.inflight
    BY DEF GiveSlot, Store
  <2> HIDE DEF s1, queued, shared, r, z
  <2>4. z.inflight = inflight
    <3> HIDE DEF inflight
    <3> QED
      BY <2>1, <2>2 DEF Store
  <2> QED
    BY <2>3, <2>4
<1> HIDE DEF z
<1>3. /\ z.have = s.have /\ z.refs = s.refs /\ z.jobs[j].state = "ended"
      /\ \A i \in Jobs \ {j} : z.jobs[i] = s.jobs[i]
  BY <1>1 DEF Left, EndedRecord, OnlyJob
<1>4. Sane(z)
  BY <1>3 DEF Covered, Sane
<1>5. Held(z, {})
  <2> SUFFICES ASSUME NEW n \in Names, z.inflight[n] # NoJob
               PROVE  n \in Writes(z.jobs[z.inflight[n]]) \cup TailBlock(z.jobs[z.inflight[n]].key)
    BY DEF Held
  <2>1. z.inflight[n] = s.inflight[n] /\ s.inflight[n] \in Jobs \ {j}
    BY <1>2, StoreFields
  <2> QED
    BY <1>3, <2>1 DEF Covered, Held
<1>6. Awaited(z)
  <2> SUFFICES ASSUME NEW i \in Jobs, z.jobs[i].state = "open", NEW n \in Blocks(z.jobs[i].key)
               PROVE  OnItsWay(z, n) \/ z.refs[n] = 0
    BY DEF Awaited
  <2>1. i # j /\ z.jobs[i] = s.jobs[i]
    BY <1>3
  <2>2. OnItsWay(s, n) \/ s.refs[n] = 0
    BY <2>1 DEF Covered, Awaited
  <2>3. n \in Names /\ k \in Keys /\ s.jobs[i].key \in Keys
    BY <2>1, StoreFields, JobFields, NamesType
  <2>4. s.inflight[n] # j
    <3> SUFFICES ASSUME s.inflight[n] = j PROVE FALSE
      OBVIOUS
    <3>1. n \in Writes(s.jobs[j]) \cup TailBlock(k)
      BY <2>3, ConstantsAssumption DEF Covered, Held
    <3>2. n \in TailBlock(k)
      BY <3>1 DEF Writes
    <3>3. i \in Live(s)
      BY <2>1 DEF Live, LiveStates
    <3> QED
      BY <2>1, <2>3, <3>2, <3>3 DEF TailsApart
  <2> QED
    BY <1>2, <1>3, <2>2, <2>3, <2>4 DEF OnItsWay
<1> QED
  BY <1>4, <1>5, <1>6 DEF Covered, z

LEMMA EndJobCovered ==
    ASSUME TailsApart, NEW s \in Store, NEW j \in Jobs, NEW b \in BOOLEAN, Covered(s, {}),
           s.jobs[j].left = {}, s.jobs[j].out = {},
           \A i \in Live(s) : s.jobs[i].key = s.jobs[j].key => i = j
    PROVE  Covered(EndJob(s, j, b), {})
<1> DEFINE k == s.jobs[j].key
           x == Leave(s, j, b)
           y == Unref(x, Blocks(k))
           w == Gc(y, Blocks(k))
<1>1. x \in Store /\ Covered(x, {})
  BY LeaveIs, LeaveCovered DEF Left
<1> HIDE DEF x
<1>2. Lets(x, y) /\ y \in Store
  BY <1>1, UnrefLets, RefType DEF Keeps
<1> HIDE DEF y
<1>3. Lets(y, w)
  BY <1>2, GcLets
<1> HIDE DEF w
<1>4. w \in Store
  BY <1>3 DEF Lets, SameWork
<1>5. Covered(w, {})
  BY <1>1, <1>2, <1>3, LetsCovered
<1>6. Covered(RecheckParked(w), {})
  BY <1>4, <1>5, RecheckCovered
<1> QED
  BY <1>6, LeaveParts DEF w, y, x

LEMMA CoveredMore ==
    ASSUME NEW s, NEW X, Covered(s, {})
    PROVE  Covered(s, X)
BY DEF Covered, Held

\* A task is queued, or a block added to the index.
LEMMA QueueCovered ==
    ASSUME NEW s \in Store, NEW t \in Task, NEW X, Covered(s, X)
    PROVE  Covered(Queue(s, t), X)
<1> DEFINE z == Queue(s, t)
<1>1. z \in Store
  BY QueueType DEF Keeps
<1>2. z.jobs = s.jobs /\ z.inflight = s.inflight /\ z.have = s.have /\ z.refs = s.refs
  BY DEF Queue, Store
<1> HIDE DEF z
<1>3. Lets(s, z)
  BY <1>1, <1>2 DEF Lets, SameWork
<1>4. Covered(z, X)
  BY <1>3, LetsCovered
<1> QED
  BY <1>4 DEF z

LEMMA AddBlockCovered ==
    ASSUME NEW s \in Store, NEW n \in Names, NEW X, Covered(s, X)
    PROVE  Covered(AddBlock(s, n), X) /\ n \in AddBlock(s, n).have
<1> DEFINE z == AddBlock(s, n)
<1>1. z \in Store
  BY AddBlockType DEF Keeps
<1>2. z.jobs = s.jobs /\ z.inflight = s.inflight /\ z.have = s.have \cup {n} /\ z.refs = s.refs
  BY DEF AddBlock, Store
<1> HIDE DEF z
<1>3. Lets(s, z)
  BY <1>1, <1>2 DEF Lets, SameWork
<1>4. Covered(z, X) /\ n \in z.have
  BY <1>2, <1>3, LetsCovered
<1> QED
  BY <1>4 DEF z

\* A name in flight is dropped that the index has or no open write names.
LEMMA DropInflightCovered ==
    ASSUME NEW s \in Store, NEW j \in Jobs, NEW n \in Names, Covered(s, {<<j, n>>}),
           n \in s.have \/ \A i \in Jobs : s.jobs[i].state = "open" => n \notin Blocks(s.jobs[i].key)
    PROVE  Covered(DropInflight(s, j, n), {})
<1>1. \A x \in Names : s.inflight[x] # NoJob => s.inflight[x] \in Jobs
  BY StoreFields
<1>2. CASE s.inflight[n] # j
  <2>1. Held(s, {})
    BY <1>2 DEF Covered, Held
  <2> QED
    BY <1>2, <2>1 DEF Covered, DropInflight
<1>3. CASE s.inflight[n] = j
  <2> DEFINE y == [s EXCEPT !.inflight[n] = NoJob]
  <2>1. /\ y \in Store /\ y.have = s.have /\ y.refs = s.refs /\ y.jobs = s.jobs
        /\ \A x \in Names : y.inflight[x] = IF x = n THEN NoJob ELSE s.inflight[x]
    BY StoreFields DEF Store
  <2> HIDE DEF y
  <2>2. Sane(y)
    BY <2>1 DEF Covered, Sane
  <2>3. Held(y, {})
    <3> SUFFICES ASSUME NEW x \in Names, y.inflight[x] # NoJob
                 PROVE  x \in Writes(y.jobs[y.inflight[x]]) \cup TailBlock(y.jobs[y.inflight[x]].key)
      BY DEF Held
    <3>1. x # n /\ y.inflight[x] = s.inflight[x]
      BY <2>1
    <3> QED
      BY <2>1, <3>1 DEF Covered, Held
  <2>4. Awaited(y)
    <3> SUFFICES ASSUME NEW i \in Jobs, y.jobs[i].state = "open", NEW x \in Blocks(y.jobs[i].key)
                 PROVE  OnItsWay(y, x) \/ y.refs[x] = 0
      BY DEF Awaited
    <3>1. x \in Names
      BY <2>1, StoreFields, JobFields, NamesType
    <3>2. OnItsWay(s, x) \/ s.refs[x] = 0
      BY <2>1 DEF Covered, Awaited
    <3> QED
      BY <2>1, <3>1, <3>2 DEF OnItsWay
  <2>5. Covered(RecheckParked(y), {})
    BY <2>1, <2>2, <2>3, <2>4, RecheckCovered DEF Covered
  <2> QED
    BY <1>3, <2>5 DEF DropInflight, y
<1> QED
  BY <1>2, <1>3

LEMMA SettleCovered ==
    ASSUME TailsApart, NEW s \in Store, NEW j \in Jobs, Covered(s, {}), WaitsOnce(s)
    PROVE  Covered(Settle(s, j), {})
<1> DEFINE r == s.jobs[j]
           z == Settle(s, j)
<1>1. CASE r.state = "open" /\ r.left = {} /\ r.out = {} /\ r.capture = "ok" /\ r.tailSlot = NoSlot
  <2> DEFINE a == [r EXCEPT !.state = "publishing"]
             t == [kind |-> "point", job |-> j]
             s1 == [s EXCEPT !.jobs[j] = a]
  <2>1. z = Queue(s1, t)
    BY <1>1 DEF Settle
  <2>2. r \in Job
    BY StoreFields
  <2>3. /\ a \in Job /\ a.key = r.key /\ a.state = "publishing" /\ a.left = r.left /\ a.out = r.out
        /\ a.tailSlot = r.tailSlot
    <3> HIDE DEF r
    <3> QED
      BY <2>2 DEF Job, LiveStates
  <2>4. t \in Task
    BY PointTaskType
  <2> HIDE DEF a, t, z
  <2>5. /\ s1 \in Store /\ s1.have = s.have /\ s1.refs = s.refs /\ s1.inflight = s.inflight
        /\ s1.jobs = [s.jobs EXCEPT ![j] = a] /\ s.jobs \in [Jobs -> Job]
    BY <2>3, JobUpdateType DEF Keeps, Store
  <2> HIDE DEF s1
  <2>6. s1.jobs[j] = a /\ \A i \in Jobs \ {j} : s1.jobs[i] = s.jobs[i]
    BY <2>5
  <2>7. \A i \in Jobs : /\ s1.jobs[i].key = s.jobs[i].key /\ Writes(s1.jobs[i]) = Writes(s.jobs[i])
                        /\ s1.jobs[i].state = "open" => s.jobs[i].state = "open"
    BY <2>3, <2>6 DEF Writes
  <2>8. Sane(s1)
    BY <2>3, <2>6 DEF Covered, Sane
  <2>9. Covered(s1, {})
    BY <2>5, <2>7, <2>8, MoveCovered
  <2> QED
    BY <2>1, <2>4, <2>5, <2>9, QueueCovered DEF z
<1>2. CASE r.state \in {"failed", "cancelled"} /\ r.out = {} /\ r.capture # "pending"
  <2>1. z = EndJob(s, j, FALSE)
    BY <1>2 DEF Settle
  <2>2. j \in Live(s)
    BY <1>2 DEF Live, LiveStates
  <2>3. r.left = {}
    BY <1>2 DEF Covered, Sane
  <2>4. \A i \in Live(s) : s.jobs[i].key = s.jobs[j].key => i = j
    BY <2>2 DEF WaitsOnce
  <2> QED
    BY <1>2, <2>1, <2>3, <2>4, EndJobCovered
<1>3. CASE /\ ~(r.state = "open" /\ r.left = {} /\ r.out = {} /\ r.capture = "ok" /\ r.tailSlot = NoSlot)
           /\ ~(r.state \in {"failed", "cancelled"} /\ r.out = {} /\ r.capture # "pending")
  <2>1. z = s
    BY <1>3 DEF Settle
  <2> QED
    BY <2>1
<1> QED
  BY <1>1, <1>2, <1>3

LEMMA GiveBackCovered ==
    ASSUME NEW s \in Store, NEW j \in Jobs, NEW n \in Names, NEW w \in WriteSlots, Covered(s, {})
    PROVE  Covered(GiveBack(s, j, n, w), {<<j, n>>})
<1> DEFINE z == GiveBack(s, j, n, w)
           X == {<<j, n>>}
<1>1. /\ SameIndex(s, z) /\ OnlyJob(s, z, j) /\ z.inflight = s.inflight
      /\ z.jobs[j].key = s.jobs[j].key /\ z.jobs[j].state = s.jobs[j].state
      /\ z.jobs[j].left = s.jobs[j].left /\ z.jobs[j].out = s.jobs[j].out \ {n}
      /\ z.jobs[j].tailSlot = s.jobs[j].tailSlot
  BY GiveBackIs
<1> HIDE DEF z
<1>2. \A i \in Jobs \ {j} : z.jobs[i] = s.jobs[i]
  BY <1>1 DEF OnlyJob
<1>3. \A i \in Jobs : z.jobs[i].key = s.jobs[i].key /\ z.jobs[i].state = s.jobs[i].state
  BY <1>1, <1>2
<1>4. Sane(z)
  BY <1>1, <1>2 DEF Covered, Sane
<1>5. \A i \in Jobs : \A x \in Writes(s.jobs[i]) : x \in Writes(z.jobs[i]) \/ <<i, x>> \in X
  BY <1>1, <1>2 DEF Writes
<1>6. z.have = s.have /\ z.refs = s.refs
  BY <1>1 DEF SameIndex
<1> HIDE DEF X
<1>7. Covered(z, X)
  BY <1>1, <1>3, <1>4, <1>5, <1>6, MoveCovered
<1> QED
  BY <1>7 DEF z, X

LEMMA HandCovered ==
    ASSUME NEW s \in Store, NEW j \in Jobs, NEW S \in SUBSET Names, NEW W, Covered(s, {}),
           s.jobs[j].state = "open"
    PROVE  Covered(Hand(s, j, S, W), {})
<1> DEFINE r == [s.jobs[j] EXCEPT !.left = s.jobs[j].left \ S, !.out = s.jobs[j].out \cup S]
           jobs == [s.jobs EXCEPT ![j] = r]
           free == s.free \ W
           z == Hand(s, j, S, W)
<1>1. Handed(s, z, j, S, W)
  BY HandIs
<1>2. z = [s EXCEPT !.jobs = jobs, !.free = free]
  BY DEF Hand
<1>3. z.have = s.have /\ z.refs = s.refs
  <2> HIDE DEF z, jobs, free
  <2> QED
    BY <1>2 DEF Store
<1> HIDE DEF z
<1>4. /\ z.inflight = s.inflight /\ \A i \in Jobs \ {j} : z.jobs[i] = s.jobs[i]
      /\ z.jobs[j].key = s.jobs[j].key /\ z.jobs[j].state = s.jobs[j].state
      /\ z.jobs[j].tailSlot = s.jobs[j].tailSlot
      /\ z.jobs[j].left = s.jobs[j].left \ S /\ z.jobs[j].out = s.jobs[j].out \cup S
  BY <1>1 DEF Handed, OnlyJob
<1>5. Sane(z)
  BY <1>4 DEF Covered, Sane
<1>6. \A i \in Jobs : z.jobs[i].key = s.jobs[i].key /\ z.jobs[i].state = s.jobs[i].state
  BY <1>4
<1>7. \A i \in Jobs : \A x \in Writes(s.jobs[i]) : x \in Writes(z.jobs[i])
  BY <1>4 DEF Writes
<1>8. Covered(z, {})
  BY <1>3, <1>4, <1>5, <1>6, <1>7, MoveCovered
<1> QED
  BY <1>8 DEF z

\* A cancelled write hands its unstaged blocks over: one nobody takes is named
\* by no other open write, or as its tail.
LEMMA ReleaseCovered ==
    ASSUME TailsApart, NEW s \in Store, NEW j \in Jobs, NEW h \in HandOvers(s, j), s.jobs[j].state = "open",
           Covered(s, {}), WaitsOnce(s), NamesFit(s)
    PROVE  Covered(Release([s EXCEPT !.jobs[j].state = "cancelled"], j, h), {})
<1> DEFINE z == Release([s EXCEPT !.jobs[j].state = "cancelled"], j, h)
           L == s.jobs[j].left
<1>1. PICK y : Handing(s, y, j, "cancelled", h) /\ z = RecheckParked(y)
  BY ReleaseIs
<1> HIDE DEF z
<1>2. /\ y \in Store /\ y.have = s.have /\ y.refs = s.refs
      /\ \A i \in Jobs : /\ y.jobs[i].key = s.jobs[i].key /\ y.jobs[i].out = s.jobs[i].out
                         /\ y.jobs[i].tailSlot = s.jobs[i].tailSlot
                         /\ i # j => /\ y.jobs[i].state = s.jobs[i].state
                                     /\ y.jobs[i].left = s.jobs[i].left \cup TakenOf(s, j, h, i)
      /\ y.jobs[j].state = "cancelled" /\ y.jobs[j].left = {}
      /\ \A n \in Names \ L : y.inflight[n] = s.inflight[n]
      /\ \A n \in L : y.inflight[n] = IF h[n] # NoJob THEN h[n]
                                      ELSE IF s.inflight[n] = j THEN NoJob ELSE s.inflight[n]
  BY <1>1 DEF Handing
<1>3. NoJob \notin Jobs /\ h \in [L -> Jobs \cup {NoJob}]
  BY ConstantsAssumption, HandOversType
<1>4. \A n \in L : h[n] # NoJob => h[n] \in Jobs \ {j} /\ s.jobs[h[n]].state = "open"
  BY TakersTake
<1>5. Sane(y)
  <2> SUFFICES ASSUME NEW i \in Jobs
               PROVE  y.jobs[i].state # "failed" /\ (y.jobs[i].state = "cancelled" => y.jobs[i].left = {})
    BY DEF Sane
  <2>1. CASE i = j
    BY <1>2, <2>1
  <2>2. CASE i # j /\ y.jobs[i].state = "cancelled"
    <3>1. TakenOf(s, j, h, i) = {}
      BY <1>2, <1>3, <1>4, <2>2 DEF TakenOf
    <3> QED
      BY <1>2, <2>2, <3>1 DEF Covered, Sane
  <2>3. CASE i # j /\ y.jobs[i].state # "cancelled"
    BY <1>2, <2>3 DEF Covered, Sane
  <2> QED
    BY <2>1, <2>2, <2>3
<1>6. Held(y, {})
  <2> SUFFICES ASSUME NEW n \in Names, y.inflight[n] # NoJob
               PROVE  n \in Writes(y.jobs[y.inflight[n]]) \cup TailBlock(y.jobs[y.inflight[n]].key)
    BY DEF Held
  <2> DEFINE i == y.inflight[n]
  <2>1. i \in Jobs
    BY <1>2, StoreFields
  <2>2. CASE n \in L /\ h[n] # NoJob
    <3>1. i = h[n] /\ i # j /\ n \in TakenOf(s, j, h, i)
      BY <1>2, <1>4, <2>2 DEF TakenOf
    <3> HIDE DEF i
    <3>2. n \in y.jobs[i].left
      BY <1>2, <2>1, <3>1
    <3> QED
      BY <3>2 DEF Writes, i
  <2>3. CASE ~(n \in L /\ h[n] # NoJob)
    <3>1. i = s.inflight[n] /\ (i = j => n \notin L)
      BY <1>2, <2>3
    <3>2. n \in Writes(s.jobs[i]) \cup TailBlock(s.jobs[i].key)
      BY <2>1, <3>1 DEF Covered, Held
    <3> HIDE DEF i
    <3>3. n \in Writes(s.jobs[i]) => n \in Writes(y.jobs[i])
      <4>1. CASE i = j
        BY <1>2, <3>1, <4>1 DEF Writes
      <4>2. CASE i # j
        BY <1>2, <2>1, <4>2 DEF Writes
      <4> QED
        BY <4>1, <4>2
    <3> QED
      BY <1>2, <2>1, <3>2, <3>3 DEF i
  <2> QED
    BY <2>2, <2>3
<1>7. Awaited(y)
  <2> SUFFICES ASSUME NEW i \in Jobs, y.jobs[i].state = "open", NEW n \in Blocks(y.jobs[i].key)
               PROVE  OnItsWay(y, n) \/ y.refs[n] = 0
    BY DEF Awaited
  <2>1. i # j /\ s.jobs[i].state = "open" /\ y.jobs[i].key = s.jobs[i].key
    BY <1>2
  <2>2. OnItsWay(s, n) \/ s.refs[n] = 0
    BY <2>1 DEF Covered, Awaited
  <2>3. n \in Names /\ s.jobs[i].key \in Keys /\ s.jobs[j].key \in Keys
    BY <2>1, StoreFields, JobFields, NamesType
  <2>4. n \in L => h[n] # NoJob
    <3> SUFFICES ASSUME n \in L, h[n] = NoJob PROVE FALSE
      OBVIOUS
    <3>1. Takers(s, j, n) = {}
      <4>1. h[n] \in Takers(s, j, n) \/ Takers(s, j, n) = {}
        BY DEF HandOvers
      <4> QED
        BY <1>3, <4>1 DEF Takers
    <3>2. n \in TailBlock(s.jobs[i].key)
      BY <2>1, <3>1 DEF Takers, NamesOf
    <3>3. n \in Blocks(s.jobs[j].key)
      BY DEF NamesFit
    <3>4. s.jobs[i].key # s.jobs[j].key
      BY <2>1 DEF WaitsOnce, Live, LiveStates
    <3> QED
      BY <2>3, <3>2, <3>3, <3>4 DEF TailsApart
  <2> QED
    BY <1>2, <2>2, <2>3, <2>4 DEF OnItsWay
<1>8. Covered(y, {})
  BY <1>5, <1>6, <1>7 DEF Covered
<1>9. Covered(z, {})
  BY <1>1, <1>2, <1>8, RecheckCovered
<1> QED
  BY <1>9 DEF z

LEMMA CancelJobCovered ==
    ASSUME TailsApart, NEW s \in Store, NEW j \in Jobs, NEW h \in HandOvers(s, j), s.jobs[j].state = "open",
           Covered(s, {}), WaitsOnce(s), NamesFit(s)
    PROVE  Covered(CancelJob(s, j, h), {})
<1> DEFINE y == Release([s EXCEPT !.jobs[j].state = "cancelled"], j, h)
<1>1. y \in Store /\ WaitsOnce(y)
  BY ReleaseGoes, GoesStore, GoesWaits
<1>2. Covered(y, {})
  BY ReleaseCovered
<1> HIDE DEF y
<1>3. Covered(Settle(y, j), {})
  BY <1>1, <1>2, SettleCovered
<1> QED
  BY <1>3 DEF CancelJob, y

\* A new write: what it names is stored, on its way, or in flight for it now.
LEMMA RegisterCovered ==
    ASSUME NEW s \in Store, NEW j \in Jobs, NEW k \in Keys, NEW b \in BOOLEAN,
           NEW new \in SUBSET Names, NEW w \in WriteSlots \cup {NoSlot}, Covered(s, {}),
           \A n \in Names : s.inflight[n] # j,
           \A n \in Blocks(k) \ new : OnItsWay(s, n) \/ s.refs[n] = 0
    PROVE  Covered(Register(s, j, k, b, new, w), {})
<1> DEFINE z == Register(s, j, k, b, new, w)
<1>1. Registered(s, z, j, k, new, w) /\ z.have = s.have /\ z.refs = s.refs
  <2>1. Registered(s, z, j, k, new, w)
    BY RegisterIs
  <2>2. z.have = s.have /\ z.refs = s.refs
    BY DEF Register, Store
  <2> QED
    BY <2>1, <2>2
<1> HIDE DEF z
<1>2. /\ z \in Store /\ \A i \in Jobs \ {j} : z.jobs[i] = s.jobs[i]
      /\ \A n \in Names : z.inflight[n] = IF n \in new THEN j ELSE s.inflight[n]
      /\ z.jobs[j].key = k /\ z.jobs[j].state = "open" /\ z.jobs[j].left = new \ TailBlock(k)
  BY <1>1 DEF Registered, OnlyJob
<1>3. Sane(z)
  BY <1>2 DEF Covered, Sane
<1>4. Held(z, {})
  <2> SUFFICES ASSUME NEW n \in Names, z.inflight[n] # NoJob
               PROVE  n \in Writes(z.jobs[z.inflight[n]]) \cup TailBlock(z.jobs[z.inflight[n]].key)
    BY DEF Held
  <2>1. CASE n \in new
    BY <1>2, <2>1 DEF Writes
  <2>2. CASE n \notin new
    <3>1. z.inflight[n] = s.inflight[n] /\ s.inflight[n] \in Jobs \ {j}
      BY <1>2, <2>2, StoreFields
    <3> QED
      BY <1>2, <3>1 DEF Covered, Held
  <2> QED
    BY <2>1, <2>2
<1>5. Awaited(z)
  <2> SUFFICES ASSUME NEW i \in Jobs, z.jobs[i].state = "open", NEW n \in Blocks(z.jobs[i].key)
               PROVE  OnItsWay(z, n) \/ z.refs[n] = 0
    BY DEF Awaited
  <2>1. n \in Names
    BY <1>2, StoreFields, JobFields, NamesType
  <2>2. j # NoJob
    BY ConstantsAssumption
  <2>3. n \in new \/ OnItsWay(s, n) \/ s.refs[n] = 0
    <3>1. CASE i = j
      BY <1>2, <3>1
    <3>2. CASE i # j
      BY <1>2, <3>2 DEF Covered, Awaited
    <3> QED
      BY <3>1, <3>2
  <2> QED
    BY <1>1, <1>2, <2>1, <2>2, <2>3 DEF OnItsWay
<1>6. Covered(z, {})
  BY <1>3, <1>4, <1>5 DEF Covered
<1> QED
  BY <1>6 DEF z

\* With exact references what an open write names is stored or on its way.
LEMMA AwaitedExact ==
    ASSUME NEW s \in Store, NEW D, RefsAre(s, D), Covered(s, {}),
           NEW j \in Jobs, s.jobs[j].state = "open", NEW n \in Blocks(s.jobs[j].key)
    PROVE  OnItsWay(s, n)
<1>1. n \in Names
  BY StoreFields, JobFields, NamesType
<1> DEFINE W == Wanting(s, n)
           a == Cardinality(Naming(s, n))
           c == Cardinality(W)
<1>2. j \in W
  BY DEF Wanting, Live, LiveStates, NamesOf
<1>3. IsFiniteSet(W) /\ a \in Nat /\ c \in Nat
  BY CountsType
<1>4. c # 0
  <2> HIDE DEF W
  <2> QED
    BY <1>2, <1>3, FS_EmptySet
<1>5. s.refs[n] = a + c + (IF n \in D THEN 1 ELSE 0)
  BY <1>1 DEF RefsAre
<1> HIDE DEF a, c
<1>6. s.refs[n] # 0
  BY <1>3, <1>4, <1>5
<1> QED
  BY <1>6 DEF Covered, Awaited

\* References taken do no harm.
LEMMA RefCovered ==
    ASSUME NEW s \in Store, NEW D, RefsAre(s, D), NEW S, Covered(s, {})
    PROVE  Covered(Ref(s, S), {})
<1> DEFINE z == Ref(s, S)
<1>1. z.jobs = s.jobs /\ z.inflight = s.inflight /\ z.have = s.have
  BY DEF Ref, Store
<1> HIDE DEF z
<1>2. Sane(z) /\ Held(z, {})
  BY <1>1 DEF Covered, Sane, Held
<1>3. Awaited(z)
  BY <1>1, AwaitedExact DEF Awaited, OnItsWay
<1> QED
  BY <1>2, <1>3 DEF Covered, z

\* A block only one write names: no open write but that one.
LEMMA NamedOnce ==
    ASSUME NEW s \in Store, RefsAre(s, {}), NEW n \in Names, ~StillNamed(s, n),
           NEW j \in Live(s), n \in Blocks(s.jobs[j].key), s.jobs[j].state # "open"
    PROVE  \A i \in Jobs : s.jobs[i].state = "open" => n \notin Blocks(s.jobs[i].key)
<1> SUFFICES ASSUME NEW i \in Jobs, s.jobs[i].state = "open", n \in Blocks(s.jobs[i].key) PROVE FALSE
  OBVIOUS
<1> DEFINE W == Wanting(s, n)
           V == {i}
           U == V \cup {j}
           a == Cardinality(Naming(s, n))
           c == Cardinality(W)
           u == Cardinality(U)
<1>1. i \in W /\ j \in W /\ i # j
  BY DEF Wanting, Live, LiveStates, NamesOf
<1>2. IsFiniteSet(W) /\ a \in Nat /\ c \in Nat
  BY CountsType
<1>3. IsFiniteSet(V) /\ Cardinality(V) = 1
  BY FS_Singleton
<1>4. IsFiniteSet(U) /\ u = 2
  <2> DEFINE v == Cardinality(V)
  <2>1. j \notin V /\ v = 1
    BY <1>1, <1>3
  <2> HIDE DEF V
  <2>2. IsFiniteSet(U) /\ u = v + 1
    BY <1>3, <2>1, FS_AddElement
  <2> HIDE DEF u, v
  <2> QED
    BY <2>1, <2>2
<1>5. U \subseteq W
  BY <1>1
<1> HIDE DEF W, U, V
<1>6. u <= c
  BY <1>2, <1>5, FS_Subset
<1>7. s.refs[n] = a + c + 0
  BY DEF RefsAre, a, c, W
<1> HIDE DEF a, c, u
<1> QED
  BY <1>2, <1>4, <1>6, <1>7 DEF StillNamed

\* Only the tasks, flags and byte counts change.
LEMMA StillCovered ==
    ASSUME NEW s \in Store, NEW z \in Store, Covered(s, {}), z.jobs = s.jobs, z.inflight = s.inflight,
           z.have = s.have, z.refs = s.refs
    PROVE  Covered(z, {})
<1> DEFINE X == {}
<1>1. Covered(s, X) /\ Lets(s, z)
  BY DEF Lets, SameWork
<1> HIDE DEF X
<1>2. Covered(z, X)
  BY <1>1, LetsCovered
<1> QED
  BY <1>2 DEF X

LEMMA MarkSharedCovered ==
    ASSUME NEW k \in Keys, MarkShared(k), store \in Store, Covered(store, {})
    PROVE  Covered(store', {})
<1> DEFINE shared == store.shared \cup {k}
           s == [store EXCEPT !.shared = shared]
           t == [kind |-> "shared", key |-> k]
           X == {}
<1>1. shared \in SUBSET Keys
  BY StoreFields
<1>2. /\ s \in Store /\ s.jobs = store.jobs /\ s.inflight = store.inflight /\ s.have = store.have
      /\ s.refs = store.refs
  <2> HIDE DEF shared
  <2> QED
    BY <1>1 DEF Store
<1>3. (store' = s \/ store' = Queue(s, t)) /\ t \in Task
  BY SharedTaskType DEF MarkShared
<1> HIDE DEF s, t
<1>4. Covered(s, X)
  BY <1>2, StillCovered DEF X
<1> HIDE DEF X
<1>5. Covered(Queue(s, t), X)
  BY <1>2, <1>3, <1>4, QueueCovered
<1> QED
  BY <1>3, <1>4, <1>5 DEF X

LEMMA KeepCovered ==
    ASSUME IInv, NEW m \in Int, Indexed(m), NEW k \in Keys, NEW b \in BOOLEAN, NEW V, Keep(k, b, V),
           Covered(store, {})
    PROVE  Covered(store', {})
<1> DEFINE new == {n \in Blocks(k) : n \notin store.have /\ store.inflight[n] = NoJob}
           tail == new \cap TailBlock(k)
           need == Cardinality(new) + FileBytes
           pinned == Ref(store, Blocks(k))
           over == Over(store, need)
           s == IF over > 0 /\ over <= store.stored THEN RemovePoints(pinned, V) ELSE pinned
           u == Unref(s, Blocks(k))
           refused == Gc(u, Blocks(k))
           X == {}
<1>1. PICK j \in NextJob(store) :
        \/ \E w \in IF tail = {} THEN {NoSlot} ELSE s.free : store' = Register(s, j, k, b, new, w)
        \/ store' = refused
  BY DEF Keep
<1>2. /\ store \in Store /\ RefsAre(store, X) /\ Sound(store, tickets \cup RunningCopy, RunningPoint, {})
  BY IndexedIs, ExactIs
<1>3. Covered(pinned, X) /\ pinned \in Store
  <2> HIDE DEF X
  <2>1. Covered(Ref(store, Blocks(k)), {})
    BY <1>2, RefCovered
  <2>2. Ref(store, Blocks(k)) \in Store
    BY <1>2, RefType DEF Keeps
  <2> QED
    BY <2>1, <2>2 DEF X
<1>4. pinned.have = store.have /\ pinned.inflight = store.inflight /\ pinned.jobs = store.jobs
  BY <1>2 DEF Ref, Store
<1>5. Lets(pinned, s)
  <2> HIDE DEF pinned
  <2> QED
    BY <1>3, LetsSelf, RemoveLets
<1> HIDE DEF s
<1>6. s \in Store /\ s.inflight = store.inflight /\ s.jobs = store.jobs
  BY <1>4, <1>5 DEF Lets, SameWork
<1>7. Covered(s, X)
  <2> HIDE DEF pinned, X
  <2> QED
    BY <1>3, <1>5, LetsCovered
<1>8. \A n \in Blocks(k) \ new : OnItsWay(s, n) \/ s.refs[n] = 0
  <2> SUFFICES ASSUME NEW n \in Blocks(k) \ new PROVE OnItsWay(s, n) \/ s.refs[n] = 0
    OBVIOUS
  <2>1. n \in store.have \/ store.inflight[n] # NoJob
    OBVIOUS
  <2>2. n \in Names
    BY NamesType
  <2> HIDE DEF pinned
  <2> QED
    BY <1>4, <1>5, <1>6, <2>1, <2>2 DEF Lets, OnItsWay
<1>9. new \in SUBSET Names
  BY NamesType
<1> HIDE DEF new, pinned
<1>10. CASE store' = refused
  <2>1. u \in Store /\ Lets(s, u)
    BY <1>6, UnrefLets DEF Lets, SameWork
  <2> HIDE DEF u
  <2>2. Lets(u, refused)
    BY <2>1, GcLets
  <2> HIDE DEF refused, X
  <2>3. Covered(refused, X)
    BY <1>6, <1>7, <2>1, <2>2, LetsCovered
  <2> QED
    BY <1>10, <2>3 DEF X
<1>11. ASSUME NEW w \in IF tail = {} THEN {NoSlot} ELSE s.free, store' = Register(s, j, k, b, new, w)
       PROVE  Covered(store', {})
  <2>1. j \in Jobs /\ s.jobs[j].state = "unused"
    BY <1>6 DEF NextJob
  <2>2. w \in WriteSlots \cup {NoSlot}
    BY <1>6, StoreFields
  <2>3. \A n \in Names : s.inflight[n] # j
    <3> SUFFICES ASSUME NEW n \in Names, s.inflight[n] = j PROVE FALSE
      OBVIOUS
    <3>1. Owners(store, {}) /\ j # NoJob
      BY <1>2, <2>1, ConstantsAssumption DEF Sound
    <3>2. s.jobs[j].state \in LiveStates
      BY <1>6, <3>1 DEF Owners, Owns
    <3> QED
      BY <2>1, <3>2 DEF LiveStates
  <2>4. Covered(s, {})
    BY <1>7
  <2> QED
    BY <1>6, <1>8, <1>9, <1>11, <2>1, <2>2, <2>3, <2>4, RegisterCovered
<1> QED
  BY <1>1, <1>10, <1>11

\* The copy of a tail and a small state completed: the tail is to be written.
LEMMA CaptureKeeps ==
    ASSUME IInv, NEW m \in Int, Indexed(m), NEW j \in Jobs, Captured(j, TRUE)
    PROVE  LET z == CaptureEnds(j, TRUE) IN
           /\ z.inflight = store.inflight /\ \A i \in Jobs \ {j} : z.jobs[i] = store.jobs[i]
           /\ z.jobs[j].key = store.jobs[j].key /\ z.jobs[j].state = store.jobs[j].state
           /\ z.jobs[j].left = store.jobs[j].left /\ store.jobs[j].out \subseteq z.jobs[j].out
<1> DEFINE r == store.jobs[j]
           st == r.state
           r1 == [r EXCEPT !.capture = "ok", !.state = st, !.tailSlot = NoSlot]
           jobs1 == [store.jobs EXCEPT ![j] = r1]
           s1 == [store EXCEPT !.jobs = jobs1]
           t == Last(BlocksOf[r.key])
           task == [kind |-> "block", job |-> j, name |-> t, slot |-> r.tailSlot]
           out == r.out \cup {t}
           r2 == [r1 EXCEPT !.out = out]
           jobs2 == [jobs1 EXCEPT ![j] = r2]
           s2 == [s1 EXCEPT !.jobs = jobs2]
           z == CaptureEnds(j, TRUE)
<1>1. store \in Store /\ r \in Job /\ store.jobs \in [Jobs -> Job]
  BY IndexedWaits, StoreFields
<1>2. z = IF r.tailSlot = NoSlot THEN s1
          ELSE IF s1.jobs[j].state = "open" THEN Queue([s1 EXCEPT !.jobs[j].out = @ \cup {t}], task)
          ELSE GiveSlot(s1, r.tailSlot)
  BY DEF CaptureEnds
<1>3. /\ r1.key = r.key /\ r1.state = st /\ r1.out = r.out /\ r1.left = r.left
      /\ r2.key = r.key /\ r2.state = st /\ r2.left = r.left /\ r2.out = out
  <2> HIDE DEF r, st, out
  <2> QED
    BY <1>1 DEF Job
<1>4. r.out \subseteq out
  OBVIOUS
<1> HIDE DEF r1, r2, out
<1>5. jobs1[j] = r1 /\ jobs2[j] = r2 /\ \A i \in Jobs \ {j} : jobs1[i] = store.jobs[i] /\ jobs2[i] = store.jobs[i]
  BY <1>1
<1>6. s1.jobs = jobs1 /\ s1.inflight = store.inflight /\ s2.jobs = jobs2 /\ s2.inflight = store.inflight
  <2> HIDE DEF jobs1, jobs2
  <2> QED
    BY <1>1 DEF Store
<1>7. z.inflight = store.inflight /\ (z.jobs = jobs1 \/ z.jobs = jobs2)
  <2>1. CASE z = s1
    BY <1>6, <2>1
  <2>2. CASE z = GiveSlot(s1, r.tailSlot)
    <3>1. DOMAIN s1 = DOMAIN store
      OBVIOUS
    <3> HIDE DEF s1, z, jobs1
    <3> QED
      BY <1>1, <1>6, <2>2, <3>1 DEF GiveSlot, Store
  <2>3. CASE z = Queue([s1 EXCEPT !.jobs[j].out = @ \cup {t}], task)
    <3>1. [s1 EXCEPT !.jobs[j].out = @ \cup {t}] = s2
      <4>1. s1.jobs[j] = r1 /\ r1.out = r.out
        BY <1>3, <1>5, <1>6
      <4> QED
        BY <1>6, <4>1 DEF r2, out
    <3>2. z = Queue(s2, task)
      BY <2>3, <3>1
    <3>3. DOMAIN s2 = DOMAIN store
      OBVIOUS
    <3> HIDE DEF s2, z, task, jobs2
    <3> QED
      BY <1>1, <1>6, <3>2, <3>3 DEF Queue, Store
  <2> QED
    BY <1>2, <2>1, <2>2, <2>3
<1> HIDE DEF z, jobs1, jobs2, r, out, st
<1>8. /\ \A i \in Jobs \ {j} : z.jobs[i] = store.jobs[i]
      /\ z.jobs[j].key = r.key /\ z.jobs[j].state = st /\ z.jobs[j].left = r.left /\ r.out \subseteq z.jobs[j].out
  BY <1>3, <1>4, <1>5, <1>7
<1> QED
  BY <1>7, <1>8 DEF z, r, st

LEMMA CapturedCovered ==
    ASSUME TailsApart, IInv, NEW m \in Int, Indexed(m), NEW j \in Jobs, Captured(j, TRUE), Covered(store, {})
    PROVE  Covered(store', {})
<1> DEFINE z == CaptureEnds(j, TRUE)
           s == store
           X == {}
           ok == TRUE
<1>0. ok \in BOOLEAN /\ Captured(j, ok) /\ CaptureEnds(j, ok) = z
  OBVIOUS
<1>1. store' = Settle(z, j) /\ WaitsOnce(z) /\ SameIndex(s, z) /\ z \in Store /\ s \in Store
  <2> HIDE DEF z, ok
  <2>1. store' = Settle(CaptureEnds(j, ok), j)
    BY <1>0, CapturedSound
  <2>2. Goes(store, CaptureEnds(j, ok)) /\ WaitsOnce(store) /\ SameIndex(s, CaptureEnds(j, ok)) /\ store \in Store
    BY <1>0, CaptureGoes, IndexedWaits, CaptureExact
  <2>3. WaitsOnce(CaptureEnds(j, ok)) /\ CaptureEnds(j, ok) \in Store
    BY <2>2, GoesWaits, GoesStore
  <2> QED
    BY <1>0, <2>1, <2>2, <2>3
<1>2. /\ z.inflight = s.inflight /\ \A i \in Jobs \ {j} : z.jobs[i] = s.jobs[i]
      /\ z.jobs[j].key = s.jobs[j].key /\ z.jobs[j].state = s.jobs[j].state
      /\ z.jobs[j].left = s.jobs[j].left /\ s.jobs[j].out \subseteq z.jobs[j].out
  BY CaptureKeeps
<1> HIDE DEF z, s
<1>3. Sane(z)
  <2>1. Sane(s)
    BY DEF Covered, s
  <2> QED
    BY <1>2, <2>1 DEF Sane
<1>4. \A i \in Jobs : /\ z.jobs[i].key = s.jobs[i].key
                      /\ z.jobs[i].state = "open" => s.jobs[i].state = "open"
  BY <1>2
<1>5. \A i \in Jobs : \A n \in Writes(s.jobs[i]) :
         n \in Writes(z.jobs[i]) \cup TailBlock(s.jobs[i].key) \/ <<i, n>> \in X
  BY <1>2 DEF Writes
<1>6. z.have = s.have /\ z.refs = s.refs
  BY <1>1 DEF SameIndex
<1>7. Covered(z, X)
  <2>1. Covered(s, {})
    BY DEF s
  <2> HIDE DEF X
  <2> QED
    BY <1>1, <1>2, <1>3, <1>4, <1>5, <1>6, <2>1, MoveCovered
<1>8. Covered(Settle(z, j), {})
  BY <1>1, <1>7, SettleCovered
<1> QED
  BY <1>1, <1>8

LEMMA HandsCovered ==
    ASSUME NEW j \in Jobs, store \in Store, Covered(store, {}),
           (\E n \in Names, w \in WriteSlots : Stage(j, n, w)) \/ (\E from : Guard(j, from)) \/ Cancel(j),
           TailsApart, WaitsOnce(store), NamesFit(store)
    PROVE  Covered(store', {})
<1> DEFINE left == store.jobs[j].left
<1>1. store.jobs[j].state = "open"
  BY DEF Stage, Guard, Cancel
<1>2. \/ \E S \in SUBSET Names : \E W : store' = Hand(store, j, S, W)
      \/ \E h \in HandOvers(store, j) : store' = CancelJob(store, j, h)
  <2>1. left \in SUBSET Names
    BY StoreFields, JobFields
  <2>2. ASSUME NEW n \in Names, NEW w \in WriteSlots, Stage(j, n, w)
        PROVE  \E S \in SUBSET Names : \E W : store' = Hand(store, j, S, W)
    <3>1. {n} \in SUBSET Names /\ store' = Hand(store, j, {n}, {w})
      BY <2>2 DEF Stage
    <3> QED
      BY <3>1
  <2>3. ASSUME NEW from, Guard(j, from)
        PROVE  \/ \E S \in SUBSET Names : \E W : store' = Hand(store, j, S, W)
               \/ \E h \in HandOvers(store, j) : store' = CancelJob(store, j, h)
    BY <2>1, <2>3 DEF Guard
  <2>4. ASSUME Cancel(j)
        PROVE  \E h \in HandOvers(store, j) : store' = CancelJob(store, j, h)
    BY <2>4 DEF Cancel
  <2> QED
    BY <2>2, <2>3, <2>4
<1>3. ASSUME NEW S \in SUBSET Names, NEW W, store' = Hand(store, j, S, W)
      PROVE  Covered(store', {})
  BY <1>1, <1>3, HandCovered
<1>4. ASSUME NEW h \in HandOvers(store, j), store' = CancelJob(store, j, h)
      PROVE  Covered(store', {})
  BY <1>1, <1>4, CancelJobCovered
<1> QED
  BY <1>2, <1>3, <1>4

\* A block nobody else names is given back, its write not open any more.
LEMMA GoneCovered ==
    ASSUME TailsApart, NEW s \in Store, NEW j \in Live(s), NEW n \in Names, NEW w \in WriteSlots,
           Covered(s, {}), WaitsOnce(s), RefsAre(s, {}), n \in Blocks(s.jobs[j].key),
           s.jobs[j].state # "open", ~StillNamed(s, n)
    PROVE  Covered(Settle(DropInflight(GiveBack(s, j, n, w), j, n), j), {})
<1> DEFINE x == GiveBack(s, j, n, w)
           y == DropInflight(x, j, n)
<1>0. j \in Jobs
  BY DEF Live
<1>1. Covered(x, {<<j, n>>}) /\ Goes(s, x) /\ x \in Store
  BY <1>0, GiveBackCovered, GiveBackGoes, GoesStore
<1>2. \A i \in Jobs : x.jobs[i].key = s.jobs[i].key /\ x.jobs[i].state = s.jobs[i].state
  <2>1. OnlyJob(s, x, j) /\ x.jobs[j].key = s.jobs[j].key /\ x.jobs[j].state = s.jobs[j].state
    BY <1>0, GiveBackIs
  <2> HIDE DEF x
  <2> QED
    BY <2>1 DEF OnlyJob
<1>3. \A i \in Jobs : s.jobs[i].state = "open" => n \notin Blocks(s.jobs[i].key)
  BY NamedOnce
<1> HIDE DEF x
<1>4. Covered(y, {})
  <2>1. \A i \in Jobs : x.jobs[i].state = "open" => n \notin Blocks(x.jobs[i].key)
    BY <1>2, <1>3
  <2> QED
    BY <1>0, <1>1, <2>1, DropInflightCovered
<1>5. y \in Store /\ WaitsOnce(y)
  BY <1>0, <1>1, DropInflightGoes, GoesTrans, GoesStore, GoesWaits
<1> HIDE DEF y
<1>6. Covered(Settle(y, j), {})
  BY <1>0, <1>4, <1>5, SettleCovered
<1> QED
  BY <1>6 DEF x, y

\* A copy on its way is of a live write that names its block.
LEMMA CopyOfLive ==
    ASSUME NEW s, NEW E, NEW P, NEW X, NEW x \in E, Sound(s, E, P, X), NamesFit(s)
    PROVE  /\ x.job \in Jobs /\ x.job \in Live(s) /\ x.name \in Names /\ x.slot \in WriteSlots
           /\ x.name \in Blocks(s.jobs[x.job].key)
<1>1. x.job \in Jobs /\ x.name \in Names /\ x.slot \in WriteSlots /\ x.name \in s.jobs[x.job].out
  BY SoundParts
<1>2. x.job \in Live(s)
  <2>1. JobFits(s.jobs[x.job])
    BY <1>1 DEF Sound, JobsFit
  <2> QED
    BY <1>1, <2>1 DEF JobFits, Live
<1> QED
  BY <1>1, <1>2 DEF NamesFit

LEMMA StagedCovered ==
    ASSUME TailsApart, IInv, NEW m \in Int, Indexed(m), NEW t \in tickets, Staged(t, TRUE), Covered(store, {})
    PROVE  Covered(store', {})
<1> DEFINE E == tickets \cup RunningCopy
           j == t.job
           s == store
           task == [kind |-> "block", job |-> t.job, name |-> t.name, slot |-> t.slot]
           gone == Settle(DropInflight(GiveBack(s, t.job, t.name, t.slot), t.job, t.name), t.job)
           X == {}
<1>1. /\ Exact(s, X, X, RunningName, RunningPoint, m) /\ Sound(s, E, RunningPoint, {}) /\ t \in E
      /\ s \in Store
  BY IndexedIs
<1>2. WaitsOnce(s) /\ NamesFit(s) /\ RefsAre(s, X)
  BY <1>1, ExactIs
<1>3. /\ j \in Jobs /\ j \in Live(s) /\ t.name \in Names /\ t.slot \in WriteSlots
      /\ t.name \in Blocks(s.jobs[j].key)
  <2> HIDE DEF E
  <2> QED
    BY <1>1, <1>2, CopyOfLive
<1>4. \/ store' = Queue(s, task)
      \/ s.jobs[j].state # "open" /\ ~StillNamed(s, t.name) /\ store' = gone
  BY DEF Staged
<1>5. task \in Task
  BY <1>3, BlockTaskType
<1> HIDE DEF task
<1>6. CASE store' = Queue(s, task)
  <2>1. Covered(Queue(s, task), {})
    BY <1>1, <1>5, QueueCovered
  <2> QED
    BY <1>6, <2>1
<1>7. CASE s.jobs[j].state # "open" /\ ~StillNamed(s, t.name) /\ store' = gone
  <2>1. Covered(gone, {})
    BY <1>1, <1>2, <1>3, <1>7, GoneCovered
  <2> QED
    BY <1>7, <2>1
<1> QED
  BY <1>4, <1>6, <1>7

LEMMA TakeBlockCovered ==
    ASSUME TailsApart, IInv, NEW m \in Int, Indexed(m), TakeBlock, Covered(store, {})
    PROVE  Covered(store', {})
<1> DEFINE t == Head(store.tasks)
           x == Part(t)
           E == tickets \cup {x}
           s == Popped
           gone == Settle(DropInflight(GiveBack(s, x.job, x.name, x.slot), x.job, x.name), x.job)
           X == {}
<1>1. Sound(s, E, {}, {}) /\ x \in E
  BY TakenSound DEF TakeBlock
<1>2. Exact(s, X, X, Popping(t, {}), PoppingPoint(t, {}), m) /\ SameIndex(store, s) /\ s.jobs = store.jobs
      /\ s.inflight = store.inflight
  BY TakenExact DEF TakeBlock
<1>3. x.job = t.job /\ x.name = t.name /\ x.slot = t.slot
  BY DEF Part
<1>4. store' = s \/ (store.jobs[t.job].state # "open" /\ ~StillNamed(store, t.name) /\ store' = gone)
  BY <1>3 DEF TakeBlock
<1>5. s \in Store /\ store \in Store
  BY <1>2, IndexedIs DEF SameIndex
<1> HIDE DEF s, x
<1>6. Covered(s, {}) /\ s.refs = store.refs
  BY <1>2, <1>5, StillCovered DEF SameIndex
<1>7. WaitsOnce(s) /\ NamesFit(s) /\ RefsAre(s, X)
  BY <1>2, ExactIs
<1>8. /\ x.job \in Jobs /\ x.job \in Live(s) /\ x.name \in Names /\ x.slot \in WriteSlots
      /\ x.name \in Blocks(s.jobs[x.job].key)
  <2> HIDE DEF E
  <2> QED
    BY <1>1, <1>7, CopyOfLive
<1>9. CASE store.jobs[t.job].state # "open" /\ ~StillNamed(store, t.name) /\ store' = gone
  <2>1. s.jobs[x.job].state # "open" /\ ~StillNamed(s, x.name)
    BY <1>2, <1>3, <1>6, <1>9 DEF StillNamed
  <2>2. Covered(gone, {})
    BY <1>5, <1>6, <1>7, <1>8, <2>1, GoneCovered
  <2> QED
    BY <1>9, <2>2
<1> QED
  BY <1>4, <1>6, <1>9

LEMMA BlockWrittenCovered ==
    ASSUME TailsApart, IInv, NEW m \in Int, Indexed(m), BlockWritten(TRUE), Covered(store, {})
    PROVE  Covered(store', {})
<1> DEFINE x == Part(running)
           s == store
           E == tickets \cup {x}
           b == GiveBack(s, x.job, x.name, x.slot)
           a == AddBlock(b, x.name)
           d == DropInflight(a, x.job, x.name)
<1>1. running.kind = "block"
  BY DEF BlockWritten
<1>2. x.job = running.job /\ x.name = running.name /\ x.slot = running.slot
  BY DEF Part
<1>3. RunningCopy = {x}
  BY <1>1 DEF RunningCopy
<1>4. store' = Settle(d, x.job)
  BY <1>2 DEF BlockWritten
<1>5. s \in Store /\ WaitsOnce(s) /\ Sound(s, E, RunningPoint, {}) /\ x \in E
  <2> HIDE DEF x
  <2> QED
    BY <1>3, IndexedIs, IndexedWaits
<1> HIDE DEF x, E, s
<1>6. x.job \in Jobs /\ x.name \in Names /\ x.slot \in WriteSlots
  BY <1>5, SoundParts
<1>7. Covered(b, {<<x.job, x.name>>}) /\ b \in Store /\ WaitsOnce(b)
  <2>1. Covered(s, {})
    BY DEF s
  <2> QED
    BY <1>5, <1>6, <2>1, GiveBackCovered, GiveBackGoes, GoesStore, GoesWaits
<1> HIDE DEF b
<1>8. Covered(a, {<<x.job, x.name>>}) /\ x.name \in a.have
  BY <1>6, <1>7, AddBlockCovered
<1>9. a \in Store /\ WaitsOnce(a)
  <2>1. a \in Store
    BY <1>6, <1>7, AddBlockType DEF Keeps
  <2>2. a.jobs = b.jobs /\ a.points = b.points
    BY <1>7 DEF AddBlock, Store
  <2> HIDE DEF a
  <2> QED
    BY <1>7, <2>1, <2>2 DEF WaitsOnce, Live
<1> HIDE DEF a
<1>10. Covered(d, {})
  BY <1>6, <1>8, <1>9, DropInflightCovered
<1>11. d \in Store /\ WaitsOnce(d)
  BY <1>6, <1>9, DropInflightGoes, GoesStore, GoesWaits
<1> HIDE DEF d
<1>12. Covered(Settle(d, x.job), {})
  BY <1>6, <1>10, <1>11, SettleCovered
<1> QED
  BY <1>4, <1>12

\* A publishing write has nothing to stage or to write.
LEMMA EndsCovered ==
    ASSUME TailsApart, NEW s \in Store, NEW j \in Jobs, NEW b \in BOOLEAN, Covered(s, {}), WaitsOnce(s),
           s.jobs[j].state = "publishing", JobFits(s.jobs[j])
    PROVE  Covered(EndJob(s, j, b), {})
<1>1. s.jobs[j].left = {} /\ s.jobs[j].out = {}
  BY DEF JobFits
<1>2. j \in Live(s)
  BY DEF Live, LiveStates
<1>3. \A i \in Live(s) : s.jobs[i].key = s.jobs[j].key => i = j
  BY <1>2 DEF WaitsOnce
<1> QED
  BY <1>1, <1>3, EndJobCovered

LEMMA ParkCovered ==
    ASSUME NEW s \in Store, NEW j \in Jobs, Covered(s, {})
    PROVE  Covered([s EXCEPT !.jobs[j].parked = TRUE], {})
<1> DEFINE a == s.jobs[j]
           r == [a EXCEPT !.parked = TRUE]
           z == [s EXCEPT !.jobs[j].parked = TRUE]
           X == {}
<1>1. a \in Job /\ s.jobs \in [Jobs -> Job]
  BY StoreFields
<1>2. /\ r.key = a.key /\ r.state = a.state /\ r.left = a.left /\ r.out = a.out
      /\ r.tailSlot = a.tailSlot
  <2> HIDE DEF a
  <2> QED
    BY <1>1 DEF Job
<1>3. z = [s EXCEPT !.jobs = [s.jobs EXCEPT ![j] = r]]
  OBVIOUS
<1> DEFINE jobs == [s.jobs EXCEPT ![j] = r]
<1>4. jobs[j] = r /\ \A i \in Jobs \ {j} : jobs[i] = s.jobs[i]
  BY <1>1
<1> HIDE DEF r, a
<1>5. z.jobs = jobs /\ z.have = s.have /\ z.refs = s.refs /\ z.inflight = s.inflight
  <2>1. z = [s EXCEPT !.jobs = jobs]
    BY <1>3
  <2> HIDE DEF z, jobs
  <2> QED
    BY <2>1 DEF Store
<1> HIDE DEF z, jobs
<1>6. \A i \in Jobs : /\ z.jobs[i].key = s.jobs[i].key /\ z.jobs[i].state = s.jobs[i].state
                      /\ z.jobs[i].left = s.jobs[i].left /\ z.jobs[i].out = s.jobs[i].out
                      /\ z.jobs[i].tailSlot = s.jobs[i].tailSlot
  BY <1>2, <1>4, <1>5 DEF a
<1>7. Sane(z)
  BY <1>6 DEF Covered, Sane
<1>8. \A i \in Jobs : \A n \in Writes(s.jobs[i]) :
         n \in Writes(z.jobs[i]) \cup TailBlock(s.jobs[i].key) \/ <<i, n>> \in X
  BY <1>6 DEF Writes
<1> HIDE DEF X
<1>9. Covered(z, X)
  BY <1>5, <1>6, <1>7, <1>8, MoveCovered
<1> QED
  BY <1>9 DEF z, X

LEMMA TakePointCovered ==
    ASSUME TailsApart, IInv, NEW m \in Int, Indexed(m), TakePoint, Covered(store, {})
    PROVE  Covered(store', {})
<1> DEFINE j == Head(store.tasks).job
           s == Popped
           z == EndJob(s, j, FALSE)
           park == [s EXCEPT !.jobs[j].parked = TRUE]
<1>1. s \in Store /\ WaitsOnce(s)
  BY PoppedWaits DEF TakePoint
<1>2. j \in Jobs /\ s.jobs[j].state = "publishing" /\ JobFits(s.jobs[j])
  <2>1. Sound(s, tickets, {j}, {})
    BY TakenSound DEF TakePoint
  <2> HIDE DEF s, j
  <2> QED
    BY <2>1 DEF Sound, QueueFits, JobsFit
<1>3. store' = s \/ store' = park \/ store' = z
  BY DEF TakePoint
<1>4. SameIndex(store, s) /\ s.jobs = store.jobs /\ s.inflight = store.inflight /\ store \in Store
  BY TakenExact, IndexedIs DEF TakePoint
<1> HIDE DEF s, j
<1>5. Covered(s, {})
  BY <1>1, <1>4, StillCovered DEF SameIndex
<1>6. Covered(park, {})
  BY <1>1, <1>2, <1>5, ParkCovered
<1>7. Covered(z, {})
  <2>1. FALSE \in BOOLEAN
    OBVIOUS
  <2> QED
    BY <1>1, <1>2, <1>5, <2>1, EndsCovered
<1> HIDE DEF park, z
<1> QED
  BY <1>3, <1>5, <1>6, <1>7

LEMMA TakeOtherCovered ==
    ASSUME IInv, NEW m \in Int, Indexed(m), TakeShared \/ Unlink, Covered(store, {})
    PROVE  Covered(store', {})
<1> DEFINE s == Popped
<1>1. Takes("shared") \/ Takes("unlink")
  BY DEF TakeShared, Unlink
<1>2. SameIndex(store, s) /\ s.jobs = store.jobs /\ s.inflight = store.inflight /\ store \in Store
  BY <1>1, TakenExact, IndexedIs
<1>3. store' = s
  BY DEF TakeShared, Unlink
<1> HIDE DEF s
<1>4. Covered(s, {})
  BY <1>2, StillCovered DEF SameIndex
<1> QED
  BY <1>3, <1>4

\* The point is in the index: its write's references go after its own came.
LEMMA GainedCovered ==
    ASSUME NEW s \in Store, NEW k \in Keys, RefsAre(s, {}), Covered(s, {})
    PROVE  Covered(Gained(s, k), {})
<1> DEFINE r == Ref(s, Blocks(k))
           g == Gained(s, k)
           points == s.points \cup {k}
           stored == s.stored + FileBytes
<1>1. Covered(r, {})
  BY RefCovered
<1>2. r \in Store
  BY RefType DEF Keeps
<1>3. g = [r EXCEPT !.points = points, !.stored = stored] /\ g \in Store
  BY GainedIs DEF Gained
<1> HIDE DEF r, g, points, stored
<1>4. g.jobs = r.jobs /\ g.inflight = r.inflight /\ g.have = r.have /\ g.refs = r.refs
  BY <1>2, <1>3 DEF Store
<1>5. Covered(g, {})
  BY <1>1, <1>2, <1>3, <1>4, StillCovered
<1> QED
  BY <1>5 DEF g

LEMMA PointWrittenCovered ==
    ASSUME TailsApart, IInv, NEW m \in Int, Indexed(m), PointWritten, Covered(store, {})
    PROVE  Covered(store', {})
<1> DEFINE j == running.job
           k == store.jobs[j].key
           s == store
           X == {}
<1>1. running.kind = "point"
  BY DEF PointWritten
<1>2. /\ j \in Jobs /\ s.jobs[j].state = "publishing" /\ k \in Keys /\ JobFits(s.jobs[j])
      /\ s \in Store /\ WaitsOnce(s) /\ RefsAre(s, X)
  <2>1. /\ j \in Jobs /\ s.jobs[j].state = "publishing" /\ k \in Keys
        /\ Exact(s, X, X, X, {j}, m) /\ Sound(s, tickets \cup X, {j}, X)
    BY <1>1, PointIs
  <2> HIDE DEF X, j
  <2> QED
    BY <2>1, ExactIs DEF Sound, JobsFit
<1>3. CASE Blocks(k) \subseteq s.have
  <2> DEFINE p == [Ref(s, Blocks(k)) EXCEPT !.points = @ \cup {k}, !.stored = @ + FileBytes]
             y == EndJob(p, j, TRUE)
             t == [kind |-> "shared", key |-> k]
             x == IF k \in y.shared /\ ~running.flag THEN Queue(y, t) ELSE y
             z == TrimPath(x, k)
             g == Gained(s, k)
  <2>1. store' = z
    BY <1>3 DEF PointWritten
  <2>2. p = g
    <3> DEFINE r == Ref(s, Blocks(k))
    <3>1. r.points = s.points /\ r.stored = s.stored
      BY <1>2 DEF Ref, Store
    <3> HIDE DEF r, k, s
    <3> QED
      BY <3>1 DEF Gained, r
  <2>3. Covered(g, {})
    <3>1. Covered(s, {}) /\ RefsAre(s, {})
      BY <1>2
    <3> QED
      BY <1>2, <3>1, GainedCovered
  <2>4. g \in Store /\ g.jobs = s.jobs /\ \A i \in Live(g) : g.jobs[i].key = s.jobs[j].key => i = j
    <3>1. g \in Store /\ g.jobs = s.jobs
      BY <1>2, GainedIs
    <3>2. j \in Live(s)
      BY <1>2 DEF Live, LiveStates
    <3> HIDE DEF g, j, s
    <3> QED
      BY <1>2, <3>1, <3>2 DEF WaitsOnce, Live
  <2> HIDE DEF p, g, j, k, s, t
  <2>5. Covered(y, {}) /\ y \in Store
    <3>1. g.jobs[j].left = {} /\ g.jobs[j].out = {} /\ TRUE \in BOOLEAN
      BY <1>2, <2>4 DEF JobFits
    <3>2. Covered(y, {})
      BY <1>2, <2>2, <2>3, <2>4, <3>1, EndJobCovered
    <3>3. y \in Store
      BY <1>2, <2>2, <2>4, EndJobType DEF Keeps
    <3> QED
      BY <3>2, <3>3
  <2> HIDE DEF y, X
  <2>6. Covered(x, {}) /\ x \in Store
    <3>1. t \in Task
      BY <1>2, SharedTaskType DEF t
    <3>2. Covered(Queue(y, t), {}) /\ Queue(y, t) \in Store
      BY <2>5, <3>1, QueueCovered, QueueType DEF Keeps
    <3> QED
      BY <2>5, <3>2
  <2> HIDE DEF x
  <2>7. Lets(x, z)
    BY <2>6, TrimLets
  <2> HIDE DEF z
  <2>8. Covered(z, {})
    BY <2>6, <2>7, LetsCovered
  <2> QED
    BY <2>1, <2>8
<1>4. CASE ~(Blocks(k) \subseteq s.have)
  <2> DEFINE u == [kind |-> "unlink", keys |-> {k}, names |-> {}]
             d == Queue(s, u)
             e == EndJob(d, j, FALSE)
  <2>1. store' = e
    BY <1>4 DEF PointWritten
  <2>2. u \in Task
    BY <1>2, UnlinkType
  <2> HIDE DEF u
  <2>3. Covered(d, {}) /\ d \in Store
    <3>1. Covered(s, {})
      OBVIOUS
    <3> QED
      BY <1>2, <2>2, <3>1, QueueCovered, QueueType DEF Keeps
  <2>4. d.jobs = s.jobs /\ d.points = s.points
    BY <1>2 DEF Queue, Store
  <2> HIDE DEF d, j, k, s, X
  <2>5. WaitsOnce(d)
    BY <1>2, <2>4 DEF WaitsOnce, Live
  <2>6. Covered(e, {})
    <3>1. FALSE \in BOOLEAN
      OBVIOUS
    <3> QED
      BY <1>2, <2>3, <2>4, <2>5, <3>1, EndsCovered
  <2> QED
    BY <2>1, <2>6
<1> QED
  BY <1>3, <1>4

\* A store just opened has no write.
LEMMA FreshCovered ==
    ASSUME NEW s, Fresh(s)
    PROVE  Covered(s, {}) /\ \A j \in Jobs : s.jobs[j].state # "open"
<1>1. \A j \in Jobs : s.jobs[j].state \in {"unused", "ended"}
  <2> TAKE j \in Jobs
  <2>1. s.jobs[j] = NoWrite \/ s.jobs[j] = Gone
    BY DEF Fresh
  <2>2. NoWrite.state = "unused" /\ Gone.state = "ended"
    BY DEF NoWrite, Gone
  <2> QED
    BY <2>1, <2>2
<1>2. \A n \in Names : s.inflight[n] = NoJob
  BY DEF Fresh
<1>3. Sane(s)
  BY <1>1 DEF Sane
<1>4. Held(s, {})
  BY <1>2 DEF Held
<1>5. Awaited(s)
  BY <1>1 DEF Awaited
<1> QED
  BY <1>1, <1>3, <1>4, <1>5 DEF Covered

LEMMA EngineCovered ==
    ASSUME TailsApart, ~EngineErrors, IInv, NEW m \in Int, Indexed(m), Engine, ~DamageFound,
           Covered(store, {})
    PROVE  Covered(store', {})
<1>1. store \in Store /\ WaitsOnce(store) /\ NamesFit(store)
  <2>1. Exact(store, {}, {}, RunningName, RunningPoint, m) /\ store \in Store
    BY IndexedIs
  <2> QED
    BY <2>1, ExactIs
<1>2. ASSUME NEW k \in Keys, MarkShared(k) PROVE Covered(store', {})
  BY <1>1, <1>2, MarkSharedCovered
<1>3. ASSUME NEW k \in Keys, NEW b \in BOOLEAN, NEW V \in SUBSET store.points, Keep(k, b, V)
      PROVE  Covered(store', {})
  BY <1>3, KeepCovered
<1>4. ASSUME NEW k \in Keys, BeginRead(k) \/ EndRead(k) PROVE Covered(store', {})
  <2>1. store' = store
    BY <1>4 DEF BeginRead, EndRead
  <2> QED
    BY <2>1
<1>5. ASSUME NEW k \in Keys, NEW gone \in SUBSET Blocks(k), Forget(k, gone) PROVE FALSE
  <2>1. gone \in SUBSET Names
    BY NamesType
  <2> QED
    BY <1>5, <2>1 DEF DamageFound
<1>6. ASSUME NEW j \in Jobs, NEW ok \in BOOLEAN, Captured(j, ok) PROVE Covered(store', {})
  <2>1. ok = TRUE
    BY <1>6 DEF Captured
  <2>2. Captured(j, TRUE)
    BY <1>6, <2>1
  <2> QED
    BY <2>2, CapturedCovered
<1>7. ASSUME NEW j \in Jobs,
             (\E n \in Names, w \in WriteSlots : Stage(j, n, w)) \/ (\E from : Guard(j, from)) \/ Cancel(j)
      PROVE  Covered(store', {})
  BY <1>1, <1>7, HandsCovered
<1>8. ASSUME NEW t \in tickets, NEW ok \in BOOLEAN, Staged(t, ok) PROVE Covered(store', {})
  <2>1. ok = TRUE
    BY <1>8 DEF Staged
  <2>2. Staged(t, TRUE)
    BY <1>8, <2>1
  <2> QED
    BY <2>2, StagedCovered
<1> QED
  BY <1>2, <1>3, <1>4, <1>5, <1>6, <1>7, <1>8 DEF Engine

\* The invariant: without a fault an open write's blocks are on their way,
\* and no write is open while the store is not.
OnTheirWay ==
    ~faulted => /\ Covered(store, {})
                /\ phase # "up" => \A j \in Jobs : store.jobs[j].state # "open"

LEMMA OnTheirWayStep ==
    ASSUME TailsApart, ~EngineErrors, Core, Core', Neat, OnTheirWay, [DiskNext]_allVars
    PROVE  OnTheirWay'
<1> DEFINE Good == Covered(store, {}) /\ (phase # "up" => \A j \in Jobs : store.jobs[j].state # "open")
<1> SUFFICES ASSUME ~faulted'
             PROVE  Good'
  BY DEF OnTheirWay
<1>1. ~faulted /\ (DiskStep \/ (EngineStep /\ ~DamageFound) \/ UNCHANGED allVars
                   \/ (phase = "down" /\ Scan({}, {}) /\ phase' = "sweep"))
  <2>1. CASE DiskStep /\ UNCHANGED faulted
    BY <2>1
  <2>2. CASE DiskFails /\ faulted' = TRUE
    BY <2>2
  <2>3. CASE EngineStep /\ faulted' = (faulted \/ DamageFound)
    BY <2>3
  <2>4. ASSUME NEW unread \in SUBSET Keys, NEW unsure \in SUBSET Names, Scan(unread, unsure),
               faulted' = (faulted \/ ~Scan({}, {}))
        PROVE  ~faulted /\ phase = "down" /\ Scan({}, {}) /\ phase' = "sweep"
    <3>1. phase = "down" /\ phase' = "sweep"
      BY <2>4 DEF Scan
    <3> QED
      BY <2>4, <3>1
  <2>5. CASE UNCHANGED allVars
    BY <2>5 DEF allVars, diskVars
  <2> QED
    BY <2>1, <2>2, <2>3, <2>4, <2>5, Zenon DEF DiskNext
<1>2. Good /\ IInv /\ store \in Store
  BY <1>1 DEF OnTheirWay, Core, IInv, TypeOK
<1>3. phase = "up" => \E m \in Int : m <= 0 /\ Indexed(m)
  BY UpIs
<1>4. running.kind \in {"block", "point", "shared"} => phase = "up"
  BY Busy DEF Core
<1>5. ASSUME store' = store, phase' = phase \/ phase' = "up" PROVE Good'
  BY <1>2, <1>5
<1>6. ASSUME Fresh(store') PROVE Good'
  BY <1>6, FreshCovered
<1>7. CASE EngineStep /\ ~DamageFound
  <2>1. phase = "up" /\ phase' = "up" /\ Engine
    BY <1>7 DEF EngineStep
  <2>2. Covered(store', {})
    BY <1>2, <1>3, <1>7, <2>1, EngineCovered
  <2> QED
    BY <2>1, <2>2
<1>8. CASE UNCHANGED allVars
  BY <1>5, <1>8 DEF allVars, diskVars, vars
<1>9. CASE phase = "down" /\ Scan({}, {}) /\ phase' = "sweep"
  <2> DEFINE R == {k \in {k \in Keys : Present(Man(k))} : Verdict(k, {}, {}) = "recovered"}
  <2>1. store' = Rebuilt(R) /\ R \in SUBSET Keys
    BY <1>9 DEF Scan
  <2> HIDE DEF R
  <2> QED
    BY <1>2, <1>6, <2>1, RebuiltFresh
<1>10. CASE Take \/ PointDone \/ Deleted \/ BlockDone(TRUE)
  <2>1. phase = "up" /\ phase' = "up"
    BY <1>10 DEF Take, PointDone, Deleted, BlockDone, Locked
  <2>2. PICK m \in Int : m <= 0 /\ Indexed(m)
    BY <1>3, <2>1
  <2>3. TakeBlock \/ TakePoint \/ TakeShared \/ Unlink \/ PointWritten \/ BlockWritten(TRUE)
    BY <1>10 DEF Take, PointDone, Deleted, BlockDone
  <2>4. Covered(store', {})
    BY <1>2, <2>2, <2>3, TakeBlockCovered, TakePointCovered, TakeOtherCovered, PointWrittenCovered,
       BlockWrittenCovered
  <2> QED
    BY <2>1, <2>4
<1>11. CASE SharedDone(TRUE)
  BY <1>5, <1>11 DEF SharedDone, SharedWritten
<1>12. CASE PutBlock \/ Publish \/ Rewrite \/ DeleteOne
  BY <1>5, <1>12 DEF PutBlock, Publish, Rewrite, DeleteOne, OnDisk, vars
<1>13. ~(PointUndone \/ Undo)
  <2>1. PointUndone \/ Undo => running.kind = "point" /\ step \in 7 .. 10
    <3>1. Published = 6 /\ Undone = 10
      BY PublishedIs
    <3>2. ASSUME PointUndone PROVE running.kind = "point" /\ step = 10
      BY <3>1, <3>2 DEF PointUndone, PointFailed
    <3>3. ASSUME Undo PROVE running.kind = "point" /\ step \in 7 .. 10
      BY <3>1, <3>3 DEF Undo
    <3> QED
      BY <3>2, <3>3
  <2>2. running.kind = "point" => step <= 6
    BY <1>1, <1>4 DEF Neat, UpNeat, WriterNeat
  <2> QED
    BY <2>1, <2>2
<1>14. CASE Kill \/ PowerLoss
  <2>1. store' = Closed
    BY <1>14 DEF Kill, PowerLoss, Stops
  <2> QED
    BY <1>2, <1>6, <2>1, ClosedFresh
<1>15. CASE \E f \in sweep : Sweep(f)
  <2>1. store' = store /\ phase' = phase
    BY <1>15 DEF Sweep, vars
  <2> QED
    BY <1>5, <2>1
<1>16. CASE Opened
  BY <1>5, <1>16 DEF Opened
<1> QED
  BY <1>1, <1>7, <1>8, <1>9, <1>10, <1>11, <1>12, <1>13, <1>14, <1>15, <1>16 DEF DiskStep

\* What an open write waits for it also references.
LEMMA CoveredIs ==
    ASSUME Core, OnTheirWay
    PROVE  OpenCovered
<1> SUFFICES ASSUME ~faulted, NEW j \in Jobs, store.jobs[j].state = "open", NEW n \in NamesOf(store, j)
             PROVE  n \in store.have \/ store.inflight[n] # NoJob
  BY DEF OpenCovered, OpenWritesCovered
<1>1. Covered(store, {}) /\ phase = "up"
  BY DEF OnTheirWay
<1>2. PICK m \in Int : m <= 0 /\ Indexed(m)
  BY <1>1, UpIs
<1>3. store \in Store /\ Exact(store, {}, {}, RunningName, RunningPoint, m)
  BY <1>2, IndexedIs DEF Core
<1>4. RefsAre(store, {})
  BY <1>3, ExactIs
<1>5. n \in Blocks(store.jobs[j].key)
  BY DEF NamesOf
<1> QED
  BY <1>1, <1>3, <1>4, <1>5, AwaitedExact DEF OnItsWay

\* Between two tasks the directories hold what SpillWrite says they hold, a
\* reopened store is exact in its references, blocks and bytes, and with no
\* task left there is no file but the index's: through crashes at every step
\* (Spill.open, scan and the writer's loop in store.zig), whatever copies do.
THEOREM DirectoriesAreIndex == DiskSpec => [](ViewIsDisk /\ RebuiltIsExact /\ NothingLeftBehind)
<1>1. Core /\ View /\ Neat /\ NoTemps => ViewIsDisk /\ RebuiltIsExact /\ NothingLeftBehind
  BY ViewIs, CoreRebuilt, NeatAtRest
<1> QED
  BY <1>1, DiskInvariant, ViewHolds, NeatHolds, PTL

\* The same and, with copies that do not fail and tails that have names of
\* their own (blockNames in format.zig), every block an open write names is
\* stored or on its way: no eviction, no other write's end and no reopening
\* takes it, as long as no disk work fails and nothing is damaged.
THEOREM IndexIsDiskHolds ==
    ASSUME TailsApart, ~EngineErrors
    PROVE  DiskSpec => []IndexIsDisk
<1>1. DiskInit => OnTheirWay
  <2> SUFFICES ASSUME DiskInit PROVE Covered(store, {}) /\ phase = "up"
    BY DEF OnTheirWay
  <2>1. phase = "up"
    BY DEF DiskInit
  <2>2. store.jobs = [j \in Jobs |-> NoWrite] /\ store.inflight = [n \in Names |-> NoJob]
    BY DEF DiskInit, Init
  <2>3. \A j \in Jobs : store.jobs[j].state = "unused"
    BY <2>2 DEF NoWrite
  <2>4. Sane(store) /\ Held(store, {}) /\ Awaited(store)
    BY <2>2, <2>3 DEF Sane, Held, Awaited
  <2> QED
    BY <2>1, <2>4 DEF Covered
<1>2. Core /\ Core' /\ Neat /\ OnTheirWay /\ [DiskNext]_allVars => OnTheirWay'
  BY OnTheirWayStep
<1>3. Core /\ OnTheirWay => OpenCovered
  BY CoveredIs
<1>4. ViewIsDisk /\ RebuiltIsExact /\ NothingLeftBehind /\ OpenCovered => IndexIsDisk
  BY DEF IndexIsDisk
<1> QED
  BY <1>1, <1>2, <1>3, <1>4, DiskInvariant, NeatHolds, DirectoriesAreIndex, PTL DEF DiskSpec
=============================================================================
