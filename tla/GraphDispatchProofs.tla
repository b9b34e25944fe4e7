-------------------------- MODULE GraphDispatchProofs --------------------------
(***************************************************************************)
(* GraphDispatch for any options: types, no step of a start that came up   *)
(* fails, the graphs that serve are the dispatcher's keys on the serving   *)
(* cache and each replays the model, a batch's graph holds it, and two     *)
(* data-parallel ranks run the same mode and number of tokens.             *)
(*                                                                         *)
(* Most of it is arithmetic on the sizes: a padded size is a captured one, *)
(* padding it again changes nothing, and after the backends are resolved   *)
(* the sizes are multiples of the query length where decodes have graphs   *)
(* of their own, so that the batch a capture builds for a key dispatches   *)
(* to that key.  The invariant carries this from where the options are     *)
(* checked, through the profile, to the batches served.                    *)
(***************************************************************************)
EXTENDS GraphDispatch, FiniteSetTheorems, SequenceTheorems, TLAPS

-----------------------------------------------------------------------------
(* Bounded sets of numbers *)

\* An initial segment of the numbers to b ends somewhere.
LEMMA SegmentEnds ==
    ASSUME NEW b \in Nat, NEW B \in SUBSET (0 .. b), 0 \in B, \A m \in B : 0 .. m \subseteq B
    PROVE  \E t \in B : \A m \in B : m <= t
<1> DEFINE c == Cardinality(B)
           I == 0 .. c - 1
<1>1. IsFiniteSet(B) /\ c \in Nat
  <2> DEFINE A == 0 .. b
  <2>1. IsFiniteSet(A)
    BY FS_Interval
  <2>2. B \in SUBSET A
    OBVIOUS
  <2> HIDE DEF A
  <2>3. IsFiniteSet(B)
    BY <2>1, <2>2, FS_Subset
  <2> QED
    BY <2>3, FS_CardinalityType
<1>2. \A m \in B : m <= c - 1
  <2> TAKE m \in B
  <2> DEFINE M == 0 .. m
  <2>1. m \in 0 .. b /\ M \in SUBSET B
    OBVIOUS
  <2>2. IsFiniteSet(M) /\ Cardinality(M) = m + 1
    BY <2>1, FS_Interval
  <2>3. Cardinality(M) <= c
    BY <1>1, <2>1, FS_Subset
  <2> HIDE DEF M, c
  <2> QED
    BY <1>1, <2>1, <2>2, <2>3
<1>3. c >= 1
  <2>1. 0 <= c - 1
    BY <1>2
  <2> HIDE DEF c
  <2> QED
    BY <1>1, <2>1
<1>4. IsFiniteSet(I) /\ Cardinality(I) = c
  <2> HIDE DEF c
  <2> QED
    BY <1>1, <1>3, FS_Interval
<1>5. B \in SUBSET I
  <2> HIDE DEF c
  <2> QED
    BY <1>1, <1>2
<1>6. B = I
  <2> HIDE DEF I
  <2> QED
    BY <1>4, <1>5, FS_Subset DEF c
<1> HIDE DEF c
<1> QED
  BY <1>1, <1>2, <1>3, <1>6

LEMMA MaxIs ==
    ASSUME NEW b \in Nat, NEW S \in SUBSET (0 .. b), S # {}
    PROVE  Max(S) \in S /\ \A s \in S : s <= Max(S)
<1> DEFINE B == {m \in 0 .. b : \E s \in S : m <= s}
<1>1. PICK t \in B : \A m \in B : m <= t
  <2>1. 0 \in B
    <3>1. PICK s \in S : TRUE
      OBVIOUS
    <3>2. s \in 0 .. b /\ 0 <= s
      OBVIOUS
    <3> QED
      BY <3>2
  <2>2. \A m \in B : \A i \in 0 .. m : i \in B
    OBVIOUS
  <2>3. B \in SUBSET (0 .. b)
    OBVIOUS
  <2> HIDE DEF B
  <2>4. \A m \in B : 0 .. m \subseteq B
    BY <2>2
  <2> QED
    BY <2>1, <2>3, <2>4, SegmentEnds
<1>2. PICK s \in S : t <= s
  OBVIOUS
<1>3. \A r \in S : s >= r
  BY <1>1, <1>2
<1> QED
  BY <1>3 DEF Max

LEMMA MinIs ==
    ASSUME NEW b \in Nat, NEW S \in SUBSET (0 .. b), S # {}
    PROVE  Min(S) \in S /\ \A s \in S : Min(S) <= s
<1> DEFINE B == {m \in 0 .. b : \A s \in S : m <= s}
<1>1. PICK t \in B : \A m \in B : m <= t
  <2>1. 0 \in B
    OBVIOUS
  <2>2. \A m \in B : \A i \in 0 .. m : i \in B
    OBVIOUS
  <2>3. B \in SUBSET (0 .. b)
    OBVIOUS
  <2> HIDE DEF B
  <2>4. \A m \in B : 0 .. m \subseteq B
    BY <2>2
  <2> QED
    BY <2>1, <2>3, <2>4, SegmentEnds
<1>2. t \in S
  <2> SUFFICES ASSUME t \notin S PROVE FALSE
    OBVIOUS
  <2>1. \A s \in S : t + 1 <= s
    OBVIOUS
  <2>2. t + 1 \in B
    <3>1. PICK s \in S : TRUE
      OBVIOUS
    <3>2. t + 1 <= s /\ s <= b
      BY <2>1
    <3> QED
      BY <2>1, <3>2
  <2> QED
    BY <1>1, <2>2
<1>3. \A s \in S : t <= s
  OBVIOUS
<1> QED
  BY <1>2, <1>3 DEF Min

LEMMA LargestIs ==
    ASSUME NEW b \in Nat, NEW S \in SUBSET (0 .. b)
    PROVE  /\ Largest(S) \in 0 .. b /\ \A s \in S : s <= Largest(S)
           /\ S # {} => Largest(S) \in S
<1>1. CASE S = {}
  BY <1>1 DEF Largest
<1>2. CASE S # {}
  <2>1. Max(S) \in S /\ \A s \in S : s <= Max(S)
    BY <1>2, MaxIs
  <2>2. Largest(S) = Max(S)
    BY <1>2 DEF Largest
  <2> QED
    BY <2>1, <2>2
<1> QED
  BY <1>1, <1>2

-----------------------------------------------------------------------------
(* What a start is configured to *)

LEMMA OptionIs ==
    ASSUME NEW o \in Options
    PROVE  /\ o.maxSeqs \in Nat \ {0} /\ o.maxTokens \in Nat \ {0} /\ o.tp \in Nat \ {0}
           /\ o.spec \in Nat /\ o.maxSize \in Nat /\ o.loras \in Nat /\ Query(o) \in Nat \ {0}
           /\ o.sizes \subseteq Nat \ {0} /\ o.sp \in BOOLEAN /\ o.cascade \in BOOLEAN
           /\ o.gmode \in Modes \cup {"unset"} /\ o.support \in 0 .. 3 /\ o.split \in {"unset", "empty"}
BY OptionsAssumption DEF Query, NEVER, ALWAYS

\* What runs a piecewise graph: a breakable capture, or the pieces of a
\* compiled model that is split at its attention.
AttentionSplit(o) == Compilation(o) = "VLLM_COMPILE" /\ SplitOps(o) = "attention"
Pieces(o, m) == HasPiecewise(m) => Implementation(o) = "breakable" \/ AttentionSplit(o)

LEMMA BreakableIs ==
    ASSUME NEW o
    PROVE  /\ Implementation(o) = "breakable" => Compilation(o) = "NONE"
           /\ o \in Options /\ SplitOps(o) = "attention" => AttentionSplit(o)
<1>1. Implementation(o) = "breakable" => AskedCompilation(o) = "NONE"
  BY DEF AskedCompilation
<1>2. Implementation(o) = "breakable" => Compilation(o) = "NONE"
  BY <1>1 DEF Compilation
<1>3. o \in Options => o.split \in {"unset", "empty"}
  BY OptionIs
<1>4. o \in Options /\ Compilation(o) # "VLLM_COMPILE" => SplitOps(o) = "empty"
  BY <1>3 DEF SplitOps
<1> QED
  BY <1>2, <1>4 DEF AttentionSplit

LEMMA ModeForSizesIs ==
    ASSUME NEW o \in Options
    PROVE  ModeForSizes(o) \in Modes
<1> DEFINE a == DefaultMode(o)
           b == AfterDynamic(o, a)
           c == AfterCompilation(o, b)
           d == AfterModel(o, c)
<1>1. a \in Modes
  BY OptionIs DEF DefaultMode, Modes
<1>2. b \in Modes
  BY <1>1 DEF AfterDynamic, Modes
<1>3. c \in Modes
  BY <1>2 DEF AfterCompilation, Modes
<1>4. d \in Modes
  BY <1>3 DEF AfterModel, Modes
<1> HIDE DEF d
<1>5. AfterConnector(o, d) \in Modes
  BY <1>4 DEF AfterConnector, Modes
<1> QED
  BY <1>5 DEF ModeForSizes, d

LEMMA ConfiguredModeIs ==
    ASSUME NEW o \in Options
    PROVE  /\ ConfiguredMode(o) \in Modes
           /\ ~PiecewiseRefused(o) => Pieces(o, ConfiguredMode(o))
<1> DEFINE m == ModeForSizes(o)
           n == AfterSplitting(o, m)
           k == AfterDeepEp(o, n)
<1>1. m \in Modes
  BY ModeForSizesIs
<1> HIDE DEF m
<1>2. o.split \in {"unset", "empty"} /\ o.sp \in BOOLEAN
  BY OptionIs
<1>3. n \in Modes
  BY <1>1 DEF AfterSplitting, Modes
<1>4. HasPiecewise(n) /\ Compilation(o) = "VLLM_COMPILE" => SplitOps(o) = "attention"
  <2>1. \A x \in Modes : HasPiecewise(x) <=> x \in {"PIECEWISE", "FULL_AND_PIECEWISE"}
    BY DEF HasPiecewise, HasMode, DecodeMode, MixedMode, Separate, Modes
  <2>2. ASSUME Compilation(o) = "VLLM_COMPILE", o.split = "empty" PROVE ~HasPiecewise(n)
    BY <1>1, <2>1, <2>2 DEF AfterSplitting, Modes
  <2>3. ASSUME Compilation(o) = "VLLM_COMPILE", o.split # "empty", SequenceParallel(o) PROVE ~HasPiecewise(n)
    <3>1. n = IF HasPiecewise(m) THEN "FULL" ELSE m
      BY <2>3 DEF AfterSplitting
    <3>2. ~HasPiecewise("FULL")
      BY <2>1 DEF Modes
    <3> QED
      BY <3>1, <3>2
  <2>4. ASSUME Compilation(o) = "VLLM_COMPILE", o.split # "empty", ~SequenceParallel(o)
        PROVE  SplitOps(o) = "attention"
    BY <1>2, <2>4 DEF SplitOps
  <2> HIDE DEF n
  <2> QED
    BY <2>2, <2>3, <2>4
<1> HIDE DEF n
<1>5. k \in {n, "NONE"}
  BY DEF AfterDeepEp
<1>6. k \in Modes
  BY <1>3, <1>5 DEF Modes
<1>7. HasPiecewise(k) => HasPiecewise(n)
  BY <1>5 DEF HasPiecewise, HasMode, DecodeMode, MixedMode, Separate
<1>8. ConfiguredMode(o) = k
  BY DEF ConfiguredMode, m, n
<1> HIDE DEF k
<1> QED
  BY <1>4, <1>6, <1>7, <1>8 DEF Pieces, PiecewiseRefused, PiecewiseRunner, AttentionSplit

LEMMA SizesIs ==
    ASSUME NEW o \in Options
    PROVE  /\ Sizes(o) \in SUBSET (1 .. o.maxTokens)
           /\ SequenceParallel(o) => \A s \in Sizes(o) : s % o.tp = 0
<1> DEFINE t == o.maxTokens
           max == MaxSize(o)
           q == o.maxSeqs * Query(o) * 2
<1>1. t \in Nat \ {0} /\ o.maxSize \in Nat /\ o.sizes \subseteq Nat \ {0}
  BY OptionIs
<1>2. q \in Nat \ {0}
  BY OptionIs
<1> HIDE DEF q
<1>3. max \in Nat /\ max <= t /\ max >= 1
  <2>1. max = Smaller(t, IF o.maxSize # 0 THEN o.maxSize ELSE Smaller(q, 512))
    BY DEF MaxSize, q
  <2> HIDE DEF t, max
  <2> QED
    BY <1>1, <1>2, <2>1 DEF Smaller
<1>4. Ladder(o) \in SUBSET (1 .. t)
  <2> HIDE DEF max, t
  <2>1. Ladder(o) \subseteq (1 .. max) \cup (8 .. Smaller(max, 255)) \cup (256 .. max) \cup {t}
    BY <1>1, <1>3 DEF Ladder, Smaller, max, t
  <2> QED
    BY <1>1, <1>3, <2>1 DEF Smaller
<1>5. CandidateSizes(o) \in SUBSET (1 .. t)
  BY <1>1, <1>4 DEF CandidateSizes
<1> HIDE DEF t
<1>6. Sizes(o) \subseteq CandidateSizes(o)
  BY DEF Sizes
<1>7. SequenceParallel(o) => \A s \in Sizes(o) : s % o.tp = 0
  BY DEF Sizes
<1> QED
  BY <1>5, <1>6, <1>7 DEF t

-----------------------------------------------------------------------------
(* Multiples *)

LEMMA DivMod ==
    ASSUME NEW n \in Nat, NEW k \in Nat \ {0}
    PROVE  /\ n \div k \in Nat /\ n % k \in 0 .. k - 1 /\ n = k * (n \div k) + (n % k)
OBVIOUS

LEMMA MultipleIs ==
    ASSUME NEW q \in Nat, NEW k \in Nat \ {0}
    PROVE  /\ k * q \in Nat /\ (k * q) % k = 0 /\ (k * q) \div k = q
<1> DEFINE n == k * q
           d == n \div k
           r == n % k
<1>1. n \in Nat
  OBVIOUS
<1>2. d \in Nat /\ r \in 0 .. k - 1 /\ n = k * d + r
  BY <1>1, DivMod
<1>3. k * (q - d) = r
  <2> HIDE DEF d, r
  <2> QED
    BY <1>2
<1>4. q - d \in Int /\ (q - d = 0 \/ q - d >= 1 \/ q - d <= -1)
  <2> HIDE DEF d
  <2> QED
    BY <1>2
<1> HIDE DEF d, r
<1>5. q - d = 0
  <2> DEFINE x == q - d
  <2>1. x >= 1 => k * x >= k
    <3>1. x \in Int
      BY <1>4
    <3> HIDE DEF x
    <3> QED
      BY <3>1
  <2>2. x <= -1 => k * x <= -k
    <3>1. x \in Int
      BY <1>4
    <3> HIDE DEF x
    <3> QED
      BY <3>1
  <2> QED
    BY <1>2, <1>3, <1>4, <2>1, <2>2
<1>6. d = q /\ r = 0
  BY <1>2, <1>3, <1>5
<1> QED
  BY <1>1, <1>6 DEF d, r

LEMMA MultipleOf ==
    ASSUME NEW n \in Nat, NEW k \in Nat \ {0}, n % k = 0
    PROVE  n \div k \in Nat /\ n = k * (n \div k)
BY DivMod

\* A multiple of a multiple.
LEMMA Transitive ==
    ASSUME NEW n \in Nat, NEW s \in Nat \ {0}, NEW k \in Nat \ {0}, n % s = 0, s % k = 0
    PROVE  n % k = 0
<1> DEFINE x == n \div s
           y == s \div k
<1>1. x \in Nat /\ n = s * x /\ y \in Nat /\ s = k * y
  BY MultipleOf
<1> HIDE DEF x, y
<1>2. n = k * (y * x) /\ y * x \in Nat
  BY <1>1
<1> QED
  BY <1>2, MultipleIs

LEMMA RoundUpIs ==
    ASSUME NEW n \in Nat, NEW k \in Nat \ {0}
    PROVE  /\ RoundUp(n, k) \in Nat /\ RoundUp(n, k) >= n /\ RoundUp(n, k) % k = 0
           /\ n % k = 0 => RoundUp(n, k) = n
<1> DEFINE m == n + k - 1
           q == m \div k
           r == m % k
<1>1. m \in Nat
  OBVIOUS
<1>2. q \in Nat /\ r \in 0 .. k - 1 /\ m = k * q + r
  BY <1>1, DivMod
<1>3. RoundUp(n, k) = k * q
  <2>1. RoundUp(n, k) = q * k
    BY DEF RoundUp
  <2> HIDE DEF q
  <2> QED
    BY <1>2, <2>1
<1>4. k * q \in Nat /\ (k * q) % k = 0
  <2> HIDE DEF q
  <2> QED
    BY <1>2, MultipleIs
<1>5. k * q >= n
  <2> DEFINE p == k * q
  <2> HIDE DEF q, r, p
  <2>1. p \in Nat /\ m = p + r
    BY <1>2, <1>4 DEF p
  <2> QED
    BY <1>2, <2>1 DEF p
<1>6. n % k = 0 => k * q = n
  <2> SUFFICES ASSUME n % k = 0 PROVE k * q = n
    OBVIOUS
  <2> DEFINE x == n \div k
  <2>1. x \in Nat /\ n = k * x
    BY MultipleOf
  <2>2. k * (q - x) = k - 1 - r
    <3> HIDE DEF q, r, x
    <3> QED
      BY <1>2, <2>1
  <2>3. q - x \in Int /\ (q - x <= 0 \/ q - x >= 1)
    <3> HIDE DEF q, x
    <3> QED
      BY <1>2, <2>1
  <2>4. q - x >= 1 => FALSE
    <3> DEFINE z == q - x
    <3>1. z \in Int
      BY <2>3
    <3>2. k * z = k - 1 - r
      BY <2>2
    <3> HIDE DEF z, r
    <3>3. z >= 1 => k * z >= k
      BY <3>1
    <3> QED
      BY <1>2, <3>2, <3>3 DEF z
  <2>5. k * q <= k * x
    <3> HIDE DEF q, x
    <3> QED
      BY <1>2, <2>1, <2>3, <2>4
  <2> DEFINE p == k * q
  <2>6. p \in Nat /\ p <= n
    BY <1>4, <2>1, <2>5
  <2> HIDE DEF p
  <2> QED
    BY <1>5, <2>6 DEF p
<1> HIDE DEF q
<1> QED
  BY <1>3, <1>4, <1>5, <1>6

\* What holds k batches of q holds k.
LEMMA DivAtLeast ==
    ASSUME NEW n \in Nat, NEW q \in Nat \ {0}, NEW k \in Nat, n >= q * k
    PROVE  n \div q >= k
<1> DEFINE d == n \div q
           r == n % q
<1>1. d \in Nat /\ r \in 0 .. q - 1 /\ n = q * d + r
  BY DivMod
<1> HIDE DEF d, r
<1>2. ASSUME d + 1 <= k PROVE FALSE
  <2> DEFINE z == k - d
  <2>1. z \in Nat /\ z >= 1 /\ q * z = q * k - q * d
    BY <1>1, <1>2
  <2> HIDE DEF z
  <2>2. q * z >= q
    BY <2>1
  <2> QED
    BY <1>1, <2>1, <2>2
<1> QED
  BY <1>1, <1>2 DEF d

LEMMA DivAtMost ==
    ASSUME NEW n \in Nat, NEW q \in Nat \ {0}, NEW k \in Nat, n <= q * k
    PROVE  n \div q <= k
<1> DEFINE d == n \div q
           r == n % q
<1>1. d \in Nat /\ r \in 0 .. q - 1 /\ n = q * d + r
  BY DivMod
<1> HIDE DEF d, r
<1>2. ASSUME d >= k + 1 PROVE FALSE
  <2> DEFINE z == d - k
  <2>1. z \in Nat /\ z >= 1 /\ q * z = q * d - q * k
    BY <1>1, <1>2
  <2> HIDE DEF z
  <2>2. q * z >= q
    BY <2>1
  <2> QED
    BY <1>1, <2>1, <2>2
<1> QED
  BY <1>1, <1>2 DEF d

-----------------------------------------------------------------------------
(* What a configuration is, before and after the backends were asked *)

Config(o) == [mode : Modes, sizes : SUBSET (1 .. o.maxTokens), max : 0 .. o.maxTokens,
              compileSizes : SUBSET (1 .. o.maxTokens)]

ConfigFits(o, c) ==
    /\ c \in Config(o) /\ c.max = Largest(c.sizes)
    /\ SequenceParallel(o) => \A s \in c.sizes : s % o.tp = 0

\* Decode graphs hold whole queries.
Divides(o, c) == DecodeMode(c.mode) = "FULL" => \A s \in c.sizes : s % Query(o) = 0

\* What the model is wrapped in captures every mode of m.
WrapperFits(o, m, w) ==
    /\ HasFull(m) => w \in {"full", "breakable"}
    /\ HasPiecewise(m) => w = "breakable" \/ AttentionSplit(o)

LEMMA HasModes ==
    ASSUME NEW m \in Modes
    PROVE  /\ HasFull(m) <=> m \in {"FULL", "FULL_DECODE_ONLY", "FULL_AND_PIECEWISE"}
           /\ HasPiecewise(m) <=> m \in {"PIECEWISE", "FULL_AND_PIECEWISE"}
           /\ DecodeMode(m) = "FULL" <=> HasFull(m)
           /\ Separate(m) <=> m \in {"FULL_DECODE_ONLY", "FULL_AND_PIECEWISE"}
           /\ MixedMode(m) = "NONE" <=> m \in {"NONE", "FULL_DECODE_ONLY"}
           /\ MixedMode(m) = "PIECEWISE" <=> HasPiecewise(m)
           /\ MixedMode(m) = "FULL" <=> m = "FULL"
           /\ MixedMode(m) \in {"NONE", "PIECEWISE", "FULL"}
BY DEF HasFull, HasPiecewise, HasMode, DecodeMode, MixedMode, Separate, Modes

LEMMA ConfiguredFits ==
    ASSUME NEW o \in Options
    PROVE  /\ ConfigFits(o, Configured(o)) /\ Configured(o).mode = ConfiguredMode(o)
           /\ ~PiecewiseRefused(o) => Pieces(o, Configured(o).mode)
<1> DEFINE s == Sizes(o)
           t == o.maxTokens
           b == IF o.compileSizes THEN s ELSE {}
           m == ConfiguredMode(o)
<1>1. t \in Nat /\ s \in SUBSET (1 .. t) /\ (SequenceParallel(o) => \A x \in s : x % o.tp = 0)
  BY OptionIs, SizesIs
<1>2. m \in Modes /\ (~PiecewiseRefused(o) => Pieces(o, m))
  BY ConfiguredModeIs
<1>3. Largest(s) \in 0 .. t
  <2> HIDE DEF s, t
  <2>1. s \in SUBSET (0 .. t)
    BY <1>1
  <2> QED
    BY <1>1, <2>1, LargestIs
<1>4. b \in SUBSET (1 .. t)
  BY <1>1
<1>5. Configured(o) = [mode |-> m, sizes |-> s, max |-> Largest(s), compileSizes |-> b]
  BY DEF Configured
<1>6. t = o.maxTokens /\ m = ConfiguredMode(o)
  OBVIOUS
<1> DEFINE c == Configured(o)
<1> HIDE DEF s, t, m, b
<1>7. c \in Config(o)
  BY <1>1, <1>2, <1>3, <1>4, <1>5, <1>6 DEF Config
<1>8. c.mode = m /\ c.sizes = s /\ c.max = Largest(s)
  BY <1>5
<1> HIDE DEF c
<1> QED
  BY <1>1, <1>2, <1>6, <1>7, <1>8 DEF ConfigFits, c

-----------------------------------------------------------------------------
(* What the backends make of it *)

LEMMA ResolvedModeIs ==
    ASSUME NEW o \in Options, NEW m \in Modes
    PROVE  LET r == ResolvedMode(o, m)
           IN  /\ r \in Modes /\ (HasFull(r) => HasFull(m))
               /\ HasPiecewise(r) => HasPiecewise(m) \/ AttentionSplit(o)
               /\ ResolvedMode(o, r) = r
<1> DEFINE a == MixedSupported(o, m)
           b == DecodeSupported(o, a)
           r == DraftsSupported(o, b)
           sup == o.support
           split == SplitOps(o) = "attention"
<1>1. sup \in 0 .. 3 /\ Query(o) \in Nat \ {0} /\ (split => Compilation(o) = "VLLM_COMPILE" /\ AttentionSplit(o))
  BY OptionIs, BreakableIs DEF AttentionSplit
<1>2. a = IF m = "FULL" /\ sup # 3 THEN IF split THEN "FULL_AND_PIECEWISE" ELSE "FULL_DECODE_ONLY" ELSE m
  BY HasModes DEF MixedSupported, ALWAYS
<1>3. a \in Modes
  BY <1>2 DEF Modes
<1>4. b = IF HasFull(a) /\ sup = 0 THEN IF split THEN "PIECEWISE" ELSE "NONE" ELSE a
  BY <1>1, <1>3, HasModes DEF DecodeSupported, NEVER
<1>5. b \in Modes
  BY <1>3, <1>4 DEF Modes
<1>6. r = IF HasFull(b) /\ Query(o) > 1 /\ sup < 2 THEN IF split THEN "PIECEWISE" ELSE "NONE" ELSE b
  BY <1>5, HasModes DEF DraftsSupported, UNIFORM_BATCH
<1>7. r \in Modes
  BY <1>5, <1>6 DEF Modes
<1>8. r = ResolvedMode(o, m)
  BY DEF ResolvedMode
<1> HIDE DEF a, b, r
<1>9. HasFull(r) => HasFull(m)
  BY <1>2, <1>3, <1>4, <1>5, <1>6, <1>7, HasModes DEF Modes
<1>10. HasPiecewise(r) => HasPiecewise(m) \/ split
  BY <1>2, <1>3, <1>4, <1>5, <1>6, <1>7, HasModes DEF Modes
<1>11. MixedSupported(o, r) = r
  <2>1. r = "FULL" => sup = 3
    BY <1>2, <1>3, <1>4, <1>5, <1>6, <1>7 DEF Modes
  <2> QED
    BY <1>7, <2>1, HasModes DEF MixedSupported, ALWAYS
<1>12. DecodeSupported(o, r) = r
  <2>1. HasFull(r) => sup # 0
    BY <1>3, <1>4, <1>5, <1>6, <1>7, HasModes DEF Modes
  <2> QED
    BY <1>7, <2>1, HasModes DEF DecodeSupported, NEVER
<1>13. DraftsSupported(o, r) = r
  <2>1. HasFull(r) => ~(Query(o) > 1 /\ sup < 2)
    BY <1>5, <1>6, <1>7, HasModes DEF Modes
  <2> QED
    BY <1>7, <2>1, HasModes DEF DraftsSupported, UNIFORM_BATCH
<1>14. ResolvedMode(o, r) = r
  BY <1>11, <1>12, <1>13 DEF ResolvedMode
<1> QED
  BY <1>1, <1>7, <1>8, <1>9, <1>10, <1>14

LEMMA ConfigIs ==
    ASSUME NEW o \in Options, NEW c, ConfigFits(o, c)
    PROVE  /\ o.maxTokens \in Nat \ {0} /\ c.mode \in Modes /\ c.sizes \in SUBSET (1 .. o.maxTokens)
           /\ c.max \in 0 .. o.maxTokens /\ \A s \in c.sizes : s <= c.max
           /\ c.sizes # {} => c.max \in c.sizes
           /\ c.sizes = {} => c.max = 0
           /\ SequenceParallel(o) => \A s \in c.sizes : s % o.tp = 0
<1> DEFINE t == o.maxTokens
           S == c.sizes
<1>1. t \in Nat \ {0}
  BY OptionIs
<1>2. /\ c.mode \in Modes /\ S \in SUBSET (1 .. t) /\ c.max \in 0 .. t /\ c.max = Largest(S)
      /\ SequenceParallel(o) => \A s \in S : s % o.tp = 0
  BY DEF ConfigFits, Config
<1> HIDE DEF t, S
<1>3. /\ \A s \in S : s <= Largest(S)
      /\ S # {} => Largest(S) \in S
  <2>1. S \in SUBSET (0 .. t)
    BY <1>1, <1>2
  <2> QED
    BY <1>1, <2>1, LargestIs
<1>4. S = {} => Largest(S) = 0
  BY DEF Largest
<1> QED
  BY <1>1, <1>2, <1>3, <1>4 DEF t, S

LEMMA StepIs ==
    ASSUME NEW o \in Options
    PROVE  /\ SizeStep(o) \in Nat \ {0}
           /\ ~StepRefused(o) => /\ SizeStep(o) % Query(o) = 0
                                 /\ SequenceParallel(o) => SizeStep(o) % o.tp = 0
BY OptionIs DEF SizeStep, StepRefused, Larger

LEMMA RoundedIs ==
    ASSUME NEW o \in Options, NEW c, ConfigFits(o, c)
    PROVE  /\ Rounded(o, c) \in SUBSET (1 .. c.max)
           /\ \A s \in Rounded(o, c) : s % SizeStep(o) = 0
           /\ c.sizes # {} /\ (\A s \in c.sizes : s % SizeStep(o) = 0) => Rounded(o, c) = c.sizes
<1> DEFINE k == SizeStep(o)
           S == c.sizes
           x == c.max
           up == {n \in {RoundUp(m, k) : m \in S} : n <= x}
<1>1. k \in Nat \ {0}
  BY StepIs
<1>2. x \in Nat /\ S \in SUBSET (1 .. x)
  BY ConfigIs
<1>3. Rounded(o, c) = IF up = {} /\ k <= x THEN {k} ELSE up
  BY DEF Rounded
<1>4. k % k = 0
  <2> HIDE DEF k
  <2>1. k * 1 = k
    BY <1>1
  <2> QED
    BY <1>1, <2>1, MultipleIs
<1>5. up \in SUBSET (1 .. x) /\ \A s \in up : s % k = 0
  <2> SUFFICES ASSUME NEW m \in S, RoundUp(m, k) <= x
               PROVE  RoundUp(m, k) \in 1 .. x /\ RoundUp(m, k) % k = 0
    OBVIOUS
  <2>1. m \in Nat /\ m >= 1
    BY <1>2
  <2> HIDE DEF k, x
  <2>2. RoundUp(m, k) \in Nat /\ RoundUp(m, k) >= m /\ RoundUp(m, k) % k = 0
    BY <1>1, <2>1, RoundUpIs
  <2> QED
    BY <1>2, <2>1, <2>2
<1>6. ASSUME S # {}, \A s \in S : s % k = 0
      PROVE  up = S
  <2> HIDE DEF k, S, x
  <2>1. \A m \in S : RoundUp(m, k) = m /\ m <= x
    <3> TAKE m \in S
    <3>1. m \in Nat /\ m <= x /\ m % k = 0
      BY <1>2, <1>6
    <3> QED
      BY <1>1, <3>1, RoundUpIs
  <2> QED
    BY <2>1
<1> DEFINE R == Rounded(o, c)
<1>7. R = up \/ (R = {k} /\ k <= x)
  BY <1>3
<1>8. S # {} /\ (\A s \in S : s % k = 0) => R = S
  BY <1>3, <1>6
<1> HIDE DEF up, k, S, x, R
<1>9. {k} \in SUBSET (1 .. x) \/ ~(k <= x)
  BY <1>1, <1>2
<1>10. R \in SUBSET (1 .. x) /\ \A s \in R : s % k = 0
  BY <1>4, <1>5, <1>7, <1>9
<1> QED
  BY <1>8, <1>10 DEF k, S, x, R

LEMMA AdjustedFits ==
    ASSUME NEW o \in Options, NEW c, ConfigFits(o, c), ~AdjustRefused(o, c)
    PROVE  LET a == AdjustedSizes(o, c)
           IN  /\ ConfigFits(o, a) /\ a.mode = c.mode
               /\ \A s \in a.sizes : s % SizeStep(o) = 0
               /\ \A s \in a.sizes : s % Query(o) = 0
               /\ AdjustedSizes(o, a) = a
<1> DEFINE a == AdjustedSizes(o, c)
           R == Rounded(o, c)
           k == SizeStep(o)
<1>1. /\ k \in Nat \ {0} /\ k % Query(o) = 0
      /\ SequenceParallel(o) => k % o.tp = 0
  BY StepIs DEF AdjustRefused
<1>2. CASE c.sizes = {}
  BY <1>2 DEF AdjustedSizes
<1>3. CASE c.sizes # {}
  <2>1. R # {} /\ R \in SUBSET (1 .. c.max) /\ \A s \in R : s % k = 0
    BY <1>3, RoundedIs DEF AdjustRefused
  <2>2. c \in Config(o) /\ c.max \in 0 .. o.maxTokens /\ o.maxTokens \in Nat
    BY ConfigIs DEF ConfigFits
  <2>3. a = [c EXCEPT !.sizes = R, !.max = Largest(R)]
    BY <1>3 DEF AdjustedSizes
  <2>4. R \in SUBSET (1 .. o.maxTokens) /\ Largest(R) \in 0 .. o.maxTokens
    <3> DEFINE t == o.maxTokens
    <3> HIDE DEF R, t
    <3>1. R \in SUBSET (0 .. t) /\ t \in Nat /\ R \in SUBSET (1 .. t)
      BY <2>1, <2>2 DEF t
    <3>2. Largest(R) \in 0 .. t
      BY <3>1, LargestIs
    <3> QED
      BY <3>1, <3>2 DEF t
  <2> HIDE DEF a, R, k
  <2>5. a.sizes = R /\ a.max = Largest(R) /\ a.mode = c.mode /\ a \in Config(o)
    BY <2>2, <2>3, <2>4 DEF Config
  <2>6. \A s \in R : /\ s % Query(o) = 0
                     /\ SequenceParallel(o) => s % o.tp = 0
    <3> TAKE s \in R
    <3> DEFINE q == Query(o)
               p == o.tp
    <3>1. s \in Nat /\ s % k = 0 /\ q \in Nat \ {0} /\ p \in Nat \ {0}
      BY <2>1, <2>2, OptionIs
    <3> HIDE DEF q, p
    <3>2. s % q = 0
      BY <1>1, <3>1, Transitive DEF q
    <3>3. SequenceParallel(o) => s % p = 0
      BY <1>1, <3>1, Transitive DEF p
    <3> QED
      BY <3>2, <3>3 DEF q, p
  <2>7. ConfigFits(o, a)
    BY <2>5, <2>6 DEF ConfigFits
  <2>8. Rounded(o, a) = R
    BY <2>1, <2>5, <2>7, RoundedIs DEF k
  <2>9. AdjustedSizes(o, a) = a
    <3>1. AdjustedSizes(o, a) = [a EXCEPT !.sizes = R, !.max = Largest(R)]
      BY <2>1, <2>5, <2>8 DEF AdjustedSizes
    <3> QED
      BY <2>5, <3>1 DEF Config
  <2> QED
    BY <2>1, <2>5, <2>6, <2>7, <2>9 DEF a, k
<1> QED
  BY <1>2, <1>3

LEMMA ResolvedFits ==
    ASSUME NEW o \in Options, NEW c, ConfigFits(o, c), ~ResolveRefused(o, c)
    PROVE  LET r == Resolved(o, c)
           IN  /\ ConfigFits(o, r) /\ Divides(o, r) /\ Resolved(o, r) = r
               /\ r.mode = ResolvedMode(o, c.mode)
<1> DEFINE r == Resolved(o, c)
           m == ResolvedMode(o, c.mode)
           b == IF ResolveAdjusts(o, c) THEN AdjustedSizes(o, c) ELSE c
<1>1. r = [b EXCEPT !.mode = m]
  BY DEF Resolved
<1>2. c.mode \in Modes
  BY ConfigIs
<1>3. m \in Modes /\ ResolvedMode(o, m) = m
  BY <1>2, ResolvedModeIs
<1>4. ConfigFits(o, b)
  BY AdjustedFits DEF ResolveRefused
<1>5. ResolveAdjusts(o, c) => (\A s \in b.sizes : s % Query(o) = 0) /\ AdjustedSizes(o, b) = b
  BY AdjustedFits DEF ResolveRefused
<1>6. ResolveAdjusts(o, c) <=> DecodeMode(m) = "FULL" /\ Query(o) > 1
  BY DEF ResolveAdjusts
<1>7. \A s \in b.sizes : s \in Nat /\ s % 1 = 0
  <2> HIDE DEF b
  <2> QED
    BY <1>4, ConfigIs
<1> HIDE DEF b, m
<1>8. b \in Config(o)
  BY <1>4 DEF ConfigFits
<1> HIDE DEF r
<1>9. r.mode = m /\ r.sizes = b.sizes /\ r.max = b.max /\ r \in Config(o)
  BY <1>1, <1>3, <1>8 DEF Config
<1>10. ConfigFits(o, r)
  BY <1>4, <1>9 DEF ConfigFits
<1>11. Divides(o, r)
  <2> SUFFICES ASSUME DecodeMode(m) = "FULL", NEW s \in b.sizes PROVE s % Query(o) = 0
    BY <1>9 DEF Divides
  <2>1. Query(o) \in Nat \ {0}
    BY OptionIs
  <2>2. CASE Query(o) = 1
    BY <1>7, <2>2
  <2>3. CASE Query(o) > 1
    BY <1>5, <1>6, <2>3
  <2> QED
    BY <2>1, <2>2, <2>3
<1>12. Resolved(o, r) = r
  <2>1. ResolveAdjusts(o, r) <=> ResolveAdjusts(o, c)
    BY <1>3, <1>6, <1>9 DEF ResolveAdjusts
  <2>2. ResolveAdjusts(o, c) => AdjustedSizes(o, r) = r
    <3> SUFFICES ASSUME ResolveAdjusts(o, c) PROVE AdjustedSizes(o, r) = r
      OBVIOUS
    <3>1. Rounded(o, r) = Rounded(o, b)
      BY <1>9 DEF Rounded
    <3>2. CASE r.sizes = {}
      BY <3>2 DEF AdjustedSizes
    <3>3. CASE r.sizes # {}
      <4> DEFINE R == Rounded(o, b)
      <4> HIDE DEF R
      <4>1. AdjustedSizes(o, b) = [b EXCEPT !.sizes = R, !.max = Largest(R)]
        BY <1>9, <3>3 DEF AdjustedSizes, R
      <4>2. b.sizes = R /\ b.max = Largest(R)
        BY <1>5, <1>8, <4>1 DEF Config
      <4>3. AdjustedSizes(o, r) = [r EXCEPT !.sizes = R, !.max = Largest(R)]
        BY <3>1, <3>3 DEF AdjustedSizes, R
      <4> QED
        BY <1>9, <4>2, <4>3 DEF Config
    <3> QED
      BY <3>2, <3>3
  <2>3. Resolved(o, r) = [r EXCEPT !.mode = m]
    BY <1>3, <1>9, <2>1, <2>2 DEF Resolved
  <2> QED
    BY <1>9, <2>3 DEF Config
<1> QED
  BY <1>9, <1>10, <1>11, <1>12 DEF r, m

-----------------------------------------------------------------------------
(* The dispatcher's keys *)

LEMMA PaddedIs ==
    ASSUME NEW o \in Options, NEW c, ConfigFits(o, c), NEW n \in Nat, n >= 1, n <= c.max
    PROVE  /\ Padded(c, n) \in c.sizes /\ Padded(c, n) >= n
           /\ n \in c.sizes => Padded(c, n) = n
<1> DEFINE A == {s \in c.sizes \cup {c.max + 1} : s >= n}
           b == c.max + 1
<1>1. /\ c.sizes \in SUBSET (1 .. o.maxTokens) /\ c.max \in 0 .. o.maxTokens /\ o.maxTokens \in Nat
      /\ \A s \in c.sizes : s <= c.max
      /\ c.max \in c.sizes
  <2>1. c.max # 0
    OBVIOUS
  <2> QED
    BY <2>1, ConfigIs
<1>2. b \in Nat /\ A \in SUBSET (0 .. b) /\ c.max \in A
  BY <1>1
<1>3. Min(A) \in A /\ \A s \in A : Min(A) <= s
  <2> HIDE DEF A, b
  <2> QED
    BY <1>2, MinIs
<1>4. Padded(c, n) = Min(A)
  BY DEF Padded
<1> DEFINE p == Padded(c, n)
<1>5. p \in c.sizes \cup {b} /\ p >= n /\ p <= c.max /\ (n \in c.sizes => p <= n)
  <2>1. n \in c.sizes => n \in A
    OBVIOUS
  <2>2. p \in A /\ \A s \in A : p <= s
    BY <1>3, <1>4
  <2>3. A \subseteq c.sizes \cup {b} /\ \A s \in A : s >= n
    OBVIOUS
  <2> HIDE DEF A, p, b
  <2> QED
    BY <1>2, <2>1, <2>2, <2>3
<1> HIDE DEF p
<1> QED
  BY <1>1, <1>5 DEF p

LEMMA LoraIs ==
    ASSUME NEW o \in Options
    PROVE  /\ LoraCases(o) \in SUBSET (0 .. o.loras + 1)
           /\ \A k \in LoraCases(o) : EffectiveLoras(o, k) = k
           /\ \A k \in 0 .. o.loras : /\ EffectiveLoras(o, k) \in Nat /\ EffectiveLoras(o, k) >= k
                                      /\ k > 0 <=> EffectiveLoras(o, k) > 0
<1> DEFINE L == o.loras
           C == LoraCases(o)
<1>1. L \in Nat
  BY OptionIs
<1>2. LoraCounts(o) \in SUBSET (1 .. L + 1)
  BY <1>1 DEF LoraCounts
<1>3. C \in SUBSET (0 .. L + 1)
  BY <1>1, <1>2 DEF LoraCases
<1>4. ~o.loraCounts => C \subseteq {0, L + 1}
  BY <1>1 DEF LoraCases, LoraCounts
<1>5. \A k \in 1 .. L + 1 : EffectiveLoras(o, k) = IF o.loraCounts THEN AtLeast(C, k) ELSE L + 1
  BY <1>1 DEF EffectiveLoras
<1>6. EffectiveLoras(o, 0) = 0
  BY DEF EffectiveLoras
<1> DEFINE b == L + 1
<1>7. b \in Nat
  BY <1>1
<1> HIDE DEF C
<1>8. \A k \in 1 .. b : /\ AtLeast(C, k) \in 1 .. b /\ AtLeast(C, k) >= k
                        /\ k \in C => AtLeast(C, k) = k
  <2> TAKE k \in 1 .. b
  <2> DEFINE A == {n \in C : n >= k}
  <2>1. CASE \E n \in C : n >= k
    <3>1. AtLeast(C, k) = Min(A)
      BY <2>1 DEF AtLeast
    <3>2. A \in SUBSET (0 .. b) /\ A # {}
      BY <1>3, <2>1
    <3>3. Min(A) \in A /\ \A s \in A : Min(A) <= s
      <4> HIDE DEF A, b
      <4> QED
        BY <1>7, <3>2, MinIs
    <3> DEFINE p == Min(A)
    <3>4. p \in C /\ p >= k /\ (k \in C => p <= k)
      <4>1. k \in C => k \in A
        BY <1>7
      <4>2. A \subseteq C /\ \A s \in A : s >= k
        OBVIOUS
      <4>3. p \in A /\ \A s \in A : p <= s
        BY <3>3
      <4> HIDE DEF A, p
      <4> QED
        BY <4>1, <4>2, <4>3
    <3>5. AtLeast(C, k) = p
      BY <3>1
    <3> HIDE DEF p
    <3> QED
      BY <1>3, <1>7, <3>4, <3>5
  <2>2. CASE ~\E n \in C : n >= k
    BY <1>7, <2>2 DEF AtLeast
  <2> QED
    BY <2>1, <2>2
<1>9. \A k \in C : EffectiveLoras(o, k) = k
  <2> TAKE k \in C
  <2>1. k = 0 \/ k \in 1 .. b
    BY <1>1, <1>3
  <2> QED
    BY <1>4, <1>5, <1>6, <1>8, <2>1
<1>10. \A k \in 0 .. L : /\ EffectiveLoras(o, k) \in Nat /\ EffectiveLoras(o, k) >= k
                         /\ k > 0 <=> EffectiveLoras(o, k) > 0
  <2> TAKE k \in 0 .. L
  <2>1. CASE k = 0
    BY <1>6, <2>1
  <2>2. CASE k \in 1 .. b
    <3>1. EffectiveLoras(o, k) = AtLeast(C, k) \/ EffectiveLoras(o, k) = b
      BY <1>5, <2>2
    <3> QED
      BY <1>1, <1>8, <2>2, <3>1
  <2> QED
    BY <1>1, <2>1, <2>2
<1> QED
  BY <1>3, <1>9, <1>10 DEF C

\* The three kinds of keys, of s tokens and l adapters.
Piece(s, l) == <<"PIECEWISE", Desc(s, 0, FALSE, l)>>
Mixed(o, s, l) == <<"FULL", Desc(s, Smaller(s, o.maxSeqs), FALSE, l)>>
Decode(o, s, l) == <<"FULL", Desc(s, Smaller(s \div Query(o), o.maxSeqs), TRUE, l)>>

LEMMA RelaxedIs ==
    ASSUME NEW s, NEW r, NEW u, NEW l
    PROVE  Relaxed(Desc(s, r, u, l)) = Desc(s, 0, FALSE, l)
<1> DEFINE D == [tokens : {s}, reqs : {0, r}, uniform : {FALSE, u}, loras : {l}]
           d == Desc(s, r, u, l)
           f == Desc(s, 0, FALSE, l)
           e == Relaxed(d)
<1>1. d \in D /\ f \in D
  BY DEF Desc
<1>2. d.tokens = s /\ d.reqs = r /\ d.uniform = u /\ d.loras = l
  BY DEF Desc
<1>3. f.tokens = s /\ f.reqs = 0 /\ f.uniform = FALSE /\ f.loras = l
  BY DEF Desc
<1> HIDE DEF d, f
<1>4. e \in D /\ e.tokens = s /\ e.reqs = 0 /\ e.uniform = FALSE /\ e.loras = l
  BY <1>1, <1>2 DEF Relaxed
<1>5. \A x, y \in D : x.tokens = y.tokens /\ x.reqs = y.reqs /\ x.uniform = y.uniform /\ x.loras = y.loras => x = y
  OBVIOUS
<1> HIDE DEF e, D
<1>6. e = f
  BY <1>1, <1>3, <1>4, <1>5, Zenon
<1> QED
  BY <1>6 DEF e, d, f

\* What the padded descriptor of a mixed batch, or of decodes, makes a key of.
MixedDesc(o, c, n, l) ==
    LET s == Padded(c, n)
        d == PaddedDesc(o, c, c.mode, n, FALSE, l)
    IN  /\ <<"FULL", d>> = Mixed(o, s, l) /\ <<"PIECEWISE", Relaxed(d)>> = Piece(s, l)
        /\ d.tokens = s /\ d.uniform = FALSE
DecodeDesc(o, c, n, l) ==
    LET s == Padded(c, n)
        d == PaddedDesc(o, c, c.mode, n, TRUE, l)
    IN  /\ <<"FULL", d>> = Decode(o, s, l) /\ <<"PIECEWISE", Relaxed(d)>> = Piece(s, l)
        /\ d.tokens = s /\ d.uniform = TRUE

LEMMA MixedDescIs == \A o, c, n, l : MixedDesc(o, c, n, l)
<1> TAKE o, c, n, l
<1> DEFINE s == Padded(c, n)
           d == PaddedDesc(o, c, c.mode, n, FALSE, l)
           r == Smaller(s, o.maxSeqs)
<1>1. d = Desc(s, r, FALSE, l)
  BY DEF PaddedDesc
<1> HIDE DEF d
<1>2. <<"FULL", d>> = Mixed(o, s, l)
  BY <1>1 DEF Mixed
<1> HIDE DEF r, s
<1>3. d.tokens = s /\ d.uniform = FALSE
  BY <1>1 DEF Desc
<1>4. Relaxed(d) = Desc(s, 0, FALSE, l)
  BY <1>1, RelaxedIs
<1> QED
  BY <1>2, <1>3, <1>4 DEF d, s, Piece, MixedDesc

LEMMA DecodeDescIs ==
    \A o \in Options : \A c, n, l : ConfigFits(o, c) /\ Separate(c.mode) => DecodeDesc(o, c, n, l)
<1> TAKE o \in Options
<1> TAKE c, n, l
<1> HAVE ConfigFits(o, c) /\ Separate(c.mode)
<1> DEFINE s == Padded(c, n)
           d == PaddedDesc(o, c, c.mode, n, TRUE, l)
           r == Smaller(s \div Query(o), o.maxSeqs)
<1>1. HasFull(c.mode)
  <2>1. c.mode \in Modes
    BY ConfigIs
  <2> QED
    BY <2>1, HasModes
<1>2. d = Desc(s, r, TRUE, l)
  <2>1. (TRUE /\ HasFull(c.mode)) = TRUE
    BY <1>1
  <2> QED
    BY <2>1 DEF PaddedDesc
<1> HIDE DEF d
<1>3. <<"FULL", d>> = Decode(o, s, l)
  BY <1>2 DEF Decode
<1> HIDE DEF r, s
<1>4. d.tokens = s /\ d.uniform = TRUE
  BY <1>2 DEF Desc
<1>5. Relaxed(d) = Desc(s, 0, FALSE, l)
  BY <1>2, RelaxedIs
<1> QED
  BY <1>3, <1>4, <1>5 DEF d, s, Piece, DecodeDesc

KeyKind(o, c, k, s, l) ==
    \/ MixedMode(c.mode) = "PIECEWISE" /\ k = Piece(s, l)
    \/ c.mode = "FULL" /\ k = Mixed(o, s, l)
    \/ Separate(c.mode) /\ s \in DecodeSizes(o, c) /\ k = Decode(o, s, l)

LEMMA KeysAre ==
    ASSUME NEW o \in Options, NEW c, ConfigFits(o, c), NEW k
    PROVE  k \in KeysFor(o, c, c.mode) <=> \E s \in c.sizes, l \in LoraCases(o) : KeyKind(o, c, k, s, l)
<1> DEFINE m == c.mode
           S == c.sizes
           L == LoraCases(o)
           d(s, u, l) == PaddedDesc(o, c, m, s, u, l)
<1>1. m \in Modes
  BY ConfigIs
<1>2. \A s \in S : s \in Nat /\ s >= 1 /\ s <= c.max /\ Padded(c, s) = s
  <2> TAKE s \in S
  <2>1. s \in Nat /\ s >= 1 /\ s <= c.max
    BY ConfigIs
  <2> QED
    BY <2>1, PaddedIs
<1>3. \A s \in S, l \in L : /\ <<"FULL", d(s, FALSE, l)>> = Mixed(o, s, l)
                            /\ <<"PIECEWISE", Relaxed(d(s, FALSE, l))>> = Piece(s, l)
  <2> TAKE s \in S, l \in L
  <2> DEFINE e == d(s, FALSE, l)
             p == Padded(c, s)
  <2>1. p = s
    BY <1>2
  <2>2. <<"FULL", e>> = Mixed(o, p, l) /\ <<"PIECEWISE", Relaxed(e)>> = Piece(p, l)
    <3>1. MixedDesc(o, c, s, l)
      BY MixedDescIs
    <3> QED
      BY <3>1 DEF MixedDesc
  <2> HIDE DEF e, p
  <2> QED
    BY <2>1, <2>2 DEF e
<1>4. Separate(m) => \A s \in S, l \in L : <<"FULL", d(s, TRUE, l)>> = Decode(o, s, l)
  <2> SUFFICES ASSUME Separate(m), NEW s \in S, NEW l \in L PROVE <<"FULL", d(s, TRUE, l)>> = Decode(o, s, l)
    OBVIOUS
  <2> DEFINE e == d(s, TRUE, l)
             p == Padded(c, s)
  <2>1. p = s
    BY <1>2
  <2>2. <<"FULL", e>> = Decode(o, p, l)
    <3>1. DecodeDesc(o, c, s, l)
      BY DecodeDescIs
    <3> QED
      BY <3>1 DEF DecodeDesc
  <2> HIDE DEF e, p
  <2> QED
    BY <2>1, <2>2 DEF e
<1>5. k \in MixedKeys(o, c, m) <=>
        \E s \in S, l \in L : \/ MixedMode(m) = "PIECEWISE" /\ k = Piece(s, l)
                              \/ m = "FULL" /\ k = Mixed(o, s, l)
  <2>1. CASE MixedMode(m) = "NONE"
    <3>1. m # "FULL"
      BY <1>1, <2>1, HasModes
    <3> QED
      BY <2>1, <3>1 DEF MixedKeys
  <2>2. CASE MixedMode(m) = "PIECEWISE"
    <3>1. m # "FULL"
      BY <1>1, <2>2, HasModes
    <3>2. MixedKeysExact(o, c, m) = {<<"PIECEWISE", d(s, FALSE, l)>> : s \in S, l \in L}
      BY <2>2 DEF MixedKeysExact
    <3>3. MixedKeys(o, c, m) = {<<"PIECEWISE", Relaxed(key[2])>> : key \in MixedKeysExact(o, c, m)}
      BY <2>2 DEF MixedKeys
    <3> HIDE DEF d
    <3>4. k \in MixedKeys(o, c, m) <=> \E key \in MixedKeysExact(o, c, m) : k = <<"PIECEWISE", Relaxed(key[2])>>
      BY <3>3
    <3>5. \A key : key \in MixedKeysExact(o, c, m) <=> \E s \in S, l \in L : key = <<"PIECEWISE", d(s, FALSE, l)>>
      BY <3>2
    <3>6. ASSUME k \in MixedKeys(o, c, m) PROVE \E s \in S, l \in L : k = Piece(s, l)
      <4>1. PICK key \in MixedKeysExact(o, c, m) : k = <<"PIECEWISE", Relaxed(key[2])>>
        BY <3>4, <3>6
      <4>2. PICK s \in S, l \in L : key = <<"PIECEWISE", d(s, FALSE, l)>>
        BY <3>5
      <4>3. k = <<"PIECEWISE", Relaxed(d(s, FALSE, l))>>
        BY <4>1, <4>2
      <4> QED
        BY <1>3, <4>3
    <3>7. ASSUME NEW s \in S, NEW l \in L, k = Piece(s, l) PROVE k \in MixedKeys(o, c, m)
      <4> DEFINE key == <<"PIECEWISE", d(s, FALSE, l)>>
      <4>1. key \in MixedKeysExact(o, c, m)
        BY <3>5
      <4>2. k = <<"PIECEWISE", Relaxed(key[2])>>
        BY <1>3, <3>7
      <4> QED
        BY <3>4, <4>1, <4>2
    <3> QED
      BY <2>2, <3>1, <3>6, <3>7
  <2>3. CASE MixedMode(m) = "FULL"
    <3>1. m = "FULL"
      BY <1>1, <2>3, HasModes
    <3>2. MixedKeys(o, c, m) = {<<"FULL", d(s, FALSE, l)>> : s \in S, l \in L}
      BY <2>3 DEF MixedKeysExact, MixedKeys
    <3>3. k \in MixedKeys(o, c, m) <=> \E s \in S, l \in L : k = <<"FULL", d(s, FALSE, l)>>
      BY <3>2
    <3> HIDE DEF d
    <3>4. k \in MixedKeys(o, c, m) <=> \E s \in S, l \in L : k = Mixed(o, s, l)
      BY <1>3, <3>3
    <3>5. MixedMode(m) # "PIECEWISE"
      BY <2>3
    <3> QED
      BY <3>1, <3>4, <3>5
  <2> QED
    BY <1>1, <2>1, <2>2, <2>3, HasModes
<1>6. k \in DecodeKeys(o, c, m) <=>
        \E s \in S, l \in L : Separate(m) /\ s \in DecodeSizes(o, c) /\ k = Decode(o, s, l)
  <2>1. Separate(m) => DecodeMode(m) = "FULL"
    BY DEF DecodeMode
  <2>2. CASE ~Separate(m)
    <3> DEFINE y == DecodeMode(m) = "FULL" /\ Separate(m)
    <3>2. DecodeKeys(o, c, m) = IF ~y THEN {} ELSE {<<"FULL", d(s, TRUE, l)>> : s \in DecodeSizes(o, c), l \in L}
      BY DEF DecodeKeys
    <3>3. ~y
      BY <2>2
    <3> HIDE DEF y
    <3>1. DecodeKeys(o, c, m) = {}
      BY <3>2, <3>3
    <3> QED
      BY <2>2, <3>1
  <2>3. CASE Separate(m)
    <3>1. DecodeKeys(o, c, m) = {<<"FULL", d(s, TRUE, l)>> : s \in DecodeSizes(o, c), l \in L}
      BY <2>1, <2>3 DEF DecodeKeys
    <3>2. DecodeSizes(o, c) \subseteq S
      BY DEF DecodeSizes
    <3>3. k \in DecodeKeys(o, c, m) <=> \E s \in DecodeSizes(o, c), l \in L : k = <<"FULL", d(s, TRUE, l)>>
      BY <3>1
    <3> HIDE DEF d
    <3>4. k \in DecodeKeys(o, c, m) <=> \E s \in DecodeSizes(o, c), l \in L : k = Decode(o, s, l)
      BY <1>4, <2>3, <3>2, <3>3
    <3> QED
      BY <2>3, <3>2, <3>4
  <2> QED
    BY <2>2, <2>3
<1> QED
  BY <1>5, <1>6 DEF KeysFor, KeyKind

-----------------------------------------------------------------------------
(* What the dispatcher answers *)

\* The dispatcher is that of the resolved configuration.
Dispatcher ==
    /\ ready /\ mode = config.mode /\ keys = KeysFor(option, config, mode)
    /\ ConfigFits(option, config) /\ Divides(option, config)

\* The keys that would serve s tokens and l adapters.
FullKey(u, s, l) == IF u /\ Separate(mode) THEN Decode(option, s, l) ELSE Mixed(option, s, l)

LEMMA DispatchIs ==
    ASSUME option \in Options, Dispatcher, NEW n \in Nat, n >= 1, NEW u \in BOOLEAN, NEW l, NEW A
    PROVE  LET s == Padded(config, n)
               e == EffectiveLoras(option, l)
               eager == <<"NONE", Unpadded(n)>>
           IN  Dispatch(n, u, l, A) =
                 IF mode = "NONE" \/ n > config.max \/ A \subseteq {"NONE"} THEN eager
                 ELSE IF "FULL" \in A /\ FullKey(u, s, e) \in keys THEN FullKey(u, s, e)
                 ELSE IF "PIECEWISE" \in A /\ Piece(s, e) \in keys THEN Piece(s, e)
                 ELSE IF "NONE" \in A THEN eager ELSE Asserted
<1> DEFINE s == Padded(config, n)
           e == EffectiveLoras(option, l)
           eager == <<"NONE", Unpadded(n)>>
           x == u /\ Separate(mode)
           desc == PaddedDesc(option, config, mode, n, x, e)
           off == ~ready \/ mode = "NONE" \/ n > config.max \/ A \subseteq {"NONE"}
           none == mode = "NONE" \/ n > config.max \/ A \subseteq {"NONE"}
           found == IF desc.uniform /\ desc.tokens % Query(option) # 0 THEN Asserted
                    ELSE IF "FULL" \in A /\ <<"FULL", desc>> \in keys THEN <<"FULL", desc>>
                    ELSE IF "PIECEWISE" \in A /\ <<"PIECEWISE", Relaxed(desc)>> \in keys THEN <<"PIECEWISE", Relaxed(desc)>>
                    ELSE IF "NONE" \in A THEN eager ELSE Asserted
<1>1. Dispatch(n, u, l, A) = CASE off -> eager [] OTHER -> found
  BY DEF Dispatch
<1>2. off <=> none
  BY DEF Dispatcher
<1>3. Dispatch(n, u, l, A) = IF none THEN eager ELSE found
  <2> HIDE DEF off, none, found, eager
  <2> QED
    BY <1>1, <1>2
<1>4. ASSUME ~none
      PROVE  /\ s \in config.sizes
             /\ Separate(mode) => s % Query(option) = 0
  <2>1. n <= config.max
    <3>1. config.max \in Nat
      BY ConfigIs DEF Dispatcher
    <3> QED
      BY <1>4, <3>1
  <2>2. s \in config.sizes
    BY <2>1, PaddedIs DEF Dispatcher
  <2>3. Separate(mode) => DecodeMode(config.mode) = "FULL"
    BY DEF DecodeMode, Dispatcher
  <2> QED
    BY <2>2, <2>3 DEF Divides, Dispatcher
<1>5. /\ <<"FULL", desc>> = FullKey(u, s, e) /\ <<"PIECEWISE", Relaxed(desc)>> = Piece(s, e)
      /\ desc.tokens = s /\ (desc.uniform => Separate(mode))
  <2> HIDE DEF s, e
  <2>1. CASE x
    <3> DEFINE d == PaddedDesc(option, config, config.mode, n, TRUE, e)
    <3>1. desc = d
      <4>1. x = TRUE
        BY <2>1
      <4> QED
        BY <4>1 DEF Dispatcher
    <3>2. <<"FULL", d>> = Decode(option, s, e) /\ <<"PIECEWISE", Relaxed(d)>> = Piece(s, e) /\ d.tokens = s
      <4>1. DecodeDesc(option, config, n, e)
        <5>1. ConfigFits(option, config) /\ Separate(config.mode)
          BY <2>1 DEF Dispatcher
        <5> QED
          BY <5>1, DecodeDescIs
      <4> QED
        BY <4>1 DEF DecodeDesc, s
    <3> HIDE DEF desc, d
    <3> QED
      BY <2>1, <3>1, <3>2 DEF FullKey
  <2>2. CASE ~x
    <3> DEFINE d == PaddedDesc(option, config, config.mode, n, FALSE, e)
    <3>1. desc = d
      <4>1. x = FALSE
        BY <2>2
      <4> QED
        BY <4>1 DEF Dispatcher
    <3>2. <<"FULL", d>> = Mixed(option, s, e) /\ <<"PIECEWISE", Relaxed(d)>> = Piece(s, e) /\ d.tokens = s /\ d.uniform = FALSE
      <4>1. MixedDesc(option, config, n, e)
        BY MixedDescIs
      <4> QED
        BY <4>1 DEF MixedDesc, s
    <3> HIDE DEF desc, d
    <3> QED
      BY <2>2, <3>1, <3>2 DEF FullKey
  <2> QED
    BY <2>1, <2>2
<1>6. ~none => ~(desc.uniform /\ desc.tokens % Query(option) # 0)
  <2> HIDE DEF desc, none, s
  <2> QED
    BY <1>4, <1>5
<1> HIDE DEF none, desc, eager, s, e
<1>7. Dispatch(n, u, l, A) =
        IF none THEN eager
        ELSE IF "FULL" \in A /\ FullKey(u, s, e) \in keys THEN FullKey(u, s, e)
        ELSE IF "PIECEWISE" \in A /\ Piece(s, e) \in keys THEN Piece(s, e)
        ELSE IF "NONE" \in A THEN eager ELSE Asserted
  BY <1>3, <1>5, <1>6
<1> QED
  BY <1>7 DEF none, eager, s, e

\* Which keys there are.
LEMMA KeyIs ==
    ASSUME option \in Options, Dispatcher, NEW k \in keys
    PROVE  \E s \in config.sizes, l \in LoraCases(option) : KeyKind(option, config, k, s, l)
BY KeysAre DEF Dispatcher

\* What the fields of a key are; keys of different kinds differ in them.
LEMMA PieceHas ==
    \A s, l :
      /\ Piece(s, l)[1] = "PIECEWISE" /\ Piece(s, l)[2].tokens = s /\ Piece(s, l)[2].reqs = 0
      /\ Piece(s, l)[2].uniform = FALSE /\ Piece(s, l)[2].loras = l
BY DEF Piece, Desc

LEMMA MixedHas ==
    \A o, s, l :
      /\ Mixed(o, s, l)[1] = "FULL" /\ Mixed(o, s, l)[2].tokens = s
      /\ Mixed(o, s, l)[2].reqs = Smaller(s, o.maxSeqs)
      /\ Mixed(o, s, l)[2].uniform = FALSE /\ Mixed(o, s, l)[2].loras = l
<1> TAKE o, s, l
<1> DEFINE r == Smaller(s, o.maxSeqs)
           k == <<"FULL", Desc(s, r, FALSE, l)>>
<1>1. Mixed(o, s, l) = k
  BY DEF Mixed
<1> HIDE DEF r
<1>2. /\ k[1] = "FULL" /\ k[2].tokens = s /\ k[2].reqs = r
      /\ k[2].uniform = FALSE /\ k[2].loras = l
  BY DEF Desc
<1> HIDE DEF k
<1> QED
  BY <1>1, <1>2 DEF r

LEMMA DecodeHas ==
    \A o, s, l :
      /\ Decode(o, s, l)[1] = "FULL" /\ Decode(o, s, l)[2].tokens = s
      /\ Decode(o, s, l)[2].reqs = Smaller(s \div Query(o), o.maxSeqs)
      /\ Decode(o, s, l)[2].uniform = TRUE /\ Decode(o, s, l)[2].loras = l
<1> TAKE o, s, l
<1> DEFINE r == Smaller(s \div Query(o), o.maxSeqs)
           k == <<"FULL", Desc(s, r, TRUE, l)>>
<1>1. Decode(o, s, l) = k
  BY DEF Decode
<1> HIDE DEF r
<1>2. /\ k[1] = "FULL" /\ k[2].tokens = s /\ k[2].reqs = r
      /\ k[2].uniform = TRUE /\ k[2].loras = l
  BY DEF Desc
<1> HIDE DEF k
<1> QED
  BY <1>1, <1>2 DEF r

LEMMA KindsDiffer ==
    \A o, s, l, t, k :
      /\ Piece(s, l) # Mixed(o, t, k) /\ Piece(s, l) # Decode(o, t, k)
      /\ Mixed(o, s, l) # Decode(o, t, k)
      /\ Decode(o, s, l) = Decode(o, t, k) => s = t
<1> TAKE o, s, l, t, k
<1>1. Piece(s, l)[1] = "PIECEWISE"
  BY PieceHas
<1>2. Mixed(o, s, l)[2].uniform = FALSE
  BY MixedHas
<1>3. Mixed(o, t, k)[1] = "FULL"
  BY MixedHas
<1>4. Decode(o, t, k)[1] = "FULL" /\ Decode(o, t, k)[2].uniform = TRUE /\ Decode(o, t, k)[2].tokens = t
  BY DecodeHas
<1>5. Decode(o, s, l)[2].tokens = s
  BY DecodeHas
<1>6. Mixed(o, s, l) # Decode(o, t, k)
  BY <1>2, <1>4
<1> QED
  BY <1>1, <1>3, <1>4, <1>5, <1>6

LEMMA KeysType ==
    ASSUME option \in Options, Dispatcher
    PROVE  /\ keys \subseteq Keys
           /\ \A k \in keys : k[2].tokens \in config.sizes /\ k[2].loras \in LoraCases(option)
<1> SUFFICES ASSUME NEW k \in keys
             PROVE  k \in Keys /\ k[2].tokens \in config.sizes /\ k[2].loras \in LoraCases(option)
  OBVIOUS
<1>1. PICK s \in config.sizes, l \in LoraCases(option) : KeyKind(option, config, k, s, l)
  BY KeyIs
<1>2. s \in Nat /\ l \in Nat
  <2>1. s \in 1 .. option.maxTokens
    BY ConfigIs DEF Dispatcher
  <2>2. l \in 0 .. option.loras + 1
    BY LoraIs
  <2>3. option.maxTokens \in Nat /\ option.loras \in Nat
    BY OptionIs
  <2> QED
    BY <2>1, <2>2, <2>3
<1>3. k = Piece(s, l) \/ k = Mixed(option, s, l) \/ k = Decode(option, s, l)
  BY <1>1 DEF KeyKind
<1>4. k[2].tokens = s /\ k[2].loras = l
  <2>1. Piece(s, l)[2].tokens = s /\ Piece(s, l)[2].loras = l
    BY PieceHas
  <2>2. Mixed(option, s, l)[2].tokens = s /\ Mixed(option, s, l)[2].loras = l
    BY MixedHas
  <2>3. Decode(option, s, l)[2].tokens = s /\ Decode(option, s, l)[2].loras = l
    BY DecodeHas
  <2> QED
    BY <1>3, <2>1, <2>2, <2>3
<1>5. k \in Keys
  <2>1. \A r \in Nat, u \in BOOLEAN : Desc(s, r, u, l) \in [tokens : Nat, reqs : Nat, uniform : BOOLEAN, loras : Nat]
    BY <1>2 DEF Desc
  <2> DEFINE r1 == Smaller(s, option.maxSeqs)
             r2 == Smaller(s \div Query(option), option.maxSeqs)
  <2>2. r1 \in Nat /\ r2 \in Nat
    <3>1. option.maxSeqs \in Nat /\ Query(option) \in Nat \ {0}
      BY OptionIs
    <3>2. s \div Query(option) \in Nat
      BY <1>2, <3>1, DivMod
    <3> QED
      BY <1>2, <3>1, <3>2 DEF Smaller
  <2>3. Desc(s, 0, FALSE, l) \in [tokens : Nat, reqs : Nat, uniform : BOOLEAN, loras : Nat]
    BY <2>1
  <2>4. Mixed(option, s, l) = <<"FULL", Desc(s, r1, FALSE, l)>> /\ Decode(option, s, l) = <<"FULL", Desc(s, r2, TRUE, l)>>
    BY DEF Mixed, Decode
  <2> HIDE DEF r1, r2
  <2>5. Piece(s, l) \in Keys
    BY <2>3 DEF Piece, Keys, GraphModes
  <2> DEFINE D == [tokens : Nat, reqs : Nat, uniform : BOOLEAN, loras : Nat]
  <2>5a. \A d \in D : <<"FULL", d>> \in Keys
    BY DEF Keys, GraphModes
  <2>6. Mixed(option, s, l) \in Keys
    <3>1. Desc(s, r1, FALSE, l) \in D
      BY <2>1, <2>2
    <3> HIDE DEF D
    <3> QED
      BY <2>4, <2>5a, <3>1
  <2>7. Decode(option, s, l) \in Keys
    <3>1. Desc(s, r2, TRUE, l) \in D
      BY <2>1, <2>2
    <3> HIDE DEF D
    <3> QED
      BY <2>4, <2>5a, <3>1
  <2> QED
    BY <1>3, <2>5, <2>6, <2>7
<1> QED
  BY <1>4, <1>5

\* A key of one of the kinds is there when its mode and its size are.
LEMMA HasKey ==
    ASSUME option \in Options, Dispatcher, NEW s \in config.sizes, NEW l \in LoraCases(option)
    PROVE  /\ MixedMode(mode) = "PIECEWISE" => Piece(s, l) \in keys
           /\ mode = "FULL" => Mixed(option, s, l) \in keys
           /\ Separate(mode) /\ s \in DecodeSizes(option, config) => Decode(option, s, l) \in keys
BY KeysAre DEF Dispatcher, KeyKind

\* And the mode and the size are there when the key is.
LEMMA KeyHas ==
    ASSUME option \in Options, Dispatcher, NEW s, NEW l
    PROVE  /\ Piece(s, l) \in keys => MixedMode(mode) = "PIECEWISE"
           /\ Mixed(option, s, l) \in keys => mode = "FULL"
           /\ Decode(option, s, l) \in keys => Separate(mode) /\ s \in DecodeSizes(option, config)
<1>1. mode = config.mode
  BY DEF Dispatcher
<1>2. ASSUME Piece(s, l) \in keys PROVE MixedMode(mode) = "PIECEWISE"
  <2>1. PICK t \in config.sizes, j \in LoraCases(option) : KeyKind(option, config, Piece(s, l), t, j)
    BY <1>2, KeyIs
  <2>2. Piece(s, l) # Mixed(option, t, j) /\ Piece(s, l) # Decode(option, t, j)
    BY KindsDiffer
  <2> QED
    BY <1>1, <2>1, <2>2 DEF KeyKind
<1>3. ASSUME Mixed(option, s, l) \in keys PROVE mode = "FULL"
  <2>1. PICK t \in config.sizes, j \in LoraCases(option) : KeyKind(option, config, Mixed(option, s, l), t, j)
    BY <1>3, KeyIs
  <2>2. Mixed(option, s, l) # Piece(t, j) /\ Mixed(option, s, l) # Decode(option, t, j)
    BY KindsDiffer
  <2> QED
    BY <1>1, <2>1, <2>2 DEF KeyKind
<1>4. ASSUME Decode(option, s, l) \in keys PROVE Separate(mode) /\ s \in DecodeSizes(option, config)
  <2>1. PICK t \in config.sizes, j \in LoraCases(option) : KeyKind(option, config, Decode(option, s, l), t, j)
    BY <1>4, KeyIs
  <2>2. Decode(option, s, l) # Piece(t, j) /\ Decode(option, s, l) # Mixed(option, t, j)
    BY KindsDiffer
  <2>3. Decode(option, s, l) = Decode(option, t, j) => s = t
    BY KindsDiffer
  <2> QED
    BY <1>1, <2>1, <2>2, <2>3 DEF KeyKind
<1> QED
  BY <1>2, <1>3, <1>4

-----------------------------------------------------------------------------
(* A dummy run gets the graph it is to capture *)

LEMMA ConfigNow ==
    ASSUME option \in Options, Dispatcher
    PROVE  /\ config.mode \in Modes /\ mode \in Modes /\ mode = config.mode
           /\ config.max \in Nat /\ config.sizes \in SUBSET (1 .. option.maxTokens)
           /\ \A s \in config.sizes : s \in Nat /\ s >= 1 /\ s <= config.max /\ s <= option.maxTokens
<1>1. mode = config.mode /\ ConfigFits(option, config)
  BY DEF Dispatcher
<1>2. option.maxTokens \in Nat
  BY OptionIs
<1>3. /\ config.mode \in Modes /\ config.sizes \in SUBSET (1 .. option.maxTokens)
      /\ config.max \in 0 .. option.maxTokens /\ \A s \in config.sizes : s <= config.max
  BY <1>1, ConfigIs
<1> QED
  BY <1>1, <1>2, <1>3

LEMMA PadIs ==
    ASSUME NEW o \in Options, NEW n \in Nat
    PROVE  /\ PadForSequenceParallelism(o, n) \in Nat /\ PadForSequenceParallelism(o, n) >= n
           /\ (SequenceParallel(o) => n % o.tp = 0) => PadForSequenceParallelism(o, n) = n
<1>1. o.tp \in Nat \ {0}
  BY OptionIs
<1>2. /\ RoundUp(n, o.tp) \in Nat /\ RoundUp(n, o.tp) >= n
      /\ n % o.tp = 0 => RoundUp(n, o.tp) = n
  BY <1>1, RoundUpIs
<1> QED
  BY <1>2 DEF PadForSequenceParallelism

\* Keys hold whole queries and no more requests than there may be.
LEMMA DecodeTokens ==
    ASSUME NEW o \in Options, NEW c, ConfigFits(o, c), Divides(o, c), DecodeMode(c.mode) = "FULL",
           NEW s \in DecodeSizes(o, c)
    PROVE  LET n == Smaller(o.maxSeqs, (s + Query(o) - 1) \div Query(o))
           IN  s % Query(o) = 0 /\ Query(o) * n = s
<1> DEFINE q == Query(o)
           x == o.maxSeqs
           k == s \div q
<1>1. q \in Nat \ {0} /\ x \in Nat
  BY OptionIs
<1>2. s \in c.sizes /\ s <= q * x
  BY DEF DecodeSizes
<1>3. s \in Nat
  <2>1. s \in 1 .. o.maxTokens /\ o.maxTokens \in Nat
    BY <1>2, ConfigIs
  <2> QED
    BY <2>1
<1>4. s % q = 0
  BY <1>2 DEF Divides
<1> HIDE DEF q, x
<1>5. k \in Nat /\ s = q * k
  BY <1>1, <1>3, <1>4, MultipleOf
<1>6. k <= x
  BY <1>1, <1>2, <1>3, DivAtMost
<1> HIDE DEF k
<1>7. (s + q - 1) \div q = k
  <2> DEFINE m == s + q - 1
             d == m \div q
  <2>1. m \in Nat /\ m >= q * k
    BY <1>1, <1>3, <1>5
  <2>2. d \in Nat /\ d >= k
    <3>1. d >= k
      BY <1>1, <1>5, <2>1, DivAtLeast
    <3> HIDE DEF m
    <3> QED
      BY <1>1, <2>1, <3>1, DivMod
  <2>3. ~(d >= k + 1)
    <3> SUFFICES ASSUME d >= k + 1 PROVE FALSE
      OBVIOUS
    <3> DEFINE r == m % q
               y == q * d
               z == q * k
    <3>0. m = s + q - 1
      OBVIOUS
    <3> HIDE DEF m
    <3>1. m = y + r /\ r \in 0 .. q - 1
      BY <1>1, <2>1, DivMod
    <3> HIDE DEF r
    <3>2. y >= z + q /\ y \in Nat /\ z \in Nat
      <4> HIDE DEF d
      <4> DEFINE e == d - k - 1
                 f == q * e
      <4>1. e \in Nat /\ d = k + 1 + e
        BY <1>5, <2>2
      <4> HIDE DEF e
      <4>2. y = z + q + f /\ f \in Nat /\ z \in Nat
        BY <1>1, <1>5, <4>1
      <4> HIDE DEF f, y, z
      <4> QED
        BY <1>1, <4>2
    <3>3. s = z
      BY <1>5
    <3> HIDE DEF y, z
    <3> QED
      BY <1>1, <1>3, <3>0, <3>1, <3>2, <3>3
  <2> HIDE DEF d
  <2>4. d = k
    BY <1>5, <2>2, <2>3
  <2> QED
    BY <2>4 DEF d
<1>8. Smaller(x, k) = k
  BY <1>1, <1>5, <1>6 DEF Smaller
<1>9. s % q = 0 /\ q * Smaller(x, (s + q - 1) \div q) = s
  BY <1>4, <1>5, <1>7, <1>8
<1> QED
  BY <1>9 DEF q, x

LEMMA DummyGets ==
    ASSUME option \in Options, Dispatcher, NEW k \in keys
    PROVE  /\ DummyKey(k[2]) = k /\ k[1] \in GraphModes
           /\ k[2].tokens \in Nat /\ k[2].tokens <= option.maxTokens
           /\ DummyTokens(option, k[2]) = k[2].tokens
           /\ k[1] = "FULL" => HasFull(mode)
           /\ k[1] = "PIECEWISE" => HasPiecewise(mode)
<1>1. PICK s \in config.sizes, l \in LoraCases(option) : KeyKind(option, config, k, s, l)
  BY KeyIs
<1>2. /\ mode \in Modes /\ mode = config.mode /\ config.max \in Nat
      /\ s \in Nat /\ s >= 1 /\ s <= config.max /\ s <= option.maxTokens
  BY ConfigNow
<1>3. PadForSequenceParallelism(option, s) = s
  <2>1. SequenceParallel(option) => s % option.tp = 0
    BY ConfigIs DEF Dispatcher
  <2> QED
    BY <1>2, <2>1, PadIs
<1>4. Padded(config, s) = s
  BY <1>2, PaddedIs DEF Dispatcher
<1>5. EffectiveLoras(option, l) = l
  BY LoraIs
<1>6. \A u \in BOOLEAN :
        mode # "NONE" =>
        Dispatch(s, u, l, AnyMode) =
          IF FullKey(u, s, l) \in keys THEN FullKey(u, s, l)
          ELSE IF Piece(s, l) \in keys THEN Piece(s, l)
          ELSE <<"NONE", Unpadded(s)>>
  <2> TAKE u \in BOOLEAN
  <2>1. "NONE" \in AnyMode /\ "FULL" \in AnyMode /\ "PIECEWISE" \in AnyMode /\ ~(AnyMode \subseteq {"NONE"})
    BY DEF AnyMode, GraphModes
  <2>2. ~(s > config.max)
    BY <1>2
  <2> QED
    BY <1>2, <1>4, <1>5, <2>1, <2>2, DispatchIs
<1>7. CASE MixedMode(config.mode) = "PIECEWISE" /\ k = Piece(s, l)
  <2>1. k[1] = "PIECEWISE" /\ k[2].tokens = s /\ k[2].uniform = FALSE /\ k[2].loras = l
    BY <1>7, PieceHas
  <2>2. mode # "NONE" /\ mode # "FULL" /\ HasPiecewise(mode)
    BY <1>2, <1>7, HasModes
  <2>3. FullKey(FALSE, s, l) \notin keys
    BY <2>2, KeyHas DEF FullKey
  <2>4. DummyKey(k[2]) = k
    BY <1>3, <1>6, <1>7, <2>1, <2>2, <2>3 DEF DummyKey
  <2>5. DummyTokens(option, k[2]) = s
    BY <2>1 DEF DummyTokens
  <2> QED
    BY <1>2, <2>1, <2>2, <2>4, <2>5 DEF GraphModes
<1>8. CASE config.mode = "FULL" /\ k = Mixed(option, s, l)
  <2>1. k[1] = "FULL" /\ k[2].tokens = s /\ k[2].uniform = FALSE /\ k[2].loras = l
    BY <1>8, MixedHas
  <2>2. mode # "NONE" /\ HasFull(mode)
    BY <1>2, <1>8, HasModes
  <2>3. FullKey(FALSE, s, l) = k
    BY <1>8 DEF FullKey
  <2>4. DummyKey(k[2]) = k
    BY <1>3, <1>6, <2>1, <2>2, <2>3 DEF DummyKey
  <2>5. DummyTokens(option, k[2]) = s
    BY <2>1 DEF DummyTokens
  <2> QED
    BY <1>2, <2>1, <2>2, <2>4, <2>5 DEF GraphModes
<1>9. CASE Separate(config.mode) /\ s \in DecodeSizes(option, config) /\ k = Decode(option, s, l)
  <2>1. k[1] = "FULL" /\ k[2].tokens = s /\ k[2].uniform = TRUE /\ k[2].loras = l
    BY <1>9, DecodeHas
  <2>2. mode # "NONE" /\ HasFull(mode) /\ DecodeMode(config.mode) = "FULL"
    BY <1>2, <1>9, HasModes
  <2>3. FullKey(TRUE, s, l) = k
    BY <1>2, <1>9 DEF FullKey
  <2>4. DummyKey(k[2]) = k
    BY <1>3, <1>6, <2>1, <2>2, <2>3 DEF DummyKey
  <2>5. DummyTokens(option, k[2]) = s
    <3> DEFINE n == Smaller(option.maxSeqs, (s + Query(option) - 1) \div Query(option))
    <3>1. s % Query(option) = 0 /\ Query(option) * n = s
      BY <1>9, <2>2, DecodeTokens DEF Dispatcher
    <3>2. DummyReqs(option, k[2]) = n
      BY <2>1 DEF DummyReqs
    <3> HIDE DEF n
    <3> QED
      BY <2>1, <3>1, <3>2 DEF DummyTokens
  <2> QED
    BY <1>2, <2>1, <2>2, <2>4, <2>5 DEF GraphModes
<1> QED
  BY <1>1, <1>7, <1>8, <1>9 DEF KeyKind

\* So what wraps the model captures it.
LEMMA DummyRuns ==
    ASSUME option \in Options, Dispatcher, WrapperFits(option, mode, wrapper), NEW k \in keys, DummyRun(k)
    PROVE  at' = at /\ graphs' = graphs \cup {[key |-> k, cache |-> cache, segments |-> Segments(k[1])]}
<1>1. /\ DummyKey(k[2]) = k /\ k[1] \in GraphModes
      /\ k[2].tokens \in Nat /\ k[2].tokens <= option.maxTokens
      /\ DummyTokens(option, k[2]) = k[2].tokens
      /\ k[1] = "FULL" => HasFull(mode)
      /\ k[1] = "PIECEWISE" => HasPiecewise(mode)
  BY DummyGets
<1>2. option.maxTokens \in Nat
  BY OptionIs
<1>3. ~(k[1] # k[1] \/ k[2].tokens > option.maxTokens \/ DummyTokens(option, k[2]) # k[2].tokens)
  BY <1>1, <1>2
<1>4. Wrapped(k[1])
  BY <1>1 DEF Wrapped, WrapperFits, GraphModes, AttentionSplit
<1> QED
  BY <1>1, <1>3, <1>4 DEF DummyRun

-----------------------------------------------------------------------------
(* The order of captures *)

\* Some key is before no other: of the piecewise ones, if there are any, one
\* with the most tokens and of these the most adapters.
LEMMA FirstIs ==
    ASSUME option \in Options, Dispatcher, NEW K \in SUBSET keys, K # {}
    PROVE  First(K) \in K
<1> DEFINE P == {k \in K : k[1] = "PIECEWISE"}
           A == IF P = {} THEN K ELSE P
           T == {k[2].tokens : k \in A}
           t == Max(T)
           B == {k \in A : k[2].tokens = t}
           L == {k[2].loras : k \in B}
           l == Max(L)
           n == option.maxTokens
           a == option.loras + 1
<1>1. n \in Nat /\ a \in Nat
  BY OptionIs
<1>2. \A k \in K : k[2].tokens \in 0 .. n /\ k[2].loras \in 0 .. a
  <2> TAKE k \in K
  <2>1. k[2].tokens \in config.sizes /\ k[2].loras \in LoraCases(option)
    BY KeysType
  <2>2. k[2].tokens \in 1 .. n
    BY <2>1, ConfigIs DEF Dispatcher
  <2>3. k[2].loras \in 0 .. a
    BY <2>1, LoraIs
  <2> QED
    BY <1>1, <2>2, <2>3
<1>3. A # {} /\ A \subseteq K
  OBVIOUS
<1>4. \A k \in K, m \in A : k[1] = m[1] => k \in A
  OBVIOUS
<1>5. \A k \in K, m \in A : ~(k[1] = "PIECEWISE" /\ m[1] = "FULL")
  OBVIOUS
<1> HIDE DEF A
<1>6. t \in T /\ \A x \in T : x <= t
  <2>1. T \in SUBSET (0 .. n) /\ T # {}
    BY <1>2, <1>3
  <2> HIDE DEF T, n
  <2> QED
    BY <1>1, <2>1, MaxIs
<1>7. B # {} /\ B \subseteq A
  BY <1>6
<1>8. \A k \in A : k[2].tokens <= t
  BY <1>6
<1>9. \A k \in A : k[2].tokens = t => k \in B
  OBVIOUS
<1>10. \A k \in B : k[2].tokens = t
  OBVIOUS
<1>11. t \in Nat
  BY <1>2, <1>3, <1>6, <1>1
<1> HIDE DEF T, t, B
<1>12. l \in L /\ \A x \in L : x <= l
  <2>1. L \in SUBSET (0 .. a) /\ L # {}
    BY <1>2, <1>3, <1>7
  <2> HIDE DEF L, a
  <2> QED
    BY <1>1, <2>1, MaxIs
<1>13. PICK m \in B : m[2].loras = l
  BY <1>12
<1>14. \A k \in B : k[2].loras <= l
  BY <1>12
<1> HIDE DEF L, l
<1>15. \A k \in K : ~Before(k, m)
  <2> SUFFICES ASSUME NEW k \in K, Before(k, m) PROVE FALSE
    OBVIOUS
  <2>1. m \in A /\ m \in K /\ m[2].tokens = t
    BY <1>3, <1>7, <1>10, <1>13
  <2>2. k[1] = m[1] /\ k \in A
    BY <1>4, <1>5, <2>1 DEF Before
  <2>3. k[2].tokens \in Nat /\ k[2].loras \in Nat /\ m[2].loras \in Nat
    BY <1>1, <1>2, <2>1
  <2>4. ~(k[2].tokens > m[2].tokens)
    BY <1>8, <1>11, <2>1, <2>2, <2>3
  <2>5. k[1] = m[1] /\ k[2].tokens = m[2].tokens /\ k[2].loras > m[2].loras
    BY <1>5, <2>1, <2>4 DEF Before
  <2>6. k[2].loras <= m[2].loras
    BY <1>9, <1>13, <1>14, <2>1, <2>2, <2>5
  <2> QED
    BY <2>3, <2>5, <2>6
<1>16. m \in K
  BY <1>3, <1>7
<1> QED
  BY <1>15, <1>16 DEF First

LEMMA TwoOfIs ==
    ASSUME option \in Options, Dispatcher, NEW K \in SUBSET keys
    PROVE  TwoOf(K) \subseteq K
<1>1. K # {} => First(K) \in K
  BY FirstIs
<1> DEFINE R == K \ {First(K)}
<1>2. R # {} => First(R) \in R
  <2>1. R \in SUBSET keys
    OBVIOUS
  <2> HIDE DEF R
  <2> QED
    BY <2>1, FirstIs
<1>3. K # {} /\ K # {First(K)} => R # {}
  BY <1>1
<1>4. K # {} /\ K # {First(K)} => First(K \ {First(K)}) \in K
  BY <1>2, <1>3
<1> QED
  BY <1>1, <1>4 DEF TwoOf

-----------------------------------------------------------------------------
(* What a batch gets *)

LEMMA BatchIs ==
    ASSUME option \in Options, NEW b \in Batches(option)
    PROVE  /\ b.reqs \in Nat /\ b.reqs >= 1 /\ b.reqs <= option.maxSeqs
           /\ b.tokens \in Nat /\ b.tokens >= b.reqs /\ b.uniform \in BOOLEAN
           /\ b.loras \in 0 .. option.loras /\ b.cascade \in BOOLEAN
           /\ b.uniform => b.tokens = Query(option) * b.reqs
<1> DEFINE x == option.maxSeqs
           y == ScheduledTokens(option)
           z == option.loras
           p == option.cascade
           R == [reqs : 1..x, tokens : 1..y, uniform : BOOLEAN, loras : 0..z, cascade : {FALSE, p}]
<1>1. x \in Nat /\ z \in Nat /\ p \in BOOLEAN
  BY OptionIs
<1>2. y \in Int
  <2>1. option.maxTokens \in Nat /\ option.draftSlots \in Nat
    BY OptionsAssumption
  <2> DEFINE d == DraftSlots(option)
  <2>2. d \in Nat
    BY <1>1, <2>1 DEF DraftSlots
  <2> HIDE DEF d
  <2>3. y = option.maxTokens \/ y = option.maxTokens - d
    BY DEF ScheduledTokens, d
  <2> QED
    BY <2>1, <2>2, <2>3
<1>3. b \in R /\ b.tokens >= b.reqs /\ (b.uniform => b.tokens = Query(option) * b.reqs)
  BY DEF Batches
<1> HIDE DEF x, y, z, p
<1>4. /\ b.reqs \in 1..x /\ b.tokens \in 1..y /\ b.uniform \in BOOLEAN
      /\ b.loras \in 0..z /\ b.cascade \in {FALSE, p}
  BY <1>3
<1>5. b.cascade \in BOOLEAN
  BY <1>1, <1>4, Zenon
<1>6. b.reqs \in Nat /\ b.reqs >= 1 /\ b.reqs <= x
  BY <1>1, <1>4
<1>7. b.tokens \in Nat
  BY <1>2, <1>4
<1> QED
  BY <1>3, <1>4, <1>5, <1>6, <1>7 DEF x, z

\* A key holds a batch.
Holds(b, k) ==
    /\ k[2].tokens >= b.tokens /\ (k[2].reqs = 0 \/ k[2].reqs >= b.reqs)
    /\ k[2].uniform => b.uniform
    /\ k[2].loras >= b.loras /\ (b.loras > 0 <=> k[2].loras > 0)

LEMMA KeyHolds ==
    ASSUME option \in Options, NEW b \in Batches(option), NEW s \in Nat, s >= b.tokens
    PROVE  LET e == EffectiveLoras(option, b.loras)
           IN  Holds(b, Piece(s, e)) /\ Holds(b, FullKey(b.uniform, s, e))
<1> DEFINE e == EffectiveLoras(option, b.loras)
           q == Query(option)
           x == option.maxSeqs
<1>1. /\ b.reqs \in Nat /\ b.reqs <= x
      /\ b.tokens \in Nat /\ b.tokens >= b.reqs /\ b.uniform \in BOOLEAN
      /\ b.uniform => b.tokens = q * b.reqs
  BY BatchIs
<1>2. e \in Nat /\ e >= b.loras /\ (b.loras > 0 <=> e > 0)
  BY BatchIs, LoraIs
<1>3. x \in Nat /\ q \in Nat \ {0}
  BY OptionIs
<1> HIDE DEF e
<1>4. Holds(b, Piece(s, e))
  BY <1>2, PieceHas DEF Holds
<1>5. Holds(b, Mixed(option, s, e))
  <2> DEFINE k == Mixed(option, s, e)
  <2>1. k[2].tokens = s /\ k[2].reqs = Smaller(s, x) /\ k[2].uniform = FALSE /\ k[2].loras = e
    BY MixedHas
  <2>2. Smaller(s, x) >= b.reqs
    BY <1>1, <1>3 DEF Smaller
  <2> HIDE DEF k
  <2>3. Holds(b, k)
    BY <1>2, <2>1, <2>2 DEF Holds
  <2> QED
    BY <2>3 DEF k
<1>6. b.uniform => Holds(b, Decode(option, s, e))
  <2> SUFFICES ASSUME b.uniform PROVE Holds(b, Decode(option, s, e))
    OBVIOUS
  <2> DEFINE k == Decode(option, s, e)
             d == s \div q
  <2>1. k[2].tokens = s /\ k[2].reqs = Smaller(d, x) /\ k[2].uniform = TRUE /\ k[2].loras = e
    BY DecodeHas
  <2> HIDE DEF q
  <2>2. d \in Nat /\ d >= b.reqs
    <3>1. d \in Nat
      BY <1>3, DivMod
    <3> DEFINE r == b.reqs
    <3>2. r \in Nat /\ s >= q * r
      BY <1>1
    <3> HIDE DEF r
    <3>3. d >= r
      BY <1>3, <3>2, DivAtLeast
    <3> QED
      BY <3>1, <3>3 DEF r
  <2> HIDE DEF d
  <2>3. Smaller(d, x) >= b.reqs
    BY <1>1, <1>3, <2>2 DEF Smaller
  <2> HIDE DEF k
  <2>4. Holds(b, k)
    BY <1>2, <2>1, <2>3 DEF Holds
  <2> QED
    BY <2>4 DEF k
<1>7. Holds(b, FullKey(b.uniform, s, e))
  BY <1>5, <1>6 DEF FullKey
<1> QED
  BY <1>4, <1>7 DEF e

LEMMA DispatchGets ==
    ASSUME option \in Options, Dispatcher, NEW b \in Batches(option),
           NEW n \in Nat, n >= b.tokens, NEW A \in SUBSET AnyMode
    PROVE  LET k == Dispatch(n, b.uniform, b.loras, A)
               s == Padded(config, n)
               e == EffectiveLoras(option, b.loras)
           IN  /\ k[1] \in GraphModes =>
                    /\ k \in keys /\ k[1] \in A /\ k[2].tokens = s /\ Holds(b, k)
                    /\ s \in config.sizes /\ s >= n
                    /\ \/ k[1] = "FULL" /\ k = FullKey(b.uniform, s, e)
                       \/ k[1] = "PIECEWISE" /\ k = Piece(s, e)
               /\ "NONE" \in A => k[1] \in AnyMode
<1> DEFINE k == Dispatch(n, b.uniform, b.loras, A)
           s == Padded(config, n)
           e == EffectiveLoras(option, b.loras)
           f == FullKey(b.uniform, s, e)
           p == Piece(s, e)
           eager == <<"NONE", Unpadded(n)>>
           none == mode = "NONE" \/ n > config.max \/ A \subseteq {"NONE"}
<1>1. b.tokens \in Nat /\ b.tokens >= 1 /\ b.uniform \in BOOLEAN /\ n >= 1
  BY BatchIs
<1>2. k = IF none THEN eager
          ELSE IF "FULL" \in A /\ f \in keys THEN f
          ELSE IF "PIECEWISE" \in A /\ p \in keys THEN p
          ELSE IF "NONE" \in A THEN eager ELSE Asserted
  BY <1>1, DispatchIs
<1>3. eager[1] = "NONE" /\ Asserted[1] = "assert"
  BY DEF Asserted
<1>4. f[1] = "FULL" /\ f[2].tokens = s
  BY MixedHas, DecodeHas DEF FullKey
<1>5. p[1] = "PIECEWISE" /\ p[2].tokens = s
  BY PieceHas
<1>6. ~none => s \in config.sizes /\ s >= n /\ Holds(b, f) /\ Holds(b, p)
  <2> SUFFICES ASSUME ~none PROVE s \in config.sizes /\ s >= n /\ Holds(b, f) /\ Holds(b, p)
    OBVIOUS
  <2>1. n <= config.max
    BY ConfigNow
  <2>2. s \in config.sizes /\ s >= n
    BY <1>1, <2>1, PaddedIs DEF Dispatcher
  <2>3. s \in Nat
    BY <2>2, ConfigNow
  <2> HIDE DEF s
  <2>4. s >= b.tokens
    BY <1>1, <2>2, <2>3
  <2>5. Holds(b, p) /\ Holds(b, f)
    BY <2>3, <2>4, KeyHolds
  <2> QED
    BY <2>2, <2>5
<1> HIDE DEF k, s, f, p, e, eager, none
<1>7. /\ k[1] \in GraphModes =>
           /\ k \in keys /\ k[1] \in A /\ k[2].tokens = s /\ Holds(b, k)
           /\ s \in config.sizes /\ s >= n
           /\ (k[1] = "FULL" /\ k = f) \/ (k[1] = "PIECEWISE" /\ k = p)
      /\ "NONE" \in A => k[1] \in AnyMode
  <2>1. CASE k = eager \/ (k = Asserted /\ "NONE" \notin A)
    BY <1>3, <2>1 DEF GraphModes, AnyMode
  <2>2. CASE ~none /\ "FULL" \in A /\ f \in keys /\ k = f
    BY <1>4, <1>6, <2>2 DEF GraphModes, AnyMode
  <2>3. CASE ~none /\ "PIECEWISE" \in A /\ p \in keys /\ k = p
    BY <1>5, <1>6, <2>3 DEF GraphModes, AnyMode
  <2> QED
    BY <1>2, <2>1, <2>2, <2>3
<1> QED
  BY <1>7 DEF k, s, e, f, p

\* What a rank chooses for itself.
LEMMA OwnIs ==
    ASSUME option \in Options, Dispatcher, NEW b \in Batches(option)
    PROVE  LET k == Own(b)
               t == OwnTokens(b)
               e == EffectiveLoras(option, b.loras)
           IN  /\ k[1] \in AnyMode /\ t \in Nat /\ t >= b.tokens
               /\ k[1] # "NONE" =>
                    /\ k \in keys /\ k[2].tokens = t /\ t \in config.sizes /\ Holds(b, k)
                    /\ b.cascade => k[1] = "PIECEWISE"
                    /\ \/ k[1] = "FULL" /\ k = FullKey(b.uniform, t, e)
                       \/ k[1] = "PIECEWISE" /\ k = Piece(t, e)
<1> DEFINE k == Own(b)
           t == OwnTokens(b)
           n == PadForSequenceParallelism(option, b.tokens)
           A == IF b.cascade THEN AnyMode \ {"FULL"} ELSE AnyMode
           e == EffectiveLoras(option, b.loras)
           s == Padded(config, n)
<1>1. b.tokens \in Nat /\ b.cascade \in BOOLEAN
  BY BatchIs
<1>2. n \in Nat /\ n >= b.tokens
  BY <1>1, PadIs
<1>3. A \in SUBSET AnyMode /\ "NONE" \in A /\ (b.cascade => "FULL" \notin A)
  BY DEF AnyMode
<1>4. k = Dispatch(n, b.uniform, b.loras, A)
  BY DEF Own
<1>5. t = IF k[1] = "NONE" THEN n ELSE k[2].tokens
  BY DEF OwnTokens
<1> HIDE DEF k, t, n, A
<1>6. /\ k[1] \in GraphModes =>
           /\ k \in keys /\ k[1] \in A /\ k[2].tokens = s /\ Holds(b, k)
           /\ s \in config.sizes /\ s >= n
           /\ \/ k[1] = "FULL" /\ k = FullKey(b.uniform, s, e)
              \/ k[1] = "PIECEWISE" /\ k = Piece(s, e)
      /\ k[1] \in AnyMode
  BY <1>2, <1>3, <1>4, DispatchGets
<1> HIDE DEF s, e
<1>7. CASE k[1] = "NONE"
  BY <1>2, <1>5, <1>6, <1>7 DEF k, t, e
<1>8. CASE k[1] # "NONE"
  <2>1. k[1] \in GraphModes
    BY <1>6, <1>8 DEF AnyMode
  <2>2. t = s
    BY <1>5, <1>6, <1>8, <2>1
  <2>3. s \in Nat
    BY <1>6, <2>1, ConfigNow
  <2>4. t \in Nat /\ t >= b.tokens
    BY <1>1, <1>2, <1>6, <2>1, <2>2, <2>3
  <2>5. b.cascade => k[1] = "PIECEWISE"
    BY <1>3, <1>6, <2>1 DEF GraphModes
  <2> QED
    BY <1>6, <2>1, <2>2, <2>4, <2>5 DEF k, t, e
<1> QED
  BY <1>7, <1>8

\* The group agrees on the least mode, which is that of one of its ranks.
LEMMA SyncedIs ==
    ASSUME option \in Options, Dispatcher, NEW b1 \in Batches(option), NEW b2 \in Batches(option)
    PROVE  LET m == Synced({b1, b2})
           IN  /\ m \in AnyMode /\ (m = Own(b1)[1] \/ m = Own(b2)[1])
               /\ m = "FULL" => Own(b1)[1] = "FULL" /\ Own(b2)[1] = "FULL"
               /\ m = "PIECEWISE" => Own(b1)[1] # "NONE" /\ Own(b2)[1] # "NONE"
<1> DEFINE x == Own(b1)[1]
           y == Own(b2)[1]
           least == IF Level(x) <= Level(y) THEN x ELSE y
           m == CHOOSE z \in {x, y} : \A v \in {x, y} : Level(z) <= Level(v)
<1>1. x \in AnyMode /\ y \in AnyMode
  BY OwnIs
<1>2. Synced({b1, b2}) = CHOOSE z \in {Own(b)[1] : b \in {b1, b2}} : \A b \in {b1, b2} : Level(z) <= Level(Own(b)[1])
  BY DEF Synced
<1>3. {Own(b)[1] : b \in {b1, b2}} = {x, y}
  OBVIOUS
<1>4. \A z : (\A b \in {b1, b2} : Level(z) <= Level(Own(b)[1])) <=> (\A v \in {x, y} : Level(z) <= Level(v))
  OBVIOUS
<1>5. Synced({b1, b2}) \in {x, y} /\ \A v \in {x, y} : Level(Synced({b1, b2})) <= Level(v)
  <2> HIDE DEF x, y
  <2>1. Level("NONE") = 0 /\ Level("PIECEWISE") = 1 /\ Level("FULL") = 2
    BY DEF Level
  <2>2. least \in {x, y} /\ \A v \in {x, y} : Level(least) <= Level(v)
    BY <1>1, <2>1 DEF AnyMode, GraphModes
  <2> HIDE DEF least
  <2>3. \A b \in {b1, b2} : Level(least) <= Level(Own(b)[1])
    BY <1>4, <2>2
  <2> DEFINE S == {Own(b)[1] : b \in {b1, b2}}
             Q(z) == \A b \in {b1, b2} : Level(z) <= Level(Own(b)[1])
  <2>4. least \in S /\ Q(least)
    BY <1>3, <2>2, <2>3
  <2>5. Synced({b1, b2}) = CHOOSE z \in S : Q(z)
    BY <1>2
  <2> HIDE DEF S, Q
  <2>6. Synced({b1, b2}) \in S /\ Q(Synced({b1, b2}))
    BY <2>4, <2>5
  <2> QED
    BY <1>3, <1>4, <2>6 DEF S, Q
<1> HIDE DEF x, y
<1>6. Level("NONE") = 0 /\ Level("PIECEWISE") = 1 /\ Level("FULL") = 2
  BY DEF Level
<1>7. LET z == Synced({b1, b2})
      IN  /\ z \in AnyMode /\ (z = x \/ z = y)
          /\ z = "FULL" => x = "FULL" /\ y = "FULL"
          /\ z = "PIECEWISE" => x # "NONE" /\ y # "NONE"
  BY <1>1, <1>5, <1>6 DEF AnyMode, GraphModes
<1> QED
  BY <1>7 DEF x, y

LEMMA SyncedTokensIs ==
    ASSUME option \in Options, Dispatcher, NEW b1 \in Batches(option), NEW b2 \in Batches(option),
           Synced({b1, b2}) # "NONE"
    PROVE  \E t \in Nat :
             /\ \A b : SyncedTokens({b1, b2}, b) = t
             /\ t = OwnTokens(b1) \/ t = OwnTokens(b2)
             /\ t >= b1.tokens /\ t >= b2.tokens
<1> DEFINE x == OwnTokens(b1)
           y == OwnTokens(b2)
           S == {OwnTokens(a) : a \in {b1, b2}}
           t == Max(S)
           n == x + y
<1>1. /\ x \in Nat /\ y \in Nat /\ x >= b1.tokens /\ y >= b2.tokens
      /\ b1.tokens \in Nat /\ b2.tokens \in Nat
  BY OwnIs, BatchIs
<1>2. S = {x, y}
  OBVIOUS
<1> HIDE DEF x, y, S
<1>3. t \in S /\ \A s \in S : s <= t
  <2>1. n \in Nat /\ S \in SUBSET (0 .. n) /\ S # {}
    BY <1>1, <1>2
  <2> HIDE DEF n
  <2> QED
    BY <2>1, MaxIs
<1>4. \A b : SyncedTokens({b1, b2}, b) = t
  BY DEF SyncedTokens, S
<1> HIDE DEF t
<1>5. t \in Nat /\ (t = x \/ t = y) /\ t >= b1.tokens /\ t >= b2.tokens
  BY <1>1, <1>2, <1>3
<1> QED
  BY <1>4, <1>5 DEF x, y

\* What a rank gets for what the group agreed on.
LEMMA AgainIs ==
    ASSUME option \in Options, Dispatcher, NEW b1 \in Batches(option), NEW b2 \in Batches(option), NEW b \in {b1, b2}
    PROVE  LET B == {b1, b2}
               k == Again(B, b)
           IN  /\ k[1] = Synced(B)
               /\ k[1] # "NONE" =>
                    /\ k \in keys /\ k[2].tokens = SyncedTokens(B, b) /\ Holds(b, k)
                    /\ b.cascade => k[1] = "PIECEWISE"
<1> DEFINE B == {b1, b2}
           m == Synced(B)
           t == SyncedTokens(B, b)
           k == Again(B, b)
           e == EffectiveLoras(option, b.loras)
           u == b.uniform
           own == Own(b)
<1>1. b \in Batches(option) /\ u \in BOOLEAN /\ b.tokens \in Nat /\ b.tokens >= 1
  BY BatchIs
<1>2. /\ m \in AnyMode /\ (m = Own(b1)[1] \/ m = Own(b2)[1])
      /\ m = "FULL" => Own(b1)[1] = "FULL" /\ Own(b2)[1] = "FULL"
      /\ m = "PIECEWISE" => Own(b1)[1] # "NONE" /\ Own(b2)[1] # "NONE"
  BY SyncedIs
<1>3. k = Dispatch(t, u, b.loras, {m})
  BY DEF Again
<1>4. CASE m = "NONE"
  <2>1. t = OwnTokens(b)
    BY <1>4 DEF SyncedTokens
  <2>2. t \in Nat /\ t >= 1
    <3>1. OwnTokens(b) \in Nat /\ OwnTokens(b) >= b.tokens
      BY <1>1, OwnIs
    <3> QED
      BY <1>1, <2>1, <3>1
  <2> HIDE DEF t
  <2>3. Dispatch(t, u, b.loras, {"NONE"}) = <<"NONE", Unpadded(t)>>
    BY <1>1, <2>2, DispatchIs
  <2>4. k[1] = "NONE"
    BY <1>3, <1>4, <2>3
  <2> QED
    BY <1>4, <2>4
<1>5. CASE m # "NONE"
  <2>1. /\ t \in Nat /\ t >= b.tokens /\ (t = OwnTokens(b1) \/ t = OwnTokens(b2))
    <3>1. PICK n \in Nat : /\ \A a : SyncedTokens(B, a) = n
                           /\ n = OwnTokens(b1) \/ n = OwnTokens(b2)
                           /\ n >= b1.tokens /\ n >= b2.tokens
      BY <1>5, SyncedTokensIs
    <3>2. t = n
      BY <3>1
    <3> HIDE DEF t
    <3> QED
      BY <3>1, <3>2
  <2>2. Own(b1)[1] # "NONE" /\ Own(b2)[1] # "NONE"
    BY <1>2, <1>5 DEF AnyMode, GraphModes
  <2>3. t \in config.sizes
    <3>1. OwnTokens(b1) \in config.sizes
      BY <2>2, OwnIs
    <3>2. OwnTokens(b2) \in config.sizes
      BY <2>2, OwnIs
    <3> QED
      BY <2>1, <3>1, <3>2
  <2> HIDE DEF t
  <2>4. t <= config.max /\ t >= 1 /\ config.max \in Nat
    BY <2>3, ConfigNow
  <2>5. Padded(config, t) = t
    BY <2>1, <2>3, <2>4, PaddedIs DEF Dispatcher
  <2>6. /\ own[1] # "NONE" /\ own \in keys
        /\ \/ own[1] = "FULL" /\ own = FullKey(u, OwnTokens(b), e)
           \/ own[1] = "PIECEWISE" /\ own = Piece(OwnTokens(b), e)
        /\ b.cascade => own[1] = "PIECEWISE"
    <3>1. own[1] # "NONE"
      BY <2>2
    <3> QED
      BY <1>1, <3>1, OwnIs
  <2>7. e \in LoraCases(option)
    <3>1. own[2].loras = e
      BY <2>6, PieceHas, MixedHas, DecodeHas DEF FullKey
    <3> QED
      BY <2>6, <3>1, KeysType
  <2>8. mode # "NONE"
    <3>1. mode = "NONE" => ~Separate(mode) /\ MixedMode(mode) # "PIECEWISE" /\ mode # "FULL"
      BY DEF Separate, MixedMode
    <3>2. own = Piece(OwnTokens(b), e) \/ own = Mixed(option, OwnTokens(b), e) \/ own = Decode(option, OwnTokens(b), e)
      BY <2>6 DEF FullKey
    <3> QED
      BY <2>6, <3>1, <3>2, KeyHas
  <2>9. Dispatch(t, u, b.loras, {m}) =
          IF m = "FULL" /\ FullKey(u, t, e) \in keys THEN FullKey(u, t, e)
          ELSE IF m = "PIECEWISE" /\ Piece(t, e) \in keys THEN Piece(t, e)
          ELSE Asserted
    <3>1. ~(t > config.max)
      BY <2>1, <2>4
    <3> HIDE DEF m, e, u
    <3>2. ~({m} \subseteq {"NONE"}) /\ "NONE" \notin {m} /\ ("FULL" \in {m} <=> m = "FULL") /\ ("PIECEWISE" \in {m} <=> m = "PIECEWISE")
      BY <1>5
    <3> QED
      BY <1>1, <2>1, <2>4, <2>5, <2>8, <3>1, <3>2, DispatchIs DEF u, e
  <2>10. Holds(b, Piece(t, e)) /\ Holds(b, FullKey(u, t, e))
    BY <1>1, <2>1, KeyHolds
  <2>11. CASE m = "PIECEWISE"
    <3>1. \E a \in {b1, b2} : Own(a)[1] = "PIECEWISE"
      BY <1>2, <2>11
    <3>2. PICK a \in {b1, b2} : Own(a)[1] = "PIECEWISE"
      BY <3>1
    <3>3. Own(a) \in keys /\ Own(a) = Piece(OwnTokens(a), EffectiveLoras(option, a.loras))
      BY <3>2, OwnIs
    <3>4. Piece(t, e) \in keys
      BY <2>3, <2>7, <3>3, KeyHas, HasKey
    <3>5. k = Piece(t, e)
      BY <1>3, <2>9, <2>11, <3>4
    <3>6. k[1] = "PIECEWISE" /\ k[2].tokens = t
      BY <3>5, PieceHas
    <3> HIDE DEF k, m, e
    <3> QED
      BY <2>10, <2>11, <3>4, <3>5, <3>6 DEF k, m, t
  <2>12. CASE m = "FULL"
    <3>1. Own(b1)[1] = "FULL" /\ Own(b2)[1] = "FULL" /\ own[1] = "FULL"
      BY <1>2, <2>12
    <3>2. own = FullKey(u, OwnTokens(b), e) /\ ~b.cascade
      BY <2>6, <3>1
    <3>3. FullKey(u, t, e) \in keys
      <4>1. CASE mode = "FULL"
        <5>1. ~Separate(mode)
          BY <4>1 DEF Separate
        <5>2. FullKey(u, t, e) = Mixed(option, t, e)
          BY <5>1 DEF FullKey
        <5> QED
          BY <2>3, <2>7, <4>1, <5>2, HasKey
      <4>2. CASE mode # "FULL"
        <5>1. \A a \in {b1, b2} : a.uniform /\ Separate(mode) /\ OwnTokens(a) \in DecodeSizes(option, config)
          <6> TAKE a \in {b1, b2}
          <6> DEFINE d == EffectiveLoras(option, a.loras)
          <6>1. Own(a) \in keys /\ Own(a) = FullKey(a.uniform, OwnTokens(a), d)
            BY <3>1, OwnIs
          <6>2. a.uniform /\ Separate(mode)
            BY <4>2, <6>1, KeyHas DEF FullKey
          <6> QED
            BY <6>1, <6>2, KeyHas DEF FullKey
        <5>2. u /\ Separate(mode) /\ t \in DecodeSizes(option, config)
          BY <2>1, <5>1
        <5> QED
          BY <2>3, <2>7, <5>2, HasKey DEF FullKey
      <4> QED
        BY <4>1, <4>2
    <3>5. k = FullKey(u, t, e)
      BY <1>3, <2>9, <2>12, <3>3
    <3>6. k[1] = "FULL" /\ k[2].tokens = t
      BY <3>5, MixedHas, DecodeHas DEF FullKey
    <3> HIDE DEF k, m, e, u
    <3> QED
      BY <2>10, <2>12, <3>2, <3>3, <3>5, <3>6 DEF k, m, t
  <2> QED
    BY <1>2, <1>5, <2>11, <2>12 DEF AnyMode, GraphModes
<1> QED
  BY <1>4, <1>5

\* What a step runs: a key that holds its batch, and on several data-parallel
\* ranks one mode and one number of tokens.
LEMMA ChosenIs ==
    ASSUME option \in Options, Dispatcher, NEW b1 \in Batches(option), NEW b2 \in Batches(option), NEW b \in {b1, b2}
    PROVE  LET k == Chosen({b1, b2}, b)
           IN  k[1] # "NONE" => /\ k \in keys /\ Holds(b, k)
                                /\ b.cascade => k[1] = "PIECEWISE"
<1>1. CASE option.dp > 1
  BY <1>1, AgainIs DEF Chosen
<1>2. CASE ~(option.dp > 1)
  BY <1>2, OwnIs DEF Chosen
<1> QED
  BY <1>1, <1>2

LEMMA ChosenAgree ==
    ASSUME option \in Options, Dispatcher, NEW b1 \in Batches(option), NEW b2 \in Batches(option), option.dp > 1
    PROVE  LET k == Chosen({b1, b2}, b1)
               l == Chosen({b1, b2}, b2)
           IN  /\ k[1] = l[1]
               /\ k[1] # "NONE" => k[2].tokens = l[2].tokens
<1> DEFINE k == Again({b1, b2}, b1)
           l == Again({b1, b2}, b2)
           m == Synced({b1, b2})
<1>1. k[1] = m /\ (k[1] # "NONE" => k[2].tokens = SyncedTokens({b1, b2}, b1))
  BY AgainIs
<1>2. l[1] = m /\ (l[1] # "NONE" => l[2].tokens = SyncedTokens({b1, b2}, b2))
  BY AgainIs
<1>3. m # "NONE" => SyncedTokens({b1, b2}, b1) = SyncedTokens({b1, b2}, b2)
  BY SyncedTokensIs
<1>4. Chosen({b1, b2}, b1) = k /\ Chosen({b1, b2}, b2) = l
  BY DEF Chosen
<1> HIDE DEF k, l, m
<1> QED
  BY <1>1, <1>2, <1>3, <1>4

-----------------------------------------------------------------------------
(* The compile ranges *)

LEMMA RangesAre ==
    ASSUME option \in Options
    PROVE  RangesPartition
<1> DEFINE x == option.maxTokens
           E == Endpoints(option)
           start(y) == 1 + Largest({z \in E : z < y})
           R == CompileRanges(option)
<1>1. x \in Nat \ {0}
  BY OptionIs
<1>2. E \in SUBSET (0 .. x) /\ x \in E
  <2>1. option.endpoints \subseteq Nat /\ option.spMin \in Nat
    BY OptionsAssumption
  <2>2. {z \in option.endpoints : 1 < z /\ z < x} \in SUBSET (0 .. x)
    BY <1>1, <2>1
  <2>3. (IF SequenceParallel(option) /\ 1 < option.spMin /\ option.spMin < x THEN {option.spMin - 1} ELSE {}) \in SUBSET (0 .. x)
    BY <1>1, <2>1
  <2>4. {x} \in SUBSET (0 .. x)
    BY <1>1
  <2> QED
    BY <2>2, <2>3, <2>4 DEF Endpoints
<1>3. R = {start(y) .. y : y \in E}
  BY DEF CompileRanges
<1>4. \A y \in E : /\ start(y) \in Nat
                   /\ \A z \in E : z < y => z < start(y)
                   /\ {z \in E : z < y} # {} => \E z \in E : z < y /\ start(y) = z + 1
                   /\ {z \in E : z < y} = {} => start(y) = 1
  <2> TAKE y \in E
  <2> DEFINE S == {z \in E : z < y}
             l == Largest(S)
  <2>1. S \in SUBSET (0 .. x)
    BY <1>2
  <2>2. l \in 0 .. x /\ (\A s \in S : s <= l) /\ (S # {} => l \in S) /\ (S = {} => l = 0)
    <3>1. S = {} => l = 0
      BY DEF Largest
    <3> HIDE DEF S, x
    <3> QED
      BY <1>1, <2>1, <3>1, LargestIs
  <2>3. start(y) = 1 + l
    OBVIOUS
  <2> HIDE DEF l, start
  <2> QED
    BY <1>1, <1>2, <2>2, <2>3
<1> HIDE DEF E, R, start
<1> SUFFICES ASSUME NEW n \in 1 .. x
             PROVE  Cardinality({r \in R : n \in r}) = 1
  BY DEF RangesPartition, R
<1> DEFINE U == {y \in E : y >= n}
           u == Min(U)
<1>5. u \in E /\ u >= n /\ \A y \in E : y >= n => u <= y
  <2>1. U \in SUBSET (0 .. x) /\ U # {}
    <3>1. x \in U
      BY <1>1, <1>2
    <3> QED
      BY <1>2, <3>1
  <2>2. u \in U /\ \A y \in U : u <= y
    <3> HIDE DEF U, x
    <3> QED
      BY <1>1, <2>1, MinIs
  <2> QED
    BY <2>2
<1> HIDE DEF u
<1>6. n \in Nat /\ n >= 1 /\ \A y \in E : y \in Nat
  BY <1>1, <1>2
<1>7. n \in start(u) .. u
  <2>1. start(u) \in Nat
    BY <1>4, <1>5
  <2>2. start(u) <= n
    <3>1. CASE {z \in E : z < u} = {}
      BY <1>4, <1>5, <1>6, <3>1
    <3>2. CASE {z \in E : z < u} # {}
      <4>1. PICK z \in E : z < u /\ start(u) = z + 1
        BY <1>4, <1>5, <3>2
      <4>2. ~(z >= n)
        BY <1>5, <1>6, <4>1
      <4> QED
        BY <1>6, <4>1, <4>2
    <3> QED
      BY <3>1, <3>2
  <2> QED
    BY <1>5, <1>6, <2>1, <2>2
<1>8. \A y \in E : n \in start(y) .. y => y = u
  <2> SUFFICES ASSUME NEW y \in E, n \in start(y) .. y PROVE y = u
    OBVIOUS
  <2>1. start(y) \in Nat
    BY <1>4
  <2>2. start(y) <= n /\ n <= y
    BY <1>6, <2>1
  <2>3. u <= y
    BY <1>5, <1>6, <2>2
  <2>4. ~(u < y)
    BY <1>4, <1>5, <1>6, <2>1, <2>2
  <2> QED
    BY <1>5, <1>6, <2>3, <2>4
<1>9. {r \in R : n \in r} = {start(u) .. u}
  BY <1>3, <1>5, <1>7, <1>8
<1> QED
  BY <1>9, FS_Singleton

-----------------------------------------------------------------------------
(* The inductive invariant *)

Wrapping == {"loaded", "profiling", "sampling", "profiled", "initialized", "capturing", "serving"}
Dispatching == {"profiling", "sampling", "initialized", "capturing", "serving"}
Capturing == {"sampling", "capturing"}
Labels == {"options", "configured", "refused"} \cup Wrapping

\* The configuration is one the options give, and what the model is wrapped in
\* captures its modes.
ConfigKept ==
    /\ option \in Options /\ at \in Labels
    /\ at = "configured" => ConfigFits(option, config) /\ Pieces(option, config.mode)
    /\ at \in Wrapping => ConfigFits(option, config) /\ WrapperFits(option, config.mode, wrapper)
    /\ at \in {"profiling", "sampling", "profiled"} => Resolved(option, config) = config

\* The dispatcher is the configuration's as long as there is a KV cache.
KeysKept ==
    /\ wrapper \in {"none", "full", "breakable"} /\ ready \in BOOLEAN /\ mode \in Modes
    /\ at \in Dispatching => Dispatcher
    /\ at \notin Dispatching => keys = {}
    /\ todo \subseteq keys /\ (at \notin Capturing => todo = {})
    /\ at \in {"profiling", "sampling"} => cache = "profiling"
    /\ at \in {"initialized", "capturing", "serving"} => cache = "real"

Graph(k) == [key |-> k, cache |-> cache, segments |-> Segments(k[1])]

\* The graphs are those of the keys captured since the cache was made.
GraphsKept ==
    /\ graphs \subseteq {Graph(k) : k \in keys}
    /\ at \in {"capturing", "serving"} => \A k \in keys \ todo : Graph(k) \in graphs

ServedKept ==
    /\ at # "serving" => served = <<>>
    /\ GraphFits /\ RanksAgree

IInv == ConfigKept /\ KeysKept /\ GraphsKept /\ ServedKept

LEMMA ModesKeep ==
    ASSUME NEW o \in Options, NEW m \in Modes, NEW w, WrapperFits(o, m, w)
    PROVE  WrapperFits(o, ResolvedMode(o, m), w)
BY ResolvedModeIs DEF WrapperFits

-----------------------------------------------------------------------------
(* Every step keeps it *)

LEMMA InitKeeps ==
    ASSUME Init
    PROVE  IInv
<1>1. ConfigKept
  BY DEF Init, ConfigKept, Labels, Wrapping
<1>2. KeysKept
  BY DEF Init, KeysKept, Dispatching, Modes
<1>3. GraphsKept
  BY DEF Init, GraphsKept
<1>4. ServedKept
  BY DEF Init, ServedKept, GraphFits, RanksAgree
<1> QED
  BY <1>1, <1>2, <1>3, <1>4 DEF IInv

\* What a step that serves nothing keeps of the served.
LEMMA ServedSame ==
    ASSUME ServedKept, UNCHANGED served, at # "serving"
    PROVE  ServedKept'
BY DEF ServedKept, GraphFits, RanksAgree

LEMMA PostInitKeeps ==
    ASSUME IInv, PostInit
    PROVE  IInv'
<1>1. /\ at = "options" /\ option \in Options /\ option' = option
      /\ keys = {} /\ todo = {} /\ graphs = {} /\ keys' = keys /\ todo' = todo /\ graphs' = graphs
      /\ UNCHANGED <<wrapper, ready, mode, served>>
  BY DEF IInv, ConfigKept, KeysKept, GraphsKept, Dispatching, Capturing, PostInit
<1>2. at' \in {"refused", "configured"}
  BY DEF PostInit
<1>3. at' = "configured" => ConfigFits(option', config') /\ Pieces(option', config'.mode)
  <2>1. at' = "configured" => ~Refused(option) /\ config' = Configured(option)
    BY DEF PostInit
  <2>2. ~Refused(option) => ~PiecewiseRefused(option)
    BY DEF Refused
  <2> DEFINE c == Configured(option)
  <2>3. ConfigFits(option, c) /\ (~PiecewiseRefused(option) => Pieces(option, c.mode))
    BY <1>1, ConfiguredFits
  <2> HIDE DEF c
  <2>4. at' = "configured" => config' = c
    BY <2>1 DEF c
  <2> QED
    BY <1>1, <2>1, <2>2, <2>3, <2>4
<1>4. ConfigKept'
  BY <1>1, <1>2, <1>3 DEF ConfigKept, Labels, Wrapping
<1>5. KeysKept'
  BY <1>1, <1>2 DEF IInv, KeysKept, Dispatching, Capturing
<1>6. GraphsKept'
  BY <1>1, <1>2 DEF GraphsKept
<1>7. ServedKept'
  BY <1>1, ServedSame DEF IInv
<1> QED
  BY <1>4, <1>5, <1>6, <1>7 DEF IInv

LEMMA LoadModelKeeps ==
    ASSUME IInv, LoadModel
    PROVE  IInv'
<1>1. /\ at = "configured" /\ option \in Options /\ option' = option /\ config' = config
      /\ keys = {} /\ todo = {} /\ graphs = {} /\ keys' = keys /\ todo' = todo /\ graphs' = graphs
      /\ UNCHANGED <<ready, mode, served>>
      /\ ConfigFits(option, config) /\ Pieces(option, config.mode)
  BY DEF IInv, ConfigKept, KeysKept, GraphsKept, Dispatching, Capturing, LoadModel
<1>2. at' \in {"refused", "loaded"}
  BY DEF LoadModel
<1>3. wrapper' = IF Implementation(option) = "breakable" /\ config.mode # "NONE" THEN "breakable"
                 ELSE IF HasFull(config.mode) THEN "full" ELSE "none"
  BY DEF LoadModel
<1>4. wrapper' \in {"none", "full", "breakable"}
  BY <1>3
<1>5. WrapperFits(option, config.mode, wrapper')
  <2>1. config.mode \in Modes
    BY <1>1, ConfigIs
  <2>2. HasPiecewise(config.mode) \/ HasFull(config.mode) => config.mode # "NONE"
    BY <2>1, HasModes
  <2> QED
    BY <1>1, <1>3, <2>2 DEF WrapperFits, Pieces
<1>6. ConfigKept'
  BY <1>1, <1>2, <1>5 DEF ConfigKept, Labels, Wrapping
<1>7. KeysKept'
  BY <1>1, <1>2, <1>4 DEF IInv, KeysKept, Dispatching, Capturing
<1>8. GraphsKept'
  BY <1>1, <1>2 DEF GraphsKept
<1>9. ServedKept'
  BY <1>1, ServedSame DEF IInv
<1> QED
  BY <1>6, <1>7, <1>8, <1>9 DEF IInv

\* The two KV caches: for the profile, and the one that serves.
LEMMA MakeCacheKeeps ==
    ASSUME IInv, NEW kind \in {"profiling", "real"}, NEW next \in {"profiling", "initialized"}, at \in {"loaded", "profiled"},
           (kind = "profiling" /\ next = "profiling") \/ (kind = "real" /\ next = "initialized"),
           MakeCache(kind, next), UNCHANGED <<option, wrapper, todo, graphs, served, loops>>
    PROVE  IInv'
<1>1. /\ option \in Options /\ option' = option /\ wrapper' = wrapper
      /\ keys = {} /\ todo = {} /\ graphs = {} /\ todo' = todo /\ graphs' = graphs
      /\ UNCHANGED served /\ at # "serving"
      /\ ConfigFits(option, config) /\ WrapperFits(option, config.mode, wrapper)
      /\ config.mode \in Modes
  <2>1. ConfigFits(option, config) /\ option \in Options
    BY DEF IInv, ConfigKept, Wrapping
  <2> QED
    BY <2>1, ConfigIs DEF IInv, ConfigKept, KeysKept, GraphsKept, Wrapping, Dispatching, Capturing
<1> DEFINE c == Resolved(option, config)
           refused == ResolveRefused(option, config) \/ CompileSizesRefused(c, c.mode)
<1>2. CASE refused
  <2>1. at' = "refused" /\ UNCHANGED <<config, ready, mode, keys, cache>>
    BY <1>2 DEF MakeCache
  <2>2. ConfigKept'
    BY <1>1, <2>1 DEF ConfigKept, Labels, Wrapping
  <2>3. KeysKept'
    BY <1>1, <2>1 DEF IInv, KeysKept, Dispatching, Capturing
  <2>4. GraphsKept'
    BY <1>1, <2>1 DEF GraphsKept
  <2>5. ServedKept'
    BY <1>1, ServedSame DEF IInv
  <2> QED
    BY <2>2, <2>3, <2>4, <2>5 DEF IInv
<1>3. CASE ~refused
  <2>1. /\ config' = c /\ mode' = c.mode /\ ready' = TRUE /\ cache' = kind /\ at' = next
        /\ keys' = KeysFor(option, c, c.mode)
    BY <1>1, <1>3 DEF MakeCache
  <2>2. ~ResolveRefused(option, config)
    BY <1>3
  <2>3. /\ ConfigFits(option, c) /\ Divides(option, c) /\ Resolved(option, c) = c
        /\ c.mode = ResolvedMode(option, config.mode)
    BY <1>1, <2>2, ResolvedFits
  <2> HIDE DEF c
  <2>4. WrapperFits(option, c.mode, wrapper)
    BY <1>1, <2>3, ModesKeep
  <2>5. c.mode \in Modes
    BY <1>1, <2>3, ConfigIs
  <2>6. at' \in {"profiling", "initialized"} /\ (at' = "profiling" <=> cache' = "profiling") /\ cache' \in {"profiling", "real"}
    BY <2>1
  <2>7. ConfigKept'
    BY <1>1, <2>1, <2>3, <2>4, <2>6 DEF ConfigKept, Labels, Wrapping
  <2>8. Dispatcher'
    BY <1>1, <2>1, <2>3 DEF Dispatcher
  <2>9. KeysKept'
    BY <1>1, <2>1, <2>5, <2>6, <2>8 DEF IInv, KeysKept, Dispatching, Capturing
  <2>10. GraphsKept'
    BY <1>1, <2>6 DEF GraphsKept
  <2>11. ServedKept'
    BY <1>1, ServedSame DEF IInv
  <2> QED
    BY <2>7, <2>9, <2>10, <2>11 DEF IInv
<1> QED
  BY <1>2, <1>3

LEMMA CaptureKeeps ==
    ASSUME IInv, NEW here \in Capturing, CaptureNext(here)
    PROVE  IInv'
<1> DEFINE k == First(todo)
           g == Graph(k)
<1>1. /\ at = here /\ todo # {} /\ todo' = todo \ {k} /\ DummyRun(k)
      /\ UNCHANGED <<option, config, wrapper, ready, mode, keys, cache, served>>
  BY DEF CaptureNext
<1>2. /\ at \in Wrapping /\ at \in Dispatching /\ at \in Capturing /\ at # "serving"
  BY <1>1 DEF Capturing, Wrapping, Dispatching
<1>3. /\ option \in Options /\ Dispatcher /\ WrapperFits(option, mode, wrapper)
      /\ todo \subseteq keys
  BY <1>2 DEF IInv, ConfigKept, KeysKept, Dispatcher
<1>4. k \in todo /\ k \in keys
  BY <1>1, <1>3, FirstIs
<1> HIDE DEF k
<1>5. at' = at /\ graphs' = graphs \cup {g}
  BY <1>1, <1>3, <1>4, DummyRuns DEF Graph
<1>6. \A l : Graph(l)' = Graph(l)
  BY <1>1 DEF Graph
<1>7. ConfigKept'
  BY <1>1, <1>5 DEF IInv, ConfigKept
<1>8. Dispatcher'
  BY <1>1, <1>3 DEF Dispatcher
<1>9. KeysKept'
  BY <1>1, <1>2, <1>4, <1>5, <1>8 DEF IInv, KeysKept
<1>10. GraphsKept'
  <2>1. graphs \subseteq {Graph(l) : l \in keys}
    BY DEF IInv, GraphsKept
  <2>2. graphs' \subseteq {Graph(l) : l \in keys}
    BY <1>4, <1>5, <2>1
  <2>3. graphs' \subseteq {Graph(l)' : l \in keys'}
    BY <1>1, <1>6, <2>2
  <2>4. ASSUME at' \in {"capturing", "serving"}, NEW l \in keys' \ todo' PROVE Graph(l)' \in graphs'
    <3>1. l \in keys \ todo \/ l = k
      BY <1>1, <2>4
    <3>2. l \in keys \ todo => Graph(l) \in graphs
      BY <1>5, <2>4 DEF IInv, GraphsKept
    <3> QED
      BY <1>5, <1>6, <3>1, <3>2
  <2> QED
    BY <2>3, <2>4 DEF GraphsKept
<1>11. ServedKept'
  BY <1>1, <1>2, ServedSame DEF IInv
<1> QED
  BY <1>7, <1>9, <1>10, <1>11 DEF IInv

LEMMA ProfileDescsKeeps ==
    ASSUME IInv, ProfileDescs
    PROVE  IInv'
<1>1. /\ at = "profiling" /\ at' = "sampling"
      /\ UNCHANGED <<option, config, wrapper, ready, mode, keys, cache, graphs, served>>
  BY DEF ProfileDescs
<1>2. option \in Options /\ Dispatcher
  BY <1>1 DEF IInv, ConfigKept, KeysKept, Dispatching
<1>3. todo' \subseteq keys
  <2> DEFINE P == OfMode(keys, "PIECEWISE")
             F == OfMode(keys, "FULL")
  <2>1. P \in SUBSET keys /\ F \in SUBSET keys
    BY DEF OfMode
  <2>2. todo' = TwoOf(P) \cup TwoOf(F)
    BY DEF ProfileDescs
  <2> HIDE DEF P, F
  <2>3. TwoOf(P) \subseteq P /\ TwoOf(F) \subseteq F
    BY <1>2, <2>1, TwoOfIs
  <2> QED
    BY <2>1, <2>2, <2>3
<1>4. ConfigKept'
  BY <1>1 DEF IInv, ConfigKept, Labels, Wrapping
<1>5. Dispatcher'
  BY <1>1, <1>2 DEF Dispatcher
<1>6. KeysKept'
  BY <1>1, <1>3, <1>5 DEF IInv, KeysKept, Dispatching, Capturing
<1>7. GraphsKept'
  BY <1>1 DEF IInv, GraphsKept, Graph
<1>8. ServedKept'
  BY <1>1, ServedSame DEF IInv
<1> QED
  BY <1>4, <1>6, <1>7, <1>8 DEF IInv

LEMMA ProfileEndsKeeps ==
    ASSUME IInv, ProfileEnds
    PROVE  IInv'
<1>1. /\ at = "sampling" /\ todo = {} /\ at' = "profiled"
      /\ UNCHANGED <<option, config, wrapper, mode, todo, served>>
  BY DEF ProfileEnds
<1>2. keys' = {} /\ ready' \in BOOLEAN
  BY DEF IInv, KeysKept, ProfileEnds
<1>3. graphs' = {}
  BY DEF IInv, GraphsKept, ProfileEnds
<1>4. ConfigKept'
  BY <1>1 DEF IInv, ConfigKept, Labels, Wrapping
<1>5. KeysKept'
  BY <1>1, <1>2 DEF IInv, KeysKept, Dispatching, Capturing
<1>6. GraphsKept'
  BY <1>1, <1>3 DEF GraphsKept
<1>7. ServedKept'
  BY <1>1, ServedSame DEF IInv
<1> QED
  BY <1>4, <1>5, <1>6, <1>7 DEF IInv

LEMMA StartCaptureKeeps ==
    ASSUME IInv, StartCapture
    PROVE  IInv'
<1>1. /\ at = "initialized" /\ at' = "capturing"
      /\ UNCHANGED <<option, config, wrapper, ready, mode, keys, cache, graphs, served>>
  BY DEF StartCapture
<1>2. Dispatcher
  BY <1>1 DEF IInv, KeysKept, Dispatching
<1>3. todo' = keys
  <2>1. config.mode = "NONE" => keys = {}
    BY <1>2 DEF Dispatcher, KeysFor, MixedKeys, DecodeKeys, MixedMode, DecodeMode, Separate
  <2> QED
    BY <2>1 DEF StartCapture
<1>4. ConfigKept'
  BY <1>1 DEF IInv, ConfigKept, Labels, Wrapping
<1>5. Dispatcher'
  BY <1>1, <1>2 DEF Dispatcher
<1>6. KeysKept'
  BY <1>1, <1>3, <1>5 DEF IInv, KeysKept, Dispatching, Capturing
<1>7. GraphsKept'
  BY <1>1, <1>3 DEF IInv, GraphsKept, Graph
<1>8. ServedKept'
  BY <1>1, ServedSame DEF IInv
<1> QED
  BY <1>4, <1>6, <1>7, <1>8 DEF IInv

LEMMA CaptureEndsKeeps ==
    ASSUME IInv, CaptureEnds
    PROVE  IInv'
<1>1. /\ at = "capturing" /\ at' = "serving" /\ todo = {}
      /\ UNCHANGED <<option, config, wrapper, ready, mode, keys, cache, todo, graphs, served>>
  BY DEF CaptureEnds
<1>2. Dispatcher
  BY <1>1 DEF IInv, KeysKept, Dispatching
<1>3. ConfigKept'
  BY <1>1 DEF IInv, ConfigKept, Labels, Wrapping
<1>4. Dispatcher'
  BY <1>1, <1>2 DEF Dispatcher
<1>5. KeysKept'
  BY <1>1, <1>4 DEF IInv, KeysKept, Dispatching, Capturing
<1>6. GraphsKept'
  BY <1>1 DEF IInv, GraphsKept, Graph
<1>7. ServedKept'
  <2>1. served = <<>> /\ served' = <<>>
    BY <1>1 DEF IInv, ServedKept
  <2> QED
    BY <2>1 DEF ServedKept, GraphFits, RanksAgree
<1> QED
  BY <1>3, <1>5, <1>6, <1>7 DEF IInv

LEMMA ServeKeeps ==
    ASSUME IInv, Serve
    PROVE  IInv'
<1>1. /\ at = "serving"
      /\ UNCHANGED <<option, config, wrapper, ready, mode, keys, cache, todo, graphs>>
  BY DEF Serve
<1>2. option \in Options /\ Dispatcher /\ todo = {} /\ keys \subseteq Keys
  <2>1. option \in Options /\ Dispatcher /\ todo = {}
    BY <1>1 DEF IInv, ConfigKept, KeysKept, Dispatching, Capturing
  <2> QED
    BY <2>1, KeysType
<1>3. PICK b1, b2 \in Batches(option) :
        LET bs == {b1, b2}
            got(b) == Chosen(bs, b)
            fails(b) == got(b)[1] # "NONE" /\ ~\E g \in graphs : g.key = got(b)
        IN /\ served' = <<[batch |-> b1, got |-> got(b1)], [batch |-> b2, got |-> got(b2)]>>
           /\ at' = IF fails(b1) \/ fails(b2) THEN "dead" ELSE "serving"
  BY DEF Serve
<1> DEFINE x == Chosen({b1, b2}, b1)
           y == Chosen({b1, b2}, b2)
           fits(b, k) == k[1] # "NONE" => /\ k \in keys /\ Holds(b, k)
                                          /\ b.cascade => k[1] = "PIECEWISE"
<1>4. fits(b1, x) /\ fits(b2, y)
  BY <1>2, ChosenIs
<1>5. option.dp > 1 => /\ x[1] = y[1]
                       /\ x[1] # "NONE" => x[2].tokens = y[2].tokens
  BY <1>2, ChosenAgree
<1>6. served' = <<[batch |-> b1, got |-> x], [batch |-> b2, got |-> y]>>
  BY <1>3
<1>7. at' = IF \/ x[1] # "NONE" /\ ~\E g \in graphs : g.key = x
               \/ y[1] # "NONE" /\ ~\E g \in graphs : g.key = y
            THEN "dead" ELSE "serving"
  BY <1>3
<1> HIDE DEF x, y
<1>8. \A k \in keys : \E g \in graphs : g.key = k
  <2> TAKE k \in keys
  <2>1. Graph(k) \in graphs
    BY <1>1, <1>2 DEF IInv, GraphsKept
  <2>2. Graph(k).key = k
    BY DEF Graph
  <2> QED
    BY <2>1, <2>2
<1>9. at' = "serving"
  BY <1>4, <1>7, <1>8
<1>10. ConfigKept'
  BY <1>1, <1>9 DEF IInv, ConfigKept
<1>11. Dispatcher'
  BY <1>1, <1>2 DEF Dispatcher
<1>12. KeysKept'
  BY <1>1, <1>9, <1>11 DEF IInv, KeysKept
<1>13. GraphsKept'
  BY <1>1, <1>9 DEF IInv, GraphsKept, Graph
<1>14. /\ served'[1].batch = b1 /\ served'[1].got = x /\ served'[2].batch = b2 /\ served'[2].got = y
       /\ Len(served') = 2
  BY <1>6
<1>15. GraphFits'
  <2> DEFINE good(b, k) == k[1] \in GraphModes =>
         /\ k[2].tokens >= b.tokens /\ (k[2].reqs = 0 \/ k[2].reqs >= b.reqs)
         /\ k[2].uniform => b.uniform
         /\ k[2].loras >= b.loras /\ (b.loras > 0 <=> k[2].loras > 0)
         /\ b.cascade => k[1] = "PIECEWISE"
  <2>1. good(b1, x) /\ good(b2, y)
    BY <1>4 DEF Holds, GraphModes
  <2>2. \A i \in 1 .. 2 : good(served'[i].batch, served'[i].got)
    <3> HIDE DEF good
    <3>1. \A i \in 1 .. 2 : i = 1 \/ i = 2
      OBVIOUS
    <3> QED
      BY <1>14, <2>1, <3>1
  <2> QED
    BY <1>14, <2>2 DEF GraphFits, GraphModes
<1>16. RanksAgree'
  BY <1>1, <1>5, <1>14 DEF RanksAgree
<1>17. ServedKept'
  BY <1>9, <1>15, <1>16 DEF ServedKept
<1> QED
  BY <1>10, <1>12, <1>13, <1>17 DEF IInv

LEMMA StepKeeps ==
    ASSUME IInv, [Next]_vars
    PROVE  IInv'
<1>1. CASE PostInit
  BY <1>1, PostInitKeeps
<1>2. CASE LoadModel
  BY <1>2, LoadModelKeeps
<1>3. CASE ProfileCache
  BY <1>3, MakeCacheKeeps DEF ProfileCache
<1>4. CASE Initialize
  BY <1>4, MakeCacheKeeps DEF Initialize
<1>5. CASE ProfileDescs
  BY <1>5, ProfileDescsKeeps
<1>6. CASE ProfileCapture
  BY <1>6, CaptureKeeps DEF ProfileCapture, Capturing
<1>7. CASE ProfileEnds
  BY <1>7, ProfileEndsKeeps
<1>8. CASE StartCapture
  BY <1>8, StartCaptureKeeps
<1>9. CASE Capture
  BY <1>9, CaptureKeeps DEF Capture, Capturing
<1>10. CASE CaptureEnds
  BY <1>10, CaptureEndsKeeps
<1>11. CASE Serve
  BY <1>11, ServeKeeps
<1>12. CASE UNCHANGED vars
  <2>1. UNCHANGED <<at, option, config, wrapper, ready, mode, keys, cache, todo, graphs, served>>
    BY <1>12 DEF vars
  <2>2. ConfigKept'
    BY <2>1 DEF IInv, ConfigKept
  <2>3. KeysKept'
    BY <2>1 DEF IInv, KeysKept, Dispatcher
  <2>4. GraphsKept'
    BY <2>1 DEF IInv, GraphsKept, Graph
  <2>5. ServedKept'
    BY <2>1 DEF IInv, ServedKept, GraphFits, RanksAgree
  <2> QED
    BY <2>2, <2>3, <2>4, <2>5 DEF IInv
<1> QED
  BY <1>1, <1>2, <1>3, <1>4, <1>5, <1>6, <1>7, <1>8, <1>9, <1>10, <1>11, <1>12 DEF Next

-----------------------------------------------------------------------------
(* What a capture records *)

Begin == <<[eager |-> FALSE, ops |-> <<>>]>>
Record(m, segments, op) == IF Breaks(m, op) THEN AddEager(segments, op) ELSE AddCaptured(segments, op)

\* The fold over the operations is a recursive function of the set of those
\* that are done.
D == 1 .. 5
Fold(m, w) ==
    [s \in SUBSET D |-> IF s = {} THEN Begin ELSE Record(m, w[s \ {Max(s)}], Operations[Max(s)])]

LEMMA DIs == IsFiniteSet(D) /\ Cardinality(D) = 5
<1>1. 1 \in Int /\ 5 \in Int
  OBVIOUS
<1>2. IsFiniteSet(1 .. 5)
  BY <1>1, FS_Interval
<1>3. Cardinality(1 .. 5) = IF 1 > 5 THEN 0 ELSE 5 - 1 + 1
  BY <1>1, FS_Interval, Zenon
<1>4. (IF 1 > 5 THEN 0 ELSE 5 - 1 + 1) = 5
  OBVIOUS
<1> QED
  BY <1>2, <1>3, <1>4 DEF D

LEMMA SegmentsFold ==
    ASSUME NEW m
    PROVE  Segments(m) = (CHOOSE w : w = Fold(m, w))[D]
<1>1. DOMAIN Operations = D
  BY DEF Operations, D
<1>2. Segments(m) = (CHOOSE w : w = [s \in SUBSET (DOMAIN Operations) |->
                        IF s = {} THEN Begin ELSE Record(m, w[s \ {Max(s)}], Operations[Max(s)])])[DOMAIN Operations]
  BY DEF Segments, FoldLeft, MapThenFoldSet, Record, Begin
<1> QED
  BY <1>1, <1>2 DEF Fold

\* One more application of Fold settles the sets with one element more.
Settled(m, w, k) == \A s \in SUBSET D : Cardinality(s) <= k => Fold(m, w)[s] = w[s]

LEMMA Settles ==
    ASSUME NEW m, NEW w, NEW k \in Nat, Settled(m, w, k)
    PROVE  Settled(m, Fold(m, w), k + 1)
<1> DEFINE v == Fold(m, w)
<1>1. v = [s \in SUBSET D |-> IF s = {} THEN Begin ELSE Record(m, w[s \ {Max(s)}], Operations[Max(s)])]
  BY DEF Fold
<1>2. Fold(m, v) = [s \in SUBSET D |-> IF s = {} THEN Begin ELSE Record(m, v[s \ {Max(s)}], Operations[Max(s)])]
  BY DEF Fold
<1> HIDE DEF v
<1>3. ASSUME NEW s \in SUBSET D, Cardinality(s) <= k + 1
      PROVE  Fold(m, v)[s] = v[s]
  <2>1. CASE s = {}
    BY <1>1, <1>2, <2>1
  <2>2. CASE s # {}
    <3> DEFINE x == Max(s)
               t == s \ {x}
    <3>1. x \in s
      <4>1. s \in SUBSET (0 .. 5)
        BY DEF D
      <4> QED
        BY <2>2, <4>1, MaxIs
    <3> HIDE DEF x
    <3>2. IsFiniteSet(D)
      BY DIs
    <3>3. IsFiniteSet(s)
      BY <3>2, FS_Subset
    <3>4. Cardinality(t) = Cardinality(s) - 1 /\ Cardinality(s) \in Nat
      BY <3>1, <3>3, FS_RemoveElement, FS_CardinalityType
    <3> DEFINE a == Cardinality(t)
               b == Cardinality(s)
    <3>5. a <= k
      <4>1. a = b - 1 /\ b \in Nat /\ b <= k + 1
        BY <1>3, <3>4
      <4> HIDE DEF a, b
      <4> QED
        BY <4>1
    <3>6. v[t] = w[t]
      BY <3>5 DEF Settled, v
    <3>7. Fold(m, v)[s] = Record(m, v[t], Operations[x]) /\ v[s] = Record(m, w[t], Operations[x])
      BY <1>1, <1>2, <2>2 DEF x
    <3> QED
      BY <3>6, <3>7
  <2> QED
    BY <2>1, <2>2
<1> QED
  BY <1>3 DEF Settled, v

LEMMA FoldExists ==
    ASSUME NEW m
    PROVE  \E w : w = Fold(m, w)
<1> DEFINE w0 == [s \in SUBSET D |-> Begin]
           w1 == Fold(m, w0)
           w2 == Fold(m, w1)
           w3 == Fold(m, w2)
           w4 == Fold(m, w3)
           w5 == Fold(m, w4)
<1>0. Settled(m, w0, 0)
  <2>1. \A s \in SUBSET D : Cardinality(s) <= 0 => s = {}
    <3> TAKE s \in SUBSET D
    <3>1. IsFiniteSet(s)
      BY DIs, FS_Subset
    <3>2. Cardinality(s) \in Nat /\ (Cardinality(s) = 0 <=> s = {})
      BY <3>1, FS_CardinalityType, FS_EmptySet
    <3> QED
      BY <3>2
  <2> QED
    BY <2>1 DEF Settled, Fold
<1> HIDE DEF w0
<1>1. Settled(m, w1, 1)
  BY <1>0, Settles
<1> HIDE DEF w1
<1>2. Settled(m, w2, 2)
  BY <1>1, Settles
<1> HIDE DEF w2
<1>3. Settled(m, w3, 3)
  BY <1>2, Settles
<1> HIDE DEF w3
<1>4. Settled(m, w4, 4)
  BY <1>3, Settles
<1> HIDE DEF w4
<1>5. Settled(m, w5, 5)
  BY <1>4, Settles
<1>6. w5 = [s \in SUBSET D |-> w5[s]]
  BY DEF Fold
<1> HIDE DEF w5
<1>7. \A s \in SUBSET D : Cardinality(s) <= 5
  <2> TAKE s \in SUBSET D
  <2>1. IsFiniteSet(D) /\ Cardinality(D) = 5
    BY DIs
  <2>2. Cardinality(s) <= Cardinality(D)
    BY <2>1, FS_Subset
  <2> QED
    BY <2>1, <2>2
<1>8. Fold(m, w5) = [s \in SUBSET D |-> Fold(m, w5)[s]]
  BY DEF Fold
<1>9. \A s \in SUBSET D : Fold(m, w5)[s] = w5[s]
  BY <1>5, <1>7 DEF Settled
<1>10. Fold(m, w5) = w5
  BY <1>6, <1>8, <1>9
<1> QED
  BY <1>10

LEMMA UpTo ==
    ASSUME NEW i \in 1 .. 5
    PROVE  Max(1 .. i) = i /\ (1 .. i) \ {Max(1 .. i)} = 1 .. (i - 1) /\ 1 .. i # {} /\ 1 .. i \in SUBSET D
<1> DEFINE S == 1 .. i
<1>1. S \in SUBSET (0 .. 5) /\ S # {} /\ i \in S
  OBVIOUS
<1>2. \A s \in S : s <= i /\ s \in Nat
  OBVIOUS
<1>3. S \ {i} = 1 .. (i - 1) /\ S \in SUBSET D
  BY DEF D
<1> HIDE DEF S
<1>4. Max(S) \in S /\ \A s \in S : s <= Max(S)
  BY <1>1, MaxIs
<1>5. Max(S) = i
  <2> DEFINE x == Max(S)
  <2>1. x \in Nat /\ x <= i /\ i <= x
    BY <1>1, <1>2, <1>4
  <2> HIDE DEF x
  <2>2. x = i
    BY <2>1
  <2> QED
    BY <2>2 DEF x
<1> QED
  BY <1>1, <1>3, <1>5 DEF S

\* So the segments are made in five steps.
LEMMA SegmentsSteps ==
    ASSUME NEW m
    PROVE  \E f : /\ f[0] = Begin /\ f[5] = Segments(m)
                  /\ \A i \in 1 .. 5 : f[i] = Record(m, f[i - 1], Operations[i])
<1> DEFINE w == CHOOSE v : v = Fold(m, v)
           f == [i \in 0 .. 5 |-> w[1 .. i]]
<1>1. w = Fold(m, w)
  BY FoldExists
<1>2. Segments(m) = w[D]
  BY SegmentsFold
<1> HIDE DEF w
<1>3. \A s \in SUBSET D : w[s] = IF s = {} THEN Begin ELSE Record(m, w[s \ {Max(s)}], Operations[Max(s)])
  BY <1>1 DEF Fold
<1>4. f[0] = Begin
  <2>1. 1 .. 0 = {}
    OBVIOUS
  <2>2. w[{}] = Begin
    BY <1>3
  <2> QED
    BY <2>1, <2>2
<1>5. f[5] = Segments(m)
  BY <1>2 DEF D
<1>6. ASSUME NEW i \in 1 .. 5 PROVE f[i] = Record(m, f[i - 1], Operations[i])
  <2>1. w[1 .. i] = Record(m, w[1 .. (i - 1)], Operations[i])
    <3> DEFINE s == 1 .. i
               t == 1 .. (i - 1)
    <3>1. Max(s) = i /\ s \ {Max(s)} = t /\ s # {} /\ s \in SUBSET D
      BY UpTo
    <3> HIDE DEF s, t
    <3>2. w[s] = Record(m, w[t], Operations[i])
      BY <1>3, <3>1
    <3> QED
      BY <3>2 DEF s, t
  <2>2. f[i] = w[1 .. i] /\ f[i - 1] = w[1 .. (i - 1)]
    OBVIOUS
  <2> QED
    BY <2>1, <2>2
<1> QED
  BY <1>4, <1>5, <1>6

LEMMA AppendHas ==
    \A S : \A s \in Seq(S), x \in S :
      /\ Append(s, x) \in Seq(S) /\ Len(Append(s, x)) = Len(s) + 1 /\ Append(s, x)[Len(s) + 1] = x
      /\ \A i \in 1 .. Len(s) : Append(s, x)[i] = s[i]
<1> TAKE S
<1> TAKE s \in Seq(S), x \in S
<1> QED
  OBVIOUS

\* Longer and longer tuples.
LEMMA Tuples ==
    ASSUME NEW S, NEW c \in S, NEW a \in S
    PROVE  /\ <<>> \in Seq(S) /\ <<c>> \in Seq(S) /\ <<a>> \in Seq(S) /\ <<c, a>> \in Seq(S)
           /\ <<c, a, c>> \in Seq(S) /\ <<c, a, c, a>> \in Seq(S) /\ <<c, a, c, a, c>> \in Seq(S)
           /\ Append(<<>>, c) = <<c>> /\ Append(<<c>>, a) = <<c, a>>
           /\ Append(<<c, a>>, c) = <<c, a, c>> /\ Append(<<c, a, c>>, a) = <<c, a, c, a>>
           /\ Append(<<c, a, c, a>>, c) = <<c, a, c, a, c>>
<1>0. /\ <<>> \in Seq(S) /\ <<c>> \in Seq(S) /\ <<a>> \in Seq(S) /\ <<c, a>> \in Seq(S)
      /\ <<c, a, c>> \in Seq(S) /\ <<c, a, c, a>> \in Seq(S) /\ <<c, a, c, a, c>> \in Seq(S)
  OBVIOUS
<1>1. Append(<<>>, c) = <<c>>
  OBVIOUS
<1>2. Append(<<c>>, a) = <<c, a>>
  <2> DEFINE s == <<c>>
             u == <<c, a>>
             t == Append(s, a)
  <2>1. s \in Seq(S) /\ Len(s) = 1 /\ u \in Seq(S) /\ Len(u) = 2 /\ u[2] = a
    OBVIOUS
  <2>2. s[1] = u[1]
    OBVIOUS
  <2> HIDE DEF s, u
  <2>3. t \in Seq(S) /\ Len(t) = 2 /\ t[2] = a /\ \A i \in 1 .. 1 : t[i] = s[i]
    <3>0. s \in Seq(S)
      BY <2>1
    <3>1. /\ t \in Seq(S) /\ Len(t) = Len(s) + 1 /\ t[Len(s) + 1] = a
          /\ \A i \in 1 .. Len(s) : t[i] = s[i]
      BY <3>0, AppendHas
    <3>2. 1 + 1 = 2
      OBVIOUS
    <3> HIDE DEF t
    <3> QED
      BY <2>1, <3>1, <3>2
  <2> HIDE DEF t
  <2>4. t[1] = s[1]
    BY <2>3
  <2>5. \A i \in 1 .. 2 : t[i] = u[i]
    <3>1. \A i \in 1 .. 2 : i = 1 \/ i = 2
      OBVIOUS
    <3> QED
      BY <2>1, <2>2, <2>3, <2>4, <3>1
  <2>6. t = u
    BY <2>1, <2>3, <2>5, SeqEqual
  <2> QED
    BY <2>6 DEF s, u, t
<1>3. Append(<<c, a>>, c) = <<c, a, c>>
  <2> DEFINE s == <<c, a>>
             u == <<c, a, c>>
             t == Append(s, c)
  <2>1. s \in Seq(S) /\ Len(s) = 2 /\ u \in Seq(S) /\ Len(u) = 3 /\ u[3] = c
    OBVIOUS
  <2>2. s[1] = u[1] /\ s[2] = u[2]
    OBVIOUS
  <2> HIDE DEF s, u
  <2>3. t \in Seq(S) /\ Len(t) = 3 /\ t[3] = c /\ \A i \in 1 .. 2 : t[i] = s[i]
    <3>0. s \in Seq(S)
      BY <2>1
    <3>1. /\ t \in Seq(S) /\ Len(t) = Len(s) + 1 /\ t[Len(s) + 1] = c
          /\ \A i \in 1 .. Len(s) : t[i] = s[i]
      BY <3>0, AppendHas
    <3>2. 2 + 1 = 3
      OBVIOUS
    <3> HIDE DEF t
    <3> QED
      BY <2>1, <3>1, <3>2
  <2> HIDE DEF t
  <2>4. t[1] = s[1] /\ t[2] = s[2]
    BY <2>3
  <2>5. \A i \in 1 .. 3 : t[i] = u[i]
    <3>1. \A i \in 1 .. 3 : i = 1 \/ i = 2 \/ i = 3
      OBVIOUS
    <3> QED
      BY <2>1, <2>2, <2>3, <2>4, <3>1
  <2>6. t = u
    BY <2>1, <2>3, <2>5, SeqEqual
  <2> QED
    BY <2>6 DEF s, u, t
<1>4. Append(<<c, a, c>>, a) = <<c, a, c, a>>
  <2> DEFINE s == <<c, a, c>>
             u == <<c, a, c, a>>
             t == Append(s, a)
  <2>1. s \in Seq(S) /\ Len(s) = 3 /\ u \in Seq(S) /\ Len(u) = 4 /\ u[4] = a
    OBVIOUS
  <2>2. s[1] = u[1] /\ s[2] = u[2] /\ s[3] = u[3]
    OBVIOUS
  <2> HIDE DEF s, u
  <2>3. t \in Seq(S) /\ Len(t) = 4 /\ t[4] = a /\ \A i \in 1 .. 3 : t[i] = s[i]
    <3>0. s \in Seq(S)
      BY <2>1
    <3>1. /\ t \in Seq(S) /\ Len(t) = Len(s) + 1 /\ t[Len(s) + 1] = a
          /\ \A i \in 1 .. Len(s) : t[i] = s[i]
      BY <3>0, AppendHas
    <3>2. 3 + 1 = 4
      OBVIOUS
    <3> HIDE DEF t
    <3> QED
      BY <2>1, <3>1, <3>2
  <2> HIDE DEF t
  <2>4. t[1] = s[1] /\ t[2] = s[2] /\ t[3] = s[3]
    BY <2>3
  <2>5. \A i \in 1 .. 4 : t[i] = u[i]
    <3>1. \A i \in 1 .. 4 : i = 1 \/ i = 2 \/ i = 3 \/ i = 4
      OBVIOUS
    <3> QED
      BY <2>1, <2>2, <2>3, <2>4, <3>1
  <2>6. t = u
    BY <2>1, <2>3, <2>5, SeqEqual
  <2> QED
    BY <2>6 DEF s, u, t
<1>5. Append(<<c, a, c, a>>, c) = <<c, a, c, a, c>>
  <2> DEFINE s == <<c, a, c, a>>
             u == <<c, a, c, a, c>>
             t == Append(s, c)
  <2>1. s \in Seq(S) /\ Len(s) = 4 /\ u \in Seq(S) /\ Len(u) = 5 /\ u[5] = c
    OBVIOUS
  <2>2. s[1] = u[1] /\ s[2] = u[2] /\ s[3] = u[3] /\ s[4] = u[4]
    OBVIOUS
  <2> HIDE DEF s, u
  <2>3. t \in Seq(S) /\ Len(t) = 5 /\ t[5] = c /\ \A i \in 1 .. 4 : t[i] = s[i]
    <3>0. s \in Seq(S)
      BY <2>1
    <3>1. /\ t \in Seq(S) /\ Len(t) = Len(s) + 1 /\ t[Len(s) + 1] = c
          /\ \A i \in 1 .. Len(s) : t[i] = s[i]
      BY <3>0, AppendHas
    <3>2. 4 + 1 = 5
      OBVIOUS
    <3> HIDE DEF t
    <3> QED
      BY <2>1, <3>1, <3>2
  <2> HIDE DEF t
  <2>4. t[1] = s[1] /\ t[2] = s[2] /\ t[3] = s[3] /\ t[4] = s[4]
    BY <2>3
  <2>5. \A i \in 1 .. 5 : t[i] = u[i]
    <3>1. \A i \in 1 .. 5 : i = 1 \/ i = 2 \/ i = 3 \/ i = 4 \/ i = 5
      OBVIOUS
    <3> QED
      BY <2>1, <2>2, <2>3, <2>4, <3>1
  <2>6. t = u
    BY <2>1, <2>3, <2>5, SeqEqual
  <2> QED
    BY <2>6 DEF s, u, t
<1> QED
  BY <1>0, <1>1, <1>2, <1>3, <1>4, <1>5

Kinds == {"compute", "attention"}
Segment == [eager : BOOLEAN, ops : Seq(Kinds)]
Seg(e, ops) == [eager |-> e, ops |-> ops]

LEMMA SegIs ==
    /\ \A e \in BOOLEAN, o \in Seq(Kinds) : Seg(e, o) \in Segment
    /\ \A e, o : Seg(e, o).eager = e /\ Seg(e, o).ops = o
    /\ \A e, o, q : [Seg(e, o) EXCEPT !.ops = q] = Seg(e, q)
<1>1. \A e \in BOOLEAN, o \in Seq(Kinds) : Seg(e, o) \in Segment
  BY DEF Seg, Segment
<1>2. \A e, o : Seg(e, o).eager = e /\ Seg(e, o).ops = o
  BY DEF Seg
<1>3. \A e, o, q : [Seg(e, o) EXCEPT !.ops = q] = Seg(e, q)
  <2> TAKE e, o, q
  <2>1. [[eager |-> e, ops |-> o] EXCEPT !.ops = q] = [eager |-> e, ops |-> q]
    OBVIOUS
  <2> QED
    BY <2>1 DEF Seg
<1> QED
  BY <1>1, <1>2, <1>3

\* What is captured goes to the end of the last segment.
LEMMA Captures ==
    \A p \in Seq(Segment), e \in BOOLEAN, o \in Seq(Kinds), c \in Kinds :
      AddCaptured(Append(p, Seg(e, o)), c) = Append(p, Seg(e, Append(o, c)))
<1> TAKE p \in Seq(Segment), e \in BOOLEAN, o \in Seq(Kinds), c \in Kinds
<1> DEFINE x == Seg(e, o)
           s == Append(p, x)
           n == Len(p)
           q == Append(o, c)
           y == Seg(e, q)
           t == [s EXCEPT ![Len(s)].ops = q]
           u == Append(p, y)
<1>1. x \in Segment /\ y \in Segment
  <2>1. q \in Seq(Kinds)
    OBVIOUS
  <2> QED
    BY <2>1, SegIs
<1>2. n \in Nat
  OBVIOUS
<1>5. [x EXCEPT !.ops = q] = y /\ x.ops = o
  BY SegIs
<1> HIDE DEF x, y
<1>3. /\ s \in Seq(Segment) /\ Len(s) = n + 1 /\ s[n + 1] = x /\ \A i \in 1 .. n : s[i] = p[i]
  BY <1>1, AppendHas
<1>3a. s = [i \in 1 .. n + 1 |-> s[i]]
  <2> HIDE DEF s
  <2> QED
    BY <1>3
<1>4. /\ u \in Seq(Segment) /\ Len(u) = n + 1 /\ u[n + 1] = y /\ \A i \in 1 .. n : u[i] = p[i]
  BY <1>1, AppendHas
<1>4a. u = [i \in 1 .. n + 1 |-> u[i]]
  <2> HIDE DEF u
  <2> QED
    BY <1>4
<1>6. AddCaptured(s, c) = t
  <2> HIDE DEF n, x
  <2>1. s[Len(s)].ops = o
    <3> HIDE DEF s
    <3> QED
      BY <1>3, <1>5
  <2> HIDE DEF s
  <2> QED
    BY <2>1 DEF AddCaptured
<1> HIDE DEF s, n, q, u
<1>7. t = [i \in 1 .. n + 1 |-> IF i = n + 1 THEN [s[i] EXCEPT !.ops = q] ELSE s[i]]
  BY <1>3, <1>3a
<1>8. \A i \in 1 .. n + 1 : i # n + 1 => i \in 1 .. n
  BY <1>2
<1>9. \A i \in 1 .. n + 1 : (IF i = n + 1 THEN [s[i] EXCEPT !.ops = q] ELSE s[i]) = u[i]
  BY <1>3, <1>4, <1>5, <1>8
<1>10. t = [i \in 1 .. n + 1 |-> u[i]]
  <2> HIDE DEF t
  <2> QED
    BY <1>7, <1>9
<1>11. AddCaptured(s, c) = u
  BY <1>4a, <1>6, <1>10
<1> QED
  BY <1>11 DEF s, u, q, x, y

LEMMA OperationsAre ==
    /\ Operations[1] = "compute" /\ Operations[2] = "attention" /\ Operations[3] = "compute"
    /\ Operations[4] = "attention" /\ Operations[5] = "compute"
BY DEF Operations

LEMMA FullSegments ==
    Segments("FULL") = Append(<<>>, Seg(FALSE, Operations))
<1> DEFINE c == "compute"
           a == "attention"
           o0 == <<>>
           o1 == <<c>>
           o2 == <<c, a>>
           o3 == <<c, a, c>>
           o4 == <<c, a, c, a>>
           g(o) == Append(<<>>, Seg(FALSE, o))
           R(x, o) == Record("FULL", x, o)
<1>1. PICK f : /\ f[0] = Begin /\ f[5] = Segments("FULL")
               /\ \A i \in 1 .. 5 : f[i] = R(f[i - 1], Operations[i])
  BY SegmentsSteps
<1>2. c \in Kinds /\ a \in Kinds
  BY DEF Kinds
<1>3. /\ o0 \in Seq(Kinds) /\ o1 \in Seq(Kinds) /\ o2 \in Seq(Kinds) /\ o3 \in Seq(Kinds) /\ o4 \in Seq(Kinds)
      /\ Append(o0, c) = o1 /\ Append(o1, a) = o2 /\ Append(o2, c) = o3
      /\ Append(o3, a) = o4 /\ Append(o4, c) = Operations
  BY <1>2, Tuples DEF Operations
<1>4. f[0] = g(o0)
  <2>1. Begin = <<Seg(FALSE, <<>>)>>
    BY DEF Begin, Seg
  <2> DEFINE z == Seg(FALSE, <<>>)
  <2>2. <<z>> = Append(<<>>, z)
    OBVIOUS
  <2> QED
    BY <1>1, <2>1, <2>2
<1>7. /\ f[1] = R(f[0], c) /\ f[2] = R(f[1], a) /\ f[3] = R(f[2], c) /\ f[4] = R(f[3], a) /\ f[5] = R(f[4], c)
  BY <1>1, OperationsAre
<1>8. \A o \in Seq(Kinds), x \in Kinds : R(g(o), x) = g(Append(o, x))
  <2> TAKE o \in Seq(Kinds), x \in Kinds
  <2>1. <<>> \in Seq(Segment)
    OBVIOUS
  <2>2. AddCaptured(g(o), x) = g(Append(o, x))
    BY <2>1, Captures
  <2> QED
    BY <2>2 DEF Record, Breaks
<1> HIDE DEF g, c, a, o0, o1, o2, o3, o4, R
<1>9. R(g(o0), c) = g(o1)
  BY <1>2, <1>3, <1>8
<1>10. R(g(o1), a) = g(o2)
  BY <1>2, <1>3, <1>8
<1>11. R(g(o2), c) = g(o3)
  BY <1>2, <1>3, <1>8
<1>12. R(g(o3), a) = g(o4)
  BY <1>2, <1>3, <1>8
<1>13. R(g(o4), c) = g(Operations)
  BY <1>2, <1>3, <1>8
<1>14. f[5] = g(Operations)
  BY <1>4, <1>7, <1>9, <1>10, <1>11, <1>12, <1>13, Zenon
<1> QED
  BY <1>1, <1>14 DEF g

LEMMA PieceSegments ==
    \E p \in Seq(Segment) :
      /\ p = Segments("PIECEWISE") /\ Len(p) = 5
      /\ p[1] = Seg(FALSE, <<"compute">>) /\ p[2] = Seg(TRUE, <<"attention">>)
      /\ p[3] = Seg(FALSE, <<"compute">>) /\ p[4] = Seg(TRUE, <<"attention">>)
      /\ p[5] = Seg(FALSE, <<"compute">>)
<1>1. PICK f : /\ f[0] = Begin /\ f[5] = Segments("PIECEWISE")
               /\ \A i \in 1 .. 5 : f[i] = Record("PIECEWISE", f[i - 1], Operations[i])
  BY SegmentsSteps
<1>4. /\ f[1] = AddCaptured(f[0], "compute") /\ f[2] = AddEager(f[1], "attention")
      /\ f[3] = AddCaptured(f[2], "compute") /\ f[4] = AddEager(f[3], "attention")
      /\ f[5] = AddCaptured(f[4], "compute")
  <2>1. /\ f[1] = Record("PIECEWISE", f[0], "compute") /\ f[2] = Record("PIECEWISE", f[1], "attention")
        /\ f[3] = Record("PIECEWISE", f[2], "compute") /\ f[4] = Record("PIECEWISE", f[3], "attention")
        /\ f[5] = Record("PIECEWISE", f[4], "compute")
    BY <1>1, OperationsAre
  <2> QED
    BY <2>1 DEF Record, Breaks
<1> DEFINE r == Seg(FALSE, <<"compute">>)
           e == Seg(TRUE, <<"attention">>)
           z == Seg(FALSE, <<>>)
           q1 == Append(<<>>, r)
           q2 == Append(q1, e)
           q3 == Append(q2, r)
           q4 == Append(q3, e)
           q5 == Append(q4, r)
<1>2. "compute" \in Kinds /\ "attention" \in Kinds
  BY DEF Kinds
<1>3. <<"compute">> \in Seq(Kinds) /\ <<"attention">> \in Seq(Kinds) /\ <<>> \in Seq(Kinds) /\ Append(<<>>, "compute") = <<"compute">>
  BY <1>2, Tuples
<1>5. r \in Segment /\ e \in Segment /\ z \in Segment
  BY <1>3, SegIs
<1>6. \A p \in Seq(Segment) : AddCaptured(Append(p, z), "compute") = Append(p, r)
  <2> TAKE p \in Seq(Segment)
  <2>1. AddCaptured(Append(p, Seg(FALSE, <<>>)), "compute") = Append(p, Seg(FALSE, Append(<<>>, "compute")))
    BY <1>2, <1>3, Captures
  <2> QED
    BY <1>3, <2>1
<1>7. \A s : AddEager(s, "attention") = Append(Append(s, e), z)
  BY DEF AddEager, Seg
<1>8. f[0] = Append(<<>>, z)
  <2>1. Begin = <<z>>
    BY DEF Begin, Seg
  <2> HIDE DEF z
  <2>2. <<z>> = Append(<<>>, z)
    OBVIOUS
  <2> QED
    BY <1>1, <2>1, <2>2
<1> HIDE DEF r, e, z
<1>9. q1 \in Seq(Segment) /\ Len(q1) = 1 /\ q1[1] = r
  BY <1>5
<1>10. f[1] = q1
  <2>1. <<>> \in Seq(Segment)
    OBVIOUS
  <2> QED
    BY <1>4, <1>6, <1>8, <2>1
<1> HIDE DEF q1
<1>11. q2 \in Seq(Segment) /\ Len(q2) = 2 /\ q2[1] = r /\ q2[2] = e
  <2>1. q1 \in Seq(Segment) /\ e \in Segment
    BY <1>5, <1>9
  <2>2. /\ q2 \in Seq(Segment) /\ Len(q2) = Len(q1) + 1 /\ q2[Len(q1) + 1] = e
        /\ \A i \in 1 .. Len(q1) : q2[i] = q1[i]
    BY <2>1, AppendHas
  <2> HIDE DEF q2
  <2> QED
    BY <1>9, <2>2
<1>12. f[2] = Append(q2, z)
  BY <1>4, <1>7, <1>10
<1> HIDE DEF q2
<1>13. q3 \in Seq(Segment) /\ Len(q3) = 3 /\ q3[1] = r /\ q3[2] = e /\ q3[3] = r
  <2>1. q2 \in Seq(Segment) /\ r \in Segment
    BY <1>5, <1>11
  <2>2. /\ q3 \in Seq(Segment) /\ Len(q3) = Len(q2) + 1 /\ q3[Len(q2) + 1] = r
        /\ \A i \in 1 .. Len(q2) : q3[i] = q2[i]
    BY <2>1, AppendHas
  <2> HIDE DEF q3
  <2> QED
    BY <1>11, <2>2
<1>14. f[3] = q3
  BY <1>4, <1>6, <1>11, <1>12
<1> HIDE DEF q3
<1>15. q4 \in Seq(Segment) /\ Len(q4) = 4 /\ q4[1] = r /\ q4[2] = e /\ q4[3] = r /\ q4[4] = e
  <2>1. q3 \in Seq(Segment) /\ e \in Segment
    BY <1>5, <1>13
  <2>2. /\ q4 \in Seq(Segment) /\ Len(q4) = Len(q3) + 1 /\ q4[Len(q3) + 1] = e
        /\ \A i \in 1 .. Len(q3) : q4[i] = q3[i]
    BY <2>1, AppendHas
  <2> HIDE DEF q4
  <2> QED
    BY <1>13, <2>2
<1>16. f[4] = Append(q4, z)
  BY <1>4, <1>7, <1>14
<1> HIDE DEF q4
<1>17. q5 \in Seq(Segment) /\ Len(q5) = 5 /\ q5[1] = r /\ q5[2] = e /\ q5[3] = r /\ q5[4] = e /\ q5[5] = r
  <2>1. q4 \in Seq(Segment) /\ r \in Segment
    BY <1>5, <1>15
  <2>2. /\ q5 \in Seq(Segment) /\ Len(q5) = Len(q4) + 1 /\ q5[Len(q4) + 1] = r
        /\ \A i \in 1 .. Len(q4) : q5[i] = q4[i]
    BY <2>1, AppendHas
  <2> HIDE DEF q5
  <2> QED
    BY <1>15, <2>2
<1>18. f[5] = q5
  BY <1>4, <1>6, <1>15, <1>16
<1> HIDE DEF q5
<1> QED
  BY <1>1, <1>17, <1>18 DEF r, e

LEMMA FlattenSteps ==
    \A q : \A n \in 1 .. 5 : Len(q) = n =>
      \E f : /\ f[1] = q[1] /\ f[n] = FlattenSeq(q)
             /\ \A i \in 2 .. n : f[i] = f[i - 1] \o q[i]
<1> TAKE q
<1> TAKE n \in 1 .. 5
<1> HAVE Len(q) = n
<1> DEFINE F(v) == [i \in 1 .. n |-> IF i = 1 THEN q[i] ELSE v[i - 1] \o q[i]]
           w == CHOOSE v : v = F(v)
           x1 == q[1]
           x2 == x1 \o q[2]
           x3 == x2 \o q[3]
           x4 == x3 \o q[4]
           x5 == x4 \o q[5]
           h == [i \in 1 .. n |-> IF i = 1 THEN x1 ELSE IF i = 2 THEN x2 ELSE IF i = 3 THEN x3 ELSE IF i = 4 THEN x4 ELSE x5]
<1>1. FlattenSeq(q) = w[n]
  <2>1. n # 0
    OBVIOUS
  <2> QED
    BY <2>1 DEF FlattenSeq
<1>2. \A i \in 1 .. n : h[i] = (IF i = 1 THEN q[i] ELSE h[i - 1] \o q[i])
  <2> TAKE i \in 1 .. n
  <2>0. x1 = q[1] /\ x2 = x1 \o q[2] /\ x3 = x2 \o q[3] /\ x4 = x3 \o q[4] /\ x5 = x4 \o q[5]
    OBVIOUS
  <2> HIDE DEF x1, x2, x3, x4, x5
  <2>1. i = 1 \/ i = 2 \/ i = 3 \/ i = 4 \/ i = 5
    OBVIOUS
  <2>2. CASE i = 1
    BY <2>0, <2>2
  <2>3. CASE i = 2
    <3>1. h[1] = x1 /\ h[2] = x2
      BY <2>3
    <3>2. i # 1 /\ i - 1 = 1
      BY <2>3
    <3> HIDE DEF h
    <3>3. h[2] = h[1] \o q[2]
      BY <2>0, <3>1, Zenon
    <3>4. h[i] = h[i - 1] \o q[i]
      BY <2>3, <3>2, <3>3, Zenon
    <3> QED
      BY <3>2, <3>4
  <2>4. CASE i = 3
    <3>1. h[2] = x2 /\ h[3] = x3
      BY <2>4
    <3>2. i # 1 /\ i - 1 = 2
      BY <2>4
    <3> HIDE DEF h
    <3>3. h[3] = h[2] \o q[3]
      BY <2>0, <3>1, Zenon
    <3>4. h[i] = h[i - 1] \o q[i]
      BY <2>4, <3>2, <3>3, Zenon
    <3> QED
      BY <3>2, <3>4
  <2>5. CASE i = 4
    <3>1. h[3] = x3 /\ h[4] = x4
      BY <2>5
    <3>2. i # 1 /\ i - 1 = 3
      BY <2>5
    <3> HIDE DEF h
    <3>3. h[4] = h[3] \o q[4]
      BY <2>0, <3>1, Zenon
    <3>4. h[i] = h[i - 1] \o q[i]
      BY <2>5, <3>2, <3>3, Zenon
    <3> QED
      BY <3>2, <3>4
  <2>6. CASE i = 5
    <3>1. h[4] = x4 /\ h[5] = x5
      BY <2>6
    <3>2. i # 1 /\ i - 1 = 4
      BY <2>6
    <3> HIDE DEF h
    <3>3. h[5] = h[4] \o q[5]
      BY <2>0, <3>1, Zenon
    <3>4. h[i] = h[i - 1] \o q[i]
      BY <2>6, <3>2, <3>3, Zenon
    <3> QED
      BY <3>2, <3>4
  <2> QED
    BY <2>1, <2>2, <2>3, <2>4, <2>5, <2>6
<1>3. h = F(h)
  <2>1. h = [i \in 1 .. n |-> h[i]]
    OBVIOUS
  <2> HIDE DEF h
  <2> QED
    BY <1>2, <2>1
<1> HIDE DEF h
<1>4. w = F(w)
  <2> HIDE DEF F
  <2> QED
    BY <1>3
<1> HIDE DEF w
<1>5. w[1] = q[1] /\ \A i \in 2 .. n : w[i] = w[i - 1] \o q[i]
  <2>1. \A i \in 1 .. n : w[i] = (IF i = 1 THEN q[i] ELSE w[i - 1] \o q[i])
    BY <1>4
  <2>2. 1 \in 1 .. n /\ \A i \in 2 .. n : i \in 1 .. n /\ i # 1
    OBVIOUS
  <2> QED
    BY <2>1, <2>2
<1> QED
  BY <1>1, <1>5

\* A graph of one piece.
LEMMA FullReplays ==
    LET p == Segments("FULL")
    IN  FlattenSeq([i \in 1 .. Len(p) |-> p[i].ops]) = Operations
<1> DEFINE p == Segments("FULL")
           q == [i \in 1 .. Len(p) |-> p[i].ops]
<1>1. Len(p) = 1 /\ p[1].ops = Operations
  <2> DEFINE s == Seg(FALSE, Operations)
  <2>1. s.ops = Operations /\ p = Append(<<>>, s)
    BY SegIs, FullSegments
  <2> HIDE DEF s
  <2>2. Append(<<>>, s) = <<s>>
    OBVIOUS
  <2> QED
    BY <2>1, <2>2
<1> HIDE DEF p
<1>2. Len(q) = 1 /\ q[1] = Operations
  <2>1. q = [i \in 1 .. 1 |-> p[i].ops]
    BY <1>1
  <2> QED
    BY <1>1, <2>1
<1> HIDE DEF q
<1>3. PICK f : f[1] = q[1] /\ f[1] = FlattenSeq(q)
  <2>1. 1 \in 1 .. 5
    OBVIOUS
  <2> QED
    BY <1>2, <2>1, FlattenSteps
<1> QED
  BY <1>2, <1>3 DEF q, p

\* A graph of captured pieces with eager attention between them.
LEMMA PieceReplays ==
    LET p == Segments("PIECEWISE")
    IN  /\ FlattenSeq([i \in 1 .. Len(p) |-> p[i].ops]) = Operations
        /\ \A i \in 1 .. Len(p) : "attention" \in ToSet(p[i].ops) => p[i].eager
<1> DEFINE p == Segments("PIECEWISE")
           q == [i \in 1 .. Len(p) |-> p[i].ops]
           c == "compute"
           a == "attention"
<1>1. /\ Len(p) = 5 /\ p[1] = Seg(FALSE, <<c>>) /\ p[2] = Seg(TRUE, <<a>>) /\ p[3] = Seg(FALSE, <<c>>)
      /\ p[4] = Seg(TRUE, <<a>>) /\ p[5] = Seg(FALSE, <<c>>)
  BY PieceSegments
<1> HIDE DEF p
<1>2. /\ p[1].ops = <<c>> /\ p[2].ops = <<a>> /\ p[3].ops = <<c>> /\ p[4].ops = <<a>> /\ p[5].ops = <<c>>
      /\ p[2].eager = TRUE /\ p[4].eager = TRUE
  <2> DEFINE r == Seg(FALSE, <<c>>)
             e == Seg(TRUE, <<a>>)
  <2>1. r.ops = <<c>> /\ e.ops = <<a>>
    <3>1. \A b, o : Seg(b, o).ops = o
      BY SegIs
    <3> QED
      BY <3>1
  <2>2. e.eager = TRUE
    BY SegIs, Zenon
  <2> HIDE DEF r, e
  <2>3. p[1] = r /\ p[2] = e /\ p[3] = r /\ p[4] = e /\ p[5] = r
    BY <1>1 DEF r, e
  <2>4. p[2].eager = TRUE /\ p[4].eager = TRUE
    BY <2>2, <2>3, Zenon
  <2> QED
    BY <2>1, <2>3, <2>4
<1>3. \A i \in 1 .. Len(p) : i = 1 \/ i = 2 \/ i = 3 \/ i = 4 \/ i = 5
  BY <1>1
<1>4. Len(q) = 5 /\ q[1] = <<c>> /\ q[2] = <<a>> /\ q[3] = <<c>> /\ q[4] = <<a>> /\ q[5] = <<c>>
  <2> DEFINE v(i) == p[i].ops
  <2>1. q = [i \in 1 .. 5 |-> v(i)]
    BY <1>1
  <2>2. v(1) = <<c>> /\ v(2) = <<a>> /\ v(3) = <<c>> /\ v(4) = <<a>> /\ v(5) = <<c>>
    BY <1>2
  <2> HIDE DEF v, q
  <2>3. Len(q) = 5 /\ \A i \in 1 .. 5 : q[i] = v(i)
    BY <2>1
  <2>4. q[1] = v(1) /\ q[2] = v(2) /\ q[3] = v(3) /\ q[4] = v(4) /\ q[5] = v(5)
    BY <2>3
  <2> QED
    BY <2>2, <2>3, <2>4
<1> HIDE DEF q
<1>5. FlattenSeq(q) = Operations
  <2>1. PICK f : /\ f[1] = q[1] /\ f[5] = FlattenSeq(q)
                 /\ \A i \in 2 .. 5 : f[i] = f[i - 1] \o q[i]
    <3>1. 5 \in 1 .. 5
      OBVIOUS
    <3> QED
      BY <1>4, <3>1, FlattenSteps
  <2>2. f[2] = f[1] \o <<a>> /\ f[3] = f[2] \o <<c>> /\ f[4] = f[3] \o <<a>> /\ f[5] = f[4] \o <<c>>
    <3>1. f[2] = f[1] \o q[2] /\ f[3] = f[2] \o q[3] /\ f[4] = f[3] \o q[4] /\ f[5] = f[4] \o q[5]
      <4>1. 2 \in 2 .. 5 /\ 3 \in 2 .. 5 /\ 4 \in 2 .. 5 /\ 5 \in 2 .. 5
        OBVIOUS
      <4>2. 2 - 1 = 1 /\ 3 - 1 = 2 /\ 4 - 1 = 3 /\ 5 - 1 = 4
        OBVIOUS
      <4>3. f[2] = f[2 - 1] \o q[2] /\ f[3] = f[3 - 1] \o q[3] /\ f[4] = f[4 - 1] \o q[4] /\ f[5] = f[5 - 1] \o q[5]
        BY <2>1, <4>1, Zenon
      <4> QED
        BY <4>2, <4>3, Zenon
    <3> QED
      BY <1>4, <3>1, Zenon
  <2> DEFINE o1 == <<c>>
             o2 == <<c, a>>
             o3 == <<c, a, c>>
             o4 == <<c, a, c, a>>
  <2>3. c \in Kinds /\ a \in Kinds
    BY DEF Kinds
  <2>4. /\ o1 \in Seq(Kinds) /\ o2 \in Seq(Kinds) /\ o3 \in Seq(Kinds) /\ o4 \in Seq(Kinds)
        /\ Append(o1, a) = o2 /\ Append(o2, c) = o3 /\ Append(o3, a) = o4 /\ Append(o4, c) = Operations
    BY <2>3, Tuples DEF Operations
  <2> HIDE DEF o1, o2, o3, o4, c, a
  <2>5. \A o \in Seq(Kinds), x \in Kinds : o \o <<x>> = Append(o, x)
    <3> TAKE o \in Seq(Kinds), x \in Kinds
    <3> QED
      OBVIOUS
  <2>6. f[1] = o1
    BY <1>4, <2>1 DEF o1
  <2>7. f[2] = o2
    BY <2>2, <2>3, <2>4, <2>5, <2>6
  <2>8. f[3] = o3
    BY <2>2, <2>3, <2>4, <2>5, <2>7
  <2>9. f[4] = o4
    BY <2>2, <2>3, <2>4, <2>5, <2>8
  <2>10. f[5] = Operations
    BY <2>2, <2>3, <2>4, <2>5, <2>9
  <2> QED
    BY <2>1, <2>10
<1>6. "attention" \notin ToSet(<<c>>)
  BY DEF ToSet
<1>7. ASSUME NEW i \in 1 .. Len(p), "attention" \in ToSet(p[i].ops) PROVE p[i].eager
  <2>1. i = 2 \/ i = 4
    <3> HIDE DEF c
    <3> QED
      BY <1>2, <1>3, <1>6, <1>7
  <2> QED
    BY <1>2, <2>1
<1> QED
  BY <1>5, <1>7 DEF q, p

\* So every captured graph replays the model.
LEMMA ReplaysAre ==
    ASSUME IInv
    PROVE  ReplayRunsModel
<1> SUFFICES ASSUME NEW g \in graphs
             PROVE  /\ FlattenSeq([i \in 1 .. Len(g.segments) |-> g.segments[i].ops]) = Operations
                    /\ g.key[1] = "PIECEWISE" =>
                         \A i \in 1 .. Len(g.segments) : "attention" \in ToSet(g.segments[i].ops) => g.segments[i].eager
  BY DEF ReplayRunsModel
<1>1. PICK k \in keys : g = Graph(k)
  BY DEF IInv, GraphsKept
<1>2. g.key = k /\ g.segments = Segments(k[1])
  BY <1>1 DEF Graph
<1>3. k[1] \in GraphModes
  <2>1. option \in Options /\ at \in Dispatching
    BY <1>1 DEF IInv, ConfigKept, KeysKept
  <2>2. k \in Keys
    BY <1>1, <2>1, KeysType DEF IInv, KeysKept
  <2> QED
    BY <2>2 DEF Keys
<1>4. CASE k[1] = "FULL"
  BY <1>2, <1>4, FullReplays
<1>5. CASE k[1] = "PIECEWISE"
  BY <1>2, <1>5, PieceReplays
<1> QED
  BY <1>3, <1>4, <1>5 DEF GraphModes

-----------------------------------------------------------------------------
(* The theorems *)

\* The invariant is inductive: every start, whatever its options, keeps what
\* the dispatcher, the wrapper and the captured graphs owe one another.
THEOREM StartInvariant == Spec => []IInv
<1>1. Init => IInv
  BY InitKeeps
<1>2. IInv /\ [Next]_vars => IInv'
  BY StepKeeps
<1> QED
  BY <1>1, <1>2, PTL DEF Spec

\* The state of a start is what its components keep: keys of the dispatcher's
\* form, captures under way of keys there are, and a dispatcher of the resolved
\* configuration once there is a KV cache.
THEOREM StartTypes == Spec => []TypeOK
<1>1. IInv => TypeOK
  <2> SUFFICES ASSUME IInv PROVE TypeOK
    OBVIOUS
  <2>1. /\ wrapper \in {"none", "full", "breakable"} /\ ready \in BOOLEAN /\ mode \in Modes
        /\ todo \subseteq keys
    BY DEF IInv, KeysKept
  <2>2. option \in Options
    BY DEF IInv, ConfigKept
  <2>3. keys \subseteq Keys
    <3>1. CASE at \in Dispatching
      BY <2>2, <3>1, KeysType DEF IInv, KeysKept
    <3>2. CASE at \notin Dispatching
      BY <3>2 DEF IInv, KeysKept
    <3> QED
      BY <3>1, <3>2
  <2>4. \A g \in graphs : g.key \in Keys /\ g.cache \in {"profiling", "real"}
    <3> TAKE g \in graphs
    <3>1. PICK k \in keys : g = Graph(k)
      BY DEF IInv, GraphsKept
    <3>2. g.key = k /\ g.cache = cache
      BY <3>1 DEF Graph
    <3>3. at \in Dispatching
      BY <3>1 DEF IInv, KeysKept
    <3>4. cache \in {"profiling", "real"}
      BY <3>3 DEF IInv, KeysKept, Dispatching
    <3> QED
      BY <2>3, <3>1, <3>2, <3>4
  <2>5. at \in {"initialized", "capturing", "serving"} => ready /\ mode = config.mode
    BY DEF IInv, KeysKept, Dispatching, Dispatcher
  <2> QED
    BY <2>1, <2>3, <2>4, <2>5 DEF TypeOK
<1> QED
  BY <1>1, StartInvariant, PTL

\* No start that came up fails later: a dummy run dispatches to the graph it is
\* to capture and has a wrapper that captures it, every key a batch gets has its
\* graph, no assertion of the dispatcher fails for what a data-parallel group
\* agreed on, and each number of tokens has its one compile range.
THEOREM StartsNeverDie == Spec => []NeverDies
<1>1. IInv => NeverDies
  <2> SUFFICES ASSUME IInv PROVE NeverDies
    OBVIOUS
  <2>1. option \in Options /\ at \in Labels
    BY DEF IInv, ConfigKept
  <2>2. at # "dead"
    BY <2>1 DEF Labels, Wrapping
  <2> QED
    BY <2>1, <2>2, RangesAre DEF NeverDies
<1> QED
  BY <1>1, StartInvariant, PTL

\* A start that serves has exactly one graph for each key of its dispatcher, on
\* the KV cache that serves; what the profile resolved is what serves; and each
\* graph, full or in pieces around eager attention calls, replays the whole
\* model once and in order.
THEOREM GraphsAreExact == Spec => []GraphsExact
<1>1. IInv => GraphsExact
  <2> SUFFICES ASSUME IInv PROVE GraphsExact
    OBVIOUS
  <2>1. ResolvedOnce
    BY DEF IInv, ConfigKept, ResolvedOnce
  <2>2. ASSUME at = "serving"
        PROVE  /\ {g.key : g \in graphs} = keys
               /\ \A g, h \in graphs : g.cache = "real" /\ (g.key = h.key => g = h)
    <3>1. graphs \subseteq {Graph(k) : k \in keys} /\ \A k \in keys : Graph(k) \in graphs
      BY <2>2 DEF IInv, GraphsKept, KeysKept, Capturing
    <3>2. cache = "real"
      BY <2>2 DEF IInv, KeysKept
    <3>3. \A k : Graph(k).key = k /\ Graph(k).cache = "real"
      BY <3>2 DEF Graph
    <3>4. \A g \in graphs : g.key \in keys /\ g = Graph(g.key) /\ g.cache = "real"
      BY <3>1, <3>3
    <3>5. \A k \in keys : k \in {g.key : g \in graphs}
      BY <3>1, <3>3
    <3> QED
      BY <3>4, <3>5
  <2>3. ReplayRunsModel
    BY ReplaysAre
  <2> QED
    BY <2>1, <2>2, <2>3 DEF GraphsExact, GraphsOfServing
<1> QED
  BY <1>1, StartInvariant, PTL

\* The graph a batch replays holds its tokens, its requests and its adapters.
THEOREM GraphsHoldBatches == Spec => []GraphFits
<1>1. IInv => GraphFits
  BY DEF IInv, ServedKept
<1> QED
  BY <1>1, StartInvariant, PTL

\* The ranks of a data-parallel group run a step in one mode, and with a graph
\* with one number of tokens.
THEOREM RanksStayInStep == Spec => []RanksAgree
<1>1. IInv => RanksAgree
  BY DEF IInv, ServedKept
<1> QED
  BY <1>1, StartInvariant, PTL

================================================================================
