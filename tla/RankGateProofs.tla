---------------------------- MODULE RankGateProofs ----------------------------
(***************************************************************************)
(* Theorems about RankGate, for any ranks, modes, plans, intents, steps    *)
(* and faults: type correctness, that exchanges pair up, and that ranks    *)
(* which got through the guards launch the same work.                      *)
(***************************************************************************)
EXTENDS RankGate, TLAPS

-----------------------------------------------------------------------------
(* The inductive invariant. *)

On == FpMode # "off" \/ GateMode # "off"
Alive(r) == pc[r] # "dead" /\ guard[r] # "dead" /\ got[r] # Failed
Told(r) == got[r].kind = "all"

\* What a rank brings to the gate.
Own(r) == IF plan[r] = Dummy THEN Dummy ELSE intent[r]

\* What each rank is about and what it has decided fit each other.
Local(r) ==
  /\ pc[r] \notin {"idle", "dead"} => step[r] < Steps
  /\ pc[r] = "fingerprint" => plan[r] \in Plans \cup {Dummy}
  /\ pc[r] = "launched" => plan[r] # Dummy
  /\ pc[r] = "empty" => plan[r] = Dummy
  /\ pc[r] = "gate" /\ plan[r] # Dummy => intent[r] \in Intents

\* What a rank waits with, and what it is told, holds its own decision.
Waits(r) ==
  post[r] # NotYet =>
    /\ pc[r] = "fingerprint" =>
         FpMode # "off" /\ post[r].kind = "fp" /\ post[r].plan = plan[r]
    /\ pc[r] = "gate" =>
         GateMode # "off" /\ post[r].kind = "gate" /\ post[r].own = Own(r)

Hears(r) ==
  Told(r) =>
    /\ guard[r] = "armed"
    /\ pc[r] = "fingerprint" => FpMode # "off" /\ got[r].of[r].plan = plan[r]
    /\ pc[r] = "gate" => GateMode # "off" /\ got[r].of[r].own = Own(r)

\* A guard that is on lets a rank through without an exchange only when dead.
Skips(r) == pc[r] = "fingerprint" /\ FpMode # "off" /\ got[r] = Nothing => guard[r] = "dead"

\* History is of steps a rank has been through.
Past(r) ==
  \A k \in StepNumbers :
    /\ forward[r][k] # Nothing =>
         k <= step[r] /\ (k = step[r] => pc[r] \notin {"idle", "fingerprint"})
    /\ agreed[r][k].kind = "all" => k < step[r]

\* The number of the next exchange a rank takes part in, two to a step.
AtFp(s) == IF FpMode = "off" THEN 2 * s + 1 ELSE 2 * s
AtGate(s) == IF GateMode = "off" THEN 2 * s + 2 ELSE 2 * s + 1
Due(r) ==
  IF pc[r] = "idle" \/ (pc[r] = "fingerprint" /\ got[r] = NotYet) THEN AtFp(step[r])
  ELSE IF pc[r] = "gate" /\ got[r] # NotYet THEN AtFp(step[r] + 1)
  ELSE AtGate(step[r])

\* Ranks whose guards work are due at the same exchange.
Together == On => \A q, r \in Ranks : Alive(q) /\ Alive(r) => Due(q) = Due(r)

\* What two ranks hold at a time, they were told by the same exchange.
Same == \A q, r \in Ranks : Told(q) /\ Told(r) => got[q] = got[r]

\* What a rank launched is what the vector of its step's exchange says, which others
\* may still hold.
ModeOf(g, r) == IF Mismatch(g) THEN "none" ELSE g.of[r].plan.mode
Launched ==
  FpMode = "enforce" =>
    \A q, r \in Ranks :
      /\ pc[q] = "fingerprint" /\ Told(q)
      /\ guard[r] # "dead" /\ forward[r][step[q]] # Nothing
      => forward[r][step[q]].mode = ModeOf(got[q], r)

\* The passes a vector of payloads makes a rank run.
PassesOf(g, r) == IF Drafts(g, g.of[r].own) THEN g.of[r].own.sched ELSE 0
RanAsAgreed ==
  \A r \in Ranks : \A k \in StepNumbers :
    AllReal(agreed[r][k]) => ran[r][k] = PassesOf(agreed[r][k], r)
OneVector ==
  \A q, r \in Ranks : \A k \in StepNumbers :
    agreed[q][k].kind = "all" /\ agreed[r][k].kind = "all" => agreed[q][k] = agreed[r][k]
HeldVector ==
  \A q, r \in Ranks :
    pc[q] = "gate" /\ Told(q) /\ agreed[r][step[q]].kind = "all"
    => agreed[r][step[q]] = got[q]
Drafted == RanAsAgreed /\ OneVector /\ HeldVector

EachRank == \A r \in Ranks : Local(r) /\ Waits(r) /\ Hears(r) /\ Skips(r) /\ Past(r)

IInv ==
  TypeOK /\ EachRank /\ Together /\ Same /\ Launched /\ Drafted /\ LaunchesAgree

-----------------------------------------------------------------------------
(* What an exchange is worth. *)

LEMMA Distinct ==
  /\ Nothing # Failed /\ Nothing # NotYet /\ Failed # NotYet /\ Nothing # Dummy
  /\ Nothing.kind # "all" /\ Failed.kind # "all" /\ NotYet.kind # "all"
  /\ Dummy \notin Plans /\ Dummy \notin Intents /\ NotYet \notin Posts /\ NotYet \notin Results
BY PlansAssumption, IntentsAssumption DEF Nothing, Failed, NotYet, Dummy, Posts, Results

LEMMA Untold ==
  ASSUME NEW r \in Ranks
  PROVE  /\ got[r] \in {NotYet, Failed, Nothing} => ~Told(r)
         /\ got'[r] \in {NotYet, Failed, Nothing} => ~Told(r)'
BY Distinct DEF Told

\* Only a rank in the code around an exchange holds something.
LEMMA Holding ==
  ASSUME TypeOK, NEW r \in Ranks
  PROVE  /\ got[r] # NotYet => pc[r] \in {"fingerprint", "gate"} /\ post[r] = NotYet
         /\ post[r] # NotYet => pc[r] \in {"fingerprint", "gate"} /\ got[r] = NotYet
                                 /\ guard[r] = "armed" /\ post[r] \in Posts
         /\ Told(r) => got[r] # NotYet /\ got[r] \in [kind : {"all"}, of : [Ranks -> Posts]]
         /\ ~Told(r) => got[r] \in {NotYet, Failed, Nothing}
<1>1. got[r] \in Results \cup {NotYet} /\ post[r] \in Posts \cup {NotYet}
  BY DEF TypeOK
<1>2. (pc[r] \in {"fingerprint", "gate"} <=> (post[r] # NotYet \/ got[r] # NotYet))
      /\ (post[r] # NotYet => guard[r] = "armed" /\ got[r] = NotYet)
  BY DEF TypeOK
<1>3. Told(r) => got[r] # NotYet /\ got[r] \in [kind : {"all"}, of : [Ranks -> Posts]]
  BY <1>1, Distinct DEF Told, Results
<1>4. ~Told(r) => got[r] \in {NotYet, Failed, Nothing}
  BY <1>1 DEF Told, Results
<1> QED
  BY <1>1, <1>2, <1>3, <1>4

\* Entering an exchange: the rank waits, or its guard is dead and it goes on.
Entered(r, p) ==
  \/ /\ guard[r] # "dead"
     /\ guard' = [guard EXCEPT ![r] = "armed"]
     /\ post' = [post EXCEPT ![r] = p] /\ got' = got
  \/ /\ guard' = [guard EXCEPT ![r] = "dead"]
     /\ got' = [got EXCEPT ![r] = Nothing] /\ post' = post

LEMMA EnterWaitsOrDies ==
  ASSUME TypeOK, NEW r \in Ranks, NEW p, Enter(r, p)
  PROVE  Entered(r, p)
<1>1. guard[r] \in {"unarmed", "armed", "dead"}
  BY DEF TypeOK
<1>2. PICK g \in NextGuards(r) :
        /\ guard' = [guard EXCEPT ![r] = g]
        /\ IF g = "armed"
           THEN post' = [post EXCEPT ![r] = p] /\ UNCHANGED got
           ELSE got' = [got EXCEPT ![r] = Nothing] /\ UNCHANGED post
  BY DEF Enter
<1>3. g \in {"armed", "dead"} /\ (g = "armed" => guard[r] # "dead")
  BY <1>1, <1>2 DEF NextGuards
<1> QED
  BY <1>2, <1>3 DEF Entered

-----------------------------------------------------------------------------
(* The invariant holds at the start. *)

LEMMA InitIInv == Init => IInv
<1> SUFFICES ASSUME Init PROVE IInv
  OBVIOUS
<1>1. TypeOK
  BY Distinct, BoundsAssumption DEF Init, TypeOK, StepNumbers, LastGates, Decided, Results
<1>2. EachRank
  BY <1>1, Distinct DEF Init, EachRank, Local, Waits, Hears, Skips, Past, Told, StepNumbers
<1>3. Together
  BY DEF Init, Together, Due
<1>4. Same /\ Launched /\ Drafted /\ LaunchesAgree
  BY <1>1, Distinct DEF Init, Same, Launched, Drafted, RanAsAgreed, OneVector,
     HeldVector, LaunchesAgree, Told, AllReal, StepNumbers
<1> QED
  BY <1>1, <1>2, <1>3, <1>4 DEF IInv

-----------------------------------------------------------------------------
(* What a step leaves as it was. *)

\* The last part of TypeOK.
InExchange(r) ==
  /\ pc[r] \in {"fingerprint", "gate"} <=> (post[r] # NotYet \/ got[r] # NotYet)
  /\ post[r] # NotYet => guard[r] = "armed" /\ got[r] = NotYet

Fits(r) == Local(r) /\ Waits(r) /\ Hears(r) /\ Skips(r) /\ Past(r)

Still(q) ==
  /\ pc'[q] = pc[q] /\ step'[q] = step[q] /\ guard'[q] = guard[q]
  /\ post'[q] = post[q] /\ got'[q] = got[q] /\ plan'[q] = plan[q] /\ intent'[q] = intent[q]
  /\ forward'[q] = forward[q] /\ agreed'[q] = agreed[q]

LEMMA StillFits ==
  ASSUME NEW q \in Ranks, Still(q)
  PROVE  /\ Fits(q) => Fits(q)'
         /\ Alive(q)' = Alive(q) /\ Due(q)' = Due(q) /\ Told(q)' = Told(q)
<1>1. Local(q) => Local(q)'
  BY DEF Still, Local
<1>2. Waits(q) => Waits(q)'
  BY DEF Still, Waits, Own
<1>3. Hears(q) => Hears(q)'
  BY DEF Still, Hears, Own, Told
<1>4. Skips(q) => Skips(q)'
  BY DEF Still, Skips
<1>5. Past(q) => Past(q)'
  BY DEF Still, Past
<1>6. Alive(q)' = Alive(q) /\ Due(q)' = Due(q) /\ Told(q)' = Told(q)
  BY DEF Still, Alive, Due, AtFp, AtGate, Told
<1> QED
  BY <1>1, <1>2, <1>3, <1>4, <1>5, <1>6 DEF Fits

\* When only one rank moves, its own part of the invariant is what there is to show.
LEMMA OneMoves ==
  ASSUME IInv, NEW r \in Ranks, \A q \in Ranks \ {r} : Still(q), Fits(r)',
         On /\ Alive(r)' => Alive(r) /\ Due(r)' = Due(r)
  PROVE  EachRank' /\ Together'
<1>1. EachRank'
  BY StillFits DEF IInv, EachRank, Fits
<1>2. \A q \in Ranks : On /\ Alive(q)' => Alive(q) /\ Due(q)' = Due(q)
  BY StillFits
<1>3. Together'
  BY <1>2 DEF IInv, Together, On
<1> QED
  BY <1>1, <1>3

\* A step in which no rank is told anything and none launches.
Quiet ==
  /\ forward' = forward /\ agreed' = agreed /\ ran' = ran
  /\ \A q \in Ranks :
       /\ guard'[q] # "dead" => guard[q] # "dead"
       /\ Told(q)' => got'[q] = got[q] /\ pc'[q] = pc[q] /\ step'[q] = step[q]

LEMMA QuietKeeps ==
  ASSUME IInv, Quiet
  PROVE  Same' /\ Launched' /\ Drafted' /\ LaunchesAgree'
<1>1. \A q \in Ranks : Told(q)' => Told(q)
  BY DEF Quiet, Told
<1>2. Same'
  BY <1>1 DEF IInv, Quiet, Same
<1>3. Launched'
  BY <1>1 DEF IInv, Quiet, Launched
<1>4. Drafted'
  BY <1>1 DEF IInv, Quiet, Drafted, RanAsAgreed, OneVector, HeldVector
<1>5. LaunchesAgree'
  BY DEF IInv, Quiet, LaunchesAgree
<1> QED
  BY <1>2, <1>3, <1>4, <1>5

\* Coming to an exchange: a rank waits in it with its guard armed, or goes on.
LEMMA Comes ==
  ASSUME TypeOK, NEW r \in Ranks, NEW p \in Posts, NEW m,
         got[r] = NotYet, post[r] = NotYet,
         IF m = "off" THEN Skip(r) ELSE Enter(r, p)
  PROVE  /\ guard' \in [Ranks -> {"unarmed", "armed", "dead"}]
         /\ post' \in [Ranks -> Posts \cup {NotYet}]
         /\ got' \in [Ranks -> Results \cup {NotYet}]
         /\ \A q \in Ranks \ {r} :
              guard'[q] = guard[q] /\ post'[q] = post[q] /\ got'[q] = got[q]
         /\ \/ m # "off" /\ post'[r] = p /\ got'[r] = NotYet /\ guard'[r] = "armed"
            \/ /\ post'[r] = NotYet /\ got'[r] = Nothing
               /\ guard'[r] = "dead" \/ m = "off"
         /\ guard'[r] # "dead" => guard[r] # "dead"
<1>1. Nothing \in Results /\ p # NotYet
  BY Distinct DEF Results
<1>2. CASE m = "off"
  BY <1>1, <1>2 DEF Skip, TypeOK
<1>3. CASE m # "off"
  <2>1. Entered(r, p)
    BY <1>3, EnterWaitsOrDies
  <2>2. CASE /\ guard[r] # "dead"
             /\ guard' = [guard EXCEPT ![r] = "armed"]
             /\ post' = [post EXCEPT ![r] = p] /\ got' = got
    BY <1>1, <1>3, <2>2 DEF TypeOK
  <2>3. CASE /\ guard' = [guard EXCEPT ![r] = "dead"]
             /\ got' = [got EXCEPT ![r] = Nothing] /\ post' = post
    BY <1>1, <1>3, <2>3 DEF TypeOK
  <2> QED
    BY <2>1, <2>2, <2>3 DEF Entered
<1> QED
  BY <1>2, <1>3

\* Returning from it, with a dead guard if it raised.
LEMMA Returns ==
  ASSUME TypeOK, NEW r \in Ranks, Return(r)
  PROVE  /\ guard' \in [Ranks -> {"unarmed", "armed", "dead"}]
         /\ got' \in [Ranks -> Results \cup {NotYet}]
         /\ \A q \in Ranks \ {r} : guard'[q] = guard[q] /\ got'[q] = got[q]
         /\ got[r] \in Results /\ got'[r] = NotYet /\ post[r] = NotYet /\ ~Told(r)'
         /\ guard'[r] = IF got[r] = Failed THEN "dead" ELSE guard[r]
<1>1. got[r] # NotYet /\ got' = [got EXCEPT ![r] = NotYet]
      /\ guard' = [guard EXCEPT ![r] = IF got[r] = Failed THEN "dead" ELSE guard[r]]
  BY DEF Return
<1>2. post[r] = NotYet
  BY <1>1, Holding
<1>3. guard' \in [Ranks -> {"unarmed", "armed", "dead"}] /\ got' \in [Ranks -> Results \cup {NotYet}]
  BY <1>1 DEF TypeOK
<1>4. got[r] \in Results /\ got'[r] = NotYet
      /\ guard'[r] = IF got[r] = Failed THEN "dead" ELSE guard[r]
  BY <1>1 DEF TypeOK
<1>5. \A q \in Ranks \ {r} : guard'[q] = guard[q] /\ got'[q] = got[q]
  BY <1>1 DEF TypeOK
<1> QED
  BY <1>2, <1>3, <1>4, <1>5, Untold

-----------------------------------------------------------------------------
(* Each action keeps the invariant. *)

LEMMA BeginStep ==
  ASSUME IInv, NEW r \in Ranks, Begin(r)
  PROVE  IInv'
<1> USE DEF IInv
<1>1. PICK p \in Plans \cup {Dummy} :
        /\ plan' = [plan EXCEPT ![r] = p]
        /\ IF FpMode = "off" THEN Skip(r) ELSE Enter(r, Fingerprint(p, last[r]))
  BY DEF Begin
<1>2. /\ pc[r] = "idle" /\ step[r] < Steps
      /\ pc' = [pc EXCEPT ![r] = "fingerprint"]
      /\ UNCHANGED <<step, intent, last, forward, agreed, ran, faults>>
  BY DEF Begin
<1>3. got[r] = NotYet /\ post[r] = NotYet
  BY <1>2, Holding
<1>4. Fingerprint(p, last[r]) \in Posts /\ Fingerprint(p, last[r]).kind = "fp"
      /\ Fingerprint(p, last[r]).plan = p
  BY DEF Fingerprint, Posts, TypeOK
<1>5. /\ guard' \in [Ranks -> {"unarmed", "armed", "dead"}]
      /\ post' \in [Ranks -> Posts \cup {NotYet}]
      /\ got' \in [Ranks -> Results \cup {NotYet}]
      /\ \A q \in Ranks \ {r} :
           guard'[q] = guard[q] /\ post'[q] = post[q] /\ got'[q] = got[q]
      /\ \/ /\ FpMode # "off" /\ post'[r] = Fingerprint(p, last[r])
            /\ got'[r] = NotYet /\ guard'[r] = "armed"
         \/ /\ post'[r] = NotYet /\ got'[r] = Nothing
            /\ guard'[r] = "dead" \/ FpMode = "off"
      /\ guard'[r] # "dead" => guard[r] # "dead"
  BY <1>1, <1>3, <1>4, Comes
<1>6. /\ pc' \in [Ranks -> {"idle", "fingerprint", "launched", "empty", "gate", "dead"}]
      /\ plan' \in [Ranks -> Decided \cup {Dummy}]
      /\ pc'[r] = "fingerprint" /\ plan'[r] = p
      /\ \A q \in Ranks \ {r} : pc'[q] = pc[q] /\ plan'[q] = plan[q]
  BY <1>1, <1>2 DEF TypeOK, Decided
<1>7. TypeOK'
  <2>1. \A q \in Ranks : InExchange(q)'
    BY <1>2, <1>4, <1>5, <1>6, Distinct DEF TypeOK, InExchange
  <2> QED
    BY <1>2, <1>5, <1>6, <2>1 DEF TypeOK, InExchange
<1>8. \A q \in Ranks \ {r} : Still(q)
  BY <1>2, <1>5, <1>6 DEF Still
<1>9. ~Told(r)'
  BY <1>5, Untold
<1>10. Fits(r)'
  <2>1. Fits(r)
    BY DEF EachRank, Fits
  <2>2. Local(r)'
    BY <1>1, <1>2, <1>6 DEF Local
  <2>3. Waits(r)'
    BY <1>4, <1>5, <1>6 DEF Waits
  <2>4. Hears(r)' /\ Skips(r)'
    BY <1>5, <1>9, Distinct DEF Hears, Skips
  <2>5. Past(r)'
    BY <1>2, <2>1 DEF Fits, Past
  <2> QED
    BY <2>2, <2>3, <2>4, <2>5 DEF Fits
<1>11. On /\ Alive(r)' => Alive(r) /\ Due(r)' = Due(r)
  BY <1>2, <1>3, <1>5, <1>6, Distinct DEF On, Alive, Due, AtFp, AtGate
<1>12. Quiet
  BY <1>2, <1>8, <1>9, <1>5 DEF Quiet, Still
<1> QED
  BY <1>7, <1>8, <1>10, <1>11, <1>12, OneMoves, QuietKeeps

LEMMA EmptyStep ==
  ASSUME IInv, NEW r \in Ranks, Empty(r)
  PROVE  IInv'
<1> USE DEF IInv
<1>1. /\ pc[r] = "fingerprint" /\ plan[r] = Dummy /\ Return(r)
      /\ pc' = [pc EXCEPT ![r] = "empty"]
      /\ UNCHANGED <<step, post, plan, intent, last, forward, agreed, ran, faults>>
  BY DEF Empty
<1>2. /\ guard' \in [Ranks -> {"unarmed", "armed", "dead"}]
      /\ got' \in [Ranks -> Results \cup {NotYet}]
      /\ \A q \in Ranks \ {r} : guard'[q] = guard[q] /\ got'[q] = got[q]
      /\ got[r] \in Results /\ got'[r] = NotYet /\ post[r] = NotYet /\ ~Told(r)'
      /\ guard'[r] = IF got[r] = Failed THEN "dead" ELSE guard[r]
  BY <1>1, Returns
<1>3. /\ pc' \in [Ranks -> {"idle", "fingerprint", "launched", "empty", "gate", "dead"}]
      /\ pc'[r] = "empty" /\ \A q \in Ranks \ {r} : pc'[q] = pc[q]
  BY <1>1 DEF TypeOK
<1>4. TypeOK'
  <2>1. \A q \in Ranks : InExchange(q)'
    BY <1>1, <1>2, <1>3 DEF TypeOK, InExchange
  <2> QED
    BY <1>1, <1>2, <1>3, <2>1 DEF TypeOK, InExchange
<1>5. \A q \in Ranks \ {r} : Still(q)
  BY <1>1, <1>2, <1>3 DEF Still
<1>6. Fits(r)'
  <2>1. Local(r) /\ Past(r)
    BY DEF EachRank
  <2>2. Local(r)' /\ Past(r)'
    BY <1>1, <1>3, <2>1 DEF Local, Past
  <2>3. Waits(r)' /\ Hears(r)' /\ Skips(r)'
    BY <1>1, <1>2, <1>3 DEF Waits, Hears, Skips
  <2> QED
    BY <2>2, <2>3 DEF Fits
<1>7. On /\ Alive(r)' => Alive(r) /\ Due(r)' = Due(r)
  BY <1>1, <1>2, <1>3, Distinct DEF Alive, Due, AtFp, AtGate
<1>8. Quiet
  BY <1>1, <1>2, <1>5 DEF Quiet, Still
<1> QED
  BY <1>4, <1>5, <1>6, <1>7, <1>8, OneMoves, QuietKeeps

LEMMA EmptyGateStep ==
  ASSUME IInv, NEW r \in Ranks, EmptyGate(r)
  PROVE  IInv'
<1> USE DEF IInv
<1>1. /\ pc[r] = "empty"
      /\ IF GateMode = "off" THEN Skip(r) ELSE Enter(r, DummyPayload)
      /\ pc' = [pc EXCEPT ![r] = "gate"]
      /\ UNCHANGED <<step, plan, intent, last, forward, agreed, ran, faults>>
  BY DEF EmptyGate
<1>2. got[r] = NotYet /\ post[r] = NotYet
  BY <1>1, Holding
<1>3. DummyPayload \in Posts /\ DummyPayload.kind = "gate" /\ DummyPayload.own = Dummy
  BY DEF DummyPayload, Posts
<1>4. /\ guard' \in [Ranks -> {"unarmed", "armed", "dead"}]
      /\ post' \in [Ranks -> Posts \cup {NotYet}]
      /\ got' \in [Ranks -> Results \cup {NotYet}]
      /\ \A q \in Ranks \ {r} :
           guard'[q] = guard[q] /\ post'[q] = post[q] /\ got'[q] = got[q]
      /\ \/ /\ GateMode # "off" /\ post'[r] = DummyPayload
            /\ got'[r] = NotYet /\ guard'[r] = "armed"
         \/ /\ post'[r] = NotYet /\ got'[r] = Nothing
            /\ guard'[r] = "dead" \/ GateMode = "off"
      /\ guard'[r] # "dead" => guard[r] # "dead"
  BY <1>1, <1>2, <1>3, Comes
<1>5. /\ pc' \in [Ranks -> {"idle", "fingerprint", "launched", "empty", "gate", "dead"}]
      /\ pc'[r] = "gate" /\ \A q \in Ranks \ {r} : pc'[q] = pc[q]
  BY <1>1 DEF TypeOK
<1>6. TypeOK'
  <2>1. \A q \in Ranks : InExchange(q)'
    BY <1>1, <1>3, <1>4, <1>5, Distinct DEF TypeOK, InExchange
  <2> QED
    BY <1>1, <1>4, <1>5, <2>1 DEF TypeOK, InExchange
<1>7. \A q \in Ranks \ {r} : Still(q)
  BY <1>1, <1>4, <1>5 DEF Still
<1>8. ~Told(r)'
  BY <1>4, Untold
<1>9. Fits(r)'
  <2>1. Local(r) /\ Past(r)
    BY DEF EachRank
  <2>2. Local(r)' /\ Past(r)'
    BY <1>1, <1>5, <2>1 DEF Local, Past
  <2>3. plan'[r] = Dummy
    BY <1>1, <2>1 DEF Local
  <2>4. Waits(r)'
    BY <1>3, <1>4, <1>5, <2>3 DEF Waits, Own
  <2>5. Hears(r)' /\ Skips(r)'
    BY <1>5, <1>8 DEF Hears, Skips
  <2> QED
    BY <2>2, <2>4, <2>5 DEF Fits
<1>10. On /\ Alive(r)' => Alive(r) /\ Due(r)' = Due(r)
  BY <1>1, <1>2, <1>4, <1>5, Distinct DEF On, Alive, Due, AtFp, AtGate, TypeOK, StepNumbers
<1>11. Quiet
  BY <1>1, <1>4, <1>7, <1>8 DEF Quiet, Still
<1> QED
  BY <1>6, <1>7, <1>9, <1>10, <1>11, OneMoves, QuietKeeps

LEMMA SampleStep ==
  ASSUME IInv, NEW r \in Ranks, Sample(r)
  PROVE  IInv'
<1> USE DEF IInv
<1>1. PICK i \in Intents :
        /\ intent' = [intent EXCEPT ![r] = i]
        /\ last' = [last EXCEPT ![r] = [fits |-> i.fits, ran |-> FALSE, bare |-> ~i.metadata]]
        /\ IF GateMode = "off" THEN Skip(r) ELSE Enter(r, Payload(i))
  BY DEF Sample
<1>2. /\ pc[r] = "launched"
      /\ pc' = [pc EXCEPT ![r] = "gate"]
      /\ UNCHANGED <<step, plan, forward, agreed, ran, faults>>
  BY DEF Sample
<1>3. got[r] = NotYet /\ post[r] = NotYet
  BY <1>2, Holding
<1>4. Payload(i) \in Posts /\ Payload(i).kind = "gate" /\ Payload(i).own = i
  BY DEF Payload, Posts
<1>5. /\ guard' \in [Ranks -> {"unarmed", "armed", "dead"}]
      /\ post' \in [Ranks -> Posts \cup {NotYet}]
      /\ got' \in [Ranks -> Results \cup {NotYet}]
      /\ \A q \in Ranks \ {r} :
           guard'[q] = guard[q] /\ post'[q] = post[q] /\ got'[q] = got[q]
      /\ \/ /\ GateMode # "off" /\ post'[r] = Payload(i)
            /\ got'[r] = NotYet /\ guard'[r] = "armed"
         \/ /\ post'[r] = NotYet /\ got'[r] = Nothing
            /\ guard'[r] = "dead" \/ GateMode = "off"
      /\ guard'[r] # "dead" => guard[r] # "dead"
  BY <1>1, <1>3, <1>4, Comes
<1>6. /\ pc' \in [Ranks -> {"idle", "fingerprint", "launched", "empty", "gate", "dead"}]
      /\ intent' \in [Ranks -> Intents \cup {Nothing}]
      /\ pc'[r] = "gate" /\ intent'[r] = i
      /\ \A q \in Ranks \ {r} : pc'[q] = pc[q] /\ intent'[q] = intent[q]
  BY <1>1, <1>2 DEF TypeOK
<1>7. last' \in [Ranks -> LastGates]
  <2>1. [fits |-> i.fits, ran |-> FALSE, bare |-> ~i.metadata] \in LastGates
    BY IntentsAssumption DEF LastGates
  <2> QED
    BY <1>1, <2>1 DEF TypeOK
<1>8. TypeOK'
  <2>1. \A q \in Ranks : InExchange(q)'
    BY <1>2, <1>4, <1>5, <1>6, Distinct DEF TypeOK, InExchange
  <2> QED
    BY <1>2, <1>5, <1>6, <1>7, <2>1 DEF TypeOK, InExchange
<1>9. \A q \in Ranks \ {r} : Still(q)
  BY <1>2, <1>5, <1>6 DEF Still
<1>10. ~Told(r)'
  BY <1>5, Untold
<1>11. Fits(r)'
  <2>1. Local(r) /\ Past(r)
    BY DEF EachRank
  <2>2. Local(r)' /\ Past(r)'
    BY <1>2, <1>6, <2>1 DEF Local, Past
  <2>3. Own(r)' = i
    BY <1>2, <1>6, <2>1 DEF Local, Own
  <2>4. Waits(r)'
    BY <1>4, <1>5, <1>6, <2>3 DEF Waits
  <2>5. Hears(r)' /\ Skips(r)'
    BY <1>6, <1>10 DEF Hears, Skips
  <2> QED
    BY <2>2, <2>4, <2>5 DEF Fits
<1>12. On /\ Alive(r)' => Alive(r) /\ Due(r)' = Due(r)
  BY <1>2, <1>3, <1>5, <1>6, Distinct DEF On, Alive, Due, AtFp, AtGate, TypeOK, StepNumbers
<1>13. Quiet
  BY <1>2, <1>5, <1>9, <1>10 DEF Quiet, Still
<1> QED
  BY <1>8, <1>9, <1>11, <1>12, <1>13, OneMoves, QuietKeeps

LEMMA TimesOutStep ==
  ASSUME IInv, NEW r \in Ranks, TimesOut(r)
  PROVE  IInv'
<1> USE DEF IInv
<1>1. /\ post[r] # NotYet
      /\ Stuck(r) \/ faults < Faults
      /\ faults' = IF Stuck(r) THEN faults ELSE faults + 1
      /\ post' = [post EXCEPT ![r] = NotYet]
      /\ got' = [got EXCEPT ![r] = Failed]
      /\ UNCHANGED <<pc, step, guard, plan, intent, last, forward, agreed, ran>>
  BY DEF TimesOut
<1>2. pc[r] \in {"fingerprint", "gate"} /\ guard[r] = "armed"
  BY <1>1, Holding
<1>3. post'[r] = NotYet /\ got'[r] = Failed
      /\ \A q \in Ranks \ {r} : post'[q] = post[q] /\ got'[q] = got[q]
  BY <1>1 DEF TypeOK
<1>4. faults' \in 0..Faults
  BY <1>1, BoundsAssumption DEF TypeOK
<1>5. TypeOK'
  <2>1. \A q \in Ranks : InExchange(q)'
    BY <1>1, <1>2, <1>3, Distinct DEF TypeOK, InExchange
  <2>2. post' \in [Ranks -> Posts \cup {NotYet}] /\ got' \in [Ranks -> Results \cup {NotYet}]
    BY <1>1 DEF TypeOK, Results
  <2> QED
    BY <1>1, <1>4, <2>1, <2>2 DEF TypeOK, InExchange
<1>6. \A q \in Ranks \ {r} : Still(q)
  BY <1>1, <1>3 DEF Still
<1>7. ~Told(r)' /\ ~Alive(r)'
  BY <1>3, Untold DEF Alive
<1>8. Fits(r)'
  <2>1. Local(r) /\ Past(r)
    BY DEF EachRank
  <2> QED
    BY <1>1, <1>3, <1>7, <2>1, Distinct DEF Fits, Local, Past, Waits, Hears, Skips
<1>9. Quiet
  BY <1>1, <1>6, <1>7 DEF Quiet, Still
<1> QED
  BY <1>5, <1>6, <1>7, <1>8, <1>9, OneMoves, QuietKeeps

LEMMA DiesStep ==
  ASSUME IInv, NEW r \in Ranks, Dies(r)
  PROVE  IInv'
<1> USE DEF IInv
<1>1. /\ Stuck(r) \/ faults < Faults
      /\ faults' = IF Stuck(r) THEN faults ELSE faults + 1
      /\ pc' = [pc EXCEPT ![r] = "dead"]
      /\ post' = [post EXCEPT ![r] = NotYet]
      /\ got' = [got EXCEPT ![r] = NotYet]
      /\ UNCHANGED <<step, guard, plan, intent, last, forward, agreed, ran>>
  BY DEF Dies
<1>2. pc'[r] = "dead" /\ post'[r] = NotYet /\ got'[r] = NotYet
      /\ \A q \in Ranks \ {r} : pc'[q] = pc[q] /\ post'[q] = post[q] /\ got'[q] = got[q]
  BY <1>1 DEF TypeOK
<1>3. faults' \in 0..Faults
  BY <1>1, BoundsAssumption DEF TypeOK
<1>4. TypeOK'
  <2>1. \A q \in Ranks : InExchange(q)'
    BY <1>1, <1>2 DEF TypeOK, InExchange
  <2>2. /\ post' \in [Ranks -> Posts \cup {NotYet}] /\ got' \in [Ranks -> Results \cup {NotYet}]
        /\ pc' \in [Ranks -> {"idle", "fingerprint", "launched", "empty", "gate", "dead"}]
    BY <1>1 DEF TypeOK
  <2> QED
    BY <1>1, <1>3, <2>1, <2>2 DEF TypeOK, InExchange
<1>5. \A q \in Ranks \ {r} : Still(q)
  BY <1>1, <1>2 DEF Still
<1>6. ~Told(r)' /\ ~Alive(r)'
  BY <1>2, Untold DEF Alive
<1>7. Fits(r)'
  <2>1. Past(r)
    BY DEF EachRank
  <2> QED
    BY <1>1, <1>2, <1>6, <2>1 DEF Fits, Local, Past, Waits, Hears, Skips
<1>8. Quiet
  BY <1>1, <1>5, <1>6 DEF Quiet, Still
<1> QED
  BY <1>4, <1>5, <1>6, <1>7, <1>8, OneMoves, QuietKeeps

\* A plan is never taken for a step without tokens, nor for one not launched.
LEMMA PlansAreReal ==
  ASSUME NEW p \in Plans, NEW g
  PROVE  /\ Enforced(p, g) \in Decided /\ Enforced(p, g) # Dummy /\ Enforced(p, g) # Nothing
         /\ FpMode = "enforce" =>
              Enforced(p, g).mode = IF Mismatch(g) THEN "none" ELSE p.mode
<1>1. p \in [kind : {"real"}, mode : {"full", "none"}, padded : Nat, forced : {FALSE}]
  BY PlansAssumption
<1>2. /\ [p EXCEPT !.mode = "none", !.forced = TRUE] \in Decided
      /\ [p EXCEPT !.mode = "none", !.forced = TRUE].kind = "real"
      /\ [p EXCEPT !.mode = "none", !.forced = TRUE].mode = "none"
  BY <1>1 DEF Decided
<1>3. p \in Decided /\ p.kind = "real"
  BY <1>1 DEF Decided
<1>4. Dummy.kind # "real" /\ Nothing.kind # "real"
  BY DEF Dummy, Nothing
<1> QED
  BY <1>2, <1>3, <1>4 DEF Enforced

LEMMA ForwardStep ==
  ASSUME IInv, NEW r \in Ranks, Forward(r)
  PROVE  IInv'
<1> USE DEF IInv
<1> DEFINE e == Enforced(plan[r], got[r])
<1>1. /\ pc[r] = "fingerprint" /\ plan[r] # Dummy /\ Return(r)
      /\ plan' = [plan EXCEPT ![r] = e]
      /\ forward' = [forward EXCEPT ![r][step[r]] = plan'[r]]
      /\ pc' = [pc EXCEPT ![r] = "launched"]
      /\ UNCHANGED <<step, post, intent, last, agreed, ran, faults>>
  BY DEF Forward
<1>2. /\ guard' \in [Ranks -> {"unarmed", "armed", "dead"}]
      /\ got' \in [Ranks -> Results \cup {NotYet}]
      /\ \A q \in Ranks \ {r} : guard'[q] = guard[q] /\ got'[q] = got[q]
      /\ got[r] \in Results /\ got'[r] = NotYet /\ post[r] = NotYet /\ ~Told(r)'
      /\ guard'[r] = IF got[r] = Failed THEN "dead" ELSE guard[r]
  BY <1>1, Returns
<1>3. Fits(r) /\ plan[r] \in Plans /\ step[r] \in StepNumbers
  BY <1>1 DEF EachRank, Fits, Local, TypeOK
<1>4. e \in Decided /\ e # Dummy /\ e # Nothing
      /\ (FpMode = "enforce" => e.mode = IF Mismatch(got[r]) THEN "none" ELSE plan[r].mode)
  BY <1>3, PlansAreReal
<1> HIDE DEF e
<1>5. /\ pc' \in [Ranks -> {"idle", "fingerprint", "launched", "empty", "gate", "dead"}]
      /\ plan' \in [Ranks -> Decided \cup {Dummy}]
      /\ pc'[r] = "launched" /\ plan'[r] = e
      /\ \A q \in Ranks \ {r} : pc'[q] = pc[q] /\ plan'[q] = plan[q]
  BY <1>1, <1>4 DEF TypeOK
<1>6. /\ forward' \in [Ranks -> [StepNumbers -> Decided \cup {Nothing}]]
      /\ forward'[r][step[r]] = e
      /\ \A k \in StepNumbers : k # step[r] => forward'[r][k] = forward[r][k]
      /\ \A q \in Ranks \ {r} : forward'[q] = forward[q]
  BY <1>1, <1>3, <1>4, <1>5 DEF TypeOK
<1>7. TypeOK'
  <2>1. \A q \in Ranks : InExchange(q)'
    BY <1>1, <1>2, <1>5 DEF TypeOK, InExchange
  <2> QED
    BY <1>1, <1>2, <1>5, <1>6, <2>1 DEF TypeOK, InExchange
<1>8. \A q \in Ranks \ {r} : Still(q)
  BY <1>1, <1>2, <1>5, <1>6 DEF Still
<1>9. Fits(r)'
  <2>1. Local(r)'
    BY <1>1, <1>3, <1>4, <1>5 DEF Fits, Local
  <2>2. Past(r)'
    BY <1>1, <1>3, <1>5, <1>6 DEF Fits, Past, StepNumbers
  <2>3. Waits(r)' /\ Hears(r)' /\ Skips(r)'
    BY <1>2, <1>5 DEF Waits, Hears, Skips
  <2> QED
    BY <2>1, <2>2, <2>3 DEF Fits
<1>10. On /\ Alive(r)' => Alive(r) /\ Due(r)' = Due(r)
  BY <1>1, <1>2, <1>5, Distinct DEF Alive, Due, AtFp, AtGate
<1>11. \A q \in Ranks : Told(q)' =>
         q # r /\ Told(q) /\ got'[q] = got[q] /\ pc'[q] = pc[q] /\ step'[q] = step[q]
  BY <1>2, <1>8, StillFits DEF Still
<1>12. Same' /\ Drafted'
  BY <1>1, <1>11 DEF Same, Drafted, RanAsAgreed, OneVector, HeldVector
<1>13. FpMode = "enforce" /\ guard'[r] # "dead" =>
         /\ guard[r] # "dead" /\ Told(r) /\ got[r].of[r].plan = plan[r]
         /\ e.mode = ModeOf(got[r], r)
  <2> SUFFICES ASSUME FpMode = "enforce", guard'[r] # "dead"
               PROVE  /\ guard[r] # "dead" /\ Told(r) /\ got[r].of[r].plan = plan[r]
                      /\ e.mode = ModeOf(got[r], r)
    OBVIOUS
  <2>1. got[r] # Failed /\ guard[r] # "dead"
    BY <1>2
  <2>2. got[r] # Nothing
    BY <1>1, <1>3, <2>1 DEF Fits, Skips
  <2>3. Told(r)
    BY <1>2, <2>1, <2>2, Holding, Distinct DEF Results, Told
  <2>4. got[r].of[r].plan = plan[r]
    BY <1>1, <1>3, <2>3 DEF Fits, Hears
  <2> QED
    BY <1>4, <2>1, <2>3, <2>4 DEF ModeOf
<1>14. Launched'
  <2> SUFFICES ASSUME FpMode = "enforce", NEW q \in Ranks, NEW s \in Ranks,
                      pc'[q] = "fingerprint", Told(q)', guard'[s] # "dead",
                      forward'[s][step'[q]] # Nothing
               PROVE  forward'[s][step'[q]].mode = ModeOf(got'[q], s)
    BY DEF Launched, ModeOf
  <2>1. q # r /\ Told(q) /\ got'[q] = got[q] /\ pc[q] = "fingerprint" /\ step'[q] = step[q]
    BY <1>11
  <2>2. step[q] \in StepNumbers
    BY DEF TypeOK
  <2>3. CASE s = r /\ step[q] = step[r]
    <3>1. Told(r) /\ e.mode = ModeOf(got[r], r)
      BY <1>13, <2>3
    <3>2. got[q] = got[r]
      BY <2>1, <3>1 DEF Same
    <3> QED
      BY <1>6, <2>1, <2>3, <3>1, <3>2
  <2>4. CASE ~(s = r /\ step[q] = step[r])
    <3>1. forward'[s][step[q]] = forward[s][step[q]]
      BY <1>6, <2>2, <2>4
    <3>2. guard[s] # "dead"
      BY <1>2
    <3> QED
      BY <2>1, <3>1, <3>2 DEF Launched
  <2> QED
    BY <2>3, <2>4
<1>15. LaunchesAgree'
  <2>1. ASSUME FpMode = "enforce", NEW q \in Ranks \ {r}, guard'[q] # "dead",
               guard'[r] # "dead", forward'[q][step[r]] # Nothing
        PROVE  forward'[q][step[r]].mode = e.mode
    <3>1. Told(r) /\ got[r].of[r].plan = plan[r] /\ e.mode = ModeOf(got[r], r)
      BY <1>13, <2>1
    <3>2. forward[q][step[r]].mode = ModeOf(got[r], q)
      BY <1>1, <1>2, <1>6, <2>1, <3>1 DEF Launched
    <3>3. ~Mismatch(got[r]) => got[r].of[q] = got[r].of[r]
      BY <3>1 DEF Mismatch, Agree, Told
    <3> QED
      BY <1>6, <3>1, <3>2, <3>3 DEF ModeOf
  <2>2. ASSUME FpMode = "enforce", NEW q \in Ranks, NEW s \in Ranks, NEW k \in StepNumbers,
               guard'[q] # "dead", guard'[s] # "dead",
               forward'[q][k] # Nothing, forward'[s][k] # Nothing
        PROVE  forward'[q][k].mode = forward'[s][k].mode
    <3>1. CASE k = step[r] /\ q # r /\ s = r
      BY <1>6, <2>1, <2>2, <3>1
    <3>2. CASE k = step[r] /\ q = r /\ s # r
      BY <1>6, <2>1, <2>2, <3>2
    <3>3. CASE q = s
      BY <3>3
    <3>4. CASE k # step[r] \/ (q # r /\ s # r)
      <4>1. forward'[q][k] = forward[q][k] /\ forward'[s][k] = forward[s][k]
        BY <1>6, <3>4
      <4>2. guard[q] # "dead" /\ guard[s] # "dead"
        BY <1>2, <2>2
      <4> QED
        BY <2>2, <4>1, <4>2 DEF LaunchesAgree
    <3> QED
      BY <3>1, <3>2, <3>3, <3>4
  <2> QED
    BY <2>2 DEF LaunchesAgree
<1> QED
  BY <1>7, <1>8, <1>9, <1>10, <1>12, <1>14, <1>15, OneMoves

\* What the two ways a step ends have in common; c is where the rank goes.
LEMMA StepEnds ==
  ASSUME IInv, NEW r \in Ranks, NEW c \in {"idle", "dead"},
         pc[r] = "gate", Return(r), EndStep(r), pc' = [pc EXCEPT ![r] = c],
         UNCHANGED <<post, plan, intent, forward>>
  PROVE  /\ pc' \in [Ranks -> {"idle", "fingerprint", "launched", "empty", "gate", "dead"}]
         /\ step' \in [Ranks -> StepNumbers]
         /\ guard' \in [Ranks -> {"unarmed", "armed", "dead"}]
         /\ got' \in [Ranks -> Results \cup {NotYet}]
         /\ agreed' \in [Ranks -> [StepNumbers -> Results]]
         /\ \A q \in Ranks : InExchange(q)'
         /\ step[r] \in StepNumbers /\ agreed'[r][step[r]] = got[r]
         /\ \A k \in StepNumbers : k # step[r] => agreed'[r][k] = agreed[r][k]
         /\ \A q \in Ranks \ {r} : agreed'[q] = agreed[q]
         /\ EachRank' /\ Together' /\ Same' /\ Launched' /\ LaunchesAgree'
         /\ OneVector' /\ HeldVector'
<1> USE DEF IInv
<1>1. /\ guard' \in [Ranks -> {"unarmed", "armed", "dead"}]
      /\ got' \in [Ranks -> Results \cup {NotYet}]
      /\ \A q \in Ranks \ {r} : guard'[q] = guard[q] /\ got'[q] = got[q]
      /\ got[r] \in Results /\ got'[r] = NotYet /\ post[r] = NotYet /\ ~Told(r)'
      /\ guard'[r] = IF got[r] = Failed THEN "dead" ELSE guard[r]
  BY Returns
<1>2. Fits(r)
  BY DEF EachRank, Fits
<1>3. step[r] \in StepNumbers /\ step[r] + 1 \in StepNumbers
  BY <1>2, BoundsAssumption DEF Fits, Local, StepNumbers, TypeOK
<1>4. /\ pc' \in [Ranks -> {"idle", "fingerprint", "launched", "empty", "gate", "dead"}]
      /\ step' \in [Ranks -> StepNumbers]
      /\ pc'[r] = c /\ step'[r] = step[r] + 1
      /\ \A q \in Ranks \ {r} : pc'[q] = pc[q] /\ step'[q] = step[q]
  BY <1>3 DEF TypeOK, EndStep
<1>5. /\ agreed' \in [Ranks -> [StepNumbers -> Results]]
      /\ agreed'[r][step[r]] = got[r]
      /\ \A k \in StepNumbers : k # step[r] => agreed'[r][k] = agreed[r][k]
      /\ \A q \in Ranks \ {r} : agreed'[q] = agreed[q]
  BY <1>1, <1>3 DEF TypeOK, EndStep
<1>6. \A q \in Ranks : InExchange(q)'
  BY <1>1, <1>4 DEF TypeOK, InExchange
<1>7. \A q \in Ranks \ {r} : Still(q)
  BY <1>1, <1>4, <1>5 DEF Still
<1>8. Fits(r)'
  <2>1. Past(r)'
    BY <1>2, <1>3, <1>4, <1>5 DEF Fits, Past, StepNumbers
  <2>2. Local(r)'
    <3>1. CASE c = "dead"
      BY <1>4, <3>1 DEF Local
    <3>2. CASE c = "idle"
      BY <1>4, <3>2 DEF Local
    <3> QED
      BY <3>1, <3>2
  <2>3. Waits(r)' /\ Hears(r)' /\ Skips(r)'
    BY <1>1, <1>4 DEF Waits, Hears, Skips
  <2> QED
    BY <2>1, <2>2, <2>3 DEF Fits
<1>9. On /\ Alive(r)' => Alive(r) /\ Due(r)' = Due(r)
  BY <1>1, <1>4, Distinct DEF Alive, Due
<1>10. EachRank' /\ Together'
  BY <1>7, <1>8, <1>9, OneMoves
<1>11. \A q \in Ranks : Told(q)' =>
         q # r /\ Told(q) /\ got'[q] = got[q] /\ pc'[q] = pc[q] /\ step'[q] = step[q]
  BY <1>1, <1>7, StillFits DEF Still
<1>12. \A q \in Ranks : guard'[q] # "dead" => guard[q] # "dead"
  BY <1>1
<1>13. Same' /\ Launched' /\ LaunchesAgree'
  BY <1>11, <1>12 DEF Same, Launched, LaunchesAgree
<1>14. ASSUME NEW q \in Ranks, got[r].kind = "all", agreed[q][step[r]].kind = "all"
       PROVE  agreed[q][step[r]] = got[r]
  BY <1>14 DEF Told, Drafted, HeldVector
<1>15. OneVector'
  <2> SUFFICES ASSUME NEW p \in Ranks, NEW q \in Ranks, NEW k \in StepNumbers,
                      agreed'[p][k].kind = "all", agreed'[q][k].kind = "all"
               PROVE  agreed'[p][k] = agreed'[q][k]
    BY DEF OneVector
  <2>1. CASE k = step[r] /\ p = r /\ q # r
    BY <1>5, <1>14, <2>1
  <2>2. CASE k = step[r] /\ p # r /\ q = r
    BY <1>5, <1>14, <2>2
  <2>3. CASE p = q
    BY <2>3
  <2>4. CASE k # step[r] \/ (p # r /\ q # r)
    <3>1. agreed'[p][k] = agreed[p][k] /\ agreed'[q][k] = agreed[q][k]
      BY <1>5, <2>4
    <3> QED
      BY <3>1 DEF Drafted, OneVector
  <2> QED
    BY <2>1, <2>2, <2>3, <2>4
<1>16. HeldVector'
  <2> SUFFICES ASSUME NEW q \in Ranks, NEW s \in Ranks, pc'[q] = "gate", Told(q)',
                      agreed'[s][step'[q]].kind = "all"
               PROVE  agreed'[s][step'[q]] = got'[q]
    BY DEF HeldVector
  <2>1. Told(q) /\ got'[q] = got[q] /\ pc[q] = "gate" /\ step'[q] = step[q]
    BY <1>11
  <2>2. step[q] \in StepNumbers
    BY DEF TypeOK
  <2>3. CASE s = r /\ step[q] = step[r]
    <3>1. agreed'[s][step'[q]] = got[r] /\ Told(r)
      BY <1>5, <2>1, <2>3 DEF Told
    <3> QED
      BY <2>1, <3>1 DEF Same
  <2>4. CASE ~(s = r /\ step[q] = step[r])
    <3>1. agreed'[s][step[q]] = agreed[s][step[q]]
      BY <1>5, <2>2, <2>4
    <3> QED
      BY <2>1, <3>1 DEF Drafted, HeldVector
  <2> QED
    BY <2>3, <2>4
<1> QED
  BY <1>1, <1>3, <1>4, <1>5, <1>6, <1>10, <1>13, <1>15, <1>16

LEMMA EmptyEndsStep ==
  ASSUME IInv, NEW r \in Ranks, EmptyEnds(r)
  PROVE  IInv'
<1> USE DEF IInv
<1>1. /\ pc[r] = "gate" /\ plan[r] = Dummy /\ Return(r) /\ EndStep(r)
      /\ pc' = [pc EXCEPT ![r] = "idle"]
      /\ UNCHANGED <<post, plan, intent, last, forward, ran, faults>>
  BY DEF EmptyEnds
<1>2. /\ pc' \in [Ranks -> {"idle", "fingerprint", "launched", "empty", "gate", "dead"}]
      /\ step' \in [Ranks -> StepNumbers]
      /\ guard' \in [Ranks -> {"unarmed", "armed", "dead"}]
      /\ got' \in [Ranks -> Results \cup {NotYet}]
      /\ agreed' \in [Ranks -> [StepNumbers -> Results]]
      /\ \A q \in Ranks : InExchange(q)'
      /\ step[r] \in StepNumbers /\ agreed'[r][step[r]] = got[r]
      /\ \A k \in StepNumbers : k # step[r] => agreed'[r][k] = agreed[r][k]
      /\ \A q \in Ranks \ {r} : agreed'[q] = agreed[q]
      /\ EachRank' /\ Together' /\ Same' /\ Launched' /\ LaunchesAgree'
      /\ OneVector' /\ HeldVector'
  BY <1>1, StepEnds
<1>3. TypeOK'
  BY <1>1, <1>2 DEF TypeOK, InExchange
<1>4. ~AllReal(got[r])
  BY <1>1 DEF EachRank, Hears, Told, AllReal, Own
<1>5. RanAsAgreed'
  <2> SUFFICES ASSUME NEW q \in Ranks, NEW k \in StepNumbers, AllReal(agreed'[q][k])
               PROVE  ran'[q][k] = PassesOf(agreed'[q][k], q)
    BY DEF RanAsAgreed, AllReal, PassesOf, Drafts, Overrides, Mismatch, Agree, Consensus, Passes
  <2>1. agreed'[q][k] = agreed[q][k]
    BY <1>2, <1>4
  <2> QED
    BY <1>1, <2>1 DEF Drafted, RanAsAgreed
<1> QED
  BY <1>2, <1>3, <1>5 DEF Drafted

LEMMA DraftStep ==
  ASSUME IInv, NEW r \in Ranks, Draft(r)
  PROVE  IInv'
<1> USE DEF IInv
<1> DEFINE d == Drafts(got[r], intent[r])
           c == IF ~d /\ CountEvent /\ ~intent[r].metadata THEN "dead" ELSE "idle"
<1>1. /\ pc[r] = "gate" /\ plan[r] # Dummy /\ Return(r) /\ EndStep(r)
      /\ ran' = [ran EXCEPT ![r][step[r]] = IF d THEN intent[r].sched ELSE 0]
      /\ last' = [last EXCEPT ![r] = [fits |-> d, ran |-> d, bare |-> ~intent[r].metadata]]
      /\ pc' = [pc EXCEPT ![r] = c]
      /\ UNCHANGED <<post, plan, intent, forward, faults>>
  BY DEF Draft
<1>2. c \in {"idle", "dead"}
  OBVIOUS
<1>3. intent[r] \in [fits : BOOLEAN, sched : Nat, metadata : BOOLEAN]
  BY <1>1, IntentsAssumption DEF EachRank, Local
<1>4. d \in BOOLEAN
  BY <1>3 DEF Drafts, Consensus
<1> HIDE DEF c
<1>5. /\ pc' \in [Ranks -> {"idle", "fingerprint", "launched", "empty", "gate", "dead"}]
      /\ step' \in [Ranks -> StepNumbers]
      /\ guard' \in [Ranks -> {"unarmed", "armed", "dead"}]
      /\ got' \in [Ranks -> Results \cup {NotYet}]
      /\ agreed' \in [Ranks -> [StepNumbers -> Results]]
      /\ \A q \in Ranks : InExchange(q)'
      /\ step[r] \in StepNumbers /\ agreed'[r][step[r]] = got[r]
      /\ \A k \in StepNumbers : k # step[r] => agreed'[r][k] = agreed[r][k]
      /\ \A q \in Ranks \ {r} : agreed'[q] = agreed[q]
      /\ EachRank' /\ Together' /\ Same' /\ Launched' /\ LaunchesAgree'
      /\ OneVector' /\ HeldVector'
  BY <1>1, <1>2, StepEnds
<1>6. last' \in [Ranks -> LastGates]
  <2>1. [fits |-> d, ran |-> d, bare |-> ~intent[r].metadata] \in LastGates
    BY <1>3, <1>4 DEF LastGates
  <2> HIDE DEF d
  <2> QED
    BY <1>1, <2>1 DEF TypeOK
<1>7. /\ ran' \in [Ranks -> [StepNumbers -> Nat]]
      /\ ran'[r][step[r]] = IF d THEN intent[r].sched ELSE 0
      /\ \A k \in StepNumbers : k # step[r] => ran'[r][k] = ran[r][k]
      /\ \A q \in Ranks \ {r} : ran'[q] = ran[q]
  <2>1. (IF d THEN intent[r].sched ELSE 0) \in Nat
    BY <1>3
  <2> HIDE DEF d
  <2> QED
    BY <1>1, <1>5, <2>1 DEF TypeOK
<1>8. TypeOK'
  BY <1>1, <1>5, <1>6, <1>7 DEF TypeOK, InExchange
<1>9. AllReal(got[r]) => ran'[r][step[r]] = PassesOf(got[r], r)
  <2>1. AllReal(got[r]) => got[r].of[r].own = intent[r]
    BY <1>1 DEF EachRank, Hears, Told, AllReal, Own
  <2> QED
    BY <1>7, <2>1 DEF PassesOf
<1>10. RanAsAgreed'
  <2> SUFFICES ASSUME NEW q \in Ranks, NEW k \in StepNumbers, AllReal(agreed'[q][k])
               PROVE  ran'[q][k] = PassesOf(agreed'[q][k], q)
    BY DEF RanAsAgreed, AllReal, PassesOf, Drafts, Overrides, Mismatch, Agree, Consensus, Passes
  <2>1. CASE q = r /\ k = step[r]
    BY <1>5, <1>9, <2>1
  <2>2. CASE ~(q = r /\ k = step[r])
    <3>1. agreed'[q][k] = agreed[q][k] /\ ran'[q][k] = ran[q][k]
      BY <1>5, <1>7, <2>2
    <3> QED
      BY <3>1 DEF Drafted, RanAsAgreed
  <2> QED
    BY <2>1, <2>2
<1> QED
  BY <1>5, <1>8, <1>10 DEF Drafted

\* Ranks that wait at the same time wait in the same exchange.
LEMMA WaitTogether ==
  ASSUME IInv, NEW q \in Ranks, NEW r \in Ranks, post[q] # NotYet, post[r] # NotYet
  PROVE  pc[q] = pc[r] /\ step[q] = step[r] /\ post[q].kind = post[r].kind
<1> USE DEF IInv
<1>1. \A p \in {q, r} :
        /\ pc[p] \in {"fingerprint", "gate"} /\ got[p] = NotYet /\ guard[p] = "armed"
        /\ pc[p] = "fingerprint" => FpMode # "off" /\ post[p].kind = "fp"
        /\ pc[p] = "gate" => GateMode # "off" /\ post[p].kind = "gate"
        /\ step[p] \in Nat
  <2> SUFFICES ASSUME NEW p \in Ranks, post[p] # NotYet
               PROVE  /\ pc[p] \in {"fingerprint", "gate"}
                      /\ got[p] = NotYet /\ guard[p] = "armed"
                      /\ pc[p] = "fingerprint" => FpMode # "off" /\ post[p].kind = "fp"
                      /\ pc[p] = "gate" => GateMode # "off" /\ post[p].kind = "gate"
                      /\ step[p] \in Nat
    OBVIOUS
  <2>1. Waits(p) /\ step[p] \in Nat
    BY BoundsAssumption DEF EachRank, TypeOK, StepNumbers
  <2> QED
    BY <2>1, Holding DEF Waits
<1>2. On /\ Alive(q) /\ Alive(r)
  BY <1>1, Distinct DEF On, Alive
<1>3. Due(q) = Due(r)
  BY <1>2 DEF Together
<1>4. \A p \in {q, r} :
        Due(p) = IF pc[p] = "fingerprint" THEN 2 * step[p] ELSE 2 * step[p] + 1
  BY <1>1 DEF Due, AtFp, AtGate
<1> QED
  BY <1>1, <1>3, <1>4

LEMMA CompleteStep ==
  ASSUME IInv, Complete
  PROVE  IInv'
<1> USE DEF IInv
<1>1. PICK lost \in SUBSET Ranks :
        /\ lost # {} => faults < Faults
        /\ faults' = IF lost = {} THEN faults ELSE faults + 1
        /\ got' = [r \in Ranks |-> IF r \in lost THEN Failed ELSE All(post)]
  BY DEF Complete
<1>2. /\ \A r \in Ranks : post[r] # NotYet
      /\ post' = [r \in Ranks |-> NotYet]
      /\ UNCHANGED <<pc, step, guard, plan, intent, last, forward, agreed, ran>>
  BY DEF Complete
<1>3. \A r \in Ranks :
        /\ pc[r] \in {"fingerprint", "gate"} /\ got[r] = NotYet /\ guard[r] = "armed"
        /\ post[r] \in Posts
  BY <1>2, Holding
<1>4. All(post).kind = "all" /\ All(post).of = post /\ All(post) \in Results
      /\ All(post) # NotYet /\ All(post) # Failed /\ All(post) # Nothing
  <2>1. post \in [Ranks -> Posts]
    BY <1>3 DEF TypeOK
  <2> QED
    BY <2>1, Distinct DEF All, Results
<1>5. \A r \in Ranks : post'[r] = NotYet /\ got'[r] \in {Failed, All(post)}
  BY <1>1, <1>2
<1>6. TypeOK'
  <2>1. \A r \in Ranks : InExchange(r)'
    BY <1>2, <1>3, <1>4, <1>5, Distinct DEF InExchange
  <2>2. post' \in [Ranks -> Posts \cup {NotYet}] /\ got' \in [Ranks -> Results \cup {NotYet}]
    BY <1>1, <1>2, <1>4 DEF Results
  <2>3. faults' \in 0..Faults
    BY <1>1, BoundsAssumption DEF TypeOK
  <2> QED
    BY <1>2, <2>1, <2>2, <2>3 DEF TypeOK, InExchange
<1>7. \A r \in Ranks : Told(r)' => got'[r] = All(post)
  BY <1>5, Distinct DEF Told
<1>8. EachRank'
  <2> SUFFICES ASSUME NEW r \in Ranks PROVE Fits(r)'
    BY DEF EachRank, Fits
  <2>1. Local(r) /\ Past(r) /\ Waits(r)
    BY DEF EachRank
  <2>2. Local(r)' /\ Past(r)'
    BY <1>2, <2>1 DEF Local, Past
  <2>3. Waits(r)' /\ Skips(r)'
    BY <1>4, <1>5, Distinct DEF Waits, Skips
  <2>4. Hears(r)'
    BY <1>2, <1>3, <1>4, <1>7, <2>1 DEF Hears, Waits, Own
  <2> QED
    BY <2>2, <2>3, <2>4 DEF Fits
<1>9. \A q, r \in Ranks : pc[q] = pc[r] /\ step[q] = step[r]
  BY <1>2, WaitTogether
<1>10. Together'
  <2>1. \A r \in Ranks : got'[r] # NotYet
    BY <1>4, <1>5, Distinct
  <2>2. \A q, r \in Ranks : Due(q)' = Due(r)'
    BY <1>2, <1>9, <2>1 DEF Due, AtFp, AtGate
  <2> QED
    BY <2>2 DEF Together
<1>11. Same' /\ LaunchesAgree'
  BY <1>2, <1>7 DEF Same, LaunchesAgree
<1>12. ASSUME NEW q \in Ranks, NEW r \in Ranks
       PROVE  /\ pc[q] = "fingerprint" => forward[r][step[q]] = Nothing
              /\ agreed[r][step[q]].kind # "all"
  <2>1. step[q] = step[r] /\ pc[q] = pc[r] /\ step[r] \in StepNumbers /\ Past(r)
    BY <1>9 DEF EachRank, TypeOK
  <2> QED
    BY <2>1 DEF Past, StepNumbers
<1>13. Launched'
  BY <1>2, <1>12 DEF Launched
<1>14. Drafted'
  BY <1>2, <1>12 DEF Drafted, RanAsAgreed, OneVector, HeldVector
<1> QED
  BY <1>6, <1>8, <1>10, <1>11, <1>13, <1>14

LEMMA StutterStep ==
  ASSUME IInv, UNCHANGED vars
  PROVE  IInv'
<1> USE DEF IInv, vars
<1>1. TypeOK'
  BY DEF TypeOK
<1>2. EachRank' /\ Together'
  <2>1. \A q \in Ranks : Still(q)
    BY DEF Still
  <2>2. EachRank'
    BY <2>1, StillFits DEF EachRank, Fits
  <2>3. Together'
    BY <2>1, StillFits DEF Together, On
  <2> QED
    BY <2>2, <2>3
<1>3. Quiet
  BY DEF Quiet
<1> QED
  BY <1>1, <1>2, <1>3, QuietKeeps

LEMMA NextIInv == IInv /\ [Next]_vars => IInv'
<1> SUFFICES ASSUME IInv, [Next]_vars PROVE IInv'
  OBVIOUS
<1>1. CASE Complete
  BY <1>1, CompleteStep
<1>2. ASSUME NEW r \in Ranks, Rank(r) \/ TimesOut(r) \/ Dies(r)
      PROVE  IInv'
  BY <1>2, BeginStep, ForwardStep, EmptyStep, EmptyGateStep, SampleStep, EmptyEndsStep,
     DraftStep, TimesOutStep, DiesStep DEF Rank
<1>3. CASE UNCHANGED vars
  BY <1>3, StutterStep
<1> QED
  BY <1>1, <1>2, <1>3 DEF Next

-----------------------------------------------------------------------------
(* The theorems. *)

\* However the exchanges go, a rank of gpu_model_runner.py is in an exchange, or holds the
\* result of one, exactly in the code around it, and waits only with its guard armed.
THEOREM RankGateTypes == Spec => []TypeOK
<1>1. IInv => TypeOK
  BY DEF IInv
<1> QED
  BY <1>1, InitIInv, NextIInv, PTL DEF Spec

\* The all-gathers of gpu_model_runner.py, which the group matches by their order only, are
\* the same one on all ranks that wait: a fingerprint meets no gate payload and no other
\* step's fingerprint, whatever timed out, raised or died before.
THEOREM ExchangesPair == Spec => []Paired
<1>1. IInv => Paired
  BY WaitTogether DEF Paired
<1> QED
  BY <1>1, InitIInv, NextIInv, PTL DEF Spec

\* Ranks told the same intents run the same drafter passes.
LEMMA SamePasses ==
  ASSUME GateMode = "enforce", NEW g, AllReal(g), NEW q \in Ranks, NEW r \in Ranks
  PROVE  PassesOf(g, q) = PassesOf(g, r)
<1>1. CASE Agree(g.of)
  <2>1. g.of[q] = g.of[r] /\ ~Overrides(g)
    BY <1>1 DEF Agree, Overrides, Mismatch
  <2> QED
    BY <2>1 DEF PassesOf, Drafts
<1>2. CASE ~Agree(g.of)
  <2>1. Overrides(g)
    BY <1>2 DEF Overrides, Mismatch, AllReal
  <2>2. Consensus(g.of) => g.of[q].own.sched = g.of[r].own.sched
    BY DEF Consensus
  <2> QED
    BY <2>1, <2>2 DEF PassesOf, Drafts
<1> QED
  BY <1>1, <1>2

\* With the guards enforced, ranks of gpu_model_runner.py that got through them launch the
\* same number of drafter passes and forward passes in the same graph mode, in every step.
THEOREM LaunchesTheSame == Spec => []RanksAgree
<1>1. IInv => DraftsAgree
  <2> SUFFICES ASSUME IInv, GateMode = "enforce", NEW q \in Ranks, NEW r \in Ranks,
                      NEW k \in StepNumbers, AllReal(agreed[q][k]), AllReal(agreed[r][k])
               PROVE  ran[q][k] = ran[r][k]
    BY DEF DraftsAgree
  <2>1. agreed[q][k] = agreed[r][k]
    BY DEF IInv, Drafted, OneVector, AllReal
  <2>2. ran[q][k] = PassesOf(agreed[q][k], q) /\ ran[r][k] = PassesOf(agreed[r][k], r)
    BY DEF IInv, Drafted, RanAsAgreed
  <2> QED
    BY <2>1, <2>2, SamePasses
<1>2. IInv => RanksAgree
  BY <1>1 DEF IInv, RanksAgree
<1> QED
  BY <1>2, InitIInv, NextIInv, PTL DEF Spec

=============================================================================
