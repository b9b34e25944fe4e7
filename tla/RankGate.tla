------------------------------ MODULE RankGate ------------------------------
(***************************************************************************)
(* The two host-side guards of the tensor-parallel ranks of the vLLM       *)
(* runner (gpu_model_runner.py, "GLM52"): before a forward pass the ranks  *)
(* exchange a fingerprint of what each is about to run, and before the     *)
(* drafter they exchange whether each means to run it.  Both exchanges are *)
(* blocking all-gathers on one gloo group, matched by their order only.    *)
(* Any of them may fail on some of the ranks, a rank may die, and a rank   *)
(* may see a step without tokens when the others do not.                   *)
(***************************************************************************)
EXTENDS Integers, FiniteSets

CONSTANTS Ranks,      \* the tensor-parallel ranks
          FpMode,     \* GLM52_FINGERPRINT_MODE
          GateMode,   \* GLM52_DRAFTER_GATE
          CountEvent, \* whether valid_sampled_token_count_event exists (async scheduling)
          Plans,      \* what a rank may decide to run: cudagraph mode and padded size
          Intents,    \* what a rank may bring to the drafter's gate
          Steps,      \* bound: the engine steps of a behaviour
          Faults      \* bound: the failed exchanges and dead ranks of a behaviour

GuardModes == {"off", "observe", "enforce"}

ASSUME RanksAssumption == Ranks # {} /\ IsFiniteSet(Ranks)
ASSUME ModesAssumption ==
  FpMode \in GuardModes /\ GateMode \in GuardModes /\ CountEvent \in BOOLEAN
ASSUME BoundsAssumption == Steps \in Nat /\ Faults \in Nat
ASSUME IntentsAssumption ==
  /\ Intents \subseteq [fits : BOOLEAN, sched : Nat, metadata : BOOLEAN]
  /\ \A i \in Intents : i.fits => i.metadata
ASSUME PlansAssumption ==
  Plans \subseteq [kind : {"real"}, mode : {"full", "none"}, padded : Nat, forced : {FALSE}]

VARIABLES pc,       \* where each rank's worker is in its step
          step,     \* the engine step each rank is in
          guard,    \* _glm52_fp: not armed yet, armed, or dead
          post,     \* what a rank waits with in an exchange
          got,      \* what an exchange gave a rank that has not returned from it
          plan,     \* the execution decisions of the rank's step
          intent,   \* the rank's own decision at the drafter's gate
          last,     \* _glm52_drafter_last
          forward,  \* history: what the rank launched as forward pass in each step
          agreed,   \* history: what the gate's exchange of each step gave the rank
          ran,      \* history: the drafter passes the rank launched in each step
          faults    \* the faults so far

vars == <<pc, step, guard, post, got, plan, intent, last, forward, agreed, ran, faults>>

Nothing == [kind |-> "nothing"]   \* no exchange, or a guard that is off or inert
Failed == [kind |-> "failed"]     \* the exchange raised
Dummy == [kind |-> "dummy"]       \* a step without tokens
NotYet == [kind |-> "not yet"]

-----------------------------------------------------------------------------
\* What is exchanged: a fingerprint (this step's plan, last step's gate), and the
\* gate's payload (the passes the rank would run, its scheduled count, its metadata).

Fingerprint(p, l) == [kind |-> "fp", plan |-> p, last |-> l]
Payload(i) == [kind |-> "gate", own |-> i]
DummyPayload == [kind |-> "gate", own |-> Dummy]
Passes(i) == IF i.fits THEN i.sched ELSE 0

All(v) == [kind |-> "all", of |-> v]
Agree(v) == \A q, r \in Ranks : v[q] = v[r]
Mismatch(g) == g.kind = "all" /\ ~Agree(g.of)

\* _glm52_gate_consensus: what all adopt when they differ.
ConsensusUnscheduled(v) ==
  /\ \A q \in Ranks : v[q].own.metadata
  /\ \E q \in Ranks : Passes(v[q].own) > 0
Consensus(v) ==
  /\ \A q \in Ranks : v[q].own.metadata
  /\ \A q, r \in Ranks : v[q].own.sched = v[r].own.sched
  /\ \E q \in Ranks : Passes(v[q].own) > 0

\* The gate overrides a rank's own decision only when all ranks have tokens.
Overrides(g) ==
  /\ GateMode = "enforce"
  /\ Mismatch(g)
  /\ \A q \in Ranks : g.of[q].own # Dummy

Drafts(g, i) == IF Overrides(g) THEN Consensus(g.of) ELSE i.fits

-----------------------------------------------------------------------------
\* Entering an exchange.  The guard arms at the first one, or never.

NextGuards(r) ==
  IF guard[r] # "unarmed" THEN {guard[r]}
  ELSE IF Cardinality(Ranks) > 1 THEN {"armed", "dead"} ELSE {"dead"}

Enter(r, payload) ==
  \E g \in NextGuards(r) :
    /\ guard' = [guard EXCEPT ![r] = g]
    /\ IF g = "armed"
       THEN post' = [post EXCEPT ![r] = payload] /\ UNCHANGED got
       ELSE got' = [got EXCEPT ![r] = Nothing] /\ UNCHANGED post

Skip(r) == got' = [got EXCEPT ![r] = Nothing] /\ UNCHANGED <<guard, post>>

\* Returning from it: an exception leaves both guards dead.
ReturnWaiting(r) ==
  got[r] \notin {NotYet, Failed} /\ got' = [got EXCEPT ![r] = NotYet] /\ UNCHANGED guard
ReturnStale(r) ==
  /\ got[r] # NotYet /\ UNCHANGED got
  /\ guard' = [guard EXCEPT ![r] = IF got[r] = Failed THEN "dead" ELSE @]
Return(r) ==
  /\ got[r] # NotYet
  /\ got' = [got EXCEPT ![r] = NotYet]
  /\ guard' = [guard EXCEPT ![r] = IF got[r] = Failed THEN "dead" ELSE @]

\* execute_model decides what to run, or has no tokens, and exchanges the fingerprint.
Begin(r) ==
  /\ pc[r] = "idle" /\ step[r] < Steps
  /\ \E p \in Plans \cup {Dummy} :
       /\ plan' = [plan EXCEPT ![r] = p]
       /\ IF FpMode = "off" THEN Skip(r) ELSE Enter(r, Fingerprint(p, last[r]))
  /\ pc' = [pc EXCEPT ![r] = "fingerprint"]
  /\ UNCHANGED <<step, intent, last, forward, agreed, ran, faults>>

\* The mode a plan runs in once the fingerprints are known.
Enforced(p, g) ==
  IF FpMode = "enforce" /\ Mismatch(g) THEN [p EXCEPT !.mode = "none", !.forced = TRUE] ELSE p

\* The step with tokens launches its forward pass.
Forward(r) ==
  /\ pc[r] = "fingerprint" /\ plan[r] # Dummy
  /\ Return(r)
  /\ plan' = [plan EXCEPT ![r] = Enforced(@, got[r])]
  /\ forward' = [forward EXCEPT ![r][step[r]] = plan'[r]]
  /\ pc' = [pc EXCEPT ![r] = "launched"]
  /\ UNCHANGED <<step, post, intent, last, agreed, ran, faults>>

\* The step without tokens returns from the first exchange and enters the second.
Empty(r) ==
  /\ pc[r] = "fingerprint" /\ plan[r] = Dummy
  /\ Return(r)
  /\ pc' = [pc EXCEPT ![r] = "empty"]
  /\ UNCHANGED <<step, post, plan, intent, last, forward, agreed, ran, faults>>

EmptyGateNone(r) ==
  /\ pc[r] = "empty" /\ Skip(r)
  /\ pc' = [pc EXCEPT ![r] = "gate"]
  /\ UNCHANGED <<step, plan, intent, last, forward, agreed, ran, faults>>
EmptyGate(r) ==
  /\ pc[r] = "empty"
  /\ IF GateMode = "off" THEN Skip(r) ELSE Enter(r, DummyPayload)
  /\ pc' = [pc EXCEPT ![r] = "gate"]
  /\ UNCHANGED <<step, plan, intent, last, forward, agreed, ran, faults>>

\* sample_tokens comes to the drafter's gate.
Sample(r) ==
  /\ pc[r] = "launched"
  /\ \E i \in Intents :
       /\ intent' = [intent EXCEPT ![r] = i]
       /\ last' = [last EXCEPT ![r] = [fits |-> i.fits, ran |-> FALSE, bare |-> ~i.metadata]]
       /\ IF GateMode = "off" THEN Skip(r) ELSE Enter(r, Payload(i))
  /\ pc' = [pc EXCEPT ![r] = "gate"]
  /\ UNCHANGED <<step, plan, forward, agreed, ran, faults>>

EndStep(r) ==
  /\ step' = [step EXCEPT ![r] = @ + 1]
  /\ agreed' = [agreed EXCEPT ![r][step[r]] = got[r]]

EmptyEnds(r) ==
  /\ pc[r] = "gate" /\ plan[r] = Dummy
  /\ Return(r) /\ EndStep(r)
  /\ pc' = [pc EXCEPT ![r] = "idle"]
  /\ UNCHANGED <<post, plan, intent, last, forward, ran, faults>>

\* The drafter runs, or its drafts are zeroed: with the count event that path asserts that
\* there is metadata.
Draft(r) ==
  LET i == intent[r]
      d == Drafts(got[r], i)
  IN /\ pc[r] = "gate" /\ plan[r] # Dummy
     /\ Return(r) /\ EndStep(r)
     /\ ran' = [ran EXCEPT ![r][step[r]] = IF d THEN i.sched ELSE 0]
     /\ last' = [last EXCEPT ![r] = [fits |-> d, ran |-> d, bare |-> ~i.metadata]]
     /\ pc' = [pc EXCEPT ![r] = IF ~d /\ CountEvent /\ ~i.metadata THEN "dead" ELSE "idle"]
     /\ UNCHANGED <<post, plan, intent, forward, faults>>

-----------------------------------------------------------------------------
\* The group: an exchange completes when every rank is in one, whatever it is; a fault
\* makes it raise on some.  A rank that waits for one that will not come gets out by the
\* group's timeout or is killed by the watchdog of its process.

Complete ==
  /\ \A r \in Ranks : post[r] # NotYet
  /\ \E lost \in SUBSET Ranks :
       /\ lost # {} => faults < Faults
       /\ faults' = IF lost = {} THEN faults ELSE faults + 1
       /\ got' = [r \in Ranks |-> IF r \in lost THEN Failed ELSE All(post)]
  /\ post' = [r \in Ranks |-> NotYet]
  /\ UNCHANGED <<pc, step, guard, plan, intent, last, forward, agreed, ran>>

Gone(q) == pc[q] = "dead" \/ guard[q] = "dead"
Stuck(r) == post[r] # NotYet /\ \E q \in Ranks : Gone(q)

TimesOut(r) ==
  /\ post[r] # NotYet
  /\ Stuck(r) \/ faults < Faults
  /\ faults' = IF Stuck(r) THEN faults ELSE faults + 1
  /\ post' = [post EXCEPT ![r] = NotYet]
  /\ got' = [got EXCEPT ![r] = Failed]
  /\ UNCHANGED <<pc, step, guard, plan, intent, last, forward, agreed, ran>>

Dies(r) ==
  /\ pc[r] # "dead"
  /\ Stuck(r) \/ faults < Faults
  /\ faults' = IF Stuck(r) THEN faults ELSE faults + 1
  /\ pc' = [pc EXCEPT ![r] = "dead"]
  /\ post' = [post EXCEPT ![r] = NotYet]
  /\ got' = [got EXCEPT ![r] = NotYet]
  /\ UNCHANGED <<step, guard, plan, intent, last, forward, agreed, ran>>

-----------------------------------------------------------------------------
StepNumbers == 0..Steps

Init ==
  /\ pc = [r \in Ranks |-> "idle"]
  /\ step = [r \in Ranks |-> 0]
  /\ guard = [r \in Ranks |-> "unarmed"]
  /\ post = [r \in Ranks |-> NotYet]
  /\ got = [r \in Ranks |-> NotYet]
  /\ plan = [r \in Ranks |-> Dummy]
  /\ intent = [r \in Ranks |-> Nothing]
  /\ last = [r \in Ranks |-> Nothing]
  /\ forward = [r \in Ranks |-> [k \in StepNumbers |-> Nothing]]
  /\ agreed = [r \in Ranks |-> [k \in StepNumbers |-> Nothing]]
  /\ ran = [r \in Ranks |-> [k \in StepNumbers |-> 0]]
  /\ faults = 0

Rank(r) ==
  \/ Begin(r) \/ Forward(r) \/ Empty(r) \/ EmptyGate(r)
  \/ Sample(r) \/ EmptyEnds(r) \/ Draft(r)

Next ==
  \/ \E r \in Ranks : Rank(r) \/ TimesOut(r) \/ Dies(r)
  \/ Complete

\* The workers and the group go on; only a stuck rank is sure to time out.
Fairness ==
  /\ \A r \in Ranks : WF_vars(Rank(r)) /\ WF_vars(Stuck(r) /\ TimesOut(r))
  /\ WF_vars(Complete)

Spec == Init /\ [][Next]_vars
LiveSpec == Spec /\ Fairness

-----------------------------------------------------------------------------
\* Type correctness; and a rank is in an exchange, or holds the result of one, exactly while it
\* is in the code around it, and waits only with its guard armed.
LastGates == {Nothing} \cup [fits : BOOLEAN, ran : BOOLEAN, bare : BOOLEAN]
Decided == Plans \cup {[p EXCEPT !.mode = "none", !.forced = TRUE] : p \in Plans}
Posts ==
  [kind : {"fp"}, plan : Plans \cup {Dummy}, last : LastGates]
    \cup [kind : {"gate"}, own : Intents \cup {Dummy}]
Results == {Nothing, Failed} \cup [kind : {"all"}, of : [Ranks -> Posts]]

TypeOK ==
  /\ pc \in [Ranks -> {"idle", "fingerprint", "launched", "empty", "gate", "dead"}]
  /\ step \in [Ranks -> StepNumbers]
  /\ guard \in [Ranks -> {"unarmed", "armed", "dead"}]
  /\ post \in [Ranks -> Posts \cup {NotYet}]
  /\ got \in [Ranks -> Results \cup {NotYet}]
  /\ plan \in [Ranks -> Decided \cup {Dummy}]
  /\ intent \in [Ranks -> Intents \cup {Nothing}]
  /\ last \in [Ranks -> LastGates]
  /\ forward \in [Ranks -> [StepNumbers -> Decided \cup {Nothing}]]
  /\ agreed \in [Ranks -> [StepNumbers -> Results]]
  /\ ran \in [Ranks -> [StepNumbers -> Nat]]
  /\ faults \in 0..Faults
  /\ \A r \in Ranks :
       /\ pc[r] \in {"fingerprint", "gate"} <=> (post[r] # NotYet \/ got[r] # NotYet)
       /\ post[r] # NotYet => guard[r] = "armed" /\ got[r] = NotYet

\* Ranks that wait in an exchange at the same time wait in the same one: fingerprints are
\* never gathered with gate payloads, nor one step's with another's, whatever failed before
\* (the alignment rule of the module header).
Paired ==
  \A q, r \in Ranks :
    post[q] # NotYet /\ post[r] # NotYet =>
      step[q] = step[r] /\ post[q].kind = post[r].kind

\* With the gate enforced, ranks that got through one step's exchange launch the same number
\* of drafter passes in it, whatever each of them meant to do.
AllReal(g) == g.kind = "all" /\ \A q \in Ranks : g.of[q].own # Dummy
DraftsAgree ==
  GateMode = "enforce" =>
    \A q, r \in Ranks : \A k \in StepNumbers :
      AllReal(agreed[q][k]) /\ AllReal(agreed[r][k]) => ran[q][k] = ran[r][k]

\* With the fingerprint enforced, ranks whose guard works launch each step's forward pass in
\* the same cudagraph mode, whatever each of them had dispatched to.
LaunchesAgree ==
  FpMode = "enforce" =>
    \A q, r \in Ranks : \A k \in StepNumbers :
      /\ guard[q] # "dead" /\ guard[r] # "dead"
      /\ forward[q][k] # Nothing /\ forward[r][k] # Nothing
      => forward[q][k].mode = forward[r][k].mode

\* Ranks that got through the guards launch the same work in each step: the
\* same number of drafter passes, the same graph mode.
RanksAgree == DraftsAgree /\ LaunchesAgree

\* The guards hold no rank up for ever, though a peer died or left an exchange.
StepsEnd == \A r \in Ranks : <>(pc[r] = "dead" \/ step[r] = Steps)

=============================================================================
