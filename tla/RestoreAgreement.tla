-------------------------- MODULE RestoreAgreement --------------------------
(***************************************************************************)
(* What a restore on several ranks promises: it is installed on every rank *)
(* or on none, and only what every rank has prepared is installed.  Once a *)
(* rank or a link failed (`faulty`) the ranks have to be restarted: one of *)
(* them may then give up a restore that another installs.                  *)
(***************************************************************************)
CONSTANTS Ranks, Txns

VARIABLES
    outcome,    \* outcome[r][t]
    faulty

avars == <<outcome, faulty>>

Outcomes == {"working", "prepared", "installed", "dropped"}

Init == outcome = [r \in Ranks |-> [t \in Txns |-> "working"]] /\ faulty = FALSE

Is(r, t, S) == outcome[r][t] \in S
Becomes(r, t, o) == outcome' = [outcome EXCEPT ![r][t] = o] /\ UNCHANGED faulty

Prepare(r, t) == Is(r, t, {"working"}) /\ Becomes(r, t, "prepared")

\* What was prepared went stale before it was decided.
Unprepare(r, t) ==
    /\ Is(r, t, {"prepared"}) /\ \A q \in Ranks : ~Is(q, t, {"installed"})
    /\ Becomes(r, t, "working")

\* The ranks do not install at one moment: one that did not yet is prepared,
\* and one that dropped the restore did so after a fault.
Install(r, t) ==
    /\ Is(r, t, {"prepared"})
    /\ \A q \in Ranks : Is(q, t, {"prepared", "installed"}) \/ (faulty /\ Is(q, t, {"dropped"}))
    /\ Becomes(r, t, "installed")

\* A restore is dropped on a rank, maybe because of a fault.
Drop(r, t) ==
    /\ Is(r, t, {"working", "prepared"})
    /\ faulty' \in BOOLEAN /\ (faulty => faulty')
    /\ faulty' \/ \A q \in Ranks : ~Is(q, t, {"installed"})
    /\ outcome' = [outcome EXCEPT ![r][t] = "dropped"]

Fault == faulty' = TRUE /\ UNCHANGED outcome

Next ==
    \/ Fault
    \/ \E r \in Ranks, t \in Txns : Prepare(r, t) \/ Unprepare(r, t) \/ Install(r, t) \/ Drop(r, t)

Spec == Init /\ [][Next]_avars

-----------------------------------------------------------------------------
(* What follows from it *)

Typed == outcome \in [Ranks -> [Txns -> Outcomes]] /\ faulty \in BOOLEAN

\* Without a fault, a restore that is installed somewhere is installed or
\* about to be on every rank: a commit follows the validation of all.
Agreed ==
    ~faulty => \A t \in Txns, q, r \in Ranks :
        Is(q, t, {"installed"}) => Is(r, t, {"prepared", "installed"})

\* What a rank installed or dropped stays so, fault or not.
KeepsOutcomes ==
    \A r \in Ranks, t \in Txns : Is(r, t, {"installed", "dropped"}) => outcome'[r][t] = outcome[r][t]
Final == [][KeepsOutcomes]_avars
=============================================================================
