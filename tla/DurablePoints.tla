--------------------------- MODULE DurablePoints ---------------------------
(***************************************************************************)
(* What a rank's spill store promises about its points across crashes: a   *)
(* point, once published, is listed again after every restart until the    *)
(* store itself removes it.  Nothing is promised of the others: one that   *)
(* was being written or deleted may be listed again or not.                *)
(***************************************************************************)
CONSTANTS
    Keys,           \* points
    Unreadable      \* BOOLEAN: whether a start may be unable to read a point

VARIABLES
    up,             \* the store is open
    listed,         \* the points a lookup may return
    promised        \* published and not removed since

dvars == <<up, listed, promised>>

Init == up = TRUE /\ listed = {} /\ promised = {}

\* A point is published; publishing it may retire others.
Publish(k) ==
    /\ up /\ k \notin listed
    /\ listed' \subseteq listed \cup {k}
    /\ promised' = (promised \cup {k}) \cap listed'
    /\ UNCHANGED up

Remove ==
    /\ up /\ listed' \subseteq listed
    /\ promised' = promised \cap listed'
    /\ UNCHANGED up

Stop == up /\ up' = FALSE /\ listed' = {} /\ UNCHANGED promised

\* A start that cannot read a point leaves it for a later one.
Overlook ==
    /\ ~up /\ Unreadable
    /\ promised' \subseteq promised
    /\ UNCHANGED <<up, listed>>

Start ==
    /\ ~up /\ up' = TRUE
    /\ promised \subseteq listed' /\ listed' \subseteq Keys
    /\ UNCHANGED promised

Next == Remove \/ Stop \/ Overlook \/ Start \/ \E k \in Keys : Publish(k)

Spec == Init /\ [][Next]_dvars
=============================================================================
