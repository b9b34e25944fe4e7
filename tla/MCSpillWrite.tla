---------------------------- MODULE MCSpillWrite ----------------------------
(* Small instances of SpillWrite. *)
EXTENDS SpillWrite

\* Two conversations that share block a; k2 extends k1, k3 forks off it with
\* a tail of its own.
MCBlocksOf == [k1 |-> <<"a">>, k2 |-> <<"a", "b">>, k3 |-> <<"a", "t">>]
MCKeys == DOMAIN MCBlocksOf
MCNames == {"a", "b", "t"}
MCTailed == {"k3"}
MCOlder == [k1 |-> {}, k2 |-> {"k1"}, k3 |-> {"k1"}]
=============================================================================
