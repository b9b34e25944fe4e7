---------------------------- MODULE MCSpillDisk ----------------------------
(* Small instances of SpillDisk: two points that share a block. *)
EXTENDS SpillDisk

MCBlocksOf == [k1 |-> <<"a">>, k2 |-> <<"a", "b">>]
MCKeys == DOMAIN MCBlocksOf
MCNames == {"a", "b"}
MCOlder == [k1 |-> {}, k2 |-> {"k1"}]
=============================================================================
