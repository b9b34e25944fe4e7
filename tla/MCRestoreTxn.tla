---------------------------- MODULE MCRestoreTxn ----------------------------
(* Small instances of RestoreTxn.                                          *)
EXTENDS RestoreTxn, TLC
=============================================================================
