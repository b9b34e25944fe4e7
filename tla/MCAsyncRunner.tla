---------------------------- MODULE MCAsyncRunner ----------------------------
(* Instances of AsyncRunner for TLC: one request long enough for drafts to *)
(* be rejected while later ones are in flight, one that comes and goes.    *)
EXTENDS AsyncRunner, TLC

CONSTANTS a, b

MCMaxOut == (a :> 5) @@ (b :> 2)
=============================================================================
