----------------------------- MODULE MCRankGate -----------------------------
(* Instances of RankGate for TLC.                                          *)
EXTENDS RankGate, TLC

MCPlan(m, n) == [kind |-> "real", mode |-> m, padded |-> n, forced |-> FALSE]
MCPlans == {MCPlan("full", 2), MCPlan("none", 1)}
MCIntent(f, s, m) == [fits |-> f, sched |-> s, metadata |-> m]
MCIntents == {MCIntent(TRUE, 1, TRUE), MCIntent(TRUE, 2, TRUE), MCIntent(FALSE, 1, TRUE), MCIntent(FALSE, 1, FALSE)}
=============================================================================
