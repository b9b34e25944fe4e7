----------------------------- MODULE MCV2Runner -----------------------------
(* Two requests with the same prompt, and the modes a start may pick.      *)
EXTENDS V2Runner

MCReqs == {1, 2}
MCClass == [r \in MCReqs |-> 1]
MCPromptLen == [r \in MCReqs |-> 5 - r]
MCBlocks == 1 .. 4
MCCaptureSizes == {3, 4}
MCModes == {[mode |-> "FULL_AND_PIECEWISE", breakable |-> FALSE, supports |-> TRUE],
            [mode |-> "PIECEWISE", breakable |-> TRUE, supports |-> TRUE]}
=============================================================================
