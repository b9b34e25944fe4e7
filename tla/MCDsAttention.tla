---- MODULE MCDsAttention ----
(* Three requests, a target with layers of each kind or one drafting layer;   *)
(* the schedules mix decodes of one to three tokens, prompts short enough to  *)
(* count as decodes, and prefills that need several chunks.                   *)
EXTENDS DsAttention

MCRatio == [c4a |-> 2, c128a |-> 4, swaonly |-> 1, full |-> 1]
Target == [backend |-> "flashmla", streams |-> TRUE, flattening |-> TRUE, drafting |-> FALSE, async |-> FALSE,
           layers |-> <<"c4a", "swaonly", "c128a">>]
MCSetups ==
    {Target,
     [Target EXCEPT !.streams = FALSE, !.flattening = FALSE, !.async = TRUE, !.layers = <<"c128a", "c4a">>],
     [Target EXCEPT !.backend = "flashmla_sparse", !.streams = FALSE, !.async = TRUE, !.layers = <<"full", "full">>],
     [Target EXCEPT !.backend = "flashmla_sparse", !.streams = FALSE, !.flattening = FALSE, !.async = TRUE, !.layers = <<"full">>],
     [Target EXCEPT !.backend = "flashinfer", !.streams = FALSE, !.layers = <<"c128a", "c4a", "swaonly", "c4a", "c128a">>],
     [Target EXCEPT !.streams = FALSE, !.drafting = TRUE, !.layers = <<"swaonly">>]}
MCReqs == 1..3
MCStarts == {<<0, 0, 0>>, <<7, 5, 2>>}
MCSchedules ==
    {<< <<2, 3>>, <<1, 3>> >>, << <<1, 1>>, <<2, 2>> >>, << <<3, 2>>, <<1, 2>> >>,
     << <<2, 1>>, <<1, 4>> >>, << <<1, 4>>, <<2, 4>> >>, << <<3, 2>>, <<2, 1>>, <<1, 5>> >>,
     << <<3, 2>>, <<2, 1>>, <<1, 1>> >>}
MCSwaTable == << <<1, 2, 3>>, <<4, 5, 6>>, <<9, 8, 7>> >>
MCCompTable == << <<2, 1, 3>>, <<5, 4, 6>>, <<7, 9, 8>> >>

MCScore(h, k) == (3 * h + k[1] + 2 * k[3] + 5 * k[4]) % 4
MCSink(h) == IF h = 3 THEN NegInf ELSE h
MCIndexScore(pos, k) == (11 * (3 * k[4] + k[5]) + 3 * pos) % 37
====
