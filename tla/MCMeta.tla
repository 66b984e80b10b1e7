-------------------------------- MODULE MCMeta --------------------------------
(***************************************************************************)
(* The documents' plan with two chunks, and two plans of one chunk each.   *)
(***************************************************************************)
EXTENDS MetaAgent

MCPlans == {1, 2, 3}

MCChunksOf == [p \in MCPlans |-> IF p = 1 THEN {1, 2} ELSE {1}]

MCItems == {<<1, 1, "plain">>, <<1, 2, "plain">>, <<2, 1, "plain">>, <<3, 1, "plain">>}

MCNoBuilds == {}

=============================================================================
