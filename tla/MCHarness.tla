------------------------------ MODULE MCHarness ------------------------------
(***************************************************************************)
(* Two plans: the first has two chunks, one of them with a build and a     *)
(* plain criterion, the second has one chunk.                              *)
(***************************************************************************)
EXTENDS Harness

MCPlans == {1, 2}

MCChunksOf == [p \in MCPlans |-> IF p = 1 THEN {1, 2} ELSE {1}]

MCItems == {<<1, 1, "build">>, <<1, 1, "plain">>, <<1, 2, "plain">>, <<2, 1, "plain">>}

MCBuilds == {i \in MCItems : i[3] = "build"}

=============================================================================
