------------------------------- MODULE MCDocs -------------------------------
(***************************************************************************)
(* Instances of DocsOrchestrator for TLC.                                  *)
(***************************************************************************)
EXTENDS DocsOrchestrator

\* Phase 0 guesses one feature from the headers, the extraction finds three; the last
\* one is long.
Guessed == <<[domain |-> "d1", features |-> <<"f1">>]>>
Found == <<[domain |-> "d1", features |-> <<"f1", "f2", "f3">>]>>
Longest == {<<"d1", "f3">>}

OneConflict == <<<<"c1">>>>
OnePlan == <<<<"p1">>>>
=============================================================================
