----------------------------- MODULE MCAutoAnswer -----------------------------
(***************************************************************************)
(* Three questions with options, one of them padded, and one without; a    *)
(* loop of four rounds, longer than the two answers the guard allows.      *)
(***************************************************************************)
EXTENDS AutoAnswer

MCQuestions == {"scope", "order", "limit", "free text"}

MCOpen == {"free text"}

MCPadded == {"limit"}

MCAnswers == {"A", "B"}

MCNotes == {"unsafe", "conflict"}

MCConflicts == {"conflict"}

=============================================================================
