------------------------------ MODULE MCWatcher ------------------------------
(***************************************************************************)
(* A question and a permission dialog in one session, and a tool without a *)
(* dialog in another.                                                      *)
(***************************************************************************)
EXTENDS Watcher

CONSTANTS s1, s2, question, permission, auto

MCSessions == {s1, s2}

MCTools == {question, permission, auto}

MCQuestions == {question}

MCPermissions == {permission}

MCSessionOf == [id \in Tools |-> IF id = auto THEN s2 ELSE s1]

=============================================================================
