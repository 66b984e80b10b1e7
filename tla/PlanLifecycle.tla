---------------------------- MODULE PlanLifecycle ----------------------------
(***************************************************************************)
(* What an execution harness promises about the exec-plan files, whichever *)
(* backend (Cowork sessions or `codex exec`) does the work.                *)
(*                                                                         *)
(* The promise: plans are worked on one at a time, in file-name order, the *)
(* files of all other plans stay as they are, and a plan is filed as       *)
(* completed only when every chunk of it is complete, or when a kill in    *)
(* the middle of a write has left its file empty.                          *)
(***************************************************************************)
EXTENDS ExecPlans

vars == <<dir, checked, emptied>>

(***************************************************************************)
(* Completion, stated on the boxes alone: a chunk is complete when it has  *)
(* criteria and none of them is unticked.                                  *)
(***************************************************************************)
PlanDone(p) ==
  \A c \in ChunksOf[p] :
    /\ \E i \in Items : i[1] = p /\ i[2] = c
    /\ \A i \in Items : i[1] = p /\ i[2] = c => i \in checked

OnlyActive(p) == In("active") = {p}

-----------------------------------------------------------------------------

Init ==
  /\ dir \in [Plans -> {"absent", "planning", "active"}]
  /\ checked = {}
  /\ emptied = {}

\* Somebody writes a plan into planning/.
Author(p) ==
  /\ dir[p] = "absent"
  /\ dir' = [dir EXCEPT ![p] = "planning"]
  /\ UNCHANGED <<checked, emptied>>

\* The first plan of planning/ becomes the active one.
Promote(p) ==
  /\ In("active") = {}
  /\ dir[p] = "planning"
  /\ \A q \in In("planning") : p <= q
  /\ dir' = [dir EXCEPT ![p] = "active"]
  /\ UNCHANGED <<checked, emptied>>

\* Work is done on the active plan, and only if it is the only one.  Its boxes
\* may become unticked again: two writers of one file can undo each other.  A
\* write empties the file before it fills it.
Work(p) ==
  /\ OnlyActive(p)
  /\ \E boxes \in SUBSET Boxes(p) : checked' = (checked \ Boxes(p)) \cup boxes
  /\ emptied' \in {emptied \cup {p}, emptied \ {p}}
  /\ UNCHANGED dir

\* The active plan is filed.
Complete(p) ==
  /\ OnlyActive(p)
  /\ PlanDone(p) \/ p \in emptied
  /\ dir' = [dir EXCEPT ![p] = "completed"]
  /\ UNCHANGED <<checked, emptied>>

Next == \E p \in Plans : Author(p) \/ Promote(p) \/ Work(p) \/ Complete(p)

Spec == Init /\ [][Next]_vars

=============================================================================
