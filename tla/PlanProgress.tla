----------------------------- MODULE PlanProgress -----------------------------
(***************************************************************************)
(* What the checkpoint of a planning run promises its user: a cursor in a  *)
(* list of stages that moves forward one stage at a time, returns to the   *)
(* start only when a new run is begun, and a verdict that says "completed" *)
(* only with every stage of the list behind the cursor.                    *)
(***************************************************************************)
EXTENDS Naturals

CONSTANTS
  Stages,     \* how many stages the list has, a natural number
  Verdicts    \* what a run can report, without "completed"

VARIABLES cursor, verdict

progress == <<cursor, verdict>>

Init == cursor = 0 /\ verdict \in Verdicts

\* A stage is over.
Advance == cursor' = cursor + 1 /\ UNCHANGED verdict

\* The run says where it stands.
Report == verdict' \in Verdicts /\ UNCHANGED cursor

\* A new run is begun over the same files.
Restart == cursor' = 0 /\ UNCHANGED verdict

Complete ==
  /\ cursor >= Stages
  /\ cursor' \in Stages..cursor
  /\ verdict' = "completed"

Next == Advance \/ Report \/ Restart \/ Complete

Spec == Init /\ [][Next]_progress
=============================================================================
