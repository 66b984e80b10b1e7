------------------------------ MODULE MCPlanning ------------------------------
(***************************************************************************)
(* A brownfield run of three stages: the gap, which is written from a      *)
(* template, verified, and removed by a rollback; the review, two sessions *)
(* that share one parsed file; and the skeleton, whose two features are    *)
(* outlined and detailed.                                                  *)
(***************************************************************************)
EXTENDS PlanningRun

MCKept == {"brownfield_gap_synthesis", "plan_review", "exec_plan_skeleton"}

=============================================================================
