---------------------------- MODULE PlanningStages ----------------------------
(***************************************************************************)
(* The stages of the planning pipeline: the order in which they are        *)
(* dispatched for a project, and, of the file a stage writes, what the     *)
(* quality gate, the completion verifier and the parsers tell apart        *)
(* (planning.pipeline, session_profiles, quality_gate,                     *)
(* completion_verifier).                                                   *)
(***************************************************************************)
EXTENDS Naturals, Sequences

Modes == {"greenfield", "brownfield"}
Sizes == {"small", "medium", "large"}

\* A stage with two or three sessions has substages; the slices of the extraction
\* are counted the same way.
Units(stage, size) ==
  CASE stage = "classification" /\ size # "small" -> 2
    [] stage = "product_completeness_review" /\ size = "medium" -> 2
    [] stage = "product_completeness_review" /\ size = "large" -> 3
    [] stage = "scope_structuring" /\ size = "medium" -> 2
    [] stage = "plan_review" -> 2
    [] stage = "brownfield_code_observation_extraction" /\ size = "medium" -> 2
    [] stage = "brownfield_code_observation_extraction" /\ size = "large" -> 3
    [] OTHER -> 1

Dispatch(stage, unit) == [stage |-> stage, unit |-> unit]

\* _append_stage_dispatches
StageDispatches(stage, size) == [u \in 1..Units(stage, size) |-> Dispatch(stage, u)]

\* The stages, in the order build_stage_dispatch_plan appends them.
Opening(mode) ==
  IF mode = "brownfield"
    THEN <<"classification", "brownfield_code_observation_extraction",
           "brownfield_observation_synthesis", "brownfield_gap_synthesis",
           "core_docs_check", "adaptive_docs_selection", "core_docs_presence_review">>
    ELSE <<"classification", "core_docs_check", "adaptive_docs_selection",
           "product_completeness_review">>

Closing == <<"scope_structuring", "work_sizing", "plan_packing", "plan_review",
             "exec_plan_skeleton">>

build_stage_dispatch_plan(mode, size, kept) ==
  LET stages == Opening(mode) \o Closing
      upto[n \in 0..Len(stages)] ==
        IF n = 0 THEN << >>
        ELSE upto[n - 1] \o IF stages[n] \in kept THEN StageDispatches(stages[n], size)
                            ELSE << >>
  IN  upto[Len(stages)]

-----------------------------------------------------------------------------
(***************************************************************************)
(* The file a dispatch is expected to write, and what it can look like:    *)
(*   none      it does not exist;                                          *)
(*   no_json   the parser of the stage raises: it has no JSON block, or    *)
(*             the classification names no mode, size or product type;     *)
(*   unmarked  it lacks the DONE marker, another key of its contract, or   *)
(*             names document roles as domains;                            *)
(*   short     it is complete but below the minimum of lines; of the       *)
(*             skeleton: no feature can be parsed from it;                 *)
(*   good      none of these.                                              *)
(***************************************************************************)
Contents == {"none", "no_json", "unmarked", "short", "good"}

\* ARTIFACT_OWNERSHIP_TABLE: the stages with a completion artifact, and of these
\* the ones whose contract names JSON keys.
JsonStages == {"classification", "core_docs_check", "adaptive_docs_selection",
               "scope_structuring", "work_sizing", "plan_packing", "plan_review"}

BrownfieldStages == {"brownfield_code_observation_extraction",
                     "brownfield_observation_synthesis", "brownfield_gap_synthesis"}

OwnedStages == JsonStages \cup BrownfieldStages

\* The exec-plan stages write a file for each dispatch: the skeleton, the outline of
\* a feature, the detail of a plan.
ExecPlanStages == {"exec_plan_skeleton", "exec_plan_feature_outline", "exec_plan_detail"}

\* The file the pipeline reads after the dispatch.  Substages share one.
Artifact(d) == IF d.stage \in ExecPlanStages THEN d ELSE Dispatch(d.stage, 0)

\* What a session can leave in its file, as far as anything looks at it.  An outline
\* or a plan is read by nothing but the gate, which only sees the files that are
\* listed (see Listable).
Writable(stage) ==
  CASE stage \in JsonStages -> {"no_json", "unmarked", "short", "good"}
    [] stage \in BrownfieldStages -> {"unmarked", "short", "good"}
    [] stage = "exec_plan_skeleton" -> {"short", "good"}
    [] OTHER -> {"good"}

\* parse_classification_report and its siblings raise.
Parses(content) == content # "no_json"

\* verify_stage_completion
verify_stage_completion(stage, content) ==
  stage \in OwnedStages => content \in {"short", "good"}

\* evaluate_stage_gate.  The caller hands it the files STAGE_COMPLETE lists, those
\* that exist: the artifact, and others the session has named, one of them too short.
Listable == {"artifact", "short file"}

evaluate_stage_gate(listed, content) ==
  /\ "short file" \notin listed
  /\ "artifact" \in listed => content # "short"

\* _apply_stage_completion writes the file of these stages anew from a template,
\* over what the session has written.  The template of the gap file has the DONE
\* marker and six lines, ten being the minimum.
Template(stage, content) ==
  CASE stage = "brownfield_observation_synthesis" -> "good"
    [] stage = "brownfield_gap_synthesis" -> "short"
    [] OTHER -> content

\* The stages for which the outputs handed to rollback_stage name the artifact; the
\* others hand it roles, items or other files.
RemovedStages == {"brownfield_observation_synthesis", "brownfield_gap_synthesis",
                  "exec_plan_skeleton", "exec_plan_feature_outline"}
=============================================================================
