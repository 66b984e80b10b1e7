----------------------------- MODULE PlanningRun -----------------------------
(***************************************************************************)
(* A planning run: the pipeline dispatches one codex session per stage,    *)
(* checks what the session left, rolls a bad stage back, injects further   *)
(* dispatches, and keeps a checkpoint on disk for restarts and for resume  *)
(* (planning.pipeline, runner, stage_executor, runtime_orchestrator,       *)
(* runtime_storage, recovery, quality_gate).                               *)
(*                                                                         *)
(* The actors are the pilot, the codex sessions it starts, and the user,   *)
(* who starts a run over the same directory, resumes it, answers its       *)
(* questions and kills it.                                                 *)
(***************************************************************************)
EXTENDS PlanningStages

CONSTANTS
  Mode,         \* project mode of the run
  Size,         \* size class of its snapshot
  Kept,         \* the stages kept of the pipeline; all of them in the code
  Features,     \* how many features a good skeleton has
  MaxRetries,   \* rollback_stage: max_retries
  MaxAsks,      \* bound: questions and approvals asked in all
  MaxStarts,    \* bound: processes started by the user
  MaxCrashes,   \* bound: kills
  MaxLapses     \* bound: sessions that end in an unusual way (see Lapse)

ASSUME PlanningAssumption ==
  /\ Mode \in Modes /\ Size \in Sizes
  /\ Kept \subseteq STRING
  /\ {Features, MaxRetries, MaxAsks, MaxStarts, MaxCrashes, MaxLapses} \subseteq Nat

VARIABLES
  art,            \* what the files of the run directory look like
  published,      \* units of the detail plans in docs/exec-plans/planning
  runState,       \* run-state.json: state, thread to resume, pending question
  next,           \* pipeline-state.json: next_dispatch_index
  completed,      \* completed-stages.json: index and stage
  retries,        \* retry-counts.json: <<index, n>> for every count n it has had
  changeRequest,  \* the change request of a brownfield run
  pc,             \* where the process is
  plan,           \* dispatches_list
  idx,            \* dispatch_index, from 0
  done,           \* completed_indices, read once
  resuming,       \* the session answers for `planning resume`
  interactive,    \* the terminal can ask
  listed,         \* what the outputs of STAGE_COMPLETE name
  before,         \* pending keys of run-state.json before the session
  outcome,        \* what the pilot has read of the session's output
  orphaned,       \* the last session left run-state.json without its thread
  asks, starts, crashes, lapses

checkpoint == <<runState, next>>
ledgers == <<completed, retries>>
files == <<art, published, changeRequest>>
process == <<plan, idx, done, resuming, interactive>>
session == <<listed, before, outcome>>
history == <<asks, starts, crashes, lapses, orphaned>>
vars == <<checkpoint, ledgers, files, pc, process, session, history>>

NothingPending == [question |-> 0, approval |-> 0, event |-> 0]

BasePlan == build_stage_dispatch_plan(Mode, Size, Kept)

Outlines == [f \in 1..Features |-> Dispatch("exec_plan_feature_outline", f)]
Details == [f \in 1..Features |-> Dispatch("exec_plan_detail", f)]

Ranging(s) == {s[i] : i \in DOMAIN s}
Dispatches == Ranging(BasePlan) \cup Ranging(Outlines) \cup Ranging(Details)
Files == {Artifact(d) : d \in Dispatches}

NoThread == Dispatch("none", 0)

WaitingStates == {"waiting_for_input", "waiting_for_approval"}
StopStates == WaitingStates \cup {"waiting_for_human", "failed", "escalated"}
RunStates == StopStates \cup {"pending", "running_exec", "completed"}

Locations == {"off", "loop", "exec", "markers", "handle", "asked", "apply", "check",
              "record", "advance", "resumed", "reenter"}

Pending == [question : Nat, approval : Nat, event : Nat]

\* state: the state its markers call for; complete: STAGE_COMPLETE is among them;
\* thread: the thread of the session, as far as it is known.
Verdicts == StopStates \cup {"running_exec"}
Outcome == [state : Verdicts, complete : BOOLEAN, thread : Dispatches \cup {NoThread}]

Unread(thread) == [state |-> "running_exec", complete |-> FALSE, thread |-> thread]

TypeOK ==
  /\ art \in [Files -> Contents]
  /\ published \subseteq Nat
  /\ runState \in [state : RunStates, thread : Dispatches \cup {NoThread}, pending : Pending]
  /\ next \in Nat
  /\ completed \subseteq [index : Nat, stage : {d.stage : d \in Dispatches}]
  /\ retries \subseteq Nat \X (1..MaxRetries)
  /\ changeRequest \in {"missing", "template", "given"}
  /\ pc \in Locations
  /\ plan \in Seq(Dispatches)
  /\ idx \in Nat
  /\ done \subseteq Nat
  /\ resuming \in BOOLEAN /\ interactive \in BOOLEAN
  /\ listed \subseteq Listable
  /\ before \in Pending
  /\ outcome \in Outcome
  /\ orphaned \in BOOLEAN
  /\ asks \in Nat /\ starts \in Nat /\ crashes \in Nat /\ lapses \in Nat
  \* the states a location of the dispatch loop goes with
  /\ pc \in {"exec", "markers", "handle", "apply", "check", "record", "advance"} /\ ~ resuming =>
       idx < Len(plan)

Init ==
  /\ art = [f \in Files |-> "none"]
  /\ published = {}
  /\ runState = [state |-> "pending", thread |-> NoThread, pending |-> NothingPending]
  /\ next = 0
  /\ completed = {} /\ retries = {}
  /\ changeRequest \in IF Mode = "brownfield" THEN {"missing", "given"} ELSE {"given"}
  /\ pc = "off"
  /\ plan = << >> /\ idx = 0 /\ done = {}
  /\ resuming = FALSE /\ interactive = FALSE
  /\ listed = {} /\ before = NothingPending /\ outcome = Unread(NoThread)
  /\ orphaned = FALSE
  /\ asks = 0 /\ starts = 0 /\ crashes = 0 /\ lapses = 0

-----------------------------------------------------------------------------
(***************************************************************************)
(* The run state and the checkpoint.                                       *)
(***************************************************************************)

\* write_run_state keeps the pending keys in a waiting state only.
RunState(state, thread, pending) ==
  [state |-> state, thread |-> thread,
   pending |-> IF state \in WaitingStates THEN pending ELSE NothingPending]

Current == plan[idx + 1]

\* The dispatch the session works for.
Worker == IF resuming THEN runState.thread ELSE Current

\* The process is over, and with it what it had in memory.
EndProcess ==
  /\ pc' = "off"
  /\ plan' = << >> /\ idx' = 0 /\ done' = {}
  /\ resuming' = FALSE /\ interactive' = FALSE

ForgetSession == before' = NothingPending /\ outcome' = Unread(NoThread)

Leave == EndProcess /\ listed' = {} /\ ForgetSession

-----------------------------------------------------------------------------
(***************************************************************************)
(* Entering the dispatch loop.                                             *)
(***************************************************************************)

\* A brownfield run without a change request writes a template of one and returns
\* "waiting_for_input", which only its caller sees.
WaitForChangeRequest(start) ==
  /\ changeRequest = "missing"
  /\ changeRequest' = "template"
  /\ next' = start
  /\ EndProcess
  /\ UNCHANGED <<runState, ledgers, art, published, session>>

\* The recovery preamble hands recover_interrupted_stage tuple(str(path)), the
\* characters of the path: "/" exists, reading it raises IsADirectoryError, and
\* nothing above catches that.
DiesInRecovery(start) ==
  /\ changeRequest # "missing"
  /\ runState.state = "running_exec" /\ start > 0 /\ start < Len(BasePlan)
  /\ next' = start
  /\ EndProcess
  /\ UNCHANGED <<runState, ledgers, files, session>>

\* The ledger is not read when the loop is entered.
MutantEnterLoop(start, asking) ==
  /\ changeRequest # "missing"
  /\ runState.state # "running_exec" \/ start = 0 \/ start >= Len(BasePlan)
  /\ next' = start
  /\ pc' = "loop"
  /\ plan' = BasePlan
  /\ idx' = start
  /\ done' = {}
  /\ resuming' = FALSE /\ interactive' = asking
  /\ UNCHANGED <<runState, ledgers, files, session>>

EnterLoop(start, asking) ==
  /\ changeRequest # "missing"
  /\ runState.state # "running_exec" \/ start = 0 \/ start >= Len(BasePlan)
  /\ next' = start
  /\ pc' = "loop"
  /\ plan' = BasePlan
  /\ idx' = start
  /\ done' = {c.index : c \in completed}
  /\ resuming' = FALSE /\ interactive' = asking
  /\ UNCHANGED <<runState, ledgers, files, session>>

EnterGraph(start, asking) ==
  WaitForChangeRequest(start) \/ DiesInRecovery(start) \/ EnterLoop(start, asking)

\* The user starts a process, in a terminal that can ask or elsewhere.
Start ==
  /\ pc = "off"
  /\ starts < MaxStarts
  /\ starts' = starts + 1
  /\ UNCHANGED <<asks, crashes, lapses, orphaned>>

\* run_planning_mode: the run directory of a mode is always the same.
RunPlanning == Start /\ \E asking \in BOOLEAN : EnterGraph(0, asking)

\* resume_planning_pipeline, not waiting: from the checkpoint.
ContinueRun ==
  /\ Start
  /\ runState.state \notin WaitingStates
  /\ \E asking \in BOOLEAN : EnterGraph(next, asking)

\* resume_stage_subsession: the answer goes to the thread of run-state.json.
AnswerThread ==
  /\ runState.thread # NoThread
  /\ before' = runState.pending
  /\ outcome' = Unread(runState.thread)
  /\ runState' = RunState("running_exec", runState.thread, NothingPending)
  /\ pc' = "exec"
  /\ UNCHANGED <<next, listed>>

\* resume_planning_pipeline, waiting.
ResumeWithResponse ==
  /\ Start
  /\ runState.state \in WaitingStates
  /\ resuming' = TRUE /\ interactive' \in BOOLEAN
  /\ AnswerThread
  /\ UNCHANGED <<ledgers, files, plan, idx, done>>

\* run-state.json names no thread: resume_stage_subsession raises KeyError before it
\* has written anything, and the process ends.
ResumeWithoutThread ==
  /\ Start
  /\ runState.state \in WaitingStates /\ runState.thread = NoThread
  /\ UNCHANGED <<checkpoint, ledgers, files, pc, process, session>>

-----------------------------------------------------------------------------
(***************************************************************************)
(* The dispatch loop.                                                      *)
(***************************************************************************)

\* _apply_stage_completion, for what it leaves on disk.
ApplyCompletion(d) ==
  /\ art' = [art EXCEPT ![Artifact(d)] = Template(d.stage, @)]
  /\ published' = IF d.stage = "exec_plan_detail" /\ art[d] # "none"
                    THEN published \cup {d.unit} ELSE published
  /\ UNCHANGED changeRequest

\* A report without a JSON block: the parser's ValueError ends the process.
CannotParse ==
  /\ pc = "apply" \/ (pc = "loop" /\ idx < Len(plan) /\ idx \in done)
  /\ ~ Parses(art[Artifact(Current)])
  /\ Leave
  /\ UNCHANGED <<checkpoint, ledgers, files, history>>

\* A dispatch that is recorded as completed is applied again, not executed.
Skip ==
  /\ pc = "loop"
  /\ idx < Len(plan) /\ idx \in done
  /\ Parses(art[Artifact(Current)])
  /\ ApplyCompletion(Current)
  /\ next' = idx + 1
  /\ idx' = idx + 1
  /\ UNCHANGED <<runState, ledgers, pc, plan, done, resuming, interactive, session,
                 history>>

\* The end of the plan is not looked at.
MutantStartStage ==
  /\ pc = "loop"
  /\ idx \notin done
  /\ before' = runState.pending /\ outcome' = Unread(NoThread)
  /\ listed' = {}
  /\ pc' = "exec"
  /\ UNCHANGED <<checkpoint, ledgers, files, process, history>>

StartStage ==
  /\ pc = "loop"
  /\ idx < Len(plan) /\ idx \notin done
  /\ before' = runState.pending /\ outcome' = Unread(NoThread)
  /\ listed' = {}
  /\ pc' = "exec"
  /\ UNCHANGED <<checkpoint, ledgers, files, process, history>>

\* The session writes its file.
SessionWrites ==
  /\ pc = "exec"
  /\ \E c \in Writable(Worker.stage) : art' = [art EXCEPT ![Artifact(Worker)] = c]
  /\ UNCHANGED <<checkpoint, ledgers, published, changeRequest, pc, process, session,
                 history>>

(***************************************************************************)
(* The end of a session.  run-state.json is written up to three times: the *)
(* thread, if the output names one; the state the markers call for, with   *)
(* the keys of these markers and nothing else; and the thread again, beside*)
(* the pending keys from before the session.                               *)
(***************************************************************************)

\* What is bounded: a session that has not left a good file, names a file that is too
\* short, names no thread, writes no markers, or fails although it says that it is complete.
Lapse(marked) ==
  \/ art[Artifact(Worker)] # "good"
  \/ "short file" \in listed' \/ outcome'.thread = NoThread \/ ~ marked
  \/ outcome'.state = "failed" /\ outcome'.complete

\* run_exec_stage or run_exec_resume returns.  The thread of a resumed session is known
\* beforehand, a new one is named by thread.started, if at all (_write_resume_state).
SessionOver(state, complete, marked) ==
  /\ pc = "exec"
  /\ \E thread \in IF outcome.thread = NoThread THEN {Worker, NoThread} ELSE {outcome.thread} :
       /\ outcome' = [state |-> state, complete |-> complete, thread |-> thread]
       /\ runState' = IF thread = NoThread THEN runState
                      ELSE RunState("running_exec", thread, NothingPending)
  /\ listed' \in IF complete /\ ~ resuming THEN SUBSET Listable ELSE {{}}
  /\ pc' = IF marked THEN "markers" ELSE "handle"
  /\ lapses' = IF Lapse(marked) THEN lapses + 1 ELSE lapses
  /\ lapses' <= MaxLapses
  /\ UNCHANGED <<next, ledgers, files, process, before, starts, crashes, orphaned>>

\* A non-zero exit code, whatever the message says.
SessionFails ==
  /\ \E complete \in BOOLEAN : SessionOver("failed", complete, TRUE)
  /\ UNCHANGED asks

\* STAGE_COMPLETE, markers that block nothing, or no valid marker at all, for which
\* nothing is written.
SessionEnds ==
  /\ \E complete, marked \in BOOLEAN :
       (complete => marked) /\ SessionOver("running_exec", complete, marked)
  /\ UNCHANGED asks

\* INPUT_REQUIRED or APPROVAL_REQUIRED with blocking=true.
SessionAsks ==
  /\ asks < MaxAsks
  /\ asks' = asks + 1
  /\ \E state \in WaitingStates : SessionOver(state, FALSE, TRUE)

\* NEEDS_HUMAN: an invalidation waits for a person, any other reason escalates.
SessionNeedsHuman ==
  /\ \E state \in {"waiting_for_human", "escalated"} : SessionOver(state, FALSE, TRUE)
  /\ UNCHANGED asks

\* pending_event_id is set once and kept.
MutantAsked(pending) ==
  LET kept == IF pending.event = 0 THEN asks ELSE pending.event
  IN  IF outcome.state = "waiting_for_input"
        THEN [pending EXCEPT !.question = asks, !.event = kept]
        ELSE [pending EXCEPT !.approval = asks, !.event = kept]

\* The pending keys of what the session asks, beside the ones there are.
Asked(pending) ==
  IF outcome.state = "waiting_for_input"
    THEN [pending EXCEPT !.question = asks, !.event = asks]
    ELSE [pending EXCEPT !.approval = asks, !.event = asks]

\* apply_marker_bundle_to_run, apply_subprocess_failure: no resume_handle is kept.
WriteMarkers ==
  /\ pc = "markers"
  /\ runState' = RunState(outcome.state, NoThread, Asked(NothingPending))
  /\ pc' = "handle"
  /\ UNCHANGED <<next, ledgers, files, process, session, history>>

\* resolve_blocking_interactions asks in the terminal.  Another stop state ends the
\* process; STAGE_COMPLETE outweighs it in the loop, not in `planning resume`.
AfterSession ==
  LET asking == outcome.state \in WaitingStates /\ interactive
      stopped == /\ outcome.state \in StopStates
                 /\ ~ outcome.complete \/ resuming
  IN  \/ /\ asking \/ ~ stopped
         /\ pc' = IF asking THEN "asked" ELSE IF resuming THEN "resumed" ELSE "apply"
         /\ UNCHANGED process
      \/ ~ asking /\ stopped /\ EndProcess

\* _persist_resume_metadata, for a session with a thread.
WriteHandle ==
  /\ pc = "handle"
  /\ runState' = IF outcome.thread = NoThread THEN runState
                 ELSE RunState(outcome.state, outcome.thread, Asked(before))
  /\ orphaned' = (outcome.thread = NoThread)
  /\ AfterSession
  /\ ForgetSession
  /\ UNCHANGED <<next, ledgers, files, listed, asks, starts, crashes, lapses>>

\* The answer to a session without a thread raises KeyError, which ends the process.
UserAnswers ==
  /\ pc = "asked"
  /\ \/ AnswerThread /\ UNCHANGED process
     \/ runState.thread = NoThread /\ Leave /\ UNCHANGED checkpoint
  /\ UNCHANGED <<ledgers, files, history>>

UserCancels ==
  /\ pc = "asked"
  /\ Leave
  /\ UNCHANGED <<checkpoint, ledgers, files, history>>

ApplyStage ==
  /\ pc = "apply"
  /\ Parses(art[Artifact(Current)])
  /\ ApplyCompletion(Current)
  /\ pc' = "check"
  /\ UNCHANGED <<checkpoint, ledgers, process, session, history>>

\* The file is checked only if the session lists it.
MutantGatesPass == evaluate_stage_gate(listed, art[Artifact(Current)])

GatesPass ==
  /\ evaluate_stage_gate(listed, art[Artifact(Current)])
  /\ verify_stage_completion(Current.stage, art[Artifact(Current)])

Exhausted(i) == \A n \in 1..MaxRetries : <<i, n>> \in retries

\* A rollback is not counted.
MutantUncounted(i) == {retries}

\* The counts with the next one of index i.
Recount(i) ==
  {retries \cup {<<i, n>>} :
     n \in {n \in 1..MaxRetries :
              <<i, n>> \notin retries /\ \A m \in 1..(n - 1) : <<i, m>> \in retries}}

\* rollback_stage: the count is kept on disk, and the outputs are removed.
RollBack ==
  /\ pc = "check"
  /\ ~ GatesPass /\ ~ Exhausted(idx)
  /\ retries' \in Recount(idx)
  /\ art' = IF Current.stage \in RemovedStages
              THEN [art EXCEPT ![Artifact(Current)] = "none"] ELSE art
  /\ published' = IF Current.stage = "exec_plan_detail"
                    THEN published \ {Current.unit} ELSE published
  /\ pc' = "loop"
  /\ listed' = {}
  /\ UNCHANGED <<checkpoint, completed, changeRequest, process, before, outcome, history>>

Escalate ==
  /\ pc = "check"
  /\ ~ GatesPass /\ Exhausted(idx)
  /\ runState' = RunState("escalated", NoThread, NothingPending)
  /\ Leave
  /\ UNCHANGED <<next, ledgers, files, history>>

Inject(dispatches) == SubSeq(plan, 1, idx + 1) \o dispatches \o SubSeq(plan, idx + 2, Len(plan))

\* remaining_fo is not asked for.
MutantRemaining == FALSE

\* Some outline is still to be dispatched.
RemainingOutlines ==
  \E i \in (idx + 2)..Len(plan) : plan[i].stage = "exec_plan_feature_outline"

\* The features of the skeleton, and the plans merged from their outlines.
HasFeatures == art[Dispatch("exec_plan_skeleton", 1)] = "good"

Injected ==
  CASE Current.stage = "exec_plan_skeleton" /\ HasFeatures -> Inject(Outlines)
    [] Current.stage = "exec_plan_feature_outline" /\ ~ RemainingOutlines /\ HasFeatures ->
         Inject(Details)
    [] OTHER -> plan

Accept ==
  /\ pc = "check"
  /\ GatesPass
  /\ plan' = Injected
  /\ pc' = "record"
  /\ listed' = {}
  /\ UNCHANGED <<checkpoint, ledgers, files, idx, done, resuming, interactive, before,
                 outcome, history>>

\* The list is written anew, not extended.
MutantRecord ==
  /\ pc = "record"
  /\ completed' = {[index |-> idx, stage |-> Current.stage]}
  /\ pc' = "advance"
  /\ UNCHANGED <<checkpoint, retries, files, process, session, history>>

\* write_completed_stage: an index is recorded once.
Record ==
  /\ pc = "record"
  /\ completed' = IF idx \in {c.index : c \in completed} THEN completed
                  ELSE completed \cup {[index |-> idx, stage |-> Current.stage]}
  /\ pc' = "advance"
  /\ UNCHANGED <<checkpoint, retries, files, process, session, history>>

Advance ==
  /\ pc = "advance"
  /\ next' = idx + 1
  /\ idx' = idx + 1
  /\ pc' = "loop"
  /\ UNCHANGED <<runState, ledgers, files, plan, done, resuming, interactive, session,
                 history>>

Finish ==
  /\ pc = "loop"
  /\ idx >= Len(plan)
  /\ runState' = RunState("completed", runState.thread, NothingPending)
  /\ next' = Len(plan)
  /\ Leave
  /\ UNCHANGED <<ledgers, files, history>>

-----------------------------------------------------------------------------
(***************************************************************************)
(* After an answer given by `planning resume`: the stage counts as over,   *)
(* without being applied, checked or recorded.                             *)
(***************************************************************************)

\* The resumed stage is counted twice.
MutantAdvanceResumed ==
  /\ pc = "resumed"
  /\ next' = next + 2
  /\ pc' = "reenter"
  /\ UNCHANGED <<runState, ledgers, files, process, session, history>>

AdvanceResumed ==
  /\ pc = "resumed"
  /\ next' = next + 1
  /\ pc' = "reenter"
  /\ UNCHANGED <<runState, ledgers, files, process, session, history>>

Reenter ==
  /\ pc = "reenter"
  /\ EnterGraph(next, interactive)
  /\ UNCHANGED history

\* The user kills the process, and the session with it; between two writes as well.
Crash ==
  /\ pc # "off"
  /\ crashes < MaxCrashes
  /\ crashes' = crashes + 1
  /\ orphaned' = (orphaned \/ (pc = "handle" /\ runState.thread = NoThread))
  /\ Leave
  /\ UNCHANGED <<checkpoint, ledgers, files, asks, starts, lapses>>

PilotStep ==
  \/ CannotParse \/ Skip \/ StartStage \/ WriteMarkers \/ WriteHandle \/ ApplyStage
  \/ RollBack \/ Escalate \/ Accept \/ Record \/ Advance \/ Finish
  \/ AdvanceResumed \/ Reenter

SessionStep == SessionFails \/ SessionEnds \/ SessionAsks \/ SessionNeedsHuman

UserStep ==
  \/ RunPlanning \/ ContinueRun \/ ResumeWithResponse \/ ResumeWithoutThread
  \/ UserAnswers \/ UserCancels \/ Crash

Next == PilotStep \/ SessionStep \/ SessionWrites \/ UserStep

Spec == Init /\ [][Next]_vars

\* The pilot runs; nothing bounds how long a session or the user takes.
FairSpec == Spec /\ WF_vars(PilotStep)

-----------------------------------------------------------------------------
(***************************************************************************)
(* Properties.                                                             *)
(***************************************************************************)

Indices(entries) == {c.index : c \in entries}

\* A run that waits can be resumed: the event that the answer is recorded under is the
\* one of the question or approval it waits for, whatever has been asked before, and
\* run-state.json names the thread to answer (_persist_resume_metadata,
\* _normalize_pending_keys).  Two runs are orphaned and name none: one whose session
\* has not named a thread, and one killed after the markers have been written and
\* before the thread has.
WaitingIsAnswerable ==
  LET pending == runState.pending
      asked == IF runState.state = "waiting_for_input" THEN pending.question ELSE pending.approval
  IN  /\ runState.state \in WaitingStates =>
           /\ asked # 0 /\ pending.event = asked
           /\ runState.thread = NoThread => pc = "handle" \/ orphaned
      /\ runState.state \notin WaitingStates => pending = NothingPending

\* No session is started for a dispatch that completed-stages.json records, although
\* the loop reads that file only once, when it is entered.
NoReexecution ==
  [][pc = "loop" /\ pc' = "exec" => idx \notin Indices(completed)]_vars

\* What the ledgers say is never taken back: a recorded dispatch stays recorded and is
\* not rolled back, and no count of retries falls, by crashes and restarts included.
LedgersGrow ==
  [][/\ completed \subseteq completed' /\ retries \subseteq retries'
     /\ retries' # retries => idx \notin Indices(completed)]_vars

\* A dispatch is recorded with the evidence of its file at that moment, whatever
\* retries, templates and removals came before; a detail is then also published.
EvidenceBeforeRecord ==
  [][completed' # completed =>
       /\ verify_stage_completion(Current.stage, art[Artifact(Current)])
       /\ Current.stage = "exec_plan_detail" /\ art[Current] # "none" =>
            Current.unit \in published]_vars

\* The plan of a feature is detailed only after the outline of every feature.
OutlinesBeforeDetails ==
  [][pc = "loop" /\ pc' = "exec" /\ Current.stage = "exec_plan_detail" =>
       /\ Ranging(Outlines) \subseteq Ranging(plan)
       /\ \A i \in DOMAIN plan :
            plan[i].stage = "exec_plan_feature_outline" => i - 1 \in Indices(completed)]_vars

\* Retries and rollbacks do not go round for ever: a process returns or asks its user,
\* unless a session goes on for ever.
RunEnds == pc # "off" ~> (pc \in {"off", "asked"} \/ [](pc = "exec"))

\* The checkpoint and the state of the run implement PlanProgress.
Progress ==
  INSTANCE PlanProgress WITH
    Stages <- Len(BasePlan),
    Verdicts <- RunStates \ {"completed"},
    cursor <- next,
    verdict <- runState.state

KeepsProgress == Progress!Spec

\* The name of test_blocking_question_resumes_same_stage_then_moves_to_next_stage: the
\* stage that has been answered is followed by the next one.  The code does not keep it.
AnsweredStageMovesOn ==
  [][pc = "reenter" => pc' # "off" \/ crashes' # crashes]_vars

==============================================================================
