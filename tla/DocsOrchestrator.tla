-------------------------- MODULE DocsOrchestrator --------------------------
(***************************************************************************)
(* The docs orchestrator: run_docs_orchestrator and the phases it runs,    *)
(* with the state file, the runtime sidecar of a waiting Codex session,    *)
(* crashes and restarts, and the two ways to answer a waiting session.     *)
(*                                                                         *)
(* A session (a Cowork session or one `codex exec`) is external: it may    *)
(* have written all, some or none of the step's files by any time, so that *)
(* what the program finds when it looks at them is left open, but for the  *)
(* outline, which is there once the outline steps have been accepted.      *)
(***************************************************************************)
EXTENDS DocsSteps

CONSTANT Engines   \* the values of orch_config.engine: "claude", "codex"

VARIABLES
  engine,    \* orch_config.engine, the same in every run on the project
  disk,      \* orchestrator-state.json
  readable,  \* FALSE once a crash has cut save_state short
  side,      \* orchestrator-runtime.json: its runtime_state and its step
  pc,        \* where run_docs_orchestrator is
  mem,       \* its variable `state`
  todo,      \* the sessions the phase's runner has yet to go through
  ret,       \* who asked for the waiting session to be resolved
  outcome    \* how the last run ended

vars == <<engine, disk, readable, side, pc, mem, todo, ret, outcome>>

Default ==
  [step |-> Whole("phase_0"), running |-> FALSE, done |-> {}, strikes |-> 0,
   summary |-> <<>>]

NoSide == [state |-> "none", step |-> Whole("phase_0")]
Waiting(step) == [state |-> "waiting", step |-> step]

Running(st, step) == [st EXCEPT !.step = step, !.running = TRUE]
Completed(st, step) == [st EXCEPT !.running = FALSE, !.done = @ \cup {step}]
Errored(st) == [st EXCEPT !.running = FALSE]

IsWaiting == engine = "codex" /\ side.state = "waiting"

Init ==
  /\ engine \in Engines
  /\ disk = Default /\ mem = Default
  /\ readable = TRUE
  /\ side = NoSide
  /\ pc = "off" /\ todo = <<>> /\ ret = "none" /\ outcome = "none"

(***************************************************************************)
(* The end of a run and the return of a phase.                             *)
(***************************************************************************)
Stop(how) ==
  pc' = "off" /\ outcome' = how /\ todo' = <<>> /\ ret' = "none" /\ mem' = Default

Leave == pc' = "return" /\ todo' = <<>> /\ UNCHANGED <<ret, outcome>>

\* Where the runner goes when the session at the head of todo has its outcome.
AfterSession(next) ==
  /\ todo' = next
  /\ pc' = IF next # <<>> THEN "begin"
           ELSE IF Head(todo)[1] = "phase_1" THEN "extracted"
           ELSE IF Head(todo)[1] \in {"phase_2", "phase_2_conflict"} THEN "summary"
           ELSE "return"
  /\ UNCHANGED <<ret, outcome>>

\* The group B of Phase 3 gives up its other bundles, and C and D go on without it.
SkipGroupB == Only(todo, {Whole("phase_3_C"), Whole("phase_3_D")})

(***************************************************************************)
(* Start: load_state, cleanup_stale_runtime, recover_running_step.         *)
(***************************************************************************)
Launch ==
  /\ pc = "off" /\ readable
  /\ pc' = "boot" /\ outcome' = "none"
  /\ UNCHANGED <<engine, disk, readable, side, mem, todo, ret>>

\* json.loads raises, at every start from now on.
LaunchUnreadable ==
  /\ pc = "off" /\ ~readable
  /\ outcome' = "unreadable"
  /\ UNCHANGED <<engine, disk, readable, side, pc, mem, todo, ret>>

IsStale == ~disk.running \/ side.step \in disk.done

\* Mutant: a waiting session is recovered like one that was cut off.
MutantBoot ==
  /\ pc = "boot"
  /\ IF engine = "codex" /\ side.state # "none" /\ ~IsStale /\ side.step # disk.step
     THEN Stop("fatal") /\ UNCHANGED side
     ELSE /\ side' = IF engine = "codex" /\ IsStale THEN NoSide ELSE side
          /\ mem' = disk
          /\ pc' = "recover"
          /\ UNCHANGED <<todo, ret, outcome>>
  /\ UNCHANGED <<engine, disk, readable>>

Boot ==
  /\ pc = "boot"
  /\ IF engine = "codex" /\ side.state # "none" /\ ~IsStale /\ side.step # disk.step
     THEN Stop("fatal") /\ UNCHANGED side
     ELSE /\ side' = IF engine = "codex" /\ IsStale THEN NoSide ELSE side
          /\ mem' = disk
          /\ IF engine = "codex" /\ side'.state = "waiting"
             THEN pc' = "wait" /\ ret' = "startup"
             ELSE pc' = "recover" /\ UNCHANGED ret
          /\ UNCHANGED <<todo, outcome>>
  /\ UNCHANGED <<engine, disk, readable>>

\* Completed if all its files carry the done marker; what has none is deleted.
Recover ==
  /\ pc = "recover"
  /\ mem' \in IF ~mem.running THEN {mem}
             ELSE {Errored(mem)}
                    \cup {Completed(mem, s) : s \in {s \in {mem.step} : FindsOutputFiles(s)}}
  /\ disk' = mem'
  /\ pc' = "loop"
  /\ UNCHANGED <<engine, readable, side, todo, ret, outcome>>

(***************************************************************************)
(* The main loop: what the next step is, and the phases without a session. *)
(***************************************************************************)
NextUp == NextStep(mem, engine)

\* Mutant: no next step is taken for completion.
MutantEnded ==
  /\ pc = "loop" /\ NextUp[1] \in {"done", "stop"}
  /\ Stop("done")
  /\ UNCHANGED <<engine, disk, readable, side>>

\* The message goes by the errors on record, not by what is left to do.
Ended ==
  /\ pc = "loop" /\ NextUp[1] \in {"done", "stop"}
  /\ Stop(IF OutOfRetries(mem) THEN "stopped" ELSE "done")
  /\ UNCHANGED <<engine, disk, readable, side>>

\* No source documents, or the user says no.
Phase0Aborts ==
  /\ pc = "loop" /\ NextUp = Whole("phase_0")
  /\ Stop("aborted")
  /\ UNCHANGED <<engine, disk, readable, side>>

Phase0 ==
  /\ pc = "loop" /\ NextUp = Whole("phase_0")
  /\ mem' = [step |-> Whole("phase_1"), running |-> FALSE,
             done |-> {Whole("phase_0")}, strikes |-> 0, summary |-> Scanned]
  /\ disk' = mem'
  /\ Leave
  /\ UNCHANGED <<engine, readable, side>>

EnterGate ==
  /\ pc = "loop" /\ NextUp = Whole("phase_1_5")
  /\ mem' = Running(mem, NextUp) /\ disk' = mem'
  /\ pc' = "gate"
  /\ UNCHANGED <<engine, readable, side, todo, ret, outcome>>

EnterPhase ==
  /\ pc = "loop" /\ NextUp[1] \notin {"phase_0", "phase_1_5", "done", "stop"}
  /\ todo' = SessionsOf(NextUp, mem)
  /\ pc' = IF todo' = <<>> THEN "summary" ELSE "begin"
  /\ UNCHANGED <<engine, disk, readable, side, mem, ret, outcome>>

\* check_phase1_quality and evaluate_phase1 read the prose of the extracts: either
\* verdict is possible.
GatePasses ==
  /\ pc = "gate"
  /\ mem' = Completed(mem, Whole("phase_1_5"))
  /\ Leave
  /\ UNCHANGED <<engine, disk, readable, side>>

\* Mutant: the failure is not recorded in the errors.
MutantGateFails ==
  /\ pc = "gate"
  /\ mem' = [Errored(mem) EXCEPT !.done = {s \in @ : s[1] # "phase_1"}]
  /\ Leave
  /\ UNCHANGED <<engine, disk, readable, side>>

GateFails ==
  /\ pc = "gate"
  /\ mem' = [Errored(mem) EXCEPT
               !.done = {s \in @ : s[1] # "phase_1"}, !.strikes = @ + 1]
  /\ Leave
  /\ UNCHANGED <<engine, disk, readable, side>>

(***************************************************************************)
(* One session.                                                            *)
(***************************************************************************)
BeginStep ==
  /\ pc = "begin"
  /\ mem' = Running(mem, Head(todo)) /\ disk' = mem'
  /\ pc' = "exec"
  /\ UNCHANGED <<engine, readable, side, todo, ret, outcome>>

\* The first session of Phase 1 is recorded with the phase, in Extract.
StepCompletes ==
  /\ pc = "exec"
  /\ mem' = IF Head(todo) = Whole("phase_1") THEN mem ELSE Completed(mem, Head(todo))
  /\ disk' = mem'
  /\ AfterSession(Tail(todo))
  /\ UNCHANGED <<engine, readable, side>>

\* Mutant: the groups of Phase 3 go on without group A, too.
MutantStepFails ==
  /\ pc = "exec"
  /\ mem' = Errored(mem)
  /\ IF Head(todo)[1] \in {"phase_3_A", "phase_3_B"}
     THEN AfterSession(SkipGroupB) ELSE Leave
  /\ UNCHANGED <<engine, disk, readable, side>>

StepFails ==
  /\ pc = "exec"
  /\ mem' = Errored(mem)
  /\ IF Head(todo)[1] = "phase_3_B" THEN AfterSession(SkipGroupB) ELSE Leave
  /\ UNCHANGED <<engine, disk, readable, side>>

\* The session asks: the sidecar is written, and only Phase 2 resolves it on the spot.
StepWaits ==
  /\ pc = "exec" /\ engine = "codex"
  /\ side' = Waiting(Head(todo))
  /\ CASE Head(todo)[1] \in {"phase_2", "phase_2_conflict"} ->
            pc' = "wait" /\ ret' = "phase_2" /\ UNCHANGED <<todo, outcome>>
       [] Head(todo)[1] = "phase_3_B" -> AfterSession(SkipGroupB)
       [] OTHER -> Leave
  /\ UNCHANGED <<engine, disk, readable, mem>>

\* The end of _run_phase_1: the phase is recorded and the summary is made anew from the
\* extracts that are there, those of the completed domain sessions among them.
Extract ==
  /\ pc = "extracted"
  /\ \E present \in SUBSET ToSet(Extracted) :
       /\ \A d \in ToSet(Extracted) : <<"phase_1", {<<d.domain>>}>> \in mem.done => d \in present
       /\ mem' = [Completed(mem, Whole("phase_1")) EXCEPT
                    !.summary = IF present = {} THEN @
                                ELSE Only(Extracted, present)]
  /\ disk' = mem'
  /\ Leave
  /\ UNCHANGED <<engine, readable, side>>

\* The end of _run_phase_2.
Summarise ==
  /\ pc = "summary"
  /\ mem' = Completed(mem, Whole("phase_2_summary"))
  /\ Leave
  /\ UNCHANGED <<engine, disk, readable, side>>

\* Back in the main loop, which saves and looks for a waiting session.
Return ==
  /\ pc = "return"
  /\ disk' = mem
  /\ IF IsWaiting THEN pc' = "wait" /\ ret' = "main"
                  ELSE pc' = "loop" /\ UNCHANGED ret
  /\ UNCHANGED <<engine, readable, side, mem, todo, outcome>>

(***************************************************************************)
(* A waiting session: resolved in the process (by the automatic answerer   *)
(* or at the terminal), given up, or resumed by the command line.          *)
(***************************************************************************)
GiveUp ==
  /\ pc = "wait"
  /\ IF ret = "phase_2" THEN pc' = "return" /\ ret' = "none" /\ todo' = <<>>
                             /\ UNCHANGED <<mem, outcome>>
     ELSE Stop("paused")
  /\ UNCHANGED <<engine, disk, readable, side>>

Answer ==
  /\ pc = "wait"
  /\ pc' = "resume"
  /\ UNCHANGED <<engine, disk, readable, side, mem, todo, ret, outcome>>

\* `--docs-subcommand resume`, while no orchestrator runs: nothing is cleaned up first.
CliResume ==
  /\ pc = "off" /\ readable /\ IsWaiting
  /\ pc' = "resume" /\ ret' = "cli" /\ outcome' = "none"
  /\ UNCHANGED <<engine, disk, readable, side, mem, todo>>

\* Mutant: the step is recorded in the state the process has, not in the one on disk.
MutantResumeCompletes ==
  /\ pc = "resume"
  /\ mem' = Completed(mem, side.step) /\ disk' = mem'
  /\ pc' = "answered"
  /\ UNCHANGED <<engine, readable, side, todo, ret, outcome>>

\* resume_waiting_docs_step takes the state from the file.  State first, then sidecar.
ResumeCompletes ==
  /\ pc = "resume"
  /\ mem' = Completed(disk, side.step) /\ disk' = mem'
  /\ pc' = "answered"
  /\ UNCHANGED <<engine, readable, side, todo, ret, outcome>>

ResumeWaits ==
  /\ pc = "resume"
  /\ IF ret = "cli" THEN Stop("paused")
     ELSE pc' = "wait" /\ mem' = disk /\ UNCHANGED <<todo, ret, outcome>>
  /\ UNCHANGED <<engine, disk, readable, side>>

ResumeFails ==
  /\ pc = "resume"
  /\ mem' = Errored(disk) /\ disk' = mem'
  /\ pc' = "refused"
  /\ UNCHANGED <<engine, readable, side, todo, ret, outcome>>

Answered ==
  /\ pc = "answered"
  /\ side' = NoSide
  /\ CASE ret = "startup" -> pc' = "recover" /\ UNCHANGED todo
       [] ret = "main" -> pc' = "loop" /\ UNCHANGED todo
       [] ret = "cli" -> pc' = "boot" /\ UNCHANGED todo
       [] ret = "phase_2" -> todo' = Tail(todo)
                             /\ pc' = IF todo' = <<>> THEN "summary" ELSE "begin"
  /\ ret' = "none"
  /\ UNCHANGED <<engine, disk, readable, mem, outcome>>

\* In Phase 2 the main loop does not learn of the failure and goes on.
Refused ==
  /\ pc = "refused"
  /\ side' = [side EXCEPT !.state = "failed"]
  /\ IF ret = "phase_2" THEN pc' = "return" /\ ret' = "none" /\ todo' = <<>>
                             /\ UNCHANGED <<mem, outcome>>
     ELSE Stop("failed")
  /\ UNCHANGED <<engine, disk, readable>>

(***************************************************************************)
(* A crash.  A state file that is being written is left cut short.         *)
(***************************************************************************)
Saving ==
  \/ pc \in {"begin", "exec", "extracted", "return", "resume"}
  \/ pc = "recover" /\ mem.running
  \/ pc = "loop" /\ NextUp \in {Whole("phase_0"), Whole("phase_1_5")}

Crash ==
  /\ pc # "off"
  /\ Stop("crashed")
  /\ readable' \in IF Saving THEN {TRUE, FALSE} ELSE {TRUE}
  /\ UNCHANGED <<engine, disk, side>>

Start == Launch \/ LaunchUnreadable \/ CliResume

Run ==
  \/ Boot \/ Recover
  \/ Ended \/ Phase0Aborts \/ Phase0 \/ EnterGate \/ EnterPhase
  \/ GatePasses \/ GateFails
  \/ BeginStep \/ StepCompletes \/ StepFails \/ StepWaits
  \/ Extract \/ Summarise \/ Return
  \/ GiveUp \/ Answer
  \/ ResumeCompletes \/ ResumeWaits \/ ResumeFails \/ Answered \/ Refused

Next == Start \/ Run \/ Crash

Spec == Init /\ [][Next]_vars

(***************************************************************************)
(* Fairness.  The process goes on, sessions end, and a session that is     *)
(* tried again and again completes some time.  Nobody has to start the     *)
(* orchestrator, and nothing has to crash.  Each session of Phase 1 needs  *)
(* its own clause, since a later one that fails makes the earlier ones     *)
(* run again.                                                              *)
(***************************************************************************)
Phase1Steps == {Whole("phase_1")} \cup ToSet(Things("phase_1", DomainsOf(Scanned)))
                 \cup ToSet(Things("phase_1", DomainsOf(Extracted)))

Fairness ==
  /\ WF_vars(Run)
  /\ \A s \in Phase1Steps : SF_vars(StepCompletes /\ Head(todo) = s)
  /\ SF_vars(StepCompletes /\ Head(todo)[1] # "phase_1")
  /\ SF_vars(ResumeCompletes)

FairSpec == Spec /\ Fairness

-----------------------------------------------------------------------------
(***************************************************************************)
(* Properties.                                                             *)
(***************************************************************************)
\* Only a bundle, of Phase 2 or 3, is about several things.
IsStep(s) ==
  /\ s \in Phases \X SUBSET Names
  /\ s[1] \notin {"phase_2", "phase_3_B"} => \A x, y \in s[2] : x = y

StateOK(st) ==
  /\ IsSummary(st.summary)
  /\ ToSet(st.summary) \subseteq ToSet(Scanned) \cup ToSet(Extracted)
  /\ IsStep(st.step) /\ \A s \in st.done : IsStep(s)
  /\ st.running \in BOOLEAN
  /\ st.strikes \in 0 .. MaxStrikes

\* Types.  The failures of the quality gate never exceed _PHASE_1_5_MAX_RETRIES, over
\* all restarts (docs_orchestrator.py, _determine_next_step).
TypeOK ==
  /\ engine \in Engines
  /\ StateOK(disk) /\ StateOK(mem)
  /\ readable \in BOOLEAN
  /\ side.state \in {"none", "waiting", "failed"} /\ IsStep(side.step)
  /\ pc \in {"off", "boot", "recover", "loop", "gate", "begin", "exec", "extracted",
             "summary", "return", "wait", "resume", "answered", "refused"}
  /\ todo \in Seq(ToSet(todo)) /\ \A s \in ToSet(todo) : IsStep(s)
  /\ ret \in {"none", "startup", "main", "phase_2", "cli"}

\* The orchestrator's order of phases (_determine_next_step: "Phase 0 -> 1 -> 1.5 -> 2 ->
\* 3_A -> 3_B -> 3_C -> 3_D -> 4 -> 5"): a step is running or completed only after
\* everything before it, through crashes, recoveries and resumed sessions.  The one
\* exception is _run_phase_3's: C and D do not wait for the bundles of B.
StandsFor(s, step) ==
  CASE step[1] \in {"phase_2", "phase_2_conflict", "phase_2_summary"} -> s = Whole("phase_2")
    [] step[1] \in {"phase_1", "phase_3_B"} -> s = Whole(step[1])
    [] OTHER -> s = step

Started(st) == st.done \cup (IF st.running THEN {st.step} ELSE {})

\* Whatever comes before a step in the agenda is done.
After(st, e, step) ==
  LET agenda == Agenda(st, e)
  IN  \A i \in DOMAIN agenda :
        (\A j \in 1 .. i : ~StandsFor(agenda[j], step)) =>
          \/ IsDone(st, agenda[i])
          \/ agenda[i] = Whole("phase_3_B") /\ step[1] \in {"phase_3_C", "phase_3_D"}

PhaseOrder == \A step \in Started(disk) : After(disk, engine, step)

\* No session is spent again on what is recorded as done (_run_phase_2 and
\* _run_phase_3_group_b: "Filter out individually completed features before bundling"),
\* whatever bundle it was done in.  Phase 1 alone is redone as a whole.
NoStepRedone ==
  [][pc = "begin" /\ Head(todo)[1] # "phase_1" =>
       /\ Head(todo) \notin disk.done
       /\ \A x \in Head(todo)[2] : ~Covered(disk.done, Head(todo)[1], x)]_vars

\* A completed step stays completed across crashes, recoveries and resumed sessions: a
\* session resumed from the state file does not undo what the process has done since.
\* Only a failure of the quality gate, and one that is counted, takes steps of Phase 1
\* back (_rollback_phase_1).
ProgressKept ==
  [][\A s \in disk.done \ disk'.done : s[1] = "phase_1" /\ disk'.strikes > disk.strikes]_vars

\* A question is not lost (design of the runtime sidecar, Case 4: "valid waiting state,
\* leave as-is"): while the state file says that the waiting step is running, only the
\* outcome of a resumed session changes that, whatever crashes and restarts come
\* between.  There are two exceptions: group B of Phase 3, which goes on without an
\* answer, and a domain session of Phase 1 that is run again although it is completed,
\* whose question counts as stale.
Asked ==
  /\ side.state = "waiting" /\ disk.running /\ disk.step = side.step
  /\ side.step \notin disk.done

WaitingPreserved ==
  [][Asked /\ side.step[1] # "phase_3_B" =>
       \/ Asked' /\ side'.step = side.step
       \/ pc = "resume"]_vars

\* The agenda up to its end, "done", is done.
AllDone(st, e) == \A i \in 1 .. Len(Agenda(st, e)) - 1 : IsDone(st, Agenda(st, e)[i])

\* Only Phase 0 (_scan_source_structure) and Phase 1 (_refresh_domains_from_extracts) say
\* what the features are.
Summaries(summary, step) ==
  CASE step = Whole("phase_0") -> {Scanned}
    [] step = Whole("phase_1") ->
         {summary} \cup {Only(Extracted, present) : present \in SUBSET ToSet(Extracted)}
    [] OTHER -> {summary}

\* The state file and the last message implement DocsProgress.
Progress ==
  INSTANCE DocsProgress WITH
    Due <- After,
    Complete <- AllDone,
    Summaries <- Summaries,
    Empty <- <<>>,
    Gate <- Whole("phase_1_5"),
    MaxFailures <- MaxStrikes,
    record <- [done |-> disk.done, strikes |-> disk.strikes, summary |-> disk.summary],
    message <- outcome

\* Over all crashes, recoveries and resumed sessions the file records one step at a time,
\* each when it is due, loses none but to a counted failure of the gate, and a run that
\* says that all steps are completed, or that the gate has stopped it, tells the truth
\* (save_state after every step; run_docs_orchestrator: "All steps completed!").
KeepsProgress == Progress!Spec

\* Every run comes to an end: with everything done, after too many failures of the gate,
\* waiting for an answer, or with an error.
RunEnds == pc # "off" ~> pc = "off"

\* What the code and its design say and the program does not do.

\* cleanup_stale_runtime on a sidecar whose step is not the running one: "This indicates
\* a write-ordering bug or manual file mutation."  Nobody touches the files here.
NoHumanReview == outcome # "fatal"

\* _run_phase_1 on a long source: "1 session for overall analysis + N domain sessions".
DomainsExtracted ==
  MultiSession /\ Whole("phase_1") \in disk.done =>
    ToSet(Things("phase_1", DomainsOf(Scanned))) \subseteq disk.done

\* _resolve_waiting_runtime_from_stdin: "On failed the caller MUST return immediately
\* (MUST 2) - it MUST NOT continue the outer loop."
FailedResumeEndsRun == [][pc = "refused" => pc' = "off"]_vars
=============================================================================
