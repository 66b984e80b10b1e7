# cowork-pilot: a TLA+ verification project

cowork-pilot keeps AI coding sessions running without a person. It answers the
dialogs of Cowork sessions (watch mode), executes implementation plans chunk by
chunk (harness mode, with Cowork sessions or with `codex exec`), and generates
plans and documents (docs orchestrator, planning, meta agent). This directory
holds TLA+ models of it, their TLC runs, and proofs that TLAPS checks.

The Python package is `src/src/cowork_pilot`; paths below are relative to it.

## 1. Inventory

| Part | State it keeps | Operations | Interacts with |
|---|---|---|---|
| Exec-plan files (`plan_parser.py`, `session_manager.py`) | Markdown files in `planning/`, `active/`, `completed/`; their checkboxes | `parse_exec_plan`, `find_next_incomplete_chunk`, `update_checkboxes`, `promote_next_plan`, `move_to_completed` | both harnesses, sessions that edit the file |
| Harness mode (`main.run_harness`, `session_manager`, `completion_detector`) | current plan and chunk, retry counters, tail and state machine of the chunk session | open a session, watch it, detect idleness, run builds, verify, give feedback, escalate | plan files, Cowork sessions, watch mode |
| Watch mode (`main.run`, `process_one_event`, `watcher`, `session_finder`) | followed log and offset, state machine with one pending tool use | poll, debounce, ask the CLI agent, guard, type, verify | Cowork session logs, the macOS app |
| CLI agent call and keystrokes (`dispatcher`, `validator`, `responder`) | none | call, validate, press keys, scan a log | the CLI agent, the app |
| Codex harness (`codex/harness.py`, `codex/exec_runner.py`) | current plan and chunk, position in four retry loops | run a chunk, verify, two repair loops | plan files, `codex` child processes |
| Docs orchestrator (`docs_orchestrator*.py`, `orchestrator_state.py`) | `orchestrator-state.json`, `orchestrator-runtime.json` (the sidecar of a waiting step) | phases 0 to 5, quality gate with rollback, resume, recovery after a crash | Cowork or codex sessions, auto-answer |
| Auto-answer (`auto_answer_*.py`) | attempts and decisions in the sidecar | build context, ask two engines, validate, fall back to a person | docs orchestrator |
| Meta agent (`meta_runner.py`) | files that mark finished steps | brief, scaffold, docs harness, approval, implementation harness | harness mode |
| Planning (`planning/*`) | on disk: run state, checkpoint, completed stages, retry counts, stage files; in memory: the dispatch list with what has been injected | dispatch a stage, check, roll back, inject, record, ask, resume, recover | codex sessions, the user |
| Configuration, logging, prompts, templates, terminal interfaces | none that matters to the others | | |

What is hard in it:

* *Concurrency without locks.* Sessions write their logs and the plan files while
  the pilot reads and rewrites them. There is no lock anywhere; the pilot relies on
  re-reading, on offsets captured at the right moment, and on order.
* *Long steps on stale data.* Between the decision to answer a dialog and the
  keystrokes lies a CLI call of seconds; between the snapshot of a chunk's criteria
  and the last checkbox lie whole builds.
* *Kills and restarts.* Everything is meant to be restarted by hand at any time;
  what survives is the files.
* *Nested retries.* Several counters and loops, of different kinds, around each
  other; each must be bounded and the whole must end.

What makes each part correct: section 5 lists it as properties, and `PROJECT.json`
lists the hazards at their source lines with the properties that would catch them,
or the reason why none does.

## 2. Modules

| Module | Models | Role |
|---|---|---|
| `ExecPlans` | plan directories, checkboxes, chunk status, promotion | variables and operators both harnesses share |
| `PlanLifecycle` | what any harness promises about the plan files | abstract specification |
| `Harness` | `run_harness`, `process_chunk` and what they call | component; implements `PlanLifecycle` |
| `CodexHarness` | `run_codex_harness` and its loops | component; implements `PlanLifecycle` |
| `Watcher` | `run`, `process_one_event`, watcher and responder | component |
| `DocsSteps` | the steps of the docs orchestrator, their order, bundles, outline units | constants and operators |
| `DocsProgress` | what the state file of the docs orchestrator promises, and the last message of a run | abstract specification |
| `DocsOrchestrator` | `run_docs_orchestrator`, its phases, state file, sidecar, recovery, resume | component; implements `DocsProgress` |
| `AutoAnswer` | `try_auto_answer` in its loop, the sidecar's `auto_answer_state`, handoff, resume | component; the detail of what `DocsOrchestrator` calls an answer |
| `MetaAgent` | `run_meta`, and `run_harness` as its caller sees it | component, over the plan files of `ExecPlans` |
| `PlanningStages` | stages, their order and files, gate, evidence, templates | operators |
| `PlanProgress` | what the checkpoint of a planning run promises | abstract specification |
| `PlanningRun` | the dispatch loop of the planning pipeline, its files, resume, restart | component; implements `PlanProgress` |
| `HarnessProofs`, `CodexHarnessProofs`, `WatcherProofs`, `DocsOrchestratorProofs`, `AutoAnswerProofs`, `MetaAgentProofs`, `PlanningRunProofs` | | theorems |
| `Recursion` | | first-order lemmas about functions defined by recursion over `0 .. n`, for the proofs about folds and searches |
| `MCHarness`, `MCCodexHarness`, `MCWatcher`, `MCDocs`, `MCAutoAnswer`, `MCMeta`, `MCPlanning` | | constants for TLC |

`Harness` and `CodexHarness` extend `ExecPlans` and instantiate `PlanLifecycle` as
`Lifecycle` with the same variables `dir` and `checked`: the refinement mapping is the
identity on the files, and everything else is the implementation's own. `PlanningRun`
instantiates `PlanProgress` as `Progress`, with `cursor <- next` (the
`next_dispatch_index` of `pipeline-state.json`) and `verdict <- runState.state`. `DocsOrchestrator`
instantiates `DocsProgress` as `Progress`: `record` is what the state file says of the completed steps,
the failures of the gate and the features (not which step is running), `message` is `outcome`, and the
order of the steps (`Due <- After`) and completeness (`Complete <- AllDone`) are those of the
agenda. Sessions, the sidecar and the memory of the process do not occur in it. `MetaAgent`
shares the plan files and `ExecPlans` with the harnesses; its `run_harness` is their outer
loop, with a chunk reduced to "a session settles".

Operators named `Mutant...` are wrong variants of the definition that follows them.
No specification uses them; replacing the definition by its variant breaks the
property `PROJECT.json` names, which shows that the property depends on the code.

### Harness

`pc` is the place in `run_harness`: `start` (promotion, exactly one readable plan),
`next` (top of the outer loop), `promote` (after filing), `open`
(`open_chunk_session`), `watch` (inner loop), `build`, `tick`, `write_tick` (inside
`run_build_criteria`), `verify` (the second half of `process_chunk`), `complete`, `tick_all`,
`write_all` (`handle_chunk_completion`), `exit`.

* A session is abstracted to what the log tells about it: the last record is
  "busy" or "end" (`summary`, `last-prompt`, or an assistant's `end_turn` without
  tool use), read (`last_record`) or still unread.
* Checkboxes are a set of triples. A session may tick any box of its plan while it
  works, and may leave the file unreadable for a while (`broken`).
* `update_checkboxes` is three steps: `BuildPasses` (or `TickAll`, for the boxes of a
  completed chunk) reads the file and computes the text, `TruncatePlan` empties the file,
  `WriteTick` fills it, undoing whatever the session ticked since the read. That is
  `path.write_text`: a kill after `TruncatePlan` leaves the file empty (`emptied`). An
  empty file parses, has no chunks, and is filed as completed by the next run, unless a
  session that still works on it writes it anew (`SessionEdits`). `checked` keeps the boxes
  that the text had, for that case.
* Every unguarded `parse_exec_plan` is an exit of the process (`CannotReadPlan`,
  `BuildPasses`), every guarded one the exit the code takes.
* `Rerun` kills the harness at any step and starts it again.

### CodexHarness

`loop` names the retry loop a codex process runs for: the first attempts
(`run_chunk_with_retry`), the build repair, the incomplete repair, and the build repair an
incomplete repair delegates to, whose result is final. `execs` counts the codex
processes of a chunk. A killed harness leaves its codex process behind (`orphans`),
which goes on editing the plan. Codex, running or left over, may tick any box of its plan and
untick those of its own chunk (which is how a build can fail after an earlier pass and the last
loop is entered); that it leaves the boxes of other chunks ticked is assumed, as its
prompts demand. `reopened` is a history variable: the verified chunks of which a left-over
process has unticked a box since. The plan file is written as in `Harness`.

### Watcher

Records are tool uses and results. A session writes a record in two steps, so a
reader may see half of it; `Size` counts the half. `JSONLTail` starts at the end
of the file; offsets are counted in records.

* `read` is one poll: new lines, the state machine's handlers in order (a later
  dialog replaces the pending one), `tick`, `get_pending_event`.
* `cli`, `guard`, `size`, `type`, `typed`, `verify`, `wait` are the stages of
  `process_one_event`, during which the loop does nothing else and the sessions go on.
* `post_verify_response` looks (`VerifyFinds`, `VerifySleeps`), sleeps in `wait`, and
  then looks again or is out of time (`VerifyTimeout`): after its last sleep it does not look
  once more. `seen` is how far it has looked.
* A log that cannot be read counts as one without the result, for the guard (which notes it
  in `unread`, a history variable) and for the verification.
* `ScriptFails` covers keystrokes that were sent and keystrokes that were not.
* `HalfRecordRead` is the strict UTF-8 decoding of a half-written record, or from an
  offset inside one: the process dies.
* The clock is abstract: `elapsed` becomes true some time after a detection.

### DocsOrchestrator

`disk` is the state file, `mem` the variable `state` of the process, `side` the runtime
sidecar of a waiting Codex session. The code saves in some places and not in others, and
the model does the same: a failed session, a passed gate and the summary of Phase 2 are
known to `mem` only until the main loop saves (`Return`). A step is a pair of a phase and
the set of things it is about, so that the names of bundles (`phase_2:a:x+b:y`) are sets.

* `boot`, `wait` (startup), `recover`: what `run_docs_orchestrator` does before its loop.
* `loop`, `gate`, `begin`, `exec`, `extracted`, `summary`, `return`: the loop and the phase
  runners. `todo` holds the sessions the runner still has to go through; an
  error or a question drops them (`Leave`), but group B of Phase 3 drops only its own
  and the runner goes on with C and D (`SkipGroupB`).
* `wait`, `resume`, `answered`, `refused`: a waiting session. `ret` says who asked:
  startup, the main loop, the runner of Phase 2, or the command line. Interactive resume and
  automatic answers are not told apart: in both somebody answers or gives up.
* A session is external: it completes, fails or (Codex) waits. Its files are left
  open. Whatever a recovery finds is possible, since a session may have written all of
  its files or some of them before it failed, asked or was cut off; recovery can only not find
  what it looks for under another name (`FindsOutputFiles`). The outline exists when
  `phase_5_detail` is reached, because its steps have been accepted by then.
* `Extracted` is what lies in `domain-extracts/` after Phase 1; every Markdown file there
  counts as a feature for `_refresh_domains_from_extracts`, `_overview.md` too.
* `Crash` may come at any step; inside `save_state`, which is not atomic, it leaves a file
  that no later start can read (`readable`).
* `bundle_disabled` (bundles of one) is the case `MaxBundle = 1`; `engine` and the
  documents do not change between runs; deleting the state file by hand is left out.

### AutoAnswer

The sidecar is `state`, `handle`, `text`, `choices`, `original`, `seed` (the fields a
question has) and `memory` (its `auto_answer_state`: the last fingerprint handled, how
often, with what answer and outcome). A text is a question together with what a handoff has
made of it; the fingerprint of a text is the text itself.

* `try` is the head of the loop, `upper` and `resolver` wait for the two engines, `apply`
  has a decision, `record` has resumed the session and not yet noted it, `handed` has rewritten
  the sidecar for a person and not yet noted it, `stdin` waits for the person.
* `Resumed` is `resume_waiting_docs_step` with each of its outcomes: the session completes,
  fails, or asks again, and what goes from the old sidecar into the new one is taken from there
  (`CarriedOver`). `ResumeByHand` is the same from the command line, between two runs.
* `Noted` is the fingerprint as the writers of a question compute it (of the text as it is) and
  `text` the one the reader computes (of the stripped text): `Padded` questions differ in them.
* `Crash` may come at any place, between the session's end and the write of the new sidecar
  too (`CrashInResume`); it stands for the exceptions nobody catches as well.
* `given` is a history variable: how often a machine has answered the text that is pending.

### MetaAgent

`brief`, `wait`, `scaffold`, `docs`, `approve`, `plans` are the places in `run_meta`, in the
order of its steps; `start`, `next`, `work`, `promote` those in a `run_harness` it has called,
`step` says from where. The files are the state: the brief, the plans' directories and boxes, the
approval. The brief has two parts: the fields `parse_brief` requires, all of them in its first two
sections, and the rest. A session writes them in either order or at once,
whether or not the process still waits for it, so a half-written brief parses if it has the
required fields, and the project is scaffolded from it. A session on the first plan
writes further plans. `KillInWrite` leaves an empty plan: the one in hand, or the one that
scaffolding has just created. `HarnessExits` is every way `run_harness` ends the whole process,
`HarnessGivesUp` the two in which it returns to its caller with work left.

### PlanningRun

| Variable | Code |
|---|---|
| `runState` | `run-state.json`: state, thread to resume, the three pending keys |
| `next` | `pipeline-state.json` |
| `completed`, `retries` | `completed-stages.json`, `retry-counts.json` |
| `art`, `published`, `changeRequest` | the stages' files, as far as the gates and parsers tell them apart; the published detail plans; the change request of a brownfield run |
| `plan`, `idx`, `done` | `dispatches_list`, `dispatch_index`, `completed_indices` |
| `listed`, `before` | outputs named by STAGE_COMPLETE; pending keys before the session |
| `outcome` | what the pilot has read of the session's output: the state its markers call for, whether STAGE_COMPLETE is among them, its thread |
| `orphaned` | history: the last session left `run-state.json` without its thread |

* `EnterGraph` is what lies before the loop: the template of a change request, the recovery
  preamble (`DiesInRecovery`, see section 4) and the reading of the ledger. `RunPlanning`,
  `ContinueRun` and `ResumeWithResponse` are the ways a process gets there.
* One iteration of the loop is `Skip` or `StartStage`, the session, the writes of
  `run-state.json` after it, `ApplyStage`, `RollBack` / `Escalate` / `Accept`, `Record`,
  `Advance`. `Crash` may come between any two of them. Each is one write of a JSON file
  (the checkpoint and its copy in `run-state.json` are one), or
  the writes and removals of one stage's files; a write itself is atomic here, since a torn JSON
  file is loud (section 7).
* When a session ends, `run-state.json` is written up to three times: its thread (`SessionOver`),
  what its markers call for, without the thread (`WriteMarkers`), and the thread again beside the
  pending keys from before (`WriteHandle`). The first and the last are left out for a session
  whose output names no thread, the second for one without a valid marker. A run that is killed after
  the second, or whose session has no thread, waits and cannot be resumed: the `KeyError` is
  `ResumeWithoutThread`, and a case of `UserAnswers`.
* STAGE_COMPLETE outweighs a stop state in the loop, the failure of a session that exits with
  an error included; in `planning resume` the stop state decides (`AfterSession`).
* A session writes its file as often as it likes (`SessionWrites`) and ends with
  markers, an error, both, or nothing valid. What it names in STAGE_COMPLETE decides which files the
  gate sees.
* `Inject` adds the outlines after the skeleton and the details after the last outline, to
  the list in memory only.
* `Lapse` says which ends of a session are counted against the bound `MaxLapses`; it is not code.
* A session process that outlives a killed pilot is not modelled.

## 3. Runs

| Run | What is varied | What it shows |
|---|---|---|
| `harness` | two plans (chunks with a build and a plain box; two chunks; one chunk), every retry limit 1, unreadable files, kills, between truncation and write too | type invariant, active plan, filing, order, builds, termination of a session's rounds, refinement |
| `codex_harness` | the same plans, 2 attempts, 1 build repair, orphans that tick and untick, kills as in `harness` | budget of codex processes, no chunk taken up again by itself, settled chunks, refinement |
| `watcher` | a question and a permission dialog in one session, a tool without dialog in another, 2 CLI attempts | no second answer, no answer to what is left to a person, no keys for finished tools, verification, no starvation |
| `harness_escalate` | as `harness` | ESCALATE does not pause (violation) |
| `docs` | Cowork and Codex; one domain, whose single guessed feature becomes three in two bundles; one contradiction, one overview, one plan; 2 failures of the gate | order of phases, progress kept, nothing done twice, questions kept, refinement, termination |
| `docs_review` | the same | a sidecar that needs human review, made by the program alone (violation) |
| `docs_domains` | the same | Phase 1 completed without its domain sessions (violation) |
| `docs_refused` | the same | a failed resume does not end the run (violation) |
| `planning` | a small brownfield run of the gap (written from a template, verified, removed by a rollback), the review (two sessions, one parsed file) and the skeleton with two features, hence two outlines and two details; 1 retry, 2 questions, 2 starts, 1 kill, 1 lapse | recorded stages are neither repeated nor lost, evidence, order of injected stages, answerable questions, no endless retries, refinement |
| `planning_answered` | the same stages, without kills, 1 question, 2 starts | after `planning resume` the next stage does not start (violation) |
| `auto_answer` | three questions with options, one padded, one without options; two notes, one a contradiction; 4 rounds, 3 attempts, 2 crashes; Claude as upper agent | bound on the answers to one text, agreement of question, fingerprint and original |
| `meta` | the documents' plan with two chunks, two more plans; manual approval; 3 starts | order of the steps over restarts, filed plans stay, Step 4 comes to a session or an end |

Bounds, and why they are enough. Two plans are needed for promotion and filing, two
chunks for order, a build and a plain box in one chunk for the race between
`update_checkboxes` and the session. A limit of 1 has the step within the limit and the
step beyond it. Two sessions and three tool uses give a switch away and back,
two dialogs that overtake each other, and a tool that must be ignored; each tool use has
one record of each kind, so the logs are finite; looks and sleeps of a verification are not
bounded. For the docs orchestrator,
every phase occurs, with a bundle of two and a bundle of one, so that a phase can be left between two
bundles, and the features change between Phases 0 and 1; two failures of the gate are one with a retry and
one without (the code's limit is 3). For planning, the three stages
are the ones that differ in what can happen to their file: overwritten by a template and removed by a
rollback; written by a second session over the first one's and parsed; parsed for features and listed.
With two features there is an outline before and after each other, and a kill between the two; the
injected stages give a list that differs between a first run and a restart. One retry has a
stage within the limit and one beyond it; one lapse in a run allows each unusual end of a session, and the
retry after it. With two questions an approval can follow a question, and the pending keys of both be
mixed up; two starts allow a run and its resume, or a new run over the same directory. More
of each, and every other mode, size and choice of stages, are left to the proofs. For
auto-answer, four rounds exceed the two answers the guard allows, and two questions with options
are enough to overwrite its single slot; engine `codex` and the other values of
`escalate_mode` are left to the proofs, which hold for each of them. The stages the
`planning` run does not keep are dispatched by the same loop, and the proofs are about all.

No counter is cut off by a state constraint. `MaxAsks`, `MaxLapses`, `MaxStarts` and `MaxCrashes` bound what
users, sessions and the operating system may do, and are guards of those actions alone;
every other counter is bounded by the code's own limits.

Fairness. The harness and the pilot are single-threaded loops whose every call has a time
limit: weak fairness of their steps, and of the passing of time. In `Harness` a
working session ends its turn some day; in `Watcher` and `CodexHarness` nothing is
asked of sessions or of codex beyond that a codex process is killed at its time limit. The loop of a
verification that finds nothing ends by its own clock: `VerifyTimeout` comes some time if the loop
keeps coming to its sleep, which is strong fairness. Nobody is
obliged to tick a box, to make a build pass, to write a plan or to restart anything.
In `DocsOrchestrator` the process goes on and sessions end; that a step which is tried again and
again completes some time is strong fairness, and it is an assumption about the agents: the code
repeats a failing step without limit, except for the gate. It is stated once for each
session of Phase 1, where a later session that fails makes the earlier ones run again.
In `PlanningRun` only the pilot's own steps are fair: a session may run for ever (there
is no limit on it) and a user need not answer, so `RunEnds` says that a process returns or
asks unless it is in a session for good. In `MetaAgent` the process goes on and a session on a
chunk settles (which `Harness` shows of its own loop); approval, ticks and restarts are nobody's
duty. `AutoAnswer` states no liveness.

`InstantTurns` is FALSE in the runs: TRUE allows a session to finish before the harness
has made its tail (main.py:382), which then never sees the end. `SessionSettles` is
false in that case; no document promises otherwise, and the case is listed under the hazards.
The instances of `harness` and `codex_harness` have criteria in every chunk: without one
the harness never settles (section 4), and the theorem about it names this as a hypothesis.

Deadlock is checked where the operator can always restart, and in `Watcher`, whose polling
loop never stops. It is not in `planning`, `auto_answer` and `meta`, which stop once the starts,
or the question, are used up.

## 4. What disagrees with the documents

1. *ESCALATE.* The design and the printed text say the loop pauses. The code leaves only the
   inner loop, and the outer loop selects the same chunk again (main.py:479).
2. *Human review.* Group B of Phase 3 waits for input and the phase goes on with C
   (docs_orchestrator.py:1323). A crash in C leaves a state file and a sidecar that name
   different steps, which the next start calls a manual mutation and refuses.
3. *Domain sessions.* The first session of a long Phase 1 has the name of the phase; resumed
   after a question (or recovered after a crash, from the marker of its one file), it
   completes the whole phase, and the summary is not refreshed.
4. *MUST 2.* A resume that fails inside Phase 2 does not end the run (docs_orchestrator.py:1267).
5. *A resumed planning run moves to the next stage.* After the answer the run state is
   `running_exec`, so continuing enters the recovery preamble, where `pipeline.py:238` makes a
   tuple of the characters of a path; reading `/` raises `IsADirectoryError`, at every later
   start too. A test is named after the opposite (tests/test_planning_runner.py:563) and
   `recovery.py:22` documents the policy that is not reached.

Seen while reading and modelling, without a run of their own:

* *Harness.* A plan file that a kill has left empty is filed under "All chunks in current plan
  completed" (main.py:341). A chunk without criteria is never `completed` for the parser and always
  COMPLETED for the verifier (plan_parser.py:218, session_manager.py:285).
* *Watcher.* A second dialog within the debounce time, or a record in another session's log,
  makes the pilot forget the first (watcher.py:114, main.py:194).
* *Docs orchestrator.* `--docs-subcommand resume` does not clean up first and resumes a step that a
  crash left both recorded and in the sidecar; a domain session of Phase 1 that is run again and
  waits loses its question to a crash, because its step counts as completed (the exception in
  `WaitingPreserved`); a question of group B is overwritten when C asks too; recovering one
  outline unit deletes the outline all units share; after the last failure of the gate Phase 1 is
  repeated once more before the loop stops; `pending` is written and never read.
* *Auto-answer.* The fingerprint is noted of the raw text and compared with that of the stripped
  one: a question with white space around it is never eligible. The guard remembers one
  question, so a session that alternates two is stopped by `max_rounds_per_run` only; its
  limit of 2 is written into the code beside `max_attempts_per_event`. A question escalated to a
  person is offered to the machine again by the next run; once the attempts are used up
  the run pauses without asking on the terminal. Failures of the upper agent are not counted.
  The handoff is remembered under the fingerprint of the text it replaces.
* *Meta agent.* The text of `run_meta` puts the approval of Step 3 before Step 4, but the
  `run_harness` of Step 2 goes on to the plans its first plan has written, before anybody approves.
  A partial brief ends the wait at once: if it lacks a required field the parser's `ValueError` ends
  the process, and otherwise the project is scaffolded from the half that is there. An empty
  `01-docs-setup.md`, left by a kill in the middle of scaffolding, is filed as completed.
  Step 4 calls `run_harness` again without limit when that gives up.
* *Planning.* Injected outlines and details exist in memory only. After a restart the skeleton is
  skipped, nothing is injected, and the run reports `completed` without the details. The two
  sessions of a classification share one report; a report without JSON under a recorded
  stage ends every later run in a `ValueError`. The template of the gap file has six
  lines where the gate asks for ten, so a session that lists it fails the gate.
  `write_run_state` happens only after the session: a kill leaves the previous state. A kill
  between its last two writes, or a session that names no thread, leaves a run that waits for
  an answer and that `planning resume` cannot resume (`KeyError`, stage_executor.py:167). The
  run directory of a mode has a fixed name, so a second run works in the files of the first.

## 5. Properties and theorems

### Harness (`HarnessProofs`)

| Property | Proved | Argument |
|---|---|---|
| `TypeOK` | `TypeCorrect` | with `CountersBounded`: while the loop watches, neither counter is beyond its limit |
| `WorksOnTheActivePlan` | `ActivePlan` | `run_harness` insists on one file; promotion needs an empty `active/`; nobody else moves plans |
| `FiledPlansAreComplete` | `FiledPlans` | a plan is filed from `next` with no incomplete chunk, or with an empty file; writes only touch plans a session was started on, which are active (`StartedAlone`) |
| `EarlierChunksComplete` | `ChunkOrder` | the text about to be written must already have the earlier chunks' boxes (`TextKeepsEarlierChunks`); an empty file has no next chunk |
| `BuildsPassOnce` | `BuildsOnce` | what has passed is ticked or about to be (`PassedAreTicked`), the list of builds holds only others (`TodoIsNew`) |
| `KeepsLifecycle` | `Refinement` | each step maps to a step of `PlanLifecycle` or to a stutter |
| `SessionSettles` | model-checked | liveness |

The inductive invariant is `TypeInv /\ FilesInv /\ BuildsInv`. The stated
properties are not inductive: `WriteTick` could undo a box of an earlier chunk unless
the text read before is known to contain it, and a session could tick into a filed
plan unless the plan it was started on is known to be the active one.

### Watcher (`WatcherProofs`)

| Property | Proved | Argument |
|---|---|---|
| `TypeOK` | `TypeCorrect` | |
| `TypedAtMostOnce` | `AnsweredOnce` | see below |
| `OnlyOpenDialogsTyped` | `OpenDialogs` | the same invariant, for what is left to a person |
| `NoKeysForFinishedTools` | `FinishedTools` | the guard reads the log of the tool use's own session (`LocalsInv`), unless it cannot |
| `AnswersAreNotMissed` | `NothingMissed` | files only grow, so the size captured first is the smaller one (`LocalsInv`); up to `seen` there is no result (`SeenInv`). A result of the last sleep is outside the property: the code does not look for it |
| `NeverStuck` | model-checked | liveness |

`TypedAtMostOnce` needs to know where a tool use that has been handled lies: in the log of its
own session, and if that is the followed one, before the offset (`Behind`). A new tail
starts at the end of its file, so this survives switches and restarts; records are
written once (`LogsInv`), so no use is read as new twice; and the pending tool use has
not been typed before its keystrokes (`PendingInv`).

Assumptions of the proofs are those on the constants: plans are positive numbers with
finite sets of chunk numbers, criteria belong to chunks, limits are natural numbers,
questions and permissions are disjoint sets of tool uses, each in one session.

### CodexHarness (`CodexHarnessProofs`)

| Property | Proved | Argument |
|---|---|---|
| `TypeOK` | `TypeCorrect` | invariant `TypeInv`: the plan in hand is the one active plan, left-over codex processes only touch a plan that is active alone |
| `ExecBudget` | `BudgetKept` | `SpendingInv`: when a loop starts, the loops before it have spent at most their own limits |
| `CompletedChunkIsLeft` | `CompletedChunksAreLeft` | `FinishedInv`, under the hypothesis `EveryChunkHasCriteria`: a verified chunk that no left-over process has reopened is ticked, and so it is in the text about to be written, which was read after its verification |
| `KeepsLifecycle` | `Refinement` | each step maps to a step of `PlanLifecycle` or to a stutter |
| `ChunkSettles` | model-checked | liveness |

`ExecBudget` is not inductive: that the last loop cannot exceed the sum depends on which loop
called it and on what was spent before, which `Spending` states for each of the four loops.

### DocsOrchestrator (`DocsOrchestratorProofs`)

| Property | Proved | What could break it |
|---|---|---|
| `WaitingPreserved` | `QuestionsAreKept` | recovery of a step that waits |
| `TypeOK` | `Types` | a gate retried beyond its limit; a step, or a sidecar, of nothing in the project |
| `PhaseOrder` | `OrderOfPhases` | recovery or a resume that records a step whose predecessors are missing; a phase that goes on after an error |
| `ProgressKept` | `ProgressIsKept` | a resume that works on stale state; a rollback that is not counted |
| `NoStepRedone` | `NothingIsRedone` | bundles that are built anew in every round, under other names |
| `KeepsProgress` | `Refinement` | a save that records two steps, one that is not due, or a passed gate with its retries used up; a message that is not true |
| | `MemoryAgrees` | a decision on a state that was not saved |
| | `FeaturesAreDivided` | a feature in two bundles or in none, an empty or too large bundle, a long feature with others |
| | `LastMessage` | "All steps completed!" with something missing, or the gate's message although it was passed |
| | `NothingIsLeftOut` | "All steps completed!" without a feature, an overview or a plan that the agenda forgot |
| `RunEnds` | model-checked | a retry that is not counted (liveness) |

The proofs are in two parts. The first is about the operators of `DocsSteps`, for every list:
what `Only` selects and in which order (`OnlyElements`, `OnlyOrder`), that the bundles divide the
features (`FeaturesAreDivided`), that the features of a summary are distinct (`FeaturesPairs`),
what the agenda begins and ends with (`AgendaType`), that the next step is the first that is not
done (`NextStepPlace`, `NextStepIsNext`), and that the sessions of a runner are fresh and have nothing
in common (`SessionsAreGood`). The operators are folds and searches over sequences; each lemma follows
from `Recursion`, which is about the set of the places where something holds and needs no
theorem with an operator as parameter.

The second part is the invariant `IInv`. No property is inductive alone:

* `BaseInv`: the fields of the records, `MemoryIsDisk`, and `WaitingInv`, which says where a waiting
  session can be while the process is where it is: outside of group B of Phase 3, never while the
  process recovers or looks for the next step, and with the state saved before the process returns.
* `MemoryInv`: how the runner's memory may differ from the file before `Return` saves it. A resume
  that fails in Phase 2 takes the state from the file, and nothing is lost by that only because both are
  the same then.
* `OrderInv`: everything before a recorded or running step is done, in the file, in memory, and for
  the step of a waiting sidecar, which a resume at any later start will record.
* `RunnerInv`: the sessions that are still due (`todo`) can be run in this order from this state, and
  none of them is recorded nor shares a feature with another, so recording one keeps the rest fresh.
  That is what keeps a feature from coming back in another bundle.
* `SideInv`: while a runner is at work only C and D of Phase 3 can follow a question.

`LastMessage` needs `GateInv` besides: the code tells its two last messages apart by the
number of errors on record, so the gate must not be recorded as passed once they are used up.

`NothingIsLeftOut` says without the agenda what `LastMessage` says with it: `WorkOf` lists what a run owes
for the features, overviews and plans there are, and `AgendaHas` that the agenda has all of it.

`Refinement` needs one more, `SavesInv`: where a phase returns, what it has recorded in memory is one
step of `DocsProgress` away from the file, or none, so that the save in the main loop is one step. That
holds because a runner saves before each session (`MemoryInv`), and because `MemoryIsDisk` leaves nothing
unsaved when it begins. Phase 0 replaces the whole state; that this loses nothing needs `GateInv` again
(the gate cannot have failed before Phase 0) and the order of the steps. The message is the last part:
`MessageInv'` says that it is true in the state the step ends in, and a step that changes the message
leaves the file alone (`SpeaksLast`).

### AutoAnswer (`AutoAnswerProofs`)

| Property | Proved | Argument |
|---|---|---|
| `TypeOK` | `TypeCorrect` | |
| `AnswersBounded` | `BoundedAnswers` | `Counted`: the answers given are the attempts remembered for this text, plus those a crash kept from being noted, plus the one that is about to be |
| `SidecarAgrees` | `AgreeingSidecar` | every writer of the text writes the fingerprint with it, except for padded texts |

The proofs hold for each `escalate_mode`, engine and limit.

### MetaAgent (`MetaAgentProofs`)

| Property | Proved | Argument |
|---|---|---|
| `TypeOK` | `TypeCorrect` | |
| `StepsInOrder` | `StepsAreInOrder` | a brief only grows; `SetUp`: behind Step 1 the documents' plan is active or filed; `InHand`: the plan worked on is active; the documents' plan has the smallest number, so it is promoted first |
| `FiledStaysFiled` | `FiledPlansStay` | scaffolding looks into `completed/` too |
| `ImplementationEnds` | model-checked | liveness; its premise is that the harness does not give up for ever |

### PlanningRun (`PlanningRunProofs`)

| Property | Proved | Argument |
|---|---|---|
| `TypeOK` | `TypeCorrect` | `Position`: in the loop the checkpoint is the index, inside a stage the index is in the list |
| `WaitingIsAnswerable` | `AnswerableRuns` | `AnswerInv`: what waits has asked, with its own event (`AskedIsPending`); the thread is missing only between two writes or in an orphaned run |
| `NoReexecution` | `NoneReexecuted` | `LedgerInv`: what has been recorded since the ledger was read lies behind the index |
| `LedgersGrow` | `GrowingLedgers` | the same invariant: the stage rolled back is not recorded |
| `EvidenceBeforeRecord` | `RecordedWithEvidence` | `EvidenceInv`: between the gate and the record nothing touches the file |
| `KeepsProgress` | `Refinement` | each step moves the checkpoint as `PlanProgress` does, or not at all |
| `OutlinesBeforeDetails` | `OutlinesFirst` | `PlanInv`, see below |
| `RunEnds` | model-checked | liveness |

`PlanInv` says what the list of dispatches can be: the one the run began with; or that one and the
outlines, once the skeleton has been accepted by this process; or the details as well, once the last
outline has been. What has been injected and lies behind the index is recorded. The ledger of an earlier run may name
any index, so the invariant follows what this process has accepted (`done`).

The theorems rest on two lemmas about the list `build_stage_dispatch_plan` returns, for every mode, size
and profile: it is a sequence of dispatches with positive units (`BasePlanIsPlan`); the skeleton is in
it at most once and last, and no injected stage is (`BasePlanStages`). The list is built by
recursion over the stages, which `Recursion` unfolds.

### Assumptions and limits of the proofs

Every safety property of a passing run is a theorem. Only liveness is model-checked alone:
`SessionSettles`, `ChunkSettles`, `NeverStuck`, `ImplementationEnds` and `RunEnds` of both modules. Liveness
under fairness and ENABLED are out of the prover's reach.

The theorems assume what is assumed of the constants, named in the modules that declare them. Two of these
assumptions are about what the code reads:

* `SummariesAssumption`: no domain is twice in a summary, and no feature twice in a domain.
  `_scan_source_structure` checks both ("if current_domain not in domains", "feature_name not in
  features[current_domain]"), and `_refresh_domains_from_extracts` takes the names of directories and files.
* `ListsAssumption`: one blocking contradiction for a feature and facet; the outline table is a list.

One theorem has a hypothesis: `CompletedChunksAreLeft` needs `EveryChunkHasCriteria`, without
which the property is false (section 4).

The library's induction theorems have an operator as parameter, which the installed provers
cannot instantiate. `Recursion` replaces them: `Least` and `Induction` are about a set of numbers, and
`Iteration` about a step given as a function. All recursion the theorems meet in `DocsSteps`
and `PlanningStages` is reduced to these.

## 6. Plan

Done: the core (plan files, both harnesses, watcher), the docs orchestrator with its sidecar,
auto-answer, the meta agent, the planning run; three abstract specifications and four
refinements; every safety property of the runs proved, and what the docs orchestrator and the
planning run compute by recursion. What is left, in this order:

1. The composition of `AutoAnswer` with `DocsOrchestrator`.
2. Pure algorithms: checkbox update on lines, the parsing of markers and questions.
3. A session process that outlives a killed planning run, as in `CodexHarness`; two processes over
   one run directory.
4. The content of outline files that several units share.

## 7. Not modelled

* *Text*: prompts, templates, Markdown and marker parsing, the rules of the quality gates and
  of the contradiction scan, the validation rules of an answer, AppleScript, log lines.
  The models choose among their outcomes.
* *Agents*: the CLI agent, codex and the sessions are environments that may answer, fail, or write
  anything the models let them.
* *Command lines and streams*: arguments, construction of the codex command, its event stream; no
  state of theirs outlives a call.
* *Configuration and logging*: the values the models depend on are constants.
* *Clocks* are abstract: a time-out may happen at any time after its start.
* *Torn files*, except for plan files, the brief, and the state file of the docs orchestrator. The JSON
  files of a planning run are written in one step each: torn, they raise `JSONDecodeError` at the next
  start. Two processes at work on the
  same files, except for the sessions and the codex processes a kill leaves behind.
* *Planning*: hand-off files, read sets, the runtime logs, and a size class that a session changes.
* `ignored_sessions` has no effect in watch mode, because `run` never sets the current
  session; hybrid watch mode, the final move of generated files and
  `check_bundle_quality_degradation` of the docs orchestrator; `run_exec_plan`, which the codex
  harness does not use.
