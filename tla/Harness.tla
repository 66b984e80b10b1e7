------------------------------- MODULE Harness -------------------------------
(***************************************************************************)
(* Harness mode with Cowork sessions (main.run_harness, session_manager,   *)
(* completion_detector, plan_parser): exec-plans are executed chunk by     *)
(* chunk, each chunk in a new Cowork session whose log is watched until    *)
(* the session falls idle; then its checkboxes and builds are examined.    *)
(*                                                                         *)
(* The actors are the harness process (one action per step of its loops),  *)
(* the sessions it has started (which tick checkboxes in the plan file,    *)
(* may leave it unreadable for a while, and go idle), the author of plans  *)
(* and the operator who starts, kills and restarts the harness.            *)
(*                                                                         *)
(* Auto-answering of dialogs, which shares the loop, is in Watcher.tla: a  *)
(* session that waits for an answer is simply still working here.          *)
(***************************************************************************)
EXTENDS ExecPlans

CONSTANTS
  OpenRetries,              \* open_chunk_session(max_retries)
  IncompleteRetryMax,       \* harness_config.incomplete_retry_max
  CheckMaxRetries,          \* harness_config.completion_check_max_retries
  InstantTurns              \* may a session end its turn before the tail exists?

ASSUME LimitsAssumption ==
  /\ OpenRetries \in Nat
  /\ IncompleteRetryMax \in Nat
  /\ CheckMaxRetries \in Nat
  /\ InstantTurns \in BOOLEAN

VARIABLES
  broken,       \* plans whose file parse_exec_plan cannot read at the moment
  pc,           \* where run_harness is
  plan,         \* plan_path
  chunk,        \* chunk.number
  attempt,      \* attempts of open_chunk_session so far
  retry_state,  \* ChunkRetryState
  todo,         \* build_criteria of run_build_criteria not run yet
  new_text,     \* the ticked boxes of the text update_checkboxes will write
  new_broken,   \* {plan} if that text, like the one it was made of, cannot be parsed
  last_record,  \* what the last log record read says of the session
  unread,       \* the same, of the last record the tail has not read yet
  idle,         \* has idle_timeout_seconds passed since last_record_time?
  agent,        \* what the watched session is doing
  started,      \* history: <<plan, chunk>> whose prompt reached a session
  escalated,    \* history: <<plan, chunk>> reported by ESCALATE in this run
  passed        \* history: builds that have succeeded in this run

files == <<dir, checked, emptied, broken>>
session == <<last_record, unread, idle, agent>>
history == <<started, escalated, passed>>
builds == <<todo, new_text, new_broken>>
vars == <<files, pc, plan, chunk, attempt, retry_state, builds, session, history>>

Lifecycle == INSTANCE PlanLifecycle

NoPlan == 0   \* plan_path and chunk before they are set

\* ChunkRetryState; a counter stops one above its limit.
RetryStates ==
  [cli_failure_count : 0..(CheckMaxRetries + 1),
   incomplete_feedback_count : 0..(IncompleteRetryMax + 1)]

\* "none": nothing read; "busy": mid-turn; "end": summary, last-prompt or end_turn.
Records == {"none", "busy", "end"}

AgentStates == {"none", "working", "stopped"}

Locations ==
  {"start", "next", "promote", "open", "watch", "build", "tick", "write_tick", "verify",
   "complete", "tick_all", "write_all", "exit"}

\* update_checkboxes has read the file; it has emptied it.
HasText == {"tick", "tick_all"}
IsWriting == {"write_tick", "write_all"}

\* Where the loop has a current chunk.
ChunkLocations == {"open", "watch", "build", "verify", "complete"} \cup HasText \cup IsWriting

TypeOK ==
  /\ dir \in [Plans -> Directories]
  /\ checked \subseteq Items
  /\ emptied \subseteq Plans
  /\ broken \subseteq Plans
  /\ pc \in Locations
  /\ plan \in Plans \cup {NoPlan}
  /\ chunk \in Nat
  /\ attempt \in 0..OpenRetries
  /\ retry_state \in RetryStates
  /\ todo \subseteq Builds
  /\ new_text \subseteq Items
  /\ new_broken \subseteq Plans
  /\ last_record \in Records
  /\ unread \in Records
  /\ idle \in BOOLEAN
  /\ agent \in AgentStates
  /\ started \subseteq Plans \X Nat
  /\ escalated \subseteq Plans \X Nat
  /\ passed \subseteq Builds

NewRetryState == [cli_failure_count |-> 0, incomplete_feedback_count |-> 0]

Init ==
  /\ dir \in [Plans -> {"absent", "planning", "active"}]
  /\ checked = {}
  /\ emptied = {}
  /\ broken \in SUBSET Plans
  /\ pc = "start"
  /\ plan = NoPlan
  /\ chunk = 0
  /\ attempt = 0
  /\ retry_state = NewRetryState
  /\ todo = {} /\ new_text = {} /\ new_broken = {}
  /\ last_record = "none" /\ unread = "none" /\ idle = FALSE
  /\ agent = "none"
  /\ started = {} /\ escalated = {} /\ passed = {}

-----------------------------------------------------------------------------
(***************************************************************************)
(* run_harness before its loop: promote, then require one readable active  *)
(* plan.  Both sys.exit(1) paths and the return end in "exit".             *)
(***************************************************************************)
Start ==
  /\ pc = "start"
  /\ \/ \E p \in Plans : IsPromoted(p) /\ dir' = [dir EXCEPT ![p] = "active"]
     \/ NothingToPromote /\ UNCHANGED dir
  /\ LET active == {p \in Plans : dir'[p] = "active"}
     IN  \/ /\ \E p \in Plans \ broken : active = {p} /\ plan' = p
            /\ pc' = "next"
         \/ /\ ~ \E p \in Plans \ broken : active = {p}
            /\ pc' = "exit"
            /\ UNCHANGED plan
  /\ UNCHANGED <<checked, emptied, broken, chunk, attempt, retry_state, builds, session, history>>

\* The parse at the top of the loop is not guarded: the process dies.
CannotReadPlan ==
  /\ pc = "next"
  /\ plan \in broken
  /\ pc' = "exit"
  /\ UNCHANGED <<files, plan, chunk, attempt, retry_state, builds, session, history>>

SelectChunk ==
  /\ pc = "next"
  /\ plan \notin broken
  /\ \E c \in ChunksOf[plan] : IsNextIncompleteChunk(plan, c) /\ chunk' = c
  /\ attempt' = 0
  /\ pc' = "open"
  /\ UNCHANGED <<files, plan, retry_state, builds, session, history>>

\* No chunk is left, or the file is empty: move_to_completed, then
\* promote_next_plan, two renames a kill can separate.
FilePlan ==
  /\ pc = "next"
  /\ plan \notin broken
  /\ Incomplete(plan) = {}
  /\ dir' = [dir EXCEPT ![plan] = "completed"]
  /\ pc' = "promote"
  /\ UNCHANGED <<checked, emptied, broken, plan, chunk, attempt, retry_state, builds, session, history>>

\* Mutant: the loop keeps its old plan_path.
MutantPromoteNext ==
  /\ pc = "promote"
  /\ \/ NothingToPromote /\ pc' = "exit" /\ UNCHANGED dir
     \/ /\ \E p \in Plans : IsPromoted(p) /\ dir' = [dir EXCEPT ![p] = "active"]
        /\ pc' = "next"
  /\ UNCHANGED <<checked, emptied, broken, plan, chunk, attempt, retry_state, builds, session, history>>

PromoteNext ==
  /\ pc = "promote"
  /\ \/ /\ NothingToPromote
        /\ pc' = "exit"
        /\ UNCHANGED <<dir, plan>>
     \/ \E p \in Plans :
          /\ IsPromoted(p)
          /\ dir' = [dir EXCEPT ![p] = "active"]
          /\ plan' = p
          /\ pc' = IF p \in broken THEN "exit" ELSE "next"
  /\ UNCHANGED <<checked, emptied, broken, chunk, attempt, retry_state, builds, session, history>>

-----------------------------------------------------------------------------
(***************************************************************************)
(* open_chunk_session: an attempt fails when a script fails (the prompt    *)
(* may have been typed all the same) or when no new log file shows up in   *)
(* time (it was).  Either way the next attempt opens one more session.     *)
(***************************************************************************)
OpenSessionFails ==
  /\ pc = "open"
  /\ attempt < OpenRetries
  /\ attempt' = attempt + 1
  /\ started' \in {started, started \cup {<<plan, chunk>>}}
  /\ UNCHANGED <<files, pc, plan, chunk, retry_state, builds, session, escalated, passed>>

\* JSONLTail starts at the end of the file: earlier records are never read.
OpenSession ==
  /\ pc = "open"
  /\ attempt < OpenRetries
  /\ started' = started \cup {<<plan, chunk>>}
  /\ agent' \in IF InstantTurns THEN {"working", "stopped"} ELSE {"working"}
  /\ retry_state' = NewRetryState
  /\ last_record' = "none" /\ unread' = "none" /\ idle' = FALSE
  /\ pc' = "watch"
  /\ UNCHANGED <<files, plan, chunk, attempt, builds, escalated, passed>>

GiveUpOpening ==
  /\ pc = "open"
  /\ attempt = OpenRetries
  /\ pc' = "exit"
  /\ UNCHANGED <<files, plan, chunk, attempt, retry_state, builds, session, history>>

-----------------------------------------------------------------------------
(***************************************************************************)
(* The cooperative loop.                                                   *)
(***************************************************************************)
ReadNewLines ==
  /\ pc = "watch"
  /\ unread # "none"
  /\ last_record' = unread
  /\ unread' = "none"
  /\ idle' = FALSE
  /\ UNCHANGED <<files, pc, plan, chunk, attempt, retry_state, builds, agent, history>>

IdleTimeout ==
  /\ pc = "watch"
  /\ ~ idle
  /\ idle' = TRUE
  /\ UNCHANGED <<files, pc, plan, chunk, attempt, retry_state, builds, last_record,
                 unread, agent, history>>

IsIdleTrigger == idle /\ last_record = "end"

\* process_chunk, step 1: a snapshot of the unticked [BUILD] criteria.
BeginCheck ==
  /\ pc = "watch"
  /\ IsIdleTrigger
  /\ todo' = IF plan \in broken THEN {} ELSE UncheckedBuilds(plan, chunk)
  /\ pc' = IF todo' = {} THEN "verify" ELSE "build"
  /\ UNCHANGED <<files, plan, chunk, attempt, retry_state, new_text, new_broken, session, history>>

BackToWatch ==
  /\ pc' = "watch"
  /\ idle' = FALSE
  /\ UNCHANGED <<last_record, unread>>

\* send_feedback: its result is ignored, so the session may never get the text.
SendFeedback == agent' \in {agent, "working"}

KeepWatching ==
  /\ BackToWatch
  /\ SendFeedback
  /\ UNCHANGED escalated

\* ESCALATE: a notification, and chunk_done.
Escalate ==
  /\ pc' = "next"
  /\ escalated' = escalated \cup {<<plan, chunk>>}
  /\ UNCHANGED session

\* Mutant: the round is not counted.
MutantUncounted ==
  /\ UNCHANGED retry_state
  /\ KeepWatching

\* Mutant: one round too many.
MutantOneMore ==
  /\ retry_state' = [retry_state EXCEPT !.incomplete_feedback_count = @ + 1]
  /\ IF retry_state.incomplete_feedback_count > IncompleteRetryMax
     THEN Escalate
     ELSE KeepWatching

\* One more incomplete round: feedback until the budget is spent.
CountIncomplete ==
  /\ retry_state' = [retry_state EXCEPT !.incomplete_feedback_count = @ + 1]
  /\ IF retry_state'.incomplete_feedback_count > IncompleteRetryMax
     THEN Escalate
     ELSE KeepWatching

\* A build succeeds; to tick it the file is parsed again, unguarded.  A box that
\* is ticked already is not written.
BuildPasses(i) ==
  /\ pc = "build"
  /\ i \in todo
  /\ passed' = passed \cup {i}
  /\ todo' = todo \ {i}
  /\ \/ plan \in broken /\ pc' = "exit" /\ UNCHANGED new_text
     \/ plan \notin broken /\ i \in checked /\ UNCHANGED <<pc, new_text>>
     \/ /\ plan \notin broken /\ i \notin checked
        /\ pc' = "tick"
        /\ new_text' = (checked \cap Boxes(plan)) \cup {i}
  /\ UNCHANGED <<files, plan, chunk, attempt, retry_state, new_broken, session, started, escalated>>

\* The text read is written back with the boxes ticked, over what a session may
\* have written in between.  write_text empties the file first ...
TruncatePlan ==
  /\ pc \in HasText
  /\ emptied' = emptied \cup {plan}
  /\ broken' = broken \ {plan}
  /\ pc' = IF pc = "tick" THEN "write_tick" ELSE "write_all"
  /\ UNCHANGED <<dir, checked, plan, chunk, attempt, retry_state, builds, session, history>>

\* ... and then fills it.  Back to the builds, or on to the next chunk.
WriteTick ==
  /\ pc \in IsWriting
  /\ emptied' = emptied \ {plan}
  /\ checked' = (checked \ Boxes(plan)) \cup new_text
  /\ broken' = broken \cup new_broken
  /\ new_text' = {}
  /\ new_broken' = {}
  /\ pc' = IF pc = "write_tick" THEN "build" ELSE "next"
  /\ UNCHANGED <<dir, plan, chunk, attempt, retry_state, todo, session, history>>

BuildFails ==
  /\ pc = "build"
  /\ todo # {}
  /\ todo' = {}
  /\ CountIncomplete
  /\ UNCHANGED <<files, plan, chunk, attempt, new_text, new_broken, started, passed>>

\* Every build passed: the session is told to go on to review, nothing is counted.
BuildsPassed ==
  /\ pc = "build"
  /\ todo = {}
  /\ KeepWatching
  /\ UNCHANGED <<files, plan, chunk, attempt, retry_state, builds, started, passed>>

\* run_chunk_verification found every criterion ticked.
ChunkDone ==
  /\ pc = "verify"
  /\ plan \notin broken
  /\ Unchecked(plan, chunk) = {}
  /\ pc' = "complete"
  /\ UNCHANGED <<files, plan, chunk, attempt, retry_state, builds, session, history>>

\* handle_chunk_completion: the file is read again to tick every box of the
\* chunk.  Its text is not parsed; if it cannot be read at all, the process dies.
TickAll ==
  /\ pc = "complete"
  /\ \/ plan \in broken /\ pc' = "exit" /\ UNCHANGED <<new_text, new_broken>>
     \/ /\ pc' = "tick_all"
        /\ new_text' = (checked \cap Boxes(plan)) \cup ChunkItems(plan, chunk)
        /\ new_broken' = broken \cap {plan}
  /\ UNCHANGED <<files, plan, chunk, attempt, retry_state, todo, session, history>>

ChunkIncomplete ==
  /\ pc = "verify"
  /\ plan \notin broken
  /\ Unchecked(plan, chunk) # {}
  /\ CountIncomplete
  /\ UNCHANGED <<files, plan, chunk, attempt, builds, started, passed>>

CheckError ==
  /\ pc = "verify"
  /\ plan \in broken
  /\ retry_state' = [retry_state EXCEPT !.cli_failure_count = @ + 1]
  /\ IF retry_state'.cli_failure_count > CheckMaxRetries
     THEN Escalate
     ELSE BackToWatch /\ UNCHANGED <<agent, escalated>>
  /\ UNCHANGED <<files, plan, chunk, attempt, builds, started, passed>>

HarnessStep ==
  \/ Start \/ CannotReadPlan \/ SelectChunk \/ FilePlan \/ PromoteNext
  \/ OpenSession \/ GiveUpOpening
  \/ ReadNewLines \/ BeginCheck
  \/ BuildFails \/ BuildsPassed \/ ChunkDone \/ ChunkIncomplete \/ CheckError
  \/ TickAll \/ TruncatePlan \/ WriteTick
  \/ \E i \in todo : BuildPasses(i)

-----------------------------------------------------------------------------
(***************************************************************************)
(* The surroundings.                                                       *)
(***************************************************************************)
OfHarness == <<pc, plan, chunk, attempt, retry_state, builds, last_record, idle>>

\* The watched session writes a record in the middle of its turn.
AgentWrites ==
  /\ agent = "working"
  /\ unread' = "busy"
  /\ UNCHANGED <<files, OfHarness, agent, history>>

\* It ends its turn.
AgentStops ==
  /\ agent = "working"
  /\ agent' = "stopped"
  /\ unread' = "end"
  /\ UNCHANGED <<files, OfHarness, history>>

\* Any session ever started on a chunk, watched or not, may tick its boxes.
SessionTicks(i) ==
  /\ dir[i[1]] = "active"
  /\ i[1] \notin broken \cup emptied
  /\ <<i[1], i[2]>> \in started
  /\ i \notin checked
  /\ checked' = checked \cup {i}
  /\ UNCHANGED <<dir, emptied, broken, OfHarness, unread, agent, history>>

\* A session edits the plan file so that it no longer parses, or repairs it.  It
\* may write a file that was left empty anew, with the boxes it had.
SessionEdits(p) ==
  /\ dir[p] = "active"
  /\ \E c \in ChunksOf[p] : <<p, c>> \in started
  /\ \/ /\ p \notin emptied
        /\ broken' = IF p \in broken THEN broken \ {p} ELSE broken \cup {p}
        /\ UNCHANGED emptied
     \/ /\ p \in emptied /\ pc \notin IsWriting
        /\ emptied' = emptied \ {p}
        /\ UNCHANGED broken
  /\ UNCHANGED <<dir, checked, OfHarness, unread, agent, history>>

Author(p) ==
  /\ dir[p] = "absent"
  /\ dir' = [dir EXCEPT ![p] = "planning"]
  /\ UNCHANGED <<checked, emptied, broken, OfHarness, unread, agent, history>>

\* The operator starts the harness again, after it ended or by killing it.
Rerun ==
  /\ pc # "start"
  /\ pc' = "start"
  /\ plan' = NoPlan /\ chunk' = 0 /\ attempt' = 0
  /\ retry_state' = NewRetryState
  /\ todo' = {} /\ new_text' = {} /\ new_broken' = {}
  /\ last_record' = "none" /\ unread' = "none" /\ idle' = FALSE
  /\ agent' = "none"
  /\ escalated' = {} /\ passed' = {}
  /\ UNCHANGED <<files, started>>

Environment ==
  \/ AgentWrites \/ AgentStops \/ Rerun
  \/ \E i \in Items : SessionTicks(i)
  \/ \E p \in Plans : SessionEdits(p) \/ Author(p)

Next == HarnessStep \/ IdleTimeout \/ OpenSessionFails \/ Environment

Spec == Init /\ [][Next]_vars

(***************************************************************************)
(* The loop polls for ever, time passes, and a session that works ends its *)
(* turn some day.  Nobody is obliged to tick a box, to make a build pass,  *)
(* to write a plan or to restart the harness.                              *)
(***************************************************************************)
Fairness ==
  /\ WF_vars(HarnessStep)
  /\ WF_vars(IdleTimeout)
  /\ WF_vars(AgentStops)

FairSpec == Spec /\ Fairness

-----------------------------------------------------------------------------
(***************************************************************************)
(* Properties.                                                             *)
(***************************************************************************)

\* While a chunk is in hand, its plan is the one active plan, so sessions and
\* checks never run on an ambiguous active/ directory (run_harness, the checks
\* on plan_files before the loop and promote_next_plan after each plan).
WorksOnTheActivePlan ==
  pc \in ChunkLocations \cup {"next"} => In("active") = {plan}

\* A plan reaches completed/ only when each of its chunks has criteria and all
\* are ticked, whatever sessions, lost ticks and restarts came in between.  The
\* one exception: a kill after write_text has truncated the file and before it
\* has filled it leaves a file without chunks, which the next run files.
FiledPlansAreComplete ==
  \A p \in In("completed") : Lifecycle!PlanDone(p) \/ p \in emptied

\* Chunks are worked on in order: the chunks before the one in hand are complete
\* and stay so, and outside its own writes the harness never works on a plan
\* whose file is empty (find_next_incomplete_chunk on the re-read file).
EarlierChunksComplete ==
  pc \in ChunkLocations =>
    /\ \A c \in ChunksOf[plan] : c < chunk => ChunkCompleted(plan, c)
    /\ plan \in emptied <=> pc \in IsWriting

\* A build that has succeeded does not run a second time in a later round: it
\* was ticked at once, no session's write can be lost with it in between, and
\* it is not collected again (run_build_criteria, the snapshot in process_chunk).
BuildsPassOnce == [][\A i \in Builds : BuildPasses(i) => i \notin passed]_vars

\* A watched session is judged in the end: the loop leaves it completed or
\* escalated, or the process ends; the feedback rounds cannot go on for ever.
SessionSettles == (pc = "watch") ~> (pc \in {"next", "exit", "start"})

\* The harness does to the plan files what PlanLifecycle promises.
KeepsLifecycle == Lifecycle!Spec

\* What docs and comments say of ESCALATE: the loop pauses for a person, so no
\* session is opened again on a chunk that was escalated in this run.
EscalationPauses ==
  [][OpenSession => <<plan, chunk>> \notin escalated]_vars

=============================================================================
