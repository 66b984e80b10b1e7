------------------------------- MODULE Watcher -------------------------------
(***************************************************************************)
(* Watch mode (main.run, main.process_one_event, watcher, responder,       *)
(* session_finder): the log of the most recent Cowork session is tailed;   *)
(* a tool use that opens a dialog and stays unanswered for the debounce    *)
(* time is put to a CLI agent, and its answer is typed into the app.       *)
(*                                                                         *)
(* The actors are the pilot, one process that polls and blocks while it    *)
(* handles an event, and the Cowork sessions, which append records to      *)
(* their logs at any moment: tool uses, and their results once a person,   *)
(* the app itself or the pilot's keystrokes have answered them.  A record  *)
(* is written in two steps, so a reader can find half of it at the end of  *)
(* the file.  Records of other kinds change nothing and are left out; one  *)
(* with several tool blocks is a run of records with one block each.       *)
(*                                                                         *)
(* run() never calls set_current_session, so ignored_sessions has no       *)
(* effect here.                                                            *)
(***************************************************************************)
EXTENDS Naturals, Sequences, FiniteSets

CONSTANTS
  Sessions,     \* the session log files
  Tools,        \* ids of tool uses
  Questions,    \* those of AskUserQuestion
  Permissions,  \* those of the other DIALOG_TOOLS; the rest opens no dialog
  SessionOf,    \* the session each tool use belongs to
  NoTool,       \* no pending tool use
  MaxRetries    \* config.max_retries

ASSUME ToolsAssumption ==
  /\ Questions \subseteq Tools
  /\ Permissions \subseteq Tools \ Questions
  /\ NoTool \notin Tools
  /\ SessionOf \in [Tools -> Sessions]

ASSUME RetriesAssumption == MaxRetries \in Nat \ {0}

VARIABLES
  log,          \* log[s]: the complete records of session s's file
  writing,      \* writing[s]: the record being written at its end, <<>> or <<r>>
  newest,       \* the session whose file was modified last
  pc,           \* where the pilot is
  watched,      \* jsonl_path
  offset,       \* JSONLTail._offset, in records
  state,        \* WatcherStateMachine.state
  pending,      \* pending_tool_use
  elapsed,      \* have debounce_seconds passed since _detected_at?
  attempt,      \* CLI attempts made for the event
  pre_exec_size,\* file size captured before the keystrokes, in records
  cut,          \* was the last record of that size half written?
  typed_at,     \* file size when they were sent
  late,         \* was the result in the log when the CLI agent answered?
  unread,       \* could the log not be read just before the keystrokes?
  seen,         \* length of the log when the verification last looked
  typed,        \* history: how often keystrokes were sent for each tool use
  deferred      \* history: tool uses the CLI agent left to a person

cowork == <<log, writing, newest>>
machine == <<state, pending>>
locals == <<attempt, pre_exec_size, cut, typed_at, late, unread, seen>>
history == <<typed, deferred>>
vars == <<cowork, pc, watched, offset, machine, elapsed, locals, history>>

Use(id) == [id |-> id, kind |-> "use"]
Result(id) == [id |-> id, kind |-> "result"]
Records == [id : Tools, kind : {"use", "result"}]

WatcherStates ==
  {"IDLE", "TOOL_USE_DETECTED", "DEBOUNCE_WAIT", "PENDING_RESPONSE", "RESPONDED"}

Locations == {"attach", "loop", "read", "cli", "guard", "size", "type", "typed", "verify",
              "wait", "dead"}

TypeOK ==
  /\ log \in [Sessions -> Seq(Records)]
  /\ writing \in [Sessions -> Seq(Records)]
  /\ \A s \in Sessions : Len(writing[s]) <= 1
  /\ newest \in Sessions
  /\ pc \in Locations
  /\ watched \in Sessions
  /\ offset \in Nat
  /\ state \in WatcherStates
  /\ pending \in Tools \cup {NoTool}
  /\ elapsed \in BOOLEAN
  /\ attempt \in 0..(MaxRetries - 1)
  /\ pre_exec_size \in Nat
  /\ cut \in BOOLEAN
  /\ typed_at \in Nat
  /\ late \in BOOLEAN /\ unread \in BOOLEAN
  /\ seen \in Nat
  /\ typed \in [Tools -> Nat]
  /\ deferred \subseteq Tools

Init ==
  /\ log = [s \in Sessions |-> <<>>]
  /\ writing = [s \in Sessions |-> <<>>]
  /\ newest \in Sessions
  /\ pc = "attach"
  /\ watched = newest
  /\ offset = 0
  /\ state = "IDLE" /\ pending = NoTool /\ elapsed = FALSE
  /\ attempt = 0 /\ pre_exec_size = 0 /\ cut = FALSE /\ typed_at = 0
  /\ late = FALSE /\ unread = FALSE /\ seen = 0
  /\ typed = [id \in Tools |-> 0]
  /\ deferred = {}

-----------------------------------------------------------------------------
(***************************************************************************)
(* The Cowork sessions.                                                    *)
(***************************************************************************)
Logged(r) == \E s \in Sessions : \E k \in 1..Len(log[s]) : log[s][k] = r

BeingWritten(r) == \E s \in Sessions : writing[s] = <<r>>

OfPilot == <<pc, watched, offset, machine, elapsed, locals, history>>

\* A session starts to write a record: each use once, its result after it.
BeginRecord(s, r) ==
  /\ writing[s] = <<>>
  /\ SessionOf[r.id] = s
  /\ ~ Logged(r)
  /\ r.kind = "result" => Logged(Use(r.id))
  /\ writing' = [writing EXCEPT ![s] = <<r>>]
  /\ newest' = s
  /\ UNCHANGED <<log, OfPilot>>

EndRecord(s) ==
  /\ writing[s] # <<>>
  /\ log' = [log EXCEPT ![s] = Append(@, writing[s][1])]
  /\ writing' = [writing EXCEPT ![s] = <<>>]
  /\ newest' = s
  /\ UNCHANGED OfPilot

\* st_size, a half-written record included.
Size(s) == Len(log[s]) + Len(writing[s])

-----------------------------------------------------------------------------
(***************************************************************************)
(* Following the newest session.  A new JSONLTail, and switch_file, start  *)
(* at the end of the file: what is there already is skipped, and so is the *)
(* record that is half written, whose rest does not parse.                 *)
(***************************************************************************)
NewMachine == state' = "IDLE" /\ pending' = NoTool /\ elapsed' = FALSE

Attach ==
  /\ pc = "attach"
  /\ watched' = newest
  /\ offset' = Size(newest)
  /\ NewMachine
  /\ pc' = "loop"
  /\ UNCHANGED <<cowork, locals, history>>

\* Mutant: the new file is read from its beginning.
MutantSwitchSession ==
  /\ pc = "loop"
  /\ newest # watched
  /\ watched' = newest
  /\ offset' = 0
  /\ NewMachine
  /\ pc' = "read"
  /\ UNCHANGED <<cowork, locals, history>>

SwitchSession ==
  /\ pc = "loop"
  /\ newest # watched
  /\ watched' = newest
  /\ offset' = Size(newest)
  /\ NewMachine
  /\ pc' = "read"
  /\ UNCHANGED <<cowork, locals, history>>

SameSession ==
  /\ pc = "loop"
  /\ newest = watched
  /\ pc' = "read"
  /\ UNCHANGED <<cowork, watched, offset, machine, elapsed, locals, history>>

-----------------------------------------------------------------------------
(***************************************************************************)
(* One poll: read_new_lines, the state machine's handlers for each line,   *)
(* tick, get_pending_event.                                                *)
(***************************************************************************)
NewLines == (offset + 1)..Len(log[watched])

\* Mutant: every tool use counts, dialog or not.
MutantDialogUses == {k \in NewLines : log[watched][k].kind = "use"}

\* on_tool_use looks at DIALOG_TOOLS only.
DialogUses ==
  {k \in NewLines : /\ log[watched][k].kind = "use"
                    /\ log[watched][k].id \in Questions \cup Permissions}

ResultRead(id) == \E k \in NewLines : log[watched][k] = Result(id)

\* Mutant: the wait never ends.
MutantTicked(st) ==
  CASE st = "TOOL_USE_DETECTED" -> "DEBOUNCE_WAIT"
    [] st = "RESPONDED" -> "IDLE"
    [] OTHER -> st

Ticked(st) ==
  CASE st = "TOOL_USE_DETECTED" -> "DEBOUNCE_WAIT"
    [] st = "DEBOUNCE_WAIT" /\ elapsed -> "PENDING_RESPONSE"
    [] st = "RESPONDED" -> "IDLE"
    [] OTHER -> st

\* tick and get_pending_event, after the lines have left the machine in st with id.
Tick(st, id) ==
  /\ state' = Ticked(st)
  /\ pending' = id
  /\ IF state' = "PENDING_RESPONSE" /\ id # NoTool
     THEN pc' = "cli"
     ELSE pc' = "loop"

\* A later tool use replaces the pending one; its result may be in the same batch.
NewUseRead ==
  /\ pc = "read"
  /\ \E k \in DialogUses :
       /\ \A j \in DialogUses : j <= k
       /\ LET id == log[watched][k].id
          IN  IF ResultRead(id) THEN Tick("RESPONDED", NoTool)
                                ELSE Tick("TOOL_USE_DETECTED", id)
  /\ offset' = Len(log[watched])
  /\ elapsed' = FALSE
  /\ UNCHANGED <<cowork, watched, locals, history>>

NoUseRead ==
  /\ pc = "read"
  /\ DialogUses = {}
  /\ IF pending # NoTool /\ ResultRead(pending) THEN Tick("RESPONDED", NoTool)
                                                ELSE Tick(state, pending)
  /\ offset' = IF NewLines = {} THEN offset ELSE Len(log[watched])
  /\ UNCHANGED <<cowork, watched, elapsed, locals, history>>

DebounceElapses ==
  /\ state \in {"TOOL_USE_DETECTED", "DEBOUNCE_WAIT"}
  /\ ~ elapsed
  /\ elapsed' = TRUE
  /\ UNCHANGED <<cowork, pc, watched, offset, machine, locals, history>>

-----------------------------------------------------------------------------
(***************************************************************************)
(* process_one_event for the pending tool use.  The loop does nothing else *)
(* until it returns; the sessions go on writing.                           *)
(***************************************************************************)
IsQuestion == pending \in Questions

Forget ==
  /\ attempt' = 0 /\ pre_exec_size' = 0 /\ cut' = FALSE /\ typed_at' = 0
  /\ late' = FALSE /\ unread' = FALSE /\ seen' = 0

Return == pc' = "loop" /\ Forget

\* return True: the loop calls on_tool_result.
Succeed == Return /\ state' = "RESPONDED" /\ pending' = NoTool

\* Mutant: the machine is left as it is.
MutantFail == Return /\ UNCHANGED machine

\* return False: the loop resets the machine, the event is not tried again.
Fail == Return /\ state' = "IDLE" /\ pending' = NoTool

Goto(location) == pc' = location /\ UNCHANGED machine

\* What the steps of process_one_event leave alone.
Elsewhere == <<cowork, watched, offset, elapsed>>

\* Mutant: one call too many.
MutantCliFails ==
  /\ pc = "cli"
  /\ IF attempt = MaxRetries
     THEN Fail
     ELSE /\ attempt' = attempt + 1
          /\ Goto("cli")
          /\ UNCHANGED <<pre_exec_size, cut, typed_at, late, unread, seen>>
  /\ UNCHANGED <<Elsewhere, history>>

\* No answer, or one validate_response rejects.
CliFails ==
  /\ pc = "cli"
  /\ IF attempt + 1 = MaxRetries
     THEN Fail
     ELSE /\ attempt' = attempt + 1
          /\ Goto("cli")
          /\ UNCHANGED <<pre_exec_size, cut, typed_at, late, unread, seen>>
  /\ UNCHANGED <<Elsewhere, history>>

CliEscalates ==
  /\ pc = "cli"
  /\ deferred' = deferred \cup {pending}
  /\ Fail
  /\ UNCHANGED <<Elsewhere, typed>>

\* A valid answer; the clipboard may refuse a free text.
CliAnswers ==
  /\ pc = "cli"
  /\ \/ /\ late' = Logged(Result(pending))
        /\ Goto("guard")
        /\ UNCHANGED <<attempt, pre_exec_size, cut, typed_at, unread, seen>>
     \/ IsQuestion /\ Fail
  /\ UNCHANGED <<Elsewhere, history>>

\* has_tool_result_arrived, on complete lines of the watched file.
ResultArrived == \E k \in 1..Len(log[watched]) : log[watched][k] = Result(pending)

\* Mutant: no just-in-time guard.
MutantJustInTimeGuard ==
  /\ pc = "guard"
  /\ Goto("size")
  /\ UNCHANGED <<Elsewhere, locals, history>>

\* A log that cannot be read counts as one without the result (OSError).
JustInTimeGuard ==
  /\ pc = "guard"
  /\ \/ ResultArrived /\ Succeed
     \/ ~ ResultArrived /\ Goto("size") /\ UNCHANGED locals
     \/ /\ unread' = TRUE
        /\ Goto("size")
        /\ UNCHANGED <<attempt, pre_exec_size, cut, typed_at, late, seen>>
  /\ UNCHANGED <<Elsewhere, history>>

CaptureSize ==
  /\ pc = "size"
  /\ pre_exec_size' = Size(watched)
  /\ cut' = (writing[watched] # <<>>)
  /\ Goto("type")
  /\ UNCHANGED <<Elsewhere, attempt, typed_at, late, unread, seen, history>>

\* execute_applescript: keys are pressed at once, the script returns later.
TypeKeys ==
  /\ pc = "type"
  /\ typed' = [typed EXCEPT ![pending] = @ + 1]
  /\ typed_at' = Size(watched)
  /\ Goto("typed")
  /\ UNCHANGED <<Elsewhere, attempt, pre_exec_size, cut, late, unread, seen, deferred>>

\* Mutant: the size is captured when the script has returned.
MutantScriptReturns ==
  /\ pc = "typed"
  /\ \/ /\ IsQuestion
        /\ pre_exec_size' = Size(watched)
        /\ cut' = (writing[watched] # <<>>)
        /\ Goto("verify")
        /\ UNCHANGED <<attempt, typed_at, late, unread, seen>>
     \/ ~ IsQuestion /\ Succeed
  /\ UNCHANGED <<Elsewhere, history>>

\* The answer to a permission dialog is not verified.
ScriptReturns ==
  /\ pc = "typed"
  /\ \/ IsQuestion /\ Goto("verify") /\ UNCHANGED locals
     \/ ~ IsQuestion /\ Succeed
  /\ UNCHANGED <<Elsewhere, history>>

\* It fails or times out, before or after it has typed.
ScriptFails ==
  /\ pc \in {"type", "typed"}
  /\ Fail
  /\ UNCHANGED <<Elsewhere, history>>

\* post_verify_response reads the file from pre_exec_size on.
ResultFound ==
  \E k \in (pre_exec_size + 1)..Len(log[watched]) : log[watched][k] = Result(pending)

VerifyFinds ==
  /\ pc = "verify"
  /\ ResultFound
  /\ Succeed
  /\ UNCHANGED <<Elsewhere, history>>

\* Nothing there, or the file cannot be read: it sleeps for poll_interval.
VerifySleeps ==
  /\ pc = "verify"
  /\ \/ ~ ResultFound /\ seen' = Len(log[watched])
     \/ UNCHANGED seen
  /\ Goto("wait")
  /\ UNCHANGED <<Elsewhere, attempt, pre_exec_size, cut, typed_at, late, unread, history>>

VerifyLooksAgain ==
  /\ pc = "wait"
  /\ Goto("verify")
  /\ UNCHANGED <<Elsewhere, locals, history>>

\* The time is up after a sleep: what was written during it is not looked at.
VerifyTimeout ==
  /\ pc = "wait"
  /\ Fail
  /\ UNCHANGED <<Elsewhere, history>>

\* The process ends, whatever it was doing.
Die ==
  /\ NewMachine
  /\ Forget
  /\ pc' = "dead"
  /\ UNCHANGED <<cowork, watched, offset, history>>

\* A half-written record may end inside a UTF-8 character, and pre_exec_size may
\* lie in the middle of one: both readers decode strictly and catch only OSError.
HalfRecordRead ==
  /\ pc \in {"guard", "verify"}
  /\ writing[watched] # <<>> \/ (pc = "verify" /\ cut)
  /\ Die

Stop == pc \notin {"attach", "dead"} /\ Die

Restart ==
  /\ pc = "dead"
  /\ pc' = "attach"
  /\ UNCHANGED <<cowork, watched, offset, machine, elapsed, locals, history>>

-----------------------------------------------------------------------------

PilotStep ==
  \/ Attach \/ SwitchSession \/ SameSession \/ NewUseRead \/ NoUseRead
  \/ CliFails \/ CliEscalates \/ CliAnswers
  \/ JustInTimeGuard \/ CaptureSize \/ TypeKeys \/ ScriptReturns \/ ScriptFails
  \/ VerifyFinds \/ VerifySleeps \/ VerifyLooksAgain \/ VerifyTimeout

Cowork ==
  \E s \in Sessions :
    \/ EndRecord(s)
    \/ \E id \in Tools : BeginRecord(s, Use(id)) \/ BeginRecord(s, Result(id))

Next == PilotStep \/ DebounceElapses \/ HalfRecordRead \/ Cowork \/ Stop \/ Restart

Spec == Init /\ [][Next]_vars

(***************************************************************************)
(* The pilot polls for ever and every call it makes has a time limit; time *)
(* passes.  The verification's limit is on its loop, which looks and       *)
(* sleeps in turn.  Sessions need never write, and nobody need start the   *)
(* pilot.                                                                  *)
(***************************************************************************)
Fairness == WF_vars(PilotStep) /\ WF_vars(DebounceElapses) /\ SF_vars(VerifyTimeout)

FairSpec == Spec /\ Fairness

-----------------------------------------------------------------------------
(***************************************************************************)
(* Properties.                                                             *)
(***************************************************************************)

\* No tool use is answered twice: not after a failed or unverified attempt, not
\* after a restart, and not when the pilot comes back to a session it had left
\* (run: the reset after a failure; JSONLTail: start at the end of the file).
TypedAtMostOnce == \A id \in Tools : typed[id] <= 1

\* Keystrokes are only ever meant for dialogs, and never for one the CLI agent
\* has left to a person, before or after (on_tool_use, process_one_event 2.5).
OnlyOpenDialogsTyped ==
  \A id \in Tools :
    typed[id] > 0 => id \in (Questions \cup Permissions) \ deferred

\* If the result of a tool use is in the log by the time the CLI agent has
\* answered, no key is pressed for it (has_tool_result_arrived in 2.6), unless the
\* log could not be read at that moment.
NoKeysForFinishedTools == [][TypeKeys => ~ late \/ unread]_vars

\* A result written after the keystrokes were sent, however soon, and complete when
\* the verification last looked is not reported missing: pre_exec_size is captured
\* before execute_applescript runs, which returns later than it types.  (One written
\* during the sleep before the time is up is reported missing.)
AnswersAreNotMissed ==
  [][VerifyTimeout =>
       \A k \in (typed_at + 1)..seen : log[watched][k] # Result(pending)]_vars

\* The pilot does not stay on one tool use for ever.
NeverStuck == \A id \in Tools : (pending = id) ~> (pending # id)

=============================================================================
