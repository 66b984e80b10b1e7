------------------------------ MODULE AutoAnswer ------------------------------
(***************************************************************************)
(* The auto-answer of the docs orchestrator's Phase 2: a waiting session's *)
(* question is put to an upper agent, then to a decision resolver, then to *)
(* a person (auto_answer_resolver.try_auto_answer inside the loop          *)
(* docs_orchestrator._resolve_waiting_runtime_with_auto_answer).           *)
(*                                                                         *)
(* All it knows is in the sidecar orchestrator-runtime.json: the question, *)
(* the fingerprint its writer noted, and auto_answer_state, the memory of  *)
(* the last question handled, which is to keep a session that asks the     *)
(* same thing again from being answered for ever.                          *)
(*                                                                         *)
(* A text is a question and what a handoff has made of it.  The event id   *)
(* is part of the question, as it is part of the fingerprint.              *)
(***************************************************************************)
EXTENDS Naturals

CONSTANTS
  Questions,    \* what a session may ask
  Open,         \* those without two options and a recommendation
  Padded,       \* those with white space around them
  Answers,      \* the options
  Notes,        \* what a handoff says: a rationale, or a contradiction's question
  Conflicts,    \* the latter, which may come without a recommendation
  Escalate,     \* escalate_mode: "auto", "human" or "never_human"
  Resolver,     \* conflict_resolver_enabled
  Engine,       \* of the upper agent: "codex" or "claude"
  MaxAttempts,  \* max_attempts_per_event
  MaxRounds,    \* max_rounds_per_run
  MaxCrashes    \* bound: crashes

ASSUME AutoAnswerAssumption ==
  /\ Open \subseteq Questions /\ Padded \subseteq Questions
  /\ Conflicts \subseteq Notes /\ {"asked", "padded"} \cap Notes = {} /\ "nothing" \notin Questions /\ "none" \notin Answers
  /\ Resolver \in BOOLEAN
  /\ MaxAttempts \in Nat /\ MaxRounds \in Nat \ {0} /\ MaxCrashes \in Nat

VARIABLES
  state,      \* runtime_state, "none" without a sidecar
  handle,     \* resume_handle is there
  text,       \* pending_question, with its event id
  choices,    \* it has two options and a recommendation
  original,   \* pending_question.escalation.original_question
  seed,       \* question_context_seed.question_fingerprint
  memory,     \* auto_answer_state
  pc, rounds, \* where the process is, and the round of its loop
  packet,     \* the fingerprint of the question being handled
  answer,     \* what will be, or was, answered
  given,      \* history: the automatic answers to the text that is pending
  crashes

question == <<state, handle, text, choices, original, seed>>
local == <<packet, answer>>
vars == <<question, memory, pc, rounds, local, given, crashes>>

Texts == Questions \X (Notes \cup {"asked"})

Nothing == <<"nothing", "asked">>   \* the empty fingerprint
NoAnswer == "none"                  \* the empty response hash
Fresh == [fp |-> Nothing, count |-> 0, answer |-> NoAnswer, status |-> "new"]

Locations == {"off", "try", "upper", "resolver", "apply", "record", "handed", "stdin"}

TypeOK ==
  /\ state \in {"none", "input", "approval", "failed"} /\ handle \in BOOLEAN
  /\ text \in Texts \cup {Nothing} /\ choices \in BOOLEAN
  /\ original \in Texts \cup {Nothing}
  /\ seed \in Texts \cup (Padded \X {"padded"}) \cup {Nothing}
  /\ memory \in [fp : Texts \cup {Nothing}, count : Nat, answer : Answers \cup {NoAnswer},
                 status : {"new", "applied", "failed", "escalated", "needs_input"}]
  /\ pc \in Locations /\ rounds \in 0..MaxRounds
  /\ packet \in Texts \cup {Nothing} /\ answer \in Answers \cup {NoAnswer}
  /\ pc \in {"upper", "resolver", "apply"} => state = "input" /\ packet = text
  /\ pc = "apply" => answer # NoAnswer
  /\ given \in Nat /\ crashes \in 0..MaxCrashes

Init ==
  /\ state = "none" /\ handle = FALSE
  /\ text = Nothing /\ choices = FALSE /\ original = Nothing /\ seed = Nothing
  /\ memory = Fresh
  /\ pc = "off" /\ rounds = 0 /\ packet = Nothing /\ answer = NoAnswer
  /\ given = 0 /\ crashes = 0

IsWaiting == state \in {"input", "approval"}

-----------------------------------------------------------------------------
(***************************************************************************)
(* The writers of the sidecar.                                             *)
(***************************************************************************)

\* The fingerprint of a session's question, as its writers compute it: of the text
\* itself, while _build_packet_from_runtime strips it first.
Noted(q) == <<q, IF q \in Padded THEN "padded" ELSE "asked">>

\* The session ends with a question, or asks for an approval.
AsksAgain(q) ==
  /\ state' = "input" /\ text' = <<q, "asked">> /\ choices' = (q \notin Open)
  /\ handle' \in BOOLEAN
  /\ original' = Nothing

AsksApproval ==
  /\ state' = "approval" /\ text' = Nothing /\ choices' = FALSE
  /\ handle' \in BOOLEAN
  /\ original' = Nothing

NoSidecar ==
  /\ state' = "none" /\ handle' = FALSE /\ text' = Nothing /\ choices' = FALSE
  /\ original' = Nothing /\ seed' = Nothing

\* Mutant: the sidecar is written anew.
MutantCarriedOver == Fresh

\* What resume_waiting_docs_step takes into the new sidecar.
CarriedOver == memory

\* resume_waiting_docs_step: the session goes on with an answer and ends.
Resumed ==
  \/ NoSidecar /\ memory' = Fresh
  \/ state' = "failed" /\ UNCHANGED <<handle, text, choices, original, seed, memory>>
  \/ \E q \in Questions :
       AsksAgain(q) /\ seed' = (IF q \in Open THEN seed ELSE Noted(q))
                    /\ memory' = CarriedOver
  \/ AsksApproval /\ UNCHANGED seed /\ memory' = CarriedOver

\* The next round of the loop, if the session waits again.
GoRound ==
  IF state' \in {"input", "approval"} /\ rounds + 1 < MaxRounds
    THEN pc' = "try" /\ rounds' = rounds + 1
    ELSE pc' = "off" /\ UNCHANGED rounds

\* The history: the answers count for the text, and end with it.
Given(n) == given' = IF text' = text THEN given + n ELSE 0

Leave == pc' = "off" /\ UNCHANGED rounds

-----------------------------------------------------------------------------
(***************************************************************************)
(* The loop, and the ways into it.                                         *)
(***************************************************************************)

\* A Phase 2 session ends waiting (_save_codex_waiting_runtime).
SessionWaits ==
  /\ pc = "off" /\ ~ IsWaiting
  /\ \/ \E q \in Questions :
          AsksAgain(q) /\ seed' = (IF q \in Open THEN Nothing ELSE Noted(q))
     \/ AsksApproval /\ seed' = Nothing
  /\ memory' = Fresh
  /\ pc' = "try" /\ rounds' = 0 /\ given' = 0
  /\ UNCHANGED <<local, crashes>>

\* A run finds the session waiting.
Restart ==
  /\ pc = "off" /\ IsWaiting
  /\ pc' = "try" /\ rounds' = 0
  /\ UNCHANGED <<question, memory, local, given, crashes>>

\* docs resume, between two runs.
ResumeByHand ==
  /\ pc = "off" /\ IsWaiting /\ handle
  /\ Resumed
  /\ Given(0)
  /\ UNCHANGED <<pc, rounds, local, crashes>>

\* _build_packet_from_runtime: there is something to handle.
HasPacket == state = "input" /\ choices /\ seed \in {Nothing, text}

Unsupported ==
  /\ pc = "try"
  /\ ~ HasPacket \/ Engine = "claude"
  /\ Leave
  /\ UNCHANGED <<question, memory, local, given, crashes>>

Attempts(fp) == IF memory.fp = fp THEN memory.count ELSE 0

TooManyAttempts ==
  /\ pc = "try" /\ HasPacket
  /\ Attempts(text) >= MaxAttempts
  /\ Leave
  /\ UNCHANGED <<question, memory, local, given, crashes>>

\* Mutant: the fingerprint of an earlier question is kept.
MutantAskUpperAgent ==
  /\ pc = "try" /\ HasPacket
  /\ Attempts(text) < MaxAttempts
  /\ packet' = (IF packet = Nothing THEN text ELSE packet) /\ answer' = NoAnswer
  /\ pc' = "upper"
  /\ UNCHANGED <<question, memory, rounds, given, crashes>>

AskUpperAgent ==
  /\ pc = "try" /\ HasPacket
  /\ Attempts(text) < MaxAttempts
  /\ packet' = text /\ answer' = NoAnswer
  /\ pc' = "upper"
  /\ UNCHANGED <<question, memory, rounds, given, crashes>>

-----------------------------------------------------------------------------
(***************************************************************************)
(* What the upper agent, and the resolver, make of it.                     *)
(***************************************************************************)

\* _update_auto_answer_state.
Remember(how, what) ==
  memory' = [fp |-> packet, count |-> Attempts(packet) + 1,
             answer |-> what, status |-> how]

\* It times out, exits with an error or cannot be started: nothing is counted.
UpperAgentFails ==
  /\ pc = "upper"
  /\ Leave
  /\ UNCHANGED <<question, memory, local, given, crashes>>

\* validate_upper_answer refuses what it says.
InvalidAnswer ==
  /\ pc = "upper"
  /\ Remember("failed", NoAnswer)
  /\ Leave
  /\ UNCHANGED <<question, local, given, crashes>>

ChoosesOption ==
  /\ pc \in {"upper", "resolver"}
  /\ answer' \in Answers
  /\ pc' = "apply"
  /\ UNCHANGED <<question, memory, rounds, packet, given, crashes>>

AskResolver ==
  /\ pc = "upper"
  /\ Escalate = "auto" /\ Resolver
  /\ pc' = "resolver"
  /\ UNCHANGED <<question, memory, rounds, local, given, crashes>>

\* Mutant: the fingerprint is left as it was.
MutantHandedSeed == seed

HandedSeed == text'

\* _rewrite_runtime_for_handoff, after the upper agent or the resolver has escalated (the
\* resolver also by failing).
HandOver ==
  /\ \/ pc = "upper" /\ ~ (Escalate = "auto" /\ Resolver)
     \/ pc = "resolver"
  /\ \E note \in Notes :
       /\ text' = <<text[1], note>>
       /\ choices' \in IF note \in Conflicts THEN BOOLEAN ELSE {TRUE}
  /\ original' = (IF original = Nothing THEN text ELSE original)
  /\ seed' = HandedSeed
  /\ Given(0)
  /\ pc' = "handed"
  /\ UNCHANGED <<state, handle, memory, rounds, local, crashes>>

\* The handoff is remembered under the old fingerprint.
HandedOver ==
  /\ pc = "handed"
  /\ IF Escalate = "never_human"
       THEN Remember("escalated", NoAnswer) /\ pc' = "off"
       ELSE Remember("needs_input", NoAnswer) /\ pc' = "stdin"
  /\ UNCHANGED <<question, rounds, local, given, crashes>>

-----------------------------------------------------------------------------
(***************************************************************************)
(* Answering.                                                              *)
(***************************************************************************)

\* _check_loop_guard; its two attempts are not max_attempts_per_event.
IsLoop ==
  /\ memory.fp = packet
  /\ \/ memory.answer = answer /\ memory.status = "applied"
     \/ memory.count >= 2

LoopDetected ==
  /\ pc = "apply"
  /\ IsLoop
  /\ Leave
  /\ UNCHANGED <<question, memory, local, given, crashes>>

\* resume_waiting_docs_step raises RuntimeError.
CannotResume ==
  /\ pc \in {"apply", "stdin"}
  /\ ~ handle
  /\ pc = "apply" => ~ IsLoop
  /\ Leave
  /\ UNCHANGED <<question, memory, local, given, crashes>>

Apply ==
  /\ pc = "apply"
  /\ ~ IsLoop /\ handle
  /\ Resumed
  /\ Given(1)
  /\ pc' = "record"
  /\ UNCHANGED <<rounds, local, crashes>>

\* Into the sidecar as it is now, if there still is one.
RecordAnswer ==
  /\ pc = "record"
  /\ IF state = "none" THEN UNCHANGED memory ELSE Remember("applied", answer)
  /\ IF IsWaiting /\ rounds + 1 < MaxRounds
       THEN pc' = "try" /\ rounds' = rounds + 1
       ELSE Leave
  /\ UNCHANGED <<question, local, given, crashes>>

\* The person answers what is pending, or cancels.
PersonAnswers ==
  /\ pc = "stdin" /\ handle
  /\ Resumed
  /\ Given(0)
  /\ GoRound
  /\ UNCHANGED <<local, crashes>>

PersonCancels ==
  /\ pc = "stdin"
  /\ Leave
  /\ UNCHANGED <<question, memory, local, given, crashes>>

\* Also the exceptions nobody catches.  At "record" an answer is not remembered.
Crash ==
  /\ pc # "off"
  /\ crashes < MaxCrashes
  /\ crashes' = crashes + 1
  /\ Leave
  /\ UNCHANGED <<question, memory, local, given>>

\* Between the session's end and write_runtime: it was answered, and still waits.
CrashInResume ==
  /\ pc = "apply" /\ ~ IsLoop /\ handle
  /\ crashes < MaxCrashes
  /\ crashes' = crashes + 1
  /\ given' = given + 1
  /\ Leave
  /\ UNCHANGED <<question, memory, local>>

Next ==
  \/ SessionWaits \/ Restart \/ ResumeByHand
  \/ Unsupported \/ TooManyAttempts \/ AskUpperAgent
  \/ UpperAgentFails \/ InvalidAnswer \/ ChoosesOption \/ AskResolver
  \/ HandOver \/ HandedOver
  \/ LoopDetected \/ CannotResume \/ Apply \/ RecordAnswer
  \/ PersonAnswers \/ PersonCancels
  \/ Crash \/ CrashInResume

Spec == Init /\ [][Next]_vars

-----------------------------------------------------------------------------
(***************************************************************************)
(* Properties.                                                             *)
(***************************************************************************)

\* However often the session asks the same thing, over rounds, restarts and answers by
\* hand, the machine answers one pending text at most twice; a crash between the answer
\* and its record costs one more each.  (It is the text that is pending: a session that
\* alternates two questions finds the one slot of memory overwritten each time, and is
\* stopped by MaxRounds only.)
AnswersBounded == given <= 2 + crashes

\* The question that is pending and the rest of the sidecar agree: its fingerprint is the
\* one noted with it, or it could never be handled again, and after any number of
\* handoffs what the person is shown as the original question is the session's own.
SidecarAgrees ==
  /\ state = "input" /\ choices /\ text[1] \notin Padded => seed = text
  /\ original # Nothing => original = <<text[1], "asked">>
  /\ text # Nothing /\ text[2] # "asked" => original # Nothing

=============================================================================
