--------------------------- MODULE AutoAnswerProofs ---------------------------
(***************************************************************************)
(* Proofs about AutoAnswer, for all sets of questions and notes and all    *)
(* limits.                                                                 *)
(*                                                                         *)
(* That the automatic answers to a text are bounded rests on the memory:   *)
(* each of them is counted there, is about to be, or was lost in a crash   *)
(* (Counted), and the loop guard looks at the count.                       *)
(***************************************************************************)
EXTENDS AutoAnswer, TLAPS

Counted ==
  /\ given <= Attempts(text) + crashes + (IF pc = "record" THEN 1 ELSE 0)
  /\ pc \in {"record", "handed"} /\ text # packet => given = 0
  /\ text = Nothing => given = 0
  /\ state = "none" => text = Nothing
  /\ state = "input" => text \in Texts

AnswerInv == TypeOK /\ SidecarAgrees /\ Counted /\ AnswersBounded

\* An asked text is never the empty fingerprint.
LEMMA TextsAreSomething ==
  /\ Nothing \notin Texts
  /\ \A q \in Questions, n \in Notes \cup {"asked"} :
       <<q, n>> \in Texts /\ <<q, n>>[1] = q /\ <<q, n>>[2] = n
  /\ \A t \in Texts :
       /\ t[1] \in Questions /\ t[2] \in Notes \cup {"asked"}
       /\ t = <<t[1], t[2]>>
BY AutoAnswerAssumption DEF Texts, Nothing

\* What a session that is resumed leaves in the sidecar.
LEMMA ResumedSidecar ==
  ASSUME TypeOK, SidecarAgrees, Resumed
  PROVE  /\ state' \in {"none", "input", "approval", "failed"} /\ handle' \in BOOLEAN
         /\ text' \in Texts \cup {Nothing} /\ choices' \in BOOLEAN
         /\ original' \in Texts \cup {Nothing}
         /\ seed' \in Texts \cup (Padded \X {"padded"}) \cup {Nothing}
         /\ SidecarAgrees'
         /\ memory' = memory \/ (memory' = Fresh /\ text' = Nothing)
         /\ state' = "none" => text' = Nothing
         /\ state' = "input" => text' \in Texts
<1>1. CASE NoSidecar /\ memory' = Fresh
  BY <1>1 DEF NoSidecar, SidecarAgrees, Nothing
<1>2. CASE state' = "failed" /\ UNCHANGED <<handle, text, choices, original, seed, memory>>
  BY <1>2 DEF TypeOK, SidecarAgrees
<1>3. CASE \E q \in Questions :
             AsksAgain(q) /\ seed' = (IF q \in Open THEN seed ELSE Noted(q))
                          /\ memory' = CarriedOver
  <2>1. PICK q \in Questions :
          AsksAgain(q) /\ seed' = (IF q \in Open THEN seed ELSE Noted(q))
                       /\ memory' = CarriedOver
    BY <1>3
  <2>2. text' = <<q, "asked">> /\ text' \in Texts /\ text'[1] = q /\ text'[2] = "asked"
    BY <2>1, TextsAreSomething DEF AsksAgain
  <2>3. Noted(q) \in Texts \cup (Padded \X {"padded"})
    BY TextsAreSomething DEF Noted, Texts
  <2>4. choices' => q \notin Open
    BY <2>1 DEF AsksAgain
  <2>5. SidecarAgrees'
    BY <2>1, <2>2, <2>4 DEF SidecarAgrees, AsksAgain, Noted
  <2> QED
    BY <2>1, <2>2, <2>3, <2>5 DEF AsksAgain, CarriedOver, TypeOK
<1>4. CASE AsksApproval /\ UNCHANGED seed /\ memory' = CarriedOver
  BY <1>4 DEF AsksApproval, CarriedOver, TypeOK, SidecarAgrees
<1> QED
  BY <1>1, <1>2, <1>3, <1>4 DEF Resumed

\* The count of the memory after an entry about the packet.
LEMMA Remembering ==
  ASSUME TypeOK,
         NEW how \in {"applied", "failed", "escalated", "needs_input"},
         NEW what \in Answers \cup {NoAnswer},
         Remember(how, what)
  PROVE  /\ memory' \in [fp : Texts \cup {Nothing}, count : Nat,
                         answer : Answers \cup {NoAnswer},
                         status : {"new", "applied", "failed", "escalated", "needs_input"}]
         /\ memory'.fp = packet
         /\ memory'.count = Attempts(packet) + 1
         /\ Attempts(packet) \in Nat
<1>1. Attempts(packet) \in Nat
  BY DEF TypeOK, Attempts
<1> QED
  BY <1>1 DEF Remember, TypeOK

\* An answer the history counts, or one it does not, to the text before.
LEMMA CountingAnswers ==
  ASSUME TypeOK, Counted, Resumed, NEW n \in {0, 1}, Given(n),
         SidecarAgrees,
         n = 1 => text \in Texts
  PROVE  /\ given' \in Nat /\ given' <= given + n
         /\ given' <= (IF memory'.fp = text' THEN memory'.count ELSE 0) + crashes
                         + n + (IF pc = "record" THEN 1 ELSE 0)
         /\ text' # text => given' = 0
         /\ text' = Nothing => given' = 0
<1>1. Attempts(text) \in Nat /\ given \in Nat /\ crashes \in Nat
  BY AutoAnswerAssumption DEF TypeOK, Attempts
<1>2. memory' = memory \/ (memory' = Fresh /\ text' = Nothing)
  BY ResumedSidecar
<1>3. text' = Nothing => given' = 0
  BY TextsAreSomething DEF Given, Counted
<1>4. memory'.fp = text' => memory'.count \in Nat
  BY <1>2 DEF TypeOK, Fresh
<1>5. CASE given' = 0
  BY <1>1, <1>3, <1>4, <1>5 DEF Given
<1>6. CASE given' # 0
  <2>1. text' = text /\ given' = given + n /\ text' # Nothing
    BY <1>3, <1>6 DEF Given
  <2>2. memory' = memory
    BY <1>2, <2>1
  <2> QED
    BY <1>1, <2>1, <2>2 DEF Counted, Attempts
<1> QED
  BY <1>5, <1>6

-----------------------------------------------------------------------------
(***************************************************************************)
(* The invariant.                                                          *)
(***************************************************************************)

\* AnswerInv holds at first.
LEMMA AnswerInit == Init => AnswerInv
<1> SUFFICES ASSUME Init PROVE AnswerInv
  OBVIOUS
<1>1. TypeOK
  <2>1. rounds \in 0..MaxRounds /\ crashes \in 0..MaxCrashes /\ given \in Nat
    BY AutoAnswerAssumption DEF Init
  <2>2. memory \in [fp : Texts \cup {Nothing}, count : Nat, answer : Answers \cup {NoAnswer},
                   status : {"new", "applied", "failed", "escalated", "needs_input"}]
    BY DEF Init, Fresh
  <2> QED
    BY <2>1, <2>2 DEF Init, TypeOK, Locations
<1>2. SidecarAgrees
  BY DEF Init, SidecarAgrees
<1>3. Counted /\ AnswersBounded
  BY DEF Init, Counted, AnswersBounded, Attempts, Fresh
<1> QED
  BY <1>1, <1>2, <1>3 DEF AnswerInv

\* The steps that leave the sidecar alone, and what it remembers.
LEMMA QuietSteps ==
  ASSUME AnswerInv, UNCHANGED <<question, memory, given>>,
         \/ UNCHANGED <<pc, rounds, local, crashes>>
         \/ Restart \/ Unsupported \/ TooManyAttempts \/ AskUpperAgent \/ UpperAgentFails
         \/ ChoosesOption \/ AskResolver \/ LoopDetected \/ CannotResume \/ PersonCancels
         \/ Crash
  PROVE  AnswerInv'
<1>1. SidecarAgrees'
  BY DEF AnswerInv, SidecarAgrees, question
<1>2. given \in Nat /\ crashes \in Nat /\ Attempts(text) \in Nat
  BY AutoAnswerAssumption DEF AnswerInv, TypeOK, Attempts
<1>3. UNCHANGED Attempts(text)
  BY DEF Attempts, question
<1>4. CASE Crash
  BY <1>1, <1>2, <1>3, <1>4, AutoAnswerAssumption
     DEF Crash, Leave, local, question, AnswerInv, TypeOK, Counted, AnswersBounded, Locations
<1>5. CASE \/ UNCHANGED <<pc, rounds, local, crashes>>
           \/ Restart \/ Unsupported \/ TooManyAttempts \/ AskUpperAgent
           \/ UpperAgentFails \/ ChoosesOption \/ AskResolver \/ LoopDetected
           \/ CannotResume \/ PersonCancels
  <2>1. TypeOK'
    <3> USE AutoAnswerAssumption DEF AnswerInv, TypeOK, question, local, Locations
    <3>1. CASE UNCHANGED <<pc, rounds, local, crashes>>
      BY <3>1
    <3>2. CASE Restart
      BY <3>2 DEF Restart
    <3>3. CASE Unsupported \/ TooManyAttempts \/ LoopDetected
      BY <3>3 DEF Unsupported, TooManyAttempts, LoopDetected, Leave
    <3>4. CASE UpperAgentFails \/ CannotResume \/ PersonCancels
      BY <3>4 DEF UpperAgentFails, CannotResume, PersonCancels, Leave
    <3>5. CASE AskUpperAgent
      BY <3>5 DEF AskUpperAgent, HasPacket
    <3>6. CASE ChoosesOption
      BY <3>6 DEF ChoosesOption, NoAnswer
    <3>7. CASE AskResolver
      BY <3>7 DEF AskResolver
    <3> QED
      BY <1>5, <3>1, <3>2, <3>3, <3>4, <3>5, <3>6, <3>7
  <2>2. UNCHANGED crashes /\ (UNCHANGED <<pc, packet>> \/ (pc # "record" /\ pc' \notin {"record", "handed"}))
    BY <1>5
       DEF local, Restart, Unsupported, TooManyAttempts, AskUpperAgent, UpperAgentFails,
           ChoosesOption, AskResolver, LoopDetected, CannotResume, PersonCancels, Leave
  <2> QED
    BY <1>1, <1>2, <1>3, <2>1, <2>2 DEF AnswerInv, Counted, AnswersBounded, question
<1> QED
  BY <1>4, <1>5

\* Every step keeps AnswerInv.
LEMMA AnswerStep == AnswerInv /\ [Next]_vars => AnswerInv'
<1> SUFFICES ASSUME AnswerInv, [Next]_vars PROVE AnswerInv'
  OBVIOUS
<1> USE DEF AnswerInv
<1>0. /\ given \in Nat /\ crashes \in Nat /\ Attempts(text) \in Nat
      /\ Attempts(packet) \in Nat
  BY AutoAnswerAssumption DEF TypeOK, Attempts
<1>1. CASE SessionWaits
  <2>1. \/ \E q \in Questions :
             AsksAgain(q) /\ seed' = (IF q \in Open THEN Nothing ELSE Noted(q))
        \/ AsksApproval /\ seed' = Nothing
    BY <1>1 DEF SessionWaits
  <2>2. /\ state' \in {"input", "approval"} /\ handle' \in BOOLEAN /\ choices' \in BOOLEAN
        /\ original' = Nothing
        /\ text' \in Texts \cup {Nothing} /\ (state' = "input" => text' \in Texts)
        /\ seed' \in Texts \cup (Padded \X {"padded"}) \cup {Nothing}
        /\ text' # Nothing => text'[2] = "asked"
    <3>1. CASE AsksApproval /\ seed' = Nothing
      BY <3>1 DEF AsksApproval
    <3>2. ASSUME NEW q \in Questions,
                 AsksAgain(q) /\ seed' = (IF q \in Open THEN Nothing ELSE Noted(q))
          PROVE  /\ state' \in {"input", "approval"} /\ handle' \in BOOLEAN
                 /\ choices' \in BOOLEAN /\ original' = Nothing
                 /\ text' \in Texts
                 /\ seed' \in Texts \cup (Padded \X {"padded"}) \cup {Nothing}
                 /\ text'[2] = "asked"
      <4>1. text' = <<q, "asked">> /\ text' \in Texts /\ text'[2] = "asked"
        BY <3>2, TextsAreSomething DEF AsksAgain
      <4>2. Noted(q) \in Texts \cup (Padded \X {"padded"})
        BY TextsAreSomething DEF Noted, Texts
      <4> QED
        BY <3>2, <4>1, <4>2 DEF AsksAgain
    <3> QED
      BY <2>1, <3>1, <3>2
  <2>3. SidecarAgrees'
    <3>1. CASE AsksApproval
      BY <3>1 DEF SidecarAgrees, AsksApproval, Nothing
    <3>2. ASSUME NEW q \in Questions,
                 AsksAgain(q) /\ seed' = (IF q \in Open THEN Nothing ELSE Noted(q))
          PROVE  SidecarAgrees'
      BY <3>2, <2>2 DEF SidecarAgrees, AsksAgain, Noted
    <3> QED
      BY <2>1, <3>1, <3>2
  <2>4. TypeOK'
    BY <1>1, <2>2, AutoAnswerAssumption
       DEF SessionWaits, TypeOK, Fresh, Locations, local, NoAnswer
  <2> QED
    BY <1>0, <1>1, <2>2, <2>3, <2>4, AutoAnswerAssumption
       DEF SessionWaits, Counted, AnswersBounded, Attempts, Fresh, local
<1>2. CASE ResumeByHand \/ PersonAnswers
  <2>1. Resumed /\ Given(0) /\ UNCHANGED <<local, crashes>> /\ pc \in {"off", "stdin"}
        /\ pc' \in {"off", "try"} /\ rounds' \in 0..MaxRounds
    BY <1>2, AutoAnswerAssumption DEF ResumeByHand, PersonAnswers, GoRound, TypeOK
  <2>2. SidecarAgrees'
    BY <2>1, ResumedSidecar
  <2>3. TypeOK'
    BY <2>1, ResumedSidecar, CountingAnswers DEF TypeOK, Fresh, Locations, local
  <2>4. given' <= given /\ given' \in Nat
    BY <2>1, CountingAnswers, <1>0
  <2>6. /\ given' <= Attempts(text)' + crashes
        /\ text' # text => given' = 0
        /\ text' = Nothing => given' = 0
    <3>1. given' <= (IF memory'.fp = text' THEN memory'.count ELSE 0) + crashes + 0
                       + (IF pc = "record" THEN 1 ELSE 0)
      BY <2>1, CountingAnswers
    <3>2. text' # text \/ text' = Nothing => given' = 0
      BY <2>1, CountingAnswers
    <3> QED
      BY <2>1, <2>3, <2>4, <3>1, <3>2, <1>0 DEF Attempts, TypeOK
  <2>7. /\ state' = "none" => text' = Nothing
        /\ state' = "input" => text' \in Texts
    BY <2>1, ResumedSidecar
  <2>5. Counted'
    BY <2>1, <2>3, <2>4, <2>6, <2>7, <1>0 DEF Counted, local, Attempts, TypeOK
  <2> QED
    BY <2>1, <2>2, <2>3, <2>4, <2>5, <1>0 DEF AnswersBounded, TypeOK
<1>3. CASE Apply
  <2>1. Resumed /\ Given(1) /\ text \in Texts /\ packet = text
    BY <1>3 DEF Apply, TypeOK, Counted
  <2>2. SidecarAgrees'
    BY <2>1, ResumedSidecar
  <2>3. TypeOK'
    BY <1>3, <2>1, ResumedSidecar, CountingAnswers
       DEF Apply, TypeOK, Fresh, Locations, local
  <2>9. /\ given' <= Attempts(text)' + crashes + 1
        /\ text' # text => given' = 0
        /\ text' = Nothing => given' = 0
    <3>1. given' <= (IF memory'.fp = text' THEN memory'.count ELSE 0) + crashes + 1
                       + (IF pc = "record" THEN 1 ELSE 0)
      BY <2>1, CountingAnswers
    <3>2. text' # text \/ text' = Nothing => given' = 0
      BY <2>1, CountingAnswers
    <3> QED
      BY <1>3, <2>3, <3>1, <3>2, <1>0 DEF Apply, Attempts, TypeOK
  <2>10. /\ state' = "none" => text' = Nothing
         /\ state' = "input" => text' \in Texts
    BY <2>1, ResumedSidecar
  <2>4. Counted'
    BY <1>3, <2>1, <2>3, <2>9, <2>10, <1>0 DEF Apply, Counted, local, Attempts, TypeOK
  <2>5. Attempts(text) < 2
    BY <1>3, <2>1, <1>0 DEF Apply, IsLoop, Attempts, TypeOK
  <2>6. given' <= given + 1 /\ given' \in Nat
    BY <2>1, CountingAnswers
  <2>7. given <= Attempts(text) + crashes
    BY <1>3, <1>0 DEF Apply, Counted
  <2>8. AnswersBounded'
    BY <1>0, <1>3, <2>5, <2>6, <2>7 DEF Apply, AnswersBounded
  <2> QED
    BY <2>2, <2>3, <2>4, <2>8
<1>4. CASE CrashInResume
  <2>1. text = packet /\ pc = "apply" /\ crashes' = crashes + 1 /\ given' = given + 1
        /\ pc' = "off" /\ UNCHANGED <<question, memory, local, rounds>>
    BY <1>4 DEF CrashInResume, Leave, TypeOK
  <2>2. TypeOK' /\ SidecarAgrees'
    BY <1>0, <1>4, <2>1, AutoAnswerAssumption
       DEF CrashInResume, TypeOK, SidecarAgrees, question, local, Locations
  <2>3. text \in Texts /\ text # Nothing
    BY <2>1, TextsAreSomething DEF TypeOK, Counted
  <2> QED
    BY <1>0, <2>1, <2>2, <2>3 DEF Counted, AnswersBounded, Attempts, question, local
<1>5. CASE InvalidAnswer
  <2>1. /\ pc = "upper" /\ Remember("failed", NoAnswer) /\ pc' = "off" /\ text = packet
        /\ UNCHANGED <<question, local, given, crashes, rounds>>
    BY <1>5 DEF InvalidAnswer, Leave, TypeOK
  <2>2. TypeOK' /\ SidecarAgrees'
    BY <2>1, Remembering DEF TypeOK, SidecarAgrees, question, local, Locations
  <2>3. (Attempts(text) + 1 = Attempts(text)')
    BY <2>1, Remembering DEF Attempts, question
  <2> QED
    BY <1>0, <2>1, <2>2, <2>3 DEF Counted, AnswersBounded, question, local
<1>6. CASE HandedOver
  <2>1. PICK how \in {"escalated", "needs_input"} :
          /\ pc = "handed" /\ Remember(how, NoAnswer) /\ pc' \in {"off", "stdin"}
          /\ UNCHANGED <<question, local, given, crashes, rounds>>
    BY <1>6 DEF HandedOver
  <2>2. TypeOK' /\ SidecarAgrees'
    BY <2>1, Remembering DEF TypeOK, SidecarAgrees, question, local, Locations
  <2>3. text = packet => Attempts(text)' = Attempts(text) + 1
    BY <2>1, Remembering DEF Attempts, question
  <2>4. Attempts(text)' \in Nat
    BY <2>2, AutoAnswerAssumption DEF TypeOK, Attempts
  <2> QED
    BY <1>0, <2>1, <2>2, <2>3, <2>4 DEF Counted, AnswersBounded, question, local
<1>7. CASE RecordAnswer
  <2>1. /\ pc = "record" /\ pc' \in {"off", "try"} /\ rounds' \in 0..MaxRounds
        /\ UNCHANGED <<question, local, given, crashes>>
        /\ IF state = "none" THEN UNCHANGED memory ELSE Remember("applied", answer)
    BY <1>7, AutoAnswerAssumption DEF RecordAnswer, Leave, TypeOK
  <2>2. answer \in Answers \cup {NoAnswer}
    BY DEF TypeOK
  <2>3. TypeOK' /\ SidecarAgrees'
    BY <2>1, <2>2, Remembering DEF TypeOK, SidecarAgrees, question, local, Locations
  <2>4. Attempts(text)' \in Nat
    BY <2>3, AutoAnswerAssumption DEF TypeOK, Attempts
  <2>5. CASE given = 0
    BY <1>0, <2>1, <2>3, <2>4, <2>5 DEF Counted, AnswersBounded, question, local
  <2>6. CASE given # 0
    <3>1. state # "none" /\ text = packet
      BY <2>1, <2>6 DEF Counted
    <3>2. Attempts(text)' = Attempts(text) + 1
      BY <2>1, <2>2, <3>1, Remembering DEF Attempts, question
    <3> QED
      BY <1>0, <2>1, <2>3, <3>1, <3>2 DEF Counted, AnswersBounded, question, local
  <2> QED
    BY <2>5, <2>6
<1>8. CASE HandOver
  <2>1. /\ pc \in {"upper", "resolver"} /\ state = "input" /\ packet = text /\ text \in Texts
    BY <1>8 DEF HandOver, TypeOK, Counted
  <2>2. PICK note \in Notes : text' = <<text[1], note>> /\ choices' \in BOOLEAN
    BY <1>8 DEF HandOver
  <2>3. text' \in Texts /\ text'[1] = text[1] /\ text' # Nothing /\ text # Nothing
    BY <2>1, <2>2, TextsAreSomething
  <2>4. /\ original' = (IF original = Nothing THEN text ELSE original) /\ seed' = text'
        /\ pc' = "handed" /\ UNCHANGED <<state, handle, memory, rounds, local, crashes>>
        /\ given' = IF text' = text THEN given ELSE 0
    BY <1>8, <1>0 DEF HandOver, HandedSeed, Given
  <2>5. original' = <<text'[1], "asked">> /\ original' \in Texts
    BY <2>1, <2>3, <2>4, TextsAreSomething DEF SidecarAgrees
  <2>6. SidecarAgrees'
    BY <2>3, <2>4, <2>5, TextsAreSomething DEF SidecarAgrees
  <2>7. TypeOK'
    BY <1>0, <2>2, <2>3, <2>4, <2>5 DEF TypeOK, local, Locations
  <2>8. Attempts(text)' \in Nat
    BY <2>7 DEF TypeOK, Attempts
  <2> QED
    BY <1>0, <2>1, <2>3, <2>4, <2>6, <2>7, <2>8
       DEF Counted, AnswersBounded, Attempts, local
<1>9. CASE \/ UNCHANGED vars
           \/ Restart \/ Unsupported \/ TooManyAttempts \/ AskUpperAgent \/ UpperAgentFails
           \/ ChoosesOption \/ AskResolver \/ LoopDetected \/ CannotResume \/ PersonCancels
           \/ Crash
  <2>1. UNCHANGED <<question, memory, given>>
    BY <1>9
       DEF vars, Restart, Unsupported, TooManyAttempts, AskUpperAgent, UpperAgentFails,
           ChoosesOption, AskResolver, LoopDetected, CannotResume, PersonCancels, Crash
  <2> QED
    BY <1>9, <2>1, QuietSteps DEF vars
<1> QED
  BY <1>1, <1>2, <1>3, <1>4, <1>5, <1>6, <1>7, <1>8, <1>9 DEF Next

\* Every variable of the auto-answer keeps its type, and what is being handled is the
\* question that is pending (TypeOK).
THEOREM TypeCorrect == Spec => []TypeOK
<1>1. AnswerInv => TypeOK
  BY DEF AnswerInv
<1> QED
  BY <1>1, AnswerInit, AnswerStep, PTL DEF Spec

\* The machine answers a pending text at most twice, lost records aside, for any
\* configured number of attempts and rounds (AnswersBounded).
THEOREM BoundedAnswers == Spec => []AnswersBounded
<1>1. AnswerInv => AnswersBounded
  BY DEF AnswerInv
<1> QED
  BY <1>1, AnswerInit, AnswerStep, PTL DEF Spec

\* Fingerprint, handed-over text and original question agree (SidecarAgrees).
THEOREM AgreeingSidecar == Spec => []SidecarAgrees
<1>1. AnswerInv => SidecarAgrees
  BY DEF AnswerInv
<1> QED
  BY <1>1, AnswerInit, AnswerStep, PTL DEF Spec
=============================================================================
