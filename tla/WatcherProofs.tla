---------------------------- MODULE WatcherProofs ----------------------------
(***************************************************************************)
(* Proofs about Watcher, for any number of sessions and tool uses.         *)
(*                                                                         *)
(* The key fact is where a tool use that has been handled lies: in the log *)
(* of its own session and, if that is the watched one, before the offset.  *)
(* Records are never written twice, so no tail reads it as new again.      *)
(***************************************************************************)
EXTENDS Watcher, TLAPS

\* In process_one_event: there is a pending tool use.
Handling == pc \in {"cli", "guard", "size", "type", "typed", "verify", "wait"}

TypeInv == TypeOK /\ (Handling => pending # NoTool)

\* Each record is written once, to the log of its tool use's session.
LogsInv ==
  /\ \A s \in Sessions : \A k \in 1..Len(log[s]) : SessionOf[log[s][k].id] = s
  /\ \A s \in Sessions : \A j, k \in 1..Len(log[s]) : log[s][j] = log[s][k] => j = k
  /\ \A s \in Sessions : writing[s] # <<>> =>
       /\ Len(writing[s]) = 1
       /\ SessionOf[writing[s][1].id] = s
       /\ \A k \in 1..Len(log[s]) : log[s][k] # writing[s][1]

\* A tool use that has been handled lies where it is not read again.
Behind(id) ==
  \E k \in 1..Len(log[SessionOf[id]]) :
    /\ log[SessionOf[id]][k] = Use(id)
    /\ SessionOf[id] = watched => k <= offset

PendingInv ==
  pending # NoTool =>
    /\ SessionOf[pending] = watched
    /\ Behind(pending)
    /\ pending \in Questions \cup Permissions
    /\ pending \notin deferred
    /\ pc \notin {"typed", "verify", "wait"} => typed[pending] = 0

HandledInv == \A id \in Tools : (typed[id] > 0 \/ id \in deferred) => Behind(id)

AnswerInv == TypedAtMostOnce /\ OnlyOpenDialogsTyped /\ PendingInv /\ HandledInv

\* What the local variables of process_one_event mean.
LocalsInv ==
  /\ pc = "guard" /\ late => Logged(Result(pending))
  /\ pc \in {"size", "type"} => ~ late \/ unread
  /\ pc = "type" => pre_exec_size <= Size(watched)
  /\ pc \in {"typed", "verify", "wait"} => pre_exec_size <= typed_at

\* The verification has looked at the log up to seen, and has not found the result.
SeenInv ==
  /\ pc \notin {"verify", "wait"} => seen = 0
  /\ seen <= Len(log[watched])
  /\ \A k \in (pre_exec_size + 1)..seen : log[watched][k] # Result(pending)

-----------------------------------------------------------------------------
(***************************************************************************)
(* Types.                                                                  *)
(***************************************************************************)

\* The types hold before the first step.
LEMMA TypeInvInit == Init => TypeInv
<1> SUFFICES ASSUME Init PROVE TypeInv
    OBVIOUS
<1>1. attempt \in 0..(MaxRetries - 1)
     BY RetriesAssumption DEF Init
<1>2. log \in [Sessions -> Seq(Records)] /\ writing \in [Sessions -> Seq(Records)]
     BY DEF Init
<1>3. \A s \in Sessions : Len(writing[s]) <= 1
     BY DEF Init
<1>4. TypeOK
     BY <1>1, <1>2, <1>3, ToolsAssumption DEF Init, TypeOK, WatcherStates, Locations
<1>5. QED
     BY <1>4 DEF Init, TypeInv, Handling

LocalsOK ==
  /\ attempt \in 0..(MaxRetries - 1)
  /\ pre_exec_size \in Nat /\ cut \in BOOLEAN
  /\ typed_at \in Nat /\ late \in BOOLEAN /\ unread \in BOOLEAN /\ seen \in Nat

\* When process_one_event returns, its variables are gone.
LEMMA ReturnType == Return => LocalsOK' /\ pc' = "loop"
<1> SUFFICES ASSUME Return PROVE LocalsOK' /\ pc' = "loop"
    OBVIOUS
<1>1. 0 \in 0..(MaxRetries - 1)
     BY RetriesAssumption
<1>2. QED
     BY <1>1 DEF Return, Forget, LocalsOK

\* The same when the process dies.
LEMMA DieType == Die => LocalsOK' /\ pc' = "dead"
<1> SUFFICES ASSUME Die PROVE LocalsOK' /\ pc' = "dead"
    OBVIOUS
<1>1. 0 \in 0..(MaxRetries - 1)
     BY RetriesAssumption
<1>2. QED
     BY <1>1 DEF Die, Forget, LocalsOK

\* Every step keeps the types.
LEMMA TypeInvStep == TypeInv /\ [Next]_vars => TypeInv'
<1> SUFFICES ASSUME TypeInv, [Next]_vars PROVE TypeInv'
    OBVIOUS
<1> USE ToolsAssumption, RetriesAssumption
<1> USE DEF TypeInv, TypeOK, Handling, WatcherStates, Locations, cowork, machine, locals,
            history, Elsewhere, OfPilot, LocalsOK
<1>1. \A s \in Sessions : Size(s) \in Nat
     BY DEF Size
<1>2. ASSUME Return \/ Die PROVE LocalsOK' /\ pc' \in {"loop", "dead"}
     BY <1>2, ReturnType, DieType
<1>3. CASE Attach \/ SwitchSession \/ SameSession
     BY <1>1, <1>3 DEF Attach, SwitchSession, SameSession, NewMachine
<1>4. CASE NewUseRead
  <2>1. PICK k \in DialogUses :
               LET id == log[watched][k].id
               IN  IF ResultRead(id) THEN Tick("RESPONDED", NoTool)
                                     ELSE Tick("TOOL_USE_DETECTED", id)
       BY <1>4 DEF NewUseRead
  <2>2. log[watched][k].id \in Tools
       BY DEF DialogUses
  <2>3. \E id \in Tools \cup {NoTool} : Tick("RESPONDED", id) \/ Tick("TOOL_USE_DETECTED", id)
       BY <2>1, <2>2
  <2>4. pending' \in Tools \cup {NoTool} /\ state' \in WatcherStates /\ pc' \in {"cli", "loop"}
        /\ (pc' = "cli" => pending' # NoTool)
       BY <2>3 DEF Tick, Ticked
  <2>5. Len(log[watched]) \in Nat
       OBVIOUS
  <2>6. /\ offset' \in Nat /\ elapsed' \in BOOLEAN
        /\ UNCHANGED <<log, writing, newest, watched, locals, typed, deferred>>
       BY <1>4, <2>5 DEF NewUseRead
  <2>7. QED
       BY <2>4, <2>6
<1>5. CASE NoUseRead
     BY <1>5 DEF NoUseRead, Tick, Ticked
<1>6. CASE CliFails
  <2>1. CASE attempt + 1 = MaxRetries
       BY <1>2, <1>6, <2>1 DEF CliFails, Fail
  <2>2. CASE attempt + 1 # MaxRetries
    <3>1. attempt' \in 0..(MaxRetries - 1)
         BY <1>6, <2>2 DEF CliFails
    <3>2. QED
         BY <1>6, <2>2, <3>1 DEF CliFails, Goto
  <2>3. QED
       BY <2>1, <2>2
<1>7. CASE CliEscalates \/ CliAnswers
  <2>1. pending \in Tools
       BY <1>7 DEF CliEscalates, CliAnswers
  <2>2. CASE CliEscalates
    <3>1. deferred' \subseteq Tools
         BY <2>1, <2>2 DEF CliEscalates
    <3>2. QED
         BY <1>2, <2>2, <3>1 DEF CliEscalates, Fail
  <2>3. CASE CliAnswers
    <3>1. CASE Fail
         BY <1>2, <2>3, <3>1 DEF CliAnswers, Fail
    <3>2. CASE ~ Fail
      <4>1. late' \in BOOLEAN
           BY <2>3, <3>2 DEF CliAnswers, Logged
      <4>2. QED
           BY <2>1, <2>3, <3>2, <4>1 DEF CliAnswers, Goto
    <3>3. QED
         BY <3>1, <3>2
  <2>4. QED
       BY <1>7, <2>2, <2>3
<1>8. CASE JustInTimeGuard
     BY <1>2, <1>8 DEF JustInTimeGuard, Succeed, Goto
<1>9. CASE CaptureSize
     BY <1>1, <1>9 DEF CaptureSize, Goto
<1>10. CASE TypeKeys
     BY <1>1, <1>10 DEF TypeKeys, Goto
<1>11. CASE ScriptReturns \/ ScriptFails
     BY <1>2, <1>11 DEF ScriptReturns, ScriptFails, Succeed, Fail, Goto
<1>12. CASE VerifyFinds \/ VerifySleeps \/ VerifyLooksAgain \/ VerifyTimeout
  <2>1. Len(log[watched]) \in Nat
       OBVIOUS
  <2>2. CASE VerifySleeps \/ VerifyLooksAgain
       BY <2>1, <2>2 DEF VerifySleeps, VerifyLooksAgain, Goto
  <2>3. CASE VerifyFinds \/ VerifyTimeout
       BY <1>2, <2>3 DEF VerifyFinds, VerifyTimeout, Succeed, Fail
  <2>4. QED
       BY <1>12, <2>2, <2>3
<1>13. CASE DebounceElapses
     BY <1>13 DEF DebounceElapses
<1>14. CASE HalfRecordRead \/ Stop
     BY <1>2, <1>14 DEF HalfRecordRead, Stop, Die, NewMachine
<1>15. CASE Restart
     BY <1>15 DEF Restart
<1>16. ASSUME NEW s \in Sessions, NEW r \in Records, BeginRecord(s, r)
       PROVE  TypeInv'
     BY <1>16 DEF BeginRecord
<1>17. ASSUME NEW s \in Sessions, EndRecord(s)
       PROVE  TypeInv'
  <2>1. writing[s][1] \in Records
       BY <1>17 DEF EndRecord
  <2>2. QED
       BY <1>17, <2>1 DEF EndRecord
<1>18. CASE UNCHANGED vars
     BY <1>18 DEF vars
<1>19. \A id \in Tools : Use(id) \in Records /\ Result(id) \in Records
     BY DEF Use, Result, Records
<1>20. QED
     BY <1>3, <1>4, <1>5, <1>6, <1>7, <1>8, <1>9, <1>10, <1>11, <1>12, <1>13, <1>14, <1>15,
        <1>16, <1>17, <1>18, <1>19 DEF Next, PilotStep, Cowork

-----------------------------------------------------------------------------
(***************************************************************************)
(* The logs.                                                               *)
(***************************************************************************)

\* Empty logs repeat nothing.
LEMMA LogsInvInit == Init => LogsInv
  BY DEF Init, LogsInv

\* A session only begins a record that is in no log, so none is repeated.
LEMMA LogsInvStep == TypeInv /\ LogsInv /\ [Next]_vars => LogsInv'
<1> SUFFICES ASSUME TypeInv, LogsInv, [Next]_vars PROVE LogsInv'
    OBVIOUS
<1> USE DEF LogsInv
<1>1. log \in [Sessions -> Seq(Records)] /\ writing \in [Sessions -> Seq(Records)]
     BY DEF TypeInv, TypeOK
<1>2. ASSUME NEW s \in Sessions, NEW r \in Records, BeginRecord(s, r)
      PROVE  LogsInv'
  <2>1. UNCHANGED log /\ writing' = [writing EXCEPT ![s] = <<r>>]
       BY <1>2 DEF BeginRecord
  <2>2. \A k \in 1..Len(log[s]) : log[s][k] # r
       BY <1>2 DEF BeginRecord, Logged
  <2>3. writing'[s] = <<r>> /\ \A t \in Sessions \ {s} : writing'[t] = writing[t]
       BY <1>1, <2>1
  <2>4. SessionOf[r.id] = s
       BY <1>2 DEF BeginRecord
  <2>5. Len(<<r>>) = 1 /\ <<r>>[1] = r
       OBVIOUS
  <2>6. \A t \in Sessions : writing'[t] # <<>> =>
          /\ Len(writing'[t]) = 1
          /\ SessionOf[writing'[t][1].id] = t
          /\ \A k \in 1..Len(log[t]) : log[t][k] # writing'[t][1]
    <3> TAKE t \in Sessions
    <3>1. CASE t = s
      <4>1. writing'[t] = <<r>> /\ writing'[t][1] = r /\ Len(writing'[t]) = 1
           BY <2>3, <2>5, <3>1
      <4>2. QED
           BY <2>2, <2>4, <3>1, <4>1
    <3>2. CASE t # s
         BY <2>3, <3>2
    <3>3. QED
         BY <3>1, <3>2
  <2>7. QED
       BY <2>1, <2>6
<1>3. ASSUME NEW s \in Sessions, EndRecord(s)
      PROVE  LogsInv'
  <2> DEFINE r == writing[s][1]
  <2>1. writing[s] # <<>> /\ Len(writing[s]) = 1 /\ SessionOf[r.id] = s
        /\ \A k \in 1..Len(log[s]) : log[s][k] # r
       BY <1>3 DEF EndRecord
  <2>2. r \in Records
       BY <1>1, <2>1
  <2>3. log'[s] = Append(log[s], r) /\ writing'[s] = <<>>
        /\ \A t \in Sessions \ {s} : log'[t] = log[t] /\ writing'[t] = writing[t]
       BY <1>1, <1>3 DEF EndRecord
  <2>4. log[s] \in Seq(Records)
       BY <1>1
  <2>5. Len(log'[s]) = Len(log[s]) + 1 /\ log'[s][Len(log[s]) + 1] = r
        /\ \A k \in 1..Len(log[s]) : log'[s][k] = log[s][k]
       BY <2>2, <2>3, <2>4
  <2>6. \A k \in 1..Len(log'[s]) : SessionOf[log'[s][k].id] = s
       BY <2>1, <2>4, <2>5
  <2>7. \A j, k \in 1..Len(log'[s]) : log'[s][j] = log'[s][k] => j = k
       BY <2>1, <2>4, <2>5
  <2>8. \A t \in Sessions \ {s} :
          /\ \A k \in 1..Len(log'[t]) : SessionOf[log'[t][k].id] = t
          /\ \A j, k \in 1..Len(log'[t]) : log'[t][j] = log'[t][k] => j = k
       BY <2>3
  <2>9. \A t \in Sessions : writing'[t] # <<>> =>
          /\ Len(writing'[t]) = 1
          /\ SessionOf[writing'[t][1].id] = t
          /\ \A k \in 1..Len(log'[t]) : log'[t][k] # writing'[t][1]
    <3> TAKE t \in Sessions
    <3>1. CASE t = s
         BY <2>3, <3>1
    <3>2. CASE t # s
         BY <2>3, <3>2
    <3>3. QED
         BY <3>1, <3>2
  <2>10. QED
       BY <2>6, <2>7, <2>8, <2>9
<1>4. CASE UNCHANGED cowork
     BY <1>4 DEF cowork
<1>5. \A id \in Tools : Use(id) \in Records /\ Result(id) \in Records
     BY DEF Use, Result, Records
<1>6. CASE Cowork
     BY <1>2, <1>3, <1>5, <1>6 DEF Cowork
<1>7. ASSUME ~ Cowork PROVE UNCHANGED cowork
     BY <1>7 DEF Next, PilotStep, Attach, SwitchSession, SameSession, NewUseRead, NoUseRead,
          CliFails, CliEscalates, CliAnswers, JustInTimeGuard, CaptureSize, TypeKeys,
          ScriptReturns, ScriptFails, VerifyFinds, VerifySleeps, VerifyLooksAgain, VerifyTimeout,
          DebounceElapses,
          HalfRecordRead, Stop, Die, Restart, Elsewhere, vars
<1>8. QED
     BY <1>4, <1>6, <1>7

-----------------------------------------------------------------------------
(***************************************************************************)
(* Who is answered.                                                        *)
(***************************************************************************)

\* The log of a tool use's session grows and keeps its beginning.
Grows == \A s \in Sessions :
  Len(log[s]) <= Len(log'[s]) /\ \A k \in 1..Len(log[s]) : log'[s][k] = log[s][k]

\* Sessions only append.
LEMMA LogsGrow == TypeInv /\ [Next]_vars => Grows
<1> SUFFICES ASSUME TypeInv, [Next]_vars PROVE Grows
    OBVIOUS
<1>1. log \in [Sessions -> Seq(Records)] /\ writing \in [Sessions -> Seq(Records)]
     BY DEF TypeInv, TypeOK
<1>2. ASSUME NEW s \in Sessions, EndRecord(s)
      PROVE  Grows
  <2> DEFINE r == writing[s][1]
  <2>1. r \in Records /\ log[s] \in Seq(Records)
       BY <1>1, <1>2 DEF EndRecord
  <2>2. log'[s] = Append(log[s], r) /\ \A t \in Sessions \ {s} : log'[t] = log[t]
       BY <1>1, <1>2 DEF EndRecord
  <2> HIDE DEF r
  <2>3. Len(log'[s]) = Len(log[s]) + 1 /\ \A k \in 1..Len(log[s]) : log'[s][k] = log[s][k]
       BY <2>1, <2>2
  <2>4. \A t \in Sessions : Len(log[t]) \in Nat
       BY <1>1
  <2>5. QED
       BY <2>2, <2>3, <2>4 DEF Grows
<1>3. CASE UNCHANGED log
  <2>1. \A t \in Sessions : Len(log[t]) \in Nat
       BY <1>1
  <2>2. QED
       BY <1>3, <2>1 DEF Grows
<1>4. ASSUME \A s \in Sessions : ~ EndRecord(s)
      PROVE  UNCHANGED log
     BY <1>4 DEF Next, Cowork, BeginRecord, PilotStep, Attach, SwitchSession, SameSession,
          NewUseRead, NoUseRead,
          CliFails, CliEscalates, CliAnswers, JustInTimeGuard, CaptureSize, TypeKeys,
          ScriptReturns, ScriptFails, VerifyFinds, VerifySleeps, VerifyLooksAgain, VerifyTimeout,
          DebounceElapses,
          HalfRecordRead, Stop, Die, Restart, Elsewhere, vars, cowork
<1>5. QED
     BY <1>2, <1>3, <1>4

\* What is behind stays behind while the offset does not go back.
LEMMA BehindKept ==
  ASSUME TypeInv, Grows, watched' = watched, offset <= offset', offset' \in Nat,
         NEW id \in Tools, Behind(id)
  PROVE  Behind(id)'
<1> DEFINE s == SessionOf[id]
<1>1. PICK k \in 1..Len(log[s]) : log[s][k] = Use(id) /\ (s = watched => k <= offset)
     BY DEF Behind
<1>2. s \in Sessions
     BY ToolsAssumption
<1>3. Len(log[s]) \in Nat /\ offset \in Nat
     BY <1>2 DEF TypeInv, TypeOK
<1>4. Len(log[s]) <= Len(log'[s]) /\ log'[s][k] = log[s][k]
     BY <1>2 DEF Grows
<1>5. Len(log'[s]) \in Nat \/ Len(log'[s]) \notin Nat
     OBVIOUS
<1>6. k \in 1..Len(log'[s])
     BY <1>3, <1>4
<1>7. s = watched' => k <= offset'
     BY <1>1, <1>3
<1> HIDE DEF s
<1>8. log'[s][k] = Use(id)'
     BY <1>1, <1>4 DEF Use
<1>9. QED
     BY <1>6, <1>7, <1>8 DEF Behind, s

\* A pilot that turns to the end of a file has everything behind it.
LEMMA BehindAtEnd ==
  ASSUME TypeInv, UNCHANGED log, watched' = newest, offset' = Size(newest),
         NEW id \in Tools, Behind(id)
  PROVE  Behind(id)'
<1> DEFINE s == SessionOf[id]
<1>1. PICK k \in 1..Len(log[s]) : log[s][k] = Use(id)
     BY DEF Behind
<1>2. Len(log[newest]) \in Nat /\ Len(writing[newest]) \in Nat
     BY DEF TypeInv, TypeOK
<1>3. ASSUME s = newest PROVE k <= offset'
  <2>1. k \in 1..Len(log[newest])
       BY <1>1, <1>3
  <2>2. offset' = Len(log[newest]) + Len(writing[newest])
       BY DEF Size
  <2>3. \A m, n \in Nat : \A j \in 1..m : j <= m + n
       OBVIOUS
  <2>4. QED
       BY <1>2, <2>1, <2>2, <2>3
<1>4. QED
     BY <1>1, <1>3 DEF Behind, Use

\* Nothing handled yet.
LEMMA AnswerInvInit == Init => AnswerInv
  BY ToolsAssumption
  DEF Init, AnswerInv, TypedAtMostOnce, OnlyOpenDialogsTyped, PendingInv, HandledInv

\* A step that handles nothing and gives no new tool use to the machine.
LEMMA QuietAnswers ==
  ASSUME TypeInv, AnswerInv, UNCHANGED history,
         \A id \in Tools : Behind(id) => Behind(id)',
         \/ pending' = NoTool
         \/ /\ UNCHANGED <<pending, watched>>
            /\ pc \in {"typed", "verify", "wait"} => pc' \in {"typed", "verify", "wait"}
  PROVE  AnswerInv'
<1> USE DEF AnswerInv, history
<1>1. TypedAtMostOnce' /\ OnlyOpenDialogsTyped'
     BY DEF TypedAtMostOnce, OnlyOpenDialogsTyped
<1>2. HandledInv'
     BY DEF HandledInv
<1>3. PendingInv'
  <2>1. CASE pending' = NoTool
       BY <2>1 DEF PendingInv
  <2>2. CASE pending' # NoTool
    <3>1. pending \in Tools /\ pending' = pending /\ watched' = watched
         BY <2>2 DEF TypeInv, TypeOK
    <3>2. Behind(pending)'
         BY <2>2, <3>1 DEF PendingInv
    <3>3. QED
         BY <2>2, <3>1, <3>2 DEF PendingInv
  <2>3. QED
       BY <2>1, <2>2
<1>4. QED
     BY <1>1, <1>2, <1>3

\* A tool use read as new has not been handled: a handled one is behind, and the
\* log has no second copy of it.
LEMMA NewUseIsNew ==
  ASSUME TypeInv, LogsInv, HandledInv, NEW k \in DialogUses
  PROVE  LET id == log[watched][k].id
         IN  /\ id \in Questions \cup Permissions
             /\ log[watched][k] = Use(id) /\ SessionOf[id] = watched
             /\ typed[id] = 0 /\ id \notin deferred
<1> DEFINE id == log[watched][k].id
<1>1. watched \in Sessions /\ log[watched] \in Seq(Records) /\ Len(log[watched]) \in Nat
      /\ offset \in Nat
     BY DEF TypeInv, TypeOK
<1>2. k \in 1..Len(log[watched]) /\ k > offset /\ k \in Nat
     BY <1>1 DEF DialogUses, NewLines
<1>3. log[watched][k] \in Records /\ log[watched][k].kind = "use"
      /\ id \in Questions \cup Permissions
     BY <1>1, <1>2 DEF DialogUses
<1>4. log[watched][k] = Use(id)
     BY <1>3 DEF Records, Use
<1>5. SessionOf[id] = watched
     BY <1>1, <1>2 DEF LogsInv
<1>6. id \in Tools
     BY <1>3, ToolsAssumption
<1>7. ASSUME Behind(id) PROVE FALSE
  <2>1. PICK j \in 1..Len(log[watched]) : log[watched][j] = Use(id) /\ j <= offset
       BY <1>5, <1>7 DEF Behind
  <2>2. j = k
       BY <1>1, <1>2, <1>4, <2>1 DEF LogsInv
  <2>3. QED
       BY <1>1, <1>2, <2>1, <2>2
<1>8. typed[id] \in Nat
     BY <1>6 DEF TypeInv, TypeOK
<1>9. typed[id] = 0 /\ id \notin deferred
     BY <1>6, <1>7, <1>8 DEF HandledInv
<1>10. QED
     BY <1>3, <1>4, <1>5, <1>9

\* Every step keeps the invariant.
LEMMA AnswerInvStep == TypeInv /\ LogsInv /\ AnswerInv /\ [Next]_vars => AnswerInv'
<1> SUFFICES ASSUME TypeInv, LogsInv, AnswerInv, [Next]_vars PROVE AnswerInv'
    OBVIOUS
<1> USE ToolsAssumption
<1>1. Grows
     BY LogsGrow
<1>2. offset \in Nat /\ offset <= offset /\ Len(log[watched]) \in Nat
     BY DEF TypeInv, TypeOK
<1>3. ASSUME UNCHANGED <<watched, offset>>, NEW id \in Tools, Behind(id)
      PROVE  Behind(id)'
     BY <1>1, <1>2, <1>3, BehindKept
<1>4. CASE Attach \/ SwitchSession
  <2>1. UNCHANGED log /\ watched' = newest /\ offset' = Size(newest) /\ pending' = NoTool
        /\ UNCHANGED history
       BY <1>4 DEF Attach, SwitchSession, NewMachine, cowork
  <2>2. \A id \in Tools : Behind(id) => Behind(id)'
       BY <2>1, BehindAtEnd
  <2>3. QED
       BY <2>1, <2>2, QuietAnswers
<1>5. ASSUME UNCHANGED <<watched, offset, history>>,
             \/ pending' = NoTool
             \/ /\ UNCHANGED pending
                /\ pc \in {"typed", "verify", "wait"} => pc' \in {"typed", "verify", "wait"}
      PROVE  AnswerInv'
     BY <1>3, <1>5, QuietAnswers
<1>6. CASE SameSession
     BY <1>5, <1>6 DEF SameSession, machine
<1>7. offset <= IF NewLines = {} THEN offset ELSE Len(log[watched])
     BY <1>2 DEF NewLines
<1>8. CASE NoUseRead
  <2>1. UNCHANGED <<watched, history>> /\ offset' \in Nat /\ offset <= offset'
       BY <1>2, <1>7, <1>8 DEF NoUseRead
  <2>2. pc = "read" /\ (pending' = NoTool \/ pending' = pending)
       BY <1>8 DEF NoUseRead, Tick
  <2>3. \A id \in Tools : Behind(id) => Behind(id)'
       BY <1>1, <2>1, BehindKept
  <2>4. QED
       BY <2>1, <2>2, <2>3, QuietAnswers
<1>9. CASE NewUseRead
  <2>1. PICK k \in DialogUses :
          LET id == log[watched][k].id
          IN  IF ResultRead(id) THEN Tick("RESPONDED", NoTool)
                                ELSE Tick("TOOL_USE_DETECTED", id)
       BY <1>9 DEF NewUseRead
  <2> DEFINE id == log[watched][k].id
  <2>2. UNCHANGED <<log, watched, typed, deferred>> /\ offset' = Len(log[watched]) /\ pc = "read"
       BY <1>9 DEF NewUseRead, cowork, history
  <2>3. k \in 1..Len(log[watched]) /\ offset < k /\ offset <= offset'
       BY <1>2, <2>2 DEF DialogUses, NewLines
  <2>4. \A other \in Tools : Behind(other) => Behind(other)'
       BY <1>1, <1>2, <2>2, <2>3, BehindKept
  <2>5. CASE pending' = NoTool
       BY <2>2, <2>4, <2>5, QuietAnswers DEF history
  <2>6. CASE pending' # NoTool
    <3>1. PICK q \in Questions \cup Permissions :
             /\ q = id /\ log[watched][k] = Use(q)
             /\ SessionOf[q] = watched /\ typed[q] = 0 /\ q \notin deferred
         BY NewUseIsNew DEF AnswerInv
    <3>2. pending' = q /\ pc' \in {"cli", "loop"}
         BY <2>1, <2>6, <3>1 DEF Tick
    <3>3. /\ log'[SessionOf[q]][k] = Use(q)
          /\ k \in 1..Len(log'[SessionOf[q]])
          /\ k <= offset'
      <4>1. log' = log /\ SessionOf[q] = watched /\ log[watched][k] = Use(q)
           BY <2>2, <3>1
      <4>2. \A n \in Nat : \A j \in 1..n : j <= n
           OBVIOUS
      <4>3. k <= Len(log[watched])
           BY <1>2, <2>3, <4>2
      <4>4. QED
           BY <2>2, <2>3, <4>1, <4>3
    <3>4. Behind(q)'
         BY <3>3 DEF Behind, Use
    <3>5. PendingInv'
         BY <2>2, <3>1, <3>2, <3>4 DEF PendingInv, Behind
    <3>6. TypedAtMostOnce' /\ OnlyOpenDialogsTyped'
         BY <2>2 DEF AnswerInv, TypedAtMostOnce, OnlyOpenDialogsTyped
    <3>7. HandledInv'
         BY <2>2, <2>4 DEF AnswerInv, HandledInv
    <3>8. QED
         BY <3>5, <3>6, <3>7 DEF AnswerInv
  <2>7. QED
       BY <2>5, <2>6
<1>10. CASE CliFails \/ CliAnswers \/ JustInTimeGuard
     BY <1>5, <1>10 DEF CliFails, CliAnswers, JustInTimeGuard, Fail, Succeed, Goto, Elsewhere, machine
<1>11. CASE CliEscalates
  <2>1. pc = "cli" /\ deferred' = deferred \cup {pending} /\ pending' = NoTool
        /\ UNCHANGED <<watched, offset, typed>>
       BY <1>11 DEF CliEscalates, Fail, Elsewhere
  <2>2. pending # NoTool
       BY <2>1 DEF TypeInv, Handling
  <2>3. pending \in Tools /\ Behind(pending) /\ typed[pending] = 0
       BY <2>1, <2>2 DEF AnswerInv, PendingInv
  <2>4. \A id \in Tools : Behind(id) => Behind(id)'
       BY <1>3, <2>1
  <2>5. HandledInv'
       BY <2>1, <2>3, <2>4 DEF AnswerInv, HandledInv
  <2>6. TypedAtMostOnce'
       BY <2>1 DEF AnswerInv, TypedAtMostOnce
  <2>7. OnlyOpenDialogsTyped'
       BY <2>1, <2>3 DEF AnswerInv, OnlyOpenDialogsTyped
  <2>8. QED
       BY <2>1, <2>5, <2>6, <2>7 DEF AnswerInv, PendingInv
<1>12. CASE CaptureSize
     BY <1>5, <1>12 DEF CaptureSize, Goto, Elsewhere, machine, history
<1>13. CASE TypeKeys
  <2>1. pc = "type" /\ pc' = "typed" /\ typed' = [typed EXCEPT ![pending] = @ + 1]
        /\ UNCHANGED <<watched, offset, pending, deferred>>
       BY <1>13 DEF TypeKeys, Goto, Elsewhere, machine
  <2>2. pending # NoTool
       BY <2>1 DEF TypeInv, Handling
  <2>3. /\ pending \in Questions \cup Permissions /\ pending \in Tools
        /\ Behind(pending) /\ typed[pending] = 0 /\ pending \notin deferred
        /\ SessionOf[pending] = watched
       BY <2>1, <2>2 DEF AnswerInv, PendingInv
  <2>4. typed'[pending] = 1 /\ \A id \in Tools \ {pending} : typed'[id] = typed[id]
       BY <2>1, <2>3 DEF TypeInv, TypeOK
  <2>5. \A id \in Tools : Behind(id) => Behind(id)'
       BY <1>3, <2>1
  <2>6. TypedAtMostOnce'
       BY <2>4 DEF AnswerInv, TypedAtMostOnce
  <2>7. OnlyOpenDialogsTyped'
       BY <2>1, <2>3, <2>4 DEF AnswerInv, OnlyOpenDialogsTyped
  <2>8. HandledInv'
       BY <2>1, <2>3, <2>4, <2>5 DEF AnswerInv, HandledInv
  <2>9. Behind(pending)'
       BY <2>1, <2>3, <2>5
  <2>10. PendingInv'
       BY <2>1, <2>3, <2>9 DEF PendingInv
  <2>11. QED
       BY <2>6, <2>7, <2>8, <2>10 DEF AnswerInv
<1>14. CASE ScriptReturns \/ ScriptFails
     BY <1>5, <1>14 DEF ScriptReturns, ScriptFails, Succeed, Fail, Goto, Elsewhere, machine, locals
<1>15. CASE VerifyFinds \/ VerifySleeps \/ VerifyLooksAgain \/ VerifyTimeout
     BY <1>5, <1>15 DEF VerifyFinds, VerifySleeps, VerifyLooksAgain, VerifyTimeout,
                        Succeed, Fail, Goto, Elsewhere, machine, locals
<1>16. CASE DebounceElapses
     BY <1>5, <1>16 DEF DebounceElapses, machine
<1>17. CASE HalfRecordRead \/ Stop
     BY <1>5, <1>17 DEF HalfRecordRead, Stop, Die, NewMachine
<1>18. CASE Restart
     BY <1>5, <1>18 DEF Restart, machine
<1>19. CASE Cowork
  <2>1. UNCHANGED OfPilot
       BY <1>19 DEF Cowork, EndRecord, BeginRecord
  <2>2. QED
       BY <1>5, <2>1 DEF OfPilot, machine
<1>20. CASE UNCHANGED vars
     BY <1>5, <1>20 DEF vars, machine
<1>21. QED
     BY <1>4, <1>6, <1>8, <1>9, <1>10, <1>11, <1>12, <1>13, <1>14, <1>15, <1>16, <1>17, <1>18,
        <1>19, <1>20 DEF Next, PilotStep

-----------------------------------------------------------------------------
(***************************************************************************)
(* What process_one_event remembers.                                       *)
(***************************************************************************)

\* The sizes of the files only grow.
LEMMA SizesGrow ==
  TypeInv /\ LogsInv /\ [Next]_vars => \A s \in Sessions : Size(s) <= Size(s)'
<1> SUFFICES ASSUME TypeInv, LogsInv, [Next]_vars, NEW s \in Sessions
             PROVE  Size(s) <= Size(s)'
    OBVIOUS
<1> USE DEF Size
<1>1. log \in [Sessions -> Seq(Records)] /\ writing \in [Sessions -> Seq(Records)]
     BY DEF TypeInv, TypeOK
<1>2. Len(log[s]) \in Nat /\ Len(writing[s]) \in Nat
     BY <1>1
<1>3. ASSUME NEW t \in Sessions, NEW r \in Records, BeginRecord(t, r)
      PROVE  Size(s) <= Size(s)'
  <2>1. log' = log /\ writing' = [writing EXCEPT ![t] = <<r>>] /\ writing[t] = <<>>
       BY <1>3 DEF BeginRecord
  <2>2. Len(<<r>>) = 1 /\ Len(<<>>) = 0
       OBVIOUS
  <2>3. Len(writing[s]) <= Len(writing'[s]) /\ Len(writing'[s]) \in Nat
       BY <1>1, <1>2, <2>1, <2>2
  <2>4. QED
       BY <1>2, <2>1, <2>3
<1>4. ASSUME NEW t \in Sessions, EndRecord(t)
      PROVE  Size(s) <= Size(s)'
  <2>1. CASE s # t
       BY <1>1, <1>2, <1>4, <2>1 DEF EndRecord
  <2>2. CASE s = t
    <3>1. Len(writing[s]) = 1 /\ log' = [log EXCEPT ![s] = Append(@, writing[s][1])]
          /\ writing' = [writing EXCEPT ![s] = <<>>]
         BY <1>4, <2>2 DEF EndRecord, LogsInv
    <3>2. writing[s] \in Seq(Records) /\ log[s] \in Seq(Records)
         BY <1>1
    <3>3. writing[s][1] \in Records
         BY <3>1, <3>2
    <3>4. log'[s] = Append(log[s], writing[s][1]) /\ writing'[s] = <<>>
         BY <1>1, <3>1
    <3>5. Len(log'[s]) = Len(log[s]) + 1 /\ Len(writing'[s]) = 0
         BY <3>2, <3>3, <3>4
    <3>6. Len(log[s]) + 1 <= Len(log'[s]) + Len(writing'[s])
         BY <1>2, <3>5
    <3>7. QED
         BY <1>2, <3>1, <3>6
  <2>3. QED
       BY <2>1, <2>2
<1>5. ASSUME UNCHANGED <<log, writing>>
      PROVE  Size(s) <= Size(s)'
     BY <1>2, <1>5
<1>6. \A id \in Tools : Use(id) \in Records /\ Result(id) \in Records
     BY DEF Use, Result, Records
<1>7. CASE Cowork
     BY <1>3, <1>4, <1>6, <1>7 DEF Cowork
<1>8. ASSUME ~ Cowork PROVE UNCHANGED <<log, writing>>
     BY <1>8 DEF Next, PilotStep, Attach, SwitchSession, SameSession, NewUseRead, NoUseRead,
          CliFails, CliEscalates, CliAnswers, JustInTimeGuard, CaptureSize, TypeKeys,
          ScriptReturns, ScriptFails, VerifyFinds, VerifySleeps, VerifyLooksAgain, VerifyTimeout,
          DebounceElapses,
          HalfRecordRead, Stop, Die, Restart, Elsewhere, vars, cowork
<1>9. QED
     BY <1>5, <1>7, <1>8

\* What is in a log stays there.
LEMMA LoggedKept ==
  ASSUME TypeInv, Grows, NEW r, Logged(r)
  PROVE  Logged(r)'
<1>1. PICK s \in Sessions : \E k \in 1..Len(log[s]) : log[s][k] = r
     BY DEF Logged
<1>2. PICK k \in 1..Len(log[s]) : log[s][k] = r
     BY <1>1
<1>3. Len(log[s]) \in Nat
     BY DEF TypeInv, TypeOK
<1>4. Len(log[s]) <= Len(log'[s]) /\ log'[s][k] = r
     BY <1>2 DEF Grows
<1>5. k \in 1..Len(log'[s])
     BY <1>3, <1>4
<1>6. QED
     BY <1>4, <1>5 DEF Logged

\* At first there is no event.
LEMMA LocalsInvInit == Init => LocalsInv
  BY DEF Init, LocalsInv

\* Only process_one_event brings the pilot to its steps, one after the other.
LEMMA LocalsInvStep ==
  TypeInv /\ LogsInv /\ AnswerInv /\ LocalsInv /\ [Next]_vars => LocalsInv'
<1> SUFFICES ASSUME TypeInv, LogsInv, AnswerInv, LocalsInv, [Next]_vars PROVE LocalsInv'
    OBVIOUS
<1> USE DEF LocalsInv
<1>1. Grows /\ \A s \in Sessions : Size(s) <= Size(s)'
     BY LogsGrow, SizesGrow
<1>2. \A s \in Sessions : Size(s) \in Nat
     BY DEF TypeInv, TypeOK, Size
<1>3. ASSUME pc' \notin {"guard", "size", "type", "typed", "verify", "wait"}
      PROVE  LocalsInv'
     BY <1>3
<1>4. CASE CliAnswers
  <2>1. CASE Fail
       BY <1>3, <2>1 DEF Fail, Return
  <2>2. CASE ~ Fail
    <3>1. pc' = "guard" /\ late' = Logged(Result(pending)) /\ pending' = pending
          /\ log' = log
         BY <1>4, <2>2 DEF CliAnswers, Goto, machine, Elsewhere, cowork
    <3>2. late' => Logged(Result(pending))'
         BY <3>1 DEF Logged, Result
    <3>3. QED
         BY <3>1, <3>2
  <2>3. QED
       BY <2>1, <2>2
<1>5. CASE JustInTimeGuard
  <2>1. CASE Succeed
       BY <1>3, <2>1 DEF Succeed, Return
  <2>2. CASE unread' /\ pc' = "size"
       BY <2>2
  <2>3. CASE ~ Succeed /\ ~ (unread' /\ pc' = "size")
    <3>1. pc = "guard" /\ ~ ResultArrived /\ pc' = "size" /\ late' = late
         BY <1>5, <2>3 DEF JustInTimeGuard, Goto, locals
    <3>2. pending # NoTool
         BY <3>1 DEF TypeInv, Handling
    <3>3. SessionOf[pending] = watched
         BY <3>2 DEF AnswerInv, PendingInv
    <3>4. ASSUME Logged(Result(pending)) PROVE FALSE
      <4>1. PICK s \in Sessions : \E k \in 1..Len(log[s]) : log[s][k] = Result(pending)
           BY <3>4 DEF Logged
      <4>2. PICK k \in 1..Len(log[s]) : log[s][k] = Result(pending)
           BY <4>1
      <4>3. log[s][k].id = pending
           BY <4>2 DEF Result
      <4>4. s = watched
           BY <3>3, <4>3 DEF LogsInv
      <4>5. QED
           BY <3>1, <4>2, <4>4 DEF ResultArrived
    <3>5. QED
         BY <3>1, <3>4
  <2>4. QED
       BY <2>1, <2>2, <2>3
<1>6. CASE CaptureSize
  <2>1. pc = "size" /\ pc' = "type" /\ pre_exec_size' = Size(watched) /\ late' = late
        /\ unread' = unread /\ UNCHANGED <<log, writing, watched>>
       BY <1>6 DEF CaptureSize, Goto, Elsewhere, cowork
  <2>2. pre_exec_size' <= Size(watched)'
       BY <1>2, <2>1 DEF Size, TypeInv, TypeOK
  <2>3. QED
       BY <2>1, <2>2
<1>7. CASE TypeKeys
     BY <1>2, <1>7 DEF TypeKeys, Goto, Elsewhere
<1>8. CASE ScriptReturns
     BY <1>3, <1>8 DEF ScriptReturns, Succeed, Return, Goto, locals
<1>9. CASE ScriptFails \/ VerifyFinds \/ VerifyTimeout \/ CliEscalates
     BY <1>3, <1>9 DEF ScriptFails, VerifyFinds, VerifyTimeout, CliEscalates, Succeed, Fail, Return
<1>10. CASE CliFails
     BY <1>3, <1>10 DEF CliFails, Fail, Return, Goto
<1>11. CASE Attach \/ SwitchSession \/ SameSession \/ NewUseRead \/ NoUseRead
     BY <1>3, <1>11 DEF Attach, SwitchSession, SameSession, NewUseRead, NoUseRead, Tick
<1>12. CASE HalfRecordRead \/ Stop \/ Restart
     BY <1>3, <1>12 DEF HalfRecordRead, Stop, Die, Restart
<1>13. ASSUME UNCHANGED <<pc, watched, pending, locals>>
       PROVE  LocalsInv'
  <2>1. Logged(Result(pending)) => Logged(Result(pending))'
       BY <1>1, <1>13, LoggedKept DEF Result
  <2>2. watched \in Sessions /\ pre_exec_size \in Nat
       BY DEF TypeInv, TypeOK
  <2>3. Size(watched) <= Size(watched)'
       BY <1>1, <1>13, <2>2 DEF Size
  <2>4. Size(watched) \in Nat /\ Size(watched)' \in Nat
    <3>1. TypeInv'
         BY TypeInvStep
    <3>2. log' \in [Sessions -> Seq(Records)] /\ writing' \in [Sessions -> Seq(Records)]
         BY <3>1 DEF TypeInv, TypeOK, Records
    <3>3. log'[watched] \in Seq(Records) /\ writing'[watched] \in Seq(Records)
         BY <2>2, <3>2
    <3>4. Len(log'[watched]) \in Nat /\ Len(writing'[watched]) \in Nat
         BY <3>3
    <3>5. Size(watched)' = Len(log'[watched]) + Len(writing'[watched])
         BY <1>13 DEF Size
    <3>6. \A m, n \in Nat : m + n \in Nat
         OBVIOUS
    <3>7. Size(watched) \in Nat
         BY <1>2, <2>2
    <3>8. QED
         BY <3>4, <3>5, <3>6, <3>7
  <2>5. pre_exec_size <= Size(watched) => pre_exec_size <= Size(watched)'
       BY <2>2, <2>3, <2>4
  <2>6. QED
       BY <1>13, <2>1, <2>5 DEF locals
<1>14. CASE DebounceElapses \/ UNCHANGED vars
     BY <1>13, <1>14 DEF DebounceElapses, machine, vars
<1>15. CASE Cowork
     BY <1>13, <1>15 DEF Cowork, BeginRecord, EndRecord, OfPilot, machine
<1>16. CASE VerifySleeps \/ VerifyLooksAgain
     BY <1>16 DEF VerifySleeps, VerifyLooksAgain, Goto, locals
<1>17. QED
     BY <1>4, <1>5, <1>6, <1>7, <1>8, <1>9, <1>10, <1>11, <1>12, <1>14, <1>15, <1>16
        DEF Next, PilotStep

\* At first nothing has been looked at.
LEMMA SeenInvInit == Init => SeenInv
  BY DEF Init, SeenInv

\* Only a look that finds nothing moves seen, to the end of the log it has read.
LEMMA SeenInvStep == TypeInv /\ SeenInv /\ [Next]_vars => SeenInv'
<1> SUFFICES ASSUME TypeInv, SeenInv, [Next]_vars PROVE SeenInv'
    OBVIOUS
<1>1. Grows /\ TypeInv'
     BY LogsGrow, TypeInvStep
<1>2. /\ watched \in Sessions /\ Len(log[watched]) \in Nat /\ seen \in Nat
      /\ pre_exec_size \in Nat
     BY DEF TypeInv, TypeOK
<1>3. ASSUME seen' = 0 PROVE SeenInv'
  <2>1. pre_exec_size' \in Nat /\ Len(log'[watched']) \in Nat
       BY <1>1 DEF TypeInv, TypeOK, Records
  <2>2. \A n \in Nat : 0 <= n /\ \A k \in (n + 1)..0 : FALSE
       OBVIOUS
  <2>3. QED
       BY <1>3, <2>1, <2>2 DEF SeenInv
<1>4. ASSUME UNCHANGED <<seen, pre_exec_size, pending, watched>>,
             pc' \notin {"verify", "wait"} => seen = 0
      PROVE  SeenInv'
  <2>1. \A k \in 1..Len(log[watched]) : log'[watched][k] = log[watched][k]
       BY <1>1, <1>2 DEF Grows
  <2>2. Len(log[watched]) <= Len(log'[watched])
       BY <1>1, <1>2 DEF Grows
  <2>3. Len(log'[watched]) \in Nat
    <3>1. Len(log'[watched']) \in Nat
         BY <1>1 DEF TypeInv, TypeOK, Records
    <3>2. QED
         BY <1>4, <3>1
  <2>4. seen <= Len(log[watched])
       BY DEF SeenInv
  <2>5. seen' <= Len(log'[watched'])
       BY <1>2, <1>4, <2>2, <2>3, <2>4
  <2>6. \A k \in (pre_exec_size + 1)..seen : log'[watched][k] # Result(pending)
       BY <1>2, <2>1, <2>4 DEF SeenInv
  <2>7. QED
       BY <1>4, <2>5, <2>6 DEF SeenInv, Result
<1>5. CASE VerifySleeps
  <2>1. /\ UNCHANGED <<log, watched, pending, pre_exec_size>>
        /\ pc = "verify" /\ pc' = "wait"
       BY <1>5 DEF VerifySleeps, Elsewhere, cowork, Goto, machine
  <2>2. CASE UNCHANGED seen
       BY <1>4, <2>1, <2>2
  <2>3. CASE ~ ResultFound /\ seen' = Len(log[watched])
       BY <1>2, <2>1, <2>3 DEF SeenInv, ResultFound, Result
  <2>4. QED
       BY <1>5, <2>2, <2>3 DEF VerifySleeps
<1>6. CASE VerifyLooksAgain
     BY <1>4, <1>6 DEF VerifyLooksAgain, Elsewhere, Goto, machine, locals
<1>7. CASE Cowork \/ DebounceElapses \/ UNCHANGED vars
     BY <1>4, <1>7 DEF Cowork, BeginRecord, EndRecord, OfPilot, DebounceElapses, vars, machine,
                       locals, SeenInv
<1>8. CASE VerifyFinds \/ VerifyTimeout \/ HalfRecordRead \/ Stop
     BY <1>3, <1>8 DEF VerifyFinds, VerifyTimeout, Succeed, Fail, Return, HalfRecordRead, Stop,
                       Die, Forget
<1>9. CASE \/ Attach \/ SwitchSession \/ SameSession \/ NewUseRead \/ NoUseRead \/ Restart
           \/ CaptureSize \/ TypeKeys
     BY <1>3, <1>9 DEF Attach, SwitchSession, SameSession, NewUseRead, NoUseRead, Restart,
                       CaptureSize, TypeKeys, locals, SeenInv
<1>10. CASE CliFails \/ CliEscalates \/ CliAnswers \/ JustInTimeGuard
     BY <1>3, <1>10 DEF CliFails, CliEscalates, CliAnswers, JustInTimeGuard, Succeed, Fail,
                        Return, Forget, locals, SeenInv
<1>11. CASE ScriptReturns \/ ScriptFails
     BY <1>3, <1>11 DEF ScriptReturns, ScriptFails, Succeed, Fail, Return, Forget, locals, SeenInv
<1>12. QED
     BY <1>5, <1>6, <1>7, <1>8, <1>9, <1>10, <1>11 DEF Next, PilotStep

-----------------------------------------------------------------------------
(***************************************************************************)
(* The theorems.                                                           *)
(***************************************************************************)
Inv == TypeInv /\ LogsInv /\ AnswerInv /\ LocalsInv /\ SeenInv

\* The inductive invariant holds in every reachable state.
THEOREM Invariance == Spec => []Inv
<1>1. Init => Inv
     BY TypeInvInit, LogsInvInit, AnswerInvInit, LocalsInvInit, SeenInvInit DEF Inv
<1>2. Inv /\ [Next]_vars => Inv'
     BY TypeInvStep, LogsInvStep, AnswerInvStep, LocalsInvStep, SeenInvStep DEF Inv
<1>3. QED
     BY <1>1, <1>2, PTL DEF Spec

\* Every variable keeps its type.
THEOREM TypeCorrect == Spec => []TypeOK
<1>1. Inv => TypeOK
     BY DEF Inv, TypeInv
<1>2. QED
     BY <1>1, Invariance, PTL

\* No tool use is ever answered twice, whatever fails, stops or is interleaved.
THEOREM AnsweredOnce == Spec => []TypedAtMostOnce
<1>1. Inv => TypedAtMostOnce
     BY DEF Inv, AnswerInv
<1>2. QED
     BY <1>1, Invariance, PTL

\* Keys are only pressed for dialogs that were not left to a person.
THEOREM OpenDialogs == Spec => []OnlyOpenDialogsTyped
<1>1. Inv => OnlyOpenDialogsTyped
     BY DEF Inv, AnswerInv
<1>2. QED
     BY <1>1, Invariance, PTL

\* A tool use whose result was there when the CLI agent answered gets no keys, as long
\* as the log can be read.
THEOREM FinishedTools == Spec => NoKeysForFinishedTools
<1>1. Inv => (TypeKeys => ~ late \/ unread)
     BY DEF Inv, LocalsInv, TypeKeys
<1>2. Inv /\ [Next]_vars => [TypeKeys => ~ late \/ unread]_vars
     BY <1>1
<1>3. QED
     BY <1>2, Invariance, PTL DEF Spec, NoKeysForFinishedTools

\* Verification does not miss a result that was written after the keys were sent and
\* was there when it last looked.
THEOREM NothingMissed == Spec => AnswersAreNotMissed
<1>1. ASSUME Inv, VerifyTimeout
      PROVE  \A k \in (typed_at + 1)..seen : log[watched][k] # Result(pending)
  <2>1. pre_exec_size <= typed_at
       BY <1>1 DEF Inv, LocalsInv, VerifyTimeout
  <2>2. pre_exec_size \in Nat /\ typed_at \in Nat /\ seen \in Nat
       BY <1>1 DEF Inv, TypeInv, TypeOK
  <2>3. \A k \in (typed_at + 1)..seen : k \in (pre_exec_size + 1)..seen
       BY <2>1, <2>2
  <2>4. QED
       BY <1>1, <2>3 DEF Inv, SeenInv
<1>2. Inv /\ [Next]_vars =>
        [VerifyTimeout =>
           \A k \in (typed_at + 1)..seen : log[watched][k] # Result(pending)]_vars
     BY <1>1
<1>3. QED
     BY <1>2, Invariance, PTL DEF Spec, AnswersAreNotMissed

=============================================================================
