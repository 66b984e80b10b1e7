---------------------------- MODULE HarnessProofs ----------------------------
(***************************************************************************)
(* Proofs about Harness, for every set of plans, chunks and criteria and   *)
(* every retry limit.                                                      *)
(*                                                                         *)
(* The inductive invariant is built in three layers.  TypeInv: types, the  *)
(* retry counters, and that the plan in hand is the only active one.       *)
(* FilesInv: what is in the plan files.  BuildsInv: which builds have run. *)
(***************************************************************************)
EXTENDS Harness, TLAPS

CountersBounded ==
  pc \in ChunkLocations \ {"open"} =>
    /\ retry_state.cli_failure_count <= CheckMaxRetries
    /\ retry_state.incomplete_feedback_count <= IncompleteRetryMax

TypeInv == TypeOK /\ CountersBounded /\ WorksOnTheActivePlan

\* A plan some session works on is the only active one, if it is active.
StartedAlone == \A t \in started : dir[t[1]] = "active" => In("active") = {t[1]}

ChunkInHand == pc \in ChunkLocations => chunk \in ChunksOf[plan]

\* What is about to be written has the boxes of the earlier chunks ticked.
TextKeepsEarlierChunks ==
  pc \in HasText \cup IsWriting =>
    /\ new_text \subseteq Boxes(plan)
    /\ \A c \in ChunksOf[plan] : c < chunk => ChunkItems(plan, c) \subseteq new_text

FilesInv ==
  /\ StartedAlone
  /\ FiledPlansAreComplete
  /\ ChunkInHand
  /\ EarlierChunksComplete
  /\ TextKeepsEarlierChunks

\* The builds that have passed are ticked, or about to be.
PassedAreTicked ==
  /\ pc = "start" => passed = {}
  /\ pc \notin {"exit"} \cup HasText \cup IsWriting => passed \subseteq checked
  /\ pc \in HasText \cup IsWriting => passed \subseteq (checked \ Boxes(plan)) \cup new_text

TodoIsNew ==
  pc \in {"build", "tick", "write_tick"} =>
    /\ todo \subseteq Boxes(plan)
    /\ todo \cap passed = {}

BuildsInv == PassedAreTicked /\ TodoIsNew

-----------------------------------------------------------------------------
(***************************************************************************)
(* Types, counters, and the active plan.                                   *)
(***************************************************************************)

\* A new chunk starts with both counters at zero.
LEMMA NewRetryStateType ==
  /\ NewRetryState \in RetryStates
  /\ NewRetryState.cli_failure_count <= CheckMaxRetries
  /\ NewRetryState.incomplete_feedback_count <= IncompleteRetryMax
<1>1. 0 \in 0..(CheckMaxRetries + 1) /\ 0 \in 0..(IncompleteRetryMax + 1)
     BY LimitsAssumption
<1>2. 0 <= CheckMaxRetries /\ 0 <= IncompleteRetryMax
     BY LimitsAssumption
<1>3. QED
     BY <1>1, <1>2 DEF NewRetryState, RetryStates

\* One more round leaves the counter within its type, and within its limit
\* when the loop goes on watching.
LEMMA CountIncompleteType ==
  ASSUME retry_state \in RetryStates,
         retry_state.cli_failure_count <= CheckMaxRetries,
         retry_state.incomplete_feedback_count <= IncompleteRetryMax,
         CountIncomplete
  PROVE  /\ retry_state' \in RetryStates
         /\ \/ /\ retry_state'.cli_failure_count <= CheckMaxRetries
               /\ retry_state'.incomplete_feedback_count <= IncompleteRetryMax
               /\ KeepWatching
            \/ Escalate
<1> DEFINE n == retry_state.incomplete_feedback_count
<1>1. n \in 0..(IncompleteRetryMax + 1) /\ n <= IncompleteRetryMax
     BY DEF RetryStates
<1>2. n + 1 \in 0..(IncompleteRetryMax + 1)
     BY <1>1, LimitsAssumption
<1>3. retry_state' = [retry_state EXCEPT !.incomplete_feedback_count = n + 1]
     BY DEF CountIncomplete
<1>4. /\ retry_state' \in RetryStates
      /\ retry_state'.incomplete_feedback_count = n + 1
      /\ retry_state'.cli_failure_count = retry_state.cli_failure_count
     BY <1>2, <1>3 DEF RetryStates
<1>5. QED
     BY <1>2, <1>4, LimitsAssumption DEF CountIncomplete

\* The first layer holds initially: nothing is in hand before the first step.
LEMMA TypeInvInit == Init => TypeInv
<1> SUFFICES ASSUME Init PROVE TypeInv
    OBVIOUS
<1>1. retry_state \in RetryStates
     BY NewRetryStateType DEF Init
<1>2. dir \in [Plans -> Directories]
     BY DEF Init, Directories
<1>3. attempt \in 0..OpenRetries
     BY LimitsAssumption DEF Init
<1>4. TypeOK
     BY <1>1, <1>2, <1>3 DEF Init, TypeOK, Locations, Records, AgentStates
<1>5. CountersBounded /\ WorksOnTheActivePlan
     BY DEF Init, CountersBounded, WorksOnTheActivePlan, ChunkLocations, HasText, IsWriting
<1>6. QED
     BY <1>4, <1>5 DEF TypeInv

\* Every step of the harness and of its surroundings keeps the first layer.
LEMMA TypeInvStep == TypeInv /\ [Next]_vars => TypeInv'
<1> SUFFICES ASSUME TypeInv, [Next]_vars PROVE TypeInv'
    OBVIOUS
<1> USE PlansAssumption, ChunksAssumption, ItemsAssumption, BuildsAssumption, LimitsAssumption
<1> USE DEF TypeInv, TypeOK, CountersBounded, WorksOnTheActivePlan, Directories, Locations,
            ChunkLocations, HasText, IsWriting, Records, AgentStates, In, files, session, history,
            builds
<1>1. CASE Start
     BY <1>1 DEF Start, IsPromoted, In
<1>2. CASE CannotReadPlan
     BY <1>2 DEF CannotReadPlan
<1>3. CASE SelectChunk
     BY <1>3 DEF SelectChunk
<1>4. CASE FilePlan
     BY <1>4 DEF FilePlan
<1>5. CASE PromoteNext
  <2>1. CASE NothingToPromote /\ pc' = "exit" /\ UNCHANGED <<dir, plan>>
       BY <1>5, <2>1 DEF PromoteNext
  <2>2. ASSUME NEW p \in Plans, IsPromoted(p), dir' = [dir EXCEPT ![p] = "active"], plan' = p,
               pc' = IF p \in broken THEN "exit" ELSE "next"
        PROVE  TypeInv'
    <3>1. In("active")' = {p}
         BY <2>2 DEF IsPromoted
    <3>2. QED
         BY <1>5, <2>2, <3>1 DEF PromoteNext
  <2>3. QED
       BY <1>5, <2>1, <2>2 DEF PromoteNext
<1>6. CASE OpenSession
  <2>1. /\ retry_state' \in RetryStates
        /\ retry_state'.cli_failure_count <= CheckMaxRetries
        /\ retry_state'.incomplete_feedback_count <= IncompleteRetryMax
       BY <1>6, NewRetryStateType DEF OpenSession
  <2>2. plan \in Plans /\ started' \subseteq Plans \X Nat
       BY <1>6 DEF OpenSession
  <2>3. TypeOK'
       BY <1>6, <2>1, <2>2 DEF OpenSession
  <2>4. QED
       BY <1>6, <2>1, <2>3 DEF OpenSession
<1>7. CASE GiveUpOpening
     BY <1>7 DEF GiveUpOpening
<1>8. CASE ReadNewLines
     BY <1>8 DEF ReadNewLines
<1>9. CASE BeginCheck
     BY <1>9 DEF BeginCheck, UncheckedBuilds, Unchecked, ChunkItems
<1>10. CASE WriteTick \/ TruncatePlan \/ TickAll
  <2>1. plan \in Plans
       BY <1>10 DEF WriteTick, TruncatePlan, TickAll
  <2>2. CASE WriteTick
       BY <2>1, <2>2 DEF WriteTick
  <2>3. CASE TruncatePlan
       BY <2>1, <2>3 DEF TruncatePlan
  <2>4. CASE TickAll
    <3>0. /\ checked \cap Boxes(plan) \subseteq Items
          /\ ChunkItems(plan, chunk) \subseteq Items
         BY DEF Boxes, ChunkItems
    <3>1. new_text' \subseteq Items /\ new_broken' \subseteq Plans
         BY <2>1, <2>4, <3>0 DEF TickAll
    <3>2. UNCHANGED <<dir, checked, emptied, broken, plan, chunk, attempt, retry_state, todo,
                      session, history>>
          /\ pc = "complete" /\ pc' \in {"exit", "tick_all"}
         BY <2>4 DEF TickAll
    <3>3. QED
         BY <3>1, <3>2
  <2>5. QED
       BY <1>10, <2>2, <2>3, <2>4
<1>11. CASE BuildFails
  <2>1. CountIncomplete /\ plan \in Plans
       BY <1>11 DEF BuildFails
  <2>2. retry_state.cli_failure_count <= CheckMaxRetries
       BY <1>11 DEF BuildFails
  <2>3. retry_state.incomplete_feedback_count <= IncompleteRetryMax
       BY <1>11 DEF BuildFails
  <2>4. retry_state' \in RetryStates
       BY <2>1, <2>2, <2>3, CountIncompleteType
  <2>5. \/ /\ retry_state'.cli_failure_count <= CheckMaxRetries
           /\ retry_state'.incomplete_feedback_count <= IncompleteRetryMax
           /\ KeepWatching
        \/ Escalate
       BY <2>1, <2>2, <2>3, CountIncompleteType
  <2>6. escalated' \subseteq Plans \X Nat
       BY <2>1, <2>5 DEF KeepWatching, Escalate
  <2>7. TypeOK'
       BY <1>11, <2>4, <2>5, <2>6
          DEF BuildFails, KeepWatching, BackToWatch, SendFeedback, Escalate
  <2>8. QED
       BY <1>11, <2>5, <2>7 DEF BuildFails, KeepWatching, BackToWatch, SendFeedback, Escalate
<1>12. CASE BuildsPassed
     BY <1>12 DEF BuildsPassed, KeepWatching, BackToWatch, SendFeedback
<1>13. CASE ChunkDone
     BY <1>13 DEF ChunkDone
<1>14. CASE ChunkIncomplete
  <2>1. CountIncomplete /\ plan \in Plans
       BY <1>14 DEF ChunkIncomplete
  <2>2. retry_state.cli_failure_count <= CheckMaxRetries
       BY <1>14 DEF ChunkIncomplete
  <2>3. retry_state.incomplete_feedback_count <= IncompleteRetryMax
       BY <1>14 DEF ChunkIncomplete
  <2>4. retry_state' \in RetryStates
       BY <2>1, <2>2, <2>3, CountIncompleteType
  <2>5. \/ /\ retry_state'.cli_failure_count <= CheckMaxRetries
           /\ retry_state'.incomplete_feedback_count <= IncompleteRetryMax
           /\ KeepWatching
        \/ Escalate
       BY <2>1, <2>2, <2>3, CountIncompleteType
  <2>6. escalated' \subseteq Plans \X Nat
       BY <2>1, <2>5 DEF KeepWatching, Escalate
  <2>7. TypeOK'
       BY <1>14, <2>4, <2>5, <2>6
          DEF ChunkIncomplete, KeepWatching, BackToWatch, SendFeedback, Escalate
  <2>8. QED
       BY <1>14, <2>5, <2>7 DEF ChunkIncomplete, KeepWatching, BackToWatch, SendFeedback, Escalate
<1>15. CASE CheckError
  <2> DEFINE n == retry_state.cli_failure_count
  <2>1. n \in 0..(CheckMaxRetries + 1) /\ n <= CheckMaxRetries
       BY <1>15 DEF CheckError, RetryStates
  <2>2. n + 1 \in 0..(CheckMaxRetries + 1)
       BY <2>1
  <2>3. retry_state' = [retry_state EXCEPT !.cli_failure_count = n + 1]
       BY <1>15 DEF CheckError
  <2>4. /\ retry_state' \in RetryStates
        /\ retry_state'.cli_failure_count = n + 1
        /\ retry_state'.incomplete_feedback_count = retry_state.incomplete_feedback_count
       BY <2>2, <2>3 DEF RetryStates
  <2>5. plan \in Plans
       BY <1>15 DEF CheckError
  <2>6. escalated' \subseteq Plans \X Nat
       BY <1>15, <2>5 DEF CheckError, Escalate
  <2>7. TypeOK'
       BY <1>15, <2>4, <2>6 DEF CheckError, BackToWatch, Escalate
  <2>8. CountersBounded'
       BY <1>15, <2>1, <2>4 DEF CheckError, BackToWatch, Escalate
  <2>9. QED
       BY <1>15, <2>7, <2>8 DEF CheckError, BackToWatch, Escalate
<1>16. CASE \E i \in todo : BuildPasses(i)
     BY <1>16 DEF BuildPasses, Boxes
<1>17. CASE IdleTimeout
     BY <1>17 DEF IdleTimeout
<1>18. CASE OpenSessionFails
     BY <1>18 DEF OpenSessionFails
<1>19. CASE AgentWrites \/ AgentStops
     BY <1>19 DEF AgentWrites, AgentStops, OfHarness
<1>20. CASE Rerun
  <2>1. retry_state' \in RetryStates
       BY <1>20, NewRetryStateType DEF Rerun
  <2>2. attempt' \in 0..OpenRetries
       BY <1>20 DEF Rerun
  <2>3. TypeOK'
       BY <1>20, <2>1, <2>2 DEF Rerun
  <2>4. QED
       BY <1>20, <2>3 DEF Rerun
<1>21. CASE \E i \in Items : SessionTicks(i)
     BY <1>21 DEF SessionTicks, OfHarness
<1>22. ASSUME NEW p \in Plans, SessionEdits(p)
       PROVE  TypeInv'
  <2>1. /\ UNCHANGED <<dir, checked, OfHarness, unread, agent, history>>
        /\ emptied' \in {emptied, emptied \ {p}}
        /\ broken' \in {broken, broken \ {p}, broken \cup {p}}
       BY <1>22 DEF SessionEdits
  <2>2. emptied' \subseteq Plans /\ broken' \subseteq Plans
       BY <2>1
  <2>3. QED
       BY <2>1, <2>2 DEF OfHarness
<1>23. CASE \E p \in Plans : Author(p)
     BY <1>23 DEF Author, OfHarness
<1>24. CASE UNCHANGED vars
     BY <1>24 DEF vars
<1>25. QED
     BY <1>1, <1>2, <1>3, <1>4, <1>5, <1>6, <1>7, <1>8, <1>9, <1>10, <1>11, <1>12, <1>13,
        <1>14, <1>15, <1>16, <1>17, <1>18, <1>19, <1>20, <1>21, <1>22, <1>23, <1>24
     DEF Next, HarnessStep, Environment

-----------------------------------------------------------------------------
(***************************************************************************)
(* What is in the plan files.                                              *)
(***************************************************************************)

\* A plan without an incomplete chunk is done in the sense of PlanLifecycle.
LEMMA NothingIncompleteIsDone ==
  ASSUME NEW p \in Plans, Incomplete(p) = {}
  PROVE  Lifecycle!PlanDone(p) \/ p \in emptied
BY DEF Incomplete, ParsedChunks, ChunkCompleted, Unchecked, ChunkItems, Lifecycle!PlanDone

\* The chunks before the one find_next_incomplete_chunk returns are complete.
LEMMA EarlierThanNextAreComplete ==
  ASSUME NEW p \in Plans, NEW c \in ChunksOf[p], IsNextIncompleteChunk(p, c)
  PROVE  /\ \A d \in ChunksOf[p] : d < c => ChunkCompleted(p, d)
         /\ p \notin emptied
<1>0. p \notin emptied
     BY DEF IsNextIncompleteChunk, Incomplete, ParsedChunks
<1> SUFFICES ASSUME NEW d \in ChunksOf[p], d < c, ~ ChunkCompleted(p, d) PROVE FALSE
    BY <1>0
<1>1. c <= d
     BY <1>0 DEF IsNextIncompleteChunk, Incomplete, ParsedChunks
<1>2. c \in Nat /\ d \in Nat
     BY ChunksAssumption
<1>3. QED
     BY <1>1, <1>2

\* Steps that leave alone all the plan files and what is in hand.
Quiet ==
  /\ UNCHANGED <<dir, checked, emptied, started, plan, chunk, new_text>>
  /\ pc' \in ChunkLocations => pc \in ChunkLocations
  /\ pc' \in HasText => pc \in HasText
  /\ pc' \in IsWriting <=> pc \in IsWriting

\* Steps that leave the files alone keep FilesInv.
LEMMA QuietKeepsFiles == FilesInv /\ Quiet => FilesInv'
BY DEF FilesInv, Quiet, StartedAlone, FiledPlansAreComplete, ChunkInHand, EarlierChunksComplete,
       TextKeepsEarlierChunks, In, Lifecycle!PlanDone, ChunkCompleted, Unchecked, ChunkItems, Boxes

\* No box of p is lost: what was complete is still complete.
LEMMA KeptBoxesKeepCompletion ==
  ASSUME NEW p, checked \cap Boxes(p) \subseteq checked'
  PROVE  /\ Lifecycle!PlanDone(p) => Lifecycle!PlanDone(p)'
         /\ \A c : ChunkCompleted(p, c) => ChunkCompleted(p, c)'
BY DEF Lifecycle!PlanDone, ChunkCompleted, Unchecked, ChunkItems, Boxes

\* A text read outside the writes keeps what the file has of the earlier chunks.
LEMMA ReadKeepsFiles ==
  ASSUME FilesInv, UNCHANGED <<dir, checked, emptied, started, plan, chunk>>,
         pc \in {"build", "complete"}, pc' \in HasText,
         NEW boxes \in SUBSET Boxes(plan), new_text' = (checked \cap Boxes(plan)) \cup boxes
  PROVE  FilesInv'
<1> USE DEF FilesInv, ChunkLocations, HasText, IsWriting
<1>1. \A c \in ChunksOf[plan] : c < chunk => ChunkItems(plan, c) \subseteq checked \cap Boxes(plan)
     BY DEF EarlierChunksComplete, ChunkCompleted, Unchecked, ChunkItems, Boxes
<1>2. TextKeepsEarlierChunks'
     BY <1>1 DEF TextKeepsEarlierChunks, ChunkItems, Boxes
<1>3. EarlierChunksComplete'
     BY DEF EarlierChunksComplete, ChunkCompleted, Unchecked
<1>4. QED
     BY <1>2, <1>3 DEF StartedAlone, FiledPlansAreComplete, ChunkInHand, In, Lifecycle!PlanDone

\* FilesInv holds initially: nothing is completed, nothing in hand.
LEMMA FilesInvInit == Init => FilesInv
BY DEF Init, FilesInv, StartedAlone, FiledPlansAreComplete, ChunkInHand, EarlierChunksComplete,
       TextKeepsEarlierChunks, In, ChunkLocations, HasText, IsWriting

\* Every step keeps the second layer, given the others.
LEMMA FilesInvStep == TypeInv /\ FilesInv /\ BuildsInv /\ [Next]_vars => FilesInv'
<1> SUFFICES ASSUME TypeInv, FilesInv, BuildsInv, [Next]_vars PROVE FilesInv'
    OBVIOUS
<1> USE PlansAssumption, ChunksAssumption, ItemsAssumption, BuildsAssumption
<1> USE DEF TypeInv, TypeOK, WorksOnTheActivePlan, ChunkLocations, HasText, IsWriting, In, session,
            history, builds
<1>1. CASE Start
  <2>1. pc' \notin ChunkLocations /\ UNCHANGED <<checked, emptied, started>>
       BY <1>1 DEF Start
  <2>2. CASE UNCHANGED dir
       BY <2>1, <2>2 DEF FilesInv, StartedAlone, FiledPlansAreComplete, ChunkInHand,
          EarlierChunksComplete, TextKeepsEarlierChunks, Lifecycle!PlanDone
  <2>3. ASSUME NEW p \in Plans, IsPromoted(p), dir' = [dir EXCEPT ![p] = "active"]
        PROVE  FilesInv'
       BY <2>1, <2>3 DEF IsPromoted, FilesInv, StartedAlone, FiledPlansAreComplete, ChunkInHand,
          EarlierChunksComplete, TextKeepsEarlierChunks, Lifecycle!PlanDone
  <2>4. QED
       BY <1>1, <2>2, <2>3 DEF Start
<1>2. CASE SelectChunk
  <2>1. plan \in Plans
       BY <1>2 DEF SelectChunk
  <2>2. PICK c \in ChunksOf[plan] : IsNextIncompleteChunk(plan, c) /\ chunk' = c
       BY <1>2 DEF SelectChunk
  <2>3. (\A d \in ChunksOf[plan] : d < c => ChunkCompleted(plan, d)) /\ plan \notin emptied
       BY <2>1, <2>2, EarlierThanNextAreComplete
  <2>4. UNCHANGED <<files, started, plan>> /\ pc' = "open"
       BY <1>2 DEF SelectChunk
  <2>5. EarlierChunksComplete'
       BY <2>2, <2>3, <2>4 DEF EarlierChunksComplete, ChunkCompleted, Unchecked, files
  <2>6. QED
       BY <2>2, <2>4, <2>5 DEF FilesInv, StartedAlone, FiledPlansAreComplete, ChunkInHand,
          TextKeepsEarlierChunks, Lifecycle!PlanDone, files
<1>3. CASE FilePlan
  <2>1. plan \in Plans /\ (Lifecycle!PlanDone(plan) \/ plan \in emptied)
       BY <1>3, NothingIncompleteIsDone DEF FilePlan
  <2>2. UNCHANGED <<checked, emptied, started>> /\ dir' = [dir EXCEPT ![plan] = "completed"] /\ pc' = "promote"
       BY <1>3 DEF FilePlan
  <2>3. FiledPlansAreComplete'
       BY <2>1, <2>2 DEF FilesInv, FiledPlansAreComplete, Lifecycle!PlanDone
  <2>4. StartedAlone'
       BY <1>3, <2>2 DEF FilePlan, FilesInv, StartedAlone
  <2>5. QED
       BY <2>2, <2>3, <2>4 DEF FilesInv, ChunkInHand, EarlierChunksComplete, TextKeepsEarlierChunks
<1>4. CASE PromoteNext
  <2>1. pc' \notin ChunkLocations /\ UNCHANGED <<checked, emptied, started>>
       BY <1>4 DEF PromoteNext
  <2>2. CASE UNCHANGED dir
       BY <2>1, <2>2 DEF FilesInv, StartedAlone, FiledPlansAreComplete, ChunkInHand,
          EarlierChunksComplete, TextKeepsEarlierChunks, Lifecycle!PlanDone
  <2>3. ASSUME NEW p \in Plans, IsPromoted(p), dir' = [dir EXCEPT ![p] = "active"]
        PROVE  FilesInv'
       BY <2>1, <2>3 DEF IsPromoted, FilesInv, StartedAlone, FiledPlansAreComplete, ChunkInHand,
          EarlierChunksComplete, TextKeepsEarlierChunks, Lifecycle!PlanDone
  <2>4. QED
       BY <1>4, <2>2, <2>3 DEF PromoteNext
<1>5. CASE OpenSession \/ OpenSessionFails
  <2>1. In("active") = {plan} /\ plan \in Plans
       BY <1>5 DEF OpenSession, OpenSessionFails
  <2>2. /\ UNCHANGED <<files, plan, chunk>>
        /\ pc' \in {"open", "watch"} /\ pc = "open"
        /\ started' \in {started, started \cup {<<plan, chunk>>}}
       BY <1>5 DEF OpenSession, OpenSessionFails
  <2>3. StartedAlone'
       BY <2>1, <2>2 DEF FilesInv, StartedAlone, files
  <2>4. QED
       BY <2>2, <2>3 DEF FilesInv, FiledPlansAreComplete, ChunkInHand, EarlierChunksComplete,
          TextKeepsEarlierChunks, ChunkCompleted, Unchecked, Lifecycle!PlanDone, files
<1>6. ASSUME NEW i \in todo, BuildPasses(i)
      PROVE  FilesInv'
  <2>1. CASE plan \in broken \/ i \in checked
    <3>1. Quiet
         BY <1>6, <2>1 DEF BuildPasses, Quiet, files
    <3>2. QED
         BY <3>1, QuietKeepsFiles
  <2>2. CASE plan \notin broken /\ i \notin checked
    <3>1. /\ UNCHANGED <<files, started, plan, chunk>>
          /\ pc = "build" /\ pc' = "tick"
          /\ new_text' = (checked \cap Boxes(plan)) \cup {i}
         BY <1>6, <2>2 DEF BuildPasses
    <3>2. i \in Boxes(plan)
         BY <3>1 DEF BuildsInv, TodoIsNew
    <3>3. QED
         BY <3>1, <3>2, ReadKeepsFiles DEF files
  <2>3. QED
       BY <2>1, <2>2
<1>7. CASE TickAll
  <2>1. CASE UNCHANGED new_text /\ pc' = "exit"
    <3>1. Quiet
         BY <1>7, <2>1 DEF TickAll, Quiet, files
    <3>2. QED
         BY <3>1, QuietKeepsFiles
  <2>2. CASE pc' = "tick_all"
    <3>1. /\ UNCHANGED <<files, started, plan, chunk>>
          /\ pc = "complete"
          /\ new_text' = (checked \cap Boxes(plan)) \cup ChunkItems(plan, chunk)
         BY <1>7, <2>2 DEF TickAll
    <3>2. ChunkItems(plan, chunk) \subseteq Boxes(plan)
         BY DEF ChunkItems, Boxes
    <3>3. QED
         BY <2>2, <3>1, <3>2, ReadKeepsFiles DEF files
  <2>3. QED
       BY <1>7, <2>1, <2>2 DEF TickAll
<1>15. CASE TruncatePlan
  <2>1. /\ UNCHANGED <<dir, checked, started, plan, chunk, new_text>>
        /\ pc \in HasText /\ pc' \in IsWriting
        /\ emptied' = emptied \cup {plan}
       BY <1>15 DEF TruncatePlan
  <2>2. QED
       BY <2>1 DEF FilesInv, StartedAlone, FiledPlansAreComplete, ChunkInHand, EarlierChunksComplete,
          TextKeepsEarlierChunks, ChunkCompleted, Unchecked, Lifecycle!PlanDone
<1>16. CASE WriteTick
  <2>1. /\ UNCHANGED <<dir, started, plan, chunk>>
        /\ pc \in IsWriting /\ pc' \in {"build", "next"}
        /\ checked' = (checked \ Boxes(plan)) \cup new_text
        /\ emptied' = emptied \ {plan}
        /\ plan \in Plans
       BY <1>16 DEF WriteTick
  <2>2. FiledPlansAreComplete'
    <3>1. \A p \in In("completed") : p # plan
         BY <2>1 DEF Directories
    <3>2. \A p \in In("completed") : checked \cap Boxes(p) \subseteq checked'
         BY <2>1, <3>1 DEF Boxes
    <3>3. QED
         BY <2>1, <3>1, <3>2, KeptBoxesKeepCompletion DEF FilesInv, FiledPlansAreComplete
  <2>3. EarlierChunksComplete'
    <3>1. \A c \in ChunksOf[plan] :
            c < chunk => ChunkItems(plan, c) # {} /\ ChunkItems(plan, c) \subseteq checked'
         BY <2>1 DEF FilesInv, EarlierChunksComplete, TextKeepsEarlierChunks, ChunkCompleted
    <3>2. QED
         BY <2>1, <3>1 DEF EarlierChunksComplete, ChunkCompleted, Unchecked
  <2>4. QED
       BY <2>1, <2>2, <2>3 DEF FilesInv, StartedAlone, ChunkInHand, TextKeepsEarlierChunks
<1>8. ASSUME NEW i \in Items, SessionTicks(i)
      PROVE  FilesInv'
  <2>1. /\ UNCHANGED <<dir, emptied, started, pc, plan, chunk, new_text>>
        /\ checked' = checked \cup {i}
       BY <1>8 DEF SessionTicks, OfHarness
  <2>2. \A p : checked \cap Boxes(p) \subseteq checked'
       BY <2>1
  <2>3. FiledPlansAreComplete' /\ EarlierChunksComplete'
       BY <2>1, <2>2, KeptBoxesKeepCompletion DEF FilesInv, FiledPlansAreComplete, EarlierChunksComplete
  <2>4. QED
       BY <2>1, <2>3 DEF FilesInv, StartedAlone, ChunkInHand, TextKeepsEarlierChunks, Boxes, ChunkItems
<1>9. ASSUME NEW p \in Plans, Author(p)
      PROVE  FilesInv'
  <2>1. /\ UNCHANGED <<checked, emptied, started, pc, plan, chunk, new_text>>
        /\ dir[p] = "absent" /\ dir' = [dir EXCEPT ![p] = "planning"]
       BY <1>9 DEF Author, OfHarness
  <2>2. In("active")' = In("active") /\ In("completed")' = In("completed")
       BY <2>1
  <2>3. StartedAlone'
       BY <2>1, <2>2 DEF FilesInv, StartedAlone
  <2>4. QED
       BY <2>1, <2>2, <2>3 DEF FilesInv, FiledPlansAreComplete, ChunkInHand, EarlierChunksComplete,
          TextKeepsEarlierChunks, ChunkCompleted, Unchecked, ChunkItems, Boxes, Lifecycle!PlanDone
<1>10. CASE Rerun
     BY <1>10 DEF Rerun, files, FilesInv, StartedAlone, FiledPlansAreComplete, ChunkInHand,
        EarlierChunksComplete, TextKeepsEarlierChunks, Lifecycle!PlanDone
<1>11. CASE CannotReadPlan \/ GiveUpOpening \/ ReadNewLines \/ IdleTimeout
  <2>1. Quiet
       BY <1>11 DEF CannotReadPlan, GiveUpOpening, ReadNewLines, IdleTimeout, Quiet, files
  <2>2. QED
       BY <2>1, QuietKeepsFiles
<1>12. CASE BeginCheck \/ BuildFails \/ BuildsPassed \/ ChunkDone \/ ChunkIncomplete \/ CheckError
  <2>1. Quiet
       BY <1>12 DEF BeginCheck, BuildFails, BuildsPassed, ChunkDone, ChunkIncomplete, CheckError,
          CountIncomplete, KeepWatching, BackToWatch, Escalate, Quiet, files
  <2>2. QED
       BY <2>1, QuietKeepsFiles
<1>13. CASE AgentWrites \/ AgentStops \/ UNCHANGED vars
  <2>1. Quiet
       BY <1>13 DEF AgentWrites, AgentStops, OfHarness, Quiet, files, vars
  <2>2. QED
       BY <2>1, QuietKeepsFiles
<1>14. ASSUME NEW p \in Plans, SessionEdits(p)
       PROVE  FilesInv'
  <2>1. UNCHANGED <<dir, checked, pc, plan, chunk, new_text, started>> /\ dir[p] = "active"
       BY <1>14 DEF SessionEdits, OfHarness
  <2>2. CASE UNCHANGED emptied
    <3>1. Quiet
         BY <2>1, <2>2 DEF Quiet
    <3>2. QED
         BY <3>1, QuietKeepsFiles
  <2>3. CASE emptied' = emptied \ {p} /\ p \in emptied /\ pc \notin IsWriting
    <3>1. EarlierChunksComplete'
      <4>1. CASE pc \in ChunkLocations
           BY <2>1, <2>3, <4>1 DEF FilesInv, EarlierChunksComplete
      <4>2. CASE pc \notin ChunkLocations
           BY <2>1, <4>2 DEF EarlierChunksComplete
      <4>3. QED
           BY <4>1, <4>2
    <3>2. FiledPlansAreComplete'
         BY <2>1, <2>3 DEF FilesInv, FiledPlansAreComplete, Lifecycle!PlanDone
    <3>3. QED
         BY <2>1, <3>1, <3>2 DEF FilesInv, StartedAlone, ChunkInHand, TextKeepsEarlierChunks
  <2>4. QED
       BY <1>14, <2>2, <2>3 DEF SessionEdits
<1>17. QED
     BY <1>1, <1>2, <1>3, <1>4, <1>5, <1>6, <1>7, <1>8, <1>9, <1>10, <1>11, <1>12, <1>13, <1>14,
        <1>15, <1>16 DEF Next, HarnessStep, Environment

-----------------------------------------------------------------------------
(***************************************************************************)
(* Which builds have run.                                                  *)
(***************************************************************************)

\* No build has passed before the first step.
LEMMA BuildsInvInit == Init => BuildsInv
BY DEF Init, BuildsInv, PassedAreTicked, TodoIsNew

\* Every step keeps the third layer, given the first.
LEMMA BuildsInvStep == TypeInv /\ BuildsInv /\ [Next]_vars => BuildsInv'
<1> SUFFICES ASSUME TypeInv, BuildsInv, [Next]_vars PROVE BuildsInv'
    OBVIOUS
<1> USE ItemsAssumption, BuildsAssumption
<1> USE DEF BuildsInv, PassedAreTicked, TodoIsNew, HasText, IsWriting, session, history, builds,
            files
<1>1. CASE Start \/ FilePlan \/ PromoteNext \/ SelectChunk \/ CannotReadPlan
     BY <1>1 DEF Start, FilePlan, PromoteNext, SelectChunk, CannotReadPlan
<1>2. CASE OpenSession \/ OpenSessionFails \/ GiveUpOpening \/ ReadNewLines \/ IdleTimeout
     BY <1>2 DEF OpenSession, OpenSessionFails, GiveUpOpening, ReadNewLines, IdleTimeout
<1>3. CASE BeginCheck
     BY <1>3 DEF BeginCheck, UncheckedBuilds, Unchecked, ChunkItems, Boxes
<1>4. ASSUME NEW i \in todo, BuildPasses(i)
      PROVE  BuildsInv'
     BY <1>4 DEF BuildPasses, Boxes
<1>5. CASE WriteTick \/ TruncatePlan \/ TickAll
     BY <1>5 DEF WriteTick, TruncatePlan, TickAll, Boxes
<1>6. CASE BuildFails \/ BuildsPassed \/ ChunkDone \/ ChunkIncomplete \/ CheckError
     BY <1>6 DEF BuildFails, BuildsPassed, ChunkDone, ChunkIncomplete, CheckError,
        CountIncomplete, KeepWatching, BackToWatch, Escalate
<1>7. ASSUME NEW i \in Items, SessionTicks(i)
      PROVE  BuildsInv'
     BY <1>7 DEF SessionTicks, OfHarness, Boxes
<1>8. CASE \E p \in Plans : SessionEdits(p) \/ Author(p)
     BY <1>8 DEF SessionEdits, Author, OfHarness, Boxes
<1>9. CASE AgentWrites \/ AgentStops \/ UNCHANGED vars
     BY <1>9 DEF AgentWrites, AgentStops, OfHarness, vars, Boxes
<1>10. CASE Rerun
     BY <1>10 DEF Rerun
<1>11. QED
     BY <1>1, <1>2, <1>3, <1>4, <1>5, <1>6, <1>7, <1>8, <1>9, <1>10
        DEF Next, HarnessStep, Environment

-----------------------------------------------------------------------------
(***************************************************************************)
(* The invariants of the specification.                                    *)
(***************************************************************************)

\* The three layers together are invariant.
THEOREM Invariance == Spec => [](TypeInv /\ FilesInv /\ BuildsInv)
<1> DEFINE IInv == TypeInv /\ FilesInv /\ BuildsInv
<1>1. Init => IInv
     BY TypeInvInit, FilesInvInit, BuildsInvInit
<1>2. IInv /\ [Next]_vars => IInv'
     BY TypeInvStep, FilesInvStep, BuildsInvStep
<1>3. QED
     BY <1>1, <1>2, PTL DEF Spec

\* Every variable keeps its type, and no retry counter passes its limit by more
\* than one (run_harness, ChunkRetryState).
THEOREM TypeCorrect == Spec => []TypeOK
BY Invariance, PTL DEF TypeInv

\* run_harness works on a chunk only while its plan is the one active plan.
THEOREM ActivePlan == Spec => []WorksOnTheActivePlan
BY Invariance, PTL DEF TypeInv

\* move_to_completed is reached only for plans all of whose chunks are complete.
THEOREM FiledPlans == Spec => []FiledPlansAreComplete
BY Invariance, PTL DEF FilesInv

\* find_next_incomplete_chunk keeps the chunks in order for as long as one is in
\* hand, lost ticks included.
THEOREM ChunkOrder == Spec => []EarlierChunksComplete
BY Invariance, PTL DEF FilesInv

\* run_build_criteria never runs a build again that has passed in this run.
THEOREM BuildsOnce == Spec => BuildsPassOnce
<1>1. BuildsInv => \A i \in Builds : BuildPasses(i) => i \notin passed
     BY DEF BuildsInv, TodoIsNew, BuildPasses
<1>2. BuildsInv /\ [Next]_vars => [\A i \in Builds : BuildPasses(i) => i \notin passed]_vars
     BY <1>1
<1>3. QED
     BY <1>2, Invariance, PTL DEF Spec, BuildsPassOnce

-----------------------------------------------------------------------------
(***************************************************************************)
(* The harness implements PlanLifecycle.                                   *)
(***************************************************************************)

\* The plan files start as PlanLifecycle says.
LEMMA LifecycleInit == Init => Lifecycle!Init
BY DEF Init, Lifecycle!Init

\* Every step does to the plan files what PlanLifecycle allows, or nothing.
LEMMA LifecycleStep ==
  TypeInv /\ FilesInv /\ [Next]_vars => [Lifecycle!Next]_(Lifecycle!vars)
<1> SUFFICES ASSUME TypeInv, FilesInv, [Next]_vars
             PROVE  Lifecycle!Next \/ UNCHANGED <<dir, checked, emptied>>
    BY DEF Lifecycle!vars
<1> USE ItemsAssumption, BuildsAssumption
<1> USE DEF files, In, Boxes, Lifecycle!In, Lifecycle!Boxes, Lifecycle!Next
<1>1. CASE Start
     BY <1>1 DEF Start, IsPromoted, Lifecycle!Promote
<1>2. CASE PromoteNext
     BY <1>2 DEF PromoteNext, IsPromoted, Lifecycle!Promote
<1>3. CASE FilePlan
  <2>1. plan \in Plans /\ In("active") = {plan}
       BY <1>3 DEF FilePlan, TypeInv, WorksOnTheActivePlan, In
  <2>2. Lifecycle!PlanDone(plan) \/ plan \in emptied
       BY <1>3, <2>1, NothingIncompleteIsDone DEF FilePlan
  <2>3. Lifecycle!Complete(plan)
       BY <1>3, <2>1, <2>2 DEF FilePlan, Lifecycle!Complete, Lifecycle!OnlyActive
  <2>4. QED
       BY <2>1, <2>3
<1>4. CASE WriteTick
  <2>1. plan \in Plans /\ In("active") = {plan}
       BY <1>4 DEF WriteTick, TypeInv, WorksOnTheActivePlan, ChunkLocations, HasText, IsWriting, In
  <2>2. new_text \subseteq Boxes(plan)
       BY <1>4 DEF WriteTick, FilesInv, TextKeepsEarlierChunks
  <2>3. Lifecycle!Work(plan)
       BY <1>4, <2>1, <2>2 DEF WriteTick, Lifecycle!Work, Lifecycle!OnlyActive
  <2>4. QED
       BY <2>1, <2>3
<1>11. CASE TruncatePlan
  <2>1. plan \in Plans /\ In("active") = {plan}
       BY <1>11 DEF TruncatePlan, TypeInv, WorksOnTheActivePlan, ChunkLocations, HasText, IsWriting, In
  <2>2. checked' = (checked \ Boxes(plan)) \cup (checked \cap Boxes(plan))
       BY <1>11 DEF TruncatePlan
  <2>3. Lifecycle!Work(plan)
       BY <1>11, <2>1, <2>2 DEF TruncatePlan, Lifecycle!Work, Lifecycle!OnlyActive
  <2>4. QED
       BY <2>1, <2>3
<1>5. ASSUME NEW i \in Items, SessionTicks(i)
      PROVE  Lifecycle!Next
  <2> DEFINE p == i[1]
  <2>1. p \in Plans /\ In("active") = {p}
       BY <1>5 DEF SessionTicks, FilesInv, StartedAlone
  <2>6. UNCHANGED <<dir, emptied>> /\ emptied \in {emptied \cup {p}, emptied \ {p}}
       BY <1>5 DEF SessionTicks
  <2>2. checked' = (checked \ Boxes(p)) \cup ((checked \cap Boxes(p)) \cup {i})
       BY <1>5 DEF SessionTicks
  <2>3. (checked \cap Boxes(p)) \cup {i} \in SUBSET Boxes(p)
       BY DEF Boxes
  <2>4. Lifecycle!Work(p)
       BY <2>1, <2>2, <2>3, <2>6 DEF Lifecycle!Work, Lifecycle!OnlyActive
  <2>5. QED
       BY <2>1, <2>4
<1>6. ASSUME NEW p \in Plans, Author(p)
      PROVE  Lifecycle!Next
     BY <1>6 DEF Author, Lifecycle!Author
<1>7. CASE \/ CannotReadPlan \/ SelectChunk \/ OpenSession \/ OpenSessionFails \/ GiveUpOpening
           \/ ReadNewLines \/ IdleTimeout \/ BeginCheck \/ \E i \in todo : BuildPasses(i)
     BY <1>7 DEF CannotReadPlan, SelectChunk, OpenSession, OpenSessionFails, GiveUpOpening,
        ReadNewLines, IdleTimeout, BeginCheck, BuildPasses
<1>8. CASE BuildFails \/ BuildsPassed \/ ChunkDone \/ TickAll \/ ChunkIncomplete \/ CheckError
     BY <1>8 DEF BuildFails, BuildsPassed, ChunkDone, TickAll, ChunkIncomplete, CheckError
<1>9. CASE \/ AgentWrites \/ AgentStops \/ Rerun \/ UNCHANGED vars
     BY <1>9 DEF AgentWrites, AgentStops, Rerun, vars
<1>12. ASSUME NEW p \in Plans, SessionEdits(p)
       PROVE  Lifecycle!Next \/ UNCHANGED <<dir, checked, emptied>>
  <2>1. CASE UNCHANGED emptied
       BY <1>12, <2>1 DEF SessionEdits
  <2>2. CASE emptied' = emptied \ {p}
    <3>1. In("active") = {p}
         BY <1>12 DEF SessionEdits, FilesInv, StartedAlone
    <3>2. checked' = (checked \ Boxes(p)) \cup (checked \cap Boxes(p))
         BY <1>12 DEF SessionEdits
    <3>3. Lifecycle!Work(p)
         BY <1>12, <2>2, <3>1, <3>2 DEF SessionEdits, Lifecycle!Work, Lifecycle!OnlyActive
    <3>4. QED
         BY <3>3
  <2>3. QED
       BY <1>12, <2>1, <2>2 DEF SessionEdits
<1>10. QED
     BY <1>1, <1>2, <1>3, <1>4, <1>5, <1>6, <1>7, <1>8, <1>9, <1>11, <1>12 DEF Next, HarnessStep, Environment

\* Harness mode with Cowork sessions keeps the promise of PlanLifecycle.
THEOREM Refinement == Spec => KeepsLifecycle
BY LifecycleInit, LifecycleStep, Invariance, PTL DEF Spec, KeepsLifecycle, Lifecycle!Spec

=============================================================================
