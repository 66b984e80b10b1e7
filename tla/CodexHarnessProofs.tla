-------------------------- MODULE CodexHarnessProofs --------------------------
(***************************************************************************)
(* Proofs about CodexHarness, for every set of plans, chunks and criteria  *)
(* and every limit of the retry loops.                                     *)
(*                                                                         *)
(* Three invariants.  TypeInv: types, the attempts of the loop at hand,    *)
(* and that the plan in hand is the only active one.  SpendingInv: what    *)
(* each loop may have cost when it is entered, from which the budget of a  *)
(* chunk follows.  FinishedInv: what has been verified is still ticked.    *)
(***************************************************************************)
EXTENDS CodexHarness, TLAPS

PlanLocations == {"next"} \cup ChunkLocations

PlanInHand ==
  pc \in PlanLocations => plan \in Plans /\ In("active") = {plan}

ChunkInHand == pc \in ChunkLocations => chunk \in ChunksOf[plan]

\* The plan of a left-over codex process is the only active one, if it is active.
OrphansAlone ==
  \A t \in orphans : dir[t[1]] = "active" => In("active") = {t[1]}

TextOfThePlan ==
  /\ pc \in {"build", "tick", "write"} => todo \subseteq Boxes(plan)
  /\ pc \in {"tick", "write"} => new_text \subseteq Boxes(plan)

TypeInv == TypeOK /\ PlanInHand /\ ChunkInHand /\ OrphansAlone /\ TextOfThePlan

\* A loop starts after the loops before it have used up their attempts.
Spending ==
  pc \in ChunkLocations =>
    /\ loop = "first" => execs <= attempt
    /\ loop = "build repair" => execs <= MaxRetries + attempt
    /\ loop = "incomplete repair" => execs <= MaxRetries + BuildRepairMax + attempt
    /\ loop = "last build repair" => execs <= 2 * MaxRetries + BuildRepairMax + attempt

SpendingInv == Spending /\ ExecBudget

\* Every chunk states a criterion, without which _chunk_status never reports
\* "completed" and the same chunk is selected for ever.
EveryChunkHasCriteria == \A p \in Plans : \A c \in ChunksOf[p] : ChunkItems(p, c) # {}

\* The verified chunks that no left-over process has reopened.
Closed == finished \ reopened

FinishedInv ==
  /\ \A t \in Closed : Unchecked(t[1], t[2]) = {}
  /\ pc \in ChunkLocations => <<plan, chunk>> \notin Closed
  /\ pc \in {"tick", "write"} =>
       \A t \in Closed : t[1] = plan => ChunkItems(t[1], t[2]) \subseteq new_text

-----------------------------------------------------------------------------
(***************************************************************************)
(* Types, and the active plan.                                             *)
(***************************************************************************)

\* The limits of the loops.
LEMMA LimitValues ==
  /\ Limit["first"] = MaxRetries /\ Limit["incomplete repair"] = MaxRetries
  /\ Limit["build repair"] = BuildRepairMax /\ Limit["last build repair"] = BuildRepairMax
  /\ \A l \in Loops : Limit[l] \in Nat
BY RetriesAssumption DEF Limit, Loops

\* Entering a loop, or its next attempt: the attempt is within the limit.
LEMMA LoopStep ==
  ASSUME TypeOK, pc \in ChunkLocations, NEW l \in Loops, StartLoop(l) \/ NextAttempt
  PROVE  /\ pc' \in {"exec", "exit"}
         /\ loop' \in Loops /\ attempt' \in Nat /\ execs' \in Nat
         /\ pc' = "exec" => attempt' \in 1..Limit[loop']
<1>1. loop \in Loops /\ attempt \in Nat /\ execs \in Nat /\ attempt \in 1..Limit[loop]
  BY DEF TypeOK
<1>2. Limit[l] \in Nat /\ Limit[loop] \in Nat
  BY <1>1, LimitValues
<1>3. CASE StartLoop(l)
  BY <1>1, <1>2, <1>3 DEF StartLoop
<1>4. CASE NextAttempt
  BY <1>1, <1>2, <1>4 DEF NextAttempt
<1> QED
  BY <1>3, <1>4

\* TypeInv holds at first.
LEMMA TypeInvInit == Init => TypeInv
<1> SUFFICES ASSUME Init PROVE TypeInv
  OBVIOUS
<1>1. dir \in [Plans -> Directories]
  BY DEF Init, Directories
<1>2. TypeOK
  BY <1>1 DEF Init, TypeOK, Locations, ChunkLocations, Loops
<1> QED
  BY <1>2 DEF Init, TypeInv, PlanInHand, ChunkInHand, OrphansAlone, TextOfThePlan, PlanLocations,
              ChunkLocations

\* The plan files and what is in hand are left alone.
LEMMA QuietStep ==
  ASSUME TypeInv,
         UNCHANGED <<dir, plan, chunk, orphans>>,
         pc' \in PlanLocations => pc \in PlanLocations,
         pc' \in ChunkLocations => pc \in ChunkLocations,
         pc' \in {"build", "tick", "write"} => todo' \subseteq Boxes(plan),
         pc' \in {"tick", "write"} => new_text' \subseteq Boxes(plan)
  PROVE  (PlanInHand /\ ChunkInHand /\ OrphansAlone /\ TextOfThePlan)'
BY DEF TypeInv, PlanInHand, ChunkInHand, OrphansAlone, TextOfThePlan, In, Boxes

\* Every step keeps TypeInv.
LEMMA TypeInvStep == TypeInv /\ [Next]_vars => TypeInv'
<1> SUFFICES ASSUME TypeInv, [Next]_vars PROVE TypeInv'
  OBVIOUS
<1> USE DEF TypeInv
<1> DEFINE Rest == (PlanInHand /\ ChunkInHand /\ OrphansAlone /\ TextOfThePlan)'
<1>a. pc \in ChunkLocations => pc \in PlanLocations
  BY DEF PlanLocations
<1>b. Builds \subseteq Items
  BY BuildsAssumption
<1>c. \A p : Boxes(p) \subseteq Items
  BY DEF Boxes
<1>1. CASE FindPlan
  <2>1. pc = "plans" /\ pc' \in {"next", "exit"}
        /\ UNCHANGED <<checked, emptied, broken, chunk, loop, attempt, builds, orphans, history>>
    BY <1>1 DEF FindPlan
  <2>2. dir' \in [Plans -> Directories] /\ \A t \in orphans : dir'[t[1]] = "active" => In("active")' = {t[1]}
    <3>1. CASE UNCHANGED dir
      BY <3>1 DEF TypeOK, OrphansAlone, In
    <3>2. CASE \E p \in Plans : IsPromoted(p) /\ dir' = [dir EXCEPT ![p] = "active"]
      <4>1. PICK p \in Plans : IsPromoted(p) /\ dir' = [dir EXCEPT ![p] = "active"]
        BY <3>2
      <4>2. dir \in [Plans -> Directories] /\ \A q \in Plans : dir[q] # "active"
        BY <4>1 DEF TypeOK, IsPromoted, In
      <4>3. In("active")' = {p}
        BY <4>1, <4>2 DEF In
      <4>4. dir' \in [Plans -> Directories]
        BY <4>1, <4>2 DEF Directories
      <4>5. \A t \in orphans : t[1] \in Plans
        BY DEF TypeOK
      <4> QED
        BY <4>3, <4>4, <4>5 DEF In
    <3> QED
      BY <1>1, <3>1, <3>2 DEF FindPlan
  <2>3. plan' \in Plans \cup {NoPlan} /\ (pc' = "next" => plan' \in Plans /\ In("active")' = {plan'})
    BY <1>1 DEF FindPlan, TypeOK, In
  <2> QED
    BY <2>1, <2>2, <2>3
       DEF TypeOK, PlanInHand, ChunkInHand, OrphansAlone, TextOfThePlan, PlanLocations,
           ChunkLocations, Locations, builds, history
<1>2. CASE NoMorePlans \/ CannotReadPlan
  <2>1. pc' = "exit" /\ UNCHANGED <<files, plan, chunk, loop, attempt, builds, orphans, history>>
    BY <1>2 DEF NoMorePlans, CannotReadPlan
  <2>2. Rest
    BY <2>1, QuietStep DEF PlanLocations, ChunkLocations, files
  <2> QED
    BY <2>1, <2>2 DEF TypeOK, files, builds, history, Locations, ChunkLocations
<1>3. CASE SelectChunk
  <2>1. pc = "next" /\ pc' = "exec" /\ chunk' \in ChunksOf[plan]
        /\ loop' = "first" /\ attempt' = 1 /\ execs' = 1
        /\ UNCHANGED <<files, plan, builds, orphans, finished, reopened>>
    BY <1>3 DEF SelectChunk
  <2>2. plan \in Plans /\ In("active") = {plan}
    BY <2>1 DEF PlanInHand, PlanLocations
  <2>3. chunk' \in Nat
    BY <2>1, <2>2, ChunksAssumption
  <2>4. 1 \in 1..Limit["first"]
    <3>1. Limit["first"] = MaxRetries /\ MaxRetries \in Nat /\ MaxRetries # 0
      BY LimitValues, RetriesAssumption
    <3>2. 1 \in 1..MaxRetries
      BY <3>1
    <3> QED
      BY <3>1, <3>2
  <2>5. TypeOK'
    BY <2>1, <2>3, <2>4 DEF TypeOK, files, builds, Locations, ChunkLocations, Loops
  <2>6. Rest
    BY <2>1, <2>2 DEF PlanInHand, ChunkInHand, OrphansAlone, TextOfThePlan, files, In
  <2> QED
    BY <2>5, <2>6
<1>4. CASE FilePlan
  <2>1. pc = "next" /\ pc' = "plans" /\ dir' = [dir EXCEPT ![plan] = "completed"]
        /\ UNCHANGED <<checked, emptied, broken, plan, chunk, loop, attempt, builds, orphans, history>>
    BY <1>4 DEF FilePlan
  <2>2. plan \in Plans /\ In("active") = {plan}
    BY <2>1 DEF PlanInHand, PlanLocations
  <2>3. dir' \in [Plans -> Directories] /\ In("active")' = {}
    BY <2>1, <2>2 DEF TypeOK, Directories, In
  <2>4. TypeOK'
    BY <2>1, <2>3 DEF TypeOK, builds, history, Locations, ChunkLocations
  <2>5. \A t \in orphans : t[1] \in Plans
    BY DEF TypeOK
  <2>6. Rest
    BY <2>1, <2>3, <2>5 DEF PlanInHand, ChunkInHand, OrphansAlone, TextOfThePlan, PlanLocations,
                          ChunkLocations, In
  <2> QED
    BY <2>4, <2>6
<1>5. ASSUME pc \in ChunkLocations, NEW l \in Loops, StartLoop(l) \/ NextAttempt,
             todo' \subseteq Builds,
             UNCHANGED <<files, plan, chunk, new_text, orphans, finished, reopened>>
      PROVE  TypeInv'
  <2>1. /\ pc' \in {"exec", "exit"}
        /\ loop' \in Loops /\ attempt' \in Nat /\ execs' \in Nat
        /\ pc' = "exec" => attempt' \in 1..Limit[loop']
    BY <1>5, LoopStep
  <2>2. TypeOK'
    BY <1>5, <2>1 DEF TypeOK, files, Locations, ChunkLocations
  <2>3. Rest
    BY <1>5, <2>1, <1>a, QuietStep DEF files, PlanLocations, ChunkLocations
  <2> QED
    BY <2>2, <2>3
<1>6. CASE CodexFails
  <2>1. pc \in ChunkLocations /\ NextAttempt /\ todo' \subseteq Builds
        /\ UNCHANGED <<files, plan, chunk, new_text, orphans, finished, reopened>>
    BY <1>6 DEF CodexFails, ChunkLocations, builds, TypeOK
  <2> QED
    BY <2>1, <1>5 DEF Loops
<1>7. CASE BuildFails
  <2>1. pc \in ChunkLocations /\ todo' \subseteq Builds
        /\ UNCHANGED <<files, plan, chunk, new_text, orphans, finished, reopened>>
    BY <1>7 DEF BuildFails, ChunkLocations
  <2>2. \E l \in Loops : StartLoop(l) \/ NextAttempt
    BY <1>7 DEF BuildFails, AfterBuildFailure, Loops
  <2> QED
    BY <2>1, <2>2, <1>5
<1>8. CASE ChunkIncomplete
  <2>1. pc \in ChunkLocations /\ todo' \subseteq Builds
        /\ UNCHANGED <<files, plan, chunk, builds, new_text, orphans, finished, reopened>>
    BY <1>8 DEF ChunkIncomplete, ChunkLocations, builds, TypeOK
  <2>2. CASE \E l \in Loops : StartLoop(l) \/ NextAttempt
    BY <2>1, <2>2, <1>5
  <2>3. CASE pc' = "exit" /\ UNCHANGED <<loop, attempt, execs>>
    <3>1. Rest
      BY <2>1, <2>3, QuietStep DEF files, PlanLocations, ChunkLocations
    <3> QED
      BY <2>1, <2>3, <3>1 DEF TypeOK, files, builds, Locations, ChunkLocations
  <2> QED
    BY <1>8, <2>2, <2>3 DEF ChunkIncomplete, Loops
<1>9. ASSUME CodexSucceeds \/ ChunkDone PROVE TypeInv'
  <2>1. pc \in ChunkLocations /\ pc' \in {"exit", "verify", "build", "next"}
        /\ UNCHANGED <<files, plan, chunk, loop, attempt, new_text, orphans, execs>>
        /\ (pc' \in ChunkLocations => attempt \in 1..Limit[loop])
    BY <1>9 DEF CodexSucceeds, ChunkDone, ChunkLocations, builds, history, TypeOK
  <2>2. todo' \subseteq Builds /\ finished' \subseteq Plans \X Nat /\ reopened' \subseteq finished'
    <3>1. plan \in Plans /\ chunk \in Nat
      BY <2>1, <1>a DEF PlanInHand, TypeOK
    <3> QED
      BY <1>9, <3>1 DEF CodexSucceeds, ChunkDone, UncheckedBuilds, builds, history, TypeOK
  <2>3. pc' = "build" => todo' \subseteq Boxes(plan)
    BY <1>9 DEF CodexSucceeds, ChunkDone, UncheckedBuilds, Unchecked, ChunkItems, Boxes
  <2>4. Rest
    BY <2>1, <2>3, <1>a, QuietStep DEF files, PlanLocations, ChunkLocations
  <2> QED
    BY <2>1, <2>2, <2>4 DEF TypeOK, files, Locations, ChunkLocations
<1>10. ASSUME NEW i \in todo, BuildPasses(i) PROVE TypeInv'
  <2>1. pc = "build" /\ pc' \in {"exit", "build", "verify", "tick"} /\ todo' = todo \ {i}
        /\ i \in Items /\ UNCHANGED <<files, plan, chunk, loop, attempt, orphans, history>>
    BY <1>10, <1>b DEF BuildPasses, BackToBuilds, TypeOK
  <2>2. pc' = "tick" => new_text' = (checked \cap Boxes(plan)) \cup {i}
    BY <1>10 DEF BuildPasses, BackToBuilds
  <2>3. new_text' \subseteq Items
    BY <1>10, <2>1, <1>c DEF BuildPasses, TypeOK
  <2>4. TypeOK'
    BY <2>1, <2>3 DEF TypeOK, files, history, Locations, ChunkLocations
  <2>5. todo \subseteq Boxes(plan)
    BY <2>1 DEF TextOfThePlan
  <2>6. Rest
    BY <1>10, <2>1, <2>2, <2>5, QuietStep DEF files, PlanLocations, ChunkLocations
  <2> QED
    BY <2>4, <2>6
<1>16. CASE TruncatePlan
  <2>1. pc = "tick" /\ pc' = "write"
        /\ UNCHANGED <<dir, checked, plan, chunk, loop, attempt, todo, new_text, orphans, history>>
    BY <1>16 DEF TruncatePlan, builds
  <2>2. emptied' \subseteq Plans /\ broken' \subseteq Plans
    BY <1>16, <2>1 DEF TruncatePlan, TypeOK, PlanInHand, PlanLocations, ChunkLocations
  <2>3. attempt \in 1..Limit[loop]
    BY <2>1 DEF TypeOK, ChunkLocations
  <2>4. todo \subseteq Boxes(plan) /\ new_text \subseteq Boxes(plan)
    BY <2>1 DEF TextOfThePlan
  <2>5. Rest
    BY <2>1, <2>4, QuietStep DEF PlanLocations, ChunkLocations
  <2> QED
    BY <2>1, <2>2, <2>3, <2>5 DEF TypeOK, history, Locations, ChunkLocations
<1>11. CASE WriteTick
  <2>1. pc = "write" /\ pc' \in {"verify", "build"}
        /\ UNCHANGED <<dir, broken, plan, chunk, loop, attempt, todo, orphans, history>>
    BY <1>11 DEF WriteTick, BackToBuilds
  <2>2. checked' \subseteq Items /\ new_text' \subseteq Items /\ emptied' \subseteq Plans
    BY <1>11 DEF WriteTick, TypeOK
  <2>3. attempt \in 1..Limit[loop]
    BY <2>1 DEF TypeOK, ChunkLocations
  <2>4. todo \subseteq Boxes(plan)
    BY <2>1 DEF TextOfThePlan
  <2>5. Rest
    BY <2>1, <2>4, QuietStep DEF PlanLocations, ChunkLocations
  <2> QED
    BY <2>1, <2>2, <2>3, <2>5 DEF TypeOK, history, Locations, ChunkLocations
<1>12. ASSUME \/ \E i \in Items : CodexTicks(i) \/ CodexUnticks(i)
              \/ \E p \in Plans : CodexEdits(p)
              \/ UNCHANGED vars
       PROVE  TypeInv'
  <2>1. UNCHANGED <<dir, pc, plan, chunk, loop, attempt, todo, new_text, orphans, execs, finished>>
    BY <1>12 DEF CodexTicks, CodexUnticks, CodexEdits, OfHarness, OfCode, history, builds, vars, files
  <2>2. checked' \subseteq Items /\ broken' \subseteq Plans /\ emptied' \subseteq Plans
        /\ reopened' \subseteq finished
    BY <1>12 DEF CodexTicks, CodexUnticks, CodexEdits, OfHarness, history, vars, files, TypeOK
  <2>3. Rest
    BY <2>1, QuietStep DEF TextOfThePlan
  <2> QED
    BY <2>1, <2>2, <2>3 DEF TypeOK
<1>13. CASE OrphanEnds
  <2>1. UNCHANGED <<files, pc, plan, chunk, loop, attempt, todo, new_text, history>>
        /\ orphans' \subseteq orphans
    BY <1>13 DEF OrphanEnds, OfHarness, OfCode, builds
  <2> QED
    BY <2>1 DEF TypeOK, files, history, PlanInHand, ChunkInHand, OrphansAlone, TextOfThePlan, In
<1>14. ASSUME NEW p \in Plans, Author(p) PROVE TypeInv'
  <2>1. UNCHANGED <<checked, emptied, broken, pc, plan, chunk, loop, attempt, todo, new_text,
                    orphans, history>>
        /\ dir' = [dir EXCEPT ![p] = "planning"] /\ dir[p] = "absent"
    BY <1>14 DEF Author, OfHarness, OfCode, builds
  <2>2. dir' \in [Plans -> Directories] /\ In("active")' = In("active")
    BY <2>1 DEF TypeOK, Directories, In
  <2>3. \A t \in orphans : dir'[t[1]] = "active" => dir[t[1]] = "active"
    BY <2>1 DEF TypeOK
  <2>4. TypeOK'
    BY <2>1, <2>2 DEF TypeOK, history
  <2>5. Rest
    BY <2>1, <2>2, <2>3 DEF PlanInHand, ChunkInHand, OrphansAlone, TextOfThePlan
  <2> QED
    BY <2>4, <2>5
<1>15. CASE Rerun
  <2>1. /\ pc' = "plans" /\ plan' = NoPlan /\ chunk' = 0 /\ loop' = "first" /\ attempt' = 0
        /\ todo' = {} /\ new_text' = {} /\ execs' = 0 /\ finished' = {} /\ reopened' = {}
        /\ UNCHANGED <<dir, checked, emptied, broken>>
    BY <1>15 DEF Rerun, files
  <2>2. \A t \in orphans' : t \in Plans \X Nat /\ (dir[t[1]] = "active" => In("active") = {t[1]})
    <3>1. CASE pc = "exec"
      <4>1. plan \in Plans /\ In("active") = {plan} /\ chunk \in Nat
        BY <3>1 DEF PlanInHand, PlanLocations, ChunkLocations, TypeOK
      <4>2. orphans' = orphans \cup {<<plan, chunk>>}
        BY <1>15, <3>1 DEF Rerun
      <4> QED
        BY <4>1, <4>2 DEF TypeOK, OrphansAlone
    <3>2. CASE pc # "exec"
      BY <1>15, <3>2 DEF Rerun, TypeOK, OrphansAlone
    <3> QED
      BY <3>1, <3>2
  <2>3. TypeOK'
    BY <2>1, <2>2 DEF TypeOK, Locations, ChunkLocations, Loops
  <2>4. Rest
    BY <2>1, <2>2 DEF PlanInHand, ChunkInHand, OrphansAlone, TextOfThePlan, PlanLocations,
                      ChunkLocations, In
  <2> QED
    BY <2>3, <2>4
<1> QED
  BY <1>1, <1>2, <1>3, <1>4, <1>6, <1>7, <1>8, <1>9, <1>10, <1>11, <1>12, <1>13, <1>14, <1>15,
     <1>16 DEF Next, HarnessStep, Environment

-----------------------------------------------------------------------------
(***************************************************************************)
(* The budget of a chunk.                                                  *)
(***************************************************************************)

\* Steps that start no codex process.
LEMMA NoExecStep ==
  ASSUME SpendingInv,
         pc' \in ChunkLocations => pc \in ChunkLocations,
         UNCHANGED <<loop, attempt, execs>>
  PROVE  SpendingInv'
BY DEF SpendingInv, Spending, ExecBudget

\* A loop that is entered has found at most the cost of the loops before it.
LEMMA SpendingStep == TypeInv /\ SpendingInv /\ [Next]_vars => SpendingInv'
<1> SUFFICES ASSUME TypeInv, SpendingInv, [Next]_vars PROVE SpendingInv'
  OBVIOUS
<1>t. TypeOK /\ execs \in Nat /\ attempt \in Nat /\ loop \in Loops
      /\ MaxRetries \in Nat /\ BuildRepairMax \in Nat
  BY RetriesAssumption DEF TypeInv, TypeOK
<1>n. pc \in ChunkLocations => attempt <= Limit[loop]
  <2>1. Limit[loop] \in Nat
    BY <1>t, LimitValues
  <2> QED
    BY <1>t, <2>1 DEF TypeOK
<1>s. Spending /\ execs <= 2 * MaxRetries + 2 * BuildRepairMax
  BY DEF SpendingInv, ExecBudget
<1>1. ASSUME pc \in ChunkLocations, NextAttempt PROVE SpendingInv'
  <2>1. CASE attempt < Limit[loop] /\ attempt' = attempt + 1 /\ execs' = execs + 1 /\ loop' = loop
    <3>1. CASE loop = "first"
      <4>a. Limit[loop] = MaxRetries
        BY <3>1, LimitValues
      <4>b. execs <= attempt
        BY <1>s, <1>1, <3>1 DEF Spending
      <4>1. execs' <= attempt' /\ attempt' <= MaxRetries
        BY <1>t, <2>1, <4>a, <4>b
      <4>2. execs' <= 2 * MaxRetries + 2 * BuildRepairMax
        BY <1>t, <2>1, <4>1
      <4> QED
        BY <2>1, <3>1, <4>1, <4>2 DEF SpendingInv, Spending, ExecBudget
    <3>2. CASE loop = "build repair"
      <4>a. Limit[loop] = BuildRepairMax
        BY <3>2, LimitValues
      <4>b. execs <= MaxRetries + attempt
        BY <1>s, <1>1, <3>2 DEF Spending
      <4>1. execs' <= MaxRetries + attempt' /\ attempt' <= BuildRepairMax
        BY <1>t, <2>1, <4>a, <4>b
      <4>2. execs' <= 2 * MaxRetries + 2 * BuildRepairMax
        BY <1>t, <2>1, <4>1
      <4> QED
        BY <2>1, <3>2, <4>1, <4>2 DEF SpendingInv, Spending, ExecBudget
    <3>3. CASE loop = "incomplete repair"
      <4>a. Limit[loop] = MaxRetries
        BY <3>3, LimitValues
      <4>b. execs <= MaxRetries + BuildRepairMax + attempt
        BY <1>s, <1>1, <3>3 DEF Spending
      <4>1. execs' <= MaxRetries + BuildRepairMax + attempt' /\ attempt' <= MaxRetries
        BY <1>t, <2>1, <4>a, <4>b
      <4>2. execs' <= 2 * MaxRetries + 2 * BuildRepairMax
        BY <1>t, <2>1, <4>1
      <4> QED
        BY <2>1, <3>3, <4>1, <4>2 DEF SpendingInv, Spending, ExecBudget
    <3>4. CASE loop = "last build repair"
      <4>a. Limit[loop] = BuildRepairMax
        BY <3>4, LimitValues
      <4>b. execs <= 2 * MaxRetries + BuildRepairMax + attempt
        BY <1>s, <1>1, <3>4 DEF Spending
      <4>1. execs' <= 2 * MaxRetries + BuildRepairMax + attempt' /\ attempt' <= BuildRepairMax
        BY <1>t, <2>1, <4>a, <4>b
      <4>2. execs' <= 2 * MaxRetries + 2 * BuildRepairMax
        BY <1>t, <2>1, <4>1
      <4> QED
        BY <2>1, <3>4, <4>1, <4>2 DEF SpendingInv, Spending, ExecBudget
    <3> QED
      BY <1>t, <3>1, <3>2, <3>3, <3>4 DEF Loops
  <2>2. CASE UNCHANGED <<loop, attempt, execs>> /\ pc' = "exit"
    BY <2>2, NoExecStep DEF ChunkLocations
  <2> QED
    BY <1>1, <2>1, <2>2 DEF NextAttempt
<1>2. ASSUME pc \in ChunkLocations, NEW l \in Loops, StartLoop(l),
             \/ loop = "first" /\ l = "build repair"
             \/ loop \in {"first", "build repair"} /\ l = "incomplete repair"
             \/ loop = "incomplete repair" /\ l = "last build repair"
      PROVE  SpendingInv'
  <2>1. CASE Limit[l] > 0 /\ loop' = l /\ attempt' = 1 /\ execs' = execs + 1
    <3>1. CASE loop = "first" /\ l = "build repair"
      <4>a. BuildRepairMax > 0
        BY <2>1, <3>1, LimitValues
      <4>b. execs <= MaxRetries
        <5>1. execs <= attempt /\ attempt <= Limit[loop] /\ Limit[loop] = MaxRetries
          BY <1>s, <1>n, <1>2, <3>1, LimitValues DEF Spending
        <5> QED
          BY <1>t, <5>1
      <4>1. execs' <= MaxRetries + attempt' /\ BuildRepairMax > 0
        BY <1>t, <2>1, <4>a, <4>b
      <4>2. execs' <= 2 * MaxRetries + 2 * BuildRepairMax
        BY <1>t, <2>1, <4>1
      <4> QED
        BY <2>1, <3>1, <4>1, <4>2 DEF SpendingInv, Spending, ExecBudget
    <3>2. CASE loop \in {"first", "build repair"} /\ l = "incomplete repair"
      <4>a. MaxRetries > 0
        BY <2>1, <3>2, LimitValues
      <4>b. execs <= MaxRetries + BuildRepairMax
        <5>1. CASE loop = "first"
          <6>1. execs <= attempt /\ attempt <= Limit[loop] /\ Limit[loop] = MaxRetries
            BY <1>s, <1>n, <1>2, <5>1, LimitValues DEF Spending
          <6> QED
            BY <1>t, <6>1
        <5>2. CASE loop = "build repair"
          <6>1. execs <= MaxRetries + attempt /\ attempt <= Limit[loop] /\ Limit[loop] = BuildRepairMax
            BY <1>s, <1>n, <1>2, <5>2, LimitValues DEF Spending
          <6> QED
            BY <1>t, <6>1
        <5> QED
          BY <3>2, <5>1, <5>2
      <4>1. execs' <= MaxRetries + BuildRepairMax + attempt' /\ MaxRetries > 0
        BY <1>t, <2>1, <4>a, <4>b
      <4>2. execs' <= 2 * MaxRetries + 2 * BuildRepairMax
        BY <1>t, <2>1, <4>1
      <4> QED
        BY <2>1, <3>2, <4>1, <4>2 DEF SpendingInv, Spending, ExecBudget
    <3>3. CASE loop = "incomplete repair" /\ l = "last build repair"
      <4>a. BuildRepairMax > 0
        BY <2>1, <3>3, LimitValues
      <4>b. execs <= 2 * MaxRetries + BuildRepairMax
        <5>1. /\ execs <= MaxRetries + BuildRepairMax + attempt
              /\ attempt <= Limit[loop] /\ Limit[loop] = MaxRetries
          BY <1>s, <1>n, <1>2, <3>3, LimitValues DEF Spending
        <5> QED
          BY <1>t, <5>1
      <4>1. execs' <= 2 * MaxRetries + BuildRepairMax + attempt' /\ BuildRepairMax > 0
        BY <1>t, <2>1, <4>a, <4>b
      <4>2. execs' <= 2 * MaxRetries + 2 * BuildRepairMax
        BY <1>t, <2>1, <4>1
      <4> QED
        BY <2>1, <3>3, <4>1, <4>2 DEF SpendingInv, Spending, ExecBudget
    <3> QED
      BY <1>2, <3>1, <3>2, <3>3
  <2>2. CASE UNCHANGED <<loop, attempt, execs>> /\ pc' = "exit"
    BY <2>2, NoExecStep DEF ChunkLocations
  <2> QED
    BY <1>2, <2>1, <2>2 DEF StartLoop
<1>3. CASE SelectChunk
  <2>1. pc' = "exec" /\ loop' = "first" /\ attempt' = 1 /\ execs' = 1
    BY <1>3 DEF SelectChunk
  <2>2. 1 <= 2 * MaxRetries + 2 * BuildRepairMax
    BY <1>t, RetriesAssumption
  <2>3. ExecBudget'
    BY <2>1, <2>2 DEF ExecBudget
  <2>4. execs' <= attempt'
    BY <2>1
  <2>5. Spending'
    BY <2>1, <2>4 DEF Spending
  <2> QED
    BY <2>3, <2>5 DEF SpendingInv
<1>4. CASE CodexFails
  BY <1>1, <1>4 DEF CodexFails, ChunkLocations
<1>5. CASE BuildFails
  BY <1>1, <1>2, <1>5 DEF BuildFails, AfterBuildFailure, ChunkLocations, Loops
<1>6. CASE ChunkIncomplete
  <2>1. CASE pc' = "exit" /\ UNCHANGED <<loop, attempt, execs>>
    BY <2>1, NoExecStep DEF ChunkLocations
  <2>2. CASE ~ (pc' = "exit" /\ UNCHANGED <<loop, attempt, execs>>)
    BY <1>1, <1>2, <1>6, <2>2 DEF ChunkIncomplete, ChunkLocations, Loops
  <2> QED
    BY <2>1, <2>2
<1>7. ASSUME \/ FindPlan \/ NoMorePlans \/ CannotReadPlan \/ FilePlan
             \/ CodexSucceeds \/ TruncatePlan \/ WriteTick \/ ChunkDone
             \/ \E i \in todo : BuildPasses(i)
      PROVE  SpendingInv'
  <2>1. UNCHANGED <<loop, attempt, execs>> /\ (pc' \in ChunkLocations => pc \in ChunkLocations)
    BY <1>7 DEF FindPlan, NoMorePlans, CannotReadPlan, FilePlan, CodexSucceeds, TruncatePlan, WriteTick,
                ChunkDone, BuildPasses, BackToBuilds, history, ChunkLocations
  <2> QED
    BY <2>1, NoExecStep
<1>8. ASSUME \/ OrphanEnds \/ UNCHANGED vars
             \/ \E i \in Items : CodexTicks(i) \/ CodexUnticks(i)
             \/ \E p \in Plans : CodexEdits(p) \/ Author(p)
      PROVE  SpendingInv'
  <2>1. UNCHANGED <<pc, loop, attempt, execs>>
    BY <1>8 DEF OrphanEnds, CodexTicks, CodexUnticks, CodexEdits, Author, OfHarness, OfCode, history, vars
  <2> QED
    BY <2>1, NoExecStep
<1>9. CASE Rerun
  <2>1. pc' = "plans" /\ execs' = 0
    BY <1>9 DEF Rerun
  <2>2. 0 <= 2 * MaxRetries + 2 * BuildRepairMax
    BY <1>t
  <2> QED
    BY <2>1, <2>2 DEF SpendingInv, Spending, ExecBudget, ChunkLocations
<1> QED
  BY <1>3, <1>4, <1>5, <1>6, <1>7, <1>8, <1>9 DEF Next, HarnessStep, Environment

\* SpendingInv holds at first.
LEMMA SpendingInit == Init => SpendingInv
<1> SUFFICES ASSUME Init PROVE SpendingInv
  OBVIOUS
<1>1. pc = "plans" /\ execs = 0
  BY DEF Init
<1>2. 0 <= 2 * MaxRetries + 2 * BuildRepairMax
  BY RetriesAssumption
<1> QED
  BY <1>1, <1>2 DEF SpendingInv, Spending, ExecBudget, ChunkLocations

-----------------------------------------------------------------------------
(***************************************************************************)
(* Verified chunks.                                                        *)
(***************************************************************************)

\* Steps that keep the ticked boxes of the verified chunks.
LEMMA FinishedKept ==
  ASSUME FinishedInv, Closed' = Closed,
         \A t \in Closed : Unchecked(t[1], t[2])' = {},
         pc' \in ChunkLocations => pc \in ChunkLocations,
         UNCHANGED <<plan, chunk>>,
         pc' \in {"tick", "write"} =>
           \A t \in Closed : t[1] = plan => ChunkItems(t[1], t[2]) \subseteq new_text'
  PROVE  FinishedInv'
BY DEF FinishedInv, ChunkItems

\* Every step keeps FinishedInv.
LEMMA FinishedStep ==
  ASSUME EveryChunkHasCriteria, TypeInv, FinishedInv, [Next]_vars
  PROVE  FinishedInv' /\ (SelectChunk => <<plan, chunk'>> \notin finished \ reopened)
<1>f. \A t \in Closed : Unchecked(t[1], t[2]) = {}
  BY DEF FinishedInv
<1>c. UNCHANGED <<finished, reopened>> => Closed' = Closed
  BY DEF Closed
<1>1. ASSUME SelectChunk PROVE FinishedInv' /\ <<plan, chunk'>> \notin finished \ reopened
  <2>1. UNCHANGED <<checked, plan, finished, reopened>> /\ pc = "next" /\ pc' = "exec"
        /\ chunk' \in ChunksOf[plan] /\ ~ ChunkCompleted(plan, chunk')
    BY <1>1 DEF SelectChunk, IsNextIncompleteChunk, Incomplete, ParsedChunks, files
  <2>2. plan \in Plans
    BY <2>1 DEF TypeInv, PlanInHand, PlanLocations
  <2>3. Unchecked(plan, chunk') # {}
    BY <2>1, <2>2 DEF EveryChunkHasCriteria, ChunkCompleted
  <2>4. <<plan, chunk'>> \notin Closed
    BY <1>f, <2>3
  <2> QED
    BY <2>1, <2>4, <1>f DEF FinishedInv, Closed, Unchecked, ChunkItems
<1>2. ASSUME ChunkDone PROVE FinishedInv'
  <2>1. finished' = finished \cup {<<plan, chunk>>} /\ reopened' = reopened \ {<<plan, chunk>>}
        /\ pc' = "next" /\ UNCHANGED <<checked, plan, chunk>> /\ Unchecked(plan, chunk) = {}
    BY <1>2 DEF ChunkDone, Verified, files
  <2>2. \A t \in Closed' : Unchecked(t[1], t[2])' = {}
    BY <1>f, <2>1 DEF Closed, Unchecked
  <2>3. pc' \notin ChunkLocations /\ pc' \notin {"tick", "write"}
    BY <2>1 DEF ChunkLocations
  <2> QED
    BY <2>2, <2>3 DEF FinishedInv
<1>3. ASSUME NEW i \in todo, BuildPasses(i) PROVE FinishedInv'
  <2>1. UNCHANGED <<checked, finished, reopened, plan, chunk>> /\ pc = "build" /\ pc' # "write"
        /\ (pc' = "tick" => new_text' = (checked \cap Boxes(plan)) \cup {i})
    BY <1>3 DEF BuildPasses, BackToBuilds, files, history
  <2>2. \A t \in Closed : t[1] = plan => ChunkItems(t[1], t[2]) \subseteq checked \cap Boxes(plan)
    BY <1>f DEF Unchecked, ChunkItems, Boxes
  <2> QED
    BY <1>f, <1>c, <2>1, <2>2, FinishedKept DEF ChunkLocations, Unchecked
<1>4. ASSUME WriteTick PROVE FinishedInv'
  <2>1. checked' = (checked \ Boxes(plan)) \cup new_text /\ pc = "write" /\ pc' \in {"verify", "build"}
        /\ UNCHANGED <<finished, reopened, plan, chunk>>
    BY <1>4 DEF WriteTick, BackToBuilds, history
  <2>2. \A t \in Closed : t[1] = plan => ChunkItems(t[1], t[2]) \subseteq new_text
    BY <2>1 DEF FinishedInv
  <2>3. \A t \in Closed : Unchecked(t[1], t[2])' = {}
    BY <1>f, <2>1, <2>2 DEF Unchecked, ChunkItems, Boxes
  <2>4. pc \in ChunkLocations /\ pc' \notin {"tick", "write"}
    BY <2>1 DEF ChunkLocations
  <2> QED
    BY <1>c, <2>1, <2>3, <2>4, FinishedKept
<1>11. ASSUME TruncatePlan PROVE FinishedInv'
  <2>1. UNCHANGED <<checked, finished, reopened, plan, chunk, new_text>> /\ pc = "tick" /\ pc' = "write"
    BY <1>11 DEF TruncatePlan, builds, history
  <2>2. \A t \in Closed : t[1] = plan => ChunkItems(t[1], t[2]) \subseteq new_text
    BY <2>1 DEF FinishedInv
  <2>3. pc \in ChunkLocations
    BY <2>1 DEF ChunkLocations
  <2> QED
    BY <1>f, <1>c, <2>1, <2>2, <2>3, FinishedKept DEF Unchecked
<1>5. ASSUME NEW i \in Items, CodexUnticks(i) PROVE FinishedInv'
  <2>1. /\ checked' = checked \ {i}
        /\ UNCHANGED <<pc, finished, plan, chunk, new_text>>
        /\ reopened' = reopened \cup ({<<i[1], i[2]>>} \cap finished)
    BY <1>5 DEF CodexUnticks, OfCode, builds
  <2>2. Closed' = Closed \ {<<i[1], i[2]>>}
    BY <2>1 DEF Closed
  <2>3. \A t \in Closed' : i \notin ChunkItems(t[1], t[2])
    <3>1. \A t \in Closed : t = <<t[1], t[2]>>
      BY DEF Closed, TypeInv, TypeOK
    <3> QED
      BY <2>2, <3>1 DEF ChunkItems
  <2>4. \A t \in Closed' : Unchecked(t[1], t[2])' = {}
    BY <1>f, <2>1, <2>2, <2>3 DEF Unchecked
  <2>5. pc' \in ChunkLocations => <<plan, chunk>>' \notin Closed'
    BY <2>1, <2>2 DEF FinishedInv
  <2>6. pc' \in {"tick", "write"} =>
          \A t \in Closed' : t[1] = plan' => ChunkItems(t[1], t[2])' \subseteq new_text'
    BY <2>1, <2>2 DEF FinishedInv, ChunkItems
  <2> QED
    BY <2>4, <2>5, <2>6 DEF FinishedInv
<1>6. ASSUME \/ \E i \in Items : CodexTicks(i)
             \/ \E p \in Plans : CodexEdits(p) \/ Author(p)
             \/ OrphanEnds
             \/ UNCHANGED vars
      PROVE  FinishedInv'
  <2>1. checked \subseteq checked' /\ UNCHANGED <<pc, finished, reopened, plan, chunk, new_text>>
    BY <1>6 DEF CodexTicks, CodexEdits, Author, OrphanEnds, OfHarness, OfCode, history, builds, files,
                vars
  <2>2. \A t \in Closed : Unchecked(t[1], t[2])' = {}
    BY <1>f, <2>1 DEF Unchecked
  <2> QED
    BY <1>c, <2>1, <2>2, FinishedKept DEF FinishedInv
<1>7. ASSUME Rerun PROVE FinishedInv'
  <2>1. Closed' = {} /\ pc' = "plans"
    BY <1>7 DEF Rerun, Closed
  <2>2. pc' \notin ChunkLocations /\ pc' \notin {"tick", "write"}
    BY <2>1 DEF ChunkLocations
  <2> QED
    BY <2>1, <2>2 DEF FinishedInv
<1>8. ASSUME \/ FindPlan \/ NoMorePlans \/ CannotReadPlan \/ FilePlan
      PROVE  FinishedInv'
  <2>1. UNCHANGED <<checked, finished, reopened>> /\ pc' \in {"next", "exit", "plans"}
    BY <1>8 DEF FindPlan, NoMorePlans, CannotReadPlan, FilePlan, files, history
  <2> QED
    BY <1>f, <1>c, <2>1 DEF FinishedInv, ChunkLocations, Unchecked, ChunkItems
<1>9. ASSUME CodexFails \/ CodexSucceeds \/ BuildFails \/ ChunkIncomplete
      PROVE  FinishedInv'
  <2>1. UNCHANGED <<checked, finished, reopened, plan, chunk>> /\ pc \in ChunkLocations
        /\ pc' \notin {"tick", "write"}
    BY <1>9 DEF CodexFails, CodexSucceeds, BuildFails, ChunkIncomplete, AfterBuildFailure, StartLoop,
                NextAttempt, ChunkLocations, files, history
  <2> QED
    BY <1>f, <1>c, <2>1, FinishedKept DEF Unchecked
<1>10. SelectChunk => <<plan, chunk'>> \notin finished \ reopened
  BY <1>1
<1>12. FinishedInv'
  BY <1>1, <1>2, <1>3, <1>4, <1>5, <1>6, <1>7, <1>8, <1>9, <1>11 DEF Next, HarnessStep, Environment
<1> QED
  BY <1>10, <1>12

-----------------------------------------------------------------------------
(***************************************************************************)
(* The harness implements PlanLifecycle.                                   *)
(***************************************************************************)

\* A plan without an incomplete chunk is done in the sense of PlanLifecycle.
LEMMA NothingIncompleteIsDone ==
  ASSUME NEW p \in Plans, Incomplete(p) = {}
  PROVE  Lifecycle!PlanDone(p) \/ p \in emptied
BY DEF Incomplete, ParsedChunks, ChunkCompleted, Unchecked, ChunkItems, Lifecycle!PlanDone

\* Work on the only active plan: its boxes change, and no others.
LEMMA WorkStep ==
  ASSUME NEW p \in Plans, In("active") = {p}, UNCHANGED dir,
         checked \ Boxes(p) = checked' \ Boxes(p), emptied \ {p} = emptied' \ {p}
  PROVE  Lifecycle!Next
<1>1. checked' = (checked \ Boxes(p)) \cup (checked' \cap Boxes(p))
  OBVIOUS
<1>2. checked' \cap Boxes(p) \in SUBSET Boxes(p)
  OBVIOUS
<1>4. emptied' \in {emptied \cup {p}, emptied \ {p}}
  BY Zenon
<1>3. Lifecycle!Work(p)
  BY <1>1, <1>2, <1>4 DEF Lifecycle!Work, Lifecycle!OnlyActive, In, Lifecycle!In, Boxes, Lifecycle!Boxes
<1> QED
  BY <1>3 DEF Lifecycle!Next

\* Every step does to the plan files what PlanLifecycle allows, or nothing.
LEMMA LifecycleStep == TypeInv /\ [Next]_vars => [Lifecycle!Next]_(Lifecycle!vars)
<1> SUFFICES ASSUME TypeInv, [Next]_vars PROVE Lifecycle!Next \/ UNCHANGED <<dir, checked, emptied>>
  BY DEF Lifecycle!vars
<1> USE DEF Lifecycle!Next
<1>1. CASE FindPlan
  BY <1>1 DEF FindPlan, IsPromoted, Lifecycle!Promote, In, Lifecycle!In
<1>2. CASE FilePlan
  <2>1. plan \in Plans /\ In("active") = {plan}
    BY <1>2 DEF FilePlan, TypeInv, PlanInHand, PlanLocations
  <2>2. Lifecycle!PlanDone(plan) \/ plan \in emptied
    BY <1>2, <2>1, NothingIncompleteIsDone DEF FilePlan
  <2>3. Lifecycle!Complete(plan)
    BY <1>2, <2>1, <2>2 DEF FilePlan, Lifecycle!Complete, Lifecycle!OnlyActive, In, Lifecycle!In
  <2> QED
    BY <2>1, <2>3
<1>3. CASE WriteTick
  <2>1. plan \in Plans /\ In("active") = {plan} /\ new_text \subseteq Boxes(plan)
    BY <1>3 DEF WriteTick, TypeInv, PlanInHand, TextOfThePlan, PlanLocations, ChunkLocations
  <2>2. UNCHANGED dir /\ checked \ Boxes(plan) = checked' \ Boxes(plan)
        /\ emptied \ {plan} = emptied' \ {plan}
    BY <1>3, <2>1 DEF WriteTick
  <2> QED
    BY <2>1, <2>2, WorkStep
<1>8. CASE TruncatePlan
  <2>1. plan \in Plans /\ In("active") = {plan}
    BY <1>8 DEF TruncatePlan, TypeInv, PlanInHand, PlanLocations, ChunkLocations
  <2>2. UNCHANGED <<dir, checked>> /\ emptied \ {plan} = emptied' \ {plan}
    BY <1>8 DEF TruncatePlan
  <2> QED
    BY <2>1, <2>2, WorkStep
<1>9. ASSUME NEW p \in Plans, CodexEdits(p) PROVE Lifecycle!Next \/ UNCHANGED <<dir, checked, emptied>>
  <2>1. In("active") = {p}
    BY <1>9 DEF CodexEdits, Writers, TypeInv, PlanInHand, OrphansAlone, PlanLocations, ChunkLocations
  <2>2. UNCHANGED <<dir, checked>> /\ emptied \ {p} = emptied' \ {p}
    BY <1>9 DEF CodexEdits
  <2> QED
    BY <2>1, <2>2, WorkStep
<1>4. ASSUME NEW i \in Items, CodexTicks(i) \/ CodexUnticks(i) PROVE Lifecycle!Next
  <2>1. i[1] \in Plans /\ In("active") = {i[1]}
    BY <1>4, ItemsAssumption
       DEF CodexTicks, CodexUnticks, Writers, TypeInv, PlanInHand, OrphansAlone, PlanLocations,
           ChunkLocations, ChunkItems
  <2>2. UNCHANGED <<dir, emptied>> /\ checked \ Boxes(i[1]) = checked' \ Boxes(i[1])
    BY <1>4 DEF CodexTicks, CodexUnticks, Boxes
  <2> QED
    BY <2>1, <2>2, WorkStep
<1>5. ASSUME NEW p \in Plans, Author(p) PROVE Lifecycle!Next
  BY <1>5 DEF Author, Lifecycle!Author
<1>6. CASE NoMorePlans \/ CannotReadPlan \/ SelectChunk \/ CodexFails \/ CodexSucceeds
           \/ BuildFails \/ ChunkDone \/ ChunkIncomplete \/ \E i \in todo : BuildPasses(i)
  BY <1>6 DEF NoMorePlans, CannotReadPlan, SelectChunk, CodexFails, CodexSucceeds, BuildFails,
              ChunkDone, ChunkIncomplete, BuildPasses, files
<1>7. CASE OrphanEnds \/ Rerun \/ UNCHANGED vars
  BY <1>7 DEF OrphanEnds, Rerun, vars, files
<1> QED
  BY <1>1, <1>2, <1>3, <1>4, <1>5, <1>6, <1>7, <1>8, <1>9 DEF Next, HarnessStep, Environment

-----------------------------------------------------------------------------

\* The invariants together.
LEMMA CodexInvariant == Spec => [](TypeInv /\ SpendingInv)
<1> DEFINE IInv == TypeInv /\ SpendingInv
<1>1. Init => IInv
  BY TypeInvInit, SpendingInit
<1>2. IInv /\ [Next]_vars => IInv'
  BY TypeInvStep, SpendingStep
<1> QED
  BY <1>1, <1>2, PTL DEF Spec

\* Every variable keeps its type, and no loop goes past its limit of attempts.
THEOREM TypeCorrect == Spec => []TypeOK
BY CodexInvariant, PTL DEF TypeInv

\* However builds and criteria fail in turn, a chunk costs at most what the four
\* retry loops allow once each.
THEOREM BudgetKept == Spec => []ExecBudget
BY CodexInvariant, PTL DEF SpendingInv

\* With a criterion in every chunk, a verified chunk is selected again in the same run
\* only if a left-over codex process of that chunk has unticked one of its boxes.
THEOREM CompletedChunksAreLeft ==
  ASSUME EveryChunkHasCriteria
  PROVE  Spec => CompletedChunkIsLeft
<1> DEFINE Left == SelectChunk => <<plan, chunk'>> \notin finished \ reopened
<1>1. Init => FinishedInv
  BY DEF Init, FinishedInv, Closed, ChunkLocations
<1>2. TypeInv /\ FinishedInv /\ [Next]_vars => FinishedInv' /\ [Left]_vars
  BY EveryChunkHasCriteria, FinishedStep
<1> QED
  BY <1>1, <1>2, CodexInvariant, PTL DEF Spec, CompletedChunkIsLeft

\* Harness mode with `codex exec` keeps the promise of PlanLifecycle.
THEOREM Refinement == Spec => KeepsLifecycle
<1>1. Init => Lifecycle!Init
  BY DEF Init, Lifecycle!Init
<1> QED
  BY <1>1, LifecycleStep, CodexInvariant, PTL DEF Spec, KeepsLifecycle, Lifecycle!Spec

=============================================================================
