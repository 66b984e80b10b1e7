-------------------------- MODULE PlanningRunProofs --------------------------
(***************************************************************************)
(* Proofs about PlanningRun, for every project, every number of features   *)
(* and every limit.                                                        *)
(*                                                                         *)
(* First what build_stage_dispatch_plan returns: dispatches with positive  *)
(* units, the skeleton's once at most and at the end, and none of the ones *)
(* that are injected later.                                                *)
(*                                                                         *)
(* The inductive invariants: TypeInv (types, and where the dispatch loop   *)
(* stands in its plan), LedgerInv (what the list of completed stages can   *)
(* hold, seen from the copy the loop has read once), EvidenceInv (what has *)
(* been seen of the file of the current dispatch), AnswerInv (the thread   *)
(* and the event of a waiting run, while its state is being written too)   *)
(* and PlanInv (what has been injected into the plan, and when).           *)
(***************************************************************************)
EXTENDS PlanningRun, Recursion, TLAPS, SequenceTheorems

(***************************************************************************)
(* The plan a run starts with.                                             *)
(***************************************************************************)

Skeleton == "exec_plan_skeleton"
Outline == "exec_plan_feature_outline"
Detail == "exec_plan_detail"

\* The stages build_stage_dispatch_plan appends before the skeleton.
EarlyStages ==
  {"classification", "brownfield_code_observation_extraction",
   "brownfield_observation_synthesis", "brownfield_gap_synthesis", "core_docs_check",
   "adaptive_docs_selection", "core_docs_presence_review", "product_completeness_review",
   "scope_structuring", "work_sizing", "plan_packing", "plan_review"}

StageDispatch(S) == {d \in [stage : S, unit : Nat \ {0}] : d.stage = Skeleton => d.unit = 1}

Early == StageDispatch(EarlyStages)
InBase == StageDispatch(EarlyStages \cup {Skeleton})

\* The stages of a project, with the skeleton as the last one.
LEMMA SkeletonIsLastStage ==
  ASSUME NEW mode
  PROVE  LET stages == Opening(mode) \o Closing
         IN  /\ Len(stages) \in Nat \ {0}
             /\ \A n \in 1 .. Len(stages) - 1 : stages[n] \in EarlyStages
             /\ stages[Len(stages)] = Skeleton
<1> DEFINE names == EarlyStages \cup {Skeleton}
           stages == Opening(mode) \o Closing
<1>1. /\ Opening(mode) \in Seq(names) /\ Len(Opening(mode)) \in Nat
      /\ \A i \in 1 .. Len(Opening(mode)) : Opening(mode)[i] \in EarlyStages
  <2>1. CASE mode = "brownfield"
    BY <2>1 DEF Opening, EarlyStages
  <2>2. CASE mode # "brownfield"
    BY <2>2 DEF Opening, EarlyStages
  <2> QED
    BY <2>1, <2>2
<1>2. /\ Closing \in Seq(names) /\ Len(Closing) = 5 /\ Closing[5] = Skeleton
      /\ \A i \in 1 .. 4 : Closing[i] \in EarlyStages
  BY DEF Closing, EarlyStages, Skeleton
<1>3. /\ Len(stages) = Len(Opening(mode)) + Len(Closing)
      /\ \A i \in 1 .. Len(Opening(mode)) + Len(Closing) :
           stages[i] = IF i <= Len(Opening(mode)) THEN Opening(mode)[i]
                       ELSE Closing[i - Len(Opening(mode))]
  <2> HIDE DEF names
  <2> QED
    BY <1>1, <1>2, ConcatProperties
<1> HIDE DEF stages
<1> DEFINE m == Len(Opening(mode))
<1>4. m \in Nat /\ Len(stages) = m + 5
  BY <1>1, <1>2, <1>3
<1>5. ASSUME NEW n \in 1 .. m + 4 PROVE stages[n] \in EarlyStages
  <2>1. CASE n <= m
    BY <2>1, <1>1, <1>2, <1>3, <1>4
  <2>2. CASE n > m
    <3>1. n - m \in 1 .. 4 /\ n \in 1 .. m + 5 /\ ~ n <= m
      BY <2>2, <1>4
    <3>2. stages[n] = Closing[n - m]
      BY <3>1, <1>2, <1>3
    <3> QED
      BY <3>1, <3>2, <1>2
  <2> QED
    BY <2>1, <2>2, <1>4
<1>6. stages[m + 5] = Skeleton
  <2>1. stages[m + 5] = Closing[m + 5 - m] /\ m + 5 - m = 5
    BY <1>2, <1>3, <1>4
  <2> QED
    BY <2>1, <1>2
<1>7. /\ Len(stages) \in Nat \ {0}
      /\ \A n \in 1 .. Len(stages) - 1 : stages[n] \in EarlyStages
      /\ stages[Len(stages)] = Skeleton
  BY <1>4, <1>5, <1>6
<1> QED
  BY <1>7 DEF stages

\* A stage has at least one session, the skeleton has exactly one.
LEMMA StageSessions ==
  ASSUME NEW size, NEW stage \in EarlyStages \cup {Skeleton}
  PROVE  /\ stage \in EarlyStages => StageDispatches(stage, size) \in Seq(Early)
         /\ StageDispatches(stage, size) \in Seq(InBase)
         /\ stage = Skeleton => StageDispatches(stage, size) = <<Dispatch(Skeleton, 1)>>
<1>1. Units(stage, size) \in Nat \ {0} /\ (stage = Skeleton => Units(stage, size) = 1)
  BY DEF Units, Skeleton
<1>2. Skeleton \notin EarlyStages
  BY DEF Skeleton, EarlyStages
<1>3. ASSUME NEW u \in 1 .. Units(stage, size)
      PROVE  /\ Dispatch(stage, u) \in InBase
             /\ stage \in EarlyStages => Dispatch(stage, u) \in Early
  <2>1. u \in Nat \ {0} /\ (stage = Skeleton => u = 1)
    BY <1>1
  <2> QED
    BY <2>1, <1>2 DEF Dispatch, StageDispatch, InBase, Early
<1>4. stage = Skeleton => StageDispatches(stage, size) = <<Dispatch(Skeleton, 1)>>
  BY <1>1 DEF StageDispatches
<1> QED
  BY <1>1, <1>3, <1>4 DEF StageDispatches

\* u[n] is the plan for the first n stages.
Appends(u, stages, size, kept) ==
  /\ u[0] = <<>>
  /\ \A n \in 1 .. Len(stages) :
       u[n] = u[n - 1] \o IF stages[n] \in kept THEN StageDispatches(stages[n], size) ELSE <<>>

\* The recursion of build_stage_dispatch_plan has a result.
LEMMA PlanRecursion ==
  ASSUME NEW mode, NEW size, NEW kept
  PROVE  LET stages == Opening(mode) \o Closing
         IN  \E u : /\ Appends(u, stages, size, kept)
                    /\ build_stage_dispatch_plan(mode, size, kept) = u[Len(stages)]
<1> DEFINE stages == Opening(mode) \o Closing
           more(n) == IF stages[n] \in kept THEN StageDispatches(stages[n], size) ELSE <<>>
           Is(u) == u = [n \in 0 .. Len(stages) |->
                           IF n = 0 THEN <<>> ELSE u[n - 1] \o more(n)]
           step == [p \in Seq(InBase) \X (1 .. Len(stages)) |-> p[1] \o more(p[2])]
<1>1. /\ Len(stages) \in Nat
      /\ \A n \in 1 .. Len(stages) : stages[n] \in EarlyStages \cup {Skeleton}
  <2>1. /\ Len(stages) \in Nat \ {0}
        /\ \A n \in 1 .. Len(stages) - 1 : stages[n] \in EarlyStages
        /\ stages[Len(stages)] = Skeleton
    BY SkeletonIsLastStage
  <2> HIDE DEF stages
  <2> QED
    BY <2>1
<1> HIDE DEF stages
<1>2. \A n \in 1 .. Len(stages) : more(n) \in Seq(InBase)
  BY <1>1, StageSessions
<1>3. \E u : Is(u)
  <2>1. step \in [Seq(InBase) \X (1 .. Len(stages)) -> Seq(InBase)]
    <3> HIDE DEF more
    <3>1. \A a, b \in Seq(InBase) : a \o b \in Seq(InBase)
      BY ConcatProperties
    <3> QED
      BY <3>1, <1>2
  <2>2. PICK u : Iterates(u, Seq(InBase), <<>>, Len(stages), step)
    <3> HIDE DEF step
    <3>1. <<>> \in Seq(InBase)
      OBVIOUS
    <3> QED
      BY <1>1, <2>1, <3>1, Iteration
  <2>3. ASSUME NEW n \in 1 .. Len(stages) PROVE u[n] = u[n - 1] \o more(n)
    <3> HIDE DEF more
    <3>1. u[n - 1] \in Seq(InBase) /\ u[n] = step[<<u[n - 1], n>>]
      <4>1. n - 1 \in 0 .. Len(stages)
        BY <1>1
      <4> HIDE DEF step
      <4> QED
        BY <4>1, <2>2 DEF Iterates
    <3> QED
      BY <3>1
  <2>4. u = [n \in 0 .. Len(stages) |-> u[n]] /\ u[0] = <<>>
    <3> HIDE DEF step
    <3> QED
      BY <2>2 DEF Iterates
  <2>5. ASSUME NEW n \in 0 .. Len(stages)
        PROVE  u[n] = IF n = 0 THEN <<>> ELSE u[n - 1] \o more(n)
    <3> HIDE DEF more
    <3>1. CASE n = 0
      BY <3>1, <2>4
    <3>2. CASE n # 0
      <4>1. n \in 1 .. Len(stages)
        BY <3>2, <1>1
      <4> QED
        BY <3>2, <4>1, <2>3
    <3> QED
      BY <3>1, <3>2
  <2>6. Is(u)
    <3> HIDE DEF more
    <3> QED
      BY <2>4, <2>5
  <2> QED
    BY <2>6
<1> DEFINE u0 == CHOOSE u : Is(u)
<1>4. Is(u0)
  <2> HIDE DEF Is
  <2> QED
    BY <1>3
<1>5. build_stage_dispatch_plan(mode, size, kept) = u0[Len(stages)]
  BY DEF build_stage_dispatch_plan, stages
<1>6. Appends(u0, stages, size, kept)
  <2> HIDE DEF u0
  <2>1. u0[0] = <<>>
    BY <1>1, <1>4
  <2>2. ASSUME NEW n \in 1 .. Len(stages) PROVE u0[n] = u0[n - 1] \o more(n)
    <3> HIDE DEF more
    <3>1. n \in 0 .. Len(stages) /\ n # 0
      BY <1>1
    <3> QED
      BY <3>1, <1>4
  <2> QED
    BY <2>1, <2>2 DEF Appends
<1> QED
  <2> HIDE DEF u0
  <2> QED
    BY <1>5, <1>6 DEF stages

\* It consists of dispatches, the skeleton's once at most and at the end.
LEMMA BasePlanStages ==
  /\ BasePlan \in Seq(InBase)
  /\ \A i \in 1 .. Len(BasePlan) :
       /\ BasePlan[i].stage \notin {Outline, Detail}
       /\ BasePlan[i].stage = Skeleton => i = Len(BasePlan)
<1> DEFINE stages == Opening(Mode) \o Closing
           N == Len(stages)
<1>1. PICK u : Appends(u, stages, Size, Kept) /\ BasePlan = u[N]
  BY PlanRecursion DEF BasePlan
<1>2. /\ N \in Nat \ {0} /\ stages[N] = Skeleton
      /\ \A n \in 1 .. N - 1 : stages[n] \in EarlyStages
  BY SkeletonIsLastStage
<1> HIDE DEF stages
<1> DEFINE T == {n \in 0 .. N - 1 : u[n] \in Seq(Early)}
<1>3. 0 .. N - 1 \subseteq T
  <2>1. 0 \in T
    <3>1. u[0] \in Seq(Early)
      BY <1>1 DEF Appends
    <3>2. 0 \in 0 .. N - 1
      BY <1>2
    <3> QED
      BY <3>1, <3>2
  <2>2. ASSUME NEW n \in 1 .. N - 1, n - 1 \in T PROVE n \in T
    <3> DEFINE more == IF stages[n] \in Kept THEN StageDispatches(stages[n], Size) ELSE <<>>
    <3>1. n \in 1 .. N /\ n \in 0 .. N - 1 /\ stages[n] \in EarlyStages
      BY <1>2
    <3>2. u[n] = u[n - 1] \o more
      BY <1>1, <3>1 DEF Appends
    <3>3. more \in Seq(Early)
      BY <3>1, StageSessions
    <3>4. u[n - 1] \in Seq(Early)
      BY <2>2
    <3> HIDE DEF more
    <3>5. u[n] \in Seq(Early)
      BY <3>2, <3>3, <3>4, ConcatProperties
    <3> QED
      BY <3>1, <3>5
  <2> HIDE DEF T
  <2>3. N - 1 \in Nat
    BY <1>2
  <2> HIDE DEF N
  <2> QED
    BY <2>1, <2>2, <2>3, Induction
<1> DEFINE front == u[N - 1]
           last == IF Skeleton \in Kept THEN <<Dispatch(Skeleton, 1)>> ELSE <<>>
<1>4. front \in Seq(Early)
  BY <1>2, <1>3
<1>5. BasePlan = front \o last
  <2>1. N \in 1 .. N
    BY <1>2
  <2>2. u[N] = u[N - 1] \o IF stages[N] \in Kept THEN StageDispatches(stages[N], Size) ELSE <<>>
    BY <1>1, <2>1 DEF Appends
  <2>3. StageDispatches(Skeleton, Size) = <<Dispatch(Skeleton, 1)>>
    BY StageSessions
  <2> QED
    BY <1>1, <1>2, <2>2, <2>3
<1>6. Dispatch(Skeleton, 1) \in InBase /\ Early \subseteq InBase
  BY DEF Dispatch, StageDispatch, InBase, Early
<1>7. last \in Seq(InBase) /\ Len(last) \in {0, 1} /\ \A i \in 1 .. Len(last) : i = Len(last)
  BY <1>6
<1>8. front \in Seq(InBase) /\ Len(front) \in Nat
      /\ \A i \in 1 .. Len(front) : front[i] \in Early
  <2> HIDE DEF front
  <2>1. front \in Seq(InBase)
    BY <1>4, <1>6, SeqMonotonic
  <2> QED
    BY <1>4, <2>1, LenProperties
<1>9. \A d \in InBase : d.stage \notin {Outline, Detail}
  BY DEF InBase, StageDispatch, EarlyStages, Skeleton, Outline, Detail
<1>10. \A d \in Early : d.stage # Skeleton
  BY DEF Early, StageDispatch, EarlyStages, Skeleton
<1> HIDE DEF front, last
<1>11. /\ BasePlan \in Seq(InBase)
       /\ Len(BasePlan) = Len(front) + Len(last)
       /\ \A i \in 1 .. Len(front) + Len(last) :
            BasePlan[i] = IF i <= Len(front) THEN front[i] ELSE last[i - Len(front)]
  BY <1>5, <1>7, <1>8, ConcatProperties
<1>12. ASSUME NEW i \in 1 .. Len(BasePlan), BasePlan[i].stage = Skeleton PROVE i = Len(BasePlan)
  <2>1. ~ i <= Len(front)
    BY <1>12, <1>8, <1>10, <1>11
  <2>2. i - Len(front) \in 1 .. Len(last)
    BY <2>1, <1>7, <1>8, <1>11
  <2> QED
    BY <2>2, <1>7, <1>8, <1>11
<1>13. \A i \in 1 .. Len(BasePlan) : BasePlan[i] \in InBase
  BY <1>11
<1> QED
  BY <1>9, <1>11, <1>12, <1>13

\* build_stage_dispatch_plan returns a list of dispatches with positive units.
LEMMA BasePlanIsPlan ==
  /\ BasePlan \in Seq(Ranging(BasePlan))
  /\ \A d \in Ranging(BasePlan) : d.unit \in Nat \ {0}
<1>1. BasePlan \in Seq(InBase)
  BY BasePlanStages
<1>2. \A i \in DOMAIN BasePlan : BasePlan[i] \in InBase
  BY <1>1
<1>3. \A d \in InBase : d.unit \in Nat \ {0}
  BY DEF InBase, StageDispatch
<1>4. BasePlan \in Seq(Ranging(BasePlan))
  BY <1>1 DEF Ranging
<1> QED
  BY <1>2, <1>3, <1>4 DEF Ranging

-----------------------------------------------------------------------------

StageLocations == {"exec", "markers", "handle", "asked", "apply", "check", "record", "advance"}

LoopLocations == {"loop"} \cup StageLocations

\* In the dispatch loop, which a session resumed by `planning resume` is not in.
InLoop == pc \in LoopLocations /\ ~ resuming
InStage == pc \in StageLocations /\ ~ resuming

Position ==
  /\ pc \in LoopLocations \ {"exec", "markers", "handle", "asked"} => ~ resuming
  /\ InLoop => next = idx /\ Len(plan) >= Len(BasePlan)
  /\ InStage => idx < Len(plan)

TypeInv == TypeOK /\ Position

-----------------------------------------------------------------------------
(***************************************************************************)
(* The plan.                                                               *)
(***************************************************************************)

\* The plan of a run and what is injected into it are lists of dispatches.
LEMMA PlansAreSequences ==
  /\ BasePlan \in Seq(Dispatches)
  /\ Outlines \in Seq(Dispatches) /\ Details \in Seq(Dispatches)
  /\ \A d \in Dispatches : d.unit \in Nat \ {0}
  /\ NoThread \notin Dispatches
<1>1. Features \in Nat
  BY PlanningAssumption
<1>2. BasePlan \in Seq(Dispatches)
  <2>1. Ranging(BasePlan) \subseteq Dispatches
    BY DEF Dispatches
  <2> QED
    BY <2>1, BasePlanIsPlan, SeqMonotonic
<1>3. Outlines \in Seq(Dispatches)
  BY <1>1 DEF Outlines, Dispatches, Ranging
<1>4. Details \in Seq(Dispatches)
  BY <1>1 DEF Details, Dispatches, Ranging
<1>5. \A f \in 1..Features : Outlines[f].unit \in Nat \ {0} /\ Details[f].unit \in Nat \ {0}
  BY <1>1 DEF Outlines, Details, Dispatch
<1>6. DOMAIN Outlines = 1..Features /\ DOMAIN Details = 1..Features
  BY DEF Outlines, Details
<1>7. \A d \in Dispatches : d.unit \in Nat \ {0}
  BY <1>5, <1>6, BasePlanIsPlan DEF Dispatches, Ranging
<1>8. NoThread.unit = 0
  BY DEF NoThread, Dispatch
<1> QED
  BY <1>2, <1>3, <1>4, <1>7, <1>8

\* Injected dispatches come after the current one, which stays where it is.
LEMMA InjectKeepsCurrent ==
  ASSUME NEW S, plan \in Seq(S), NEW d \in Seq(S), idx \in Nat, idx < Len(plan)
  PROVE  /\ Inject(d) \in Seq(S)
         /\ Len(Inject(d)) >= Len(plan)
         /\ Inject(d)[idx + 1] = plan[idx + 1]
<1> DEFINE head == SubSeq(plan, 1, idx + 1)
           tail == SubSeq(plan, idx + 2, Len(plan))
<1>1. Len(plan) \in Nat /\ \A i \in 1..Len(plan) : plan[i] \in S
  BY LenProperties
<1>2. head \in Seq(S) /\ Len(head) = idx + 1 /\ head[idx + 1] = plan[idx + 1]
  <2>1. \A i \in 1..(idx + 1) : plan[i] \in S
    BY <1>1
  <2>2. /\ head \in Seq(S)
        /\ Len(head) = IF 1 <= idx + 1 THEN (idx + 1) - 1 + 1 ELSE 0
        /\ \A i \in 1..((idx + 1) - 1 + 1) : head[i] = plan[1 + i - 1]
    BY <2>1, SubSeqProperties
  <2> QED
    BY <2>2
<1>3. tail \in Seq(S) /\ Len(tail) = Len(plan) - (idx + 1)
  <2>1. \A i \in (idx + 2)..Len(plan) : plan[i] \in S
    BY <1>1
  <2>2. /\ tail \in Seq(S)
        /\ Len(tail) = IF idx + 2 <= Len(plan) THEN Len(plan) - (idx + 2) + 1 ELSE 0
    BY <1>1, <2>1, SubSeqProperties
  <2> QED
    BY <1>1, <2>2
<1>4. Len(d) \in Nat
  BY LenProperties
<1>7. Inject(d) = (head \o d) \o tail
  BY DEF Inject
<1> HIDE DEF head, tail
<1>5. /\ head \o d \in Seq(S)
      /\ Len(head \o d) = Len(head) + Len(d)
      /\ (head \o d)[idx + 1] = head[idx + 1]
  <2>1. /\ head \o d \in Seq(S)
        /\ Len(head \o d) = Len(head) + Len(d)
        /\ \A i \in 1..(Len(head) + Len(d)) :
             (head \o d)[i] = IF i <= Len(head) THEN head[i] ELSE d[i - Len(head)]
    BY <1>2, ConcatProperties
  <2> QED
    BY <1>2, <1>4, <2>1
<1> DEFINE front == head \o d
<1>6. /\ front \o tail \in Seq(S)
      /\ Len(front \o tail) = Len(front) + Len(tail)
      /\ (front \o tail)[idx + 1] = front[idx + 1]
  <2>0. front \in Seq(S) /\ Len(front) \in Nat /\ Len(tail) \in Nat /\ idx + 1 <= Len(front)
    BY <1>1, <1>2, <1>3, <1>4, <1>5
  <2> HIDE DEF front
  <2>1. /\ front \o tail \in Seq(S)
        /\ Len(front \o tail) = Len(front) + Len(tail)
        /\ \A i \in 1..(Len(front) + Len(tail)) :
             (front \o tail)[i] = IF i <= Len(front) THEN front[i] ELSE tail[i - Len(front)]
    BY <1>3, <2>0, ConcatProperties
  <2>2. idx + 1 \in 1..(Len(front) + Len(tail))
    BY <2>0
  <2> QED
    BY <2>0, <2>1, <2>2
<1>8. Len(Inject(d)) >= Len(plan)
  BY <1>1, <1>2, <1>3, <1>4, <1>5, <1>6, <1>7
<1> QED
  BY <1>2, <1>5, <1>6, <1>7, <1>8

\* The plan after Accept.
LEMMA InjectedKeepsCurrent ==
  ASSUME plan \in Seq(Dispatches), idx \in Nat, idx < Len(plan)
  PROVE  /\ Injected \in Seq(Dispatches)
         /\ Len(Injected) >= Len(plan)
         /\ Injected[idx + 1] = plan[idx + 1]
<1>1. Outlines \in Seq(Dispatches) /\ Details \in Seq(Dispatches)
  BY PlansAreSequences
<1>2. CASE Injected = plan
  BY <1>2, LenProperties
<1>3. CASE Injected = Inject(Outlines)
  BY <1>1, <1>3, InjectKeepsCurrent
<1>4. CASE Injected = Inject(Details)
  BY <1>1, <1>4, InjectKeepsCurrent
<1> QED
  BY <1>2, <1>3, <1>4 DEF Injected


-----------------------------------------------------------------------------
(***************************************************************************)
(* Types, and the position in the plan.                                    *)
(***************************************************************************)

FilesOK ==
  /\ art \in [Files -> Contents]
  /\ published \subseteq Nat
  /\ changeRequest \in {"missing", "template", "given"}

RunStateRecords ==
  [state : RunStates, thread : Dispatches \cup {NoThread}, pending : Pending]

LedgersOK ==
  /\ completed \subseteq [index : Nat, stage : {d.stage : d \in Dispatches}]
  /\ retries \subseteq Nat \X (1..MaxRetries)

NumbersOK ==
  /\ next \in Nat /\ asks \in Nat /\ starts \in Nat /\ crashes \in Nat /\ lapses \in Nat
  /\ orphaned \in BOOLEAN

ProcessOK ==
  /\ pc \in Locations
  /\ plan \in Seq(Dispatches)
  /\ idx \in Nat /\ done \subseteq Nat
  /\ resuming \in BOOLEAN /\ interactive \in BOOLEAN
  /\ listed \subseteq Listable /\ before \in Pending /\ outcome \in Outcome
  /\ Position

\* TypeInv in parts.
LEMMA TypeParts ==
  /\ TypeInv => FilesOK /\ runState \in RunStateRecords /\ LedgersOK /\ NumbersOK /\ ProcessOK
  /\ (FilesOK /\ runState \in RunStateRecords /\ LedgersOK /\ NumbersOK /\ ProcessOK)' => TypeInv'
BY DEF TypeInv, TypeOK, FilesOK, RunStateRecords, LedgersOK, NumbersOK, ProcessOK, Position, InStage,
       StageLocations

\* No pending keys.
LEMMA NothingPendingType == NothingPending \in Pending
BY DEF NothingPending, Pending

\* What write_run_state writes.
LEMMA RunStateType ==
  ASSUME NEW state \in RunStates, NEW thread \in Dispatches \cup {NoThread}, NEW p \in Pending
  PROVE  RunState(state, thread, p) \in RunStateRecords
BY NothingPendingType DEF RunState, RunStateRecords

\* A session nothing is known of but its thread.
LEMMA UnreadType ==
  /\ \A thread \in Dispatches \cup {NoThread} : Unread(thread) \in Outcome
  /\ ForgetSession => before' \in Pending /\ outcome' \in Outcome
<1>1. "running_exec" \in Verdicts
  BY DEF Verdicts
<1>2. \A thread \in Dispatches \cup {NoThread} : Unread(thread) \in Outcome
  BY <1>1 DEF Unread, Outcome
<1> QED
  BY <1>2, NothingPendingType DEF ForgetSession

\* A process that has ended.
LEMMA EndedType ==
  ASSUME EndProcess, listed' \subseteq Listable, before' \in Pending, outcome' \in Outcome
  PROVE  ProcessOK'
<1>1. << >> \in Seq(Dispatches)
  BY EmptySeq
<1> QED
  BY <1>1 DEF EndProcess, ProcessOK, Position, InLoop, InStage, LoopLocations, StageLocations, Locations

\* A process that has left.
LEMMA LeftType == Leave => ProcessOK'
<1> SUFFICES ASSUME Leave PROVE ProcessOK'
  OBVIOUS
<1>1. EndProcess /\ listed' = {} /\ ForgetSession
  BY DEF Leave
<1> QED
  BY <1>1, EndedType, UnreadType

\* The dispatch at the cursor, and the one the session works for.
LEMMA WorkerType ==
  ASSUME TypeInv, pc \in StageLocations
  PROVE  /\ ~ resuming => Current \in Dispatches
         /\ Worker \in Dispatches \cup {NoThread}
<1>1. ~ resuming => idx + 1 \in 1..Len(plan) /\ plan[idx + 1] \in Dispatches
  <2>1. plan \in Seq(Dispatches) /\ idx \in Nat
    BY DEF TypeInv, TypeOK
  <2>2. ~ resuming => idx < Len(plan)
    BY DEF TypeInv, Position, InStage
  <2>3. Len(plan) \in Nat /\ \A i \in 1..Len(plan) : plan[i] \in Dispatches
    BY <2>1, LenProperties
  <2> QED
    BY <2>1, <2>2, <2>3
<1>2. runState.thread \in Dispatches \cup {NoThread}
  BY DEF TypeInv, TypeOK
<1> QED
  BY <1>1, <1>2 DEF Current, Worker

\* Entering the dispatch loop.
LEMMA EnterGraphType ==
  ASSUME TypeInv, NEW start \in Nat, NEW asking \in BOOLEAN,
         EnterGraph(start, asking)
  PROVE  (FilesOK /\ runState \in RunStateRecords /\ LedgersOK /\ ProcessOK)' /\ next' \in Nat
<1> USE TypeParts
<1>1. CASE WaitForChangeRequest(start) \/ DiesInRecovery(start)
  <2>1. EndProcess /\ UNCHANGED session /\ next' = start /\ UNCHANGED <<runState, ledgers, art, published>>
        /\ changeRequest' \in {"missing", "template", "given"}
    BY <1>1 DEF WaitForChangeRequest, DiesInRecovery, files, TypeInv, TypeOK
  <2>2. ProcessOK'
    BY <2>1, EndedType DEF session, ProcessOK
  <2> QED
    BY <2>1, <2>2 DEF ledgers, FilesOK, LedgersOK, RunStateRecords
<1>2. CASE EnterLoop(start, asking)
  <2>1. BasePlan \in Seq(Dispatches)
    BY PlansAreSequences
  <2>2. {c.index : c \in completed} \subseteq Nat
    BY DEF LedgersOK
  <2>3. Len(BasePlan) \in Nat
    BY <2>1, LenProperties
  <2>4. /\ pc' = "loop" /\ plan' = BasePlan /\ idx' = start /\ next' = start
        /\ done' = {c.index : c \in completed} /\ resuming' = FALSE /\ interactive' = asking
        /\ UNCHANGED <<runState, ledgers, files, session>>
    BY <1>2 DEF EnterLoop
  <2>5. Position'
    BY <2>3, <2>4 DEF Position, InLoop, InStage, LoopLocations, StageLocations
  <2>6. ProcessOK'
    BY <2>1, <2>2, <2>4, <2>5 DEF ProcessOK, session, Locations
  <2> QED
    BY <2>4, <2>6 DEF files, ledgers, FilesOK, LedgersOK, RunStateRecords
<1> QED
  BY <1>1, <1>2 DEF EnterGraph

\* What a session leaves behind when it is over.
LEMMA AfterSessionType ==
  ASSUME TypeInv, pc = "handle", AfterSession, UNCHANGED <<next, listed>>, ForgetSession
  PROVE  ProcessOK'
<1> USE TypeParts
<1>1. before' \in Pending /\ outcome' \in Outcome /\ listed' \subseteq Listable
  BY UnreadType DEF ProcessOK
<1>2. CASE EndProcess
  BY <1>1, <1>2, EndedType
<1>3. CASE UNCHANGED process /\ pc' = IF outcome.state \in WaitingStates /\ interactive THEN "asked"
                                       ELSE IF resuming THEN "resumed" ELSE "apply"
  <2>1. UNCHANGED <<plan, idx, done, resuming, interactive>>
    BY <1>3 DEF process
  <2>2. UNCHANGED next
    OBVIOUS
  <2>3. pc' \in {"asked", "resumed", "apply"} /\ (pc' = "apply" => ~ resuming)
    BY <1>3
  <2>4. ~ resuming => next = idx /\ Len(plan) >= Len(BasePlan) /\ idx < Len(plan)
    BY DEF TypeInv, Position, InLoop, InStage, LoopLocations, StageLocations
  <2>5. Position'
    BY <2>1, <2>2, <2>3, <2>4 DEF Position, InLoop, InStage, LoopLocations, StageLocations
  <2> QED
    BY <1>1, <2>1, <2>3, <2>5 DEF ProcessOK, Locations
<1> QED
  BY <1>2, <1>3 DEF AfterSession


\* resume_stage_subsession leaves a run state without pending keys.
LEMMA AnsweredType ==
  ASSUME TypeInv, AnswerThread
  PROVE  runState' \in RunStateRecords /\ before' \in Pending /\ outcome' \in Outcome
<1>1. runState.thread \in Dispatches \cup {NoThread} /\ runState.pending \in Pending
  BY DEF TypeInv, TypeOK
<1>2. "running_exec" \in RunStates
  BY DEF RunStates
<1>3. RunState("running_exec", runState.thread, NothingPending) \in RunStateRecords
  BY <1>1, <1>2, NothingPendingType, RunStateType
<1> QED
  BY <1>1, <1>3, UnreadType DEF AnswerThread

\* What a session asks.
LEMMA AskedType ==
  ASSUME NEW p \in Pending, asks \in Nat
  PROVE  /\ Asked(p) \in Pending
         /\ Asked(p).event = asks
         /\ outcome.state = "waiting_for_input" => Asked(p).question = asks
         /\ outcome.state # "waiting_for_input" => Asked(p).approval = asks
BY DEF Asked, Pending

\* What is known of a session when it is over.
LEMMA OverType ==
  ASSUME TypeInv, NEW state \in Verdicts, NEW complete \in BOOLEAN, NEW marked \in BOOLEAN,
         SessionOver(state, complete, marked)
  PROVE  /\ pc = "exec" /\ pc' \in {"markers", "handle"} /\ UNCHANGED <<next, ledgers, files, process>>
         /\ ProcessOK' /\ runState' \in RunStateRecords /\ lapses' \in Nat
         /\ outcome'.state = state
<1>1. /\ pc = "exec" /\ pc' \in {"markers", "handle"}
      /\ UNCHANGED <<next, ledgers, files, process, before>>
      /\ listed' \in SUBSET Listable
      /\ lapses' = lapses \/ lapses' = lapses + 1
  BY DEF SessionOver
<1>2. Worker \in Dispatches \cup {NoThread} /\ outcome.thread \in Dispatches \cup {NoThread}
      /\ runState \in RunStateRecords /\ before \in Pending /\ lapses \in Nat
  BY <1>1, WorkerType DEF StageLocations, TypeInv, TypeOK, Outcome, RunStateRecords
<1>3. PICK thread \in {Worker, NoThread, outcome.thread} :
        /\ outcome' = [state |-> state, complete |-> complete, thread |-> thread]
        /\ runState' = IF thread = NoThread THEN runState
                       ELSE RunState("running_exec", thread, NothingPending)
  BY DEF SessionOver
<1>4. outcome' \in Outcome /\ outcome'.state = state
  BY <1>2, <1>3 DEF Outcome
<1>5. runState' \in RunStateRecords
  <2>1. "running_exec" \in RunStates
    BY DEF RunStates
  <2> QED
    BY <1>2, <1>3, <2>1, RunStateType, NothingPendingType
<1>6. Position'
  <2>1. ~ resuming => next = idx /\ Len(plan) >= Len(BasePlan) /\ idx < Len(plan)
    BY <1>1 DEF TypeInv, Position, InLoop, InStage, LoopLocations, StageLocations
  <2> QED
    BY <1>1, <2>1 DEF Position, InLoop, InStage, LoopLocations, StageLocations, process
<1>7. ProcessOK'
  BY <1>1, <1>2, <1>4, <1>6, TypeParts DEF ProcessOK, process, Locations
<1> QED
  BY <1>1, <1>2, <1>4, <1>5, <1>7

\* The four ways a session can end.
LEMMA SessionStepType ==
  ASSUME TypeInv, SessionStep
  PROVE  /\ pc = "exec" /\ pc' \in {"markers", "handle"} /\ UNCHANGED <<next, ledgers, files, process>>
         /\ ProcessOK' /\ runState' \in RunStateRecords /\ NumbersOK'
<1>1. PICK state \in Verdicts, complete \in BOOLEAN, marked \in BOOLEAN :
        SessionOver(state, complete, marked)
  BY DEF SessionStep, SessionFails, SessionEnds, SessionAsks, SessionNeedsHuman, Verdicts, StopStates
<1>2. asks' = asks \/ asks' = asks + 1
  BY DEF SessionStep, SessionFails, SessionEnds, SessionAsks, SessionNeedsHuman
<1>3. UNCHANGED <<next, starts, crashes, orphaned>>
  BY <1>1 DEF SessionOver
<1>4. NumbersOK
  BY TypeParts
<1>5. NumbersOK'
  BY <1>1, <1>2, <1>3, <1>4, OverType DEF NumbersOK
<1> QED
  BY <1>1, <1>5, OverType

\* What _apply_stage_completion leaves in the files.
LEMMA AppliedType ==
  ASSUME TypeInv, NEW d \in Dispatches, ApplyCompletion(d)
  PROVE  FilesOK'
<1>1. art \in [Files -> Contents] /\ published \subseteq Nat
      /\ changeRequest \in {"missing", "template", "given"}
  BY DEF TypeInv, TypeOK
<1>2. \A c \in Contents : Template(d.stage, c) \in Contents
  BY DEF Template, Contents
<1>3. art' \in [Files -> Contents]
  BY <1>1, <1>2 DEF ApplyCompletion
<1>4. d.unit \in Nat
  BY PlansAreSequences
<1> QED
  BY <1>1, <1>3, <1>4 DEF ApplyCompletion, FilesOK

\* Steps within the loop that leave the plan and the cursor alone.
LEMMA SameDispatchType ==
  ASSUME TypeInv, UNCHANGED <<plan, idx, done, resuming, interactive, next>>,
         pc \in LoopLocations,
         pc' \in LoopLocations,
         pc' \in StageLocations /\ ~ resuming => idx < Len(plan),
         pc' \in LoopLocations \ {"exec", "markers", "handle", "asked"} => ~ resuming,
         listed' \subseteq Listable, before' \in Pending, outcome' \in Outcome
  PROVE  ProcessOK'
<1>1. ~ resuming => next = idx /\ Len(plan) >= Len(BasePlan)
  BY DEF TypeInv, Position, InLoop
<1>2. Position'
  BY <1>1 DEF Position, InLoop, InStage
<1>3. pc' \in Locations
  BY DEF LoopLocations, StageLocations, Locations
<1> QED
  BY <1>2, <1>3 DEF ProcessOK, TypeInv, TypeOK

\* TypeInv holds at first.
LEMMA TypeInvInit == Init => TypeInv
<1> SUFFICES ASSUME Init PROVE TypeInv
  OBVIOUS
<1>1. art \in [Files -> Contents]
  BY DEF Init, Contents
<1>2. changeRequest \in {"missing", "template", "given"}
  BY DEF Init
<1>3. << >> \in Seq(Dispatches)
  BY EmptySeq
<1>4. runState \in RunStateRecords
  BY NothingPendingType DEF Init, RunStateRecords, RunStates
<1>5. TypeOK
  BY <1>1, <1>2, <1>3, <1>4, NothingPendingType, UnreadType DEF Init, TypeOK, RunStateRecords, Locations
<1>6. Position
  BY DEF Init, Position, InLoop, InStage, LoopLocations, StageLocations
<1> QED
  BY <1>5, <1>6 DEF TypeInv

\* Every step keeps TypeInv.
LEMMA TypeInvStep == TypeInv /\ [Next]_vars => TypeInv'
<1> SUFFICES ASSUME TypeInv, [Next]_vars PROVE TypeInv'
  OBVIOUS
<1> DEFINE Parts == (FilesOK /\ runState \in RunStateRecords /\ LedgersOK /\ NumbersOK /\ ProcessOK)'
<1>p. FilesOK /\ runState \in RunStateRecords /\ LedgersOK /\ NumbersOK /\ ProcessOK
  BY TypeParts
<1>q. Parts => TypeInv'
  BY TypeParts
<1>f. UNCHANGED files => FilesOK'
  BY <1>p DEF files, FilesOK
<1>l. UNCHANGED ledgers => LedgersOK'
  BY <1>p DEF ledgers, LedgersOK
<1>c. UNCHANGED checkpoint => runState' \in RunStateRecords /\ next' \in Nat
  BY <1>p DEF checkpoint, RunStateRecords, NumbersOK
<1>n. UNCHANGED history /\ next' \in Nat => NumbersOK'
  BY <1>p DEF history, NumbersOK
<1>s. pc \in LoopLocations \ {"exec", "markers", "handle", "asked"} => ~ resuming
  BY DEF TypeInv, Position
<1>d. pc \in StageLocations /\ ~ resuming => idx < Len(plan) /\ Current \in Dispatches
  BY WorkerType DEF TypeInv, Position, InStage
<1>i. idx \in Nat /\ next \in Nat /\ plan \in Seq(Dispatches) /\ Len(plan) \in Nat
      /\ listed \subseteq Listable /\ before \in Pending /\ outcome \in Outcome
  BY LenProperties DEF TypeInv, TypeOK
<1>1. ASSUME RunPlanning \/ ContinueRun PROVE Parts
  <2>1. starts' = starts + 1 /\ UNCHANGED <<asks, crashes, lapses, orphaned>>
    BY <1>1 DEF RunPlanning, ContinueRun, Start
  <2>2. \E start \in Nat : \E asking \in BOOLEAN : EnterGraph(start, asking)
    BY <1>1, <1>i DEF RunPlanning, ContinueRun
  <2>3. (FilesOK /\ runState \in RunStateRecords /\ LedgersOK /\ ProcessOK)' /\ next' \in Nat
    BY <2>2, EnterGraphType
  <2> QED
    BY <1>p, <2>1, <2>3 DEF NumbersOK
<1>2. ASSUME ResumeWithResponse PROVE Parts
  <2>1. /\ AnswerThread /\ resuming' = TRUE /\ interactive' \in BOOLEAN
        /\ UNCHANGED <<ledgers, files, plan, idx, done>>
        /\ starts' = starts + 1 /\ UNCHANGED <<asks, crashes, lapses, orphaned>>
    BY <1>2 DEF ResumeWithResponse, Start
  <2>2. pc' = "exec" /\ UNCHANGED <<next, listed>>
    BY <2>1 DEF AnswerThread
  <2>3. runState' \in RunStateRecords /\ before' \in Pending /\ outcome' \in Outcome
    BY <2>1, AnsweredType
  <2>4. Position'
    BY <2>1, <2>2 DEF Position, InLoop, InStage
  <2>5. ProcessOK'
    BY <1>p, <2>1, <2>2, <2>3, <2>4 DEF ProcessOK, Locations
  <2>6. NumbersOK'
    BY <1>p, <2>1, <2>2 DEF NumbersOK
  <2> QED
    BY <1>f, <1>l, <2>1, <2>3, <2>5, <2>6
<1>3. ASSUME \/ CannotParse \/ UserCancels
             \/ UserAnswers /\ ~ AnswerThread
      PROVE  Parts
  <2>1. Leave /\ UNCHANGED <<checkpoint, ledgers, files, history>>
    BY <1>3 DEF CannotParse, UserCancels, UserAnswers
  <2>2. ProcessOK'
    BY <2>1, LeftType
  <2> QED
    BY <1>f, <1>l, <1>c, <1>n, <2>1, <2>2
<1>4. ASSUME Crash PROVE Parts
  <2>1. Leave /\ UNCHANGED <<checkpoint, ledgers, files, asks, starts, lapses>> /\ crashes' = crashes + 1
        /\ orphaned' \in BOOLEAN
    BY <1>4, <1>p DEF Crash, NumbersOK
  <2>2. ProcessOK'
    BY <2>1, LeftType
  <2>3. NumbersOK'
    BY <1>p, <1>c, <2>1 DEF NumbersOK
  <2> QED
    BY <1>f, <1>l, <1>c, <2>1, <2>2, <2>3
<1>5. ASSUME Skip PROVE Parts
  <2>1. /\ pc = "loop" /\ pc' = "loop" /\ idx < Len(plan) /\ idx' = idx + 1 /\ next' = idx + 1
        /\ ApplyCompletion(Current)
        /\ UNCHANGED <<runState, ledgers, plan, done, resuming, interactive, session, history>>
    BY <1>5 DEF Skip
  <2>2. Current \in Dispatches
    BY <1>i, <2>1, LenProperties DEF Current
  <2>3. FilesOK'
    BY <2>1, <2>2, AppliedType
  <2>4. Len(plan) >= Len(BasePlan)
    BY <1>s, <2>1 DEF TypeInv, Position, InLoop, LoopLocations
  <2>5. Position'
    BY <1>s, <2>1, <2>4 DEF Position, InLoop, InStage, LoopLocations, StageLocations
  <2>6. ProcessOK'
    BY <1>p, <1>i, <2>1, <2>5 DEF ProcessOK, session, Locations
  <2>7. NumbersOK'
    BY <1>n, <1>i, <2>1
  <2>8. runState' \in RunStateRecords
    BY <1>p, <2>1 DEF RunStateRecords
  <2> QED
    BY <1>l, <2>1, <2>3, <2>6, <2>7, <2>8
<1>6. ASSUME StartStage PROVE Parts
  <2>1. /\ pc = "loop" /\ pc' = "exec" /\ idx < Len(plan) /\ listed' = {}
        /\ before' = runState.pending /\ outcome' = Unread(NoThread)
        /\ UNCHANGED <<checkpoint, ledgers, files, process, history>>
    BY <1>6 DEF StartStage
  <2>2. before' \in Pending /\ outcome' \in Outcome
    BY <2>1, UnreadType DEF TypeInv, TypeOK
  <2>3. ProcessOK'
    BY <2>1, <2>2, SameDispatchType DEF process, checkpoint, LoopLocations, StageLocations
  <2> QED
    BY <1>f, <1>l, <1>c, <1>n, <2>1, <2>3
<1>7. ASSUME SessionWrites PROVE Parts
  <2>1. /\ pc' = pc /\ UNCHANGED <<checkpoint, ledgers, published, changeRequest, process, session, history>>
        /\ \E c \in Writable(Worker.stage) : art' = [art EXCEPT ![Artifact(Worker)] = c]
    BY <1>7 DEF SessionWrites
  <2>2. \A stage : Writable(stage) \subseteq Contents
    BY DEF Writable, Contents
  <2>3. FilesOK'
    BY <1>p, <2>1, <2>2 DEF FilesOK
  <2>4. ProcessOK'
    BY <1>p, <2>1 DEF ProcessOK, Position, InLoop, InStage, process, session, checkpoint
  <2> QED
    BY <1>l, <1>c, <1>n, <2>1, <2>3, <2>4
<1>8. ASSUME SessionStep PROVE Parts
  BY <1>8, <1>f, <1>l, SessionStepType
<1>20. ASSUME WriteMarkers PROVE Parts
  <2>1. /\ pc = "markers" /\ pc' = "handle"
        /\ runState' = RunState(outcome.state, NoThread, Asked(NothingPending))
        /\ UNCHANGED <<next, ledgers, files, process, session, history>>
    BY <1>20 DEF WriteMarkers
  <2>2. Asked(NothingPending) \in Pending
    BY <1>p, AskedType, NothingPendingType DEF NumbersOK
  <2>3. outcome.state \in RunStates
    BY <1>i DEF Outcome, Verdicts, RunStates
  <2>4. runState' \in RunStateRecords
    BY <2>1, <2>2, <2>3, RunStateType
  <2>5. ~ resuming => idx < Len(plan)
    BY <1>d, <2>1 DEF StageLocations
  <2>6. ProcessOK'
    BY <1>i, <2>1, <2>5, SameDispatchType DEF process, session, LoopLocations, StageLocations
  <2> QED
    BY <1>f, <1>l, <1>n, <1>i, <2>1, <2>4, <2>6
<1>21. ASSUME WriteHandle PROVE Parts
  <2>1. /\ pc = "handle" /\ AfterSession /\ ForgetSession
        /\ orphaned' \in BOOLEAN
        /\ UNCHANGED <<next, ledgers, files, listed, asks, starts, crashes, lapses>>
        /\ runState' = IF outcome.thread = NoThread THEN runState
                       ELSE RunState(outcome.state, outcome.thread, Asked(before))
    BY <1>21 DEF WriteHandle
  <2>2. Asked(before) \in Pending
    BY <1>i, <1>p, AskedType DEF NumbersOK
  <2>3. outcome.state \in RunStates /\ outcome.thread \in Dispatches \cup {NoThread}
    BY <1>i DEF Outcome, Verdicts, RunStates
  <2>4. runState' \in RunStateRecords
    BY <1>p, <2>1, <2>2, <2>3, RunStateType
  <2>5. ProcessOK'
    BY <2>1, AfterSessionType
  <2>6. NumbersOK'
    BY <1>p, <2>1 DEF NumbersOK
  <2> QED
    BY <1>f, <1>l, <2>1, <2>4, <2>5, <2>6
<1>22. ASSUME ResumeWithoutThread PROVE Parts
  <2>1. starts' = starts + 1 /\ UNCHANGED <<asks, crashes, lapses, orphaned>>
        /\ UNCHANGED <<checkpoint, ledgers, files, pc, process, session>>
    BY <1>22 DEF ResumeWithoutThread, Start
  <2>2. ProcessOK'
    BY <1>p, <2>1 DEF checkpoint, ProcessOK, Position, InLoop, InStage, process, session
  <2>3. NumbersOK'
    BY <1>p, <1>c, <2>1 DEF NumbersOK
  <2> QED
    BY <1>f, <1>l, <1>c, <2>1, <2>2, <2>3
<1>9. ASSUME UserAnswers, AnswerThread PROVE Parts
  <2>1. pc = "asked" /\ AnswerThread /\ UNCHANGED <<ledgers, files, process, history>>
    <3>1. runState.thread # NoThread
      BY <1>9 DEF AnswerThread
    <3> QED
      BY <1>9, <3>1 DEF UserAnswers
  <2>2. pc' = "exec" /\ UNCHANGED <<next, listed>>
    BY <2>1 DEF AnswerThread
  <2>3. runState' \in RunStateRecords /\ before' \in Pending /\ outcome' \in Outcome
    BY <2>1, AnsweredType
  <2>4. ~ resuming => idx < Len(plan)
    BY <1>d, <2>1 DEF StageLocations
  <2>5. ProcessOK'
    BY <1>i, <2>1, <2>2, <2>3, <2>4, SameDispatchType DEF process, LoopLocations, StageLocations
  <2> QED
    BY <1>f, <1>l, <1>n, <1>i, <2>1, <2>2, <2>3, <2>5
<1>10. ASSUME ApplyStage PROVE Parts
  <2>1. /\ pc = "apply" /\ pc' = "check" /\ ApplyCompletion(Current)
        /\ UNCHANGED <<checkpoint, ledgers, process, session, history>>
    BY <1>10 DEF ApplyStage
  <2>2. ~ resuming /\ idx < Len(plan) /\ Current \in Dispatches
    BY <1>s, <1>d, <2>1 DEF LoopLocations, StageLocations
  <2>3. FilesOK'
    BY <2>1, <2>2, AppliedType
  <2>4. ProcessOK'
    BY <1>i, <2>1, <2>2, SameDispatchType DEF process, session, checkpoint, LoopLocations, StageLocations
  <2> QED
    BY <1>l, <1>c, <1>n, <2>1, <2>3, <2>4
<1>11. ASSUME RollBack PROVE Parts
  <2>1. /\ pc = "check" /\ pc' = "loop" /\ listed' = {} /\ retries' \in Recount(idx)
        /\ published' \subseteq published
        /\ UNCHANGED <<checkpoint, completed, changeRequest, process, before, outcome, history>>
    BY <1>11 DEF RollBack
  <2>2. art' \in [Files -> Contents]
    BY <1>11, <1>p DEF RollBack, FilesOK, Contents
  <2>3. LedgersOK'
    <3>1. PICK n \in 1..MaxRetries : retries' = retries \cup {<<idx, n>>}
      BY <2>1 DEF Recount
    <3> QED
      BY <1>p, <1>i, <2>1, <3>1 DEF LedgersOK
  <2>4. ~ resuming
    BY <1>s, <2>1 DEF LoopLocations, StageLocations
  <2>5. ProcessOK'
    BY <1>i, <2>1, <2>4, SameDispatchType DEF process, checkpoint, LoopLocations, StageLocations
  <2>6. FilesOK'
    BY <1>p, <2>1, <2>2 DEF FilesOK
  <2> QED
    BY <1>c, <1>n, <2>1, <2>3, <2>5, <2>6
<1>12. ASSUME Escalate PROVE Parts
  <2>1. /\ runState' = RunState("escalated", NoThread, NothingPending)
        /\ Leave /\ UNCHANGED <<next, ledgers, files, history>>
    BY <1>12 DEF Escalate
  <2>2. "escalated" \in RunStates
    BY DEF RunStates, StopStates
  <2>3. runState' \in RunStateRecords
    BY <2>1, <2>2, RunStateType, NothingPendingType
  <2>4. ProcessOK'
    BY <2>1, LeftType
  <2> QED
    BY <1>f, <1>l, <1>n, <1>i, <2>1, <2>3, <2>4
<1>13. ASSUME Accept PROVE Parts
  <2>1. /\ pc = "check" /\ pc' = "record" /\ plan' = Injected /\ listed' = {}
        /\ UNCHANGED <<checkpoint, ledgers, files, idx, done, resuming, interactive, before, outcome,
                       history>>
    BY <1>13 DEF Accept
  <2>2. ~ resuming /\ idx < Len(plan)
    BY <1>s, <1>d, <2>1 DEF LoopLocations, StageLocations
  <2>3. plan' \in Seq(Dispatches) /\ Len(plan') >= Len(plan)
    BY <1>i, <2>1, <2>2, InjectedKeepsCurrent
  <2>4. Len(plan') \in Nat /\ Len(BasePlan) \in Nat
    BY <2>3, PlansAreSequences, LenProperties
  <2>5. next = idx /\ Len(plan) >= Len(BasePlan)
    BY <2>1, <2>2 DEF TypeInv, Position, InLoop, LoopLocations, StageLocations
  <2>6. idx < Len(plan') /\ Len(plan') >= Len(BasePlan)
    BY <1>i, <2>2, <2>3, <2>4, <2>5
  <2>7. Position'
    BY <2>1, <2>2, <2>5, <2>6 DEF Position, InLoop, InStage, checkpoint
  <2>8. ProcessOK'
    BY <1>p, <2>1, <2>3, <2>7 DEF ProcessOK, Locations
  <2> QED
    BY <1>f, <1>l, <1>c, <1>n, <2>1, <2>8
<1>14. ASSUME Record PROVE Parts
  <2>1. /\ pc = "record" /\ pc' = "advance"
        /\ completed' \subseteq completed \cup {[index |-> idx, stage |-> Current.stage]}
        /\ UNCHANGED <<checkpoint, retries, files, process, session, history>>
    BY <1>14 DEF Record
  <2>2. ~ resuming /\ idx < Len(plan) /\ Current \in Dispatches
    BY <1>s, <1>d, <2>1 DEF LoopLocations, StageLocations
  <2>3. LedgersOK'
    BY <1>p, <1>i, <2>1, <2>2 DEF LedgersOK
  <2>4. ProcessOK'
    BY <1>i, <2>1, <2>2, SameDispatchType DEF process, session, checkpoint, LoopLocations, StageLocations
  <2> QED
    BY <1>f, <1>c, <1>n, <2>1, <2>3, <2>4
<1>15. ASSUME Advance PROVE Parts
  <2>1. /\ pc = "advance" /\ pc' = "loop" /\ idx' = idx + 1 /\ next' = idx + 1
        /\ UNCHANGED <<runState, ledgers, files, plan, done, resuming, interactive, session, history>>
    BY <1>15 DEF Advance
  <2>2. ~ resuming /\ Len(plan) >= Len(BasePlan)
    BY <1>s, <2>1 DEF TypeInv, Position, InLoop, LoopLocations, StageLocations
  <2>3. Position'
    BY <2>1, <2>2 DEF Position, InLoop, InStage, LoopLocations, StageLocations
  <2>4. ProcessOK'
    BY <1>p, <1>i, <2>1, <2>3 DEF ProcessOK, session, Locations
  <2>5. runState' \in RunStateRecords
    BY <1>p, <2>1 DEF RunStateRecords
  <2> QED
    BY <1>f, <1>l, <1>n, <1>i, <2>1, <2>4, <2>5
<1>16. ASSUME Finish PROVE Parts
  <2>1. /\ runState' = RunState("completed", runState.thread, NothingPending) /\ next' = Len(plan)
        /\ Leave /\ UNCHANGED <<ledgers, files, history>>
    BY <1>16 DEF Finish
  <2>2. "completed" \in RunStates /\ runState.thread \in Dispatches \cup {NoThread}
    BY DEF RunStates, TypeInv, TypeOK
  <2>3. runState' \in RunStateRecords
    BY <2>1, <2>2, RunStateType, NothingPendingType
  <2>4. ProcessOK'
    BY <2>1, LeftType
  <2> QED
    BY <1>f, <1>l, <1>n, <1>i, <2>1, <2>3, <2>4
<1>17. ASSUME AdvanceResumed PROVE Parts
  <2>1. /\ pc' = "reenter" /\ next' = next + 1
        /\ UNCHANGED <<runState, ledgers, files, process, session, history>>
    BY <1>17 DEF AdvanceResumed
  <2>2. Position'
    BY <2>1 DEF Position, InLoop, InStage, LoopLocations, StageLocations
  <2>3. ProcessOK'
    BY <1>p, <2>1, <2>2 DEF ProcessOK, process, session, Locations
  <2>4. runState' \in RunStateRecords
    BY <1>p, <2>1 DEF RunStateRecords
  <2> QED
    BY <1>f, <1>l, <1>n, <1>i, <2>1, <2>3, <2>4
<1>18. ASSUME Reenter PROVE Parts
  <2>1. EnterGraph(next, interactive) /\ UNCHANGED history /\ interactive \in BOOLEAN
    BY <1>18 DEF Reenter, TypeInv, TypeOK
  <2>2. (FilesOK /\ runState \in RunStateRecords /\ LedgersOK /\ ProcessOK)' /\ next' \in Nat
    BY <1>i, <2>1, EnterGraphType
  <2> QED
    BY <1>n, <2>1, <2>2
<1>19. ASSUME UNCHANGED vars PROVE Parts
  <2>1. ProcessOK'
    BY <1>p, <1>19 DEF vars, checkpoint, ProcessOK, Position, InLoop, InStage, process, session
  <2> QED
    BY <1>f, <1>l, <1>c, <1>n, <1>19, <2>1 DEF vars
<1> QED
  BY <1>q, <1>1, <1>2, <1>3, <1>4, <1>5, <1>6, <1>7, <1>8, <1>9, <1>10, <1>11, <1>12, <1>13, <1>14,
     <1>15, <1>16, <1>17, <1>18, <1>19, <1>20, <1>21, <1>22
     DEF Next, PilotStep, UserStep


-----------------------------------------------------------------------------
(***************************************************************************)
(* The ledgers.                                                            *)
(***************************************************************************)

\* The loop has read completed-stages.json once: what has been recorded since lies
\* behind its cursor.
LedgerInv ==
  /\ InLoop /\ pc # "advance" => Indices(completed) \subseteq done \cup {i \in Nat : i < idx}
  /\ InLoop /\ pc = "advance" => Indices(completed) \subseteq done \cup {i \in Nat : i <= idx}
  /\ InStage /\ pc # "advance" => idx \notin Indices(completed)

\* Steps that record nothing, and start no stage.
LEMMA SameLedger ==
  ASSUME LedgerInv, UNCHANGED <<completed, done, idx, resuming>>,
         pc' \in LoopLocations /\ ~ resuming => pc \in LoopLocations,
         pc' \in StageLocations /\ ~ resuming => pc \in StageLocations,
         pc' = "advance" \/ pc = "advance" => pc' = pc
  PROVE  LedgerInv'
BY DEF LedgerInv, InLoop, InStage, Indices, StageLocations, LoopLocations

\* Outside of the dispatch loop there is nothing to keep.
LEMMA NoLoopLedger ==
  ASSUME pc' \notin LoopLocations \/ resuming'
  PROVE  LedgerInv'
BY DEF LedgerInv, InLoop, InStage, LoopLocations

\* Entering the loop reads the list of completed stages.
LEMMA EnterGraphLedger ==
  ASSUME NEW start, NEW asking, EnterGraph(start, asking)
  PROVE  LedgerInv' /\ UNCHANGED <<completed, retries>>
<1>1. CASE WaitForChangeRequest(start) \/ DiesInRecovery(start)
  <2>1. pc' = "off" /\ UNCHANGED ledgers
    BY <1>1 DEF WaitForChangeRequest, DiesInRecovery, EndProcess
  <2> QED
    BY <2>1, NoLoopLedger DEF ledgers, LoopLocations, StageLocations
<1>2. CASE EnterLoop(start, asking)
  <2>1. pc' = "loop" /\ done' = {c.index : c \in completed} /\ UNCHANGED ledgers
    BY <1>2 DEF EnterLoop
  <2>2. Indices(completed)' = done'
    BY <2>1 DEF Indices, ledgers
  <2> QED
    BY <2>1, <2>2 DEF LedgerInv, InLoop, InStage, StageLocations, ledgers
<1> QED
  BY <1>1, <1>2 DEF EnterGraph

\* Every step keeps LedgerInv, and takes nothing off the ledgers.
LEMMA LedgerStep ==
  ASSUME TypeInv, LedgerInv, [Next]_vars
  PROVE  /\ LedgerInv'
         /\ pc = "loop" /\ pc' = "exec" => idx \notin Indices(completed)
         /\ completed \subseteq completed' /\ retries \subseteq retries'
         /\ retries' # retries => idx \notin Indices(completed)
<1> DEFINE Quiet == LedgerInv' /\ UNCHANGED <<completed, retries>> /\ pc' # "exec"
           All == /\ LedgerInv'
                  /\ pc = "loop" /\ pc' = "exec" => idx \notin Indices(completed)
                  /\ completed \subseteq completed' /\ retries \subseteq retries'
                  /\ retries' # retries => idx \notin Indices(completed)
<1>q. Quiet => All
  OBVIOUS
<1>i. idx \in Nat /\ done \subseteq Nat
  BY DEF TypeInv, TypeOK
<1>s. pc \in LoopLocations \ {"exec", "markers", "handle", "asked"} => ~ resuming
  BY DEF TypeInv, Position
<1>1. ASSUME RunPlanning \/ ContinueRun \/ Reenter PROVE All
  <2>1. \E start : \E asking : EnterGraph(start, asking)
    BY <1>1 DEF RunPlanning, ContinueRun, Reenter
  <2>2. LedgerInv' /\ UNCHANGED <<completed, retries>>
    BY <2>1, EnterGraphLedger
  <2>3. pc' # "exec"
    BY <2>1 DEF EnterGraph, WaitForChangeRequest, DiesInRecovery, EnterLoop, EndProcess
  <2> QED
    BY <1>q, <2>2, <2>3
<1>2. ASSUME ResumeWithResponse PROVE All
  <2>1. resuming' = TRUE /\ UNCHANGED ledgers /\ pc = "off"
    BY <1>2 DEF ResumeWithResponse, Start
  <2> QED
    BY <2>1, NoLoopLedger DEF ledgers
<1>3. ASSUME \/ CannotParse \/ UserCancels \/ Crash \/ Escalate \/ Finish \/ ResumeWithoutThread
             \/ UserAnswers /\ ~ AnswerThread
      PROVE  All
  <2>1. pc' = "off" /\ UNCHANGED ledgers
    BY <1>3 DEF CannotParse, UserCancels, Crash, Escalate, Finish, Leave, EndProcess, UserAnswers,
                ResumeWithoutThread, Start
  <2> QED
    BY <1>q, <2>1, NoLoopLedger DEF ledgers, LoopLocations, StageLocations
<1>4. ASSUME Skip PROVE All
  <2>1. pc = "loop" /\ pc' = "loop" /\ idx' = idx + 1 /\ UNCHANGED <<ledgers, done, resuming>>
    BY <1>4 DEF Skip
  <2>2. ~ resuming
    BY <1>s, <2>1 DEF LoopLocations
  <2>3. Indices(completed) \subseteq done \cup {i \in Nat : i < idx}
    BY <2>1, <2>2 DEF LedgerInv, InLoop, LoopLocations
  <2>4. Indices(completed)' \subseteq done' \cup {i \in Nat : i < idx'}
    BY <1>i, <2>1, <2>3 DEF ledgers, Indices
  <2>5. LedgerInv'
    BY <2>1, <2>4 DEF LedgerInv, InLoop, InStage, StageLocations
  <2> QED
    BY <1>q, <2>1, <2>5 DEF ledgers
<1>5. ASSUME StartStage PROVE All
  <2>1. pc = "loop" /\ pc' = "exec" /\ idx \notin done /\ UNCHANGED <<ledgers, process>>
    BY <1>5 DEF StartStage
  <2>2. ~ resuming
    BY <1>s, <2>1 DEF LoopLocations
  <2>3. Indices(completed) \subseteq done \cup {i \in Nat : i < idx}
    BY <2>1, <2>2 DEF LedgerInv, InLoop, LoopLocations
  <2>4. idx \notin Indices(completed)
    BY <1>i, <2>1, <2>3
  <2>5. LedgerInv'
    BY <2>1, <2>3, <2>4 DEF LedgerInv, InLoop, InStage, ledgers, process, Indices
  <2> QED
    BY <2>1, <2>4, <2>5 DEF ledgers
<1>6. ASSUME WriteHandle PROVE All
  <2>1. /\ pc = "handle" /\ UNCHANGED ledgers
        /\ \/ UNCHANGED process /\ pc' \in {"asked", "resumed", "apply"}
           \/ pc' = "off"
    BY <1>6 DEF WriteHandle, AfterSession, EndProcess
  <2>2. CASE pc' \in {"off", "resumed"}
    BY <1>q, <2>1, <2>2, NoLoopLedger DEF ledgers, LoopLocations, StageLocations
  <2>3. CASE UNCHANGED process /\ pc' \in {"asked", "apply"}
    BY <1>q, <2>1, <2>3, SameLedger DEF ledgers, process, LoopLocations, StageLocations
  <2> QED
    BY <2>1, <2>2, <2>3
<1>7. ASSUME \/ SessionWrites \/ ApplyStage \/ SessionStep \/ WriteMarkers
             \/ UserAnswers /\ AnswerThread
      PROVE  All
  <2>1. /\ UNCHANGED <<ledgers, process>> /\ pc # "loop"
        /\ pc \in {"exec", "markers", "asked", "apply"} /\ pc' \in {"exec", "markers", "handle", "check"}
    <3>1. CASE SessionStep
      BY <3>1, SessionStepType
    <3>2. CASE ~ SessionStep
      BY <1>7, <3>2 DEF SessionWrites, UserAnswers, ApplyStage, AnswerThread, WriteMarkers
    <3> QED
      BY <3>1, <3>2
  <2> QED
    BY <2>1, SameLedger DEF ledgers, process, LoopLocations, StageLocations
<1>8. ASSUME RollBack PROVE All
  <2>1. pc = "check" /\ pc' = "loop" /\ retries' \in Recount(idx) /\ UNCHANGED <<completed, process>>
    BY <1>8 DEF RollBack
  <2>2. retries \subseteq retries'
    BY <2>1 DEF Recount
  <2>3. ~ resuming
    BY <1>s, <2>1 DEF LoopLocations, StageLocations
  <2>4. idx \notin Indices(completed)
    BY <2>1, <2>3 DEF LedgerInv, InStage, StageLocations
  <2>5. LedgerInv'
    BY <2>1, SameLedger DEF process, LoopLocations, StageLocations
  <2> QED
    BY <2>1, <2>2, <2>4, <2>5
<1>9. ASSUME Accept PROVE All
  <2>1. pc = "check" /\ pc' = "record" /\ UNCHANGED <<ledgers, idx, done, resuming>>
    BY <1>9 DEF Accept
  <2> QED
    BY <1>q, <2>1, SameLedger DEF ledgers, LoopLocations, StageLocations
<1>10. ASSUME Record PROVE All
  <2>1. pc = "record" /\ pc' = "advance" /\ UNCHANGED <<retries, process>>
        /\ (completed' = completed \/ completed' = completed \cup {[index |-> idx, stage |-> Current.stage]})
    BY <1>10 DEF Record
  <2>2. ~ resuming
    BY <1>s, <2>1 DEF LoopLocations, StageLocations
  <2>3. Indices(completed) \subseteq done \cup {i \in Nat : i < idx}
    BY <2>1, <2>2 DEF LedgerInv, InLoop, LoopLocations, StageLocations
  <2>4. Indices(completed)' \subseteq Indices(completed) \cup {idx}
    BY <2>1 DEF Indices
  <2>5. Indices(completed)' \subseteq done \cup {i \in Nat : i <= idx}
    BY <1>i, <2>3, <2>4
  <2>6. LedgerInv'
    BY <2>1, <2>5 DEF LedgerInv, InLoop, InStage, process
  <2> QED
    BY <2>1, <2>6
<1>11. ASSUME Advance PROVE All
  <2>1. pc = "advance" /\ pc' = "loop" /\ idx' = idx + 1 /\ UNCHANGED <<ledgers, done, resuming>>
    BY <1>11 DEF Advance
  <2>2. ~ resuming
    BY <1>s, <2>1 DEF LoopLocations, StageLocations
  <2>3. Indices(completed) \subseteq done \cup {i \in Nat : i <= idx}
    BY <2>1, <2>2 DEF LedgerInv, InLoop, LoopLocations, StageLocations
  <2>4. Indices(completed)' \subseteq done' \cup {i \in Nat : i < idx'}
    BY <1>i, <2>1, <2>3 DEF ledgers, Indices
  <2>5. LedgerInv'
    BY <2>1, <2>4 DEF LedgerInv, InLoop, InStage, StageLocations
  <2> QED
    BY <1>q, <2>1, <2>5 DEF ledgers
<1>12. ASSUME AdvanceResumed PROVE All
  <2>1. pc' = "reenter" /\ UNCHANGED ledgers
    BY <1>12 DEF AdvanceResumed
  <2> QED
    BY <1>q, <2>1, NoLoopLedger DEF ledgers, LoopLocations, StageLocations
<1>13. ASSUME UNCHANGED vars PROVE All
  <2>1. UNCHANGED <<completed, retries, done, idx, resuming, pc>>
    BY <1>13 DEF vars, ledgers, process
  <2> QED
    BY <2>1, SameLedger
<1> QED
  BY <1>1, <1>2, <1>3, <1>4, <1>5, <1>6, <1>7, <1>8, <1>9, <1>10, <1>11, <1>12, <1>13
     DEF Next, PilotStep, UserStep

-----------------------------------------------------------------------------
(***************************************************************************)
(* The evidence for what is recorded.                                      *)
(***************************************************************************)

Evidence == verify_stage_completion(Current.stage, art[Artifact(Current)])

Published ==
  Current.stage = "exec_plan_detail" /\ art[Current] # "none" => Current.unit \in published

EvidenceInv ==
  /\ pc \in {"check", "record"} => Published
  /\ pc = "record" => Evidence

\* Every step keeps EvidenceInv, and records with evidence.
LEMMA EvidenceStep ==
  ASSUME TypeInv, EvidenceInv, [Next]_vars
  PROVE  EvidenceInv' /\ (completed' # completed => Evidence /\ Published)
<1>1. ASSUME ApplyStage PROVE EvidenceInv' /\ completed' = completed
  <2>1. pc' = "check" /\ UNCHANGED <<process, ledgers>> /\ ApplyCompletion(Current)
    BY <1>1 DEF ApplyStage
  <2>2. UNCHANGED <<plan, idx, completed>>
    BY <2>1 DEF process, ledgers
  <2>3. Current' = Current
    BY <2>2 DEF Current
  <2>4. ASSUME Current.stage = "exec_plan_detail", art'[Current] # "none"
        PROVE  Current.unit \in published'
    <3>1. Artifact(Current) = Current
      BY <2>4 DEF Artifact, ExecPlanStages
    <3>2. Template(Current.stage, art[Current]) = art[Current]
      BY <2>4 DEF Template
    <3>3. art' = [art EXCEPT ![Current] = art[Current]]
      BY <2>1, <3>1, <3>2 DEF ApplyCompletion
    <3>4. art'[Current] = art[Current]
      BY <3>3 DEF TypeInv, TypeOK
    <3> QED
      BY <2>1, <2>4, <3>4 DEF ApplyCompletion
  <2>5. Published'
    BY <2>3, <2>4 DEF Published
  <2> QED
    BY <2>1, <2>2, <2>5 DEF EvidenceInv
<1>2. ASSUME Accept PROVE EvidenceInv' /\ completed' = completed
  <2>1. /\ pc = "check" /\ pc' = "record" /\ GatesPass /\ plan' = Injected
        /\ UNCHANGED <<ledgers, files, idx>>
    BY <1>2 DEF Accept
  <2>2. plan \in Seq(Dispatches) /\ idx \in Nat /\ idx < Len(plan)
    BY <2>1 DEF TypeInv, TypeOK, Position, InStage, StageLocations, LoopLocations
  <2>3. Current' = Current
    BY <2>1, <2>2, InjectedKeepsCurrent DEF Current
  <2>4. UNCHANGED <<art, published, completed>>
    BY <2>1 DEF files, ledgers
  <2>5. Published /\ Evidence
    BY <2>1 DEF EvidenceInv, GatesPass, Evidence
  <2>6. Published' /\ Evidence'
    BY <2>3, <2>4, <2>5 DEF Published, Evidence
  <2> QED
    BY <2>4, <2>6 DEF EvidenceInv
<1>3. ASSUME Record PROVE EvidenceInv' /\ Evidence /\ Published
  <2>1. pc = "record" /\ pc' = "advance"
    BY <1>3 DEF Record
  <2> QED
    BY <2>1 DEF EvidenceInv
<1>4. ASSUME EnterGraph(next, interactive) \/ RunPlanning \/ ContinueRun
      PROVE  EvidenceInv' /\ completed' = completed
  <2>1. \E start : \E asking : EnterGraph(start, asking)
    BY <1>4 DEF RunPlanning, ContinueRun
  <2>2. pc' \in {"off", "loop"} /\ UNCHANGED ledgers
    BY <2>1 DEF EnterGraph, WaitForChangeRequest, DiesInRecovery, EnterLoop, EndProcess
  <2> QED
    BY <2>2 DEF EvidenceInv, ledgers
<1>5. ASSUME \/ ResumeWithResponse \/ CannotParse \/ UserCancels \/ Crash \/ Escalate \/ Finish
             \/ Skip \/ StartStage \/ SessionWrites \/ UserAnswers \/ RollBack \/ Advance
             \/ AdvanceResumed \/ ResumeWithoutThread \/ WriteMarkers
      PROVE  EvidenceInv' /\ completed' = completed
  <2>1. pc' \notin {"check", "record"} /\ UNCHANGED completed
    BY <1>5 DEF ResumeWithResponse, CannotParse, UserCancels, Crash, Escalate, Finish, Skip, StartStage,
                SessionWrites, UserAnswers, RollBack, Advance, AdvanceResumed, AnswerThread, Leave,
                EndProcess, ResumeWithoutThread, Start, WriteMarkers, ledgers
  <2> QED
    BY <2>1 DEF EvidenceInv
<1>6. ASSUME SessionStep \/ WriteHandle
      PROVE  EvidenceInv' /\ completed' = completed
  <2>1. pc' \notin {"check", "record"} /\ UNCHANGED ledgers
    BY <1>6, SessionStepType DEF WriteHandle, AfterSession, EndProcess
  <2> QED
    BY <2>1 DEF EvidenceInv, ledgers
<1>7. ASSUME UNCHANGED vars PROVE EvidenceInv' /\ completed' = completed
  <2>1. UNCHANGED <<pc, plan, idx, art, published, completed>>
    BY <1>7 DEF vars, files, process, ledgers
  <2>2. Current' = Current
    BY <2>1 DEF Current
  <2> QED
    BY <2>1, <2>2 DEF EvidenceInv, Published, Evidence
<1> QED
  BY <1>1, <1>2, <1>3, <1>4, <1>5, <1>6, <1>7 DEF Next, PilotStep, UserStep, Reenter


-----------------------------------------------------------------------------
(***************************************************************************)
(* Waiting runs.                                                           *)
(***************************************************************************)

\* A run that waits has asked, and a session that waits for an answer has asked it.
AnswerInv ==
  /\ WaitingIsAnswerable
  /\ pc \in {"markers", "handle"} /\ outcome.state \in WaitingStates => asks # 0

\* The run state is left alone, or it waits for nothing.
LEMMA NotAsking ==
  ASSUME AnswerInv,
         \/ UNCHANGED runState
         \/ runState'.state \notin WaitingStates /\ runState'.pending = NothingPending,
         runState.thread = NoThread /\ (pc = "handle" \/ orphaned) => orphaned',
         pc' \notin {"markers", "handle"}
  PROVE  AnswerInv'
BY DEF AnswerInv, WaitingIsAnswerable

\* Only a waiting run keeps pending keys.
LEMMA NoPendingKeys ==
  ASSUME NEW state, state \notin WaitingStates, NEW thread, NEW p
  PROVE  RunState(state, thread, p) = [state |-> state, thread |-> thread, pending |-> NothingPending]
BY DEF RunState

\* What a session has asked is pending under its own event.
LEMMA AskedIsPending ==
  ASSUME NEW thread, NEW p \in Pending, asks \in Nat, outcome.state \in WaitingStates => asks # 0
  PROVE  LET new == RunState(outcome.state, thread, Asked(p))
         IN  /\ new.state = outcome.state /\ new.thread = thread
             /\ new.state \in WaitingStates =>
                  /\ new.pending.event = asks /\ asks # 0
                  /\ new.state = "waiting_for_input" => new.pending.question = asks
                  /\ new.state # "waiting_for_input" => new.pending.approval = asks
             /\ new.state \notin WaitingStates => new.pending = NothingPending
<1>1. CASE outcome.state \in WaitingStates
  <2>1. RunState(outcome.state, thread, Asked(p)) =
          [state |-> outcome.state, thread |-> thread, pending |-> Asked(p)]
    BY <1>1 DEF RunState
  <2>2. /\ Asked(p).event = asks
        /\ outcome.state = "waiting_for_input" => Asked(p).question = asks
        /\ outcome.state # "waiting_for_input" => Asked(p).approval = asks
    BY AskedType
  <2> QED
    BY <1>1, <2>1, <2>2
<1>2. CASE outcome.state \notin WaitingStates
  BY <1>2, NoPendingKeys
<1> QED
  BY <1>1, <1>2

\* The end of a session leaves the run state alone, or it waits for nothing.
LEMMA SessionStepAnswer ==
  ASSUME TypeInv, AnswerInv, SessionStep
  PROVE  AnswerInv'
<1>1. /\ pc = "exec" /\ pc' \in {"markers", "handle"}
  BY SessionStepType
<1>2. PICK state \in Verdicts, complete \in BOOLEAN, marked \in BOOLEAN :
        /\ SessionOver(state, complete, marked)
        /\ state \in WaitingStates => asks' = asks + 1
  <2>1. CASE SessionAsks
    <3>1. PICK state \in WaitingStates : SessionOver(state, FALSE, TRUE)
      BY <2>1 DEF SessionAsks
    <3> QED
      BY <2>1, <3>1 DEF SessionAsks, Verdicts, StopStates
  <2>2. CASE ~ SessionAsks
    <3>1. PICK state \in Verdicts \ WaitingStates, complete \in BOOLEAN, marked \in BOOLEAN :
            SessionOver(state, complete, marked)
      BY <2>2 DEF SessionStep, SessionFails, SessionEnds, SessionNeedsHuman, Verdicts, StopStates,
                  WaitingStates
    <3> QED
      BY <3>1
  <2> QED
    BY <2>1, <2>2
<1>3. outcome'.state = state /\ asks \in Nat
  BY <1>2, OverType DEF TypeInv, TypeOK
<1>4. \/ UNCHANGED runState
      \/ \E thread : runState' = RunState("running_exec", thread, NothingPending)
  BY <1>2 DEF SessionOver
<1>5. \/ UNCHANGED runState
      \/ runState'.state \notin WaitingStates /\ runState'.pending = NothingPending
  <2>1. "running_exec" \notin WaitingStates
    BY DEF WaitingStates
  <2> QED
    BY <1>4, <2>1, NoPendingKeys
<1>6. UNCHANGED orphaned
  BY <1>2 DEF SessionOver
<1>7. WaitingIsAnswerable'
  BY <1>1, <1>5, <1>6 DEF AnswerInv, WaitingIsAnswerable
<1>8. outcome'.state \in WaitingStates => asks' # 0
  BY <1>2, <1>3
<1> QED
  BY <1>7, <1>8 DEF AnswerInv

\* Every step keeps AnswerInv.
LEMMA AnswerStep ==
  ASSUME TypeInv, AnswerInv, [Next]_vars
  PROVE  AnswerInv'
<1>w. /\ "running_exec" \notin WaitingStates /\ "escalated" \notin WaitingStates
      /\ "completed" \notin WaitingStates
  BY DEF WaitingStates
<1>t. /\ outcome \in Outcome /\ before \in Pending /\ asks \in Nat
  BY DEF TypeInv, TypeOK
<1>1. ASSUME RunPlanning \/ ContinueRun \/ Reenter PROVE AnswerInv'
  <2>1. \E start : \E asking : EnterGraph(start, asking)
    BY <1>1 DEF RunPlanning, ContinueRun, Reenter
  <2>2. pc' \in {"off", "loop"} /\ UNCHANGED runState
    BY <2>1 DEF EnterGraph, WaitForChangeRequest, DiesInRecovery, EnterLoop, EndProcess
  <2>3. pc # "handle" /\ UNCHANGED orphaned
    BY <1>1 DEF RunPlanning, ContinueRun, Reenter, Start, history
  <2> QED
    BY <2>2, <2>3, NotAsking
<1>2. ASSUME ResumeWithResponse \/ (UserAnswers /\ AnswerThread) PROVE AnswerInv'
  <2>1. AnswerThread /\ pc # "handle" /\ UNCHANGED orphaned
    BY <1>2 DEF ResumeWithResponse, UserAnswers, Start, history
  <2>2. runState' = [state |-> "running_exec", thread |-> runState.thread, pending |-> NothingPending]
        /\ pc' = "exec"
    BY <1>w, <2>1, NoPendingKeys DEF AnswerThread
  <2> QED
    BY <1>w, <2>1, <2>2, NotAsking
<1>3. ASSUME CannotParse \/ UserCancels \/ (UserAnswers /\ ~ AnswerThread) PROVE AnswerInv'
  <2>1. pc' = "off" /\ UNCHANGED <<runState, orphaned>> /\ pc # "handle"
    BY <1>3 DEF CannotParse, UserCancels, UserAnswers, Leave, EndProcess, checkpoint, history
  <2> QED
    BY <2>1, NotAsking
<1>4. ASSUME Crash PROVE AnswerInv'
  <2>1. pc' = "off" /\ UNCHANGED runState
        /\ orphaned' = (orphaned \/ (pc = "handle" /\ runState.thread = NoThread))
    BY <1>4 DEF Crash, Leave, EndProcess, checkpoint
  <2> QED
    BY <2>1, NotAsking
<1>5. ASSUME Escalate \/ Finish PROVE AnswerInv'
  <2>1. pc' = "off" /\ runState'.state \notin WaitingStates /\ runState'.pending = NothingPending
    BY <1>5, <1>w, NoPendingKeys DEF Escalate, Finish, Leave, EndProcess
  <2>2. pc # "handle" /\ UNCHANGED orphaned
    BY <1>5 DEF Escalate, Finish, history
  <2> QED
    BY <2>1, <2>2, NotAsking
<1>6. ASSUME \/ StartStage \/ Skip \/ ApplyStage \/ RollBack \/ Accept \/ Record \/ Advance
             \/ AdvanceResumed \/ SessionWrites
      PROVE  AnswerInv'
  <2>1. pc \notin {"markers", "handle"} /\ pc' \notin {"markers", "handle"} /\ UNCHANGED <<runState, orphaned>>
    BY <1>6 DEF StartStage, Skip, ApplyStage, RollBack, Accept, Record, Advance, AdvanceResumed,
                SessionWrites, checkpoint, history
  <2> QED
    BY <2>1, NotAsking
<1>7. ASSUME SessionStep PROVE AnswerInv'
  BY <1>7, SessionStepAnswer
<1>8. ASSUME WriteMarkers PROVE AnswerInv'
  <2>1. /\ pc = "markers" /\ pc' = "handle" /\ UNCHANGED <<outcome, asks>>
        /\ runState' = RunState(outcome.state, NoThread, Asked(NothingPending))
    BY <1>8 DEF WriteMarkers, session, history
  <2>2. outcome.state \in WaitingStates => asks # 0
    BY <2>1 DEF AnswerInv
  <2>3. WaitingIsAnswerable'
    BY <1>t, <2>1, <2>2, NothingPendingType, AskedIsPending DEF WaitingIsAnswerable
  <2> QED
    BY <2>1, <2>2, <2>3 DEF AnswerInv
<1>9. ASSUME WriteHandle PROVE AnswerInv'
  <2>1. /\ pc = "handle" /\ pc' \in {"off", "asked", "resumed", "apply"}
        /\ orphaned' = (outcome.thread = NoThread)
        /\ runState' = IF outcome.thread = NoThread THEN runState
                       ELSE RunState(outcome.state, outcome.thread, Asked(before))
    BY <1>9 DEF WriteHandle, AfterSession, EndProcess
  <2>2. outcome.state \in WaitingStates => asks # 0
    BY <2>1 DEF AnswerInv
  <2>3. CASE outcome.thread = NoThread
    BY <2>1, <2>3, NotAsking
  <2>4. CASE outcome.thread # NoThread
    <3>1. runState' = RunState(outcome.state, outcome.thread, Asked(before))
      BY <2>1, <2>4
    <3>2. WaitingIsAnswerable'
      BY <1>t, <2>2, <2>4, <3>1, AskedIsPending DEF WaitingIsAnswerable
    <3> QED
      BY <2>1, <3>2 DEF AnswerInv
  <2> QED
    BY <2>3, <2>4
<1>10. ASSUME ResumeWithoutThread PROVE AnswerInv'
  <2>1. UNCHANGED <<runState, pc, orphaned>> /\ pc = "off"
    BY <1>10 DEF ResumeWithoutThread, Start, checkpoint
  <2> QED
    BY <2>1, NotAsking
<1>11. ASSUME UNCHANGED vars PROVE AnswerInv'
  <2>1. UNCHANGED <<runState, pc, orphaned, outcome, asks>>
    BY <1>11 DEF vars, checkpoint, session, history
  <2> QED
    BY <2>1 DEF AnswerInv, WaitingIsAnswerable
<1> QED
  BY <1>1, <1>2, <1>3, <1>4, <1>5, <1>6, <1>7, <1>8, <1>9, <1>10, <1>11
     DEF Next, PilotStep, UserStep

-----------------------------------------------------------------------------
(***************************************************************************)
(* The checkpoint implements PlanProgress.                                 *)
(***************************************************************************)

\* Initial states are initial in PlanProgress.
LEMMA ProgressInit == Init => Progress!Init
BY DEF Init, Progress!Init, RunStates, StopStates, WaitingStates

\* Every step is one of PlanProgress, or changes nothing there.
LEMMA ProgressStep ==
  TypeInv /\ [Next]_vars => [Progress!Next]_(Progress!progress)
<1> SUFFICES ASSUME TypeInv, [Next]_vars
             PROVE  Progress!Next \/ UNCHANGED <<next, runState.state>>
  BY DEF Progress!progress
<1> USE DEF Progress!Next
<1>n. next \in Nat /\ idx \in Nat /\ Len(plan) \in Nat /\ Len(BasePlan) \in Nat
  <2>1. BasePlan \in Seq(Dispatches)
    BY PlansAreSequences
  <2> QED
    BY <2>1, LenProperties DEF TypeInv, TypeOK
<1>r. \A state \in StopStates \cup {"running_exec"} : state \in RunStates \ {"completed"}
  BY DEF RunStates, StopStates, WaitingStates
<1>s. \A state, thread, p : RunState(state, thread, p).state = state
  BY DEF RunState
<1>1. ASSUME RunPlanning PROVE Progress!Next
  <2>1. next' = 0 /\ UNCHANGED runState
    BY <1>1 DEF RunPlanning, EnterGraph, WaitForChangeRequest, DiesInRecovery, EnterLoop
  <2> QED
    BY <2>1 DEF Progress!Restart
<1>2. ASSUME ContinueRun \/ Reenter PROVE UNCHANGED <<next, runState.state>>
  BY <1>2 DEF ContinueRun, Reenter, EnterGraph, WaitForChangeRequest, DiesInRecovery, EnterLoop
<1>3. ASSUME ResumeWithResponse \/ (UserAnswers /\ AnswerThread) PROVE Progress!Next
  <2>1. AnswerThread
    BY <1>3 DEF ResumeWithResponse
  <2>2. next' = next /\ runState'.state = "running_exec"
    BY <1>s, <2>1 DEF AnswerThread
  <2> QED
    BY <1>r, <2>2 DEF Progress!Report
<1>4. ASSUME SessionStep \/ WriteMarkers \/ WriteHandle
      PROVE  Progress!Next \/ UNCHANGED <<next, runState.state>>
  <2>1. next' = next
    BY <1>4, SessionStepType DEF WriteMarkers, WriteHandle
  <2>2. runState' = runState \/ runState'.state \in StopStates \cup {"running_exec"}
    <3>1. CASE SessionStep
      <4>1. PICK state, complete, marked : SessionOver(state, complete, marked)
        BY <3>1 DEF SessionStep, SessionFails, SessionEnds, SessionAsks, SessionNeedsHuman
      <4>2. runState' = runState \/ runState'.state = "running_exec"
        BY <1>s, <4>1 DEF SessionOver
      <4> QED
        BY <4>2
    <3>2. CASE WriteMarkers \/ WriteHandle
      <4>1. pc \in {"markers", "handle"} /\ (runState' = runState \/ runState'.state = outcome.state)
        BY <1>s, <3>2 DEF WriteMarkers, WriteHandle
      <4>2. outcome.state \in StopStates \cup {"running_exec"}
        BY DEF TypeInv, TypeOK, Outcome, Verdicts
      <4> QED
        BY <4>1, <4>2
    <3> QED
      BY <1>4, <3>1, <3>2
  <2> QED
    BY <1>r, <2>1, <2>2 DEF Progress!Report
<1>5. ASSUME Escalate PROVE Progress!Next
  <2>1. next' = next /\ runState'.state = "escalated"
    BY <1>5, <1>s DEF Escalate
  <2>2. "escalated" \in StopStates
    BY DEF StopStates
  <2> QED
    BY <1>r, <2>1, <2>2 DEF Progress!Report
<1>6. ASSUME Skip \/ Advance PROVE Progress!Next
  <2>1. pc \in {"loop", "advance"} /\ next' = idx + 1 /\ UNCHANGED runState
    BY <1>6 DEF Skip, Advance
  <2>2. next = idx
    BY <2>1 DEF TypeInv, Position, InLoop, LoopLocations, StageLocations
  <2> QED
    BY <2>1, <2>2 DEF Progress!Advance
<1>7. ASSUME AdvanceResumed PROVE Progress!Next
  BY <1>7 DEF AdvanceResumed, Progress!Advance
<1>8. ASSUME Finish PROVE Progress!Next
  <2>1. pc = "loop" /\ idx >= Len(plan) /\ next' = Len(plan) /\ runState'.state = "completed"
    BY <1>8, <1>s DEF Finish
  <2>2. next = idx /\ Len(plan) >= Len(BasePlan)
    BY <2>1 DEF TypeInv, Position, InLoop, LoopLocations
  <2>3. next >= Len(BasePlan) /\ next' \in Len(BasePlan)..next
    BY <1>n, <2>1, <2>2
  <2> QED
    BY <2>1, <2>3 DEF Progress!Complete
<1>9. ASSUME \/ CannotParse \/ UserCancels \/ Crash \/ StartStage \/ SessionWrites \/ ApplyStage
             \/ RollBack \/ Accept \/ Record \/ ResumeWithoutThread
             \/ UserAnswers /\ ~ AnswerThread
             \/ UNCHANGED vars
      PROVE  UNCHANGED <<next, runState.state>>
  BY <1>9 DEF ResumeWithoutThread, UserAnswers, CannotParse, UserCancels, Crash, StartStage,
              SessionWrites, ApplyStage, RollBack, Accept, Record, vars, checkpoint
<1> QED
  BY <1>1, <1>2, <1>3, <1>4, <1>5, <1>6, <1>7, <1>8, <1>9 DEF Next, PilotStep, UserStep

-----------------------------------------------------------------------------
(***************************************************************************)
(* What has been injected, and when.                                       *)
(***************************************************************************)

WithOutlines == BasePlan \o Outlines
WithDetails == WithOutlines \o Details

\* The dispatch with index i has been accepted.
Behind(i) == IF pc \in {"record", "advance"} THEN i <= idx ELSE i < idx

\* What has been injected is recorded, once the loop is behind it.
InjectedRecorded == \A j \in Nat : Len(BasePlan) <= j /\ j < idx => j \in Indices(completed)

\* The plan is what the run began with, or the skeleton has been accepted in this run
\* and the outlines follow, or all of them have been accepted and the details follow.
PlanInv ==
  InLoop =>
    /\ done \subseteq Indices(completed)
    /\ pc = "advance" => idx \in Indices(completed)
    /\ \/ plan = BasePlan
       \/ /\ plan = WithOutlines /\ Behind(Len(BasePlan) - 1)
          /\ InjectedRecorded
       \/ /\ plan = WithDetails /\ Behind(Len(BasePlan) + Features - 1)
          /\ InjectedRecorded

\* Dispatches injected behind the last one are appended.
LEMMA InjectAtEnd ==
  ASSUME NEW S, plan \in Seq(S), idx \in Nat, idx + 1 = Len(plan), NEW d \in Seq(S)
  PROVE  Inject(d) = plan \o d
<1>1. SubSeq(plan, 1, Len(plan)) = plan
  OBVIOUS
<1>2. SubSeq(plan, idx + 2, Len(plan)) = <<>>
  OBVIOUS
<1>3. plan \o d \in Seq(S)
  BY ConcatProperties
<1>4. (plan \o d) \o <<>> = plan \o d
  BY <1>3
<1> QED
  BY <1>1, <1>2, <1>4 DEF Inject

\* Where in the plans the stages are.
LEMMA Shapes ==
  /\ Len(BasePlan) \in Nat /\ Features \in Nat
  /\ BasePlan \in Seq(Dispatches) /\ WithOutlines \in Seq(Dispatches)
  /\ WithDetails \in Seq(Dispatches)
  /\ Len(WithOutlines) = Len(BasePlan) + Features
  /\ Len(WithDetails) = Len(BasePlan) + Features + Features
  /\ \A i \in 1 .. Len(BasePlan) :
       WithOutlines[i] = BasePlan[i] /\ WithDetails[i] = BasePlan[i]
  /\ \A i \in Len(BasePlan) + 1 .. Len(BasePlan) + Features :
       /\ WithOutlines[i] = Outlines[i - Len(BasePlan)] /\ WithDetails[i] = WithOutlines[i]
       /\ WithOutlines[i].stage = Outline
  /\ \A i \in Len(BasePlan) + Features + 1 .. Len(WithDetails) : WithDetails[i].stage = Detail
<1>1. BasePlan \in Seq(Dispatches) /\ Outlines \in Seq(Dispatches) /\ Details \in Seq(Dispatches)
  BY PlansAreSequences
<1>2. Features \in Nat
  BY PlanningAssumption
<1>3. /\ Len(Outlines) = Features /\ Len(Details) = Features
      /\ \A f \in 1 .. Features : Outlines[f].stage = Outline /\ Details[f].stage = Detail
  BY <1>2 DEF Outlines, Details, Dispatch, Outline, Detail
<1> DEFINE B == Len(BasePlan)
<1>4. B \in Nat
  BY <1>1, LenProperties
<1>5. /\ WithOutlines \in Seq(Dispatches)
      /\ Len(WithOutlines) = B + Features
      /\ \A i \in 1 .. B + Features :
           WithOutlines[i] = IF i <= B THEN BasePlan[i] ELSE Outlines[i - B]
  BY <1>1, <1>3, ConcatProperties DEF WithOutlines
<1>6. /\ WithDetails \in Seq(Dispatches)
      /\ Len(WithDetails) = (B + Features) + Features
      /\ \A i \in 1 .. (B + Features) + Features :
           WithDetails[i] = IF i <= B + Features THEN WithOutlines[i] ELSE Details[i - (B + Features)]
  <2>1. /\ WithDetails \in Seq(Dispatches)
        /\ Len(WithDetails) = Len(WithOutlines) + Len(Details)
        /\ \A i \in 1 .. Len(WithOutlines) + Len(Details) :
             WithDetails[i] = IF i <= Len(WithOutlines) THEN WithOutlines[i]
                              ELSE Details[i - Len(WithOutlines)]
    BY <1>1, <1>5, ConcatProperties DEF WithDetails
  <2> QED
    BY <2>1, <1>3, <1>5
<1> HIDE DEF B
<1>7. \A i \in 1 .. B : WithOutlines[i] = BasePlan[i] /\ WithDetails[i] = BasePlan[i]
  BY <1>2, <1>4, <1>5, <1>6
<1>8. ASSUME NEW i \in B + 1 .. B + Features
      PROVE  /\ WithOutlines[i] = Outlines[i - B] /\ WithDetails[i] = WithOutlines[i]
             /\ WithOutlines[i].stage = Outline
  <2>1. /\ i \in 1 .. B + Features /\ i \in 1 .. (B + Features) + Features
        /\ ~ i <= B /\ i - B \in 1 .. Features
    BY <1>2, <1>4
  <2>2. WithOutlines[i] = Outlines[i - B] /\ WithDetails[i] = WithOutlines[i]
    BY <2>1, <1>5, <1>6
  <2> QED
    BY <2>1, <2>2, <1>3
<1>9. ASSUME NEW i \in B + Features + 1 .. B + Features + Features
      PROVE  WithDetails[i].stage = Detail
  <2>1. /\ i \in 1 .. (B + Features) + Features
        /\ ~ i <= B + Features /\ i - (B + Features) \in 1 .. Features
    BY <1>2, <1>4
  <2>2. WithDetails[i] = Details[i - (B + Features)]
    BY <2>1, <1>6
  <2> QED
    BY <2>1, <2>2, <1>3
<1> QED
  BY <1>1, <1>2, <1>4, <1>5, <1>6, <1>7, <1>8, <1>9 DEF B

\* Steps that leave the plan and the position in it.
LEMMA SamePlan ==
  ASSUME PlanInv, UNCHANGED <<plan, completed, done, idx, resuming>>,
         pc' \in LoopLocations /\ ~ resuming => pc \in LoopLocations,
         pc \in {"record", "advance"} \/ pc' \in {"record", "advance"} => pc' = pc
  PROVE  PlanInv'
<1>1. UNCHANGED <<WithOutlines, WithDetails>>
  BY DEF WithOutlines, WithDetails
<1> QED
  BY <1>1 DEF PlanInv, InLoop, Behind, InjectedRecorded, Indices

\* Outside of the dispatch loop there is no plan.
LEMMA NoLoopPlan ==
  ASSUME pc' \notin LoopLocations \/ resuming'
  PROVE  PlanInv'
BY DEF PlanInv, InLoop

\* A run begins with the base plan.
LEMMA EnterGraphPlan ==
  ASSUME NEW start, NEW asking, EnterGraph(start, asking)
  PROVE  PlanInv'
<1>1. CASE WaitForChangeRequest(start) \/ DiesInRecovery(start)
  <2>1. pc' = "off"
    BY <1>1 DEF WaitForChangeRequest, DiesInRecovery, EndProcess
  <2> QED
    BY <2>1, NoLoopPlan DEF LoopLocations, StageLocations
<1>2. CASE EnterLoop(start, asking)
  <2>1. pc' = "loop" /\ done' = {c.index : c \in completed} /\ UNCHANGED ledgers /\ plan' = BasePlan
    BY <1>2 DEF EnterLoop
  <2>2. Indices(completed)' = done'
    BY <2>1 DEF Indices, ledgers
  <2> QED
    BY <2>1, <2>2 DEF PlanInv
<1> QED
  BY <1>1, <1>2 DEF EnterGraph

\* The skeleton injects the outlines, the last outline the details, nothing else anything.
LEMMA AcceptKeepsPlan ==
  ASSUME TypeInv, PlanInv, Accept
  PROVE  PlanInv'
<1> DEFINE B == Len(BasePlan)
<1>1. /\ pc = "check" /\ pc' = "record" /\ UNCHANGED <<ledgers, idx, done, resuming>>
      /\ plan' = Injected
  BY DEF Accept
<1>2. ~ resuming /\ InLoop /\ idx < Len(plan) /\ idx \in Nat /\ plan \in Seq(Dispatches)
  BY <1>1 DEF TypeInv, TypeOK, Position, InLoop, InStage, LoopLocations, StageLocations
<1>3. Indices(completed)' = Indices(completed) /\ InjectedRecorded' = InjectedRecorded
  BY <1>1 DEF ledgers, Indices, InjectedRecorded
<1>4. \A i : Behind(i) => i < idx
  BY <1>1 DEF Behind
<1>5. \A i : Behind(i)' = (i <= idx)
  BY <1>1 DEF Behind
<1>6. done' \subseteq Indices(completed)'
  BY <1>1, <1>2, <1>3 DEF PlanInv
<1>7. Len(plan) \in Nat
  BY <1>2, LenProperties
<1>8. Outlines \in Seq(Dispatches) /\ Details \in Seq(Dispatches)
  BY PlansAreSequences
<1>9. UNCHANGED <<BasePlan, WithOutlines, WithDetails, Features>>
  BY DEF BasePlan, WithOutlines, WithDetails
<1>a. CASE plan = BasePlan
  <2>1. Current.stage \notin {Outline, Detail} /\ (Current.stage = Skeleton => idx + 1 = B)
    <3>1. idx + 1 \in 1 .. B
      BY <1>2, <1>7, <1>a
    <3> QED
      BY <3>1, <1>a, BasePlanStages DEF Current
  <2>2. CASE Current.stage = Skeleton /\ HasFeatures
    <3>1. Injected = Inject(Outlines)
      BY <2>2 DEF Injected, Skeleton
    <3>2. idx + 1 = Len(plan)
      BY <2>1, <2>2, <1>a
    <3>3. plan' = WithOutlines
      BY <3>1, <3>2, <1>1, <1>2, <1>8, <1>a, InjectAtEnd DEF WithOutlines
    <3>4. InjectedRecorded
      BY <3>2, <1>2, <1>a DEF InjectedRecorded
    <3>5. Behind(B - 1)'
      BY <3>2, <1>1, <1>2, <1>9, <1>a, Shapes DEF Behind
    <3> QED
      BY <3>3, <3>4, <3>5, <1>1, <1>3, <1>6 DEF PlanInv
  <2>3. CASE ~ (Current.stage = Skeleton /\ HasFeatures)
    <3>1. Injected = plan
      BY <2>1, <2>3 DEF Injected, Skeleton, Outline
    <3> QED
      BY <3>1, <1>1, <1>6, <1>a DEF PlanInv
  <2> QED
    BY <2>2, <2>3
<1>b. CASE plan = WithOutlines /\ Behind(B - 1) /\ InjectedRecorded
  <2>1. idx + 1 \in B + 1 .. B + Features
    BY <1>2, <1>4, <1>b, Shapes
  <2>2. Current.stage = Outline
    BY <2>1, <1>b, Shapes DEF Current
  <2>3. CASE ~ RemainingOutlines /\ HasFeatures
    <3>1. Injected = Inject(Details)
      BY <2>2, <2>3 DEF Injected, Outline
    <3>2. idx + 1 = Len(plan)
      <4>1. ~ (idx + 2 <= B + Features)
        <5> SUFFICES ASSUME idx + 2 <= B + Features PROVE FALSE
          OBVIOUS
        <5>1. idx + 2 \in B + 1 .. B + Features /\ idx + 2 \in (idx + 2) .. Len(plan)
          BY <2>1, <1>2, <1>b, Shapes
        <5>2. plan[idx + 2].stage = Outline
          BY <5>1, <1>b, Shapes
        <5> QED
          BY <5>1, <5>2, <2>3 DEF RemainingOutlines, Outline
      <4> QED
        BY <4>1, <2>1, <1>2, <1>b, Shapes
    <3>3. plan' = WithDetails
      BY <3>1, <3>2, <1>1, <1>2, <1>8, <1>b, InjectAtEnd DEF WithDetails
    <3>4. Behind(B + Features - 1)'
      BY <3>2, <1>1, <1>2, <1>9, <1>b, Shapes DEF Behind
    <3> QED
      BY <3>3, <3>4, <1>1, <1>3, <1>6, <1>b, <1>9 DEF PlanInv
  <2>4. CASE ~ (~ RemainingOutlines /\ HasFeatures)
    <3>1. Injected = plan
      BY <2>2, <2>4 DEF Injected, Outline
    <3>2. Behind(B - 1)'
      BY <2>1, <1>1, <1>2, <1>9, Shapes DEF Behind
    <3> QED
      BY <3>1, <3>2, <1>1, <1>3, <1>6, <1>9, <1>b DEF PlanInv
  <2> QED
    BY <2>3, <2>4
<1>c. CASE plan = WithDetails /\ Behind(B + Features - 1) /\ InjectedRecorded
  <2>1. idx + 1 \in B + Features + 1 .. Len(WithDetails)
    BY <1>2, <1>4, <1>7, <1>c, Shapes
  <2>2. Current.stage = Detail
    BY <2>1, <1>c, Shapes DEF Current
  <2>3. Injected = plan
    BY <2>2 DEF Injected, Detail
  <2>4. Behind(B + Features - 1)'
    BY <2>1, <1>1, <1>2, <1>9, Shapes DEF Behind
  <2> QED
    BY <2>3, <2>4, <1>1, <1>3, <1>6, <1>9, <1>c DEF PlanInv
<1> QED
  BY <1>2, <1>a, <1>b, <1>c DEF PlanInv

\* A dispatch is recorded where it stands.
LEMMA RecordKeepsPlan ==
  ASSUME TypeInv, PlanInv, Record
  PROVE  PlanInv'
<1>1. /\ pc = "record" /\ pc' = "advance" /\ UNCHANGED process
      /\ completed' = IF idx \in {c.index : c \in completed} THEN completed
                      ELSE completed \cup {[index |-> idx, stage |-> Current.stage]}
  BY DEF Record
<1>2. InLoop
  BY <1>1 DEF TypeInv, Position, InLoop, LoopLocations, StageLocations
<1>3. Indices(completed)' = Indices(completed) \cup {idx}
  <2>1. CASE idx \in {c.index : c \in completed}
    BY <1>1, <2>1 DEF Indices
  <2>2. CASE idx \notin {c.index : c \in completed}
    <3> DEFINE e == [index |-> idx, stage |-> Current.stage]
    <3>1. completed' = completed \cup {e} /\ e.index = idx
      BY <1>1, <2>2
    <3> HIDE DEF e
    <3> QED
      BY <3>1 DEF Indices
  <2> QED
    BY <2>1, <2>2
<1>4. InjectedRecorded => InjectedRecorded'
  BY <1>1, <1>3 DEF InjectedRecorded, process
<1>5. \A i : Behind(i)' = Behind(i)
  BY <1>1 DEF Behind, process
<1>6. UNCHANGED <<BasePlan, WithOutlines, WithDetails, Features>>
  BY DEF BasePlan, WithOutlines, WithDetails
<1>7. done' \subseteq Indices(completed)' /\ idx' \in Indices(completed)'
  BY <1>1, <1>2, <1>3 DEF PlanInv, process
<1> QED
  BY <1>1, <1>2, <1>4, <1>5, <1>6, <1>7 DEF PlanInv, process

\* The loop goes on from a recorded dispatch only.
LEMMA MoveOnKeepsPlan ==
  ASSUME TypeInv, PlanInv, Skip \/ Advance
  PROVE  PlanInv'
<1>1. /\ (pc = "loop" /\ idx \in done) \/ pc = "advance"
      /\ pc' = "loop" /\ idx' = idx + 1 /\ UNCHANGED <<ledgers, plan, done, resuming>>
  BY DEF Skip, Advance
<1>2. InLoop /\ idx \in Nat
  BY <1>1 DEF TypeInv, TypeOK, Position, InLoop, LoopLocations, StageLocations
<1>3. Indices(completed)' = Indices(completed)
  BY <1>1 DEF Indices, ledgers
<1>4. done \subseteq Indices(completed) /\ idx \in Indices(completed)
  BY <1>1, <1>2 DEF PlanInv
<1>5. InjectedRecorded => InjectedRecorded'
  BY <1>1, <1>2, <1>3, <1>4 DEF InjectedRecorded
<1>6. \A i \in Int : Behind(i) => Behind(i)'
  BY <1>1, <1>2 DEF Behind
<1>7. Behind(Len(BasePlan) - 1) => Behind(Len(BasePlan) - 1)'
  BY <1>1, <1>2, Shapes DEF Behind
<1>8. Behind(Len(BasePlan) + Features - 1) => Behind(Len(BasePlan) + Features - 1)'
  BY <1>1, <1>2, Shapes DEF Behind
<1>9. done' \subseteq Indices(completed)' /\ pc' # "advance" /\ plan' = plan
  BY <1>1, <1>3, <1>4
<1> QED
  BY <1>2, <1>5, <1>7, <1>8, <1>9 DEF PlanInv

\* When a detail is dispatched, every outline is in the plan and recorded.
LEMMA DetailsComeLast ==
  ASSUME TypeInv, PlanInv, StartStage, Current.stage = Detail
  PROVE  /\ Ranging(Outlines) \subseteq Ranging(plan)
         /\ \A i \in DOMAIN plan : plan[i].stage = Outline => i - 1 \in Indices(completed)
<1> DEFINE B == Len(BasePlan)
<1>1. pc = "loop" /\ idx < Len(plan)
  BY DEF StartStage
<1>2. InLoop /\ idx \in Nat /\ plan \in Seq(Dispatches)
  BY <1>1 DEF TypeInv, TypeOK, Position, InLoop, LoopLocations, StageLocations
<1>3. Len(plan) \in Nat /\ DOMAIN plan = 1 .. Len(plan) /\ idx + 1 \in 1 .. Len(plan)
  <2>1. Len(plan) \in Nat /\ DOMAIN plan = 1 .. Len(plan)
    BY <1>2, LenProperties
  <2> QED
    BY <2>1, <1>1, <1>2
<1>4. plan # BasePlan
  BY <1>3, BasePlanStages DEF Current
<1>5. \A i : Behind(i) => i < idx
  BY <1>1 DEF Behind
<1>6. ~ (plan = WithOutlines /\ Behind(B - 1))
  <2> SUFFICES ASSUME plan = WithOutlines, Behind(B - 1) PROVE FALSE
    OBVIOUS
  <2>1. idx + 1 \in B + 1 .. B + Features
    BY <1>2, <1>3, <1>5, Shapes
  <2> QED
    BY <2>1, Shapes DEF Current, Outline, Detail
<1>7. plan = WithDetails /\ Behind(B + Features - 1) /\ InjectedRecorded
  BY <1>2, <1>4, <1>6 DEF PlanInv
<1>8. ASSUME NEW i \in DOMAIN plan, plan[i].stage = Outline PROVE i - 1 \in Indices(completed)
  <2>1. i \in B + 1 .. B + Features
    <3>1. ~ i \in 1 .. B
      BY <1>8, <1>7, Shapes, BasePlanStages
    <3>2. ~ i \in B + Features + 1 .. Len(WithDetails)
      BY <1>8, <1>7, Shapes DEF Outline, Detail
    <3> QED
      BY <3>1, <3>2, <1>3, <1>7, Shapes
  <2>2. i - 1 \in Nat /\ B <= i - 1 /\ i - 1 < idx
    BY <2>1, <1>2, <1>5, <1>7, Shapes
  <2> QED
    BY <2>2, <1>7 DEF InjectedRecorded
<1>9. Ranging(Outlines) \subseteq Ranging(plan)
  <2>1. DOMAIN Outlines = 1 .. Features
    BY DEF Outlines
  <2>2. ASSUME NEW f \in 1 .. Features PROVE Outlines[f] \in Ranging(plan)
    <3>1. /\ B + f \in B + 1 .. B + Features /\ (B + f) - B = f
          /\ B + f \in DOMAIN plan
      BY <1>3, <1>7, Shapes
    <3>2. plan[B + f] = Outlines[(B + f) - B]
      BY <3>1, <1>7, Shapes
    <3> QED
      BY <3>1, <3>2 DEF Ranging
  <2> QED
    BY <2>1, <2>2 DEF Ranging
<1> QED
  BY <1>8, <1>9

\* Every step keeps the invariant, and none dispatches a detail too early.
LEMMA PlanStep ==
  ASSUME TypeInv, PlanInv, [Next]_vars
  PROVE  /\ PlanInv'
         /\ pc = "loop" /\ pc' = "exec" /\ Current.stage = Detail =>
              /\ Ranging(Outlines) \subseteq Ranging(plan)
              /\ \A i \in DOMAIN plan : plan[i].stage = Outline => i - 1 \in Indices(completed)
<1> DEFINE Quiet == PlanInv' /\ ~ (pc = "loop" /\ pc' = "exec")
           All == /\ PlanInv'
                  /\ pc = "loop" /\ pc' = "exec" /\ Current.stage = Detail =>
                       /\ Ranging(Outlines) \subseteq Ranging(plan)
                       /\ \A i \in DOMAIN plan :
                            plan[i].stage = Outline => i - 1 \in Indices(completed)
<1>q. Quiet => All
  OBVIOUS
<1>1. ASSUME RunPlanning \/ ContinueRun \/ Reenter PROVE Quiet
  <2>1. \E start : \E asking : EnterGraph(start, asking)
    BY <1>1 DEF RunPlanning, ContinueRun, Reenter
  <2>2. pc' # "exec"
    BY <2>1 DEF EnterGraph, WaitForChangeRequest, DiesInRecovery, EnterLoop, EndProcess
  <2> QED
    BY <2>1, <2>2, EnterGraphPlan
<1>2. ASSUME ResumeWithResponse PROVE Quiet
  <2>1. resuming' = TRUE /\ pc = "off"
    BY <1>2 DEF ResumeWithResponse, Start
  <2> QED
    BY <2>1, NoLoopPlan
<1>3. ASSUME \/ CannotParse \/ UserCancels \/ Crash \/ Escalate \/ Finish \/ AdvanceResumed
             \/ ResumeWithoutThread
             \/ UserAnswers /\ ~ AnswerThread
      PROVE  Quiet
  <2>1. pc' \in {"off", "reenter"}
    BY <1>3 DEF CannotParse, UserCancels, Crash, Escalate, Finish, AdvanceResumed, Leave, EndProcess,
                ResumeWithoutThread, Start, UserAnswers
  <2> QED
    BY <2>1, NoLoopPlan DEF LoopLocations, StageLocations
<1>4. ASSUME StartStage PROVE All
  <2>1. pc = "loop" /\ pc' = "exec" /\ UNCHANGED <<ledgers, process>>
    BY <1>4 DEF StartStage
  <2>2. PlanInv'
    BY <2>1, SamePlan DEF ledgers, process, LoopLocations
  <2> QED
    BY <2>2, <1>4, DetailsComeLast
<1>5. ASSUME WriteHandle PROVE Quiet
  <2>1. /\ pc = "handle" /\ UNCHANGED ledgers
        /\ \/ UNCHANGED process /\ pc' \in {"asked", "resumed", "apply"}
           \/ pc' = "off"
    BY <1>5 DEF WriteHandle, AfterSession, EndProcess
  <2>2. CASE pc' \in {"off", "resumed"}
    BY <2>1, <2>2, NoLoopPlan DEF LoopLocations, StageLocations
  <2>3. CASE UNCHANGED process /\ pc' \in {"asked", "apply"}
    BY <2>1, <2>3, SamePlan DEF ledgers, process, LoopLocations, StageLocations
  <2> QED
    BY <2>1, <2>2, <2>3
<1>6. ASSUME \/ SessionWrites \/ ApplyStage \/ RollBack \/ SessionStep \/ WriteMarkers
             \/ UserAnswers /\ AnswerThread
      PROVE  Quiet
  <2>1. /\ UNCHANGED <<completed, process>>
        /\ pc \in {"exec", "markers", "asked", "apply", "check"}
        /\ pc' \in {"exec", "markers", "handle", "check", "loop"}
        /\ ~ (pc = "loop" /\ pc' = "exec")
    <3>1. CASE SessionStep
      BY <3>1, SessionStepType DEF ledgers
    <3>2. CASE ~ SessionStep
      BY <1>6, <3>2 DEF SessionWrites, UserAnswers, ApplyStage, RollBack, AnswerThread, WriteMarkers,
                        ledgers
    <3> QED
      BY <3>1, <3>2
  <2> QED
    BY <2>1, SamePlan DEF process, LoopLocations, StageLocations
<1>7. ASSUME Accept PROVE Quiet
  <2>1. pc = "check"
    BY <1>7 DEF Accept
  <2> QED
    BY <2>1, <1>7, AcceptKeepsPlan
<1>8. ASSUME Record PROVE Quiet
  <2>1. pc = "record"
    BY <1>8 DEF Record
  <2> QED
    BY <2>1, <1>8, RecordKeepsPlan
<1>9. ASSUME Skip \/ Advance PROVE Quiet
  <2>1. pc' = "loop"
    BY <1>9 DEF Skip, Advance, TypeInv
  <2> QED
    BY <2>1, <1>9, MoveOnKeepsPlan
<1>10. ASSUME UNCHANGED vars PROVE Quiet
  <2>1. UNCHANGED <<plan, completed, done, idx, resuming, pc>>
    BY <1>10 DEF vars, ledgers, process
  <2> QED
    BY <2>1, SamePlan
<1>11. All
  <2> HIDE DEF Quiet, All
  <2> QED
    BY <1>q, <1>1, <1>2, <1>3, <1>4, <1>5, <1>6, <1>7, <1>8, <1>9, <1>10
       DEF Next, PilotStep, UserStep
<1> QED
  BY <1>11

-----------------------------------------------------------------------------

\* The invariants together.
LEMMA PlanningInvariant ==
  Spec => [](TypeInv /\ LedgerInv /\ EvidenceInv /\ AnswerInv /\ PlanInv)
<1> DEFINE IInv == TypeInv /\ LedgerInv /\ EvidenceInv /\ AnswerInv /\ PlanInv
<1>1. Init => IInv
  <2> SUFFICES ASSUME Init PROVE IInv
    OBVIOUS
  <2>1. TypeInv
    BY TypeInvInit
  <2>2. LedgerInv /\ EvidenceInv /\ PlanInv
    BY DEF Init, LedgerInv, EvidenceInv, PlanInv, InLoop, InStage, LoopLocations, StageLocations
  <2>3. AnswerInv
    BY DEF Init, AnswerInv, WaitingIsAnswerable, WaitingStates
  <2> QED
    BY <2>1, <2>2, <2>3
<1>2. IInv /\ [Next]_vars => IInv'
  BY TypeInvStep, LedgerStep, EvidenceStep, AnswerStep, PlanStep
<1> QED
  BY <1>1, <1>2, PTL DEF Spec

\* Every variable keeps its type, and the dispatch loop never works past its plan.
THEOREM TypeCorrect == Spec => []TypeOK
BY PlanningInvariant, PTL DEF TypeInv

\* A waiting run has the event of the very question or approval it waits for, after any
\* sequence of questions, answers, kills and restarts, between the writes of its state
\* as well; it names the thread to answer, unless the session has named none or the
\* process has been killed before the thread was written.
THEOREM AnswerableRuns == Spec => []WaitingIsAnswerable
BY PlanningInvariant, PTL DEF AnswerInv

\* A recorded dispatch is not executed again, although the loop reads the list of
\* completed stages once only, and its plan grows as it goes.
THEOREM NoneReexecuted == Spec => NoReexecution
<1>1. TypeInv /\ LedgerInv /\ [Next]_vars =>
        [pc = "loop" /\ pc' = "exec" => idx \notin Indices(completed)]_vars
  BY LedgerStep
<1> QED
  BY <1>1, PlanningInvariant, PTL DEF Spec, NoReexecution

\* completed-stages.json and retry-counts.json only grow, and what is recorded as
\* completed is not rolled back any more.
THEOREM GrowingLedgers == Spec => LedgersGrow
<1>1. TypeInv /\ LedgerInv /\ [Next]_vars =>
        [/\ completed \subseteq completed' /\ retries \subseteq retries'
         /\ retries' # retries => idx \notin Indices(completed)]_vars
  BY LedgerStep
<1> QED
  BY <1>1, PlanningInvariant, PTL DEF Spec, LedgersGrow

\* A dispatch is recorded with the evidence of its file, and a detail once published,
\* even though Accept has meanwhile put other dispatches into the plan.
THEOREM RecordedWithEvidence == Spec => EvidenceBeforeRecord
<1>1. TypeInv /\ EvidenceInv /\ [Next]_vars =>
        [completed' # completed =>
           /\ verify_stage_completion(Current.stage, art[Artifact(Current)])
           /\ Current.stage = "exec_plan_detail" /\ art[Current] # "none" =>
                Current.unit \in published]_vars
  BY EvidenceStep DEF Evidence, Published
<1> QED
  BY <1>1, PlanningInvariant, PTL DEF Spec, EvidenceBeforeRecord

\* No detail is dispatched before every outline is in the plan and recorded, for any
\* number of features, and whatever a run before has left in completed-stages.json.
THEOREM OutlinesFirst == Spec => OutlinesBeforeDetails
<1>1. TypeInv /\ PlanInv /\ [Next]_vars =>
        [pc = "loop" /\ pc' = "exec" /\ Current.stage = "exec_plan_detail" =>
           /\ Ranging(Outlines) \subseteq Ranging(plan)
           /\ \A i \in DOMAIN plan :
                plan[i].stage = "exec_plan_feature_outline" =>
                  i - 1 \in Indices(completed)]_vars
  BY PlanStep DEF Outline, Detail
<1> QED
  BY <1>1, PlanningInvariant, PTL DEF Spec, OutlinesBeforeDetails

\* The checkpoint and the run's state implement PlanProgress: the cursor moves by one
\* stage, and "completed" is said only behind the last stage of the base plan.
THEOREM Refinement == Spec => KeepsProgress
<1>1. TypeInv /\ [Next]_vars => [Progress!Next]_(Progress!progress)
  BY ProgressStep
<1> QED
  BY <1>1, ProgressInit, PlanningInvariant, PTL DEF Spec, KeepsProgress, Progress!Spec

=============================================================================
