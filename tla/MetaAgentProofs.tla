--------------------------- MODULE MetaAgentProofs ---------------------------
(***************************************************************************)
(* Proofs about MetaAgent, for every set of plans and every number of      *)
(* restarts.                                                               *)
(*                                                                         *)
(* StepsInOrder is not inductive: that promoting a plan keeps it rests on  *)
(* where run_meta is.  StepsInv adds that from Step 2 on 01-docs-setup.md  *)
(* is active or completed, so that a promotion, which needs an empty       *)
(* active/, finds it completed; and that the plan in hand is active.       *)
(***************************************************************************)
EXTENDS MetaAgent, TLAPS

SetUp ==
  pc \in {"docs", "approve", "plans", "start", "next", "work", "promote"} =>
    dir[DocsSetup] \in {"active", "completed"}

InHand == pc \in {"next", "work"} => plan \in Plans /\ dir[plan] = "active"

StepsInv == TypeOK /\ StepsInOrder /\ SetUp /\ InHand

-----------------------------------------------------------------------------

\* What every step that leaves the plan files and the brief alone keeps.
LEMMA QuietStep ==
  ASSUME StepsInv,
         UNCHANGED <<dir, brief>>,
         pc' \in Locations,
         pc' \in {"docs", "approve", "plans", "start", "next", "work", "promote"} =>
           dir[DocsSetup] \in {"active", "completed"},
         pc' \in {"next", "work"} => plan' \in Plans /\ dir[plan'] = "active"
  PROVE  (StepsInOrder /\ SetUp /\ InHand)'
<1>1. StepsInOrder'
  BY DEF StepsInv, StepsInOrder, In
<1>2. SetUp' /\ InHand'
  BY DEF SetUp, InHand
<1> QED
  BY <1>1, <1>2

\* promote_next_plan: active/ is empty, so 01-docs-setup.md, if it is active or
\* completed, is completed, and the plan moved is the only active one.
LEMMA Promotion ==
  ASSUME StepsInv, NEW p \in Plans, IsPromoted(p),
         dir[DocsSetup] \in {"active", "completed"},
         dir' = [dir EXCEPT ![p] = "active"],
         UNCHANGED brief
  PROVE  /\ StepsInOrder'
         /\ dir'[DocsSetup] \in {"active", "completed"}
         /\ dir'[p] = "active"
         /\ \A q \in Plans : dir'[q] = "active" => q = p
         /\ In("completed") \subseteq In("completed")'
<1>1. DocsSetup \in Plans /\ dir \in [Plans -> Directories]
  BY MetaAssumption DEF StepsInv, TypeOK
<1>2. \A q \in Plans : dir[q] # "active"
  BY DEF IsPromoted, In
<1>3. dir[DocsSetup] = "completed" /\ dir[p] = "planning"
  BY <1>1, <1>2 DEF IsPromoted
<1>4. p # DocsSetup
  BY <1>3
<1>5. dir'[p] = "active" /\ \A q \in Plans : q # p => dir'[q] = dir[q]
  BY <1>1
<1>6. dir'[DocsSetup] = "completed"
  BY <1>1, <1>3, <1>4, <1>5
<1>7. \A q \in Plans : dir'[q] = "active" => q = p
  BY <1>2, <1>5
<1>8. StepsInOrder'
  <2>1. "required" \in brief'
    BY <1>3 DEF StepsInv, StepsInOrder
  <2> QED
    BY <1>6, <1>7, <2>1 DEF StepsInOrder, In
<1>9. In("completed") \subseteq In("completed")'
  BY <1>3, <1>5 DEF In
<1> QED
  BY <1>5, <1>6, <1>7, <1>8, <1>9

\* scaffold_project: as 01-docs-setup.md is in neither directory, no other plan is.
LEMMA ScaffoldedPlan ==
  ASSUME StepsInv, NeedsDocsSetup,
         dir' = [dir EXCEPT ![DocsSetup] = "active"],
         "required" \in brief'
  PROVE  /\ StepsInOrder'
         /\ dir'[DocsSetup] = "active"
         /\ In("completed") \subseteq In("completed")'
<1>1. DocsSetup \in Plans /\ dir \in [Plans -> Directories]
  BY MetaAssumption DEF StepsInv, TypeOK
<1>2. \A p \in Plans \ {DocsSetup} : dir[p] \notin {"active", "completed"} /\ dir'[p] = dir[p]
  BY <1>1 DEF NeedsDocsSetup, StepsInOrder, StepsInv
<1>3. dir'[DocsSetup] = "active"
  BY <1>1
<1>4. StepsInOrder'
  BY <1>2, <1>3 DEF StepsInOrder, In
<1>5. In("completed") \subseteq In("completed")'
  BY <1>2 DEF In, NeedsDocsSetup
<1> QED
  BY <1>3, <1>4, <1>5

-----------------------------------------------------------------------------

\* StepsInv holds at first.
LEMMA MetaInit == Init => StepsInv
<1> SUFFICES ASSUME Init PROVE StepsInv
  OBVIOUS
<1>1. TypeOK
  <2>1. dir \in [Plans -> Directories]
    BY DEF Init, Directories
  <2>2. starts \in 0..MaxStarts
    BY MetaAssumption DEF Init
  <2> QED
    BY <2>1, <2>2 DEF Init, TypeOK, BriefParts, Locations
<1>2. StepsInOrder
  BY DEF Init, StepsInOrder, In
<1>3. SetUp /\ InHand
  BY DEF Init, SetUp, InHand
<1> QED
  BY <1>1, <1>2, <1>3 DEF StepsInv

\* Every step keeps the types.
LEMMA TypeStep == StepsInv /\ [Next]_vars => TypeOK'
<1> SUFFICES ASSUME StepsInv, [Next]_vars PROVE TypeOK'
  OBVIOUS
<1> USE DEF StepsInv, TypeOK
<1>0. \A p \in Plans : p # NoPlan
  BY PlansAssumption DEF NoPlan
<1>a. DocsSetup \in Plans
  BY MetaAssumption
<1>1. CASE StartMeta
  BY <1>1, MetaAssumption DEF StartMeta, plans, Locations
<1>2. CASE BriefExists \/ OpenBriefSession \/ BriefWritten \/ BriefNotWritten \/ CannotParseBrief
  BY <1>2 DEF BriefExists, OpenBriefSession, BriefWritten, BriefNotWritten, CannotParseBrief,
              GoTo, plans, Locations
<1>3. CASE Scaffold
  BY <1>3, <1>a DEF Scaffold, GoTo, Locations, Directories
<1>4. CASE FillDocs \/ Approve
  BY <1>4 DEF FillDocs, Approve, Call, GoTo, plans, Locations
<1>5. CASE Implement
  BY <1>5 DEF Implement, Call, GoTo, Locations, Directories
<1>6. CASE FindPlan
  <2>1. dir' \in [Plans -> Directories]
    BY <1>6 DEF FindPlan, Directories
  <2>2. pc' \in Locations /\ plan' \in Plans \cup {NoPlan} /\ step' = step
        /\ (pc' \in {"next", "work"} => plan' # NoPlan)
    <3> DEFINE active == {p \in Plans : dir'[p] = "active"}
    <3>1. CASE \E p \in Plans : active = {p}
      <4>1. plan' \in Plans /\ pc' = "next" /\ step' = step
        BY <1>6, <3>1 DEF FindPlan
      <4> QED
        BY <4>1, <1>0 DEF Locations
    <3>2. CASE ~ \E p \in Plans : active = {p}
      BY <1>6, <3>2 DEF FindPlan, GoTo, Locations
    <3> QED
      BY <3>1, <3>2
  <2> QED
    BY <1>6, <2>1, <2>2 DEF FindPlan
<1>7. CASE OpenSession \/ SessionSettled \/ HarnessExits \/ Kill
  BY <1>7 DEF OpenSession, SessionSettled, HarnessExits, Kill, GoTo, plans, Locations
<1>8. CASE CannotOpenSession
  BY <1>8 DEF CannotOpenSession, Return, plans, Locations
<1>9. CASE FilePlan
  BY <1>9 DEF FilePlan, GoTo, Locations, Directories
<1>10. CASE PromoteNext
  BY <1>10, <1>0 DEF PromoteNext, Return, Locations, Directories
<1>11. CASE CannotReadNext
  BY <1>11 DEF CannotReadNext, Return, Locations, Directories
<1>12. CASE SessionWritesBrief
  BY <1>12 DEF SessionWritesBrief, plans, process, BriefParts
<1>13. CASE UserApproves
  BY <1>13 DEF UserApproves, plans, process
<1>14. ASSUME NEW i \in Items, SessionTicks(i) PROVE TypeOK'
  BY <1>14 DEF SessionTicks, process
<1>15. ASSUME NEW p \in Plans, SessionWritesPlan(p) PROVE TypeOK'
  BY <1>15 DEF SessionWritesPlan, process, Directories
<1>16. CASE KillInWrite
  BY <1>16, <1>a DEF KillInWrite, GoTo, Locations, Directories
<1>17. CASE UNCHANGED vars
  BY <1>17 DEF vars, plans, process
<1> QED
  BY <1>1, <1>2, <1>3, <1>4, <1>5, <1>6, <1>7, <1>8, <1>9, <1>10, <1>11, <1>12, <1>13,
     <1>14, <1>15, <1>16, <1>17
     DEF Next, MetaStep, HarnessGivesUp, Environment

\* Every step keeps StepsInv.
LEMMA OrderStep ==
  StepsInv /\ [Next]_vars => (StepsInOrder /\ SetUp /\ InHand)' /\ In("completed") \subseteq In("completed")'
<1> SUFFICES ASSUME StepsInv, [Next]_vars
             PROVE  (StepsInOrder /\ SetUp /\ InHand)' /\ In("completed") \subseteq In("completed")'
  OBVIOUS
<1> DEFINE Good == (StepsInOrder /\ SetUp /\ InHand)'
<1>a. DocsSetup \in Plans /\ dir \in [Plans -> Directories]
  BY MetaAssumption DEF StepsInv, TypeOK
<1>b. ASSUME UNCHANGED dir PROVE In("completed") \subseteq In("completed")'
  BY <1>b DEF In
<1>c. SetUp /\ InHand /\ StepsInOrder /\ pc \in Locations
  BY DEF StepsInv, TypeOK
<1>1. ASSUME \/ StartMeta \/ BriefExists \/ OpenBriefSession \/ BriefWritten \/ BriefNotWritten
             \/ CannotParseBrief \/ HarnessExits \/ Kill
      PROVE  Good /\ UNCHANGED dir
  <2>1. UNCHANGED <<dir, brief>> /\ pc' \in {"off", "brief", "wait", "scaffold"}
    BY <1>1 DEF StartMeta, BriefExists, OpenBriefSession, BriefWritten, BriefNotWritten,
                CannotParseBrief, HarnessExits, Kill, GoTo, plans
  <2> QED
    BY <2>1, QuietStep DEF Locations
<1>2. ASSUME FillDocs \/ Approve \/ OpenSession \/ SessionSettled \/ CannotOpenSession
      PROVE  Good /\ UNCHANGED dir
  <2>1. UNCHANGED <<dir, brief>>
        /\ pc \in {"docs", "approve", "plans", "start", "next", "work", "promote"}
    BY <1>2 DEF FillDocs, Approve, OpenSession, SessionSettled, CannotOpenSession, plans
  <2>2. pc' \in Locations /\ (pc' \in {"next", "work"} => plan' = plan /\ pc \in {"next", "work"})
    BY <1>2 DEF FillDocs, Approve, OpenSession, SessionSettled, CannotOpenSession, Call, GoTo,
                Return, Locations
  <2>3. dir[DocsSetup] \in {"active", "completed"}
    BY <1>c, <2>1 DEF SetUp
  <2>4. pc' \in {"next", "work"} => plan' \in Plans /\ dir[plan'] = "active"
    BY <1>c, <2>2 DEF InHand
  <2> QED
    BY <2>1, <2>2, <2>3, <2>4, QuietStep
<1>3. ASSUME Scaffold PROVE Good /\ In("completed") \subseteq In("completed")'
  <2>1. "required" \in brief' /\ pc' = "docs"
    BY <1>3 DEF Scaffold, BriefParses, GoTo
  <2>2. CASE NeedsDocsSetup
    <3>1. dir' = [dir EXCEPT ![DocsSetup] = "active"]
      BY <1>3, <2>2 DEF Scaffold
    <3>2. /\ StepsInOrder' /\ dir'[DocsSetup] = "active"
          /\ In("completed") \subseteq In("completed")'
      BY <2>1, <2>2, <3>1, ScaffoldedPlan
    <3> QED
      BY <2>1, <3>2 DEF SetUp, InHand
  <2>3. CASE ~ NeedsDocsSetup
    <3>1. UNCHANGED <<dir, brief>>
      BY <1>3, <2>3 DEF Scaffold
    <3>2. dir[DocsSetup] \in {"active", "completed"}
      BY <2>3 DEF NeedsDocsSetup
    <3> QED
      BY <2>1, <3>1, <3>2, <1>b, QuietStep DEF Locations
  <2> QED
    BY <2>2, <2>3
<1>4. ASSUME NEW p \in Plans, IsPromoted(p), dir' = [dir EXCEPT ![p] = "active"],
             UNCHANGED brief,
             pc \in {"plans", "start", "promote"},
             pc' \in Locations,
             pc' \in {"next", "work"} => plan' \in Plans /\ dir'[plan'] = "active"
      PROVE  Good /\ In("completed") \subseteq In("completed")'
  <2>1. dir[DocsSetup] \in {"active", "completed"}
    BY <1>c, <1>4 DEF SetUp
  <2>2. /\ StepsInOrder'
        /\ dir'[DocsSetup] \in {"active", "completed"}
        /\ In("completed") \subseteq In("completed")'
    BY <1>4, <2>1, Promotion
  <2> QED
    BY <1>4, <2>2 DEF SetUp, InHand
<1>5. ASSUME Implement PROVE Good /\ In("completed") \subseteq In("completed")'
  <2>1. CASE UNCHANGED dir
    <3>1. UNCHANGED <<dir, brief>> /\ pc = "plans" /\ pc' \in {"start", "off"}
      BY <1>5, <2>1 DEF Implement, Call, GoTo
    <3>2. dir[DocsSetup] \in {"active", "completed"}
      BY <1>c, <3>1 DEF SetUp
    <3> QED
      BY <3>1, <3>2, <1>b, QuietStep DEF Locations
  <2>2. CASE \E p \in Plans : IsPromoted(p) /\ dir' = [dir EXCEPT ![p] = "active"]
                              /\ Call("implementation")
    <3>1. PICK p \in Plans : IsPromoted(p) /\ dir' = [dir EXCEPT ![p] = "active"]
                              /\ Call("implementation")
      BY <2>2
    <3>2. UNCHANGED brief /\ pc = "plans" /\ pc' = "start"
      BY <1>5, <3>1 DEF Implement, Call
    <3> QED
      BY <3>1, <3>2, <1>4 DEF Locations
  <2> QED
    BY <1>5, <2>1, <2>2 DEF Implement
<1>6. ASSUME FindPlan PROVE Good /\ In("completed") \subseteq In("completed")'
  <2> DEFINE active == {p \in Plans : dir'[p] = "active"}
  <2>1. UNCHANGED brief /\ pc = "start" /\ pc' \in {"next", "off"}
        /\ (pc' = "next" => plan' \in Plans /\ dir'[plan'] = "active")
    <3>1. CASE \E p \in Plans : active = {p}
      <4>1. plan' = CHOOSE p \in Plans : active = {p}
        BY <1>6, <3>1 DEF FindPlan
      <4>2. plan' \in Plans /\ active = {plan'}
        BY <3>1, <4>1
      <4> QED
        BY <1>6, <3>1, <4>2 DEF FindPlan
    <3>2. CASE ~ \E p \in Plans : active = {p}
      BY <1>6, <3>2 DEF FindPlan, GoTo
    <3> QED
      BY <3>1, <3>2
  <2>2. CASE UNCHANGED dir
    <3>1. dir[DocsSetup] \in {"active", "completed"}
      BY <1>c, <2>1 DEF SetUp
    <3> QED
      BY <2>1, <2>2, <3>1, <1>b, QuietStep DEF Locations
  <2>3. CASE \E p \in Plans : IsPromoted(p) /\ dir' = [dir EXCEPT ![p] = "active"]
    BY <2>1, <2>3, <1>4 DEF Locations
  <2> QED
    BY <1>6, <2>2, <2>3 DEF FindPlan
<1>7. ASSUME FilePlan PROVE Good /\ In("completed") \subseteq In("completed")'
  <2>1. UNCHANGED brief /\ pc = "next" /\ pc' = "promote"
        /\ dir' = [dir EXCEPT ![plan] = "completed"]
    BY <1>7 DEF FilePlan, GoTo
  <2>2. plan \in Plans /\ dir[plan] = "active"
    BY <1>c, <2>1 DEF InHand
  <2>3. dir'[plan] = "completed" /\ \A q \in Plans : q # plan => dir'[q] = dir[q]
    BY <1>a, <2>1, <2>2
  <2>4. plan # DocsSetup => dir[DocsSetup] = "completed"
    BY <1>c, <2>2 DEF StepsInOrder
  <2>5. dir'[DocsSetup] = "completed"
    BY <1>a, <2>3, <2>4
  <2>6. "required" \in brief'
    BY <1>c, <1>a, <2>1, <2>2, <2>4 DEF StepsInOrder
  <2>7. \A q \in Plans : dir'[q] = "active" => dir[q] = "active"
    BY <2>2, <2>3
  <2>8. StepsInOrder'
    BY <1>c, <2>5, <2>6, <2>7 DEF StepsInOrder, In
  <2>9. In("completed") \subseteq In("completed")'
    BY <2>3 DEF In
  <2> QED
    BY <2>1, <2>5, <2>8, <2>9 DEF SetUp, InHand
<1>8. ASSUME PromoteNext \/ CannotReadNext PROVE Good /\ In("completed") \subseteq In("completed")'
  <2>1. UNCHANGED brief /\ pc = "promote"
    BY <1>8 DEF PromoteNext, CannotReadNext
  <2>2. CASE UNCHANGED dir /\ Return
    <3>1. dir[DocsSetup] \in {"active", "completed"} /\ pc' \in {"approve", "plans"}
      BY <1>c, <2>1, <2>2 DEF SetUp, Return
    <3> QED
      BY <2>1, <2>2, <3>1, <1>b, QuietStep DEF Locations
  <2>3. CASE \E p \in Plans : IsPromoted(p) /\ dir' = [dir EXCEPT ![p] = "active"]
                              /\ (Return \/ (plan' = p /\ pc' = "next"))
    <3>1. PICK p \in Plans : IsPromoted(p) /\ dir' = [dir EXCEPT ![p] = "active"]
                              /\ (Return \/ (plan' = p /\ pc' = "next"))
      BY <2>3
    <3>2. dir'[p] = "active"
      BY <1>a, <3>1
    <3>3. pc' \in Locations /\ (pc' \in {"next", "work"} => plan' \in Plans /\ dir'[plan'] = "active")
      BY <3>1, <3>2 DEF Return, Locations
    <3> QED
      BY <2>1, <3>1, <3>3, <1>4
  <2>4. CASE PromoteNext
    BY <2>2, <2>3, <2>4 DEF PromoteNext
  <2>5. CASE CannotReadNext
    <3>1. PICK p \in Plans : IsPromoted(p) /\ dir' = [dir EXCEPT ![p] = "active"]
      BY <2>5 DEF CannotReadNext
    <3>2. Return
      BY <2>5 DEF CannotReadNext
    <3>3. pc' \in {"approve", "plans"}
      BY <3>2 DEF Return
    <3> QED
      BY <2>1, <3>1, <3>3, <1>4 DEF Locations
  <2> QED
    BY <1>8, <2>4, <2>5
<1>9. ASSUME SessionWritesBrief PROVE Good /\ UNCHANGED dir
  <2>1. UNCHANGED <<dir, pc, plan>> /\ ("required" \in brief => "required" \in brief')
    BY <1>9 DEF SessionWritesBrief, plans, process
  <2> QED
    BY <1>c, <2>1 DEF StepsInOrder, SetUp, InHand, In
<1>10. ASSUME UserApproves \/ (\E i \in Items : SessionTicks(i)) \/ UNCHANGED vars
       PROVE  Good /\ UNCHANGED dir
  <2>1. UNCHANGED <<dir, brief, pc, plan>>
    BY <1>10 DEF UserApproves, SessionTicks, vars, plans, process
  <2> QED
    BY <1>c, <2>1 DEF StepsInOrder, SetUp, InHand, In
<1>11. ASSUME NEW p \in Plans, SessionWritesPlan(p)
       PROVE  Good /\ In("completed") \subseteq In("completed")'
  <2>1. UNCHANGED <<brief, pc, plan>> /\ pc = "work" /\ dir[p] = "absent"
        /\ dir' = [dir EXCEPT ![p] = "planning"]
    BY <1>11 DEF SessionWritesPlan, process
  <2>2. dir'[p] = "planning" /\ \A q \in Plans : q # p => dir'[q] = dir[q]
    BY <1>a, <2>1
  <2>3. dir[DocsSetup] \in {"active", "completed"} /\ plan \in Plans /\ dir[plan] = "active"
    BY <1>c, <2>1 DEF SetUp, InHand
  <2>4. p # DocsSetup /\ p # plan
    BY <2>1, <2>3
  <2>5. dir'[DocsSetup] = dir[DocsSetup] /\ dir'[plan] = "active"
    BY <1>a, <2>2, <2>3, <2>4
  <2>6. StepsInOrder'
    BY <1>c, <2>1, <2>2, <2>5 DEF StepsInOrder, In
  <2>7. In("completed") \subseteq In("completed")'
    BY <2>1, <2>2 DEF In
  <2> QED
    BY <2>1, <2>3, <2>5, <2>6, <2>7 DEF SetUp, InHand
<1>12. ASSUME KillInWrite PROVE Good /\ In("completed") \subseteq In("completed")'
  <2>1. UNCHANGED brief /\ pc' = "off"
    BY <1>12 DEF KillInWrite, GoTo
  <2>2. CASE UNCHANGED dir
    BY <2>1, <2>2, <1>b, QuietStep DEF Locations
  <2>3. CASE ~ UNCHANGED dir
    <3>1. BriefParses /\ NeedsDocsSetup /\ dir' = [dir EXCEPT ![DocsSetup] = "active"]
      BY <1>12, <2>3 DEF KillInWrite
    <3>2. "required" \in brief'
      BY <2>1, <3>1 DEF BriefParses
    <3>3. StepsInOrder' /\ In("completed") \subseteq In("completed")'
      BY <3>1, <3>2, ScaffoldedPlan
    <3> QED
      BY <2>1, <3>3 DEF SetUp, InHand
  <2> QED
    BY <2>2, <2>3
<1> QED
  BY <1>b, <1>1, <1>2, <1>3, <1>5, <1>6, <1>7, <1>8, <1>9, <1>10, <1>11, <1>12
     DEF Next, MetaStep, HarnessGivesUp, Environment

-----------------------------------------------------------------------------

\* The inductive invariant holds in every state.
LEMMA MetaInvariant == Spec => []StepsInv
<1>1. StepsInv /\ [Next]_vars => StepsInv'
  BY TypeStep, OrderStep DEF StepsInv
<1> QED
  BY <1>1, MetaInit, PTL DEF Spec

\* run_meta's variables and the files stay within their types.
THEOREM TypeCorrect == Spec => []TypeOK
<1>1. StepsInv => TypeOK
  BY DEF StepsInv
<1> QED
  BY <1>1, MetaInvariant, PTL

\* Scaffolding needs the required fields of the brief, the plans of the implementation
\* need 01-docs-setup.md to have been filed, and active/ holds one plan, over any number of kills and restarts of run_meta.
THEOREM StepsAreInOrder == Spec => []StepsInOrder
<1>1. StepsInv => StepsInOrder
  BY DEF StepsInv
<1> QED
  BY <1>1, MetaInvariant, PTL

\* A plan filed in completed/ stays there, whatever is scaffolded again.
THEOREM FiledPlansStay == Spec => FiledStaysFiled
<1>1. StepsInv /\ [Next]_vars => [In("completed") \subseteq In("completed")']_vars
  BY OrderStep
<1> QED
  BY <1>1, MetaInvariant, PTL DEF Spec, FiledStaysFiled

=============================================================================
