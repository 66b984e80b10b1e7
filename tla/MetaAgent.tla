------------------------------ MODULE MetaAgent ------------------------------
(***************************************************************************)
(* The meta agent (meta_runner.run_meta, brief_parser, scaffolder): from a *)
(* description to an implemented project, in five steps that are found     *)
(* again after a restart by the files they leave.                          *)
(*                                                                         *)
(*   Step 0  a session fills docs/project-brief.md with the user           *)
(*   Step 1  scaffolding writes active/01-docs-setup.md                    *)
(*   Step 2  run_harness executes it; its sessions write further plans     *)
(*   Step 3  the user approves, by the file docs/.meta-approved            *)
(*   Step 4  run_harness, as long as there are plans                       *)
(*                                                                         *)
(* run_harness appears as what its caller can tell: plans promoted, worked *)
(* on and filed, and how the call ends.  Harness has its inner loops.      *)
(***************************************************************************)
EXTENDS ExecPlans

CONSTANTS
  DocsSetup,    \* the plan 01-docs-setup.md
  Manual,       \* meta_config.approval_mode = "manual"
  MaxStarts     \* bound: runs of the meta agent

ASSUME MetaAssumption ==
  /\ DocsSetup \in Plans /\ \A p \in Plans : DocsSetup <= p
  /\ Manual \in BOOLEAN
  /\ MaxStarts \in Nat

VARIABLES
  brief,        \* the parts that docs/project-brief.md has so far
  sentinel,     \* docs/.meta-approved exists
  pc,           \* where run_meta, or the run_harness it has called, is
  step,         \* the step that has called run_harness
  plan,         \* run_harness: plan_path
  briefing,     \* a session is filling the brief
  starts

plans == <<dir, checked, emptied>>
process == <<pc, step, plan>>
vars == <<plans, brief, sentinel, process, briefing, starts>>

\* "required": the five fields without which parse_brief raises ValueError, all of
\* them in the first two sections; "rest": the sections after those.
BriefParts == {"required", "rest"}

Locations == {"off", "brief", "wait", "scaffold", "docs", "approve", "plans",
              "start", "next", "work", "promote"}

NoPlan == 0

TypeOK ==
  /\ dir \in [Plans -> Directories] /\ checked \subseteq Items /\ emptied \subseteq Plans
  /\ brief \subseteq BriefParts /\ sentinel \in BOOLEAN
  /\ pc \in Locations /\ step \in {"docs", "implementation"}
  /\ plan \in Plans \cup {NoPlan}
  /\ pc \in {"next", "work"} => plan # NoPlan
  /\ briefing \in BOOLEAN
  /\ starts \in 0..MaxStarts

\* An empty project, or one for which plans have already been written.
Init ==
  /\ dir \in [Plans -> {"absent", "planning"}] /\ dir[DocsSetup] = "absent"
  /\ checked = {} /\ emptied = {}
  /\ brief \in SUBSET BriefParts /\ sentinel = FALSE
  /\ pc = "off" /\ step = "docs" /\ plan = NoPlan
  /\ briefing = FALSE
  /\ starts = 0

GoTo(location) == pc' = location /\ UNCHANGED <<step, plan>>

-----------------------------------------------------------------------------
(***************************************************************************)
(* Steps 0 and 1.                                                          *)
(***************************************************************************)

StartMeta ==
  /\ pc = "off"
  /\ starts < MaxStarts
  /\ starts' = starts + 1
  /\ pc' = "brief" /\ step' = "docs" /\ plan' = NoPlan
  /\ UNCHANGED <<plans, brief, sentinel, briefing>>

\* Mutant: whatever the brief says.
MutantBriefParses == TRUE

\* parse_brief: a half-written brief will do, if it has the required fields.
BriefParses == "required" \in brief

\* "Existing complete brief": one that parses.
BriefExists ==
  /\ pc = "brief"
  /\ BriefParses
  /\ GoTo("scaffold")
  /\ UNCHANGED <<plans, brief, sentinel, briefing, starts>>

\* open_new_session; its log must then show up within ten polls.
OpenBriefSession ==
  /\ pc = "brief"
  /\ ~ BriefParses
  /\ \/ briefing' = TRUE /\ \E location \in {"wait", "off"} : GoTo(location)
     \/ GoTo("off") /\ UNCHANGED briefing
  /\ UNCHANGED <<plans, brief, sentinel, starts>>

\* wait_for_brief_completion: a file that is not empty will do.
BriefWritten ==
  /\ pc = "wait"
  /\ brief # {}
  /\ GoTo("scaffold")
  /\ UNCHANGED <<plans, brief, sentinel, briefing, starts>>

\* The log followed ends, be it the session's own or not, or an hour has passed.
BriefNotWritten ==
  /\ pc = "wait"
  /\ brief = {}
  /\ GoTo("off")
  /\ UNCHANGED <<plans, brief, sentinel, briefing, starts>>

\* The ValueError of parse_brief ends the process.
CannotParseBrief ==
  /\ pc = "scaffold"
  /\ ~ BriefParses
  /\ GoTo("off")
  /\ UNCHANGED <<plans, brief, sentinel, briefing, starts>>

\* Mutant: completed/ is not looked at.
MutantNeedsDocsSetup == dir[DocsSetup] # "active"

\* scaffold_project: the plan is written if it is in neither directory.
NeedsDocsSetup == dir[DocsSetup] \notin {"active", "completed"}

Scaffold ==
  /\ pc = "scaffold"
  /\ BriefParses
  /\ dir' = IF NeedsDocsSetup THEN [dir EXCEPT ![DocsSetup] = "active"] ELSE dir
  /\ GoTo("docs")
  /\ UNCHANGED <<checked, emptied, brief, sentinel, briefing, starts>>

-----------------------------------------------------------------------------
(***************************************************************************)
(* Steps 2, 3 and 4.                                                       *)
(***************************************************************************)

Call(caller) == pc' = "start" /\ step' = caller /\ UNCHANGED plan

FillDocs ==
  /\ pc = "docs"
  /\ IF dir[DocsSetup] = "completed" THEN GoTo("approve") ELSE Call("docs")
  /\ UNCHANGED <<plans, brief, sentinel, briefing, starts>>

\* notify_and_wait_approval; the file is removed.
Approve ==
  /\ pc = "approve"
  /\ Manual => sentinel
  /\ sentinel' = (sentinel /\ ~ Manual)
  /\ GoTo("plans")
  /\ UNCHANGED <<plans, brief, briefing, starts>>

\* The head of Step 4's loop.  With nothing left it is over, the error exit for a
\* project that never had a plan included.
Implement ==
  /\ pc = "plans"
  /\ \/ In("active") # {} /\ Call("implementation") /\ UNCHANGED dir
     \/ /\ \E p \in Plans : IsPromoted(p) /\ dir' = [dir EXCEPT ![p] = "active"]
        /\ Call("implementation")
     \/ In("active") = {} /\ NothingToPromote /\ GoTo("off") /\ UNCHANGED dir
  /\ UNCHANGED <<checked, emptied, brief, sentinel, briefing, starts>>

-----------------------------------------------------------------------------
(***************************************************************************)
(* run_harness.                                                            *)
(***************************************************************************)

\* sys.exit, and the exceptions nobody catches, end the meta agent as well.
HarnessExits ==
  /\ pc \in {"start", "next", "work"}
  /\ GoTo("off")
  /\ UNCHANGED <<plans, brief, sentinel, briefing, starts>>

\* Mutant: its own loop goes on, with no plan in hand.
MutantReturn ==
  /\ pc' = IF step = "docs" THEN "approve" ELSE "next"
  /\ plan' = NoPlan
  /\ UNCHANGED step

\* run_harness returns: Step 2 goes on to Step 3, Step 4 counts a plan and loops.
Return ==
  /\ pc' = IF step = "docs" THEN "approve" ELSE "plans"
  /\ plan' = NoPlan
  /\ UNCHANGED step

FindPlan ==
  /\ pc = "start"
  /\ \/ \E p \in Plans : IsPromoted(p) /\ dir' = [dir EXCEPT ![p] = "active"]
     \/ NothingToPromote /\ UNCHANGED dir
  /\ LET active == {p \in Plans : dir'[p] = "active"}
     IN  IF \E p \in Plans : active = {p}
           THEN /\ plan' = CHOOSE p \in Plans : active = {p}
                /\ pc' = "next"
                /\ UNCHANGED step
           ELSE GoTo("off")
  /\ UNCHANGED <<checked, emptied, brief, sentinel, briefing, starts>>

\* A session is opened on the next chunk.
OpenSession ==
  /\ pc = "next"
  /\ Incomplete(plan) # {}
  /\ GoTo("work")
  /\ UNCHANGED <<plans, brief, sentinel, briefing, starts>>

\* It cannot be opened: run_harness returns with the plan unfinished.
CannotOpenSession ==
  /\ pc = "next"
  /\ Incomplete(plan) # {}
  /\ Return
  /\ UNCHANGED <<plans, brief, sentinel, briefing, starts>>

\* The session has settled: the chunk is completed, or escalated and opened again.
SessionSettled ==
  /\ pc = "work"
  /\ GoTo("next")
  /\ UNCHANGED <<plans, brief, sentinel, briefing, starts>>

\* Mutant: the plan stays where it is.
MutantFilePlan ==
  /\ pc = "next"
  /\ Incomplete(plan) = {}
  /\ GoTo("promote")
  /\ UNCHANGED <<plans, brief, sentinel, briefing, starts>>

FilePlan ==
  /\ pc = "next"
  /\ Incomplete(plan) = {}
  /\ dir' = [dir EXCEPT ![plan] = "completed"]
  /\ GoTo("promote")
  /\ UNCHANGED <<checked, emptied, brief, sentinel, briefing, starts>>

\* The next plan, whoever has called; or there is none.
PromoteNext ==
  /\ pc = "promote"
  /\ \/ NothingToPromote /\ Return /\ UNCHANGED dir
     \/ \E p \in Plans :
          /\ IsPromoted(p)
          /\ dir' = [dir EXCEPT ![p] = "active"]
          /\ plan' = p /\ pc' = "next"
          /\ UNCHANGED step
  /\ UNCHANGED <<checked, emptied, brief, sentinel, briefing, starts>>

\* The next plan is there and cannot be read.
CannotReadNext ==
  /\ pc = "promote"
  /\ \E p \in Plans : IsPromoted(p) /\ dir' = [dir EXCEPT ![p] = "active"]
  /\ Return
  /\ UNCHANGED <<checked, emptied, brief, sentinel, briefing, starts>>

-----------------------------------------------------------------------------
(***************************************************************************)
(* The surroundings.                                                       *)
(***************************************************************************)

\* The brief appears in two writes, in either order, or in one; after it the session
\* ends.  Until then it goes on, whatever run_meta has made of the brief.
SessionWritesBrief ==
  /\ briefing
  /\ \E parts \in SUBSET BriefParts : brief \subseteq parts /\ brief # parts /\ brief' = parts
  /\ briefing' = (brief' # BriefParts)
  /\ UNCHANGED <<plans, sentinel, process, starts>>

\* The session on a chunk ticks a box of the plan in hand.
SessionTicks(i) ==
  /\ pc = "work"
  /\ i \in Boxes(plan) \ checked
  /\ checked' = checked \cup {i}
  /\ UNCHANGED <<dir, emptied, brief, sentinel, process, briefing, starts>>

\* The last chunk of 01-docs-setup.md writes the plans of the implementation.
SessionWritesPlan(p) ==
  /\ pc = "work" /\ plan = DocsSetup
  /\ dir[p] = "absent"
  /\ dir' = [dir EXCEPT ![p] = "planning"]
  /\ UNCHANGED <<checked, emptied, brief, sentinel, process, briefing, starts>>

UserApproves ==
  /\ pc = "approve" /\ Manual
  /\ ~ sentinel
  /\ sentinel' = TRUE
  /\ UNCHANGED <<plans, brief, process, briefing, starts>>

Kill ==
  /\ pc # "off"
  /\ GoTo("off")
  /\ UNCHANGED <<plans, brief, sentinel, briefing, starts>>

\* The kill comes between truncation and write: of update_checkboxes in the plan in
\* hand, or of scaffold_project in the plan it has just created.
KillInWrite ==
  /\ \/ pc = "work" /\ emptied' = emptied \cup {plan} /\ UNCHANGED dir
     \/ /\ pc = "scaffold" /\ BriefParses /\ NeedsDocsSetup
        /\ dir' = [dir EXCEPT ![DocsSetup] = "active"]
        /\ emptied' = emptied \cup {DocsSetup}
  /\ GoTo("off")
  /\ UNCHANGED <<checked, brief, sentinel, briefing, starts>>

MetaStep ==
  \/ BriefExists \/ OpenBriefSession \/ BriefWritten \/ CannotParseBrief \/ Scaffold
  \/ FillDocs \/ Approve \/ Implement
  \/ FindPlan \/ OpenSession \/ FilePlan \/ PromoteNext

HarnessGivesUp == CannotOpenSession \/ CannotReadNext

Environment ==
  \/ BriefNotWritten \/ SessionSettled \/ SessionWritesBrief \/ UserApproves
  \/ \E i \in Items : SessionTicks(i)
  \/ \E p \in Plans : SessionWritesPlan(p)

Next == StartMeta \/ MetaStep \/ HarnessExits \/ HarnessGivesUp \/ Environment
        \/ Kill \/ KillInWrite

Spec == Init /\ [][Next]_vars

\* The process runs, and a session settles; nobody need tick, approve or restart.
FairSpec == Spec /\ WF_vars(MetaStep) /\ WF_vars(SessionSettled)

-----------------------------------------------------------------------------
(***************************************************************************)
(* Properties.                                                             *)
(***************************************************************************)

\* Each step rests on the one before, whatever is killed and started again: nothing is
\* scaffolded before the brief has its required fields (the rest of it may be missing:
\* nobody waits for the session to end), no other plan leaves planning/ before
\* 01-docs-setup.md is filed, and active/ never holds two plans, on which every later
\* run would exit (scaffold_project writes into active/ without looking at it).
StepsInOrder ==
  /\ dir[DocsSetup] # "absent" => "required" \in brief
  /\ \A p \in Plans \ {DocsSetup} :
       dir[p] \in {"active", "completed"} => dir[DocsSetup] = "completed"
  /\ \A p, q \in In("active") : p = q

\* Restarts repeat the scaffolding, and yet a filed plan is not opened again.
FiledStaysFiled == [][In("completed") \subseteq In("completed")']_vars

\* Step 4 ends, or is in a session: with its own loop around run_harness's, it does not
\* go round without either.  It needs the premise: run_harness returns also when it
\* gives up, and as nothing counts that, Step 4 calls it again for the same plan.
ImplementationEnds ==
  <>[][~ HarnessGivesUp]_vars => (pc = "plans" ~> pc \in {"off", "work"})

=============================================================================
