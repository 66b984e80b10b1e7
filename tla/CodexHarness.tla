----------------------------- MODULE CodexHarness -----------------------------
(***************************************************************************)
(* Harness mode with `codex exec` (codex.harness, codex.exec_runner): each *)
(* chunk is given to a codex process, whose result is verified; a chunk    *)
(* that fails goes through repair loops, and the first chunk that cannot   *)
(* be repaired ends the run.                                               *)
(*                                                                         *)
(* The actors are the harness, the codex processes it starts (they tick    *)
(* checkboxes in the plan file, untick those of the chunk they work on,    *)
(* and may leave the file unreadable for a while), the author of plans and *)
(* the operator.  A codex process outlives the harness if that is killed,  *)
(* and then works beside the next one.                                     *)
(***************************************************************************)
EXTENDS ExecPlans

CONSTANTS
  MaxRetries,       \* exec_config.max_retries
  BuildRepairMax    \* exec_config.build_repair_max_retries

ASSUME RetriesAssumption == MaxRetries \in Nat \ {0} /\ BuildRepairMax \in Nat

VARIABLES
  broken,       \* plans whose file parse_exec_plan cannot read at the moment
  pc,           \* where run_codex_harness is
  plan,         \* plan_path
  chunk,        \* chunk.number
  loop,         \* which retry loop the codex process runs for
  attempt,      \* attempts of that loop, the current one included
  todo,         \* build_criteria of run_build_criteria not run yet
  new_text,     \* the ticked boxes of the text update_checkboxes will write
  orphans,      \* <<plan, chunk>> of codex processes whose harness was killed
  execs,        \* history: codex processes started since the chunk was selected
  finished,     \* history: <<plan, chunk>> verified as COMPLETED in this run
  reopened      \* history: those a left-over process has unticked a box of since

files == <<dir, checked, emptied, broken>>
builds == <<todo, new_text>>
history == <<execs, finished, reopened>>
vars == <<files, pc, plan, chunk, loop, attempt, builds, orphans, history>>

Lifecycle == INSTANCE PlanLifecycle

NoPlan == 0

\* run_chunk_with_retry, the two repair loops, and the build repair an incomplete
\* repair delegates to, whose result is final.
Loops == {"first", "build repair", "incomplete repair", "last build repair"}

Limit == [l \in Loops |->
            IF l \in {"first", "incomplete repair"} THEN MaxRetries ELSE BuildRepairMax]

Locations == {"plans", "next", "exec", "build", "tick", "write", "verify", "exit"}

ChunkLocations == {"exec", "build", "tick", "write", "verify"}

TypeOK ==
  /\ dir \in [Plans -> Directories]
  /\ checked \subseteq Items
  /\ emptied \subseteq Plans
  /\ broken \subseteq Plans
  /\ pc \in Locations
  /\ plan \in Plans \cup {NoPlan}
  /\ chunk \in Nat
  /\ loop \in Loops
  /\ attempt \in Nat
  /\ pc \in ChunkLocations => attempt \in 1..Limit[loop]
  /\ todo \subseteq Builds
  /\ new_text \subseteq Items
  /\ orphans \subseteq Plans \X Nat
  /\ execs \in Nat
  /\ finished \subseteq Plans \X Nat
  /\ reopened \subseteq finished

Init ==
  /\ dir \in [Plans -> {"absent", "planning", "active"}]
  /\ checked = {}
  /\ emptied = {}
  /\ broken \in SUBSET Plans
  /\ pc = "plans"
  /\ plan = NoPlan /\ chunk = 0
  /\ loop = "first" /\ attempt = 0
  /\ todo = {} /\ new_text = {}
  /\ orphans = {}
  /\ execs = 0 /\ finished = {} /\ reopened = {}

-----------------------------------------------------------------------------
(***************************************************************************)
(* The outer loops: find a plan, find its next chunk, file the plan.       *)
(***************************************************************************)

\* One active plan, or the one just promoted; it must be readable.
FindPlan ==
  /\ pc = "plans"
  /\ \/ In("active") # {} /\ UNCHANGED dir
     \/ \E p \in Plans : IsPromoted(p) /\ dir' = [dir EXCEPT ![p] = "active"]
  /\ LET active == {p \in Plans : dir'[p] = "active"}
     IN  \/ /\ \E p \in Plans \ broken : active = {p} /\ plan' = p
            /\ pc' = "next"
         \/ /\ ~ \E p \in Plans \ broken : active = {p}
            /\ pc' = "exit"
            /\ UNCHANGED plan
  /\ UNCHANGED <<checked, emptied, broken, chunk, loop, attempt, builds, orphans, history>>

\* return True
NoMorePlans ==
  /\ pc = "plans"
  /\ In("active") = {}
  /\ NothingToPromote
  /\ pc' = "exit"
  /\ UNCHANGED <<files, plan, chunk, loop, attempt, builds, orphans, history>>

\* Every parse inside the loop over the chunks is unguarded.
CannotReadPlan ==
  /\ pc \in {"next", "verify"}
  /\ plan \in broken
  /\ pc' = "exit"
  /\ UNCHANGED <<files, plan, chunk, loop, attempt, builds, orphans, history>>

\* A codex process is started for loop l, or the loop has no attempt left.
StartLoop(l) ==
  \/ /\ Limit[l] > 0
     /\ loop' = l /\ attempt' = 1
     /\ execs' = execs + 1
     /\ pc' = "exec"
  \/ /\ Limit[l] = 0
     /\ pc' = "exit"
     /\ UNCHANGED <<loop, attempt, execs>>

\* Mutant: the attempt is not counted.
MutantNextAttempt == UNCHANGED <<loop, attempt, execs>> /\ pc' = "exec"

\* Mutant: one attempt too many.
MutantOneMore ==
  \/ /\ attempt <= Limit[loop]
     /\ attempt' = attempt + 1
     /\ execs' = execs + 1
     /\ pc' = "exec"
     /\ UNCHANGED loop
  \/ /\ attempt > Limit[loop]
     /\ pc' = "exit"
     /\ UNCHANGED <<loop, attempt, execs>>

\* The next attempt of the same loop, or the end of the run.
NextAttempt ==
  \/ /\ attempt < Limit[loop]
     /\ attempt' = attempt + 1
     /\ execs' = execs + 1
     /\ pc' = "exec"
     /\ UNCHANGED loop
  \/ /\ attempt = Limit[loop]
     /\ pc' = "exit"
     /\ UNCHANGED <<loop, attempt, execs>>

SelectChunk ==
  /\ pc = "next"
  /\ plan \notin broken
  /\ \E c \in ChunksOf[plan] : IsNextIncompleteChunk(plan, c) /\ chunk' = c
  /\ loop' = "first" /\ attempt' = 1
  /\ execs' = 1
  /\ pc' = "exec"
  /\ UNCHANGED <<files, plan, builds, orphans, finished, reopened>>

\* No chunk is left, or the file is empty.
FilePlan ==
  /\ pc = "next"
  /\ plan \notin broken
  /\ Incomplete(plan) = {}
  /\ dir' = [dir EXCEPT ![plan] = "completed"]
  /\ pc' = "plans"
  /\ UNCHANGED <<checked, emptied, broken, plan, chunk, loop, attempt, builds, orphans, history>>

-----------------------------------------------------------------------------
(***************************************************************************)
(* run_chunk: the codex process ends with SUCCESS, or FAILED or TIMEOUT.   *)
(***************************************************************************)
CodexFails ==
  /\ pc = "exec"
  /\ NextAttempt
  /\ UNCHANGED <<files, plan, chunk, builds, orphans, finished, reopened>>

\* _verify_and_update_chunk: a snapshot of the unticked [BUILD] criteria.
CodexSucceeds ==
  /\ pc = "exec"
  /\ \/ /\ plan \in broken
        /\ pc' = "exit"
        /\ UNCHANGED todo
     \/ /\ plan \notin broken
        /\ todo' = UncheckedBuilds(plan, chunk)
        /\ pc' = IF todo' = {} THEN "verify" ELSE "build"
  /\ UNCHANGED <<files, plan, chunk, loop, attempt, new_text, orphans, history>>

BackToBuilds == pc' = IF todo' = {} THEN "verify" ELSE "build"

\* run_build_criteria: a build succeeds; to tick it the file is read again.  A
\* box that is ticked already is not written.
BuildPasses(i) ==
  /\ pc = "build"
  /\ i \in todo
  /\ todo' = todo \ {i}
  /\ \/ plan \in broken /\ pc' = "exit" /\ UNCHANGED new_text
     \/ plan \notin broken /\ i \in checked /\ BackToBuilds /\ UNCHANGED new_text
     \/ /\ plan \notin broken /\ i \notin checked
        /\ new_text' = (checked \cap Boxes(plan)) \cup {i}
        /\ pc' = "tick"
  /\ UNCHANGED <<files, plan, chunk, loop, attempt, orphans, history>>

\* write_text empties the file first ...
TruncatePlan ==
  /\ pc = "tick"
  /\ emptied' = emptied \cup {plan}
  /\ broken' = broken \ {plan}
  /\ pc' = "write"
  /\ UNCHANGED <<dir, checked, plan, chunk, loop, attempt, builds, orphans, history>>

\* ... and then fills it.
WriteTick ==
  /\ pc = "write"
  /\ emptied' = emptied \ {plan}
  /\ checked' = (checked \ Boxes(plan)) \cup new_text
  /\ new_text' = {}
  /\ UNCHANGED <<dir, broken, plan, chunk, loop, attempt, todo, orphans, history>>
  /\ BackToBuilds

\* Mutant: a build that fails in an incomplete repair starts a full build repair.
MutantAfterBuildFailure ==
  \/ loop \in {"first", "incomplete repair"} /\ StartLoop("build repair")
  \/ loop \in {"build repair", "last build repair"} /\ NextAttempt

\* BUILD_FAILED
AfterBuildFailure ==
  \/ loop = "first" /\ StartLoop("build repair")
  \/ loop = "incomplete repair" /\ StartLoop("last build repair")
  \/ loop \in {"build repair", "last build repair"} /\ NextAttempt

BuildFails ==
  /\ pc = "build"
  /\ todo' = {}
  /\ AfterBuildFailure
  /\ UNCHANGED <<files, plan, chunk, new_text, orphans, finished, reopened>>

\* Mutant: only the builds count.
MutantVerified == plan \notin broken /\ UncheckedBuilds(plan, chunk) = {}

Verified == plan \notin broken /\ Unchecked(plan, chunk) = {}

\* COMPLETED
ChunkDone ==
  /\ pc = "verify"
  /\ Verified
  /\ finished' = finished \cup {<<plan, chunk>>}
  /\ reopened' = reopened \ {<<plan, chunk>>}
  /\ pc' = "next"
  /\ UNCHANGED <<files, plan, chunk, loop, attempt, builds, orphans, execs>>

\* INCOMPLETE; the last build repair is not followed by another loop.
ChunkIncomplete ==
  /\ pc = "verify"
  /\ plan \notin broken
  /\ ~ Verified
  /\ \/ loop \in {"first", "build repair"} /\ StartLoop("incomplete repair")
     \/ loop = "incomplete repair" /\ NextAttempt
     \/ loop = "last build repair" /\ pc' = "exit" /\ UNCHANGED <<loop, attempt, execs>>
  /\ UNCHANGED <<files, plan, chunk, builds, orphans, finished, reopened>>

HarnessStep ==
  \/ FindPlan \/ NoMorePlans \/ CannotReadPlan \/ SelectChunk \/ FilePlan
  \/ CodexFails \/ CodexSucceeds
  \/ TruncatePlan \/ WriteTick \/ BuildFails \/ ChunkDone \/ ChunkIncomplete
  \/ \E i \in todo : BuildPasses(i)

-----------------------------------------------------------------------------
(***************************************************************************)
(* The surroundings.                                                       *)
(***************************************************************************)
OfCode == <<pc, plan, chunk, loop, attempt, builds>>
OfHarness == <<OfCode, history>>

\* The codex processes that may write into plan p.
Writers(p) ==
  {t \in orphans : t[1] = p} \cup
  (IF pc = "exec" /\ plan = p THEN {<<plan, chunk>>} ELSE {})

CodexTicks(i) ==
  /\ Writers(i[1]) # {}
  /\ dir[i[1]] = "active"
  /\ i[1] \notin broken \cup emptied
  /\ checked' = checked \cup {i}
  /\ UNCHANGED <<dir, emptied, broken, OfHarness, orphans>>

\* A process, running or left over, may find that a criterion of its chunk no
\* longer holds.
CodexUnticks(i) ==
  /\ <<i[1], i[2]>> \in Writers(i[1])
  /\ dir[i[1]] = "active"
  /\ i[1] \notin broken \cup emptied
  /\ checked' = checked \ {i}
  /\ reopened' = reopened \cup ({<<i[1], i[2]>>} \cap finished)
  /\ UNCHANGED <<dir, emptied, broken, OfCode, execs, finished, orphans>>

\* A process makes the file unreadable, or repairs it, or writes a file that was
\* left empty anew, with the boxes it had.
CodexEdits(p) ==
  /\ Writers(p) # {}
  /\ dir[p] = "active"
  /\ \/ /\ p \notin emptied
        /\ broken' = IF p \in broken THEN broken \ {p} ELSE broken \cup {p}
        /\ UNCHANGED emptied
     \/ /\ p \in emptied /\ pc # "write"
        /\ emptied' = emptied \ {p}
        /\ UNCHANGED broken
  /\ UNCHANGED <<dir, checked, OfHarness, orphans>>

OrphanEnds ==
  /\ \E t \in orphans : orphans' = orphans \ {t}
  /\ UNCHANGED <<files, OfHarness>>

Author(p) ==
  /\ dir[p] = "absent"
  /\ dir' = [dir EXCEPT ![p] = "planning"]
  /\ UNCHANGED <<checked, emptied, broken, OfHarness, orphans>>

\* The operator starts the harness again, after it ended or by killing it.
Rerun ==
  /\ pc # "plans"
  /\ pc' = "plans"
  /\ plan' = NoPlan /\ chunk' = 0
  /\ loop' = "first" /\ attempt' = 0
  /\ todo' = {} /\ new_text' = {}
  /\ orphans' = IF pc = "exec" THEN orphans \cup {<<plan, chunk>>} ELSE orphans
  /\ execs' = 0 /\ finished' = {} /\ reopened' = {}
  /\ UNCHANGED files

Environment ==
  \/ OrphanEnds \/ Rerun
  \/ \E i \in Items : CodexTicks(i) \/ CodexUnticks(i)
  \/ \E p \in Plans : CodexEdits(p) \/ Author(p)

Next == HarnessStep \/ Environment

Spec == Init /\ [][Next]_vars

(***************************************************************************)
(* The harness is sequential code, and run_chunk has an overall time limit *)
(* for the codex process.  Nobody is obliged to tick a box, to make a      *)
(* build pass, to write a plan or to start the harness again.              *)
(***************************************************************************)
FairSpec == Spec /\ WF_vars(HarnessStep)

-----------------------------------------------------------------------------
(***************************************************************************)
(* Properties.                                                             *)
(***************************************************************************)

\* The retry loops are nested and delegate to each other, but however builds and
\* criteria fail in turn, a chunk never costs more codex processes than each of
\* the four loops allows once (run_codex_harness, _run_incomplete_repair_loop).
ExecBudget == execs <= 2 * MaxRetries + 2 * BuildRepairMax

\* What the harness has verified as COMPLETED it selects again in the same run
\* only if a codex process left over from a killed run, still at work on that
\* very chunk, has unticked one of its boxes since.  Overwritten ticks, lost
\* unticks, the processes of other chunks and an unreadable file never lead there.
CompletedChunkIsLeft ==
  [][SelectChunk => <<plan, chunk'>> \notin finished \ reopened]_vars

\* A chunk that has been started is completed, or the run ends.
ChunkSettles == (pc = "exec") ~> (pc \in {"next", "exit", "plans"})

\* The harness does to the plan files what PlanLifecycle promises.
KeepsLifecycle == Lifecycle!Spec

=============================================================================
