------------------------------ MODULE ExecPlans ------------------------------
(***************************************************************************)
(* The exec-plan files and how both harness backends read them             *)
(* (plan_parser, session_manager).                                         *)
(*                                                                         *)
(* An exec-plan is a Markdown file in one of the directories planning/,    *)
(* active/ and completed/.  It is split into chunks, and each chunk has    *)
(* completion criteria, written as checkboxes, some of them tagged [BUILD].*)
(***************************************************************************)
EXTENDS Naturals, FiniteSets

CONSTANTS
  Plans,      \* the plans, numbered in the order of their file names
  ChunksOf,   \* ChunksOf[p]: the chunk numbers of plan p, in file order
  Items,      \* the checkboxes: triples <<plan, chunk, criterion>>
  Builds      \* the checkboxes tagged [BUILD]

ASSUME PlansAssumption == Plans \subseteq Nat \ {0}

ASSUME ChunksAssumption ==
  /\ ChunksOf \in [Plans -> SUBSET Nat]
  /\ \A p \in Plans : IsFiniteSet(ChunksOf[p])

ASSUME ItemsAssumption ==
  \A i \in Items : i[1] \in Plans /\ i[2] \in ChunksOf[i[1]]

ASSUME BuildsAssumption == Builds \subseteq Items

VARIABLES
  dir,        \* the directory each plan file is in, "absent" if not written yet
  checked,    \* the ticked checkboxes in the plan files
  emptied     \* plans whose file is empty: write_text truncates, then writes

Directories == {"absent", "planning", "active", "completed"}

In(d) == {p \in Plans : dir[p] = d}

Boxes(p) == {i \in Items : i[1] = p}

ChunkItems(p, c) == {i \in Items : i[1] = p /\ i[2] = c}

Unchecked(p, c) == ChunkItems(p, c) \ checked

\* Mutant: any ticked criterion will do.
MutantCompleted(p, c) == ChunkItems(p, c) \cap checked # {}

\* _chunk_status: a chunk that states no criterion is never "completed".
ChunkCompleted(p, c) == ChunkItems(p, c) # {} /\ Unchecked(p, c) = {}

\* An empty file parses, as a plan without chunks.  "checked" keeps the boxes of
\* the text it held.
ParsedChunks(p) == {c \in ChunksOf[p] : p \notin emptied}

Incomplete(p) == {c \in ParsedChunks(p) : ~ ChunkCompleted(p, c)}

\* Mutant: some incomplete chunk, not the first.
MutantAnyIncomplete(p, c) == c \in Incomplete(p)

\* find_next_incomplete_chunk
IsNextIncompleteChunk(p, c) ==
  /\ c \in Incomplete(p)
  /\ \A d \in Incomplete(p) : c <= d

\* Mutant: active/ is not looked at.
MutantPromoteAnyway(p) ==
  /\ dir[p] = "planning"
  /\ \A q \in In("planning") : p <= q

\* promote_next_plan would move plan p: the first name, if active/ is empty.
IsPromoted(p) ==
  /\ In("active") = {}
  /\ dir[p] = "planning"
  /\ \A q \in In("planning") : p <= q

NothingToPromote == \A p \in Plans : ~ IsPromoted(p)

\* Mutant: ticked builds are collected again.
MutantAllBuilds(p, c) == ChunkItems(p, c) \cap Builds

\* The [BUILD] criteria that are still unticked.
UncheckedBuilds(p, c) == Unchecked(p, c) \cap Builds

=============================================================================
