------------------------------ MODULE DocsSteps ------------------------------
(***************************************************************************)
(* The steps of the docs orchestrator: which there are, in which order     *)
(* _determine_next_step takes them, and how features are put into bundles. *)
(*                                                                         *)
(* A step is a pair of a phase and the things it is about: no things for a *)
(* whole phase, one domain <<d>>, one feature <<d, f>>, or the features of *)
(* a bundle.                                                               *)
(***************************************************************************)
EXTENDS Naturals, Sequences, FiniteSets, SequencesExt

CONSTANTS
  Scanned,       \* domains and features as Phase 0 guesses them from headers
  Extracted,     \* domains and features of domain-extracts/ after Phase 1
  Long,          \* features with more than feature_bundle_threshold_lines
  MaxBundle,     \* max_bundle_size
  MultiSession,  \* source_line_count > 3000
  Conflicts,     \* the blocking contradictions of the report, in order
  Overviews,     \* domains with an _overview.md
  Plans,         \* the plans of the outline table, by number
  MaxStrikes     \* _PHASE_1_5_MAX_RETRIES

ASSUME MaxBundleAssumption == MaxBundle \in Nat \ {0}
ASSUME MaxStrikesAssumption == MaxStrikes \in Nat \ {0}

Phases ==
  {"phase_0", "phase_1", "phase_1_5", "phase_2", "phase_2_conflict", "phase_2_summary",
   "phase_3_A", "phase_3_B", "phase_3_C", "phase_3_D",
   "phase_4_1", "phase_4_2", "phase_4_3",
   "phase_5_outline", "phase_5_outline_unit", "phase_5_outline_finalize",
   "phase_5_detail"}

\* The elements of s that are in S, in their order.
Only(s, S) ==
  LET only[n \in 0 .. Len(s)] ==
        IF n = 0 THEN <<>>
        ELSE IF s[n] \in S THEN Append(only[n - 1], s[n]) ELSE only[n - 1]
  IN  only[Len(s)]

Whole(phase) == <<phase, {}>>
Things(phase, names) == [i \in DOMAIN names |-> <<phase, {names[i]}>>]

(***************************************************************************)
(* The project summary: a sequence of domains, each with its features.     *)
(***************************************************************************)
DomainsOf(summary) == [i \in DOMAIN summary |-> <<summary[i].domain>>]

FeaturesOf(summary) ==
  FlattenSeq([i \in DOMAIN summary |->
    [j \in DOMAIN summary[i].features |->
      <<summary[i].domain, summary[i].features[j]>>]])

\* No domain is there twice, and no feature twice in a domain (_scan_source_structure:
\* "if current_domain not in domains"; _refresh_domains_from_extracts: files' names).
IsSummary(summary) ==
  /\ summary \in Seq(ToSet(summary)) /\ IsInjective(DomainsOf(summary))
  /\ \A part \in ToSet(summary) :
       part.features \in Seq(ToSet(part.features)) /\ IsInjective(part.features)

ASSUME SummariesAssumption == IsSummary(Scanned) /\ IsSummary(Extracted)

\* One contradiction for a feature and facet; the plans of the outline, by number.
ASSUME ListsAssumption ==
  /\ Conflicts \in Seq(ToSet(Conflicts)) /\ IsInjective(Conflicts)
  /\ Plans \in Seq(ToSet(Plans))

\* A feature is done alone or in a bundle.
Covered(done, phase, x) == \E s \in done : s[1] = phase /\ x \in s[2]

AllCovered(st, phase) ==
  \A x \in ToSet(FeaturesOf(st.summary)) : Covered(st.done, phase, x)

(***************************************************************************)
(* Bundles.  A bundle takes short features that follow each other, up to   *)
(* MaxBundle; a long feature is alone and closes the bundle before it.     *)
(***************************************************************************)
TakesMore(bundle) == bundle \cap Long = {} /\ Cardinality(bundle) < MaxBundle

AddFeature(bundles, x) ==
  IF bundles # <<>> /\ x \notin Long /\ TakesMore(Last(bundles))
  THEN [bundles EXCEPT ![Len(bundles)] = @ \cup {x}]
  ELSE Append(bundles, {x})

\* Mutant: every bundle is built again.
MutantUncovered(st, phase) == FeaturesOf(st.summary)

Uncovered(st, phase) ==
  LET features == FeaturesOf(st.summary)
  IN  Only(features, {x \in ToSet(features) : ~Covered(st.done, phase, x)})

Bundles(features) ==
  LET bundles[n \in 0 .. Len(features)] ==
        IF n = 0 THEN <<>> ELSE AddFeature(bundles[n - 1], features[n])
  IN  bundles[Len(features)]

BundleSteps(st, phase) ==
  LET bundles == Bundles(Uncovered(st, phase))
  IN  [i \in DOMAIN bundles |-> <<phase, bundles[i]>>]

(***************************************************************************)
(* The order of the steps.                                                 *)
(***************************************************************************)
OutlineUnits(st) ==
  <<Whole("phase_5_outline_unit")>>
    \o Things("phase_5_outline_unit", FeaturesOf(st.summary))
    \o Things("phase_5_outline_unit",
              Only(DomainsOf(st.summary), {<<d>> : d \in Overviews}))

OutlineSteps(st, engine) ==
  IF engine = "codex"
  THEN OutlineUnits(st) \o <<Whole("phase_5_outline_finalize")>>
  ELSE <<Whole("phase_5_outline")>>

\* What has to be done, in order; the phases over features stand for all theirs.
Agenda(st, engine) ==
  <<Whole("phase_0"), Whole("phase_1"), Whole("phase_1_5"), Whole("phase_2"),
    Whole("phase_3_A"), Whole("phase_3_B"), Whole("phase_3_C"), Whole("phase_3_D"),
    Whole("phase_4_1"), Whole("phase_4_2"), Whole("phase_4_3")>>
  \o OutlineSteps(st, engine) \o Things("phase_5_detail", Plans) \o <<Whole("done")>>

IsDone(st, step) ==
  CASE step = Whole("phase_2") ->
         AllCovered(st, "phase_2") /\ Whole("phase_2_summary") \in st.done
    [] step = Whole("phase_3_B") -> AllCovered(st, "phase_3_B")
    [] OTHER -> step \in st.done

\* Mutant: one retry too many.
MutantOutOfRetries(st) == st.strikes > MaxStrikes

OutOfRetries(st) == st.strikes >= MaxStrikes

NextStep(st, engine) ==
  LET agenda == Agenda(st, engine)
      next == agenda[SelectInSeq(agenda, LAMBDA s : ~IsDone(st, s))]
  IN  IF next = Whole("phase_1_5") /\ OutOfRetries(st) THEN Whole("stop") ELSE next

\* The steps that one call of the phase's runner goes through.
SessionsOf(next, st) ==
  LET Undone(steps) == Only(steps, ToSet(steps) \ st.done) IN
  CASE next = Whole("phase_1") ->
         <<next>> \o (IF MultiSession THEN Things("phase_1", DomainsOf(st.summary)) ELSE <<>>)
    [] next = Whole("phase_2") ->
         Undone(Things("phase_2_conflict", Conflicts)) \o BundleSteps(st, "phase_2")
    [] next[1] \in {"phase_3_A", "phase_3_B", "phase_3_C", "phase_3_D"} ->
         Undone(<<Whole("phase_3_A")>>) \o BundleSteps(st, "phase_3_B")
           \o Undone(<<Whole("phase_3_C"), Whole("phase_3_D")>>)
    [] OTHER -> <<next>>

(***************************************************************************)
(* Recovery reads the output files of the step that was running, unless it *)
(* builds another name than the session was given (a bundle of Phase 2,    *)
(* ARCHITECTURE.md) or knows none (the gate, the conflicts).               *)
(***************************************************************************)
FindsOutputFiles(step) ==
  /\ step[1] \notin {"phase_1_5", "phase_2_conflict", "phase_3_C"}
  /\ ~(step[1] = "phase_2" /\ Cardinality(step[2]) > 1)

Names ==
  UNION {ToSet(DomainsOf(Scanned)), ToSet(FeaturesOf(Scanned)),
         ToSet(DomainsOf(Extracted)), ToSet(FeaturesOf(Extracted)),
         ToSet(Conflicts), ToSet(Plans)}
=============================================================================
