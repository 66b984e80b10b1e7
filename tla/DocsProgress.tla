---------------------------- MODULE DocsProgress ----------------------------
(***************************************************************************)
(* What the state file of the docs orchestrator promises: a record of      *)
(* completed steps that grows by one step at a time, each when all before  *)
(* it is on record; that loses steps of Phase 1 only, to a failure of the  *)
(* quality gate, and each failure is counted; and a last message that is   *)
(* true of it.                                                             *)
(***************************************************************************)
EXTENDS Naturals

CONSTANTS
  Due(_, _, _),     \* Due(record, engine, step): all before the step is on record
  Complete(_, _),   \* Complete(record, engine): nothing is left
  Summaries(_, _),  \* Summaries(summary, step): the summary once the step is on record
  Empty,            \* the summary before the first step
  Gate,             \* the quality gate
  MaxFailures       \* how often it may fail

VARIABLES
  engine,   \* of the run; it never changes
  record,   \* the steps that are done, the failures of the gate, the summary
  message   \* the last message of the last run

progress == <<engine, record, message>>

Init ==
  /\ record = [done |-> {}, strikes |-> 0, summary |-> Empty]
  /\ message = "none"

\* A step is recorded.  The gate is passed only while it may still fail.
Records(st, other, e) ==
  \E step \in other.done \ st.done :
    /\ Due(st, e, step)
    /\ step = Gate => st.strikes < MaxFailures
    /\ other.done = st.done \cup {step}
    /\ other.strikes = st.strikes
    /\ other.summary \in Summaries(st.summary, step)

\* The gate fails, and Phase 1 has to be done again.
RollsBack(st, other) ==
  /\ <<"phase_1", {}>> \in st.done /\ Gate \notin st.done /\ st.strikes < MaxFailures
  /\ other.done = {s \in st.done : s[1] # "phase_1"}
  /\ other.strikes = st.strikes + 1
  /\ other.summary = st.summary

Save ==
  /\ Records(record, record', engine) \/ RollsBack(record, record')
  /\ UNCHANGED <<engine, message>>

\* A run says how it has ended, or a new one begins.
Say ==
  /\ message' = "done" => Complete(record, engine)
  /\ message' = "stopped" => record.strikes >= MaxFailures /\ Gate \notin record.done
  /\ UNCHANGED <<engine, record>>

Next == Save \/ Say

Spec == Init /\ [][Next]_progress
=============================================================================
