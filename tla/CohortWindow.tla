------------------------------ MODULE CohortWindow ------------------------------
(* The evaluation window of the dataset: the cohort of symbols whose evidence  *)
(* covers it (evidence_cohort.py), the pinned calendar (dataset_artifacts.py)  *)
(* and the join of every hourly observation to the sessions around its         *)
(* decision (dataset.py).                                                      *)
EXTENDS TradingSessions

CONSTANTS Universe,       \* the accepted symbols that have a native ticker
          EvaluationStart, EvaluationEnd

(* EVIDENCE_COHORT_EVALUATION_START is the close of a cash session and ..._END *)
(* falls on a Sunday.                                                          *)
ASSUME EvaluationAssumption == /\ EvaluationStart \in Nat /\ EvaluationEnd \in Nat
                               /\ EvaluationStart < EvaluationEnd
                               /\ DayOf(EvaluationStart) > 0 /\ DayOf(EvaluationEnd) < LastDay
                               /\ Weekend(DayOf(EvaluationEnd))

VARIABLES cohort,         \* the derived members
          pinned,         \* the days of calendar.json
          at,             \* the observation materialize is at, or EvaluationStart - 1
          context,        \* the join of the observation, or NoContext
          zero            \* the state of Session Zero at its decision

cohortVars == <<sessionVars, cohort, pinned, at, context, zero>>

Window == EvaluationStart .. EvaluationEnd - 1
NoContext == [decision |-> 0, previous |-> 0, next |-> 0, resolved |-> FALSE]

CohortInit == /\ SessionsInit
              /\ cohort = {}
              /\ pinned = {}
              /\ at = EvaluationStart - 1
              /\ context = NoContext
              /\ zero = "UNKNOWN"

(* A record that names the symbol and holds over the whole window.             *)
Covering(s) ==
  {r \in evidence : /\ s \in r.symbols /\ AllSymbols \notin r.symbols
                    /\ r.capability = "TRADING_SCHEDULE" /\ r.mode # "UNKNOWN"
                    /\ r.type \in {"SYMBOL_BATCH_CHANGE", "DATED_ENUMERATED_STATUS"}
                    /\ r.confidence = "VERIFIED_EXPLICIT"
                    /\ r.from <= EvaluationStart /\ r.to >= EvaluationEnd}

(* Mutant: only the ends of the window are looked at.                          *)
CheckpointsAtEnds == {EvaluationStart, EvaluationEnd - 1}

(* Where _conflict_checkpoints looks: the ends of the window and both sides of *)
(* each boundary of a record inside it.                                        *)
Checkpoints ==
  LET boundaries == {r.from : r \in evidence} \cup {r.to : r \in {q \in evidence : q.to # Forever}}
  IN {EvaluationStart, EvaluationEnd - 1}
     \cup (Window \cap (boundaries \cup {b + 1 : b \in boundaries}))

(* derive_evidence_qualified_cohort and calendar_artifact.                     *)
Derived == {s \in Universe : /\ Covering(s) # {}
                             /\ \A t \in Checkpoints : Resolution(s, t) # "CONFLICT"}

CalendarDays == {d \in Days : /\ IsSession(d)
                              /\ OpenAt(d) < EvaluationEnd /\ CloseAt(d) > EvaluationStart}
                \cup {SessionAt(EvaluationStart).previous, SessionAt(EvaluationEnd).next}

Prepare == /\ at < EvaluationStart
           /\ pinned = {}
           /\ cohort' = Derived
           /\ pinned' = CalendarDays
           /\ UNCHANGED <<sessionVars, at, context, zero>>

(* join_context of the next observation: its decision is an hour later, and    *)
(* both sessions are looked up among the materialized ones.                    *)
Join == /\ pinned # {}
        /\ at + 1 < EvaluationEnd
        /\ at' = at + 1
        /\ LET decision == at' + 1
               session == SessionAt(decision)
           IN /\ context' = [decision |-> decision,
                             previous |-> session.previous, next |-> session.next,
                             resolved |-> {session.previous, session.next} \subseteq pinned]
              /\ zero' = SessionZero(decision, {Availability(s, decision) : s \in Symbols})
        /\ UNCHANGED <<sessionVars, cohort, pinned>>

CohortNext == Prepare \/ Join

CohortSpec == CohortInit /\ [][CohortNext]_cohortVars

(***************************************************************************)
(* Properties.                                                             *)
(***************************************************************************)
(* NO LOOKAHEAD: an observation is joined to the last close at or before its   *)
(* decision and to the first open after it, over holidays, weekends and early  *)
(* closes, and the pinned calendar with its two anchors has both, so that none *)
(* is left unresolved (calendar.py:60-115, dataset_artifacts.py:82-101,        *)
(* dataset.py:241-251).                                                        *)
JoinsExact ==
  context # NoContext =>
    /\ context.previous = Max({d \in Days : IsSession(d) /\ CloseAt(d) <= context.decision})
    /\ context.next = Min({d \in Days : IsSession(d) /\ OpenAt(d) > context.decision})
    /\ context.resolved

(* EVIDENCE: a symbol of the cohort is resolved, without conflict, at the time *)
(* of every observation of the window and not only at the checkpoints          *)
(* (evidence_cohort.py:38-52, 99-105).                                         *)
CohortResolved == at \in Window => \A s \in cohort : Resolution(s, at) = "RESOLVED"

(* SESSION ZERO is active only while no cash session runs and some symbol has  *)
(* evidence in force that names or includes it, with no suspension of it in    *)
(* force, whatever else is published and however it ranks                      *)
(* (session_zero.py:16-24, source_sessions.py:81-90, 117-145).                 *)
ActiveGrounded ==
  zero = "ACTIVE" =>
    /\ \A d \in Days : IsSession(d) => ~(OpenAt(d) <= context.decision /\ context.decision < CloseAt(d))
    /\ \E s \in Symbols :
         /\ Candidates(s, context.decision) # {}
         /\ \A r \in Candidates(s, context.decision) : r.capability # "SUSPENSION"

(***************************************************************************)
(* What the proofs of these rest on.                                       *)
(***************************************************************************)
JoinOf(t) == [decision |-> t, previous |-> SessionAt(t).previous, next |-> SessionAt(t).next,
              resolved |-> {SessionAt(t).previous, SessionAt(t).next} \subseteq CalendarDays]

(* The inductive invariant: what is prepared is derived from the evidence and  *)
(* the calendar, and what is joined from the calendar at the decision.         *)
CohortInv ==
  /\ trading \in Calendars /\ evidence \in Datasets
  /\ at \in EvaluationStart - 1 .. EvaluationEnd - 1
  /\ \/ pinned = {} /\ cohort = {} /\ at < EvaluationStart
     \/ pinned = CalendarDays /\ cohort = Derived
  /\ \/ context = NoContext /\ zero = "UNKNOWN"
     \/ \E t \in EvaluationStart + 1 .. EvaluationEnd :
          /\ context = JoinOf(t)
          /\ zero = SessionZero(t, {Availability(s, t) : s \in Symbols})
================================================================================
