---------------------------- MODULE TradingSessions ----------------------------
(* Which cash session an instant belongs to (calendar.py), what the cited      *)
(* evidence says of a source at an instant (source_sessions.py), and the       *)
(* state of Session Zero (session_zero.py).  Days have Ticks instants; a cash  *)
(* session opens at the second one and closes at the fourth, or early.         *)
EXTENDS Integers, FiniteSets, FiniteSetsExt

CONSTANTS Symbols,
          AllSymbols,     \* "*": a record for every symbol
          LastDay,        \* bound: the calendar is 0 .. LastDay
          Calendars,      \* session kinds per day: "none", "full" or "early"
          Datasets        \* evidence datasets: sets of records

Ticks == 4
Days == 0 .. LastDay
DayOf(t) == t \div Ticks
Weekend(d) == d % 3 = 2
Forever == (LastDay + 1) * Ticks

ASSUME BoundAssumption == LastDay \in Nat

(* XNYS has no sessions at weekends, and the bound is far from both ends.      *)
ASSUME CalendarAssumption ==
  \A c \in Calendars : /\ c \in [Days -> {"none", "full", "early"}]
                       /\ \A d \in Days : Weekend(d) => c[d] = "none"
                       /\ c[0] # "none" /\ c[LastDay] # "none"

VARIABLES trading,        \* the calendar
          evidence        \* the dataset

sessionVars == <<trading, evidence>>

SessionsInit == trading \in Calendars /\ evidence \in Datasets

(***************************************************************************)
(* XnysTradingCalendar.session_at                                          *)
(***************************************************************************)
IsSession(d) == trading[d] # "none"
OpenAt(d) == d * Ticks + 1
CloseAt(d) == d * Ticks + IF trading[d] = "early" THEN 2 ELSE 3
NextSession(d) == Min({e \in Days : e > d /\ IsSession(e)})
PreviousSession(d) == Max({e \in Days : e < d /\ IsSession(e)})

(* Mutant: the instant of the close still belongs to the session.              *)
SessionAtClosing(t) ==
  LET day == DayOf(t)
      before == IsSession(day) /\ t < OpenAt(day)
      after == IsSession(day) /\ CloseAt(day) < t
      open == IsSession(day) /\ ~before /\ ~after
  IN [open |-> open,
      reference |-> IF open \/ before THEN day ELSE NextSession(day),
      previous |-> IF after THEN day ELSE PreviousSession(day),
      next |-> IF before THEN day ELSE NextSession(day),
      holiday |-> ~Weekend(day) /\ ~IsSession(day)]

SessionAt(t) ==
  LET day == DayOf(t)
      before == IsSession(day) /\ t < OpenAt(day)
      after == IsSession(day) /\ CloseAt(day) <= t
      open == IsSession(day) /\ ~before /\ ~after
  IN [open |-> open,
      reference |-> IF open \/ before THEN day ELSE NextSession(day),
      previous |-> IF after THEN day ELSE PreviousSession(day),
      next |-> IF before THEN day ELSE NextSession(day),
      holiday |-> ~Weekend(day) /\ ~IsSession(day)]

(***************************************************************************)
(* CuratedBitgetSourceSessionProvider                                      *)
(***************************************************************************)
Usable(r) == /\ r.symbols # {}
             /\ r.type # "CURRENT_METADATA"
             /\ r.confidence # "AMBIGUOUS_SCOPE"

InForce(r, t) == r.from <= t /\ t < r.to

Candidates(s, t) ==
  {r \in evidence : Usable(r) /\ (AllSymbols \in r.symbols \/ s \in r.symbols) /\ InForce(r, t)}

EvidenceRank == [SYMBOL_BATCH_CHANGE |-> 3, DATED_ENUMERATED_STATUS |-> 2,
                 GENERAL_PRODUCT_RULE |-> 1, CURRENT_METADATA |-> 0, AMBIGUOUS_NOTICE |-> 0]

(* A record has one of the types and is in force from one instant to another.  *)
ASSUME DatasetAssumption ==
  \A d \in Datasets : \A r \in d : /\ r.type \in DOMAIN EvidenceRank
                                  /\ r.from \in Int /\ r.to \in Int

(* Mutant: a suspension ranks by its type alone.                               *)
RankOfType(r) == EvidenceRank[r.type]

Rank(r) == (IF r.capability = "SUSPENSION" THEN 4 ELSE 0) + EvidenceRank[r.type]

(* _precedence: by rank, then by the later effective_from.                     *)
Precedes(r, q) == Rank(r) > Rank(q) \/ (Rank(r) = Rank(q) /\ r.from > q.from)

Winners(s, t) == {r \in Candidates(s, t) : ~\E q \in Candidates(s, t) : Precedes(q, r)}

Resolution(s, t) ==
  IF Candidates(s, t) = {} THEN "NO_EVIDENCE"
  ELSE IF Cardinality({<<r.capability, r.mode>> : r \in Winners(s, t)}) # 1 THEN "CONFLICT"
  ELSE "RESOLVED"

Availability(s, t) ==
  IF Resolution(s, t) # "RESOLVED" THEN "UNKNOWN"
  ELSE LET record == CHOOSE r \in Winners(s, t) : TRUE
       IN CASE record.capability = "SUSPENSION" -> "EXPECTED_CLOSED"
            [] record.capability # "SUSPENSION" /\ SessionAt(t).holiday -> "UNKNOWN"
            [] record.capability # "SUSPENSION" /\ ~SessionAt(t).holiday ->
                 IF \/ record.mode = "TWENTY_FOUR_SEVEN"
                    \/ record.mode = "TWENTY_FOUR_FIVE" /\ ~Weekend(DayOf(t))
                 THEN "EXPECTED_OPEN" ELSE "UNKNOWN"

(***************************************************************************)
(* classify_session_zero                                                   *)
(***************************************************************************)
SessionZero(t, states) ==
  IF SessionAt(t).open THEN "INACTIVE"
  ELSE IF "EXPECTED_OPEN" \in states THEN "ACTIVE"
  ELSE IF states = {} \/ "UNKNOWN" \in states THEN "UNKNOWN"
  ELSE "INACTIVE"
================================================================================
