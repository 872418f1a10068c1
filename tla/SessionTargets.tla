---------------------------- MODULE SessionTargets ----------------------------
(* The targets of one session of one symbol: what session_target makes of a    *)
(* fetched history, what prepare_target accepts of an archived row, and the    *)
(* transactions in which builders that may die, race or repeat one another     *)
(* persist it (persist_target).  Event times are minutes.                      *)
EXTENDS Integers, Sequences

CONSTANTS Builders,                   \* the calls of persist_target
          OpenMinute, CloseMinute,    \* regular_open, regular_close
          TargetMinutes,              \* event times a bar may carry
          Quotes,                     \* what a bar may say
          ErrorCodes, StructuralCodes \* errors of get_candles, and which are structural

(* A session closes after it opens.                                            *)
ASSUME MinuteAssumption == /\ OpenMinute \in Nat /\ CloseMinute \in Nat
                           /\ OpenMinute < CloseMinute

VARIABLES progress,          \* per builder: where persist_target is
          archived,       \* per builder: the row it was given
          legRuns,        \* ingestion_runs, each with the raw page it stored
          minutes,        \* normalized_native_equity_candles
          targets         \* native_session_targets

targetVars == <<progress, archived, legRuns, minutes, targets>>

Sides == {"open", "close"}
Boundary(side) == IF side = "open" THEN OpenMinute ELSE CloseMinute - 1
Quote == [t : TargetMinutes, v : Quotes]
NoQuote == [t |-> -1, v |-> "none"]
NoHistory == [start |-> -1, page |-> <<>>, bars |-> <<>>]

(***************************************************************************)
(* The archived row: session_target, and the legs of collect.native.       *)
(***************************************************************************)
FailedLeg(code) == [status |-> IF code \in StructuralCodes THEN "STRUCTURAL_FAILURE"
                               ELSE "PROVIDER_FAILURE",
                    code |-> code, history |-> NoHistory]

LegOf(side, bars) ==
  IF \E i \in DOMAIN bars : bars[i].t # Boundary(side) THEN FailedLeg("SESSION_BOUNDARY_LEAKAGE")
  ELSE IF Len(bars) > 1 THEN FailedLeg("DUPLICATE_TARGET")
  ELSE [status |-> IF bars = <<>> THEN "MISSING_BOUNDARY_MINUTE" ELSE "AVAILABLE",
        code |-> "none",
        history |-> [start |-> Boundary(side), page |-> bars, bars |-> bars]]

FetchedLegs(side) == {FailedLeg(code) : code \in ErrorCodes}
                     \cup {LegOf(side, bars) : bars \in {<<>>} \cup {<<q>> : q \in Quote}}

FetchedRows == [listed : {TRUE}, open : FetchedLegs("open"), close : FetchedLegs("close")]

(* Rows of an archive that was edited: one thing in one leg is different.      *)
EditedLegs(leg) ==
  {[leg EXCEPT !.status = s] : s \in {"AVAILABLE", "MISSING_BOUNDARY_MINUTE", "UNKNOWN"}}
  \cup {[leg EXCEPT !.history.start = t] : t \in TargetMinutes}
  \cup {[leg EXCEPT !.history.bars = <<q>>] : q \in Quote}
  \cup {[leg EXCEPT !.history = NoHistory]}

EditedRows == UNION {{[row EXCEPT !.listed = FALSE]}
                     \cup {[row EXCEPT !.open = leg] : leg \in EditedLegs(row.open)}
                     \cup {[row EXCEPT !.close = leg] : leg \in EditedLegs(row.close)} :
                       row \in FetchedRows}

(***************************************************************************)
(* prepare_target                                                          *)
(***************************************************************************)
(* replay_history finds in the page the bar of the one minute asked for.       *)
ReplayedFrom(history) ==
  LET asked == {i \in DOMAIN history.page : history.page[i].t = history.start}
  IN \/ asked = {} /\ history.bars = <<>>
     \/ \E i \in asked : asked = {i} /\ history.bars = <<history.page[i]>>

AcceptedLeg(side, leg) ==
  IF leg.history = NoHistory
  THEN leg.status \in {"PROVIDER_FAILURE", "STRUCTURAL_FAILURE", "UNKNOWN"}
  ELSE /\ leg.history.start = Boundary(side)
       /\ Len(leg.history.bars) <= 1
       /\ \A i \in DOMAIN leg.history.bars : leg.history.bars[i].t = Boundary(side)
       /\ leg.status = IF leg.history.bars = <<>> THEN "MISSING_BOUNDARY_MINUTE" ELSE "AVAILABLE"
       /\ ReplayedFrom(leg.history)

Accepted(row) == row.listed /\ \A side \in Sides : AcceptedLeg(side, row[side])

CandleOf(leg) == IF leg.history.bars = <<>> THEN NoQuote ELSE leg.history.bars[1]

(* target_version: the identity with the versions of both candles.             *)
TargetVersion(row) ==
  [side \in Sides |-> [status |-> row[side].status, code |-> row[side].code,
                       candle |-> CandleOf(row[side])]]

PairStatus(open, close) ==
  CASE "STRUCTURAL_FAILURE" \in {open, close} -> "STRUCTURAL_FAILURE"
    [] "PROVIDER_FAILURE" \in {open, close} /\ "STRUCTURAL_FAILURE" \notin {open, close} ->
         "PROVIDER_FAILURE"
    [] open = "AVAILABLE" /\ close = "AVAILABLE" -> "TARGET_AVAILABLE"
    [] open = "MISSING_BOUNDARY_MINUTE" /\ close = "MISSING_BOUNDARY_MINUTE" -> "BOTH_MISSING"
    [] open = "MISSING_BOUNDARY_MINUTE" /\ close = "AVAILABLE" -> "OPEN_MISSING"
    [] open = "AVAILABLE" /\ close = "MISSING_BOUNDARY_MINUTE" -> "CLOSE_MISSING"
    [] OTHER -> "UNKNOWN"

(***************************************************************************)
(* persist_target                                                          *)
(***************************************************************************)
NoRow == [listed |-> FALSE, open |-> FailedLeg("none"), close |-> FailedLeg("none")]

TargetInit == /\ progress = [b \in Builders |-> "idle"]
              /\ archived = [b \in Builders |-> NoRow]
              /\ legRuns = {}
              /\ minutes = {}
              /\ targets = {}

Proceeds(b, to) == progress' = [progress EXCEPT ![b] = to]

GivesUp(b) == Proceeds(b, "failed") /\ archived' = [archived EXCEPT ![b] = NoRow]

PrepareTarget(b, row) ==
  /\ progress[b] = "idle"
  /\ IF Accepted(row)
     THEN Proceeds(b, "lookup") /\ archived' = [archived EXCEPT ![b] = row]
     ELSE GivesUp(b)
  /\ UNCHANGED <<legRuns, minutes, targets>>

(* Mutant: a target of the session is taken for the version wanted.            *)
KnownSession(b) == targets # {}

Known(b) == \E t \in targets : t.version = TargetVersion(archived[b])

LookUp(b) == /\ progress[b] = "lookup"
             /\ Proceeds(b, IF Known(b) THEN "ended" ELSE "open")
             /\ UNCHANGED <<archived, legRuns, minutes, targets>>

After(side) == IF side = "open" THEN "close" ELSE "insert"
NewRun(b, side, status, code, page) ==
  [run |-> <<b, side>>, status |-> status, code |-> code, page |-> page]

(* A leg without a history leaves a FAILED run as its evidence.                *)
RecordFailure(b, side) ==
  /\ progress[b] = side
  /\ archived[b][side].history = NoHistory
  /\ LET code == archived[b][side].code
     IN legRuns' = legRuns \cup
          {NewRun(b, side, "FAILED", IF code = "none" THEN "TARGET_UNKNOWN" ELSE code, <<>>)}
  /\ Proceeds(b, After(side))
  /\ UNCHANGED <<archived, minutes, targets>>

(* persist_native_history: stored, or rolled back, or stored without           *)
(* acknowledgement, after which its handler marks the run FAILED and raises,   *)
(* or does not get to it.                                                      *)
PersistLeg(b, side) ==
  LET history == archived[b][side].history
      stored == minutes' = minutes \cup {history.bars[i] : i \in DOMAIN history.bars}
      Ran(status, code) == legRuns' = legRuns \cup {NewRun(b, side, status, code, history.page)}
  IN /\ progress[b] = side
     /\ history # NoHistory
     /\ UNCHANGED targets
     /\ \/ stored /\ Ran("SUCCEEDED", "none") /\ Proceeds(b, After(side)) /\ UNCHANGED archived
        \/ stored /\ Ran("FAILED", "NATIVE_DATABASE_WRITE") /\ GivesUp(b)
        \/ /\ \E status \in {"RUNNING", "FAILED"} :
                legRuns' = legRuns \cup {NewRun(b, side, status, "NATIVE_DATABASE_WRITE", <<>>)}
           /\ UNCHANGED minutes
           /\ GivesUp(b)

RefOf(b, side) == [run |-> <<b, side>>, candle |-> CandleOf(archived[b][side])]

(* The last transaction: a version that is there by now stays as it is; the    *)
(* acknowledgement may be lost.                                                *)
InsertTarget(b) ==
  /\ progress[b] = "insert"
  /\ targets' = IF Known(b) THEN targets
                ELSE targets \cup {[version |-> TargetVersion(archived[b]),
                                    status |-> PairStatus(archived[b].open.status,
                                                          archived[b].close.status),
                                    open |-> RefOf(b, "open"), close |-> RefOf(b, "close")]}
  /\ GivesUp(b) \/ (Proceeds(b, "ended") /\ UNCHANGED archived)
  /\ UNCHANGED <<legRuns, minutes>>

(* A death, or a connection or transaction that fails before it stores a row.  *)
BuilderFails(b) == /\ progress[b] \in {"lookup", "open", "close", "insert"}
                   /\ GivesUp(b)
                   /\ UNCHANGED <<legRuns, minutes, targets>>

TargetNext == \E b \in Builders :
  \/ \E row \in FetchedRows \cup EditedRows : PrepareTarget(b, row)
  \/ LookUp(b)
  \/ \E side \in Sides : RecordFailure(b, side) \/ PersistLeg(b, side)
  \/ InsertTarget(b)
  \/ BuilderFails(b)

TargetSpec == TargetInit /\ [][TargetNext]_targetVars

(***************************************************************************)
(* Properties.                                                             *)
(***************************************************************************)
(* What a target's version says of a leg, and what it refers to, agree.        *)
LegGrounded(side, said, ref) ==
  \E r \in legRuns :
    /\ r.run = ref.run
    /\ ref.candle = said.candle
    /\ CASE said.status = "AVAILABLE" ->
              /\ r.status = "SUCCEEDED"
              /\ said.candle \in minutes /\ \E i \in DOMAIN r.page : r.page[i] = said.candle
              /\ said.candle.t = Boundary(side)
         [] said.status = "MISSING_BOUNDARY_MINUTE" ->
              /\ r.status = "SUCCEEDED"
              /\ said.candle = NoQuote
              /\ \A i \in DOMAIN r.page : r.page[i].t # Boundary(side)
         [] OTHER -> /\ r.status = "FAILED"
                     /\ r.code = said.code \/ said.code = "none"
                     /\ said.candle = NoQuote

(* TARGETS: whatever was edited in an archive, lost, raced or repeated, a      *)
(* stored target has the evidence its version names, for the exact minutes of  *)
(* the session, it is AVAILABLE only with both candles, and a version that is  *)
(* returned, for a dataset to link, is stored once (dataset.py:53-238).        *)
TargetsGrounded ==
  /\ \A t \in targets :
       /\ \A side \in Sides : LegGrounded(side, t.version[side], t[side])
       /\ t.status = "TARGET_AVAILABLE" <=> NoQuote \notin {t.open.candle, t.close.candle}
       /\ \A q \in targets : q.version = t.version => q = t
  /\ \A b \in Builders : progress[b] = "ended" =>
       \E t \in targets : t.version = TargetVersion(archived[b])

(***************************************************************************)
(* What the proof of it rests on.                                          *)
(***************************************************************************)
Building == {"lookup", "open", "close", "insert"}

TargetTypeOK ==
  /\ progress \in [Builders -> {"idle", "ended", "failed"} \cup Building]
  /\ archived \in [Builders -> FetchedRows \cup EditedRows \cup {NoRow}]

Supported(b, side) == LegGrounded(side, TargetVersion(archived[b])[side], RefOf(b, side))

(* A builder works on an accepted row, and has the evidence of the legs it has *)
(* been through.                                                               *)
BuildersInv ==
  \A b \in Builders :
    /\ progress[b] \in Building => Accepted(archived[b])
    /\ progress[b] \in {"close", "insert"} => Supported(b, "open")
    /\ progress[b] = "insert" => Supported(b, "close")

(* The inductive invariant.                                                    *)
TargetInv == TargetTypeOK /\ BuildersInv /\ TargetsGrounded
===============================================================================
