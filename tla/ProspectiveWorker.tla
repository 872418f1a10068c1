-------------------------- MODULE ProspectiveWorker --------------------------
(***************************************************************************)
(* The remote worker: invocations of run_tick (the cron's, and manual ones *)
(* that may overlap them) and sessionzero-capture-decision commands, over  *)
(* one database.  A tick derives its plan from the clock, reads the state  *)
(* of the decision's snapshot, then captures the decision or the outcomes  *)
(* by the calls of PointInTimeCapture and OutcomeCapture, and records one  *)
(* row about itself.  Tick w is the capture w and the outcome call w.      *)
(***************************************************************************)
EXTENDS Integers, FiniteSets

CONSTANTS Ticks,         \* invocations of run_tick
          Commands,      \* invocations of sessionzero-capture-decision
          Symbols, Values, Decisions, Mappings, SourceOpen, Horizon,
          DecisionLead,  \* DECISION_LEAD
          CommandLeads,  \* --capture-lead-minutes values in use
          CommandSymbols,\* --symbols arguments in use
          OutcomeDelay,  \* from the decision to the open plus 17 minutes
          DayLength      \* the New York calendar day

ASSUME WorkerAssumption == Ticks \intersect Commands = {}
ASSUME CohortAssumption == IsFiniteSet(Symbols) /\ Symbols # {}
ASSUME CommandAssumption == CommandSymbols \subseteq SUBSET Symbols
ASSUME ClockAssumption == Decisions \subseteq Nat /\ Horizon \in Nat
ASSUME OffsetAssumption ==
  CommandLeads \union {DecisionLead} \subseteq Nat /\ OutcomeDelay \in Nat \ {0}
(* derive_schedule has one session per New York day.                       *)
ASSUME DayAssumption ==
  \A d, e \in Decisions : d \div DayLength = e \div DayLength => d = e

VARIABLES now, runs, versions, retrievals, snapshots, lock, pc, job, held, seen, reply,
          outcomeRuns, outcomeVersions, outcomeRetrievals, links, stage, task, fetched,
          linked,
          workerRuns,  \* table prospective_worker_runs
          at,          \* at[w]: where tick w stands
          tick         \* tick[w]: its start, plan, what it read, the row it reports

captureVars == <<runs, versions, retrievals, lock, pc, job, held, seen, reply>>
outcomeVars == <<outcomeRuns, outcomeVersions, outcomeRetrievals, links, stage, task,
                 fetched, linked>>
workerVars == <<workerRuns, at, tick>>
vars == <<now, snapshots, captureVars, outcomeVars, workerVars>>

Capture == INSTANCE PointInTimeCapture WITH Captures <- Ticks \union Commands,
                                            Leads <- CommandLeads \union {DecisionLead}
Outcome == INSTANCE OutcomeCapture WITH Calls <- Ticks, Stored <- Capture!SnapshotRow

EXPECTED_SYMBOLS == Cardinality(Symbols)

-----------------------------------------------------------------------------
(* derive_schedule: only the session of the current New York day counts.   *)

Today(t) == {d \in Decisions : d \div DayLength = t \div DayLength}

Action(t, d) == CASE t < d - DecisionLead -> "SKIP"
                  [] d - DecisionLead <= t /\ t <= d -> "DECISION"
                  [] d < t /\ t < Outcome!Ready(d) -> "WAIT_OUTCOME"
                  [] OTHER -> "OUTCOME"

Plan(t) == [decision |-> Today(t),
            action |-> IF Today(t) = {} THEN "SKIP" ELSE Action(t, CHOOSE d \in Today(t) : TRUE)]

(* Mutant: a decision row that names its own tick's capture.               *)
RowOfOwnCapture(w, op, status, captured, snapshot, count) ==
  [tick |-> w, operation |-> op, status |-> status, decision |-> tick[w].plan.decision,
   started |-> tick[w].started, mapping |-> tick[w].mapping, symbols_captured |-> captured,
   snapshot_version |-> IF op = "DECISION" /\ status = "SUCCEEDED" THEN {w} ELSE snapshot,
   outcome_links |-> count]

(* The row of tick w; fields the code leaves at their defaults are none,   *)
(* and the times derived from the start and the plan are left out.         *)
Row(w, op, status, captured, snapshot, count) ==
  [tick |-> w, operation |-> op, status |-> status, decision |-> tick[w].plan.decision,
   started |-> tick[w].started, mapping |-> tick[w].mapping, symbols_captured |-> captured,
   snapshot_version |-> snapshot, outcome_links |-> count]

NoTick == [started |-> 0, plan |-> [decision |-> {}, action |-> "SKIP"], mapping |-> {},
           snapshot |-> {}, links |-> 0, row |-> {}, guarded |-> FALSE]

Init == /\ Capture!Init
        /\ Outcome!OutcomeInit
        /\ workerRuns = {}
        /\ at = [w \in Ticks |-> "idle"]
        /\ tick = [w \in Ticks |-> NoTick]

-----------------------------------------------------------------------------
(* run_tick *)

UnchangedData == UNCHANGED <<now, snapshots, captureVars, outcomeVars, workerRuns>>

(* The process of tick w is gone, with all it held.                        *)
End(w, how) == /\ at' = [at EXCEPT ![w] = how]
               /\ tick' = [tick EXCEPT ![w] = NoTick]

(* The database does not answer: the tick ends without a row.              *)
WakeOffline(w) ==
  /\ at[w] = "idle"
  /\ End(w, "unrecorded")
  /\ UnchangedData

Wake(w, m) ==
  /\ at[w] = "idle"
  /\ tick' = [tick EXCEPT ![w].started = now, ![w].plan = Plan(now), ![w].mapping = m]
  /\ at' = [at EXCEPT ![w] = "awake"]
  /\ UnchangedData

(* Report leaves a row to record; guarded rows are those recorded inside   *)
(* the try block whose handler records DATABASE_FAILURE instead.           *)
Report(w, row, guarded) ==
  /\ at' = [at EXCEPT ![w] = "recording"]
  /\ tick' = [tick EXCEPT ![w].row = {row}, ![w].guarded = guarded]

(* The packaged cohort does not load or is not the accepted one: the row   *)
(* has no identity.                                                        *)
ReportCohortMismatch(w) ==
  /\ at[w] = "awake"
  /\ Report(w, [Row(w, "TICK", "IDENTITY_MISMATCH", 0, {}, 0) EXCEPT !.mapping = {}], FALSE)
  /\ UnchangedData

ReportNoSession(w) ==
  /\ at[w] = "awake"
  /\ tick[w].plan.decision = {}
  /\ Report(w, Row(w, "TICK", "SKIPPED_NO_ACTION", 0, {}, 0), FALSE)
  /\ UnchangedData

StoredFor(w) == {s \in snapshots : s.decision \in tick[w].plan.decision}

LinkCount(w) == Cardinality({l.version.symbol :
                   l \in {x \in links : \E s \in StoredFor(w) : x.snapshot = s.capture}})

(* Mutant: the mapping of the stored snapshot is not compared.             *)
ReadStateOfAny(w) ==
  /\ at[w] = "awake"
  /\ tick[w].plan.decision # {}
  /\ tick' = [tick EXCEPT ![w].snapshot = {s.capture : s \in StoredFor(w)},
                          ![w].links = LinkCount(w)]
  /\ at' = [at EXCEPT ![w] = "deciding"]
  /\ UnchangedData

(* _snapshot_state: a read in a transaction of its own.  A snapshot of     *)
(* another mapping is reported and goes no further.                        *)
ReadState(w) ==
  /\ at[w] = "awake"
  /\ tick[w].plan.decision # {}
  /\ LET stored == {s.capture : s \in StoredFor(w)} IN
       IF \E s \in StoredFor(w) : s.mapping # tick[w].mapping
       THEN Report(w, Row(w, "TICK", "IDENTITY_MISMATCH", 0, stored, 0), FALSE)
       ELSE /\ tick' = [tick EXCEPT ![w].snapshot = stored, ![w].links = LinkCount(w)]
            /\ at' = [at EXCEPT ![w] = "deciding"]
  /\ UnchangedData

(* An SQLAlchemyError outside the guarded calls ends the tick unrecorded.  *)
ReadFails(w) ==
  /\ at[w] = "awake"
  /\ End(w, "unrecorded")
  /\ UnchangedData

Deciding(w, decision) == at[w] = "deciding" /\ (tick[w].plan.action = "DECISION") = decision

(* Mutant: a decision tick that takes the snapshot for stored.             *)
ReportCapturedUnread(w) ==
  /\ Deciding(w, TRUE)
  /\ Report(w, Row(w, "DECISION", "SUCCEEDED", EXPECTED_SYMBOLS, tick[w].snapshot,
                   tick[w].links), FALSE)
  /\ UnchangedData

ReportCaptured(w) ==
  /\ Deciding(w, TRUE)
  /\ tick[w].snapshot # {}
  /\ Report(w, Row(w, "DECISION", "SUCCEEDED", EXPECTED_SYMBOLS, tick[w].snapshot,
                   tick[w].links), FALSE)
  /\ UnchangedData

Late(w) == \A d \in tick[w].plan.decision : now > d

ReportLate(w) ==
  /\ Deciding(w, TRUE)
  /\ tick[w].snapshot = {}
  /\ Late(w)
  /\ Report(w, Row(w, "DECISION", "MISSED_DECISION_WINDOW", 0, {}, 0), FALSE)
  /\ UnchangedData

CallDecision(w) ==
  /\ Deciding(w, TRUE)
  /\ tick[w].snapshot = {}
  /\ ~Late(w)
  /\ at' = [at EXCEPT ![w] = "calling"]
  /\ UNCHANGED tick /\ UnchangedData

(* capture_iteration reads the clock again before it begins.               *)
BeginCapture(w) ==
  /\ at[w] = "calling"
  /\ \E d \in tick[w].plan.decision :
       Capture!Start(w, d, Symbols, DecisionLead, tick[w].mapping)
  /\ at' = [at EXCEPT ![w] = "capturing"]
  /\ UNCHANGED <<tick, workerRuns, outcomeVars>>

(* Mutant: observations are counted, not pairs.                            *)
CapturedByObservations(w) == Cardinality(held[w])

(* completed_symbols is an attribute of the provider failure alone.        *)
CapturedBy(w) == IF Capture!Collected(w) THEN 0 ELSE Capture!CompletedSymbols(w)

FailureStatus(count) == IF count > 0 THEN "PARTIAL" ELSE "PROVIDER_UNAVAILABLE"

(* Mutant: every error of the call taken for a provider's.                 *)
CaptureReturnsOrFails(w) ==
  /\ at[w] = "capturing"
  /\ \/ /\ pc[w] = "done"
        /\ Report(w, Row(w, "DECISION", "SUCCEEDED", EXPECTED_SYMBOLS, reply[w], 0), TRUE)
     \/ /\ pc[w] \in {"failed", "dbfailed", "conflict"}
        /\ Report(w, Row(w, "DECISION", FailureStatus(CapturedBy(w)), CapturedBy(w), {}, 0),
                  FALSE)
  /\ UnchangedData

CaptureReturns(w) ==
  /\ at[w] = "capturing"
  /\ \/ /\ pc[w] = "done"
        /\ Report(w, Row(w, "DECISION", "SUCCEEDED", EXPECTED_SYMBOLS, reply[w], 0), TRUE)
     \/ /\ pc[w] = "failed"
        /\ Report(w, Row(w, "DECISION", FailureStatus(CapturedBy(w)), CapturedBy(w), {}, 0),
                  FALSE)
     \/ /\ pc[w] \in {"dbfailed", "conflict"}
        /\ Report(w, Row(w, "DECISION", "DATABASE_FAILURE", 0, {}, 0), FALSE)
  /\ UnchangedData

(* Any plan but DECISION without a snapshot, SKIP before the window too.   *)
ReportMissed(w) ==
  /\ Deciding(w, FALSE)
  /\ tick[w].snapshot = {}
  /\ Report(w, Row(w, "DECISION", "MISSED_DECISION_WINDOW", 0, {}, 0), FALSE)
  /\ UnchangedData

(* Mutant: off by one.                                                     *)
AllLinkedButOne(w) == tick[w].links + 1 >= EXPECTED_SYMBOLS

AllLinked(w) == tick[w].links = EXPECTED_SYMBOLS
LinkedSymbols(w) == IF AllLinked(w) THEN EXPECTED_SYMBOLS ELSE 0

ReportWaiting(w) ==
  /\ Deciding(w, FALSE)
  /\ tick[w].snapshot # {}
  /\ tick[w].plan.action = "WAIT_OUTCOME"
  /\ Report(w, Row(w, "TICK", "SKIPPED_NO_ACTION", LinkedSymbols(w), tick[w].snapshot,
                   tick[w].links), FALSE)
  /\ UnchangedData

ReportLinked(w) ==
  /\ Deciding(w, FALSE)
  /\ tick[w].snapshot # {}
  /\ tick[w].plan.action # "WAIT_OUTCOME" /\ AllLinked(w)
  /\ Report(w, Row(w, "OUTCOME", "SUCCEEDED", EXPECTED_SYMBOLS, tick[w].snapshot,
                   tick[w].links), FALSE)
  /\ UnchangedData

CallOutcome(w) ==
  /\ Deciding(w, FALSE)
  /\ tick[w].snapshot # {}
  /\ tick[w].plan.action # "WAIT_OUTCOME" /\ ~AllLinked(w)
  /\ \E d \in tick[w].plan.decision : Outcome!Begin(w, d, tick[w].mapping)
  /\ at' = [at EXCEPT ![w] = "linking"]
  /\ UNCHANGED <<tick, workerRuns, captureVars>>

FetchedBy(w) == LET got == Outcome!FetchedSymbols(w)
                IN  IF got = Symbols THEN 0 ELSE Cardinality(got)

(* The row adds the links written to the count read before the call.       *)
OutcomeReturns(w) ==
  /\ at[w] = "linking"
  /\ \/ /\ stage[w] = "done"
        /\ Report(w, Row(w, "OUTCOME", "SUCCEEDED", EXPECTED_SYMBOLS, tick[w].snapshot,
                         tick[w].links + linked[w]), TRUE)
     \/ /\ stage[w] = "failed"
        /\ Report(w, Row(w, "OUTCOME", FailureStatus(FetchedBy(w)), FetchedBy(w),
                         tick[w].snapshot, tick[w].links), FALSE)
     \/ /\ stage[w] = "dbfailed"
        /\ Report(w, Row(w, "OUTCOME", "DATABASE_FAILURE", 0, tick[w].snapshot,
                         tick[w].links), FALSE)
  /\ UnchangedData

(* _record: the insert may fail, or commit without being acknowledged.  A  *)
(* database error inside the guarded block is followed by a second row.    *)
AfterRecordError(w) ==
  IF tick[w].guarded
  THEN /\ tick' = [tick EXCEPT ![w].guarded = FALSE,
                               ![w].row = {[r EXCEPT !.status = "DATABASE_FAILURE",
                                                     !.symbols_captured = 0,
                                                     !.snapshot_version = tick[w].snapshot,
                                                     !.outcome_links = tick[w].links] :
                                             r \in tick[w].row}]
       /\ UNCHANGED at
  ELSE End(w, "unrecorded")

Record(w, acked) ==
  /\ at[w] = "recording"
  /\ workerRuns' = workerRuns \union tick[w].row
  /\ IF acked THEN End(w, "recorded") ELSE AfterRecordError(w)
  /\ UNCHANGED <<now, snapshots, captureVars, outcomeVars>>

RecordFails(w) ==
  /\ at[w] = "recording"
  /\ AfterRecordError(w)
  /\ UnchangedData

-----------------------------------------------------------------------------
TickEnded == {"recorded", "unrecorded", "crashed"}

(* The process of a tick dies, with the call it is making.                 *)
Crash(w) ==
  /\ at[w] \notin TickEnded \union {"idle"}
  /\ End(w, "crashed")
  /\ IF at[w] = "capturing" /\ pc[w] \in Capture!Running
     THEN Capture!Crash(w) /\ UNCHANGED outcomeVars
     ELSE IF at[w] = "linking" /\ stage[w] \in {"reading", "fetching"}
     THEN Outcome!Crash(w) /\ UNCHANGED captureVars
     ELSE UNCHANGED <<now, snapshots, captureVars, outcomeVars>>
  /\ UNCHANGED workerRuns

CaptureStep(c) == Capture!Work(c) /\ UNCHANGED <<outcomeVars, workerVars>>
OutcomeStep(w) == Outcome!Work(w) /\ UNCHANGED <<captureVars, workerVars>>

Decide(w) ==
  \/ \E m \in Mappings : Wake(w, m)
  \/ ReportNoSession(w) \/ ReadState(w)
  \/ ReportCaptured(w) \/ ReportLate(w) \/ CallDecision(w) \/ BeginCapture(w)
  \/ ReportMissed(w) \/ ReportWaiting(w) \/ ReportLinked(w) \/ CallOutcome(w)
  \/ CaptureReturns(w) \/ OutcomeReturns(w)
  \/ \E acked \in BOOLEAN : Record(w, acked)

Fails(w) == WakeOffline(w) \/ ReportCohortMismatch(w) \/ ReadFails(w) \/ RecordFails(w)

(* A sessionzero-capture-decision command; it records nothing.             *)
Command(c) ==
  /\ \/ \E d \in Decisions, S \in CommandSymbols, lead \in CommandLeads, m \in Mappings :
          Capture!Start(c, d, S, lead, m)
     \/ Capture!Crash(c)
  /\ UNCHANGED <<outcomeVars, workerVars>>

Clock == Capture!Tick /\ UNCHANGED <<outcomeVars, workerVars>>

Next ==
  \/ Clock
  \/ \E w \in Ticks : Decide(w) \/ Fails(w) \/ OutcomeStep(w) \/ Crash(w)
  \/ \E c \in Ticks \union Commands : CaptureStep(c)
  \/ \E c \in Commands : Command(c)

Spec == Init /\ [][Next]_vars

(* The provider clients bound their retries, a connected transaction runs  *)
(* to its end, the lock queue is fair, and run_tick has no wait of its     *)
(* own.  That a tick starts, fails or crashes is never assumed.            *)
Fairness ==
  /\ \A w \in Ticks :
       /\ WF_vars(at[w] # "idle" /\ Decide(w))
       /\ WF_vars(Outcome!Progress(w) /\ UNCHANGED <<captureVars, workerVars>>)
  /\ \A c \in Ticks \union Commands :
       /\ WF_vars(Capture!Progress(c) /\ UNCHANGED <<outcomeVars, workerVars>>)
       /\ SF_vars(Capture!Lock(c) /\ UNCHANGED <<outcomeVars, workerVars>>)

FairSpec == Spec /\ Fairness

-----------------------------------------------------------------------------
(* Properties                                                              *)

Statuses == {"SUCCEEDED", "PARTIAL", "MISSED_DECISION_WINDOW", "PROVIDER_UNAVAILABLE",
             "DATABASE_FAILURE", "IDENTITY_MISMATCH", "SKIPPED_NO_ACTION"}

(* Rows and stages keep their types; the counts satisfy the CHECKs of the  *)
(* table (ck_worker_symbol_counts, ck_worker_outcome_links).               *)
TypeOK ==
  /\ \A r \in workerRuns :
       /\ r.tick \in Ticks
       /\ r.operation \in {"DECISION", "OUTCOME", "TICK"}
       /\ r.status \in Statuses
       /\ r.decision \subseteq Decisions
       /\ r.symbols_captured \in 0..(IF r.decision = {} THEN 0 ELSE EXPECTED_SYMBOLS)
       /\ r.outcome_links \in Nat
  /\ at \in [Ticks -> {"idle", "awake", "deciding", "calling", "capturing", "linking",
                       "recording"} \union TickEnded]

SnapshotsOf(r) == {s \in snapshots : s.decision \in r.decision}

(* Every row that names a snapshot names the one stored for its decision:  *)
(* no two rows of a decision, of whichever tick, name different snapshots. *)
RowsNameTheSnapshot ==
  \A r \in workerRuns : r.snapshot_version # {} =>
    r.snapshot_version = {s.capture : s \in SnapshotsOf(r)}

(* A SUCCEEDED decision row stands for a stored snapshot whose capture was *)
(* complete by the decision, whoever made it and whatever failed since.    *)
SucceededDecisionStored ==
  \A r \in workerRuns : r.operation = "DECISION" /\ r.status = "SUCCEEDED" =>
    \E s \in SnapshotsOf(r), run \in runs :
      /\ r.snapshot_version = {s.capture}
      /\ run.capture = s.capture
      /\ run.completed <= s.decision

(* A SUCCEEDED outcome row stands for links of the whole cohort.           *)
SucceededOutcomeLinked ==
  \A r \in workerRuns : r.operation = "OUTCOME" /\ r.status = "SUCCEEDED" =>
    \A x \in Symbols : \E l \in links :
      l.snapshot \in r.snapshot_version /\ l.version.symbol = x

(* A tick that reports a provider failure or a missed window has stored    *)
(* nothing: the abort is atomic and the report is not about another call.  *)
FailedTickStoredNothing ==
  \A r \in workerRuns :
    r.status \in {"PARTIAL", "PROVIDER_UNAVAILABLE", "MISSED_DECISION_WINDOW"} =>
      /\ \A run \in runs : run.capture # r.tick
      /\ \A run \in outcomeRuns : run.call # r.tick

(* An outcome is reported only under the mapping of the snapshot it joins. *)
OutcomeRowsSameMapping ==
  \A r \in workerRuns : r.operation = "OUTCOME" /\ r.status = "SUCCEEDED" =>
    \A s \in SnapshotsOf(r) : s.mapping = r.mapping

(* A tick that is awake ends, recorded or not: none waits for ever behind  *)
(* the lock of a crashed or failed process.                                *)
TickEnds == \A w \in Ticks : at[w] = "awake" ~> at[w] \in TickEnded

(* What the proofs of these rest on.  A tick is about one decision at most, *)
(* which it has from waking to its end, and its stage says where its two   *)
(* calls stand; the call it is making is about the decision of its plan.   *)
Quiet(w) == pc[w] = "idle" /\ stage[w] = "idle"
Planned == {"deciding", "calling", "capturing", "linking"}

StageOK(w) ==
  /\ \A d, e \in tick[w].plan.decision : d = e
  /\ at[w] \in {"idle"} \union TickEnded => tick[w] = NoTick
  /\ at[w] \in {"idle", "awake", "deciding", "calling"} => Quiet(w)
  /\ at[w] \in {"awake"} \union Planned => tick[w].mapping \in Mappings
  /\ at[w] \in Planned => tick[w].plan.decision # {}
  /\ at[w] = "capturing" => /\ stage[w] = "idle"
                            /\ pc[w] \notin {"idle", "crashed"}
                            /\ job[w].decision \in tick[w].plan.decision
  /\ at[w] = "linking" => /\ pc[w] = "idle"
                          /\ stage[w] \notin {"idle", "crashed"}
                          /\ task[w].decision \in tick[w].plan.decision
                          /\ tick[w].snapshot # {}
  /\ at[w] # "capturing" => pc[w] \notin Capture!Running
  /\ at[w] # "linking" => stage[w] \notin {"reading", "fetching"}
  /\ at[w] # "recording" => tick[w].row = {}

(* The captures named are those of the one snapshot stored for a decision. *)
Names(decision, captures) ==
  captures # {} => \E s \in snapshots : decision = {s.decision} /\ captures = {s.capture}

WholeCohortLinked(captures) ==
  \A x \in Symbols : \E l \in links : l.snapshot \in captures /\ l.version.symbol = x

UnderMapping(captures, m) == \A s \in snapshots : s.capture \in captures => s.mapping = m

(* What a tick read of the database has stayed true.                       *)
ReadOK(w) ==
  /\ Names(tick[w].plan.decision, tick[w].snapshot)
  /\ UnderMapping(tick[w].snapshot, tick[w].mapping)
  /\ tick[w].links = EXPECTED_SYMBOLS => WholeCohortLinked(tick[w].snapshot)

NothingStored == {"PARTIAL", "PROVIDER_UNAVAILABLE", "MISSED_DECISION_WINDOW"}

(* What a row says, recorded or about to be, is true and stays so.         *)
RowTrue(r) ==
  /\ r.symbols_captured <= IF r.decision = {} THEN 0 ELSE EXPECTED_SYMBOLS
  /\ Names(r.decision, r.snapshot_version)
  /\ r.status = "SUCCEEDED" => r.snapshot_version # {}
  /\ r.status = "SUCCEEDED" /\ r.operation = "OUTCOME" =>
       WholeCohortLinked(r.snapshot_version) /\ UnderMapping(r.snapshot_version, r.mapping)
  /\ r.status \in NothingStored => /\ pc[r.tick] \in {"idle", "failed"}
                                    /\ stage[r.tick] \in {"idle", "failed"}

(* The row a tick is about to record is its own, about its own decision.   *)
RowOK(w) ==
  \A r \in tick[w].row : r.tick = w /\ r.decision = tick[w].plan.decision /\ RowTrue(r)

(* A recorded row is of a tick that is past its calls.                     *)
RowsInv ==
  \A r \in workerRuns : RowTrue(r) /\ at[r.tick] \in {"recording"} \union TickEnded

WorkerRow == [tick : Ticks, operation : {"DECISION", "OUTCOME", "TICK"}, status : Statuses,
              decision : SUBSET Decisions, started : Nat, mapping : Mappings \union {{}},
              symbols_captured : Nat, snapshot_version : SUBSET (Ticks \union Commands),
              outcome_links : Nat]

TickRecord == [started : Nat,
               plan : [decision : SUBSET Decisions,
                       action : {"SKIP", "DECISION", "WAIT_OUTCOME", "OUTCOME"}],
               mapping : Mappings \union {{}}, snapshot : SUBSET (Ticks \union Commands),
               links : Nat, row : SUBSET WorkerRow, guarded : BOOLEAN]

RecordsOK == workerRuns \subseteq WorkerRow /\ tick \in [Ticks -> TickRecord]

(* The inductive invariant, over those of the two captures.                *)
IInv == /\ Capture!IInv /\ Outcome!IInv
        /\ TypeOK /\ RecordsOK
        /\ \A w \in Ticks : StageOK(w) /\ ReadOK(w) /\ RowOK(w)
        /\ RowsInv

(* DEPLOYMENT.md: before the 15-minute collection window a tick skips, so  *)
(* it cannot report the window it precedes as missed.                      *)
SkipsBeforeWindow ==
  \A r \in workerRuns : \A d \in r.decision :
    r.started < d - DecisionLead => r.status # "MISSED_DECISION_WINDOW"

(* test_existing_snapshot_mapping_mismatch_fails_closed: a snapshot of     *)
(* another mapping is not reusable, so no decision row succeeds on one.    *)
DecisionRowsSameMapping ==
  \A r \in workerRuns : r.operation = "DECISION" /\ r.status = "SUCCEEDED" =>
    \A s \in SnapshotsOf(r) : s.mapping = r.mapping
=============================================================================
