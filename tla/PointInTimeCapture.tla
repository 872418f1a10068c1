------------------------- MODULE PointInTimeCapture -------------------------
(***************************************************************************)
(* Prospective point-in-time capture: any number of concurrent             *)
(* capture_iteration calls (the worker's and the sessionzero-capture-      *)
(* decision command's) collecting a Reality mark and a previous native     *)
(* close per symbol before a decision timestamp, and                       *)
(* persist_point_in_time_capture storing them in four append-only tables   *)
(* under a transaction-scoped advisory lock.                               *)
(*                                                                         *)
(* Abstractions.  A digest is the content it digests: a retrieval belongs  *)
(* to one call (its two timestamps are microseconds of that call), so the  *)
(* capture version, the capture_id and the snapshot version built from it  *)
(* are all named by the call; an observation version is its logical key    *)
(* (the event time is fixed by the decision) and its canonical value.      *)
(* Time is a counter in arbitrary units.                                   *)
(***************************************************************************)
EXTENDS Integers, FiniteSets

CONSTANTS Captures,    \* calls of capture_iteration
          Symbols,     \* the frozen cohort
          Values,      \* canonical values a provider may answer with
          Decisions,   \* decision timestamps: open minus 60 minutes
          Leads,       \* capture windows a caller may declare
          Mappings,    \* cohort versions of the builds in use
          SourceOpen,  \* <<symbol, decision>> whose source session is evidenced
                       \* EXPECTED_OPEN by evidence published in time
          Horizon      \* bound on the clock

ASSUME DecisionsAssumption == Decisions \subseteq Nat
ASSUME HorizonAssumption == Horizon \in Nat
ASSUME LeadsAssumption == Leads \subseteq Nat
ASSUME SymbolsAssumption == IsFiniteSet(Symbols)

VARIABLES now,         \* the clock every process reads
          runs,        \* table point_in_time_capture_runs
          versions,    \* table point_in_time_observation_versions
          retrievals,  \* table point_in_time_retrievals
          snapshots,   \* table decision_time_snapshots
          lock,        \* lock[d]: {} or {the call holding the advisory lock of d}
          pc,          \* pc[c]: where call c stands
          job,         \* job[c]: the arguments and clock readings of call c
          held,        \* held[c]: the retrievals c has collected
          seen,        \* seen[c]: what c's transaction read before it wrote
          reply        \* reply[c]: {} or {the snapshot_version c returned}

tables == <<runs, versions, retrievals, snapshots>>
locals == <<pc, job, held, seen, reply>>
vars == <<now, tables, lock, locals>>

Time == 0..Horizon
Fields == {"REALITY_DECISION_MARK", "PREVIOUS_NATIVE_CLOSE"}

Version == [decision : Decisions, symbol : Symbols, field : Fields, value : Values]
Retrieval == [capture : Captures, version : Version, ingestion : Time]
VersionRow == [version : Version, first_ingestion : Time]
RunRow == [capture : Captures, decision : Decisions, mapping : Mappings,
           started : Time, completed : Time, symbols : SUBSET Symbols]
SnapshotRow == [capture : Captures, decision : Decisions, mapping : Mappings,
                versions : SUBSET Version, symbols : SUBSET Symbols]
Job == [decision : Decisions, symbols : SUBSET Symbols, mapping : Mappings,
        started : Time, completed : Time]

InTransaction == {"locked", "writing"}
Running == {"collecting", "storing"} \union InTransaction
Ended == {"done", "failed", "dbfailed", "conflict", "crashed"}

NoJob == [decision |-> 0, symbols |-> {}, mapping |-> {}, started |-> 0, completed |-> 0]
NothingSeen == [run |-> FALSE, snapshot |-> {}]

Init ==
  /\ now = 0
  /\ runs = {} /\ versions = {} /\ retrievals = {} /\ snapshots = {}
  /\ lock = [d \in Decisions |-> {}]
  /\ pc = [c \in Captures |-> "idle"]
  /\ job = [c \in Captures |-> NoJob]
  /\ held = [c \in Captures |-> {}]
  /\ seen = [c \in Captures |-> NothingSeen]
  /\ reply = [c \in Captures |-> {}]

-----------------------------------------------------------------------------
(* The providers: one pair of requests per symbol.                         *)

(* The window check: decision - lead <= now <= decision.                   *)
InWindow(d, lead) == d - lead <= now /\ now <= d

(* A call starts for decision d and a non-empty subset S of the cohort; a  *)
(* start outside the declared window is refused before any request.        *)
Start(c, d, S, lead, m) ==
  /\ pc[c] = "idle"
  /\ S # {}
  /\ pc' = [pc EXCEPT ![c] = IF InWindow(d, lead) THEN "collecting" ELSE "failed"]
  /\ job' = [job EXCEPT ![c] = [decision |-> d, symbols |-> S, mapping |-> m,
                                started |-> now, completed |-> now]]
  /\ UNCHANGED <<now, tables, lock, held, seen, reply>>

Has(c, s, f) == \E r \in held[c] : r.version.symbol = s /\ r.version.field = f

Ingest(c, s, f, v) ==
  held' = [held EXCEPT ![c] = @ \union
            {[capture |-> c, ingestion |-> now,
              version |-> [decision |-> job[c].decision, symbol |-> s,
                           field |-> f, value |-> v]]}]

(* The Reality mark of the next symbol; earlier symbols have both fields.  *)
RetrieveMark(c, s, v) ==
  /\ pc[c] = "collecting"
  /\ s \in job[c].symbols
  /\ ~Has(c, s, "REALITY_DECISION_MARK")
  /\ \A t \in job[c].symbols :
        Has(c, t, "REALITY_DECISION_MARK") => Has(c, t, "PREVIOUS_NATIVE_CLOSE")
  /\ Ingest(c, s, "REALITY_DECISION_MARK", v)
  /\ UNCHANGED <<now, tables, lock, pc, job, seen, reply>>

(* The previous native close of the symbol whose mark was just retrieved.  *)
RetrieveClose(c, s, v) ==
  /\ pc[c] = "collecting"
  /\ Has(c, s, "REALITY_DECISION_MARK")
  /\ ~Has(c, s, "PREVIOUS_NATIVE_CLOSE")
  /\ Ingest(c, s, "PREVIOUS_NATIVE_CLOSE", v)
  /\ UNCHANGED <<now, tables, lock, pc, job, seen, reply>>

(* Mutant: an assembly that waits for the marks only.                      *)
CollectedMarks(c) == \A s \in job[c].symbols : Has(c, s, "REALITY_DECISION_MARK")

Collected(c) == \A s \in job[c].symbols : \A f \in Fields : Has(c, s, f)

(* CaptureProviderFailure: any provider or validation error aborts the call; *)
(* it reports the number of whole pairs collected so far.                  *)
ProviderFails(c) ==
  /\ pc[c] = "collecting"
  /\ ~Collected(c)
  /\ pc' = [pc EXCEPT ![c] = "failed"]
  /\ UNCHANGED <<now, tables, lock, job, held, seen, reply>>

CompletedSymbols(c) == Cardinality(held[c]) \div 2

(* Mutant: neither gate on time, only the source sessions.                 *)
MayStoreLate(c) == \A s \in job[c].symbols : <<s, job[c].decision>> \in SourceOpen

(* The gates between the last response and the database: every observation *)
(* ingested by the decision, every source session evidenced, and the call  *)
(* itself complete by the decision.                                        *)
MayStore(c) ==
  /\ \A r \in held[c] : r.ingestion <= job[c].decision
  /\ \A s \in job[c].symbols : <<s, job[c].decision>> \in SourceOpen
  /\ now <= job[c].decision

Assemble(c) ==
  /\ pc[c] = "collecting"
  /\ Collected(c)
  /\ pc' = [pc EXCEPT ![c] = IF MayStore(c) THEN "storing" ELSE "failed"]
  /\ job' = [job EXCEPT ![c] = [decision |-> job[c].decision, symbols |-> job[c].symbols,
                                mapping |-> job[c].mapping, started |-> job[c].started,
                                completed |-> now]]
  /\ UNCHANGED <<now, tables, lock, held, seen, reply>>

-----------------------------------------------------------------------------
(* persist_point_in_time_capture: one transaction.                         *)

Released(c) == [d \in Decisions |-> lock[d] \ {c}]

SnapshotOf(d) == {s.capture : s \in {t \in snapshots : t.decision = d}}

(* Mutant: no advisory lock, only the row locks of the inserts.            *)
LockShared(c) ==
  /\ pc[c] = "storing"
  /\ lock' = [lock EXCEPT ![job[c].decision] = @ \union {c}]
  /\ pc' = [pc EXCEPT ![c] = "locked"]
  /\ UNCHANGED <<now, tables, job, held, seen, reply>>

(* pg_advisory_xact_lock(decision) waits for the holder's transaction.     *)
Lock(c) ==
  /\ pc[c] = "storing"
  /\ lock[job[c].decision] = {}
  /\ lock' = [lock EXCEPT ![job[c].decision] = {c}]
  /\ pc' = [pc EXCEPT ![c] = "locked"]
  /\ UNCHANGED <<now, tables, job, held, seen, reply>>

(* The two reads: the run of this capture version, the decision's snapshot. *)
ReadStored(c) ==
  /\ pc[c] = "locked"
  /\ seen' = [seen EXCEPT ![c] = [run |-> \E r \in runs : r.capture = c,
                                  snapshot |-> SnapshotOf(job[c].decision)]]
  /\ pc' = [pc EXCEPT ![c] = "writing"]
  /\ UNCHANGED <<now, tables, lock, job, held, reply>>

RunOf(c) == [capture |-> c, decision |-> job[c].decision, mapping |-> job[c].mapping,
             started |-> job[c].started, completed |-> job[c].completed,
             symbols |-> job[c].symbols]

SnapshotFrom(c) == [capture |-> c, decision |-> job[c].decision,
                    mapping |-> job[c].mapping, symbols |-> job[c].symbols,
                    versions |-> {r.version : r \in held[c]}]

(* Mutant: every retrieval dates its version again.                        *)
VersionsAddedAgain(c) ==
  {[version |-> r.version, first_ingestion |-> r.ingestion] : r \in held[c]}

(* INSERT ... ON CONFLICT (version_hash) DO NOTHING: a version that is     *)
(* stored keeps the ingestion time of the capture that stored it.          *)
VersionsAdded(c) ==
  {[version |-> r.version, first_ingestion |-> r.ingestion] :
     r \in {q \in held[c] : \A row \in versions : row.version # q.version}}

(* The unique keys the inserts could meet: capture_version of the run, and *)
(* decision_timestamp of the snapshot.                                     *)
UniqueViolation(c) ==
  \/ \E r \in runs : r.capture = c
  \/ seen[c].snapshot = {} /\ SnapshotOf(job[c].decision) # {}

Stores(c) == ~seen[c].run /\ ~UniqueViolation(c)

(* Mutant: a caller is told of the snapshot it built, stored or not.       *)
AnswerOwn(c) == {c}

Answer(c) == IF seen[c].snapshot = {} THEN {c} ELSE seen[c].snapshot

(* Mutants: every capture makes a snapshot; the latest capture replaces it. *)
InsertAllAlways(c) ==
  /\ runs' = runs \union {RunOf(c)}
  /\ versions' = versions \union VersionsAdded(c)
  /\ retrievals' = retrievals \union held[c]
  /\ snapshots' = snapshots \union {SnapshotFrom(c)}

InsertAllReplacing(c) ==
  /\ runs' = runs \union {RunOf(c)}
  /\ versions' = versions \union VersionsAdded(c)
  /\ retrievals' = retrievals \union held[c]
  /\ snapshots' = {s \in snapshots : s.decision # job[c].decision} \union {SnapshotFrom(c)}

InsertAll(c) ==
  /\ runs' = runs \union {RunOf(c)}
  /\ versions' = versions \union VersionsAdded(c)
  /\ retrievals' = retrievals \union held[c]
  /\ snapshots' = IF seen[c].snapshot = {} THEN snapshots \union {SnapshotFrom(c)}
                                           ELSE snapshots

(* The writes and the commit, which also releases the lock.  With ~acked   *)
(* the commit took effect but its acknowledgement is lost, and the caller  *)
(* sees a database error.                                                  *)
Commit(c, acked) ==
  /\ pc[c] = "writing"
  /\ IF Stores(c) THEN InsertAll(c) ELSE UNCHANGED tables
  /\ lock' = Released(c)
  /\ pc' = [pc EXCEPT ![c] = IF ~seen[c].run /\ UniqueViolation(c) THEN "conflict"
                             ELSE IF acked THEN "done" ELSE "dbfailed"]
  /\ reply' = [reply EXCEPT ![c] =
                 IF acked /\ (seen[c].run \/ Stores(c)) THEN Answer(c) ELSE {}]
  /\ UNCHANGED <<now, job, held, seen>>

(* Mutant: a session-level lock, which the rollback does not release.      *)
DatabaseFailsHolding(c) ==
  /\ pc[c] \in {"storing"} \union InTransaction
  /\ pc' = [pc EXCEPT ![c] = "dbfailed"]
  /\ UNCHANGED <<now, tables, lock, job, held, seen, reply>>

(* No connection, or an error inside the transaction, which rolls back.    *)
DatabaseFails(c) ==
  /\ pc[c] \in {"storing"} \union InTransaction
  /\ lock' = Released(c)
  /\ pc' = [pc EXCEPT ![c] = "dbfailed"]
  /\ UNCHANGED <<now, tables, job, held, seen, reply>>

(* A caller persists the same retrievals again, knowing or not knowing     *)
(* whether the first attempt committed.                                    *)
Resubmit(c) ==
  /\ pc[c] \in {"done", "dbfailed"}
  /\ pc' = [pc EXCEPT ![c] = "storing"]
  /\ seen' = [seen EXCEPT ![c] = NothingSeen]
  /\ reply' = [reply EXCEPT ![c] = {}]
  /\ UNCHANGED <<now, tables, lock, job, held>>

(* The process dies with all it held; PostgreSQL rolls its transaction back. *)
Crash(c) ==
  /\ pc[c] \in Running
  /\ lock' = Released(c)
  /\ pc' = [pc EXCEPT ![c] = "crashed"]
  /\ job' = [job EXCEPT ![c] = NoJob]
  /\ held' = [held EXCEPT ![c] = {}]
  /\ seen' = [seen EXCEPT ![c] = NothingSeen]
  /\ UNCHANGED <<now, tables, reply>>

Tick == now < Horizon /\ now' = now + 1 /\ UNCHANGED <<tables, lock, locals>>

(* What a call does unless something fails; Lock is the step that waits.   *)
Progress(c) ==
  \/ \E s \in Symbols, v \in Values : RetrieveMark(c, s, v)
  \/ \E s \in Symbols, v \in Values : RetrieveClose(c, s, v)
  \/ Assemble(c)
  \/ ReadStored(c)
  \/ \E acked \in BOOLEAN : Commit(c, acked)

Work(c) == Progress(c) \/ Lock(c) \/ ProviderFails(c) \/ DatabaseFails(c)

Next ==
  \/ Tick
  \/ \E c \in Captures :
       \/ \E d \in Decisions, S \in SUBSET Symbols, lead \in Leads, m \in Mappings :
             Start(c, d, S, lead, m)
       \/ Work(c)
       \/ Resubmit(c)
       \/ Crash(c)

Spec == Init /\ [][Next]_vars

-----------------------------------------------------------------------------
(* Properties                                                              *)

(* Every variable keeps its type.                                          *)
TypeOK ==
  /\ now \in Time
  /\ runs \subseteq RunRow
  /\ versions \subseteq VersionRow
  /\ retrievals \subseteq Retrieval
  /\ snapshots \subseteq SnapshotRow
  /\ lock \in [Decisions -> SUBSET Captures]
  /\ pc \in [Captures -> {"idle"} \union Running \union Ended]
  /\ job \in [Captures -> Job \union {NoJob}]
  /\ held \in [Captures -> SUBSET Retrieval]
  /\ seen \in [Captures -> [run : BOOLEAN, snapshot : SUBSET Captures]]
  /\ reply \in [Captures -> SUBSET Captures]

(* No lookahead: whatever a snapshot binds (its version lists are JSON, no *)
(* foreign key guards them) is a version that the snapshot's own capture   *)
(* retrieved by the decision, and that the versions table dates by it too. *)
SnapshotEvidenced ==
  \A s \in snapshots : \A v \in s.versions :
    /\ \E r \in retrievals : /\ r.capture = s.capture
                             /\ r.version = v
                             /\ r.ingestion <= s.decision
    /\ \E row \in versions : row.version = v /\ row.first_ingestion <= s.decision

(* A snapshot holds exactly one Reality mark and one previous close of     *)
(* every symbol whose source-session assessment it carries, none besides:  *)
(* no partial pair survives a provider failure.                            *)
SnapshotPaired ==
  \A s \in snapshots :
    /\ \A x \in s.symbols, f \in Fields :
         \E v \in s.versions : /\ v.symbol = x /\ v.field = f
                               /\ \A w \in s.versions :
                                    w.symbol = x /\ w.field = f => w = v
    /\ \A v \in s.versions : v.symbol \in s.symbols /\ v.decision = s.decision

(* Exactly one decision snapshot per timestamp, however many captures run. *)
OneSnapshotPerDecision ==
  \A s, t \in snapshots : s.decision = t.decision => s = t

(* Accepted evidence always has its decision's snapshot: no interleaving   *)
(* of captures leaves a decision with capture runs but without a snapshot. *)
EvidenceHasSnapshot ==
  \A r \in runs : SnapshotOf(r.decision) # {}

(* Every call that returned for a decision returned the version stored     *)
(* for it, whichever of the racing calls stored it.                        *)
RepliesAgree ==
  \A c \in Captures :
    pc[c] = "done" => reply[c] # {} /\ reply[c] = SnapshotOf(job[c].decision)

(* The lock and the two reads under it make the inserts safe: no capture   *)
(* loses its evidence to a unique key.                                     *)
NeverConflicts == \A c \in Captures : pc[c] # "conflict"

(* Append-only: no step changes or removes a row, and none dates a stored  *)
(* version again, so that first_ingestion_time stays one per version       *)
(* however many captures and resubmissions retrieve it.                    *)
AppendOnly ==
  [][/\ runs \subseteq runs' /\ retrievals \subseteq retrievals'
     /\ versions \subseteq versions' /\ snapshots \subseteq snapshots'
     /\ \A new \in versions' \ versions : \A old \in versions : old.version # new.version]_vars

(* A decision's snapshot is the capture that brought its first evidence.   *)
Ledger == INSTANCE DecisionLedger WITH
            evidence <- [d \in Decisions |-> {r.capture : r \in {q \in runs : q.decision = d}}],
            snapshot <- [d \in Decisions |-> SnapshotOf(d)]
ImplementsLedger == Ledger!Spec

(* The inductive strengthening of the invariants above.                    *)

(* A call whose evidence is complete: it is, or has been, in the database. *)
Submitted == {"storing", "done", "dbfailed"} \union InTransaction

(* The advisory lock of a decision is held by the transactions on it only. *)
LockInv ==
  /\ \A c \in Captures : pc[c] \in InTransaction => lock[job[c].decision] = {c}
  /\ \A d \in Decisions : \A c \in lock[d] : pc[c] \in InTransaction /\ job[c].decision = d

(* What a call holds is its own, about its decision, once per field.       *)
HeldInv ==
  \A c \in Captures :
    /\ pc[c] \notin {"idle", "crashed"} => job[c] \in Job
    /\ pc[c] = "idle" => held[c] = {}
    /\ \A r \in held[c] : /\ r.capture = c
                          /\ r.version.decision = job[c].decision
                          /\ r.version.symbol \in job[c].symbols
    /\ \A q, r \in held[c] :
         q.version.symbol = r.version.symbol /\ q.version.field = r.version.field => q = r

(* Every call that passed the gates keeps the evidence that passed them.   *)
SubmittedInv ==
  \A c \in Captures : pc[c] \in Submitted =>
    /\ Collected(c)
    /\ \A r \in held[c] : r.ingestion <= job[c].decision
    /\ job[c].completed <= job[c].decision

(* Under the lock, what a transaction read is still what is stored.        *)
SeenInv ==
  \A c \in Captures : pc[c] = "writing" =>
    /\ seen[c].run <=> \E r \in runs : r.capture = c
    /\ seen[c].snapshot = SnapshotOf(job[c].decision)

(* Runs belong to submitted calls, one each, and were complete by their    *)
(* decision, and every snapshot belongs to a run.                          *)
RowsInv ==
  /\ \A r, q \in runs : r.capture = q.capture => r = q
  /\ \A r \in runs : /\ r.completed <= r.decision
                     /\ pc[r.capture] \in Submitted \union {"crashed"}
                     /\ pc[r.capture] # "crashed" => r.decision = job[r.capture].decision
  /\ \A s \in snapshots : \E r \in runs : r.capture = s.capture /\ r.decision = s.decision
  /\ \A row \in versions : row.first_ingestion <= row.version.decision

Safety == /\ SnapshotEvidenced /\ SnapshotPaired /\ OneSnapshotPerDecision
          /\ EvidenceHasSnapshot /\ RepliesAgree /\ NeverConflicts

IInv == /\ TypeOK /\ LockInv /\ HeldInv /\ SubmittedInv /\ SeenInv /\ RowsInv
        /\ Safety
=============================================================================
