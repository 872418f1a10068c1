---------------------------- MODULE IngestionRun ----------------------------
(***************************************************************************)
(* Persistence attempts: concurrent calls of ingest_candle_observations,   *)
(* ingest_reference_bundle and persist_native_history.  Each commits a     *)
(* RUNNING run first, writes raw and normalized rows with the SUCCEEDED    *)
(* status in a second transaction, and on any error finalizes the run as   *)
(* FAILED in a third.                                                      *)
(*                                                                         *)
(* Raw rows belong to their run.  Normalized rows are inserted one by one  *)
(* with ON CONFLICT DO NOTHING: PostgreSQL makes an insert wait for the    *)
(* open transaction that has inserted the same identity, and aborts one of *)
(* the transactions that wait for each other.  A normalized row names the  *)
(* call whose ingestion time it carries.                                   *)
(***************************************************************************)
EXTENDS Integers, FiniteSets, Sequences

CONSTANTS Calls,       \* calls of the three functions
          Kinds,       \* which of "candles", "native", "reference" are called
          Keys,        \* event times of candles, natural keys of reference records
          Values,      \* what a provider may say about a key
          MaxRecords   \* bound on the records of one call

ASSUME KeysAssumption == Keys \subseteq Nat
ASSUME KindsAssumption == Kinds \subseteq {"candles", "native", "reference"}
ASSUME MaxRecordsAssumption == MaxRecords \in Nat

VARIABLES ingestionRuns, \* table ingestion_runs, one row per call
          raw,           \* the raw tables
          normalized,    \* the normalized tables
          pc,            \* pc[c]: where call c stands
          job,           \* job[c]: the kind of c and its records in order
          next,          \* next[c]: the record c inserts next
          open           \* open[c]: normalized rows inserted and not committed

tables == <<ingestionRuns, raw, normalized>>
vars == <<tables, pc, job, next, open>>

Record == [key : Keys, value : Values]
Row == [kind : Kinds, record : Record, by : Calls]
NoRun == [status |-> "NONE", received |-> 0, written |-> 0]
NoJob == [kind |-> "candles", records |-> <<>>]
Ended == {"done", "failed", "crashed"}

(* The order in which the rows reach the database.  A history is sorted    *)
(* and without duplicates when it arrives: evaluate_candle_quality sorts   *)
(* it, persist_native_history refuses another.  Reference records keep the *)
(* provider's order.                                                       *)
Ascending(s) == \A i, j \in DOMAIN s : i < j => s[i].key < s[j].key

(* Mutant: histories in the provider's order.                              *)
InputsUnsorted(kind) ==
  {s \in UNION {[1..n -> Record] : n \in 0..MaxRecords} : kind # "native" => s # <<>>}

(* A native history may be empty, its pages are not.                       *)
Inputs(kind) ==
  {s \in UNION {[1..n -> Record] : n \in 0..MaxRecords} :
     /\ kind # "reference" => Ascending(s)
     /\ kind # "native" => s # <<>>}

(* Mutant: native and reference rows known by their key alone.             *)
IdentityOfKey(kind, r) == [kind |-> kind, key |-> r.key, value |-> {}]

(* The unique constraints: a candle is its key; a native candle and a      *)
(* reference record are known by the digest of their content too.          *)
Identity(kind, r) == [kind |-> kind, key |-> r.key,
                      value |-> IF kind = "candles" THEN {} ELSE {r.value}]
IdentityOf(row) == Identity(row.kind, row.record)

Init ==
  /\ ingestionRuns = [c \in Calls |-> NoRun]
  /\ raw = {} /\ normalized = {}
  /\ pc = [c \in Calls |-> "idle"]
  /\ job = [c \in Calls |-> NoJob]
  /\ next = [c \in Calls |-> 1]
  /\ open = [c \in Calls |-> {}]

-----------------------------------------------------------------------------
(* _create_run: a transaction of its own.  Without acknowledgement the     *)
(* exception leaves the function, whether the row was committed or not.    *)
Create(c, kind, s) ==
  /\ pc[c] = "idle"
  /\ job' = [job EXCEPT ![c] = [kind |-> kind, records |-> s]]
  /\ ingestionRuns' = [ingestionRuns EXCEPT ![c] =
       [status |-> "RUNNING", received |-> IF kind = "native" THEN Len(s) ELSE 0,
        written |-> 0]]
  /\ \E acked \in BOOLEAN : pc' = [pc EXCEPT ![c] = IF acked THEN "writing" ELSE "failed"]
  /\ UNCHANGED <<raw, normalized, next, open>>

CreateFails(c) ==
  /\ pc[c] = "idle"
  /\ pc' = [pc EXCEPT ![c] = "failed"]
  /\ UNCHANGED <<tables, job, next, open>>

-----------------------------------------------------------------------------
(* The writing transaction.                                                *)

Inserting(c) == pc[c] = "writing" /\ next[c] <= Len(job[c].records)
NextIdentity(c) == Identity(job[c].kind, job[c].records[next[c]])

(* c waits for d, whose open transaction holds the identity c inserts.     *)
WaitsFor(c, d) ==
  /\ c # d
  /\ Inserting(c)
  /\ \E row \in open[d] : IdentityOf(row) = NextIdentity(c)

Free(c) == \A d \in Calls : ~WaitsFor(c, d)

(* Mutant: a look at the table before the insert instead of the unique key.*)
InsertUnguarded(c) ==
  /\ Inserting(c)
  /\ open' = [open EXCEPT ![c] =
       IF \E row \in normalized \union open[c] : IdentityOf(row) = NextIdentity(c) THEN @
       ELSE @ \union {[kind |-> job[c].kind, record |-> job[c].records[next[c]], by |-> c]}]
  /\ next' = [next EXCEPT ![c] = @ + 1]
  /\ UNCHANGED <<tables, pc, job>>

(* INSERT ... ON CONFLICT DO NOTHING of the next record.                   *)
Insert(c) ==
  /\ Inserting(c)
  /\ Free(c)
  /\ open' = [open EXCEPT ![c] =
       IF \E row \in normalized \union open[c] : IdentityOf(row) = NextIdentity(c) THEN @
       ELSE @ \union {[kind |-> job[c].kind, record |-> job[c].records[next[c]], by |-> c]}]
  /\ next' = [next EXCEPT ![c] = @ + 1]
  /\ UNCHANGED <<tables, pc, job>>

RawOf(c) == {[call |-> c, record |-> job[c].records[i]] : i \in DOMAIN job[c].records}

Succeeded(c) == [status |-> "SUCCEEDED", received |-> Len(job[c].records),
                 written |-> Cardinality(open[c])]

(* Mutant: ON CONFLICT DO UPDATE.                                          *)
PublishedUpserting(c) ==
  {row \in normalized : \A r \in DOMAIN job[c].records :
      IdentityOf(row) # Identity(job[c].kind, job[c].records[r])}
    \union {[kind |-> job[c].kind, record |-> job[c].records[i], by |-> c] :
              i \in DOMAIN job[c].records}

Published(c) == normalized \union open[c]

(* The commit; with ~acked it takes effect and the caller sees an error.   *)
Commit(c, acked) ==
  /\ pc[c] = "writing"
  /\ ~Inserting(c)
  /\ raw' = raw \union RawOf(c)
  /\ normalized' = Published(c)
  /\ ingestionRuns' = [ingestionRuns EXCEPT ![c] = Succeeded(c)]
  /\ open' = [open EXCEPT ![c] = {}]
  /\ pc' = [pc EXCEPT ![c] = IF acked THEN "done" ELSE "failing"]
  /\ UNCHANGED <<job, next>>

(* Mutant: the connection stays open in its transaction.                   *)
RollbackMissing(c) ==
  /\ pc' = [pc EXCEPT ![c] = "failing"]
  /\ UNCHANGED <<tables, job, next, open>>

Rollback(c) ==
  /\ open' = [open EXCEPT ![c] = {}]
  /\ pc' = [pc EXCEPT ![c] = "failing"]
  /\ UNCHANGED <<tables, job, next>>

(* The connection is lost, a CHECK fails, the transaction is cancelled.    *)
DatabaseFails(c) == pc[c] = "writing" /\ Rollback(c)

(* c is one of a ring of calls that wait for each other.                   *)
InRing(c) == \E D \in SUBSET Calls :
  /\ c \in D
  /\ \A x \in D : \E y \in D : WaitsFor(x, y)
  /\ \A y \in D : \E x \in D : WaitsFor(x, y)

(* PostgreSQL's deadlock detector.                                         *)
DeadlockAborts(c) == pc[c] = "writing" /\ InRing(c) /\ Rollback(c)

(* The handler: _finalize_failed zeroes the count, the native one does not *)
(* touch it; both overwrite whatever status the run has.                   *)
Finalize(c) ==
  /\ pc[c] = "failing"
  /\ ingestionRuns' = [ingestionRuns EXCEPT ![c] =
       [status |-> "FAILED",
        received |-> Len(job[c].records),
        written |-> IF job[c].kind = "native" THEN @.written ELSE 0]]
  /\ pc' = [pc EXCEPT ![c] = "failed"]
  /\ UNCHANGED <<raw, normalized, job, next, open>>

FinalizeFails(c) ==
  /\ pc[c] = "failing"
  /\ pc' = [pc EXCEPT ![c] = "failed"]
  /\ UNCHANGED <<tables, job, next, open>>

(* The process dies; PostgreSQL rolls the open transaction back.           *)
Crash(c) ==
  /\ pc[c] \in {"writing", "failing"}
  /\ open' = [open EXCEPT ![c] = {}]
  /\ pc' = [pc EXCEPT ![c] = "crashed"]
  /\ UNCHANGED <<tables, job, next>>

Progress(c) == Insert(c) \/ (\E acked \in BOOLEAN : Commit(c, acked)) \/ Finalize(c)

Next == \E c \in Calls :
  \/ \E kind \in Kinds : \E s \in Inputs(kind) : Create(c, kind, s)
  \/ CreateFails(c)
  \/ Progress(c)
  \/ DatabaseFails(c) \/ DeadlockAborts(c)
  \/ FinalizeFails(c)
  \/ Crash(c)

Spec == Init /\ [][Next]_vars

(* A statement that does not wait runs to its end, and the detector runs   *)
(* in every transaction that waits for longer than deadlock_timeout.       *)
Fairness == \A c \in Calls : WF_vars(Progress(c)) /\ WF_vars(DeadlockAborts(c))

FairSpec == Spec /\ Fairness

-----------------------------------------------------------------------------
(* Properties                                                              *)

(* Every variable keeps its type.                                          *)
TypeOK ==
  /\ ingestionRuns \in [Calls -> [status : {"NONE", "RUNNING", "SUCCEEDED", "FAILED"},
                                  received : Nat, written : Nat]]
  /\ raw \subseteq [call : Calls, record : Record]
  /\ normalized \subseteq Row
  /\ pc \in [Calls -> {"idle", "writing", "failing"} \union Ended]
  /\ job \in [Calls -> [kind : {"candles", "native", "reference"}, records : Seq(Record)]]
  /\ next \in [Calls -> Nat \ {0}]
  /\ open \in [Calls -> SUBSET Row]

(* Whatever races, an identity has one normalized row.                     *)
OneRowPerIdentity ==
  \A r, q \in normalized : IdentityOf(r) = IdentityOf(q) => r = q

RowsBy(c) == {row \in normalized : row.by = c}

(* A SUCCEEDED run means what it says: its raw evidence is stored, every   *)
(* record has a normalized row, and it counts the rows it brought.         *)
SucceededHolds ==
  \A c \in Calls : ingestionRuns[c].status = "SUCCEEDED" =>
    /\ RawOf(c) \subseteq raw
    /\ \A i \in DOMAIN job[c].records : \E row \in normalized :
         IdentityOf(row) = Identity(job[c].kind, job[c].records[i])
    /\ ingestionRuns[c].written = Cardinality(RowsBy(c))

(* A run left RUNNING by a death or a failed handler has stored nothing.   *)
RunningHoldsNothing ==
  \A c \in Calls : ingestionRuns[c].status \in {"NONE", "RUNNING"} =>
    RowsBy(c) = {} /\ \A r \in raw : r.call # c

(* A revision is never lost: the value a SUCCEEDED run was given is a      *)
(* normalized row of its own, or, for a candle, its raw evidence.          *)
RevisionsKept ==
  \A c \in Calls : ingestionRuns[c].status = "SUCCEEDED" =>
    \A i \in DOMAIN job[c].records :
      IF job[c].kind = "candles" THEN [call |-> c, record |-> job[c].records[i]] \in raw
      ELSE \E row \in normalized : row.kind = job[c].kind /\ row.record = job[c].records[i]

(* No step removes or changes a raw or a normalized row: a later run never *)
(* overwrites the first value of a candle.                                 *)
RowsKept == [][raw \subseteq raw' /\ normalized \subseteq normalized']_vars

(* Two ingestions of sorted histories never deadlock, whatever they share. *)
HistoriesNeverDeadlock == \A c \in Calls : InRing(c) => job[c].kind = "reference"

(* The inductive strengthening of the invariants above.                    *)

NotStored == {"NONE", "RUNNING"}

(* A call that has not committed has no finished run; one that writes has  *)
(* an input of its kind.                                                   *)
JobInv ==
  \A c \in Calls :
    /\ pc[c] = "idle" => next[c] = 1
    /\ pc[c] \in {"idle", "writing"} => ingestionRuns[c].status \in NotStored
    /\ pc[c] = "writing" => job[c].kind \in Kinds /\ next[c] <= Len(job[c].records) + 1
    /\ job[c].kind # "reference" => Ascending(job[c].records)

(* The rows of an open transaction are the call's own, from what it has    *)
(* inserted so far.                                                        *)
OpenRow(c, row) ==
  /\ pc[c] = "writing" /\ row.by = c /\ row.kind = job[c].kind
  /\ \E i \in DOMAIN job[c].records : i < next[c] /\ row.record = job[c].records[i]

OpenInv ==
  \A c \in Calls : IsFiniteSet(open[c]) /\ \A row \in open[c] : OpenRow(c, row)

(* Stored and uncommitted rows together have one row per identity.         *)
UniqueInv ==
  /\ \A r, q \in normalized : IdentityOf(r) = IdentityOf(q) => r = q
  /\ \A c \in Calls : \A r \in open[c] :
       /\ \A q \in normalized : IdentityOf(r) # IdentityOf(q)
       /\ \A d \in Calls : \A q \in open[d] : IdentityOf(r) = IdentityOf(q) => r = q

(* What a transaction has gone past is stored, or will be by its commit.   *)
CoveredInv ==
  \A c \in Calls : pc[c] = "writing" =>
    \A i \in DOMAIN job[c].records : i < next[c] =>
      \E row \in normalized \union open[c] :
        IdentityOf(row) = Identity(job[c].kind, job[c].records[i])

(* Stored rows belong to calls whose run was finished with them.           *)
StoredInv ==
  /\ \A row \in normalized : /\ pc[row.by] \notin {"idle", "writing"}
                              /\ ingestionRuns[row.by].status \notin NotStored
  /\ \A r \in raw : /\ pc[r.call] \notin {"idle", "writing"}
                     /\ ingestionRuns[r.call].status \notin NotStored

IInv == /\ TypeOK /\ JobInv /\ OpenInv /\ UniqueInv /\ CoveredInv /\ StoredInv
        /\ SucceededHolds

(* A call that has created its run ends, behind whatever other             *)
(* transactions it has to wait.                                            *)
CallEnds == \A c \in Calls : pc[c] = "writing" ~> pc[c] \in Ended

(* ADR-008 (DECISIONS.md): a failed write rolls back both data tables      *)
(* before the run is marked failed.                                        *)
FailedHoldsNothing ==
  \A c \in Calls : ingestionRuns[c].status = "FAILED" => RowsBy(c) = {}
=============================================================================
