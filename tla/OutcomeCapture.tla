--------------------------- MODULE OutcomeCapture ---------------------------
(***************************************************************************)
(* Prospective outcome capture: concurrent capture_outcome_iteration calls *)
(* that read the decision's snapshot, fetch the first regular minute of    *)
(* every cohort member after the open, and persist_prospective_outcomes,   *)
(* which appends outcome versions and links them to the snapshot.          *)
(*                                                                         *)
(* The four outcome tables are written by one transaction under a second   *)
(* advisory lock; every writer of them takes it and the snapshot row it    *)
(* reads never changes, so the transaction is one action.  Digests and     *)
(* time are abstracted as in PointInTimeCapture.                           *)
(***************************************************************************)
EXTENDS Integers, FiniteSets

CONSTANTS Calls,         \* calls of capture_outcome_iteration
          Symbols,       \* the frozen cohort
          Values,        \* opening prices a provider may answer with
          Decisions,     \* decision timestamps
          Mappings,      \* cohort versions of the builds in use
          OutcomeDelay,  \* from the decision to the open plus 17 minutes
          Stored,        \* snapshot rows a decision capture may store
          Horizon        \* bound on the clock

ASSUME OutcomeDelayAssumption == OutcomeDelay \in Nat \ {0}
ASSUME CohortAssumption == Symbols # {}
ASSUME ClockAssumption == Decisions \subseteq Nat /\ Horizon \in Nat
ASSUME StoredAssumption ==
  \A s \in Stored : s.decision \in Decisions /\ s.symbols \subseteq Symbols

VARIABLES now,                \* the clock every process reads
          snapshots,          \* table decision_time_snapshots
          outcomeRuns,        \* table prospective_outcome_capture_runs
          outcomeVersions,    \* table prospective_outcome_versions
          outcomeRetrievals,  \* table prospective_outcome_retrievals
          links,              \* table decision_outcome_links
          stage,              \* stage[k]: where call k stands
          task,               \* task[k]: k's decision, build and snapshot read
          fetched,            \* fetched[k]: the retrievals k has collected
          linked              \* linked[k]: the outcome_links_written k returned

outcomeTables == <<outcomeRuns, outcomeVersions, outcomeRetrievals, links>>
vars == <<now, snapshots, outcomeTables, stage, task, fetched, linked>>

Time == 0..Horizon
Ready(d) == d + OutcomeDelay

OutcomeVersion == [decision : Decisions, symbol : Symbols, value : Values]
OutcomeRetrieval == [call : Calls, version : OutcomeVersion, ingestion : Time]

Ended == {"done", "failed", "dbfailed", "crashed"}
NoTask == [decision |-> 0, mapping |-> {}, snapshot |-> {}]

OutcomeInit ==
  /\ outcomeRuns = {} /\ outcomeVersions = {} /\ outcomeRetrievals = {} /\ links = {}
  /\ stage = [k \in Calls |-> "idle"]
  /\ task = [k \in Calls |-> NoTask]
  /\ fetched = [k \in Calls |-> {}]
  /\ linked = [k \in Calls |-> 0]

Init == now = 0 /\ snapshots = {} /\ OutcomeInit

-----------------------------------------------------------------------------
(* A call for decision d by a build whose cohort version is m is refused   *)
(* until the open plus 17 minutes.                                         *)
Begin(k, d, m) ==
  /\ stage[k] = "idle"
  /\ stage' = [stage EXCEPT ![k] = IF now < Ready(d) THEN "failed" ELSE "reading"]
  /\ task' = [task EXCEPT ![k] = [decision |-> d, mapping |-> m, snapshot |-> {}]]
  /\ UNCHANGED <<now, snapshots, outcomeTables, fetched, linked>>

RowsOf(d) == {s \in snapshots : s.decision = d}

(* Mutant: a snapshot of whichever build.                                  *)
UsableByAny(k) == RowsOf(task[k].decision)

(* The call goes on only with a snapshot stored under the mapping of its   *)
(* own build.                                                              *)
Usable(k) == {s \in RowsOf(task[k].decision) : s.mapping = task[k].mapping}

(* Mutant: outcomes are fetched whether the snapshot is there or not.      *)
ReadSnapshotOrNone(k) ==
  /\ stage[k] = "reading"
  /\ stage' = [stage EXCEPT ![k] = "fetching"]
  /\ task' = [task EXCEPT ![k].snapshot = {s.capture : s \in Usable(k)}]
  /\ UNCHANGED <<now, snapshots, outcomeTables, fetched, linked>>

(* The snapshot read, in a transaction of its own.                         *)
ReadSnapshot(k) ==
  /\ stage[k] = "reading"
  /\ stage' = [stage EXCEPT ![k] = IF Usable(k) = {} THEN "failed" ELSE "fetching"]
  /\ task' = [task EXCEPT ![k].snapshot = {s.capture : s \in Usable(k)}]
  /\ UNCHANGED <<now, snapshots, outcomeTables, fetched, linked>>

FetchedSymbols(k) == {r.version.symbol : r \in fetched[k]}

(* Mutant: what there is is persisted.                                     *)
CompleteInPart(k) == fetched[k] # {}

Complete(k) == FetchedSymbols(k) = Symbols

(* The exact first regular minute of one more cohort member: of the whole  *)
(* cohort, whatever the snapshot captured.                                 *)
Fetch(k, s, v) ==
  /\ stage[k] = "fetching"
  /\ s \notin FetchedSymbols(k)
  /\ fetched' = [fetched EXCEPT ![k] = @ \union
       {[call |-> k, ingestion |-> now,
         version |-> [decision |-> task[k].decision, symbol |-> s, value |-> v]]}]
  /\ UNCHANGED <<now, snapshots, outcomeTables, stage, task, linked>>

(* OutcomeProviderFailure: any error aborts the call, which reports how    *)
(* many members it had.                                                    *)
ProviderFails(k) ==
  /\ stage[k] = "fetching"
  /\ ~Complete(k)
  /\ stage' = [stage EXCEPT ![k] = "failed"]
  /\ UNCHANGED <<now, snapshots, outcomeTables, task, fetched, linked>>

-----------------------------------------------------------------------------
(* persist_prospective_outcomes *)

(* Mutant: the coverage check is dropped.                                  *)
CoveredUnchecked(k) == RowsOf(task[k].decision) # {}

(* Every outcome symbol must be one the stored snapshot captured.          *)
Covered(k) == \E s \in RowsOf(task[k].decision) :
                s.capture \in task[k].snapshot /\ FetchedSymbols(k) \subseteq s.symbols

SameCapture(k) == \E r \in outcomeRuns : r.call = k

(* Mutant: no second link for a symbol that has one.                       *)
LinksOfUnlinked(k) ==
  {[snapshot |-> x, version |-> r.version] :
     x \in task[k].snapshot,
     r \in {q \in fetched[k] : \A l \in links : l.version.symbol # q.version.symbol}}

LinksOf(k) == {[snapshot |-> x, version |-> r.version] : x \in task[k].snapshot, r \in fetched[k]}

Fetched(k) == {r.version : r \in fetched[k]}

(* One transaction: versions and links already stored stay as they are, a  *)
(* revised open appends a version and a link, the retrievals always append.*)
Persist(k, acked) ==
  /\ stage[k] = "fetching"
  /\ Complete(k)
  /\ IF Covered(k) /\ ~SameCapture(k)
     THEN /\ outcomeRuns' = outcomeRuns \union
               {[call |-> k, decision |-> task[k].decision, mapping |-> task[k].mapping,
                 snapshot |-> task[k].snapshot]}
          /\ outcomeVersions' = outcomeVersions \union Fetched(k)
          /\ outcomeRetrievals' = outcomeRetrievals \union fetched[k]
          /\ links' = links \union LinksOf(k)
     ELSE UNCHANGED outcomeTables
  /\ stage' = [stage EXCEPT ![k] = IF ~Covered(k) THEN "failed"
                                   ELSE IF acked THEN "done" ELSE "dbfailed"]
  /\ linked' = [linked EXCEPT ![k] =
                  IF acked THEN Cardinality(links' \ links) ELSE 0]
  /\ UNCHANGED <<now, snapshots, task, fetched>>

(* No connection, or an error inside the transaction, which rolls back.    *)
DatabaseFails(k) ==
  /\ \/ stage[k] = "reading"
     \/ stage[k] = "fetching" /\ Complete(k)
  /\ stage' = [stage EXCEPT ![k] = "dbfailed"]
  /\ UNCHANGED <<now, snapshots, outcomeTables, task, fetched, linked>>

(* A caller persists the same retrievals again.                            *)
Resubmit(k) ==
  /\ stage[k] \in {"done", "dbfailed"}
  /\ Complete(k)
  /\ stage' = [stage EXCEPT ![k] = "fetching"]
  /\ linked' = [linked EXCEPT ![k] = 0]
  /\ UNCHANGED <<now, snapshots, outcomeTables, task, fetched>>

Crash(k) ==
  /\ stage[k] \in {"reading", "fetching"}
  /\ stage' = [stage EXCEPT ![k] = "crashed"]
  /\ task' = [task EXCEPT ![k] = NoTask]
  /\ fetched' = [fetched EXCEPT ![k] = {}]
  /\ UNCHANGED <<now, snapshots, outcomeTables, linked>>

(* What a call does unless something fails.                                *)
Progress(k) ==
  \/ ReadSnapshot(k)
  \/ \E s \in Symbols, v \in Values : Fetch(k, s, v)
  \/ \E acked \in BOOLEAN : Persist(k, acked)

Work(k) == Progress(k) \/ ProviderFails(k) \/ DatabaseFails(k)

(* A decision capture stores the snapshot of its decision, if neither of   *)
(* the table's keys is taken: PointInTimeCapture says when it may.         *)
StoreSnapshot(row) ==
  /\ RowsOf(row.decision) = {}
  /\ \A s \in snapshots : s.capture # row.capture
  /\ snapshots' = snapshots \union {row}
  /\ UNCHANGED <<now, outcomeTables, stage, task, fetched, linked>>

Tick == /\ now < Horizon
        /\ now' = now + 1
        /\ UNCHANGED <<snapshots, outcomeTables, stage, task, fetched, linked>>

Next ==
  \/ Tick
  \/ \E row \in Stored : StoreSnapshot(row)
  \/ \E k \in Calls :
       \/ \E d \in Decisions, m \in Mappings : Begin(k, d, m)
       \/ Work(k)
       \/ Resubmit(k)
       \/ Crash(k)

Spec == Init /\ [][Next]_vars

-----------------------------------------------------------------------------
(* Properties                                                              *)

(* Every variable keeps its type.                                          *)
TypeOK ==
  /\ now \in Time
  /\ outcomeVersions \subseteq OutcomeVersion
  /\ outcomeRetrievals \subseteq OutcomeRetrieval
  /\ \A l \in links : l.version \in OutcomeVersion
  /\ \A r \in outcomeRuns : r.call \in Calls /\ r.decision \in Decisions /\ r.mapping \in Mappings
  /\ stage \in [Calls -> {"idle", "reading", "fetching"} \union Ended]
  /\ task \in [Calls -> [decision : Nat, mapping : Mappings \union {{}},
                          snapshot : SUBSET {s.capture : s \in Stored}]]
  /\ fetched \in [Calls -> SUBSET OutcomeRetrieval]
  /\ linked \in [Calls -> Nat]

LinkedSymbols(s) == {l.version.symbol : l \in {x \in links : x.snapshot = s.capture}}

(* A snapshot's outcomes are linked for the whole cohort or for nothing,   *)
(* whatever fails in between and however many calls race.                  *)
LinkedAllOrNothing == \A s \in snapshots : LinkedSymbols(s) \in {{}, Symbols}

(* A link joins a stored snapshot to an outcome of its own decision, for a *)
(* symbol the snapshot captured, that a call holding that snapshot         *)
(* retrieved once it was safely available.                                 *)
LinksGrounded ==
  \A l \in links : \E s \in snapshots :
    /\ s.capture = l.snapshot
    /\ s.decision = l.version.decision
    /\ l.version.symbol \in s.symbols
    /\ \E r \in outcomeRetrievals :
         /\ r.version = l.version
         /\ r.ingestion >= Ready(s.decision)
         /\ \E run \in outcomeRuns : run.call = r.call /\ s.capture \in run.snapshot

(* No call has seen an outcome before the snapshot of its decision was     *)
(* stored: outcomes cannot have influenced what the snapshot holds.        *)
SnapshotFirst ==
  \A k \in Calls : fetched[k] # {} =>
    \E s \in RowsOf(task[k].decision) : s.capture \in task[k].snapshot

(* Revisions append: every outcome version ever persisted for a snapshot   *)
(* stays linked to it, next to those it revises.                           *)
RevisionsLinked ==
  \A r \in outcomeRetrievals : \E run \in outcomeRuns :
    /\ run.call = r.call
    /\ \A x \in run.snapshot : [snapshot |-> x, version |-> r.version] \in links

(* Outcomes are linked only by a build of the snapshot's own mapping, so   *)
(* that a symbol means the same instrument on both sides of a link.        *)
SameMapping ==
  \A run \in outcomeRuns : \A s \in snapshots :
    s.capture \in run.snapshot => s.mapping = run.mapping

(* What the proofs rest on.  A decision has one snapshot row, and so has a *)
(* snapshot version.                                                       *)
OneRow == \A s, q \in snapshots :
            s.decision = q.decision \/ s.capture = q.capture => s = q

(* A call that has read the snapshot holds its row's, under its own        *)
(* mapping, from the time at which outcomes are available.                 *)
Holds(k, s) == /\ s.decision = task[k].decision
               /\ s.mapping = task[k].mapping
               /\ task[k].snapshot = {s.capture}

CallOK(k) ==
  /\ stage[k] \in {"idle", "reading"} => fetched[k] = {}
  /\ stage[k] \in {"reading", "fetching", "done", "dbfailed"} =>
       task[k].decision \in Decisions /\ task[k].mapping \in Mappings
  /\ stage[k] \in {"reading", "fetching"} => now >= Ready(task[k].decision)
  /\ stage[k] = "fetching" \/ fetched[k] # {} => \E s \in snapshots : Holds(k, s)
  /\ IsFiniteSet(fetched[k])
  /\ \A r \in fetched[k] : /\ r.call = k
                           /\ r.version.decision = task[k].decision
                           /\ r.ingestion >= Ready(task[k].decision)
                           /\ now >= r.ingestion

CallInv == \A k \in Calls : CallOK(k)

(* A run linked every symbol of the cohort, and every retrieval of its     *)
(* call, to the one snapshot it names, which captured them all.            *)
RunInv ==
  \A run \in outcomeRuns :
    /\ \E s \in snapshots : /\ s.decision = run.decision
                            /\ s.mapping = run.mapping
                            /\ run.snapshot = {s.capture}
                            /\ Symbols \subseteq s.symbols
    /\ \A x \in Symbols : \E l \in links : l.snapshot \in run.snapshot /\ l.version.symbol = x

(* A run's call persisted a whole cohort and still holds it, unless it has *)
(* died; a call that returned has its run.                                 *)
PersistedInv ==
  /\ \A run \in outcomeRuns :
       /\ stage[run.call] \in {"fetching", "done", "dbfailed", "crashed"}
       /\ stage[run.call] # "crashed" => /\ run.decision = task[run.call].decision
                                        /\ Complete(run.call)
  /\ \A k \in Calls : stage[k] = "done" => SameCapture(k)

(* A retrieval is of a run's call and decision, from after it was          *)
(* available, and linked to the run's snapshot.                            *)
RetrievalInv ==
  \A r \in outcomeRetrievals : \E run \in outcomeRuns :
    /\ run.call = r.call
    /\ r.version.decision = run.decision
    /\ r.ingestion >= Ready(run.decision)
    /\ \A x \in run.snapshot : [snapshot |-> x, version |-> r.version] \in links

(* A link is a run's snapshot with one of the versions its call retrieved. *)
LinkInv ==
  \A l \in links : \E r \in outcomeRetrievals, run \in outcomeRuns :
    /\ l = [snapshot |-> l.snapshot, version |-> r.version]
    /\ run.call = r.call
    /\ run.snapshot = {l.snapshot}
    /\ r.version.decision = run.decision
    /\ r.ingestion >= Ready(run.decision)

KnownRows == snapshots \subseteq Stored

(* The inductive invariant: types, the snapshot table's keys, what a call  *)
(* holds, and what the rows of the outcome tables stand for.               *)
IInv == /\ TypeOK /\ KnownRows /\ OneRow /\ CallInv
        /\ RunInv /\ RetrievalInv /\ LinkInv /\ PersistedInv
=============================================================================
