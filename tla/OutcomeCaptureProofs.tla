------------------------- MODULE OutcomeCaptureProofs -------------------------
(* The outcome capture for every number of calls, symbols, prices, decisions   *)
(* and builds.  Its properties speak of the tables; what makes them hold is    *)
(* what a call holds when it persists (CallInv) and that its transaction       *)
(* writes the run, the versions, the retrievals and the links together.        *)
EXTENDS OutcomeCapture, FiniteSetTheorems, TLAPS

LEMMA ReadyIsInt == ASSUME NEW d \in Nat PROVE Ready(d) \in Int
  BY OutcomeDelayAssumption DEF Ready

(* The image of what a call has fetched is finite.                             *)
LEMMA LinksFinite ==
  ASSUME NEW k \in Calls, IsFiniteSet(fetched[k]), NEW c, task[k].snapshot = {c}
  PROVE  IsFiniteSet(LinksOf(k))
<1> DEFINE f == [r \in fetched[k] |-> [snapshot |-> c, version |-> r.version]]
<1>1. f \in Surjection(fetched[k], LinksOf(k))
  <2>1. \A r \in fetched[k] : f[r] \in LinksOf(k)
    BY DEF LinksOf
  <2>2. ASSUME NEW l \in LinksOf(k) PROVE \E r \in fetched[k] : f[r] = l
    <3>1. PICK x \in task[k].snapshot, r \in fetched[k] : l = [snapshot |-> x, version |-> r.version]
      BY DEF LinksOf
    <3> QED BY <3>1
  <2> QED BY <2>1, <2>2 DEF Surjection
<1> QED BY <1>1, FS_Surjection

(***************************************************************************)
(* The initial states.                                                     *)
(***************************************************************************)
LEMMA InitInductive == Init => IInv
<1> SUFFICES ASSUME Init PROVE IInv OBVIOUS
<1> USE DEF Init, OutcomeInit
<1>1. TypeOK
  BY ClockAssumption DEF TypeOK, Time, NoTask, Ended
<1>2. CallInv
  BY FS_EmptySet DEF CallInv, CallOK
<1> QED BY <1>1, <1>2 DEF IInv, KnownRows, OneRow, RunInv, RetrievalInv, LinkInv, PersistedInv

(***************************************************************************)
(* What a call of one's own does: only its own task and fetches change.    *)
(***************************************************************************)
Own(k) == /\ UNCHANGED <<now, snapshots>>
          /\ \A j \in Calls \ {k} : /\ stage'[j] = stage[j]
                                    /\ task'[j] = task[j]
                                    /\ fetched'[j] = fetched[j]

LEMMA OthersKept ==
  ASSUME NEW k \in Calls, CallInv, Own(k), CallOK(k)'
  PROVE  CallInv'
<1>1. ASSUME NEW j \in Calls, j # k PROVE CallOK(j)'
  <2>1. CallOK(j)
    BY DEF CallInv
  <2> QED BY <1>1, <2>1 DEF Own, CallOK, Holds
<1> QED BY <1>1 DEF CallInv

(* Tables that stay as they are keep their invariants while snapshots grow.    *)
LEMMA TablesKept ==
  ASSUME RunInv, RetrievalInv, LinkInv, UNCHANGED outcomeTables, snapshots \subseteq snapshots'
  PROVE  RunInv' /\ RetrievalInv' /\ LinkInv'
<1> USE DEF outcomeTables
<1>1. RunInv'
  BY DEF RunInv
<1>2. RetrievalInv'
  BY DEF RetrievalInv
<1>3. LinkInv'
  BY DEF LinkInv
<1> QED BY <1>1, <1>2, <1>3

(* A call that has persisted stays so: no step but its death ends it otherwise, *)
(* and none returns without a run.                                              *)
LEMMA PersistedKept ==
  ASSUME IInv, NEW k \in Calls, Own(k), outcomeRuns' = outcomeRuns,
         SameCapture(k) =>
           \/ stage'[k] = "crashed"
           \/ /\ stage[k] # "crashed"
              /\ stage'[k] \in {"fetching", "done", "dbfailed"}
              /\ task'[k].decision = task[k].decision
              /\ fetched'[k] = fetched[k],
         stage'[k] = "done" => SameCapture(k)
  PROVE  PersistedInv'
<1>1. ASSUME NEW run \in outcomeRuns
      PROVE  /\ stage'[run.call] \in {"fetching", "done", "dbfailed", "crashed"}
             /\ stage'[run.call] # "crashed" => /\ run.decision = task'[run.call].decision
                                               /\ Complete(run.call)'
  <2>1. /\ run.call \in Calls
        /\ stage[run.call] \in {"fetching", "done", "dbfailed", "crashed"}
        /\ stage[run.call] # "crashed" => /\ run.decision = task[run.call].decision
                                         /\ Complete(run.call)
    BY DEF IInv, TypeOK, PersistedInv
  <2>2. CASE run.call = k
    BY <2>1, <2>2 DEF SameCapture, Complete, FetchedSymbols
  <2>3. CASE run.call # k
    BY <2>1, <2>3 DEF Own, Complete, FetchedSymbols
  <2> QED BY <2>2, <2>3
<1>2. ASSUME NEW j \in Calls, stage'[j] = "done" PROVE SameCapture(j)'
  <2>1. CASE j = k
    BY <1>2, <2>1 DEF SameCapture
  <2>2. CASE j # k
    BY <1>2, <2>2 DEF IInv, PersistedInv, Own, SameCapture
  <2> QED BY <2>1, <2>2
<1> QED BY <1>1, <1>2 DEF PersistedInv

(* A call that has not begun, reads or has failed has no run.                   *)
LEMMA NotPersisted ==
  ASSUME IInv, NEW k \in Calls, stage[k] \in {"idle", "reading", "failed"} \/ ~Complete(k),
         stage[k] # "crashed"
  PROVE  ~SameCapture(k)
  BY DEF IInv, PersistedInv, SameCapture

(***************************************************************************)
(* The steps of the clock and of a decision capture.                       *)
(***************************************************************************)
LEMMA TickKeeps == ASSUME IInv, Tick PROVE IInv'
<1> USE DEF IInv, Tick
<1>1. TypeOK'
  BY ClockAssumption DEF TypeOK, Time, outcomeTables
<1>2. CallInv'
  <2>1. ASSUME NEW k \in Calls PROVE CallOK(k)'
    <3>1. CallOK(k) /\ now \in Int /\ now' = now + 1 /\ fetched[k] \subseteq OutcomeRetrieval
          /\ task[k].decision \in Nat
      BY DEF CallInv, TypeOK, Time
    <3>2. Ready(task[k].decision) \in Int
      BY <3>1, ReadyIsInt
    <3>3. \A r \in fetched[k] : r.ingestion \in Int
      BY <3>1 DEF OutcomeRetrieval, Time
    <3> QED BY <3>1, <3>2, <3>3 DEF CallOK, Holds
  <2> QED BY <2>1 DEF CallInv
<1>3. KnownRows' /\ OneRow'
  BY DEF KnownRows, OneRow
<1>4. PersistedInv'
  BY DEF PersistedInv, Complete, FetchedSymbols, SameCapture, outcomeTables
<1> QED BY <1>1, <1>2, <1>3, <1>4, TablesKept

(* The snapshot table may grow while the outcomes stand still.                 *)
LEMMA SnapshotsGrow ==
  ASSUME IInv, snapshots \subseteq snapshots', KnownRows', OneRow',
         UNCHANGED <<now, outcomeTables, stage, task, fetched, linked>>
  PROVE  IInv'
<1> USE DEF IInv
<1>1. TypeOK'
  BY DEF TypeOK, outcomeTables
<1>2. CallInv'
  BY DEF CallInv, CallOK, Holds
<1>3. PersistedInv'
  BY DEF PersistedInv, Complete, FetchedSymbols, SameCapture, outcomeTables
<1> QED BY <1>1, <1>2, <1>3, TablesKept

LEMMA StoreSnapshotKeeps ==
  ASSUME IInv, NEW row \in Stored, StoreSnapshot(row)
  PROVE  IInv'
<1>1. KnownRows' /\ OneRow'
  BY DEF IInv, StoreSnapshot, KnownRows, OneRow, RowsOf
<1> QED BY <1>1, SnapshotsGrow DEF StoreSnapshot

(***************************************************************************)
(* The steps of a call before it persists.                                 *)
(***************************************************************************)
LEMMA BeginKeeps ==
  ASSUME IInv, NEW k \in Calls, NEW d \in Decisions, NEW m \in Mappings, Begin(k, d, m)
  PROVE  IInv'
<1> USE DEF IInv, Begin
<1>1. TypeOK'
  BY ClockAssumption DEF TypeOK, outcomeTables, Ended
<1>2. now \in Int /\ Ready(d) \in Int
  BY ClockAssumption, ReadyIsInt DEF TypeOK, Time
<1>3. /\ fetched'[k] = {} /\ now' = now
      /\ task'[k].decision = d /\ task'[k].mapping = m
      /\ stage'[k] = IF now < Ready(d) THEN "failed" ELSE "reading"
  BY DEF TypeOK, CallInv, CallOK
<1>4. CallOK(k)'
  BY <1>2, <1>3, FS_EmptySet DEF CallOK
<1>5. Own(k)
  BY DEF TypeOK, Own
<1>6. KnownRows' /\ OneRow'
  BY DEF KnownRows, OneRow
<1>7. PersistedInv'
  BY <1>3, <1>5, NotPersisted, PersistedKept DEF outcomeTables
<1> QED BY <1>1, <1>4, <1>5, <1>6, <1>7, OthersKept, TablesKept

LEMMA ReadSnapshotKeeps ==
  ASSUME IInv, NEW k \in Calls, ReadSnapshot(k)
  PROVE  IInv'
<1> USE DEF IInv, ReadSnapshot
<1>1. TypeOK'
  <2>1. {s.capture : s \in Usable(k)} \in SUBSET {s.capture : s \in Stored}
    BY DEF Usable, RowsOf, KnownRows
  <2>2. task' \in [Calls -> [decision : Nat, mapping : Mappings \union {{}},
                             snapshot : SUBSET {s.capture : s \in Stored}]]
    BY <2>1 DEF TypeOK
  <2> QED BY <2>2 DEF TypeOK, outcomeTables, Ended
<1>2. /\ fetched'[k] = {} /\ now' = now /\ now >= Ready(task[k].decision)
      /\ task'[k].decision = task[k].decision /\ task'[k].mapping = task[k].mapping
      /\ task[k].decision \in Decisions /\ task[k].mapping \in Mappings
      /\ task'[k].snapshot = {s.capture : s \in Usable(k)}
      /\ stage'[k] = IF Usable(k) = {} THEN "failed" ELSE "fetching"
  BY DEF TypeOK, CallInv, CallOK
<1>3. ASSUME Usable(k) # {} PROVE \E s \in snapshots' : Holds(k, s)'
  <2>1. PICK s \in Usable(k) : TRUE
    BY <1>3
  <2>2. Usable(k) = {s}
    BY <2>1 DEF Usable, RowsOf, OneRow
  <2> QED BY <1>2, <2>1, <2>2 DEF Usable, RowsOf, Holds
<1>4. CallOK(k)'
  BY <1>2, <1>3, FS_EmptySet DEF CallOK
<1>5. Own(k)
  BY DEF TypeOK, Own
<1>6. KnownRows' /\ OneRow'
  BY DEF KnownRows, OneRow
<1>7. PersistedInv'
  BY <1>2, <1>5, NotPersisted, PersistedKept DEF outcomeTables
<1> QED BY <1>1, <1>4, <1>5, <1>6, <1>7, OthersKept, TablesKept

LEMMA FetchKeeps ==
  ASSUME IInv, NEW k \in Calls, NEW s \in Symbols, NEW v \in Values, Fetch(k, s, v)
  PROVE  IInv'
<1> USE DEF IInv, Fetch
<1> DEFINE new == [call |-> k, ingestion |-> now,
                   version |-> [decision |-> task[k].decision, symbol |-> s, value |-> v]]
<1>1. /\ task[k].decision \in Decisions /\ now \in Time
      /\ CallOK(k)
  BY DEF CallInv, CallOK, TypeOK
<1>2. new \in OutcomeRetrieval
  BY <1>1 DEF OutcomeRetrieval, OutcomeVersion
<1>3. fetched'[k] = fetched[k] \union {new}
  BY DEF TypeOK
<1>4. TypeOK'
  BY <1>2 DEF TypeOK, outcomeTables
<1>5. now >= now
  BY <1>1 DEF Time
<1>6. CallOK(k)'
  <2>1. stage'[k] = "fetching" /\ task'[k] = task[k] /\ now' = now /\ snapshots' = snapshots
    OBVIOUS
  <2>2. IsFiniteSet(fetched'[k])
    <3>1. IsFiniteSet(fetched[k])
      BY <1>1 DEF CallOK
    <3>2. IsFiniteSet(fetched[k] \union {new})
      BY ONLY <3>1, FS_AddElement
    <3> QED BY <1>3, <3>2
  <2>3. ASSUME NEW r \in fetched'[k]
        PROVE  /\ r.call = k /\ r.version.decision = task'[k].decision
               /\ r.ingestion >= Ready(task'[k].decision) /\ now' >= r.ingestion
    <3>1. CASE r = new
      BY <1>1, <1>5, <2>1, <3>1 DEF CallOK
    <3>2. CASE r \in fetched[k]
      BY <1>1, <2>1, <3>2 DEF CallOK
    <3> QED BY <1>3, <3>1, <3>2
  <2>4. \E row \in snapshots' : Holds(k, row)'
    BY <1>1, <2>1 DEF CallOK, Holds
  <2> QED BY <1>1, <2>1, <2>2, <2>3, <2>4 DEF CallOK
<1>7. Own(k)
  BY DEF TypeOK, Own
<1>8. KnownRows' /\ OneRow'
  BY DEF KnownRows, OneRow
<1>9. PersistedInv'
  <2>1. ~Complete(k)
    BY DEF Complete
  <2>2. ~SameCapture(k)
    BY <2>1, NotPersisted
  <2> QED BY <1>7, <2>2, PersistedKept DEF outcomeTables
<1> QED BY <1>4, <1>6, <1>7, <1>8, <1>9, OthersKept, TablesKept

(* A call that ends, here or by its own transaction, keeps what it holds.      *)
LEMMA EndKeepsCall ==
  ASSUME NEW k \in Calls, CallOK(k), UNCHANGED <<now, snapshots, task, fetched>>,
         \/ stage'[k] = "failed"
         \/ stage[k] \in {"reading", "fetching"} /\ stage'[k] \in {"done", "dbfailed"}
  PROVE  CallOK(k)'
  BY DEF CallOK, Holds

LEMMA ProviderFailsKeeps ==
  ASSUME IInv, NEW k \in Calls, ProviderFails(k) \/ DatabaseFails(k)
  PROVE  IInv'
<1> USE DEF IInv, ProviderFails, DatabaseFails
<1>1. TypeOK'
  BY DEF TypeOK, outcomeTables, Ended
<1>2. CallOK(k)'
  BY EndKeepsCall DEF CallInv, TypeOK
<1>3. Own(k)
  BY DEF TypeOK, Own
<1>4. KnownRows' /\ OneRow'
  BY DEF KnownRows, OneRow
<1>5. PersistedInv'
  <2>1. CASE ProviderFails(k)
    <3>1. stage'[k] = "failed" /\ outcomeRuns' = outcomeRuns
      BY <2>1 DEF TypeOK, outcomeTables
    <3> QED BY <1>3, <2>1, <3>1, NotPersisted, PersistedKept
  <2>2. CASE DatabaseFails(k)
    <3>1. /\ stage'[k] = "dbfailed" /\ stage[k] # "crashed" /\ outcomeRuns' = outcomeRuns
          /\ task' = task /\ fetched' = fetched
      BY <2>2 DEF TypeOK, outcomeTables
    <3> QED BY <1>3, <3>1, PersistedKept
  <2> QED BY <2>1, <2>2
<1> QED BY <1>1, <1>2, <1>3, <1>4, <1>5, OthersKept, TablesKept

(* A caller that submits again still holds a whole cohort, and so a snapshot.  *)
LEMMA ResubmitKeeps ==
  ASSUME IInv, NEW k \in Calls, Resubmit(k)
  PROVE  IInv'
<1> USE DEF IInv, Resubmit
<1>1. TypeOK'
  BY DEF TypeOK, outcomeTables, Ended
<1>2. CallOK(k) /\ stage'[k] = "fetching"
  BY DEF CallInv, TypeOK
<1>3. PICK r \in fetched[k] : TRUE
  BY CohortAssumption DEF Complete, FetchedSymbols
<1>4. r.ingestion \in Int /\ now \in Int /\ Ready(task[k].decision) \in Int
  BY <1>3, ReadyIsInt DEF TypeOK, OutcomeRetrieval, Time
<1>5. now >= Ready(task[k].decision)
  BY <1>2, <1>3, <1>4 DEF CallOK
<1>6. CallOK(k)'
  BY <1>2, <1>3, <1>5 DEF CallOK, Holds
<1>7. Own(k)
  BY DEF TypeOK, Own
<1>8. KnownRows' /\ OneRow'
  BY DEF KnownRows, OneRow
<1>9. PersistedInv'
  BY <1>2, <1>7, PersistedKept DEF outcomeTables
<1> QED BY <1>1, <1>6, <1>7, <1>8, <1>9, OthersKept, TablesKept

LEMMA CrashKeeps ==
  ASSUME IInv, NEW k \in Calls, Crash(k)
  PROVE  IInv'
<1> USE DEF IInv, Crash
<1>1. TypeOK'
  BY DEF TypeOK, outcomeTables, Ended, NoTask
<1>2. CallOK(k)'
  BY FS_EmptySet DEF CallOK, TypeOK
<1>3. Own(k)
  BY DEF TypeOK, Own
<1>4. KnownRows' /\ OneRow'
  BY DEF KnownRows, OneRow
<1>5. PersistedInv'
  <2>1. stage'[k] = "crashed"
    BY DEF TypeOK
  <2> QED BY <1>3, <2>1, PersistedKept DEF outcomeTables
<1> QED BY <1>1, <1>2, <1>3, <1>4, <1>5, OthersKept, TablesKept

(***************************************************************************)
(* The transaction.                                                        *)
(***************************************************************************)
Written(k) == Covered(k) /\ ~SameCapture(k)

(* What a call that writes its outcomes holds: the row of its decision, which  *)
(* captured the whole cohort, and a retrieval for each of its symbols.         *)
LEMMA WriterHolds ==
  ASSUME IInv, NEW k \in Calls, Persist(k, TRUE) \/ Persist(k, FALSE), Written(k)
  PROVE  /\ CallOK(k)
         /\ \E s \in snapshots : Holds(k, s) /\ Symbols \subseteq s.symbols
         /\ FetchedSymbols(k) = Symbols
<1>1. CallOK(k) /\ stage[k] = "fetching" /\ FetchedSymbols(k) = Symbols
  BY DEF IInv, CallInv, Persist, Complete
<1>2. PICK s \in snapshots : Holds(k, s)
  BY <1>1 DEF CallOK
<1>3. PICK q \in RowsOf(task[k].decision) : FetchedSymbols(k) \subseteq q.symbols
  BY DEF Written, Covered
<1>4. q = s
  BY <1>2, <1>3 DEF RowsOf, Holds, IInv, OneRow
<1> QED BY <1>1, <1>2, <1>3, <1>4

LEMMA PersistKeepsTypes ==
  ASSUME IInv, NEW k \in Calls, NEW acked \in BOOLEAN, Persist(k, acked)
  PROVE  TypeOK'
<1> USE DEF Persist
<1>1. TypeOK /\ CallOK(k) /\ stage[k] = "fetching"
  BY DEF IInv, CallInv
<1>2. Fetched(k) \subseteq OutcomeVersion
  BY <1>1 DEF TypeOK, Fetched, OutcomeRetrieval
<1>3. \A l \in LinksOf(k) : l.version \in OutcomeVersion
  BY <1>1 DEF TypeOK, LinksOf, OutcomeRetrieval
<1>4. /\ outcomeVersions' \subseteq OutcomeVersion
      /\ outcomeRetrievals' \subseteq OutcomeRetrieval
      /\ \A l \in links' : l.version \in OutcomeVersion
  BY <1>1, <1>2, <1>3 DEF TypeOK, outcomeTables
<1>5. \A r \in outcomeRuns' : /\ r.call \in Calls
                              /\ r.decision \in Decisions
                              /\ r.mapping \in Mappings
  BY <1>1 DEF TypeOK, CallOK, outcomeTables
<1>6. Cardinality(links' \ links) \in Nat
  <2>1. PICK s \in snapshots : task[k].snapshot = {s.capture}
    BY <1>1 DEF CallOK, Holds
  <2>2. IsFiniteSet(LinksOf(k))
    BY <1>1, <2>1, LinksFinite DEF CallOK
  <2>3. links' \ links \in SUBSET LinksOf(k)
    BY DEF outcomeTables
  <2>4. IsFiniteSet(links' \ links)
    BY <2>2, <2>3, FS_Subset
  <2> QED BY <2>4, FS_CardinalityType
<1>7. linked' \in [Calls -> Nat]
  BY <1>1, <1>6 DEF TypeOK
<1>8. stage' \in [Calls -> {"idle", "reading", "fetching"} \union Ended]
  BY <1>1 DEF TypeOK, Ended
<1> QED BY <1>1, <1>4, <1>5, <1>7, <1>8 DEF TypeOK

LEMMA PersistKeepsRows ==
  ASSUME IInv, NEW k \in Calls, Persist(k, TRUE) \/ Persist(k, FALSE), Written(k)
  PROVE  RunInv' /\ RetrievalInv' /\ LinkInv'
<1>1. PICK s \in snapshots : Holds(k, s) /\ Symbols \subseteq s.symbols
  BY WriterHolds
<1>2. CallOK(k) /\ FetchedSymbols(k) = Symbols
  BY WriterHolds
<1> DEFINE run == [call |-> k, decision |-> task[k].decision, mapping |-> task[k].mapping,
                   snapshot |-> task[k].snapshot]
           link(r) == [snapshot |-> s.capture, version |-> r.version]
<1>3. /\ snapshots' = snapshots
      /\ outcomeRuns' = outcomeRuns \union {run}
      /\ outcomeRetrievals' = outcomeRetrievals \union fetched[k]
      /\ links' = links \union LinksOf(k)
  BY DEF Persist, Written
<1>4. /\ run.call = k /\ run.decision = s.decision /\ run.mapping = s.mapping
      /\ run.snapshot = {s.capture} /\ run.decision = task[k].decision
  BY <1>1 DEF Holds
<1>5. \A r \in fetched[k] : link(r) \in LinksOf(k)
  BY <1>4 DEF LinksOf
<1>6. \A l \in LinksOf(k) : \E r \in fetched[k] : l = link(r)
  BY <1>4 DEF LinksOf
<1>7. \A r \in fetched[k] : /\ run.call = r.call
                            /\ r.version.decision = run.decision
                            /\ r.ingestion >= Ready(run.decision)
  BY <1>2, <1>4 DEF CallOK
<1>8. RunInv'
  <2>1. \A x \in Symbols : \E l \in links' : l.snapshot \in run.snapshot /\ l.version.symbol = x
    <3>1. TAKE x \in Symbols
    <3>2. PICK r \in fetched[k] : r.version.symbol = x
      BY <1>2 DEF FetchedSymbols
    <3>3. link(r) \in links' /\ link(r).snapshot \in run.snapshot /\ link(r).version.symbol = x
      BY <1>3, <1>4, <1>5, <3>2
    <3> QED BY <3>3
  <2>2. ASSUME NEW q \in outcomeRuns
        PROVE  /\ \E t \in snapshots : /\ t.decision = q.decision
                                      /\ t.mapping = q.mapping
                                      /\ q.snapshot = {t.capture}
                                      /\ Symbols \subseteq t.symbols
               /\ \A x \in Symbols : \E l \in links' : l.snapshot \in q.snapshot /\ l.version.symbol = x
    BY <1>3 DEF IInv, RunInv
  <2> QED BY <1>1, <1>3, <1>4, <2>1, <2>2 DEF RunInv
<1>9. RetrievalInv'
  <2>1. ASSUME NEW r \in fetched[k]
        PROVE  \A x \in run.snapshot : [snapshot |-> x, version |-> r.version] \in links'
    BY <1>3, <1>4, <1>5
  <2>2. ASSUME NEW r \in outcomeRetrievals
        PROVE  \E q \in outcomeRuns' :
                 /\ q.call = r.call /\ r.version.decision = q.decision
                 /\ r.ingestion >= Ready(q.decision)
                 /\ \A x \in q.snapshot : [snapshot |-> x, version |-> r.version] \in links'
    BY <1>3 DEF IInv, RetrievalInv
  <2> HIDE DEF run
  <2> QED BY <1>3, <1>7, <2>1, <2>2 DEF RetrievalInv
<1>10. LinkInv'
  <2>1. ASSUME NEW l \in LinksOf(k)
        PROVE  \E r \in outcomeRetrievals', q \in outcomeRuns' :
                 /\ l = [snapshot |-> l.snapshot, version |-> r.version]
                 /\ q.call = r.call /\ q.snapshot = {l.snapshot}
                 /\ r.version.decision = q.decision /\ r.ingestion >= Ready(q.decision)
    <3>1. PICK r \in fetched[k] : l = link(r)
      BY <1>6
    <3>2. run \in outcomeRuns' /\ r \in outcomeRetrievals'
      BY <1>3
    <3> QED BY <1>4, <1>7, <3>1, <3>2
  <2>2. ASSUME NEW l \in links
        PROVE  \E r \in outcomeRetrievals', q \in outcomeRuns' :
                 /\ l = [snapshot |-> l.snapshot, version |-> r.version]
                 /\ q.call = r.call /\ q.snapshot = {l.snapshot}
                 /\ r.version.decision = q.decision /\ r.ingestion >= Ready(q.decision)
    BY <1>3 DEF IInv, LinkInv
  <2> QED BY <1>3, <2>1, <2>2 DEF LinkInv
<1> QED BY <1>8, <1>9, <1>10

(* The call whose run is there is covered, and the one that writes gets its run. *)
LEMMA PersistKeepsCalls ==
  ASSUME IInv, NEW k \in Calls, NEW acked \in BOOLEAN, Persist(k, acked)
  PROVE  PersistedInv'
<1>1. /\ Own(k) /\ Complete(k) /\ stage[k] = "fetching"
      /\ task' = task /\ fetched' = fetched
      /\ stage'[k] = IF ~Covered(k) THEN "failed" ELSE IF acked THEN "done" ELSE "dbfailed"
  BY DEF IInv, TypeOK, Own, Persist
<1>2. SameCapture(k) => Covered(k)
  <2> SUFFICES ASSUME NEW run \in outcomeRuns, run.call = k PROVE Covered(k)
    BY DEF SameCapture
  <2>1. run.decision = task[k].decision
    BY <1>1 DEF IInv, PersistedInv
  <2>2. PICK s \in snapshots : s.decision = run.decision /\ Symbols \subseteq s.symbols
    BY DEF IInv, RunInv
  <2>3. PICK q \in snapshots : Holds(k, q)
    BY <1>1 DEF IInv, CallInv, CallOK
  <2>4. q = s
    BY <2>1, <2>2, <2>3 DEF IInv, OneRow, Holds
  <2> QED BY <1>1, <2>1, <2>2, <2>3, <2>4 DEF Covered, RowsOf, Holds, Complete
<1>3. CASE ~Written(k)
  <2>1. outcomeRuns' = outcomeRuns
    BY <1>3 DEF Persist, Written, outcomeTables
  <2> QED BY <1>1, <1>2, <1>3, <2>1, PersistedKept DEF Written
<1>4. CASE Written(k)
  <2> DEFINE run == [call |-> k, decision |-> task[k].decision, mapping |-> task[k].mapping,
                     snapshot |-> task[k].snapshot]
  <2>1. outcomeRuns' = outcomeRuns \union {run}
    BY <1>4 DEF Persist, Written
  <2>2. stage'[k] \in {"done", "dbfailed"} /\ Complete(k)'
    BY <1>1, <1>4 DEF Written, Complete, FetchedSymbols
  <2>3. ASSUME NEW r \in outcomeRuns, r # run
        PROVE  /\ stage'[r.call] \in {"fetching", "done", "dbfailed", "crashed"}
               /\ stage'[r.call] # "crashed" => /\ r.decision = task'[r.call].decision
                                               /\ Complete(r.call)'
    <3>1. r.call \in Calls /\ r.call # k
      BY <1>4 DEF IInv, TypeOK, Written, SameCapture
    <3> QED BY <1>1, <3>1 DEF IInv, PersistedInv, Own, Complete, FetchedSymbols
  <2>4. ASSUME NEW j \in Calls, stage'[j] = "done" PROVE SameCapture(j)'
    <3>1. CASE j = k
      <4>1. run \in outcomeRuns' /\ run.call = k
        BY <2>1
      <4> HIDE DEF run
      <4> QED BY <3>1, <4>1 DEF SameCapture
    <3>2. CASE j # k
      <4>1. SameCapture(j)
        BY <1>1, <2>4, <3>2 DEF IInv, PersistedInv, Own
      <4> QED BY <2>1, <4>1 DEF SameCapture
    <3> QED BY <3>1, <3>2
  <2>5. run.call = k /\ run.decision = task'[k].decision
    BY <1>1
  <2> HIDE DEF run
  <2> QED BY <2>1, <2>2, <2>3, <2>4, <2>5 DEF PersistedInv
<1> QED BY <1>3, <1>4

LEMMA PersistKeeps ==
  ASSUME IInv, NEW k \in Calls, NEW acked \in BOOLEAN, Persist(k, acked)
  PROVE  IInv'
<1>1. TypeOK'
  BY PersistKeepsTypes
<1>2. RunInv' /\ RetrievalInv' /\ LinkInv'
  <2>1. CASE Written(k)
    BY <2>1, PersistKeepsRows
  <2>2. CASE ~Written(k)
    BY <2>2, TablesKept DEF IInv, Persist, Written
  <2> QED BY <2>1, <2>2
<1>3. CallOK(k)'
  BY EndKeepsCall DEF IInv, CallInv, Persist, TypeOK
<1>4. Own(k)
  BY DEF IInv, TypeOK, Own, Persist
<1>5. KnownRows' /\ OneRow'
  BY DEF IInv, KnownRows, OneRow, Persist
<1>6. PersistedInv'
  BY PersistKeepsCalls
<1> QED BY <1>1, <1>2, <1>3, <1>4, <1>5, <1>6, OthersKept DEF IInv

(***************************************************************************)
(* The theorems.                                                           *)
(***************************************************************************)
LEMMA StepInductive == IInv /\ [Next]_vars => IInv'
<1> SUFFICES ASSUME IInv, [Next]_vars PROVE IInv' OBVIOUS
<1>1. CASE UNCHANGED vars
  <2>1. KnownRows' /\ OneRow'
    BY <1>1 DEF IInv, vars, KnownRows, OneRow
  <2> QED BY <1>1, <2>1, SnapshotsGrow DEF vars
<1>2. CASE Tick
  BY <1>2, TickKeeps
<1>3. CASE \E row \in Stored : StoreSnapshot(row)
  BY <1>3, StoreSnapshotKeeps
<1>4. ASSUME NEW k \in Calls, NEW d \in Decisions, NEW m \in Mappings, Begin(k, d, m)
      PROVE  IInv'
  BY <1>4, BeginKeeps
<1>5. ASSUME NEW k \in Calls, Work(k) PROVE IInv'
  <2>1. CASE ReadSnapshot(k)
    BY <2>1, ReadSnapshotKeeps
  <2>2. CASE \E s \in Symbols, v \in Values : Fetch(k, s, v)
    BY <2>2, FetchKeeps
  <2>3. CASE \E acked \in BOOLEAN : Persist(k, acked)
    BY <2>3, PersistKeeps
  <2>4. CASE ProviderFails(k) \/ DatabaseFails(k)
    BY <2>4, ProviderFailsKeeps
  <2> QED BY <1>5, <2>1, <2>2, <2>3, <2>4 DEF Work, Progress
<1>6. ASSUME NEW k \in Calls, Resubmit(k) \/ Crash(k) PROVE IInv'
  BY <1>6, ResubmitKeeps, CrashKeeps
<1> QED BY <1>1, <1>2, <1>3, <1>4, <1>5, <1>6 DEF Next

(* The inductive invariant holds in every reachable state, whatever calls      *)
(* race, fail, die or submit again (outcome.py:73-258).                        *)
THEOREM Inductive == Spec => []IInv
  BY InitInductive, StepInductive, PTL DEF Spec

(* Rows, counts and what the calls hold keep their types (outcome.py:73-202).  *)
THEOREM TypeCorrect == Spec => []TypeOK
<1>1. IInv => TypeOK
  BY DEF IInv
<1> QED BY <1>1, Inductive, PTL

(* A snapshot has the outcomes of the whole cohort or of nobody: the links of  *)
(* a symbol are a run's, and a run linked every symbol (outcome.py:91-195).    *)
THEOREM WholeCohorts == Spec => []LinkedAllOrNothing
<1>1. IInv => LinkedAllOrNothing
  <2> SUFFICES ASSUME IInv, NEW s \in snapshots, LinkedSymbols(s) # {}
               PROVE  LinkedSymbols(s) = Symbols
    BY DEF LinkedAllOrNothing
  <2>1. PICK l \in links : l.snapshot = s.capture
    BY DEF LinkedSymbols
  <2>2. PICK run \in outcomeRuns : run.snapshot = {s.capture}
    BY <2>1 DEF IInv, LinkInv
  <2>3. Symbols \subseteq LinkedSymbols(s)
    BY <2>2 DEF IInv, RunInv, LinkedSymbols
  <2>4. LinkedSymbols(s) \subseteq Symbols
    BY DEF IInv, TypeOK, LinkedSymbols, OutcomeVersion
  <2> QED BY <2>3, <2>4
<1> QED BY <1>1, Inductive, PTL

(* A link is from a retrieval of its own decision, made when it was available  *)
(* by a call that held the snapshot, which captured its symbol                 *)
(* (outcome.py:91-195, 205-242).                                               *)
THEOREM Grounded == Spec => []LinksGrounded
<1>1. IInv => LinksGrounded
  <2> SUFFICES ASSUME IInv, NEW l \in links
               PROVE  \E s \in snapshots :
                        /\ s.capture = l.snapshot
                        /\ s.decision = l.version.decision
                        /\ l.version.symbol \in s.symbols
                        /\ \E r \in outcomeRetrievals :
                             /\ r.version = l.version
                             /\ r.ingestion >= Ready(s.decision)
                             /\ \E run \in outcomeRuns : run.call = r.call /\ s.capture \in run.snapshot
    BY DEF LinksGrounded
  <2>1. PICK r \in outcomeRetrievals, run \in outcomeRuns :
               /\ l = [snapshot |-> l.snapshot, version |-> r.version]
               /\ run.call = r.call /\ run.snapshot = {l.snapshot}
               /\ r.version.decision = run.decision /\ r.ingestion >= Ready(run.decision)
    BY DEF IInv, LinkInv
  <2>2. PICK s \in snapshots : /\ s.decision = run.decision /\ run.snapshot = {s.capture}
                               /\ Symbols \subseteq s.symbols
    BY DEF IInv, RunInv
  <2>3. l.version = r.version /\ l.version.symbol \in Symbols
    BY <2>1 DEF IInv, TypeOK, OutcomeVersion
  <2>4. s.capture = l.snapshot
    BY <2>1, <2>2
  <2> QED BY <2>1, <2>2, <2>3, <2>4
<1> QED BY <1>1, Inductive, PTL

(* No outcome is seen before the snapshot of its decision is stored and read   *)
(* (outcome.py:214-242).                                                       *)
THEOREM SnapshotsComeFirst == Spec => []SnapshotFirst
<1>1. IInv => SnapshotFirst
  BY DEF IInv, CallInv, CallOK, Holds, SnapshotFirst, RowsOf
<1> QED BY <1>1, Inductive, PTL

(* Every version a run retrieved stays linked to its snapshot                  *)
(* (outcome.py:121-195).                                                       *)
THEOREM Revisions == Spec => []RevisionsLinked
<1>1. IInv => RevisionsLinked
  BY DEF IInv, RetrievalInv, RevisionsLinked
<1> QED BY <1>1, Inductive, PTL

(* Outcomes are joined under the mapping of their snapshot (outcome.py:224).   *)
THEOREM OneMapping == Spec => []SameMapping
<1>1. IInv => SameMapping
  <2> SUFFICES ASSUME IInv, NEW run \in outcomeRuns, NEW s \in snapshots,
                      s.capture \in run.snapshot
               PROVE  s.mapping = run.mapping
    BY DEF SameMapping
  <2>1. PICK q \in snapshots : q.mapping = run.mapping /\ run.snapshot = {q.capture}
    BY DEF IInv, RunInv
  <2> QED BY <2>1 DEF IInv, OneRow
<1> QED BY <1>1, Inductive, PTL

(***************************************************************************)
(* What a composition of the calls with their callers needs to know.       *)
(***************************************************************************)
(* A call at work stays about its decision and neither starts over nor dies.   *)
LEMMA WorkIsOwn ==
  ASSUME IInv, NEW k \in Calls, Work(k)
  PROVE  /\ Own(k) /\ links \subseteq links'
         /\ stage[k] \in {"reading", "fetching"} /\ stage'[k] \notin {"idle", "crashed"}
         /\ task'[k].decision = task[k].decision
<1> DEFINE Mine == /\ Own(k) /\ links \subseteq links'
                   /\ stage[k] \in {"reading", "fetching"} /\ stage'[k] \notin {"idle", "crashed"}
                   /\ task'[k].decision = task[k].decision
<1> USE DEF Own
<1>0. TypeOK
  BY DEF IInv
<1>1. ASSUME ReadSnapshot(k) PROVE Mine
  BY <1>0, <1>1 DEF TypeOK, ReadSnapshot, outcomeTables
<1>2. ASSUME NEW s \in Symbols, NEW v \in Values, Fetch(k, s, v) PROVE Mine
  BY <1>0, <1>2 DEF TypeOK, Fetch, outcomeTables
<1>3. ASSUME NEW acked \in BOOLEAN, Persist(k, acked) PROVE Mine
  BY <1>0, <1>3 DEF TypeOK, Persist, outcomeTables
<1>4. ASSUME ProviderFails(k) \/ DatabaseFails(k) PROVE Mine
  BY <1>0, <1>4 DEF TypeOK, ProviderFails, DatabaseFails, outcomeTables
<1>5. Mine
  <2> HIDE DEF Mine
  <2> QED BY <1>1, <1>2, <1>3, <1>4 DEF Work, Progress
<1> QED BY <1>5

LEMMA BeginIsOwn ==
  ASSUME IInv, NEW k \in Calls, NEW d, NEW m, Begin(k, d, m)
  PROVE  /\ Own(k) /\ UNCHANGED outcomeTables
         /\ stage[k] = "idle" /\ stage'[k] \in {"reading", "failed"}
         /\ task'[k].decision = d
  BY DEF IInv, TypeOK, Begin, Own

LEMMA CrashIsOwn ==
  ASSUME IInv, NEW k \in Calls, Crash(k)
  PROVE  /\ Own(k) /\ UNCHANGED outcomeTables
         /\ stage[k] \in {"reading", "fetching"} /\ stage'[k] = "crashed"
  BY DEF IInv, TypeOK, Crash, Own
===============================================================================
