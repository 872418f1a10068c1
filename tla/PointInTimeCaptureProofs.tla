---------------------- MODULE PointInTimeCaptureProofs ----------------------
(***************************************************************************)
(* Proofs about PointInTimeCapture, for every number of captures, symbols, *)
(* values and decisions.                                                   *)
(***************************************************************************)
EXTENDS PointInTimeCapture, FiniteSetTheorems, TLAPS

LEMMA TimeZero == 0 \in Time
  BY HorizonAssumption DEF Time

(* The initial state satisfies the invariant. *)
LEMMA InitIInv == Init => IInv
<1> SUFFICES ASSUME Init PROVE IInv
  OBVIOUS
<1>1. TypeOK
  BY TimeZero DEF Init, TypeOK, NoJob, NothingSeen
<1>2. LockInv /\ HeldInv /\ SubmittedInv /\ SeenInv /\ RowsInv
  BY DEF Init, LockInv, HeldInv, SubmittedInv, SeenInv, RowsInv, Submitted, InTransaction
<1>3. Safety
  BY DEF Init, Safety, SnapshotEvidenced, SnapshotPaired, OneSnapshotPerDecision,
         EvidenceHasSnapshot, RepliesAgree, NeverConflicts
<1> QED BY <1>1, <1>2, <1>3 DEF IInv

(* The state after a step has the types of the state before it. *)
LEMMA TypeStep == IInv /\ [Next]_vars => TypeOK'
<1> SUFFICES ASSUME IInv, [Next]_vars PROVE TypeOK'
  OBVIOUS
<1> USE DEF IInv, TypeOK
<1>1. ASSUME NEW c \in Captures, NEW d \in Decisions, NEW S \in SUBSET Symbols,
             NEW lead \in Leads, NEW m \in Mappings, Start(c, d, S, lead, m)
      PROVE  TypeOK'
  <2>1. job' \in [Captures -> Job \union {NoJob}]
    BY <1>1 DEF Start, Job
  <2> QED BY <1>1, <2>1 DEF Start, tables, Running, Ended
<1>2. ASSUME NEW c \in Captures, NEW s \in Symbols, NEW v \in Values, NEW f \in Fields,
             pc[c] = "collecting", Ingest(c, s, f, v),
             UNCHANGED <<now, tables, lock, pc, job, seen, reply>>
      PROVE  TypeOK'
  <2>1. job[c] \in Job
    BY <1>2 DEF HeldInv
  <2>2. held' \in [Captures -> SUBSET Retrieval]
    BY <1>2, <2>1 DEF Ingest, Retrieval, Version, Job
  <2> QED BY <1>2, <2>2 DEF tables
<1>3. ASSUME NEW c \in Captures, Assemble(c) PROVE TypeOK'
  <2>1. job[c] \in Job
    BY <1>3 DEF HeldInv, Assemble
  <2>2. job' \in [Captures -> Job \union {NoJob}]
    BY <1>3, <2>1 DEF Assemble, Job
  <2> QED BY <1>3, <2>2 DEF Assemble, tables, Running, Ended
<1>4. ASSUME NEW c \in Captures, ProviderFails(c) PROVE TypeOK'
  BY <1>4 DEF ProviderFails, tables, Running, Ended
<1>5. ASSUME NEW c \in Captures, Lock(c) PROVE TypeOK'
  BY <1>5 DEF Lock, tables, Running, InTransaction
<1>6. ASSUME NEW c \in Captures, ReadStored(c) PROVE TypeOK'
  <2>1. SnapshotOf(job[c].decision) \in SUBSET Captures
    BY DEF SnapshotOf, SnapshotRow
  <2> QED BY <1>6, <2>1 DEF ReadStored, tables, Running, InTransaction
<1>7. ASSUME NEW c \in Captures, NEW acked \in BOOLEAN, Commit(c, acked) PROVE TypeOK'
  <2>1. job[c] \in Job
    BY <1>7 DEF HeldInv, Commit
  <2>2. RunOf(c) \in RunRow
    BY <2>1 DEF RunOf, RunRow, Job
  <2>3. SnapshotFrom(c) \in SnapshotRow
    BY <2>1 DEF SnapshotFrom, SnapshotRow, Job, Retrieval
  <2>4. VersionsAdded(c) \subseteq VersionRow
    BY DEF VersionsAdded, VersionRow, Retrieval
  <2>5. /\ runs' \subseteq RunRow /\ versions' \subseteq VersionRow
        /\ retrievals' \subseteq Retrieval /\ snapshots' \subseteq SnapshotRow
    BY <1>7, <2>2, <2>3, <2>4 DEF Commit, InsertAll, tables
  <2>6. lock' \in [Decisions -> SUBSET Captures]
    BY <1>7 DEF Commit, Released
  <2>7. reply' \in [Captures -> SUBSET Captures]
    BY <1>7 DEF Commit, Answer
  <2> QED BY <1>7, <2>5, <2>6, <2>7 DEF Commit, Running, Ended
<1>8. ASSUME NEW c \in Captures, DatabaseFails(c) PROVE TypeOK'
  BY <1>8 DEF DatabaseFails, Released, tables, Running, Ended
<1>9. ASSUME NEW c \in Captures, Resubmit(c) PROVE TypeOK'
  BY <1>9 DEF Resubmit, NothingSeen, tables, Running
<1>10. ASSUME NEW c \in Captures, Crash(c) PROVE TypeOK'
  BY <1>10 DEF Crash, Released, NothingSeen, tables, Running, Ended
<1>11. ASSUME Tick PROVE TypeOK'
  BY <1>11, HorizonAssumption DEF Tick, Time, tables, locals
<1>12. ASSUME UNCHANGED vars PROVE TypeOK'
  BY <1>12 DEF vars, tables, locals
<1> QED BY <1>1, <1>2, <1>3, <1>4, <1>5, <1>6, <1>7, <1>8, <1>9, <1>10, <1>11, <1>12
        DEF Next, Work, Progress, RetrieveMark, RetrieveClose, Fields

(* A lock has one holder, in a transaction on its decision, and passes on  *)
(* only when that transaction commits, rolls back or dies.                 *)
LEMMA LockStep == IInv /\ [Next]_vars => LockInv'
<1> SUFFICES ASSUME IInv, [Next]_vars PROVE LockInv'
  OBVIOUS
<1> USE DEF IInv, TypeOK, LockInv, InTransaction
<1>1. ASSUME NEW c \in Captures, NEW d \in Decisions, NEW S \in SUBSET Symbols,
             NEW lead \in Leads, NEW m \in Mappings, Start(c, d, S, lead, m)
      PROVE  LockInv'
  BY <1>1 DEF Start
<1>2. ASSUME UNCHANGED <<lock, pc, job>> PROVE LockInv'
  BY <1>2
<1>3. ASSUME NEW c \in Captures, Assemble(c) PROVE LockInv'
  BY <1>3 DEF Assemble
<1>4. ASSUME NEW c \in Captures, ProviderFails(c) PROVE LockInv'
  BY <1>4 DEF ProviderFails
<1>5. ASSUME NEW c \in Captures, Lock(c) PROVE LockInv'
  <2>1. job[c].decision \in Decisions
    BY <1>5 DEF Lock, HeldInv, Job
  <2>2. /\ lock' = [lock EXCEPT ![job[c].decision] = {c}] /\ lock[job[c].decision] = {}
        /\ pc' = [pc EXCEPT ![c] = "locked"] /\ job' = job
    BY <1>5 DEF Lock
  <2>3. ASSUME NEW x \in Captures, pc'[x] \in InTransaction
        PROVE  lock'[job'[x].decision] = {x}
    <3>1. CASE x = c
      BY <2>1, <2>2, <3>1
    <3>2. CASE x # c
      <4>1. pc[x] \in InTransaction
        BY <2>2, <2>3, <3>2
      <4>2. lock[job[x].decision] = {x}
        BY <4>1
      <4> QED BY <2>2, <4>2
    <3> QED BY <3>1, <3>2
  <2>4. ASSUME NEW d \in Decisions, NEW x \in lock'[d]
        PROVE  pc'[x] \in InTransaction /\ job'[x].decision = d
    <3>1. CASE d = job[c].decision
      BY <2>1, <2>2, <2>4, <3>1
    <3>2. CASE d # job[c].decision
      BY <2>1, <2>2, <2>4, <3>2
    <3> QED BY <3>1, <3>2
  <2> QED BY <2>3, <2>4
<1>6. ASSUME NEW c \in Captures, ReadStored(c) PROVE LockInv'
  BY <1>6 DEF ReadStored
<1>7. ASSUME NEW c \in Captures, lock' = Released(c), pc[c] \in Running,
             \A x \in Captures \ {c} : pc'[x] = pc[x] /\ job'[x] = job[x],
             pc'[c] \notin InTransaction
      PROVE  LockInv'
  <2>1. \A x \in Captures : pc[x] \in InTransaction => job[x].decision \in Decisions
    BY DEF HeldInv, Job
  <2> QED BY <1>7, <2>1 DEF Released
<1>8. ASSUME NEW c \in Captures, Resubmit(c) PROVE LockInv'
  BY <1>8 DEF Resubmit
<1>9. ASSUME NEW c \in Captures, NEW acked \in BOOLEAN, Commit(c, acked) PROVE LockInv'
  BY <1>7, <1>9 DEF Commit, Running
<1>10. ASSUME NEW c \in Captures, DatabaseFails(c) PROVE LockInv'
  BY <1>7, <1>10 DEF DatabaseFails, Running
<1>11. ASSUME NEW c \in Captures, Crash(c) PROVE LockInv'
  BY <1>7, <1>11 DEF Crash
<1> HIDE DEF IInv, TypeOK, LockInv, InTransaction
<1> QED
  BY <1>1, <1>2, <1>3, <1>4, <1>5, <1>6, <1>8, <1>9, <1>10, <1>11
  DEF Next, Work, Progress, RetrieveMark, RetrieveClose, Tick, vars, locals

(* Retrievals stay their call's own, one per symbol and field.             *)
LEMMA HeldStep == IInv /\ [Next]_vars => HeldInv'
<1> SUFFICES ASSUME IInv, [Next]_vars PROVE HeldInv'
  OBVIOUS
<1> USE DEF IInv, TypeOK, HeldInv
<1>1. ASSUME NEW c \in Captures, NEW d \in Decisions, NEW S \in SUBSET Symbols,
             NEW lead \in Leads, NEW m \in Mappings, Start(c, d, S, lead, m)
      PROVE  HeldInv'
  BY <1>1 DEF Start, Job
<1>2. ASSUME NEW c \in Captures, NEW s \in job[c].symbols, NEW v \in Values, NEW f \in Fields,
             pc[c] = "collecting", ~Has(c, s, f), Ingest(c, s, f, v),
             UNCHANGED <<now, tables, lock, pc, job, seen, reply>>
      PROVE  HeldInv'
  BY <1>2 DEF Has, Ingest
<1>3. ASSUME NEW c \in Captures, Assemble(c) PROVE HeldInv'
  BY <1>3 DEF Assemble, Job
<1>4. ASSUME NEW c \in Captures, UNCHANGED <<job, held>>, pc[c] \notin {"idle", "crashed"},
             \A x \in Captures \ {c} : pc'[x] = pc[x], pc'[c] # "idle"
      PROVE  HeldInv'
  BY <1>4
<1>5. ASSUME NEW c \in Captures, Crash(c) PROVE HeldInv'
  BY <1>5 DEF Crash
<1>6. ASSUME UNCHANGED <<pc, job, held>> PROVE HeldInv'
  BY <1>6
<1>7. ASSUME NEW c \in Captures, NEW s \in Symbols, NEW v \in Values, RetrieveMark(c, s, v)
      PROVE  HeldInv'
  BY <1>2, <1>7 DEF RetrieveMark, Fields
<1>8. ASSUME NEW c \in Captures, NEW s \in Symbols, NEW v \in Values, RetrieveClose(c, s, v)
      PROVE  HeldInv'
  <2>1. s \in job[c].symbols
    BY <1>8 DEF RetrieveClose, Has
  <2> QED BY <1>2, <1>8, <2>1 DEF RetrieveClose, Fields
<1>9. ASSUME NEW c \in Captures, ProviderFails(c) \/ Lock(c) \/ ReadStored(c)
      PROVE  HeldInv'
  BY <1>4, <1>9 DEF ProviderFails, Lock, ReadStored
<1>10. ASSUME NEW c \in Captures, NEW acked \in BOOLEAN, Commit(c, acked) PROVE HeldInv'
  BY <1>4, <1>10 DEF Commit
<1>11. ASSUME NEW c \in Captures, DatabaseFails(c) \/ Resubmit(c) PROVE HeldInv'
  BY <1>4, <1>11 DEF DatabaseFails, Resubmit, InTransaction
<1> HIDE DEF IInv, TypeOK, HeldInv
<1> QED
  BY <1>1, <1>3, <1>5, <1>6, <1>7, <1>8, <1>9, <1>10, <1>11
  DEF Next, Work, Progress, Tick, vars, locals

(* What passed the gates is never touched again.                           *)
LEMMA SubmittedStep == IInv /\ [Next]_vars => SubmittedInv'
<1> SUFFICES ASSUME IInv, [Next]_vars PROVE SubmittedInv'
  OBVIOUS
<1> USE DEF IInv, TypeOK, Submitted, InTransaction
<1> DEFINE Same(x) == pc'[x] \in Submitted =>
                        pc[x] \in Submitted /\ job'[x] = job[x] /\ held'[x] = held[x]
<1>0. ASSUME \A x \in Captures : Same(x) PROVE SubmittedInv'
  <2> SUFFICES ASSUME NEW x \in Captures, pc'[x] \in Submitted
               PROVE  /\ Collected(x)'
                      /\ \A r \in held'[x] : r.ingestion <= job'[x].decision
                      /\ job'[x].completed <= job'[x].decision
    BY DEF SubmittedInv
  <2>1. job'[x] = job[x] /\ held'[x] = held[x]
    BY <1>0
  <2>2. /\ Collected(x) /\ \A r \in held[x] : r.ingestion <= job[x].decision
        /\ job[x].completed <= job[x].decision
    BY <1>0 DEF SubmittedInv
  <2> QED BY <2>1, <2>2 DEF Collected, Has
<1>1. ASSUME NEW c \in Captures, NEW d \in Decisions, NEW S \in SUBSET Symbols,
             NEW lead \in Leads, NEW m \in Mappings, Start(c, d, S, lead, m)
      PROVE  SubmittedInv'
  <2>1. \A x \in Captures : Same(x)
    BY <1>1 DEF Start
  <2> QED BY <1>0, <2>1
<1>2. ASSUME NEW c \in Captures, NEW s \in Symbols, NEW v \in Values,
             RetrieveMark(c, s, v) \/ RetrieveClose(c, s, v)
      PROVE  SubmittedInv'
  <2>1. \A x \in Captures : Same(x)
    BY <1>2 DEF RetrieveMark, RetrieveClose, Ingest
  <2> QED BY <1>0, <2>1
<1>3. ASSUME NEW c \in Captures, Assemble(c) PROVE SubmittedInv'
  <2> SUFFICES ASSUME NEW x \in Captures, pc'[x] \in Submitted
               PROVE  /\ Collected(x)'
                      /\ \A r \in held'[x] : r.ingestion <= job'[x].decision
                      /\ job'[x].completed <= job'[x].decision
    BY DEF SubmittedInv
  <2>1. /\ job'[x].decision = job[x].decision /\ job'[x].symbols = job[x].symbols
        /\ held'[x] = held[x]
    BY <1>3 DEF Assemble
  <2>2. Collected(x) /\ \A r \in held[x] : r.ingestion <= job[x].decision
    BY <1>3 DEF Assemble, MayStore, SubmittedInv
  <2>3. job'[x].completed <= job'[x].decision
    BY <1>3, <2>1 DEF Assemble, MayStore, SubmittedInv
  <2> QED BY <2>1, <2>2, <2>3 DEF Collected, Has
<1>4. ASSUME NEW c \in Captures, Crash(c) PROVE SubmittedInv'
  <2>1. \A x \in Captures : Same(x)
    BY <1>4 DEF Crash
  <2> QED BY <1>0, <2>1
<1>5. ASSUME UNCHANGED <<pc, job, held>> PROVE SubmittedInv'
  BY <1>0, <1>5
<1>6. ASSUME NEW c \in Captures, ProviderFails(c) \/ Lock(c) \/ ReadStored(c)
      PROVE  SubmittedInv'
  <2>1. \A x \in Captures : Same(x)
    BY <1>6 DEF ProviderFails, Lock, ReadStored
  <2> QED BY <1>0, <2>1
<1>7. ASSUME NEW c \in Captures, NEW acked \in BOOLEAN, Commit(c, acked) PROVE SubmittedInv'
  <2>1. \A x \in Captures : Same(x)
    BY <1>7 DEF Commit
  <2> QED BY <1>0, <2>1
<1>8. ASSUME NEW c \in Captures, DatabaseFails(c) \/ Resubmit(c) PROVE SubmittedInv'
  <2>1. \A x \in Captures : Same(x)
    BY <1>8 DEF DatabaseFails, Resubmit
  <2> QED BY <1>0, <2>1
<1> QED
  BY <1>1, <1>2, <1>3, <1>4, <1>5, <1>6, <1>7, <1>8
  DEF Next, Work, Progress, Tick, vars, locals

(***************************************************************************)
(* The tables change in one step only: the commit of a writing call that   *)
(* stores.  The two lemmas below say what that step does, in the terms the *)
(* remaining invariants are about.                                         *)
(***************************************************************************)

(* Any other step leaves the tables alone.                                 *)
LEMMA OnlyCommitWrites ==
  ASSUME IInv, [Next]_vars,
         ~ \E c \in Captures, acked \in BOOLEAN : Commit(c, acked) /\ Stores(c)
  PROVE  UNCHANGED tables
<1>1. ASSUME NEW c \in Captures, NEW acked \in BOOLEAN, Commit(c, acked) PROVE UNCHANGED tables
  BY <1>1 DEF Commit
<1> QED
  BY <1>1 DEF Next, Work, Progress, Start, RetrieveMark, RetrieveClose, ProviderFails, Assemble,
              Lock, ReadStored, DatabaseFails, Resubmit, Crash, Tick, vars

(* A storing commit brings the first run of its call, and its snapshot     *)
(* exactly if its decision has none.                                       *)
LEMMA StoringCommit ==
  ASSUME IInv, NEW c \in Captures, NEW acked \in BOOLEAN, Commit(c, acked), Stores(c)
  PROVE  /\ job[c] \in Job
         /\ \A r \in runs : r.capture # c
         /\ runs' = runs \union {RunOf(c)}
         /\ versions' = versions \union VersionsAdded(c)
         /\ retrievals' = retrievals \union held[c]
         /\ \/ /\ SnapshotOf(job[c].decision) = {}
               /\ snapshots' = snapshots \union {SnapshotFrom(c)}
            \/ /\ SnapshotOf(job[c].decision) # {}
               /\ snapshots' = snapshots
         /\ UNCHANGED <<now, job, held, seen>>
         /\ pc[c] = "writing"
         /\ pc' = [pc EXCEPT ![c] = IF acked THEN "done" ELSE "dbfailed"]
         /\ reply' = [reply EXCEPT ![c] = IF acked THEN Answer(c) ELSE {}]
         /\ Answer(c) = IF SnapshotOf(job[c].decision) = {} THEN {c}
                        ELSE SnapshotOf(job[c].decision)
<1>1. job[c] \in Job
  BY DEF IInv, HeldInv, Commit
<1>2. seen[c].snapshot = SnapshotOf(job[c].decision)
  BY DEF IInv, SeenInv, Commit
<1> QED
  BY <1>1, <1>2 DEF Commit, Stores, UniqueViolation, InsertAll, Answer

(* A writing call meets no unique key: what it read still holds.           *)
LEMMA NoUniqueViolation ==
  ASSUME IInv, NEW c \in Captures, pc[c] = "writing"
  PROVE  ~seen[c].run => ~UniqueViolation(c)
  BY DEF IInv, SeenInv, UniqueViolation

(* A call that reached the database has done so for good, about the same   *)
(* decision, unless it crashes.                                            *)
LEMMA SubmittedStays ==
  ASSUME IInv, [Next]_vars, NEW x \in Captures, pc[x] \in Submitted \union {"crashed"}
  PROVE  /\ pc'[x] \in Submitted \union {"crashed"}
         /\ pc'[x] # "crashed" => pc[x] # "crashed" /\ job'[x] = job[x]
<1> DEFINE Stays == /\ pc'[x] \in Submitted \union {"crashed"}
                    /\ pc'[x] # "crashed" => pc[x] # "crashed" /\ job'[x] = job[x]
<1> USE DEF Submitted, InTransaction
<1>0. pc \in [Captures -> {"idle"} \union Running \union Ended]
  BY DEF IInv, TypeOK
<1>1. ASSUME NEW c \in Captures, NEW d \in Decisions, NEW S \in SUBSET Symbols,
             NEW lead \in Leads, NEW m \in Mappings, Start(c, d, S, lead, m)
      PROVE  Stays
  BY <1>0, <1>1 DEF Start
<1>2. ASSUME NEW c \in Captures, NEW acked \in BOOLEAN, Commit(c, acked) PROVE Stays
  <2>1. ~(~seen[c].run /\ UniqueViolation(c))
    BY <1>2, NoUniqueViolation DEF Commit
  <2> QED BY <1>0, <1>2, <2>1 DEF Commit
<1>3. ASSUME NEW c \in Captures, Assemble(c) PROVE Stays
  BY <1>0, <1>3 DEF Assemble
<1>4. ASSUME NEW c \in Captures, Crash(c) PROVE Stays
  BY <1>0, <1>4 DEF Crash
<1>5. ASSUME NEW c \in Captures,
             Lock(c) \/ ReadStored(c) \/ ProviderFails(c) \/ DatabaseFails(c) \/ Resubmit(c)
      PROVE  Stays
  BY <1>0, <1>5 DEF Lock, ReadStored, ProviderFails, DatabaseFails, Resubmit
<1>6. ASSUME UNCHANGED <<pc, job>> PROVE Stays
  BY <1>6
<1> HIDE DEF Stays
<1>7. Stays
  BY <1>1, <1>2, <1>3, <1>4, <1>5, <1>6
  DEF Next, Work, Progress, RetrieveMark, RetrieveClose, Tick, vars, locals
<1> QED BY <1>7 DEF Stays

(* Transactions on one decision exclude each other.                        *)
LEMMA TransactionsExclude ==
  ASSUME IInv, NEW c \in Captures, NEW x \in Captures, x # c,
         pc[c] \in InTransaction, pc[x] \in InTransaction
  PROVE  job[x].decision # job[c].decision
  BY DEF IInv, LockInv

(* What a transaction read stays true until it writes.                     *)
LEMMA SeenStep == IInv /\ [Next]_vars => SeenInv'
<1> SUFFICES ASSUME IInv, [Next]_vars, NEW x \in Captures, pc'[x] = "writing"
             PROVE  /\ seen'[x].run <=> \E r \in runs' : r.capture = x
                    /\ seen'[x].snapshot = SnapshotOf(job[x].decision)'
  BY DEF SeenInv
<1> DEFINE Kept == pc[x] = "writing" /\ seen'[x] = seen[x] /\ job'[x] = job[x]
<1>1. Kept \/ ReadStored(x)
  <2>0. /\ pc \in [Captures -> {"idle"} \union Running \union Ended]
        /\ job \in [Captures -> Job \union {NoJob}]
        /\ seen \in [Captures -> [run : BOOLEAN, snapshot : SUBSET Captures]]
    BY DEF IInv, TypeOK
  <2>1. ASSUME NEW c \in Captures, NEW d \in Decisions, NEW S \in SUBSET Symbols,
               NEW lead \in Leads, NEW m \in Mappings, Start(c, d, S, lead, m)
        PROVE  Kept
    BY <2>0, <2>1 DEF Start
  <2>2. ASSUME NEW c \in Captures, Crash(c) \/ Resubmit(c) PROVE Kept
    <3>1. CASE Crash(c)
      BY <2>0, <3>1 DEF Crash
    <3>2. CASE Resubmit(c)
      BY <2>0, <3>2 DEF Resubmit
    <3> QED BY <2>2, <3>1, <3>2
  <2>3. ASSUME NEW c \in Captures, Assemble(c) PROVE Kept
    BY <2>0, <2>3 DEF Assemble
  <2>4. ASSUME NEW c \in Captures, Lock(c) \/ ProviderFails(c) \/ DatabaseFails(c) PROVE Kept
    BY <2>0, <2>4 DEF Lock, ProviderFails, DatabaseFails
  <2>5. ASSUME NEW c \in Captures, NEW acked \in BOOLEAN, Commit(c, acked) PROVE Kept
    BY <2>0, <2>5 DEF Commit
  <2>6. ASSUME NEW c \in Captures, ReadStored(c) PROVE Kept \/ ReadStored(x)
    <3>1. CASE c = x
      BY <2>6, <3>1
    <3>2. CASE c # x
      BY <2>0, <2>6, <3>2 DEF ReadStored
    <3> QED BY <3>1, <3>2
  <2>7. ASSUME UNCHANGED <<pc, job, seen>> PROVE Kept
    BY <2>7
  <2> HIDE DEF Kept
  <2> QED
    BY <2>1, <2>2, <2>3, <2>4, <2>5, <2>6, <2>7
    DEF Next, Work, Progress, RetrieveMark, RetrieveClose, Tick, vars, locals
<1>2. CASE ReadStored(x)
  <2>1. seen \in [Captures -> [run : BOOLEAN, snapshot : SUBSET Captures]]
    BY DEF IInv, TypeOK
  <2> QED BY <1>2, <2>1 DEF ReadStored, SnapshotOf, tables
<1>3. CASE Kept /\ UNCHANGED tables
  BY <1>3 DEF IInv, SeenInv, SnapshotOf, tables
<1>4. CASE Kept /\ \E c \in Captures, acked \in BOOLEAN : Commit(c, acked) /\ Stores(c)
  <2>1. PICK c \in Captures, acked \in BOOLEAN : Commit(c, acked) /\ Stores(c)
    BY <1>4
  <2>2. /\ runs' = runs \union {RunOf(c)}
        /\ snapshots' \in {snapshots, snapshots \union {SnapshotFrom(c)}}
        /\ pc[c] = "writing" /\ pc'[c] # "writing"
    <3>1. pc \in [Captures -> {"idle"} \union Running \union Ended]
      BY DEF IInv, TypeOK
    <3> QED BY <2>1, <3>1, StoringCommit
  <2>3. x # c
    BY <2>2
  <2>4. job[x].decision # job[c].decision
    BY <1>4, <2>2, <2>3, TransactionsExclude DEF InTransaction
  <2>5. SnapshotOf(job[x].decision)' = SnapshotOf(job[x].decision)
    BY <1>4, <2>2, <2>4 DEF SnapshotOf, SnapshotFrom
  <2>6. (\E r \in runs' : r.capture = x) <=> \E r \in runs : r.capture = x
    BY <2>2, <2>3 DEF RunOf
  <2> QED BY <1>4, <2>5, <2>6 DEF IInv, SeenInv
<1> HIDE DEF Kept
<1> QED BY <1>1, <1>2, <1>3, <1>4, OnlyCommitWrites

(* The tables after a step: unchanged, or grown by one storing commit.     *)
LEMMA RowsStep == IInv /\ [Next]_vars => RowsInv'
<1> SUFFICES ASSUME IInv, [Next]_vars PROVE RowsInv'
  OBVIOUS
<1>1. ASSUME NEW r \in runs
      PROVE  /\ r.completed <= r.decision
             /\ pc'[r.capture] \in Submitted \union {"crashed"}
             /\ pc'[r.capture] # "crashed" => r.decision = job'[r.capture].decision
  <2>1. /\ r.capture \in Captures /\ pc[r.capture] \in Submitted \union {"crashed"}
        /\ r.completed <= r.decision
        /\ pc[r.capture] # "crashed" => r.decision = job[r.capture].decision
    BY DEF IInv, RowsInv, TypeOK, RunRow
  <2> QED BY <2>1, SubmittedStays
<1>2. CASE UNCHANGED tables
  BY <1>1, <1>2 DEF RowsInv, IInv, tables
<1>3. CASE \E c \in Captures, acked \in BOOLEAN : Commit(c, acked) /\ Stores(c)
  <2>1. PICK c \in Captures, acked \in BOOLEAN : Commit(c, acked) /\ Stores(c)
    BY <1>3
  <2>2. /\ runs' = runs \union {RunOf(c)}
        /\ versions' = versions \union VersionsAdded(c)
        /\ snapshots' \in {snapshots, snapshots \union {SnapshotFrom(c)}}
        /\ pc' = [pc EXCEPT ![c] = IF acked THEN "done" ELSE "dbfailed"]
        /\ pc[c] = "writing" /\ job' = job
    BY <2>1, StoringCommit
  <2>3. ASSUME NEW r \in runs'
        PROVE  /\ r.completed <= r.decision
               /\ pc'[r.capture] \in Submitted \union {"crashed"}
               /\ pc'[r.capture] # "crashed" => r.decision = job'[r.capture].decision
    <3>1. CASE r \in runs
      BY <1>1, <3>1
    <3>2. CASE r = RunOf(c)
      <4>1. pc'[c] \in {"done", "dbfailed"}
        BY <2>2 DEF IInv, TypeOK
      <4>2. r.completed <= r.decision
        BY <2>2, <3>2 DEF IInv, SubmittedInv, Submitted, InTransaction, RunOf
      <4> QED BY <2>2, <3>2, <4>1, <4>2 DEF RunOf, Submitted
    <3> QED BY <2>2, <3>1, <3>2
  <2>4. \A s \in snapshots' : \E r \in runs' : r.capture = s.capture /\ r.decision = s.decision
    <3>1. RunOf(c).capture = SnapshotFrom(c).capture /\ RunOf(c).decision = SnapshotFrom(c).decision
      BY DEF RunOf, SnapshotFrom
    <3>2. \A s \in snapshots : \E r \in runs : r.capture = s.capture /\ r.decision = s.decision
      BY DEF IInv, RowsInv
    <3> QED BY <2>2, <3>1, <3>2
  <2>5. \A row \in versions' : row.first_ingestion <= row.version.decision
    <3>1. \A r \in held[c] : r.ingestion <= r.version.decision
      BY <2>2 DEF IInv, SubmittedInv, HeldInv, Submitted, InTransaction
    <3> QED BY <2>2, <3>1 DEF IInv, RowsInv, VersionsAdded
  <2>6. \A r, q \in runs' : r.capture = q.capture => r = q
    <3>1. RunOf(c).capture = c
      BY DEF RunOf
    <3>2. \A r \in runs : r.capture # c
      BY <2>1, StoringCommit
    <3> QED BY <2>2, <3>1, <3>2 DEF IInv, RowsInv
  <2> QED BY <2>3, <2>4, <2>5, <2>6 DEF RowsInv
<1> QED BY <1>2, <1>3, OnlyCommitWrites

(* What a storing commit puts into the tables is timely and paired.        *)
LEMMA SnapshotFromIsSound ==
  ASSUME IInv, NEW c \in Captures, NEW acked \in BOOLEAN, Commit(c, acked), Stores(c)
  PROVE  /\ \A v \in SnapshotFrom(c).versions :
              /\ \E r \in retrievals' : r.capture = c /\ r.version = v
                                        /\ r.ingestion <= job[c].decision
              /\ \E row \in versions' : row.version = v /\ row.first_ingestion <= job[c].decision
              /\ v.symbol \in job[c].symbols /\ v.decision = job[c].decision
         /\ \A x \in job[c].symbols, f \in Fields :
              \E v \in SnapshotFrom(c).versions :
                 /\ v.symbol = x /\ v.field = f
                 /\ \A w \in SnapshotFrom(c).versions :
                      w.symbol = x /\ w.field = f => w = v
<1>1. /\ versions' = versions \union VersionsAdded(c)
      /\ retrievals' = retrievals \union held[c]
      /\ pc[c] = "writing"
  BY StoringCommit
<1>2. /\ Collected(c)
      /\ \A r \in held[c] : r.ingestion <= job[c].decision
  BY <1>1 DEF IInv, SubmittedInv, Submitted, InTransaction
<1>3. /\ \A r \in held[c] : /\ r.capture = c
                            /\ r.version.decision = job[c].decision
                            /\ r.version.symbol \in job[c].symbols
      /\ \A q, r \in held[c] :
           q.version.symbol = r.version.symbol /\ q.version.field = r.version.field => q = r
  BY DEF IInv, HeldInv
<1>4. \A row \in versions : row.first_ingestion <= row.version.decision
  BY DEF IInv, RowsInv
<1>5. SnapshotFrom(c).versions = {r.version : r \in held[c]}
  BY DEF SnapshotFrom
<1>6. ASSUME NEW v \in SnapshotFrom(c).versions
      PROVE  /\ \E r \in retrievals' : r.capture = c /\ r.version = v
                                       /\ r.ingestion <= job[c].decision
             /\ \E row \in versions' : row.version = v /\ row.first_ingestion <= job[c].decision
             /\ v.symbol \in job[c].symbols /\ v.decision = job[c].decision
  <2>1. PICK r \in held[c] : r.version = v
    BY <1>5
  <2>2. \E row \in versions' : row.version = v /\ row.first_ingestion <= job[c].decision
    <3>1. CASE \E row \in versions : row.version = v
      BY <1>1, <1>3, <1>4, <2>1, <3>1
    <3>2. CASE \A row \in versions : row.version # v
      <4>1. [version |-> r.version, first_ingestion |-> r.ingestion] \in VersionsAdded(c)
        BY <2>1, <3>2 DEF VersionsAdded
      <4> QED BY <1>1, <1>2, <2>1, <4>1
    <3> QED BY <3>1, <3>2
  <2> QED BY <1>1, <1>2, <1>3, <2>1, <2>2
<1>7. ASSUME NEW x \in job[c].symbols, NEW f \in Fields
      PROVE  \E v \in SnapshotFrom(c).versions :
                /\ v.symbol = x /\ v.field = f
                /\ \A w \in SnapshotFrom(c).versions :
                     w.symbol = x /\ w.field = f => w = v
  <2>1. PICK r \in held[c] : r.version.symbol = x /\ r.version.field = f
    BY <1>2 DEF Collected, Has
  <2>2. r.version \in SnapshotFrom(c).versions
    BY <1>5
  <2>3. \A w \in SnapshotFrom(c).versions : w.symbol = x /\ w.field = f => w = r.version
    BY <1>3, <1>5, <2>1
  <2> QED BY <2>1, <2>2, <2>3
<1> QED BY <1>6, <1>7

(* Every safety invariant holds after a step that stores nothing ...       *)
LEMMA QuietSafetyStep ==
  ASSUME IInv, [Next]_vars, UNCHANGED tables
  PROVE  SnapshotEvidenced' /\ SnapshotPaired' /\ OneSnapshotPerDecision' /\ EvidenceHasSnapshot'
  BY DEF IInv, Safety, tables, SnapshotEvidenced, SnapshotPaired, OneSnapshotPerDecision,
         EvidenceHasSnapshot, SnapshotOf

(* ... and after the commit that stores.                                   *)
LEMMA StoringSafetyStep ==
  ASSUME IInv, NEW c \in Captures, NEW acked \in BOOLEAN, Commit(c, acked), Stores(c)
  PROVE  SnapshotEvidenced' /\ SnapshotPaired' /\ OneSnapshotPerDecision' /\ EvidenceHasSnapshot'
<1>1. /\ runs' = runs \union {RunOf(c)}
      /\ versions' = versions \union VersionsAdded(c)
      /\ retrievals' = retrievals \union held[c]
      /\ \/ SnapshotOf(job[c].decision) = {} /\ snapshots' = snapshots \union {SnapshotFrom(c)}
         \/ SnapshotOf(job[c].decision) # {} /\ snapshots' = snapshots
  BY StoringCommit
<1>2. /\ SnapshotFrom(c).capture = c
      /\ SnapshotFrom(c).decision = job[c].decision
      /\ SnapshotFrom(c).symbols = job[c].symbols
  BY DEF SnapshotFrom
<1>3. SnapshotEvidenced'
  <2> SUFFICES ASSUME NEW s \in snapshots', NEW v \in s.versions
      PROVE  /\ \E r \in retrievals' : /\ r.capture = s.capture /\ r.version = v
                                       /\ r.ingestion <= s.decision
             /\ \E row \in versions' : row.version = v /\ row.first_ingestion <= s.decision
    BY DEF SnapshotEvidenced
  <2>1. CASE s \in snapshots
    BY <1>1, <2>1 DEF IInv, Safety, SnapshotEvidenced
  <2>2. CASE s = SnapshotFrom(c)
    BY <1>2, <2>2, SnapshotFromIsSound
  <2> QED BY <1>1, <2>1, <2>2
<1>4. SnapshotPaired'
  <2> SUFFICES ASSUME NEW s \in snapshots'
      PROVE  /\ \A x \in s.symbols, f \in Fields :
                  \E v \in s.versions : /\ v.symbol = x /\ v.field = f
                                        /\ \A w \in s.versions :
                                             w.symbol = x /\ w.field = f => w = v
             /\ \A v \in s.versions : v.symbol \in s.symbols /\ v.decision = s.decision
    BY DEF SnapshotPaired
  <2>1. CASE s \in snapshots
    BY <2>1 DEF IInv, Safety, SnapshotPaired
  <2>2. CASE s = SnapshotFrom(c)
    <3>1. \A v \in s.versions : v.symbol \in s.symbols /\ v.decision = s.decision
      BY <1>2, <2>2, SnapshotFromIsSound
    <3>2. ASSUME NEW x \in s.symbols, NEW f \in Fields
          PROVE  \E v \in s.versions : /\ v.symbol = x /\ v.field = f
                                       /\ \A w \in s.versions :
                                            w.symbol = x /\ w.field = f => w = v
      BY <1>2, <2>2, SnapshotFromIsSound
    <3> QED BY <3>1, <3>2
  <2> QED BY <1>1, <2>1, <2>2
<1>5. OneSnapshotPerDecision'
  <2>1. \A s, t \in snapshots : s.decision = t.decision => s = t
    BY DEF IInv, Safety, OneSnapshotPerDecision
  <2>2. SnapshotOf(job[c].decision) = {} => \A s \in snapshots : s.decision # job[c].decision
    BY DEF SnapshotOf
  <2> QED BY <1>1, <1>2, <2>1, <2>2 DEF OneSnapshotPerDecision
<1>6. EvidenceHasSnapshot'
  <2> SUFFICES ASSUME NEW r \in runs' PROVE \E s \in snapshots' : s.decision = r.decision
    BY DEF EvidenceHasSnapshot, SnapshotOf
  <2>1. CASE r \in runs
    BY <1>1, <2>1 DEF IInv, Safety, EvidenceHasSnapshot, SnapshotOf
  <2>2. CASE r = RunOf(c)
    <3>1. r.decision = job[c].decision
      BY <2>2 DEF RunOf
    <3>2. SnapshotOf(job[c].decision) # {} => \E s \in snapshots : s.decision = job[c].decision
      BY DEF SnapshotOf
    <3> QED BY <1>1, <1>2, <3>1, <3>2
  <2> QED BY <1>1, <2>1, <2>2
<1> QED BY <1>3, <1>4, <1>5, <1>6

(* A reply given stays the stored snapshot; a new one is it.               *)
LEMMA RepliesStep == IInv /\ [Next]_vars => RepliesAgree'
<1> SUFFICES ASSUME IInv, [Next]_vars, NEW x \in Captures, pc'[x] = "done"
             PROVE  reply'[x] # {} /\ reply'[x] = SnapshotOf(job[x].decision)'
  BY DEF RepliesAgree
<1>0. /\ pc \in [Captures -> {"idle"} \union Running \union Ended]
      /\ job \in [Captures -> Job \union {NoJob}]
      /\ reply \in [Captures -> SUBSET Captures]
  BY DEF IInv, TypeOK
<1> DEFINE Kept == pc[x] = "done" /\ reply'[x] = reply[x] /\ job'[x] = job[x]
           Committed == \E acked \in BOOLEAN : Commit(x, acked)
<1>1. Kept \/ Committed
  <2>1. ASSUME NEW c \in Captures, NEW d \in Decisions, NEW S \in SUBSET Symbols,
               NEW lead \in Leads, NEW m \in Mappings, Start(c, d, S, lead, m)
        PROVE  Kept
    BY <1>0, <2>1 DEF Start
  <2>2. ASSUME NEW c \in Captures, Crash(c) PROVE Kept
    BY <1>0, <2>2 DEF Crash
  <2>3. ASSUME NEW c \in Captures, Resubmit(c) PROVE Kept
    BY <1>0, <2>3 DEF Resubmit
  <2>4. ASSUME NEW c \in Captures, Assemble(c) PROVE Kept
    BY <1>0, <2>4 DEF Assemble
  <2>5. ASSUME NEW c \in Captures,
               Lock(c) \/ ReadStored(c) \/ ProviderFails(c) \/ DatabaseFails(c)
        PROVE  Kept
    BY <1>0, <2>5 DEF Lock, ReadStored, ProviderFails, DatabaseFails
  <2>6. ASSUME NEW c \in Captures, NEW acked \in BOOLEAN, Commit(c, acked)
        PROVE  Kept \/ Committed
    <3>1. CASE c = x
      BY <2>6, <3>1
    <3>2. CASE c # x
      BY <1>0, <2>6, <3>2 DEF Commit
    <3> QED BY <3>1, <3>2
  <2>7. ASSUME UNCHANGED <<pc, job, reply>> PROVE Kept
    BY <2>7
  <2> HIDE DEF Kept, Committed
  <2> QED
    BY <2>1, <2>2, <2>3, <2>4, <2>5, <2>6, <2>7
    DEF Next, Work, Progress, RetrieveMark, RetrieveClose, Tick, vars, locals
<1>2. CASE Kept
  <2>1. reply[x] # {} /\ reply[x] = SnapshotOf(job[x].decision)
    BY <1>2 DEF IInv, Safety, RepliesAgree
  <2>2. CASE UNCHANGED tables
    BY <1>2, <2>1, <2>2 DEF SnapshotOf, tables
  <2>3. CASE \E c \in Captures, acked \in BOOLEAN : Commit(c, acked) /\ Stores(c)
    <3>1. PICK c \in Captures, acked \in BOOLEAN : Commit(c, acked) /\ Stores(c)
      BY <2>3
    <3>2. \/ SnapshotOf(job[c].decision) = {} /\ snapshots' = snapshots \union {SnapshotFrom(c)}
          \/ snapshots' = snapshots
      BY <3>1, StoringCommit
    <3>3. SnapshotFrom(c).decision = job[c].decision
      BY DEF SnapshotFrom
    <3>4. SnapshotOf(job[x].decision)' = SnapshotOf(job[x].decision)
      BY <1>2, <2>1, <3>2, <3>3 DEF SnapshotOf
    <3> QED BY <1>2, <2>1, <3>4
  <2> QED BY <2>2, <2>3, OnlyCommitWrites
<1>3. CASE Committed
  <2>1. PICK acked \in BOOLEAN : Commit(x, acked)
    BY <1>3
  <2>2. acked /\ reply'[x] = (IF seen[x].run \/ Stores(x) THEN Answer(x) ELSE {})
        /\ job'[x] = job[x] /\ pc[x] = "writing"
    BY <1>0, <2>1 DEF Commit
  <2>3. seen[x].run \/ Stores(x)
    BY <2>2, NoUniqueViolation DEF Stores
  <2>4. /\ seen[x].run <=> \E r \in runs : r.capture = x
        /\ seen[x].snapshot = SnapshotOf(job[x].decision)
    BY <2>2 DEF IInv, SeenInv
  <2>5. CASE Stores(x)
    <3>1. /\ \/ SnapshotOf(job[x].decision) = {} /\ snapshots' = snapshots \union {SnapshotFrom(x)}
             \/ SnapshotOf(job[x].decision) # {} /\ snapshots' = snapshots
          /\ Answer(x) = IF SnapshotOf(job[x].decision) = {} THEN {x}
                         ELSE SnapshotOf(job[x].decision)
      BY <2>1, <2>5, StoringCommit
    <3>2. SnapshotFrom(x).decision = job[x].decision /\ SnapshotFrom(x).capture = x
      BY DEF SnapshotFrom
    <3>3. CASE SnapshotOf(job[x].decision) = {} /\ snapshots' = snapshots \union {SnapshotFrom(x)}
      <4>1. SnapshotOf(job[x].decision)' = {x}
        BY <2>2, <3>2, <3>3 DEF SnapshotOf
      <4> QED BY <2>2, <2>3, <3>1, <3>3, <4>1
    <3>4. CASE SnapshotOf(job[x].decision) # {} /\ snapshots' = snapshots
      <4>1. SnapshotOf(job[x].decision)' = SnapshotOf(job[x].decision)
        BY <2>2, <3>4 DEF SnapshotOf
      <4> QED BY <2>2, <2>3, <3>1, <3>4, <4>1
    <3> QED BY <3>1, <3>3, <3>4
  <2>6. CASE ~Stores(x)
    <3>1. UNCHANGED tables
      BY <2>1, <2>6 DEF Commit
    <3>2. PICK r \in runs : r.capture = x
      BY <2>3, <2>4, <2>6
    <3>3. r.decision = job[x].decision
      BY <2>2, <3>2 DEF IInv, RowsInv
    <3>4. SnapshotOf(job[x].decision) # {}
      BY <3>2, <3>3 DEF IInv, Safety, EvidenceHasSnapshot
    <3>5. SnapshotOf(job[x].decision)' = SnapshotOf(job[x].decision)
      BY <2>2, <3>1 DEF SnapshotOf, tables
    <3> QED BY <2>2, <2>3, <2>4, <3>4, <3>5 DEF Answer
  <2> QED BY <2>5, <2>6
<1> HIDE DEF Kept, Committed
<1> QED BY <1>1, <1>2, <1>3

(* No step takes a call to the conflict state.                             *)
LEMMA ConflictStep == IInv /\ [Next]_vars => NeverConflicts'
<1> SUFFICES ASSUME IInv, [Next]_vars, NEW x \in Captures, pc'[x] = "conflict"
             PROVE  FALSE
  BY DEF NeverConflicts
<1>0. pc \in [Captures -> {"idle"} \union Running \union Ended] /\ pc[x] # "conflict"
  BY DEF IInv, TypeOK, Safety, NeverConflicts
<1>1. ASSUME NEW c \in Captures, NEW acked \in BOOLEAN, Commit(c, acked) PROVE FALSE
  <2>1. ~(~seen[c].run /\ UniqueViolation(c))
    BY <1>1, NoUniqueViolation DEF Commit
  <2> QED BY <1>0, <1>1, <2>1 DEF Commit
<1>2. ASSUME NEW c \in Captures, NEW d \in Decisions, NEW S \in SUBSET Symbols,
             NEW lead \in Leads, NEW m \in Mappings, Start(c, d, S, lead, m)
      PROVE  FALSE
  BY <1>0, <1>2 DEF Start
<1>3. ASSUME NEW c \in Captures, Crash(c) \/ Resubmit(c) \/ Assemble(c) PROVE FALSE
  BY <1>0, <1>3 DEF Crash, Resubmit, Assemble
<1>4. ASSUME NEW c \in Captures, Lock(c) \/ ReadStored(c) \/ ProviderFails(c) \/ DatabaseFails(c)
      PROVE  FALSE
  BY <1>0, <1>4 DEF Lock, ReadStored, ProviderFails, DatabaseFails
<1>5. ASSUME UNCHANGED pc PROVE FALSE
  BY <1>0, <1>5
<1> QED
  BY <1>1, <1>2, <1>3, <1>4, <1>5
  DEF Next, Work, Progress, RetrieveMark, RetrieveClose, Tick, vars, locals

-----------------------------------------------------------------------------
(* The invariant is inductive.                                             *)
LEMMA StepIInv == IInv /\ [Next]_vars => IInv'
<1> SUFFICES ASSUME IInv, [Next]_vars PROVE IInv'
  OBVIOUS
<1>1. SnapshotEvidenced' /\ SnapshotPaired' /\ OneSnapshotPerDecision' /\ EvidenceHasSnapshot'
  BY OnlyCommitWrites, QuietSafetyStep, StoringSafetyStep
<1> QED
  BY <1>1, TypeStep, LockStep, HeldStep, SubmittedStep, SeenStep, RowsStep, RepliesStep,
     ConflictStep
  DEF IInv, Safety

(* Everything below rests on this: the invariant of persist_point_in_time_ *)
(* capture and its callers holds in every reachable state.                 *)
THEOREM Inductive == Spec => []IInv
  BY InitIInv, StepIInv, PTL DEF Spec

(* Every variable keeps its type.                                          *)
THEOREM TypeCorrect == Spec => []TypeOK
<1>1. IInv => TypeOK
  BY DEF IInv
<1> QED BY <1>1, Inductive, PTL

(* No lookahead: a stored snapshot binds only versions its own capture     *)
(* retrieved by the decision.                                              *)
THEOREM NoLookahead == Spec => []SnapshotEvidenced
<1>1. IInv => SnapshotEvidenced
  BY DEF IInv, Safety
<1> QED BY <1>1, Inductive, PTL

(* A stored snapshot is a whole set of pairs.                              *)
THEOREM WholePairs == Spec => []SnapshotPaired
<1>1. IInv => SnapshotPaired
  BY DEF IInv, Safety
<1> QED BY <1>1, Inductive, PTL

(* At most one snapshot per decision, and one as soon as there is evidence. *)
THEOREM ExactlyOneSnapshot == Spec => [](OneSnapshotPerDecision /\ EvidenceHasSnapshot)
<1>1. IInv => OneSnapshotPerDecision /\ EvidenceHasSnapshot
  BY DEF IInv, Safety
<1> QED BY <1>1, Inductive, PTL

(* Racing captures never meet a unique key, and are told the same snapshot. *)
THEOREM RacersAgree == Spec => [](RepliesAgree /\ NeverConflicts)
<1>1. IInv => RepliesAgree /\ NeverConflicts
  BY DEF IInv, Safety
<1> QED BY <1>1, Inductive, PTL

(* Rows are added only, and a version that is there is not dated again.    *)
LEMMA TablesGrow ==
  ASSUME IInv, [Next]_vars
  PROVE  /\ runs \subseteq runs' /\ retrievals \subseteq retrievals'
         /\ versions \subseteq versions' /\ snapshots \subseteq snapshots'
         /\ \A new \in versions' \ versions : \A old \in versions :
              old.version # new.version
<1>1. CASE UNCHANGED tables
  BY <1>1 DEF tables
<1>2. CASE \E c \in Captures, acked \in BOOLEAN : Commit(c, acked) /\ Stores(c)
  BY <1>2, StoringCommit DEF VersionsAdded
<1> QED BY <1>1, <1>2, OnlyCommitWrites

(* No step removes, changes or dates again a stored row.                   *)
THEOREM RowsAreKept == Spec => AppendOnly
<1>1. IInv /\ [Next]_vars =>
        [/\ runs \subseteq runs' /\ retrievals \subseteq retrievals'
         /\ versions \subseteq versions' /\ snapshots \subseteq snapshots'
         /\ \A new \in versions' \ versions : \A old \in versions :
              old.version # new.version]_vars
  BY TablesGrow
<1> QED BY <1>1, Inductive, PTL DEF Spec, AppendOnly

(* The tables implement the ledger: a storing commit accepts its capture,  *)
(* every other step is a stutter.                                          *)
THEOREM Refinement == Spec => ImplementsLedger
<1> DEFINE Evidence == [d \in Decisions |-> {r.capture : r \in {q \in runs : q.decision = d}}]
           Snapshot == [d \in Decisions |-> SnapshotOf(d)]
<1>1. Init => Ledger!Init
  BY DEF Init, Ledger!Init, SnapshotOf
<1>2. IInv /\ [Next]_vars => [Ledger!Next]_(Ledger!vars)
  <2> SUFFICES ASSUME IInv, [Next]_vars
      PROVE  Ledger!Next \/ UNCHANGED Ledger!vars
    OBVIOUS
  <2>1. CASE UNCHANGED tables
    <3>1. Evidence' = Evidence /\ Snapshot' = Snapshot
      BY <2>1 DEF tables, SnapshotOf
    <3> QED BY <3>1 DEF Ledger!vars
  <2>2. CASE \E c \in Captures, acked \in BOOLEAN : Commit(c, acked) /\ Stores(c)
    <3>1. PICK c \in Captures, acked \in BOOLEAN : Commit(c, acked) /\ Stores(c)
      BY <2>2
    <3>0. PICK D \in Decisions : D = job[c].decision
      BY <3>1, StoringCommit DEF Job
    <3>2. /\ \A r \in runs : r.capture # c
          /\ runs' = runs \union {RunOf(c)}
          /\ \/ SnapshotOf(D) = {} /\ snapshots' = snapshots \union {SnapshotFrom(c)}
             \/ SnapshotOf(D) # {} /\ snapshots' = snapshots
      BY <3>0, <3>1, StoringCommit
    <3>3. /\ RunOf(c).decision = D /\ RunOf(c).capture = c
          /\ SnapshotFrom(c).decision = D /\ SnapshotFrom(c).capture = c
      BY <3>0 DEF RunOf, SnapshotFrom
    <3>4. c \notin Evidence[D]
      BY <3>2
    <3>5. Evidence' = [Evidence EXCEPT ![D] = @ \union {c}]
      <4>1. \A d \in Decisions : Evidence'[d] = IF d = D THEN Evidence[d] \union {c}
                                                        ELSE Evidence[d]
        BY <3>2, <3>3
      <4> QED BY <4>1
    <3>6. Snapshot' = [Snapshot EXCEPT ![D] = IF @ = {} THEN {c} ELSE @]
      <4>1. ASSUME NEW d \in Decisions
            PROVE  Snapshot'[d] = IF d = D /\ Snapshot[d] = {} THEN {c} ELSE Snapshot[d]
        <5>1. CASE SnapshotOf(D) # {} /\ snapshots' = snapshots
          BY <5>1 DEF SnapshotOf
        <5>2. CASE SnapshotOf(D) = {} /\ snapshots' = snapshots \union {SnapshotFrom(c)}
          <6>1. CASE d = D
            BY <3>3, <5>2, <6>1 DEF SnapshotOf
          <6>2. CASE d # D
            <7>1. {t \in snapshots' : t.decision = d} = {t \in snapshots : t.decision = d}
              BY <3>3, <5>2, <6>2
            <7> QED BY <6>2, <7>1 DEF SnapshotOf
          <6> QED BY <6>1, <6>2
        <5> QED BY <3>2, <5>1, <5>2
      <4> QED BY <4>1
    <3>7. Ledger!Accept(D, c)
      BY <3>4, <3>5, <3>6 DEF Ledger!Accept
    <3> QED BY <3>7 DEF Ledger!Next
  <2> QED BY <2>1, <2>2, OnlyCommitWrites
<1> QED BY <1>1, <1>2, Inductive, PTL DEF Spec, ImplementsLedger, Ledger!Spec

-----------------------------------------------------------------------------
(* What a composition of captures with their callers needs to know.        *)
OthersStay(c) == \A x \in Captures \ {c} : pc'[x] = pc[x] /\ job'[x] = job[x]

(* A call at work stays about its decision and neither starts over nor dies. *)
LEMMA WorkIsOwn ==
  ASSUME IInv, NEW c \in Captures, Work(c)
  PROVE  /\ now' = now /\ OthersStay(c)
         /\ pc[c] \in Running /\ pc'[c] \notin {"idle", "crashed"}
         /\ job'[c].decision = job[c].decision
<1> DEFINE Own == /\ now' = now /\ OthersStay(c)
                  /\ pc[c] \in Running /\ pc'[c] \notin {"idle", "crashed"}
                  /\ job'[c].decision = job[c].decision
<1> USE DEF OthersStay, Running, InTransaction
<1>0. /\ pc \in [Captures -> {"idle"} \union Running \union Ended]
      /\ job \in [Captures -> Job \union {NoJob}]
  BY DEF IInv, TypeOK
<1>1. ASSUME NEW s \in Symbols, NEW v \in Values, RetrieveMark(c, s, v) \/ RetrieveClose(c, s, v)
      PROVE  Own
  BY <1>0, <1>1 DEF RetrieveMark, RetrieveClose
<1>2. ASSUME Assemble(c) PROVE Own
  BY <1>0, <1>2 DEF Assemble
<1>3. ASSUME ReadStored(c) \/ Lock(c) \/ ProviderFails(c) \/ DatabaseFails(c) PROVE Own
  BY <1>0, <1>3 DEF ReadStored, Lock, ProviderFails, DatabaseFails
<1>4. ASSUME NEW acked \in BOOLEAN, Commit(c, acked) PROVE Own
  BY <1>0, <1>4 DEF Commit
<1>5. Own
  <2> HIDE DEF Own
  <2> QED BY <1>1, <1>2, <1>3, <1>4 DEF Work, Progress
<1> QED BY <1>5

LEMMA StartIsOwn ==
  ASSUME IInv, NEW c \in Captures, NEW d, NEW S, NEW lead, NEW m, Start(c, d, S, lead, m)
  PROVE  /\ now' = now /\ UNCHANGED tables /\ OthersStay(c)
         /\ pc[c] = "idle" /\ pc'[c] \in {"collecting", "failed"}
         /\ job'[c].decision = d
  BY DEF IInv, TypeOK, Start, OthersStay

LEMMA CrashIsOwn ==
  ASSUME IInv, NEW c \in Captures, Crash(c)
  PROVE  /\ now' = now /\ UNCHANGED tables /\ OthersStay(c)
         /\ pc[c] \in Running /\ pc'[c] = "crashed"
  BY DEF IInv, TypeOK, Crash, OthersStay

(* A failed call reports no more pairs than there are symbols.             *)
LEMMA PairsBounded ==
  ASSUME IInv, NEW c \in Captures
  PROVE  CompletedSymbols(c) \in 0..Cardinality(Symbols)
<1> DEFINE P == Symbols \X Fields
           f == [r \in held[c] |-> <<r.version.symbol, r.version.field>>]
<1>1. IsFiniteSet(Fields) /\ Cardinality(Fields) = 2
  <2>1. Fields = {"REALITY_DECISION_MARK"} \union {"PREVIOUS_NATIVE_CLOSE"}
    BY DEF Fields
  <2>2. /\ IsFiniteSet({"REALITY_DECISION_MARK"})
        /\ Cardinality({"REALITY_DECISION_MARK"}) = 1
    BY FS_Singleton
  <2>3. "PREVIOUS_NATIVE_CLOSE" \notin {"REALITY_DECISION_MARK"}
    OBVIOUS
  <2> QED BY <2>1, <2>2, <2>3, FS_AddElement
<1>2. /\ IsFiniteSet(P) /\ Cardinality(P) = Cardinality(Symbols) * 2
      /\ Cardinality(Symbols) \in Nat
  BY <1>1, SymbolsAssumption, FS_Product, FS_CardinalityType
<1>3. f \in Injection(held[c], P)
  <2>1. \A r \in held[c] : r.version.symbol \in Symbols /\ r.version.field \in Fields
    BY DEF IInv, TypeOK, Retrieval, Version
  <2>2. \A q, r \in held[c] :
          q.version.symbol = r.version.symbol /\ q.version.field = r.version.field => q = r
    BY DEF IInv, HeldInv
  <2>3. f \in [held[c] -> P]
    BY <2>1
  <2>4. ASSUME NEW q \in held[c], NEW r \in held[c], f[q] = f[r] PROVE q = r
    <3>1. q.version.symbol = r.version.symbol /\ q.version.field = r.version.field
      BY <2>4
    <3> QED BY <2>2, <3>1
  <2> HIDE DEF f, P
  <2> QED BY <2>3, <2>4 DEF Injection, IsInjective
<1>4. IsFiniteSet(held[c]) /\ Cardinality(held[c]) <= Cardinality(P)
  BY <1>2, <1>3, FS_Injection
<1>5. Cardinality(held[c]) \in Nat
  BY <1>4, FS_CardinalityType
<1> HIDE DEF P
<1>6. ASSUME NEW n \in Nat, NEW k \in Nat, n <= k * 2 PROVE n \div 2 \in 0..k
  BY <1>6
<1> QED BY <1>2, <1>4, <1>5, <1>6 DEF CompletedSymbols
=============================================================================
