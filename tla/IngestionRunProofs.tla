------------------------- MODULE IngestionRunProofs -------------------------
(***************************************************************************)
(* Proofs about IngestionRun, for every number of calls, keys, values and  *)
(* records.                                                                *)
(***************************************************************************)
EXTENDS IngestionRun, SequenceTheorems, FiniteSetTheorems, NaturalsInduction,
        WellFoundedInduction, TLAPS

(* An input is a sequence of records. *)
LEMMA InputType ==
  ASSUME NEW kind \in Kinds, NEW s \in Inputs(kind)
  PROVE  /\ s \in Seq(Record) /\ Len(s) \in Nat /\ DOMAIN s = 1..Len(s)
         /\ kind # "reference" => Ascending(s)
<1>1. PICK n \in 0..MaxRecords : s \in [1..n -> Record]
  BY DEF Inputs
<1>2. s \in Seq(Record)
  BY <1>1, MaxRecordsAssumption, SeqDef
<1> QED BY <1>2, LenProperties DEF Inputs

(* The record that an inserting call is at. *)
LEMMA InsertsRecord ==
  ASSUME IInv, NEW c \in Calls, Inserting(c)
  PROVE  /\ next[c] \in DOMAIN job[c].records
         /\ job[c].records[next[c]] \in Record
         /\ job[c].kind \in Kinds
<1>1. /\ job[c].records \in Seq(Record)
      /\ next[c] \in Nat \ {0}
  BY DEF IInv, TypeOK
<1>2. /\ Len(job[c].records) \in Nat
      /\ DOMAIN job[c].records = 1..Len(job[c].records)
      /\ job[c].records \in [1..Len(job[c].records) -> Record]
  BY <1>1, LenProperties
<1> QED BY <1>1, <1>2 DEF Inserting, IInv, JobInv

(* The initial state satisfies the invariant. *)
LEMMA InitIInv == Init => IInv
<1> SUFFICES ASSUME Init PROVE IInv
  OBVIOUS
<1>1. <<>> \in Seq(Record) /\ Len(<<>>) = 0 /\ DOMAIN <<>> = {}
  BY EmptySeq
<1>2. TypeOK
  BY <1>1 DEF Init, TypeOK, NoRun, NoJob
<1>3. JobInv
  BY <1>1 DEF Init, JobInv, NoRun, NoJob, NotStored, Ascending
<1>4. OpenInv
  BY FS_EmptySet DEF Init, OpenInv
<1>5. UniqueInv /\ CoveredInv /\ StoredInv
  BY DEF Init, UniqueInv, CoveredInv, StoredInv
<1>6. SucceededHolds
  BY DEF Init, SucceededHolds, NoRun
<1> QED BY <1>2, <1>3, <1>4, <1>5, <1>6 DEF IInv

(* The state after a step has the types of the state before it. *)
LEMMA TypeStep == IInv /\ [Next]_vars => TypeOK'
<1> SUFFICES ASSUME IInv, [Next]_vars PROVE TypeOK'
  OBVIOUS
<1> USE DEF IInv, TypeOK
<1>1. ASSUME NEW c \in Calls, NEW kind \in Kinds, NEW s \in Inputs(kind), Create(c, kind, s)
      PROVE  TypeOK'
  <2>1. s \in Seq(Record) /\ Len(s) \in Nat /\ kind \in {"candles", "native", "reference"}
    BY InputType, KindsAssumption
  <2>2. pc' \in [Calls -> {"idle", "writing", "failing"} \union Ended]
    BY <1>1 DEF Create, Ended
  <2> QED BY <1>1, <2>1, <2>2 DEF Create
<1>2. ASSUME NEW c \in Calls, CreateFails(c) PROVE TypeOK'
  BY <1>2 DEF CreateFails, tables, Ended
<1>3. ASSUME NEW c \in Calls, Insert(c) PROVE TypeOK'
  <2>1. [kind |-> job[c].kind, record |-> job[c].records[next[c]], by |-> c] \in Row
    BY <1>3, InsertsRecord DEF Insert, Row
  <2>2. open' \in [Calls -> SUBSET Row]
    BY <1>3, <2>1 DEF Insert
  <2> QED BY <1>3, <2>2 DEF Insert, tables
<1>4. ASSUME NEW c \in Calls, NEW acked \in BOOLEAN, Commit(c, acked) PROVE TypeOK'
  <2>1. RawOf(c) \subseteq [call : Calls, record : Record]
    <3>1. job[c].records \in Seq(Record)
      OBVIOUS
    <3>2. \A i \in DOMAIN job[c].records : job[c].records[i] \in Record
      BY <3>1, LenProperties
    <3> QED BY <3>2 DEF RawOf
  <2>2. Cardinality(open[c]) \in Nat /\ Len(job[c].records) \in Nat
    BY FS_CardinalityType, LenProperties DEF OpenInv
  <2>3. ingestionRuns' \in [Calls -> [status : {"NONE", "RUNNING", "SUCCEEDED", "FAILED"},
                                      received : Nat, written : Nat]]
    BY <1>4, <2>2 DEF Commit, Succeeded
  <2> QED BY <1>4, <2>1, <2>3 DEF Commit, Published, Ended
<1>5. ASSUME NEW c \in Calls, Rollback(c) PROVE TypeOK'
  BY <1>5 DEF Rollback, tables
<1>6. ASSUME NEW c \in Calls, Finalize(c) PROVE TypeOK'
  <2>1. Len(job[c].records) \in Nat
    BY LenProperties
  <2> QED BY <1>6, <2>1 DEF Finalize, Ended
<1>7. ASSUME NEW c \in Calls, FinalizeFails(c) PROVE TypeOK'
  BY <1>7 DEF FinalizeFails, tables, Ended
<1>8. ASSUME NEW c \in Calls, Crash(c) PROVE TypeOK'
  BY <1>8 DEF Crash, tables, Ended
<1>9. CASE UNCHANGED vars
  BY <1>9 DEF vars, tables
<1> QED
  BY <1>1, <1>2, <1>3, <1>4, <1>5, <1>6, <1>7, <1>8, <1>9
     DEF Next, Progress, DatabaseFails, DeadlockAborts

(* A run is finished only by the commit or the handler, a job only changes *)
(* when its call starts.                                                   *)
LEMMA JobStep == IInv /\ [Next]_vars => JobInv'
<1> SUFFICES ASSUME IInv, [Next]_vars PROVE JobInv'
  OBVIOUS
<1> USE DEF IInv, TypeOK, JobInv
<1>1. ASSUME NEW c \in Calls, NEW kind \in Kinds, NEW s \in Inputs(kind), Create(c, kind, s)
      PROVE  JobInv'
  <2>1. Len(s) \in Nat /\ (kind # "reference" => Ascending(s))
    BY InputType
  <2>2. next'[c] = 1
    BY <1>1 DEF Create
  <2>3. ASSUME NEW x \in Calls
        PROVE  /\ pc'[x] = "idle" => next'[x] = 1
               /\ pc'[x] \in {"idle", "writing"} => ingestionRuns'[x].status \in NotStored
               /\ pc'[x] = "writing" => /\ job'[x].kind \in Kinds
                                        /\ next'[x] <= Len(job'[x].records) + 1
               /\ job'[x].kind # "reference" => Ascending(job'[x].records)
    BY <1>1, <2>1, <2>2 DEF Create, NotStored
  <2> QED BY <2>3 DEF JobInv
<1>2. ASSUME NEW c \in Calls, CreateFails(c) PROVE JobInv'
  BY <1>2 DEF CreateFails, tables
<1>3. ASSUME NEW c \in Calls, Insert(c) PROVE JobInv'
  <2>1. Len(job[c].records) \in Nat /\ next[c] \in Nat
    BY LenProperties
  <2>2. /\ next[c] <= Len(job[c].records) /\ pc[c] = "writing"
        /\ next' = [next EXCEPT ![c] = @ + 1]
        /\ UNCHANGED <<ingestionRuns, pc, job>>
    BY <1>3 DEF Insert, Inserting, tables
  <2>3. next'[c] <= Len(job[c].records) + 1
    BY <2>1, <2>2
  <2>4. \A x \in Calls : x # c => next'[x] = next[x]
    BY <2>2
  <2> QED BY <2>2, <2>3, <2>4
<1>4. ASSUME NEW c \in Calls, NEW acked \in BOOLEAN, Commit(c, acked) PROVE JobInv'
  BY <1>4 DEF Commit
<1>5. ASSUME NEW c \in Calls, Rollback(c) PROVE JobInv'
  BY <1>5 DEF Rollback, tables
<1>6. ASSUME NEW c \in Calls, Finalize(c) PROVE JobInv'
  BY <1>6 DEF Finalize
<1>7. ASSUME NEW c \in Calls, FinalizeFails(c) PROVE JobInv'
  BY <1>7 DEF FinalizeFails, tables
<1>8. ASSUME NEW c \in Calls, Crash(c) PROVE JobInv'
  BY <1>8 DEF Crash, tables
<1>9. CASE UNCHANGED vars
  BY <1>9 DEF vars, tables
<1> QED
  BY <1>1, <1>2, <1>3, <1>4, <1>5, <1>6, <1>7, <1>8, <1>9
     DEF Next, Progress, DatabaseFails, DeadlockAborts

(* Only an insert adds to an open transaction, and only to its own.        *)
LEMMA OpenStep == IInv /\ [Next]_vars => OpenInv'
<1> SUFFICES ASSUME IInv, [Next]_vars PROVE OpenInv'
  OBVIOUS
<1> USE DEF IInv, TypeOK, OpenInv
<1>1. ASSUME NEW c \in Calls, NEW kind \in Kinds, NEW s \in Inputs(kind), Create(c, kind, s)
      PROVE  OpenInv'
  <2>1. open[c] = {}
    BY <1>1 DEF Create, OpenRow
  <2> QED BY <1>1, <2>1 DEF Create, OpenRow
<1>2. ASSUME NEW c \in Calls, CreateFails(c) PROVE OpenInv'
  BY <1>2 DEF CreateFails, tables, OpenRow
<1>3. ASSUME NEW c \in Calls, Insert(c) PROVE OpenInv'
  <2> DEFINE new == [kind |-> job[c].kind, record |-> job[c].records[next[c]], by |-> c]
  <2>1. next[c] \in DOMAIN job[c].records /\ next[c] \in Nat
    BY <1>3, InsertsRecord DEF Insert
  <2>2. open'[c] \in {open[c], open[c] \union {new}}
    BY <1>3 DEF Insert
  <2>3. IsFiniteSet(open'[c])
    <3>1. IsFiniteSet(open[c])
      OBVIOUS
    <3>2. \A row : IsFiniteSet(open[c] \union {row})
      BY <3>1, FS_AddElement
    <3> QED BY <2>2, <3>1, <3>2
  <2>4. next'[c] = next[c] + 1 /\ UNCHANGED <<pc, job>> /\ pc[c] = "writing"
    BY <1>3 DEF Insert, Inserting
  <2>5. DOMAIN job[c].records \subseteq Nat
    BY LenProperties
  <2>6. ASSUME NEW row \in open'[c] PROVE OpenRow(c, row)'
    <3>1. CASE row \in open[c]
      <4>1. PICK i \in DOMAIN job[c].records : i < next[c] /\ row.record = job[c].records[i]
        BY <3>1 DEF OpenRow
      <4>2. i < next'[c]
        BY <4>1, <2>1, <2>4, <2>5
      <4> QED BY <3>1, <4>1, <4>2, <2>4 DEF OpenRow
    <3>2. CASE row = new
      <4>1. next[c] < next'[c]
        BY <2>1, <2>4
      <4> QED BY <3>2, <4>1, <2>1, <2>4 DEF OpenRow
    <3> QED BY <3>1, <3>2, <2>2
  <2>7. \A x \in Calls : x # c => open'[x] = open[x] /\ next'[x] = next[x]
    BY <1>3 DEF Insert
  <2>8. ASSUME NEW x \in Calls, x # c
        PROVE  IsFiniteSet(open'[x]) /\ \A row \in open'[x] : OpenRow(x, row)'
    <3>1. IsFiniteSet(open[x]) /\ open'[x] = open[x]
      BY <2>7, <2>8
    <3>2. ASSUME NEW row \in open'[x] PROVE OpenRow(x, row)'
      <4>1. OpenRow(x, row)
        BY <3>1, <3>2
      <4>2. next'[x] = next[x] /\ pc' = pc /\ job' = job
        BY <2>4, <2>7, <2>8
      <4> QED BY <4>1, <4>2 DEF OpenRow
    <3> QED BY <3>1, <3>2
  <2> QED BY <2>3, <2>6, <2>8
<1>4. ASSUME NEW c \in Calls, NEW acked \in BOOLEAN, Commit(c, acked) PROVE OpenInv'
  BY <1>4, FS_EmptySet DEF Commit, OpenRow
<1>5. ASSUME NEW c \in Calls, Rollback(c) PROVE OpenInv'
  BY <1>5, FS_EmptySet DEF Rollback, tables, OpenRow
<1>6. ASSUME NEW c \in Calls, Finalize(c) PROVE OpenInv'
  BY <1>6 DEF Finalize, OpenRow
<1>7. ASSUME NEW c \in Calls, FinalizeFails(c) PROVE OpenInv'
  BY <1>7 DEF FinalizeFails, tables, OpenRow
<1>8. ASSUME NEW c \in Calls, Crash(c) PROVE OpenInv'
  BY <1>8, FS_EmptySet DEF Crash, tables, OpenRow
<1>9. CASE UNCHANGED vars
  BY <1>9 DEF vars, tables, OpenRow
<1> HIDE DEF IInv, TypeOK, OpenInv
<1> QED
  BY <1>1, <1>2, <1>3, <1>4, <1>5, <1>6, <1>7, <1>8, <1>9
     DEF Next, Progress, DatabaseFails, DeadlockAborts

(* A step that stores nothing and inserts nothing keeps identities unique. *)
LEMMA UniqueLesser ==
  ASSUME UniqueInv, normalized' = normalized,
         \A c \in Calls : open'[c] \subseteq open[c]
  PROVE  UniqueInv'
BY DEF UniqueInv

(* An insert waits for whoever holds its identity, a commit makes stored   *)
(* what was unique before.                                                 *)
LEMMA UniqueStep == IInv /\ [Next]_vars => UniqueInv'
<1> SUFFICES ASSUME IInv, [Next]_vars PROVE UniqueInv'
  OBVIOUS
<1>1. UniqueInv /\ open \in [Calls -> SUBSET Row]
  BY DEF IInv, TypeOK
<1>2. ASSUME NEW c \in Calls, Insert(c) PROVE UniqueInv'
  <2> DEFINE new == [kind |-> job[c].kind, record |-> job[c].records[next[c]], by |-> c]
  <2>1. normalized' = normalized /\ \A x \in Calls : x # c => open'[x] = open[x]
    BY <1>1, <1>2 DEF Insert, tables
  <2>2. CASE \E row \in normalized \union open[c] : IdentityOf(row) = NextIdentity(c)
    <3>1. open'[c] = open[c]
      BY <1>1, <1>2, <2>2 DEF Insert
    <3> QED BY <1>1, <2>1, <3>1, UniqueLesser
  <2>3. CASE ~ \E row \in normalized \union open[c] : IdentityOf(row) = NextIdentity(c)
    <3>1. open'[c] = open[c] \union {new}
      BY <1>1, <1>2, <2>3 DEF Insert
    <3>2. IdentityOf(new) = NextIdentity(c)
      BY DEF IdentityOf, NextIdentity
    <3>3. \A d \in Calls : \A row \in open[d] : IdentityOf(row) # IdentityOf(new)
      BY <1>2, <2>3, <3>2 DEF Insert, Free, WaitsFor
    <3>4. \A row \in normalized : IdentityOf(row) # IdentityOf(new)
      BY <2>3, <3>2
    <3> HIDE DEF new
    <3>5. \A x \in Calls : \A r \in open'[x] : r \in open[x] \/ r = new
      BY <2>1, <3>1
    <3> QED BY <1>1, <2>1, <3>3, <3>4, <3>5 DEF UniqueInv
  <2> QED BY <2>2, <2>3
<1>3. ASSUME NEW c \in Calls, NEW acked \in BOOLEAN, Commit(c, acked) PROVE UniqueInv'
  <2>1. /\ normalized' = normalized \union open[c]
        /\ open'[c] = {}
        /\ \A x \in Calls : x # c => open'[x] = open[x]
    BY <1>1, <1>3 DEF Commit, Published
  <2>2. \A r \in open[c] : r.by = c
    BY DEF IInv, OpenInv, OpenRow
  <2>3. \A x \in Calls : \A r \in open'[x] : x # c /\ r \in open[x] /\ r.by = x
    BY <2>1 DEF IInv, OpenInv, OpenRow
  <2> QED BY <1>1, <2>1, <2>2, <2>3 DEF UniqueInv
<1>4. CASE \E c \in Calls : Rollback(c) \/ Crash(c)
  <2>1. normalized' = normalized /\ \A x \in Calls : open'[x] \subseteq open[x]
    BY <1>1, <1>4 DEF Rollback, Crash, tables
  <2> QED BY <1>1, <2>1, UniqueLesser
<1>5. CASE UNCHANGED <<normalized, open>>
  BY <1>1, <1>5, UniqueLesser
<1>6. ASSUME NEW c \in Calls,
             \/ \E kind \in Kinds : \E s \in Inputs(kind) : Create(c, kind, s)
             \/ CreateFails(c) \/ Finalize(c) \/ FinalizeFails(c)
      PROVE  UNCHANGED <<normalized, open>>
  BY <1>6 DEF Create, CreateFails, Finalize, FinalizeFails, tables
<1> QED
  BY <1>2, <1>3, <1>4, <1>5, <1>6
     DEF Next, Progress, DatabaseFails, DeadlockAborts, vars, tables

(* What a call has gone past stays covered by what is stored or open.      *)
LEMMA CoveredStep == IInv /\ [Next]_vars => CoveredInv'
<1> SUFFICES ASSUME IInv, [Next]_vars,
                    NEW x \in Calls, pc'[x] = "writing",
                    NEW i \in DOMAIN job'[x].records, i < next'[x]
             PROVE  \E row \in normalized' \union open'[x] :
                      IdentityOf(row) = Identity(job'[x].kind, job'[x].records[i])
  BY DEF CoveredInv
<1> USE DEF IInv, TypeOK
<1>1. \A c \in Calls : DOMAIN job[c].records \subseteq Nat
  BY LenProperties
<1>2. CASE /\ pc[x] = "writing" /\ job'[x] = job[x] /\ next'[x] = next[x]
           /\ normalized \subseteq normalized' /\ open[x] \subseteq open'[x]
  <2>1. PICK row \in normalized \union open[x] :
          IdentityOf(row) = Identity(job[x].kind, job[x].records[i])
    BY <1>2 DEF CoveredInv
  <2> QED BY <1>2, <2>1
<1>3. ASSUME NEW c \in Calls, NEW kind \in Kinds, NEW s \in Inputs(kind), Create(c, kind, s)
      PROVE  x # c /\ pc[x] = "writing" /\ UNCHANGED <<job[x], next[x], normalized, open>>
  <2>1. next'[c] = 1 /\ job'[c].records = s
    BY <1>3 DEF Create, JobInv
  <2>2. DOMAIN s = 1..Len(s) /\ Len(s) \in Nat
    BY InputType
  <2>3. x # c
    BY <2>1, <2>2
  <2> QED BY <1>3, <2>3 DEF Create
<1>4. ASSUME NEW c \in Calls, Insert(c)
      PROVE  \E row \in normalized' \union open'[x] :
                IdentityOf(row) = Identity(job'[x].kind, job'[x].records[i])
  <2>1. CASE x = c
    <3> DEFINE new == [kind |-> job[c].kind, record |-> job[c].records[next[c]], by |-> c]
    <3>1. /\ pc[c] = "writing" /\ next'[c] = next[c] + 1 /\ UNCHANGED <<normalized, job>>
          /\ open[c] \subseteq open'[c]
      BY <1>4 DEF Insert, Inserting, tables
    <3>2. i < next[c] \/ i = next[c]
      BY <1>1, <2>1, <3>1
    <3>3. CASE i < next[c]
      <4>1. PICK row \in normalized \union open[c] :
              IdentityOf(row) = Identity(job[c].kind, job[c].records[i])
        BY <2>1, <3>1, <3>3 DEF CoveredInv
      <4> QED BY <2>1, <3>1, <4>1
    <3>4. CASE i = next[c]
      <4>1. CASE \E row \in normalized \union open[c] : IdentityOf(row) = NextIdentity(c)
        <5>1. PICK row \in normalized \union open[c] : IdentityOf(row) = NextIdentity(c)
          BY <4>1
        <5> QED BY <2>1, <3>1, <3>4, <5>1 DEF NextIdentity
      <4>2. CASE ~ \E row \in normalized \union open[c] : IdentityOf(row) = NextIdentity(c)
        <5>1. new \in open'[c]
          BY <1>4, <4>2 DEF Insert
        <5>2. IdentityOf(new) = Identity(job[c].kind, job[c].records[next[c]])
          BY DEF IdentityOf
        <5> QED BY <2>1, <3>1, <3>4, <5>1, <5>2
      <4> QED BY <4>1, <4>2
    <3> QED BY <3>2, <3>3, <3>4
  <2>2. CASE x # c
    BY <1>2, <1>4, <2>2 DEF Insert, tables
  <2> QED BY <2>1, <2>2
<1>5. ASSUME NEW c \in Calls, NEW acked \in BOOLEAN, Commit(c, acked)
      PROVE  x # c /\ pc[x] = "writing" /\ UNCHANGED <<job, next, open[x]>>
             /\ normalized \subseteq normalized'
  BY <1>5 DEF Commit, Published
<1>6. ASSUME NEW c \in Calls, Rollback(c) \/ Crash(c)
      PROVE  x # c /\ pc[x] = "writing" /\ UNCHANGED <<job, next, open[x], normalized>>
  BY <1>6 DEF Rollback, Crash, tables
<1>7. ASSUME NEW c \in Calls, CreateFails(c) \/ Finalize(c) \/ FinalizeFails(c)
      PROVE  pc[x] = "writing" /\ UNCHANGED <<job, next, open, normalized>>
  BY <1>7 DEF CreateFails, Finalize, FinalizeFails, tables
<1>8. CASE UNCHANGED vars
  BY <1>2, <1>8 DEF vars, tables
<1> HIDE DEF IInv, TypeOK
<1> QED
  BY <1>2, <1>3, <1>4, <1>5, <1>6, <1>7, <1>8
     DEF Next, Progress, DatabaseFails, DeadlockAborts

(* Rows are stored by the commit that finishes their run.                  *)
LEMMA StoredStep == IInv /\ [Next]_vars => StoredInv'
<1> SUFFICES ASSUME IInv, [Next]_vars PROVE StoredInv'
  OBVIOUS
<1>1. /\ pc \in [Calls -> {"idle", "writing", "failing"} \union Ended]
      /\ \A row \in normalized : row.by \in Calls
      /\ \A r \in raw : r.call \in Calls
      /\ DOMAIN ingestionRuns = Calls
      /\ StoredInv
  BY DEF IInv, TypeOK, Row
<1>2. ASSUME NEW c \in Calls, NEW kind \in Kinds, NEW s \in Inputs(kind), Create(c, kind, s)
      PROVE  StoredInv'
  BY <1>1, <1>2 DEF Create, StoredInv
<1>3. ASSUME NEW c \in Calls, NEW acked \in BOOLEAN, Commit(c, acked) PROVE StoredInv'
  <2>1. \A row \in normalized' : row \in normalized \/ row.by = c
    BY <1>3 DEF Commit, Published, IInv, OpenInv, OpenRow
  <2>2. \A r \in raw' : r \in raw \/ r.call = c
    BY <1>3 DEF Commit, RawOf
  <2>3. /\ pc'[c] \notin {"idle", "writing"} /\ ingestionRuns'[c].status \notin NotStored
        /\ \A x \in Calls : x # c => pc'[x] = pc[x] /\ ingestionRuns'[x] = ingestionRuns[x]
    BY <1>1, <1>3 DEF Commit, Succeeded, NotStored
  <2> QED BY <1>1, <2>1, <2>2, <2>3 DEF StoredInv
<1>4. ASSUME NEW c \in Calls,
             CreateFails(c) \/ Insert(c) \/ Rollback(c) \/ FinalizeFails(c) \/ Crash(c)
      PROVE  StoredInv'
  <2>1. /\ UNCHANGED <<ingestionRuns, raw, normalized>>
        /\ \A x \in Calls : pc'[x] \in {"idle", "writing"} => pc[x] \in {"idle", "writing"}
    BY <1>1, <1>4 DEF CreateFails, Insert, Rollback, FinalizeFails, Crash, tables
  <2> QED BY <1>1, <2>1 DEF StoredInv
<1>5. ASSUME NEW c \in Calls, Finalize(c) PROVE StoredInv'
  BY <1>1, <1>5 DEF Finalize, StoredInv, NotStored
<1>6. CASE UNCHANGED vars
  BY <1>1, <1>6 DEF vars, tables, StoredInv
<1> QED
  BY <1>2, <1>3, <1>4, <1>5, <1>6
     DEF Next, Progress, DatabaseFails, DeadlockAborts

(* What holds of a SUCCEEDED run, for one call.                            *)
SucceededHoldsOf(c) ==
  ingestionRuns[c].status = "SUCCEEDED" =>
    /\ RawOf(c) \subseteq raw
    /\ \A i \in DOMAIN job[c].records : \E row \in normalized :
         IdentityOf(row) = Identity(job[c].kind, job[c].records[i])
    /\ ingestionRuns[c].written = Cardinality(RowsBy(c))

(* A commit makes its own run true, and no step disturbs another one's.    *)
LEMMA SucceededStep == IInv /\ [Next]_vars => SucceededHolds'
<1> SUFFICES ASSUME IInv, [Next]_vars, NEW x \in Calls PROVE SucceededHoldsOf(x)'
  BY DEF SucceededHolds, SucceededHoldsOf
<1>1. SucceededHoldsOf(x)
  BY DEF IInv, SucceededHolds, SucceededHoldsOf
<1>2. /\ ingestionRuns \in [Calls -> [status : {"NONE", "RUNNING", "SUCCEEDED", "FAILED"},
                                     received : Nat, written : Nat]]
      /\ DOMAIN job = Calls
  BY DEF IInv, TypeOK
<1>3. CASE UNCHANGED <<ingestionRuns[x], raw, normalized, job[x]>>
  BY <1>1, <1>3 DEF SucceededHoldsOf, RawOf, RowsBy
<1>4. ASSUME NEW c \in Calls, NEW kind \in Kinds, NEW s \in Inputs(kind), Create(c, kind, s)
      PROVE  SucceededHoldsOf(x)'
  <2>1. CASE x = c
    BY <1>2, <1>4, <2>1 DEF Create, SucceededHoldsOf
  <2>2. CASE x # c
    BY <1>2, <1>3, <1>4, <2>2 DEF Create
  <2> QED BY <2>1, <2>2
<1>5. ASSUME NEW c \in Calls, NEW acked \in BOOLEAN, Commit(c, acked)
      PROVE  SucceededHoldsOf(x)'
  <2>1. /\ raw' = raw \union RawOf(c) /\ normalized' = normalized \union open[c] /\ job' = job
        /\ \A y \in Calls : y # c => ingestionRuns'[y] = ingestionRuns[y]
        /\ ingestionRuns'[c].written = Cardinality(open[c])
    BY <1>2, <1>5 DEF Commit, Published, Succeeded
  <2>2. \A row \in open[c] : row.by = c
    BY DEF IInv, OpenInv, OpenRow
  <2>3. CASE x = c
    <3>1. RawOf(c)' = RawOf(c)
      BY <2>1 DEF RawOf
    <3>2. ASSUME NEW i \in DOMAIN job[c].records
          PROVE  \E row \in normalized' : IdentityOf(row) = Identity(job[c].kind, job[c].records[i])
      <4>1. i \in 1..Len(job[c].records) /\ Len(job[c].records) \in Nat /\ next[c] \in Nat
        BY LenProperties DEF IInv, TypeOK
      <4>2. pc[c] = "writing" /\ ~(next[c] <= Len(job[c].records))
        BY <1>5 DEF Commit, Inserting
      <4>3. i < next[c]
        BY <4>1, <4>2
      <4> QED BY <2>1, <4>2, <4>3 DEF IInv, CoveredInv
    <3>3. \A row \in normalized : row.by # c
      BY <1>5 DEF Commit, IInv, StoredInv
    <3>4. RowsBy(c)' = open[c]
      BY <2>1, <2>2, <3>3 DEF RowsBy
    <3> QED BY <2>1, <2>3, <3>1, <3>2, <3>4 DEF SucceededHoldsOf
  <2>4. CASE x # c
    <3>1. RowsBy(x)' = RowsBy(x) /\ RawOf(x)' = RawOf(x)
      BY <2>1, <2>2, <2>4 DEF RowsBy, RawOf
    <3> QED BY <1>1, <2>1, <2>4, <3>1 DEF SucceededHoldsOf
  <2> QED BY <2>3, <2>4
<1>6. ASSUME NEW c \in Calls, Finalize(c) PROVE SucceededHoldsOf(x)'
  <2>1. CASE x = c
    BY <1>2, <1>6, <2>1 DEF Finalize, SucceededHoldsOf
  <2>2. CASE x # c
    BY <1>2, <1>3, <1>6, <2>2 DEF Finalize
  <2> QED BY <2>1, <2>2
<1>7. ASSUME NEW c \in Calls,
             CreateFails(c) \/ Insert(c) \/ Rollback(c) \/ FinalizeFails(c) \/ Crash(c)
      PROVE  UNCHANGED <<ingestionRuns, raw, normalized, job>>
  BY <1>7 DEF CreateFails, Insert, Rollback, FinalizeFails, Crash, tables
<1>8. CASE UNCHANGED vars
  BY <1>3, <1>8 DEF vars, tables
<1> QED
  BY <1>3, <1>4, <1>5, <1>6, <1>7, <1>8
     DEF Next, Progress, DatabaseFails, DeadlockAborts

(* The inductive invariant holds in every state of every behaviour.        *)
THEOREM Inductive == Spec => []IInv
<1>1. IInv /\ [Next]_vars => IInv'
  BY TypeStep, JobStep, OpenStep, UniqueStep, CoveredStep, StoredStep, SucceededStep DEF IInv
<1> QED BY InitIInv, <1>1, PTL DEF Spec

(* Whatever races, an identity has one normalized row: ON CONFLICT DO      *)
(* NOTHING waits for an uncommitted insert of the same identity.           *)
THEOREM OneRow == Spec => []OneRowPerIdentity
<1>1. IInv => OneRowPerIdentity
  BY DEF IInv, UniqueInv, OneRowPerIdentity
<1> QED BY Inductive, <1>1, PTL

(* A SUCCEEDED run has its raw evidence, a row for each of its records and *)
(* the true count of the rows it brought.                                  *)
THEOREM RunsTrue == Spec => []SucceededHolds
<1>1. IInv => SucceededHolds
  BY DEF IInv
<1> QED BY Inductive, <1>1, PTL

(* A run that is left RUNNING has stored nothing.                          *)
THEOREM RunningEmpty == Spec => []RunningHoldsNothing
<1>1. IInv => RunningHoldsNothing
  BY DEF IInv, StoredInv, RunningHoldsNothing, RowsBy, NotStored
<1> QED BY Inductive, <1>1, PTL

(* The value that a SUCCEEDED run was given is never lost.                 *)
THEOREM Revisions == Spec => []RevisionsKept
<1>1. IInv => RevisionsKept
  <2> SUFFICES ASSUME IInv, NEW c \in Calls, ingestionRuns[c].status = "SUCCEEDED",
                      NEW i \in DOMAIN job[c].records
               PROVE  IF job[c].kind = "candles"
                      THEN [call |-> c, record |-> job[c].records[i]] \in raw
                      ELSE \E row \in normalized :
                             row.kind = job[c].kind /\ row.record = job[c].records[i]
    BY DEF RevisionsKept
  <2>1. CASE job[c].kind = "candles"
    BY <2>1 DEF IInv, SucceededHolds, RawOf
  <2>2. CASE job[c].kind # "candles"
    <3>1. job[c].records[i] \in Record
      BY LenProperties DEF IInv, TypeOK
    <3>2. PICK row \in normalized :
            IdentityOf(row) = Identity(job[c].kind, job[c].records[i])
      BY DEF IInv, SucceededHolds
    <3>3. row.record \in Record
      BY DEF IInv, TypeOK, Row
    <3>4. /\ row.kind = job[c].kind
          /\ row.record.key = job[c].records[i].key
          /\ {row.record.value} = {job[c].records[i].value}
      BY <2>2, <3>2 DEF IdentityOf, Identity
    <3>5. row.record = job[c].records[i]
      BY <3>1, <3>3, <3>4 DEF Record
    <3> QED BY <2>2, <3>4, <3>5
  <2> QED BY <2>1, <2>2
<1> QED BY Inductive, <1>1, PTL

(* No step removes or changes a raw or a normalized row.                   *)
THEOREM Kept == Spec => RowsKept
<1>1. [Next]_vars => [raw \subseteq raw' /\ normalized \subseteq normalized']_vars
  BY DEF Next, Progress, Create, CreateFails, Insert, Commit, Published, DatabaseFails,
         DeadlockAborts, Rollback, Finalize, FinalizeFails, Crash, tables
<1> QED BY <1>1, PTL DEF Spec, RowsKept

(* A set of numbers has a smallest one. *)
LEMMA Smallest ==
  ASSUME NEW T, T \subseteq Nat, T # {}
  PROVE  \E m \in T : \A n \in T : m <= n
<1> DEFINE Less == {p \in Nat \X Nat : p[1] < p[2]}
<1>1. IsWellFoundedOn(Less, Nat)
  BY NatLessThanWellFounded DEF OpToRel
<1>2. PICK m \in T : \A n \in T : <<n, m>> \notin Less
  <2> HIDE DEF Less
  <2> QED BY <1>1, WFMin
<1>3. \A n \in T : ~(n < m)
  BY <1>2
<1>4. \A n \in T : m <= n
  BY <1>3
<1> QED BY <1>4

NextKey(c) == job[c].records[next[c]].key

(* A history that waits is at a smaller key than the one it waits for,     *)
(* which has gone past that key.                                           *)
LEMMA WaitsForLarger ==
  ASSUME IInv, NEW x \in Calls, NEW y \in Calls, WaitsFor(x, y), Inserting(y),
         job[x].kind # "reference" \/ job[y].kind # "reference"
  PROVE  /\ job[x].kind = job[y].kind
         /\ NextKey(x) \in Nat /\ NextKey(y) \in Nat
         /\ NextKey(x) < NextKey(y)
<1>1. PICK row \in open[y] : IdentityOf(row) = NextIdentity(x)
  BY DEF WaitsFor
<1>2. OpenRow(y, row)
  BY DEF IInv, OpenInv
<1>3. job[x].kind = job[y].kind /\ row.record.key = NextKey(x)
  BY <1>1, <1>2 DEF IdentityOf, NextIdentity, Identity, OpenRow, NextKey
<1>4. PICK i \in DOMAIN job[y].records : i < next[y] /\ row.record = job[y].records[i]
  BY <1>2 DEF OpenRow
<1>5. /\ next[x] \in DOMAIN job[x].records /\ job[x].records[next[x]] \in Record
      /\ next[y] \in DOMAIN job[y].records /\ job[y].records[next[y]] \in Record
  BY InsertsRecord DEF WaitsFor
<1>6. Ascending(job[y].records)
  BY <1>3 DEF IInv, JobInv
<1>7. NextKey(x) < NextKey(y)
  BY <1>3, <1>4, <1>5, <1>6 DEF Ascending, NextKey
<1>8. NextKey(x) \in Nat /\ NextKey(y) \in Nat
  BY <1>5, KeysAssumption DEF Record, NextKey
<1> QED BY <1>3, <1>7, <1>8

(* Sorted histories never deadlock: in a ring of them the keys at which    *)
(* they wait would descend for ever.                                       *)
THEOREM NoDeadlock == Spec => []HistoriesNeverDeadlock
<1>1. IInv => HistoriesNeverDeadlock
  <2> SUFFICES ASSUME IInv, NEW c \in Calls, InRing(c), job[c].kind # "reference"
               PROVE  FALSE
    BY DEF HistoriesNeverDeadlock
  <2>1. PICK D \in SUBSET Calls : /\ c \in D
                                  /\ \A x \in D : \E y \in D : WaitsFor(x, y)
                                  /\ \A y \in D : \E x \in D : WaitsFor(x, y)
    BY DEF InRing
  <2> DEFINE E == {x \in D : job[x].kind # "reference"}
             T == {NextKey(x) : x \in E}
  <2>2. \A x \in D : Inserting(x)
    BY <2>1 DEF WaitsFor
  <2>3. ASSUME NEW y \in E
        PROVE  \E x \in E : NextKey(x) \in Nat /\ NextKey(y) \in Nat /\ NextKey(x) < NextKey(y)
    <3>1. PICK x \in D : WaitsFor(x, y)
      BY <2>1
    <3> QED BY <2>2, <3>1, WaitsForLarger
  <2>4. T \subseteq Nat /\ T # {}
    BY <2>1, <2>3
  <2>5. PICK y \in E : \A x \in E : NextKey(y) <= NextKey(x)
    <3>1. PICK m \in T : \A n \in T : m <= n
      <4> HIDE DEF T
      <4> QED BY <2>4, Smallest
    <3> QED BY <3>1
  <2>6. PICK x \in E : NextKey(x) \in Nat /\ NextKey(y) \in Nat /\ NextKey(x) < NextKey(y)
    BY <2>3
  <2>7. NextKey(y) <= NextKey(x)
    BY <2>5
  <2> HIDE DEF E
  <2> QED BY <2>6, <2>7
<1> QED BY Inductive, <1>1, PTL
=============================================================================
