---------------------- MODULE ProspectiveWorkerProofs ----------------------
(***************************************************************************)
(* Proofs about ProspectiveWorker, for every number of ticks, commands,    *)
(* symbols, decisions and builds.  A step of the worker is a step of the   *)
(* decision captures and a step of the outcome captures, whose invariants  *)
(* are proved of them alone; what is left is what a tick knows of its own  *)
(* calls, and what the row it records says of the tables.                  *)
(***************************************************************************)
EXTENDS ProspectiveWorker, FiniteSetTheorems, TLAPS

CaptureP == INSTANCE PointInTimeCaptureProofs WITH
              Captures <- Ticks \union Commands, Leads <- CommandLeads \union {DecisionLead}
OutcomeP == INSTANCE OutcomeCaptureProofs WITH Calls <- Ticks, Stored <- Capture!SnapshotRow

(***************************************************************************)
(* The parts, and what is proved of them.                                  *)
(***************************************************************************)

(* The parts speak of the same finite sets.                                *)
LEMMA FiniteSame ==
  \A S : /\ CaptureP!IsFiniteSet(S) <=> IsFiniteSet(S)
         /\ OutcomeP!IsFiniteSet(S) <=> IsFiniteSet(S)
         /\ CaptureP!Cardinality(S) = Cardinality(S)
         /\ Capture!Cardinality(S) = Cardinality(S)
         /\ Outcome!IsFiniteSet(S) <=> IsFiniteSet(S)
  BY DEF CaptureP!IsFiniteSet, OutcomeP!IsFiniteSet, Outcome!IsFiniteSet, IsFiniteSet,
         CaptureP!Cardinality, Capture!Cardinality, Cardinality

(* The parts' assumptions follow from the worker's.                        *)
LEMMA PartsAssumptions ==
  /\ CommandLeads \union {DecisionLead} \subseteq Nat
  /\ CaptureP!IsFiniteSet(Symbols) /\ Symbols # {}
  /\ Decisions \subseteq Nat /\ Horizon \in Nat
  /\ OutcomeDelay \in Nat \ {0}
  /\ \A s \in Capture!SnapshotRow : s.decision \in Decisions /\ s.symbols \subseteq Symbols
  BY OffsetAssumption, CohortAssumption, ClockAssumption, FiniteSame DEF Capture!SnapshotRow

(* The proofs speak of the same invariants and steps as the worker does.   *)
LEMMA CaptureInvSame == CaptureP!IInv <=> Capture!IInv
  BY DEF CaptureP!IInv, CaptureP!TypeOK, CaptureP!Time, CaptureP!RunRow,
         CaptureP!VersionRow, CaptureP!Version, CaptureP!Fields, CaptureP!Retrieval,
         CaptureP!SnapshotRow, CaptureP!Job, CaptureP!NoJob, CaptureP!Running,
         CaptureP!Ended, CaptureP!InTransaction, CaptureP!LockInv, CaptureP!HeldInv,
         CaptureP!SubmittedInv, CaptureP!Submitted, CaptureP!Collected, CaptureP!Has,
         CaptureP!SeenInv, CaptureP!SnapshotOf, CaptureP!RowsInv, CaptureP!Safety,
         CaptureP!SnapshotEvidenced, CaptureP!SnapshotPaired,
         CaptureP!OneSnapshotPerDecision, CaptureP!EvidenceHasSnapshot,
         CaptureP!RepliesAgree, CaptureP!NeverConflicts, Capture!IInv, Capture!TypeOK,
         Capture!Time, Capture!RunRow, Capture!VersionRow, Capture!Version,
         Capture!Fields, Capture!Retrieval, Capture!SnapshotRow, Capture!Job,
         Capture!NoJob, Capture!Running, Capture!Ended, Capture!InTransaction,
         Capture!LockInv, Capture!HeldInv, Capture!SubmittedInv, Capture!Submitted,
         Capture!Collected, Capture!Has, Capture!SeenInv, Capture!SnapshotOf,
         Capture!RowsInv, Capture!Safety, Capture!SnapshotEvidenced,
         Capture!SnapshotPaired, Capture!OneSnapshotPerDecision,
         Capture!EvidenceHasSnapshot, Capture!RepliesAgree, Capture!NeverConflicts

LEMMA CaptureNextSame ==
  /\ CaptureP!Next <=> Capture!Next
  /\ CaptureP!vars = Capture!vars /\ CaptureP!vars' = Capture!vars'
  /\ \A c : CaptureP!Work(c) <=> Capture!Work(c)
  /\ \A c : CaptureP!Crash(c) <=> Capture!Crash(c)
  /\ \A c, d, S, lead, m : CaptureP!Start(c, d, S, lead, m) <=> Capture!Start(c, d, S, lead, m)
  /\ CaptureP!tables = Capture!tables /\ CaptureP!Running = Capture!Running
  BY DEF CaptureP!Next, CaptureP!vars, CaptureP!tables, CaptureP!locals,
         CaptureP!Start, CaptureP!InWindow, CaptureP!NothingSeen, CaptureP!NoJob,
         CaptureP!Ingest, CaptureP!RetrieveMark, CaptureP!RetrieveClose, CaptureP!Has,
         CaptureP!Fields, CaptureP!Collected, CaptureP!ProviderFails,
         CaptureP!MayStore, CaptureP!Assemble, CaptureP!Released, CaptureP!SnapshotOf,
         CaptureP!Lock, CaptureP!ReadStored, CaptureP!RunOf, CaptureP!SnapshotFrom,
         CaptureP!VersionsAdded, CaptureP!UniqueViolation, CaptureP!Stores,
         CaptureP!Answer, CaptureP!InsertAll, CaptureP!Commit, CaptureP!DatabaseFails,
         CaptureP!Resubmit, CaptureP!Crash, CaptureP!Tick, CaptureP!Progress,
         CaptureP!Work, CaptureP!Running, CaptureP!InTransaction, Capture!Next,
         Capture!vars, Capture!tables, Capture!locals, Capture!Start,
         Capture!InWindow, Capture!NothingSeen, Capture!NoJob, Capture!Ingest,
         Capture!RetrieveMark, Capture!RetrieveClose, Capture!Has, Capture!Fields,
         Capture!Collected, Capture!ProviderFails, Capture!MayStore, Capture!Assemble,
         Capture!Released, Capture!SnapshotOf, Capture!Lock, Capture!ReadStored,
         Capture!RunOf, Capture!SnapshotFrom, Capture!VersionsAdded,
         Capture!UniqueViolation, Capture!Stores, Capture!Answer, Capture!InsertAll,
         Capture!Commit, Capture!DatabaseFails, Capture!Resubmit, Capture!Crash,
         Capture!Tick, Capture!Progress, Capture!Work, Capture!Running,
         Capture!InTransaction

LEMMA OutcomeInvSame == OutcomeP!IInv <=> Outcome!IInv
  BY DEF OutcomeP!IInv, OutcomeP!TypeOK, OutcomeP!Time, OutcomeP!Ready,
         OutcomeP!OutcomeVersion, OutcomeP!OutcomeRetrieval, OutcomeP!Ended,
         OutcomeP!KnownRows, OutcomeP!OneRow, OutcomeP!CallInv, OutcomeP!CallOK,
         OutcomeP!Holds, OutcomeP!RunInv, OutcomeP!RetrievalInv, OutcomeP!LinkInv,
         OutcomeP!PersistedInv, OutcomeP!Complete, OutcomeP!FetchedSymbols,
         OutcomeP!SameCapture, OutcomeP!IsFiniteSet, Outcome!IInv, Outcome!TypeOK,
         Outcome!Time, Outcome!Ready, Outcome!OutcomeVersion,
         Outcome!OutcomeRetrieval, Outcome!Ended, Outcome!KnownRows, Outcome!OneRow,
         Outcome!CallInv, Outcome!CallOK, Outcome!Holds, Outcome!RunInv,
         Outcome!RetrievalInv, Outcome!LinkInv, Outcome!PersistedInv,
         Outcome!Complete, Outcome!FetchedSymbols, Outcome!SameCapture,
         Outcome!IsFiniteSet

LEMMA OutcomeNextSame ==
  /\ OutcomeP!Next <=> Outcome!Next
  /\ OutcomeP!vars = Outcome!vars /\ OutcomeP!vars' = Outcome!vars'
  /\ \A k : OutcomeP!Work(k) <=> Outcome!Work(k)
  /\ \A k : OutcomeP!Crash(k) <=> Outcome!Crash(k)
  /\ \A k, d, m : OutcomeP!Begin(k, d, m) <=> Outcome!Begin(k, d, m)
  /\ OutcomeP!outcomeTables = Outcome!outcomeTables
  BY DEF OutcomeP!Next, OutcomeP!vars, OutcomeP!outcomeTables, OutcomeP!Time,
         OutcomeP!Ready, OutcomeP!NoTask, OutcomeP!Begin, OutcomeP!RowsOf,
         OutcomeP!Usable, OutcomeP!ReadSnapshot, OutcomeP!FetchedSymbols,
         OutcomeP!Complete, OutcomeP!Fetch, OutcomeP!ProviderFails, OutcomeP!Covered,
         OutcomeP!SameCapture, OutcomeP!LinksOf, OutcomeP!Fetched, OutcomeP!Persist,
         OutcomeP!DatabaseFails, OutcomeP!Resubmit, OutcomeP!Crash, OutcomeP!Progress,
         OutcomeP!Work, OutcomeP!StoreSnapshot, OutcomeP!Tick, OutcomeP!Cardinality,
         Outcome!Next, Outcome!vars, Outcome!outcomeTables, Outcome!Time,
         Outcome!Ready, Outcome!NoTask, Outcome!Begin, Outcome!RowsOf, Outcome!Usable,
         Outcome!ReadSnapshot, Outcome!FetchedSymbols, Outcome!Complete,
         Outcome!Fetch, Outcome!ProviderFails, Outcome!Covered, Outcome!SameCapture,
         Outcome!LinksOf, Outcome!Fetched, Outcome!Persist, Outcome!DatabaseFails,
         Outcome!Resubmit, Outcome!Crash, Outcome!Progress, Outcome!Work,
         Outcome!StoreSnapshot, Outcome!Tick, Outcome!Cardinality

LEMMA InvSamePrimed == (CaptureP!IInv' <=> Capture!IInv') /\ (OutcomeP!IInv' <=> Outcome!IInv')
  BY CaptureInvSame, OutcomeInvSame, PTL

(* A step of the captures keeps their invariant, and only adds rows.       *)
LEMMA CaptureKeeps ==
  ASSUME Capture!IInv, [Capture!Next]_(Capture!vars)
  PROVE  Capture!IInv' /\ snapshots \subseteq snapshots' /\ runs \subseteq runs'
<1>1. CaptureP!IInv /\ [CaptureP!Next]_(CaptureP!vars)
  BY CaptureInvSame, CaptureNextSame
<1>2. CaptureP!IInv'
  BY <1>1, PartsAssumptions, CaptureP!StepIInv
<1>3. snapshots \subseteq snapshots' /\ runs \subseteq runs'
  BY <1>1, PartsAssumptions, CaptureP!TablesGrow
<1> QED BY <1>2, <1>3, InvSamePrimed

LEMMA OutcomeKeeps ==
  ASSUME Outcome!IInv, [Outcome!Next]_(Outcome!vars)
  PROVE  Outcome!IInv'
<1>1. OutcomeP!IInv /\ [OutcomeP!Next]_(OutcomeP!vars)
  BY OutcomeInvSame, OutcomeNextSame
<1>2. OutcomeP!IInv'
  BY <1>1, PartsAssumptions, OutcomeP!StepInductive
<1> QED BY <1>2, InvSamePrimed

(* The outcome calls bear a growing snapshot table whose keys hold.        *)
LEMMA OutcomeBearsCapture ==
  ASSUME Outcome!IInv, Capture!IInv', snapshots \subseteq snapshots', now' = now,
         UNCHANGED outcomeVars
  PROVE  Outcome!IInv'
<1>1. OutcomeP!IInv
  BY OutcomeInvSame
<1>2. OutcomeP!KnownRows'
  BY DEF OutcomeP!KnownRows, Capture!IInv, Capture!TypeOK
<1>3. OutcomeP!OneRow'
  BY DEF OutcomeP!OneRow, Capture!IInv, Capture!Safety, Capture!OneSnapshotPerDecision,
         Capture!RowsInv
<1>4. UNCHANGED <<now, OutcomeP!outcomeTables, stage, task, fetched, linked>>
  BY DEF OutcomeP!outcomeTables, outcomeVars
<1>5. OutcomeP!IInv'
  BY <1>1, <1>2, <1>3, <1>4, PartsAssumptions, OutcomeP!SnapshotsGrow
<1> QED BY <1>5, InvSamePrimed

(* What a call does to the calls of the ticks: nothing but its own.        *)
CallsStay(c) == \A x \in Ticks \ {c} : pc'[x] = pc[x] /\ job'[x] = job[x]
OutcomesStay(k) == \A x \in Ticks \ {k} : stage'[x] = stage[x] /\ task'[x] = task[x]

LEMMA CaptureWork ==
  ASSUME Capture!IInv, NEW c \in Ticks \union Commands, Capture!Work(c)
  PROVE  /\ now' = now /\ CallsStay(c)
         /\ pc[c] \in Capture!Running /\ pc'[c] \notin {"idle", "crashed"}
         /\ job'[c].decision = job[c].decision
<1>1. CaptureP!IInv /\ CaptureP!Work(c)
  BY CaptureInvSame, CaptureNextSame
<1>2. /\ now' = now /\ CaptureP!OthersStay(c)
      /\ pc[c] \in CaptureP!Running /\ pc'[c] \notin {"idle", "crashed"}
      /\ job'[c].decision = job[c].decision
  BY <1>1, PartsAssumptions, CaptureP!WorkIsOwn
<1> QED BY <1>2, CaptureNextSame DEF CallsStay, CaptureP!OthersStay

LEMMA CaptureStart ==
  ASSUME Capture!IInv, NEW c \in Ticks \union Commands, NEW d, NEW S, NEW lead, NEW m,
         Capture!Start(c, d, S, lead, m)
  PROVE  /\ now' = now /\ UNCHANGED Capture!tables /\ CallsStay(c)
         /\ pc[c] = "idle" /\ pc'[c] \in {"collecting", "failed"}
         /\ job'[c].decision = d
<1>1. CaptureP!IInv /\ CaptureP!Start(c, d, S, lead, m)
  BY CaptureInvSame, CaptureNextSame
<1>2. /\ now' = now /\ UNCHANGED CaptureP!tables /\ CaptureP!OthersStay(c)
      /\ pc[c] = "idle" /\ pc'[c] \in {"collecting", "failed"}
      /\ job'[c].decision = d
  BY <1>1, PartsAssumptions, CaptureP!StartIsOwn
<1> QED BY <1>2 DEF CallsStay, CaptureP!OthersStay, CaptureP!tables, Capture!tables

LEMMA CaptureCrash ==
  ASSUME Capture!IInv, NEW c \in Ticks \union Commands, Capture!Crash(c)
  PROVE  now' = now /\ UNCHANGED Capture!tables /\ CallsStay(c) /\ pc'[c] = "crashed"
<1>1. CaptureP!IInv /\ CaptureP!Crash(c)
  BY CaptureInvSame, CaptureNextSame
<1>2. /\ now' = now /\ UNCHANGED CaptureP!tables /\ CaptureP!OthersStay(c)
      /\ pc[c] \in CaptureP!Running /\ pc'[c] = "crashed"
  BY <1>1, PartsAssumptions, CaptureP!CrashIsOwn
<1> QED BY <1>2 DEF CallsStay, CaptureP!OthersStay, CaptureP!tables, Capture!tables

LEMMA OutcomeWork ==
  ASSUME Outcome!IInv, NEW k \in Ticks, Outcome!Work(k)
  PROVE  /\ UNCHANGED <<now, snapshots>> /\ OutcomesStay(k) /\ links \subseteq links'
         /\ stage[k] \in {"reading", "fetching"} /\ stage'[k] \notin {"idle", "crashed"}
         /\ task'[k].decision = task[k].decision
<1>1. OutcomeP!IInv /\ OutcomeP!Work(k)
  BY OutcomeInvSame, OutcomeNextSame
<1>2. /\ OutcomeP!Own(k) /\ links \subseteq links'
      /\ stage[k] \in {"reading", "fetching"} /\ stage'[k] \notin {"idle", "crashed"}
      /\ task'[k].decision = task[k].decision
  BY <1>1, PartsAssumptions, OutcomeP!WorkIsOwn
<1> QED BY <1>2 DEF OutcomesStay, OutcomeP!Own

LEMMA OutcomeBegin ==
  ASSUME Outcome!IInv, NEW k \in Ticks, NEW d, NEW m, Outcome!Begin(k, d, m)
  PROVE  /\ UNCHANGED <<now, snapshots, links>> /\ OutcomesStay(k)
         /\ stage[k] = "idle" /\ stage'[k] \in {"reading", "failed"}
         /\ task'[k].decision = d
<1>1. OutcomeP!IInv /\ OutcomeP!Begin(k, d, m)
  BY OutcomeInvSame, OutcomeNextSame
<1>2. /\ OutcomeP!Own(k) /\ UNCHANGED OutcomeP!outcomeTables
      /\ stage[k] = "idle" /\ stage'[k] \in {"reading", "failed"}
      /\ task'[k].decision = d
  BY <1>1, PartsAssumptions, OutcomeP!BeginIsOwn
<1> QED BY <1>2 DEF OutcomesStay, OutcomeP!Own, OutcomeP!outcomeTables

LEMMA OutcomeCrash ==
  ASSUME Outcome!IInv, NEW k \in Ticks, Outcome!Crash(k)
  PROVE  UNCHANGED <<now, snapshots, links>> /\ OutcomesStay(k) /\ stage'[k] = "crashed"
<1>1. OutcomeP!IInv /\ OutcomeP!Crash(k)
  BY OutcomeInvSame, OutcomeNextSame
<1>2. /\ OutcomeP!Own(k) /\ UNCHANGED OutcomeP!outcomeTables
      /\ stage[k] \in {"reading", "fetching"} /\ stage'[k] = "crashed"
  BY <1>1, PartsAssumptions, OutcomeP!CrashIsOwn
<1> QED BY <1>2 DEF OutcomesStay, OutcomeP!Own, OutcomeP!outcomeTables

(***************************************************************************)
(* What a tick knows, and what the rows say, stays true while the tables   *)
(* grow under their keys.                                                  *)
(***************************************************************************)
Past == {"recording"} \union TickEnded

Grow == /\ snapshots \subseteq snapshots' /\ links \subseteq links'
        /\ \A s, q \in snapshots' : s.capture = q.capture => s = q

Same(x) == /\ at'[x] = at[x] /\ tick'[x] = tick[x] /\ pc'[x] = pc[x] /\ job'[x] = job[x]
           /\ stage'[x] = stage[x] /\ task'[x] = task[x]

Settled(x) ==
  at[x] \in Past => at'[x] \in Past /\ pc'[x] = pc[x] /\ stage'[x] = stage[x]

Good(w) == StageOK(w) /\ ReadOK(w) /\ RowOK(w)

(* The keys hold in every state of the invariant.                          *)
LEMMA KeysHold ==
  ASSUME Outcome!IInv
  PROVE  /\ \A s, q \in snapshots : s.capture = q.capture => s = q
         /\ \A s, q \in snapshots : s.decision = q.decision => s = q
  BY DEF Outcome!IInv, Outcome!OneRow

LEMMA KeysHoldPrimed ==
  ASSUME Outcome!IInv'
  PROVE  \A s, q \in snapshots' : s.capture = q.capture => s = q
  BY DEF Outcome!IInv, Outcome!OneRow

LEMMA NamesKept ==
  ASSUME Grow, NEW D, NEW C, Names(D, C)
  PROVE  /\ C # {} => \E s \in snapshots' : D = {s.decision} /\ C = {s.capture}
         /\ \A m : UnderMapping(C, m) => \A s \in snapshots' : s.capture \in C => s.mapping = m
  BY DEF Grow, Names, UnderMapping

LEMMA LinkedKept ==
  ASSUME Grow, NEW C, WholeCohortLinked(C)
  PROVE  \A x \in Symbols : \E l \in links' : l.snapshot \in C /\ l.version.symbol = x
  BY DEF Grow, WholeCohortLinked

LEMMA ReadKept ==
  ASSUME Grow, NEW w \in Ticks, ReadOK(w),
         tick'[w].plan = tick[w].plan, tick'[w].mapping = tick[w].mapping,
         tick'[w].snapshot = tick[w].snapshot, tick'[w].links = tick[w].links
  PROVE  ReadOK(w)'
<1>1. PICK D, C, m : D = tick[w].plan.decision /\ C = tick[w].snapshot /\ m = tick[w].mapping
  OBVIOUS
<1>2. Names(D, C) /\ UnderMapping(C, m)
  BY <1>1 DEF ReadOK
<1>0. /\ C # {} => \E s \in snapshots' : D = {s.decision} /\ C = {s.capture}
      /\ \A s \in snapshots' : s.capture \in C => s.mapping = m
  BY <1>2, NamesKept
<1>3. Names(tick[w].plan.decision, tick[w].snapshot)'
  BY <1>0, <1>1 DEF Names
<1>4. UnderMapping(tick[w].snapshot, tick[w].mapping)'
  BY <1>0, <1>1 DEF UnderMapping
<1>5. (tick[w].links = EXPECTED_SYMBOLS => WholeCohortLinked(tick[w].snapshot))'
  BY <1>1, LinkedKept DEF ReadOK, WholeCohortLinked, EXPECTED_SYMBOLS
<1> QED BY <1>3, <1>4, <1>5 DEF ReadOK

LEMMA RowKept ==
  ASSUME Grow, NEW r, RowTrue(r),
         pc[r.tick] \in {"idle", "failed"} => pc'[r.tick] = pc[r.tick],
         stage[r.tick] \in {"idle", "failed"} => stage'[r.tick] = stage[r.tick]
  PROVE  RowTrue(r)'
<1>1. Names(r.decision, r.snapshot_version)'
  BY NamesKept DEF Names, RowTrue
<1>2. WholeCohortLinked(r.snapshot_version) => WholeCohortLinked(r.snapshot_version)'
  BY LinkedKept DEF WholeCohortLinked
<1>3. UnderMapping(r.snapshot_version, r.mapping) => UnderMapping(r.snapshot_version, r.mapping)'
  BY NamesKept DEF UnderMapping, RowTrue
<1>4. EXPECTED_SYMBOLS' = EXPECTED_SYMBOLS
  BY DEF EXPECTED_SYMBOLS
<1> QED BY <1>1, <1>2, <1>3, <1>4 DEF RowTrue

(* A tick a step does not concern stays good.                              *)
LEMMA SameGood ==
  ASSUME Grow, NEW w \in Ticks, Same(w), Good(w)
  PROVE  Good(w)'
<1>1. StageOK(w)'
  BY DEF Good, Same, StageOK, Quiet, Planned, TickEnded, NoTick, Capture!Running,
         Capture!InTransaction
<1>2. ReadOK(w)'
  BY ReadKept DEF Good, Same
<1>3. RowOK(w)'
  <2>1. ASSUME NEW r \in tick'[w].row
        PROVE  r.tick = w /\ r.decision = tick'[w].plan.decision /\ RowTrue(r)'
    <3>1. r.tick = w /\ r.decision = tick[w].plan.decision /\ RowTrue(r)
      BY <2>1 DEF Good, RowOK, Same
    <3> QED BY <3>1, RowKept DEF Same
  <2> QED BY <2>1 DEF RowOK
<1> QED BY <1>1, <1>2, <1>3 DEF Good

(* The type of a row and its truth give what TypeOK says of it.            *)
LEMMA TypeFromRows ==
  ASSUME RecordsOK, RowsInv,
         at \in [Ticks -> {"idle", "awake", "deciding", "calling", "capturing", "linking",
                           "recording"} \union TickEnded]
  PROVE  TypeOK
<1>1. ASSUME NEW r \in workerRuns
      PROVE  /\ r.tick \in Ticks
             /\ r.operation \in {"DECISION", "OUTCOME", "TICK"}
             /\ r.status \in Statuses
             /\ r.decision \subseteq Decisions
             /\ r.symbols_captured \in 0..(IF r.decision = {} THEN 0 ELSE EXPECTED_SYMBOLS)
             /\ r.outcome_links \in Nat
  <2>1. r \in WorkerRow /\ RowTrue(r)
    BY DEF RecordsOK, RowsInv
  <2>2. EXPECTED_SYMBOLS \in Nat
    BY CohortAssumption, FS_CardinalityType DEF EXPECTED_SYMBOLS
  <2> QED BY <2>1, <2>2 DEF WorkerRow, RowTrue
<1> QED BY <1>1 DEF TypeOK

(* What one has to show of a step.                                         *)
LEMMA Frame ==
  ASSUME IInv, Capture!IInv', Outcome!IInv',
         snapshots \subseteq snapshots', links \subseteq links',
         RecordsOK',
         (at \in [Ticks -> {"idle", "awake", "deciding", "calling", "capturing", "linking",
                            "recording"} \union TickEnded])',
         \A x \in Ticks : Settled(x) /\ (Same(x) \/ Good(x)'),
         \A r \in workerRuns' \ workerRuns : RowTrue(r)' /\ at'[r.tick] \in Past
  PROVE  IInv'
<1>1. Grow
  BY KeysHoldPrimed DEF Grow
<1>2. \A w \in Ticks : Good(w)'
  BY <1>1, SameGood DEF IInv, Good
<1>3. RowsInv'
  <2>1. ASSUME NEW r \in workerRuns PROVE RowTrue(r)' /\ at'[r.tick] \in Past
    <3>1. RowTrue(r) /\ at[r.tick] \in Past /\ r.tick \in Ticks
      BY DEF IInv, RowsInv, Past, RecordsOK, WorkerRow
    <3> QED BY <1>1, <3>1, RowKept DEF Settled
  <2> QED BY <2>1 DEF RowsInv, Past
<1>4. TypeOK'
  BY <1>3, TypeFromRows, PTL
<1> QED BY <1>2, <1>3, <1>4 DEF IInv, Good

(***************************************************************************)
(* The steps of a tick that leave both captures alone.                     *)
(***************************************************************************)
Stages == {"idle", "awake", "deciding", "calling", "capturing", "linking", "recording"}
          \union TickEnded

LEMMA DataStays ==
  ASSUME IInv, UNCHANGED <<now, snapshots, captureVars, outcomeVars>>
  PROVE  /\ Capture!IInv' /\ Outcome!IInv' /\ Grow
         /\ snapshots' = snapshots /\ links' = links
         /\ pc' = pc /\ job' = job /\ stage' = stage /\ task' = task
<1>1. UNCHANGED Capture!vars
  BY DEF captureVars, Capture!vars, Capture!tables, Capture!locals
<1>2. UNCHANGED Outcome!vars
  BY DEF outcomeVars, Outcome!vars, Outcome!outcomeTables
<1>3. Capture!IInv' /\ Outcome!IInv'
  BY <1>1, <1>2, CaptureKeeps, OutcomeKeeps DEF IInv
<1>4. \A s, q \in snapshots' : s.capture = q.capture => s = q
  BY <1>3, KeysHoldPrimed
<1> QED BY <1>3, <1>4 DEF captureVars, outcomeVars, Grow

(* One tick moves, and perhaps the rows it records.                        *)
LEMMA TickMoves ==
  ASSUME IInv, UNCHANGED <<now, snapshots, captureVars, outcomeVars>>,
         NEW w \in Ticks, NEW a \in Stages, NEW t \in TickRecord,
         at' = [at EXCEPT ![w] = a], tick' = [tick EXCEPT ![w] = t],
         at[w] \in Past => a \in Past, Good(w)',
         workerRuns' \subseteq WorkerRow,
         \A r \in workerRuns' \ workerRuns : RowTrue(r)' /\ at'[r.tick] \in Past
  PROVE  IInv'
<1>1. /\ Capture!IInv' /\ Outcome!IInv' /\ snapshots' = snapshots /\ links' = links
      /\ pc' = pc /\ job' = job /\ stage' = stage /\ task' = task
  BY DataStays
<1>2. at \in [Ticks -> Stages] /\ tick \in [Ticks -> TickRecord]
  BY DEF IInv, TypeOK, RecordsOK, Stages
<1>3. RecordsOK' /\ (at \in [Ticks -> Stages])'
  BY <1>2 DEF RecordsOK, Stages, TickEnded, TickRecord, WorkerRow, Statuses
<1>4. ASSUME NEW x \in Ticks PROVE Settled(x) /\ (Same(x) \/ Good(x)')
  <2>1. CASE x = w
    BY <1>1, <1>2, <2>1 DEF Settled
  <2>2. CASE x # w
    BY <1>1, <1>2, <2>2 DEF Settled, Same
  <2> QED BY <2>1, <2>2
<1> QED BY <1>1, <1>3, <1>4, Frame DEF Stages

(* A tick may report any row of its own that is true.                      *)
LEMMA ReportKeeps ==
  ASSUME IInv, NEW w \in Ticks, NEW row \in WorkerRow, NEW g \in BOOLEAN,
         Report(w, row, g), UnchangedData,
         at[w] \in {"awake", "deciding", "capturing", "linking"},
         pc[w] \notin Capture!Running, stage[w] \notin {"reading", "fetching"},
         row.tick = w, row.decision = tick[w].plan.decision, RowTrue(row)
  PROVE  IInv'
<1>1. /\ Grow /\ pc' = pc /\ stage' = stage /\ workerRuns' = workerRuns
      /\ UNCHANGED <<now, snapshots, captureVars, outcomeVars>>
  BY DataStays DEF UnchangedData
<1>2. at \in [Ticks -> Stages] /\ tick \in [Ticks -> TickRecord] /\ tick[w] \in TickRecord
  BY DEF IInv, TypeOK, RecordsOK, Stages
<1> DEFINE t == [tick[w] EXCEPT !.row = {row}, !.guarded = g]
<1>3. /\ at' = [at EXCEPT ![w] = "recording"] /\ tick' = [tick EXCEPT ![w] = t]
      /\ t \in TickRecord
  BY <1>2 DEF Report, TickRecord
<1>4. /\ tick'[w].plan = tick[w].plan /\ tick'[w].mapping = tick[w].mapping
      /\ tick'[w].snapshot = tick[w].snapshot /\ tick'[w].links = tick[w].links
      /\ tick'[w].row = {row} /\ at'[w] = "recording"
  BY <1>2, <1>3 DEF TickRecord
<1>5. StageOK(w)'
  BY <1>1, <1>4 DEF IInv, StageOK, Planned, TickEnded, Capture!Running, Capture!InTransaction
<1>6. ReadOK(w)'
  BY <1>1, <1>4, ReadKept DEF IInv
<1>7. RowTrue(row)'
  BY <1>1, RowKept
<1>8. RowOK(w)'
  BY <1>4, <1>7 DEF RowOK
<1>9. Good(w)'
  BY <1>5, <1>6, <1>8 DEF Good
<1> HIDE DEF t
<1> QED BY <1>1, <1>3, <1>9, TickMoves DEF Stages, Past, IInv, RecordsOK

(***************************************************************************)
(* The rows a tick reports are true.                                       *)
(***************************************************************************)
LEMMA CohortSize ==
  EXPECTED_SYMBOLS \in Nat /\ EXPECTED_SYMBOLS >= 1
<1>1. IsFiniteSet(Symbols) /\ Symbols # {}
  BY CohortAssumption
<1> QED BY <1>1, FS_CardinalityType, FS_EmptySet DEF EXPECTED_SYMBOLS

(* A tick knows when it is.                                                *)
LEMMA TickTyped ==
  ASSUME IInv, NEW w \in Ticks
  PROVE  /\ tick[w] \in TickRecord /\ at[w] \in Stages /\ now \in Nat
         /\ tick \in [Ticks -> TickRecord] /\ at \in [Ticks -> Stages]
         /\ StageOK(w) /\ ReadOK(w) /\ RowOK(w)
  BY ClockAssumption DEF IInv, TypeOK, RecordsOK, Stages, Capture!IInv, Capture!TypeOK, Capture!Time

LEMMA RowTyped ==
  ASSUME IInv, NEW w \in Ticks, NEW op \in {"DECISION", "OUTCOME", "TICK"},
         NEW status \in Statuses, NEW captured \in Nat,
         NEW snapshot \in SUBSET (Ticks \union Commands), NEW count \in Nat
  PROVE  LET row == Row(w, op, status, captured, snapshot, count) IN
           /\ row \in WorkerRow /\ row.tick = w /\ row.decision = tick[w].plan.decision
           /\ row.operation = op /\ row.status = status /\ row.symbols_captured = captured
           /\ row.snapshot_version = snapshot /\ row.mapping = tick[w].mapping
  BY TickTyped DEF Row, WorkerRow, TickRecord

(* A row that claims no success, and no work but an empty snapshot's, is   *)
(* true if the snapshot it names is.                                       *)
LEMMA FailureTrue ==
  ASSUME NEW r, r.symbols_captured \in Nat, r.status # "SUCCEEDED",
         r.symbols_captured = 0 \/ (r.decision # {} /\ r.symbols_captured <= EXPECTED_SYMBOLS),
         Names(r.decision, r.snapshot_version),
         r.status \in NothingStored => /\ pc[r.tick] \in {"idle", "failed"}
                                       /\ stage[r.tick] \in {"idle", "failed"}
  PROVE  RowTrue(r)
  BY CohortSize DEF RowTrue

LEMMA ReportEmptyKeeps ==
  ASSUME IInv, NEW w \in Ticks,
         \/ ReportCohortMismatch(w) \/ ReportNoSession(w)
         \/ ReportLate(w) \/ ReportMissed(w)
  PROVE  IInv'
<1>1. /\ tick[w] \in TickRecord /\ at[w] \in {"awake", "deciding"} /\ StageOK(w)
      /\ pc[w] = "idle" /\ stage[w] = "idle"
  BY TickTyped DEF ReportCohortMismatch, ReportNoSession, ReportLate, ReportMissed, Deciding,
                   StageOK, Quiet
<1>2. pc[w] \notin Capture!Running
  BY <1>1 DEF Capture!Running, Capture!InTransaction
<1>3. \A D : Names(D, {})
  BY DEF Names
<1>4. ASSUME NEW op \in {"DECISION", "TICK"}, NEW status \in Statuses \ {"SUCCEEDED"},
             Report(w, Row(w, op, status, 0, {}, 0), FALSE), UnchangedData
      PROVE  IInv'
  <2>1. PICK row : row = Row(w, op, status, 0, {}, 0)
    OBVIOUS
  <2>2. /\ row \in WorkerRow /\ row.tick = w /\ row.decision = tick[w].plan.decision
        /\ row.status = status /\ row.symbols_captured = 0 /\ row.snapshot_version = {}
    BY <2>1, RowTyped
  <2>3. RowTrue(row)
    BY <1>1, <1>3, <2>2, FailureTrue
  <2> QED BY <1>1, <1>2, <1>4, <2>1, <2>2, <2>3, ReportKeeps
<1>5. CASE ReportCohortMismatch(w)
  <2>1. PICK plain : plain = Row(w, "TICK", "IDENTITY_MISMATCH", 0, {}, 0)
    OBVIOUS
  <2>2. /\ plain \in WorkerRow /\ plain.tick = w /\ plain.decision = tick[w].plan.decision
        /\ plain.status = "IDENTITY_MISMATCH" /\ plain.symbols_captured = 0
        /\ plain.snapshot_version = {}
    BY <2>1, RowTyped DEF Statuses
  <2>3. PICK row : row = [plain EXCEPT !.mapping = {}]
    OBVIOUS
  <2>4. /\ row \in WorkerRow /\ row.tick = w /\ row.decision = tick[w].plan.decision
        /\ row.status = "IDENTITY_MISMATCH" /\ row.symbols_captured = 0
        /\ row.snapshot_version = {}
    BY <2>2, <2>3 DEF WorkerRow
  <2>5. RowTrue(row)
    BY <1>3, <2>4, FailureTrue DEF NothingStored
  <2>6. Report(w, row, FALSE) /\ UnchangedData
    BY <1>5, <2>1, <2>3 DEF ReportCohortMismatch
  <2> QED BY <1>1, <1>2, <2>4, <2>5, <2>6, ReportKeeps
<1>6. CASE ReportNoSession(w)
  BY <1>4, <1>6 DEF ReportNoSession, Statuses
<1>7. CASE ReportLate(w)
  BY <1>4, <1>7 DEF ReportLate, Statuses
<1>8. CASE ReportMissed(w)
  BY <1>4, <1>8 DEF ReportMissed, Statuses
<1> QED BY <1>5, <1>6, <1>7, <1>8

(* What a tick that decides found in the database, it may report.          *)
LEMMA ReportFoundKeeps ==
  ASSUME IInv, NEW w \in Ticks, ReportCaptured(w) \/ ReportWaiting(w) \/ ReportLinked(w)
  PROVE  IInv'
<1>1. /\ tick[w] \in TickRecord /\ at[w] = "deciding" /\ StageOK(w) /\ ReadOK(w)
      /\ pc[w] = "idle" /\ stage[w] = "idle" /\ tick[w].snapshot # {}
      /\ tick[w].plan.decision # {}
  BY TickTyped DEF ReportCaptured, ReportWaiting, ReportLinked, Deciding, StageOK, Quiet, Planned
<1>2. pc[w] \notin Capture!Running
  BY <1>1 DEF Capture!Running, Capture!InTransaction
<1>3. tick[w].snapshot \in SUBSET (Ticks \union Commands) /\ tick[w].links \in Nat
  BY <1>1 DEF TickRecord
<1>4. ASSUME NEW op \in {"DECISION", "OUTCOME", "TICK"}, NEW status \in Statuses,
             NEW captured \in Nat, captured <= EXPECTED_SYMBOLS,
             Report(w, Row(w, op, status, captured, tick[w].snapshot, tick[w].links), FALSE),
             UnchangedData, status \notin NothingStored,
             status = "SUCCEEDED" /\ op = "OUTCOME" => tick[w].links = EXPECTED_SYMBOLS
      PROVE  IInv'
  <2>1. PICK row : row = Row(w, op, status, captured, tick[w].snapshot, tick[w].links)
    OBVIOUS
  <2>2. /\ row \in WorkerRow /\ row.tick = w /\ row.decision = tick[w].plan.decision
        /\ row.operation = op /\ row.status = status /\ row.symbols_captured = captured
        /\ row.snapshot_version = tick[w].snapshot /\ row.mapping = tick[w].mapping
    BY <1>3, <2>1, RowTyped
  <2>3. RowTrue(row)
    BY <1>1, <1>4, <2>2 DEF RowTrue, ReadOK
  <2> QED BY <1>1, <1>2, <1>4, <2>1, <2>2, <2>3, ReportKeeps
<1>5. EXPECTED_SYMBOLS \in Nat /\ LinkedSymbols(w) \in Nat /\ LinkedSymbols(w) <= EXPECTED_SYMBOLS
  BY CohortSize DEF LinkedSymbols
<1>6. CASE ReportCaptured(w)
  <2>1. /\ Report(w, Row(w, "DECISION", "SUCCEEDED", EXPECTED_SYMBOLS, tick[w].snapshot,
                         tick[w].links), FALSE)
        /\ UnchangedData
    BY <1>6 DEF ReportCaptured
  <2>2. "SUCCEEDED" \in Statuses /\ "SUCCEEDED" \notin NothingStored
    BY DEF Statuses, NothingStored
  <2>3. EXPECTED_SYMBOLS \in Nat /\ EXPECTED_SYMBOLS <= EXPECTED_SYMBOLS
    BY <1>5
  <2> QED BY <1>4, <2>1, <2>2, <2>3
<1>7. CASE ReportWaiting(w)
  BY <1>4, <1>5, <1>7 DEF ReportWaiting, Statuses, NothingStored
<1>8. CASE ReportLinked(w)
  <2>1. /\ Report(w, Row(w, "OUTCOME", "SUCCEEDED", EXPECTED_SYMBOLS, tick[w].snapshot,
                         tick[w].links), FALSE)
        /\ UnchangedData /\ tick[w].links = EXPECTED_SYMBOLS
    BY <1>8 DEF ReportLinked, AllLinked
  <2>2. "SUCCEEDED" \in Statuses /\ "SUCCEEDED" \notin NothingStored
    BY DEF Statuses, NothingStored
  <2>3. EXPECTED_SYMBOLS \in Nat /\ EXPECTED_SYMBOLS <= EXPECTED_SYMBOLS
    BY <1>5
  <2> QED BY <1>4, <2>1, <2>2, <2>3
<1> QED BY <1>6, <1>7, <1>8

(* The snapshots of a tick's plan are one at most.                         *)
LEMMA StoredNames ==
  ASSUME IInv, NEW w \in Ticks
  PROVE  /\ Names(tick[w].plan.decision, {s.capture : s \in StoredFor(w)})
         /\ {s.capture : s \in StoredFor(w)} \in SUBSET (Ticks \union Commands)
<1>1. /\ \A s, q \in snapshots : s.decision = q.decision => s = q
      /\ snapshots \subseteq Capture!SnapshotRow
      /\ \A d, e \in tick[w].plan.decision : d = e
  BY KeysHold DEF IInv, Capture!IInv, Capture!TypeOK, StageOK
<1>2. {s.capture : s \in StoredFor(w)} \in SUBSET (Ticks \union Commands)
  BY <1>1 DEF StoredFor, Capture!SnapshotRow
<1>3. ASSUME {s.capture : s \in StoredFor(w)} # {}
      PROVE  \E s \in snapshots : /\ tick[w].plan.decision = {s.decision}
                                  /\ {q.capture : q \in StoredFor(w)} = {s.capture}
  <2>1. PICK s \in snapshots : s \in StoredFor(w) /\ s.decision \in tick[w].plan.decision
    BY <1>3 DEF StoredFor
  <2>2. StoredFor(w) = {s}
    BY <1>1, <2>1 DEF StoredFor
  <2> QED BY <1>1, <2>1, <2>2
<1> QED BY <1>2, <1>3 DEF Names

(* Links counted to the size of the cohort are of the whole cohort.        *)
LEMMA LinkCountTrue ==
  ASSUME IInv, NEW w \in Ticks
  PROVE  /\ LinkCount(w) \in Nat
         /\ LinkCount(w) = EXPECTED_SYMBOLS =>
              WholeCohortLinked({s.capture : s \in StoredFor(w)})
<1> DEFINE Of == {l.version.symbol :
                    l \in {x \in links : \E s \in StoredFor(w) : x.snapshot = s.capture}}
<1>1. Of \subseteq Symbols
  BY DEF IInv, Outcome!IInv, Outcome!TypeOK, Outcome!OutcomeVersion
<1>2. IsFiniteSet(Symbols)
  BY CohortAssumption
<1>3. /\ IsFiniteSet(Of) /\ Cardinality(Of) \in Nat
      /\ Cardinality(Of) = EXPECTED_SYMBOLS => Of = Symbols
  BY <1>1, <1>2, FS_Subset, FS_CardinalityType DEF EXPECTED_SYMBOLS
<1>4. Of = Symbols => WholeCohortLinked({s.capture : s \in StoredFor(w)})
  BY DEF WholeCohortLinked
<1> QED BY <1>3, <1>4 DEF LinkCount

LEMMA ReadStateKeeps ==
  ASSUME IInv, NEW w \in Ticks, ReadState(w)
  PROVE  IInv'
<1> DEFINE stored == {s.capture : s \in StoredFor(w)}
<1>1. /\ tick[w] \in TickRecord /\ tick \in [Ticks -> TickRecord] /\ at \in [Ticks -> Stages]
      /\ at[w] = "awake" /\ StageOK(w) /\ pc[w] = "idle" /\ stage[w] = "idle"
      /\ tick[w].plan.decision # {}
  BY TickTyped DEF ReadState, StageOK, Quiet
<1>2. Names(tick[w].plan.decision, stored) /\ stored \in SUBSET (Ticks \union Commands)
  BY StoredNames
<1>3. LinkCount(w) \in Nat /\ (LinkCount(w) = EXPECTED_SYMBOLS => WholeCohortLinked(stored))
  BY LinkCountTrue
<1>4. CASE \E s \in StoredFor(w) : s.mapping # tick[w].mapping
  <2>1. PICK row : row = Row(w, "TICK", "IDENTITY_MISMATCH", 0, stored, 0)
    OBVIOUS
  <2>2. Report(w, row, FALSE) /\ UnchangedData
    BY <1>4, <2>1 DEF ReadState
  <2>3. "IDENTITY_MISMATCH" \in Statuses /\ "IDENTITY_MISMATCH" \notin NothingStored
    BY DEF Statuses, NothingStored
  <2>4. /\ row \in WorkerRow /\ row.tick = w /\ row.decision = tick[w].plan.decision
        /\ row.status = "IDENTITY_MISMATCH" /\ row.symbols_captured = 0
        /\ row.snapshot_version = stored
    BY <1>2, <2>1, <2>3, RowTyped
  <2>5. RowTrue(row)
    <3> HIDE DEF stored
    <3>1. Names(row.decision, row.snapshot_version)
      BY <1>2, <2>4
    <3> QED BY <2>3, <2>4, <3>1, FailureTrue
  <2>6. pc[w] \notin Capture!Running
    BY <1>1 DEF Capture!Running, Capture!InTransaction
  <2> QED BY <1>1, <2>2, <2>4, <2>5, <2>6, ReportKeeps
<1>5. CASE ~ \E s \in StoredFor(w) : s.mapping # tick[w].mapping
  <2> DEFINE t == [tick[w] EXCEPT !.snapshot = stored, !.links = LinkCount(w)]
  <2>1. /\ tick' = [tick EXCEPT ![w] = t] /\ at' = [at EXCEPT ![w] = "deciding"]
        /\ UnchangedData
    BY <1>1, <1>5 DEF ReadState
  <2>2. t \in TickRecord
    BY <1>1, <1>2, <1>3 DEF TickRecord
  <2>3. /\ tick'[w].plan = tick[w].plan /\ tick'[w].mapping = tick[w].mapping
        /\ tick'[w].snapshot = stored /\ tick'[w].links = LinkCount(w)
        /\ tick'[w].row = tick[w].row /\ at'[w] = "deciding"
    BY <1>1, <2>1, <2>2 DEF TickRecord
  <2>4. /\ snapshots' = snapshots /\ links' = links /\ pc' = pc /\ stage' = stage
        /\ workerRuns' = workerRuns /\ UNCHANGED <<now, snapshots, captureVars, outcomeVars>>
    BY <2>1, DataStays DEF UnchangedData
  <2>5. StageOK(w)'
    BY <1>1, <2>3, <2>4 DEF StageOK, Quiet, Planned, TickEnded, Capture!Running,
                            Capture!InTransaction
  <2>6. UnderMapping(stored, tick[w].mapping)
    <3>1. ASSUME NEW s \in snapshots, s.capture \in stored PROVE s.mapping = tick[w].mapping
      <4>1. s \in StoredFor(w)
        BY <3>1, KeysHold DEF IInv, StoredFor
      <4> QED BY <1>5, <4>1
    <3> QED BY <3>1 DEF UnderMapping
  <2>7. ReadOK(w)'
    BY <1>2, <1>3, <2>3, <2>4, <2>6 DEF ReadOK, Names, UnderMapping, WholeCohortLinked,
                                        EXPECTED_SYMBOLS
  <2>8. RowOK(w)'
    BY <1>1, <2>3 DEF RowOK, StageOK
  <2>9. Good(w)'
    BY <2>5, <2>7, <2>8 DEF Good
  <2>10. "deciding" \in Stages /\ at[w] \notin Past /\ workerRuns' \subseteq WorkerRow
    BY <1>1, <2>4 DEF Stages, Past, TickEnded, IInv, RecordsOK
  <2> HIDE DEF t
  <2> QED BY <2>1, <2>2, <2>4, <2>9, <2>10, TickMoves
<1> QED BY <1>4, <1>5

(* The counts a tick reports of a failed call are within the cohort.       *)
LEMMA CountsBounded ==
  ASSUME IInv, NEW w \in Ticks
  PROVE  /\ CapturedBy(w) \in Nat /\ CapturedBy(w) <= EXPECTED_SYMBOLS
         /\ FetchedBy(w) \in Nat /\ FetchedBy(w) <= EXPECTED_SYMBOLS
<1>1. CaptureP!CompletedSymbols(w) \in 0..CaptureP!Cardinality(Symbols)
  BY CaptureInvSame, PartsAssumptions, CaptureP!PairsBounded DEF IInv
<1>2. CaptureP!CompletedSymbols(w) = Capture!CompletedSymbols(w)
  BY FiniteSame DEF CaptureP!CompletedSymbols, Capture!CompletedSymbols
<1>3. Capture!CompletedSymbols(w) \in Nat /\ Capture!CompletedSymbols(w) <= EXPECTED_SYMBOLS
  BY <1>1, <1>2, FiniteSame, CohortSize DEF EXPECTED_SYMBOLS
<1>4. CapturedBy(w) \in Nat /\ CapturedBy(w) <= EXPECTED_SYMBOLS
  BY <1>3, CohortSize DEF CapturedBy
<1>5. Outcome!FetchedSymbols(w) \subseteq Symbols
  BY DEF IInv, Outcome!IInv, Outcome!TypeOK, Outcome!OutcomeRetrieval, Outcome!OutcomeVersion,
         Outcome!FetchedSymbols
<1>6. /\ IsFiniteSet(Outcome!FetchedSymbols(w))
      /\ Cardinality(Outcome!FetchedSymbols(w)) \in Nat
      /\ Cardinality(Outcome!FetchedSymbols(w)) <= EXPECTED_SYMBOLS
  BY <1>5, CohortAssumption, FS_Subset, FS_CardinalityType DEF EXPECTED_SYMBOLS
<1>7. FetchedBy(w) \in Nat /\ FetchedBy(w) <= EXPECTED_SYMBOLS
  BY <1>6, CohortSize DEF FetchedBy
<1> QED BY <1>4, <1>7

LEMMA CaptureReturnsKeeps ==
  ASSUME IInv, NEW w \in Ticks, CaptureReturns(w)
  PROVE  IInv'
<1>1. /\ at[w] = "capturing" /\ stage[w] = "idle" /\ job[w].decision \in tick[w].plan.decision
      /\ tick[w].plan.decision # {} /\ UnchangedData
      /\ \A d, e \in tick[w].plan.decision : d = e
      /\ pc[w] \notin Capture!Running
  BY TickTyped DEF CaptureReturns, StageOK, Planned, Capture!Running, Capture!InTransaction
<1>2. CASE pc[w] = "done"
  <2>1. PICK row : row = Row(w, "DECISION", "SUCCEEDED", EXPECTED_SYMBOLS, reply[w], 0)
    OBVIOUS
  <2>2. Report(w, row, TRUE)
    BY <1>2, <2>1 DEF CaptureReturns
  <2>3. reply[w] \in SUBSET (Ticks \union Commands)
    BY DEF IInv, Capture!IInv, Capture!TypeOK
  <2>4. /\ row \in WorkerRow /\ row.tick = w /\ row.decision = tick[w].plan.decision
        /\ row.operation = "DECISION" /\ row.status = "SUCCEEDED"
        /\ row.symbols_captured = EXPECTED_SYMBOLS /\ row.snapshot_version = reply[w]
    BY <2>1, <2>3, RowTyped, CohortSize DEF Statuses
  <2>5. reply[w] # {} /\ reply[w] = Capture!SnapshotOf(job[w].decision)
    BY <1>2 DEF IInv, Capture!IInv, Capture!Safety, Capture!RepliesAgree
  <2>6. Names(tick[w].plan.decision, reply[w])
    <3>1. PICK s \in snapshots : s.decision = job[w].decision
      BY <2>5 DEF Capture!SnapshotOf
    <3>2. {t \in snapshots : t.decision = job[w].decision} = {s}
      BY <3>1, KeysHold DEF IInv
    <3>3. reply[w] = {s.capture}
      BY <2>5, <3>2 DEF Capture!SnapshotOf
    <3>4. tick[w].plan.decision = {s.decision}
      BY <1>1, <3>1
    <3> QED BY <3>3, <3>4 DEF Names
  <2>7. RowTrue(row)
    BY <1>1, <2>4, <2>5, <2>6, CohortSize DEF RowTrue, NothingStored
  <2> QED BY <1>1, <2>2, <2>4, <2>7, ReportKeeps
<1>3. ASSUME NEW status \in Statuses, NEW captured \in Nat, captured <= EXPECTED_SYMBOLS,
             Report(w, Row(w, "DECISION", status, captured, {}, 0), FALSE),
             status # "SUCCEEDED", status \in NothingStored => pc[w] = "failed"
      PROVE  IInv'
  <2>1. PICK row : row = Row(w, "DECISION", status, captured, {}, 0)
    OBVIOUS
  <2>2. /\ row \in WorkerRow /\ row.tick = w /\ row.decision = tick[w].plan.decision
        /\ row.status = status /\ row.symbols_captured = captured
        /\ row.snapshot_version = {}
    BY <2>1, RowTyped
  <2>3. Names(row.decision, row.snapshot_version)
    BY <2>2 DEF Names
  <2>4. RowTrue(row)
    BY <1>1, <1>3, <2>2, <2>3, FailureTrue
  <2> QED BY <1>1, <1>3, <2>1, <2>2, <2>4, ReportKeeps
<1>4. CASE pc[w] = "failed"
  <2>1. Report(w, Row(w, "DECISION", FailureStatus(CapturedBy(w)), CapturedBy(w), {}, 0), FALSE)
    BY <1>4 DEF CaptureReturns
  <2>2. FailureStatus(CapturedBy(w)) \in Statuses \ {"SUCCEEDED"}
    BY DEF FailureStatus, Statuses
  <2> QED BY <1>3, <1>4, <2>1, <2>2, CountsBounded
<1>5. CASE pc[w] \in {"dbfailed", "conflict"}
  <2>1. Report(w, Row(w, "DECISION", "DATABASE_FAILURE", 0, {}, 0), FALSE)
    BY <1>5 DEF CaptureReturns
  <2>2. /\ "DATABASE_FAILURE" \in Statuses \ {"SUCCEEDED"}
        /\ "DATABASE_FAILURE" \notin NothingStored /\ 0 <= EXPECTED_SYMBOLS
    BY CohortSize DEF Statuses, NothingStored
  <2> QED BY <1>3, <2>1, <2>2
<1> QED BY <1>2, <1>4, <1>5 DEF CaptureReturns

(* A call that returned has linked the cohort to the snapshot its tick     *)
(* read, under the tick's own mapping.                                     *)
LEMMA OutcomeStood ==
  ASSUME IInv, NEW w \in Ticks, at[w] = "linking", stage[w] = "done"
  PROVE  WholeCohortLinked(tick[w].snapshot)
<1>1. PICK run \in outcomeRuns : run.call = w
  BY DEF IInv, Outcome!IInv, Outcome!PersistedInv, Outcome!SameCapture
<1>2. /\ run.decision = task[w].decision
      /\ \E s \in snapshots : s.decision = run.decision /\ run.snapshot = {s.capture}
      /\ \A x \in Symbols : \E l \in links : l.snapshot \in run.snapshot /\ l.version.symbol = x
  BY <1>1 DEF IInv, Outcome!IInv, Outcome!PersistedInv, Outcome!RunInv
<1>3. PICK s \in snapshots : s.decision = task[w].decision /\ run.snapshot = {s.capture}
  BY <1>2
<1>4. /\ task[w].decision \in tick[w].plan.decision /\ tick[w].snapshot # {}
      /\ Names(tick[w].plan.decision, tick[w].snapshot)
  BY TickTyped DEF StageOK, ReadOK
<1>5. PICK q \in snapshots : tick[w].plan.decision = {q.decision} /\ tick[w].snapshot = {q.capture}
  BY <1>4 DEF Names
<1>6. q = s
  BY <1>3, <1>4, <1>5, KeysHold DEF IInv
<1> QED BY <1>2, <1>3, <1>5, <1>6 DEF WholeCohortLinked

LEMMA OutcomeReturnsKeeps ==
  ASSUME IInv, NEW w \in Ticks, OutcomeReturns(w)
  PROVE  IInv'
<1>1. /\ at[w] = "linking" /\ pc[w] = "idle" /\ tick[w] \in TickRecord
      /\ tick[w].snapshot # {} /\ tick[w].plan.decision # {} /\ UnchangedData
      /\ ReadOK(w) /\ pc[w] \notin Capture!Running
      /\ stage[w] \notin {"reading", "fetching"}
  BY TickTyped DEF OutcomeReturns, StageOK, Planned, Capture!Running, Capture!InTransaction
<1>2. /\ tick[w].snapshot \in SUBSET (Ticks \union Commands) /\ tick[w].links \in Nat
      /\ linked[w] \in Nat /\ tick[w].links + linked[w] \in Nat
  BY <1>1 DEF TickRecord, IInv, Outcome!IInv, Outcome!TypeOK
<1>3. CASE stage[w] = "done"
  <2>1. PICK row : row = Row(w, "OUTCOME", "SUCCEEDED", EXPECTED_SYMBOLS, tick[w].snapshot,
                             tick[w].links + linked[w])
    OBVIOUS
  <2>2. Report(w, row, TRUE)
    BY <1>3, <2>1 DEF OutcomeReturns
  <2>3. "SUCCEEDED" \in Statuses
    BY DEF Statuses
  <2>4. /\ row \in WorkerRow /\ row.tick = w /\ row.decision = tick[w].plan.decision
        /\ row.operation = "OUTCOME" /\ row.status = "SUCCEEDED"
        /\ row.symbols_captured = EXPECTED_SYMBOLS /\ row.snapshot_version = tick[w].snapshot
        /\ row.mapping = tick[w].mapping
    BY <1>2, <2>1, <2>3, RowTyped, CohortSize
  <2>5. WholeCohortLinked(tick[w].snapshot)
    BY <1>1, <1>3, OutcomeStood
  <2>6. RowTrue(row)
    BY <1>1, <2>4, <2>5, CohortSize DEF RowTrue, ReadOK, NothingStored
  <2> QED BY <1>1, <2>2, <2>4, <2>6, ReportKeeps
<1>4. ASSUME NEW status \in Statuses, NEW captured \in Nat, captured <= EXPECTED_SYMBOLS,
             Report(w, Row(w, "OUTCOME", status, captured, tick[w].snapshot, tick[w].links),
                    FALSE),
             status # "SUCCEEDED", status \in NothingStored => stage[w] = "failed"
      PROVE  IInv'
  <2>1. PICK row : row = Row(w, "OUTCOME", status, captured, tick[w].snapshot, tick[w].links)
    OBVIOUS
  <2>2. /\ row \in WorkerRow /\ row.tick = w /\ row.decision = tick[w].plan.decision
        /\ row.status = status /\ row.symbols_captured = captured
        /\ row.snapshot_version = tick[w].snapshot
    BY <1>2, <2>1, RowTyped
  <2>3. Names(row.decision, row.snapshot_version)
    BY <1>1, <2>2 DEF ReadOK
  <2>4. RowTrue(row)
    BY <1>1, <1>4, <2>2, <2>3, FailureTrue
  <2> QED BY <1>1, <1>4, <2>1, <2>2, <2>4, ReportKeeps
<1>5. CASE stage[w] = "failed"
  <2>1. Report(w, Row(w, "OUTCOME", FailureStatus(FetchedBy(w)), FetchedBy(w),
                      tick[w].snapshot, tick[w].links), FALSE)
    BY <1>5 DEF OutcomeReturns
  <2>2. FailureStatus(FetchedBy(w)) \in Statuses \ {"SUCCEEDED"}
    BY DEF FailureStatus, Statuses
  <2> QED BY <1>4, <1>5, <2>1, <2>2, CountsBounded
<1>6. CASE stage[w] = "dbfailed"
  <2>1. Report(w, Row(w, "OUTCOME", "DATABASE_FAILURE", 0, tick[w].snapshot, tick[w].links),
               FALSE)
    BY <1>6 DEF OutcomeReturns
  <2>2. /\ "DATABASE_FAILURE" \in Statuses \ {"SUCCEEDED"}
        /\ "DATABASE_FAILURE" \notin NothingStored /\ 0 <= EXPECTED_SYMBOLS
    BY CohortSize DEF Statuses, NothingStored
  <2> QED BY <1>4, <2>1, <2>2
<1> QED BY <1>3, <1>5, <1>6 DEF OutcomeReturns

(***************************************************************************)
(* A tick's beginning and end.                                             *)
(***************************************************************************)
LEMMA EndedGood ==
  ASSUME NEW w \in Ticks, tick'[w] = NoTick, at'[w] \in TickEnded,
         pc'[w] \notin Capture!Running, stage'[w] \notin {"reading", "fetching"}
  PROVE  Good(w)'
<1>1. StageOK(w)'
  BY DEF StageOK, TickEnded, NoTick, Planned, Capture!Running, Capture!InTransaction
<1>2. ReadOK(w)' /\ RowOK(w)'
  BY CohortSize DEF NoTick, ReadOK, Names, UnderMapping, EXPECTED_SYMBOLS, RowOK
<1> QED BY <1>1, <1>2 DEF Good

LEMMA NoTickTyped == NoTick \in TickRecord
  BY DEF NoTick, TickRecord

(* A tick that ends may leave its row.                                     *)
LEMMA EndKeeps ==
  ASSUME IInv, NEW w \in Ticks, NEW how \in TickEnded, End(w, how),
         UNCHANGED <<now, snapshots, captureVars, outcomeVars>>,
         pc[w] \notin Capture!Running, stage[w] \notin {"reading", "fetching"},
         workerRuns' \subseteq WorkerRow,
         \A r \in workerRuns' \ workerRuns : RowTrue(r)' /\ r.tick = w
  PROVE  IInv'
<1>1. /\ pc' = pc /\ stage' = stage
      /\ tick \in [Ticks -> TickRecord] /\ at \in [Ticks -> Stages]
  BY DataStays, TickTyped
<1>2. /\ at' = [at EXCEPT ![w] = how] /\ tick' = [tick EXCEPT ![w] = NoTick]
      /\ at'[w] = how /\ tick'[w] = NoTick
  BY <1>1 DEF End
<1>3. Good(w)'
  BY <1>1, <1>2, EndedGood DEF Capture!Running, Capture!InTransaction
<1>4. how \in Stages /\ how \in Past
  BY DEF Stages, Past
<1> QED BY <1>2, <1>3, <1>4, NoTickTyped, TickMoves

LEMMA UnrecordedKeeps ==
  ASSUME IInv, NEW w \in Ticks, WakeOffline(w) \/ ReadFails(w)
  PROVE  IInv'
<1>1. /\ pc[w] = "idle" /\ stage[w] = "idle" /\ End(w, "unrecorded") /\ UnchangedData
  BY TickTyped DEF WakeOffline, ReadFails, StageOK, Quiet
<1>2. pc[w] \notin Capture!Running /\ "unrecorded" \in TickEnded
  BY <1>1 DEF Capture!Running, Capture!InTransaction, TickEnded
<1> QED BY <1>1, <1>2, EndKeeps DEF UnchangedData, IInv, RecordsOK

(* A day has one decision, so a plan has one at most.                      *)
LEMMA PlanTyped ==
  ASSUME NEW t \in Nat
  PROVE  /\ Plan(t) \in [decision : SUBSET Decisions,
                         action : {"SKIP", "DECISION", "WAIT_OUTCOME", "OUTCOME"}]
         /\ \A d, e \in Plan(t).decision : d = e
<1>1. Today(t) \subseteq Decisions /\ \A d, e \in Today(t) : d = e
  BY DayAssumption DEF Today
<1>2. \A d : Action(t, d) \in {"SKIP", "DECISION", "WAIT_OUTCOME", "OUTCOME"}
  BY DEF Action
<1> QED BY <1>1, <1>2 DEF Plan

LEMMA WakeKeeps ==
  ASSUME IInv, NEW w \in Ticks, NEW m \in Mappings, Wake(w, m)
  PROVE  IInv'
<1>1. /\ tick[w] = NoTick /\ at[w] = "idle" /\ pc[w] = "idle" /\ stage[w] = "idle"
      /\ tick \in [Ticks -> TickRecord] /\ at \in [Ticks -> Stages] /\ now \in Nat
  BY TickTyped DEF Wake, StageOK, Quiet
<1>2. PICK p \in [decision : SUBSET Decisions,
                  action : {"SKIP", "DECISION", "WAIT_OUTCOME", "OUTCOME"}] :
        p = Plan(now) /\ \A d, e \in p.decision : d = e
  BY <1>1, PlanTyped
<1> DEFINE t == [NoTick EXCEPT !.started = now, !.plan = p, !.mapping = m]
<1>3. /\ tick' = [tick EXCEPT ![w] = t] /\ at' = [at EXCEPT ![w] = "awake"]
      /\ UnchangedData
  BY <1>1, <1>2 DEF Wake
<1>4. /\ t \in TickRecord /\ t.plan = p /\ t.mapping = m /\ t.snapshot = {}
      /\ t.links = 0 /\ t.row = {}
  BY <1>1 DEF NoTick, TickRecord
<1> HIDE DEF t
<1>5. tick'[w] = t /\ at'[w] = "awake"
  BY <1>1, <1>3
<1>6. /\ pc' = pc /\ stage' = stage /\ workerRuns' = workerRuns
      /\ UNCHANGED <<now, snapshots, captureVars, outcomeVars>>
  BY <1>3, DataStays DEF UnchangedData
<1>7. StageOK(w)'
  BY <1>1, <1>2, <1>4, <1>5, <1>6 DEF StageOK, Quiet, TickEnded, Planned, Capture!Running,
                                      Capture!InTransaction
<1>8. ReadOK(w)' /\ RowOK(w)'
  BY <1>4, <1>5, CohortSize DEF ReadOK, Names, UnderMapping, EXPECTED_SYMBOLS, RowOK
<1>9. "awake" \in Stages /\ at[w] \notin Past /\ workerRuns' \subseteq WorkerRow
  BY <1>1, <1>6 DEF Stages, Past, TickEnded, IInv, RecordsOK
<1> QED BY <1>3, <1>4, <1>6, <1>7, <1>8, <1>9, TickMoves DEF Good

LEMMA CallDecisionKeeps ==
  ASSUME IInv, NEW w \in Ticks, CallDecision(w)
  PROVE  IInv'
<1>1. /\ at[w] = "deciding" /\ at' = [at EXCEPT ![w] = "calling"] /\ tick' = tick
      /\ UnchangedData
  BY DEF CallDecision, Deciding
<1>2. /\ tick[w] \in TickRecord /\ StageOK(w) /\ ReadOK(w) /\ RowOK(w)
      /\ tick \in [Ticks -> TickRecord] /\ at \in [Ticks -> Stages]
  BY TickTyped
<1>3. /\ tick'[w] = tick[w] /\ at'[w] = "calling" /\ tick' = [tick EXCEPT ![w] = tick[w]]
  BY <1>1, <1>2
<1>4. /\ Grow /\ pc' = pc /\ stage' = stage /\ workerRuns' = workerRuns
      /\ UNCHANGED <<now, snapshots, captureVars, outcomeVars>>
  BY <1>1, DataStays DEF UnchangedData
<1>5. StageOK(w)'
  BY <1>1, <1>2, <1>3, <1>4 DEF StageOK, Quiet, TickEnded, Planned, Capture!Running,
                                Capture!InTransaction
<1>6. ReadOK(w)'
  BY <1>2, <1>3, <1>4, ReadKept
<1>7. RowOK(w)'
  BY <1>1, <1>2, <1>3 DEF StageOK, RowOK
<1>8. "calling" \in Stages /\ at[w] \notin Past /\ workerRuns' \subseteq WorkerRow
  BY <1>1, <1>4 DEF Stages, Past, TickEnded, IInv, RecordsOK
<1> QED BY <1>1, <1>2, <1>3, <1>4, <1>5, <1>6, <1>7, <1>8, TickMoves DEF Good

(***************************************************************************)
(* The recording of a row, acknowledged, lost or refused.                  *)
(***************************************************************************)

(* The second row, of the database's failure, is true if the first was.    *)
LEMMA FailureRowTrue ==
  ASSUME IInv, NEW w \in Ticks, NEW r \in tick[w].row
  PROVE  LET q == [r EXCEPT !.status = "DATABASE_FAILURE", !.symbols_captured = 0,
                            !.snapshot_version = tick[w].snapshot,
                            !.outcome_links = tick[w].links]
         IN  q \in WorkerRow /\ q.tick = w /\ q.decision = tick[w].plan.decision /\ RowTrue(q)
<1>1. /\ tick[w] \in TickRecord /\ r \in WorkerRow /\ r.tick = w
      /\ r.decision = tick[w].plan.decision
      /\ Names(tick[w].plan.decision, tick[w].snapshot)
  BY TickTyped DEF RowOK, ReadOK, TickRecord
<1>2. PICK q : q = [r EXCEPT !.status = "DATABASE_FAILURE", !.symbols_captured = 0,
                             !.snapshot_version = tick[w].snapshot,
                             !.outcome_links = tick[w].links]
  OBVIOUS
<1>3. /\ tick[w].snapshot \in SUBSET (Ticks \union Commands) /\ tick[w].links \in Nat
      /\ "DATABASE_FAILURE" \in Statuses /\ "DATABASE_FAILURE" \notin NothingStored
  BY <1>1 DEF TickRecord, Statuses, NothingStored
<1>4. /\ q \in WorkerRow /\ q.tick = w /\ q.decision = tick[w].plan.decision
      /\ q.status = "DATABASE_FAILURE" /\ q.symbols_captured = 0
      /\ q.snapshot_version = tick[w].snapshot
  BY <1>1, <1>2, <1>3 DEF WorkerRow
<1>5. Names(q.decision, q.snapshot_version)
  BY <1>1, <1>4
<1>6. RowTrue(q)
  BY <1>3, <1>4, <1>5, FailureTrue
<1> QED BY <1>2, <1>4, <1>6

LEMMA RecordErrorKeeps ==
  ASSUME IInv, NEW w \in Ticks, at[w] = "recording", AfterRecordError(w),
         UNCHANGED <<now, snapshots, captureVars, outcomeVars>>,
         workerRuns' \subseteq WorkerRow,
         \A r \in workerRuns' \ workerRuns : RowTrue(r)' /\ r.tick = w
  PROVE  IInv'
<1>1. /\ tick[w] \in TickRecord /\ StageOK(w) /\ ReadOK(w) /\ RowOK(w)
      /\ tick \in [Ticks -> TickRecord] /\ at \in [Ticks -> Stages]
      /\ pc[w] \notin Capture!Running /\ stage[w] \notin {"reading", "fetching"}
  BY TickTyped DEF StageOK
<1>2. Grow /\ pc' = pc /\ stage' = stage
  BY DataStays
<1>3. CASE ~tick[w].guarded
  <2>1. End(w, "unrecorded") /\ "unrecorded" \in TickEnded
    BY <1>3 DEF AfterRecordError, TickEnded
  <2> QED BY <1>1, <2>1, EndKeeps
<1>4. CASE tick[w].guarded
  <2> DEFINE Failed(r) == [r EXCEPT !.status = "DATABASE_FAILURE", !.symbols_captured = 0,
                                    !.snapshot_version = tick[w].snapshot,
                                    !.outcome_links = tick[w].links]
             rows == {Failed(r) : r \in tick[w].row}
             t == [tick[w] EXCEPT !.guarded = FALSE, !.row = rows]
  <2>1. tick' = [tick EXCEPT ![w] = t] /\ at' = at
    BY <1>1, <1>4 DEF AfterRecordError
  <2>2. \A r \in tick[w].row : /\ Failed(r) \in WorkerRow /\ Failed(r).tick = w
                               /\ Failed(r).decision = tick[w].plan.decision
                               /\ RowTrue(Failed(r))
    BY FailureRowTrue
  <2> HIDE DEF Failed
  <2>3. \A q \in rows : /\ q \in WorkerRow /\ q.tick = w
                        /\ q.decision = tick[w].plan.decision /\ RowTrue(q)
    BY <2>2
  <2> HIDE DEF rows
  <2>4. /\ t \in TickRecord /\ t.plan = tick[w].plan /\ t.mapping = tick[w].mapping
        /\ t.snapshot = tick[w].snapshot /\ t.links = tick[w].links /\ t.row = rows
    BY <1>1, <2>3 DEF TickRecord
  <2> HIDE DEF t
  <2>5. tick'[w] = t /\ at'[w] = "recording" /\ at' = [at EXCEPT ![w] = "recording"]
    BY <1>1, <2>1
  <2>6. StageOK(w)'
    BY <1>1, <1>2, <2>4, <2>5 DEF StageOK, Quiet, TickEnded, Planned, Capture!Running,
                                  Capture!InTransaction
  <2>7. ReadOK(w)'
    BY <1>1, <1>2, <2>4, <2>5, ReadKept
  <2>8. RowOK(w)'
    <3>1. ASSUME NEW q \in rows PROVE RowTrue(q)'
      BY <1>2, <2>3, RowKept
    <3> QED BY <2>3, <2>4, <2>5, <3>1 DEF RowOK
  <2>9. "recording" \in Stages /\ "recording" \in Past
    BY DEF Stages, Past
  <2>10. \A r \in workerRuns' \ workerRuns : RowTrue(r)' /\ at'[r.tick] \in Past
    BY <2>5, <2>9
  <2>11. Good(w)'
    BY <2>6, <2>7, <2>8 DEF Good
  <2> QED BY <2>1, <2>4, <2>5, <2>9, <2>10, <2>11, TickMoves
<1> QED BY <1>3, <1>4

LEMMA RecordKeeps ==
  ASSUME IInv, NEW w \in Ticks, NEW acked \in BOOLEAN, Record(w, acked)
  PROVE  IInv'
<1>1. /\ at[w] = "recording" /\ workerRuns' = workerRuns \union tick[w].row
      /\ UNCHANGED <<now, snapshots, captureVars, outcomeVars>>
  BY DEF Record
<1>2. /\ tick[w] \in TickRecord /\ StageOK(w) /\ RowOK(w)
      /\ pc[w] \notin Capture!Running /\ stage[w] \notin {"reading", "fetching"}
  BY <1>1, TickTyped DEF StageOK
<1>3. Grow /\ pc' = pc /\ stage' = stage
  BY <1>1, DataStays
<1>4. workerRuns' \subseteq WorkerRow
  BY <1>1, <1>2 DEF TickRecord, IInv, RecordsOK
<1>5. ASSUME NEW r \in workerRuns' \ workerRuns PROVE RowTrue(r)' /\ r.tick = w
  <2>1. RowTrue(r) /\ r.tick = w
    BY <1>1, <1>2 DEF RowOK
  <2> QED BY <1>3, <2>1, RowKept
<1>6. CASE acked
  <2>1. End(w, "recorded") /\ "recorded" \in TickEnded
    BY <1>6 DEF Record, TickEnded
  <2> QED BY <1>1, <1>2, <1>4, <1>5, <2>1, EndKeeps
<1>7. CASE ~acked
  <2>1. AfterRecordError(w)
    BY <1>7 DEF Record
  <2> QED BY <1>1, <1>4, <1>5, <2>1, RecordErrorKeeps
<1> QED BY <1>6, <1>7

LEMMA RecordFailsKeeps ==
  ASSUME IInv, NEW w \in Ticks, RecordFails(w)
  PROVE  IInv'
<1>1. /\ at[w] = "recording" /\ AfterRecordError(w) /\ workerRuns' = workerRuns
      /\ UNCHANGED <<now, snapshots, captureVars, outcomeVars>>
  BY DEF RecordFails, UnchangedData
<1> QED BY <1>1, RecordErrorKeeps DEF IInv, RecordsOK

(***************************************************************************)
(* The steps of the two captures.                                          *)
(***************************************************************************)

(* A step of the decision captures alone, the clock's aside.               *)
LEMMA CaptureAlone ==
  ASSUME IInv, Capture!Next, now' = now, UNCHANGED outcomeVars
  PROVE  /\ Capture!IInv' /\ Outcome!IInv' /\ snapshots \subseteq snapshots' /\ links' = links
         /\ Grow /\ stage' = stage /\ task' = task
<1>1. Capture!IInv' /\ snapshots \subseteq snapshots'
  BY CaptureKeeps DEF IInv
<1>2. Outcome!IInv'
  BY <1>1, OutcomeBearsCapture DEF IInv
<1> QED BY <1>1, <1>2, KeysHoldPrimed DEF outcomeVars, Grow

(* A step of the outcome captures alone.                                   *)
LEMMA OutcomeAlone ==
  ASSUME IInv, Outcome!Next, UNCHANGED <<now, snapshots, captureVars>>, links \subseteq links'
  PROVE  /\ Capture!IInv' /\ Outcome!IInv' /\ Grow /\ pc' = pc /\ job' = job
<1>1. UNCHANGED Capture!vars
  BY DEF captureVars, Capture!vars, Capture!tables, Capture!locals
<1>2. Capture!IInv' /\ Outcome!IInv'
  BY <1>1, CaptureKeeps, OutcomeKeeps DEF IInv
<1> QED BY <1>2, KeysHoldPrimed DEF captureVars, Grow

(* One tick moves with its own call.                                       *)
LEMMA CallMoves ==
  ASSUME IInv, NEW w \in Ticks, NEW a \in Stages, NEW t \in TickRecord,
         at' = [at EXCEPT ![w] = a], tick' = [tick EXCEPT ![w] = t], workerRuns' = workerRuns,
         Capture!IInv', Outcome!IInv', Grow, CallsStay(w), OutcomesStay(w),
         Good(w)', at[w] \notin Past
  PROVE  IInv'
<1>1. at \in [Ticks -> Stages] /\ tick \in [Ticks -> TickRecord] /\ workerRuns \subseteq WorkerRow
  BY TickTyped DEF IInv, RecordsOK
<1>2. RecordsOK' /\ (at \in [Ticks -> Stages])'
  BY <1>1 DEF RecordsOK, Stages, TickEnded, TickRecord, WorkerRow, Statuses
<1>3. ASSUME NEW x \in Ticks PROVE Settled(x) /\ (Same(x) \/ Good(x)')
  <2>1. CASE x = w
    BY <2>1 DEF Settled
  <2>2. CASE x # w
    BY <1>1, <2>2 DEF Settled, Same, CallsStay, OutcomesStay
  <2> QED BY <2>1, <2>2
<1> QED BY <1>2, <1>3, Frame DEF Stages, Grow

(* No tick moves.                                                          *)
LEMMA OthersMove ==
  ASSUME IInv, UNCHANGED workerVars, Capture!IInv', Outcome!IInv', Grow,
         \A x \in Ticks : /\ pc'[x] = pc[x] /\ job'[x] = job[x]
                          /\ stage'[x] = stage[x] /\ task'[x] = task[x]
  PROVE  IInv'
<1>1. at \in [Ticks -> Stages] /\ tick \in [Ticks -> TickRecord] /\ workerRuns \subseteq WorkerRow
  BY DEF IInv, TypeOK, RecordsOK, Stages
<1>2. at' = at /\ tick' = tick /\ workerRuns' = workerRuns
  BY DEF workerVars
<1>3. RecordsOK' /\ (at \in [Ticks -> Stages])'
  BY <1>1, <1>2 DEF RecordsOK, Stages, TickEnded, TickRecord, WorkerRow, Statuses
<1>4. \A x \in Ticks : Settled(x) /\ Same(x)
  BY <1>2 DEF Settled, Same
<1> QED BY <1>2, <1>3, <1>4, Frame DEF Stages, Grow

(* A tick that begins a call, or whose call works, is good where it stands.*)
LEMMA CallerGood ==
  ASSUME IInv, Grow, NEW w \in Ticks, at[w] \in {"calling", "deciding", "capturing", "linking"},
         tick'[w] = tick[w],
         \/ /\ at'[w] = "capturing" /\ stage'[w] = "idle"
            /\ pc'[w] \notin {"idle", "crashed"}
            /\ job'[w].decision \in tick[w].plan.decision
         \/ /\ at'[w] = "linking" /\ pc'[w] = "idle" /\ tick[w].snapshot # {}
            /\ stage'[w] \notin {"idle", "crashed"}
            /\ task'[w].decision \in tick[w].plan.decision
  PROVE  Good(w)'
<1>1. StageOK(w) /\ ReadOK(w) /\ tick[w].row = {}
  BY TickTyped DEF StageOK
<1>2. StageOK(w)'
  BY <1>1 DEF StageOK, Quiet, TickEnded, Planned, Capture!Running, Capture!InTransaction
<1>3. ReadOK(w)'
  BY <1>1, ReadKept
<1>4. RowOK(w)'
  BY <1>1 DEF RowOK
<1> QED BY <1>2, <1>3, <1>4 DEF Good

LEMMA BeginCaptureKeeps ==
  ASSUME IInv, NEW w \in Ticks, BeginCapture(w)
  PROVE  IInv'
<1>1. PICK d \in tick[w].plan.decision :
        Capture!Start(w, d, Symbols, DecisionLead, tick[w].mapping)
  BY DEF BeginCapture
<1>2. /\ at[w] = "calling" /\ stage[w] = "idle" /\ tick[w].mapping \in Mappings
      /\ tick[w] \in TickRecord /\ d \in Decisions
      /\ tick \in [Ticks -> TickRecord] /\ at \in [Ticks -> Stages]
      /\ at' = [at EXCEPT ![w] = "capturing"] /\ tick' = tick /\ workerRuns' = workerRuns
      /\ UNCHANGED outcomeVars
  BY TickTyped DEF BeginCapture, StageOK, Quiet, Planned, TickRecord
<1>3. Capture!Next
  BY <1>1, <1>2 DEF Capture!Next
<1>4. /\ now' = now /\ CallsStay(w) /\ pc'[w] \in {"collecting", "failed"}
      /\ job'[w].decision = d
  BY <1>1, CaptureStart DEF IInv
<1>5. /\ Capture!IInv' /\ Outcome!IInv' /\ Grow /\ stage' = stage /\ task' = task
  BY <1>2, <1>3, <1>4, CaptureAlone
<1>6. OutcomesStay(w)
  BY <1>5 DEF OutcomesStay
<1>7. at'[w] = "capturing" /\ tick'[w] = tick[w] /\ tick' = [tick EXCEPT ![w] = tick[w]]
  BY <1>2
<1>8. Good(w)'
  BY <1>2, <1>4, <1>5, <1>7, CallerGood
<1>9. "capturing" \in Stages /\ at[w] \notin Past
  BY <1>2 DEF Stages, Past, TickEnded
<1> QED BY <1>2, <1>4, <1>5, <1>6, <1>7, <1>8, <1>9, CallMoves

LEMMA CallOutcomeKeeps ==
  ASSUME IInv, NEW w \in Ticks, CallOutcome(w)
  PROVE  IInv'
<1>1. PICK d \in tick[w].plan.decision : Outcome!Begin(w, d, tick[w].mapping)
  BY DEF CallOutcome
<1>2. /\ at[w] = "deciding" /\ pc[w] = "idle" /\ tick[w].mapping \in Mappings
      /\ tick[w].snapshot # {} /\ tick[w] \in TickRecord /\ d \in Decisions
      /\ tick \in [Ticks -> TickRecord] /\ at \in [Ticks -> Stages]
      /\ at' = [at EXCEPT ![w] = "linking"] /\ tick' = tick /\ workerRuns' = workerRuns
      /\ UNCHANGED captureVars
  BY TickTyped DEF CallOutcome, Deciding, StageOK, Quiet, Planned, TickRecord
<1>3. Outcome!Next
  BY <1>1, <1>2 DEF Outcome!Next
<1>4. /\ UNCHANGED <<now, snapshots, links>> /\ OutcomesStay(w)
      /\ stage'[w] \in {"reading", "failed"} /\ task'[w].decision = d
  BY <1>1, OutcomeBegin DEF IInv
<1>5. /\ Capture!IInv' /\ Outcome!IInv' /\ Grow /\ pc' = pc /\ job' = job
  BY <1>2, <1>3, <1>4, OutcomeAlone
<1>6. CallsStay(w)
  BY <1>5 DEF CallsStay
<1>7. at'[w] = "linking" /\ tick'[w] = tick[w] /\ tick' = [tick EXCEPT ![w] = tick[w]]
  BY <1>2
<1>8. Good(w)'
  BY <1>2, <1>4, <1>5, <1>7, CallerGood
<1>9. "linking" \in Stages /\ at[w] \notin Past
  BY <1>2 DEF Stages, Past, TickEnded
<1> QED BY <1>2, <1>4, <1>5, <1>6, <1>7, <1>8, <1>9, CallMoves

LEMMA CaptureStepKeeps ==
  ASSUME IInv, NEW c \in Ticks \union Commands, CaptureStep(c)
  PROVE  IInv'
<1>1. /\ Capture!Work(c) /\ UNCHANGED outcomeVars /\ at' = at /\ tick' = tick
      /\ workerRuns' = workerRuns
  BY DEF CaptureStep, workerVars
<1>2. Capture!Next
  BY <1>1 DEF Capture!Next
<1>3. /\ now' = now /\ CallsStay(c) /\ pc[c] \in Capture!Running
      /\ pc'[c] \notin {"idle", "crashed"} /\ job'[c].decision = job[c].decision
  BY <1>1, CaptureWork DEF IInv
<1>4. /\ Capture!IInv' /\ Outcome!IInv' /\ Grow /\ stage' = stage /\ task' = task
  BY <1>1, <1>2, <1>3, CaptureAlone
<1>5. CASE c \in Ticks
  <2>1. /\ at[c] = "capturing" /\ stage[c] = "idle" /\ tick[c] \in TickRecord
        /\ job[c].decision \in tick[c].plan.decision
        /\ tick \in [Ticks -> TickRecord] /\ at \in [Ticks -> Stages]
    BY <1>3, <1>5, TickTyped DEF StageOK
  <2>2. /\ at'[c] = "capturing" /\ at' = [at EXCEPT ![c] = "capturing"]
        /\ tick'[c] = tick[c] /\ tick' = [tick EXCEPT ![c] = tick[c]]
    BY <1>1, <2>1
  <2>3. Good(c)'
    BY <1>3, <1>4, <1>5, <2>1, <2>2, CallerGood
  <2>4. "capturing" \in Stages /\ at[c] \notin Past /\ OutcomesStay(c)
    BY <1>4, <2>1 DEF Stages, Past, TickEnded, OutcomesStay
  <2> QED BY <1>1, <1>3, <1>4, <1>5, <2>1, <2>2, <2>3, <2>4, CallMoves
<1>6. CASE c \notin Ticks
  <2>1. \A x \in Ticks : /\ pc'[x] = pc[x] /\ job'[x] = job[x]
                         /\ stage'[x] = stage[x] /\ task'[x] = task[x]
    BY <1>3, <1>4, <1>6 DEF CallsStay
  <2> QED BY <1>1, <1>4, <2>1, OthersMove DEF workerVars
<1> QED BY <1>5, <1>6

LEMMA OutcomeStepKeeps ==
  ASSUME IInv, NEW w \in Ticks, OutcomeStep(w)
  PROVE  IInv'
<1>1. /\ Outcome!Work(w) /\ UNCHANGED captureVars /\ at' = at /\ tick' = tick
      /\ workerRuns' = workerRuns
  BY DEF OutcomeStep, workerVars
<1>2. Outcome!Next
  BY <1>1 DEF Outcome!Next
<1>3. /\ UNCHANGED <<now, snapshots>> /\ OutcomesStay(w) /\ links \subseteq links'
      /\ stage[w] \in {"reading", "fetching"} /\ stage'[w] \notin {"idle", "crashed"}
      /\ task'[w].decision = task[w].decision
  BY <1>1, OutcomeWork DEF IInv
<1>4. /\ Capture!IInv' /\ Outcome!IInv' /\ Grow /\ pc' = pc /\ job' = job
  BY <1>1, <1>2, <1>3, OutcomeAlone
<1>5. /\ at[w] = "linking" /\ pc[w] = "idle" /\ tick[w] \in TickRecord
      /\ task[w].decision \in tick[w].plan.decision /\ tick[w].snapshot # {}
      /\ tick \in [Ticks -> TickRecord] /\ at \in [Ticks -> Stages]
  BY <1>3, TickTyped DEF StageOK
<1>6. /\ at'[w] = "linking" /\ at' = [at EXCEPT ![w] = "linking"]
      /\ tick'[w] = tick[w] /\ tick' = [tick EXCEPT ![w] = tick[w]]
  BY <1>1, <1>5
<1>7. Good(w)'
  BY <1>3, <1>4, <1>5, <1>6, CallerGood
<1>8. "linking" \in Stages /\ at[w] \notin Past /\ CallsStay(w)
  BY <1>4, <1>5 DEF Stages, Past, TickEnded, CallsStay
<1> QED BY <1>1, <1>3, <1>4, <1>5, <1>6, <1>7, <1>8, CallMoves

(* A command is nobody's tick.                                             *)
LEMMA CommandKeeps ==
  ASSUME IInv, NEW c \in Commands, Command(c)
  PROVE  IInv'
<1>1. /\ UNCHANGED outcomeVars /\ UNCHANGED workerVars /\ c \in Ticks \union Commands
      /\ c \notin Ticks
  BY WorkerAssumption DEF Command
<1>2. Capture!Next /\ now' = now /\ CallsStay(c)
  <2>1. CASE \E d \in Decisions, S \in CommandSymbols, lead \in CommandLeads, m \in Mappings :
               Capture!Start(c, d, S, lead, m)
    <3>1. PICK d \in Decisions, S \in CommandSymbols, lead \in CommandLeads, m \in Mappings :
            Capture!Start(c, d, S, lead, m)
      BY <2>1
    <3>2. S \in SUBSET Symbols /\ lead \in CommandLeads \union {DecisionLead}
      BY CommandAssumption
    <3>3. Capture!Next
      BY <1>1, <3>1, <3>2 DEF Capture!Next
    <3>4. now' = now /\ CallsStay(c)
      BY <1>1, <3>1, CaptureStart DEF IInv
    <3> QED BY <3>3, <3>4
  <2>2. CASE Capture!Crash(c)
    <3>1. Capture!Next
      BY <1>1, <2>2 DEF Capture!Next
    <3>2. now' = now /\ CallsStay(c)
      BY <1>1, <2>2, CaptureCrash DEF IInv
    <3> QED BY <3>1, <3>2
  <2> QED BY <2>1, <2>2 DEF Command
<1>3. /\ Capture!IInv' /\ Outcome!IInv' /\ Grow /\ stage' = stage /\ task' = task
  BY <1>1, <1>2, CaptureAlone
<1>4. \A x \in Ticks : /\ pc'[x] = pc[x] /\ job'[x] = job[x]
                       /\ stage'[x] = stage[x] /\ task'[x] = task[x]
  BY <1>1, <1>2, <1>3 DEF CallsStay
<1> QED BY <1>1, <1>3, <1>4, OthersMove

LEMMA ClockKeeps ==
  ASSUME IInv, Clock
  PROVE  IInv'
<1>1. /\ UNCHANGED outcomeVars /\ UNCHANGED workerVars
      /\ pc' = pc /\ job' = job /\ snapshots' = snapshots
  BY DEF Clock, Capture!Tick, Capture!tables, Capture!locals
<1>2. stage' = stage /\ task' = task /\ links' = links
  BY <1>1 DEF outcomeVars
<1>3. Capture!Next
  BY DEF Clock, Capture!Next
<1>4. Outcome!Next
  BY <1>1 DEF Clock, Capture!Tick, Outcome!Next, Outcome!Tick, Outcome!outcomeTables, outcomeVars
<1>5. Capture!IInv' /\ Outcome!IInv'
  BY <1>3, <1>4, CaptureKeeps, OutcomeKeeps DEF IInv
<1>6. Grow
  BY <1>1, <1>2, <1>5, KeysHoldPrimed DEF Grow
<1> QED BY <1>1, <1>2, <1>5, <1>6, OthersMove

LEMMA CrashKeeps ==
  ASSUME IInv, NEW w \in Ticks, Crash(w)
  PROVE  IInv'
<1>1. /\ at[w] \notin TickEnded \union {"idle"} /\ End(w, "crashed")
      /\ workerRuns' = workerRuns /\ "crashed" \in TickEnded
  BY DEF Crash, TickEnded
<1>2. /\ StageOK(w) /\ tick \in [Ticks -> TickRecord] /\ at \in [Ticks -> Stages]
  BY TickTyped
<1>3. /\ at' = [at EXCEPT ![w] = "crashed"] /\ tick' = [tick EXCEPT ![w] = NoTick]
      /\ at'[w] = "crashed" /\ tick'[w] = NoTick /\ "crashed" \in Stages
  BY <1>1, <1>2 DEF End, Stages
<1>4. CASE at[w] = "capturing" /\ pc[w] \in Capture!Running
  <2>1. Capture!Crash(w) /\ UNCHANGED outcomeVars
    BY <1>4 DEF Crash
  <2>2. Capture!Next
    BY <2>1 DEF Capture!Next
  <2>3. now' = now /\ CallsStay(w) /\ pc'[w] = "crashed"
    BY <2>1, CaptureCrash DEF IInv
  <2>4. /\ Capture!IInv' /\ Outcome!IInv' /\ Grow /\ stage' = stage /\ task' = task
    BY <2>1, <2>2, <2>3, CaptureAlone
  <2>5. OutcomesStay(w) /\ stage'[w] = "idle" /\ at[w] \notin Past
    BY <1>2, <1>4, <2>4 DEF OutcomesStay, StageOK, Past, TickEnded
  <2>6. Good(w)'
    BY <1>1, <1>3, <2>3, <2>5, EndedGood DEF Capture!Running, Capture!InTransaction
  <2> QED BY <1>1, <1>3, <2>3, <2>4, <2>5, <2>6, NoTickTyped, CallMoves
<1>5. CASE ~(at[w] = "capturing" /\ pc[w] \in Capture!Running)
           /\ at[w] = "linking" /\ stage[w] \in {"reading", "fetching"}
  <2>1. Outcome!Crash(w) /\ UNCHANGED captureVars
    BY <1>5 DEF Crash
  <2>2. Outcome!Next
    BY <2>1 DEF Outcome!Next
  <2>3. UNCHANGED <<now, snapshots, links>> /\ OutcomesStay(w) /\ stage'[w] = "crashed"
    BY <2>1, OutcomeCrash DEF IInv
  <2>4. /\ Capture!IInv' /\ Outcome!IInv' /\ Grow /\ pc' = pc /\ job' = job
    BY <2>1, <2>2, <2>3, OutcomeAlone
  <2>5. CallsStay(w) /\ pc'[w] = "idle" /\ at[w] \notin Past
    BY <1>2, <1>5, <2>4 DEF CallsStay, StageOK, Past, TickEnded
  <2>6. Good(w)'
    BY <1>1, <1>3, <2>3, <2>5, EndedGood DEF Capture!Running, Capture!InTransaction
  <2> QED BY <1>1, <1>3, <2>3, <2>4, <2>5, <2>6, NoTickTyped, CallMoves
<1>6. CASE /\ ~(at[w] = "capturing" /\ pc[w] \in Capture!Running)
           /\ ~(at[w] = "linking" /\ stage[w] \in {"reading", "fetching"})
  <2>1. UNCHANGED <<now, snapshots, captureVars, outcomeVars>>
    BY <1>6 DEF Crash
  <2>2. pc[w] \notin Capture!Running /\ stage[w] \notin {"reading", "fetching"}
    BY <1>2, <1>6 DEF StageOK
  <2> QED BY <1>1, <2>1, <2>2, EndKeeps DEF IInv, RecordsOK
<1> QED BY <1>4, <1>5, <1>6

(***************************************************************************)
(* The inductive invariant.                                                *)
(***************************************************************************)
LEMMA InitIInv == Init => IInv
<1> SUFFICES ASSUME Init PROVE IInv
  OBVIOUS
<1>1. /\ now = 0 /\ snapshots = {} /\ runs = {} /\ workerRuns = {}
      /\ pc = [c \in Ticks \union Commands |-> "idle"]
      /\ at = [w \in Ticks |-> "idle"] /\ tick = [w \in Ticks |-> NoTick]
      /\ stage = [w \in Ticks |-> "idle"]
  BY DEF Init, Capture!Init, Outcome!OutcomeInit
<1>2. CaptureP!Init
  BY DEF Init, Capture!Init, CaptureP!Init, Capture!NoJob, CaptureP!NoJob,
         Capture!NothingSeen, CaptureP!NothingSeen
<1>3. Capture!IInv
  BY <1>2, PartsAssumptions, CaptureP!InitIInv, CaptureInvSame
<1>4. OutcomeP!Init
  BY <1>1 DEF Init, Outcome!OutcomeInit, OutcomeP!Init, OutcomeP!OutcomeInit, Outcome!NoTask,
              OutcomeP!NoTask
<1>5. Outcome!IInv
  BY <1>4, PartsAssumptions, OutcomeP!InitInductive, OutcomeInvSame
<1>6. TypeOK /\ RecordsOK /\ RowsInv
  BY <1>1, NoTickTyped DEF TypeOK, RecordsOK, RowsInv
<1>7. ASSUME NEW w \in Ticks PROVE StageOK(w) /\ ReadOK(w) /\ RowOK(w)
  <2>1. pc[w] = "idle" /\ stage[w] = "idle" /\ at[w] = "idle" /\ tick[w] = NoTick
    BY <1>1
  <2>2. StageOK(w)
    BY <2>1 DEF StageOK, Quiet, Planned, TickEnded, NoTick, Capture!Running,
                Capture!InTransaction
  <2>3. ReadOK(w) /\ RowOK(w)
    BY <2>1, CohortSize DEF NoTick, ReadOK, Names, UnderMapping, EXPECTED_SYMBOLS, RowOK
  <2> QED BY <2>2, <2>3
<1> QED BY <1>3, <1>5, <1>6, <1>7 DEF IInv

LEMMA DecideKeeps ==
  ASSUME IInv, NEW w \in Ticks, Decide(w)
  PROVE  IInv'
<1>1. CASE \E m \in Mappings : Wake(w, m)
  BY <1>1, WakeKeeps
<1>2. CASE ReportNoSession(w) \/ ReportLate(w) \/ ReportMissed(w)
  BY <1>2, ReportEmptyKeeps
<1>3. CASE ReadState(w)
  BY <1>3, ReadStateKeeps
<1>4. CASE ReportCaptured(w) \/ ReportWaiting(w) \/ ReportLinked(w)
  BY <1>4, ReportFoundKeeps
<1>5. CASE CallDecision(w)
  BY <1>5, CallDecisionKeeps
<1>6. CASE BeginCapture(w)
  BY <1>6, BeginCaptureKeeps
<1>7. CASE CallOutcome(w)
  BY <1>7, CallOutcomeKeeps
<1>8. CASE CaptureReturns(w)
  BY <1>8, CaptureReturnsKeeps
<1>9. CASE OutcomeReturns(w)
  BY <1>9, OutcomeReturnsKeeps
<1>10. CASE \E acked \in BOOLEAN : Record(w, acked)
  BY <1>10, RecordKeeps
<1> QED BY <1>1, <1>2, <1>3, <1>4, <1>5, <1>6, <1>7, <1>8, <1>9, <1>10 DEF Decide

LEMMA StutterKeeps ==
  ASSUME IInv, UNCHANGED vars
  PROVE  IInv'
<1>1. /\ UNCHANGED <<now, snapshots, captureVars, outcomeVars>> /\ UNCHANGED workerVars
  BY DEF vars
<1>2. /\ Capture!IInv' /\ Outcome!IInv' /\ Grow
      /\ pc' = pc /\ job' = job /\ stage' = stage /\ task' = task
  BY <1>1, DataStays
<1> QED BY <1>1, <1>2, OthersMove

LEMMA StepIInv == IInv /\ [Next]_vars => IInv'
<1> SUFFICES ASSUME IInv, [Next]_vars PROVE IInv'
  OBVIOUS
<1>1. CASE UNCHANGED vars
  BY <1>1, StutterKeeps
<1>2. CASE Clock
  BY <1>2, ClockKeeps
<1>3. ASSUME NEW w \in Ticks, Decide(w) PROVE IInv'
  BY <1>3, DecideKeeps
<1>4. ASSUME NEW w \in Ticks, Fails(w) PROVE IInv'
  BY <1>4, UnrecordedKeeps, ReportEmptyKeeps, RecordFailsKeeps DEF Fails
<1>5. ASSUME NEW w \in Ticks, OutcomeStep(w) PROVE IInv'
  BY <1>5, OutcomeStepKeeps
<1>6. ASSUME NEW w \in Ticks, Crash(w) PROVE IInv'
  BY <1>6, CrashKeeps
<1>7. ASSUME NEW c \in Ticks \union Commands, CaptureStep(c) PROVE IInv'
  BY <1>7, CaptureStepKeeps
<1>8. ASSUME NEW c \in Commands, Command(c) PROVE IInv'
  BY <1>8, CommandKeeps
<1> QED BY <1>1, <1>2, <1>3, <1>4, <1>5, <1>6, <1>7, <1>8 DEF Next

(* Whatever ticks and commands overlap, fail or crash, a tick's stage says *)
(* where its calls stand and what it and its rows say of the tables is     *)
(* true (worker.py run_tick, capture_cli.py and outcome.py).               *)
THEOREM Inductive == Spec => []IInv
  BY InitIInv, StepIInv, PTL DEF Spec

(* A row of prospective_worker_runs satisfies the table's CHECKs, which no *)
(* insert of _record can meet (models.py ProspectiveWorkerRunRow).         *)
THEOREM TypeCorrect == Spec => []TypeOK
<1>1. IInv => TypeOK
  BY DEF IInv
<1> QED BY <1>1, Inductive, PTL

(* The row that names a snapshot, and the snapshots of its decision.       *)
LEMMA NamedRow ==
  ASSUME IInv, NEW r \in workerRuns, r.snapshot_version # {}
  PROVE  \E s \in snapshots : SnapshotsOf(r) = {s} /\ r.snapshot_version = {s.capture}
<1>1. Names(r.decision, r.snapshot_version)
  BY DEF IInv, RowsInv, RowTrue
<1>2. PICK s \in snapshots : r.decision = {s.decision} /\ r.snapshot_version = {s.capture}
  BY <1>1 DEF Names
<1>3. SnapshotsOf(r) = {s}
  BY <1>2, KeysHold DEF IInv, SnapshotsOf
<1> QED BY <1>2, <1>3

(* A row names no snapshot but the one stored for its decision, although   *)
(* what it names was read or returned before it was recorded.              *)
THEOREM NamedSnapshot == Spec => []RowsNameTheSnapshot
<1>1. ASSUME IInv PROVE RowsNameTheSnapshot
  <2>1. ASSUME NEW r \in workerRuns, r.snapshot_version # {}
        PROVE  r.snapshot_version = {s.capture : s \in SnapshotsOf(r)}
    <3>1. PICK s \in snapshots : SnapshotsOf(r) = {s} /\ r.snapshot_version = {s.capture}
      BY <1>1, <2>1, NamedRow
    <3> QED BY <3>1
  <2> QED BY <2>1 DEF RowsNameTheSnapshot
<1> QED BY <1>1, Inductive, PTL

(* A decision reported captured is captured, by a capture complete by the  *)
(* decision: also when another call stored it, or the recording failed.    *)
THEOREM DecisionsStored == Spec => []SucceededDecisionStored
<1>1. ASSUME IInv PROVE SucceededDecisionStored
  <2>1. ASSUME NEW r \in workerRuns, r.operation = "DECISION", r.status = "SUCCEEDED"
        PROVE  \E s \in SnapshotsOf(r), run \in runs :
                 /\ r.snapshot_version = {s.capture}
                 /\ run.capture = s.capture
                 /\ run.completed <= s.decision
    <3>1. r.snapshot_version # {}
      BY <1>1, <2>1 DEF IInv, RowsInv, RowTrue
    <3>2. PICK s \in snapshots : SnapshotsOf(r) = {s} /\ r.snapshot_version = {s.capture}
      BY <1>1, <3>1, NamedRow
    <3>3. PICK run \in runs : /\ run.capture = s.capture /\ run.decision = s.decision
                              /\ run.completed <= run.decision
      BY <1>1 DEF IInv, Capture!IInv, Capture!RowsInv
    <3> QED BY <3>2, <3>3
  <2> QED BY <2>1 DEF SucceededDecisionStored
<1> QED BY <1>1, Inductive, PTL

(* An outcome reported captured has its links for the whole cohort, to the *)
(* snapshot the row names.                                                 *)
THEOREM OutcomesLinked == Spec => []SucceededOutcomeLinked
<1>1. IInv => SucceededOutcomeLinked
  BY DEF IInv, RowsInv, RowTrue, WholeCohortLinked, SucceededOutcomeLinked
<1> QED BY <1>1, Inductive, PTL

(* A tick that reports PARTIAL, PROVIDER_UNAVAILABLE or a missed window    *)
(* has stored nothing, and never will.                                     *)
THEOREM FailedStoredNothing == Spec => []FailedTickStoredNothing
<1>1. ASSUME IInv PROVE FailedTickStoredNothing
  <2>1. ASSUME NEW r \in workerRuns,
               r.status \in {"PARTIAL", "PROVIDER_UNAVAILABLE", "MISSED_DECISION_WINDOW"}
        PROVE  /\ \A run \in runs : run.capture # r.tick
               /\ \A run \in outcomeRuns : run.call # r.tick
    <3>1. pc[r.tick] \in {"idle", "failed"} /\ stage[r.tick] \in {"idle", "failed"}
      BY <1>1, <2>1 DEF IInv, RowsInv, RowTrue, NothingStored
    <3>2. \A run \in runs : pc[run.capture] \notin {"idle", "failed"}
      BY <1>1 DEF IInv, Capture!IInv, Capture!RowsInv, Capture!Submitted, Capture!InTransaction
    <3>3. \A run \in outcomeRuns : stage[run.call] \notin {"idle", "failed"}
      BY <1>1 DEF IInv, Outcome!IInv, Outcome!PersistedInv
    <3> QED BY <3>1, <3>2, <3>3
  <2> QED BY <2>1 DEF FailedTickStoredNothing
<1> QED BY <1>1, Inductive, PTL

(* An outcome is reported under the mapping of the snapshot it joins.      *)
THEOREM OutcomesSameMapping == Spec => []OutcomeRowsSameMapping
<1>1. ASSUME IInv PROVE OutcomeRowsSameMapping
  <2>1. ASSUME NEW r \in workerRuns, r.operation = "OUTCOME", r.status = "SUCCEEDED",
               NEW q \in SnapshotsOf(r)
        PROVE  q.mapping = r.mapping
    <3>1. r.snapshot_version # {} /\ UnderMapping(r.snapshot_version, r.mapping)
      BY <1>1, <2>1 DEF IInv, RowsInv, RowTrue
    <3>2. PICK s \in snapshots : SnapshotsOf(r) = {s} /\ r.snapshot_version = {s.capture}
      BY <1>1, <3>1, NamedRow
    <3> QED BY <2>1, <3>1, <3>2 DEF UnderMapping
  <2> QED BY <2>1 DEF OutcomeRowsSameMapping
<1> QED BY <1>1, Inductive, PTL
=============================================================================
