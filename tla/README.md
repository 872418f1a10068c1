# SessionZero: a TLA+ model of its evidence tables

SessionZero collects market data so that research can be done without looking
ahead.  Before every US cash open a *decision snapshot* of prices is stored; after
the open the *outcomes* are stored and linked to it.  What makes the data worth
anything is a set of promises about the tables: one snapshot per decision, nothing
in it from after the decision, nothing ever overwritten, outcomes for the whole
cohort or for nothing.  The collected histories are fetched from providers that are
not trusted to page correctly, persisted under similar promises (a run that says
SUCCEEDED holds its rows, no value is lost or replaced), and published as datasets
that can be restored exactly.  The code keeps these promises with PostgreSQL
transactions, advisory locks, unique keys, content digests and files that are
written once, while processes overlap, die, lose acknowledgements and retry.  This
directory models that code in TLA+, checks small instances with TLC, and proves the
safety of every part for all instances with TLAPS.

## Inventory of the system

| component (source) | state it keeps | operations | hard behaviour | what makes it correct |
|---|---|---|---|---|
| Decision capture (`packages/database/.../capture_cli.py`, `capture.py`) | tables `point_in_time_capture_runs`, `_observation_versions`, `_retrievals`, `decision_time_snapshots`; an advisory lock per decision | `capture_iteration`, `persist_point_in_time_capture` | racing captures of one decision, provider failure between the two requests of a symbol, lost commit acknowledgement and resubmission, deaths, the decision passing at any instruction | one snapshot per decision, no lookahead, whole pairs, append-only, all callers agree |
| Outcome capture (`outcome.py`) | tables `prospective_outcome_*`, `decision_outcome_links`; a second advisory lock | `capture_outcome_iteration`, `persist_prospective_outcomes` | racing calls of two builds, a provider that revises an open, partial failure | all or nothing, links grounded in retrievals, snapshot read before any outcome |
| Prospective worker (`services/worker/.../main.py`) | table `prospective_worker_runs` | `run_tick` (cron and by hand), `worker_status` | a state read in one transaction and used after provider calls; overlapping ticks and the capture command; its own row may fail to be recorded, or be recorded and not acknowledged | what a row says is what the tables hold |
| Ingestion runs (`persistence.py`, `native.py`) | `ingestion_runs` and the market-data tables | create run, ingest, finalize as SUCCEEDED or FAILED | ambiguous commit, death between two transactions, idempotent re-ingestion, writers that wait for each other | a run's status and counts agree with its rows, one row per identity, no value lost |
| Dataset collection (`dataset_fetch.py`, `dataset_artifacts.py`, `native_cohort.py`) | archive files, `.pending` files, the request gate | `collect` with its thread pool, taking over what an earlier command left | pacing across threads, a death between create and rename, a worker that fails while others run | no two requests too close, an archive is written once, a complete collection is sealed, the command ends |
| Dataset build (`dataset.py`, `dataset_cli.py`) | `phase1_dataset_manifests`, `native_session_targets`, the manifest files, `latest.json` | build, restore, `prepare_target`, `persist_target` | deaths between the database and the files, directories and code versions that share the canonical candles, archives that were edited | the latest manifest restores exactly, it is never published before what it names, a target has its evidence |
| Bitget client and history (`packages/bitget/.../client.py`, `history.py`, `quality.py`) | page cursor, retries | requests with retries, backward pagination, the verdict on the rows | repeated, short, empty, overlapping, contradicting or unordered pages | termination, every served row of the window once, or a failure |
| Native data (`packages/market_data/.../alpaca.py`, `native.py`) | page token | token pagination, retries, embargo, `replay_history`, `session_target` | repeated tokens, retried pages, altered archives | no bar lost or twice, nothing inside the embargo, a replay is what was fetched |
| Calendars and sessions (`calendar.py`, `source_sessions.py`, `session_zero.py`, `evidence_cohort.py`) | none | functions of a time and of curated evidence | holidays, early closes, contradicting evidence inside a window | agreement with a reference definition over the calendar |
| Universe, coverage, export (`packages/bitget`, `packages/database`) | `universe_*`, `historical_*` tables, one JSONL file | snapshot, subset ingestion, manifest, profile, atomic publication | two commands over the same candles, lost acknowledgements, a death between two lines | records name runs that are theirs, publication is all or nothing |
| API, collector placeholder, web page | none | stateless reads | none | not modelled |
| Research (`src/research`, `src/experiments`) | none | estimators over reals | numerical | not modelled: outside TLC's reach |

The components meet in the database and by calls: the worker's tick and the
`sessionzero-capture-decision` command both call the decision capture; the tick
calls the outcome capture, which reads the snapshot the decision capture stored;
the worker's row reports what both did.  A dataset command calls the native provider
and the Bitget history from its threads, writes what they return to archives, and
replays the archives into the ingestion functions.  Nothing is passed by message; all
coordination is transactions, unique keys, two advisory locks, and files opened
exclusively and renamed.

## Modules

| module | models | role |
|---|---|---|
| `DecisionLedger` | what a reader of the point-in-time tables may rely on | abstract specification: evidence grows, the first evidence becomes the snapshot and stays |
| `PointInTimeCapture` | `capture_iteration`, `persist_point_in_time_capture` | the core; implements `DecisionLedger` |
| `PointInTimeCaptureProofs` | | theorems about the core |
| `OutcomeCapture` | `capture_outcome_iteration`, `persist_prospective_outcomes` | |
| `ProspectiveWorker` | `run_tick`, `derive_schedule`, `_snapshot_state`, `_record` | composes the two captures by `INSTANCE`, sharing the clock and the snapshots |
| `ProspectiveWorkerProofs` | | theorems about the worker, on top of those of the two captures |
| `IngestionRun` | `ingest_candle_observations`, `ingest_reference_bundle`, `persist_native_history` | concurrent persistence of histories and reference data |
| `IngestionRunProofs` | | theorems about it |
| `OutcomeCaptureProofs` | | theorems about `OutcomeCapture` |
| `HistorySource` | what a caller of either history function may rely on | abstract specification: one reply, a failure or all that was served of the window |
| `BitgetHistory` | `_request`, `get_candle_observation_page`, `fetch_bounded_history`, `evaluate_candle_quality` | implements `HistorySource` |
| `NativeHistory` | `_request`, `_history`, `get_candles`, `replay_history` | implements `HistorySource` |
| `HistoryExport` | `export_history`, `_publish_jsonl` | |
| `RequestGate` | `RequestGate.wait` | |
| `TradingSessions` | `XnysTradingCalendar`, `CuratedBitgetSourceSessionProvider`, `classify_session_zero` | operators over a calendar and evidence |
| `CohortWindow` | `derive_evidence_qualified_cohort`, `calendar_artifact`, `join_context` | extends `TradingSessions` |
| `AuditRecords` | universe snapshots, `ingest_manifest_subset`, coverage profiles | |
| `SessionTargets` | `session_target`, `prepare_target`, `persist_target` | |
| `DatasetCollection` | `collect`, `write_json`, `reverify_native_cohort` | |
| `DatasetBuild` | `build`, `materialize`, `persist_manifest`, publication | extends `DatasetCollection` |
| `DatasetBuildProofs` | | theorems about collecting, publishing and restoring |
| `ProviderDataProofs` | | theorems about the gate, the export, the audit records and the cohort window |
| `MarketDataProofs` | | theorems about the session targets and the native history |
| `LoopFacts` | | lemmas: the least of a set of naturals, extrema, and loops over a sequence |
| `MC...` | | constants of the TLC instances; `MCProviderData` and `MCDatasetBuild` are sums of several |

### PointInTimeCapture

The four tables are sets of rows; `lock[d]` is the transaction-scoped advisory
lock of a decision; every call `c` has a program counter `pc[c]`, its arguments
and clock readings `job[c]`, the retrievals `held[c]`, what its transaction read
`seen[c]` and its `reply[c]`.  One action per step at which another process can
act: `Start` (window check), `RetrieveMark` and `RetrieveClose` (one request
each), `Assemble` (the two time gates and the source sessions), `Lock`,
`ReadStored`, `Commit`; and what can go wrong: `ProviderFails`, `DatabaseFails`
(before or in the transaction), `Commit` without acknowledgement, `Crash`.
`Resubmit` is a caller that persists the same retrievals once more, which the
idempotency of `persist_point_in_time_capture` is for.

A SHA-256 digest is modelled by what it digests.  Retrievals carry microsecond
times of their own call, so the capture version, and the snapshot version derived
from it, are named by the call.  An observation version is its logical key and
its value, so two captures that get the same answer share a version, and a
provider that revises its answer makes a second one.  The cohort is iterated in
any order; the code's order is one of them.  The check of the source sessions is
the constant `SourceOpen`: the assessment is a pure function of evidence that was
published before the decision.

### OutcomeCapture

A call reads the snapshot in one transaction (`ReadSnapshot`), fetches every
member of the cohort (`Fetch`), and persists in a second one (`Persist`, with or
without acknowledgement).  The persisting transaction is one action: every writer
of the outcome tables takes the same advisory lock first, and the snapshot row it
reads never changes, so nothing can happen inside it that another process sees.
`StoreSnapshot` stands for the decision capture when the module is checked alone;
in `ProspectiveWorker` it is replaced by the capture itself.

### ProspectiveWorker

Tick `w` is at once the capture `w` and the outcome call `w`.  `at[w]` is its
place in `run_tick`, `tick[w]` its local variables: the start time, the plan
derived from it, the snapshot and link count it read, the row it is about to
record.  The row is recorded by a separate action that may fail, or commit
unacknowledged; inside the `try` block a database error is then followed by a
second row `DATABASE_FAILURE`, outside it the tick ends without one.  `Command`
is `sessionzero-capture-decision`, with its own symbols and window.  The calendar
is `DayLength` units per New York day; only the session of the current day counts,
as in `derive_schedule`.

### IngestionRun

A call is one invocation of one of the three functions, with its records in the
order in which it inserts them.  `Create` is `_create_run`, a transaction of its
own; `Insert` is the insert of one normalized row; `Commit` ends the second
transaction, with the raw rows and the SUCCEEDED status; `DatabaseFails` and
`DeadlockAborts` roll it back into the handler, whose transaction is `Finalize`.
Either commit may go unacknowledged, every transaction may fail, and a process
may die between any two steps.

`open[c]` holds the rows that `c` has inserted and not committed.  `WaitsFor` is
PostgreSQL's rule for a unique key: an insert of an identity that another open
transaction has inserted waits for the end of that transaction.  The rule is why a
multi-row statement is modelled row by row: two statements can each hold what the
other needs.  What the three functions do differently is kept: the identity of a
row (`Identity`: a candle's has no content, the others' has a digest), the order of
the records (`Inputs`: only histories are sorted), the emptiness of the input, the
count in the RUNNING row and the count after a failure.  A raw row stands for the
response of a record; how records share pages and responses is left out.

### HistorySource, BitgetHistory and NativeHistory

Both functions page through a provider and answer once.  `HistorySource` says what
a caller sees: bars are served, and the call ends with a failure or with exactly the
served bars of the window, in order, one per time.

`BitgetHistory` asks backwards from the end (`cursor`), and the reply is any sequence
of at most `PageLimit` rows (`ReceivePage`): repeated, empty, contradicting and
unordered pages are all there, and `honest` remembers whether every page so far was
what a correct provider would have sent.  A row is known by its place, a page and an
index (`Places`), and is kept when it is the first of its time (`Firsts`).  `RetryRequest`,
`SendAgain` and `RequestFails` are the loop of `_request`, which sleeps between two attempts and
counts each; `MaxPagesExceeded` is the end of the page loop.  The verdict of
`evaluate_candle_quality` is the operator `Quality`; only a history whose quality did
not fail counts as an answer.

`NativeHistory` follows tokens (`ReadPage`) and sleeps between two attempts in the same way
(`RetryRead`, `ReadAgain`); a token seen before, a page without bars
that has a next one, a time that does not increase and a malformed body end the call.
`ReplayArchive` takes any archive of a finished fetch, altered in one place or not, and
must accept exactly the ones that say what was fetched.

### HistoryExport, RequestGate, AuditRecords

`HistoryExport` runs two exporters of one path: the check, the write line by line to a
temporary file and the replace are separate steps, between which the other exporter
and a death may come.  `RequestGate` is the lock, the reading of the clock and the
sleep under the lock; `admissions` is a ghost list of the times at which threads
were let through (what a thread does after it has released the lock is not modelled).
`AuditRecords` runs two commands that record a universe, ingest a subset of it member by
member and record a manifest, and then a coverage profile, over shared candles; each
ingestion is the pair of transactions of `IngestionRun`, seen from its caller.

### TradingSessions and CohortWindow

A day has four instants, every third day is a weekend, and a calendar says of each day
whether it is full, early or no session.  The operators follow the code's search
over days (`SessionAt`, `NextSession`, `PreviousSession`) and its precedence over
evidence (`Candidates`, `Rank`, `Winners`, `Resolution`).  `CohortWindow` first derives
a cohort from evidence at the checkpoints (`Derived`), then prepares the calendar
artifact and joins an observation to its closes and opens at every instant; `at` moves
over the whole window, so that what the checkpoints promise is tested in between.

### SessionTargets

A row is an archived pair of legs: each a history of one boundary minute, or an error.
`FetchedRows` is what `collect` writes, `EditedRows` one change to it.  A builder
prepares a row (`PrepareTarget`: all checks of `prepare_target`, the replay included),
looks its version up, stores the evidence of each leg in transactions of its own, and
inserts the target last.  It may die anywhere, lose any acknowledgement and race
another builder with the same or another row.

### DatasetCollection and DatasetBuild

`files[d]` and `pending[d]` are the directory of a cohort run and outlive the process.
Every write is two steps: `...Opens` creates the `.pending` file exclusively, `...Writes`
renames it; `...Blocked` is the exclusive creation that fails.  `mainAt`, `nativeAt`
and `realityAt` are the places of the main thread, of each pool worker and of the
Reality thread; `Reap` and `ReapFailure` are the loop over finished futures, after
whose failure the pool is drained.  What a fetch returns is a value from a small set,
or a failure.

`DatasetBuild` adds what comes after it: `MaterializeMember` joins the archives with the
canonical candles in the database (an existing candle wins), `PersistManifest` inserts
the row, `OpenManifest` to `WriteLatest` publish the files one by one.  `StartRestore`
takes the manifest that `latest.json` names, and passes only if archives, code, data and
version agree with it.  `Dies` is possible at every step.  All candles of a symbol are one value, so
that any difference from the canonical ones is a conflict, also one the code would merge:
the model refuses more than the code and publishes nothing the code does not.  Commands
use their default directories, and a database that cannot be reached during a restore is
a death of the command.

## Runs

| run | instance | shows |
|---|---|---|
| `capture_race` | 2 captures of subsets of 2 symbols, resubmissions, 2 answers, 2 decisions, one with a closed source | no lookahead, whole pairs, one snapshot, replies agree, append-only, the inductive invariant, refinement of the ledger |
| `outcome` | 2 calls of 2 builds; a full snapshot, one of a subset, one of another build; 2 answers | all-or-nothing links, groundedness, revisions stay linked, one mapping on both sides, the inductive invariant |
| `worker_command` | 1 tick from before its window to after the decision, 1 command with an earlier window and possibly fewer symbols | decision rows agree with the tables; a failed tick stored nothing |
| `worker_outcome` | 2 ticks and 1 command of 2 builds around the outcome time | outcome rows stand for links of the whole cohort under their own mapping |
| `worker_live` | 1 tick and 1 command, over the end of the day | the inductive invariant over the whole day; a tick that is awake ends |
| `ingestion` | 2 calls of any kinds, 2 keys, 2 values, up to 2 records each | the inductive invariant, no revision lost, rows kept, sorted histories never deadlock, every call ends |
| `provider_data` | one of seven parts per behaviour (`subject`): both histories, the export, the gate, the cohort window, the audit records, the session targets | the refinements of `HistorySource`, completeness against an honest provider, exact replay, whole artifacts, the rate of the gate, joins and evidence, true records, grounded targets, and that a fetch ends |
| `dataset` | two symbols that share one native worker, two directories, two code versions, up to three commands of which the last restores | the latest manifest restores exactly, it is published last, archives are sealed, a command ends |
| `pre_window`, `mapping_race`, `failed_with_rows`, `resume_blocked` | expected violations | see Findings |

The parts of `provider_data` share no state; they run in one module because each
question is small, and every behaviour runs one of them, so the state space is their
sum.  The others stay in one initial state.

Bounds.  The clock is bounded by `Horizon`, chosen so that each run goes past the
latest instant its actions compare with; nothing else is bounded in the captures, since
every call makes a bounded number of requests.  Two captures are the least that race; a
third waiter shows nothing new for safety because the lock admits one and `seen` of a
waiter is read after it gets in (and the proofs cover any number; `worker_outcome` has
three callers).  Two symbols are the least for which a pair can be whole and another
missing, two values the least for a revision, two decisions the least for an
interference between decisions.  In `ingestion` two calls with two records are the
least that can deadlock, and the least in which a revision and an overlap of histories
meet (`MaxRecords` bounds the length).

In `provider_data` the histories have two pages of two rows over a window of three
times with a time before and after it (`MaxPages`, `PageLimit`, `MaxReads`, `RowLimit`):
a second page can repeat, overlap, contradict or run ahead of the first, and the last
page can be short or full; one retry (`MaxRetries`, `Retries`) is a retried page next to
a failed one.  Two exporters, auditors, builders and gate threads are the least that
interleave; the gate runs for three gaps (`LastTick`), so that three admissions can meet, and its
theorem covers the rest.  The calendar has seven days with two weekends, holidays and
early closes inside and at the ends of the window.  A target's boundary minutes
are the only ones of its archives (`TargetMinutes`), as the request asks for one minute;
the wrong leg's minute stands for every other one.  In `dataset` (`MCDatasetBuild`)
the third of three commands (`MaxRuns`) only restores: it can be given a latest manifest whose
candles another directory (`MaxDirs`) has met since.  Two symbols and one worker
(`Workers`) are the least for a pool that is drained while work is left, and two code
versions the least for a restore by other code.  One session per member stands for all sessions of an archive, which is
written whole.

Symmetry is used for the calls only, in runs without liveness.  Deadlock is not checked:
all calls may have ended and the clock or the counter of commands reached its bound.

Fairness (`ProspectiveWorker!Fairness`).  Weak fairness of a tick's own steps and
of the provider and database steps of its calls: the clients bound timeouts and
retries, and the code has no other wait.  Strong fairness of `Lock`: PostgreSQL
queues the waiters of an advisory lock.  Nothing is assumed to start, and no
failure or crash is assumed to happen or not to happen; `TickEnds` holds
because a transaction-scoped lock is released by commit, rollback and death alike.

Fairness (`IngestionRun!Fairness`).  Weak fairness of a call's own inserts, commit
and handler: a statement that does not wait runs to its end.  Weak fairness of
`DeadlockAborts`: the detector runs in every transaction that waits longer than
`deadlock_timeout`.  No failure is assumed; `CallEnds` says that a call that has
created its run ends, whatever it has to wait for.

Fairness (`MCProviderData`).  Weak fairness of the steps of each fetch: it is one
thread, its requests have a timeout and its pauses end.  Which answer comes, and
whether it fails, is free; `FetchEnds` holds because pages and retries are counted:
a retry that is not counted goes round through its pause for ever, which the fairness allows.

Fairness (`MCDatasetBuild`).  Weak fairness of the steps of a running command, taken
together: a process that has runnable threads runs one of them.  Commands need not
start and deaths need not come; `CommandEnds` says that the pool never waits for
ever.

## Proofs

`PointInTimeCaptureProofs` proves for every number of captures, symbols, values,
decisions, windows and builds, from the four assumptions of the module
(`Decisions` and `Leads` are naturals, `Horizon` is one, `Symbols` is finite):
types, no lookahead, whole pairs, exactly one snapshot, agreement of the replies
and absence of conflicts, append-only, and the refinement of `DecisionLedger`.

None of the safety properties is inductive alone: that a capture may insert a
snapshot depends on what it read still being true when it writes.  `IInv` adds
what the code relies on:

- `LockInv`: a transaction holds its decision's lock, and only transactions do;
- `HeldInv`: what a call holds is its own, of its decision, once per field;
- `SubmittedInv`: every call past the gates keeps evidence that passed them, so a
  resubmission may skip the gates;
- `SeenInv`: under the lock, what was read is still what is stored;
- `RowsInv`: every run belongs to a submitted or dead call, every snapshot to a
  run, every version is dated by its decision.

`SeenInv` is the heart: another call could change the answer only by committing a
run of the same decision, which needs the lock (`TransactionsExclude`).  From it
`NoUniqueViolation` shows that inserts never meet a unique key, `StoringCommit`
what a commit that writes may assume, and `SnapshotFromIsSound` that the snapshot
it builds is evidenced and paired.  Each conjunct has a lemma `...Step` with one step per
action.  `Refinement` shows that a storing commit is `Accept` and everything else
a stutter.

`IngestionRunProofs` proves for every number of calls, keys, values and records,
from the assumptions that keys are naturals (event times are ordered), that the
kinds are the three of the code and that `MaxRecords` is a natural.  Its inductive
invariant relates what is stored to what is still open:

- `OpenInv`: the rows of an open transaction are from the records it has gone past;
- `UniqueInv`: stored and open rows together have one row per identity, which is
  why a commit can publish them without a conflict;
- `CoveredInv`: every record gone past is stored or open, so a commit leaves none out;
- `StoredInv`: stored rows belong to calls whose run their commit has finished;
- `JobInv`: histories are sorted, and a call that has not committed has no finished run.

`NoDeadlock` is the one that does not follow from the invariant conjunct by
conjunct.  A history that waits is at a smaller key than the history it waits for,
which has gone past that key (`WaitsForLarger`); in a ring every member is waited
for by another, so the keys would descend for ever, and a set of naturals has a
smallest (`Smallest`).  A mixed ring is covered because only calls of one kind wait
for each other.

`OutcomeCaptureProofs` proves for every number of calls, symbols, values, builds and
snapshots, from the assumptions that the cohort is not empty, decisions and `Horizon`
are naturals, `OutcomeDelay` is positive, and stored rows are of known decisions and
symbols.  That one capture stores one row is no assumption: `StoreSnapshot` has the
table's two unique keys for its guard.
The invariant `IInv` says what the rows stand for:

- `OneRow`, `KnownRows`: a decision has one snapshot row, one of those a capture may store;
- `CallInv`: a call that fetches holds that row's snapshot, under its own mapping, from
  the time at which outcomes are available, and everything it fetched is its own, of
  its decision and from after that time;
- `RunInv`: a run names the one snapshot its call held, and linked every symbol to it;
- `RetrievalInv`: a retrieval is of a run's call, and linked to the run's snapshot;
- `LinkInv`: a link is a run's snapshot with a version its call retrieved;
- `PersistedInv`: a run is of a call that went on to hold it, and a call that has answered
  has its capture stored.

None of the properties is inductive without it: that a link is grounded depends on what
its call held when it stored it, and that no cohort is linked in part on the run that
stored it having had all of it.  `Persist` is where all conjuncts meet; its lemmas treat
the new rows and the kept ones apart.

`ProspectiveWorkerProofs` proves for every number of ticks, commands, symbols, values,
decisions and builds, from the assumptions that ticks are no commands, the cohort is
finite and not empty, a command captures a part of it, times are naturals,
`OutcomeDelay` is positive and a New York day has one session (`DayAssumption`, as in
`derive_schedule`).  The worker shares its tables with both captures, so its invariant
`IInv` begins with theirs: the two proof modules are instantiated (`CaptureP`,
`OutcomeP`), their step lemmas used for every step a capture makes inside a tick, and
`CaptureWork` to `OutcomeCrash` say what such a step leaves alone.  What the worker adds:

- `StageOK`: a tick is about one decision, and its place says which of its calls is under
  way, about that decision;
- `ReadOK`: what a tick read in a transaction of its own is still true when it uses it.
  The one snapshot of a decision stays, its mapping with it, and links only grow;
- `RowTrue`: a row, recorded or about to be, names the stored snapshot of its decision,
  a SUCCEEDED outcome row has all its links, and a row that reports that nothing was
  stored belongs to a tick both of whose calls stored nothing.

From it follow the five properties of the worker runs.  That a failed tick stored nothing
is the subtle one: a call whose commit went unacknowledged answers with an error too, and
the proof shows that this error is never reported as one of the three statuses.

`DatasetBuildProofs` proves for every order of members, number of workers, directories,
commands and code versions, from the assumptions that members are no threads and that an
absent value is no data.  `CollectInv` relates the files of a directory to the places of
its threads; `ManifestTrue` says of a manifest that its directory is complete, its index
and its version are those of the archives, and its candles are the ones the database has;
`MaterializeInv`, `RestoreInv` and `PublishInv` say of which stage which of this holds
already.  `RestoreExact` then follows because nothing a manifest depends on can change:
archives of a complete directory are never written (`Sealed`), and a canonical row that
exists wins (`MemberStored`).  `LatestIsGrounded` is the order of publication: the row
before the manifest file before `latest.json`.

`MarketDataProofs` has two parts.  For the session targets (any builders, quotes, error
codes and session, from the assumption that the opening minute is before the closing one)
`TargetInv` says that a builder that goes on has an accepted row and the stored evidence
of each leg it is past; evidence is never removed (`GroundedStays`), so the target that is
inserted last is grounded.  For the native history (any rows, tokens, windows and limits,
from the assumptions that minutes are naturals and the null token is no token)
`NativeInv` says that every archived page is one the loop accepts after the pages before
it, and that the candles are the rows of the window of them (`Flat`).  `AcceptedGood`
shows that pages that are accepted one after the other hold every bar once and in order,
from which follow the refinement of `HistorySource` and that a replay that is accepted is
sound; that one is accepted only with the fetched chain of tokens goes through the ways in
which an archive can differ (`DroppedRefused`, `AddedRefused`, `TokenRefused`).

`ProviderDataProofs` proves what is left of the provider's data, part by part:

- the request gate, for every number of threads and every gap, from the assumptions that
  the gap is a natural and that nobody is no thread.  `AdmissionsSpaced` compares any two
  admissions, one step only the last: `GateInv` measures every admission against the last
  one (`Behind`), and knows that a thread that sleeps has the lock (`LockHeld`) and wakes
  a gap after it (`GapAhead`);
- the export (`ExportInv`): what an exporter has written is a first part of the rows it
  chose, and the file at the path is all of one that has published;
- the audit records (`AuditInv`), for any roster, universes and answers: an entry's run is
  one that its command has left behind (`Past`), and since no command writes another's
  run, or its own again, what the entry says of it stays true.  `AnswersAssumption` is
  what `evaluate_candle_quality` and its callers guarantee of an answer;
- the cohort window, for any calendar and any evidence.  The session search is shown to
  find the last session closed and the first one coming (`PreviousExact`, `NextExact`)
  from days the calendar is known to have.  `CohortIsResolved` is an argument about
  checkpoints: evidence is in force at a time exactly if it is at the last checkpoint
  before it (`SinceCheckpoint`), because every instant at which a record begins or ends is
  a checkpoint.  `EvaluationAssumption` puts the end of the window on a weekend, as the
  code's window ends on one: in the middle of a session the session after it would not
  be prepared;
- the Bitget history, for any times, payloads, markets, window and limits, with event
  times integers and the market's within the window.  The first row of a time is never taken for
  an overlap (`FirstKept`), so every time that was read is among the rows kept; and if the
  report does not say FAIL, every row kept is the first of its time, so a row left out is
  word for word one that was kept (`NothingLost`).  Hence the refinement of
  `HistorySource`.  For a correct provider `HonestSoFar` says that what was read is what
  the market has at or after the cursor; `HonestPage` shows that its pages move the cursor
  past what they hold and that a last one leaves nothing out.

`LoopFacts` has what these proofs need of data.  The induction theorems of the library
take an operator, which the provers cannot instantiate; here induction is over a *set*
of numbers (`LoopInduction`, from `LeastNat`), and a loop is a function given by its first
value and its step (`LoopExists`), so that what `Kept` and `Flat` compute is proved for
sequences of any length.

Only model-checked: liveness under fairness (`TickEnds`, `CallEnds`, `CommandEnds`,
`FetchEnds`), which TLAPS does not prove here.  Every safety property of a passing run
is a theorem.

## Findings

- `pre_window`: before the collection window `run_tick` reports
  `MISSED_DECISION_WINDOW`, where DEPLOYMENT.md says it skips (main.py:326).
- `mapping_race`: a tick of one build can record SUCCEEDED with a snapshot of
  another build that was stored between its read and its commit (main.py:284).
- `failed_with_rows`: when the commit of an ingestion takes effect and its
  acknowledgement is lost, the handler marks the run FAILED with 0 records written
  although its rows are stored (persistence.py:193), where ADR-008 says that a failed
  write rolls back both data tables before the run is marked failed.
- `resume_blocked`: a command that dies between the exclusive creation of a `.pending`
  file and its rename leaves a file that makes every later write of the same name fail
  (dataset_artifacts.py:49), where dataset_fetch.py:1 promises a resumable collection.

More is visible in the model and is stated by no property.  The `outcome_links` of a
SUCCEEDED row is the count read before the call plus what the call inserted, and can be 0
when another invocation linked the cohort in between (main.py:368).  A snapshot of a
`--symbols` subset is reported by later ticks with the cohort's full symbol count
(main.py:262), and its outcomes are refused.  Three hazards have no property because
it would be false by design: the last time check of a capture precedes its commit
(capture_cli.py:255), the worker schedules the session of the current day only
(main.py:52), and an export is one request of at most `limit` rows (export.py:153).

## Not modelled

Parsing of provider payloads (`reference.py`, instruments, tickers), HTTP, digests as
strings, logging and exit codes: conversions of single records without state.
`capabilities.py` and `verify.py` probe the live provider.  `evidence_coverage_cli`,
`native_cli`, `reference_cli` and `cli` call modelled parts in sequence; `worker_status`
and the API only read.  The links of single dataset rows and the statistics of the
report are computed from what is modelled.  The append-only triggers meet no modelled
path, since none updates or deletes the rows they guard.  The curated evidence file is
a parameter.  Numerical research code is outside TLC's reach.

## Plan

1. A refinement for the dataset: an abstract store of published versions that
   `DatasetBuild` implements, as `DecisionLedger` is for the captures.
2. Action properties that follow from the invariants already proved: worker rows and
   targets are only added, audit records never change.
3. The replies of overlapping outcome calls (`SameCapture`) as a theorem of their own.
