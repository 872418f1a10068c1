------------------------------ MODULE AuditRecords ------------------------------
(* Two commands and what they leave behind: the universe manifest              *)
(* (universe_cli.py: discover, persist the universe, ingest member by member,  *)
(* persist the manifest) and the coverage profile of a stored universe         *)
(* (coverage_cli.py).  Any number of them run at once; each may die.           *)
EXTENDS Integers, Sequences, FiniteSets, FiniteSetsExt, SequencesExt

CONSTANTS Auditors,       \* running commands
          Roster,         \* the Reality symbols in their canonical order
          Universes,      \* sets of eligible symbols that discovery may find
          SubsetSize,     \* --subset-size
          Answers,        \* what fetching a history may come to
          EvalStart, EvalEnd, MinimumDays, OosDays

(* An answer: its kind, and the quality and the days of what was received.     *)
ASSUME AnswersAssumption ==
  \A a \in Answers :
    /\ a.kind \in {"history", "pagination_error", "provider_error", "invalid"}
    /\ a.days \subseteq EvalStart .. EvalEnd - 1
    /\ a.days = {} => a.quality = "FAIL"
    /\ a.kind = "pagination_error" => a.quality = "FAIL"

RosterSet == {Roster[i] : i \in DOMAIN Roster}

ASSUME SelectionAssumption == Roster \in Seq(RosterSet) /\ SubsetSize \in Nat \ {0}
ASSUME SplitAssumption == {EvalStart, EvalEnd, MinimumDays, OosDays} \subseteq Int

VARIABLES phase,          \* where each command is
          universe,       \* the universe it works on
          entries,        \* the manifest entries, or the profile members, so far
          report,         \* the history it is storing, or NoReport
          universes,      \* universe_snapshots
          discoveries,    \* universe_discovery_observations
          auditRuns,      \* ingestion_runs
          candleDays,     \* normalized_market_candles: days per symbol
          auditManifests, \* historical_ingestion_manifests with their entries
          profiles        \* historical_coverage_profiles with their members

auditTables == <<universes, discoveries, auditRuns, candleDays, auditManifests, profiles>>
auditVars == <<phase, universe, entries, report, auditTables>>

NoReport == [kind |-> "none", quality |-> "none", days |-> {}]
NoRun == <<>>

AuditInit == /\ phase = [c \in Auditors |-> "idle"]
             /\ universe = [c \in Auditors |-> {}]
             /\ entries = [c \in Auditors |-> <<>>]
             /\ report = [c \in Auditors |-> NoReport]
             /\ universes = {}
             /\ discoveries = {}
             /\ auditRuns = {}
             /\ candleDays = [s \in RosterSet |-> {}]
             /\ auditManifests = {}
             /\ profiles = {}

(* The first eligible members in canonical order: the k-th has k - 1 before it.*)
Selected(u) ==
  LET eligible == {i \in DOMAIN Roster : Roster[i] \in u}
      Place(i) == Cardinality({j \in eligible : j <= i})
  IN [k \in 1 .. Min({SubsetSize, Cardinality(eligible)}) |->
       Roster[CHOOSE i \in eligible : Place(i) = k]]

Moves(c, to) == phase' = [phase EXCEPT ![c] = to]

(***************************************************************************)
(* The universe and its manifest.                                          *)
(***************************************************************************)
Discover(c) == /\ phase[c] = "idle"
               /\ \E u \in Universes : universe' = [universe EXCEPT ![c] = u]
               /\ Moves(c, "universe")
               /\ UNCHANGED <<entries, report, auditTables>>

(* persist_universe_snapshot: the root and the members once per version, an    *)
(* observation each time.  A universe without an eligible member is stored,    *)
(* and the command then fails.                                                 *)
PersistUniverse(c) ==
  /\ phase[c] = "universe"
  /\ universes' = universes \cup {universe[c]}
  /\ discoveries' = discoveries \cup {[by |-> c, universe |-> universe[c]]}
  /\ Moves(c, IF universe[c] = {} THEN "failed" ELSE "ingesting")
  /\ UNCHANGED <<universe, entries, report, auditRuns, candleDays, auditManifests, profiles>>

Current(c) == Selected(universe[c])[Len(entries[c]) + 1]
Remains(c) == Len(entries[c]) < Len(Selected(universe[c]))

Entry(c, status, run, written) ==
  [symbol |-> Current(c), status |-> status, run |-> run, written |-> written]

Adds(c, entry) == entries' = [entries EXCEPT ![c] = Append(@, entry)]

(* A member whose history is missing, broken or refused has its entry and the  *)
(* next one is fetched.                                                        *)
EntryStatus(a) == IF a.kind = "provider_error" THEN "UNAVAILABLE" ELSE "FAILED"

SkipMember(c, a) ==
  /\ phase[c] = "ingesting" /\ Remains(c)
  /\ a.kind # "history" \/ a.quality = "FAIL"
  /\ Adds(c, Entry(c, EntryStatus(a), NoRun, 0))
  /\ UNCHANGED <<phase, universe, report, auditTables>>

RunOf(c) == <<c, Len(entries[c]) + 1>>

(* ingest_candle_observations: the run is created in a transaction of its own. *)
BeginRun(c, a) ==
  /\ phase[c] = "ingesting" /\ Remains(c)
  /\ a.kind = "history" /\ a.quality # "FAIL"
  /\ auditRuns' = auditRuns \cup {[run |-> RunOf(c), symbol |-> Current(c),
                                   status |-> "RUNNING", written |-> 0]}
  /\ report' = [report EXCEPT ![c] = a]
  /\ Moves(c, "writing")
  /\ UNCHANGED <<universe, entries, universes, discoveries, candleDays, auditManifests, profiles>>

(* The end of the run: the days no run has stored before are its own.          *)
Finished(c, status, written) ==
  {r \in auditRuns : r.run # RunOf(c)}
    \cup {[run |-> RunOf(c), symbol |-> Current(c), status |-> status, written |-> written]}

NewDays(c) == report[c].days \ candleDays[Current(c)]

Stores(c) == candleDays' = [candleDays EXCEPT ![Current(c)] = @ \cup report[c].days]

(* Mutant: the entry counts what was received.                                 *)
CommitRunReceived(c) ==
  /\ phase[c] = "writing"
  /\ Stores(c)
  /\ auditRuns' = Finished(c, "SUCCEEDED", Cardinality(NewDays(c)))
  /\ Adds(c, Entry(c, IF report[c].quality = "WARN" THEN "SUCCEEDED_WITH_WARNINGS" ELSE "SUCCEEDED",
                   RunOf(c), Cardinality(report[c].days)))
  /\ report' = [report EXCEPT ![c] = NoReport]
  /\ Moves(c, "ingesting")
  /\ UNCHANGED <<universe, universes, discoveries, auditManifests, profiles>>

CommitRun(c) ==
  /\ phase[c] = "writing"
  /\ Stores(c)
  /\ auditRuns' = Finished(c, "SUCCEEDED", Cardinality(NewDays(c)))
  /\ Adds(c, Entry(c, IF report[c].quality = "WARN" THEN "SUCCEEDED_WITH_WARNINGS" ELSE "SUCCEEDED",
                   RunOf(c), Cardinality(NewDays(c))))
  /\ report' = [report EXCEPT ![c] = NoReport]
  /\ Moves(c, "ingesting")
  /\ UNCHANGED <<universe, universes, discoveries, auditManifests, profiles>>

(* A database error ends the command, whether the commit took effect or not;   *)
(* the run is marked if the database still answers.                            *)
LoseRun(c) ==
  /\ phase[c] = "writing"
  /\ \/ Stores(c) /\ auditRuns' = Finished(c, "FAILED", 0)
     \/ UNCHANGED candleDays /\ auditRuns' = Finished(c, "FAILED", 0)
     \/ UNCHANGED <<candleDays, auditRuns>>
  /\ report' = [report EXCEPT ![c] = NoReport]
  /\ Moves(c, "failed")
  /\ UNCHANGED <<universe, entries, universes, discoveries, auditManifests, profiles>>

(* persist_historical_manifest: the version is the hash of what it says.       *)
PersistManifest(c) ==
  /\ phase[c] = "ingesting" /\ ~Remains(c)
  /\ auditManifests' = auditManifests \cup {[universe |-> universe[c], entries |-> entries[c]]}
  /\ Moves(c, "ended")
  /\ UNCHANGED <<universe, entries, report, universes, discoveries, auditRuns, candleDays, profiles>>

(***************************************************************************)
(* The coverage profile.                                                   *)
(***************************************************************************)
OosStart == EvalEnd - OosDays

CoverageStatus(first, last, quality) ==
  IF quality = "FAIL" THEN "DATA_QUALITY_FAILURE"
  ELSE IF \/ last - first + 1 < MinimumDays
          \/ OosStart < EvalStart
          \/ ~(first < OosStart)
          \/ ~(OosStart <= last /\ last < EvalEnd)
       THEN "INSUFFICIENT_HISTORY"
       ELSE "SUFFICIENT_MINIMUM_HISTORY"

(* build_coverage_member: without an observation there is no history.          *)
CoverageMember(s, a) ==
  [symbol |-> s, days |-> a.days,
   status |-> IF a.days = {} THEN "HISTORY_UNAVAILABLE"
              ELSE CoverageStatus(Min(a.days), Max(a.days), a.quality)]

(* load_accepted_universe; a subset larger than what is eligible is refused.   *)
StartProfile(c) ==
  /\ phase[c] = "idle"
  /\ \E u \in universes : /\ universe' = [universe EXCEPT ![c] = u]
                          /\ Moves(c, IF SubsetSize > Cardinality(u) THEN "failed" ELSE "profiling")
  /\ UNCHANGED <<entries, report, auditTables>>

ProfileMember(c, a) ==
  /\ phase[c] = "profiling" /\ Remains(c)
  /\ IF a.kind = "invalid"
     THEN Moves(c, "failed") /\ UNCHANGED entries
     ELSE Adds(c, CoverageMember(Current(c), a)) /\ UNCHANGED phase
  /\ UNCHANGED <<universe, report, auditTables>>

PersistProfile(c) ==
  /\ phase[c] = "profiling" /\ ~Remains(c)
  /\ profiles' = profiles \cup {[universe |-> universe[c], members |-> entries[c]]}
  /\ Moves(c, "ended")
  /\ UNCHANGED <<universe, entries, report, universes, discoveries, auditRuns, candleDays, auditManifests>>

(* A death, or a failed transaction other than the one that stores candles. *)
AuditFails(c) == /\ phase[c] \notin {"idle", "ended", "failed"}
                 /\ report' = [report EXCEPT ![c] = NoReport]
                 /\ Moves(c, "failed")
                 /\ UNCHANGED <<universe, entries, auditTables>>

AuditNext == \E c \in Auditors :
  \/ Discover(c) \/ PersistUniverse(c) \/ CommitRun(c) \/ LoseRun(c) \/ PersistManifest(c)
  \/ StartProfile(c) \/ PersistProfile(c) \/ AuditFails(c)
  \/ \E a \in Answers : SkipMember(c, a) \/ BeginRun(c, a) \/ ProfileMember(c, a)

AuditSpec == AuditInit /\ [][AuditNext]_auditVars

(***************************************************************************)
(* Properties.                                                             *)
(***************************************************************************)
Succeeded(e) == e.status \in {"SUCCEEDED", "SUCCEEDED_WITH_WARNINGS"}

(* MANIFESTS: a stored manifest accounts for every selected member of a stored *)
(* universe, in order; an entry names a run exactly if it succeeded, and that  *)
(* run is the member's, SUCCEEDED and with the count of the entry, whatever    *)
(* else writes the same candles (universe.py:114-233, 270-320).                *)
ManifestsTrue ==
  \A m \in auditManifests :
    /\ m.universe \in universes
    /\ [i \in DOMAIN m.entries |-> m.entries[i].symbol] = Selected(m.universe)
    /\ \A e \in ToSet(m.entries) :
         IF Succeeded(e)
         THEN [run |-> e.run, symbol |-> e.symbol, status |-> "SUCCEEDED", written |-> e.written]
                \in auditRuns
         ELSE e.run = NoRun /\ e.written = 0

(* PROFILES: a stored profile has every selected member, and calls a history   *)
(* sufficient only if its days span the minimum and lie on both sides of the   *)
(* out-of-sample split (bitget/coverage.py:56-223).                            *)
ProfilesTrue ==
  \A p \in profiles :
    /\ p.universe \in universes
    /\ [i \in DOMAIN p.members |-> p.members[i].symbol] = Selected(p.universe)
    /\ \A m \in ToSet(p.members) : m.status = "SUFFICIENT_MINIMUM_HISTORY" =>
         \E early, late \in m.days : /\ early < EvalEnd - OosDays
                                     /\ EvalEnd - OosDays <= late
                                     /\ late - early + 1 >= MinimumDays

(* RECORDS: what the audit commands leave behind is true.                      *)
RecordsTrue == ManifestsTrue /\ ProfilesTrue

(***************************************************************************)
(* What the proof of it rests on.                                          *)
(***************************************************************************)
AuditPhases == {"idle", "universe", "ingesting", "writing", "profiling", "ended", "failed"}

(* The entries, or members, so far are those of the first selected symbols.    *)
Follows(list, u) ==
  /\ Len(list) <= Len(Selected(u))
  /\ \A i \in DOMAIN list : list[i].symbol = Selected(u)[i]

EntryTrue(e) ==
  IF Succeeded(e)
  THEN [run |-> e.run, symbol |-> e.symbol, status |-> "SUCCEEDED", written |-> e.written]
         \in auditRuns
  ELSE e.run = NoRun /\ e.written = 0

MemberTrue(m) ==
  m.status = "SUFFICIENT_MINIMUM_HISTORY" =>
    \E early, late \in m.days : /\ early < EvalEnd - OosDays
                                /\ EvalEnd - OosDays <= late
                                /\ late - early + 1 >= MinimumDays

(* The run of an entry is one its command has left behind: no command writes   *)
(* the run of another, or one of its own again.                                *)
Past(e) == \E c \in Auditors : \E k \in 1 .. Len(entries[c]) : e.run = <<c, k>>

CommandInv(c) ==
  /\ entries[c] \in Seq(ToSet(entries[c]))
  /\ phase[c] \in {"idle", "universe"} => entries[c] = <<>>
  /\ phase[c] \in {"ingesting", "writing", "profiling"} =>
       universe[c] \in universes /\ Follows(entries[c], universe[c])
  /\ phase[c] = "writing" => Len(entries[c]) < Len(Selected(universe[c]))
  /\ phase[c] \in {"ingesting", "writing"} =>
       \A e \in ToSet(entries[c]) : EntryTrue(e) /\ (Succeeded(e) => Past(e))
  /\ phase[c] = "profiling" => \A m \in ToSet(entries[c]) : MemberTrue(m)

AuditInv ==
  /\ phase \in [Auditors -> AuditPhases]
  /\ DOMAIN universe = Auditors /\ DOMAIN entries = Auditors
  /\ \A c \in Auditors : CommandInv(c)
  /\ \A m \in auditManifests : \A e \in ToSet(m.entries) : Succeeded(e) => Past(e)
  /\ RecordsTrue
=================================================================================
