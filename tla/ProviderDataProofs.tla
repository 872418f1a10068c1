-------------------------- MODULE ProviderDataProofs --------------------------
(***************************************************************************)
(* Proofs about the parts that fetch, publish and record provider data.    *)
(***************************************************************************)
EXTENDS BitgetHistory, RequestGate, HistoryExport, AuditRecords, CohortWindow, LoopFacts, FiniteSetTheorems, TLAPS

(***************************************************************************)
(* The request gate keeps its rate for every number of threads and every   *)
(* gap.  One admission says nothing of the one before the last, so the     *)
(* invariant measures every admission against the last one, and knows that *)
(* a thread that sleeps does so until a gap after it, because nobody else  *)
(* has the lock.                                                           *)
(***************************************************************************)
GateType == /\ now \in Int
            /\ previousAt \in Int
            /\ wakes \in [Threads -> Int]
            /\ gateAt \in [Threads -> {"outside", "measuring", "sleeping"}]
            /\ gateLock \in Threads \cup {Nobody}
            /\ admissions \in Seq(Int)

(* Who is in wait() beyond the lock holds it, and wakes a gap after the last.  *)
LockHeld == \A t \in Threads : gateAt[t] # "outside" => gateLock = t
GapAhead == \A t \in Threads : gateAt[t] = "sleeping" => wakes[t] = previousAt + Gap

(* Every admission lies as many gaps before the last as there were since.      *)
Behind == \A i \in DOMAIN admissions :
            previousAt - admissions[i] >= (Len(admissions) - i) * Gap

GateInv == GateType /\ LockHeld /\ GapAhead /\ Behind /\ AdmissionsSpaced

LEMMA OneGapMore == ASSUME NEW k \in Int, NEW g \in Int PROVE (k + 1) * g = k * g + g
  BY SMT

(* The invariant holds before the first admission.                             *)
LEMMA GateStarts == GateInit => GateInv
  BY GapAssumption, ThreadAssumption
     DEF GateInit, GateInv, GateType, LockHeld, GapAhead, Behind, AdmissionsSpaced

(* An admission comes at least a gap after the last, and so as many gaps after *)
(* each earlier one as there are admissions between them.                      *)
LEMMA AdmitKeeps ==
  ASSUME NEW t \in Threads, GateInv, Admit(t)
  PROVE  GateInv'
<1> USE DEF GateInv
<1>1. GateType'
  BY DEF GateType, Admit
<1>2. LockHeld' /\ GapAhead'
  BY ThreadAssumption DEF GateType, LockHeld, GapAhead, Admit
<1>3. Gap \in Int /\ now - previousAt >= Gap
  BY GapAssumption DEF GateType, GapAhead, Admit
<1>4. /\ DOMAIN admissions = 1 .. Len(admissions)
      /\ Len(admissions) \in Nat
      /\ Len(admissions') = Len(admissions) + 1
      /\ DOMAIN admissions' = 1 .. Len(admissions) + 1
      /\ \A i \in DOMAIN admissions : admissions'[i] = admissions[i] /\ admissions[i] \in Int
      /\ admissions'[Len(admissions) + 1] = now
  BY DEF GateType, Admit
<1>5. \A i \in DOMAIN admissions : now - admissions[i] >= (Len(admissions) + 1 - i) * Gap
  <2>1. TAKE i \in DOMAIN admissions
  <2>2. previousAt - admissions[i] >= (Len(admissions) - i) * Gap
    BY DEF Behind
  <2>3. (Len(admissions) - i + 1) * Gap = (Len(admissions) - i) * Gap + Gap
    BY <1>3, <1>4, OneGapMore
  <2>4. Len(admissions) + 1 - i = Len(admissions) - i + 1
    BY <1>4
  <2>5. (Len(admissions) - i) * Gap \in Int
    BY <1>3, <1>4
  <2> HIDE DEF GateInv
  <2>6. QED
    BY <1>3, <1>4, <2>2, <2>3, <2>4, <2>5 DEF GateInv, GateType
<1>6. Behind'
  <2>1. SUFFICES ASSUME NEW i \in DOMAIN admissions'
                 PROVE  now - admissions'[i] >= (Len(admissions) + 1 - i) * Gap
    BY <1>4 DEF Behind, Admit
  <2>2. CASE i \in DOMAIN admissions
    BY <1>4, <1>5, <2>2
  <2>3. CASE i = Len(admissions) + 1
    BY <1>3, <1>4, <2>3 DEF GateType
  <2>4. QED
    BY <1>4, <2>2, <2>3
<1>7. AdmissionsSpaced'
  <2>1. SUFFICES ASSUME NEW i \in DOMAIN admissions', NEW j \in DOMAIN admissions', i < j
                 PROVE  admissions'[j] - admissions'[i] >= (j - i) * Gap
    BY DEF AdmissionsSpaced
  <2>2. i \in DOMAIN admissions
    BY <1>4, <2>1
  <2>3. CASE j \in DOMAIN admissions
    BY <1>4, <2>1, <2>2, <2>3 DEF AdmissionsSpaced
  <2>4. CASE j = Len(admissions) + 1
    BY <1>4, <1>5, <2>2, <2>4
  <2>5. QED
    BY <1>4, <2>3, <2>4
<1>8. QED
  BY <1>1, <1>2, <1>6, <1>7

(* The clock and the two steps before an admission leave the rate as it is.    *)
LEMMA GateKeeps == GateInv /\ [GateNext]_gateVars => GateInv'
<1> SUFFICES ASSUME GateInv, [GateNext]_gateVars PROVE GateInv'
  OBVIOUS
<1>1. CASE Tick
  BY <1>1 DEF Tick, GateInv, GateType, LockHeld, GapAhead, Behind, AdmissionsSpaced
<1>2. ASSUME NEW t \in Threads, Acquire(t) PROVE GateInv'
  BY <1>2, ThreadAssumption
     DEF Acquire, GateInv, GateType, LockHeld, GapAhead, Behind, AdmissionsSpaced
<1>3. ASSUME NEW t \in Threads, Measure(t) PROVE GateInv'
  <2>1. GateType'
    BY <1>3, GapAssumption DEF Measure, GateInv, GateType
  <2>2. LockHeld' /\ GapAhead'
    BY <1>3, GapAssumption DEF Measure, GateInv, GateType, LockHeld, GapAhead
  <2>3. Behind' /\ AdmissionsSpaced'
    BY <1>3 DEF Measure, GateInv, Behind, AdmissionsSpaced
  <2>4. QED
    BY <2>1, <2>2, <2>3 DEF GateInv
<1>4. ASSUME NEW t \in Threads, Admit(t) PROVE GateInv'
  BY <1>4, AdmitKeeps
<1>5. CASE UNCHANGED gateVars
  BY <1>5 DEF gateVars, GateInv, GateType, LockHeld, GapAhead, Behind, AdmissionsSpaced
<1>6. QED
  BY <1>1, <1>2, <1>3, <1>4, <1>5 DEF GateNext

(* RATE: for every number of threads and every gap, k admissions later at      *)
(* least k gaps have passed (dataset_fetch.py:24-36).                          *)
THEOREM RateKept == GateSpec => []AdmissionsSpaced
<1>1. GateInv => AdmissionsSpaced
  BY DEF GateInv
<1>2. QED
  BY GateStarts, GateKeeps, <1>1, PTL DEF GateSpec

(***************************************************************************)
(* The export.                                                             *)
(***************************************************************************)
LEMMA ExportStarts == ASSUME ExportInit PROVE ExportInv
  BY DEF ExportInit, ExportInv, NoFile

(* What is chosen is in order, one row per time and inside the window.     *)
LEMMA SortedFacts ==
  ASSUME NEW reply \in Replies, NEW rows \in SortedRows(reply), Distinct(rows)
  PROVE  /\ rows \in Seq(ExportWindow)
         /\ \A i, j \in DOMAIN rows : i < j => rows[i] < rows[j]
<1> DEFINE kept == {i \in DOMAIN reply : reply[i] \in ExportWindow}
<1>1. PICK order \in [1 .. Cardinality(kept) -> kept] :
        /\ \A i, j \in DOMAIN order : i < j => /\ order[i] # order[j]
                                              /\ reply[order[i]] <= reply[order[j]]
        /\ rows = [i \in DOMAIN order |-> reply[order[i]]]
  BY DEF SortedRows
<1>2. Cardinality(kept) \in Nat
  <2>1. PICK n \in 0 .. ExportLimit : reply \in [1 .. n -> ExportTimes]
    BY DEF Replies
  <2>2. IsFiniteSet(1 .. n)
    BY <2>1, FS_Interval
  <2>3. kept \subseteq 1 .. n
    BY <2>1
  <2> HIDE DEF kept
  <2> QED BY <2>2, <2>3, FS_Subset, FS_CardinalityType
<1>3. \A i \in DOMAIN order : reply[order[i]] \in ExportWindow
  OBVIOUS
<1>4. rows \in [1 .. Cardinality(kept) -> ExportWindow]
  BY <1>1, <1>3
<1>5. rows \in Seq(ExportWindow)
  <2> HIDE DEF kept
  <2> QED BY <1>2, <1>4
<1>6. ASSUME NEW i \in DOMAIN rows, NEW j \in DOMAIN rows, i < j PROVE rows[i] < rows[j]
  <2>1. rows[i] <= rows[j]
    BY <1>1, <1>6
  <2>2. i # j
    BY <1>2, <1>4, <1>6
  <2>3. rows[i] # rows[j]
    BY <2>2 DEF Distinct
  <2>4. rows[i] \in Int /\ rows[j] \in Int
    BY <1>4, ExportAssumption DEF ExportWindow
  <2> QED BY <2>1, <2>3, <2>4
<1> QED BY <1>5, <1>6

LEMMA FetchKeeps ==
  ASSUME ExportInv, NEW e \in Exporters, NEW reply \in Replies, FetchExport(e, reply)
  PROVE  ExportInv'
<1>1. PICK rows \in SortedRows(reply) : /\ rows # <<>> /\ Distinct(rows)
                                        /\ chosen' = [chosen EXCEPT ![e] = rows]
  BY DEF FetchExport
<1>2. /\ stage[e] = "fetch" /\ stage' = [stage EXCEPT ![e] = "publish"]
      /\ UNCHANGED <<overwrite, temporary, output>>
  BY DEF FetchExport
<1>3. rows \in Seq(ExportWindow) /\ \A i, j \in DOMAIN rows : i < j => rows[i] < rows[j]
  BY <1>1, SortedFacts
<1>4. temporary[e] = NoFile
  BY <1>2 DEF ExportInv
<1>5. output # NoFile => output.by # e
  BY <1>2 DEF ExportInv
<1>6. /\ stage' \in [Exporters -> {"fetch", "publish", "write", "published", "failed", "dead"}]
      /\ chosen' \in [Exporters -> Seq(ExportWindow)]
      /\ DOMAIN temporary' = Exporters
  BY <1>1, <1>2, <1>3 DEF ExportInv
<1>7. ASSUME NEW f \in Exporters
      PROVE  /\ \A i, j \in DOMAIN chosen'[f] : i < j => chosen'[f][i] < chosen'[f][j]
             /\ temporary'[f] # NoFile' =>
                  /\ temporary'[f].by = f
                  /\ stage'[f] # "fetch"
                  /\ Len(temporary'[f].lines) <= Len(chosen'[f])
                  /\ temporary'[f].lines \in Seq(ExportWindow)
                  /\ \A i \in DOMAIN temporary'[f].lines :
                       temporary'[f].lines[i] = chosen'[f][i]
  <2>1. NoFile' = NoFile
    BY DEF NoFile
  <2>2. CASE f = e
    BY <1>1, <1>2, <1>3, <1>4, <2>1, <2>2 DEF ExportInv
  <2>3. CASE f # e
    BY <1>1, <1>2, <2>1, <2>3 DEF ExportInv
  <2> QED BY <2>2, <2>3
<1>8. output' # NoFile' => /\ output'.by \in Exporters
                           /\ stage'[output'.by] = "published"
                           /\ output'.lines = chosen'[output'.by]
  BY <1>1, <1>2, <1>5 DEF ExportInv, NoFile
<1> QED BY <1>6, <1>7, <1>8 DEF ExportInv, ExportWindow

LEMMA WriteKeeps ==
  ASSUME ExportInv, NEW e \in Exporters, WriteLine(e)
  PROVE  ExportInv'
<1> DEFINE lines == temporary[e].lines
<1>1. /\ stage[e] = "write" /\ Len(lines) < Len(chosen[e])
      /\ temporary' = [temporary EXCEPT ![e] =
                         [by |-> e, lines |-> Append(lines, chosen[e][Len(lines) + 1])]]
      /\ UNCHANGED <<overwrite, stage, chosen, output>>
  BY DEF WriteLine
<1>2. lines \in Seq(ExportWindow) /\ \A i \in DOMAIN lines : lines[i] = chosen[e][i]
  <2>1. CASE temporary[e] = NoFile
    <3>1. lines = <<>>
      BY <2>1 DEF NoFile
    <3> QED BY <3>1
  <2>2. CASE temporary[e] # NoFile
    BY <2>2 DEF ExportInv
  <2> QED BY <2>1, <2>2
<1>3. chosen[e] \in Seq(ExportWindow)
  BY DEF ExportInv
<1>4. DOMAIN temporary' = Exporters
  BY <1>1 DEF ExportInv
<1> HIDE DEF lines
<1> DEFINE more == Append(lines, chosen[e][Len(lines) + 1])
<1>5. /\ more \in Seq(ExportWindow) /\ Len(more) <= Len(chosen[e])
      /\ \A i \in DOMAIN more : more[i] = chosen[e][i]
  <2>1. chosen[e][Len(lines) + 1] \in ExportWindow
    BY <1>1, <1>2, <1>3
  <2>2. /\ more \in Seq(ExportWindow) /\ Len(more) = Len(lines) + 1
        /\ DOMAIN more = 1 .. Len(lines) + 1
        /\ \A i \in 1 .. Len(lines) : more[i] = lines[i]
        /\ more[Len(lines) + 1] = chosen[e][Len(lines) + 1]
    BY <1>2, <2>1
  <2> HIDE DEF more
  <2> QED BY <1>1, <1>2, <1>3, <2>2
<1> HIDE DEF more
<1>6. temporary' = [temporary EXCEPT ![e] = [by |-> e, lines |-> more]]
  BY <1>1 DEF more
<1>7. ASSUME NEW f \in Exporters
      PROVE  /\ \A i, j \in DOMAIN chosen[f] : i < j => chosen[f][i] < chosen[f][j]
             /\ temporary'[f] # NoFile =>
                  /\ temporary'[f].by = f
                  /\ stage[f] # "fetch"
                  /\ Len(temporary'[f].lines) <= Len(chosen[f])
                  /\ temporary'[f].lines \in Seq(ExportWindow)
                  /\ \A i \in DOMAIN temporary'[f].lines : temporary'[f].lines[i] = chosen[f][i]
  <2>1. CASE f = e
    <3>1. temporary'[f] = [by |-> e, lines |-> more]
      BY <1>6, <2>1 DEF ExportInv
    <3>2. temporary'[f].by = f /\ temporary'[f].lines = more
      BY <2>1, <3>1
    <3>3. \A i, j \in DOMAIN chosen[f] : i < j => chosen[f][i] < chosen[f][j]
      BY DEF ExportInv
    <3> QED BY <1>1, <1>5, <2>1, <3>2, <3>3
  <2>2. CASE f # e
    <3>1. temporary'[f] = temporary[f]
      BY <1>6, <2>2 DEF ExportInv
    <3> QED BY <3>1 DEF ExportInv
  <2> QED BY <2>1, <2>2
<1>8. NoFile' = NoFile /\ ExportWindow' = ExportWindow
  BY DEF NoFile, ExportWindow
<1> QED BY <1>1, <1>4, <1>7, <1>8 DEF ExportInv

LEMMA PublishKeeps ==
  ASSUME ExportInv, NEW e \in Exporters, Publish(e)
  PROVE  ExportInv'
<1>1. /\ stage[e] = "write" /\ temporary[e] # NoFile
      /\ Len(temporary[e].lines) = Len(chosen[e])
      /\ output' = temporary[e]
      /\ temporary' = [temporary EXCEPT ![e] = NoFile]
      /\ stage' = [stage EXCEPT ![e] = "published"]
      /\ UNCHANGED <<overwrite, chosen>>
  BY DEF Publish, WrittenOut
<1>2. /\ temporary[e].by = e /\ temporary[e].lines \in Seq(ExportWindow)
      /\ chosen[e] \in Seq(ExportWindow)
      /\ \A i \in DOMAIN temporary[e].lines : temporary[e].lines[i] = chosen[e][i]
  BY <1>1 DEF ExportInv
<1>3. temporary[e].lines = chosen[e]
  BY <1>1, <1>2
<1> QED BY <1>1, <1>2, <1>3 DEF ExportInv, NoFile, ExportWindow

LEMMA ExportStepKeeps == ASSUME ExportInv, [ExportNext]_exportVars PROVE ExportInv'
<1>1. ASSUME NEW e \in Exporters, ExportFails(e) PROVE ExportInv'
  BY <1>1 DEF ExportFails, ExportInv, NoFile, ExportWindow
<1>2. ASSUME NEW e \in Exporters, NEW reply \in Replies, FetchExport(e, reply) PROVE ExportInv'
  BY <1>2, FetchKeeps
<1>3. ASSUME NEW e \in Exporters, CheckOutput(e) PROVE ExportInv'
  BY <1>3 DEF CheckOutput, ExportInv, NoFile, ExportWindow
<1>4. ASSUME NEW e \in Exporters, WriteLine(e) PROVE ExportInv'
  BY <1>4, WriteKeeps
<1>5. ASSUME NEW e \in Exporters, Publish(e) PROVE ExportInv'
  BY <1>5, PublishKeeps
<1>6. ASSUME NEW e \in Exporters, WriteFails(e) PROVE ExportInv'
  <2>1. /\ stage[e] = "write" /\ stage' = [stage EXCEPT ![e] = "failed"]
        /\ temporary' = [temporary EXCEPT ![e] = NoFile]
        /\ UNCHANGED <<overwrite, chosen, output>>
    BY <1>6 DEF WriteFails
  <2>2. NoFile' = NoFile /\ ExportWindow' = ExportWindow
    BY DEF NoFile, ExportWindow
  <2>3. output # NoFile => output.by # e
    BY <2>1 DEF ExportInv
  <2>4. temporary'[e] = NoFile /\ \A f \in Exporters \ {e} : temporary'[f] = temporary[f]
    BY <2>1 DEF ExportInv
  <2>5. DOMAIN temporary' = Exporters
    BY <2>1 DEF ExportInv
  <2> QED BY <2>1, <2>2, <2>3, <2>4, <2>5 DEF ExportInv
<1>7. ASSUME NEW e \in Exporters, ExporterDies(e) PROVE ExportInv'
  BY <1>7 DEF ExporterDies, ExportInv, NoFile, ExportWindow
<1>8. CASE UNCHANGED exportVars
  BY <1>8 DEF exportVars, ExportInv, NoFile, ExportWindow
<1> QED BY <1>1, <1>2, <1>3, <1>4, <1>5, <1>6, <1>7, <1>8 DEF ExportNext

(* Whatever any number of exports of any ranges write, replace or leave    *)
(* half written when they die, the file at the path is all the rows of one *)
(* of them, in order and in its window (export.py:52, 108-134).            *)
THEOREM ArtifactsWhole == ExportSpec => []ArtifactWhole
<1>1. ExportInit => ExportInv
  BY ExportStarts
<1>2. ExportInv /\ [ExportNext]_exportVars => ExportInv'
  BY ExportStepKeeps
<1>3. ASSUME ExportInv PROVE ArtifactWhole
  <2>1. SUFFICES ASSUME output # NoFile
                 PROVE  /\ output.lines = chosen[output.by]
                        /\ \A i, j \in DOMAIN output.lines : i < j =>
                             output.lines[i] < output.lines[j]
                        /\ Range(output.lines) \subseteq ExportWindow
    BY DEF ArtifactWhole
  <2>2. output.by \in Exporters /\ output.lines = chosen[output.by]
    BY <1>3, <2>1 DEF ExportInv
  <2>3. chosen[output.by] \in Seq(ExportWindow)
    BY <1>3, <2>2 DEF ExportInv
  <2>4. \A i \in DOMAIN output.lines : output.lines[i] \in ExportWindow
    BY <2>2, <2>3
  <2> QED BY <1>3, <2>2, <2>4 DEF ExportInv, Range
<1> QED BY <1>1, <1>2, <1>3, PTL DEF ExportSpec


(***************************************************************************)
(* The audit commands and what they leave behind.                          *)
(***************************************************************************)
LEMMA SelectedFacts ==
  ASSUME NEW u
  PROVE  /\ Len(Selected(u)) \in Nat
         /\ Selected(u) = [k \in 1 .. Len(Selected(u)) |-> Selected(u)[k]]
<1> DEFINE eligible == {i \in DOMAIN Roster : Roster[i] \in u}
           size == Min({SubsetSize, Cardinality(eligible)})
<1>1. Cardinality(eligible) \in Nat
  <2>1. Len(Roster) \in Nat /\ DOMAIN Roster = 1 .. Len(Roster)
    BY SelectionAssumption
  <2>2. IsFiniteSet(1 .. Len(Roster)) /\ eligible \subseteq 1 .. Len(Roster)
    BY <2>1, FS_Interval
  <2> HIDE DEF eligible
  <2> QED BY <2>2, FS_Subset, FS_CardinalityType
<1>2. size \in Nat
  <2> HIDE DEF eligible
  <2>1. SubsetSize \in Nat /\ {SubsetSize, Cardinality(eligible)} \subseteq Int
    BY <1>1, SelectionAssumption
  <2>2. CASE SubsetSize <= Cardinality(eligible)
    <3>1. size = SubsetSize
      BY <2>1, <2>2, MinOf
    <3> QED BY <2>1, <3>1
  <2>3. CASE Cardinality(eligible) <= SubsetSize
    <3>1. size = Cardinality(eligible)
      BY <2>1, <2>3, MinOf
    <3> QED BY <1>1, <3>1
  <2> QED BY <1>1, <2>1, <2>2, <2>3
<1>3. PICK f : Selected(u) = [k \in 1 .. size |-> f[k]]
  <2>1. Selected(u) = [k \in 1 .. size |-> Selected(u)[k]]
    BY DEF Selected
  <2> QED BY <2>1
<1> HIDE DEF size
<1>4. Len(Selected(u)) = size
  BY <1>2, <1>3
<1> QED BY <1>2, <1>3, <1>4

LEMMA AuditStarts == ASSUME AuditInit PROVE AuditInv
<1>1. <<>> \in Seq(ToSet(<<>>)) /\ ToSet(<<>>) = {}
  BY DEF ToSet
<1> QED BY <1>1 DEF AuditInit, AuditInv, AuditPhases, CommandInv, RecordsTrue, ManifestsTrue,
                     ProfilesTrue

(* A step of one command disturbs neither what another has so far nor the  *)
(* runs that entries name.                                                 *)
LEMMA Framed ==
  ASSUME AuditInv, NEW c \in Auditors,
         \A d \in Auditors \ {c} : /\ phase'[d] = phase[d] /\ universe'[d] = universe[d]
                                   /\ entries'[d] = entries[d],
         universes \subseteq universes',
         {r \in auditRuns : r.run # RunOf(c)} \subseteq auditRuns',
         Len(entries'[c]) \in Nat, Len(entries[c]) <= Len(entries'[c])
  PROVE  /\ \A d \in Auditors \ {c} : CommandInv(d)'
         /\ \A e : (EntryTrue(e) /\ (Succeeded(e) => Past(e))) =>
                     EntryTrue(e)' /\ (Succeeded(e) => Past(e)')
         /\ \A e : (Succeeded(e) => Past(e)) => (Succeeded(e) => Past(e)')
<1>1. \A d \in Auditors : Len(entries[d]) \in Nat /\ entries[d] \in Seq(ToSet(entries[d]))
  BY DEF AuditInv, CommandInv
<1>2. \A d \in Auditors : Len(entries'[d]) \in Nat /\ Len(entries[d]) <= Len(entries'[d])
  BY <1>1
<1>3. ASSUME NEW e, Past(e) PROVE Past(e)'
  <2>1. PICK d \in Auditors : \E k \in 1 .. Len(entries[d]) : e.run = <<d, k>>
    BY <1>3 DEF Past
  <2>2. PICK k \in 1 .. Len(entries[d]) : e.run = <<d, k>>
    BY <2>1
  <2>3. k \in 1 .. Len(entries'[d])
    BY <1>1, <1>2
  <2> QED BY <2>2, <2>3 DEF Past
<1>4. ASSUME NEW e, EntryTrue(e), Succeeded(e) => Past(e) PROVE EntryTrue(e)'
  <2>1. CASE Succeeded(e)
    <3>1. PICK d \in Auditors : \E k \in 1 .. Len(entries[d]) : e.run = <<d, k>>
      BY <1>4, <2>1 DEF Past
    <3>2. e.run # RunOf(c)
      <4> PICK k \in 1 .. Len(entries[d]) : e.run = <<d, k>>
        BY <3>1
      <4>1. k \in Int /\ k <= Len(entries[d]) /\ Len(entries[c]) \in Nat
        BY <1>1
      <4>2. d = c => k # Len(entries[c]) + 1
        BY <4>1
      <4> QED BY <4>2 DEF RunOf
    <3>3. [run |-> e.run, symbol |-> e.symbol, status |-> "SUCCEEDED", written |-> e.written]
            \in auditRuns'
      BY <1>4, <2>1, <3>2 DEF EntryTrue
    <3> QED BY <2>1, <3>3 DEF EntryTrue, Succeeded
  <2>2. CASE ~Succeeded(e)
    BY <1>4, <2>2 DEF EntryTrue, Succeeded, NoRun
  <2> QED BY <2>1, <2>2
<1>5. ASSUME NEW d \in Auditors \ {c} PROVE CommandInv(d)'
  <2>1. /\ phase'[d] = phase[d] /\ universe'[d] = universe[d] /\ entries'[d] = entries[d]
        /\ CommandInv(d)
    BY DEF AuditInv
  <2>2. /\ entries'[d] \in Seq(ToSet(entries'[d]))
        /\ phase'[d] \in {"idle", "universe"} => entries'[d] = <<>>
        /\ phase'[d] \in {"ingesting", "writing", "profiling"} =>
             universe'[d] \in universes' /\ Follows(entries'[d], universe'[d])
        /\ phase'[d] = "writing" => Len(entries'[d]) < Len(Selected(universe'[d]))
    BY <2>1 DEF CommandInv
  <2>3. phase'[d] \in {"ingesting", "writing"} =>
          \A e \in ToSet(entries'[d]) : EntryTrue(e)' /\ (Succeeded(e) => Past(e)')
    BY <1>3, <1>4, <2>1 DEF CommandInv
  <2>4. phase'[d] = "profiling" => \A m \in ToSet(entries'[d]) : MemberTrue(m)
    BY <2>1 DEF CommandInv
  <2> QED BY <2>2, <2>3, <2>4 DEF CommandInv, MemberTrue
<1> QED BY <1>3, <1>4, <1>5


ManifestTrue(m) ==
  /\ m.universe \in universes
  /\ [i \in DOMAIN m.entries |-> m.entries[i].symbol] = Selected(m.universe)
  /\ \A e \in ToSet(m.entries) : EntryTrue(e) /\ (Succeeded(e) => Past(e))

ProfileTrue(p) ==
  /\ p.universe \in universes
  /\ [i \in DOMAIN p.members |-> p.members[i].symbol] = Selected(p.universe)
  /\ \A m \in ToSet(p.members) : MemberTrue(m)

StoredTrue == (\A m \in auditManifests : ManifestTrue(m)) /\ (\A p \in profiles : ProfileTrue(p))

LEMMA StoredFacts ==
  RecordsTrue /\ (\A m \in auditManifests : \A e \in ToSet(m.entries) : Succeeded(e) => Past(e))
    <=> StoredTrue
  BY DEF RecordsTrue, ManifestsTrue, ProfilesTrue, StoredTrue, ManifestTrue, ProfileTrue,
         EntryTrue, MemberTrue

LEMMA StoredFactsNext ==
  RecordsTrue' /\ (\A m \in auditManifests' : \A e \in ToSet(m.entries) : Succeeded(e) => Past(e)')
    <=> StoredTrue'
  BY DEF RecordsTrue, ManifestsTrue, ProfilesTrue, StoredTrue, ManifestTrue, ProfileTrue,
         EntryTrue, MemberTrue

LEMMA CommandKeeps ==
  ASSUME AuditInv, NEW c \in Auditors,
         phase' \in [Auditors -> AuditPhases],
         DOMAIN universe' = Auditors, DOMAIN entries' = Auditors,
         \A d \in Auditors \ {c} : /\ phase'[d] = phase[d] /\ universe'[d] = universe[d]
                                   /\ entries'[d] = entries[d],
         universes \subseteq universes',
         {r \in auditRuns : r.run # RunOf(c)} \subseteq auditRuns',
         Len(entries'[c]) \in Nat, Len(entries[c]) <= Len(entries'[c]),
         CommandInv(c)',
         \A m \in auditManifests' \ auditManifests : ManifestTrue(m)',
         \A p \in profiles' \ profiles : ProfileTrue(p)'
  PROVE  AuditInv'
<1>1. StoredTrue
  BY StoredFacts DEF AuditInv
<1>2. \A d \in Auditors : CommandInv(d)'
  BY Framed
<1>3. ASSUME NEW m \in auditManifests' PROVE ManifestTrue(m)'
  <2>1. CASE m \in auditManifests
    <3>1. ManifestTrue(m)
      BY <1>1, <2>1 DEF StoredTrue
    <3>2. /\ m.universe \in universes'
          /\ [i \in DOMAIN m.entries |-> m.entries[i].symbol] = Selected(m.universe)
      BY <3>1 DEF ManifestTrue
    <3>3. \A e \in ToSet(m.entries) : EntryTrue(e)' /\ (Succeeded(e) => Past(e)')
      BY <3>1, Framed DEF ManifestTrue
    <3> QED BY <3>2, <3>3 DEF ManifestTrue
  <2> QED BY <2>1
<1>4. ASSUME NEW p \in profiles' PROVE ProfileTrue(p)'
  <2>1. CASE p \in profiles
    <3>1. ProfileTrue(p)
      BY <1>1, <2>1 DEF StoredTrue
    <3> QED BY <3>1 DEF ProfileTrue, MemberTrue
  <2> QED BY <2>1
<1>5. StoredTrue'
  BY <1>3, <1>4 DEF StoredTrue
<1>6. /\ RecordsTrue'
      /\ \A m \in auditManifests' : \A e \in ToSet(m.entries) : Succeeded(e) => Past(e)'
  BY <1>5, StoredFactsNext
<1> QED BY <1>2, <1>6 DEF AuditInv, AuditPhases

(* A command that has no entry yet, or has ended, promises nothing.        *)
LEMMA NoEntries ==
  ASSUME NEW c, entries'[c] = <<>>, phase'[c] \in {"idle", "universe", "ended", "failed"}
  PROVE  CommandInv(c)'
<1>1. <<>> \in Seq(ToSet(<<>>))
  BY DEF ToSet
<1> QED BY <1>1 DEF CommandInv

LEMMA Ended ==
  ASSUME NEW c, entries'[c] \in Seq(ToSet(entries'[c])), phase'[c] \in {"ended", "failed"}
  PROVE  CommandInv(c)'
  BY DEF CommandInv

LEMMA CommandFacts ==
  ASSUME AuditInv, NEW c \in Auditors
  PROVE  /\ CommandInv(c) /\ entries[c] \in Seq(ToSet(entries[c])) /\ Len(entries[c]) \in Nat
         /\ DOMAIN entries[c] = 1 .. Len(entries[c])
  BY DEF AuditInv, CommandInv

LEMMA DiscoverKeeps == ASSUME AuditInv, NEW c \in Auditors, Discover(c) PROVE AuditInv'
<1>1. /\ phase[c] = "idle" /\ phase' = [phase EXCEPT ![c] = "universe"]
      /\ UNCHANGED <<entries, auditTables>>
  BY DEF Discover, Moves
<1>2. PICK u : universe' = [universe EXCEPT ![c] = u]
  BY DEF Discover
<1>3. entries'[c] = <<>> /\ phase'[c] = "universe"
  BY <1>1, CommandFacts DEF CommandInv, AuditInv
<1>4. CommandInv(c)'
  BY <1>3, NoEntries
<1>5. phase' \in [Auditors -> AuditPhases]
  BY <1>1 DEF AuditInv, AuditPhases
<1> QED BY <1>1, <1>2, <1>4, <1>5, CommandFacts, CommandKeeps DEF AuditInv, auditTables

LEMMA PersistUniverseKeeps ==
  ASSUME AuditInv, NEW c \in Auditors, PersistUniverse(c) PROVE AuditInv'
<1>1. /\ phase[c] = "universe" /\ universes' = universes \cup {universe[c]}
      /\ phase' = [phase EXCEPT ![c] = IF universe[c] = {} THEN "failed" ELSE "ingesting"]
      /\ UNCHANGED <<universe, entries, auditRuns, auditManifests, profiles>>
  BY DEF PersistUniverse, Moves
<1>2. entries[c] = <<>>
  BY <1>1, CommandFacts DEF CommandInv
<1>3. phase' \in [Auditors -> AuditPhases] /\ phase'[c] \in {"failed", "ingesting"}
  BY <1>1 DEF AuditInv, AuditPhases
<1>4. CommandInv(c)'
  <2>1. <<>> \in Seq(ToSet(<<>>)) /\ ToSet(<<>>) = {}
    BY DEF ToSet
  <2>2. Follows(<<>>, universe[c])
    BY SelectedFacts DEF Follows
  <2> QED BY <1>1, <1>2, <1>3, <2>1, <2>2 DEF CommandInv, Follows
<1> QED BY <1>1, <1>3, <1>4, CommandFacts, CommandKeeps DEF AuditInv

(* One more entry, of the next selected symbol.                            *)
LEMMA MoreFollows ==
  ASSUME NEW u, NEW s, s \in Seq(ToSet(s)), NEW x, Follows(s, u), Len(s) < Len(Selected(u)),
         x.symbol = Selected(u)[Len(s) + 1]
  PROVE  Follows(Append(s, x), u)
<1>1. Len(s) \in Nat /\ DOMAIN s = 1 .. Len(s) /\ Len(Selected(u)) \in Nat
  BY SelectedFacts
<1>2. /\ Append(s, x) \in Seq(ToSet(Append(s, x)))
      /\ Len(Append(s, x)) = Len(s) + 1
      /\ \A i \in 1 .. Len(s) : Append(s, x)[i] = s[i]
      /\ Append(s, x)[Len(s) + 1] = x
  BY AppendFacts
<1> DEFINE t == Append(s, x)
<1> HIDE DEF t
<1>3. DOMAIN t = 1 .. Len(s) + 1
  BY <1>1, <1>2 DEF t
<1>4. \A i \in DOMAIN t : t[i].symbol = Selected(u)[i]
  <2>1. ASSUME NEW i \in DOMAIN t PROVE t[i].symbol = Selected(u)[i]
    <3>1. CASE i = Len(s) + 1
      BY <1>2, <3>1 DEF t
    <3>2. CASE i \in 1 .. Len(s)
      BY <1>1, <1>2, <3>2 DEF t, Follows
    <3> QED BY <1>1, <1>3, <3>1, <3>2
  <2> QED BY <2>1
<1> QED BY <1>1, <1>2, <1>4 DEF t, Follows

LEMMA EntryAdded ==
  ASSUME AuditInv, NEW c \in Auditors, NEW x,
         phase[c] \in {"ingesting", "writing"}, phase'[c] = "ingesting",
         Len(entries[c]) < Len(Selected(universe[c])),
         entries'[c] = Append(entries[c], x),
         universe' = universe, universes' = universes,
         \A d \in Auditors \ {c} : phase'[d] = phase[d] /\ entries'[d] = entries[d],
         {r \in auditRuns : r.run # RunOf(c)} \subseteq auditRuns',
         x.symbol = Selected(universe[c])[Len(entries[c]) + 1],
         EntryTrue(x)', Succeeded(x) => x.run = RunOf(c)
  PROVE  /\ CommandInv(c)'
         /\ Len(entries'[c]) \in Nat /\ Len(entries[c]) <= Len(entries'[c])
<1>3. /\ CommandInv(c) /\ entries[c] \in Seq(ToSet(entries[c])) /\ Len(entries[c]) \in Nat
  BY CommandFacts
<1>5. /\ entries'[c] \in Seq(ToSet(entries'[c])) /\ Len(entries'[c]) = Len(entries[c]) + 1
      /\ ToSet(entries'[c]) = ToSet(entries[c]) \cup {x}
  BY <1>3, AppendFacts
<1>6. Len(entries'[c]) \in Nat /\ Len(entries[c]) <= Len(entries'[c])
  BY <1>3, <1>5
<1>7. \A e \in ToSet(entries[c]) : EntryTrue(e)' /\ (Succeeded(e) => Past(e)')
  <2>1. \A e \in ToSet(entries[c]) : EntryTrue(e) /\ (Succeeded(e) => Past(e))
    BY <1>3 DEF CommandInv
  <2>2. \A d \in Auditors \ {c} : /\ phase'[d] = phase[d] /\ universe'[d] = universe[d]
                                  /\ entries'[d] = entries[d]
    OBVIOUS
  <2>3. universes \subseteq universes'
    OBVIOUS
  <2>4. \A e : (EntryTrue(e) /\ (Succeeded(e) => Past(e))) =>
                 EntryTrue(e)' /\ (Succeeded(e) => Past(e)')
    BY <1>6, <2>2, <2>3, Framed
  <2> QED BY <2>1, <2>4
<1>8. Succeeded(x) => Past(x)'
  <2>1. Len(entries[c]) + 1 \in 1 .. Len(entries'[c])
    BY <1>3, <1>5
  <2> QED BY <2>1 DEF Past, RunOf
<1>9. Follows(entries'[c], universe[c])
  BY <1>3, MoreFollows DEF CommandInv
<1>10. CommandInv(c)'
  <2>1. universe'[c] = universe[c] /\ universe[c] \in universes'
    BY <1>3 DEF CommandInv
  <2>2. \A e \in ToSet(entries'[c]) : EntryTrue(e)' /\ (Succeeded(e) => Past(e)')
    BY <1>5, <1>7, <1>8
  <2> QED BY <1>5, <1>9, <2>1, <2>2 DEF CommandInv, Follows
<1> QED BY <1>6, <1>10

LEMMA SkipKeeps ==
  ASSUME AuditInv, NEW c \in Auditors, NEW a \in Answers, SkipMember(c, a) PROVE AuditInv'
<1>1. PICK x : x = Entry(c, EntryStatus(a), NoRun, 0)
  OBVIOUS
<1>2. /\ phase[c] = "ingesting" /\ Len(entries[c]) < Len(Selected(universe[c]))
      /\ entries' = [entries EXCEPT ![c] = Append(entries[c], x)]
      /\ UNCHANGED <<phase, universe, universes, auditRuns, auditManifests, profiles>>
  BY <1>1 DEF SkipMember, Adds, Remains, auditTables
<1>3. /\ x.symbol = Selected(universe[c])[Len(entries[c]) + 1]
      /\ ~Succeeded(x) /\ x.run = NoRun /\ x.written = 0
  BY <1>1 DEF Entry, EntryStatus, Current, Succeeded
<1>4. EntryTrue(x)'
  BY <1>3 DEF EntryTrue, NoRun, Succeeded
<1>5. /\ {r \in auditRuns : r.run # RunOf(c)} \subseteq auditRuns'
      /\ phase'[c] = "ingesting" /\ universe' = universe /\ universes' = universes
      /\ \A d \in Auditors \ {c} : phase'[d] = phase[d] /\ entries'[d] = entries[d]
      /\ phase[c] \in {"ingesting", "writing"}
      /\ Succeeded(x) => x.run = RunOf(c)
      /\ entries'[c] = Append(entries[c], x) /\ DOMAIN entries' = Auditors
  BY <1>2, <1>3 DEF AuditInv
<1>6. /\ CommandInv(c)'
      /\ Len(entries'[c]) \in Nat /\ Len(entries[c]) <= Len(entries'[c])
  BY <1>2, <1>3, <1>4, <1>5, EntryAdded
<1>7. phase' \in [Auditors -> AuditPhases] /\ DOMAIN universe' = Auditors
  BY <1>2 DEF AuditInv
<1>8. \A d \in Auditors \ {c} : /\ phase'[d] = phase[d] /\ universe'[d] = universe[d]
                                /\ entries'[d] = entries[d]
  BY <1>2, <1>5
<1>9. /\ universes \subseteq universes'
      /\ \A m \in auditManifests' \ auditManifests : ManifestTrue(m)'
      /\ \A p \in profiles' \ profiles : ProfileTrue(p)'
  BY <1>2
<1> QED BY <1>5, <1>6, <1>7, <1>8, <1>9, CommandKeeps

LEMMA BeginKeeps ==
  ASSUME AuditInv, NEW c \in Auditors, NEW a \in Answers, BeginRun(c, a) PROVE AuditInv'
<1>1. /\ phase[c] = "ingesting" /\ Len(entries[c]) < Len(Selected(universe[c]))
      /\ phase' = [phase EXCEPT ![c] = "writing"]
      /\ auditRuns \subseteq auditRuns'
      /\ UNCHANGED <<universe, entries, universes, auditManifests, profiles>>
  BY DEF BeginRun, Moves, Remains
<1>2. phase' \in [Auditors -> AuditPhases] /\ phase'[c] = "writing"
      /\ \A d \in Auditors \ {c} : phase'[d] = phase[d]
  BY <1>1 DEF AuditInv, AuditPhases
<1>3. CommandInv(c) /\ Len(entries[c]) \in Nat
  BY CommandFacts
<1>4. \A e \in ToSet(entries[c]) : EntryTrue(e)' /\ (Succeeded(e) => Past(e)')
  <2>1. \A e \in ToSet(entries[c]) : EntryTrue(e) /\ (Succeeded(e) => Past(e))
    BY <1>1, <1>3 DEF CommandInv
  <2>2. \A e : EntryTrue(e) => EntryTrue(e)'
    BY <1>1 DEF EntryTrue, Succeeded, NoRun
  <2>3. \A e : Past(e) => Past(e)'
    BY <1>1 DEF Past
  <2> QED BY <2>1, <2>2, <2>3
<1>5. CommandInv(c)'
  BY <1>1, <1>2, <1>3, <1>4 DEF CommandInv, Follows
<1>6. DOMAIN universe' = Auditors /\ DOMAIN entries' = Auditors
  BY <1>1 DEF AuditInv
<1> QED BY <1>1, <1>2, <1>3, <1>5, <1>6, CommandKeeps

LEMMA CommitKeeps ==
  ASSUME AuditInv, NEW c \in Auditors, CommitRun(c) PROVE AuditInv'
<1>1. PICK x : x = Entry(c, IF report[c].quality = "WARN" THEN "SUCCEEDED_WITH_WARNINGS"
                            ELSE "SUCCEEDED", RunOf(c), Cardinality(NewDays(c)))
  OBVIOUS
<1>2. /\ phase[c] = "writing" /\ phase' = [phase EXCEPT ![c] = "ingesting"]
      /\ entries' = [entries EXCEPT ![c] = Append(entries[c], x)]
      /\ auditRuns' = Finished(c, "SUCCEEDED", Cardinality(NewDays(c)))
      /\ UNCHANGED <<universe, universes, auditManifests, profiles>>
  BY <1>1 DEF CommitRun, Adds, Moves
<1>3. /\ x.symbol = Selected(universe[c])[Len(entries[c]) + 1]
      /\ x.symbol = Current(c) /\ x.run = RunOf(c) /\ x.written = Cardinality(NewDays(c))
  BY <1>1 DEF Entry, Current
<1>4. /\ {r \in auditRuns : r.run # RunOf(c)} \subseteq auditRuns'
      /\ [run |-> RunOf(c), symbol |-> Current(c), status |-> "SUCCEEDED",
          written |-> Cardinality(NewDays(c))] \in auditRuns'
  BY <1>2 DEF Finished
<1>5. EntryTrue(x)'
  <2>1. Succeeded(x)
    BY <1>1 DEF Entry, Succeeded
  <2> QED BY <1>3, <1>4, <2>1 DEF EntryTrue, Succeeded
<1>6. Len(entries[c]) < Len(Selected(universe[c]))
  BY <1>2, CommandFacts DEF CommandInv
<1>7. /\ phase' \in [Auditors -> AuditPhases] /\ DOMAIN universe' = Auditors
      /\ phase'[c] = "ingesting"
      /\ \A d \in Auditors \ {c} : phase'[d] = phase[d] /\ entries'[d] = entries[d]
      /\ entries'[c] = Append(entries[c], x) /\ DOMAIN entries' = Auditors
      /\ universe' = universe /\ universes' = universes
      /\ phase[c] \in {"ingesting", "writing"} /\ (Succeeded(x) => x.run = RunOf(c))
  BY <1>2, <1>3 DEF AuditInv, AuditPhases
<1>11. {r \in auditRuns : r.run # RunOf(c)} \subseteq auditRuns'
  BY <1>4
<1>12. x.symbol = Selected(universe[c])[Len(entries[c]) + 1]
  BY <1>3
<1>8. /\ CommandInv(c)'
      /\ Len(entries'[c]) \in Nat /\ Len(entries[c]) <= Len(entries'[c])
  BY <1>5, <1>6, <1>7, <1>11, <1>12, EntryAdded
<1>9. \A d \in Auditors \ {c} : /\ phase'[d] = phase[d] /\ universe'[d] = universe[d]
                                /\ entries'[d] = entries[d]
  BY <1>7
<1>10. /\ universes \subseteq universes'
       /\ \A m \in auditManifests' \ auditManifests : ManifestTrue(m)'
       /\ \A p \in profiles' \ profiles : ProfileTrue(p)'
  BY <1>2
<1> QED BY <1>7, <1>8, <1>9, <1>10, <1>11, CommandKeeps

LEMMA LoseKeeps ==
  ASSUME AuditInv, NEW c \in Auditors, LoseRun(c) PROVE AuditInv'
<1>1. /\ phase' = [phase EXCEPT ![c] = "failed"]
      /\ UNCHANGED <<universe, entries, universes, auditManifests, profiles>>
      /\ auditRuns' = Finished(c, "FAILED", 0) \/ auditRuns' = auditRuns
  BY DEF LoseRun, Moves
<1>2. {r \in auditRuns : r.run # RunOf(c)} \subseteq auditRuns'
  BY <1>1 DEF Finished
<1>3. phase' \in [Auditors -> AuditPhases] /\ phase'[c] = "failed"
      /\ \A d \in Auditors \ {c} : phase'[d] = phase[d]
  BY <1>1 DEF AuditInv, AuditPhases
<1>4. CommandInv(c)'
  BY <1>1, <1>3, CommandFacts, Ended
<1>5. DOMAIN universe' = Auditors /\ DOMAIN entries' = Auditors
  BY <1>1 DEF AuditInv
<1> QED BY <1>1, <1>2, <1>3, <1>4, <1>5, CommandFacts, CommandKeeps

(* All the selected symbols, in their order.                               *)
LEMMA AllFollow ==
  ASSUME NEW u, NEW s, s \in Seq(ToSet(s)), Follows(s, u), ~(Len(s) < Len(Selected(u)))
  PROVE  [i \in DOMAIN s |-> s[i].symbol] = Selected(u)
<1>1. Selected(u) = [k \in 1 .. Len(Selected(u)) |-> Selected(u)[k]]
  BY SelectedFacts
<1>2. Len(s) = Len(Selected(u)) /\ DOMAIN s = 1 .. Len(s)
  <2>1. Len(s) \in Nat /\ DOMAIN s = 1 .. Len(s) /\ Len(Selected(u)) \in Nat
    BY SelectedFacts
  <2>2. Len(s) <= Len(Selected(u))
    BY DEF Follows
  <2> QED BY <2>1, <2>2
<1>3. \A i \in DOMAIN s : s[i].symbol = Selected(u)[i]
  BY DEF Follows
<1>4. [i \in DOMAIN s |-> s[i].symbol] = [k \in 1 .. Len(Selected(u)) |-> Selected(u)[k]]
  BY <1>1, <1>2, <1>3
<1> QED BY <1>1, <1>4

LEMMA ManifestKeeps ==
  ASSUME AuditInv, NEW c \in Auditors, PersistManifest(c) PROVE AuditInv'
<1>1. /\ phase[c] = "ingesting" /\ ~(Len(entries[c]) < Len(Selected(universe[c])))
      /\ auditManifests' = auditManifests \cup {[universe |-> universe[c], entries |-> entries[c]]}
      /\ phase' = [phase EXCEPT ![c] = "ended"]
      /\ UNCHANGED <<universe, entries, universes, auditRuns, profiles>>
  BY DEF PersistManifest, Moves, Remains
<1>2. CommandInv(c) /\ entries[c] \in Seq(ToSet(entries[c])) /\ Len(entries[c]) \in Nat
  BY CommandFacts
<1>3. phase' \in [Auditors -> AuditPhases] /\ phase'[c] = "ended"
      /\ \A d \in Auditors \ {c} : phase'[d] = phase[d]
  BY <1>1 DEF AuditInv, AuditPhases
<1>4. CommandInv(c)'
  BY <1>1, <1>2, <1>3, Ended
<1>5. DOMAIN universe' = Auditors /\ DOMAIN entries' = Auditors
  BY <1>1 DEF AuditInv
<1>6. ASSUME NEW m \in auditManifests' \ auditManifests PROVE ManifestTrue(m)'
  <2>1. m.universe = universe[c] /\ m.entries = entries[c]
    BY <1>1
  <2>2. universe[c] \in universes /\ Follows(entries[c], universe[c])
        /\ \A e \in ToSet(entries[c]) : EntryTrue(e) /\ (Succeeded(e) => Past(e))
    BY <1>1, <1>2 DEF CommandInv
  <2>3. [i \in DOMAIN entries[c] |-> entries[c][i].symbol] = Selected(universe[c])
    BY <1>1, <1>2, <2>2, AllFollow
  <2>4. \A e \in ToSet(entries[c]) : EntryTrue(e)' /\ (Succeeded(e) => Past(e)')
    <3>1. \A e : EntryTrue(e) => EntryTrue(e)'
      BY <1>1 DEF EntryTrue, Succeeded, NoRun
    <3>2. \A e : Past(e) => Past(e)'
      BY <1>1 DEF Past
    <3> QED BY <2>2, <3>1, <3>2
  <2> QED BY <1>1, <2>1, <2>2, <2>3, <2>4 DEF ManifestTrue
<1> QED BY <1>1, <1>2, <1>3, <1>4, <1>5, <1>6, CommandKeeps


(* A history that is called sufficient has days on both sides of the split *)
(* and spans the minimum.                                                  *)
LEMMA CoverageTrue ==
  ASSUME NEW s, NEW a \in Answers
  PROVE  MemberTrue(CoverageMember(s, a))
<1> DEFINE m == CoverageMember(s, a)
<1>1. SUFFICES ASSUME m.status = "SUFFICIENT_MINIMUM_HISTORY"
               PROVE  \E early, late \in m.days : /\ early < EvalEnd - OosDays
                                                  /\ EvalEnd - OosDays <= late
                                                  /\ late - early + 1 >= MinimumDays
  BY DEF MemberTrue
<1>2. a.days # {} /\ m.days = a.days
      /\ CoverageStatus(Min(a.days), Max(a.days), a.quality) = "SUFFICIENT_MINIMUM_HISTORY"
  BY <1>1 DEF CoverageMember
<1>3. a.days \subseteq EvalStart .. EvalEnd - 1 /\ EvalStart \in Int /\ EvalEnd - 1 \in Int
      /\ EvalEnd \in Int /\ OosDays \in Int /\ MinimumDays \in Int
  BY AnswersAssumption, SplitAssumption
<1>4. a.days \subseteq Int
  BY <1>3
<1>5. PICK late \in a.days : \A y \in a.days : y <= late
  BY <1>2, <1>3, GreatestInt
<1>6. PICK early \in a.days : \A y \in a.days : early <= y
  BY <1>2, <1>3, LeastInt
<1>7. Max(a.days) = late /\ Min(a.days) = early
  BY <1>4, <1>5, <1>6, MaxOf, MinOf
<1>8. /\ ~(late - early + 1 < MinimumDays)
      /\ early < OosStart /\ OosStart <= late
  BY <1>2, <1>7 DEF CoverageStatus
<1>9. late - early + 1 >= MinimumDays
  BY <1>3, <1>4, <1>8
<1> QED BY <1>2, <1>8, <1>9 DEF OosStart

LEMMA StartProfileKeeps ==
  ASSUME AuditInv, NEW c \in Auditors, StartProfile(c) PROVE AuditInv'
<1>1. /\ phase[c] = "idle"
      /\ UNCHANGED <<entries, universes, auditRuns, auditManifests, profiles>>
  BY DEF StartProfile, auditTables
<1>2. PICK u \in universes :
        /\ universe' = [universe EXCEPT ![c] = u]
        /\ phase' = [phase EXCEPT ![c] = IF SubsetSize > Cardinality(u) THEN "failed"
                                         ELSE "profiling"]
  BY DEF StartProfile, Moves
<1>3. /\ phase' \in [Auditors -> AuditPhases] /\ phase'[c] \in {"failed", "profiling"}
      /\ \A d \in Auditors \ {c} : phase'[d] = phase[d] /\ universe'[d] = universe[d]
  BY <1>2 DEF AuditInv, AuditPhases
<1>4. /\ DOMAIN universe' = Auditors /\ DOMAIN entries' = Auditors /\ universe'[c] = u
  BY <1>1, <1>2 DEF AuditInv
<1>5. entries[c] = <<>>
  BY <1>1, CommandFacts DEF CommandInv
<1>6. CommandInv(c)'
  <2>1. <<>> \in Seq(ToSet(<<>>)) /\ ToSet(<<>>) = {}
    BY DEF ToSet
  <2>2. Follows(<<>>, u)
    BY SelectedFacts DEF Follows
  <2> QED BY <1>1, <1>3, <1>4, <1>5, <2>1, <2>2 DEF CommandInv, Follows
<1> QED BY <1>1, <1>3, <1>4, <1>6, CommandFacts, CommandKeeps

LEMMA ProfileMemberKeeps ==
  ASSUME AuditInv, NEW c \in Auditors, NEW a \in Answers, ProfileMember(c, a) PROVE AuditInv'
<1>1. /\ phase[c] = "profiling" /\ Len(entries[c]) < Len(Selected(universe[c]))
      /\ UNCHANGED <<universe, universes, auditRuns, auditManifests, profiles>>
  BY DEF ProfileMember, Remains, auditTables
<1>2. CommandInv(c) /\ entries[c] \in Seq(ToSet(entries[c])) /\ Len(entries[c]) \in Nat
  BY CommandFacts
<1>3. CASE a.kind = "invalid"
  <2>1. phase' = [phase EXCEPT ![c] = "failed"] /\ UNCHANGED entries
    BY <1>3 DEF ProfileMember, Moves
  <2>2. /\ phase' \in [Auditors -> AuditPhases] /\ phase'[c] = "failed"
        /\ \A d \in Auditors \ {c} : phase'[d] = phase[d]
    BY <2>1 DEF AuditInv, AuditPhases
  <2>3. CommandInv(c)'
    BY <1>2, <2>1, <2>2, Ended
  <2>4. DOMAIN universe' = Auditors /\ DOMAIN entries' = Auditors
    BY <1>1, <2>1 DEF AuditInv
  <2> QED BY <1>1, <1>2, <2>1, <2>2, <2>3, <2>4, CommandKeeps
<1>4. CASE a.kind # "invalid"
  <2>1. PICK x : x = CoverageMember(Current(c), a)
    OBVIOUS
  <2>2. entries' = [entries EXCEPT ![c] = Append(entries[c], x)] /\ UNCHANGED phase
    BY <1>4, <2>1 DEF ProfileMember, Adds
  <2>3. /\ x.symbol = Selected(universe[c])[Len(entries[c]) + 1]
    BY <2>1 DEF CoverageMember, Current
  <2>4. MemberTrue(x)
    BY <2>1, CoverageTrue
  <2>5. /\ entries'[c] = Append(entries[c], x)
        /\ \A d \in Auditors \ {c} : entries'[d] = entries[d]
        /\ DOMAIN entries' = Auditors /\ DOMAIN universe' = Auditors
        /\ phase' \in [Auditors -> AuditPhases]
    BY <1>1, <2>2 DEF AuditInv
  <2>6. /\ entries'[c] \in Seq(ToSet(entries'[c])) /\ Len(entries'[c]) = Len(entries[c]) + 1
        /\ ToSet(entries'[c]) = ToSet(entries[c]) \cup {x}
    BY <1>2, <2>5, AppendFacts
  <2>7. Follows(entries'[c], universe[c])
    BY <1>1, <1>2, <2>3, <2>5, MoreFollows DEF CommandInv
  <2>8. CommandInv(c)'
    <3>1. /\ universe[c] \in universes /\ \A m \in ToSet(entries[c]) : MemberTrue(m)
      BY <1>1, <1>2 DEF CommandInv
    <3>2. \A m \in ToSet(entries'[c]) : MemberTrue(m)
      BY <2>4, <2>6, <3>1
    <3>3. phase'[c] = "profiling"
      BY <1>1, <2>2
    <3> QED BY <1>1, <2>6, <2>7, <3>1, <3>2, <3>3 DEF CommandInv, Follows, MemberTrue
  <2>9. Len(entries'[c]) \in Nat /\ Len(entries[c]) <= Len(entries'[c])
    BY <1>2, <2>6
  <2> QED BY <1>1, <2>2, <2>5, <2>8, <2>9, CommandKeeps
<1> QED BY <1>3, <1>4

LEMMA PersistProfileKeeps ==
  ASSUME AuditInv, NEW c \in Auditors, PersistProfile(c) PROVE AuditInv'
<1>1. /\ phase[c] = "profiling" /\ ~(Len(entries[c]) < Len(Selected(universe[c])))
      /\ profiles' = profiles \cup {[universe |-> universe[c], members |-> entries[c]]}
      /\ phase' = [phase EXCEPT ![c] = "ended"]
      /\ UNCHANGED <<universe, entries, universes, auditRuns, auditManifests>>
  BY DEF PersistProfile, Moves, Remains
<1>2. CommandInv(c) /\ entries[c] \in Seq(ToSet(entries[c])) /\ Len(entries[c]) \in Nat
  BY CommandFacts
<1>3. /\ phase' \in [Auditors -> AuditPhases] /\ phase'[c] = "ended"
      /\ \A d \in Auditors \ {c} : phase'[d] = phase[d]
  BY <1>1 DEF AuditInv, AuditPhases
<1>4. CommandInv(c)'
  BY <1>1, <1>2, <1>3, Ended
<1>5. DOMAIN universe' = Auditors /\ DOMAIN entries' = Auditors
  BY <1>1 DEF AuditInv
<1>6. ASSUME NEW p \in profiles' \ profiles PROVE ProfileTrue(p)'
  <2>1. p.universe = universe[c] /\ p.members = entries[c]
    BY <1>1
  <2>2. /\ universe[c] \in universes /\ Follows(entries[c], universe[c])
        /\ \A m \in ToSet(entries[c]) : MemberTrue(m)
    BY <1>1, <1>2 DEF CommandInv
  <2>3. [i \in DOMAIN entries[c] |-> entries[c][i].symbol] = Selected(universe[c])
    BY <1>1, <1>2, <2>2, AllFollow
  <2> QED BY <1>1, <2>1, <2>2, <2>3 DEF ProfileTrue, MemberTrue
<1> QED BY <1>1, <1>2, <1>3, <1>4, <1>5, <1>6, CommandKeeps

LEMMA FailsKeeps ==
  ASSUME AuditInv, NEW c \in Auditors, AuditFails(c) PROVE AuditInv'
<1>1. /\ phase' = [phase EXCEPT ![c] = "failed"]
      /\ UNCHANGED <<universe, entries, universes, auditRuns, auditManifests, profiles>>
  BY DEF AuditFails, Moves, auditTables
<1>2. /\ phase' \in [Auditors -> AuditPhases] /\ phase'[c] = "failed"
      /\ \A d \in Auditors \ {c} : phase'[d] = phase[d]
  BY <1>1 DEF AuditInv, AuditPhases
<1>3. CommandInv(c)'
  BY <1>1, <1>2, CommandFacts, Ended
<1>4. DOMAIN universe' = Auditors /\ DOMAIN entries' = Auditors
  BY <1>1 DEF AuditInv
<1> QED BY <1>1, <1>2, <1>3, <1>4, CommandFacts, CommandKeeps

LEMMA AuditStepKeeps == ASSUME AuditInv, [AuditNext]_auditVars PROVE AuditInv'
<1>1. ASSUME NEW c \in Auditors,
             \/ Discover(c) \/ PersistUniverse(c) \/ CommitRun(c) \/ LoseRun(c)
             \/ PersistManifest(c) \/ StartProfile(c) \/ PersistProfile(c) \/ AuditFails(c)
      PROVE  AuditInv'
  BY <1>1, DiscoverKeeps, PersistUniverseKeeps, CommitKeeps, LoseKeeps, ManifestKeeps,
     StartProfileKeeps, PersistProfileKeeps, FailsKeeps
<1>2. ASSUME NEW c \in Auditors, NEW a \in Answers,
             SkipMember(c, a) \/ BeginRun(c, a) \/ ProfileMember(c, a)
      PROVE  AuditInv'
  BY <1>2, SkipKeeps, BeginKeeps, ProfileMemberKeeps
<1>3. CASE UNCHANGED auditVars
  BY <1>3 DEF auditVars, auditTables, AuditInv, AuditPhases, CommandInv, Follows, EntryTrue, MemberTrue,
              Past, RecordsTrue, ManifestsTrue, ProfilesTrue, Succeeded, NoRun
<1> QED BY <1>1, <1>2, <1>3 DEF AuditNext

(* The invariant of the audit commands: what a command has so far follows  *)
(* the selection, and the run of an entry is one that no command writes    *)
(* any more (universe.py:114-233, bitget/coverage.py:300-375).             *)
THEOREM AuditInductive == AuditSpec => []AuditInv
<1>1. AuditInit => AuditInv
  BY AuditStarts
<1>2. AuditInv /\ [AuditNext]_auditVars => AuditInv'
  BY AuditStepKeeps
<1> QED BY <1>1, <1>2, PTL DEF AuditSpec

(* For any number of commands, universes and members: a stored manifest    *)
(* names for each success the member's own SUCCEEDED run with its count,   *)
(* and a stored profile calls a history sufficient only on days that span  *)
(* the minimum and the split (universe.py:270-320,                         *)
(* bitget/coverage.py:56-223).                                             *)
THEOREM RecordsAreTrue == AuditSpec => []RecordsTrue
<1>1. AuditInv => RecordsTrue
  BY DEF AuditInv
<1> QED BY <1>1, AuditInductive, PTL

(***************************************************************************)
(* The sessions around an instant.                                         *)
(***************************************************************************)
Closed(t) == {d \in Days : IsSession(d) /\ CloseAt(d) <= t}
Coming(t) == {d \in Days : IsSession(d) /\ OpenAt(d) > t}
Instants == EvaluationStart .. EvaluationEnd

LEMMA DayFacts ==
  ASSUME NEW t \in Nat
  PROVE  DayOf(t) \in Nat /\ DayOf(t) * 4 <= t /\ t <= DayOf(t) * 4 + 3
  BY DEF DayOf, Ticks

LEMMA HourFacts ==
  ASSUME NEW d \in Days
  PROVE  /\ d \in Nat /\ d <= LastDay
         /\ OpenAt(d) = d * 4 + 1
         /\ CloseAt(d) = d * 4 + 2 \/ CloseAt(d) = d * 4 + 3
  BY BoundAssumption DEF Days, OpenAt, CloseAt, Ticks

(* The window is inside the calendar.                                      *)
LEMMA InstantFacts ==
  ASSUME NEW t \in Instants
  PROVE  t \in Nat /\ DayOf(t) \in Days /\ 0 < DayOf(t) /\ DayOf(t) < LastDay
<1>1. /\ EvaluationStart \in Nat /\ EvaluationEnd \in Nat /\ LastDay \in Nat
      /\ DayOf(EvaluationStart) > 0 /\ DayOf(EvaluationEnd) < LastDay
  BY EvaluationAssumption, BoundAssumption
<1>2. t \in Nat /\ EvaluationStart <= t /\ t <= EvaluationEnd
  BY <1>1 DEF Instants
<1>3. /\ DayOf(t) \in Nat /\ DayOf(t) * 4 <= t /\ t <= DayOf(t) * 4 + 3
      /\ DayOf(EvaluationStart) \in Nat /\ DayOf(EvaluationStart) * 4 <= EvaluationStart
      /\ DayOf(EvaluationEnd) \in Nat /\ EvaluationEnd <= DayOf(EvaluationEnd) * 4 + 3
  BY <1>1, <1>2, DayFacts
<1>4. 0 < DayOf(t) /\ DayOf(t) < LastDay
  BY <1>1, <1>2, <1>3
<1> QED BY <1>1, <1>2, <1>3, <1>4 DEF Days

LEMMA AnchorDays ==
  ASSUME trading \in Calendars
  PROVE  0 \in Days /\ IsSession(0) /\ LastDay \in Days /\ IsSession(LastDay)
  BY CalendarAssumption, BoundAssumption DEF Days, IsSession

(* The last close at or before the instant.                                *)
LEMMA PreviousExact ==
  ASSUME trading \in Calendars, NEW t \in Instants
  PROVE  /\ SessionAt(t).previous = Max(Closed(t))
         /\ Max(Closed(t)) \in Closed(t)
         /\ \A d \in Closed(t) : d <= Max(Closed(t))
<1> DEFINE day == DayOf(t)
<1>1. /\ t \in Nat /\ day \in Days /\ 0 < day /\ day < LastDay
      /\ day \in Nat /\ day * 4 <= t /\ t <= day * 4 + 3
  BY InstantFacts, DayFacts
<1> HIDE DEF day
<1>2. 0 \in Closed(t)
  BY <1>1, AnchorDays, HourFacts DEF Closed
<1>3. Closed(t) \subseteq 0 .. LastDay /\ LastDay \in Int /\ 0 \in Int /\ Closed(t) # {}
  BY <1>2, BoundAssumption DEF Closed, Days
<1>4. PICK p \in Closed(t) : \A d \in Closed(t) : d <= p
  BY <1>3, GreatestInt
<1>5. Closed(t) \subseteq Int
  BY <1>3
<1>6. Max(Closed(t)) = p
  BY <1>4, <1>5, MaxOf
<1>7. ASSUME NEW d \in Days, IsSession(d)
      PROVE  /\ d < day => d \in Closed(t)
             /\ d > day => d \notin Closed(t)
  BY <1>1, <1>7, HourFacts DEF Closed
<1>8. CASE IsSession(day) /\ CloseAt(day) <= t
  <2>1. SessionAt(t).previous = day
    BY <1>8 DEF SessionAt, day
  <2>2. day \in Closed(t)
    BY <1>1, <1>8 DEF Closed
  <2>3. ~(p > day)
    BY <1>4, <1>7 DEF Closed
  <2>4. p = day
    BY <1>1, <1>3, <1>4, <2>2, <2>3
  <2> QED BY <1>4, <1>6, <2>1, <2>4
<1>9. CASE ~(IsSession(day) /\ CloseAt(day) <= t)
  <2>1. SessionAt(t).previous = PreviousSession(day)
    BY <1>9 DEF SessionAt, day
  <2>2. Closed(t) = {e \in Days : e < day /\ IsSession(e)}
    <3>1. ASSUME NEW e \in Days, IsSession(e) PROVE e \in Closed(t) <=> e < day
      <4>1. e \in Int
        BY <3>1, HourFacts
      <4>2. e < day \/ e = day \/ e > day
        BY <1>1, <4>1
      <4>3. e = day => e \notin Closed(t)
        BY <1>9, <3>1 DEF Closed
      <4> QED BY <1>1, <1>7, <3>1, <4>1, <4>2, <4>3
    <3> QED BY <3>1 DEF Closed
  <2> QED BY <1>4, <1>6, <2>1, <2>2 DEF PreviousSession
<1> QED BY <1>8, <1>9

(* The first open after the instant.                                       *)
LEMMA NextExact ==
  ASSUME trading \in Calendars, NEW t \in Instants
  PROVE  /\ SessionAt(t).next = Min(Coming(t))
         /\ Min(Coming(t)) \in Coming(t)
         /\ \A d \in Coming(t) : Min(Coming(t)) <= d
<1> DEFINE day == DayOf(t)
<1>1. /\ t \in Nat /\ day \in Days /\ 0 < day /\ day < LastDay
      /\ day \in Nat /\ day * 4 <= t /\ t <= day * 4 + 3
  BY InstantFacts, DayFacts
<1> HIDE DEF day
<1>2. LastDay \in Coming(t)
  <2>1. LastDay \in Days /\ IsSession(LastDay) /\ OpenAt(LastDay) = LastDay * 4 + 1
    BY AnchorDays, HourFacts
  <2>2. OpenAt(LastDay) > t
    BY <1>1, <2>1, BoundAssumption
  <2> QED BY <2>1, <2>2 DEF Coming
<1>3. Coming(t) \subseteq 0 .. LastDay /\ LastDay \in Int /\ 0 \in Int /\ Coming(t) # {}
  BY <1>2, BoundAssumption DEF Coming, Days
<1>4. PICK p \in Coming(t) : \A d \in Coming(t) : p <= d
  BY <1>3, LeastInt
<1>5. Coming(t) \subseteq Int
  BY <1>3
<1>6. Min(Coming(t)) = p
  BY <1>4, <1>5, MinOf
<1>7. ASSUME NEW d \in Days, IsSession(d)
      PROVE  /\ d > day => d \in Coming(t)
             /\ d < day => d \notin Coming(t)
  BY <1>1, <1>7, HourFacts DEF Coming
<1>8. CASE IsSession(day) /\ t < OpenAt(day)
  <2>1. SessionAt(t).next = day
    BY <1>8 DEF SessionAt, day
  <2>2. day \in Coming(t)
    BY <1>1, <1>8, HourFacts DEF Coming
  <2>3. ~(p < day)
    BY <1>4, <1>7 DEF Coming
  <2>4. p = day
    BY <1>1, <1>3, <1>4, <2>2, <2>3
  <2> QED BY <1>4, <1>6, <2>1, <2>4
<1>9. CASE ~(IsSession(day) /\ t < OpenAt(day))
  <2>1. SessionAt(t).next = NextSession(day)
    BY <1>9 DEF SessionAt, day
  <2>2. Coming(t) = {e \in Days : e > day /\ IsSession(e)}
    <3>1. ASSUME NEW e \in Days, IsSession(e) PROVE e \in Coming(t) <=> e > day
      <4>1. e \in Int
        BY <3>1, HourFacts
      <4>2. e < day \/ e = day \/ e > day
        BY <1>1, <4>1
      <4>3. e = day => e \notin Coming(t)
        BY <1>1, <1>9, <3>1, HourFacts DEF Coming
      <4> QED BY <1>1, <1>7, <3>1, <4>1, <4>2, <4>3
    <3> QED BY <3>1 DEF Coming
  <2> QED BY <1>4, <1>6, <2>1, <2>2 DEF NextSession
<1> QED BY <1>8, <1>9

(* The pinned calendar has both sessions around every decision.            *)
LEMMA JoinResolved ==
  ASSUME trading \in Calendars, NEW t \in EvaluationStart + 1 .. EvaluationEnd
  PROVE  {SessionAt(t).previous, SessionAt(t).next} \subseteq CalendarDays
<1>1. /\ EvaluationStart \in Nat /\ EvaluationEnd \in Nat
      /\ t \in Nat /\ EvaluationStart < t /\ t <= EvaluationEnd
  BY EvaluationAssumption
<1>2. {t, EvaluationStart, EvaluationEnd} \subseteq Instants
  BY <1>1 DEF Instants
<1>3. SessionAt(t).previous \in CalendarDays
  <2>1. PICK p \in Closed(t) : p = SessionAt(t).previous /\ \A d \in Closed(t) : d <= p
    BY <1>2, PreviousExact
  <2>2. PICK q \in Closed(EvaluationStart) :
          /\ q = SessionAt(EvaluationStart).previous
          /\ \A d \in Closed(EvaluationStart) : d <= q
    BY <1>2, PreviousExact
  <2>3. p \in Days /\ IsSession(p) /\ CloseAt(p) <= t /\ q \in Days /\ IsSession(q)
        /\ CloseAt(q) <= EvaluationStart
    BY DEF Closed
  <2>4. /\ p \in Nat /\ CloseAt(p) \in Nat /\ OpenAt(p) \in Nat /\ OpenAt(p) < CloseAt(p)
        /\ q \in Nat /\ CloseAt(q) \in Nat
    BY <2>3, HourFacts
  <2>5. CASE CloseAt(p) > EvaluationStart
    <3>1. OpenAt(p) < EvaluationEnd
      BY <1>1, <2>3, <2>4
    <3> QED BY <2>1, <2>3, <2>5, <3>1 DEF CalendarDays
  <2>6. CASE ~(CloseAt(p) > EvaluationStart)
    <3>1. CloseAt(p) <= EvaluationStart
      BY <1>1, <2>4, <2>6
    <3>2. p \in Closed(EvaluationStart)
      BY <2>3, <3>1 DEF Closed
    <3>3. CloseAt(q) <= t
      BY <1>1, <2>3, <2>4
    <3>4. q \in Closed(t)
      BY <2>3, <3>3 DEF Closed
    <3>5. p <= q /\ q <= p
      BY <2>1, <2>2, <3>2, <3>4
    <3>6. p = q
      BY <2>4, <3>5
    <3> QED BY <2>1, <2>2, <3>6 DEF CalendarDays
  <2> QED BY <2>5, <2>6
<1>4. SessionAt(t).next \in CalendarDays
  <2>1. PICK n \in Coming(t) : n = SessionAt(t).next /\ \A d \in Coming(t) : n <= d
    BY <1>2, NextExact
  <2>2. PICK q \in Coming(EvaluationEnd) :
          /\ q = SessionAt(EvaluationEnd).next
          /\ \A d \in Coming(EvaluationEnd) : q <= d
    BY <1>2, NextExact
  <2>3. n \in Days /\ IsSession(n) /\ OpenAt(n) > t /\ q \in Days /\ IsSession(q)
        /\ OpenAt(q) > EvaluationEnd
    BY DEF Coming
  <2>4. /\ n \in Nat /\ CloseAt(n) \in Nat /\ OpenAt(n) \in Nat /\ OpenAt(n) < CloseAt(n)
        /\ OpenAt(n) = n * 4 + 1
        /\ q \in Nat /\ OpenAt(q) \in Nat
    BY <2>3, HourFacts
  <2>5. CASE OpenAt(n) < EvaluationEnd
    <3>1. CloseAt(n) > EvaluationStart
      BY <1>1, <2>3, <2>4
    <3> QED BY <2>1, <2>3, <2>5, <3>1 DEF CalendarDays
  <2>6. CASE ~(OpenAt(n) < EvaluationEnd)
    <3>1. OpenAt(n) # EvaluationEnd
      <4>1. trading[DayOf(EvaluationEnd)] = "none"
        BY <1>2, CalendarAssumption, EvaluationAssumption, InstantFacts
      <4>2. DayOf(EvaluationEnd) # n
        BY <2>3, <4>1 DEF IsSession
      <4>3. DayOf(EvaluationEnd) \in Nat /\ DayOf(EvaluationEnd) * 4 <= EvaluationEnd
            /\ EvaluationEnd <= DayOf(EvaluationEnd) * 4 + 3
        BY <1>1, DayFacts
      <4> QED BY <1>1, <2>4, <4>2, <4>3
    <3>2. OpenAt(n) > EvaluationEnd
      BY <1>1, <2>4, <2>6, <3>1
    <3>3. n \in Coming(EvaluationEnd)
      BY <2>3, <3>2 DEF Coming
    <3>4. OpenAt(q) > t
      BY <1>1, <2>3, <2>4
    <3>5. q \in Coming(t)
      BY <2>3, <3>4 DEF Coming
    <3>6. n <= q /\ q <= n
      BY <2>1, <2>2, <3>3, <3>5
    <3>7. n = q
      BY <2>4, <3>6
    <3> QED BY <2>1, <2>2, <3>7 DEF CalendarDays
  <2> QED BY <2>5, <2>6
<1> QED BY <1>3, <1>4

(***************************************************************************)
(* The evidence between two checkpoints.                                   *)
(***************************************************************************)
(* What is in force at an instant of the window was in force at the last   *)
(* checkpoint before it.                                                   *)
LEMMA SinceCheckpoint ==
  ASSUME evidence \in Datasets, NEW t \in Window
  PROVE  \E c \in Checkpoints : \A s : Candidates(s, t) = Candidates(s, c)
<1>1. /\ EvaluationStart \in Nat /\ EvaluationEnd \in Nat
      /\ t \in Nat /\ EvaluationStart <= t /\ t < EvaluationEnd
  BY EvaluationAssumption DEF Window
<1> DEFINE Earlier == {c \in Checkpoints \cap Window : c <= t}
<1>2. EvaluationStart \in Earlier
  BY <1>1 DEF Checkpoints, Window
<1>3. Earlier \subseteq EvaluationStart .. EvaluationEnd /\ Earlier # {}
  BY <1>1, <1>2 DEF Window
<1>4. PICK c \in Earlier : \A b \in Earlier : b <= c
  <2>1. EvaluationStart \in Int /\ EvaluationEnd \in Int
    BY <1>1
  <2> HIDE DEF Earlier
  <2> QED BY <1>3, <2>1, GreatestInt
<1>5. c \in Nat /\ EvaluationStart <= c /\ c <= t
  BY <1>1, <1>3, <1>4
<1>6. \A r \in evidence : r.from \in Int /\ r.to \in Int
  BY DatasetAssumption
<1>7. EvaluationEnd < Forever
  <2>1. /\ DayOf(EvaluationEnd) \in Nat /\ EvaluationEnd <= DayOf(EvaluationEnd) * 4 + 3
        /\ DayOf(EvaluationEnd) < LastDay
    BY <1>1, DayFacts, EvaluationAssumption
  <2> QED BY <1>1, <2>1, BoundAssumption DEF Forever, Ticks
<1>8. ASSUME NEW r \in evidence PROVE InForce(r, t) <=> InForce(r, c)
  <2>1. ASSUME NEW b \in Int, c < b, b <= t, b \in {r.from, r.to} PROVE FALSE
    <3>1. b \in Window /\ b # Forever
      BY <1>1, <1>5, <1>7, <2>1 DEF Window
    <3>2. b \in Checkpoints
      BY <2>1, <3>1 DEF Checkpoints
    <3>3. b \in Earlier
      BY <2>1, <3>1, <3>2
    <3>4. b <= c
      BY <1>4, <3>3
    <3> QED BY <1>5, <2>1, <3>4
  <2>2. r.from \in Int /\ r.to \in Int
    BY <1>6
  <2>3. r.from <= t <=> r.from <= c
    BY <1>1, <1>5, <2>1, <2>2
  <2>4. t < r.to <=> c < r.to
    BY <1>1, <1>5, <2>1, <2>2
  <2> QED BY <2>3, <2>4 DEF InForce
<1>9. \A s : Candidates(s, t) = Candidates(s, c)
  BY <1>8 DEF Candidates
<1> QED BY <1>4, <1>9

LEMMA DerivedResolved ==
  ASSUME evidence \in Datasets, NEW t \in Window, NEW s \in Derived
  PROVE  Resolution(s, t) = "RESOLVED"
<1>1. PICK c \in Checkpoints : Candidates(s, t) = Candidates(s, c)
  BY SinceCheckpoint
<1>2. Resolution(s, t) = Resolution(s, c)
  <2>1. Winners(s, t) = Winners(s, c)
    BY <1>1 DEF Winners
  <2> QED BY <1>1, <2>1 DEF Resolution
<1>3. Resolution(s, c) # "CONFLICT"
  BY <1>1 DEF Derived
<1>4. Candidates(s, t) # {}
  <2>1. PICK r \in Covering(s) : TRUE
    BY DEF Derived
  <2>2. /\ EvaluationStart \in Nat /\ EvaluationEnd \in Nat
        /\ t \in Nat /\ EvaluationStart <= t /\ t < EvaluationEnd
    BY EvaluationAssumption DEF Window
  <2>3. r \in evidence /\ s \in r.symbols /\ r.from \in Int /\ r.to \in Int
        /\ r.from <= EvaluationStart /\ r.to >= EvaluationEnd
        /\ r.type # "CURRENT_METADATA" /\ r.confidence # "AMBIGUOUS_SCOPE"
    BY <2>1, DatasetAssumption DEF Covering
  <2>4. InForce(r, t)
    BY <2>2, <2>3 DEF InForce
  <2>5. r \in Candidates(s, t)
    BY <2>3, <2>4 DEF Candidates, Usable
  <2> QED BY <2>5
<1> QED BY <1>2, <1>3, <1>4 DEF Resolution

(***************************************************************************)
(* Session Zero.                                                           *)
(***************************************************************************)
LEMMA RankFacts ==
  ASSUME evidence \in Datasets, NEW r \in evidence
  PROVE  /\ Rank(r) \in Nat
         /\ r.capability = "SUSPENSION" => Rank(r) >= 4
         /\ r.capability # "SUSPENSION" => Rank(r) <= 3
<1>1. r.type \in {"SYMBOL_BATCH_CHANGE", "DATED_ENUMERATED_STATUS", "GENERAL_PRODUCT_RULE",
                  "CURRENT_METADATA", "AMBIGUOUS_NOTICE"}
  BY DatasetAssumption DEF EvidenceRank
<1>2. EvidenceRank[r.type] \in 0 .. 3
  BY <1>1 DEF EvidenceRank
<1> QED BY <1>2 DEF Rank

(* A source is expected open on evidence in force of which none suspends.  *)
LEMMA OpenGrounded ==
  ASSUME evidence \in Datasets, NEW s, NEW t, Availability(s, t) = "EXPECTED_OPEN"
  PROVE  Candidates(s, t) # {} /\ \A r \in Candidates(s, t) : r.capability # "SUSPENSION"
<1>1. Resolution(s, t) = "RESOLVED"
  BY DEF Availability
<1>2. Candidates(s, t) # {}
      /\ Cardinality({<<r.capability, r.mode>> : r \in Winners(s, t)}) = 1
  BY <1>1 DEF Resolution
<1>3. Winners(s, t) # {}
  <2>1. SUFFICES ASSUME Winners(s, t) = {} PROVE FALSE
    OBVIOUS
  <2>2. {<<r.capability, r.mode>> : r \in Winners(s, t)} = {}
    BY <2>1
  <2> QED BY <1>2, <2>2, FS_EmptySet
<1> DEFINE record == CHOOSE r \in Winners(s, t) : TRUE
<1>4. record \in Winners(s, t)
  BY <1>3
<1>5. record.capability # "SUSPENSION"
  <2> SUFFICES ASSUME record.capability = "SUSPENSION" PROVE FALSE
    OBVIOUS
  <2>1. Availability(s, t) = "EXPECTED_CLOSED"
    BY <1>1 DEF Availability
  <2> QED BY <2>1
<1> HIDE DEF record
<1>6. ASSUME NEW r \in Candidates(s, t), r.capability = "SUSPENSION" PROVE FALSE
  <2>1. r \in evidence /\ record \in evidence
    BY <1>4 DEF Winners, Candidates
  <2>2. Rank(r) > Rank(record)
    BY <1>5, <1>6, <2>1, RankFacts
  <2> QED BY <1>4, <1>6, <2>2 DEF Winners, Precedes
<1> QED BY <1>2, <1>6

(* A session that runs at an instant is the one of its day.                *)
LEMMA ClosedGrounded ==
  ASSUME NEW t \in Instants, ~SessionAt(t).open, NEW d \in Days, IsSession(d),
         OpenAt(d) <= t, t < CloseAt(d)
  PROVE  FALSE
<1>1. /\ t \in Nat /\ DayOf(t) \in Nat /\ DayOf(t) * 4 <= t /\ t <= DayOf(t) * 4 + 3
  BY InstantFacts, DayFacts
<1>2. d = DayOf(t)
  BY <1>1, HourFacts
<1>3. CloseAt(d) \in Nat /\ OpenAt(d) \in Nat
  BY HourFacts
<1>4. ~(t < OpenAt(d)) /\ ~(CloseAt(d) <= t)
  BY <1>1, <1>3
<1>5. SessionAt(t).open
  BY <1>2, <1>4 DEF SessionAt
<1> QED BY <1>5

(***************************************************************************)
(* The window is prepared, and joined instant by instant.                  *)
(***************************************************************************)
LEMMA SessionsKept ==
  ASSUME UNCHANGED sessionVars
  PROVE  /\ Derived' = Derived /\ CalendarDays' = CalendarDays
         /\ \A t : JoinOf(t)' = JoinOf(t)
         /\ \A t : SessionZero(t, {Availability(s, t) : s \in Symbols})'
                     = SessionZero(t, {Availability(s, t) : s \in Symbols})
<1>1. trading' = trading /\ evidence' = evidence
  BY DEF sessionVars
<1>2. \A d : IsSession(d)' = IsSession(d) /\ CloseAt(d)' = CloseAt(d)
  BY <1>1 DEF IsSession, CloseAt
<1>3. \A t : SessionAt(t)' = SessionAt(t)
  BY <1>2 DEF SessionAt, NextSession, PreviousSession
<1>4. CalendarDays' = CalendarDays
  BY <1>2, <1>3 DEF CalendarDays
<1>5. \A s, t : Candidates(s, t)' = Candidates(s, t)
  BY <1>1 DEF Candidates
<1>6. \A s, t : Winners(s, t)' = Winners(s, t)
  BY <1>5 DEF Winners
<1>7. \A s, t : Resolution(s, t)' = Resolution(s, t)
  BY <1>5, <1>6 DEF Resolution
<1>8. Checkpoints' = Checkpoints /\ \A s : Covering(s)' = Covering(s)
  BY <1>1 DEF Checkpoints, Covering
<1>9. Derived' = Derived
  BY <1>7, <1>8 DEF Derived
<1>10. \A s, t : Availability(s, t)' = Availability(s, t)
  BY <1>3, <1>6, <1>7 DEF Availability
<1>11. \A t : SessionZero(t, {Availability(s, t) : s \in Symbols})'
                = SessionZero(t, {Availability(s, t) : s \in Symbols})
  BY <1>3, <1>10 DEF SessionZero
<1>12. \A t : JoinOf(t)' = JoinOf(t)
  BY <1>3, <1>4 DEF JoinOf
<1> QED BY <1>4, <1>9, <1>11, <1>12

LEMMA CohortInitHolds == ASSUME CohortInit PROVE CohortInv
<1>1. EvaluationStart - 1 \in EvaluationStart - 1 .. EvaluationEnd - 1
      /\ EvaluationStart - 1 < EvaluationStart
  BY EvaluationAssumption
<1> QED BY <1>1 DEF CohortInit, SessionsInit, CohortInv

LEMMA PrepareKeeps == ASSUME CohortInv, Prepare PROVE CohortInv'
<1>1. UNCHANGED sessionVars /\ cohort' = Derived /\ pinned' = CalendarDays
      /\ UNCHANGED <<trading, evidence, at, context, zero>>
  BY DEF Prepare, sessionVars
<1>2. pinned' = CalendarDays' /\ cohort' = Derived'
  BY <1>1, SessionsKept
<1>3. \/ context' = NoContext /\ zero' = "UNKNOWN"
      \/ \E t \in EvaluationStart + 1 .. EvaluationEnd :
           /\ context' = JoinOf(t)'
           /\ zero' = SessionZero(t, {Availability(s, t) : s \in Symbols})'
  BY <1>1, SessionsKept DEF CohortInv
<1>4. trading' \in Calendars /\ evidence' \in Datasets
      /\ at' \in EvaluationStart - 1 .. EvaluationEnd - 1
  BY <1>1 DEF CohortInv
<1> QED BY <1>2, <1>3, <1>4 DEF CohortInv, NoContext

LEMMA JoinKeeps == ASSUME CohortInv, Join PROVE CohortInv'
<1>1. /\ UNCHANGED sessionVars /\ UNCHANGED <<trading, evidence, cohort, pinned>>
      /\ pinned # {} /\ at' = at + 1 /\ at + 1 < EvaluationEnd
  BY DEF Join, sessionVars
<1>2. pinned = CalendarDays /\ cohort = Derived
  BY <1>1 DEF CohortInv
<1>3. at \in Int /\ EvaluationStart - 1 <= at /\ EvaluationStart \in Nat /\ EvaluationEnd \in Nat
  BY EvaluationAssumption DEF CohortInv
<1>4. PICK t \in EvaluationStart + 1 .. EvaluationEnd : t = at' + 1
  BY <1>1, <1>3
<1>5. context' = JoinOf(t) /\ zero' = SessionZero(t, {Availability(s, t) : s \in Symbols})
  BY <1>2, <1>4 DEF Join, JoinOf
<1>6. context' = JoinOf(t)' /\ zero' = SessionZero(t, {Availability(s, t) : s \in Symbols})'
  BY <1>1, <1>5, SessionsKept
<1>7. pinned' = CalendarDays' /\ cohort' = Derived'
  BY <1>1, <1>2, SessionsKept
<1>8. trading' \in Calendars /\ evidence' \in Datasets
  BY <1>1 DEF CohortInv
<1>9. at' \in EvaluationStart - 1 .. EvaluationEnd - 1
  BY <1>1, <1>3
<1> QED BY <1>6, <1>7, <1>8, <1>9 DEF CohortInv

LEMMA CohortStepKeeps == ASSUME CohortInv, [CohortNext]_cohortVars PROVE CohortInv'
<1>1. CASE Prepare
  BY <1>1, PrepareKeeps
<1>2. CASE Join
  BY <1>2, JoinKeeps
<1>3. CASE UNCHANGED cohortVars
  <2>1. UNCHANGED sessionVars /\ UNCHANGED <<trading, evidence, cohort, pinned, at, context, zero>>
    BY <1>3 DEF cohortVars, sessionVars
  <2>2. pinned' = pinned /\ cohort' = cohort /\ at' = at /\ trading' = trading
        /\ evidence' = evidence /\ context' = context /\ zero' = zero
    BY <2>1
  <2>3. \/ pinned' = {} /\ cohort' = {} /\ at' < EvaluationStart
        \/ pinned' = CalendarDays' /\ cohort' = Derived'
    BY <2>1, <2>2, SessionsKept DEF CohortInv
  <2>4. \/ context' = NoContext /\ zero' = "UNKNOWN"
        \/ \E t \in EvaluationStart + 1 .. EvaluationEnd :
             /\ context' = JoinOf(t)'
             /\ zero' = SessionZero(t, {Availability(s, t) : s \in Symbols})'
    BY <2>1, <2>2, SessionsKept DEF CohortInv
  <2> QED BY <2>2, <2>3, <2>4 DEF CohortInv, NoContext
<1> QED BY <1>1, <1>2, <1>3 DEF CohortNext

(* The invariant: what is prepared is derived from the evidence and the    *)
(* calendar of the run (evidence_cohort.py:55-105,                         *)
(* dataset_artifacts.py:82-101), and what is joined is joined at one       *)
(* decision of the window (dataset.py:226-262).                            *)
THEOREM CohortInductive == CohortSpec => []CohortInv
<1>1. CohortInit => CohortInv
  BY CohortInitHolds
<1>2. CohortInv /\ [CohortNext]_cohortVars => CohortInv'
  BY CohortStepKeeps
<1> QED BY <1>1, <1>2, PTL DEF CohortSpec

(* No lookahead, for every calendar whose first and last days trade and    *)
(* every window inside it: the previous close and the next open of an      *)
(* observation are the exact ones at its decision, and both are in the     *)
(* pinned calendar (calendar.py:60-115, dataset_artifacts.py:82-101,       *)
(* dataset.py:241-251).                                                    *)
THEOREM JoinsAreExact == CohortSpec => []JoinsExact
<1>1. ASSUME CohortInv PROVE JoinsExact
  <2>1. SUFFICES ASSUME context # NoContext
                 PROVE  /\ context.previous = Max(Closed(context.decision))
                        /\ context.next = Min(Coming(context.decision))
                        /\ context.resolved
    BY DEF JoinsExact, Closed, Coming
  <2>2. trading \in Calendars
    BY <1>1 DEF CohortInv
  <2>3. PICK t \in EvaluationStart + 1 .. EvaluationEnd : context = JoinOf(t)
    BY <1>1, <2>1 DEF CohortInv
  <2>4. t \in Instants
    BY EvaluationAssumption DEF Instants
  <2>5. /\ context.decision = t
        /\ context.previous = SessionAt(t).previous /\ context.next = SessionAt(t).next
        /\ context.resolved = ({SessionAt(t).previous, SessionAt(t).next} \subseteq CalendarDays)
    BY <2>3 DEF JoinOf
  <2>6. SessionAt(t).previous = Max(Closed(t)) /\ SessionAt(t).next = Min(Coming(t))
    BY <2>2, <2>4, PreviousExact, NextExact
  <2>7. {SessionAt(t).previous, SessionAt(t).next} \subseteq CalendarDays
    BY <2>2, JoinResolved
  <2> QED BY <2>5, <2>6, <2>7
<1> QED BY <1>1, CohortInductive, PTL

(* Evidence: checking a symbol at the boundaries of the records is enough  *)
(* for every instant of the window, whatever the records are               *)
(* (evidence_cohort.py:38-52, 99-105).                                     *)
THEOREM CohortIsResolved == CohortSpec => []CohortResolved
<1>1. ASSUME CohortInv PROVE CohortResolved
  <2>1. SUFFICES ASSUME at \in Window, NEW s \in cohort PROVE Resolution(s, at) = "RESOLVED"
    BY DEF CohortResolved
  <2>2. evidence \in Datasets /\ s \in Derived
    BY <1>1, <2>1 DEF CohortInv
  <2>3. PICK t \in Window : t = at
    BY <2>1
  <2> QED BY <2>2, <2>3, DerivedResolved
<1> QED BY <1>1, CohortInductive, PTL

(* Session Zero: it is active only between two sessions and on evidence in *)
(* force of which no record is a suspension (session_zero.py:16-24,        *)
(* source_sessions.py:81-90, 117-145).                                     *)
THEOREM ActiveIsGrounded == CohortSpec => []ActiveGrounded
<1>1. ASSUME CohortInv PROVE ActiveGrounded
  <2>1. SUFFICES ASSUME zero = "ACTIVE"
                 PROVE  /\ \A d \in Days : IsSession(d) =>
                             ~(OpenAt(d) <= context.decision /\ context.decision < CloseAt(d))
                        /\ \E s \in Symbols :
                             /\ Candidates(s, context.decision) # {}
                             /\ \A r \in Candidates(s, context.decision) :
                                  r.capability # "SUSPENSION"
    BY DEF ActiveGrounded
  <2>2. trading \in Calendars /\ evidence \in Datasets
    BY <1>1 DEF CohortInv
  <2>3. PICK t \in EvaluationStart + 1 .. EvaluationEnd :
          /\ context = JoinOf(t)
          /\ zero = SessionZero(t, {Availability(s, t) : s \in Symbols})
    BY <1>1, <2>1 DEF CohortInv
  <2>4. t \in Instants /\ context.decision = t
    BY <2>3, EvaluationAssumption DEF Instants, JoinOf
  <2>5. ~SessionAt(t).open /\ \E s \in Symbols : Availability(s, t) = "EXPECTED_OPEN"
    BY <2>1, <2>3 DEF SessionZero
  <2>6. \A d \in Days : IsSession(d) => ~(OpenAt(d) <= t /\ t < CloseAt(d))
    BY <2>4, <2>5, ClosedGrounded
  <2>7. PICK s \in Symbols : Availability(s, t) = "EXPECTED_OPEN"
    BY <2>5
  <2>8. Candidates(s, t) # {} /\ \A r \in Candidates(s, t) : r.capability # "SUSPENSION"
    BY <2>2, <2>7, OpenGrounded
  <2> QED BY <2>4, <2>6, <2>8
<1> QED BY <1>1, CohortInductive, PTL

(***************************************************************************)
(* The rows of a Bitget history.                                           *)
(***************************************************************************)
LEMMA PageRows ==
  ASSUME NEW page \in Page
  PROVE  /\ Len(page) \in Nat /\ Len(page) <= PageLimit /\ DOMAIN page = 1 .. Len(page)
         /\ \A i \in DOMAIN page : page[i] \in Row /\ page[i].t \in Int
<1>1. PICK n \in 0 .. PageLimit : page \in [1 .. n -> Row]
  BY DEF Page
<1>2. n \in Nat /\ n <= PageLimit
  BY BoundsAssumption
<1>3. DOMAIN page = 1 .. n /\ Len(page) = n /\ \A i \in 1 .. n : page[i] \in Row
  BY <1>1, <1>2
<1>4. \A r \in Row : r.t \in Int
  BY TimesAssumption DEF Row
<1> QED BY <1>2, <1>3, <1>4

LEMMA PlaceFacts ==
  ASSUME NEW ps \in Seq(Page), NEW a \in Places(ps)
  PROVE  /\ a = <<a[1], a[2]>> /\ a[1] \in 1 .. Len(ps) /\ a[1] \in Nat
         /\ a[2] \in DOMAIN ps[a[1]] /\ a[2] \in Nat
         /\ RowAt(ps, a) \in Row /\ RowAt(ps, a).t \in Int
<1>1. PICK n \in DOMAIN ps : a \in {<<n, i>> : i \in DOMAIN ps[n]}
  BY DEF Places
<1>2. PICK i \in DOMAIN ps[n] : a = <<n, i>>
  BY <1>1
<1>3. n \in 1 .. Len(ps) /\ n \in Nat /\ ps[n] \in Page
  OBVIOUS
<1>4. i \in Nat /\ ps[n][i] \in Row /\ ps[n][i].t \in Int
  BY <1>3, PageRows
<1> QED BY <1>2, <1>3, <1>4 DEF RowAt

LEMMA PlaceIs ==
  ASSUME NEW ps \in Seq(Page), NEW n \in 1 .. Len(ps), NEW i \in DOMAIN ps[n]
  PROVE  <<n, i>> \in Places(ps) /\ RowAt(ps, <<n, i>>) = ps[n][i]
<1>1. n \in DOMAIN ps
  OBVIOUS
<1>2. <<n, i>> \in {<<n, j>> : j \in DOMAIN ps[n]}
  OBVIOUS
<1> QED BY <1>1, <1>2 DEF Places, RowAt

(* Every time that was read has a first place.                             *)
LEMMA FirstExists ==
  ASSUME NEW ps \in Seq(Page), NEW a \in Places(ps)
  PROVE  \E f \in Firsts(ps, Places(ps)) : RowAt(ps, f).t = RowAt(ps, a).t
<1> DEFINE A == {b \in Places(ps) : RowAt(ps, b).t = RowAt(ps, a).t}
           N == {b[1] : b \in A}
<1>1. \A b \in A : /\ b = <<b[1], b[2]>> /\ b[1] \in 1 .. Len(ps)
                   /\ b[1] \in Nat /\ b[2] \in Nat
  BY PlaceFacts
<1>2. a \in A /\ Len(ps) \in Nat
  OBVIOUS
<1> HIDE DEF A
<1>3. PICK n \in N : \A m \in N : m <= n
  <2>1. N \subseteq 1 .. Len(ps) /\ N # {} /\ 1 \in Int /\ Len(ps) \in Int
    BY <1>1, <1>2
  <2> HIDE DEF N
  <2> QED BY <2>1, GreatestInt
<1> DEFINE M == {i \in Nat : <<n, i>> \in A}
<1>4. PICK i \in M : \A j \in M : i <= j
  <2>1. M \subseteq Nat /\ M # {}
    <3>1. PICK b \in A : b[1] = n
      BY <1>3
    <3>2. b[2] \in M
      BY <1>1, <3>1
    <3> QED BY <3>2
  <2> HIDE DEF M
  <2> QED BY <2>1, LeastNat
<1> DEFINE f == <<n, i>>
<1>5. f \in A /\ n \in Nat /\ i \in Nat
  BY <1>1, <1>3, <1>4
<1>6. \A b \in A : ~Before(b, f)
  <2>1. SUFFICES ASSUME NEW b \in A, Before(b, f) PROVE FALSE
    OBVIOUS
  <2>2. b = <<b[1], b[2]>> /\ b[1] \in Nat /\ b[2] \in Nat /\ b[1] <= n
    BY <1>1, <1>3
  <2>3. b[1] > n \/ (b[1] = n /\ b[2] < i)
    BY <2>1 DEF Before
  <2>4. b[1] = n /\ b[2] < i
    BY <1>5, <2>2, <2>3
  <2>5. b[2] \in M
    BY <2>2, <2>4
  <2>6. i <= b[2]
    BY <1>4, <2>5
  <2> QED BY <1>5, <2>2, <2>4, <2>6
<1>7. f \in Firsts(ps, Places(ps))
  BY <1>5, <1>6 DEF Firsts, A
<1> QED BY <1>5, <1>7 DEF A

(* It is the only one.                                                     *)
LEMMA FirstUnique ==
  ASSUME NEW ps \in Seq(Page), NEW K, K \subseteq Places(ps),
         NEW a \in Firsts(ps, K), NEW b \in Firsts(ps, K), RowAt(ps, a).t = RowAt(ps, b).t
  PROVE  a = b
<1>1. a \in K /\ b \in K /\ ~Before(a, b) /\ ~Before(b, a)
  BY DEF Firsts
<1>2. /\ a = <<a[1], a[2]>> /\ a[1] \in Nat /\ a[2] \in Nat
      /\ b = <<b[1], b[2]>> /\ b[1] \in Nat /\ b[2] \in Nat
  BY <1>1, PlaceFacts
<1>3. a[1] = b[1] /\ a[2] = b[2]
  BY <1>1, <1>2 DEF Before
<1> QED BY <1>2, <1>3

(* An overlap is never the first of its time: the first is always kept.    *)
LEMMA FirstKept ==
  ASSUME NEW ps \in Seq(Page), NEW f \in Firsts(ps, Places(ps))
  PROVE  f \in Firsts(ps, ProviderOrder(ps))
<1>1. f \in Places(ps)
  BY DEF Firsts
<1>2. ~SameAsEarlierPage(ps, f)
  <2>1. SUFFICES ASSUME NEW g \in Firsts(ps, Places(ps)), g[1] # f[1], RowAt(ps, g) = RowAt(ps, f)
        PROVE  FALSE
    BY DEF SameAsEarlierPage
  <2>2. g = f
    BY <2>1, FirstUnique
  <2> QED BY <2>1, <2>2
<1>3. f \in ProviderOrder(ps)
  BY <1>1, <1>2 DEF ProviderOrder
<1>4. ProviderOrder(ps) \subseteq Places(ps)
  BY DEF ProviderOrder
<1> QED BY <1>3, <1>4 DEF Firsts

LEMMA FirstTimes ==
  ASSUME NEW ps \in Seq(Page)
  PROVE  {RowAt(ps, a).t : a \in Firsts(ps, ProviderOrder(ps))} = {RowAt(ps, a).t : a \in Places(ps)}
<1>1. Firsts(ps, ProviderOrder(ps)) \subseteq Places(ps)
  BY DEF Firsts, ProviderOrder
<1>2. ASSUME NEW a \in Places(ps)
      PROVE  \E f \in Firsts(ps, ProviderOrder(ps)) : RowAt(ps, f).t = RowAt(ps, a).t
  BY FirstExists, FirstKept
<1> QED BY <1>1, <1>2

(***************************************************************************)
(* The rows that are accepted, in order.                                   *)
(***************************************************************************)
Ordered(s, S) == /\ s \in [1 .. Cardinality(S) -> S]
                 /\ \A i, j \in DOMAIN s : i < j => s[i].t < s[j].t
                 /\ \A r \in S : \E i \in DOMAIN s : s[i] = r

LEMMA OrderedAppend ==
  ASSUME NEW S, IsFiniteSet(S), NEW s, Ordered(s, S), NEW r, \A q \in S : q.t < r.t, r \notin S
  PROVE  IsFiniteSet(S \cup {r}) /\ \E u : Ordered(u, S \cup {r})
<1> DEFINE n == Cardinality(S)
           T == S \cup {r}
           u == [i \in 1 .. n + 1 |-> IF i = n + 1 THEN r ELSE s[i]]
<1>1. n \in Nat /\ IsFiniteSet(T) /\ Cardinality(T) = n + 1
  BY FS_CardinalityType, FS_AddElement
<1>2. s \in [1 .. n -> S] /\ DOMAIN s = 1 .. n
  BY DEF Ordered
<1> HIDE DEF n
<1>3. \A i \in 1 .. n + 1 : i = n + 1 \/ (i \in 1 .. n /\ i # n + 1)
  BY <1>1
<1>4. \A i \in 1 .. n : i \in 1 .. n + 1 /\ i # n + 1 /\ i < n + 1 /\ ~(n + 1 < i)
  BY <1>1
<1>5. n + 1 \in 1 .. n + 1 /\ ~(n + 1 < n + 1)
  BY <1>1
<1>6. u \in [1 .. n + 1 -> T] /\ DOMAIN u = 1 .. n + 1
  BY <1>2, <1>3
<1>7. u[n + 1] = r /\ \A i \in 1 .. n : u[i] = s[i]
  BY <1>4, <1>5
<1> HIDE DEF u
<1>8. ASSUME NEW i \in 1 .. n + 1, NEW j \in 1 .. n + 1, i < j PROVE u[i].t < u[j].t
  <2>1. i \in 1 .. n
    BY <1>1, <1>8
  <2>2. CASE j \in 1 .. n
    BY <1>2, <1>7, <1>8, <2>1, <2>2 DEF Ordered
  <2>3. CASE j = n + 1
    BY <1>2, <1>7, <2>1, <2>3
  <2> QED BY <1>3, <2>2, <2>3
<1>9. ASSUME NEW q \in T PROVE \E i \in 1 .. n + 1 : u[i] = q
  <2>1. CASE q = r
    BY <1>5, <1>7, <2>1
  <2>2. CASE q \in S
    BY <1>2, <1>4, <1>7, <2>2 DEF Ordered
  <2> QED BY <2>1, <2>2
<1>10. Ordered(u, T)
  BY <1>1, <1>6, <1>8, <1>9 DEF Ordered
<1> QED BY <1>1, <1>10

LEMMA InOrderIs ==
  ASSUME NEW keep, \A r \in keep : r.t \in Start .. End - 1,
         \A r, q \in keep : r.t = q.t => r = q
  PROVE  IsFiniteSet(keep) /\ Ordered(InOrder(keep), keep)
<1> DEFINE n == End - Start
           Upto(k) == {r \in keep : r.t < Start + k}
           Fine(k) == IsFiniteSet(Upto(k)) /\ \E s : Ordered(s, Upto(k))
           S == {k \in 0 .. n : Fine(k)}
<1>1. n \in Nat /\ Start \in Int /\ End \in Int
  BY WindowAssumption
<1>2. \A r \in keep : r.t \in Int /\ Start <= r.t /\ r.t < End
  BY <1>1
<1>3. 0 \in S
  <2>1. Upto(0) = {}
    BY <1>1, <1>2
  <2>2. IsFiniteSet({}) /\ Cardinality({}) = 0
    BY FS_EmptySet
  <2>3. Ordered(<<>>, {})
    BY <2>2 DEF Ordered
  <2> HIDE DEF Upto
  <2>4. Fine(0)
    BY <2>1, <2>2, <2>3
  <2> QED BY <1>1, <2>4
<1>4. ASSUME NEW k \in 1 .. n, k - 1 \in S PROVE k \in S
  <2>1. k \in 0 .. n /\ Fine(k - 1)
    <3>1. k \in 0 .. n
      BY <1>1
    <3> HIDE DEF Fine, n
    <3> QED BY <1>4, <3>1
  <2>2. CASE \E r \in keep : r.t = Start + (k - 1)
    <3>1. PICK r \in keep : r.t = Start + (k - 1)
      BY <2>2
    <3>2. Upto(k) = Upto(k - 1) \cup {r}
      <4>1. \A q \in keep : q.t < Start + k <=> q.t < Start + (k - 1) \/ q.t = r.t
        BY <1>1, <1>2, <3>1
      <4> QED BY <3>1, <4>1
    <3>3. \A q \in Upto(k - 1) : q.t < r.t
      BY <3>1
    <3>4. r \notin Upto(k - 1)
      BY <1>1, <3>1
    <3> HIDE DEF Upto
    <3>5. PICK s : Ordered(s, Upto(k - 1)) /\ IsFiniteSet(Upto(k - 1))
      BY <2>1
    <3>6. IsFiniteSet(Upto(k)) /\ \E u : Ordered(u, Upto(k))
      BY <3>2, <3>3, <3>4, <3>5, OrderedAppend
    <3>7. Fine(k)
      BY <3>6
    <3> HIDE DEF Fine
    <3> QED BY <2>1, <3>7
  <2>3. CASE ~\E r \in keep : r.t = Start + (k - 1)
    <3>1. Upto(k) = Upto(k - 1)
      <4>1. \A q \in keep : q.t < Start + k <=> q.t < Start + (k - 1)
        BY <1>1, <1>2, <2>3
      <4> QED BY <4>1
    <3> HIDE DEF Upto
    <3> QED BY <2>1, <3>1
  <2> QED BY <2>2, <2>3
<1> HIDE DEF S
<1>5. n \in S
  <2>1. \A k \in 0 .. n : k \in S
    BY <1>1, <1>3, <1>4, LoopInduction
  <2> QED BY <1>1, <2>1
<1>6. Upto(n) = keep
  BY <1>1, <1>2
<1>7. IsFiniteSet(keep) /\ \E s : Ordered(s, keep)
  <2> HIDE DEF Upto
  <2> QED BY <1>5, <1>6 DEF S
<1> QED BY <1>7, Zenon DEF Ordered, InOrder

(* The report of a history: what is accepted is in order, and unless it     *)
(* failed it is every row of the window that was read.                      *)
RowsRead(ps) == {RowAt(ps, a) : a \in Places(ps)}
InRange(S) == {r \in S : Start <= r.t /\ r.t < End}
FirstRows(ps) == {RowAt(ps, a) : a \in Firsts(ps, ProviderOrder(ps))}

LEMMA Reported ==
  ASSUME NEW ps
  PROVE  /\ History(ps).kind = "history"
         /\ History(ps).quality.accepted = InOrder(InRange(FirstRows(ps)))
         /\ History(ps).quality.status # "FAIL" =>
              ProviderOrder(ps) = Firsts(ps, ProviderOrder(ps))
<1> DEFINE q == History(ps).quality
<1>1. History(ps).kind = "history" /\ q = Quality(ps, ProviderOrder(ps), {})
  BY Zenon DEF History
<1>2. q.accepted = InOrder(InRange(FirstRows(ps)))
  BY <1>1 DEF Quality, FirstRows, InRange
<1>3. q.status # "FAIL" => q.errors = {}
  BY <1>1 DEF Quality
<1>4. q.errors = {} => ProviderOrder(ps) = Firsts(ps, ProviderOrder(ps))
  <2>1. SUFFICES ASSUME ProviderOrder(ps) # Firsts(ps, ProviderOrder(ps))
        PROVE  "DUPLICATE_TIMESTAMP" \in q.errors
    OBVIOUS
  <2> QED BY <1>1, <2>1 DEF Quality
<1> QED BY <1>1, <1>2, <1>3, <1>4

LEMMA AcceptedOrdered ==
  ASSUME NEW ps \in Seq(Page)
  PROVE  LET keep == InRange(FirstRows(ps))
         IN IsFiniteSet(keep) /\ Ordered(InOrder(keep), keep)
<1> DEFINE keep == InRange(FirstRows(ps))
<1>1. Firsts(ps, ProviderOrder(ps)) \subseteq Places(ps) /\ ProviderOrder(ps) \subseteq Places(ps)
  BY DEF Firsts, ProviderOrder
<1>2. \A r \in keep : r.t \in Start .. End - 1
  <2>1. ASSUME NEW r \in keep PROVE r.t \in Start .. End - 1
    <3>1. PICK a \in Places(ps) : r = RowAt(ps, a)
      BY <1>1 DEF InRange, FirstRows
    <3>2. r.t \in Int /\ Start <= r.t /\ r.t < End
      BY <3>1, PlaceFacts DEF InRange
    <3> QED BY <3>2, WindowAssumption
  <2> QED BY <2>1
<1>3. ASSUME NEW r \in keep, NEW q \in keep, r.t = q.t PROVE r = q
  <2>1. PICK a \in Firsts(ps, ProviderOrder(ps)) : r = RowAt(ps, a)
    BY DEF InRange, FirstRows
  <2>2. PICK b \in Firsts(ps, ProviderOrder(ps)) : q = RowAt(ps, b)
    BY DEF InRange, FirstRows
  <2>3. a = b
    BY <1>1, <1>3, <2>1, <2>2, FirstUnique
  <2> QED BY <2>1, <2>2, <2>3
<1> HIDE DEF keep
<1>4. IsFiniteSet(keep) /\ Ordered(InOrder(keep), keep)
  BY <1>2, <1>3, InOrderIs
<1> QED BY <1>4 DEF keep

(* No row of the window is lost unless the report says FAIL.               *)
LEMMA NothingLost ==
  ASSUME NEW ps \in Seq(Page), ProviderOrder(ps) = Firsts(ps, ProviderOrder(ps))
  PROVE  FirstRows(ps) = RowsRead(ps)
<1>1. FirstRows(ps) \subseteq RowsRead(ps)
  BY DEF FirstRows, RowsRead, Firsts, ProviderOrder
<1>2. ASSUME NEW a \in Places(ps) PROVE RowAt(ps, a) \in FirstRows(ps)
  <2>1. CASE a \in ProviderOrder(ps)
    BY <2>1 DEF FirstRows
  <2>2. CASE a \notin ProviderOrder(ps)
    <3>1. PICK f \in Firsts(ps, Places(ps)) : RowAt(ps, f) = RowAt(ps, a)
      BY <2>2 DEF ProviderOrder, SameAsEarlierPage
    <3>2. f \in Firsts(ps, ProviderOrder(ps))
      BY FirstKept
    <3> QED BY <3>1, <3>2 DEF FirstRows
  <2> QED BY <2>1, <2>2
<1> QED BY <1>1, <1>2 DEF RowsRead

LEMMA OrderedIsSound ==
  ASSUME NEW S, NEW from, NEW s, IsFiniteSet(S), Ordered(s, S), S = InRange(from)
  PROVE  BitgetSource!Sound(s, from)
<1>1. Cardinality(S) \in Nat
  BY FS_CardinalityType
<1>2. Len(s) = Cardinality(S) /\ DOMAIN s = 1 .. Len(s)
  BY <1>1 DEF Ordered
<1>3. BitgetSource!Ascending(s)
  BY <1>2 DEF Ordered, BitgetSource!Ascending
<1>4. BitgetSource!Bars(s) = S
  BY <1>2 DEF Ordered, BitgetSource!Bars
<1>5. S = {b \in from : BitgetSource!InWindow(b)}
  BY DEF InRange, BitgetSource!InWindow
<1> QED BY <1>3, <1>4, <1>5 DEF BitgetSource!Sound

LEMMA AnswerIsSound ==
  ASSUME BitgetInv, BitgetAnswer.kind = "history"
  PROVE  BitgetSource!Sound(BitgetAnswer.bars, BitgetServed)
<1> DEFINE keep == InRange(FirstRows(pages))
<1>1. outcome.kind = "history" /\ outcome.quality.status # "FAIL"
      /\ BitgetAnswer.bars = outcome.quality.accepted
  BY DEF BitgetAnswer
<1>2. pages \in Seq(Page) /\ outcome = History(pages)
  BY <1>1 DEF BitgetInv
<1>3. BitgetAnswer.bars = InOrder(keep) /\ ProviderOrder(pages) = Firsts(pages, ProviderOrder(pages))
  BY <1>1, <1>2, Reported
<1>4. IsFiniteSet(keep) /\ Ordered(InOrder(keep), keep)
  BY <1>2, AcceptedOrdered
<1>5. FirstRows(pages) = BitgetServed
  BY <1>2, <1>3, NothingLost DEF RowsRead, BitgetServed
<1>6. keep = InRange(BitgetServed)
  BY <1>5
<1> HIDE DEF keep
<1> QED BY <1>3, <1>4, <1>6, OrderedIsSound

(* The times of the bars of a history that is complete.                    *)
LEMMA AcceptedTimes ==
  ASSUME NEW ps \in Seq(Page), {RowAt(ps, a).t : a \in Places(ps)} \subseteq Start .. End - 1
  PROVE  LET s == InOrder(InRange(FirstRows(ps)))
         IN {s[i].t : i \in DOMAIN s} = {RowAt(ps, a).t : a \in Places(ps)}
<1> DEFINE keep == InRange(FirstRows(ps))
           s == InOrder(keep)
<1>1. s \in [1 .. Cardinality(keep) -> keep] /\ \A r \in keep : \E i \in DOMAIN s : s[i] = r
  BY AcceptedOrdered DEF Ordered
<1>2. {s[i].t : i \in DOMAIN s} = {r.t : r \in keep}
  <2> HIDE DEF keep, s
  <2> QED BY <1>1
<1>3. Firsts(ps, ProviderOrder(ps)) \subseteq Places(ps)
  BY DEF Firsts, ProviderOrder
<1>4. \A a \in Places(ps) : Start <= RowAt(ps, a).t /\ RowAt(ps, a).t < End
  <2>1. ASSUME NEW a \in Places(ps) PROVE Start <= RowAt(ps, a).t /\ RowAt(ps, a).t < End
    <3>1. RowAt(ps, a).t \in Start .. End - 1
      OBVIOUS
    <3> QED BY <3>1, WindowAssumption
  <2> QED BY <2>1
<1>5. keep = FirstRows(ps)
  BY <1>3, <1>4 DEF FirstRows, InRange
<1>6. {r.t : r \in keep} = {RowAt(ps, a).t : a \in Firsts(ps, ProviderOrder(ps))}
  BY <1>5 DEF FirstRows
<1> QED BY <1>2, <1>6, FirstTimes

(***************************************************************************)
(* The steps of a Bitget history.                                          *)
(***************************************************************************)
TimesOf(ps) == {RowAt(ps, a).t : a \in Places(ps)}
TimesIn(page) == {page[i].t : i \in DOMAIN page}

LEMMA PageAdded ==
  ASSUME NEW ps \in Seq(Page), NEW page \in Page
  PROVE  /\ Append(ps, page) \in Seq(Page)
         /\ RowsRead(Append(ps, page)) = RowsRead(ps) \cup {page[i] : i \in DOMAIN page}
         /\ TimesOf(Append(ps, page)) = TimesOf(ps) \cup TimesIn(page)
<1> DEFINE qs == Append(ps, page)
           n == Len(ps) + 1
<1>1. /\ qs \in Seq(Page) /\ Len(qs) = n /\ Len(ps) \in Nat /\ qs[n] = page
      /\ \A k \in 1 .. Len(ps) : qs[k] = ps[k]
  OBVIOUS
<1>2. n \in 1 .. n /\ \A k \in 1 .. Len(ps) : k \in 1 .. n
  BY <1>1
<1>3. \A k \in 1 .. n : k = n \/ k \in 1 .. Len(ps)
  BY <1>1
<1> HIDE DEF qs, n
<1>4. ASSUME NEW a \in Places(ps) PROVE a \in Places(qs) /\ RowAt(qs, a) = RowAt(ps, a)
  <2>1. a = <<a[1], a[2]>> /\ a[1] \in 1 .. Len(ps) /\ a[2] \in DOMAIN ps[a[1]]
    BY PlaceFacts
  <2>2. a[1] \in 1 .. Len(qs) /\ qs[a[1]] = ps[a[1]]
    BY <1>1, <1>2, <2>1
  <2>3. a \in Places(qs)
    BY <1>1, <2>1, <2>2, PlaceIs
  <2> QED BY <2>2, <2>3 DEF RowAt
<1>5. ASSUME NEW i \in DOMAIN page PROVE <<n, i>> \in Places(qs) /\ RowAt(qs, <<n, i>>) = page[i]
  BY <1>1, <1>2, PlaceIs
<1>6. ASSUME NEW a \in Places(qs)
      PROVE  \/ \E b \in Places(ps) : RowAt(qs, a) = RowAt(ps, b)
             \/ \E i \in DOMAIN page : RowAt(qs, a) = page[i]
  <2>1. a = <<a[1], a[2]>> /\ a[1] \in 1 .. n /\ a[2] \in DOMAIN qs[a[1]]
    BY <1>1, PlaceFacts
  <2>2. CASE a[1] = n
    BY <1>1, <2>1, <2>2 DEF RowAt
  <2>3. CASE a[1] \in 1 .. Len(ps)
    <3>1. <<a[1], a[2]>> \in Places(ps) /\ RowAt(ps, <<a[1], a[2]>>) = ps[a[1]][a[2]]
      BY <1>1, <2>1, <2>3, PlaceIs
    <3>2. RowAt(qs, a) = ps[a[1]][a[2]]
      BY <1>1, <2>3 DEF RowAt
    <3> QED BY <3>1, <3>2
  <2> QED BY <1>3, <2>1, <2>2, <2>3
<1>7. RowsRead(qs) = RowsRead(ps) \cup {page[i] : i \in DOMAIN page}
  BY <1>4, <1>5, <1>6 DEF RowsRead
<1>8. TimesOf(qs) = TimesOf(ps) \cup TimesIn(page)
  <2>1. \A ss : TimesOf(ss) = {r.t : r \in RowsRead(ss)}
    BY DEF TimesOf, RowsRead
  <2>2. TimesIn(page) = {r.t : r \in {page[i] : i \in DOMAIN page}}
    BY DEF TimesIn
  <2> QED BY <1>7, <2>1, <2>2
<1> QED BY <1>1, <1>7, <1>8 DEF qs

LEMMA NoPages == Places(<<>>) = {} /\ TimesOf(<<>>) = {} /\ RowsRead(<<>>) = {}
<1>1. Places(<<>>) = {}
  BY DEF Places
<1> QED BY <1>1 DEF TimesOf, RowsRead

LEMMA OldestFacts ==
  ASSUME NEW page \in Page, page # <<>>
  PROVE  OldestOf(page) \in Int /\ OldestOf(page) \in TimesIn(page)
         /\ \A t \in TimesIn(page) : OldestOf(page) <= t
<1> DEFINE T == TimesIn(page)
<1>1. /\ Len(page) \in Nat /\ DOMAIN page = 1 .. Len(page)
      /\ \A i \in DOMAIN page : page[i].t \in Int
  BY PageRows
<1>2. Len(page) # 0
  <2>1. page \in Seq(Row)
    BY BoundsAssumption DEF Page
  <2> QED BY <2>1
<1> DEFINE R(t) == \A i \in DOMAIN page : t <= page[i].t
<1>3. \E t \in T : R(t)
  <2> DEFINE S == {k \in 0 .. Len(page) :
                     k = 0 \/ \E j \in 1 .. k : \A i \in 1 .. k : page[j].t <= page[i].t}
  <2>1. 0 \in S
    BY <1>1
  <2>2. ASSUME NEW k \in 1 .. Len(page), k - 1 \in S PROVE k \in S
    <3>1. /\ k \in DOMAIN page /\ page[k].t \in Int /\ k \in 0 .. Len(page) /\ k \in 1 .. k
          /\ \A i \in 1 .. k : i = k \/ i \in 1 .. k - 1
          /\ \A i \in 1 .. k - 1 : i \in 1 .. k
          /\ \A i \in 1 .. k : i \in DOMAIN page
      BY <1>1
    <3>2. CASE k - 1 = 0
      <4>1. \A i \in 1 .. k : i = k
        BY <3>1, <3>2
      <4> QED BY <3>1, <4>1
    <3>3. CASE k - 1 # 0
      <4>1. PICK j \in 1 .. k - 1 : \A i \in 1 .. k - 1 : page[j].t <= page[i].t
        BY <2>2, <3>3
      <4>2. page[j].t \in Int /\ j \in 1 .. k
        BY <1>1, <3>1
      <4>3. CASE page[j].t <= page[k].t
        BY <3>1, <4>1, <4>2, <4>3
      <4>4. CASE ~(page[j].t <= page[k].t)
        <5>1. \A i \in 1 .. k - 1 : page[k].t <= page[i].t
          BY <1>1, <3>1, <4>1, <4>2, <4>4
        <5>2. \A i \in 1 .. k : page[k].t <= page[i].t
          BY <3>1, <5>1
        <5> QED BY <3>1, <5>2
      <4> QED BY <4>3, <4>4
    <3> QED BY <3>2, <3>3
  <2> HIDE DEF S
  <2>3. Len(page) \in S
    <3>1. \A k \in 0 .. Len(page) : k \in S
      BY <1>1, <2>1, <2>2, LoopInduction
    <3> QED BY <1>1, <3>1
  <2>4. PICK j \in 1 .. Len(page) : \A i \in 1 .. Len(page) : page[j].t <= page[i].t
    BY <1>2, <2>3 DEF S
  <2> QED BY <1>1, <2>4 DEF TimesIn
<1>4. OldestOf(page) = CHOOSE t \in T : R(t)
  BY DEF OldestOf, TimesIn
<1>5. OldestOf(page) \in T /\ R(OldestOf(page))
  <2> HIDE DEF R, T
  <2> QED BY <1>3, <1>4, Zenon
<1> QED BY <1>1, <1>5 DEF TimesIn

(* A correct provider's page moves the cursor past what it sent, and a last *)
(* one leaves nothing out.                                                  *)
LEMMA HonestPage ==
  ASSUME NEW page \in Page, HonestReply(page, cursor), world \in Worlds, cursor \in Int, cursor <= End
  PROVE  /\ TimesIn(page) \subseteq world
         /\ ~NoProgress(page)
         /\ LastPage(page) => \A t \in world : t < cursor => t \in TimesIn(page)
         /\ ~LastPage(page) =>
              {t \in world : cursor <= t} \cup TimesIn(page) = {t \in world : OldestOf(page) <= t}
<1>1. /\ TimesIn(page) \subseteq {t \in world : t < cursor}
      /\ \A t \in world : t < cursor /\ t \notin TimesIn(page) =>
           Len(page) = PageLimit /\ \A u \in TimesIn(page) : t < u
  BY DEF HonestReply, TimesIn
<1>2. \A t \in world : t \in Int /\ Start <= t
  BY TimesAssumption, WindowAssumption
<1>3. CASE page = <<>>
  <2>1. TimesIn(page) = {} /\ Len(page) # PageLimit
    BY <1>3, BoundsAssumption DEF TimesIn
  <2>2. LastPage(page) /\ ~NoProgress(page)
    BY <1>3 DEF LastPage, NoProgress
  <2> QED BY <1>1, <2>1, <2>2
<1>4. CASE page # <<>>
  <2> DEFINE oldest == OldestOf(page)
  <2>1. oldest \in Int /\ oldest \in TimesIn(page) /\ \A t \in TimesIn(page) : oldest <= t
    BY <1>4, OldestFacts
  <2>2. oldest < cursor
    BY <1>1, <2>1
  <2>3. ~NoProgress(page)
    BY <1>4, <2>1, <2>2 DEF NoProgress
  <2>4. ASSUME LastPage(page), NEW t \in world, t < cursor PROVE t \in TimesIn(page)
    <3>1. SUFFICES ASSUME t \notin TimesIn(page) PROVE FALSE
      OBVIOUS
    <3>2. Len(page) = PageLimit /\ t < oldest
      BY <1>1, <2>1, <2>4, <3>1
    <3>3. oldest <= Start
      BY <1>4, <2>4, <3>2, BoundsAssumption DEF LastPage, ReachedStart
    <3> QED BY <1>2, <2>1, <3>2, <3>3, WindowAssumption
  <2>5. ASSUME NEW t \in world
        PROVE  oldest <= t <=> cursor <= t \/ t \in TimesIn(page)
    <3>1. t \in Int
      BY <1>2
    <3>2. cursor <= t => oldest <= t
      BY <2>1, <2>2, <3>1
    <3>3. t \in TimesIn(page) => oldest <= t
      BY <2>1
    <3>4. ASSUME oldest <= t, ~(cursor <= t), t \notin TimesIn(page) PROVE FALSE
      <4>1. t < cursor
        BY <3>1, <3>4
      <4>2. t < oldest
        BY <1>1, <2>1, <3>4, <4>1
      <4> QED BY <2>1, <3>1, <3>4, <4>2
    <3> QED BY <3>2, <3>3, <3>4
  <2>6. {t \in world : cursor <= t} \cup TimesIn(page) = {t \in world : oldest <= t}
    <3>1. TimesIn(page) \subseteq world
      BY <1>1
    <3> HIDE DEF oldest
    <3> QED BY <2>5, <3>1
  <2>7. TimesIn(page) \subseteq world
    BY <1>1
  <2> QED BY <2>3, <2>4, <2>6, <2>7
<1> QED BY <1>3, <1>4

LEMMA BitgetKinds ==
  /\ Pending.kind = "pending"
  /\ \A ps : History(ps).kind = "history" /\ History(ps) # Pending
  /\ \A ps, code : /\ PaginationFailure(ps, code).kind = "pagination_error"
                   /\ PaginationFailure(ps, code).code = code
                   /\ PaginationFailure(ps, code) # Pending
<1>1. Pending.kind = "pending"
  BY DEF Pending
<1>2. \A ps : History(ps).kind = "history"
  BY Reported
<1>3. \A ps, code : /\ PaginationFailure(ps, code).kind = "pagination_error"
                    /\ PaginationFailure(ps, code).code = code
  BY Zenon DEF PaginationFailure
<1> QED BY <1>1, <1>2, <1>3

LEMMA TimesReadIs == TimesRead = TimesOf(pages)
  BY DEF TimesRead, TimesOf

LEMMA TimesReadNext == TimesRead' = TimesOf(pages')
  BY DEF TimesRead, TimesOf, Places, RowAt

LEMMA HistoryNext ==
  ASSUME sessions' = sessions
  PROVE  History(pages)' = History(pages')
  BY Zenon DEF History, Quality, ProviderOrder

LEMMA BitgetInitHolds == BitgetInit => BitgetInv
<1> SUFFICES ASSUME BitgetInit PROVE BitgetInv
  OBVIOUS
<1>1. /\ pages = <<>> /\ cursor = End /\ outcome = Pending /\ world \in Worlds
  BY DEF BitgetInit
<1>2. TimesRead = {}
  BY <1>1, TimesReadIs, NoPages
<1>3. {t \in world : cursor <= t} = {}
  BY <1>1, TimesAssumption, WindowAssumption
<1>4. outcome.kind = "pending"
  BY <1>1, BitgetKinds
<1>5. HonestSoFar
  BY <1>2, <1>3, <1>4 DEF HonestSoFar
<1> QED BY <1>1, <1>4, <1>5, WindowAssumption DEF BitgetInv

(* A step that only retries, or ends the call with an error.               *)
LEMMA BitgetEndsKeeps ==
  ASSUME BitgetInv, UNCHANGED <<sessions, world, honest, pages, cursor>>,
         outcome' = outcome \/ (outcome'.kind \in {"provider_error", "pagination_error"}
                                /\ outcome' # Pending),
         outcome' # outcome /\ outcome'.kind = "pagination_error" =>
           outcome'.code = "MAX_PAGES_EXCEEDED"
  PROVE  BitgetInv'
<1>1. TimesRead' = TimesRead
  BY TimesReadIs, TimesReadNext
<1>2. History(pages)' = History(pages)
  <2>1. History(pages)' = History(pages')
    BY HistoryNext
  <2> QED BY <2>1
<1>3. CASE outcome' = outcome
  <2>1. HonestSoFar' = HonestSoFar
    BY <1>1, <1>3 DEF HonestSoFar
  <2> QED BY <1>2, <1>3, <2>1 DEF BitgetInv
<1>4. CASE outcome' # outcome
  <2>1. HonestSoFar'
    BY <1>4 DEF HonestSoFar
  <2> QED BY <1>4, <2>1 DEF BitgetInv
<1> QED BY <1>3, <1>4

LEMMA ReceivePageKeeps ==
  ASSUME BitgetInv, NEW page \in Page, ReceivePage(page)
  PROVE  BitgetInv'
<1>1. /\ outcome = Pending /\ pages' = Append(pages, page) /\ world' = world
      /\ sessions' = sessions /\ honest' = (honest /\ HonestReply(page, cursor))
  BY DEF ReceivePage, Asking
<1>2. outcome' = IF NoProgress(page) THEN PaginationFailure(pages', "PAGINATION_NO_PROGRESS")
                 ELSE IF LastPage(page) THEN History(pages') ELSE Pending
  BY DEF ReceivePage
<1>3. cursor' = IF outcome'.kind = "pending" THEN OldestOf(page) ELSE cursor
  BY DEF ReceivePage
<1>4. pages \in Seq(Page) /\ world \in Worlds /\ cursor \in Int /\ cursor <= End
  BY DEF BitgetInv
<1>5. pages' \in Seq(Page) /\ TimesRead' = TimesRead \cup TimesIn(page)
  BY <1>1, <1>4, PageAdded, TimesReadIs, TimesReadNext
<1>6. History(pages)' = History(pages')
  BY <1>1, HistoryNext
<1>7. page # <<>> => OldestOf(page) \in Int
  BY OldestFacts
<1>8. HonestReply(page, cursor) =>
        /\ TimesIn(page) \subseteq world
        /\ ~NoProgress(page)
        /\ LastPage(page) => \A t \in world : t < cursor => t \in TimesIn(page)
        /\ ~LastPage(page) =>
             {t \in world : cursor <= t} \cup TimesIn(page) = {t \in world : OldestOf(page) <= t}
  BY <1>4, HonestPage
<1>9. honest' => honest /\ HonestReply(page, cursor) /\ TimesRead = {t \in world : cursor <= t}
  BY <1>1 DEF BitgetInv, HonestSoFar
<1>10. CASE NoProgress(page)
  <2>1. outcome' = PaginationFailure(pages', "PAGINATION_NO_PROGRESS")
    BY <1>2, <1>10
  <2>2. outcome'.kind = "pagination_error"
    BY <2>1, BitgetKinds
  <2>3. cursor' = cursor /\ ~honest'
    BY <1>3, <1>8, <1>9, <1>10, <2>2
  <2> QED BY <1>1, <1>4, <1>5, <2>2, <2>3 DEF BitgetInv
<1>11. CASE ~NoProgress(page) /\ LastPage(page)
  <2>1. outcome' = History(pages')
    BY <1>2, <1>11
  <2>2. outcome'.kind = "history" /\ outcome' # Pending
    BY <2>1, BitgetKinds
  <2>3. cursor' = cursor
    BY <1>3, <2>2
  <2>4. ASSUME honest' PROVE TimesRead' = world'
    <3>1. \A t \in world : t \in Int
      BY <1>4, TimesAssumption, WindowAssumption
    <3>2. \A t \in world : cursor <= t \/ t < cursor
      BY <1>4, <3>1
    <3>3. \A t \in world : t < cursor => t \in TimesIn(page)
      BY <1>8, <1>9, <1>11, <2>4
    <3> QED BY <1>1, <1>5, <1>8, <1>9, <2>4, <3>2, <3>3
  <2>5. honest' => HonestSoFar'
    BY <2>2, <2>4 DEF HonestSoFar
  <2> QED BY <1>1, <1>4, <1>5, <1>6, <2>1, <2>2, <2>3, <2>5 DEF BitgetInv
<1>12. CASE ~NoProgress(page) /\ ~LastPage(page)
  <2>1. outcome' = Pending
    BY <1>2, <1>12
  <2>2. outcome'.kind = "pending"
    BY <2>1, BitgetKinds
  <2>3. page # <<>> /\ cursor' = OldestOf(page)
    BY <1>3, <1>12, <2>2 DEF LastPage
  <2>4. cursor' \in Int /\ cursor' <= End
    <3>1. OldestOf(page) \in Int /\ ~(OldestOf(page) >= cursor)
      BY <1>7, <1>12, <2>3 DEF NoProgress
    <3> QED BY <1>4, <2>3, <3>1, WindowAssumption
  <2>5. honest' => TimesRead' = {t \in world' : cursor' <= t}
    BY <1>1, <1>5, <1>8, <1>9, <1>12, <2>3
  <2>6. honest' => HonestSoFar'
    BY <2>2, <2>5 DEF HonestSoFar
  <2> QED BY <1>1, <1>4, <1>5, <2>1, <2>2, <2>4, <2>6 DEF BitgetInv
<1> QED BY <1>10, <1>11, <1>12

LEMMA BitgetStepKeeps == BitgetInv /\ [BitgetNext]_bitgetVars => BitgetInv'
<1> SUFFICES ASSUME BitgetInv, [BitgetNext]_bitgetVars PROVE BitgetInv'
  OBVIOUS
<1>1. CASE RetryRequest \/ SendAgain
  BY <1>1, BitgetEndsKeeps DEF RetryRequest, SendAgain
<1>2. CASE RequestFails
  <2>1. outcome'.kind = "provider_error" /\ outcome' # Pending
    BY <1>2 DEF RequestFails, Pending
  <2> QED BY <1>2, <2>1, BitgetEndsKeeps DEF RequestFails
<1>3. ASSUME NEW page \in Page, ReceivePage(page) PROVE BitgetInv'
  BY <1>3, ReceivePageKeeps
<1>4. CASE MaxPagesExceeded
  <2>1. outcome' = PaginationFailure(pages, "MAX_PAGES_EXCEEDED")
    BY <1>4 DEF MaxPagesExceeded
  <2>2. outcome'.kind = "pagination_error" /\ outcome' # Pending
        /\ outcome'.code = "MAX_PAGES_EXCEEDED"
    BY <2>1, BitgetKinds
  <2> QED BY <1>4, <2>2, BitgetEndsKeeps DEF MaxPagesExceeded
<1>5. CASE UNCHANGED bitgetVars
  BY <1>5, BitgetEndsKeeps DEF bitgetVars
<1> QED BY <1>1, <1>2, <1>3, <1>4, <1>5 DEF BitgetNext

(* The page loop: a report is of the pages read, and while the provider is  *)
(* correct what was read is what the market has at or after the cursor      *)
(* (history.py:92-144).                                                     *)
THEOREM BitgetInductive == BitgetSpec => []BitgetInv
<1> QED BY BitgetInitHolds, BitgetStepKeeps, PTL DEF BitgetSpec

(* Against a provider whose every page is the newest part of the market     *)
(* before the cursor, a history has a bar for exactly the times of the      *)
(* market, and only the page limit can end it otherwise (history.py:125-144). *)
THEOREM HonestIsComplete == BitgetSpec => []HonestFetchComplete
<1>1. BitgetInv => HonestFetchComplete
  <2> SUFFICES ASSUME BitgetInv, honest PROVE HonestFetchComplete
    BY DEF HonestFetchComplete
  <2>1. HonestSoFar /\ pages \in Seq(Page) /\ world \in Worlds
    BY DEF BitgetInv
  <2>2. outcome.kind = "pagination_error" => outcome.code = "MAX_PAGES_EXCEEDED"
    BY <2>1 DEF HonestSoFar
  <2>3. CASE outcome.kind = "history"
    <3>1. outcome = History(pages) /\ TimesOf(pages) = world
      BY <2>1, <2>3, TimesReadIs DEF BitgetInv, HonestSoFar
    <3>2. world \subseteq Start .. End - 1
      BY <2>1, TimesAssumption
    <3>3. outcome.quality.accepted = InOrder(InRange(FirstRows(pages)))
      BY <3>1, Reported
    <3>4. {outcome.quality.accepted[i].t : i \in DOMAIN outcome.quality.accepted} = world
      BY <2>1, <3>1, <3>2, <3>3, AcceptedTimes DEF TimesOf
    <3> QED BY <2>2, <3>4 DEF HonestFetchComplete
  <2> QED BY <2>2, <2>3 DEF HonestFetchComplete
<1> QED BY <1>1, BitgetInductive, PTL

LEMMA AnswerSoundNext ==
  BitgetInv' /\ BitgetAnswer'.kind = "history" =>
    BitgetSource!Sound(BitgetAnswer'.bars, BitgetServed')
<1>1. BitgetInv /\ BitgetAnswer.kind = "history" =>
        BitgetSource!Sound(BitgetAnswer.bars, BitgetServed)
  BY AnswerIsSound
<1>2. (BitgetInv /\ BitgetAnswer.kind = "history" =>
         BitgetSource!Sound(BitgetAnswer.bars, BitgetServed))'
  BY <1>1, PTL
<1> QED BY <1>2

LEMMA BitgetReplies ==
  ASSUME BitgetInv', outcome = Pending, BitgetServed \subseteq BitgetServed'
  PROVE  BitgetSource!Reply
<1>1. BitgetAnswer.kind = "waiting"
  BY DEF BitgetAnswer
<1>2. BitgetAnswer'.kind \in {"waiting", "failed", "history"}
  BY DEF BitgetAnswer
<1>3. BitgetAnswer'.kind = "history" =>
        BitgetSource!Sound(BitgetAnswer'.bars, BitgetServed')
  BY AnswerSoundNext
<1> QED BY <1>1, <1>2, <1>3 DEF BitgetSource!Reply

(* A Bitget history implements the source of a history: unless its report   *)
(* says FAIL it has every row of the window that any page served, in order  *)
(* and one per time (history.py:146-177, quality.py:85-110).                *)
THEOREM BitgetRefines == BitgetSpec => BitgetImplementsSource
<1>1. BitgetInit => BitgetSource!SourceInit
  <2> SUFFICES ASSUME BitgetInit PROVE BitgetSource!SourceInit
    OBVIOUS
  <2>1. pages = <<>> /\ outcome = Pending
    BY DEF BitgetInit
  <2>2. BitgetServed = {}
    BY <2>1, NoPages DEF BitgetServed, RowsRead
  <2>3. BitgetAnswer = [kind |-> "waiting", bars |-> <<>>]
    BY <2>1 DEF BitgetAnswer
  <2> QED BY <2>2, <2>3 DEF BitgetSource!SourceInit
<1>2. BitgetInv /\ BitgetInv' /\ [BitgetNext]_bitgetVars
        => [BitgetSource!Reply]_<<<<Start, End>>, BitgetServed, BitgetAnswer>>
  <2> SUFFICES ASSUME BitgetInv, BitgetInv', [BitgetNext]_bitgetVars
      PROVE  BitgetSource!Reply \/ UNCHANGED <<<<Start, End>>, BitgetServed, BitgetAnswer>>
    OBVIOUS
  <2>1. pages' = pages => BitgetServed' = BitgetServed
    BY DEF BitgetServed, Places, RowAt
  <2>2. CASE RetryRequest \/ SendAgain
    <3>1. BitgetServed' = BitgetServed /\ outcome' = outcome
      BY <2>1, <2>2 DEF RetryRequest, SendAgain
    <3>2. BitgetAnswer' = BitgetAnswer
      BY <3>1 DEF BitgetAnswer
    <3> QED BY <3>1, <3>2
  <2>3. CASE RequestFails
    BY <2>1, <2>3, BitgetReplies DEF RequestFails, Asking
  <2>4. ASSUME NEW page \in Page, ReceivePage(page) PROVE BitgetSource!Reply
    <3>1. pages \in Seq(Page) /\ pages' = Append(pages, page) /\ outcome = Pending
      BY <2>4 DEF BitgetInv, ReceivePage, Asking
    <3>2. RowsRead(pages) \subseteq RowsRead(pages')
      BY <3>1, PageAdded
    <3>3. BitgetServed = RowsRead(pages) /\ BitgetServed' = RowsRead(pages')
      BY DEF BitgetServed, RowsRead, Places, RowAt
    <3> QED BY <3>1, <3>2, <3>3, BitgetReplies
  <2>5. CASE MaxPagesExceeded
    BY <2>1, <2>5, BitgetReplies DEF MaxPagesExceeded
  <2>6. CASE UNCHANGED bitgetVars
    <3>1. BitgetServed' = BitgetServed /\ outcome' = outcome
      BY <2>1, <2>6 DEF bitgetVars
    <3>2. BitgetAnswer' = BitgetAnswer
      BY <3>1 DEF BitgetAnswer
    <3> QED BY <3>1, <3>2
  <2> QED BY <2>2, <2>3, <2>4, <2>5, <2>6 DEF BitgetNext
<1> QED BY <1>1, <1>2, BitgetInductive, PTL
    DEF BitgetSpec, BitgetImplementsSource, BitgetSource!SourceSpec
================================================================================
