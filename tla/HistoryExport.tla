---------------------------- MODULE HistoryExport ----------------------------
(* export_history and _publish_jsonl: two exports of the same output path, by  *)
(* processes that may die, each of one page of rows.                           *)
EXTENDS Integers, Sequences, FiniteSets, SequencesExt

CONSTANTS Exporters,    \* the processes
          ExportTimes,  \* event times a row may carry
          ExportStart, ExportEnd,  \* the requested window
          ExportLimit   \* --limit: rows asked for in the one request

ASSUME ExportAssumption == ExportTimes \subseteq Int

VARIABLES overwrite,    \* per process: --overwrite
          stage,        \* per process: where export_history is
          chosen,       \* per process: the rows it will publish
          temporary,    \* per process: its temporary file, or NoFile
          output        \* the file at the output path, or NoFile

exportVars == <<overwrite, stage, chosen, temporary, output>>

NoFile == [by |-> "nobody", lines |-> <<>>]
ExportWindow == {t \in ExportTimes : ExportStart <= t /\ t < ExportEnd}
Replies == UNION {[1 .. n -> ExportTimes] : n \in 0 .. ExportLimit}

ExportInit == /\ overwrite \in [Exporters -> BOOLEAN]
              /\ stage = [e \in Exporters |-> "fetch"]
              /\ chosen = [e \in Exporters |-> <<>>]
              /\ temporary = [e \in Exporters |-> NoFile]
              /\ output = NoFile

(* sorted(): the rows of the window in an order of their times.                *)
SortedRows(reply) ==
  LET kept == {i \in DOMAIN reply : reply[i] \in ExportWindow}
      orders == {order \in [1 .. Cardinality(kept) -> kept] :
                   \A i, j \in DOMAIN order : i < j => /\ order[i] # order[j]
                                                      /\ reply[order[i]] <= reply[order[j]]}
  IN {[i \in DOMAIN order |-> reply[order[i]]] : order \in orders}

Distinct(s) == \A i, j \in DOMAIN s : s[i] = s[j] => i = j

(* The provider refuses, or the result does not pass the checks.               *)
ExportFails(e) == /\ stage[e] = "fetch"
                  /\ stage' = [stage EXCEPT ![e] = "failed"]
                  /\ UNCHANGED <<overwrite, chosen, temporary, output>>

(* Without a row of the window, or with two of a time, the export ends.        *)
FetchExport(e, reply) ==
  /\ stage[e] = "fetch"
  /\ \E rows \in SortedRows(reply) : /\ rows # <<>> /\ Distinct(rows)
                                     /\ chosen' = [chosen EXCEPT ![e] = rows]
  /\ stage' = [stage EXCEPT ![e] = "publish"]
  /\ UNCHANGED <<overwrite, temporary, output>>

(* path.exists() is read before the temporary file is written and replaced.    *)
CheckOutput(e) ==
  /\ stage[e] = "publish"
  /\ stage' = [stage EXCEPT ![e] = IF output # NoFile /\ ~overwrite[e] THEN "failed" ELSE "write"]
  /\ UNCHANGED <<overwrite, chosen, temporary, output>>

(* One line of the temporary file, with the name of its own process.           *)
WriteLine(e) ==
  LET lines == temporary[e].lines
  IN /\ stage[e] = "write"
     /\ Len(lines) < Len(chosen[e])
     /\ temporary' = [temporary EXCEPT ![e] =
                        [by |-> e, lines |-> Append(lines, chosen[e][Len(lines) + 1])]]
     /\ UNCHANGED <<overwrite, stage, chosen, output>>

(* Mutant: the file is published with the first line.                          *)
WrittenOutEarly(e) == temporary[e] # NoFile

WrittenOut(e) == temporary[e] # NoFile /\ Len(temporary[e].lines) = Len(chosen[e])

Publish(e) == /\ stage[e] = "write"
              /\ WrittenOut(e)
              /\ output' = temporary[e]
              /\ temporary' = [temporary EXCEPT ![e] = NoFile]
              /\ stage' = [stage EXCEPT ![e] = "published"]
              /\ UNCHANGED <<overwrite, chosen>>

(* An error of the file system: the temporary file is removed.                 *)
WriteFails(e) == /\ stage[e] = "write"
                 /\ stage' = [stage EXCEPT ![e] = "failed"]
                 /\ temporary' = [temporary EXCEPT ![e] = NoFile]
                 /\ UNCHANGED <<overwrite, chosen, output>>

(* The process dies: its temporary file stays.                                 *)
ExporterDies(e) == /\ stage[e] \in {"fetch", "publish", "write"}
                   /\ stage' = [stage EXCEPT ![e] = "dead"]
                   /\ UNCHANGED <<overwrite, chosen, temporary, output>>

ExportNext == \E e \in Exporters :
                \/ ExportFails(e)
                \/ \E reply \in Replies : FetchExport(e, reply)
                \/ CheckOutput(e)
                \/ WriteLine(e)
                \/ Publish(e)
                \/ WriteFails(e)
                \/ ExporterDies(e)

ExportSpec == ExportInit /\ [][ExportNext]_exportVars

(* WHOLE ARTIFACT: whatever two exports and a death between two lines leave at *)
(* the output path, it is one export's rows, all of them, in order, in the     *)
(* window and one per time (export.py:52, 108-134).                            *)
ArtifactWhole ==
  output # NoFile =>
    /\ output.lines = chosen[output.by]
    /\ \A i, j \in DOMAIN output.lines : i < j => output.lines[i] < output.lines[j]
    /\ Range(output.lines) \subseteq ExportWindow

(***************************************************************************)
(* What the proof of it rests on.                                          *)
(***************************************************************************)
(* The rows of a process are fixed before it writes, its temporary file is the *)
(* first of them, and the file at the path is all of one that has published.   *)
ExportInv ==
  /\ stage \in [Exporters -> {"fetch", "publish", "write", "published", "failed", "dead"}]
  /\ chosen \in [Exporters -> Seq(ExportWindow)]
  /\ DOMAIN temporary = Exporters
  /\ \A e \in Exporters :
       /\ \A i, j \in DOMAIN chosen[e] : i < j => chosen[e][i] < chosen[e][j]
       /\ temporary[e] # NoFile =>
            /\ temporary[e].by = e
            /\ stage[e] # "fetch"
            /\ Len(temporary[e].lines) <= Len(chosen[e])
            /\ temporary[e].lines \in Seq(ExportWindow)
            /\ \A i \in DOMAIN temporary[e].lines : temporary[e].lines[i] = chosen[e][i]
  /\ output # NoFile => /\ output.by \in Exporters
                        /\ stage[output.by] = "published"
                        /\ output.lines = chosen[output.by]
==============================================================================
