-------------------------- MODULE DatasetCollection --------------------------
(* collect: one process gathers the archives of a directory with a thread for  *)
(* the Reality histories and a pool of native workers.  Files survive a death  *)
(* of the process, threads do not; a file is written as <name>.pending and     *)
(* then renamed, and the pending name must be new.                             *)
EXTENDS Integers, Sequences, FiniteSets

CONSTANTS Order,          \* cohort.members: the symbols in their order
          Workers,        \* native workers at a time
          MaxDirs,        \* bound: archive directories, named by the time they are made
          NativeData,     \* what a native archive may hold, "failure" for failed legs
          RealityData,    \* what a Reality archive may hold, "fail" for a failed quality
          MaxRuns         \* bound: commands that are started

(* A sequence of symbols, none of which is named like another thread.          *)
ASSUME OrderAssumption == Order \in Seq({Order[i] : i \in DOMAIN Order})
ASSUME ThreadAssumption == {"main", "reality"} \cap {Order[i] : i \in DOMAIN Order} = {}

Dirs == 1 .. MaxDirs
NoDir == 0

VARIABLES files,          \* per directory, what each name holds, or Absent
          pending,        \* <<directory, name>> of the .pending files there are
          runs,           \* commands started so far
          dir,            \* the directory of the running command
          mainAt,         \* where the main thread is
          nativeAt,       \* where the worker of each member is
          realityAt,      \* where the Reality thread is
          realityNext,    \* the member it is at
          fetched,        \* what each thread has fetched and not yet stored
          opened          \* the threads that have their .pending file open

threadVars == <<mainAt, nativeAt, realityAt, realityNext, fetched, opened>>
collectVars == <<files, pending, runs, dir, threadVars>>

Members == {Order[i] : i \in DOMAIN Order}
Native(m) == <<"native", m>>
Reality(m) == <<"reality", m>>
Checkpoint(m) == <<"checkpoint", m>>
Mapping == <<"mapping", "all">>
Telemetry == <<"telemetry", "all">>
Collection == <<"collection", "all">>
Archives == {Native(m) : m \in Members} \cup {Reality(m) : m \in Members}
Names == Archives \cup {Checkpoint(m) : m \in Members} \cup {Mapping, Telemetry, Collection}

Absent == [by |-> 0, data |-> "absent"]
Content(data) == [by |-> runs, data |-> data]
There(d, f) == files[d][f] # Absent

(* The files of an archive directory that collect takes for a whole one.       *)
Complete(d) == There(d, Collection) /\ \A f \in Archives : There(d, f)

AtRest == /\ nativeAt = [m \in Members |-> "none"]
          /\ realityAt = "none"
          /\ realityNext = 1
          /\ fetched = [th \in Members \cup {"main", "reality"} |-> "nothing"]
          /\ opened = {}

CollectInit == /\ files = [d \in Dirs |-> [f \in Names |-> Absent]]
               /\ pending = {}
               /\ runs = 0
               /\ dir = NoDir
               /\ mainAt = "off"
               /\ AtRest

(***************************************************************************)
(* write_json: O_CREAT | O_EXCL of the pending name, then a rename.        *)
(***************************************************************************)
Open(th, f) == /\ th \notin opened
               /\ <<dir, f>> \notin pending
               /\ pending' = pending \cup {<<dir, f>>}
               /\ opened' = opened \cup {th}
               /\ UNCHANGED <<files, runs, dir, mainAt, nativeAt, realityAt, realityNext, fetched>>

Blocked(th, f) == th \notin opened /\ <<dir, f>> \in pending

Rename(th, f, data) == /\ th \in opened
                       /\ pending' = pending \ {<<dir, f>>}
                       /\ opened' = opened \ {th}
                       /\ files' = [files EXCEPT ![dir][f] = Content(data)]

(***************************************************************************)
(* The main thread: the early return, the mapping, the pool.               *)
(***************************************************************************)
Starting == mainAt = "off" /\ runs < MaxRuns

Untouched(d) == (\A f \in Names : ~There(d, f)) /\ \A p \in pending : p[1] # d

(* The directory is one of an earlier command, or a new one.                   *)
Collect(d) == /\ Starting
              /\ \A older \in Dirs : older < d => ~Untouched(older)
              /\ dir' = d
              /\ runs' = runs + 1
              /\ mainAt' = IF Complete(d) THEN "archived" ELSE "verify"
              /\ UNCHANGED <<files, pending, nativeAt, realityAt, realityNext, fetched, opened>>

MainGoes(to) == /\ mainAt' = to
                /\ UNCHANGED <<files, pending, runs, dir, nativeAt, realityAt, realityNext,
                               fetched, opened>>

(* reverify_native_cohort: the live mapping is the cohort's, or the run fails. *)
Reverify == mainAt = "verify" /\ (MainGoes("mapping") \/ MainGoes("failed"))

MainOpens == \/ mainAt = "mapping" /\ Open("main", Mapping)
             \/ mainAt = "sealing" /\ Open("main", Collection)

MainBlocked == \/ mainAt = "mapping" /\ Blocked("main", Mapping) /\ MainGoes("file exists")
               \/ mainAt = "sealing" /\ Blocked("main", Collection) /\ MainGoes("file exists")

(* The first workers are submitted with the Reality thread.                    *)
MappingWritten ==
  /\ mainAt = "mapping"
  /\ Rename("main", Mapping, "mapping")
  /\ mainAt' = "pool"
  /\ nativeAt' = [m \in Members |->
                   IF \E i \in 1 .. Workers : i \in DOMAIN Order /\ Order[i] = m
                   THEN "begin" ELSE "none"]
  /\ realityAt' = "begin"
  /\ UNCHANGED <<runs, dir, realityNext, fetched>>

Unsubmitted == {i \in DOMAIN Order : nativeAt[Order[i]] = "none"}

(* job.result() of a finished worker: the next member is submitted.            *)
Reap(m) ==
  /\ mainAt = "pool" /\ nativeAt[m] = "done"
  /\ nativeAt' = IF Unsubmitted = {} THEN [nativeAt EXCEPT ![m] = "reaped"]
                 ELSE LET next == CHOOSE i \in Unsubmitted : \A j \in Unsubmitted : i <= j
                      IN [nativeAt EXCEPT ![m] = "reaped", ![Order[next]] = "begin"]
  /\ UNCHANGED <<files, pending, runs, dir, mainAt, realityAt, realityNext, fetched, opened>>

(* job.result() of a failed one: no more are submitted, the pool is awaited.   *)
ReapFailure(m) == mainAt = "pool" /\ nativeAt[m] \in {"failed", "file exists"}
                  /\ MainGoes("draining")

Busy == \/ \E m \in Members : nativeAt[m] \in {"begin", "checkpoint", "archive"}
        \/ realityAt \in {"begin", "archive", "telemetry"}

BlockedThread == realityAt = "file exists" \/ \E m \in Members : nativeAt[m] = "file exists"

Drained == /\ mainAt = "draining"
           /\ ~Busy
           /\ MainGoes(IF BlockedThread THEN "file exists" ELSE "failed")

(* Mutant: a failed Reality job is awaited like a running one.                 *)
PoolDoneSucceeded == /\ mainAt = "pool"
                     /\ \A m \in Members : nativeAt[m] = "reaped"
                     /\ realityAt = "done"
                     /\ MainGoes("sealing")

(* All native jobs reaped: the Reality job is awaited last.                    *)
PoolDone == /\ mainAt = "pool"
            /\ \A m \in Members : nativeAt[m] = "reaped"
            /\ \/ realityAt = "done" /\ MainGoes("sealing")
               \/ realityAt = "failed" /\ MainGoes("failed")
               \/ realityAt = "file exists" /\ MainGoes("file exists")

CollectionWritten == /\ mainAt = "sealing"
                     /\ Rename("main", Collection, "finished")
                     /\ mainAt' = "archived"
                     /\ UNCHANGED <<runs, dir, nativeAt, realityAt, realityNext, fetched>>

(***************************************************************************)
(* The workers.                                                            *)
(***************************************************************************)
NativeGoes(m, to) == /\ nativeAt' = [nativeAt EXCEPT ![m] = to]
                     /\ UNCHANGED <<runs, dir, mainAt, realityAt, realityNext>>

(* Mutant: a member is fetched again.                                          *)
NativeBeginsAnew(m) ==
  /\ nativeAt[m] = "begin"
  /\ \E data \in NativeData : /\ NativeGoes(m, "checkpoint")
                              /\ fetched' = [fetched EXCEPT ![m] = data]
                              /\ UNCHANGED <<files, pending, opened>>

(* A member whose archive exists is skipped; otherwise the legs of a session   *)
(* are fetched, errors of the provider become statuses of the row.             *)
NativeBegins(m) ==
  /\ nativeAt[m] = "begin"
  /\ IF There(dir, Native(m))
     THEN NativeGoes(m, "done") /\ UNCHANGED <<files, pending, fetched, opened>>
     ELSE \E data \in NativeData : /\ NativeGoes(m, "checkpoint")
                                   /\ fetched' = [fetched EXCEPT ![m] = data]
                                   /\ UNCHANGED <<files, pending, opened>>

NativeOpens(m) == \/ nativeAt[m] = "checkpoint" /\ Open(m, Checkpoint(m))
                  \/ nativeAt[m] = "archive" /\ Open(m, Native(m))

NativeBlocked(m) == /\ \/ nativeAt[m] = "checkpoint" /\ Blocked(m, Checkpoint(m))
                       \/ nativeAt[m] = "archive" /\ Blocked(m, Native(m))
                    /\ NativeGoes(m, "file exists")
                    /\ UNCHANGED <<files, pending, fetched, opened>>

NativeWrites(m) == \/ /\ nativeAt[m] = "checkpoint"
                      /\ Rename(m, Checkpoint(m), fetched[m])
                      /\ NativeGoes(m, "archive")
                      /\ UNCHANGED fetched
                   \/ /\ nativeAt[m] = "archive"
                      /\ Rename(m, Native(m), fetched[m])
                      /\ NativeGoes(m, "done")
                      /\ fetched' = [fetched EXCEPT ![m] = "nothing"]

RealityGoes(to, next) == /\ realityAt' = to
                         /\ realityNext' = next
                         /\ UNCHANGED <<runs, dir, mainAt, nativeAt>>

Current == Order[realityNext]

(* The next member without an archive is fetched; a pagination or provider     *)
(* error ends the thread, a result of failed quality is archived like another. *)
RealityBegins ==
  /\ realityAt = "begin"
  /\ UNCHANGED <<files, pending, opened>>
  /\ \/ /\ realityNext > Len(Order)
        /\ RealityGoes("telemetry", realityNext)
        /\ UNCHANGED fetched
     \/ /\ realityNext <= Len(Order) /\ There(dir, Reality(Current))
        /\ RealityGoes("begin", realityNext + 1)
        /\ UNCHANGED fetched
     \/ /\ realityNext <= Len(Order) /\ ~There(dir, Reality(Current))
        /\ \/ RealityGoes("failed", realityNext) /\ UNCHANGED fetched
           \/ \E data \in RealityData : /\ RealityGoes("archive", realityNext)
                                        /\ fetched' = [fetched EXCEPT !["reality"] = data]

RealityOpens == \/ realityAt = "archive" /\ Open("reality", Reality(Current))
                \/ realityAt = "telemetry" /\ Open("reality", Telemetry)

RealityBlocked == /\ \/ realityAt = "archive" /\ Blocked("reality", Reality(Current))
                     \/ realityAt = "telemetry" /\ Blocked("reality", Telemetry)
                  /\ RealityGoes("file exists", realityNext)
                  /\ UNCHANGED <<files, pending, fetched, opened>>

RealityWrites == \/ /\ realityAt = "archive"
                    /\ Rename("reality", Reality(Current), fetched["reality"])
                    /\ RealityGoes("begin", realityNext + 1)
                    /\ fetched' = [fetched EXCEPT !["reality"] = "nothing"]
                 \/ /\ realityAt = "telemetry"
                    /\ Rename("reality", Telemetry, "telemetry")
                    /\ RealityGoes("done", realityNext)
                    /\ UNCHANGED fetched

CollectStep == \/ Reverify \/ MainOpens \/ MainBlocked \/ MappingWritten
               \/ PoolDone \/ Drained \/ CollectionWritten
               \/ RealityBegins \/ RealityOpens \/ RealityBlocked \/ RealityWrites
               \/ \E m \in Members : \/ Reap(m) \/ ReapFailure(m)
                                     \/ NativeBegins(m) \/ NativeOpens(m)
                                     \/ NativeBlocked(m) \/ NativeWrites(m)

(* The process ends or dies: its threads are gone, its files are not.          *)
ThreadsGone == /\ mainAt' = "off"
               /\ nativeAt' = [m \in Members |-> "none"]
               /\ realityAt' = "none"
               /\ realityNext' = 1
               /\ fetched' = [th \in Members \cup {"main", "reality"} |-> "nothing"]
               /\ opened' = {}
               /\ dir' = NoDir
               /\ UNCHANGED <<files, pending, runs>>

(***************************************************************************)
(* What the proofs of DatasetBuild's properties rest on.                   *)
(***************************************************************************)
Data == NativeData \cup RealityData \cup {"absent", "mapping", "telemetry", "finished", "nothing"}
Gathering == {"verify", "mapping", "pool", "draining", "sealing"}

CollectTypeOK ==
  /\ files \in [Dirs -> [Names -> [by : Nat, data : Data]]]
  /\ runs \in Nat
  /\ mainAt # "off" => dir \in Dirs /\ runs > 0
  /\ nativeAt \in [Members -> {"none", "begin", "checkpoint", "archive", "done", "reaped",
                               "file exists"}]
  /\ realityAt \in {"none", "begin", "archive", "telemetry", "done", "failed", "file exists"}
  /\ realityNext \in Nat \ {0}
  /\ fetched \in [Members \cup {"main", "reality"} -> Data]

(* A worker and the Reality thread work only while the main thread awaits      *)
(* them; what a thread has passed is archived, what it is about to write is    *)
(* not.                                                                        *)
ThreadsInv ==
  /\ mainAt = "off" => \A m \in Members : nativeAt[m] = "none"
  /\ mainAt \in {"off", "verify", "mapping"} => realityAt = "none" /\ realityNext = 1
  /\ Busy => mainAt \in {"pool", "draining"}
  /\ \A m \in Members :
       /\ nativeAt[m] \in {"checkpoint", "archive"} => ~There(dir, Native(m))
       /\ nativeAt[m] \in {"done", "reaped"} => There(dir, Native(m))
  /\ realityAt = "archive" => /\ realityNext <= Len(Order)
                              /\ ~There(dir, Reality(Current))
                              /\ fetched["reality"] \in RealityData
  /\ realityAt \in {"begin", "archive", "telemetry", "done"} =>
       \A i \in DOMAIN Order : i < realityNext => There(dir, Reality(Order[i]))
  /\ realityAt \in {"telemetry", "done"} => realityNext > Len(Order)

(* The collection file is written last, and its directory not any more.        *)
SealedInv ==
  /\ \A d \in Dirs : There(d, Collection) => Complete(d)
  /\ \A d \in Dirs, m \in Members :
       There(d, Reality(m)) => files[d][Reality(m)].data \in RealityData
  /\ mainAt \in Gathering => ~There(dir, Collection)
  /\ mainAt = "sealing" => \A f \in Archives : There(dir, f)
  /\ mainAt = "archived" => Complete(dir)

CollectInv == CollectTypeOK /\ ThreadsInv /\ SealedInv
==============================================================================
