-------------------------- MODULE DatasetBuildProofs --------------------------
(***************************************************************************)
(* Proofs about DatasetBuild, for every cohort, number of workers, of      *)
(* directories, of commands and versions of the code.                      *)
(***************************************************************************)
EXTENDS DatasetBuild, TLAPS

LEMMA OrderFacts ==
  /\ Len(Order) \in Nat /\ DOMAIN Order = 1 .. Len(Order)
  /\ \A i \in DOMAIN Order : Order[i] \in Members
  /\ \A m \in Members : \E i \in DOMAIN Order : Order[i] = m
  /\ "main" \notin Members /\ "reality" \notin Members
  BY OrderAssumption, ThreadAssumption DEF Members

LEMMA NamesFacts ==
  /\ \A m \in Members : /\ {Native(m), Reality(m)} \subseteq Archives
                        /\ {Native(m), Reality(m), Checkpoint(m)} \subseteq Names
  /\ \A f \in Archives : f \in Names
  /\ {Mapping, Telemetry, Collection} \subseteq Names
  /\ \A m : {Checkpoint(m), Mapping, Telemetry, Collection} \cap Archives = {}
  /\ \A m, q : /\ Native(m) # Reality(q) /\ Native(m) # Collection /\ Reality(m) # Collection
               /\ Checkpoint(m) # Collection /\ Checkpoint(m) # Native(q)
               /\ Checkpoint(m) # Reality(q)
               /\ m # q => Native(m) # Native(q) /\ Reality(m) # Reality(q)
  /\ Mapping # Collection /\ Telemetry # Collection
  BY DEF Native, Reality, Checkpoint, Mapping, Telemetry, Collection, Archives, Names

(* A file that is written is there, and no other is touched.               *)
LEMMA Renamed ==
  ASSUME CollectTypeOK, mainAt # "off", NEW th, NEW f \in Names, NEW data \in Data,
         Rename(th, f, data)
  PROVE  /\ files' \in [Dirs -> [Names -> [by : Nat, data : Data]]]
         /\ files'[dir][f] # Absent
         /\ files'[dir][f].data = data
         /\ \A d \in Dirs, g \in Names : d # dir \/ g # f => files'[d][g] = files[d][g]
<1>1. /\ files \in [Dirs -> [Names -> [by : Nat, data : Data]]]
      /\ dir \in Dirs /\ runs \in Nat /\ runs > 0
      /\ files' = [files EXCEPT ![dir][f] = Content(data)]
  BY DEF CollectTypeOK, Rename
<1>2. Content(data) \in [by : Nat, data : Data] /\ Content(data).by = runs
      /\ Content(data).data = data /\ Content(data) # Absent
  BY <1>1 DEF Content, Absent
<1> HIDE DEF Content
<1>3. files'[dir][f] = Content(data)
  BY <1>1
<1>4. files' \in [Dirs -> [Names -> [by : Nat, data : Data]]]
  <2> PICK c \in [by : Nat, data : Data] : c = Content(data)
    BY <1>2
  <2> QED BY <1>1
<1>5. \A d \in Dirs, g \in Names : d # dir \/ g # f => files'[d][g] = files[d][g]
  BY <1>1
<1> QED BY <1>2, <1>3, <1>4, <1>5

(***************************************************************************)
(* The steps of a collection.                                              *)
(***************************************************************************)
(* Opening a .pending file touches nothing the invariant speaks of.        *)
LEMMA UntouchedKeeps ==
  ASSUME CollectInv,
         UNCHANGED <<files, runs, dir, mainAt, nativeAt, realityAt, realityNext, fetched>>
  PROVE  CollectInv'
<1>1. CollectTypeOK'
  BY DEF CollectInv, CollectTypeOK
<1>2. ThreadsInv'
  BY DEF CollectInv, ThreadsInv, Busy, There, Current
<1>3. SealedInv'
  BY DEF CollectInv, SealedInv, There, Complete
<1> QED BY <1>1, <1>2, <1>3 DEF CollectInv

(* The main thread goes on, and nothing else.                              *)
LEMMA MainGoesKeeps ==
  ASSUME CollectInv, NEW to, MainGoes(to), mainAt # "off",
         to \in {"mapping", "draining", "sealing", "failed", "file exists"},
         to = "mapping" => mainAt = "verify",
         Busy => to = "draining",
         to = "sealing" => \A f \in Archives : There(dir, f),
         to \in Gathering => mainAt \in Gathering
  PROVE  CollectInv'
<1>1. CollectTypeOK'
  BY DEF CollectInv, CollectTypeOK, MainGoes
<1>2. ThreadsInv'
  BY DEF CollectInv, ThreadsInv, Busy, There, Current, MainGoes
<1>3. SealedInv'
  BY DEF CollectInv, SealedInv, There, Complete, MainGoes
<1> QED BY <1>1, <1>2, <1>3 DEF CollectInv

(* A native worker goes on without a write.                                *)
LEMMA NativeGoesKeeps ==
  ASSUME CollectInv, NEW m \in Members, NEW to, NativeGoes(m, to), files' = files,
         fetched' \in [Members \cup {"main", "reality"} -> Data],
         fetched'["reality"] = fetched["reality"],
         nativeAt[m] \in {"begin", "checkpoint", "archive"},
         to \in {"checkpoint", "done", "file exists"},
         to = "checkpoint" => ~There(dir, Native(m)),
         to = "done" => There(dir, Native(m))
  PROVE  CollectInv'
<1>1. mainAt \in {"pool", "draining"}
  BY DEF CollectInv, ThreadsInv, Busy
<1>2. CollectTypeOK'
  BY DEF CollectInv, CollectTypeOK, NativeGoes
<1>3. nativeAt' = [nativeAt EXCEPT ![m] = to] /\ nativeAt \in [Members -> {"none", "begin",
        "checkpoint", "archive", "done", "reaped", "file exists"}]
  BY DEF CollectInv, CollectTypeOK, NativeGoes
<1>4. ThreadsInv'
  BY <1>1, <1>3 DEF CollectInv, ThreadsInv, Busy, There, Current, NativeGoes
<1>5. SealedInv'
  BY DEF CollectInv, SealedInv, There, Complete, NativeGoes
<1> QED BY <1>2, <1>4, <1>5 DEF CollectInv

(* The Reality thread goes on without a write.                             *)
LEMMA RealityGoesKeeps ==
  ASSUME CollectInv, NEW to, NEW next \in Nat \ {0}, RealityGoes(to, next), files' = files,
         fetched' \in [Members \cup {"main", "reality"} -> Data],
         realityAt \in {"begin", "archive", "telemetry"},
         to \in {"begin", "archive", "telemetry", "failed", "file exists"},
         to = "archive" => /\ next <= Len(Order)
                           /\ ~There(dir, Reality(Order[next]))
                           /\ fetched'["reality"] \in RealityData,
         to \in {"begin", "archive", "telemetry"} =>
           \A i \in DOMAIN Order : i < next => There(dir, Reality(Order[i])),
         to = "telemetry" => next > Len(Order)
  PROVE  CollectInv'
<1>1. mainAt \in {"pool", "draining"}
  BY DEF CollectInv, ThreadsInv, Busy
<1>2. CollectTypeOK'
  BY DEF CollectInv, CollectTypeOK, RealityGoes
<1>3. ThreadsInv'
  BY <1>1 DEF CollectInv, ThreadsInv, Busy, There, Current, RealityGoes
<1>4. SealedInv'
  BY DEF CollectInv, SealedInv, There, Complete, RealityGoes
<1> QED BY <1>2, <1>3, <1>4 DEF CollectInv

(* What is there stays there, and only what is written comes.              *)
LEMMA Comes ==
  ASSUME CollectTypeOK, mainAt # "off", NEW th, NEW f \in Names, NEW data \in Data,
         Rename(th, f, data), dir' = dir
  PROVE  /\ dir \in Dirs
         /\ \A d \in Dirs, g \in Names : There(d, g) => There(d, g)'
         /\ \A d \in Dirs, g \in Names : (d # dir \/ g # f) => (There(d, g)' <=> There(d, g))
         /\ There(dir, f)'
<1>1. dir \in Dirs
  BY DEF CollectTypeOK
<1>2. files'[dir][f] # Absent
  BY Renamed
<1>3. \A d \in Dirs, g \in Names : d # dir \/ g # f => files'[d][g] = files[d][g]
  BY Renamed
<1>4. \A d \in Dirs, g \in Names : (d # dir \/ g # f) => (There(d, g)' <=> There(d, g))
  BY <1>3 DEF There
<1>5. There(dir, f)'
  BY <1>2 DEF There
<1> QED BY <1>1, <1>2, <1>4, <1>5 DEF There

(* A directory that is gathered stays unsealed by any other file.          *)
LEMMA WriteKeepsSealed ==
  ASSUME CollectInv, NEW th, NEW f \in Names \ {Collection}, NEW data \in Data,
         Rename(th, f, data), dir' = dir,
         \A m \in Members : f = Reality(m) => data \in RealityData,
         mainAt \in {"mapping", "pool", "draining"},
         mainAt' \in {"mapping", "pool", "draining"}
  PROVE  SealedInv'
<1>1. CollectTypeOK /\ SealedInv /\ mainAt # "off"
  BY DEF CollectInv
<1>2. /\ dir \in Dirs
      /\ \A d \in Dirs, g \in Names : There(d, g) => There(d, g)'
      /\ \A d \in Dirs, g \in Names : (d # dir \/ g # f) => (There(d, g)' <=> There(d, g))
  BY <1>1, Comes
<1>3. Collection \in Names /\ \A g \in Archives : g \in Names
  BY NamesFacts
<1>4. ASSUME NEW d \in Dirs, There(d, Collection)' PROVE Complete(d)'
  <2>1. There(d, Collection)
    BY <1>2, <1>3, <1>4
  <2>2. Complete(d)
    BY <1>1, <2>1 DEF SealedInv
  <2> QED BY <1>2, <1>3, <2>2 DEF Complete
<1>5. ASSUME NEW d \in Dirs, NEW m \in Members, There(d, Reality(m))'
      PROVE  files'[d][Reality(m)].data \in RealityData
  <2>0. Reality(m) \in Names
    BY NamesFacts
  <2>1. CASE d = dir /\ Reality(m) = f
    <3>1. data \in RealityData
      BY <2>1
    <3>2. files'[dir][f].data = data
      BY <1>1, Renamed
    <3> QED BY <2>1, <3>1, <3>2
  <2>2. CASE d # dir \/ Reality(m) # f
    <3>0. \A g \in Names : d # dir \/ g # f => files'[d][g] = files[d][g]
      BY <1>1, Renamed
    <3>1. files'[d][Reality(m)] = files[d][Reality(m)]
      BY <2>0, <2>2, <3>0
    <3>2. There(d, Reality(m))
      BY <2>0, <2>2, <1>2, <1>5
    <3> QED BY <3>1, <3>2, <1>1 DEF SealedInv
  <2> QED BY <2>1, <2>2
<1>6. ~There(dir, Collection)'
  BY <1>1, <1>2, <1>3 DEF SealedInv, Gathering
<1> QED BY <1>4, <1>5, <1>6 DEF SealedInv

LEMMA MappingWrittenKeeps == ASSUME CollectInv, MappingWritten PROVE CollectInv'
<1>1. /\ Rename("main", Mapping, "mapping") /\ mainAt = "mapping" /\ mainAt' = "pool"
      /\ dir' = dir /\ runs' = runs /\ realityNext' = realityNext /\ fetched' = fetched
      /\ realityAt' = "begin"
  BY DEF MappingWritten
<1>2. Mapping \in Names \ {Collection} /\ \A m \in Members : Mapping # Reality(m)
  BY NamesFacts DEF Mapping, Reality
<1>3. "mapping" \in Data
  BY DEF Data
<1>4. CollectTypeOK /\ ThreadsInv
  BY DEF CollectInv
<1>5. nativeAt' \in [Members -> {"none", "begin"}]
  BY DEF MappingWritten
<1>6. CollectTypeOK'
  <2>1. files' \in [Dirs -> [Names -> [by : Nat, data : Data]]]
    BY <1>1, <1>2, <1>3, <1>4, Renamed
  <2>2. nativeAt' \in [Members -> {"none", "begin", "checkpoint", "archive", "done", "reaped",
                                   "file exists"}]
    BY <1>5
  <2> QED BY <1>1, <1>4, <2>1, <2>2 DEF CollectTypeOK
<1>7. realityNext = 1
  BY <1>1, <1>4 DEF ThreadsInv
<1>8. ThreadsInv'
  BY <1>1, <1>5, <1>7, OrderFacts DEF ThreadsInv, Busy
<1>9. SealedInv'
  BY <1>1, <1>2, <1>3, WriteKeepsSealed
<1> QED BY <1>6, <1>8, <1>9 DEF CollectInv

LEMMA CollectionWrittenKeeps == ASSUME CollectInv, CollectionWritten PROVE CollectInv'
<1>1. /\ Rename("main", Collection, "finished") /\ mainAt = "sealing" /\ mainAt' = "archived"
      /\ UNCHANGED <<runs, dir, nativeAt, realityAt, realityNext, fetched>>
  BY DEF CollectionWritten
<1>2. "finished" \in Data /\ Collection \in Names
  BY NamesFacts DEF Data
<1>3. CollectTypeOK /\ ThreadsInv /\ SealedInv
  BY DEF CollectInv
<1>4. CollectTypeOK'
  BY <1>1, <1>2, <1>3, Renamed DEF CollectTypeOK
<1>5. /\ dir \in Dirs /\ There(dir, Collection)'
      /\ \A d \in Dirs, g \in Names : There(d, g) => There(d, g)'
      /\ \A d \in Dirs, g \in Names :
           (d # dir \/ g # Collection) => (There(d, g)' <=> There(d, g))
  BY <1>1, <1>2, <1>3, Comes
<1>6. ThreadsInv'
  BY <1>1, <1>3, <1>5, NamesFacts, OrderFacts DEF ThreadsInv, Busy, Current
<1>7. Complete(dir)'
  BY <1>1, <1>3, <1>5, NamesFacts DEF SealedInv, Complete
<1>8. ASSUME NEW d \in Dirs, There(d, Collection)' PROVE Complete(d)'
  <2>1. CASE d = dir
    BY <1>1, <1>7, <2>1 DEF Complete, There
  <2>2. CASE d # dir
    <3>1. Complete(d)
      BY <1>2, <1>3, <1>5, <1>8, <2>2 DEF SealedInv
    <3> QED BY <1>5, <3>1, NamesFacts DEF Complete
  <2> QED BY <2>1, <2>2
<1>9. ASSUME NEW d \in Dirs, NEW m \in Members, There(d, Reality(m))'
      PROVE  files'[d][Reality(m)].data \in RealityData
  <2>1. Reality(m) \in Names /\ Reality(m) # Collection
    BY NamesFacts
  <2>2. files'[d][Reality(m)] = files[d][Reality(m)]
    BY <1>1, <1>2, <1>3, <2>1, Renamed
  <2> QED BY <1>3, <1>5, <1>9, <2>1, <2>2 DEF SealedInv
<1>10. SealedInv'
  BY <1>1, <1>7, <1>8, <1>9 DEF SealedInv, Gathering
<1> QED BY <1>4, <1>6, <1>10 DEF CollectInv

(* A worker writes its own two files, in this order.                       *)
LEMMA NativeWritesKeeps ==
  ASSUME CollectInv, NEW m \in Members, NativeWrites(m) PROVE CollectInv'
<1> DEFINE States == {"none", "begin", "checkpoint", "archive", "done", "reaped", "file exists"}
<1> SUFFICES ASSUME NEW f \in {Checkpoint(m), Native(m)}, Rename(m, f, fetched[m]),
                    NEW to \in {"archive", "done"}, NativeGoes(m, to),
                    f = Native(m) <=> to = "done",
                    nativeAt[m] \in {"checkpoint", "archive"},
                    \/ fetched' = fetched
                    \/ fetched' = [fetched EXCEPT ![m] = "nothing"]
             PROVE  CollectInv'
  BY NamesFacts DEF NativeWrites
<1>1. CollectTypeOK /\ ThreadsInv
  BY DEF CollectInv
<1>2. fetched[m] \in Data /\ "nothing" \in Data /\ fetched \in [Members \cup {"main", "reality"} -> Data]
  BY <1>1 DEF CollectTypeOK, Data
<1>3. mainAt \in {"pool", "draining"}
  BY <1>1 DEF ThreadsInv, Busy
<1>4. UNCHANGED <<runs, dir, mainAt, realityAt, realityNext>>
      /\ nativeAt' = [nativeAt EXCEPT ![m] = to] /\ nativeAt \in [Members -> States]
  BY <1>1 DEF NativeGoes, CollectTypeOK
<1>5. f \in Names \ {Collection} /\ \A q \in Members : f # Reality(q)
  BY NamesFacts
<1>6. \A q \in Members : q # m => f # Native(q)
  BY NamesFacts
<1>7. fetched' \in [Members \cup {"main", "reality"} -> Data]
      /\ fetched'["reality"] = fetched["reality"]
  BY <1>2, OrderFacts
<1>8. CollectTypeOK'
  <2>1. files' \in [Dirs -> [Names -> [by : Nat, data : Data]]]
    BY <1>1, <1>2, <1>3, <1>5, Renamed
  <2>2. nativeAt' \in [Members -> States]
    BY <1>4
  <2> QED BY <1>1, <1>4, <1>7, <2>1, <2>2 DEF CollectTypeOK
<1>9. /\ dir \in Dirs /\ There(dir, f)'
      /\ \A d \in Dirs, g \in Names : There(d, g) => There(d, g)'
      /\ \A d \in Dirs, g \in Names : (d # dir \/ g # f) => (There(d, g)' <=> There(d, g))
  BY <1>1, <1>2, <1>3, <1>4, <1>5, Comes
<1>10. ThreadsInv'
  <2>1. ASSUME NEW q \in Members
        PROVE  /\ nativeAt'[q] \in {"checkpoint", "archive"} => ~There(dir, Native(q))'
               /\ nativeAt'[q] \in {"done", "reaped"} => There(dir, Native(q))'
    <3>1. CASE q = m
      <4>1. nativeAt'[q] = to
        BY <1>4, <3>1
      <4>2. to = "archive" => ~There(dir, Native(m))'
        BY <1>1, <1>4, <1>9, NamesFacts DEF ThreadsInv
      <4>3. to = "done" => There(dir, Native(m))'
        BY <1>9
      <4> QED BY <3>1, <4>1, <4>2, <4>3 DEF There, Native
    <3>2. CASE q # m
      <4>1. nativeAt'[q] = nativeAt[q]
        BY <1>4, <3>2
      <4>2. There(dir, Native(q))' <=> There(dir, Native(q))
        BY <1>4, <1>6, <1>9, <3>2, NamesFacts DEF There
      <4> QED BY <1>1, <4>1, <4>2 DEF ThreadsInv
    <3> QED BY <3>1, <3>2
  <2>2. \A q \in Members : There(dir, Reality(q))' <=> There(dir, Reality(q))
    BY <1>4, <1>5, <1>9, NamesFacts DEF There
  <2>3. realityAt = "archive" => Current \in Members /\ Current' = Current
    <3>0. realityNext \in Nat \ {0}
      BY <1>1 DEF CollectTypeOK
    <3>1. realityAt = "archive" => realityNext \in DOMAIN Order
      BY <1>1, <3>0, OrderFacts DEF ThreadsInv
    <3> QED BY <1>4, <3>1, OrderFacts DEF Current
  <2>4. (realityAt = "archive")' => /\ (realityNext <= Len(Order))'
                                    /\ ~There(dir, Reality(Current))'
                                    /\ (fetched["reality"] \in RealityData)'
    <3> SUFFICES ASSUME realityAt = "archive"
                 PROVE  /\ (realityNext <= Len(Order))'
                        /\ ~There(dir, Reality(Current))'
                        /\ (fetched["reality"] \in RealityData)'
      BY <1>4
    <3>1. ~There(dir, Reality(Current))
      BY <1>1 DEF ThreadsInv
    <3>2. ~There(dir, Reality(Current))'
      BY <2>2, <2>3, <3>1 DEF There, Reality
    <3> QED BY <1>1, <1>4, <1>7, <3>2 DEF ThreadsInv
  <2>5. (realityAt \in {"begin", "archive", "telemetry", "done"})' =>
          \A i \in DOMAIN Order : (i < realityNext)' => There(dir, Reality(Order[i]))'
    BY <1>1, <1>4, <2>2, OrderFacts DEF ThreadsInv
  <2> QED BY <1>1, <1>3, <1>4, <2>1, <2>4, <2>5 DEF ThreadsInv, Busy
<1>11. SealedInv'
  BY <1>2, <1>3, <1>4, <1>5, WriteKeepsSealed
<1> QED BY <1>8, <1>10, <1>11 DEF CollectInv

LEMMA RealityWritesKeeps == ASSUME CollectInv, RealityWrites PROVE CollectInv'
<1>1. CollectTypeOK /\ ThreadsInv
  BY DEF CollectInv
<1>2. realityNext \in Nat \ {0}
      /\ "nothing" \in Data /\ "telemetry" \in Data
      /\ fetched \in [Members \cup {"main", "reality"} -> Data]
  BY <1>1 DEF CollectTypeOK, Data
<1> SUFFICES ASSUME NEW f, NEW data, NEW next, NEW to,
                    \/ /\ realityAt = "archive" /\ to = "begin" /\ next = realityNext + 1
                       /\ f = Reality(Current) /\ data = fetched["reality"]
                    \/ /\ realityAt = "telemetry" /\ to = "done" /\ next = realityNext
                       /\ f = Telemetry /\ data = "telemetry",
                    Rename("reality", f, data), RealityGoes(to, next),
                    fetched' \in [Members \cup {"main", "reality"} -> Data]
             PROVE  CollectInv'
  <2>1. CASE realityAt = "archive"
    BY <1>2, <2>1 DEF RealityWrites
  <2>2. CASE realityAt = "telemetry"
    BY <1>2, <2>2 DEF RealityWrites
  <2> QED BY <2>1, <2>2 DEF RealityWrites
<1>3. realityAt \in {"archive", "telemetry"}
  OBVIOUS
<1>4. mainAt \in {"pool", "draining"}
  BY <1>1, <1>3 DEF ThreadsInv, Busy
<1>5. realityAt = "archive" => realityNext \in DOMAIN Order /\ Current \in Members
  BY <1>1, <1>2, OrderFacts DEF ThreadsInv, Current
<1>6. /\ f \in Names \ {Collection} /\ data \in Data
      /\ \A m \in Members : f # Native(m)
      /\ \A m \in Members : f = Reality(m) => realityAt = "archive"
  <2>1. CASE realityAt = "archive"
    BY <1>2, <1>5, <2>1, NamesFacts
  <2>2. CASE realityAt # "archive"
    BY <1>2, <2>2, NamesFacts DEF Telemetry, Reality, Native
  <2> QED BY <2>1, <2>2
<1>7. \A m \in Members : f = Reality(m) => data \in RealityData
  BY <1>1, <1>6 DEF ThreadsInv
<1>8. /\ UNCHANGED <<runs, dir, mainAt, nativeAt>>
      /\ realityAt' = to /\ realityNext' = next
  BY <1>3 DEF RealityGoes
<1>9. CollectTypeOK'
  <2>1. files' \in [Dirs -> [Names -> [by : Nat, data : Data]]]
    BY <1>1, <1>3, <1>4, <1>6, Renamed
  <2>2. realityNext' \in Nat \ {0}
    BY <1>2, <1>8
  <2> QED BY <1>1, <1>3, <1>8, <2>1, <2>2 DEF CollectTypeOK
<1>10. /\ dir \in Dirs /\ There(dir, f)'
       /\ \A d \in Dirs, g \in Names : There(d, g) => There(d, g)'
       /\ \A d \in Dirs, g \in Names : (d # dir \/ g # f) => (There(d, g)' <=> There(d, g))
  BY <1>1, <1>3, <1>4, <1>6, <1>8, Comes
<1>11. ThreadsInv'
  <2>1. \A m \in Members : There(dir, Native(m))' <=> There(dir, Native(m))
    BY <1>6, <1>8, <1>10, NamesFacts DEF There
  <2>2. \A m \in Members : There(dir, Reality(m)) => There(dir, Reality(m))'
    BY <1>8, <1>10, NamesFacts DEF There
  <2>3. ASSUME NEW i \in DOMAIN Order, i = realityNext, realityAt = "archive"
        PROVE  There(dir, Reality(Order[i]))'
    <3>1. f = Reality(Order[i])
      BY <2>3 DEF Current
    <3> QED BY <1>10, <3>1
  <2>4. ASSUME NEW i \in DOMAIN Order, i < next PROVE There(dir, Reality(Order[i]))'
    <3>1. CASE i < realityNext
      BY <1>1, <1>3, <2>2, <3>1, OrderFacts DEF ThreadsInv
    <3>2. CASE ~(i < realityNext)
      <4>1. realityAt = "archive" /\ i = realityNext
        <5>1. i \in Nat
          BY OrderFacts
        <5> QED BY <1>2, <2>4, <3>2, <5>1
      <4> QED BY <2>3, <4>1
    <3> QED BY <3>1, <3>2
  <2>5. to = "done" => next > Len(Order)
    BY <1>1, <1>3 DEF ThreadsInv
  <2>6. \A m \in Members :
          /\ nativeAt'[m] \in {"checkpoint", "archive"} => ~There(dir, Native(m))'
          /\ nativeAt'[m] \in {"done", "reaped"} => There(dir, Native(m))'
    BY <1>1, <1>8, <2>1 DEF ThreadsInv
  <2> QED BY <1>4, <1>8, <2>4, <2>5, <2>6 DEF ThreadsInv
<1>12. SealedInv'
  BY <1>3, <1>4, <1>6, <1>7, <1>8, WriteKeepsSealed
<1> QED BY <1>9, <1>11, <1>12 DEF CollectInv

(* Every step of a collection.                                             *)
LEMMA CollectKeeps == ASSUME CollectInv, CollectStep PROVE CollectInv'
<1>1. CollectTypeOK /\ ThreadsInv /\ SealedInv
  BY DEF CollectInv
<1>2. CASE Reverify
  BY <1>1, <1>2, MainGoesKeeps DEF Reverify, ThreadsInv, Gathering
<1>3. CASE MainOpens
  BY <1>3, UntouchedKeeps DEF MainOpens, Open
<1>4. CASE MainBlocked
  BY <1>1, <1>4, MainGoesKeeps DEF MainBlocked, ThreadsInv, Gathering
<1>5. CASE MappingWritten
  BY <1>5, MappingWrittenKeeps
<1>6. CASE PoolDone
  <2>1. mainAt = "pool" /\ (\A m \in Members : nativeAt[m] = "reaped")
        /\ realityAt \in {"done", "failed", "file exists"}
    BY <1>6 DEF PoolDone
  <2>2. ~Busy
    BY <2>1 DEF Busy
  <2>3. ASSUME realityAt = "done", NEW g \in Archives PROVE There(dir, g)
    <3>1. CASE \E m \in Members : g = Native(m)
      BY <1>1, <2>1, <3>1 DEF ThreadsInv
    <3>2. CASE \E m \in Members : g = Reality(m)
      <4>1. PICK i \in DOMAIN Order : g = Reality(Order[i])
        BY <3>2, OrderFacts
      <4>2. realityNext > Len(Order) /\ realityNext \in Nat
        BY <1>1, <2>3 DEF ThreadsInv, CollectTypeOK
      <4>3. i \in 1 .. Len(Order)
        BY OrderFacts
      <4>4. i < realityNext
        BY <4>2, <4>3, OrderFacts
      <4> QED BY <1>1, <2>3, <4>1, <4>4 DEF ThreadsInv
    <3> QED BY <3>1, <3>2 DEF Archives
  <2>4. CASE realityAt = "done" /\ MainGoes("sealing")
    BY <2>1, <2>2, <2>3, <2>4, MainGoesKeeps DEF Gathering
  <2>5. CASE MainGoes("failed") \/ MainGoes("file exists")
    BY <2>1, <2>2, <2>5, MainGoesKeeps DEF Gathering
  <2> QED BY <1>6, <2>4, <2>5 DEF PoolDone
<1>7. CASE Drained
  BY <1>7, MainGoesKeeps DEF Drained, Gathering
<1>8. CASE CollectionWritten
  BY <1>8, CollectionWrittenKeeps
<1>9. CASE RealityBegins
  <2>1. realityAt = "begin" /\ realityNext \in Nat \ {0} /\ UNCHANGED files
        /\ fetched \in [Members \cup {"main", "reality"} -> Data]
        /\ RealityData \subseteq Data
    BY <1>1, <1>9 DEF RealityBegins, CollectTypeOK, Data
  <2>2. \A i \in DOMAIN Order : i < realityNext => There(dir, Reality(Order[i]))
    BY <1>1, <2>1 DEF ThreadsInv
  <2>3. CASE RealityGoes("telemetry", realityNext) /\ realityNext > Len(Order) /\ UNCHANGED fetched
    BY <2>1, <2>2, <2>3, RealityGoesKeeps
  <2>4. CASE RealityGoes("begin", realityNext + 1) /\ There(dir, Reality(Current)) /\ UNCHANGED fetched
    <3>1. ASSUME NEW i \in DOMAIN Order, i < realityNext + 1 PROVE There(dir, Reality(Order[i]))
      <4>1. i \in Nat
        BY OrderFacts
      <4>2. i < realityNext \/ i = realityNext
        BY <2>1, <3>1, <4>1
      <4> QED BY <2>2, <2>4, <4>2 DEF Current
    <3>2. realityNext + 1 \in Nat \ {0}
      BY <2>1
    <3> QED BY <2>1, <2>4, <3>1, <3>2, RealityGoesKeeps
  <2>5. CASE RealityGoes("failed", realityNext) /\ UNCHANGED fetched
    BY <2>1, <2>5, RealityGoesKeeps
  <2>6. ASSUME NEW data \in RealityData, RealityGoes("archive", realityNext),
               realityNext <= Len(Order), ~There(dir, Reality(Current)),
               fetched' = [fetched EXCEPT !["reality"] = data]
        PROVE  CollectInv'
    <3>1. fetched' \in [Members \cup {"main", "reality"} -> Data] /\ fetched'["reality"] = data
      BY <2>1, <2>6
    <3> QED BY <2>1, <2>2, <2>6, <3>1, RealityGoesKeeps DEF Current
  <2> QED BY <1>9, <2>3, <2>4, <2>5, <2>6 DEF RealityBegins
<1>10. CASE RealityOpens
  BY <1>10, UntouchedKeeps DEF RealityOpens, Open
<1>11. CASE RealityBlocked
  BY <1>1, <1>11, RealityGoesKeeps DEF RealityBlocked, CollectTypeOK
<1>12. CASE RealityWrites
  BY <1>12, RealityWritesKeeps
<1>13. ASSUME NEW m \in Members, Reap(m) PROVE CollectInv'
  <2>1. /\ UNCHANGED <<files, pending, runs, dir, mainAt, realityAt, realityNext, fetched, opened>>
        /\ mainAt = "pool" /\ nativeAt[m] = "done"
        /\ nativeAt' \in [Members -> {"none", "begin", "checkpoint", "archive", "done", "reaped",
                                      "file exists"}]
        /\ \A q \in Members :
             nativeAt'[q] \in {nativeAt[q], "begin"} \/ (q = m /\ nativeAt'[q] = "reaped")
    <3> DEFINE next == CHOOSE i \in Unsubmitted : \A j \in Unsubmitted : i <= j
    <3>1. nativeAt' = [nativeAt EXCEPT ![m] = "reaped"]
          \/ nativeAt' = [nativeAt EXCEPT ![m] = "reaped", ![Order[next]] = "begin"]
      BY <1>13 DEF Reap
    <3> HIDE DEF next
    <3>2. nativeAt \in [Members -> {"none", "begin", "checkpoint", "archive", "done", "reaped",
                                    "file exists"}]
      BY <1>1 DEF CollectTypeOK
    <3>3. nativeAt' \in [Members -> {"none", "begin", "checkpoint", "archive", "done", "reaped",
                                     "file exists"}]
      BY <3>1, <3>2
    <3>4. \A q \in Members :
             nativeAt'[q] \in {nativeAt[q], "begin"} \/ (q = m /\ nativeAt'[q] = "reaped")
      <4>1. CASE nativeAt' = [nativeAt EXCEPT ![m] = "reaped"]
        BY <3>2, <4>1
      <4>2. CASE nativeAt' = [nativeAt EXCEPT ![m] = "reaped", ![Order[next]] = "begin"]
        <5> SUFFICES ASSUME NEW q \in Members
                     PROVE  nativeAt'[q] \in {nativeAt[q], "begin"}
                            \/ (q = m /\ nativeAt'[q] = "reaped")
          OBVIOUS
        <5>1. CASE q = Order[next]
          BY <3>2, <4>2, <5>1
        <5>2. CASE q # Order[next]
          BY <3>2, <4>2, <5>2
        <5> QED BY <5>1, <5>2
      <4> QED BY <3>1, <4>1, <4>2
    <3> QED BY <1>13, <3>3, <3>4 DEF Reap
  <2>2. CollectTypeOK'
    BY <1>1, <2>1 DEF CollectTypeOK
  <2>3. ThreadsInv'
    <3>1. ASSUME NEW q \in Members
          PROVE  /\ nativeAt'[q] \in {"checkpoint", "archive"} => ~There(dir, Native(q))'
                 /\ nativeAt'[q] \in {"done", "reaped"} => There(dir, Native(q))'
      BY <1>1, <2>1 DEF ThreadsInv, There
    <3>2. /\ realityAt' = "archive" => /\ realityNext' <= Len(Order)
                                       /\ ~There(dir, Reality(Current))'
                                       /\ fetched'["reality"] \in RealityData
          /\ realityAt' \in {"begin", "archive", "telemetry", "done"} =>
               \A i \in DOMAIN Order : i < realityNext' => There(dir, Reality(Order[i]))'
          /\ realityAt' \in {"telemetry", "done"} => realityNext' > Len(Order)
      BY <1>1, <2>1 DEF ThreadsInv, There, Current
    <3> QED BY <2>1, <3>1, <3>2 DEF ThreadsInv
  <2>4. SealedInv'
    BY <1>1, <2>1 DEF SealedInv, There, Complete, Gathering
  <2> QED BY <2>2, <2>3, <2>4 DEF CollectInv
<1>14. ASSUME NEW m \in Members, ReapFailure(m) PROVE CollectInv'
  BY <1>14, MainGoesKeeps DEF ReapFailure, Gathering
<1>15. ASSUME NEW m \in Members, NativeBegins(m) PROVE CollectInv'
  <2>1. nativeAt[m] = "begin" /\ UNCHANGED files /\ m \notin {"main", "reality"}
        /\ fetched \in [Members \cup {"main", "reality"} -> Data] /\ NativeData \subseteq Data
    BY <1>1, <1>15, OrderFacts DEF NativeBegins, CollectTypeOK, Data
  <2>2. CASE There(dir, Native(m))
    BY <1>15, <2>1, <2>2, NativeGoesKeeps DEF NativeBegins
  <2>3. CASE ~There(dir, Native(m))
    <3>1. PICK data \in NativeData : /\ NativeGoes(m, "checkpoint")
                                     /\ fetched' = [fetched EXCEPT ![m] = data]
      BY <1>15, <2>3 DEF NativeBegins
    <3>2. fetched' \in [Members \cup {"main", "reality"} -> Data]
          /\ fetched'["reality"] = fetched["reality"]
      BY <2>1, <3>1
    <3> QED BY <2>1, <2>3, <3>1, <3>2, NativeGoesKeeps
  <2> QED BY <2>2, <2>3
<1>16. ASSUME NEW m \in Members, NativeOpens(m) PROVE CollectInv'
  BY <1>16, UntouchedKeeps DEF NativeOpens, Open
<1>17. ASSUME NEW m \in Members, NativeBlocked(m) PROVE CollectInv'
  BY <1>1, <1>17, NativeGoesKeeps DEF NativeBlocked, CollectTypeOK
<1>18. ASSUME NEW m \in Members, NativeWrites(m) PROVE CollectInv'
  BY <1>18, NativeWritesKeeps
<1> QED BY <1>2, <1>3, <1>4, <1>5, <1>6, <1>7, <1>8, <1>9, <1>10, <1>11, <1>12, <1>13, <1>14,
           <1>15, <1>16, <1>17, <1>18 DEF CollectStep

(***************************************************************************)
(* What a collection does not touch.                                       *)
(***************************************************************************)
(* A write is of a directory that is not sealed, and of an archive that is *)
(* not there.                                                              *)
LEMMA WriteSeals ==
  ASSUME CollectInv, NEW th, NEW f \in Names, NEW data \in Data, Rename(th, f, data),
         mainAt \in Gathering, f \in Archives => ~There(dir, f)
  PROVE  Seals /\ \A d \in Dirs : Complete(d) => files'[d] = files[d]
<1>1. CollectTypeOK /\ SealedInv /\ mainAt # "off"
  BY DEF CollectInv, Gathering
<1>2. ~Complete(dir)
  BY <1>1 DEF SealedInv, Complete
<1>3. \A d \in Dirs : d # dir => files'[d] = files[d]
  BY DEF Rename
<1>4. \A d \in Dirs, g \in Names : d # dir \/ g # f => files'[d][g] = files[d][g]
  BY <1>1, Renamed
<1>5. Seals
  BY <1>2, <1>4 DEF Seals
<1> QED BY <1>2, <1>3, <1>5

LEMMA SameFilesSeal ==
  ASSUME files' = files
  PROVE  Seals /\ \A d \in Dirs : Complete(d) => files'[d] = files[d]
  BY DEF Seals

LEMMA CollectSeals ==
  ASSUME CollectInv, CollectStep
  PROVE  Seals /\ \A d \in Dirs : Complete(d) => files'[d] = files[d]
<1>1. CollectTypeOK /\ ThreadsInv
  BY DEF CollectInv
<1>2. "mapping" \in Data /\ "finished" \in Data /\ "telemetry" \in Data
      /\ \A th \in Members \cup {"main", "reality"} : fetched[th] \in Data
  BY <1>1 DEF CollectTypeOK, Data
<1>3. CASE MappingWritten
  <2>1. Rename("main", Mapping, "mapping") /\ mainAt \in Gathering
    BY <1>3 DEF MappingWritten, Gathering
  <2> QED BY <1>2, <2>1, NamesFacts, WriteSeals
<1>4. CASE CollectionWritten
  <2>1. Rename("main", Collection, "finished") /\ mainAt \in Gathering
    BY <1>4 DEF CollectionWritten, Gathering
  <2> QED BY <1>2, <2>1, NamesFacts, WriteSeals
<1>5. CASE RealityWrites
  <2>1. mainAt \in Gathering
    BY <1>1, <1>5 DEF RealityWrites, ThreadsInv, Busy, Gathering
  <2>2. CASE realityAt = "archive"
    <3>1. Rename("reality", Reality(Current), fetched["reality"]) /\ ~There(dir, Reality(Current))
          /\ realityNext <= Len(Order) /\ realityNext \in Nat \ {0}
      BY <1>1, <1>5, <2>2 DEF RealityWrites, ThreadsInv, CollectTypeOK
    <3>2. Current \in Members
      BY <3>1, OrderFacts DEF Current
    <3> QED BY <1>2, <2>1, <3>1, <3>2, NamesFacts, WriteSeals
  <2>3. CASE realityAt = "telemetry"
    <3>1. Rename("reality", Telemetry, "telemetry")
      BY <1>5, <2>3 DEF RealityWrites
    <3> QED BY <1>2, <2>1, <3>1, NamesFacts, WriteSeals
  <2> QED BY <1>5, <2>2, <2>3 DEF RealityWrites
<1>6. ASSUME NEW m \in Members, NativeWrites(m)
      PROVE  Seals /\ \A d \in Dirs : Complete(d) => files'[d] = files[d]
  <2>1. mainAt \in Gathering
    BY <1>1, <1>6 DEF NativeWrites, ThreadsInv, Busy, Gathering
  <2>2. \/ Rename(m, Checkpoint(m), fetched[m])
        \/ Rename(m, Native(m), fetched[m]) /\ ~There(dir, Native(m))
    BY <1>1, <1>6 DEF NativeWrites, ThreadsInv
  <2> QED BY <1>2, <2>1, <2>2, NamesFacts, WriteSeals
<1>7. CASE \/ Reverify \/ MainOpens \/ MainBlocked \/ PoolDone \/ Drained
           \/ RealityBegins \/ RealityOpens \/ RealityBlocked
  <2>1. files' = files
    BY <1>7 DEF Reverify, MainOpens, MainBlocked, PoolDone, Drained, RealityBegins, RealityOpens,
                RealityBlocked, MainGoes, Open
  <2> QED BY <2>1, SameFilesSeal
<1>8. ASSUME NEW m \in Members,
             \/ Reap(m) \/ ReapFailure(m) \/ NativeBegins(m) \/ NativeOpens(m) \/ NativeBlocked(m)
      PROVE  Seals /\ \A d \in Dirs : Complete(d) => files'[d] = files[d]
  <2>1. files' = files
    BY <1>8 DEF Reap, ReapFailure, NativeBegins, NativeOpens, NativeBlocked, MainGoes, Open
  <2> QED BY <2>1, SameFilesSeal
<1> QED BY <1>3, <1>4, <1>5, <1>6, <1>7, <1>8 DEF CollectStep

(* A collection goes on until it is archived or stops.                     *)
LEMMA CollectGathers ==
  ASSUME CollectInv, CollectStep
  PROVE  mainAt \in Gathering /\ mainAt' \in Gathering \cup {"archived", "failed", "file exists"}
<1>1. Busy => mainAt \in {"pool", "draining"}
  BY DEF CollectInv, ThreadsInv
<1>2. CASE \/ Reverify \/ MainOpens \/ MainBlocked \/ MappingWritten \/ PoolDone \/ Drained
           \/ CollectionWritten
  BY <1>2 DEF Reverify, MainOpens, MainBlocked, MappingWritten, PoolDone, Drained,
              CollectionWritten, MainGoes, Open, Gathering
<1>3. CASE RealityBegins \/ RealityOpens \/ RealityBlocked \/ RealityWrites
  <2>1. mainAt \in {"pool", "draining"}
    BY <1>1, <1>3 DEF Busy, RealityBegins, RealityOpens, RealityBlocked, RealityWrites
  <2>2. mainAt' = mainAt
    BY <1>3 DEF RealityBegins, RealityOpens, RealityBlocked, RealityWrites, RealityGoes, Open
  <2> QED BY <2>1, <2>2 DEF Gathering
<1>4. ASSUME NEW m \in Members, Reap(m) \/ ReapFailure(m)
      PROVE  mainAt \in Gathering /\ mainAt' \in Gathering
  BY <1>4 DEF Reap, ReapFailure, MainGoes, Gathering
<1>5. ASSUME NEW m \in Members,
             NativeBegins(m) \/ NativeOpens(m) \/ NativeBlocked(m) \/ NativeWrites(m)
      PROVE  mainAt \in Gathering /\ mainAt' \in Gathering
  <2>1. mainAt \in {"pool", "draining"}
    BY <1>1, <1>5 DEF Busy, NativeBegins, NativeOpens, NativeBlocked, NativeWrites
  <2>2. mainAt' = mainAt
    BY <1>5 DEF NativeBegins, NativeOpens, NativeBlocked, NativeWrites, NativeGoes, Open
  <2> QED BY <2>1, <2>2 DEF Gathering
<1> QED BY <1>2, <1>3, <1>4, <1>5 DEF CollectStep

(***************************************************************************)
(* Manifests stay true.                                                    *)
(***************************************************************************)
(* A step that leaves sealed directories and stored candles alone.         *)
Preserves ==
  /\ \A d \in Dirs : Complete(d) => files'[d] = files[d]
  /\ \A m \in Members : canonical[m] # NothingStored => canonical'[m] = canonical[m]

LEMMA CompleteStays ==
  ASSUME Preserves, NEW d \in Dirs, Complete(d)
  PROVE  Complete(d)' /\ files'[d] = files[d]
  BY DEF Preserves, Complete, There

LEMMA StoredStays ==
  ASSUME CollectInv, Preserves, NEW d \in Dirs, Complete(d), NEW m \in Members,
         MemberStored(d, m)
  PROVE  MemberStored(d, m)' /\ canonical'[m] = canonical[m]
<1>1. files'[d] = files[d]
  BY DEF Preserves
<1>2. Reality(m) \in Archives
  BY NamesFacts
<1>3. canonical[m] \in RealityData
  BY <1>2 DEF Complete, CollectInv, SealedInv, MemberStored
<1>4. canonical'[m] = canonical[m]
  BY <1>3, DataAssumption DEF Preserves
<1> QED BY <1>1, <1>4 DEF MemberStored

LEMMA ManifestStays ==
  ASSUME CollectInv, Preserves, NEW x, ManifestTrue(x) PROVE ManifestTrue(x)'
<1>1. x.dir \in Dirs /\ Complete(x.dir)
  BY DEF ManifestTrue
<1>2. Complete(x.dir)' /\ files'[x.dir] = files[x.dir]
  BY <1>1, CompleteStays
<1>3. Index(x.dir)' = Index(x.dir) /\ DataOf(x.dir)' = DataOf(x.dir)
  BY <1>2 DEF Index, DataOf
<1>4. \A m \in Members : MemberStored(x.dir, m)'
  BY <1>1, StoredStays DEF ManifestTrue
<1> QED BY <1>1, <1>2, <1>3, <1>4 DEF ManifestTrue

(* What is published stays so, when no more than rows are added.           *)
LEMMA PublishedStays ==
  ASSUME CollectInv, Preserves, PublishInv, rows \subseteq rows',
         UNCHANGED <<manifests, latest>>
  PROVE  (\A x \in manifests : ManifestTrue(x))' /\ LatestGrounded'
<1>1. \A x \in manifests : ManifestTrue(x)'
  BY ManifestStays DEF PublishInv
<1>2. LatestGrounded'
  BY DEF PublishInv, LatestGrounded
<1> QED BY <1>1, <1>2

(* A restore that goes on, or stops, keeps its manifest.                   *)
LEMMA OriginalStays ==
  ASSUME CollectInv, Preserves, original # NoManifest, ManifestTrue(original),
         original' = original
  PROVE  ManifestTrue(original)'
<1>1. PICK x : x = original
  OBVIOUS
<1>2. ManifestTrue(x)'
  BY <1>1, ManifestStays
<1> QED BY <1>1, <1>2

(* The threads of a collection are through.                                *)
LEMMA AfterwardsKeeps ==
  ASSUME CollectInv, mainAt \notin {"off", "pool", "draining"},
         mainAt' \in {"materialize", "manifest", "latest", "failed", "ended", "file exists"},
         UNCHANGED <<files, runs, dir, nativeAt, realityAt, realityNext, fetched>>
  PROVE  CollectInv'
<1>1. CollectTypeOK'
  BY DEF CollectInv, CollectTypeOK
<1>2. ThreadsInv'
  BY DEF CollectInv, ThreadsInv, Busy, There, Current
<1>3. SealedInv'
  BY DEF CollectInv, SealedInv, There, Complete, Gathering
<1> QED BY <1>1, <1>2, <1>3 DEF CollectInv

(***************************************************************************)
(* The steps of a build.                                                   *)
(***************************************************************************)
LEMMA InitHolds == ASSUME BuildInit PROVE IInv
<1>1. CollectTypeOK
  <2>1. Absent \in [by : Nat, data : Data]
    BY DEF Absent, Data
  <2>2. files = [d \in Dirs |-> [g \in Names |-> Absent]]
    BY DEF BuildInit, CollectInit
  <2>3. files \in [Dirs -> [Names -> [by : Nat, data : Data]]]
    BY <2>1, <2>2
  <2> QED BY <2>3 DEF BuildInit, CollectInit, AtRest, CollectTypeOK, Data
<1>2. ThreadsInv
  BY DEF BuildInit, CollectInit, AtRest, ThreadsInv, Busy
<1>3. SealedInv
  <2>1. \A d \in Dirs, g \in Names : ~There(d, g)
    BY DEF BuildInit, CollectInit, There
  <2> QED BY <2>1, NamesFacts DEF BuildInit, CollectInit, SealedInv, Gathering
<1>4. MaterializeInv
  BY DEF BuildInit, CollectInit, MaterializeInv, Publishing
<1>5. RestoreInv /\ PublishInv
  BY DEF BuildInit, CollectInit, RestoreInv, PublishInv, LatestGrounded, Publishing
<1> QED BY <1>1, <1>2, <1>3, <1>4, <1>5 DEF IInv, CollectInv

(* Nothing changes but .pending files.                                     *)
LEMMA PendingKeeps ==
  ASSUME IInv,
         UNCHANGED <<files, runs, dir, mainAt, nativeAt, realityAt, realityNext, fetched>>,
         UNCHANGED <<code, original, member, canonical, rows, manifests, latest, verdict>>
  PROVE  IInv'
<1>1. CollectInv'
  BY UntouchedKeeps DEF IInv
<1>2. MaterializeInv'
  BY DEF IInv, MaterializeInv, MemberStored, Complete, There
<1>3. RestoreInv'
  BY DEF IInv, RestoreInv, ManifestTrue, Index, DataOf, MemberStored, Complete, There
<1>4. PublishInv'
  BY DEF IInv, PublishInv, LatestGrounded, VersionOf, ManifestTrue, Index, DataOf, MemberStored,
         Complete, There
<1> QED BY <1>1, <1>2, <1>3, <1>4 DEF IInv

LEMMA CollectingKeeps == ASSUME IInv, Collecting PROVE IInv'
<1>1. CollectInv /\ CollectStep /\ UNCHANGED buildVars
  BY DEF IInv, Collecting
<1>2. CollectInv'
  BY <1>1, CollectKeeps
<1>3. mainAt \in Gathering /\ mainAt' \in Gathering \cup {"archived", "failed", "file exists"}
  BY <1>1, CollectGathers
<1>4. Preserves
  BY <1>1, CollectSeals DEF Preserves, buildVars
<1>5. original = NoManifest /\ member = 1
  BY <1>3 DEF IInv, RestoreInv, MaterializeInv, Gathering
<1>6. MaterializeInv'
  BY <1>1, <1>3, <1>5 DEF IInv, MaterializeInv, buildVars, Gathering, Publishing
<1>7. RestoreInv'
  BY <1>1, <1>5 DEF RestoreInv, buildVars
<1>8. PublishInv'
  BY <1>1, <1>3, <1>4, PublishedStays DEF IInv, PublishInv, buildVars, Gathering, Publishing
<1> QED BY <1>2, <1>6, <1>7, <1>8 DEF IInv

LEMMA StartBuildKeeps == ASSUME IInv, StartBuild PROVE IInv'
<1>1. PICK d \in Dirs : Collect(d)
  BY DEF StartBuild
<1>2. /\ mainAt = "off" /\ dir' = d /\ runs' = runs + 1
      /\ mainAt' = IF Complete(d) THEN "archived" ELSE "verify"
      /\ UNCHANGED <<files, nativeAt, realityAt, realityNext, fetched>>
      /\ UNCHANGED <<original, member, canonical, rows, manifests, latest>>
  BY <1>1 DEF Collect, Starting, StartBuild
<1>3. original = NoManifest /\ member = 1
  BY <1>2 DEF IInv, RestoreInv, MaterializeInv
<1>4. CollectTypeOK'
  <2>1. runs' \in Nat /\ runs' > 0
    <3>1. runs \in Nat
      BY DEF IInv, CollectInv, CollectTypeOK
    <3> QED BY <1>2, <3>1
  <2> QED BY <1>2, <2>1 DEF IInv, CollectInv, CollectTypeOK
<1>5. ThreadsInv'
  BY <1>2 DEF IInv, CollectInv, ThreadsInv, Busy
<1>6. SealedInv'
  <2>1. Complete(d) \/ ~There(d, Collection)
    BY DEF IInv, CollectInv, SealedInv
  <2> QED BY <1>2, <2>1 DEF IInv, CollectInv, SealedInv, There, Complete, Gathering
<1>7. MaterializeInv'
  BY <1>2, <1>3 DEF IInv, MaterializeInv, Publishing
<1>8. RestoreInv'
  BY <1>2, <1>3 DEF RestoreInv
<1>9. Preserves
  BY <1>2 DEF Preserves
<1>10. PublishInv'
  BY <1>2, <1>9, PublishedStays DEF IInv, PublishInv, Publishing
<1> QED BY <1>4, <1>5, <1>6, <1>7, <1>8, <1>10 DEF IInv, CollectInv

LEMMA StartRestoreKeeps == ASSUME IInv, StartRestore PROVE IInv'
<1>1. PICK x \in manifests : x.version = latest
  BY DEF StartRestore, IInv, PublishInv, LatestGrounded
<1>2. ManifestFile(latest) \in manifests
  BY <1>1 DEF ManifestFile
<1> DEFINE found == ManifestFile(latest)
<1>3. ManifestTrue(found)
  BY <1>2 DEF IInv, PublishInv
<1>4. /\ mainAt = "off" /\ dir' = found.dir /\ runs' = runs + 1 /\ original' = found
      /\ UNCHANGED <<files, nativeAt, realityAt, realityNext, fetched>>
      /\ UNCHANGED <<member, canonical, rows, manifests, latest>>
  BY DEF StartRestore, Starting
<1>5. LET refused == Refusal(found, found.dir, code')
      IN /\ mainAt' = IF refused = "none" THEN "materialize" ELSE "failed"
         /\ verdict' = IF refused = "none" THEN "running" ELSE refused
  BY <1>4 DEF StartRestore
<1>6. \/ mainAt' = "materialize" /\ code' = found.version.code
      \/ mainAt' = "failed" /\ verdict' = "RESTORE_SOURCE_CODE_VERSION_MISMATCH"
  BY <1>3, <1>5 DEF ManifestTrue, Refusal
<1>7. found.dir \in Dirs /\ Complete(found.dir)
  BY <1>3 DEF ManifestTrue
<1>8. CollectTypeOK'
  <2>1. runs' \in Nat /\ runs' > 0
    <3>1. runs \in Nat
      BY DEF IInv, CollectInv, CollectTypeOK
    <3> QED BY <1>4, <3>1
  <2> QED BY <1>4, <1>7, <2>1 DEF IInv, CollectInv, CollectTypeOK
<1>9. ThreadsInv'
  BY <1>4, <1>6 DEF IInv, CollectInv, ThreadsInv, Busy
<1>10. SealedInv'
  BY <1>4, <1>6 DEF IInv, CollectInv, SealedInv, There, Complete, Gathering
<1>11. member = 1
  BY <1>4 DEF IInv, MaterializeInv
<1>12. Preserves
  BY <1>4 DEF Preserves
<1>13. CollectInv
  BY DEF IInv
<1>14. Complete(dir)'
  BY <1>4, <1>7 DEF Complete, There
<1>15. MaterializeInv'
  <2>1. \A i \in DOMAIN Order : ~(i < member')
    BY <1>4, <1>11, OrderFacts
  <2> QED BY <1>4, <1>6, <1>11, <1>14, <2>1 DEF IInv, MaterializeInv, Publishing, Gathering
<1>16. ManifestTrue(original)'
  <2>1. PICK y : y = found
    OBVIOUS
  <2>2. ManifestTrue(y)'
    BY <1>3, <1>12, <1>13, <2>1, ManifestStays
  <2> QED BY <1>4, <2>1, <2>2
<1>17. RestoreInv'
  BY <1>4, <1>6, <1>16 DEF RestoreInv
<1>18. PublishInv'
  BY <1>4, <1>6, <1>12, PublishedStays DEF IInv, PublishInv, Publishing
<1> QED BY <1>8, <1>9, <1>10, <1>15, <1>17, <1>18 DEF IInv, CollectInv

LEMMA ReplayMappingKeeps == ASSUME IInv, ReplayMapping PROVE IInv'
<1>1. /\ mainAt = "archived" /\ mainAt' \in {"materialize", "failed"}
      /\ UNCHANGED <<files, runs, dir, nativeAt, realityAt, realityNext, fetched>>
      /\ UNCHANGED <<original, member, canonical, rows, manifests, latest>>
  BY DEF ReplayMapping, Goes
<1>2. CollectInv'
  BY <1>1, AfterwardsKeeps DEF IInv
<1>3. original = NoManifest /\ member = 1 /\ Complete(dir)
  BY <1>1 DEF IInv, RestoreInv, MaterializeInv, CollectInv, SealedInv
<1>4. Complete(dir)'
  BY <1>1, <1>3 DEF Complete, There
<1>5. MaterializeInv'
  <2>1. \A i \in DOMAIN Order : ~(i < member')
    BY <1>1, <1>3, OrderFacts
  <2> QED BY <1>1, <1>3, <1>4, <2>1 DEF IInv, MaterializeInv, Publishing, Gathering
<1>6. RestoreInv'
  BY <1>1, <1>3 DEF RestoreInv
<1>7. Preserves
  BY <1>1 DEF Preserves
<1>8. PublishInv'
  BY <1>1, <1>7, PublishedStays DEF IInv, PublishInv, Publishing
<1> QED BY <1>2, <1>5, <1>6, <1>8 DEF IInv

(* The candles a member brings in are new, or the ones that are stored.    *)
LEMMA MaterializeMemberKeeps == ASSUME IInv, MaterializeMember PROVE IInv'
<1>1. /\ mainAt = "materialize" /\ member <= Len(Order) /\ RealityOf(member) # "fail"
      /\ canonical[Order[member]] \in {NothingStored, RealityOf(member)}
      /\ canonical' = [canonical EXCEPT ![Order[member]] = RealityOf(member)]
      /\ member' = member + 1
      /\ UNCHANGED <<files, runs, dir, mainAt, nativeAt, realityAt, realityNext, fetched>>
      /\ UNCHANGED <<code, original, rows, manifests, latest, verdict>>
  BY DEF MaterializeMember, collectVars, threadVars
<1>2. CollectInv /\ CollectInv'
  BY <1>1, UntouchedKeeps DEF IInv
<1>3. /\ member \in Nat \ {0} /\ Complete(dir) /\ dir \in Dirs
      /\ canonical \in [Members -> RealityData \cup {NothingStored}]
  BY <1>1, <1>2 DEF IInv, MaterializeInv, CollectInv, CollectTypeOK
<1>4. member \in DOMAIN Order
  BY <1>1, <1>3, OrderFacts
<1> DEFINE m == Order[member]
<1>5. m \in Members /\ Reality(m) \in Archives
  BY <1>4, OrderFacts, NamesFacts
<1>6. RealityOf(member) \in RealityData
  BY <1>2, <1>3, <1>5 DEF Complete, CollectInv, SealedInv, RealityOf
<1>7. /\ canonical' \in [Members -> RealityData \cup {NothingStored}]
      /\ canonical'[m] = RealityOf(member)
      /\ \A q \in Members : q # m => canonical'[q] = canonical[q]
  BY <1>1, <1>3, <1>5, <1>6
<1>8. Preserves
  BY <1>1, <1>7 DEF Preserves
<1>9. Complete(dir)'
  BY <1>1, <1>3 DEF Complete, There
<1>10. ASSUME NEW i \in DOMAIN Order, i < member + 1 PROVE MemberStored(dir, Order[i])'
  <2>1. CASE i < member
    <3>1. MemberStored(dir, Order[i])
      BY <1>1, <2>1 DEF IInv, MaterializeInv
    <3>2. files'[dir] = files[dir] /\ canonical'[Order[i]] = canonical[Order[i]]
      BY <1>1, <1>2, <1>3, <1>8, <3>1, StoredStays, OrderFacts
    <3> QED BY <1>1, <3>1, <3>2 DEF MemberStored
  <2>2. CASE ~(i < member)
    <3>1. i \in Nat
      BY OrderFacts
    <3>2. i = member
      BY <1>3, <1>10, <2>2, <3>1
    <3> QED BY <1>1, <1>7, <3>2 DEF MemberStored, RealityOf
  <2> QED BY <2>1, <2>2
<1>11. MaterializeInv'
  <2>1. member' \in Nat \ {0}
    BY <1>1, <1>3
  <2> QED BY <1>1, <1>7, <1>9, <1>10, <2>1 DEF MaterializeInv, Publishing, Gathering
<1>12. RestoreInv'
  BY <1>1, <1>2, <1>8, OriginalStays DEF IInv, RestoreInv
<1>13. PublishInv'
  BY <1>1, <1>2, <1>8, PublishedStays DEF IInv, PublishInv, Publishing
<1> QED BY <1>2, <1>11, <1>12, <1>13 DEF IInv

(* A build stops: a restore has no reason to.                              *)
LEMMA StopsKeeps ==
  ASSUME IInv, NEW why, Stops(why), original = NoManifest,
         mainAt \in {"materialize"} \cup Publishing
  PROVE  IInv'
<1>1. /\ mainAt' = "failed"
      /\ UNCHANGED <<files, runs, dir, nativeAt, realityAt, realityNext, fetched>>
      /\ UNCHANGED <<original, member, canonical, rows, manifests, latest>>
  BY DEF Stops, Goes
<1>2. CollectInv'
  BY <1>1, AfterwardsKeeps DEF IInv, Publishing
<1>3. MaterializeInv'
  BY <1>1 DEF IInv, MaterializeInv, Publishing, Gathering
<1>4. RestoreInv'
  BY <1>1 DEF RestoreInv
<1>5. Preserves
  BY <1>1 DEF Preserves
<1>6. PublishInv'
  BY <1>1, <1>5, PublishedStays DEF IInv, PublishInv, Publishing
<1> QED BY <1>2, <1>3, <1>4, <1>6 DEF IInv

LEMMA RejectKeeps == ASSUME IInv, RejectQuality \/ RejectRevision PROVE IInv'
<1>1. /\ mainAt = "materialize" /\ member <= Len(Order) /\ member \in Nat \ {0}
      /\ ~MemberStored(dir, Order[member]) \/ RealityOf(member) = "fail"
      /\ \E why : Stops(why)
  BY DEF IInv, MaterializeInv, RejectQuality, RejectRevision, MemberStored, RealityOf
<1>2. Order[member] \in Members
  BY <1>1, OrderFacts
<1>3. original = NoManifest
  BY <1>1, <1>2 DEF IInv, RestoreInv, ManifestTrue, MemberStored, RealityOf
<1> QED BY <1>1, <1>3, StopsKeeps

(* A restore computes its version again; a build has stored every member.  *)
LEMMA PersistManifestKeeps == ASSUME IInv, PersistManifest PROVE IInv'
<1>1. mainAt = "materialize" /\ member > Len(Order) /\ member \in Nat
  BY DEF PersistManifest, IInv, MaterializeInv
<1>2. original # NoManifest => VersionOf(dir) = original.version
  BY <1>1 DEF IInv, RestoreInv, ManifestTrue, VersionOf, DataOf
<1>3. /\ rows' = IF \E r \in rows : r.version = TheManifest.version THEN rows
                 ELSE rows \cup {TheManifest}
      /\ mainAt' = IF original = NoManifest THEN "manifest" ELSE "ended"
      /\ UNCHANGED <<files, runs, dir, nativeAt, realityAt, realityNext, fetched>>
      /\ UNCHANGED <<code, original, member, canonical, manifests, latest, verdict>>
  BY <1>2 DEF PersistManifest, Goes
<1>4. CollectInv /\ CollectInv'
  BY <1>1, <1>3, AfterwardsKeeps DEF IInv
<1>5. Preserves
  BY <1>3 DEF Preserves
<1>6. \A m \in Members : MemberStored(dir, m)
  <2>1. ASSUME NEW m \in Members PROVE MemberStored(dir, m)
    <3>1. PICK i \in DOMAIN Order : Order[i] = m
      BY OrderFacts
    <3>2. i \in 1 .. Len(Order) /\ Len(Order) \in Nat
      BY OrderFacts
    <3>3. i < member
      BY <1>1, <3>2
    <3> QED BY <1>1, <3>1, <3>3 DEF IInv, MaterializeInv
  <2> QED BY <2>1
<1>7. (\A m \in Members : MemberStored(dir, m))' /\ Complete(dir)'
  BY <1>1, <1>3, <1>6 DEF MemberStored, Complete, There, IInv, MaterializeInv
<1>8. MaterializeInv'
  BY <1>1, <1>3, <1>7 DEF IInv, MaterializeInv, Publishing, Gathering
<1>9. RestoreInv'
  BY <1>3, <1>4, <1>5, OriginalStays DEF IInv, RestoreInv
<1>10. original = NoManifest => \E r \in rows' : r.version = VersionOf(dir)'
  <2>1. VersionOf(dir)' = VersionOf(dir)
    BY <1>3 DEF VersionOf
  <2>2. original = NoManifest => TheManifest.version = VersionOf(dir)
    BY DEF TheManifest, NewManifest
  <2> QED BY <1>3, <2>1, <2>2
<1>11. PublishInv'
  <2>1. rows \subseteq rows'
    BY <1>3
  <2> QED BY <1>3, <1>4, <1>5, <1>10, <2>1, PublishedStays DEF IInv, PublishInv, Publishing
<1> QED BY <1>4, <1>8, <1>9, <1>11 DEF IInv

LEMMA WriteManifestKeeps == ASSUME IInv, WriteManifest PROVE IInv'
<1>1. /\ mainAt = "manifest" /\ mainAt' = "latest"
      /\ manifests' = {x \in manifests : x.version # FileName} \cup {NewManifest}
      /\ UNCHANGED <<files, runs, dir, nativeAt, realityAt, realityNext, fetched>>
      /\ UNCHANGED <<code, original, member, canonical, rows, latest>>
  BY DEF WriteManifest, MetaRename
<1>2. CollectInv /\ CollectInv'
  BY <1>1, AfterwardsKeeps DEF IInv
<1>3. Preserves
  BY <1>1 DEF Preserves
<1>4. original = NoManifest
  BY <1>1 DEF IInv, RestoreInv
<1>5. /\ dir \in Dirs /\ Complete(dir) /\ \A m \in Members : MemberStored(dir, m)
      /\ \E r \in rows : r.version = VersionOf(dir)
  BY <1>1, <1>2 DEF IInv, MaterializeInv, PublishInv, Publishing, CollectInv, CollectTypeOK
<1>6. ManifestTrue(NewManifest)
  BY <1>5 DEF ManifestTrue, NewManifest, VersionOf, DataOf
<1>7. \A x \in manifests' : ManifestTrue(x)'
  <2>1. \A x \in manifests' : ManifestTrue(x)
    BY <1>1, <1>6 DEF IInv, PublishInv
  <2> QED BY <1>2, <1>3, <2>1, ManifestStays
<1>8. MaterializeInv'
  BY <1>1, <1>5 DEF IInv, MaterializeInv, Publishing, Gathering, MemberStored, Complete, There
<1>9. RestoreInv'
  BY <1>1, <1>4 DEF RestoreInv
<1>10. VersionOf(dir)' = VersionOf(dir) /\ NewManifest.version = VersionOf(dir)
       /\ NewManifest \in manifests' /\ FileName = VersionOf(dir)
  BY <1>1 DEF VersionOf, NewManifest, FileName
<1>11. LatestGrounded'
  <2>1. latest # NoVersion => \E x \in manifests' : x.version = latest
    BY <1>1, <1>10 DEF IInv, PublishInv, LatestGrounded
  <2> QED BY <1>1, <2>1 DEF IInv, PublishInv, LatestGrounded
<1>12. PublishInv'
  BY <1>1, <1>5, <1>7, <1>10, <1>11 DEF PublishInv, Publishing
<1> QED BY <1>2, <1>8, <1>9, <1>12 DEF IInv

LEMMA WriteLatestKeeps == ASSUME IInv, WriteLatest PROVE IInv'
<1>1. /\ mainAt = "latest" /\ mainAt' = "ended" /\ latest' = VersionOf(dir)
      /\ UNCHANGED <<files, runs, dir, nativeAt, realityAt, realityNext, fetched>>
      /\ UNCHANGED <<code, original, member, canonical, rows, manifests>>
  BY DEF WriteLatest, MetaRename, FileName
<1>2. CollectInv /\ CollectInv'
  BY <1>1, AfterwardsKeeps DEF IInv
<1>3. Preserves
  BY <1>1 DEF Preserves
<1>4. original = NoManifest
  BY <1>1 DEF IInv, RestoreInv
<1>5. MaterializeInv'
  BY <1>1 DEF IInv, MaterializeInv, Publishing, Gathering
<1>6. RestoreInv'
  BY <1>1, <1>4 DEF RestoreInv
<1>7. \A x \in manifests : ManifestTrue(x)'
  BY <1>2, <1>3, ManifestStays DEF IInv, PublishInv
<1>8. LatestGrounded'
  BY <1>1 DEF IInv, PublishInv, LatestGrounded, Publishing
<1>9. PublishInv'
  BY <1>1, <1>7, <1>8 DEF PublishInv, Publishing
<1> QED BY <1>2, <1>5, <1>6, <1>9 DEF IInv

LEMMA CommandGoneKeeps == ASSUME IInv, CommandGone PROVE IInv'
<1>1. /\ mainAt' = "off" /\ nativeAt' = [m \in Members |-> "none"] /\ realityAt' = "none"
      /\ realityNext' = 1
      /\ fetched' = [th \in Members \cup {"main", "reality"} |-> "nothing"]
      /\ UNCHANGED <<files, runs>>
      /\ original' = NoManifest /\ member' = 1
      /\ UNCHANGED <<canonical, rows, manifests, latest>>
  BY DEF CommandGone, ThreadsGone
<1>2. CollectTypeOK'
  <2>1. nativeAt' \in [Members -> {"none", "begin", "checkpoint", "archive", "done", "reaped",
                                   "file exists"}]
    BY <1>1
  <2>2. "nothing" \in Data
    BY DEF Data
  <2>3. fetched' \in [Members \cup {"main", "reality"} -> Data]
    BY <1>1, <2>2
  <2>4. files' \in [Dirs -> [Names -> [by : Nat, data : Data]]] /\ runs' \in Nat
    BY <1>1 DEF IInv, CollectInv, CollectTypeOK
  <2> QED BY <1>1, <2>1, <2>3, <2>4 DEF CollectTypeOK
<1>3. ThreadsInv'
  BY <1>1 DEF ThreadsInv, Busy
<1>4. SealedInv'
  BY <1>1 DEF IInv, CollectInv, SealedInv, There, Complete, Gathering
<1>5. MaterializeInv'
  BY <1>1 DEF IInv, MaterializeInv, Publishing
<1>6. RestoreInv'
  BY <1>1 DEF RestoreInv
<1>7. Preserves
  BY <1>1 DEF Preserves
<1>8. PublishInv'
  BY <1>1, <1>7, PublishedStays DEF IInv, PublishInv, Publishing
<1> QED BY <1>2, <1>3, <1>4, <1>5, <1>6, <1>8 DEF IInv, CollectInv

LEMMA StepKeeps == ASSUME IInv, [BuildNext]_allBuildVars PROVE IInv'
<1>1. CASE StartBuild
  BY <1>1, StartBuildKeeps
<1>2. CASE StartRestore
  BY <1>2, StartRestoreKeeps
<1>3. CASE Collecting
  BY <1>3, CollectingKeeps
<1>4. CASE ReplayMapping
  BY <1>4, ReplayMappingKeeps
<1>5. CASE MaterializeMember
  BY <1>5, MaterializeMemberKeeps
<1>6. CASE RejectQuality \/ RejectRevision
  BY <1>6, RejectKeeps
<1>7. CASE PersistManifest
  BY <1>7, PersistManifestKeeps
<1>8. CASE OpenManifest \/ OpenLatest
  BY <1>8, PendingKeeps DEF OpenManifest, OpenLatest, MetaOpen
<1>9. CASE WriteManifest
  BY <1>9, WriteManifestKeeps
<1>10. CASE WriteLatest
  BY <1>10, WriteLatestKeeps
<1>11. CASE PublicationBlocked
  <2>1. mainAt \in Publishing /\ Stops("file exists")
    BY <1>11 DEF PublicationBlocked, Publishing
  <2>2. original = NoManifest
    BY <2>1 DEF IInv, RestoreInv, Publishing
  <2> QED BY <2>1, <2>2, StopsKeeps
<1>12. CASE Ends \/ Dies
  BY <1>12, CommandGoneKeeps DEF Ends, Dies
<1>13. CASE UNCHANGED allBuildVars
  BY <1>13, PendingKeeps DEF allBuildVars, collectVars, threadVars, buildVars
<1> QED BY <1>1, <1>2, <1>3, <1>4, <1>5, <1>6, <1>7, <1>8, <1>9, <1>10, <1>11, <1>12, <1>13
        DEF BuildNext, Step

(***************************************************************************)
(* The theorems.                                                           *)
(***************************************************************************)
(* Sealed directories, stored candles, the manifests and the command that  *)
(* runs agree after every step, deaths and restores included               *)
(* (dataset_cli.py:93-155, dataset_fetch.py:54-211).                       *)
THEOREM Inductive == BuildSpec => []IInv
<1>1. BuildInit => IInv
  BY InitHolds
<1>2. IInv /\ [BuildNext]_allBuildVars => IInv'
  BY StepKeeps
<1> QED BY <1>1, <1>2, PTL DEF BuildSpec

(* The latest manifest can be restored by the code that built it, however  *)
(* many builds came and died since (dataset_cli.py:93-135).                *)
THEOREM Restorable == BuildSpec => []RestoreExact
<1>1. IInv => RestoreExact
  BY DEF IInv, RestoreInv, RestoreExact
<1> QED BY <1>1, Inductive, PTL

(* latest.json never names a version without its manifest file or its row  *)
(* (dataset_cli.py:152-155).                                               *)
THEOREM LatestIsGrounded == BuildSpec => []LatestGrounded
<1>1. IInv => LatestGrounded
  BY DEF IInv, PublishInv
<1> QED BY <1>1, Inductive, PTL

(* No step writes an archive again, nor any file of a complete directory   *)
(* (dataset_fetch.py:54-59, 75, 153, dataset_artifacts.py:47).             *)
THEOREM Sealed == BuildSpec => SealedCollection
<1>1. IInv /\ [BuildNext]_allBuildVars => [Seals]_files
  <2> SUFFICES ASSUME IInv, [BuildNext]_allBuildVars PROVE [Seals]_files
    OBVIOUS
  <2>1. CASE Collecting
    BY <2>1, CollectSeals DEF IInv, Collecting
  <2>2. CASE ~Collecting
    BY <2>2 DEF BuildNext, Step, StartBuild, Collect, StartRestore, ReplayMapping, Goes,
                MaterializeMember, collectVars, RejectQuality, RejectRevision, Stops,
                PersistManifest, OpenManifest, OpenLatest, MetaOpen, WriteManifest, WriteLatest,
                MetaRename, PublicationBlocked, Ends, Dies, CommandGone, ThreadsGone, allBuildVars
  <2> QED BY <2>1, <2>2
<1> QED BY <1>1, Inductive, PTL DEF BuildSpec, SealedCollection

=============================================================================
