------------------------- MODULE MarketDataProofs -------------------------
(***************************************************************************)
(* Proofs about SessionTargets, for every set of builders, of quotes and   *)
(* of error codes, and every session, and about NativeHistory, for every   *)
(* set of rows, tokens and windows and every limit.                        *)
(***************************************************************************)
EXTENDS SessionTargets, NativeHistory, LoopFacts, TLAPS

Rows == FetchedRows \cup EditedRows \cup {NoRow}

(* What prepare_target accepts of a leg.                                   *)
LEMMA AcceptedLegs ==
  ASSUME NEW side \in Sides, NEW leg, AcceptedLeg(side, leg)
  PROVE  \/ /\ leg.history = NoHistory /\ CandleOf(leg) = NoQuote
            /\ leg.status \in {"PROVIDER_FAILURE", "STRUCTURAL_FAILURE", "UNKNOWN"}
         \/ /\ leg.history # NoHistory /\ leg.status = "MISSING_BOUNDARY_MINUTE"
            /\ CandleOf(leg) = NoQuote
            /\ \A i \in DOMAIN leg.history.page : leg.history.page[i].t # Boundary(side)
         \/ /\ leg.history # NoHistory /\ leg.status = "AVAILABLE"
            /\ CandleOf(leg).t = Boundary(side) /\ CandleOf(leg) # NoQuote
            /\ CandleOf(leg) \in {leg.history.bars[i] : i \in DOMAIN leg.history.bars}
            /\ \E i \in DOMAIN leg.history.page : leg.history.page[i] = CandleOf(leg)
<1>1. CASE leg.history = NoHistory
  BY <1>1 DEF AcceptedLeg, CandleOf, NoHistory
<1>2. CASE leg.history # NoHistory
  <2> DEFINE page == leg.history.page
             asked == {i \in DOMAIN page : page[i].t = Boundary(side)}
  <2>1. /\ \/ asked = {} /\ leg.history.bars = <<>>
           \/ \E i \in asked : asked = {i} /\ leg.history.bars = <<page[i]>>
        /\ leg.status = IF leg.history.bars = <<>> THEN "MISSING_BOUNDARY_MINUTE" ELSE "AVAILABLE"
    BY <1>2 DEF AcceptedLeg, ReplayedFrom
  <2>2. CASE asked = {} /\ leg.history.bars = <<>>
    BY <1>2, <2>1, <2>2 DEF CandleOf
  <2>3. ASSUME NEW i \in asked, leg.history.bars = <<page[i]>>
        PROVE  /\ leg.status = "AVAILABLE" /\ CandleOf(leg) = page[i]
               /\ CandleOf(leg).t = Boundary(side) /\ CandleOf(leg) # NoQuote
               /\ CandleOf(leg) \in {leg.history.bars[j] : j \in DOMAIN leg.history.bars}
    <3>1. leg.history.bars # <<>> /\ leg.history.bars[1] = page[i]
          /\ 1 \in DOMAIN leg.history.bars
      BY <2>3
    <3>2. leg.status = "AVAILABLE" /\ CandleOf(leg) = page[i]
      BY <2>1, <3>1 DEF CandleOf
    <3>3. page[i].t = Boundary(side)
      BY <2>3
    <3>4. Boundary(side) \in Nat
      BY MinuteAssumption DEF Boundary
    <3>5. page[i] # NoQuote
      BY <3>3, <3>4 DEF NoQuote
    <3> QED BY <3>1, <3>2, <3>3, <3>5
  <2> QED BY <1>2, <2>1, <2>2, <2>3
<1> QED BY <1>1, <1>2

(* Evidence stays where it is.                                             *)
LEMMA GroundedStays ==
  ASSUME legRuns \subseteq legRuns', minutes \subseteq minutes',
         NEW side, NEW said, NEW ref, LegGrounded(side, said, ref)
  PROVE  LegGrounded(side, said, ref)'
<1>1. PICK r \in legRuns :
        /\ r.run = ref.run
        /\ ref.candle = said.candle
        /\ CASE said.status = "AVAILABLE" ->
                  /\ r.status = "SUCCEEDED"
                  /\ said.candle \in minutes /\ \E i \in DOMAIN r.page : r.page[i] = said.candle
                  /\ said.candle.t = Boundary(side)
             [] said.status = "MISSING_BOUNDARY_MINUTE" ->
                  /\ r.status = "SUCCEEDED"
                  /\ said.candle = NoQuote
                  /\ \A i \in DOMAIN r.page : r.page[i].t # Boundary(side)
             [] OTHER -> /\ r.status = "FAILED"
                         /\ r.code = said.code \/ said.code = "none"
                         /\ said.candle = NoQuote
  BY DEF LegGrounded
<1>2. r \in legRuns'
  BY <1>1
<1>3. said.candle \in minutes => said.candle \in minutes'
  OBVIOUS
<1> QED BY <1>1, <1>2, <1>3 DEF LegGrounded

LEMMA TargetsStay ==
  ASSUME TargetsGrounded, legRuns \subseteq legRuns', minutes \subseteq minutes',
         targets' = targets,
         \A b \in Builders : progress'[b] = "ended" =>
           \E t \in targets : t.version = TargetVersion(archived'[b])
  PROVE  TargetsGrounded'
<1>1. \A t \in targets, side \in Sides : LegGrounded(side, t.version[side], t[side])'
  BY GroundedStays DEF TargetsGrounded
<1>2. (\A b \in Builders : progress[b] = "ended" =>
         \E t \in targets : t.version = TargetVersion(archived[b]))'
  BY DEF TargetVersion
<1> QED BY <1>1, <1>2 DEF TargetsGrounded

LEMMA SupportedStays ==
  ASSUME legRuns \subseteq legRuns', minutes \subseteq minutes',
         NEW b, NEW side, archived'[b] = archived[b], Supported(b, side)
  PROVE  Supported(b, side)'
<1>1. PICK said, ref : said = TargetVersion(archived[b])[side] /\ ref = RefOf(b, side)
  OBVIOUS
<1>2. LegGrounded(side, said, ref)'
  BY <1>1, GroundedStays DEF Supported
<1>3. TargetVersion(archived[b])[side]' = said /\ RefOf(b, side)' = ref
  BY <1>1 DEF TargetVersion, RefOf
<1> QED BY <1>2, <1>3 DEF Supported

(* A builder moves on, and nothing it has is lost.                         *)
LEMMA MovesKeeps ==
  ASSUME TargetInv, NEW b \in Builders, NEW to \in {"ended", "failed"} \cup Building,
         Proceeds(b, to), legRuns \subseteq legRuns', minutes \subseteq minutes',
         archived' \in [Builders -> FetchedRows \cup EditedRows \cup {NoRow}],
         \A q \in Builders : q # b => archived'[q] = archived[q],
         to \in Building => Accepted(archived'[b]),
         to \in {"close", "insert"} => Supported(b, "open")',
         to = "insert" => Supported(b, "close")'
  PROVE  TargetTypeOK' /\ BuildersInv'
<1>1. progress' = [progress EXCEPT ![b] = to]
      /\ progress \in [Builders -> {"idle", "ended", "failed"} \cup Building]
  BY DEF Proceeds, TargetInv, TargetTypeOK
<1>2. TargetTypeOK'
  BY <1>1 DEF TargetTypeOK
<1>3. ASSUME NEW q \in Builders
      PROVE  /\ (progress[q] \in Building => Accepted(archived[q]))'
             /\ (progress[q] \in {"close", "insert"} => Supported(q, "open"))'
             /\ (progress[q] = "insert" => Supported(q, "close"))'
  <2>1. CASE q = b
    <3>1. progress'[q] = to
      BY <1>1, <2>1
    <3>2. Accepted(archived'[b]) => Accepted(archived[q])'
      BY <2>1 DEF Accepted
    <3>3. /\ Supported(b, "open")' => Supported(q, "open")'
          /\ Supported(b, "close")' => Supported(q, "close")'
      BY <2>1
    <3> QED BY <3>1, <3>2, <3>3
  <2>2. CASE q # b
    <3>1. progress'[q] = progress[q] /\ archived'[q] = archived[q]
      BY <1>1, <2>2
    <3>2. progress[q] \in Building => Accepted(archived[q])'
      BY <3>1 DEF TargetInv, BuildersInv, Accepted
    <3>3. progress[q] \in {"close", "insert"} => Supported(q, "open")'
      BY <3>1, SupportedStays DEF TargetInv, BuildersInv
    <3>4. progress[q] = "insert" => Supported(q, "close")'
      BY <3>1, SupportedStays DEF TargetInv, BuildersInv
    <3> QED BY <3>1, <3>2, <3>3, <3>4
  <2> QED BY <2>1, <2>2
<1> QED BY <1>2, <1>3 DEF BuildersInv

(* A builder that goes on short of the end touches no target.              *)
LEMMA GoesOnKeeps ==
  ASSUME TargetInv, NEW b \in Builders, NEW to \in {"failed"} \cup Building,
         Proceeds(b, to), legRuns \subseteq legRuns', minutes \subseteq minutes',
         targets' = targets,
         archived' \in [Builders -> FetchedRows \cup EditedRows \cup {NoRow}],
         \A q \in Builders : q # b => archived'[q] = archived[q],
         to \in Building => Accepted(archived'[b]),
         to \in {"close", "insert"} => Supported(b, "open")',
         to = "insert" => Supported(b, "close")'
  PROVE  TargetInv'
<1>1. TargetTypeOK' /\ BuildersInv'
  BY MovesKeeps
<1>2. \A q \in Builders : progress'[q] = "ended" => q # b /\ progress[q] = "ended"
  BY DEF Proceeds, TargetInv, TargetTypeOK, Building
<1>3. TargetsGrounded'
  BY <1>2, TargetsStay DEF TargetInv, TargetsGrounded
<1> QED BY <1>1, <1>3 DEF TargetInv

LEMMA GivesUpKeeps ==
  ASSUME TargetInv, NEW b \in Builders, GivesUp(b), legRuns \subseteq legRuns',
         minutes \subseteq minutes', targets' = targets
  PROVE  TargetInv'
<1>1. Proceeds(b, "failed") /\ archived' = [archived EXCEPT ![b] = NoRow]
      /\ archived \in [Builders -> FetchedRows \cup EditedRows \cup {NoRow}]
  BY DEF GivesUp, TargetInv, TargetTypeOK
<1>2. archived' \in [Builders -> FetchedRows \cup EditedRows \cup {NoRow}]
      /\ \A q \in Builders : q # b => archived'[q] = archived[q]
  BY <1>1
<1> QED BY <1>1, <1>2, GoesOnKeeps DEF Building

LEMMA PrepareKeeps ==
  ASSUME TargetInv, NEW b \in Builders, NEW row \in FetchedRows \cup EditedRows,
         PrepareTarget(b, row)
  PROVE  TargetInv'
<1>1. CASE Accepted(row)
  <2>1. Proceeds(b, "lookup") /\ archived' = [archived EXCEPT ![b] = row]
        /\ archived \in [Builders -> FetchedRows \cup EditedRows \cup {NoRow}]
        /\ UNCHANGED <<legRuns, minutes, targets>>
    BY <1>1 DEF PrepareTarget, TargetInv, TargetTypeOK
  <2>2. archived' \in [Builders -> FetchedRows \cup EditedRows \cup {NoRow}]
        /\ archived'[b] = row /\ \A q \in Builders : q # b => archived'[q] = archived[q]
    BY <2>1
  <2> QED BY <1>1, <2>1, <2>2, GoesOnKeeps DEF Building
<1>2. CASE ~Accepted(row)
  BY <1>2, GivesUpKeeps DEF PrepareTarget
<1> QED BY <1>1, <1>2

LEMMA LookUpKeeps == ASSUME TargetInv, NEW b \in Builders, LookUp(b) PROVE TargetInv'
<1>1. progress[b] = "lookup" /\ UNCHANGED <<archived, legRuns, minutes, targets>>
      /\ Accepted(archived[b])
      /\ archived \in [Builders -> FetchedRows \cup EditedRows \cup {NoRow}]
  BY DEF LookUp, TargetInv, TargetTypeOK, BuildersInv, Building
<1>2. CASE Known(b)
  <2>1. Proceeds(b, "ended")
    BY <1>2 DEF LookUp
  <2>2. TargetTypeOK' /\ BuildersInv'
    BY <1>1, <2>1, MovesKeeps DEF Building
  <2>3. \A q \in Builders : progress'[q] = "ended" => q = b \/ progress[q] = "ended"
    BY <2>1 DEF Proceeds, TargetInv, TargetTypeOK
  <2>4. TargetsGrounded'
    BY <1>1, <1>2, <2>3, TargetsStay DEF Known, TargetInv, TargetsGrounded
  <2> QED BY <2>2, <2>4 DEF TargetInv
<1>3. CASE ~Known(b)
  <2>1. Proceeds(b, "open")
    BY <1>3 DEF LookUp
  <2> QED BY <1>1, <2>1, GoesOnKeeps DEF Building
<1> QED BY <1>2, <1>3

(* A builder is through with a leg whose evidence is there.                *)
LEMMA LegDone ==
  ASSUME TargetInv, NEW b \in Builders, NEW side \in Sides, progress[b] = side,
         Proceeds(b, After(side)), UNCHANGED <<archived, targets>>,
         legRuns \subseteq legRuns', minutes \subseteq minutes', Supported(b, side)'
  PROVE  TargetInv'
<1>1. Accepted(archived[b])
      /\ archived \in [Builders -> FetchedRows \cup EditedRows \cup {NoRow}]
  BY DEF TargetInv, TargetTypeOK, BuildersInv, Building, Sides
<1>2. CASE side = "open"
  BY <1>1, <1>2, GoesOnKeeps DEF After, Building
<1>3. CASE side = "close"
  <2>1. Supported(b, "open")
    BY <1>3 DEF TargetInv, BuildersInv
  <2>2. Supported(b, "open")'
    BY <2>1, SupportedStays
  <2> QED BY <1>1, <1>3, <2>2, GoesOnKeeps DEF After, Building
<1> QED BY <1>2, <1>3 DEF Sides

(* The run that names a leg, and says of it what its status wants.         *)
LEMMA LegSupported ==
  ASSUME TargetInv, NEW b \in Builders, NEW side \in Sides, progress[b] = side,
         NEW r \in legRuns', r.run = <<b, side>>, archived' = archived,
         LET leg == archived[b][side]
         IN IF leg.history = NoHistory
            THEN r.status = "FAILED" /\ (r.code = leg.code \/ leg.code = "none")
            ELSE /\ r.status = "SUCCEEDED" /\ r.page = leg.history.page
                 /\ {leg.history.bars[i] : i \in DOMAIN leg.history.bars} \subseteq minutes'
  PROVE  Supported(b, side)'
<1> DEFINE leg == archived[b][side]
           said == TargetVersion(archived[b])[side]
<1>1. AcceptedLeg(side, leg)
  BY DEF TargetInv, BuildersInv, Building, Sides, Accepted
<1>2. /\ said.status = leg.status /\ said.code = leg.code /\ said.candle = CandleOf(leg)
      /\ RefOf(b, side).run = r.run /\ RefOf(b, side).candle = said.candle
  BY DEF TargetVersion, RefOf
<1>3. /\ CASE said.status = "AVAILABLE" ->
                /\ r.status = "SUCCEEDED"
                /\ said.candle \in minutes' /\ \E i \in DOMAIN r.page : r.page[i] = said.candle
                /\ said.candle.t = Boundary(side)
           [] said.status = "MISSING_BOUNDARY_MINUTE" ->
                /\ r.status = "SUCCEEDED"
                /\ said.candle = NoQuote
                /\ \A i \in DOMAIN r.page : r.page[i].t # Boundary(side)
           [] OTHER -> /\ r.status = "FAILED"
                       /\ r.code = said.code \/ said.code = "none"
                       /\ said.candle = NoQuote
  <2> HIDE DEF said
  <2>1. CASE leg.history = NoHistory
    BY <1>1, <1>2, <2>1, AcceptedLegs
  <2>2. CASE leg.history # NoHistory /\ leg.status = "MISSING_BOUNDARY_MINUTE"
    BY <1>1, <1>2, <2>2, AcceptedLegs
  <2>3. CASE leg.history # NoHistory /\ leg.status = "AVAILABLE"
    BY <1>1, <1>2, <2>3, AcceptedLegs
  <2> QED BY <1>1, <2>1, <2>2, <2>3, AcceptedLegs
<1>4. TargetVersion(archived'[b])[side] = said /\ RefOf(b, side)' = RefOf(b, side)
  BY DEF TargetVersion, RefOf
<1> HIDE DEF said
<1> QED BY <1>2, <1>3, <1>4 DEF Supported, LegGrounded

LEMMA RecordFailureKeeps ==
  ASSUME TargetInv, NEW b \in Builders, NEW side \in Sides, RecordFailure(b, side)
  PROVE  TargetInv'
<1> DEFINE code == archived[b][side].code
           r == NewRun(b, side, "FAILED", IF code = "none" THEN "TARGET_UNKNOWN" ELSE code, <<>>)
<1>1. /\ progress[b] = side /\ archived[b][side].history = NoHistory
      /\ legRuns' = legRuns \cup {r} /\ Proceeds(b, After(side))
      /\ UNCHANGED <<archived, minutes, targets>>
  BY DEF RecordFailure
<1>2. r.run = <<b, side>> /\ r.status = "FAILED" /\ (r.code = code \/ code = "none")
  BY DEF NewRun
<1> HIDE DEF r
<1>3. Supported(b, side)'
  BY <1>1, <1>2, LegSupported
<1> QED BY <1>1, <1>3, LegDone

LEMMA PersistLegKeeps ==
  ASSUME TargetInv, NEW b \in Builders, NEW side \in Sides, PersistLeg(b, side)
  PROVE  TargetInv'
<1> DEFINE history == archived[b][side].history
           r == NewRun(b, side, "SUCCEEDED", "none", history.page)
<1>1. progress[b] = side /\ history # NoHistory /\ targets' = targets
      /\ legRuns \subseteq legRuns' /\ minutes \subseteq minutes'
  BY DEF PersistLeg
<1>2. CASE GivesUp(b)
  BY <1>1, <1>2, GivesUpKeeps
<1>3. CASE ~GivesUp(b)
  <2>1. /\ minutes' = minutes \cup {history.bars[i] : i \in DOMAIN history.bars}
        /\ legRuns' = legRuns \cup {r}
        /\ Proceeds(b, After(side)) /\ UNCHANGED archived
    BY <1>3 DEF PersistLeg
  <2>2. r.run = <<b, side>> /\ r.status = "SUCCEEDED" /\ r.page = history.page
    BY DEF NewRun
  <2> HIDE DEF r
  <2>3. Supported(b, side)'
    BY <1>1, <2>1, <2>2, LegSupported
  <2> QED BY <1>1, <2>1, <2>3, LegDone
<1> QED BY <1>2, <1>3

(* A pair is available if both its legs are.                               *)
LEMMA PairAvailable ==
  ASSUME NEW row, Accepted(row)
  PROVE  PairStatus(row.open.status, row.close.status) = "TARGET_AVAILABLE"
           <=> NoQuote \notin {CandleOf(row.open), CandleOf(row.close)}
<1>1. AcceptedLeg("open", row.open) /\ AcceptedLeg("close", row.close)
      /\ "open" \in Sides /\ "close" \in Sides
  BY DEF Accepted, Sides
<1>2. /\ row.open.status = "AVAILABLE" <=> CandleOf(row.open) # NoQuote
      /\ row.open.status \in {"PROVIDER_FAILURE", "STRUCTURAL_FAILURE", "UNKNOWN",
                              "MISSING_BOUNDARY_MINUTE", "AVAILABLE"}
  BY <1>1, AcceptedLegs
<1>3. /\ row.close.status = "AVAILABLE" <=> CandleOf(row.close) # NoQuote
      /\ row.close.status \in {"PROVIDER_FAILURE", "STRUCTURAL_FAILURE", "UNKNOWN",
                               "MISSING_BOUNDARY_MINUTE", "AVAILABLE"}
  BY <1>1, AcceptedLegs
<1> QED BY <1>2, <1>3 DEF PairStatus

LEMMA InsertKeeps == ASSUME TargetInv, NEW b \in Builders, InsertTarget(b) PROVE TargetInv'
<1> DEFINE row == archived[b]
           target == [version |-> TargetVersion(row),
                      status |-> PairStatus(row.open.status, row.close.status),
                      open |-> RefOf(b, "open"), close |-> RefOf(b, "close")]
<1>1. /\ progress[b] = "insert" /\ UNCHANGED <<legRuns, minutes>>
      /\ targets' = IF Known(b) THEN targets ELSE targets \cup {target}
      /\ GivesUp(b) \/ (Proceeds(b, "ended") /\ UNCHANGED archived)
  BY DEF InsertTarget
<1>2. Accepted(row) /\ Supported(b, "open") /\ Supported(b, "close")
  BY <1>1 DEF TargetInv, BuildersInv, Building
<1>3. archived \in [Builders -> FetchedRows \cup EditedRows \cup {NoRow}]
  BY DEF TargetInv, TargetTypeOK
<1>4. TargetTypeOK' /\ BuildersInv'
  <2>1. CASE GivesUp(b)
    <3>1. Proceeds(b, "failed") /\ archived' = [archived EXCEPT ![b] = NoRow]
      BY <2>1 DEF GivesUp
    <3>2. archived' \in [Builders -> FetchedRows \cup EditedRows \cup {NoRow}]
          /\ \A q \in Builders : q # b => archived'[q] = archived[q]
      BY <1>3, <3>1
    <3> QED BY <1>1, <3>1, <3>2, MovesKeeps DEF Building
  <2>2. CASE Proceeds(b, "ended") /\ UNCHANGED archived
    BY <1>1, <1>3, <2>2, MovesKeeps DEF Building
  <2> QED BY <1>1, <2>1, <2>2
<1>5. \A t \in targets :
        /\ \A side \in Sides : LegGrounded(side, t.version[side], t[side])
        /\ t.status = "TARGET_AVAILABLE" <=> NoQuote \notin {t.open.candle, t.close.candle}
        /\ \A q \in targets : q.version = t.version => q = t
  BY DEF TargetInv, TargetsGrounded
<1>6. /\ target.version = TargetVersion(row)
      /\ \A side \in Sides : LegGrounded(side, target.version[side], target[side])
      /\ target.status = "TARGET_AVAILABLE"
           <=> NoQuote \notin {target.open.candle, target.close.candle}
  <2>1. target.open = RefOf(b, "open") /\ target.close = RefOf(b, "close")
        /\ target["open"] = RefOf(b, "open") /\ target["close"] = RefOf(b, "close")
        /\ target.version = TargetVersion(row)
        /\ target.status = PairStatus(row.open.status, row.close.status)
    OBVIOUS
  <2> HIDE DEF target
  <2>2. \A side \in Sides : LegGrounded(side, target.version[side], target[side])
    BY <1>2, <2>1 DEF Supported, Sides
  <2>3. target.open.candle = CandleOf(row.open) /\ target.close.candle = CandleOf(row.close)
    BY <2>1 DEF RefOf
  <2> QED BY <1>2, <2>1, <2>2, <2>3, PairAvailable
<1> HIDE DEF target
<1>7. \A t \in targets' :
        /\ \A side \in Sides : LegGrounded(side, t.version[side], t[side])
        /\ t.status = "TARGET_AVAILABLE" <=> NoQuote \notin {t.open.candle, t.close.candle}
        /\ \A q \in targets' : q.version = t.version => q = t
  BY <1>1, <1>5, <1>6 DEF Known
<1>8. \A q \in Builders : progress'[q] = "ended" =>
        \E t \in targets' : t.version = TargetVersion(archived'[q])
  <2> SUFFICES ASSUME NEW q \in Builders, progress'[q] = "ended"
               PROVE  \E t \in targets' : t.version = TargetVersion(archived'[q])
    OBVIOUS
  <2>1. CASE q = b
    <3>1. archived' = archived
      BY <1>1, <2>1 DEF GivesUp, Proceeds, TargetInv, TargetTypeOK
    <3> QED BY <1>1, <1>6, <2>1, <3>1 DEF Known
  <2>2. CASE q # b
    <3>1. progress[q] = "ended" /\ archived'[q] = archived[q]
      BY <1>1, <1>3, <2>2 DEF GivesUp, Proceeds, TargetInv, TargetTypeOK
    <3>2. \E t \in targets : t.version = TargetVersion(archived[q])
      BY <3>1 DEF TargetInv, TargetsGrounded
    <3> QED BY <1>1, <3>1, <3>2
  <2> QED BY <2>1, <2>2
<1>9. \A t \in targets', side \in Sides : LegGrounded(side, t.version[side], t[side])'
  BY <1>1, <1>7, GroundedStays
<1>10. (\A q \in Builders : progress[q] = "ended" =>
          \E t \in targets : t.version = TargetVersion(archived[q]))'
  BY <1>8 DEF TargetVersion
<1>11. TargetsGrounded'
  BY <1>7, <1>9, <1>10 DEF TargetsGrounded
<1> QED BY <1>4, <1>11 DEF TargetInv

LEMMA TargetInitHolds == ASSUME TargetInit PROVE TargetInv
<1>1. TargetTypeOK
  BY DEF TargetInit, TargetTypeOK
<1>2. BuildersInv
  BY DEF TargetInit, BuildersInv, Building
<1>3. TargetsGrounded
  BY DEF TargetInit, TargetsGrounded
<1> QED BY <1>1, <1>2, <1>3 DEF TargetInv

LEMMA TargetStepKeeps == ASSUME TargetInv, [TargetNext]_targetVars PROVE TargetInv'
<1>1. ASSUME NEW b \in Builders, NEW row \in FetchedRows \cup EditedRows, PrepareTarget(b, row)
      PROVE  TargetInv'
  BY <1>1, PrepareKeeps
<1>2. ASSUME NEW b \in Builders, LookUp(b) PROVE TargetInv'
  BY <1>2, LookUpKeeps
<1>3. ASSUME NEW b \in Builders, NEW side \in Sides, RecordFailure(b, side) PROVE TargetInv'
  BY <1>3, RecordFailureKeeps
<1>4. ASSUME NEW b \in Builders, NEW side \in Sides, PersistLeg(b, side) PROVE TargetInv'
  BY <1>4, PersistLegKeeps
<1>5. ASSUME NEW b \in Builders, InsertTarget(b) PROVE TargetInv'
  BY <1>5, InsertKeeps
<1>6. ASSUME NEW b \in Builders, BuilderFails(b) PROVE TargetInv'
  BY <1>6, GivesUpKeeps DEF BuilderFails
<1>7. CASE UNCHANGED targetVars
  <2>1. UNCHANGED <<progress, archived, legRuns, minutes, targets>>
    BY <1>7 DEF targetVars
  <2>2. TargetTypeOK'
    BY <2>1 DEF TargetInv, TargetTypeOK
  <2>3. BuildersInv'
    BY <2>1, SupportedStays DEF TargetInv, BuildersInv, Accepted
  <2>4. TargetsGrounded'
    BY <2>1, TargetsStay DEF TargetInv, TargetsGrounded
  <2> QED BY <2>2, <2>3, <2>4 DEF TargetInv
<1> QED BY <1>1, <1>2, <1>3, <1>4, <1>5, <1>6, <1>7 DEF TargetNext

(***************************************************************************)
(* The theorems.                                                           *)
(***************************************************************************)
(* A builder that goes on has an accepted row and the evidence of the legs *)
(* it has been through, whatever the others do (dataset.py:53-238).        *)
THEOREM TargetInductive == TargetSpec => []TargetInv
<1>1. TargetInit => TargetInv
  BY TargetInitHolds
<1>2. TargetInv /\ [TargetNext]_targetVars => TargetInv'
  BY TargetStepKeeps
<1> QED BY <1>1, <1>2, PTL DEF TargetSpec

(* Every stored target has the evidence its version names, is available    *)
(* only with both candles, and a version is stored once                    *)
(* (dataset.py:53-238).                                                    *)
THEOREM TargetsTrue == TargetSpec => []TargetsGrounded
<1>1. TargetInv => TargetsGrounded
  BY DEF TargetInv
<1> QED BY <1>1, TargetInductive, PTL


(***************************************************************************)
(* The pages of a native history.                                          *)
(***************************************************************************)
KeptLoop(w, rows) ==
  CHOOSE kept : kept = [i \in 0 .. Len(rows) |->
                         IF i = 0 THEN <<>>
                         ELSE IF Inside(w, rows[i])
                              THEN Append(kept[i - 1], rows[i]) ELSE kept[i - 1]]

LEMMA KeptIsLoop == ASSUME NEW w, NEW rows PROVE Kept(w, rows) = KeptLoop(w, rows)[Len(rows)]
  BY DEF Kept, KeptLoop

LEMMA KeptSteps ==
  ASSUME NEW w, NEW rows \in Seq(Bar)
  PROVE  \E f \in [0 .. Len(rows) -> Seq(Bar)] :
           /\ f[0] = <<>>
           /\ \A i \in 1 .. Len(rows) :
                f[i] = IF Inside(w, rows[i]) THEN Append(f[i - 1], rows[i]) ELSE f[i - 1]
           /\ Kept(w, rows) = f[Len(rows)]
<1> DEFINE n == Len(rows)
           Loop(g) == [i \in 0 .. n |->
                         IF i = 0 THEN <<>>
                         ELSE IF Inside(w, rows[i])
                              THEN Append(g[i - 1], rows[i]) ELSE g[i - 1]]
           step == [p \in (1 .. n) \X Seq(Bar) |->
                      IF Inside(w, rows[p[1]]) THEN Append(p[2], rows[p[1]]) ELSE p[2]]
<1>1. n \in Nat /\ \A i \in 1 .. n : rows[i] \in Bar
  OBVIOUS
<1>2. \A i \in 1 .. n, v \in Seq(Bar) :
        step[<<i, v>>] = IF Inside(w, rows[i]) THEN Append(v, rows[i]) ELSE v
  BY <1>1
<1>11. ASSUME NEW i \in 1 .. n, NEW v \in Seq(Bar) PROVE step[<<i, v>>] \in Seq(Bar)
  <2>1. rows[i] \in Bar
    BY <1>1
  <2>2. Append(v, rows[i]) \in Seq(Bar)
    BY <2>1
  <2>3. step[<<i, v>>] = IF Inside(w, rows[i]) THEN Append(v, rows[i]) ELSE v
    BY <1>2
  <2> HIDE DEF step
  <2> QED BY <2>2, <2>3
<1>3. <<>> \in Seq(Bar)
  OBVIOUS
<1> HIDE DEF n, step
<1>4. PICK f \in [0 .. n -> Seq(Bar)] :
        f[0] = <<>> /\ \A i \in 1 .. n : f[i] = step[<<i, f[i - 1]>>]
  <2> DEFINE V == Seq(Bar)
  <2>1. <<>> \in V /\ n \in Nat
    BY <1>1, <1>3
  <2>2. step \in [(1 .. n) \X V -> V]
    <3>1. \A p \in (1 .. n) \X V : p[1] \in 1 .. n /\ p[2] \in V /\ p = <<p[1], p[2]>>
      OBVIOUS
    <3>2. \A p \in (1 .. n) \X V : step[p] \in V
      BY <1>11, <3>1
    <3> QED BY <3>2 DEF step
  <2> HIDE DEF V
  <2>3. PICK f : IsLoop(f, n, V, <<>>, step)
    BY <2>1, <2>2, LoopExists
  <2> QED BY <2>3 DEF IsLoop, V
<1>5. \A i \in 1 .. n : f[i] = IF Inside(w, rows[i]) THEN Append(f[i - 1], rows[i]) ELSE f[i - 1]
  <2>1. \A i \in 1 .. n : i - 1 \in 0 .. n
    BY <1>1
  <2> QED BY <1>2, <1>4, <2>1
<1>6. f = Loop(f)
  <2>1. \A i \in 0 .. n : i # 0 => i \in 1 .. n
    BY <1>1
  <2>2. ASSUME NEW i \in 0 .. n PROVE f[i] = Loop(f)[i]
    <3>1. CASE i = 0
      BY <1>4, <3>1
    <3>2. CASE i # 0
      BY <1>5, <2>1, <3>2
    <3> QED BY <3>1, <3>2
  <2>3. f = [i \in 0 .. n |-> f[i]]
    BY <1>4
  <2> QED BY <2>2, <2>3
<1> DEFINE g == KeptLoop(w, rows)
<1>7. g = Loop(g)
  BY <1>6 DEF KeptLoop, n
<1>10. g = [i \in 0 .. n |->
              IF i = 0 THEN <<>>
              ELSE IF Inside(w, rows[i])
                   THEN Append(g[i - 1], rows[i]) ELSE g[i - 1]]
  BY <1>7
<1>8. \A i \in 0 .. n : g[i] = f[i]
  <2> DEFINE S == {i \in 0 .. n : g[i] = f[i]}
  <2> HIDE DEF g
  <2>1. 0 \in S
    BY <1>1, <1>4, <1>7
  <2>2. ASSUME NEW i \in 1 .. n, i - 1 \in S PROVE i \in S
    <3>1. i \in 0 .. n /\ i # 0 /\ g[i - 1] = f[i - 1]
      BY <1>1, <2>2
    <3>2. g[i] = IF Inside(w, rows[i])
                 THEN Append(g[i - 1], rows[i]) ELSE g[i - 1]
      <4> HIDE DEF g
      <4> QED BY <1>10, <3>1
    <3>3. f[i] = IF Inside(w, rows[i]) THEN Append(f[i - 1], rows[i]) ELSE f[i - 1]
      BY <1>5
    <3>4. g[i] = f[i]
      <4> HIDE DEF g
      <4> QED BY <3>1, <3>2, <3>3
    <3> QED BY <3>1, <3>4
  <2> HIDE DEF S
  <2>3. \A i \in 0 .. n : i \in S
    BY <1>1, <2>1, <2>2, LoopInduction
  <2> QED BY <2>3 DEF S
<1>9. Kept(w, rows) = f[n]
  <2>1. n \in 0 .. n
    BY <1>1
  <2> QED BY <1>8, <2>1, KeptIsLoop DEF n
<1> QED BY <1>4, <1>5, <1>9 DEF n


LEMMA BarTime == \A b \in Bar : b.t \in Int /\ b.t # NoMinute
<1>1. \A b \in Bar : b.t \in Minutes
  BY DEF Bar
<1>2. Minutes \subseteq Nat
  BY ReadAssumption
<1>3. \A m \in Nat : m \in Int /\ m # NoMinute
  BY DEF NoMinute
<1> QED BY <1>1, <1>2, <1>3

(* Rows in the order of their event times, and the rows of a window.       *)
Ascend(s) == \A i, j \in 1 .. Len(s) : i < j => s[i].t < s[j].t
Members(s) == {s[i] : i \in 1 .. Len(s)}
Clipped(w, S) == {b \in S : Inside(w, b)}

(* A sequence that holds the rows of S in a window, in order.              *)
Good(w, s, S) == s \in Seq(Bar) /\ Ascend(s) /\ Members(s) = Clipped(w, S)

LEMMA GoodAppend ==
  ASSUME NEW w, NEW s, NEW S, NEW r \in Bar, Good(w, s, S), Inside(w, r),
         \A b \in S : b.t < r.t
  PROVE  Good(w, Append(s, r), S \cup {r})
<1> DEFINE u == Append(s, r)
<1>1. s \in Seq(Bar) /\ Len(s) \in Nat /\ Members(s) \subseteq S
  BY DEF Good, Clipped
<1>2. /\ u \in Seq(Bar) /\ Len(u) = Len(s) + 1 /\ u[Len(s) + 1] = r
      /\ \A i \in 1 .. Len(s) : u[i] = s[i]
  BY <1>1
<1>3. \A i \in 1 .. Len(u) : i \in 1 .. Len(s) \/ i = Len(s) + 1
  BY <1>1, <1>2
<1>4. \A i \in 1 .. Len(s) : i \in 1 .. Len(u) /\ i < Len(s) + 1 /\ ~(Len(s) + 1 < i)
  BY <1>1, <1>2
<1>5. \A i \in 1 .. Len(s) : s[i].t < r.t
  BY <1>1 DEF Members
<1> HIDE DEF u
<1>6. Ascend(u)
  <2>1. ASSUME NEW i \in 1 .. Len(u), NEW j \in 1 .. Len(u), i < j PROVE u[i].t < u[j].t
    <3>1. i \in 1 .. Len(s)
      BY <1>1, <1>2, <2>1
    <3>2. CASE j \in 1 .. Len(s)
      BY <1>2, <2>1, <3>1, <3>2 DEF Good, Ascend
    <3>3. CASE j = Len(s) + 1
      BY <1>2, <1>5, <3>1, <3>3
    <3> QED BY <1>3, <3>2, <3>3
  <2> QED BY <2>1 DEF Ascend
<1>7. Members(u) = Members(s) \cup {r}
  <2>1. Len(s) + 1 \in 1 .. Len(u)
    BY <1>1, <1>2
  <2> QED BY <1>2, <1>3, <1>4, <2>1 DEF Members
<1>8. Members(u) = Clipped(w, S \cup {r})
  BY <1>7 DEF Good, Clipped
<1> QED BY <1>2, <1>6, <1>8 DEF Good, u

(* Two such sequences, the second of later rows.                           *)
LEMMA GoodJoined ==
  ASSUME NEW w, NEW s, NEW S, NEW u, NEW U, Good(w, s, S), Good(w, u, U),
         \A b \in S, c \in U : b.t < c.t
  PROVE  Good(w, s \o u, S \cup U)
<1> DEFINE v == s \o u
<1>1. /\ s \in Seq(Bar) /\ Len(s) \in Nat /\ Members(s) \subseteq S
      /\ u \in Seq(Bar) /\ Len(u) \in Nat /\ Members(u) \subseteq U
  BY DEF Good, Clipped
<1>2. /\ v \in Seq(Bar) /\ Len(v) = Len(s) + Len(u)
      /\ \A i \in 1 .. Len(s) : v[i] = s[i]
      /\ \A i \in 1 .. Len(v) : ~(i <= Len(s)) => v[i] = u[i - Len(s)]
  BY <1>1
<1>3. \A i \in 1 .. Len(v) : i \in 1 .. Len(s) \/ (~(i <= Len(s)) /\ i - Len(s) \in 1 .. Len(u))
  <2>1. Len(s) \in Nat /\ Len(u) \in Nat /\ Len(v) = Len(s) + Len(u)
    BY <1>1, <1>2
  <2> HIDE DEF v
  <2>2. ASSUME NEW i \in 1 .. Len(v), ~(i \in 1 .. Len(s))
        PROVE  ~(i <= Len(s)) /\ i - Len(s) \in 1 .. Len(u)
    BY <2>1, <2>2
  <2> QED BY <2>2
<1>4. \A i \in 1 .. Len(s), j \in 1 .. Len(u) : s[i].t < u[j].t
  BY <1>1 DEF Members
<1> HIDE DEF v
<1>5. Ascend(v)
  <2>1. ASSUME NEW i \in 1 .. Len(v), NEW j \in 1 .. Len(v), i < j PROVE v[i].t < v[j].t
    <3>1. CASE i \in 1 .. Len(s) /\ j \in 1 .. Len(s)
      BY <1>2, <2>1, <3>1 DEF Good, Ascend
    <3>2. CASE i \in 1 .. Len(s) /\ ~(j <= Len(s)) /\ j - Len(s) \in 1 .. Len(u)
      BY <1>2, <1>4, <3>2
    <3>3. CASE ~(i <= Len(s)) /\ i - Len(s) \in 1 .. Len(u)
      <4>1. ~(j <= Len(s)) /\ j - Len(s) \in 1 .. Len(u) /\ i - Len(s) < j - Len(s)
        BY <1>1, <1>3, <2>1, <3>3
      <4>2. v[i] = u[i - Len(s)] /\ v[j] = u[j - Len(s)]
        BY <1>2, <3>3, <4>1
      <4> QED BY <3>3, <4>1, <4>2 DEF Good, Ascend
    <3> QED BY <1>3, <3>1, <3>2, <3>3
  <2> QED BY <2>1 DEF Ascend
<1>6. Members(v) = Members(s) \cup Members(u)
  <2>1. \A i \in 1 .. Len(s) : i \in 1 .. Len(v)
    BY <1>1, <1>2
  <2>2. ASSUME NEW j \in 1 .. Len(u) PROVE j + Len(s) \in 1 .. Len(v) /\ v[j + Len(s)] = u[j]
    <3>1. j + Len(s) \in 1 .. Len(v) /\ ~(j + Len(s) <= Len(s)) /\ (j + Len(s)) - Len(s) = j
      BY <1>1, <1>2
    <3> QED BY <1>2, <3>1
  <2>3. Members(v) \subseteq Members(s) \cup Members(u)
    BY <1>2, <1>3 DEF Members
  <2>4. Members(s) \subseteq Members(v)
    BY <1>2, <2>1 DEF Members
  <2>5. Members(u) \subseteq Members(v)
    BY <2>2 DEF Members
  <2> QED BY <2>3, <2>4, <2>5
<1>7. Members(v) = Clipped(w, S \cup U)
  BY <1>6 DEF Good, Clipped
<1> QED BY <1>2, <1>5, <1>7 DEF Good, v

(* Neighbours in order are a sequence in order.                            *)
LEMMA AscendAll ==
  ASSUME NEW rows \in Seq(Bar), \A i \in 1 .. Len(rows) - 1 : rows[i].t < rows[i + 1].t
  PROVE  Ascend(rows)
<1> DEFINE n == Len(rows)
           S == {k \in 0 .. n : \A i, j \in 1 .. k : i < j => rows[i].t < rows[j].t}
<1>1. n \in Nat /\ \A i \in 1 .. n : rows[i] \in Bar /\ rows[i].t \in Int
  <2>1. n \in Nat /\ \A i \in 1 .. n : rows[i] \in Bar
    OBVIOUS
  <2> QED BY <2>1, BarTime
<1>2. 0 \in S
  BY <1>1
<1>3. ASSUME NEW k \in 1 .. n, k - 1 \in S PROVE k \in S
  <2>1. ASSUME NEW i \in 1 .. k, NEW j \in 1 .. k, i < j PROVE rows[i].t < rows[j].t
    <3>1. i \in 1 .. k - 1
      BY <1>1, <2>1
    <3>2. CASE j # k
      <4>1. j \in 1 .. k - 1
        BY <1>1, <3>2
      <4> QED BY <1>3, <2>1, <3>1, <4>1
    <3>3. CASE j = k
      <4>1. k - 1 \in 1 .. n - 1 /\ k - 1 \in 1 .. k - 1 /\ (k - 1) + 1 = k
        BY <1>1, <3>1
      <4>2. rows[k - 1].t < rows[k].t
        BY <4>1
      <4>3. i = k - 1 \/ rows[i].t < rows[k - 1].t
        <5>1. i = k - 1 \/ i < k - 1
          BY <1>1, <3>1
        <5> QED BY <1>3, <3>1, <4>1, <5>1
      <4>4. i \in 1 .. n /\ k \in 1 .. n /\ k - 1 \in 1 .. n
        BY <1>1, <3>1
      <4> QED BY <1>1, <3>3, <4>2, <4>3, <4>4
    <3> QED BY <3>2, <3>3
  <2>2. k \in 0 .. n
    BY <1>1
  <2> QED BY <2>1, <2>2
<1> HIDE DEF S
<1>4. \A k \in 0 .. n : k \in S
  BY <1>1, <1>2, <1>3, LoopInduction
<1>5. n \in S
  BY <1>1, <1>4
<1> QED BY <1>5 DEF S, Ascend

(* The clipping of a page in order.                                        *)
LEMMA KeptFacts ==
  ASSUME NEW w, NEW rows \in Seq(Bar), Ascend(rows)
  PROVE  Good(w, Kept(w, rows), Members(rows))
<1> DEFINE n == Len(rows)
           Upto(i) == {rows[j] : j \in 1 .. i}
<1>1. n \in Nat /\ \A i \in 1 .. n : rows[i] \in Bar
  OBVIOUS
<1>2. PICK f \in [0 .. n -> Seq(Bar)] :
        /\ f[0] = <<>>
        /\ \A i \in 1 .. n : f[i] = IF Inside(w, rows[i]) THEN Append(f[i - 1], rows[i]) ELSE f[i - 1]
        /\ Kept(w, rows) = f[n]
  BY KeptSteps
<1> DEFINE S == {i \in 0 .. n : Good(w, f[i], Upto(i))}
<1>3. 0 \in S
  <2>1. Upto(0) = {}
    OBVIOUS
  <2>2. Good(w, <<>>, {})
    BY DEF Good, Ascend, Members, Clipped
  <2>3. Good(w, f[0], Upto(0)) /\ 0 \in 0 .. n
    <3>1. f[0] = <<>>
      BY <1>2
    <3>2. 0 \in 0 .. n
      BY <1>1
    <3> HIDE DEF Upto
    <3> QED BY <2>1, <2>2, <3>1, <3>2
  <2> QED BY <2>3
<1>4. ASSUME NEW i \in 1 .. n, i - 1 \in S PROVE i \in S
  <2> DEFINE r == rows[i]
  <2>1. /\ Upto(i) = Upto(i - 1) \cup {r} /\ i \in 0 .. n
        /\ \A j \in 1 .. i - 1 : j \in 1 .. n /\ j < i
    <3>1. \A j \in 1 .. i : j \in 1 .. i - 1 \/ j = i
      BY <1>1
    <3>2. \A j \in 1 .. i - 1 : j \in 1 .. i /\ j \in 1 .. n /\ j < i
      BY <1>1
    <3>3. i \in 1 .. i /\ i \in 0 .. n
      BY <1>1
    <3> QED BY <3>1, <3>2, <3>3
  <2>2. \A b \in Upto(i - 1) : b.t < r.t
    BY <2>1 DEF Ascend
  <2>3. Good(w, f[i - 1], Upto(i - 1)) /\ r \in Bar
    BY <1>1, <1>4
  <2> HIDE DEF Upto, r
  <2>4. CASE Inside(w, r)
    <3>1. f[i] = Append(f[i - 1], r)
      BY <1>2, <2>4 DEF r
    <3>2. Good(w, f[i], Upto(i))
      BY <2>1, <2>2, <2>3, <2>4, <3>1, GoodAppend
    <3> QED BY <2>1, <3>2
  <2>5. CASE ~Inside(w, r)
    <3>1. f[i] = f[i - 1]
      BY <1>2, <2>5 DEF r
    <3>2. Good(w, f[i], Upto(i))
      BY <2>1, <2>3, <2>5, <3>1 DEF Good, Clipped
    <3> QED BY <2>1, <3>2
  <2> QED BY <2>4, <2>5
<1> HIDE DEF S
<1>5. \A i \in 0 .. n : i \in S
  BY <1>1, <1>3, <1>4, LoopInduction
<1>6. n \in S
  BY <1>1, <1>5
<1> QED BY <1>2, <1>6 DEF S, Members


(***************************************************************************)
(* The loop over the pages.                                                *)
(***************************************************************************)
RowsOf(pages, n) == pages[n].body.rows
TokenOf(pages, n) == pages[n].body.token

LEMMA PageFacts ==
  ASSUME NEW pages \in Seq(ArchivedPage), NEW n \in 1 .. Len(pages)
  PROVE  /\ pages[n] \in ArchivedPage /\ RowsOf(pages, n) \in Seq(Bar)
         /\ TokenOf(pages, n) \in Tokens \cup {NoToken}
<1>1. pages[n] \in ArchivedPage
  OBVIOUS
<1>2. pages[n].body \in Body
  BY <1>1 DEF ArchivedPage
<1>3. PICK m \in 0 .. RowLimit :
        pages[n].body \in [rows : [1 .. m -> Bar], token : Tokens \cup {NoToken}]
  BY <1>2 DEF Body
<1>4. RowsOf(pages, n) \in [1 .. m -> Bar] /\ m \in Nat
  BY <1>3, ReadAssumption DEF RowsOf
<1>5. RowsOf(pages, n) \in Seq(Bar)
  BY <1>4
<1>6. TokenOf(pages, n) \in Tokens \cup {NoToken}
  BY <1>3 DEF TokenOf
<1> QED BY <1>1, <1>5, <1>6

FilledPages(pages, n) == {i \in 1 .. n : pages[i].body.rows # <<>>}

LastFilled(pages, filled) ==
  IF filled = {} THEN NoMinute
  ELSE LET i == CHOOSE m \in filled : \A k \in filled : k <= m
       IN LastTime(pages[i].body.rows, NoMinute)

LEMMA LastOfFilled ==
  ASSUME NEW pages, NEW n
  PROVE  LastOf(pages, n) = LastFilled(pages, FilledPages(pages, n))
  BY DEF LastOf, LastFilled, FilledPages

(* The event time after a page is that of its last row, if it has one.     *)
LEMMA LastOfSteps ==
  ASSUME NEW pages \in Seq(ArchivedPage)
  PROVE  /\ LastOf(pages, 0) = NoMinute
         /\ \A n \in 1 .. Len(pages) :
              LastOf(pages, n) = LastTime(RowsOf(pages, n), LastOf(pages, n - 1))
<1>1. LastOf(pages, 0) = NoMinute
  <2>1. FilledPages(pages, 0) = {}
    BY DEF FilledPages
  <2> QED BY <2>1, LastOfFilled DEF LastFilled
<1>2. ASSUME NEW n \in 1 .. Len(pages)
      PROVE  LastOf(pages, n) = LastTime(RowsOf(pages, n), LastOf(pages, n - 1))
  <2> DEFINE F == FilledPages(pages, n)
             G == FilledPages(pages, n - 1)
  <2>1. n \in Nat /\ n >= 1 /\ n \in 1 .. n
    OBVIOUS
  <2>2. CASE RowsOf(pages, n) = <<>>
    <3>1. F = G
      <4>1. \A i \in 1 .. n : i \in 1 .. n - 1 \/ i = n
        BY <2>1
      <4>2. \A i \in 1 .. n - 1 : i \in 1 .. n
        BY <2>1
      <4> QED BY <2>2, <4>1, <4>2 DEF FilledPages, RowsOf
    <3>2. LastOf(pages, n) = LastOf(pages, n - 1)
      BY <3>1, LastOfFilled
    <3> QED BY <2>2, <3>2 DEF LastTime
  <2>3. CASE RowsOf(pages, n) # <<>>
    <3>1. n \in F /\ \A k \in F : k \in Int /\ k <= n
      BY <2>1, <2>3 DEF FilledPages, RowsOf
    <3> DEFINE i == CHOOSE m \in F : \A k \in F : k <= m
    <3>2. i \in F /\ \A k \in F : k <= i
      BY <3>1
    <3>3. i = n
      BY <2>1, <3>1, <3>2
    <3> HIDE DEF F
    <3>4. LastFilled(pages, F) = LastTime(pages[n].body.rows, NoMinute)
      BY <3>1, <3>3 DEF LastFilled
    <3>5. LastOf(pages, n) = LastTime(pages[n].body.rows, NoMinute)
      BY <3>4, LastOfFilled DEF F
    <3> QED BY <2>3, <3>5 DEF LastTime, RowsOf
  <2> QED BY <2>2, <2>3
<1> QED BY <1>1, <1>2

(* What is known of the first pages does not depend on those that follow.  *)
LEMMA LastOfAgrees ==
  ASSUME NEW a \in Seq(ArchivedPage), NEW b \in Seq(ArchivedPage), NEW n \in Nat,
         n <= Len(a), n <= Len(b), \A i \in 1 .. n : a[i] = b[i]
  PROVE  LastOf(a, n) = LastOf(b, n)
<1> DEFINE S == {k \in 0 .. n : LastOf(a, k) = LastOf(b, k)}
<1>1. 0 \in S
  BY LastOfSteps
<1>2. ASSUME NEW k \in 1 .. n, k - 1 \in S PROVE k \in S
  <2>1. k \in 0 .. n /\ k \in 1 .. Len(a) /\ k \in 1 .. Len(b) /\ a[k] = b[k]
    OBVIOUS
  <2>2. LastOf(a, k - 1) = LastOf(b, k - 1)
    BY <1>2
  <2>3. RowsOf(a, k) = RowsOf(b, k)
    BY <2>1 DEF RowsOf
  <2>4. LastOf(a, k) = LastOf(b, k)
    BY <2>1, <2>2, <2>3, LastOfSteps
  <2> QED BY <2>1, <2>4
<1> HIDE DEF S
<1>3. \A k \in 0 .. n : k \in S
  BY <1>1, <1>2, LoopInduction
<1>4. n \in S
  BY <1>3
<1> QED BY <1>4 DEF S

AcceptsAt(pages, n) ==
  /\ pages[n].asked = IF n = 1 THEN NoToken ELSE TokenOf(pages, n - 1)
  /\ ~Unordered(RowsOf(pages, n), LastOf(pages, n - 1))
  /\ \/ TokenOf(pages, n) = NoToken
     \/ /\ RowsOf(pages, n) # <<>>
        /\ \A i \in 1 .. n - 1 : TokenOf(pages, i) # TokenOf(pages, n)

LEMMA AcceptsIs ==
  ASSUME NEW pages \in Seq(ArchivedPage), NEW n \in 1 .. Len(pages)
  PROVE  Accepts(pages, n) <=> AcceptsAt(pages, n)
<1> DEFINE before == SubSeq(pages, 1, n - 1)
<1>1. /\ before \in Seq(ArchivedPage) /\ Len(before) = n - 1
      /\ \A i \in 1 .. n - 1 : before[i] = pages[i]
  <2>1. n \in Nat /\ n - 1 \in Nat /\ n - 1 <= Len(pages) /\ Len(pages) \in Nat
    OBVIOUS
  <2> QED BY <2>1
<1>2. n - 1 \in Nat /\ DOMAIN before = 1 .. n - 1
  BY <1>1
<1> HIDE DEF before
<1>3. AskedBy(before) = IF n = 1 THEN NoToken ELSE TokenOf(pages, n - 1)
  <2>1. CASE n = 1
    <3>1. before = <<>>
      BY <1>1, <2>1
    <3> QED BY <2>1, <3>1 DEF AskedBy
  <2>2. CASE n # 1
    <3>1. before # <<>> /\ n - 1 \in 1 .. n - 1
      BY <1>1, <1>2, <2>2
    <3> QED BY <1>1, <2>2, <3>1 DEF AskedBy, TokenOf
  <2> QED BY <2>1, <2>2
<1>4. \A t : t # NoToken => (t \notin TokensSeen(before) <=> \A i \in 1 .. n - 1 : TokenOf(pages, i) # t)
  BY <1>1, <1>2 DEF TokensSeen, TokenOf
<1>5. Accepts(pages, n) <=>
        /\ pages[n].asked = AskedBy(before)
        /\ ~Unordered(RowsOf(pages, n), LastOf(pages, n - 1))
        /\ TokenOf(pages, n) = NoToken
           \/ (RowsOf(pages, n) # <<>> /\ TokenOf(pages, n) \notin TokensSeen(before))
  BY DEF Accepts, before, RowsOf, TokenOf
<1> QED BY <1>3, <1>4, <1>5 DEF AcceptsAt


FlatLoop(w, pages) ==
  CHOOSE joined : joined = [n \in 0 .. Len(pages) |->
                              IF n = 0 THEN <<>>
                              ELSE joined[n - 1] \o Kept(w, pages[n].body.rows)]

LEMMA FlatIsLoop ==
  ASSUME NEW w, NEW pages
  PROVE  Flat(w, pages) = FlatLoop(w, pages)[Len(pages)]
  BY DEF Flat, FlatLoop

LEMMA KeptType ==
  ASSUME NEW w, NEW rows \in Seq(Bar)
  PROVE  Kept(w, rows) \in Seq(Bar)
<1>1. PICK f \in [0 .. Len(rows) -> Seq(Bar)] : Kept(w, rows) = f[Len(rows)]
  BY KeptSteps
<1>2. Len(rows) \in 0 .. Len(rows)
  <2>1. Len(rows) \in Nat
    OBVIOUS
  <2> QED BY <2>1
<1> QED BY <1>1, <1>2

LEMMA FlatSteps ==
  ASSUME NEW w, NEW pages \in Seq(ArchivedPage)
  PROVE  \E f \in [0 .. Len(pages) -> Seq(Bar)] :
           /\ f[0] = <<>>
           /\ \A n \in 1 .. Len(pages) : f[n] = f[n - 1] \o Kept(w, RowsOf(pages, n))
           /\ Flat(w, pages) = f[Len(pages)]
<1> DEFINE len == Len(pages)
           V == Seq(Bar)
           Loop(g) == [n \in 0 .. len |->
                         IF n = 0 THEN <<>> ELSE g[n - 1] \o Kept(w, pages[n].body.rows)]
           step == [p \in (1 .. len) \X V |-> p[2] \o Kept(w, RowsOf(pages, p[1]))]
<1>1. len \in Nat
  OBVIOUS
<1>2. \A n \in 1 .. len, v \in V : step[<<n, v>>] = v \o Kept(w, RowsOf(pages, n))
  OBVIOUS
<1>3. <<>> \in V
  OBVIOUS
<1>4. step \in [(1 .. len) \X V -> V]
  <2>1. ASSUME NEW p \in (1 .. len) \X V PROVE step[p] \in V
    <3>1. p[1] \in 1 .. len /\ p[2] \in V
      OBVIOUS
    <3>2. Kept(w, RowsOf(pages, p[1])) \in V
      BY <3>1, PageFacts, KeptType
    <3>3. p[2] \o Kept(w, RowsOf(pages, p[1])) \in V
      BY <3>1, <3>2
    <3> QED BY <3>3
  <2> QED BY <2>1
<1> HIDE DEF len, V, step
<1>5. PICK f : IsLoop(f, len, V, <<>>, step)
  BY <1>1, <1>3, <1>4, LoopExists
<1>6. f \in [0 .. len -> V] /\ f[0] = <<>> /\ \A n \in 1 .. len : f[n] = step[<<n, f[n - 1]>>]
  BY <1>5 DEF IsLoop
<1>7. \A n \in 1 .. len : f[n] = f[n - 1] \o Kept(w, RowsOf(pages, n))
  <2>1. \A n \in 1 .. len : n - 1 \in 0 .. len
    BY <1>1
  <2> QED BY <1>2, <1>6, <2>1
<1>8. f = Loop(f)
  <2>1. ASSUME NEW n \in 0 .. len PROVE f[n] = Loop(f)[n]
    <3>1. CASE n = 0
      BY <1>6, <3>1
    <3>2. CASE n # 0
      <4>1. n \in 1 .. len
        BY <1>1, <3>2
      <4> QED BY <1>7, <3>2, <4>1 DEF RowsOf
    <3> QED BY <3>1, <3>2
  <2>2. f = [n \in 0 .. len |-> f[n]]
    BY <1>6
  <2> QED BY <2>1, <2>2
<1> DEFINE g == FlatLoop(w, pages)
<1>9. g = Loop(g)
  BY <1>8 DEF FlatLoop, len
<1>10. g = [n \in 0 .. len |->
              IF n = 0 THEN <<>> ELSE g[n - 1] \o Kept(w, pages[n].body.rows)]
  BY <1>9
<1> HIDE DEF g
<1>11. \A n \in 0 .. len : g[n] = f[n]
  <2> DEFINE S == {n \in 0 .. len : g[n] = f[n]}
  <2>1. 0 \in S
    <3>1. 0 \in 0 .. len
      BY <1>1
    <3>2. g[0] = <<>>
      BY <1>10, <3>1
    <3> QED BY <1>6, <3>1, <3>2
  <2>2. ASSUME NEW n \in 1 .. len, n - 1 \in S PROVE n \in S
    <3>1. n \in 0 .. len /\ n # 0 /\ g[n - 1] = f[n - 1]
      BY <1>1, <2>2
    <3>2. g[n] = g[n - 1] \o Kept(w, pages[n].body.rows)
      BY <1>10, <3>1
    <3>3. f[n] = f[n - 1] \o Kept(w, RowsOf(pages, n))
      BY <1>7
    <3>4. g[n] = f[n]
      BY <3>1, <3>2, <3>3 DEF RowsOf
    <3> QED BY <3>1, <3>4
  <2> HIDE DEF S
  <2>3. \A n \in 0 .. len : n \in S
    BY <1>1, <2>1, <2>2, LoopInduction
  <2> QED BY <2>3 DEF S
<1>12. Flat(w, pages) = f[len]
  <2>1. len \in 0 .. len
    BY <1>1
  <2> QED BY <1>11, <2>1, FlatIsLoop DEF g, len
<1> QED BY <1>6, <1>7, <1>12 DEF len, V

LEMMA FlatEmpty == ASSUME NEW w PROVE Flat(w, <<>>) = <<>>
<1>1. <<>> \in Seq(ArchivedPage) /\ Len(<<>>) = 0
  OBVIOUS
<1>2. \E f \in [0 .. Len(<<>>) -> Seq(Bar)] : f[0] = <<>> /\ Flat(w, <<>>) = f[Len(<<>>)]
  BY <1>1, FlatSteps
<1> QED BY <1>1, <1>2

(* One more page adds the rows of the window it has.                       *)
LEMMA FlatAppend ==
  ASSUME NEW w, NEW a \in Seq(ArchivedPage), NEW b \in Seq(ArchivedPage),
         Len(b) = Len(a) + 1, \A i \in 1 .. Len(a) : b[i] = a[i]
  PROVE  Flat(w, b) = Flat(w, a) \o Kept(w, RowsOf(b, Len(b)))
<1> DEFINE n == Len(a)
<1>1. n \in Nat
  OBVIOUS
<1>2. PICK f \in [0 .. n -> Seq(Bar)] :
        /\ f[0] = <<>>
        /\ \A i \in 1 .. n : f[i] = f[i - 1] \o Kept(w, RowsOf(a, i))
        /\ Flat(w, a) = f[n]
  BY FlatSteps
<1>3. PICK g \in [0 .. n + 1 -> Seq(Bar)] :
        /\ g[0] = <<>>
        /\ \A i \in 1 .. n + 1 : g[i] = g[i - 1] \o Kept(w, RowsOf(b, i))
        /\ Flat(w, b) = g[n + 1]
  BY FlatSteps
<1> DEFINE S == {i \in 0 .. n : f[i] = g[i]}
<1>4. 0 \in S
  BY <1>1, <1>2, <1>3
<1>5. ASSUME NEW i \in 1 .. n, i - 1 \in S PROVE i \in S
  <2>1. i \in 0 .. n /\ i \in 1 .. n + 1 /\ f[i - 1] = g[i - 1]
    BY <1>1, <1>5
  <2>2. RowsOf(a, i) = RowsOf(b, i)
    BY DEF RowsOf
  <2>3. f[i] = g[i]
    BY <1>2, <1>3, <2>1, <2>2
  <2> QED BY <2>1, <2>3
<1> HIDE DEF S
<1>6. \A i \in 0 .. n : i \in S
  BY <1>1, <1>4, <1>5, LoopInduction
<1>7. f[n] = g[n]
  <2>1. n \in S
    BY <1>1, <1>6
  <2> QED BY <2>1 DEF S
<1>8. g[n + 1] = g[n] \o Kept(w, RowsOf(b, n + 1))
  <2>1. n + 1 \in 1 .. n + 1 /\ (n + 1) - 1 = n
    BY <1>1
  <2> QED BY <1>3, <2>1
<1> QED BY <1>2, <1>3, <1>7, <1>8


(***************************************************************************)
(* Pages that are accepted one by one make a sound history.                *)
(***************************************************************************)
UpTo(pages, n) == UNION {Members(RowsOf(pages, k)) : k \in 1 .. n}

LEMMA MembersAreBars ==
  ASSUME NEW rows \in Seq(Bar) PROVE Members(rows) \subseteq Bar
  BY DEF Members

LEMMA UpToStep ==
  ASSUME NEW pages, NEW n \in Nat, n >= 1
  PROVE  UpTo(pages, n) = UpTo(pages, n - 1) \cup Members(RowsOf(pages, n))
<1>1. \A i \in 1 .. n : i \in 1 .. n - 1 \/ i = n
  OBVIOUS
<1>2. n \in 1 .. n /\ \A i \in 1 .. n - 1 : i \in 1 .. n
  OBVIOUS
<1> DEFINE M(k) == Members(RowsOf(pages, k))
<1>3. ASSUME NEW b PROVE b \in UpTo(pages, n) <=> b \in UpTo(pages, n - 1) \cup M(n)
  <2>1. b \in UpTo(pages, n) <=> \E k \in 1 .. n : b \in M(k)
    BY DEF UpTo
  <2>2. b \in UpTo(pages, n - 1) <=> \E k \in 1 .. n - 1 : b \in M(k)
    BY DEF UpTo
  <2> HIDE DEF M
  <2> QED BY <1>1, <1>2, <2>1, <2>2
<1> QED BY <1>3

LEMMA UpToIsBars ==
  ASSUME NEW pages \in Seq(ArchivedPage)
  PROVE  UpTo(pages, Len(pages)) = BarsOf(pages)
<1>1. DOMAIN pages = 1 .. Len(pages)
  OBVIOUS
<1>2. ASSUME NEW n \in 1 .. Len(pages) PROVE DOMAIN RowsOf(pages, n) = 1 .. Len(RowsOf(pages, n))
  <2>1. RowsOf(pages, n) \in Seq(Bar)
    BY PageFacts
  <2> QED BY <2>1
<1>3. \A n \in 1 .. Len(pages) :
        Members(RowsOf(pages, n)) = {pages[n].body.rows[i] : i \in DOMAIN pages[n].body.rows}
  BY <1>2 DEF RowsOf, Members
<1> QED BY <1>1, <1>3 DEF UpTo, BarsOf

LEMMA OrderedPage ==
  ASSUME NEW rows \in Seq(Bar), NEW last, ~Unordered(rows, last)
  PROVE  /\ Ascend(rows)
         /\ \A b \in Members(rows) : /\ rows # <<>> /\ rows[1].t <= b.t
                                     /\ b.t <= rows[Len(rows)].t
         /\ rows # <<>> /\ last # NoMinute /\ last \in Int => last < rows[1].t
<1> DEFINE n == Len(rows)
<1>1. n \in Nat /\ \A i \in 1 .. n : rows[i] \in Bar
  OBVIOUS
<1>2. \A i \in 1 .. n : rows[i].t \in Int
  BY <1>1, BarTime
<1>3. ASSUME NEW i \in 1 .. n - 1 PROVE rows[i].t < rows[i + 1].t
  <2>1. i \in 1 .. n /\ i + 1 \in 1 .. n
    BY <1>1
  <2>2. ~(rows[i + 1].t <= rows[i].t)
    BY DEF Unordered
  <2> QED BY <1>2, <2>1, <2>2
<1>4. Ascend(rows)
  BY <1>3, AscendAll
<1>5. ASSUME NEW i \in 1 .. n PROVE rows # <<>> /\ rows[1].t <= rows[i].t /\ rows[i].t <= rows[n].t
  <2>1. 1 \in 1 .. n /\ n \in 1 .. n /\ rows # <<>>
    BY <1>1
  <2>2. rows[1].t \in Int /\ rows[i].t \in Int /\ rows[n].t \in Int
    BY <1>2, <2>1
  <2>3. (i = 1 \/ 1 < i) /\ (i = n \/ i < n)
    BY <1>1
  <2>4. (1 < i => rows[1].t < rows[i].t) /\ (i < n => rows[i].t < rows[n].t)
    BY <1>4, <2>1 DEF Ascend
  <2> QED BY <2>1, <2>2, <2>3, <2>4
<1>6. rows # <<>> /\ last # NoMinute /\ last \in Int => last < rows[1].t
  <2>1. SUFFICES ASSUME rows # <<>>, last # NoMinute, last \in Int PROVE last < rows[1].t
    OBVIOUS
  <2>2. 1 \in 1 .. n
    BY <1>1, <2>1
  <2>3. ~(rows[1].t <= last) /\ rows[1].t \in Int
    BY <1>2, <2>1, <2>2 DEF Unordered
  <2> QED BY <2>1, <2>3
<1> QED BY <1>4, <1>5, <1>6 DEF Members

LEMMA AcceptedGood ==
  ASSUME NEW w, NEW pages \in Seq(ArchivedPage), \A n \in 1 .. Len(pages) : Accepts(pages, n)
  PROVE  Good(w, Flat(w, pages), BarsOf(pages))
<1> DEFINE len == Len(pages)
<1>1. len \in Nat
  OBVIOUS
<1>2. PICK f \in [0 .. len -> Seq(Bar)] :
        /\ f[0] = <<>>
        /\ \A n \in 1 .. len : f[n] = f[n - 1] \o Kept(w, RowsOf(pages, n))
        /\ Flat(w, pages) = f[len]
  BY FlatSteps
<1> DEFINE P(n) == /\ Good(w, f[n], UpTo(pages, n))
                   /\ UpTo(pages, n) \subseteq Bar
                   /\ LastOf(pages, n) \in Int
                   /\ \A b \in UpTo(pages, n) : LastOf(pages, n) # NoMinute /\ b.t <= LastOf(pages, n)
           S == {n \in 0 .. len : P(n)}
<1>3. 0 \in S
  <2>1. UpTo(pages, 0) = {}
    BY DEF UpTo
  <2>2. Good(w, <<>>, {})
    BY DEF Good, Ascend, Members, Clipped
  <2>3. LastOf(pages, 0) = NoMinute /\ NoMinute \in Int
    BY LastOfSteps DEF NoMinute
  <2>4. 0 \in 0 .. len
    BY <1>1
  <2> QED BY <1>2, <2>1, <2>2, <2>3, <2>4
<1>4. ASSUME NEW n \in 1 .. len, n - 1 \in S PROVE n \in S
  <2> DEFINE rows == RowsOf(pages, n)
             last == LastOf(pages, n - 1)
             before == UpTo(pages, n - 1)
  <2>1. n \in 0 .. len /\ n \in Nat /\ n >= 1
    BY <1>1
  <2>2. Good(w, f[n - 1], before) /\ before \subseteq Bar /\ last \in Int
        /\ \A b \in before : last # NoMinute /\ b.t <= last
    BY <1>4
  <2>3. rows \in Seq(Bar) /\ Members(rows) \subseteq Bar
    BY PageFacts, MembersAreBars
  <2>4. ~Unordered(rows, last)
    <3>1. AcceptsAt(pages, n)
      BY AcceptsIs
    <3> QED BY <3>1 DEF AcceptsAt
  <2>5. UpTo(pages, n) = before \cup Members(rows)
    BY <2>1, UpToStep
  <2>6. LastOf(pages, n) = LastTime(rows, last)
    BY LastOfSteps
  <2>7. f[n] = f[n - 1] \o Kept(w, rows)
    BY <1>2
  <2> HIDE DEF rows, last, before
  <2>8. /\ Ascend(rows)
        /\ \A b \in Members(rows) : rows # <<>> /\ rows[1].t <= b.t /\ b.t <= rows[Len(rows)].t
        /\ rows # <<>> /\ last # NoMinute /\ last \in Int => last < rows[1].t
    BY <2>3, <2>4, OrderedPage
  <2>9. rows # <<>> => rows[1] \in Bar /\ rows[Len(rows)] \in Bar
    BY <2>3
  <2>10. ASSUME NEW b \in before, NEW c \in Members(rows) PROVE b.t < c.t
    <3>1. b.t \in Int /\ c.t \in Int /\ last \in Int /\ rows[1].t \in Int
      BY <2>2, <2>3, <2>8, <2>9, BarTime
    <3>2. b.t <= last /\ last < rows[1].t /\ rows[1].t <= c.t
      BY <2>2, <2>8
    <3> QED BY <3>1, <3>2
  <2>11. Good(w, f[n], before \cup Members(rows))
    <3>1. Good(w, Kept(w, rows), Members(rows))
      BY <2>3, <2>8, KeptFacts
    <3> QED BY <2>2, <2>7, <2>10, <3>1, GoodJoined
  <2>12. CASE rows = <<>>
    <3>1. Members(rows) = {} /\ LastOf(pages, n) = last
      BY <2>6, <2>8, <2>12 DEF LastTime
    <3> QED BY <2>1, <2>2, <2>3, <2>5, <2>11, <3>1
  <2>13. CASE rows # <<>>
    <3>1. LastOf(pages, n) = rows[Len(rows)].t
      BY <2>6, <2>13 DEF LastTime
    <3>2. LastOf(pages, n) \in Int /\ LastOf(pages, n) # NoMinute /\ rows[1].t \in Int
      BY <2>9, <2>13, <3>1, BarTime
    <3>3. \A b \in Members(rows) : b.t <= LastOf(pages, n)
      BY <2>8, <3>1
    <3>4. rows[1].t <= LastOf(pages, n)
      <4>1. rows[1] \in Members(rows)
        BY <2>3, <2>13 DEF Members
      <4> QED BY <3>3, <4>1
    <3>5. ASSUME NEW b \in before PROVE b.t <= LastOf(pages, n)
      <4>1. b.t \in Int /\ b.t <= last /\ last < rows[1].t /\ last \in Int
        BY <2>2, <2>8, <2>13, BarTime
      <4> QED BY <3>2, <3>4, <4>1
    <3> QED BY <2>1, <2>2, <2>3, <2>5, <2>11, <3>2, <3>3, <3>5
  <2> QED BY <2>12, <2>13
<1> HIDE DEF S
<1>5. \A n \in 0 .. len : n \in S
  BY <1>1, <1>3, <1>4, LoopInduction
<1>6. len \in S
  BY <1>1, <1>5
<1> QED BY <1>2, <1>6, UpToIsBars DEF S


(***************************************************************************)
(* The invariant of the fetch.                                             *)
(***************************************************************************)
NativeState == <<window, archive, candles, previous, result, replay>>

LEMMA Kinds ==
  /\ Waiting.kind = "waiting" /\ Waiting # [kind |-> "history"]
  /\ \A code : Fail(code).kind = "failed"
  /\ [kind |-> "history"].kind = "history"
  BY DEF Waiting, Fail

LEMMA NativeInitHolds == NativeInit => NativeInv
<1> SUFFICES ASSUME NativeInit PROVE NativeInv
  OBVIOUS
<1>1. /\ archive = <<>> /\ candles = <<>> /\ previous = NoMinute
      /\ result = Waiting /\ replay = NotReplayed
  BY DEF NativeInit
<1>2. archive \in Seq(ArchivedPage) /\ Len(archive) = 0 /\ DOMAIN archive = {}
  BY <1>1
<1>3. Len(archive) <= MaxReads
  BY <1>2, ReadAssumption
<1>4. WellRead
  <2>1. candles = Flat(window, archive)
    BY <1>1, FlatEmpty
  <2>2. previous = LastOf(archive, Len(archive))
    BY <1>1, <1>2, LastOfSteps
  <2> QED BY <1>1, <1>2, <2>1, <2>2 DEF WellRead
<1> QED BY <1>1, <1>2, <1>3, <1>4 DEF NativeInv

LEMMA NativeStutters ==
  ASSUME NativeInv, UNCHANGED NativeState
  PROVE  NativeInv'
<1>1. /\ window' = window /\ archive' = archive /\ candles' = candles
      /\ previous' = previous /\ result' = result /\ replay' = replay
  BY DEF NativeState
<1>2. result.kind # "failed" => WellRead'
  BY <1>1 DEF NativeInv, WellRead
<1> QED BY <1>1, <1>2 DEF NativeInv, Fetched

(* A call that fails leaves nothing to replay.                             *)
LEMMA FailingKeeps ==
  ASSUME NativeInv, NEW code, result = Waiting, result' = Fail(code),
         archive' = archive, replay' = replay
  PROVE  NativeInv'
<1>1. replay = NotReplayed
  BY Kinds DEF NativeInv
<1>2. result'.kind = "failed"
  BY Kinds
<1> QED BY <1>1, <1>2 DEF NativeInv

LEMMA AcceptsAgrees ==
  ASSUME NEW a \in Seq(ArchivedPage), NEW b \in Seq(ArchivedPage), NEW n \in Nat,
         n <= Len(a), n <= Len(b), \A i \in 1 .. n : a[i] = b[i], n >= 1,
         Accepts(a, n)
  PROVE  Accepts(b, n)
<1>1. n \in 1 .. Len(a) /\ n \in 1 .. Len(b) /\ n - 1 \in Nat
      /\ n - 1 <= Len(a) /\ n - 1 <= Len(b) /\ n \in 1 .. n /\ (n # 1 => n - 1 \in 1 .. n)
      /\ \A i \in 1 .. n - 1 : i \in 1 .. n
  OBVIOUS
<1>2. LastOf(a, n - 1) = LastOf(b, n - 1)
  BY <1>1, LastOfAgrees
<1>3. \A i \in 1 .. n : RowsOf(a, i) = RowsOf(b, i) /\ TokenOf(a, i) = TokenOf(b, i)
                        /\ a[i].asked = b[i].asked
  BY DEF RowsOf, TokenOf
<1>4. AcceptsAt(a, n)
  BY <1>1, AcceptsIs
<1>5. AcceptsAt(b, n)
  BY <1>1, <1>2, <1>3, <1>4 DEF AcceptsAt
<1> QED BY <1>1, <1>5, AcceptsIs

LEMMA ReadPageKeeps ==
  ASSUME NativeInv, NEW body \in Body, ReadPage(body)
  PROVE  NativeInv'
<1> DEFINE page == [asked |-> AskedBy(archive), body |-> body]
           len == Len(archive)
<1>1. /\ result = Waiting /\ ~ReadsUsedUp /\ window' = window /\ replay' = replay
      /\ archive' = Append(archive, page)
  BY DEF ReadPage, Reading
<1>2. /\ archive \in Seq(ArchivedPage) /\ len \in Nat /\ WellRead /\ replay = NotReplayed
  BY <1>1, Kinds DEF NativeInv
<1>3. page \in ArchivedPage
  <2>1. AskedBy(archive) \in Tokens \cup {NoToken}
    <3>1. CASE archive = <<>>
      BY <3>1 DEF AskedBy
    <3>2. CASE archive # <<>>
      <4>1. len \in 1 .. len
        BY <1>2, <3>2
      <4>2. TokenOf(archive, len) \in Tokens \cup {NoToken}
        BY <1>2, <4>1, PageFacts
      <4> QED BY <3>2, <4>2 DEF AskedBy, TokenOf
    <3> QED BY <3>1, <3>2
  <2> QED BY <2>1 DEF ArchivedPage
<1> HIDE DEF page
<1>4. /\ archive' \in Seq(ArchivedPage) /\ Len(archive') = len + 1
      /\ \A i \in 1 .. len : archive'[i] = archive[i]
      /\ archive'[len + 1] = page /\ archive' # <<>>
  BY <1>1, <1>2, <1>3
<1>5. Len(archive') <= MaxReads
  <2>1. MaxReads \in Nat
    BY ReadAssumption
  <2>2. len < MaxReads
    BY <1>1, <1>2, <2>1 DEF ReadsUsedUp
  <2> QED BY <1>2, <1>4, <2>1, <2>2
<1>6. CASE Unordered(body.rows, previous)
  <2>1. result' = Fail("DUPLICATE_OR_UNORDERED_TIMESTAMP")
    BY <1>6 DEF ReadPage
  <2>2. result'.kind = "failed"
    BY <2>1, Kinds
  <2> QED BY <1>1, <1>2, <1>4, <1>5, <2>2 DEF NativeInv
<1>7. CASE ~Unordered(body.rows, previous)
  <2>1. /\ candles' = candles \o Kept(window, body.rows)
        /\ previous' = LastTime(body.rows, previous)
        /\ \/ body.token = NoToken /\ result' = [kind |-> "history"]
           \/ /\ body.token # NoToken /\ NoNewPage(body)
              /\ result' = Fail("PAGINATION_NO_PROGRESS")
           \/ body.token # NoToken /\ ~NoNewPage(body) /\ result' = result
    BY <1>7 DEF ReadPage
  <2>2. CASE body.token # NoToken /\ NoNewPage(body)
    <3>1. result'.kind = "failed"
      BY <2>1, <2>2, Kinds
    <3> QED BY <1>1, <1>2, <1>4, <1>5, <3>1 DEF NativeInv
  <2>3. CASE body.token = NoToken \/ ~NoNewPage(body)
    <3>1. /\ body.token = NoToken => result' = [kind |-> "history"]
          /\ body.token # NoToken => result' = Waiting
      BY <1>1, <2>1, <2>3
    <3>2. /\ RowsOf(archive', len + 1) = body.rows /\ TokenOf(archive', len + 1) = body.token
          /\ archive'[len + 1].asked = AskedBy(archive)
      BY <1>4 DEF RowsOf, TokenOf, page
    <3>3. LastOf(archive', len) = previous
      <4>1. LastOf(archive', len) = LastOf(archive, len)
        <5>1. len <= len /\ len <= Len(archive')
          BY <1>2, <1>4
        <5> QED BY <1>2, <1>4, <5>1, LastOfAgrees
      <4> QED BY <1>2, <4>1 DEF WellRead
    <3>4. len + 1 \in 1 .. Len(archive') /\ (len + 1) - 1 = len /\ DOMAIN archive' = 1 .. len + 1
          /\ DOMAIN archive = 1 .. len
      BY <1>2, <1>4
    <3>5. previous' = LastOf(archive', Len(archive'))
      <4>1. LastOf(archive', len + 1) = LastTime(RowsOf(archive', len + 1), LastOf(archive', len))
        BY <1>4, <3>4, LastOfSteps
      <4> QED BY <1>4, <2>1, <3>2, <3>3, <4>1
    <3>6. candles' = Flat(window', archive')
      <4>1. Flat(window, archive') = Flat(window, archive) \o Kept(window, RowsOf(archive', Len(archive')))
        BY <1>2, <1>4, FlatAppend
      <4> QED BY <1>1, <1>2, <1>4, <2>1, <3>2, <4>1 DEF WellRead
    <3>7. Accepts(archive', len + 1)
      <4>1. AskedBy(archive) = IF len + 1 = 1 THEN NoToken ELSE TokenOf(archive', len)
        <5>1. CASE archive = <<>>
          BY <5>1 DEF AskedBy
        <5>2. CASE archive # <<>>
          <6>1. len # 0 /\ len \in 1 .. len
            BY <1>2, <5>2
          <6> QED BY <1>2, <1>4, <5>2, <6>1 DEF AskedBy, TokenOf
        <5> QED BY <5>1, <5>2
      <4>2. body.token # NoToken =>
              body.rows # <<>> /\ \A i \in 1 .. len : TokenOf(archive', i) # body.token
        <5>1. SUFFICES ASSUME body.token # NoToken
              PROVE body.rows # <<>> /\ \A i \in 1 .. len : TokenOf(archive', i) # body.token
          OBVIOUS
        <5>2. body.rows # <<>> /\ body.token \notin TokensSeen(archive)
          BY <2>3, <5>1 DEF NoNewPage
        <5>3. \A i \in 1 .. len : archive[i].body.token # body.token
          BY <3>4, <5>1, <5>2 DEF TokensSeen
        <5> QED BY <1>4, <5>2, <5>3 DEF TokenOf
      <4>3. AcceptsAt(archive', len + 1)
        BY <1>7, <3>2, <3>3, <3>4, <4>1, <4>2 DEF AcceptsAt
      <4> QED BY <1>4, <3>4, <4>3, AcceptsIs
    <3>8. ASSUME NEW n \in 1 .. len + 1 PROVE Accepts(archive', n)
      <4>1. CASE n = len + 1
        BY <3>7, <4>1
      <4>2. CASE n # len + 1
        <5>1. n \in Nat /\ n >= 1 /\ n <= len /\ n <= Len(archive') /\ n \in 1 .. len
              /\ \A i \in 1 .. n : i \in 1 .. len
          BY <1>2, <1>4, <4>2
        <5>2. \A i \in 1 .. n : archive[i] = archive'[i]
          BY <1>4, <5>1
        <5>3. Accepts(archive, n)
          BY <1>2, <3>4, <5>1 DEF WellRead
        <5> QED BY <1>2, <1>4, <5>1, <5>2, <5>3, AcceptsAgrees
      <4> QED BY <4>1, <4>2
    <3>9. \A n \in 1 .. len : archive[n].body.token # NoToken
      <4>1. \A n \in 1 .. len - 1 : archive[n].body.token # NoToken
        BY <1>2 DEF WellRead
      <4>2. len # 0 => archive[len].body.token # NoToken
        BY <1>1, <1>2 DEF WellRead
      <4>3. \A n \in 1 .. len : n \in 1 .. len - 1 \/ (n = len /\ len # 0)
        BY <1>2
      <4> QED BY <4>1, <4>2, <4>3
    <3>10. \A n \in 1 .. Len(archive') - 1 : archive'[n].body.token # NoToken
      <4>1. Len(archive') - 1 = len
        BY <1>2, <1>4
      <4> QED BY <1>4, <3>9, <4>1
    <3>11. archive'[Len(archive')].body.token = body.token
      BY <1>4, <3>2 DEF TokenOf
    <3>12. \A n \in DOMAIN archive' : Accepts(archive', n)
      BY <3>4, <3>8
    <3>13. WellRead'
      BY <1>4, <3>1, <3>5, <3>6, <3>10, <3>11, <3>12, Kinds DEF WellRead
    <3> QED BY <1>1, <1>2, <1>4, <1>5, <3>1, <3>13, Kinds DEF NativeInv
  <2> QED BY <2>2, <2>3
<1> QED BY <1>6, <1>7

LEMMA ReplayKeeps ==
  ASSUME NativeInv, NEW history \in {Fetched} \cup Altered(Fetched), ReplayArchive(history)
  PROVE  NativeInv'
<1>1. /\ result.kind = "history"
      /\ replay' = [verdict |-> IF Replays(window, history) THEN "accepted" ELSE "refused",
                    of |-> history]
      /\ UNCHANGED <<window, archive, candles, previous, result>>
  BY DEF ReplayArchive
<1>2. WellRead'
  BY <1>1 DEF NativeInv, WellRead
<1>3. Fetched' = Fetched /\ window' = window
  BY <1>1 DEF Fetched
<1>4. replay'.of = history /\ replay'.verdict = IF Replays(window, history) THEN "accepted" ELSE "refused"
  BY <1>1
<1>5. replay'.of \in {Fetched'} \cup Altered(Fetched')
  BY <1>3, <1>4
<1> QED BY <1>1, <1>2, <1>3, <1>4, <1>5 DEF NativeInv

LEMMA NativeStepKeeps == NativeInv /\ [NativeNext]_nativeVars => NativeInv'
<1> SUFFICES ASSUME NativeInv, [NativeNext]_nativeVars PROVE NativeInv'
  OBVIOUS
<1>1. CASE RefuseEmbargo
  BY <1>1, FailingKeeps DEF RefuseEmbargo
<1>2. CASE RetryRead \/ ReadAgain
  BY <1>2, NativeStutters DEF RetryRead, ReadAgain, NativeState
<1>3. CASE RequestExhausted
  BY <1>3, FailingKeeps DEF RequestExhausted, Reading, Raise
<1>4. CASE RequestRefused
  BY <1>4, FailingKeeps DEF RequestRefused, Reading, Raise
<1>5. CASE MalformedPage
  BY <1>5, FailingKeeps DEF MalformedPage, Reading, Raise
<1>6. ASSUME NEW body \in Body, ReadPage(body) PROVE NativeInv'
  BY <1>6, ReadPageKeeps
<1>7. CASE PageLimitReached
  BY <1>7, FailingKeeps DEF PageLimitReached, Raise
<1>8. ASSUME NEW history \in {Fetched} \cup Altered(Fetched), ReplayArchive(history) PROVE NativeInv'
  BY <1>8, ReplayKeeps
<1>9. CASE UNCHANGED nativeVars
  BY <1>9, NativeStutters DEF nativeVars, NativeState
<1> QED BY <1>1, <1>2, <1>3, <1>4, <1>5, <1>6, <1>7, <1>8, <1>9 DEF NativeNext


(***************************************************************************)
(* What a replay accepts.                                                  *)
(***************************************************************************)
LEMMA FetchedIsRead ==
  ASSUME NativeInv, result.kind = "history"
  PROVE  /\ archive \in Seq(ArchivedPage) /\ archive # <<>> /\ Len(archive) <= MaxReads
         /\ \A n \in 1 .. Len(archive) : Accepts(archive, n)
         /\ candles = Flat(window, archive)
         /\ \A n \in 1 .. Len(archive) - 1 : TokenOf(archive, n) # NoToken
         /\ TokenOf(archive, Len(archive)) = NoToken
<1>1. WellRead /\ archive \in Seq(ArchivedPage) /\ Len(archive) <= MaxReads
  BY DEF NativeInv
<1>2. DOMAIN archive = 1 .. Len(archive)
  BY <1>1
<1>3. result # Waiting
  BY Kinds
<1> QED BY <1>1, <1>2, <1>3 DEF WellRead, TokenOf

LEMMA FetchedReplays ==
  ASSUME NativeInv, result.kind = "history"
  PROVE  Replays(window, Fetched)
<1> DEFINE len == Len(archive)
           last == {n \in 1 .. len : archive[n].body.token = NoToken}
<1>1. /\ archive \in Seq(ArchivedPage) /\ len \in Nat /\ archive # <<>>
      /\ Fetched.pages = archive /\ Fetched.candles = candles
  BY FetchedIsRead DEF Fetched
<1>2. len \in last
  <2>1. len \in 1 .. len
    BY <1>1
  <2> QED BY <2>1, FetchedIsRead DEF TokenOf
<1>3. \A k \in last : len <= k
  <2>1. ASSUME NEW k \in last PROVE len <= k
    <3>1. k \in 1 .. len /\ ~(k \in 1 .. len - 1)
      BY FetchedIsRead DEF TokenOf
    <3> QED BY <1>1, <3>1
  <2> QED BY <2>1
<1>4. len <= MaxReads /\ (\A k \in 1 .. len : Accepts(archive, k)) /\ Flat(window, archive) = candles
  BY FetchedIsRead
<1> HIDE DEF last
<1>5. \E n \in last : /\ \A k \in last : n <= k
                      /\ n <= MaxReads
                      /\ \A k \in 1 .. n : Accepts(archive, k)
                      /\ len = n
                      /\ Flat(window, archive) = candles
  BY <1>2, <1>3, <1>4
<1> QED BY <1>1, <1>5 DEF Replays, last

(* A history that is accepted: its last page is the only one without a     *)
(* token, every page follows from those before it.                         *)
LEMMA ReplaysIs ==
  ASSUME NEW w, NEW history, Replays(w, history)
  PROVE  LET pages == history.pages
         IN /\ Len(pages) \in 1 .. Len(pages)
            /\ pages[Len(pages)].body.token = NoToken
            /\ \A k \in 1 .. Len(pages) : pages[k].body.token = NoToken => Len(pages) <= k
            /\ \A k \in 1 .. Len(pages) : Accepts(pages, k)
            /\ Flat(w, pages) = history.candles
  BY DEF Replays

LEMMA ReplaysGood ==
  ASSUME NEW w, NEW history, Replays(w, history), history.pages \in Seq(ArchivedPage)
  PROVE  Good(w, history.candles, BarsOf(history.pages))
  BY ReplaysIs, AcceptedGood

(* A page of another body: the pages stay pages.                           *)
SamePages(a, b) == Len(b) = Len(a) /\ \A k \in 1 .. Len(a) : TokenOf(a, k) = TokenOf(b, k)

LEMMA SameTokens ==
  ASSUME NEW a \in Seq(ArchivedPage), NEW b \in Seq(ArchivedPage), SamePages(a, b)
  PROVE  TokensOf(b) = TokensOf(a)
<1>1. DOMAIN a = 1 .. Len(a) /\ DOMAIN b = 1 .. Len(a)
  BY DEF SamePages
<1> QED BY <1>1 DEF SamePages, TokensOf, TokenOf

LEMMA JoinFacts ==
  ASSUME NEW S, NEW a \in Seq(S), NEW b \in Seq(S)
  PROVE  /\ a \o b \in Seq(S) /\ Len(a \o b) = Len(a) + Len(b)
         /\ \A k \in 1 .. Len(a) : (a \o b)[k] = a[k]
         /\ \A k \in 1 .. Len(b) : (a \o b)[Len(a) + k] = b[k]
  OBVIOUS

(* A page of another token, or with another row.                           *)
LEMMA TokenSwapped ==
  ASSUME NEW page \in ArchivedPage, NEW t \in Tokens \cup {NoToken}
  PROVE  LET q == [page EXCEPT !.body.token = t]
         IN q \in ArchivedPage /\ q.asked = page.asked /\ q.body.token = t
<1> DEFINE q == [page EXCEPT !.body.token = t]
<1>1. page.asked \in Tokens \cup {NoToken} /\ page.body \in Body
      /\ page = [asked |-> page.asked, body |-> page.body]
  BY DEF ArchivedPage
<1>2. PICK m \in 0 .. RowLimit :
        page.body \in [rows : [1 .. m -> Bar], token : Tokens \cup {NoToken}]
  BY <1>1 DEF Body
<1>3. [page.body EXCEPT !.token = t] \in [rows : [1 .. m -> Bar], token : Tokens \cup {NoToken}]
      /\ [page.body EXCEPT !.token = t].token = t
  BY <1>2
<1>4. [page.body EXCEPT !.token = t] \in Body
  BY <1>3 DEF Body
<1>5. q = [page EXCEPT !.body = [page.body EXCEPT !.token = t]]
  OBVIOUS
<1> QED BY <1>1, <1>3, <1>4, <1>5 DEF ArchivedPage

LEMMA RowSwapped ==
  ASSUME NEW page \in ArchivedPage, NEW i \in DOMAIN page.body.rows, NEW b \in Bar
  PROVE  LET q == [page EXCEPT !.body.rows[i] = b]
         IN q \in ArchivedPage /\ q.body.token = page.body.token
<1> DEFINE q == [page EXCEPT !.body.rows[i] = b]
           rows == [page.body.rows EXCEPT ![i] = b]
           body == [page.body EXCEPT !.rows = rows]
<1>1. page.asked \in Tokens \cup {NoToken} /\ page.body \in Body
      /\ page = [asked |-> page.asked, body |-> page.body]
  BY DEF ArchivedPage
<1>2. PICK m \in 0 .. RowLimit :
        page.body \in [rows : [1 .. m -> Bar], token : Tokens \cup {NoToken}]
  BY <1>1 DEF Body
<1>3. rows \in [1 .. m -> Bar]
  BY <1>2
<1>4. q = [page EXCEPT !.body = body]
  OBVIOUS
<1> HIDE DEF rows
<1>5. body \in [rows : [1 .. m -> Bar], token : Tokens \cup {NoToken}]
      /\ body.token = page.body.token
  BY <1>2, <1>3
<1>6. body \in Body
  BY <1>5 DEF Body
<1> HIDE DEF q, body
<1> QED BY <1>1, <1>4, <1>5, <1>6 DEF ArchivedPage, q

(* A page dropped.                                                         *)
LEMMA DroppedRefused ==
  ASSUME NativeInv, result.kind = "history", NEW n \in DOMAIN archive, NEW history,
         history.pages = Without(archive, n), Replays(window, history)
  PROVE  FALSE
<1> DEFINE len == Len(archive)
           p == Without(archive, n)
<1>1. /\ archive \in Seq(ArchivedPage) /\ len \in Nat /\ n \in 1 .. len
      /\ \A k \in 1 .. len : AcceptsAt(archive, k)
  BY FetchedIsRead, AcceptsIs
<1>2. /\ p \in Seq(ArchivedPage) /\ Len(p) = len - 1
      /\ \A k \in 1 .. n - 1 : p[k] = archive[k]
      /\ \A k \in n .. len - 1 : p[k] = archive[k + 1]
  <2> DEFINE a == SubSeq(archive, 1, n - 1)
             b == SubSeq(archive, n + 1, len)
  <2>1. a \in Seq(ArchivedPage) /\ Len(a) = n - 1 /\ \A k \in 1 .. n - 1 : a[k] = archive[k]
    BY <1>1
  <2>2. b \in Seq(ArchivedPage) /\ Len(b) = len - n /\ \A k \in 1 .. len - n : b[k] = archive[n + k]
    BY <1>1
  <2>3. p = a \o b
    BY DEF Without
  <2> HIDE DEF a, b, p
  <2>4. /\ p \in Seq(ArchivedPage) /\ Len(p) = Len(a) + Len(b)
        /\ \A k \in 1 .. Len(a) : p[k] = a[k]
        /\ \A k \in 1 .. Len(b) : p[Len(a) + k] = b[k]
    BY <2>1, <2>2, <2>3, JoinFacts
  <2>5. \A k \in 1 .. n - 1 : p[k] = archive[k]
    BY <2>1, <2>4
  <2>6. ASSUME NEW k \in n .. len - 1 PROVE p[k] = archive[k + 1]
    <3> DEFINE d == k - (n - 1)
    <3>1. d \in 1 .. len - n /\ (n - 1) + d = k /\ n + d = k + 1
      BY <1>1
    <3>2. p[(n - 1) + d] = b[d] /\ b[d] = archive[n + d]
      BY <2>1, <2>2, <2>4, <3>1
    <3> QED BY <3>1, <3>2
  <2>7. Len(p) = len - 1
    BY <1>1, <2>1, <2>2, <2>4
  <2> QED BY <2>4, <2>5, <2>6, <2>7
<1> HIDE DEF p
<1>3. /\ Len(p) \in 1 .. Len(p) /\ p[Len(p)].body.token = NoToken
      /\ \A k \in 1 .. Len(p) : AcceptsAt(p, k)
  BY <1>2, ReplaysIs, AcceptsIs DEF p
<1>4. \A k \in 1 .. len - 1 : TokenOf(archive, k) # NoToken
  BY FetchedIsRead
<1>5. CASE n = len
  <2>1. len - 1 \in 1 .. n - 1 /\ len - 1 \in 1 .. len - 1
    BY <1>1, <1>2, <1>3, <1>5
  <2>2. p[len - 1] = archive[len - 1] /\ p[len - 1].body.token = NoToken
    BY <1>2, <1>3, <2>1
  <2> QED BY <1>4, <2>1, <2>2 DEF TokenOf
<1>6. CASE n # len
  <2>1. n \in 1 .. len - 1 /\ n \in n .. len - 1 /\ n \in 1 .. Len(p) /\ n + 1 \in 1 .. len
        /\ (n + 1) - 1 = n /\ n + 1 # 1
    BY <1>1, <1>2, <1>6
  <2>2. p[n] = archive[n + 1]
    BY <1>2, <2>1
  <2>3. archive[n + 1].asked = TokenOf(archive, n)
    BY <1>1, <2>1 DEF AcceptsAt
  <2>4. p[n].asked = IF n = 1 THEN NoToken ELSE TokenOf(p, n - 1)
    BY <1>3, <2>1 DEF AcceptsAt
  <2>5. TokenOf(archive, n) # NoToken
    BY <1>4, <2>1
  <2>6. CASE n = 1
    BY <2>2, <2>3, <2>4, <2>5, <2>6
  <2>7. CASE n # 1
    <3>1. n - 1 \in 1 .. n - 1 /\ n \in 1 .. len
      BY <1>1, <2>7
    <3>2. TokenOf(p, n - 1) = TokenOf(archive, n - 1)
      BY <1>2, <3>1 DEF TokenOf
    <3>3. TokenOf(archive, n - 1) # TokenOf(archive, n)
      BY <1>1, <2>5, <3>1 DEF AcceptsAt
    <3> QED BY <2>2, <2>3, <2>4, <2>7, <3>2, <3>3
  <2> QED BY <2>6, <2>7
<1> QED BY <1>5, <1>6

(* A page added.                                                           *)
LEMMA AddedRefused ==
  ASSUME NativeInv, result.kind = "history", NEW page \in ArchivedPage, NEW history,
         history.pages = Append(archive, page), Replays(window, history)
  PROVE  FALSE
<1> DEFINE len == Len(archive)
           p == Append(archive, page)
<1>1. archive \in Seq(ArchivedPage) /\ len \in Nat /\ archive # <<>> /\ len # 0
  BY FetchedIsRead
<1>2. Len(p) = len + 1 /\ p[len] = archive[len]
  BY <1>1
<1>3. p[len].body.token = NoToken
  BY <1>2, FetchedIsRead DEF TokenOf
<1>4. \A k \in 1 .. Len(p) : p[k].body.token = NoToken => Len(p) <= k
  BY ReplaysIs
<1>5. len \in 1 .. Len(p) /\ ~(Len(p) <= len)
  BY <1>1, <1>2
<1> QED BY <1>3, <1>4, <1>5

(* A token changed.                                                        *)
LEMMA TokenRefused ==
  ASSUME NativeInv, result.kind = "history", NEW n \in DOMAIN archive,
         NEW t \in Tokens \cup {NoToken}, NEW history,
         history.pages = [archive EXCEPT ![n].body.token = t], Replays(window, history)
  PROVE  t = TokenOf(archive, n)
<1> DEFINE len == Len(archive)
           p == [archive EXCEPT ![n].body.token = t]
<1>1. /\ archive \in Seq(ArchivedPage) /\ len \in Nat /\ n \in 1 .. len
      /\ \A k \in 1 .. len : AcceptsAt(archive, k)
  BY FetchedIsRead, AcceptsIs
<1> DEFINE q == [archive[n] EXCEPT !.body.token = t]
<1>2. q \in ArchivedPage /\ q.asked = archive[n].asked /\ q.body.token = t
  <2>1. archive[n] \in ArchivedPage
    BY <1>1
  <2> QED BY <2>1, TokenSwapped
<1> HIDE DEF q
<1>3. /\ p \in Seq(ArchivedPage) /\ Len(p) = len /\ p[n] = q
      /\ \A k \in 1 .. len : k # n => p[k] = archive[k]
  <2>1. p = [archive EXCEPT ![n] = q]
    BY DEF q
  <2> HIDE DEF p
  <2> QED BY <1>1, <1>2, <2>1
<1> HIDE DEF p
<1>4. /\ len \in 1 .. len /\ p[len].body.token = NoToken
      /\ \A k \in 1 .. len : AcceptsAt(p, k)
  <2>1. history.pages = p
    BY DEF p
  <2>2. /\ Len(p) \in 1 .. Len(p) /\ p[Len(p)].body.token = NoToken
        /\ \A k \in 1 .. Len(p) : Accepts(p, k)
    BY <2>1, ReplaysIs
  <2> QED BY <1>3, <2>2, AcceptsIs
<1>5. CASE n = len
  <2>1. t = NoToken
    BY <1>2, <1>3, <1>4, <1>5
  <2>2. TokenOf(archive, len) = NoToken
    BY FetchedIsRead
  <2> QED BY <1>5, <2>1, <2>2
<1>6. CASE n # len
  <2>1. n + 1 \in 1 .. len /\ n + 1 # n /\ n + 1 # 1 /\ (n + 1) - 1 = n
    BY <1>1, <1>6
  <2>2. archive[n + 1].asked = TokenOf(archive, n)
    BY <1>1, <2>1 DEF AcceptsAt
  <2>3. p[n + 1].asked = TokenOf(p, n)
    BY <1>4, <2>1 DEF AcceptsAt
  <2>4. p[n + 1] = archive[n + 1] /\ TokenOf(p, n) = t
    BY <1>2, <1>3, <2>1 DEF TokenOf
  <2> QED BY <2>2, <2>3, <2>4
<1> QED BY <1>5, <1>6


AlteredFrom(fetched, history) ==
  LET pages == fetched.pages
      bars == fetched.candles
  IN \/ \E n \in DOMAIN pages : history = [fetched EXCEPT !.pages = Without(@, n)]
     \/ \E n \in DOMAIN pages : history = [fetched EXCEPT !.pages = Append(@, pages[n])]
     \/ \E n \in DOMAIN bars : history = [fetched EXCEPT !.candles = Without(@, n)]
     \/ \E n \in DOMAIN bars, v \in Prices : history = [fetched EXCEPT !.candles[n].v = v]
     \/ \E n \in DOMAIN pages : \E i \in DOMAIN pages[n].body.rows, b \in Bar :
          history = [fetched EXCEPT !.pages[n].body.rows[i] = b]
     \/ \E n \in DOMAIN pages, t \in Tokens \cup {NoToken} :
          history = [fetched EXCEPT !.pages[n].body.token = t]

LEMMA AlteredIs ==
  ASSUME NEW fetched, NEW history \in Altered(fetched)
  PROVE  AlteredFrom(fetched, history)
<1> DEFINE pages == fetched.pages
           bars == fetched.candles
           WithoutPage(n) == [fetched EXCEPT !.pages = Without(@, n)]
           WithPage(n) == [fetched EXCEPT !.pages = Append(@, pages[n])]
           WithoutBar(n) == [fetched EXCEPT !.candles = Without(@, n)]
           WithPrice(n, v) == [fetched EXCEPT !.candles[n].v = v]
           WithRow(n, i, b) == [fetched EXCEPT !.pages[n].body.rows[i] = b]
           WithToken(n, t) == [fetched EXCEPT !.pages[n].body.token = t]
<1>1. history \in
        {WithoutPage(n) : n \in DOMAIN pages}
        \cup {WithPage(n) : n \in DOMAIN pages}
        \cup {WithoutBar(n) : n \in DOMAIN bars}
        \cup {WithPrice(n, v) : n \in DOMAIN bars, v \in Prices}
        \cup (UNION {{WithRow(n, i, b) : i \in DOMAIN pages[n].body.rows, b \in Bar} : n \in DOMAIN pages})
        \cup {WithToken(n, t) : n \in DOMAIN pages, t \in Tokens \cup {NoToken}}
  BY DEF Altered
<1> HIDE DEF WithoutPage, WithPage, WithoutBar, WithPrice, WithRow, WithToken, pages, bars
<1>2. \/ \E n \in DOMAIN pages : history = WithoutPage(n)
      \/ \E n \in DOMAIN pages : history = WithPage(n)
      \/ \E n \in DOMAIN bars : history = WithoutBar(n)
      \/ \E n \in DOMAIN bars, v \in Prices : history = WithPrice(n, v)
      \/ \E n \in DOMAIN pages : \E i \in DOMAIN pages[n].body.rows, b \in Bar :
           history = WithRow(n, i, b)
      \/ \E n \in DOMAIN pages, t \in Tokens \cup {NoToken} : history = WithToken(n, t)
  BY <1>1
<1> QED BY <1>2 DEF AlteredFrom, WithoutPage, WithPage, WithoutBar, WithPrice, WithRow, WithToken, pages, bars

(* What a change of one row of a history does to its pages.                *)
LEMMA RowEdited ==
  ASSUME NEW ps, NEW cs, NEW n, NEW i, NEW b, NEW h,
         h = [[pages |-> ps, candles |-> cs] EXCEPT !.pages[n].body.rows[i] = b]
  PROVE  h.pages = [ps EXCEPT ![n].body.rows[i] = b]
<1> DEFINE old == [pages |-> ps, candles |-> cs]
           new == [ps EXCEPT ![n].body.rows[i] = b]
<1>1. "pages" \in DOMAIN old /\ old.pages = ps
  OBVIOUS
<1> QED BY <1>1

(* A history that a replay accepts has pages like the fetched ones.        *)
LEMMA AcceptedPages ==
  ASSUME NativeInv, result.kind = "history", NEW history \in {Fetched} \cup Altered(Fetched),
         Replays(window, history)
  PROVE  /\ history.pages \in Seq(ArchivedPage)
         /\ TokensOf(history.pages) = TokensOf(archive)
<1>1. archive \in Seq(ArchivedPage) /\ DOMAIN archive = 1 .. Len(archive)
      /\ Fetched = [pages |-> archive, candles |-> candles]
      /\ Fetched.pages = archive /\ Fetched.candles = candles
  BY FetchedIsRead DEF Fetched
<1>2. CASE history.pages = archive
  BY <1>1, <1>2
<1>3. CASE \E n \in DOMAIN archive : history.pages = Without(archive, n)
  BY <1>3, DroppedRefused
<1>4. CASE \E n \in DOMAIN archive : history.pages = Append(archive, archive[n])
  <2>1. \A n \in DOMAIN archive : archive[n] \in ArchivedPage
    BY <1>1
  <2> QED BY <1>4, <2>1, AddedRefused
<1>5. ASSUME NEW n \in DOMAIN archive, NEW i \in DOMAIN archive[n].body.rows, NEW b \in Bar,
             history.pages = [archive EXCEPT ![n].body.rows[i] = b]
      PROVE  history.pages \in Seq(ArchivedPage) /\ TokensOf(history.pages) = TokensOf(archive)
  <2> DEFINE q == [archive[n] EXCEPT !.body.rows[i] = b]
  <2>1. q \in ArchivedPage /\ q.body.token = archive[n].body.token
    <3>1. archive[n] \in ArchivedPage
      BY <1>1
    <3> QED BY <3>1, RowSwapped
  <2>2. history.pages = [archive EXCEPT ![n] = q]
    BY <1>5
  <2> HIDE DEF q
  <2>3. history.pages \in Seq(ArchivedPage) /\ SamePages(archive, history.pages)
    BY <1>1, <2>1, <2>2 DEF SamePages, TokenOf
  <2> QED BY <1>1, <2>3, SameTokens
<1>6. ASSUME NEW n \in DOMAIN archive, NEW t \in Tokens \cup {NoToken},
             history.pages = [archive EXCEPT ![n].body.token = t]
      PROVE  history.pages \in Seq(ArchivedPage) /\ TokensOf(history.pages) = TokensOf(archive)
  <2> DEFINE q == [archive[n] EXCEPT !.body.token = t]
  <2>1. q \in ArchivedPage /\ q.body.token = t
    <3>1. archive[n] \in ArchivedPage
      BY <1>1
    <3> QED BY <3>1, TokenSwapped
  <2>2. history.pages = [archive EXCEPT ![n] = q]
    BY <1>6
  <2>3. t = TokenOf(archive, n)
    BY <1>6, TokenRefused
  <2> HIDE DEF q
  <2>4. history.pages \in Seq(ArchivedPage) /\ SamePages(archive, history.pages)
    BY <1>1, <2>1, <2>2, <2>3 DEF SamePages, TokenOf
  <2> QED BY <1>1, <2>4, SameTokens
<1>7. \/ history.pages = archive
      \/ \E n \in DOMAIN archive : history.pages = Without(archive, n)
      \/ \E n \in DOMAIN archive : history.pages = Append(archive, archive[n])
      \/ \E n \in DOMAIN archive : \E i \in DOMAIN archive[n].body.rows, b \in Bar :
           history.pages = [archive EXCEPT ![n].body.rows[i] = b]
      \/ \E n \in DOMAIN archive, t \in Tokens \cup {NoToken} :
           history.pages = [archive EXCEPT ![n].body.token = t]
  <2>1. CASE history = Fetched
    BY <1>1, <2>1
  <2>2. CASE history \in Altered(Fetched)
    <3> DEFINE pages == Fetched.pages
               bars == Fetched.candles
    <3>1. CASE \E n \in DOMAIN pages : history = [Fetched EXCEPT !.pages = Without(@, n)]
      BY <1>1, <3>1
    <3>2. CASE \E n \in DOMAIN pages : history = [Fetched EXCEPT !.pages = Append(@, pages[n])]
      BY <1>1, <3>2
    <3>3. CASE \E n \in DOMAIN bars : history = [Fetched EXCEPT !.candles = Without(@, n)]
      BY <1>1, <3>3
    <3>4. CASE \E n \in DOMAIN bars, v \in Prices : history = [Fetched EXCEPT !.candles[n].v = v]
      BY <1>1, <3>4
    <3>5. CASE \E n \in DOMAIN pages : \E i \in DOMAIN pages[n].body.rows, b \in Bar :
                 history = [Fetched EXCEPT !.pages[n].body.rows[i] = b]
      <4>1. PICK n \in DOMAIN archive : \E i \in DOMAIN archive[n].body.rows, b \in Bar :
              history = [Fetched EXCEPT !.pages[n].body.rows[i] = b]
        BY <1>1, <3>5
      <4>2. PICK i \in DOMAIN archive[n].body.rows, b \in Bar :
              history = [Fetched EXCEPT !.pages[n].body.rows[i] = b]
        BY <4>1
      <4>3. history.pages = [archive EXCEPT ![n].body.rows[i] = b]
        BY <4>2, RowEdited DEF Fetched
      <4>4. n \in DOMAIN archive /\ i \in DOMAIN archive[n].body.rows /\ b \in Bar
        BY <4>1, <4>2
      <4> QED BY <4>3, <4>4, Zenon
    <3>6. CASE \E n \in DOMAIN pages, t \in Tokens \cup {NoToken} :
                 history = [Fetched EXCEPT !.pages[n].body.token = t]
      <4>1. PICK n \in DOMAIN archive, t \in Tokens \cup {NoToken} :
              history = [Fetched EXCEPT !.pages[n].body.token = t]
        BY <1>1, <3>6
      <4>2. history.pages = [Fetched.pages EXCEPT ![n].body.token = t]
        BY <1>1, <4>1
      <4> QED BY <1>1, <4>1, <4>2
    <3>7. AlteredFrom(Fetched, history)
      BY <2>2, AlteredIs
    <3> QED BY <3>1, <3>2, <3>3, <3>4, <3>5, <3>6, <3>7, Zenon DEF AlteredFrom
  <2> QED BY <2>1, <2>2
<1> QED BY <1>2, <1>3, <1>4, <1>5, <1>6, <1>7

LEMMA GoodIsSound ==
  ASSUME NEW s, NEW S, Good(window, s, S)
  PROVE  NativeSource!Sound(s, S)
  BY DEF Good, Ascend, Members, Clipped, Inside, NativeSource!Sound, NativeSource!Ascending,
         NativeSource!Bars, NativeSource!InWindow

(* The loop over the pages, its candles and the verdict on a replay are    *)
(* what they should be in every state (alpaca.py:118-284).                 *)
THEOREM NativeInductive == NativeSpec => []NativeInv
<1>1. NativeInit => NativeInv
  BY NativeInitHolds
<1>2. NativeInv /\ [NativeNext]_nativeVars => NativeInv'
  BY NativeStepKeeps
<1> QED BY <1>1, <1>2, PTL DEF NativeSpec

(* The archive of a fetched history replays, and one that replays has its  *)
(* chain of tokens and the bars of its own pages (alpaca.py:269-284).      *)
THEOREM ReplaysAreExact == NativeSpec => []ReplayExact
<1>1. NativeInv => ReplayExact
  <2> SUFFICES ASSUME NativeInv PROVE ReplayExact
    OBVIOUS
  <2>1. CASE replay = NotReplayed
    BY <2>1 DEF ReplayExact, NotReplayed
  <2>2. CASE replay # NotReplayed
    <3>1. /\ result.kind = "history"
          /\ replay.of \in {Fetched} \cup Altered(Fetched)
          /\ replay.verdict = IF Replays(window, replay.of) THEN "accepted" ELSE "refused"
      BY <2>2 DEF NativeInv
    <3>2. replay.verdict = "refused" => replay.of # Fetched
      BY <3>1, FetchedReplays
    <3>3. CASE replay.verdict = "accepted"
      <4>1. Replays(window, replay.of)
        BY <3>1, <3>3
      <4>2. replay.of.pages \in Seq(ArchivedPage) /\ TokensOf(replay.of.pages) = TokensOf(archive)
        BY <3>1, <4>1, AcceptedPages
      <4>3. NativeSource!Sound(replay.of.candles, BarsOf(replay.of.pages))
        BY <4>1, <4>2, ReplaysGood, GoodIsSound
      <4> QED BY <3>3, <4>2, <4>3 DEF ReplayExact
    <3> QED BY <3>2, <3>3 DEF ReplayExact
  <2> QED BY <2>1, <2>2
<1> QED BY <1>1, NativeInductive, PTL

LEMMA ServedGrows ==
  ASSUME NEW a \in Seq(ArchivedPage), NEW page \in ArchivedPage
  PROVE  BarsOf(a) \subseteq BarsOf(Append(a, page))
<1> DEFINE b == Append(a, page)
<1>1. \A k \in DOMAIN a : k \in DOMAIN b /\ b[k] = a[k]
  OBVIOUS
<1> HIDE DEF b
<1>2. BarsOf(a) \subseteq BarsOf(b)
  BY <1>1 DEF BarsOf
<1> QED BY <1>2 DEF b

LEMMA FetchIsReply ==
  ASSUME NativeInv, NativeInv', result = Waiting, window' = window,
         BarsOf(archive) \subseteq BarsOf(archive'),
         result' = Waiting \/ result'.kind = "failed" \/ result' = [kind |-> "history"]
  PROVE  NativeSource!Reply
<1>1. NativeAnswer.kind = "waiting"
  BY Kinds DEF NativeAnswer
<1>2. NativeAnswer'.kind = result'.kind
  BY DEF NativeAnswer
<1>3. CASE result' = [kind |-> "history"]
  <2>1. result'.kind = "history" /\ NativeAnswer'.bars = candles'
    BY <1>3, Kinds DEF NativeAnswer
  <2>2. Good(window', candles', BarsOf(archive'))
    <3>1. WellRead' /\ archive' \in Seq(ArchivedPage)
      BY <2>1 DEF NativeInv
    <3>2. DOMAIN archive' = 1 .. Len(archive')
      BY <3>1
    <3>3. (\A n \in 1 .. Len(archive') : Accepts(archive', n)) /\ candles' = Flat(window', archive')
      BY <3>1, <3>2 DEF WellRead
    <3> QED BY <3>1, <3>3, AcceptedGood
  <2>3. Good(window, candles', BarsOf(archive'))
    BY <2>2
  <2>4. NativeSource!Sound(candles', BarsOf(archive'))
    BY <2>3, GoodIsSound
  <2> QED BY <1>1, <1>2, <2>1, <2>4 DEF NativeSource!Reply
<1>4. CASE result' = Waiting \/ result'.kind = "failed"
  BY <1>1, <1>2, <1>4, Kinds DEF NativeSource!Reply
<1> QED BY <1>3, <1>4

(* A native history implements the source of a history: a call that fails  *)
(* or retries promises nothing, one that ends with a history has every bar *)
(* of the window that its pages served (alpaca.py:200-267).                *)
THEOREM NativeRefines == NativeSpec => NativeImplementsSource
<1>1. NativeInit => NativeSource!SourceInit
  <2> SUFFICES ASSUME NativeInit PROVE NativeSource!SourceInit
    OBVIOUS
  <2>1. archive = <<>> /\ result = Waiting
    BY DEF NativeInit
  <2>2. BarsOf(archive) = {}
    BY <2>1 DEF BarsOf
  <2>3. NativeAnswer = [kind |-> "waiting", bars |-> <<>>]
    BY <2>1, Kinds DEF NativeAnswer
  <2> QED BY <2>2, <2>3 DEF NativeSource!SourceInit
<1>2. NativeInv /\ NativeInv' /\ [NativeNext]_nativeVars
        => [NativeSource!Reply]_<<window, BarsOf(archive), NativeAnswer>>
  <2> SUFFICES ASSUME NativeInv, NativeInv', [NativeNext]_nativeVars
      PROVE  NativeSource!Reply \/ UNCHANGED <<window, BarsOf(archive), NativeAnswer>>
    OBVIOUS
  <2>1. ASSUME UNCHANGED <<window, archive, candles, result>>
        PROVE  UNCHANGED <<window, BarsOf(archive), NativeAnswer>>
    BY <2>1 DEF NativeAnswer
  <2>2. ASSUME NEW code, result = Waiting, result' = Fail(code), window' = window, archive' = archive
        PROVE  NativeSource!Reply
    <3>1. result'.kind = "failed"
      BY <2>2, Kinds
    <3>2. BarsOf(archive) \subseteq BarsOf(archive')
      BY <2>2
    <3> QED BY <2>2, <3>1, <3>2, FetchIsReply
  <2>3. CASE RefuseEmbargo
    BY <2>2, <2>3 DEF RefuseEmbargo
  <2>4. CASE RetryRead \/ ReadAgain
    BY <2>1, <2>4 DEF RetryRead, ReadAgain
  <2>5. CASE RequestExhausted
    BY <2>2, <2>5 DEF RequestExhausted, Reading, Raise
  <2>6. CASE RequestRefused
    BY <2>2, <2>6 DEF RequestRefused, Reading, Raise
  <2>7. CASE MalformedPage
    BY <2>2, <2>7 DEF MalformedPage, Reading, Raise
  <2>8. ASSUME NEW body \in Body, ReadPage(body) PROVE NativeSource!Reply
    <3> DEFINE page == [asked |-> AskedBy(archive), body |-> body]
    <3>1. /\ result = Waiting /\ window' = window /\ archive' = Append(archive, page)
          /\ archive \in Seq(ArchivedPage) /\ archive' \in Seq(ArchivedPage)
      BY <2>8 DEF ReadPage, Reading, NativeInv
    <3>2. page \in ArchivedPage
      <4> HIDE DEF page
      <4>1. archive'[Len(archive) + 1] = page /\ Len(archive) + 1 \in DOMAIN archive'
        BY <3>1
      <4> QED BY <3>1, <4>1
    <3>3. BarsOf(archive) \subseteq BarsOf(archive')
      BY <3>1, <3>2, ServedGrows
    <3>4. result' = Waiting \/ result'.kind = "failed" \/ result' = [kind |-> "history"]
      BY <2>8, <3>1, Kinds DEF ReadPage
    <3> QED BY <3>1, <3>3, <3>4, FetchIsReply
  <2>9. CASE PageLimitReached
    BY <2>2, <2>9 DEF PageLimitReached, Raise
  <2>10. ASSUME NEW history, ReplayArchive(history)
         PROVE  UNCHANGED <<window, BarsOf(archive), NativeAnswer>>
    BY <2>1, <2>10 DEF ReplayArchive
  <2>11. CASE UNCHANGED nativeVars
    BY <2>1, <2>11 DEF nativeVars
  <2> QED BY <2>3, <2>4, <2>5, <2>6, <2>7, <2>8, <2>9, <2>10, <2>11 DEF NativeNext
<1> QED BY <1>1, <1>2, NativeInductive, PTL
    DEF NativeSpec, NativeImplementsSource, NativeSource!SourceSpec
================================================================================
