---------------------------- MODULE MCProviderData ----------------------------
(* The parts that fetch, place and record provider data.  They share no state: *)
(* each behaviour runs one of them, so that one run checks all of them over    *)
(* the sum of their states.                                                    *)
EXTENDS BitgetHistory, NativeHistory, HistoryExport, RequestGate, CohortWindow, AuditRecords,
        SessionTargets

VARIABLE subject

allVars == <<subject, bitgetVars, nativeVars, exportVars, gateVars, cohortVars, auditVars, targetVars>>

MCAssessments == {[t \in Expected |-> CASE t = 1 -> "open" [] t = 2 -> "closed" [] t = 3 -> "unknown"]}
MCWorlds == {{1, 2, 3}, {1, 3}}
MCWindows == {<<1, 3>>, <<1, 4>>}

(* Holidays and early closes inside the window, next to a weekend and at its   *)
(* ends.                                                                       *)
MCCalendars == {[d \in Days |-> CASE d \in {0, 6} -> "full" [] d \in {2, 5} -> "none"
                                  [] d = 1 -> a [] d = 3 -> b [] d = 4 -> c] :
                  a \in {"full", "early", "none"}, b \in {"none", "full"},
                  c \in {"none", "early"}}

(* A record that covers the window, one that joins or contradicts it over part *)
(* of the window, and sometimes a third that clashes only inside the window.   *)
Covers == [symbols : {{"s1"}}, capability : {"TRADING_SCHEDULE"}, mode : {"TWENTY_FOUR_FIVE"},
           type : {"SYMBOL_BATCH_CHANGE", "DATED_ENUMERATED_STATUS"},
           confidence : {"VERIFIED_EXPLICIT"}, from : {1}, to : {28}]
Others == [symbols : {{"s1"}, {"*"}}, capability : {"TRADING_SCHEDULE", "SUSPENSION"},
           mode : {"TWENTY_FOUR_SEVEN"},
           type : {"SYMBOL_BATCH_CHANGE", "DATED_ENUMERATED_STATUS", "GENERAL_PRODUCT_RULE",
                   "CURRENT_METADATA"},
           confidence : {"VERIFIED_EXPLICIT"}, from : {1, 9}, to : {12, 28}]
Clash == [symbols |-> {"s1"}, capability |-> "TRADING_SCHEDULE", mode |-> "TWENTY_FOUR_FIVE",
          type |-> "SYMBOL_BATCH_CHANGE", confidence |-> "VERIFIED_EXPLICIT", from |-> 9, to |-> 12]
MCDatasets == {{r, q} : r \in Covers, q \in Others}
              \cup {{r, q, Clash} : r \in Covers, q \in {o \in Others : o.from = 9}}

MCRoster == <<"s1", "s2", "s3">>
MCUniverses == {{}, {"s1", "s2"}, {"s1", "s3"}}
MCAnswers == {[kind |-> "history", quality |-> "PASS", days |-> {1, 2, 3}],
              [kind |-> "history", quality |-> "WARN", days |-> {2, 3}],
              [kind |-> "history", quality |-> "FAIL", days |-> {1}],
              [kind |-> "pagination_error", quality |-> "FAIL", days |-> {}],
              [kind |-> "provider_error", quality |-> "FAIL", days |-> {}],
              [kind |-> "invalid", quality |-> "FAIL", days |-> {}]}

(* The parts that do not run stay in one of their initial states.              *)
Init == /\ subject \in {"bitget", "native", "export", "gate", "cohort", "audit", "targets"}
        /\ BitgetInit /\ NativeInit /\ ExportInit /\ GateInit /\ CohortInit /\ AuditInit
        /\ TargetInit
        /\ subject # "bitget" => world = {1, 3}
        /\ subject # "native" => window = <<1, 3>>
        /\ subject # "export" => overwrite = [e \in Exporters |-> FALSE]
        /\ subject # "cohort" => /\ trading = CHOOSE c \in Calendars : TRUE
                                 /\ evidence = CHOOSE d \in Datasets : TRUE

BitgetStep == /\ subject = "bitget" /\ BitgetNext
              /\ UNCHANGED <<subject, nativeVars, exportVars, gateVars, cohortVars,
                             auditVars, targetVars>>
NativeStep == /\ subject = "native" /\ NativeNext
              /\ UNCHANGED <<subject, bitgetVars, exportVars, gateVars, cohortVars,
                             auditVars, targetVars>>
ExportStep == /\ subject = "export" /\ ExportNext
              /\ UNCHANGED <<subject, bitgetVars, nativeVars, gateVars, cohortVars,
                             auditVars, targetVars>>
GateStep == /\ subject = "gate" /\ GateNext
            /\ UNCHANGED <<subject, bitgetVars, nativeVars, exportVars, cohortVars,
                           auditVars, targetVars>>
CohortStep == /\ subject = "cohort" /\ CohortNext
              /\ UNCHANGED <<subject, bitgetVars, nativeVars, exportVars, gateVars,
                             auditVars, targetVars>>
AuditStep == /\ subject = "audit" /\ AuditNext
             /\ UNCHANGED <<subject, bitgetVars, nativeVars, exportVars, gateVars,
                            cohortVars, targetVars>>
TargetStep == /\ subject = "targets" /\ TargetNext
              /\ UNCHANGED <<subject, bitgetVars, nativeVars, exportVars, gateVars,
                             cohortVars, auditVars>>

Next == \/ BitgetStep \/ NativeStep \/ ExportStep \/ GateStep \/ CohortStep \/ AuditStep
        \/ TargetStep

(* A fetch runs in one thread that nothing holds up for ever: requests time    *)
(* out and pauses end.                                                         *)
Spec == Init /\ [][Next]_allVars /\ WF_bitgetVars(BitgetStep) /\ WF_nativeVars(NativeStep)

(* ENDS: a history of either provider ends, whatever is sent and however often *)
(* a request fails (history.py:100-144, client.py:152-208, alpaca.py:119-267). *)
FetchEnds == <>/\ subject = "bitget" => outcome # Pending
               /\ subject = "native" => result # Waiting
===============================================================================
