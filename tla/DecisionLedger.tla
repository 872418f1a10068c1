--------------------------- MODULE DecisionLedger ---------------------------
(***************************************************************************)
(* What the point-in-time tables promise a reader, without the tables: per *)
(* decision timestamp a growing set of accepted captures, and a snapshot   *)
(* that is the first of them and never changes afterwards.                 *)
(* PointInTimeCapture implements this specification.                       *)
(***************************************************************************)
CONSTANTS Decisions,  \* decision timestamps
          Captures    \* captures, named by their content

VARIABLES evidence,   \* evidence[d]: the captures accepted for decision d
          snapshot    \* snapshot[d]: {} or the one capture that is d's snapshot

vars == <<evidence, snapshot>>

Init == /\ evidence = [d \in Decisions |-> {}]
        /\ snapshot = [d \in Decisions |-> {}]

(* A capture is accepted at most once; the first one becomes the snapshot. *)
Accept(d, c) ==
  /\ c \notin evidence[d]
  /\ evidence' = [evidence EXCEPT ![d] = @ \union {c}]
  /\ snapshot' = [snapshot EXCEPT ![d] = IF @ = {} THEN {c} ELSE @]

Next == \E d \in Decisions, c \in Captures : Accept(d, c)

Spec == Init /\ [][Next]_vars
=============================================================================
