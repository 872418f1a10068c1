----------------------------- MODULE RequestGate -----------------------------
(* The request gate of a dataset collection: native workers and their retries  *)
(* share one lock and one time of the previous admission.  Time is counted in  *)
(* hundredths of a second from the start of the clock; it advances whenever it *)
(* likes, also while a thread holds the lock and after it released it.         *)
EXTENDS Integers, Sequences

CONSTANTS Threads,      \* native workers
          Gap,          \* the spacing of admissions (0.32 seconds)
          LastTick      \* bound: the clock stops here

ASSUME GapAssumption == Gap \in Nat

VARIABLES now,          \* time.monotonic()
          gateLock,     \* the thread that holds the lock, or Nobody
          gateAt,       \* where each thread is in wait()
          wakes,        \* when the sleep of a thread is over
          previousAt,   \* previous: the last admission
          admissions    \* ghost: the times of all admissions, in order

gateVars == <<now, gateLock, gateAt, wakes, previousAt, admissions>>

Nobody == "nobody"

ASSUME ThreadAssumption == Nobody \notin Threads

GateInit == /\ now = 0
            /\ gateLock = Nobody
            /\ gateAt = [t \in Threads |-> "outside"]
            /\ wakes = [t \in Threads |-> 0]
            /\ previousAt = 0
            /\ admissions = <<>>

Tick == /\ now < LastTick
        /\ now' = now + 1
        /\ UNCHANGED <<gateLock, gateAt, wakes, previousAt, admissions>>

Acquire(t) == /\ gateAt[t] = "outside"
              /\ gateLock = Nobody
              /\ gateLock' = t
              /\ gateAt' = [gateAt EXCEPT ![t] = "measuring"]
              /\ UNCHANGED <<now, wakes, previousAt, admissions>>

(* The delay is measured once; a sleep lasts at least as long as asked.        *)
Measure(t) == /\ gateAt[t] = "measuring"
              /\ gateAt' = [gateAt EXCEPT ![t] = "sleeping"]
              /\ wakes' = [wakes EXCEPT ![t] = previousAt + Gap]
              /\ UNCHANGED <<now, gateLock, previousAt, admissions>>

(* Mutant: the planned time is kept, not the time of the admission.            *)
AdmitPlanned(t) == /\ gateAt[t] = "sleeping"
                   /\ wakes[t] <= now
                   /\ previousAt' = wakes[t]
                   /\ admissions' = Append(admissions, now)
                   /\ gateLock' = Nobody
                   /\ gateAt' = [gateAt EXCEPT ![t] = "outside"]
                   /\ UNCHANGED <<now, wakes>>

Admit(t) == /\ gateAt[t] = "sleeping"
            /\ wakes[t] <= now
            /\ previousAt' = now
            /\ admissions' = Append(admissions, now)
            /\ gateLock' = Nobody
            /\ gateAt' = [gateAt EXCEPT ![t] = "outside"]
            /\ UNCHANGED <<now, wakes>>

GateNext == Tick \/ \E t \in Threads : Acquire(t) \/ Measure(t) \/ Admit(t)

GateSpec == GateInit /\ [][GateNext]_gateVars

(* RATE: k admissions later at least k gaps have passed, whichever threads     *)
(* they were for and however long a thread slept (dataset_fetch.py:25, "at     *)
(* most 188 requests/minute").                                                 *)
AdmissionsSpaced ==
  \A i, j \in DOMAIN admissions :
    i < j => admissions[j] - admissions[i] >= (j - i) * Gap
==============================================================================
