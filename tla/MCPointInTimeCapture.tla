------------------------ MODULE MCPointInTimeCapture ------------------------
(* Small instances of PointInTimeCapture for TLC.  Each behaviour has room    *)
(* for one kind of company: captures of one symbol for two decisions, of two  *)
(* symbols of which one is closed, or of two open symbols that never move.    *)
EXTENDS PointInTimeCapture, TLC

CONSTANTS s1, s2, v1

VARIABLE company

OneClosed == (Symbols \X Decisions) \ {<<s2, 2>>}

Symmetric == Permutations(Captures)

Fits(j) == \/ j = NoJob
           \/ company = "decisions" /\ j.symbols = {s1}
           \/ company = "closed" /\ j.decision = 2
           \/ company = "open" /\ j.decision = 1

Unmoved == \A c \in Captures : \A r \in held[c] : r.version.value = v1

MCInit == Init /\ company \in {"decisions", "closed", "open"}

MCNext == /\ Next
          /\ \A c \in Captures : Fits(job'[c])
          /\ company = "open" => Unmoved'
          /\ UNCHANGED company

MCSpec == MCInit /\ [][MCNext]_<<vars, company>>
=============================================================================
