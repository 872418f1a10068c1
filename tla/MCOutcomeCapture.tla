-------------------------- MODULE MCOutcomeCapture --------------------------
(* Small instances of OutcomeCapture for TLC. *)
EXTENDS OutcomeCapture, TLC

CONSTANTS c1, c2, s1, s2, m1, m2

Row(c, S, m) == [capture |-> c, decision |-> 1, mapping |-> m, versions |-> {}, symbols |-> S]

(* A full snapshot, one of a command's --symbols subset, and one of another build. *)
StoredRows == {Row(c1, {s1, s2}, m1), Row(c2, {s1}, m1), Row(c2, {s1, s2}, m2)}

Symmetric == Permutations(Calls)
=============================================================================
