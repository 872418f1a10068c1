------------------------ MODULE MCProspectiveWorker ------------------------
(* Small instances of ProspectiveWorker for TLC.  The day has times         *)
(* 0..DayLength - 1: before the window, the window, the decision, the wait  *)
(* and the outcome time; the next day has no session.                       *)
EXTENDS ProspectiveWorker, TLC

CONSTANTS s1, s2

AllOpen == Symbols \X Decisions
Whole == {Symbols}
WholeOrPart == {Symbols, {s1}}
NoCommand == {}
Symmetric == Permutations(Ticks)
=============================================================================
