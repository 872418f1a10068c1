---------------------------- MODULE HistorySource ----------------------------
(* What a caller of fetch_bounded_history or of get_candles may rely on: the   *)
(* provider serves bars, and the call ends once, either with a failure or with *)
(* every bar of the window that was served, in order, one per event time.  A   *)
(* reply whose pages disagree about a time has no sound answer.                *)
EXTENDS Integers, Sequences

VARIABLES window,         \* <<start, end>>: the event times asked for
          served,         \* the bars the provider has sent so far
          answer          \* [kind, bars]: what the call has answered

InWindow(b) == window[1] <= b.t /\ b.t < window[2]

Ascending(s) == \A i, j \in 1 .. Len(s) : i < j => s[i].t < s[j].t

Bars(s) == {s[i] : i \in 1 .. Len(s)}

Sound(s, from) == Ascending(s) /\ Bars(s) = {b \in from : InWindow(b)}

SourceInit == served = {} /\ answer = [kind |-> "waiting", bars |-> <<>>]

(* The provider sends more bars, and the call may end with the last of them.   *)
Reply == /\ answer.kind = "waiting"
         /\ UNCHANGED window
         /\ served \subseteq served'
         /\ \/ answer'.kind = "waiting"
            \/ answer'.kind = "failed"
            \/ answer'.kind = "history" /\ Sound(answer'.bars, served')

SourceSpec == SourceInit /\ [][Reply]_<<window, served, answer>>
==============================================================================
