------------------------------- MODULE LoopFacts -------------------------------
(***************************************************************************)
(* Facts about numbers, sequences and loops that the proofs of several     *)
(* modules rest on.                                                        *)
(***************************************************************************)
EXTENDS Integers, Sequences, FiniteSetsExt, SequencesExt, WellFoundedInduction, TLAPS

(***************************************************************************)
(* The least and the greatest of a set of integers.                        *)
(***************************************************************************)
LEMMA LeastNat ==
  ASSUME NEW S, S \subseteq Nat, S # {}
  PROVE  \E x \in S : \A y \in S : x <= y
<1> DEFINE Less == OpToRel(<, Nat)
<1>1. IsWellFoundedOn(Less, Nat)
  BY NatLessThanWellFounded, Zenon
<1>2. \A x, y \in Nat : y < x => <<y, x>> \in Less
  BY Zenon DEF OpToRel
<1> HIDE DEF Less
<1>3. PICK x \in S : \A y \in S : ~(<<y, x>> \in Less)
  BY <1>1, WFMin
<1>4. \A y \in S : ~(y < x)
  BY <1>2, <1>3
<1> QED BY <1>4

LEMMA GreatestInt ==
  ASSUME NEW a \in Int, NEW b \in Int, NEW S, S \subseteq a .. b, S # {}
  PROVE  \E x \in S : \A y \in S : y <= x
<1> DEFINE T == {b - x : x \in S}
<1>1. T \subseteq Nat /\ T # {}
  <2>1. ASSUME NEW x \in S PROVE b - x \in Nat
    <3>1. x \in a .. b
      OBVIOUS
    <3> QED BY <3>1
  <2> QED BY <2>1
<1>2. PICK u \in T : \A v \in T : u <= v
  BY <1>1, LeastNat
<1>3. PICK x \in S : u = b - x
  BY <1>2
<1>4. \A y \in S : y <= x
  <2>1. ASSUME NEW y \in S PROVE y <= x
    <3>1. b - y \in T
      OBVIOUS
    <3>2. u <= b - y
      BY <1>2, <3>1
    <3> QED BY <1>3, <3>2
  <2> QED BY <2>1
<1> QED BY <1>4

LEMMA LeastInt ==
  ASSUME NEW a \in Int, NEW b \in Int, NEW S, S \subseteq a .. b, S # {}
  PROVE  \E x \in S : \A y \in S : x <= y
<1> DEFINE T == {x - a : x \in S}
<1>1. T \subseteq Nat /\ T # {}
  OBVIOUS
<1>2. PICK u \in T : \A v \in T : u <= v
  BY <1>1, LeastNat
<1>3. PICK x \in S : u = x - a
  BY <1>2
<1>4. \A y \in S : x <= y
  <2>1. ASSUME NEW y \in S PROVE x <= y
    <3>1. y - a \in T
      OBVIOUS
    <3>2. u <= y - a
      BY <1>2, <3>1
    <3> QED BY <1>3, <3>2
  <2> QED BY <2>1
<1> QED BY <1>4

LEMMA MaxOf ==
  ASSUME NEW S, S \subseteq Int, NEW x \in S, \A y \in S : y <= x
  PROVE  Max(S) = x
<1>1. \A y \in S : x >= y
  OBVIOUS
<1>2. Max(S) \in S /\ \A y \in S : Max(S) >= y
  BY <1>1 DEF Max
<1>3. Max(S) <= x /\ x <= Max(S) /\ Max(S) \in Int /\ x \in Int
  BY <1>1, <1>2
<1> QED BY <1>3

LEMMA MinOf ==
  ASSUME NEW S, S \subseteq Int, NEW x \in S, \A y \in S : x <= y
  PROVE  Min(S) = x
<1>1. Min(S) \in S /\ \A y \in S : Min(S) <= y
  BY DEF Min
<1>2. Min(S) <= x /\ x <= Min(S) /\ Min(S) \in Int /\ x \in Int
  BY <1>1
<1> QED BY <1>2

(***************************************************************************)
(* A sequence with one more element.                                      *)
(***************************************************************************)
LEMMA AppendFacts ==
  ASSUME NEW s, s \in Seq(ToSet(s)), NEW x
  PROVE  /\ Append(s, x) \in Seq(ToSet(Append(s, x)))
         /\ Len(Append(s, x)) = Len(s) + 1
         /\ \A i \in 1 .. Len(s) : Append(s, x)[i] = s[i]
         /\ Append(s, x)[Len(s) + 1] = x
         /\ ToSet(Append(s, x)) = ToSet(s) \cup {x}
<1> DEFINE S == ToSet(s) \cup {x}
           t == Append(s, x)
<1>1. s \in Seq(S) /\ x \in S /\ Len(s) \in Nat /\ DOMAIN s = 1 .. Len(s)
  OBVIOUS
<1>2. /\ t \in Seq(S) /\ Len(t) = Len(s) + 1 /\ DOMAIN t = 1 .. Len(s) + 1
      /\ \A i \in 1 .. Len(s) : t[i] = s[i]
      /\ t[Len(s) + 1] = x
  <2> HIDE DEF S
  <2> QED BY <1>1
<1> HIDE DEF t
<1>3. ToSet(t) = S
  <2>1. \A i \in DOMAIN t : t[i] \in S
    BY <1>1, <1>2 DEF ToSet
  <2>2. \A i \in DOMAIN s : i \in DOMAIN t /\ t[i] = s[i]
    BY <1>1, <1>2
  <2>3. Len(s) + 1 \in DOMAIN t
    BY <1>1, <1>2
  <2> QED BY <1>2, <2>1, <2>2, <2>3 DEF ToSet
<1> QED BY <1>2, <1>3 DEF t


(***************************************************************************)
(* Loops.  A function defined by recursion on 0 .. n exists, because the   *)
(* least k up to which it did not would have a k - 1 up to which it does.  *)
(***************************************************************************)
IsLoop(f, n, V, first, step) ==
  /\ f \in [0 .. n -> V]
  /\ f[0] = first
  /\ \A i \in 1 .. n : f[i] = step[<<i, f[i - 1]>>]

LEMMA LoopExists ==
  ASSUME NEW n \in Nat, NEW V, NEW first \in V, NEW step \in [(1 .. n) \X V -> V]
  PROVE  \E f : IsLoop(f, n, V, first, step)
<1> USE DEF IsLoop
<1> DEFINE Upto(k) == \E f \in [0 .. k -> V] :
                         f[0] = first /\ \A i \in 1 .. k : f[i] = step[<<i, f[i - 1]>>]
           S == {k \in 0 .. n : ~Upto(k)}
<1>1. SUFFICES ASSUME S # {} PROVE FALSE
  <2>1. n \in 0 .. n
    OBVIOUS
  <2>2. Upto(n)
    BY <2>1
  <2> QED BY <2>2
<1>2. S \subseteq Nat
  OBVIOUS
<1>3. PICK k \in S : \A j \in S : k <= j
  <2> HIDE DEF S
  <2> QED BY <1>1, <1>2, LeastNat
<1>4. k \in Nat /\ k <= n /\ ~Upto(k)
  BY <1>3
<1>5. CASE k = 0
  <2>1. [i \in 0 .. 0 |-> first] \in [0 .. k -> V]
    BY <1>5
  <2>2. [i \in 0 .. 0 |-> first][0] = first /\ 1 .. k = {}
    BY <1>5
  <2>3. Upto(k)
    BY <2>1, <2>2
  <2> QED BY <1>4, <2>3
<1>6. CASE k # 0
  <2>1. k - 1 \in 0 .. n /\ ~(k <= k - 1)
    BY <1>4, <1>6
  <2>2. Upto(k - 1)
    BY <1>3, <2>1
  <2>3. PICK f \in [0 .. k - 1 -> V] :
          f[0] = first /\ \A i \in 1 .. k - 1 : f[i] = step[<<i, f[i - 1]>>]
    BY <2>2
  <2> DEFINE g == [i \in 0 .. k |-> IF i = k THEN step[<<k, f[k - 1]>>] ELSE f[i]]
  <2>4. step[<<k, f[k - 1]>>] \in V
    <3>1. k \in 1 .. n /\ f[k - 1] \in V
      BY <1>4, <1>6
    <3>2. <<k, f[k - 1]>> \in (1 .. n) \X V
      BY <3>1
    <3> QED BY <3>2
  <2>5. g \in [0 .. k -> V]
    <3>1. \A i \in 0 .. k : i # k => i \in 0 .. k - 1
      BY <1>4
    <3> QED BY <2>4, <3>1
  <2>6. g[0] = first
    BY <1>4, <1>6, <2>3
  <2>7. ASSUME NEW i \in 1 .. k PROVE g[i] = step[<<i, g[i - 1]>>]
    <3>1. i - 1 \in 0 .. k /\ i - 1 # k /\ i \in 0 .. k
      BY <1>4
    <3>2. g[i - 1] = f[i - 1]
      BY <3>1
    <3>3. CASE i = k
      BY <3>1, <3>2, <3>3
    <3>4. CASE i # k
      <4>1. i \in 1 .. k - 1 /\ g[i] = f[i]
        BY <1>4, <3>1, <3>4
      <4> QED BY <2>3, <3>2, <4>1
    <3> QED BY <3>3, <3>4
  <2>8. Upto(k)
    <3> HIDE DEF g
    <3> QED BY <2>5, <2>6, <2>7
  <2> QED BY <1>4, <2>8
<1> QED BY <1>5, <1>6


(* Induction over the steps of a loop.                                     *)
LEMMA LoopInduction ==
  ASSUME NEW n \in Nat, NEW S, 0 \in S, \A i \in 1 .. n : i - 1 \in S => i \in S
  PROVE  \A i \in 0 .. n : i \in S
<1> DEFINE T == (0 .. n) \ S
<1>1. SUFFICES ASSUME T # {} PROVE FALSE
  OBVIOUS
<1>2. PICK k \in T : \A j \in T : k <= j
  <2>1. T \subseteq Nat
    OBVIOUS
  <2> HIDE DEF T
  <2> QED BY <1>1, <2>1, LeastNat
<1>3. k \in Nat /\ k <= n /\ k \notin S /\ k # 0
  BY <1>2
<1>4. k - 1 \in 0 .. n /\ ~(k <= k - 1) /\ k \in 1 .. n
  BY <1>3
<1>5. k - 1 \in S
  BY <1>2, <1>4
<1> QED BY <1>3, <1>4, <1>5
================================================================================
