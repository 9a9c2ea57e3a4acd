--------------------------- MODULE PrefixInduction ---------------------------
(***************************************************************************)
(* Induction over the prefixes of a sequence, for loops that are modelled  *)
(* by recursive functions.  What holds is a set here, and a loop's body a  *)
(* function, so that the facts can be cited by name.                       *)
(***************************************************************************)
EXTENDS Integers, WellFoundedInduction, TLAPS

(* A set of numbers that is not empty has a least element.                 *)
LEMMA LeastNumber ==
    ASSUME NEW S \in SUBSET Nat, S # {}
    PROVE  \E m \in S : \A k \in S : m <= k
<1>1. PICK m \in S : \A k \in S : ~(<<k, m>> \in OpToRel(<, Nat))
  BY NatLessThanWellFounded, WFMin
<1>2. \A k \in S : ~(k < m)
  BY <1>1 DEF OpToRel
<1>. QED
  BY <1>2

(* What holds after no element, and after n + 1 when it holds after n,     *)
(* holds after any number of them up to N.                                 *)
LEMMA PrefixInduction ==
    ASSUME NEW N \in Nat, NEW S,
           0 \in S,
           \A n \in 0 .. N : n \in S /\ n < N => n + 1 \in S
    PROVE  0 .. N \subseteq S
<1>. DEFINE T == {n \in 0 .. N : n \notin S}
<1>1. CASE T = {}
  BY <1>1
<1>2. CASE T # {}
  <2>1. PICK m \in T : \A k \in T : m <= k
    <3>1. T \in SUBSET Nat
      OBVIOUS
    <3>. HIDE DEF T
    <3>. QED
      BY <1>2, <3>1, LeastNumber
  <2>2. m \in 0 .. N /\ m # 0 /\ m - 1 \in 0 .. N /\ m - 1 \notin T
    BY <2>1
  <2>3. m - 1 \in S /\ m - 1 < N /\ (m - 1) + 1 = m
    BY <2>2
  <2>. QED
    BY <2>1, <2>2, <2>3
<1>. QED
  BY <1>1, <1>2

(* g holds a loop's state after each of its first N rounds.                *)
LoopRun(g, N, A, start, body) ==
    /\ g \in [0 .. N -> A]
    /\ g[0] = start
    /\ \A n \in 1 .. N : g[n] = body[n][g[n - 1]]

(* A loop over N elements, with its state in A, goes through all of them.  *)
LEMMA LoopExists ==
    ASSUME NEW N \in Nat, NEW A, NEW start \in A, NEW body \in [1 .. N -> [A -> A]]
    PROVE  \E g : LoopRun(g, N, A, start, body)
<1>. DEFINE Runs(g, m) == /\ g \in [0 .. m -> A] /\ g[0] = start
                          /\ \A n \in 1 .. m : g[n] = body[n][g[n - 1]]
            S == {m \in 0 .. N : \E g \in [0 .. m -> A] : Runs(g, m)}
<1>1. 0 \in S
  <2>. DEFINE g == [n \in 0 .. 0 |-> start]
  <2>1. g \in [0 .. 0 -> A] /\ Runs(g, 0)
    OBVIOUS
  <2>2. 0 \in 0 .. N
    OBVIOUS
  <2>. HIDE DEF g, Runs
  <2>. QED
    BY <2>1, <2>2
<1>2. ASSUME NEW m \in 0 .. N, m \in S, m < N
      PROVE  m + 1 \in S
  <2>1. PICK g \in [0 .. m -> A] : Runs(g, m)
    BY <1>2
  <2>2. m + 1 \in 1 .. N /\ g[m] \in A /\ body[m + 1][g[m]] \in A
    BY <1>2, <2>1
  <2>. DEFINE h == [n \in 0 .. m + 1 |-> IF n = m + 1 THEN body[m + 1][g[m]] ELSE g[n]]
  <2>3. h \in [0 .. m + 1 -> A] /\ h[0] = start
    BY <1>2, <2>1, <2>2
  <2>4. ASSUME NEW n \in 1 .. m + 1
        PROVE  h[n] = body[n][h[n - 1]]
    <3>1. CASE n = m + 1
      <4>1. n - 1 = m /\ h[n - 1] = g[m]
        BY <1>2, <3>1
      <4>. QED
        BY <1>2, <3>1, <4>1
    <3>2. CASE n # m + 1
      <4>1. n \in 1 .. m /\ n - 1 \in 0 .. m /\ h[n] = g[n] /\ h[n - 1] = g[n - 1]
        BY <1>2, <3>2
      <4>. QED
        BY <2>1, <4>1
    <3>. QED
      BY <3>1, <3>2
  <2>5. Runs(h, m + 1)
    BY <2>3, <2>4
  <2>6. m + 1 \in 0 .. N
    BY <1>2
  <2>. QED
    BY <2>3, <2>5, <2>6
<1>3. 0 .. N \subseteq S
  <2>. HIDE DEF S
  <2>. QED
    BY <1>1, <1>2, PrefixInduction
<1>4. N \in S
  BY <1>3
<1>. QED
  BY <1>4 DEF LoopRun
=============================================================================
