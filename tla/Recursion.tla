------------------------------ MODULE Recursion ------------------------------
(***************************************************************************)
(* What the proofs about loops and recursive functions rest on: the least  *)
(* number of a set, induction up to a number, and that a function defined  *)
(* by recursion on the numbers exists.  A step of a recursion is given as  *)
(* a function and the induction hypothesis as a set, not as operators.     *)
(***************************************************************************)
EXTENDS Integers, FiniteSetsExt, TLAPS, WellFoundedInduction

Below == {p \in Nat \X Nat : p[1] < p[2]}

LEMMA BelowWellFounded == IsWellFoundedOn(Below, Nat)
  <1>1. Below = OpToRel(<, Nat)
    BY DEF OpToRel, Below
  <1> QED
    BY <1>1, NatLessThanWellFounded

LEMMA LeastNat ==
    ASSUME NEW T \in SUBSET Nat, T # {}
    PROVE  \E x \in T : \A y \in T : x <= y
  <1>1. PICK x \in T : \A y \in T : <<y, x>> \notin Below
    BY BelowWellFounded, WFMin
  <1>2. \A y \in Nat : <<y, x>> \in Nat \X Nat
    OBVIOUS
  <1>3. \A y \in T : ~(y < x)
    BY <1>1, <1>2 DEF Below
  <1> QED
    BY <1>3

LEMMA GreatestNat ==
    ASSUME NEW N \in Nat, NEW S \in SUBSET (0 .. N), S # {}
    PROVE  Max(S) \in S /\ \A n \in S : n <= Max(S)
  <1> DEFINE T == {N - n : n \in S}
  <1>1. \A n \in S : n \in 0 .. N /\ n \in Nat /\ N - n \in Nat
    OBVIOUS
  <1>2. T \in SUBSET Nat /\ T # {}
    BY <1>1
  <1>3. PICK x \in T : \A y \in T : x <= y
    <2> HIDE DEF T
    <2> QED
      BY <1>2, LeastNat
  <1>4. PICK m \in S : x = N - m
    BY <1>3
  <1>5. \A n \in S : N - m <= N - n
    BY <1>3, <1>4
  <1>6. \A n \in S : m >= n
    BY <1>1, <1>5
  <1> QED
    BY <1>6 DEF Max

LEMMA MaxOfTwo ==
    ASSUME NEW a \in Nat, NEW b \in Nat
    PROVE  Max({a, b}) \in {a, b} /\ a <= Max({a, b}) /\ b <= Max({a, b})
  <1>1. \E x \in {a, b} : \A y \in {a, b} : x >= y
    <2>1. CASE a <= b
      BY <2>1
    <2>2. CASE b <= a
      BY <2>2
    <2> QED
      BY <2>1, <2>2
  <1> QED
    BY <1>1 DEF Max

LEMMA MinOfTwo ==
    ASSUME NEW a \in Nat, NEW b \in Nat
    PROVE  Min({a, b}) \in {a, b} /\ Min({a, b}) <= a /\ Min({a, b}) <= b
  <1>1. \E x \in {a, b} : \A y \in {a, b} : x <= y
    <2>1. CASE a <= b
      BY <2>1
    <2>2. CASE b <= a
      BY <2>2
    <2> QED
      BY <2>1, <2>2
  <1> QED
    BY <1>1 DEF Min

-----------------------------------------------------------------------------

(* What is true of 0, and of a number if it is true of the one before, is  *)
(* true of all: T is the set of what it is true of.                        *)
LEMMA InductionUpTo ==
    ASSUME NEW N \in Nat, NEW T,
           0 \in T, \A n \in 1 .. N : n - 1 \in T => n \in T
    PROVE  \A n \in 0 .. N : n \in T
  <1> SUFFICES ASSUME NEW n \in 0 .. N, n \notin T PROVE FALSE
    OBVIOUS
  <1> DEFINE Missing == {k \in 0 .. N : k \notin T}
  <1>1. Missing \in SUBSET Nat /\ Missing # {}
    OBVIOUS
  <1>2. PICK least \in Missing : \A k \in Missing : least <= k
    <2> HIDE DEF Missing
    <2> QED
      BY <1>1, LeastNat
  <1>3. least \in 1 .. N /\ least \notin T
    BY <1>2
  <1>4. least - 1 \in 0 .. N /\ ~(least <= least - 1)
    BY <1>3
  <1>5. least - 1 \in T
    BY <1>2, <1>4
  <1> QED
    BY <1>3, <1>5

(* f starts with first and then goes on as step says.                      *)
Follows(f, first, step, m) ==
    f[0] = first /\ \A n \in 1 .. m : f[n] = step[n][f[n - 1]]

Reached(S, first, step, m) == \E f \in [0 .. m -> S] : Follows(f, first, step, m)

LEMMA RecursionGoesOn ==
    ASSUME NEW S, NEW first \in S, NEW m \in Nat,
           NEW step, step[m + 1] \in [S -> S],
           Reached(S, first, step, m)
    PROVE  Reached(S, first, step, m + 1)
  <1>1. PICK f \in [0 .. m -> S] : Follows(f, first, step, m)
    BY DEF Reached
  <1>2. PICK v \in S : v = step[m + 1][f[m]]
    BY <1>1
  <1> DEFINE g == [n \in 0 .. m + 1 |-> IF n = m + 1 THEN v ELSE f[n]]
  <1>3. g \in [0 .. m + 1 -> S]
    <2>1. ASSUME NEW n \in 0 .. m + 1
          PROVE  (IF n = m + 1 THEN v ELSE f[n]) \in S
      <3>1. n = m + 1 \/ n \in 0 .. m
        OBVIOUS
      <3> QED
        BY <1>1, <1>2, <3>1
    <2> QED
      BY <2>1
  <1>4. g[0] = first
    BY <1>1 DEF Follows
  <1>5. ASSUME NEW n \in 1 .. m + 1
        PROVE  g[n] = step[n][g[n - 1]]
    <2>1. n - 1 \in 0 .. m /\ g[n - 1] = f[n - 1]
      OBVIOUS
    <2>2. CASE n = m + 1
      <3>1. g[n] = v /\ n - 1 = m
        BY <2>2
      <3> QED
        BY <1>2, <2>1, <2>2, <3>1
    <2>3. CASE n \in 1 .. m
      <3>1. g[n] = f[n]
        BY <2>3
      <3>2. f[n] = step[n][f[n - 1]]
        BY <1>1, <2>3 DEF Follows
      <3> QED
        BY <2>1, <3>1, <3>2
    <2> QED
      BY <2>2, <2>3
  <1> QED
    BY <1>3, <1>4, <1>5 DEF Reached, Follows

(* A function defined by recursion exists.                                 *)
LEMMA RecursionDefined ==
    ASSUME NEW S, NEW first \in S, NEW N \in Nat, NEW step \in [1 .. N -> [S -> S]]
    PROVE  Reached(S, first, step, N)
  <1> DEFINE T == {m \in 0 .. N : Reached(S, first, step, m)}
  <1>1. 0 \in T
    <2> DEFINE f == [n \in 0 .. 0 |-> first]
    <2>1. f \in [0 .. 0 -> S] /\ f[0] = first /\ 1 .. 0 = {}
      OBVIOUS
    <2>2. Follows(f, first, step, 0)
      BY <2>1, Zenon DEF Follows
    <2>3. Reached(S, first, step, 0)
      BY <2>1, <2>2, Zenon DEF Reached
    <2> QED
      BY <2>3
  <1>2. ASSUME NEW m \in 1 .. N, m - 1 \in T
        PROVE  m \in T
    <2>1. m - 1 \in Nat /\ (m - 1) + 1 = m /\ step[m] \in [S -> S]
      OBVIOUS
    <2>2. Reached(S, first, step, m - 1)
      BY <1>2
    <2>3. Reached(S, first, step, (m - 1) + 1)
      BY <2>1, <2>2, RecursionGoesOn
    <2> QED
      BY <2>1, <2>3
  <1>3. N \in T
    <2> HIDE DEF T
    <2>1. \A n \in 0 .. N : n \in T
      BY <1>1, <1>2, InductionUpTo
    <2> QED
      BY <2>1
  <1> QED
    BY <1>3

(* The same for numbers.                                                   *)
LEMMA RecursionOnNumbers ==
    ASSUME NEW first \in Nat, NEW N \in Nat, NEW step \in [1 .. N -> [Nat -> Nat]]
    PROVE  \E f \in [0 .. N -> Nat] :
               f[0] = first /\ \A n \in 1 .. N : f[n] = step[n][f[n - 1]]
  <1>1. Reached(Nat, first, step, N)
    BY RecursionDefined
  <1> QED
    BY <1>1 DEF Reached, Follows

=============================================================================
