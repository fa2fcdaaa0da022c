------------------------------- MODULE Words -------------------------------
(***************************************************************************)
(* uint32_t and the operators of C on it, as far as util.c uses them: a    *)
(* word is the set of its bits that are one.  Then the function of util.c  *)
(* that is made of nothing else.                                           *)
(***************************************************************************)
EXTENDS Integers, FiniteSets

Word32 == SUBSET (0 .. 31)

Xor(a, b) == (a \ b) \cup (b \ a)

Complement(a) == 0 .. 31 \ a

ShiftRight(a, n) == {b - n : b \in {x \in a : x >= n}}

(* The word whose bits are what is left of the column sums of an addition  *)
(* or multiplication on paper once the carries are brought forward.        *)
Carried(column(_)) ==
    LET carry[n \in 0 .. 31] ==
            IF n = 0 THEN 0 ELSE (column(n - 1) + carry[n - 1]) \div 2
    IN  {n \in 0 .. 31 : (column(n) + carry[n]) % 2 = 1}

Plus(a, b) == Carried(LAMBDA n : Cardinality({w \in {1, 2} : n \in <<a, b>>[w]}))

Times(a, b) == Carried(LAMBDA n : Cardinality({k \in b : n - k \in a}))

(* -a                                                                      *)
Negated(a) == Plus(Complement(a), {0})

(* The number a word stands for: its bits, from the highest to the lowest. *)
Number(a) ==
    LET value[n \in 0 .. 32] ==
            IF n = 0 THEN 0 ELSE 2 * value[n - 1] + (IF 32 - n \in a THEN 1 ELSE 0)
    IN  value[32]

-----------------------------------------------------------------------------
(* util_log2                                                               *)

MultiplyDeBruijnBitPosition ==
    <<0, 9, 1, 10, 13, 21, 2, 29, 11, 14, 16, 18, 22, 25, 3, 30,
      8, 12, 20, 28, 15, 17, 24, 7, 19, 27, 23, 6, 26, 5, 4, 31>>

DeBruijn == {26, 25, 24, 23, 22, 18, 15, 13, 11, 10, 7, 6, 4, 3, 2, 0}   \* 0x07C4ACDD

(* Mutant of Smeared: the last of the five lines is missing.               *)
SmearedHalf(v) ==
    LET step(w, n) == w \cup ShiftRight(w, n)
    IN  step(step(step(step(v, 1), 2), 4), 8)

(* Every bit below the highest one is set.                                 *)
Smeared(v) ==
    LET step(w, n) == w \cup ShiftRight(w, n)
    IN  step(step(step(step(step(v, 1), 2), 4), 8), 16)

util_log2(v) ==
    MultiplyDeBruijnBitPosition[Number(ShiftRight(Times(Smeared(v), DeBruijn), 27)) + 1]

=============================================================================
