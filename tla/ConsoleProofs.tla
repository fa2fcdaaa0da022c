---------------------------- MODULE ConsoleProofs ----------------------------
(***************************************************************************)
(* Theorems about the arithmetic of util.c on words: the highest bit, and  *)
(* what a negative number is printed as.  Then theorems about the one      *)
(* buffer of util_printf, for every size of it and every set of messages:  *)
(* neither writer leaves it, neither takes the end of the text away from   *)
(* the other, and numbers are printed with all their digits.               *)
(***************************************************************************)
EXTENDS Console, Recursion, FiniteSetTheorems

-----------------------------------------------------------------------------
(* Words as numbers.                                                       *)

Power == [n \in 0 .. 32 |->
    <<1, 2, 4, 8, 16, 32, 64, 128, 256, 512, 1024, 2048, 4096, 8192, 16384, 32768, 65536,
      131072, 262144, 524288, 1048576, 2097152, 4194304, 8388608, 16777216, 33554432,
      67108864, 134217728, 268435456, 536870912, 1073741824, 2147483648, 4294967296>>[n + 1]]

LEMMA PowerIs ==
    /\ Power[0] = 1
    /\ \A n \in 0 .. 32 : Power[n] \in Nat /\ Power[n] > 0
    /\ \A n \in 1 .. 32 : Power[n] = 2 * Power[n - 1]
  BY DEF Power

LEMMA PowerLit == Power[27] = 134217728 /\ Power[32] = 4294967296
  BY DEF Power

(* The number the lowest n bits of a word stand for.                       *)
Lowest(a) ==
    LET low[n \in 0 .. 32] ==
            IF n = 0 THEN 0 ELSE low[n - 1] + (IF n - 1 \in a THEN Power[n - 1] ELSE 0)
    IN  low

LEMMA LowestIs ==
    ASSUME NEW a
    PROVE  /\ Lowest(a) \in [0 .. 32 -> Nat]
           /\ Lowest(a)[0] = 0
           /\ \A n \in 1 .. 32 :
                  Lowest(a)[n] = Lowest(a)[n - 1] + (IF n - 1 \in a THEN Power[n - 1] ELSE 0)
  <1> DEFINE bit == [n \in 1 .. 32 |-> IF n - 1 \in a THEN Power[n - 1] ELSE 0]
  <1> DEFINE step == [n \in 1 .. 32 |-> [v \in Nat |-> v + bit[n]]]
  <1>1. bit \in [1 .. 32 -> Nat]
    BY PowerIs
  <1>2. step \in [1 .. 32 -> [Nat -> Nat]]
    BY <1>1
  <1>3. PICK f \in [0 .. 32 -> Nat] :
            f[0] = 0 /\ \A n \in 1 .. 32 : f[n] = step[n][f[n - 1]]
    <2> HIDE DEF step
    <2>1. 0 \in Nat /\ 32 \in Nat
      OBVIOUS
    <2> QED
      BY <1>2, <2>1, RecursionOnNumbers, ZenonT(30)
  <1>4. ASSUME NEW n \in 1 .. 32
        PROVE  f[n] = f[n - 1] + (IF n - 1 \in a THEN Power[n - 1] ELSE 0)
    <2>1. f[n - 1] \in Nat
      BY <1>3
    <2>2. f[n] = f[n - 1] + bit[n]
      BY <1>3, <2>1
    <2> QED
      BY <2>2
  <1>5. f = [n \in 0 .. 32 |->
                IF n = 0 THEN 0 ELSE f[n - 1] + (IF n - 1 \in a THEN Power[n - 1] ELSE 0)]
    BY <1>3, <1>4
  <1>6. \E low :
            /\ low = [n \in 0 .. 32 |->
                         IF n = 0 THEN 0
                         ELSE low[n - 1] + (IF n - 1 \in a THEN Power[n - 1] ELSE 0)]
            /\ Lowest(a) = low
    BY <1>5, Zenon DEF Lowest
  <1>7. PICK low :
            /\ low = [n \in 0 .. 32 |->
                         IF n = 0 THEN 0
                         ELSE low[n - 1] + (IF n - 1 \in a THEN Power[n - 1] ELSE 0)]
            /\ Lowest(a) = low
    BY <1>6
  <1>8. \A n \in 1 .. 32 :
            low[n] = low[n - 1] + (IF n - 1 \in a THEN Power[n - 1] ELSE 0)
    BY <1>7
  <1>9. low[0] = 0
    BY <1>7
  <1>10. \A n \in 0 .. 32 : low[n] \in Nat
    <2> DEFINE T == {n \in 0 .. 32 : low[n] \in Nat}
    <2>1. 0 \in T
      BY <1>9
    <2>2. ASSUME NEW n \in 1 .. 32, n - 1 \in T
          PROVE  n \in T
      <3>1. low[n - 1] \in Nat /\ Power[n - 1] \in Nat
        BY <2>2, PowerIs
      <3>2. low[n] \in Nat
        BY <1>8, <3>1
      <3> QED
        BY <3>2
    <2> HIDE DEF T
    <2>3. \A n \in 0 .. 32 : n \in T
      BY <2>1, <2>2, InductionUpTo
    <2> QED
      BY <2>3 DEF T
  <1>11. DOMAIN low = 0 .. 32
    BY <1>7
  <1>12. low \in [0 .. 32 -> Nat]
    BY <1>7, <1>10
  <1> QED
    BY <1>7, <1>8, <1>9, <1>12

LEMMA LowestBound ==
    ASSUME NEW a, NEW n \in 0 .. 32
    PROVE  Lowest(a)[n] < Power[n]
  <1> DEFINE T == {m \in 0 .. 32 : Lowest(a)[m] < Power[m]}
  <1>1. 0 \in T
    BY LowestIs, PowerIs
  <1>2. ASSUME NEW m \in 1 .. 32, m - 1 \in T
        PROVE  m \in T
    <2>1. PICK p \in Nat : p = Power[m - 1]
      BY PowerIs
    <2>2. PICK low \in Nat : low = Lowest(a)[m - 1] /\ low < p
      BY <1>2, <2>1, LowestIs
    <2>3. Power[m] = 2 * p
      BY <2>1, PowerIs
    <2>4. Lowest(a)[m] \in {low, low + p}
      BY <2>1, <2>2, LowestIs
    <2>5. Lowest(a)[m] < 2 * p
      BY <2>1, <2>2, <2>4
    <2> QED
      BY <2>3, <2>5
  <1> HIDE DEF T
  <1>3. \A m \in 0 .. 32 : m \in T
    BY <1>1, <1>2, InductionUpTo
  <1> QED
    BY <1>3 DEF T

(* What the recursive function of Number is.                               *)
Values(value, a) ==
    value = [n \in 0 .. 32 |->
                IF n = 0 THEN 0
                ELSE 2 * value[n - 1] + (IF 32 - n \in a THEN 1 ELSE 0)]

(* The number of a word is made of its highest bits and its lowest bits.   *)
LEMMA NumberParts ==
    ASSUME NEW a, NEW value, Values(value, a), NEW n \in 0 .. 32
    PROVE  /\ value[32 - n] \in Nat
           /\ value[32] = Power[n] * value[32 - n] + Lowest(a)[n]
  <1>1. value[0] = 0
    BY DEF Values
  <1>2. \A m \in 1 .. 32 : value[m] = 2 * value[m - 1] + (IF 32 - m \in a THEN 1 ELSE 0)
    BY DEF Values
  <1>3. \A m \in 0 .. 32 : value[m] \in Nat
    <2> DEFINE T == {m \in 0 .. 32 : value[m] \in Nat}
    <2>1. 0 \in T
      BY <1>1
    <2>2. ASSUME NEW m \in 1 .. 32, m - 1 \in T
          PROVE  m \in T
      <3>1. value[m - 1] \in Nat
        BY <2>2
      <3>2. value[m] \in Nat
        BY <1>2, <3>1
      <3> QED
        BY <3>2
    <2> HIDE DEF T
    <2>3. \A m \in 0 .. 32 : m \in T
      BY <2>1, <2>2, InductionUpTo
    <2> QED
      BY <2>3 DEF T
  <1> DEFINE T == {m \in 0 .. 32 :
                      value[32] = Power[m] * value[32 - m] + Lowest(a)[m]}
  <1>4. 0 \in T
    BY <1>3, LowestIs, PowerIs
  <1>5. ASSUME NEW m \in 1 .. 32, m - 1 \in T
        PROVE  m \in T
    <2>1. PICK p \in Nat : p = Power[m - 1] /\ Power[m] = 2 * p
      BY PowerIs
    <2>2. PICK low \in Nat : low = Lowest(a)[m - 1]
      BY LowestIs
    <2>3. PICK bit \in {0, 1} : bit = IF m - 1 \in a THEN 1 ELSE 0
      OBVIOUS
    <2>4. Lowest(a)[m] = low + bit * p
      BY <2>1, <2>2, <2>3, LowestIs
    <2>5. PICK v \in Nat : v = value[32 - m]
      BY <1>3
    <2>6. value[33 - m] = 2 * v + bit
      <3>1. 33 - m \in 1 .. 32 /\ (33 - m) - 1 = 32 - m /\ 32 - (33 - m) = m - 1
        OBVIOUS
      <3> QED
        BY <1>2, <2>3, <2>5, <3>1
    <2>7. value[32] = p * (2 * v + bit) + low
      <3>1. 32 - (m - 1) = 33 - m
        OBVIOUS
      <3> QED
        BY <1>5, <2>1, <2>2, <2>6, <3>1
    <2>8. p * (2 * v + bit) + low = (2 * p) * v + (low + bit * p)
      OBVIOUS
    <2> QED
      BY <2>1, <2>4, <2>5, <2>7, <2>8
  <1> HIDE DEF T
  <1>6. \A m \in 0 .. 32 : m \in T
    BY <1>4, <1>5, InductionUpTo
  <1>7. 32 - n \in 0 .. 32 /\ n \in T
    BY <1>6
  <1> QED
    BY <1>3, <1>7 DEF T

(* Addition on paper: what is left of the column sums when the carries     *)
(* have been brought forward differs from their sum by a multiple of 2^32. *)
LEMMA CarriesKeepSum ==
    ASSUME NEW col \in [0 .. 31 -> Nat],
           NEW carry \in [0 .. 31 -> Nat],
           carry[0] = 0,
           \A n \in 1 .. 31 : carry[n] = (col[n - 1] + carry[n - 1]) \div 2,
           NEW result,
           \A n \in 0 .. 31 : n \in result <=> (col[n] + carry[n]) % 2 = 1,
           NEW sum \in [0 .. 32 -> Int],
           sum[0] = 0,
           \A n \in 1 .. 32 : sum[n] = sum[n - 1] + Power[n - 1] * col[n - 1]
    PROVE  \E c \in Nat : sum[32] = Power[32] * c + Lowest(result)[32]
  <1>1. ASSUME NEW n \in 0 .. 31,
               sum[n] = Power[n] * carry[n] + Lowest(result)[n]
        PROVE  sum[n + 1] = Power[n + 1] * ((col[n] + carry[n]) \div 2)
                            + Lowest(result)[n + 1]
    <2>1. PICK p \in Nat : p = Power[n] /\ Power[n + 1] = 2 * p
      <3>1. n \in 0 .. 32 /\ n + 1 \in 1 .. 32 /\ (n + 1) - 1 = n
        OBVIOUS
      <3> QED
        BY <3>1, PowerIs
    <2>2. PICK low \in Nat : low = Lowest(result)[n]
      <3>1. Lowest(result) \in [0 .. 32 -> Nat]
        BY LowestIs, Zenon
      <3>2. n \in 0 .. 32
        OBVIOUS
      <3> QED
        BY <3>1, <3>2
    <2>3. PICK k \in Nat, c \in Nat : k = col[n] /\ c = carry[n]
      OBVIOUS
    <2>4. PICK q \in Nat, bit \in {0, 1} :
              q = (k + c) \div 2 /\ bit = (k + c) % 2 /\ k + c = 2 * q + bit
      <3>1. (k + c) \div 2 \in Nat /\ (k + c) % 2 \in {0, 1}
        OBVIOUS
      <3>2. PICK s \in Nat : s = k + c
        OBVIOUS
      <3>3. s % 2 = s - 2 * (s \div 2)
        OBVIOUS
      <3>4. s \div 2 \in Nat
        OBVIOUS
      <3> QED
        BY <3>1, <3>2, <3>3, <3>4
    <2>5. Lowest(result)[n + 1] = low + bit * p
      <3>1. n + 1 \in 1 .. 32 /\ (n + 1) - 1 = n
        OBVIOUS
      <3>2. Lowest(result)[n + 1] =
                Lowest(result)[(n + 1) - 1]
                + (IF (n + 1) - 1 \in result THEN Power[(n + 1) - 1] ELSE 0)
        BY <3>1, LowestIs, ZenonT(30)
      <3>3. Lowest(result)[n + 1] = low + (IF n \in result THEN p ELSE 0)
        BY <2>1, <2>2, <3>1, <3>2
      <3>4. n \in result <=> bit = 1
        BY <2>3, <2>4
      <3> QED
        BY <2>1, <2>2, <2>4, <3>3, <3>4
    <2>6. sum[n + 1] = (p * c + low) + p * k
      <3>1. n + 1 \in 1 .. 32 /\ (n + 1) - 1 = n
        OBVIOUS
      <3> QED
        BY <1>1, <2>1, <2>2, <2>3, <3>1
    <2>7. (p * c + low) + p * k = p * (k + c) + low
      OBVIOUS
    <2>8. p * (2 * q + bit) + low = (2 * p) * q + (low + bit * p)
      OBVIOUS
    <2> QED
      BY <2>1, <2>3, <2>4, <2>5, <2>6, <2>7, <2>8
  <1> DEFINE T == {n \in 0 .. 31 : sum[n] = Power[n] * carry[n] + Lowest(result)[n]}
  <1>2. 0 \in T
    <2>1. Lowest(result)[0] = 0 /\ Power[0] = 1
      BY LowestIs, PowerIs
    <2> QED
      BY <2>1
  <1>3. ASSUME NEW n \in 1 .. 31, n - 1 \in T
        PROVE  n \in T
    <2>1. n - 1 \in 0 .. 31 /\ (n - 1) + 1 = n
      OBVIOUS
    <2>2. sum[n - 1] = Power[n - 1] * carry[n - 1] + Lowest(result)[n - 1]
      BY <1>3
    <2>3. sum[n] = Power[n] * ((col[n - 1] + carry[n - 1]) \div 2) + Lowest(result)[n]
      BY <1>1, <2>1, <2>2
    <2> QED
      BY <2>3
  <1>4. 31 \in T
    <2> HIDE DEF T
    <2>1. 31 \in Nat /\ 31 \in 0 .. 31
      OBVIOUS
    <2> QED
      BY <1>2, <1>3, <2>1, InductionUpTo
  <1>5. sum[31] = Power[31] * carry[31] + Lowest(result)[31]
    BY <1>4
  <1>6. 31 \in 0 .. 31 /\ 31 + 1 = 32
    OBVIOUS
  <1>7. sum[32] = Power[32] * ((col[31] + carry[31]) \div 2) + Lowest(result)[32]
    BY <1>1, <1>5, <1>6
  <1>8. (col[31] + carry[31]) \div 2 \in Nat
    BY <1>6
  <1> QED
    BY <1>7, <1>8

LEMMA PowerSum ==
    ASSUME NEW i \in 0 .. 32, NEW j \in 0 .. 32, i + j \in 0 .. 32
    PROVE  Power[i] * Power[j] = Power[i + j]
  <1> DEFINE N == 32 - i
  <1> DEFINE T == {n \in 0 .. N : Power[i] * Power[n] = Power[i + n]}
  <1>1. N \in Nat /\ j \in 0 .. N
    OBVIOUS
  <1>2. 0 \in T
    BY PowerIs
  <1>3. ASSUME NEW n \in 1 .. N, n - 1 \in T
        PROVE  n \in T
    <2>1. /\ n \in 1 .. 32 /\ n - 1 \in 0 .. 32
          /\ i + n \in 1 .. 32 /\ i + (n - 1) = (i + n) - 1 /\ (i + n) - 1 \in 0 .. 32
      BY <1>1
    <2>2. PICK p \in Nat, q \in Nat, r \in Nat :
              p = Power[i] /\ q = Power[n - 1] /\ r = Power[(i + n) - 1]
      BY <2>1, PowerIs
    <2>3. Power[n] = 2 * q /\ Power[i + n] = 2 * r
      BY <2>1, <2>2, PowerIs
    <2>4. p * q = r
      BY <1>3, <2>1, <2>2
    <2>5. p * (2 * q) = 2 * r
      BY <2>4
    <2> QED
      BY <2>2, <2>3, <2>5
  <1> HIDE DEF T, N
  <1>4. \A n \in 0 .. N : n \in T
    BY <1>1, <1>2, <1>3, InductionUpTo
  <1> QED
    BY <1>1, <1>4 DEF T

(* A shift to the right takes the lowest bits away.                        *)
LEMMA LowestShift ==
    ASSUME NEW a \in Word32, NEW s \in 0 .. 32, NEW n \in 0 .. 32 - s
    PROVE  Lowest(a)[s + n] = Lowest(a)[s] + Power[s] * Lowest(ShiftRight(a, s))[n]
  <1> DEFINE N == 32 - s
  <1> DEFINE w == ShiftRight(a, s)
  <1> DEFINE T == {m \in 0 .. N :
                      Lowest(a)[s + m] = Lowest(a)[s] + Power[s] * Lowest(w)[m]}
  <1>1. N \in Nat /\ n \in 0 .. N
    OBVIOUS
  <1>2. 0 \in T
    BY LowestIs, PowerIs
  <1>3. ASSUME NEW m \in 1 .. N, m - 1 \in T
        PROVE  m \in T
    <2>1. /\ m \in 1 .. 32 /\ m - 1 \in 0 .. 32
          /\ s + m \in 1 .. 32 /\ s + (m - 1) = (s + m) - 1 /\ (s + m) - 1 \in 0 .. 32
      BY <1>1
    <2>2. m - 1 \in w <=> (s + m) - 1 \in a
      <3>1. \A b \in a : b \in Int
        BY DEF Word32
      <3>2. m - 1 \in w => \E b \in a : b >= s /\ m - 1 = b - s
        BY DEF ShiftRight
      <3>3. (s + m) - 1 \in a => ((s + m) - 1) - s \in w
        BY <2>1 DEF ShiftRight
      <3> HIDE DEF w
      <3>4. ((s + m) - 1) - s = m - 1
        OBVIOUS
      <3>5. \A b \in a : b >= s /\ m - 1 = b - s => b = (s + m) - 1
        BY <3>1
      <3> QED
        BY <3>2, <3>3, <3>4, <3>5
    <2>3. PICK bit \in {0, 1} : bit = IF m - 1 \in w THEN 1 ELSE 0
      OBVIOUS
    <2> HIDE DEF w
    <2>4. PICK p \in Nat, q \in Nat, r \in Nat :
              p = Power[s] /\ q = Power[m - 1] /\ r = Power[(s + m) - 1]
      BY <2>1, PowerIs
    <2>5. p * q = r
      BY <2>1, <2>4, PowerSum
    <2>6. PICK x \in Nat, y \in Nat, z \in Nat :
              x = Lowest(a)[s] /\ y = Lowest(w)[m - 1] /\ z = Lowest(a)[(s + m) - 1]
      <3>1. Lowest(a) \in [0 .. 32 -> Nat] /\ Lowest(w) \in [0 .. 32 -> Nat]
        BY LowestIs
      <3>2. /\ Lowest(a)[s] \in Nat /\ Lowest(w)[m - 1] \in Nat
            /\ Lowest(a)[(s + m) - 1] \in Nat
        BY <2>1, <3>1
      <3> QED
        BY <3>2
    <2>7. z = x + p * y
      BY <1>3, <2>1, <2>4, <2>6
    <2>8. Lowest(w)[m] = y + bit * q
      <3>1. Lowest(w)[m] = Lowest(w)[m - 1] + (IF m - 1 \in w THEN Power[m - 1] ELSE 0)
        BY <2>1, LowestIs
      <3>2. Lowest(w)[m] = y + (IF m - 1 \in w THEN q ELSE 0)
        BY <2>4, <2>6, <3>1
      <3> QED
        BY <2>3, <3>2
    <2>9. Lowest(a)[s + m] = z + bit * r
      <3>1. Lowest(a)[s + m] =
                Lowest(a)[(s + m) - 1]
                + (IF (s + m) - 1 \in a THEN Power[(s + m) - 1] ELSE 0)
        BY <2>1, LowestIs
      <3>2. Lowest(a)[s + m] = z + (IF (s + m) - 1 \in a THEN r ELSE 0)
        BY <2>4, <2>6, <3>1
      <3> QED
        BY <2>2, <2>3, <3>2
    <2>10. z + bit * r = x + p * (y + bit * q)
      BY <2>5, <2>7
    <2> QED
      BY <2>4, <2>6, <2>8, <2>9, <2>10
  <1> HIDE DEF T, N
  <1>4. \A m \in 0 .. N : m \in T
    BY <1>1, <1>2, <1>3, InductionUpTo
  <1> QED
    BY <1>1, <1>4 DEF T

LEMMA LowestEnds ==
    ASSUME NEW a \in Word32, NEW s \in 0 .. 32, \A b \in a : b < s
    PROVE  Lowest(a)[32] = Lowest(a)[s]
  <1> DEFINE N == 32 - s
  <1> DEFINE T == {m \in 0 .. N : Lowest(a)[s + m] = Lowest(a)[s]}
  <1>2. N \in Nat
    OBVIOUS
  <1>3. 0 \in T
    BY LowestIs
  <1>4. ASSUME NEW m \in 1 .. N, m - 1 \in T
        PROVE  m \in T
    <2>1. s + m \in 1 .. 32 /\ s + (m - 1) = (s + m) - 1 /\ (s + m) - 1 \in 0 .. 32
      BY <1>2
    <2>2. (s + m) - 1 \notin a
      BY <2>1
    <2>3. PICK z \in Nat : z = Lowest(a)[(s + m) - 1]
      BY <2>1, LowestIs
    <2>4. Lowest(a)[s + m] = z + 0
      BY <2>1, <2>2, <2>3, LowestIs
    <2> QED
      BY <1>4, <2>1, <2>3, <2>4
  <1>5. N \in 0 .. N /\ s + N = 32
    BY <1>2
  <1> HIDE DEF T, N
  <1>6. N \in T
    BY <1>2, <1>3, <1>4, <1>5, InductionUpTo
  <1> QED
    BY <1>5, <1>6 DEF T

(* The constant of util_log2 in its lowest n bits, what is left of it when *)
(* it is multiplied by 2^(h+1), and the highest five bits of that less the *)
(* constant itself.                                                        *)
LowestDeBruijn == [n \in 0 .. 32 |->
    <<0, 1, 1, 5, 13, 29, 29, 93, 221, 221, 221, 1245, 3293, 3293, 11485, 11485, 44253,
      44253, 44253, 306397, 306397, 306397, 306397, 4500701, 12889309, 29666525,
      63220957, 130329821, 130329821, 130329821, 130329821, 130329821, 130329821>>[n + 1]]

ShiftedDeBruijn == [h \in 0 .. 31 |->
    <<260659642, 521319284, 1042638568, 2085277136, 4170554272, 4046141248, 3797315200,
      3299663104, 2304358912, 313750528, 627501056, 1255002112, 2510004224, 725041152,
      1450082304, 2900164608, 1505361920, 3010723840, 1726480384, 3452960768, 2610954240,
      926941184, 1853882368, 3707764736, 3120562176, 1946157056, 3892314112, 3489660928,
      2684354560, 1073741824, 2147483648, 0>>[h + 1]]

TableIndex == [h \in 0 .. 31 |->
    <<0, 2, 6, 14, 30, 29, 27, 23, 16, 1, 3, 8, 17, 4, 9, 20, 10, 21, 11, 24, 18, 5, 12,
      26, 22, 13, 28, 25, 19, 7, 15, 31>>[h + 1]]

LEMMA DeBruijnIs ==
    ASSUME NEW n \in 0 .. 32
    PROVE  Lowest(DeBruijn)[n] = LowestDeBruijn[n]
  <1> DEFINE T == {m \in 0 .. 32 : Lowest(DeBruijn)[m] = LowestDeBruijn[m]}
  <1>1. LowestDeBruijn[0] = 0
    BY SMT DEF LowestDeBruijn
  <1>2. \A m \in 1 .. 32 :
            LowestDeBruijn[m] =
                LowestDeBruijn[m - 1] + (IF m - 1 \in DeBruijn THEN Power[m - 1] ELSE 0)
    BY SMT DEF LowestDeBruijn, DeBruijn, Power
  <1>3. 0 \in T
    BY <1>1, LowestIs
  <1>4. ASSUME NEW m \in 1 .. 32, m - 1 \in T
        PROVE  m \in T
    BY <1>2, <1>4, LowestIs
  <1> HIDE DEF T
  <1>5. \A m \in 0 .. 32 : m \in T
    BY <1>3, <1>4, InductionUpTo
  <1> QED
    BY <1>5 DEF T

LEMMA ShiftedIs ==
    ASSUME NEW h \in 0 .. 31
    PROVE  Power[h + 1] * Lowest(DeBruijn)[31 - h] = ShiftedDeBruijn[h]
  <1>1. Power[h + 1] * LowestDeBruijn[31 - h] = ShiftedDeBruijn[h]
    BY SMT DEF LowestDeBruijn, Power, ShiftedDeBruijn
  <1>2. 31 - h \in 0 .. 32
    OBVIOUS
  <1> QED
    BY <1>1, <1>2, DeBruijnIs, Zenon

(* The table gives the exponent back.                                      *)
LEMMA TableGivesBack ==
    ASSUME NEW h \in 0 .. 31, NEW x \in Nat, x < 32, NEW low \in Nat, low < Power[27],
           NEW z \in Int,
           Power[27] * x + low =
               Power[h + 1] * Lowest(DeBruijn)[31 - h] - Lowest(DeBruijn)[32]
               + Power[32] * z
    PROVE  MultiplyDeBruijnBitPosition[x + 1] = h
  <1>1. /\ Power[27] = 134217728 /\ Power[32] = 4294967296
        /\ Lowest(DeBruijn)[32] = 130329821
    <2>1. 32 \in 0 .. 32
      OBVIOUS
    <2>2. /\ Power[27] = 134217728 /\ Power[32] = 4294967296
          /\ LowestDeBruijn[32] = 130329821
      BY SMT DEF Power, LowestDeBruijn
    <2> QED
      BY <2>1, <2>2, DeBruijnIs, SMT
  <1>2. 134217728 * x + low = ShiftedDeBruijn[h] - 130329821 + 4294967296 * z
    BY <1>1, ShiftedIs, SMT
  <1>3. low < 134217728
    BY <1>1, SMT
  <1>4. x = TableIndex[h]
    BY <1>2, <1>3, SMT DEF ShiftedDeBruijn, TableIndex
  <1>5. MultiplyDeBruijnBitPosition[TableIndex[h] + 1] = h
    BY SMT DEF TableIndex, MultiplyDeBruijnBitPosition
  <1> QED
    BY <1>4, <1>5

(* The carries of an addition on paper.                                    *)
Carries(carry, col) ==
    /\ carry[0] = 0
    /\ \A n \in 1 .. 31 : carry[n] = (col[n - 1] + carry[n - 1]) \div 2

LEMMA CarriesExist ==
    ASSUME NEW col \in [0 .. 31 -> Nat]
    PROVE  \E carry \in [0 .. 31 -> Nat] : Carries(carry, col)
  <1> DEFINE step == [n \in 1 .. 31 |-> [c \in Nat |-> (col[n - 1] + c) \div 2]]
  <1>1. step \in [1 .. 31 -> [Nat -> Nat]]
    <2>1. \A n \in 1 .. 31 : col[n - 1] \in Nat
      OBVIOUS
    <2> QED
      BY <2>1
  <1>2. PICK carry \in [0 .. 31 -> Nat] :
            carry[0] = 0 /\ \A n \in 1 .. 31 : carry[n] = step[n][carry[n - 1]]
    <2> HIDE DEF step
    <2>1. 0 \in Nat /\ 31 \in Nat
      OBVIOUS
    <2> QED
      BY <1>1, <2>1, RecursionOnNumbers, ZenonT(30)
  <1>3. \A n \in 1 .. 31 : carry[n] = (col[n - 1] + carry[n - 1]) \div 2
    <2>1. \A n \in 1 .. 31 : carry[n - 1] \in Nat
      BY <1>2
    <2> QED
      BY <1>2, <2>1
  <1> QED
    BY <1>2, <1>3 DEF Carries

LEMMA CarriesType ==
    ASSUME NEW col \in [0 .. 31 -> Nat],
           NEW carry, carry = [n \in 0 .. 31 |-> carry[n]], Carries(carry, col)
    PROVE  carry \in [0 .. 31 -> Nat]
  <1> DEFINE T == {n \in 0 .. 31 : carry[n] \in Nat}
  <1>1. 0 \in T
    BY DEF Carries
  <1>2. ASSUME NEW n \in 1 .. 31, n - 1 \in T
        PROVE  n \in T
    <2>1. carry[n - 1] \in Nat /\ col[n - 1] \in Nat
      BY <1>2
    <2>2. carry[n] = (col[n - 1] + carry[n - 1]) \div 2
      BY DEF Carries
    <2> QED
      BY <2>1, <2>2
  <1> HIDE DEF T
  <1>3. \A n \in 0 .. 31 : n \in T
    BY <1>1, <1>2, InductionUpTo
  <1>4. \A n \in 0 .. 31 : carry[n] \in Nat
    BY <1>3 DEF T
  <1> QED
    BY <1>4

(* What is left of the columns.                                            *)
Kept(carry, col) == {n \in 0 .. 31 : (col[n] + carry[n]) % 2 = 1}

(* The recursive function Times takes the value of.                        *)
LEMMA TimesIs ==
    ASSUME NEW a, NEW b, NEW col \in [0 .. 31 -> Nat],
           \A n \in 0 .. 31 : col[n] = Cardinality({k \in b : n - k \in a})
    PROVE  \E carry \in [0 .. 31 -> Nat] :
               Carries(carry, col) /\ Times(a, b) = Kept(carry, col)
  <1>1. PICK carry \in [0 .. 31 -> Nat] : Carries(carry, col)
    BY CarriesExist
  <1>2. \A n \in 0 .. 31 : n # 0 => n \in 1 .. 31 /\ n - 1 \in 0 .. 31
    OBVIOUS
  <1>3. \A f : Carries(f, col) <=>
            /\ f[0] = 0
            /\ \A n \in 0 .. 31 :
                   n # 0 =>
                       f[n] = (Cardinality({k \in b : n - 1 - k \in a}) + f[n - 1]) \div 2
    <2> TAKE f
    <2>1. \A n \in 0 .. 31 : n # 0 => col[n - 1] = Cardinality({k \in b : n - 1 - k \in a})
      BY <1>2, Zenon
    <2>2. \A n \in 1 .. 31 : n \in 0 .. 31 /\ n # 0
      OBVIOUS
    <2> QED
      BY <1>2, <2>1, <2>2, Zenon DEF Carries
  <1>4. carry = [n \in 0 .. 31 |->
                    IF n = 0 THEN 0
                    ELSE (Cardinality({k \in b : n - 1 - k \in a}) + carry[n - 1]) \div 2]
    <2>1. carry = [n \in 0 .. 31 |-> carry[n]]
      OBVIOUS
    <2>2. \A n \in 0 .. 31 :
              carry[n] =
                  IF n = 0 THEN 0
                  ELSE (Cardinality({k \in b : n - 1 - k \in a}) + carry[n - 1]) \div 2
      BY <1>1, <1>3, Zenon
    <2> QED
      BY <2>1, <2>2, Zenon
  <1>5. \E f :
            /\ f = [n \in 0 .. 31 |->
                       IF n = 0 THEN 0
                       ELSE (Cardinality({k \in b : n - 1 - k \in a}) + f[n - 1]) \div 2]
            /\ Times(a, b) =
                   {n \in 0 .. 31 : (Cardinality({k \in b : n - k \in a}) + f[n]) % 2 = 1}
    BY <1>4, Zenon DEF Times, Carried
  <1>6. PICK f :
            /\ f = [n \in 0 .. 31 |->
                       IF n = 0 THEN 0
                       ELSE (Cardinality({k \in b : n - 1 - k \in a}) + f[n - 1]) \div 2]
            /\ Times(a, b) =
                   {n \in 0 .. 31 : (Cardinality({k \in b : n - k \in a}) + f[n]) % 2 = 1}
    BY <1>5
  <1>7. f[0] = 0 /\ f = [n \in 0 .. 31 |-> f[n]]
    <2>1. 0 \in 0 .. 31
      OBVIOUS
    <2>2. f[0] = 0
      BY <1>6, <2>1, Zenon
    <2>3. f = [n \in 0 .. 31 |-> f[n]]
      BY <1>6, Zenon
    <2> QED
      BY <2>2, <2>3
  <1>8. Carries(f, col)
    <2>1. \A n \in 0 .. 31 :
              n # 0 => f[n] = (Cardinality({k \in b : n - 1 - k \in a}) + f[n - 1]) \div 2
      BY <1>6, Zenon
    <2> QED
      BY <1>3, <1>7, <2>1, Zenon
  <1>9. f \in [0 .. 31 -> Nat]
    BY <1>7, <1>8, CarriesType
  <1>10. Times(a, b) = Kept(f, col)
    <2>1. \A n \in 0 .. 31 : Cardinality({k \in b : n - k \in a}) = col[n]
      BY Zenon
    <2> QED
      BY <1>6, <2>1, Zenon DEF Kept
  <1> QED
    BY <1>8, <1>9, <1>10

(* The number of the bits below m.                                         *)
Ones(b) == [m \in 0 .. 32 |-> Cardinality({k \in b : k < m})]

LEMMA BitsFinite ==
    ASSUME NEW b \in Word32, NEW S \in SUBSET b
    PROVE  IsFiniteSet(S) /\ Cardinality(S) \in Nat
  <1>1. IsFiniteSet(0 .. 31)
    <2>1. 0 \in Int /\ 31 \in Int
      OBVIOUS
    <2> QED
      BY <2>1, FS_Interval
  <1>2. S \in SUBSET (0 .. 31)
    BY DEF Word32
  <1>3. IsFiniteSet(S)
    BY <1>1, <1>2, FS_Subset
  <1> QED
    BY <1>3, FS_CardinalityType

LEMMA OnesIs ==
    ASSUME NEW b \in Word32
    PROVE  /\ Ones(b) \in [0 .. 32 -> Nat]
           /\ Ones(b)[0] = 0
           /\ \A m \in 1 .. 32 :
                  Ones(b)[m] = Ones(b)[m - 1] + (IF m - 1 \in b THEN 1 ELSE 0)
  <1>1. \A m \in 0 .. 32 : {k \in b : k < m} \in SUBSET b
    OBVIOUS
  <1>2. Ones(b) \in [0 .. 32 -> Nat]
    BY <1>1, BitsFinite DEF Ones
  <1>3. Ones(b)[0] = 0
    <2>1. \A k \in b : k \in 0 .. 31
      BY DEF Word32
    <2>2. {k \in b : k < 0} = {}
      BY <2>1
    <2>3. Ones(b)[0] = Cardinality({k \in b : k < 0})
      BY DEF Ones
    <2> QED
      BY <2>2, <2>3, FS_EmptySet
  <1>4. ASSUME NEW m \in 1 .. 32
        PROVE  Ones(b)[m] = Ones(b)[m - 1] + (IF m - 1 \in b THEN 1 ELSE 0)
    <2> DEFINE S == {k \in b : k < m - 1}
    <2>1. m - 1 \in 0 .. 32 /\ \A k \in b : k \in 0 .. 31
      BY DEF Word32
    <2>2. IsFiniteSet(S) /\ Cardinality(S) \in Nat /\ m - 1 \notin S
      BY <2>1, BitsFinite
    <2>5. Ones(b)[m] = Cardinality({k \in b : k < m}) /\ Ones(b)[m - 1] = Cardinality(S)
      BY <2>1 DEF Ones
    <2>3. CASE m - 1 \in b
      <3>1. {k \in b : k < m} = S \cup {m - 1}
        BY <2>1, <2>3
      <3> HIDE DEF S
      <3>2. Cardinality(S \cup {m - 1}) = Cardinality(S) + 1
        BY <2>2, FS_AddElement
      <3>3. Ones(b)[m] = Ones(b)[m - 1] + 1
        BY <2>5, <3>1, <3>2
      <3> QED
        BY <2>3, <3>3
    <2>4. CASE m - 1 \notin b
      <3>1. {k \in b : k < m} = S
        BY <2>1, <2>4
      <3> HIDE DEF S
      <3>2. Ones(b)[m] = Ones(b)[m - 1] /\ Ones(b)[m - 1] \in Nat
        BY <2>2, <2>5, <3>1
      <3> QED
        BY <2>4, <3>2
    <2> QED
      BY <2>3, <2>4
  <1> QED
    BY <1>2, <1>3, <1>4

(* The columns of a product by a word whose bits 0 to h are set.           *)
LEMMA ColumnOfOnes ==
    ASSUME NEW b \in Word32, NEW h \in 0 .. 31, NEW n \in 0 .. 31,
           NEW m \in 0 .. 32, m = IF n <= h THEN 0 ELSE n - h
    PROVE  Cardinality({k \in b : n - k \in 0 .. h}) = Ones(b)[n + 1] - Ones(b)[m]
  <1> DEFINE S == {k \in b : k < m}
  <1> DEFINE T == {k \in b : n - k \in 0 .. h}
  <1>1. \A k \in b : k \in 0 .. 31
    BY DEF Word32
  <1>2. {k \in b : k < n + 1} = S \cup T /\ S \cap T = {}
    BY <1>1
  <1>3. /\ IsFiniteSet(S) /\ IsFiniteSet(T)
        /\ Cardinality(S) \in Nat /\ Cardinality(T) \in Nat
    BY BitsFinite
  <1>4. Ones(b)[m] = Cardinality(S) /\ Ones(b)[n + 1] = Cardinality({k \in b : k < n + 1})
    BY DEF Ones
  <1>7. Ones(b)[n + 1] = Cardinality(S \cup T)
    BY <1>2, <1>4, Zenon
  <1>8. Cardinality(T) = Cardinality({k \in b : n - k \in 0 .. h})
    OBVIOUS
  <1> HIDE DEF S, T
  <1>5. Cardinality(S \cup T) = Cardinality(S) + Cardinality(T) - Cardinality({})
    BY <1>2, <1>3, FS_Union
  <1>6. Cardinality({}) = 0
    BY FS_EmptySet
  <1> QED
    BY <1>3, <1>4, <1>5, <1>6, <1>7, <1>8

(* What is left of m when n is subtracted.                                 *)
Less(m, n) == IF m <= n THEN 0 ELSE m - n

(* The columns up to n of that product add up to this.                     *)
SumOfOnes(b, h) ==
    [n \in 0 .. 32 |->
        Power[n] * (Ones(b)[n] - Ones(b)[Less(n, h + 1)]) - Lowest(b)[n]
        + Power[h + 1] * Lowest(b)[Less(n, h + 1)]]

LEMMA NextOfOnes ==
    ASSUME NEW b \in Word32, NEW h \in 0 .. 31, NEW n \in 1 .. 32
    PROVE  SumOfOnes(b, h)[n] =
               SumOfOnes(b, h)[n - 1]
               + Power[n - 1] * (Ones(b)[n] - Ones(b)[Less(n, h + 1)])
  <1> DEFINE m == Less(n, h + 1)
  <1> DEFINE k == Less(n - 1, h + 1)
  <1>1. n \in 0 .. 32 /\ n - 1 \in 0 .. 32 /\ m \in 0 .. 32 /\ k \in 0 .. 32
    BY DEF Less
  <1>2. PICK p \in Nat : p = Power[n - 1] /\ Power[n] = 2 * p
    BY <1>1, PowerIs
  <1>3. PICK q \in Nat : q = Power[h + 1]
    BY PowerIs
  <1>4. PICK bit \in {0, 1} : bit = IF n - 1 \in b THEN 1 ELSE 0
    OBVIOUS
  <1>5. PICK ones \in Nat : ones = Ones(b)[n - 1] /\ Ones(b)[n] = ones + bit
    BY <1>1, <1>4, OnesIs
  <1>6. PICK low \in Nat : low = Lowest(b)[n - 1] /\ Lowest(b)[n] = low + bit * p
    <2>1. Lowest(b)[n] = Lowest(b)[n - 1] + (IF n - 1 \in b THEN p ELSE 0)
      BY <1>2, LowestIs
    <2>2. Lowest(b)[n - 1] \in Nat
      BY <1>1, LowestIs
    <2> QED
      BY <1>4, <2>1, <2>2
  <1>7. PICK other \in Nat, rest \in Nat : other = Ones(b)[k] /\ rest = Lowest(b)[k]
    <2>1. Ones(b)[k] \in Nat
      BY <1>1, OnesIs
    <2>2. Lowest(b)[k] \in Nat
      BY <1>1, LowestIs
    <2> QED
      BY <2>1, <2>2
  <1>8. PICK more \in Int :
            Ones(b)[m] = other + more /\ q * Lowest(b)[m] = q * rest + more * p
    <2>1. CASE n <= h + 1
      <3>1. m = k
        BY <2>1 DEF Less
      <3>2. Ones(b)[m] = other + 0 /\ q * Lowest(b)[m] = q * rest + 0 * p
        BY <1>7, <3>1
      <3> QED
        BY <3>2
    <2>2. CASE n > h + 1
      <3>1. m \in 1 .. 32 /\ k = m - 1 /\ (h + 1) + (m - 1) = n - 1
            /\ h + 1 \in 0 .. 32 /\ m - 1 \in 0 .. 32
        BY <2>2 DEF Less
      <3> HIDE DEF m, k
      <3>2. PICK r \in Nat : r = Power[m - 1] /\ q * r = p
        <4>1. q * Power[m - 1] = Power[n - 1]
          <5>1. (h + 1) + (m - 1) \in 0 .. 32
            BY <1>1, <3>1
          <5> QED
            BY <1>3, <3>1, <5>1, PowerSum
        <4>2. Power[m - 1] \in Nat
          BY <3>1, PowerIs
        <4> QED
          BY <1>2, <4>1, <4>2
      <3>3. PICK more \in {0, 1} : more = IF m - 1 \in b THEN 1 ELSE 0
        OBVIOUS
      <3>4. Ones(b)[m] = other + more
        BY <1>7, <3>1, <3>3, OnesIs
      <3>5. Lowest(b)[m] = rest + more * r
        <4>1. Lowest(b)[m] = Lowest(b)[m - 1] + (IF m - 1 \in b THEN r ELSE 0)
          BY <3>1, <3>2, LowestIs
        <4> QED
          BY <1>7, <3>1, <3>2, <3>3, <4>1
      <3>6. q * (rest + more * r) = q * rest + more * p
        BY <3>2
      <3> QED
        BY <3>4, <3>5, <3>6
    <2> QED
      BY <2>1, <2>2
  <1>9. SumOfOnes(b, h)[n] =
            (2 * p) * ((ones + bit) - (other + more)) - (low + bit * p)
            + (q * rest + more * p)
    BY <1>1, <1>2, <1>3, <1>5, <1>6, <1>8 DEF SumOfOnes
  <1>10. SumOfOnes(b, h)[n - 1] = p * (ones - other) - low + q * rest
    BY <1>1, <1>2, <1>3, <1>5, <1>6, <1>7 DEF SumOfOnes
  <1>11. (2 * p) * ((ones + bit) - (other + more)) - (low + bit * p) + (q * rest + more * p)
         = (p * (ones - other) - low + q * rest) + p * ((ones + bit) - (other + more))
    OBVIOUS
  <1> QED
    BY <1>2, <1>5, <1>8, <1>9, <1>10, <1>11

LEMMA ProductOfOnes ==
    ASSUME NEW b \in Word32, NEW h \in 0 .. 31
    PROVE  \E z \in Int :
               Lowest(Times(0 .. h, b))[32] =
                   Power[h + 1] * Lowest(b)[31 - h] - Lowest(b)[32] + Power[32] * z
  <1> DEFINE col == [n \in 0 .. 31 |-> Ones(b)[n + 1] - Ones(b)[Less(n + 1, h + 1)]]
  <1> DEFINE sum == SumOfOnes(b, h)
  <1>1. ASSUME NEW n \in 0 .. 31
        PROVE  /\ col[n] = Cardinality({k \in b : n - k \in 0 .. h})
               /\ col[n] \in Nat
    <2>1. PICK m \in 0 .. 32 : m = Less(n + 1, h + 1) /\ m = IF n <= h THEN 0 ELSE n - h
      BY DEF Less
    <2>2. Cardinality({k \in b : n - k \in 0 .. h}) = Ones(b)[n + 1] - Ones(b)[m]
      BY <2>1, ColumnOfOnes
    <2>3. Cardinality({k \in b : n - k \in 0 .. h}) \in Nat
      BY BitsFinite
    <2> QED
      BY <2>1, <2>2, <2>3
  <1>2. col \in [0 .. 31 -> Nat]
    <2>1. col = [n \in 0 .. 31 |-> col[n]]
      OBVIOUS
    <2> HIDE DEF col
    <2> QED
      BY <1>1, <2>1
  <1>3. PICK carry \in [0 .. 31 -> Nat] :
            Carries(carry, col) /\ Times(0 .. h, b) = Kept(carry, col)
    <2>1. \A n \in 0 .. 31 : col[n] = Cardinality({k \in b : n - k \in 0 .. h})
      BY <1>1
    <2> HIDE DEF col
    <2> QED
      BY <1>2, <2>1, TimesIs, ZenonT(60)
  <1>4. \A n \in 0 .. 32 :
            /\ Less(n, h + 1) \in 0 .. 32
            /\ Ones(b)[n] \in Nat /\ Lowest(b)[n] \in Nat /\ Power[n] \in Nat
    BY OnesIs, LowestIs, PowerIs DEF Less
  <1>5. h + 1 \in 0 .. 32 /\ 0 \in 0 .. 32 /\ 32 \in 0 .. 32 /\ 31 - h \in 0 .. 32
    OBVIOUS
  <1>6. sum \in [0 .. 32 -> Int]
    <2>1. ASSUME NEW n \in 0 .. 32
          PROVE  Power[n] * (Ones(b)[n] - Ones(b)[Less(n, h + 1)]) - Lowest(b)[n]
                 + Power[h + 1] * Lowest(b)[Less(n, h + 1)] \in Int
      <3>1. PICK p \in Nat, u \in Nat, v \in Nat, x \in Nat, q \in Nat, y \in Nat :
                /\ p = Power[n] /\ u = Ones(b)[n] /\ v = Ones(b)[Less(n, h + 1)]
                /\ x = Lowest(b)[n] /\ q = Power[h + 1] /\ y = Lowest(b)[Less(n, h + 1)]
        BY <1>4, <1>5
      <3>2. p * (u - v) - x + q * y \in Int
        OBVIOUS
      <3> QED
        BY <3>1, <3>2
    <2> QED
      BY <2>1 DEF SumOfOnes
  <1>7. sum[0] = 0
    <2>1. Less(0, h + 1) = 0
      BY DEF Less
    <2>2. Lowest(b)[0] = 0
      BY LowestIs
    <2>3. PICK p \in Nat, q \in Nat, u \in Nat :
              p = Power[0] /\ q = Power[h + 1] /\ u = Ones(b)[0]
      BY <1>4, <1>5
    <2>4. p * (u - u) - 0 + q * 0 = 0
      OBVIOUS
    <2>5. sum[0] = p * (u - u) - 0 + q * 0
      BY <1>5, <2>1, <2>2, <2>3 DEF SumOfOnes
    <2> QED
      BY <2>4, <2>5
  <1>8. \A n \in 1 .. 32 : sum[n] = sum[n - 1] + Power[n - 1] * col[n - 1]
    <2> TAKE n \in 1 .. 32
    <2>1. n - 1 \in 0 .. 31 /\ (n - 1) + 1 = n
      OBVIOUS
    <2>2. col[n - 1] = Ones(b)[n] - Ones(b)[Less(n, h + 1)]
      BY <2>1
    <2> QED
      BY <2>2, NextOfOnes
  <1>9. PICK c \in Nat : sum[32] = Power[32] * c + Lowest(Times(0 .. h, b))[32]
    <2> HIDE DEF col, sum
    <2>1. \A n \in 0 .. 31 : n \in Kept(carry, col) <=> (col[n] + carry[n]) % 2 = 1
      BY DEF Kept
    <2>2. carry[0] = 0 /\ \A n \in 1 .. 31 : carry[n] = (col[n - 1] + carry[n - 1]) \div 2
      BY <1>3 DEF Carries
    <2>3. \E c \in Nat : sum[32] = Power[32] * c + Lowest(Kept(carry, col))[32]
      <3> HIDE DEF Kept
      <3> QED
        BY <1>2, <1>3, <1>6, <1>7, <1>8, <2>1, <2>2, CarriesKeepSum, ZenonT(60)
    <2> QED
      BY <1>3, <2>3
  <1>10. Less(32, h + 1) = 31 - h
    BY DEF Less
  <1>11. PICK p \in Nat, q \in Nat, x \in Nat, y \in Nat, u \in Nat, v \in Nat :
             /\ p = Power[32] /\ q = Power[h + 1]
             /\ x = Lowest(b)[31 - h] /\ y = Lowest(b)[32]
             /\ u = Ones(b)[32] /\ v = Ones(b)[31 - h]
    BY <1>4, <1>5
  <1>12. sum[32] = p * (u - v) - y + q * x
    BY <1>5, <1>10, <1>11 DEF SumOfOnes
  <1>13. PICK w \in Nat : w = Lowest(Times(0 .. h, b))[32]
    <2>1. Lowest(Times(0 .. h, b)) \in [0 .. 32 -> Nat]
      BY LowestIs
    <2> QED
      BY <1>5, <2>1
  <1>14. p * c + w = p * (u - v) - y + q * x
    BY <1>9, <1>11, <1>12, <1>13
  <1>15. p * ((u - v) - c) = p * (u - v) - p * c
    OBVIOUS
  <1>16. w = q * x - y + p * ((u - v) - c)
    BY <1>14, <1>15
  <1> WITNESS (u - v) - c \in Int
  <1> QED
    BY <1>11, <1>13, <1>16

-----------------------------------------------------------------------------
(* util_log2.                                                              *)

(* The bits of w do not go beyond h, and the m highest up to h are set.    *)
SetBelow(w, h, m) == w \in SUBSET (0 .. h) /\ \A b \in 0 .. h : b > h - m => b \in w

LEMMA SmearStep ==
    ASSUME NEW h \in 0 .. 31, NEW m \in 1 .. 16, NEW w, SetBelow(w, h, m)
    PROVE  SetBelow(w \cup ShiftRight(w, m), h, m + m)
  <1>1. \A b \in ShiftRight(w, m) : b \in 0 .. h
    <2>1. \A x \in w : x >= m => x - m \in 0 .. h
      BY DEF SetBelow
    <2> QED
      BY <2>1 DEF ShiftRight
  <1>2. ASSUME NEW b \in 0 .. h, b > h - (m + m), b \notin w
        PROVE  b \in ShiftRight(w, m)
    <2>1. ~(b > h - m)
      BY <1>2 DEF SetBelow
    <2>2. b + m \in 0 .. h /\ b + m > h - m /\ b + m >= m /\ (b + m) - m = b
      BY <1>2, <2>1
    <2>3. b + m \in w
      BY <2>2 DEF SetBelow
    <2>4. (b + m) - m \in ShiftRight(w, m)
      BY <2>2, <2>3 DEF ShiftRight
    <2> QED
      BY <2>2, <2>4
  <1> QED
    BY <1>1, <1>2 DEF SetBelow

(* The five lines set all bits below the highest one.                      *)
LEMMA SmearedIs ==
    ASSUME NEW v \in Word32, NEW h \in v, \A b \in v : b <= h
    PROVE  h \in 0 .. 31 /\ Smeared(v) = 0 .. h
  <1>1. h \in 0 .. 31 /\ v \in SUBSET (0 .. h)
    BY DEF Word32
  <1>2. SetBelow(v, h, 1)
    <2>1. \A b \in 0 .. h : b > h - 1 => b = h
      BY <1>1
    <2> QED
      BY <1>1, <2>1 DEF SetBelow
  <1> DEFINE w1 == v \cup ShiftRight(v, 1)
  <1> DEFINE w2 == w1 \cup ShiftRight(w1, 2)
  <1> DEFINE w4 == w2 \cup ShiftRight(w2, 4)
  <1> DEFINE w8 == w4 \cup ShiftRight(w4, 8)
  <1> DEFINE w16 == w8 \cup ShiftRight(w8, 16)
  <1>3. Smeared(v) = w16
    BY Zenon DEF Smeared
  <1>4. \A m \in {1, 2, 4, 8, 16} : \A w :
            SetBelow(w, h, m) => SetBelow(w \cup ShiftRight(w, m), h, m + m)
    <2>1. \A m \in {1, 2, 4, 8, 16} : m \in 1 .. 16
      OBVIOUS
    <2> QED
      BY <1>1, <2>1, SmearStep, Zenon
  <1>5. 1 + 1 = 2 /\ 2 + 2 = 4 /\ 4 + 4 = 8 /\ 8 + 8 = 16 /\ 16 + 16 = 32
    OBVIOUS
  <1> HIDE DEF w1, w2, w4, w8, w16
  <1>6. SetBelow(w1, h, 2)
    BY <1>2, <1>4, <1>5 DEF w1
  <1>7. SetBelow(w2, h, 4)
    BY <1>4, <1>5, <1>6 DEF w2
  <1>8. SetBelow(w4, h, 8)
    BY <1>4, <1>5, <1>7 DEF w4
  <1>9. SetBelow(w8, h, 16)
    BY <1>4, <1>5, <1>8 DEF w8
  <1>10. SetBelow(w16, h, 32)
    BY <1>4, <1>5, <1>9 DEF w16
  <1>11. w16 = 0 .. h
    <2>1. \A b \in 0 .. h : b > h - 32
      BY <1>1
    <2>2. w16 \in SUBSET (0 .. h) /\ \A b \in 0 .. h : b \in w16
      BY <1>10, <2>1 DEF SetBelow
    <2> QED
      BY <2>2
  <1> QED
    BY <1>1, <1>3, <1>11

(* The recursive function Number takes the value of.                       *)
LEMMA NumberIs ==
    ASSUME NEW a
    PROVE  \E value : Values(value, a) /\ Number(a) = value[32]
  <1> DEFINE bit == [n \in 1 .. 32 |-> IF 32 - n \in a THEN 1 ELSE 0]
  <1> DEFINE step == [n \in 1 .. 32 |-> [v \in Nat |-> 2 * v + bit[n]]]
  <1>1. bit \in [1 .. 32 -> Nat]
    OBVIOUS
  <1>2. step \in [1 .. 32 -> [Nat -> Nat]]
    BY <1>1
  <1>3. PICK f \in [0 .. 32 -> Nat] :
            f[0] = 0 /\ \A n \in 1 .. 32 : f[n] = step[n][f[n - 1]]
    <2> HIDE DEF step
    <2>1. 0 \in Nat /\ 32 \in Nat
      OBVIOUS
    <2> QED
      BY <1>2, <2>1, RecursionOnNumbers, ZenonT(30)
  <1>4. ASSUME NEW n \in 1 .. 32
        PROVE  f[n] = 2 * f[n - 1] + (IF 32 - n \in a THEN 1 ELSE 0)
    <2>1. f[n - 1] \in Nat
      BY <1>3
    <2>2. f[n] = 2 * f[n - 1] + bit[n]
      BY <1>3, <2>1
    <2> QED
      BY <2>2
  <1>5. \A n \in 0 .. 32 :
            f[n] = IF n = 0 THEN 0 ELSE 2 * f[n - 1] + (IF 32 - n \in a THEN 1 ELSE 0)
    BY <1>3, <1>4
  <1>6. f = [n \in 0 .. 32 |->
                IF n = 0 THEN 0 ELSE 2 * f[n - 1] + (IF 32 - n \in a THEN 1 ELSE 0)]
    BY <1>3, <1>5
  <1> QED
    BY <1>6, Zenon DEF Number, Values

LEMMA NumberIsLowest ==
    ASSUME NEW a
    PROVE  Number(a) = Lowest(a)[32]
  <1>1. PICK value : Values(value, a) /\ Number(a) = value[32]
    BY NumberIs
  <1>2. 32 \in 0 .. 32 /\ 32 - 32 = 0
    OBVIOUS
  <1>3. value[32] = Power[32] * value[32 - 32] + Lowest(a)[32]
    BY <1>1, <1>2, NumberParts, ZenonT(60)
  <1>4. value[0] = 0
    BY <1>1 DEF Values
  <1>5. Power[32] \in Nat /\ Lowest(a)[32] \in Nat
    BY <1>2, LowestIs, PowerIs
  <1> QED
    BY <1>1, <1>2, <1>3, <1>4, <1>5

(* For every word but zero util_log2 returns the highest bit that is set:  *)
(* the product with the De Bruijn number, modulo 2^32, leaves another five *)
(* bits at the top for each of the 32 bits it may be (util.c:8-22).        *)
THEOREM Log2IsHighest ==
    ASSUME NEW v \in Word32, NEW h \in v, \A b \in v : b <= h
    PROVE  h \in 0 .. 31 /\ util_log2(v) = h
  <1> DEFINE product == Times(0 .. h, DeBruijn)
  <1> DEFINE top == ShiftRight(product, 27)
  <1>1. h \in 0 .. 31 /\ Smeared(v) = 0 .. h
    BY SmearedIs
  <1>2. DeBruijn \in Word32
    BY DEF DeBruijn, Word32
  <1>3. product \in Word32
    BY Zenon DEF Times, Carried, Word32
  <1>4. util_log2(v) = MultiplyDeBruijnBitPosition[Number(top) + 1]
    BY <1>1, Zenon DEF util_log2
  <1>5. PICK z \in Int :
            Lowest(product)[32] =
                Power[h + 1] * Lowest(DeBruijn)[31 - h] - Lowest(DeBruijn)[32]
                + Power[32] * z
    BY <1>1, <1>2, ProductOfOnes
  <1>6. \A b \in top : b \in 0 .. 4
    <2> HIDE DEF product
    <2>1. \A x \in product : x \in 0 .. 31
      BY <1>3 DEF Word32
    <2>2. \A x \in product : x >= 27 => x - 27 \in 0 .. 4
      BY <2>1
    <2> QED
      BY <2>2 DEF ShiftRight
  <1> HIDE DEF product
  <1>7. top \in Word32 /\ \A b \in top : b < 5
    BY <1>6 DEF Word32
  <1>8. 27 \in 0 .. 32 /\ 5 \in 0 .. 32 - 27 /\ 27 + 5 = 32 /\ 5 \in 0 .. 32 /\ 32 \in 0 .. 32
    OBVIOUS
  <1>9. Lowest(product)[32] = Lowest(product)[27] + Power[27] * Lowest(top)[5]
    BY <1>3, <1>8, LowestShift
  <1> HIDE DEF top
  <1>10. Number(top) = Lowest(top)[5]
    BY <1>7, <1>8, LowestEnds, NumberIsLowest
  <1>11. PICK x \in Nat, low \in Nat :
             x = Lowest(top)[5] /\ low = Lowest(product)[27] /\ x < Power[5] /\ low < Power[27]
    <2>1. Lowest(top)[5] \in Nat /\ Lowest(product)[27] \in Nat
      BY <1>8, LowestIs
    <2> QED
      BY <1>8, <2>1, LowestBound
  <1>12. x < 32
    <2>1. Power[5] = 32
      BY SMT DEF Power
    <2> QED
      BY <1>11, <2>1
  <1>13. Power[27] \in Nat
    BY <1>8, PowerIs
  <1>14. Power[27] * x + low =
             Power[h + 1] * Lowest(DeBruijn)[31 - h] - Lowest(DeBruijn)[32] + Power[32] * z
    BY <1>5, <1>9, <1>11, <1>13
  <1>15. MultiplyDeBruijnBitPosition[x + 1] = h
    BY <1>1, <1>11, <1>12, <1>14, TableGivesBack, ZenonT(30)
  <1> QED
    BY <1>1, <1>4, <1>10, <1>11, <1>15

(* The recursive function Plus takes the value of, for -a.                 *)
Addends(a, n) == Cardinality({w \in {1, 2} : n \in <<Complement(a), {0}>>[w]})

LEMMA AddendsAre ==
    ASSUME NEW a, NEW n \in 0 .. 31
    PROVE  Addends(a, n) = (IF n \in a THEN 0 ELSE 1) + (IF n = 0 THEN 1 ELSE 0)
  <1> DEFINE S == {w \in {1, 2} : n \in <<Complement(a), {0}>>[w]}
  <1>1. (1 \in S <=> n \notin a) /\ (2 \in S <=> n = 0) /\ S \in SUBSET {1, 2}
    BY DEF Complement
  <1>2. Addends(a, n) = Cardinality(S)
    BY DEF Addends
  <1> HIDE DEF S
  <1>3. Cardinality({}) = 0 /\ Cardinality({1}) = 1 /\ Cardinality({2}) = 1
    BY FS_EmptySet, FS_Singleton
  <1>4. Cardinality({1, 2}) = 2
    <2>1. {1} \cup {2} = {1, 2} /\ 2 \notin {1}
      OBVIOUS
    <2>2. IsFiniteSet({1})
      BY FS_Singleton
    <2>3. Cardinality({1} \cup {2}) = 1 + 1
      BY <1>3, <2>1, <2>2, FS_AddElement
    <2> QED
      BY <2>1, <2>3
  <1>5. S = IF n \in a THEN IF n = 0 THEN {2} ELSE {} ELSE IF n = 0 THEN {1, 2} ELSE {1}
    BY <1>1
  <1> QED
    BY <1>2, <1>3, <1>4, <1>5

LEMMA NegatedIs ==
    ASSUME NEW a, NEW col \in [0 .. 31 -> Nat], \A n \in 0 .. 31 : col[n] = Addends(a, n)
    PROVE  \E carry \in [0 .. 31 -> Nat] :
               Carries(carry, col) /\ Negated(a) = Kept(carry, col)
  <1>1. PICK carry \in [0 .. 31 -> Nat] : Carries(carry, col)
    BY CarriesExist
  <1>2. \A n \in 0 .. 31 : n # 0 => n \in 1 .. 31 /\ n - 1 \in 0 .. 31
    OBVIOUS
  <1>3. \A f : Carries(f, col) <=>
            /\ f[0] = 0
            /\ \A n \in 0 .. 31 :
                   n # 0 => f[n] = (Addends(a, n - 1) + f[n - 1]) \div 2
    <2> TAKE f
    <2>1. \A n \in 0 .. 31 : n # 0 => col[n - 1] = Addends(a, n - 1)
      BY <1>2, Zenon
    <2>2. \A n \in 1 .. 31 : n \in 0 .. 31 /\ n # 0
      OBVIOUS
    <2> QED
      BY <1>2, <2>1, <2>2, Zenon DEF Carries
  <1>4. carry = [n \in 0 .. 31 |->
                    IF n = 0 THEN 0 ELSE (Addends(a, n - 1) + carry[n - 1]) \div 2]
    <2>1. carry = [n \in 0 .. 31 |-> carry[n]]
      OBVIOUS
    <2>2. \A n \in 0 .. 31 :
              carry[n] = IF n = 0 THEN 0 ELSE (Addends(a, n - 1) + carry[n - 1]) \div 2
      BY <1>1, <1>3, Zenon
    <2> QED
      BY <2>1, <2>2, Zenon
  <1>5. \E f :
            /\ f = [n \in 0 .. 31 |->
                       IF n = 0 THEN 0 ELSE (Addends(a, n - 1) + f[n - 1]) \div 2]
            /\ Negated(a) = {n \in 0 .. 31 : (Addends(a, n) + f[n]) % 2 = 1}
    BY <1>4, Zenon DEF Negated, Plus, Carried, Addends
  <1>6. PICK f :
            /\ f = [n \in 0 .. 31 |->
                       IF n = 0 THEN 0 ELSE (Addends(a, n - 1) + f[n - 1]) \div 2]
            /\ Negated(a) = {n \in 0 .. 31 : (Addends(a, n) + f[n]) % 2 = 1}
    BY <1>5
  <1>7. f[0] = 0 /\ f = [n \in 0 .. 31 |-> f[n]]
    <2>1. 0 \in 0 .. 31
      OBVIOUS
    <2>2. f[0] = 0
      BY <1>6, <2>1, Zenon
    <2>3. f = [n \in 0 .. 31 |-> f[n]]
      BY <1>6, Zenon
    <2> QED
      BY <2>2, <2>3
  <1>8. Carries(f, col)
    <2>1. \A n \in 0 .. 31 : n # 0 => f[n] = (Addends(a, n - 1) + f[n - 1]) \div 2
      BY <1>6, Zenon
    <2> QED
      BY <1>3, <1>7, <2>1, Zenon
  <1>9. f \in [0 .. 31 -> Nat]
    BY <1>7, <1>8, CarriesType
  <1>10. Negated(a) = Kept(f, col)
    BY <1>6, Zenon DEF Kept
  <1> QED
    BY <1>8, <1>9, <1>10

LEMMA NumberPositive ==
    ASSUME NEW a \in Word32, NEW k \in a
    PROVE  Lowest(a)[32] > 0
  <1>1. k \in 0 .. 31
    BY DEF Word32
  <1>2. /\ k + 1 \in 1 .. 32 /\ (k + 1) - 1 = k /\ k + 1 \in 0 .. 32 /\ k \in 0 .. 32
        /\ 32 - (k + 1) \in 0 .. 32 - (k + 1) /\ (k + 1) + (32 - (k + 1)) = 32
        /\ 32 - (k + 1) \in 0 .. 32
    BY <1>1
  <1>3. Lowest(a)[k + 1] > 0
    <2>1. Lowest(a)[k] \in Nat /\ Power[k] \in Nat /\ Power[k] > 0
      BY <1>2, LowestIs, PowerIs
    <2>2. Lowest(a)[k + 1] = Lowest(a)[k] + Power[k]
      BY <1>2, LowestIs
    <2> QED
      BY <2>1, <2>2
  <1>4. Lowest(a)[32] =
            Lowest(a)[k + 1]
            + Power[k + 1] * Lowest(ShiftRight(a, k + 1))[32 - (k + 1)]
    BY <1>2, LowestShift, ZenonT(30)
  <1>5. PICK x \in Nat, p \in Nat, y \in Nat :
            /\ x = Lowest(a)[k + 1] /\ p = Power[k + 1]
            /\ y = Lowest(ShiftRight(a, k + 1))[32 - (k + 1)]
    <2>1. Lowest(a)[k + 1] \in Nat /\ Power[k + 1] \in Nat
      BY <1>2, LowestIs, PowerIs
    <2>2. Lowest(ShiftRight(a, k + 1))[32 - (k + 1)] \in Nat
      <3>1. Lowest(ShiftRight(a, k + 1)) \in [0 .. 32 -> Nat]
        BY LowestIs
      <3> QED
        BY <1>2, <3>1
    <2> QED
      BY <2>1, <2>2
  <1>6. p * y \in Nat
    OBVIOUS
  <1> QED
    BY <1>3, <1>4, <1>5, <1>6

(* ~val + 1, which "%d" prints behind the minus sign, is 2^32 - val: never *)
(* zero, and for -2^31, whose complement is itself, no exception           *)
(* (util.c:98-102).                                                        *)
THEOREM NumberOfNegated ==
    ASSUME NEW a \in Word32, a # {}
    PROVE  /\ Negated(a) \in Word32 \ {{}}
           /\ Number(a) + Number(Negated(a)) = Power[32]
  <1> DEFINE col == [n \in 0 .. 31 |-> Addends(a, n)]
  <1> DEFINE sum == [n \in 0 .. 32 |-> IF n = 0 THEN 0 ELSE Power[n] - Lowest(a)[n]]
  <1>1. \A n \in 0 .. 31 :
            col[n] = (IF n \in a THEN 0 ELSE 1) + (IF n = 0 THEN 1 ELSE 0)
    BY AddendsAre
  <1>2. \A n \in 0 .. 31 : col[n] = Addends(a, n)
    OBVIOUS
  <1>3. col \in [0 .. 31 -> Nat]
    <2>1. col = [n \in 0 .. 31 |-> col[n]]
      OBVIOUS
    <2> HIDE DEF col
    <2> QED
      BY <1>1, <2>1
  <1>4. PICK carry \in [0 .. 31 -> Nat] :
            Carries(carry, col) /\ Negated(a) = Kept(carry, col)
    <2> HIDE DEF col
    <2> QED
      BY <1>2, <1>3, NegatedIs, Zenon
  <1> HIDE DEF col
  <1>5. \A n \in 0 .. 32 : Power[n] \in Nat /\ Lowest(a)[n] \in Nat
    BY PowerIs, LowestIs
  <1>6. sum \in [0 .. 32 -> Int] /\ sum[0] = 0
    BY <1>5
  <1>7. ASSUME NEW n \in 1 .. 32
        PROVE  sum[n] = sum[n - 1] + Power[n - 1] * col[n - 1]
    <2>1. n - 1 \in 0 .. 31 /\ n - 1 \in 0 .. 32 /\ n \in 0 .. 32 /\ n # 0
      OBVIOUS
    <2>2. PICK p \in Nat, low \in Nat :
              p = Power[n - 1] /\ low = Lowest(a)[n - 1] /\ Power[n] = 2 * p
      BY <1>5, <2>1, PowerIs
    <2>3. Lowest(a)[n] = low + (IF n - 1 \in a THEN p ELSE 0)
      BY <2>2, LowestIs
    <2>4. sum[n] = 2 * p - Lowest(a)[n]
      BY <2>1, <2>2
    <2>5. CASE n = 1
      <3>1. sum[n - 1] = 0 /\ p = 1 /\ low = 0
        BY <2>2, <2>5, LowestIs, PowerIs
      <3>2. col[n - 1] = (IF n - 1 \in a THEN 0 ELSE 1) + 1
        BY <1>1, <2>1, <2>5
      <3> QED
        BY <2>2, <2>3, <2>4, <3>1, <3>2
    <2>6. CASE n # 1
      <3>1. sum[n - 1] = p - low
        BY <2>1, <2>2, <2>6
      <3>2. col[n - 1] = IF n - 1 \in a THEN 0 ELSE 1
        BY <1>1, <2>1, <2>6
      <3> HIDE DEF sum
      <3>3. CASE n - 1 \in a
        BY <2>2, <2>3, <2>4, <3>1, <3>2, <3>3
      <3>4. CASE n - 1 \notin a
        BY <2>2, <2>3, <2>4, <3>1, <3>2, <3>4
      <3> QED
        BY <3>3, <3>4
    <2> QED
      BY <2>5, <2>6
  <1>8. sum[32] = Power[32] - Lowest(a)[32]
    OBVIOUS
  <1> HIDE DEF sum
  <1>9. PICK c \in Nat : sum[32] = Power[32] * c + Lowest(Negated(a))[32]
    <2>1. \A n \in 0 .. 31 : n \in Kept(carry, col) <=> (col[n] + carry[n]) % 2 = 1
      BY DEF Kept
    <2>2. carry[0] = 0 /\ \A n \in 1 .. 31 : carry[n] = (col[n - 1] + carry[n - 1]) \div 2
      BY <1>4 DEF Carries
    <2>3. \E c \in Nat : sum[32] = Power[32] * c + Lowest(Kept(carry, col))[32]
      <3> HIDE DEF Kept
      <3> QED
        BY <1>3, <1>4, <1>6, <1>7, <2>1, <2>2, CarriesKeepSum, ZenonT(60)
    <2> QED
      BY <1>4, <2>3
  <1>10. PICK p \in Nat, x \in Nat, y \in Nat :
             /\ p = Power[32] /\ x = Lowest(a)[32] /\ y = Lowest(Negated(a))[32]
             /\ x > 0 /\ x < p /\ y < p
    <2>1. 32 \in 0 .. 32
      OBVIOUS
    <2>2. Lowest(a)[32] < Power[32] /\ Lowest(Negated(a))[32] < Power[32]
      BY <2>1, LowestBound
    <2>3. Lowest(a)[32] > 0
      BY NumberPositive
    <2>4. Lowest(Negated(a))[32] \in Nat
      <3>1. Lowest(Negated(a)) \in [0 .. 32 -> Nat]
        BY LowestIs
      <3> QED
        BY <2>1, <3>1
    <2> QED
      BY <1>5, <2>1, <2>2, <2>3, <2>4
  <1>11. p - x = p * c + y
    BY <1>8, <1>9, <1>10
  <1>12. c = 0
    <2>1. CASE c >= 1
      <3>1. PICK d \in Nat : c = 1 + d
        BY <2>1
      <3>2. p * c = p + p * d /\ p * d \in Nat
        BY <3>1
      <3> QED
        BY <1>10, <1>11, <3>2
    <2> QED
      BY <2>1
  <1>13. x + y = p
    BY <1>10, <1>11, <1>12
  <1>14. Number(a) = x /\ Number(Negated(a)) = y
    BY <1>10, NumberIsLowest
  <1>15. Negated(a) \in Word32
    BY <1>4 DEF Kept, Word32
  <1>16. Negated(a) # {}
    <2>1. SUFFICES ASSUME Negated(a) = {} PROVE FALSE
      OBVIOUS
    <2>2. y = 0
      <3>1. {} \in Word32 /\ 0 \in 0 .. 32 /\ \A b \in {} : b < 0
        BY DEF Word32
      <3>2. Lowest({})[32] = Lowest({})[0] /\ Lowest({})[0] = 0
        BY <3>1, LowestEnds, LowestIs
      <3> QED
        BY <1>10, <2>1, <3>2
    <2> QED
      BY <1>10, <1>13, <2>2
  <1> QED
    BY <1>10, <1>13, <1>14, <1>15, <1>16

-----------------------------------------------------------------------------
(* The lengths of the parts of a message.                                  *)

LEMMA MagnitudeIs ==
    ASSUME NEW number \in Numbers
    PROVE  /\ Magnitude(number) \in Word32
           /\ number.val = {} => Magnitude(number) = {}
           /\ number.val # {} => Magnitude(number) # {}
  <1>1. number.val \in Word32
    BY MessageAssumption
  <1>2. CASE Negative(number)
    <2>1. 31 \in number.val
      BY <1>2 DEF Negative
    <2>2. Negated(number.val) \in Word32 \ {{}}
      BY <1>1, <2>1, NumberOfNegated
    <2> QED
      BY <1>2, <2>1, <2>2 DEF Magnitude
  <1>3. CASE ~Negative(number)
    BY <1>1, <1>3 DEF Magnitude
  <1> QED
    BY <1>2, <1>3

LEMMA HighestBit ==
    ASSUME NEW w \in Word32, w # {}
    PROVE  \E h \in w : \A b \in w : b <= h
  <1>1. w \in SUBSET (0 .. 31) /\ 31 \in Nat
    BY DEF Word32
  <1>2. Max(w) \in w /\ \A b \in w : b <= Max(w)
    BY <1>1, GreatestNat
  <1> QED
    BY <1>2

(* The digits of a number reach its highest bit and not beyond it.         *)
LEMMA DigitsAre ==
    ASSUME NEW number \in Numbers
    PROVE  /\ HexDigits[number] \in 1 .. 8
           /\ \A b \in Magnitude(number) : b < 4 * HexDigits[number]
           /\ HexDigits[number] > 1 =>
                  \E b \in Magnitude(number) : b >= 4 * (HexDigits[number] - 1)
  <1>1. CASE number.val = {}
    <2>1. HexDigits[number] = 1 /\ Magnitude(number) = {}
      BY <1>1, MagnitudeIs DEF HexDigits
    <2> QED
      BY <2>1
  <1>2. CASE number.val # {}
    <2>1. Magnitude(number) \in Word32 /\ Magnitude(number) # {}
      BY <1>2, MagnitudeIs
    <2>2. PICK h \in Magnitude(number) : \A b \in Magnitude(number) : b <= h
      BY <2>1, HighestBit
    <2>3. h \in 0 .. 31 /\ util_log2(Magnitude(number)) = h
      BY <2>1, <2>2, Log2IsHighest
    <2>4. HexDigits[number] = h \div 4 + 1
      BY <1>2, <2>3 DEF HexDigits
    <2>5. h \div 4 \in 0 .. 7 /\ h < 4 * (h \div 4 + 1) /\ h >= 4 * (h \div 4)
      BY <2>3
    <2>6. \A b \in Magnitude(number) : b \in 0 .. 31
      BY <2>1 DEF Word32
    <2>7. PICK d \in 0 .. 7 : d = h \div 4
      BY <2>5
    <2>8. \A b \in Magnitude(number) : b < 4 * (d + 1)
      BY <2>2, <2>3, <2>5, <2>6, <2>7
    <2>9. h >= 4 * ((d + 1) - 1)
      BY <2>5, <2>7
    <2> QED
      BY <2>2, <2>4, <2>7, <2>8, <2>9
  <1> QED
    BY <1>1, <1>2

(* A number takes nine cells at most.                                      *)
LEMMA NumberFits ==
    ASSUME NEW number \in Numbers, number # Char
    PROVE  Length[number] \in 1 .. 9
  <1>1. PICK h \in 1 .. 8 : h = HexDigits[number]
    BY DigitsAre
  <1>2. PICK m \in Nat : m = Min({number.zero_pad, 8}) /\ m <= 8
    <2>1. number.zero_pad \in Nat /\ 8 \in Nat
      BY MessageAssumption
    <2>2. PICK pad \in Nat : pad = number.zero_pad
      BY <2>1
    <2>3. Min({pad, 8}) \in {pad, 8} /\ Min({pad, 8}) <= 8
      BY <2>1, MinOfTwo
    <2> QED
      BY <2>2, <2>3
  <1>3. PICK x : x = Max({h, m})
    OBVIOUS
  <1>4. x \in 1 .. 8
    <2>1. x \in {h, m} /\ h <= x
      BY <1>1, <1>2, <1>3, MaxOfTwo
    <2> QED
      BY <1>1, <1>2, <2>1
  <1>5. Length[number] = x + (IF Negative(number) THEN 1 ELSE 0)
    BY <1>1, <1>2, <1>3 DEF Length
  <1> QED
    BY <1>4, <1>5

LEMMA LengthType == Length \in [Numbers \cup {Char} -> Nat \ {0}]
  <1>1. \A part \in Numbers : part # Char => Length[part] \in Nat \ {0}
    BY NumberFits
  <1>2. Length[Char] = 1
    BY DEF Length
  <1>3. \A part \in Numbers \cup {Char} : Length[part] \in Nat \ {0}
    BY <1>1, <1>2
  <1> QED
    BY <1>3 DEF Length

(* The recursive function UpTo is.                                         *)
LEMMA UpToIs ==
    ASSUME NEW message \in Seq(Numbers \cup {Char})
    PROVE  /\ UpTo(message)[0] = 0
           /\ \A n \in 1 .. Len(message) :
                  UpTo(message)[n] = UpTo(message)[n - 1] + Length[message[n]]
           /\ \A n \in 0 .. Len(message) : UpTo(message)[n] \in Nat
  <1> DEFINE L == Len(message)
  <1> DEFINE step == [n \in 1 .. L |-> [v \in Nat |-> v + Length[message[n]]]]
  <1>1. L \in Nat
    OBVIOUS
  <1>2. step \in [1 .. L -> [Nat -> Nat]]
    <2>1. \A n \in 1 .. L : Length[message[n]] \in Nat
      BY LengthType
    <2> QED
      BY <2>1
  <1>3. PICK f \in [0 .. L -> Nat] : f[0] = 0 /\ \A n \in 1 .. L : f[n] = step[n][f[n - 1]]
    <2> HIDE DEF step, L
    <2>1. 0 \in Nat
      OBVIOUS
    <2> QED
      BY <1>1, <1>2, <2>1, RecursionOnNumbers, ZenonT(30)
  <1>4. f = [n \in 0 .. L |-> IF n = 0 THEN 0 ELSE f[n - 1] + Length[message[n]]]
    <2>1. ASSUME NEW n \in 1 .. L
          PROVE  f[n] = f[n - 1] + Length[message[n]]
      <3>1. n - 1 \in 0 .. L /\ f[n - 1] \in Nat
        BY <1>1, <1>3
      <3>2. step[n][f[n - 1]] = f[n - 1] + Length[message[n]]
        BY <3>1
      <3> QED
        BY <1>3, <3>2
    <2>2. \A n \in 0 .. L : f[n] = IF n = 0 THEN 0 ELSE f[n - 1] + Length[message[n]]
      BY <1>1, <1>3, <2>1
    <2> QED
      BY <1>3, <2>2
  <1>5. \E cells :
            /\ cells = [n \in 0 .. L |->
                           IF n = 0 THEN 0 ELSE cells[n - 1] + Length[message[n]]]
            /\ UpTo(message) = cells
    BY <1>4, Zenon DEF UpTo
  <1>6. PICK cells :
            /\ cells = [n \in 0 .. L |->
                           IF n = 0 THEN 0 ELSE cells[n - 1] + Length[message[n]]]
            /\ UpTo(message) = cells
    BY <1>5
  <1>7. cells[0] = 0
    BY <1>1, <1>6
  <1>8. \A n \in 1 .. L : cells[n] = cells[n - 1] + Length[message[n]]
    BY <1>1, <1>6
  <1> DEFINE T == {n \in 0 .. L : cells[n] \in Nat}
  <1>9. \A n \in 0 .. L : n \in T
    <2>1. 0 \in T
      BY <1>1, <1>7
    <2>2. ASSUME NEW n \in 1 .. L, n - 1 \in T
          PROVE  n \in T
      <3>1. Length[message[n]] \in Nat
        BY LengthType
      <3> QED
        BY <1>8, <2>2, <3>1
    <2> HIDE DEF T
    <2> QED
      BY <1>1, <2>1, <2>2, InductionUpTo
  <1> QED
    BY <1>6, <1>7, <1>8, <1>9

(* What the interrupt prints ends inside the buffer, with a cell left over *)
(* for the terminator.                                                     *)
LEMMA PlacedFits ==
    ASSUME NEW message \in UsbMessages
    PROVE  Placed[message] \in 0 .. BUF_LEN - 2
  <1> DEFINE L == Len(message)
  <1> DEFINE S == {n \in 0 .. L :
                      \A k \in 1 .. n : Fits(UpTo(message)[k - 1], Length[message[k]])}
  <1>1. message \in Seq(Numbers \cup {Char})
    BY MessageAssumption
  <1>2. L \in Nat
    BY <1>1
  <1>3. Placed[message] = UpTo(message)[Max(S)]
    BY DEF Placed
  <1>4. 0 \in S
    BY <1>2
  <1>5. S \in SUBSET (0 .. L) /\ S # {}
    BY <1>4
  <1>6. Max(S) \in S
    <2> HIDE DEF S, L
    <2> QED
      BY <1>2, <1>5, GreatestNat
  <1>7. PICK m \in S : m = Max(S)
    BY <1>6
  <1>8. BUF_LEN \in Nat /\ BUF_LEN >= 2
    BY BufferAssumption
  <1>9. CASE m = 0
    BY <1>1, <1>3, <1>7, <1>8, <1>9, UpToIs
  <1>10. CASE m # 0
    <2>1. m \in 1 .. L /\ m - 1 \in 0 .. L
      BY <1>2, <1>7, <1>10
    <2>2. Fits(UpTo(message)[m - 1], Length[message[m]])
      BY <1>7, <2>1
    <2>3. /\ UpTo(message)[m] = UpTo(message)[m - 1] + Length[message[m]]
          /\ UpTo(message)[m] \in Nat
      BY <1>1, <2>1, UpToIs
    <2>4. UpTo(message)[m - 1] + Length[message[m]] < BUF_LEN - 1
      BY <2>2 DEF Fits
    <2>5. PICK x \in Nat, y \in Nat :
              x = UpTo(message)[m] /\ y = UpTo(message)[m - 1] + Length[message[m]]
      BY <2>3
    <2>6. x < BUF_LEN - 1
      BY <2>3, <2>4, <2>5
    <2>7. Placed[message] = x
      BY <1>3, <1>7, <2>5
    <2> QED
      BY <1>8, <2>6, <2>7
  <1> QED
    BY <1>9, <1>10

-----------------------------------------------------------------------------
(* The inductive invariant.  InsideBuffer leaves room for the terminator   *)
(* where the main loop writes the text, and TerminatorAhead only speaks of *)
(* the printing: what makes the next Terminate land in the buffer is that  *)
(* the text ends two cells before the end of it.                           *)

ConsoleType ==
    /\ printf_buf \in [0 .. BUF_LEN - 1 -> {"nul", "text"}]
    /\ at \in {"idle", "format", "copy", "print"}
    /\ fmt \in Seq(Numbers \cup {Char})
    /\ size \in Nat /\ left \in Nat /\ buf \in Nat

RoomLeft ==
    /\ at \in {"format", "copy"} => size + left <= BUF_LEN - 2
    /\ at # "copy" => left = 0
    /\ at = "copy" => left > 0

ConsoleInv == ConsoleType /\ RoomLeft /\ TerminatorAhead

LEMMA ConsoleBegins == ConsoleInit => ConsoleInv
  <1> SUFFICES ASSUME ConsoleInit PROVE ConsoleInv
    OBVIOUS
  <1>1. BUF_LEN \in Nat /\ BUF_LEN >= 2
    BY BufferAssumption
  <1>2. <<>> \in Seq(Numbers \cup {Char})
    OBVIOUS
  <1>3. printf_buf \in [0 .. BUF_LEN - 1 -> {"nul", "text"}]
    BY DEF ConsoleInit
  <1> QED
    BY <1>1, <1>2, <1>3 DEF ConsoleInit, ConsoleInv, ConsoleType, RoomLeft, TerminatorAhead

(* A cell of the buffer that is written holds what was put there, and the  *)
(* others keep what they held.                                             *)
LEMMA PutIs ==
    ASSUME NEW mem \in [0 .. BUF_LEN - 1 -> {"nul", "text"}],
           NEW k \in 0 .. BUF_LEN - 1, NEW char \in {"nul", "text"}
    PROVE  /\ Put(mem, k, char) \in [0 .. BUF_LEN - 1 -> {"nul", "text"}]
           /\ Put(mem, k, char)[k] = char
           /\ \A c \in 0 .. BUF_LEN - 1 : c # k => Put(mem, k, char)[c] = mem[c]
  BY DEF Put

LEMMA CallPrintfKeeps == ConsoleInv /\ CallPrintf => ConsoleInv'
  <1> SUFFICES ASSUME ConsoleInv, CallPrintf PROVE ConsoleInv'
    OBVIOUS
  <1>1. BUF_LEN \in Nat /\ BUF_LEN >= 2
    BY BufferAssumption
  <1>2. fmt' \in Seq(Numbers \cup {Char})
    BY MessageAssumption DEF CallPrintf
  <1>3. /\ at = "idle" /\ at' = "format" /\ size' = 0
        /\ left' = left /\ buf' = buf /\ printf_buf' = printf_buf
    BY DEF CallPrintf
  <1> QED
    BY <1>1, <1>2, <1>3 DEF ConsoleInv, ConsoleType, RoomLeft, TerminatorAhead

LEMMA FormatPartKeeps == ConsoleInv /\ FormatPart => ConsoleInv'
  <1> SUFFICES ASSUME ConsoleInv, FormatPart PROVE ConsoleInv'
    OBVIOUS
  <1>1. BUF_LEN \in Nat /\ BUF_LEN >= 2
    BY BufferAssumption
  <1>2. Head(fmt) \in Numbers \cup {Char} /\ Tail(fmt) \in Seq(Numbers \cup {Char})
    BY DEF ConsoleInv, ConsoleType, FormatPart
  <1>3. Length[Head(fmt)] \in Nat \ {0}
    BY <1>2, LengthType
  <1>4. /\ at = "format" /\ size' = size /\ buf' = buf /\ printf_buf' = printf_buf
        /\ size \in Nat
    BY DEF FormatPart, ConsoleInv, ConsoleType
  <1>5. CASE Fits(size, Length[Head(fmt)])
    <2>1. at' = "copy" /\ left' = Length[Head(fmt)] /\ fmt' = Tail(fmt)
      BY <1>5 DEF FormatPart
    <2>2. size' + left' <= BUF_LEN - 2
      BY <1>1, <1>3, <1>4, <1>5, <2>1 DEF Fits
    <2> QED
      BY <1>2, <1>3, <1>4, <2>1, <2>2
      DEF ConsoleInv, ConsoleType, RoomLeft, TerminatorAhead
  <1>6. CASE ~Fits(size, Length[Head(fmt)])
    <2>1. fmt' = <<>> /\ at' = at /\ left' = left
      BY <1>6 DEF FormatPart
    <2> QED
      BY <1>4, <2>1 DEF ConsoleInv, ConsoleType, RoomLeft, TerminatorAhead
  <1> QED
    BY <1>5, <1>6

LEMMA CopyCellKeeps == ConsoleInv /\ CopyCell => ConsoleInv'
  <1> SUFFICES ASSUME ConsoleInv, CopyCell PROVE ConsoleInv'
    OBVIOUS
  <1>1. BUF_LEN \in Nat /\ BUF_LEN >= 2
    BY BufferAssumption
  <1>2. /\ at = "copy" /\ size \in Nat /\ left \in Nat /\ left > 0
        /\ size + left <= BUF_LEN - 2
        /\ printf_buf \in [0 .. BUF_LEN - 1 -> {"nul", "text"}]
    BY DEF ConsoleInv, ConsoleType, RoomLeft, CopyCell
  <1>3. printf_buf' \in [0 .. BUF_LEN - 1 -> {"nul", "text"}]
    <2>1. size \in 0 .. BUF_LEN - 1
      BY <1>1, <1>2
    <2> QED
      BY <1>2, <2>1, PutIs DEF CopyCell
  <1>4. /\ size' = size + 1 /\ left' = left - 1 /\ fmt' = fmt /\ buf' = buf
        /\ at' = IF left = 1 THEN "format" ELSE "copy"
    BY DEF CopyCell
  <1>5. /\ size' + left' <= BUF_LEN - 2 /\ size' \in Nat /\ left' \in Nat
        /\ (at' = "format" => left' = 0) /\ (at' = "copy" => left' > 0)
        /\ at' \in {"format", "copy"}
    BY <1>1, <1>2, <1>4
  <1> QED
    BY <1>3, <1>4, <1>5 DEF ConsoleInv, ConsoleType, RoomLeft, TerminatorAhead

LEMMA TerminateKeeps == ConsoleInv /\ Terminate => ConsoleInv'
  <1> SUFFICES ASSUME ConsoleInv, Terminate PROVE ConsoleInv'
    OBVIOUS
  <1>1. BUF_LEN \in Nat /\ BUF_LEN >= 2
    BY BufferAssumption
  <1>2. /\ at = "format" /\ size \in Nat /\ size + left <= BUF_LEN - 2 /\ left = 0
        /\ printf_buf \in [0 .. BUF_LEN - 1 -> {"nul", "text"}]
    BY DEF ConsoleInv, ConsoleType, RoomLeft, Terminate
  <1>3. size \in 0 .. BUF_LEN - 1
    BY <1>1, <1>2
  <1>4. /\ printf_buf' \in [0 .. BUF_LEN - 1 -> {"nul", "text"}]
        /\ printf_buf'[size] = "nul"
    BY <1>2, <1>3, PutIs DEF Terminate, Terminated
  <1>5. at' = "print" /\ buf' = 0 /\ fmt' = fmt /\ size' = size /\ left' = left
    BY DEF Terminate
  <1>6. TerminatorAhead'
    BY <1>3, <1>4, <1>5 DEF TerminatorAhead
  <1> QED
    BY <1>2, <1>4, <1>5, <1>6 DEF ConsoleInv, ConsoleType, RoomLeft

LEMMA PrintCellKeeps == ConsoleInv /\ PrintCell => ConsoleInv'
  <1> SUFFICES ASSUME ConsoleInv, PrintCell PROVE ConsoleInv'
    OBVIOUS
  <1>1. BUF_LEN \in Nat /\ BUF_LEN >= 2
    BY BufferAssumption
  <1>2. /\ at = "print" /\ buf \in Nat
        /\ printf_buf' = printf_buf /\ fmt' = fmt /\ size' = size /\ left' = left
    BY DEF PrintCell, ConsoleInv, ConsoleType
  <1>3. PICK k \in buf .. BUF_LEN - 1 : printf_buf[k] = "nul"
    BY <1>2 DEF ConsoleInv, TerminatorAhead
  <1>4. CASE printf_buf[buf] = "nul"
    <2>1. at' = "idle" /\ buf' = buf
      BY <1>4 DEF PrintCell
    <2> QED
      BY <1>2, <2>1 DEF ConsoleInv, ConsoleType, RoomLeft, TerminatorAhead
  <1>5. CASE printf_buf[buf] # "nul"
    <2>1. at' = "print" /\ buf' = buf + 1
      BY <1>2, <1>5 DEF PrintCell
    <2>2. k \in buf + 1 .. BUF_LEN - 1
      BY <1>1, <1>2, <1>3, <1>5
    <2>3. TerminatorAhead'
      BY <1>2, <1>3, <2>1, <2>2 DEF TerminatorAhead
    <2> QED
      BY <1>2, <2>1, <2>3 DEF ConsoleInv, ConsoleType, RoomLeft
  <1> QED
    BY <1>4, <1>5

(* The interrupt ends its text with a terminator.  Where the main loop is  *)
(* printing behind that place its own terminator is behind it too, and the *)
(* interrupt has not touched it.                                           *)
LEMMA UsbPrintsKeeps == ConsoleInv /\ UsbPrints => ConsoleInv'
  <1> SUFFICES ASSUME ConsoleInv, UsbPrints PROVE ConsoleInv'
    OBVIOUS
  <1>1. BUF_LEN \in Nat /\ BUF_LEN >= 2
    BY BufferAssumption
  <1>2. /\ at' = at /\ fmt' = fmt /\ size' = size /\ left' = left /\ buf' = buf
        /\ buf \in Nat /\ printf_buf \in [0 .. BUF_LEN - 1 -> {"nul", "text"}]
    BY DEF UsbPrints, InterruptedBuf, ConsoleInv, ConsoleType
  <1>3. PICK message \in UsbMessages :
            printf_buf' = Terminated([k \in 0 .. BUF_LEN - 1 |->
                              IF k < Placed[message] THEN "text" ELSE printf_buf[k]],
                              Placed[message])
    BY DEF UsbPrints
  <1>4. PICK n \in 0 .. BUF_LEN - 2 : n = Placed[message]
    BY PlacedFits
  <1> DEFINE over == [k \in 0 .. BUF_LEN - 1 |-> IF k < n THEN "text" ELSE printf_buf[k]]
  <1>5. /\ over \in [0 .. BUF_LEN - 1 -> {"nul", "text"}]
        /\ \A k \in 0 .. BUF_LEN - 1 : k >= n => over[k] = printf_buf[k]
    BY <1>1, <1>2
  <1>6. printf_buf' = Put(over, n, "nul")
    BY <1>3, <1>4 DEF Terminated
  <1>7. n \in 0 .. BUF_LEN - 1
    BY <1>1
  <1> HIDE DEF over
  <1>8. /\ printf_buf' \in [0 .. BUF_LEN - 1 -> {"nul", "text"}]
        /\ printf_buf'[n] = "nul"
        /\ \A c \in 0 .. BUF_LEN - 1 : c > n => printf_buf'[c] = printf_buf[c]
    <2>1. PICK mem \in [0 .. BUF_LEN - 1 -> {"nul", "text"}] : mem = over
      BY <1>5
    <2>2. /\ Put(mem, n, "nul") \in [0 .. BUF_LEN - 1 -> {"nul", "text"}]
          /\ Put(mem, n, "nul")[n] = "nul"
          /\ \A c \in 0 .. BUF_LEN - 1 : c # n => Put(mem, n, "nul")[c] = mem[c]
      <3>1. "nul" \in {"nul", "text"}
        OBVIOUS
      <3> QED
        BY <1>7, <3>1, PutIs, ZenonT(30)
    <2>3. \A c \in 0 .. BUF_LEN - 1 : c > n => c # n /\ c >= n
      BY <1>1
    <2> QED
      BY <1>5, <1>6, <2>1, <2>2, <2>3
  <1>9. ASSUME at = "print"
        PROVE  \E k \in buf .. BUF_LEN - 1 : printf_buf'[k] = "nul"
    <2>1. PICK k \in buf .. BUF_LEN - 1 : printf_buf[k] = "nul"
      BY <1>9 DEF ConsoleInv, TerminatorAhead
    <2>2. k \in 0 .. BUF_LEN - 1
      BY <1>1, <1>2
    <2>3. CASE k > n
      BY <1>8, <2>1, <2>2, <2>3
    <2>4. CASE k <= n
      <3>1. n \in buf .. BUF_LEN - 1
        BY <1>1, <1>2, <1>7, <2>4
      <3> QED
        BY <1>8, <3>1
    <2> QED
      BY <1>1, <1>7, <2>2, <2>3, <2>4
  <1>10. TerminatorAhead'
    BY <1>2, <1>9 DEF TerminatorAhead
  <1> QED
    BY <1>2, <1>8, <1>10 DEF ConsoleInv, ConsoleType, RoomLeft

LEMMA ConsoleKeeps == ConsoleInv /\ [ConsoleNext]_consoleVars => ConsoleInv'
  <1> SUFFICES ASSUME ConsoleInv, [ConsoleNext]_consoleVars PROVE ConsoleInv'
    OBVIOUS
  <1>1. CASE CallPrintf
    BY <1>1, CallPrintfKeeps
  <1>2. CASE FormatPart
    BY <1>2, FormatPartKeeps
  <1>3. CASE CopyCell
    BY <1>3, CopyCellKeeps
  <1>4. CASE Terminate
    BY <1>4, TerminateKeeps
  <1>5. CASE PrintCell
    BY <1>5, PrintCellKeeps
  <1>6. CASE UsbPrints
    BY <1>6, UsbPrintsKeeps
  <1>7. CASE UNCHANGED consoleVars
    BY <1>7 DEF consoleVars, ConsoleInv, ConsoleType, RoomLeft, TerminatorAhead
  <1> QED
    BY Zenon, <1>1, <1>2, <1>3, <1>4, <1>5, <1>6, <1>7 DEF ConsoleNext, MainPrints

LEMMA ConsoleInvariant == ConsoleSpec => []ConsoleInv
  BY ConsoleBegins, ConsoleKeeps, PTL DEF ConsoleSpec

LEMMA RoomIsInside == ConsoleInv => InsideBuffer
  <1> SUFFICES ASSUME ConsoleInv PROVE InsideBuffer
    OBVIOUS
  <1>1. BUF_LEN \in Nat /\ buf \in Nat /\ size \in Nat /\ left \in Nat
    BY BufferAssumption DEF ConsoleInv, ConsoleType
  <1>2. at \in {"format", "copy"} => size + left < BUF_LEN
    BY <1>1 DEF ConsoleInv, RoomLeft
  <1>3. ASSUME at = "print" PROVE buf < BUF_LEN
    <2>1. PICK k \in buf .. BUF_LEN - 1 : printf_buf[k] = "nul"
      BY <1>3 DEF ConsoleInv, TerminatorAhead
    <2> QED
      BY <1>1
  <1> QED
    BY <1>2, <1>3 DEF InsideBuffer

(* The text and its terminator stay in the buffer (util.c:32-157): for     *)
(* every buffer of two cells and more, every message, and however often    *)
(* the interrupt prints over what the main loop is writing or printing.    *)
THEOREM InsideBufferCorrect == ConsoleSpec => []InsideBuffer
  BY ConsoleInvariant, RoomIsInside, PTL

(* The loop of util_printf always has a terminator ahead of it, whoever    *)
(* has written it (device util.c:17-31): the loop never reads past the     *)
(* buffer, although nothing locks the buffer against the interrupt.        *)
THEOREM TerminatorAheadCorrect == ConsoleSpec => []TerminatorAhead
  BY ConsoleInvariant, PTL DEF ConsoleInv

LEMMA PartsAreWhole == ConsoleInv => NumbersWhole
  <1> SUFFICES ASSUME ConsoleInv PROVE NumbersWhole
    OBVIOUS
  <1>1. ASSUME NEW number \in Range(fmt) \ {Char}
        PROVE  /\ \A b \in Magnitude(number) : b < 4 * HexDigits[number]
               /\ HexDigits[number] > 1 =>
                      \E b \in Magnitude(number) : b >= 4 * (HexDigits[number] - 1)
               /\ Length[number] < 20
    <2>1. fmt \in Seq(Numbers \cup {Char})
      BY DEF ConsoleInv, ConsoleType
    <2>2. number \in Numbers /\ number # Char
      BY <2>1 DEF Range
    <2>3. Length[number] \in 1 .. 9
      BY <2>2, NumberFits
    <2> QED
      BY <2>2, <2>3, DigitsAre
  <1> QED
    BY <1>1 DEF NumbersWhole

(* Every number is printed with all its digits (util.c:14-22, 115-140):    *)
(* the division of its highest bit by four gives the highest digit that is *)
(* not 0, for each of the 2^32 values and for a negative one as well, and  *)
(* what is written with the sign and the padding never fills int_buf.      *)
THEOREM NumbersWholeCorrect == ConsoleSpec => []NumbersWhole
  BY ConsoleInvariant, PartsAreWhole, PTL

=============================================================================
