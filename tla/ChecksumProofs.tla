---------------------------- MODULE ChecksumProofs ----------------------------
(***************************************************************************)
(* Theorems about the checksum, for images of every length and content and *)
(* every place of the checksum in them: the shift register of util_crc32,  *)
(* run over the three parts of an image, computes the remainder of the     *)
(* division of polynomials, and damage to no more than four bytes in a row *)
(* is seen.                                                                *)
(***************************************************************************)
EXTENDS Checksum, Recursion, SequenceTheorems

-----------------------------------------------------------------------------
(* The shift register.                                                     *)

Turned(w) == Xor(ShiftRight(w, 1), IF 0 \in w THEN UTIL_CRC32_POLY ELSE {})

LEMMA XorIs == \A a, b, e : e \in Xor(a, b) <=> ~(e \in a <=> e \in b)
  BY DEF Xor

LEMMA ComplementIs ==
    ASSUME NEW w \in Word32
    PROVE  Complement(w) \in Word32 /\ Complement(Complement(w)) = w
  BY DEF Complement, Word32

LEMMA TurnedIs ==
    ASSUME NEW w \in Word32
    PROVE  /\ Turned(w) \in Word32
           /\ \A b \in Nat :
                  b \in Turned(w) <=> ~(b + 1 \in w <=> 0 \in w /\ b \in UTIL_CRC32_POLY)
  <1> DEFINE p == IF 0 \in w THEN UTIL_CRC32_POLY ELSE {}
  <1>1. \A b \in Nat : b \in ShiftRight(w, 1) <=> b + 1 \in w
    <2>1. ASSUME NEW b \in Nat, b \in ShiftRight(w, 1)
          PROVE  b + 1 \in w
      BY <2>1 DEF ShiftRight, Word32
    <2>2. ASSUME NEW b \in Nat, b + 1 \in w
          PROVE  b \in ShiftRight(w, 1)
      <3>1. b + 1 \in {x \in w : x >= 1} /\ (b + 1) - 1 = b
        BY <2>2
      <3> QED
        BY <3>1 DEF ShiftRight
    <2> QED
      BY <2>1, <2>2
  <1>2. ShiftRight(w, 1) \in Word32
    BY DEF ShiftRight, Word32
  <1>3. p \in Word32 /\ \A b : b \in p <=> 0 \in w /\ b \in UTIL_CRC32_POLY
    BY DEF UTIL_CRC32_POLY, Word32
  <1> HIDE DEF p
  <1>4. Xor(ShiftRight(w, 1), p) \in Word32
    BY <1>2, <1>3 DEF Xor, Word32
  <1>5. \A b \in Nat : b \in Xor(ShiftRight(w, 1), p)
                       <=> ~(b + 1 \in w <=> 0 \in w /\ b \in UTIL_CRC32_POLY)
    BY <1>1, <1>3, XorIs
  <1>6. Turned(w) = Xor(ShiftRight(w, 1), p)
    BY DEF Turned, p
  <1> QED
    BY <1>4, <1>5, <1>6

(* The inner loop of util_crc32 is eight turns.                            *)
LEMMA EightShiftsIs ==
    ASSUME NEW w \in Word32
    PROVE  \E turn \in [0 .. 8 -> Word32] :
               /\ turn[0] = w
               /\ \A j \in 1 .. 8 : turn[j] = Turned(turn[j - 1])
               /\ EightShifts(w) = turn[8]
  <1> DEFINE step == [j \in 1 .. 8 |-> [v \in Word32 |-> Turned(v)]]
  <1>1. step \in [1 .. 8 -> [Word32 -> Word32]]
    BY TurnedIs
  <1>2. Reached(Word32, w, step, 8)
    <2> HIDE DEF step
    <2>1. 8 \in Nat
      OBVIOUS
    <2> QED
      BY <1>1, <2>1, RecursionDefined
  <1>3. PICK f \in [0 .. 8 -> Word32] :
            f[0] = w /\ \A j \in 1 .. 8 : f[j] = step[j][f[j - 1]]
    BY <1>2, Zenon DEF Reached, Follows
  <1>4. \A j \in 1 .. 8 : f[j] = Turned(f[j - 1])
    BY <1>3
  <1>5. \A j \in 0 .. 8 : f[j] = IF j = 0 THEN w ELSE Turned(f[j - 1])
    BY <1>3, <1>4
  <1>6. f = [j \in 0 .. 8 |-> IF j = 0 THEN w ELSE Turned(f[j - 1])]
    BY <1>3, <1>5
  <1>7. \E turn : /\ turn = [j \in 0 .. 8 |-> IF j = 0 THEN w ELSE Turned(turn[j - 1])]
                  /\ EightShifts(w) = turn[8]
    BY <1>6, Zenon DEF EightShifts, Turned
  <1>8. PICK turn : /\ turn = [j \in 0 .. 8 |-> IF j = 0 THEN w ELSE Turned(turn[j - 1])]
                    /\ EightShifts(w) = turn[8]
    BY <1>7
  <1>9. turn[0] = w /\ \A j \in 1 .. 8 : turn[j] = Turned(turn[j - 1])
    BY <1>8
  <1>10. \A j \in 0 .. 8 : j \in {k \in 0 .. 8 : turn[k] \in Word32}
    <2> DEFINE T == {k \in 0 .. 8 : turn[k] \in Word32}
    <2>1. 0 \in T
      BY <1>9
    <2>2. ASSUME NEW j \in 1 .. 8, j - 1 \in T
          PROVE  j \in T
      BY <1>9, <2>2, TurnedIs
    <2> HIDE DEF T
    <2>3. 8 \in Nat
      OBVIOUS
    <2>4. \A j \in 0 .. 8 : j \in T
      BY <2>1, <2>2, <2>3, InductionUpTo
    <2> QED
      BY <2>4 DEF T
  <1>11. turn \in [0 .. 8 -> Word32]
    BY <1>8, <1>10
  <1> QED
    BY <1>8, <1>9, <1>11

-----------------------------------------------------------------------------
(* The division.                                                           *)

High(bytes) == 8 * Len(bytes) + 31

(* The exponents of what comes after the first k bytes.                    *)
OnesFrom(bytes, k) ==
    {e \in Int : \E n \in k + 1 .. Len(bytes) : High(bytes) - 8 * (n - 1) - e \in bytes[n]}

Multiple(n) == {e + n - 32 : e \in Generator}

IsDivision(bytes, rest) ==
    /\ rest \in [32 .. High(bytes) + 1 -> SUBSET Int]
    /\ rest[High(bytes) + 1] =
           Xor(OnesFrom(bytes, 0), High(bytes) - 31 .. High(bytes))
    /\ \A n \in 32 .. High(bytes) : rest[n] = Divided(rest[n + 1], n)

LEMMA MultipleIs ==
    ASSUME NEW n \in Int, NEW e \in Int
    PROVE  e \in Multiple(n) <=> e - n + 32 \in Generator
  <1>1. ASSUME e \in Multiple(n)
        PROVE  e - n + 32 \in Generator
    <2>1. PICK g \in Generator : e = g + n - 32
      BY <1>1 DEF Multiple
    <2>2. g \in Int
      BY DEF Generator
    <2>3. e - n + 32 = g
      BY <2>1, <2>2
    <2> QED
      BY <2>3
  <1>2. ASSUME e - n + 32 \in Generator
        PROVE  e \in Multiple(n)
    <2>1. e = (e - n + 32) + n - 32
      OBVIOUS
    <2> QED
      BY <1>2, <2>1 DEF Multiple
  <1> QED
    BY <1>1, <1>2

LEMMA MultipleSubset ==
    ASSUME NEW n \in Int
    PROVE  Multiple(n) \in SUBSET Int /\ n \in Multiple(n)
  <1>1. \A g \in Generator : g \in Int
    BY DEF Generator
  <1>2. Multiple(n) \in SUBSET Int
    BY <1>1 DEF Multiple
  <1>3. n - n + 32 = 32 /\ 32 \in Generator
    BY DEF Generator
  <1> QED
    BY <1>2, <1>3, MultipleIs

(* Of a polynomial and its sum with the multiple of the generator there is *)
(* exactly one that does not have the exponent n.                          *)
LEMMA DividedIs ==
    ASSUME NEW n \in Int, NEW d \in SUBSET Int
    PROVE  /\ Divided(d, n) = IF n \in d THEN Xor(d, Multiple(n)) ELSE d
           /\ Divided(d, n) \in SUBSET Int
  <1>1. n \in Multiple(n) /\ Multiple(n) \in SUBSET Int
    BY MultipleSubset
  <1>2. n \in d <=> n \notin Xor(d, Multiple(n))
    BY <1>1, XorIs
  <1>3. Divided(d, n) = CHOOSE r \in {d, Xor(d, Multiple(n))} : n \notin r
    BY DEF Divided, Multiple
  <1>4. Divided(d, n) = IF n \in d THEN Xor(d, Multiple(n)) ELSE d
    BY <1>2, <1>3
  <1>5. Divided(d, n) \in SUBSET Int
    BY <1>1, <1>4 DEF Xor
  <1> QED
    BY <1>4, <1>5

(* The polynomial d is what is in the register, with bit 0 at the exponent *)
(* h and bit 31 at h - 31, together with what has not been shifted in.     *)
Represents(d, w, ahead, h) ==
    /\ d \in SUBSET Int
    /\ \A e \in Int : e \in d <=> ~(h - e \in w <=> e \in ahead)

(* Subtracting a multiple of the generator is a turn of the register.      *)
LEMMA DivisionTurns ==
    ASSUME NEW d, NEW w \in Word32, NEW h \in Int,
           NEW ahead \in SUBSET Int, \A e \in ahead : e < h,
           Represents(d, w, ahead, h)
    PROVE  Represents(Divided(d, h), Turned(w), ahead, h - 1)
  <1>1. d \in SUBSET Int /\ Divided(d, h) \in SUBSET Int
    BY DividedIs DEF Represents
  <1>2. h \in d <=> 0 \in w
    <2>1. h - h = 0 /\ h \notin ahead
      OBVIOUS
    <2> QED
      BY <2>1 DEF Represents
  <1>3. ASSUME NEW e \in Int
        PROVE  e \in Divided(d, h) <=> ~(h - 1 - e \in Turned(w) <=> e \in ahead)
    <2>1. e \in d <=> ~(h - e \in w <=> e \in ahead)
      BY DEF Represents
    <2>2. e \in Divided(d, h) <=> ~(e \in d <=> 0 \in w /\ e \in Multiple(h))
      <3>1. Divided(d, h) = IF h \in d THEN Xor(d, Multiple(h)) ELSE d
        BY <1>1, DividedIs
      <3> QED
        BY <1>2, <3>1, XorIs
    <2>3. e \in Multiple(h) <=> e - h + 32 \in Generator
      BY MultipleIs
    <2>4. CASE e < h
      <3>1. h - 1 - e \in Nat /\ (h - 1 - e) + 1 = h - e
        BY <2>4
      <3>2. h - 1 - e \in Turned(w)
            <=> ~(h - e \in w <=> 0 \in w /\ h - 1 - e \in UTIL_CRC32_POLY)
        BY <3>1, TurnedIs
      <3>3. e - h + 32 \in Generator <=> h - 1 - e \in UTIL_CRC32_POLY
        BY <2>4 DEF Generator, UTIL_CRC32_POLY
      <3> QED
        BY <2>1, <2>2, <2>3, <3>2, <3>3
    <2>5. CASE e = h
      <3>1. h - 1 - e \notin Turned(w)
        BY <2>5, TurnedIs DEF Word32
      <3>2. e - h + 32 = 32 /\ 32 \in Generator /\ e \notin ahead /\ h - e = 0
        BY <2>5 DEF Generator
      <3> QED
        BY <2>1, <2>2, <2>3, <3>1, <3>2
    <2>6. CASE e > h
      <3>1. h - 1 - e \notin Turned(w) /\ h - e \notin w /\ e \notin ahead
        BY <2>6, TurnedIs DEF Word32
      <3>2. e - h + 32 \notin Generator
        BY <2>6 DEF Generator
      <3> QED
        BY <2>1, <2>2, <2>3, <3>1, <3>2
    <2> QED
      BY <2>4, <2>5, <2>6
  <1> QED
    BY <1>1, <1>3 DEF Represents

(* A byte comes into the register, and is no longer ahead.                 *)
LEMMA ByteTaken ==
    ASSUME NEW bytes \in Seq(SUBSET Erased), NEW k \in 0 .. Len(bytes) - 1,
           NEW d, NEW w \in Word32,
           Represents(d, w, OnesFrom(bytes, k), High(bytes) - 8 * k)
    PROVE  /\ Represents(d, Xor(w, bytes[k + 1]), OnesFrom(bytes, k + 1), High(bytes) - 8 * k)
           /\ \A e \in OnesFrom(bytes, k + 1) : e <= High(bytes) - 8 * k - 8
           /\ OnesFrom(bytes, k + 1) \in SUBSET Int
  <1> DEFINE L == Len(bytes)
  <1> DEFINE H == High(bytes)
  <1>1. L \in Nat /\ H \in Int /\ \A n \in 1 .. L : bytes[n] \in SUBSET (0 .. 7)
    BY DEF High, Erased
  <1>2. k \in Nat /\ k + 1 \in 1 .. L
    BY <1>1
  <1> HIDE DEF L, H
  <1>3. ASSUME NEW e \in OnesFrom(bytes, k + 1)
        PROVE  e \in Int /\ e <= H - 8 * k - 8
    <2>1. e \in Int /\ \E n \in k + 1 + 1 .. L : H - 8 * (n - 1) - e \in bytes[n]
      BY DEF OnesFrom, L, H
    <2>2. PICK n \in k + 1 + 1 .. L : H - 8 * (n - 1) - e \in bytes[n]
      BY <2>1
    <2>3. n \in 1 .. L
      BY <1>2
    <2>4. H - 8 * (n - 1) - e \in 0 .. 7
      BY <1>1, <2>2, <2>3
    <2> QED
      BY <1>1, <1>2, <2>1, <2>4
  <1>4. ASSUME NEW e \in Int
        PROVE  e \in OnesFrom(bytes, k)
               <=> ~(H - 8 * k - e \in bytes[k + 1] <=> e \in OnesFrom(bytes, k + 1))
    <2>1. e \in OnesFrom(bytes, k) <=> \E n \in k + 1 .. L : H - 8 * (n - 1) - e \in bytes[n]
      BY DEF OnesFrom, L, H
    <2>2. e \in OnesFrom(bytes, k + 1)
          <=> \E n \in k + 1 + 1 .. L : H - 8 * (n - 1) - e \in bytes[n]
      BY DEF OnesFrom, L, H
    <2>3. \A n : n \in k + 1 .. L <=> n = k + 1 \/ n \in k + 1 + 1 .. L
      BY <1>1, <1>2
    <2>4. 8 * ((k + 1) - 1) = 8 * k
      BY <1>2
    <2>5. e \in OnesFrom(bytes, k)
          <=> H - 8 * k - e \in bytes[k + 1] \/ e \in OnesFrom(bytes, k + 1)
      BY <2>1, <2>2, <2>3, <2>4
    <2>6. ~(H - 8 * k - e \in bytes[k + 1] /\ e \in OnesFrom(bytes, k + 1))
      <3>1. SUFFICES ASSUME H - 8 * k - e \in bytes[k + 1], e \in OnesFrom(bytes, k + 1)
                     PROVE  FALSE
        OBVIOUS
      <3>2. H - 8 * k - e \in 0 .. 7 /\ e <= H - 8 * k - 8
        BY <1>1, <1>2, <1>3, <3>1
      <3> QED
        BY <1>1, <1>2, <3>2
    <2> QED
      BY <2>5, <2>6
  <1>5. ASSUME NEW e \in Int
        PROVE  e \in d <=> ~(H - 8 * k - e \in Xor(w, bytes[k + 1])
                             <=> e \in OnesFrom(bytes, k + 1))
    <2>1. e \in d <=> ~(H - 8 * k - e \in w <=> e \in OnesFrom(bytes, k))
      BY DEF Represents, H
    <2> QED
      BY <1>4, <2>1, XorIs
  <1>6. d \in SUBSET Int
    BY DEF Represents
  <1> QED
    BY <1>3, <1>5, <1>6 DEF Represents, H

(* The inner loop does eight steps of the division.                        *)
LEMMA ByteDivided ==
    ASSUME NEW bytes \in Seq(SUBSET Erased), NEW k \in 0 .. Len(bytes) - 1,
           NEW w \in Word32, NEW rest, IsDivision(bytes, rest),
           Represents(rest[High(bytes) + 1 - 8 * k], w, OnesFrom(bytes, k),
                      High(bytes) - 8 * k)
    PROVE  /\ EightShifts(Xor(w, bytes[k + 1])) \in Word32
           /\ Represents(rest[High(bytes) + 1 - 8 * (k + 1)],
                         EightShifts(Xor(w, bytes[k + 1])), OnesFrom(bytes, k + 1),
                         High(bytes) - 8 * (k + 1))
  <1> DEFINE h == High(bytes) - 8 * k
  <1> DEFINE ahead == OnesFrom(bytes, k + 1)
  <1>1. Len(bytes) \in Nat /\ h \in Int /\ k \in Nat /\ h >= 39 /\ h <= High(bytes)
        /\ High(bytes) \in Int
    BY DEF High
  <1>2. h + 1 = High(bytes) + 1 - 8 * k
    BY <1>1
  <1>3. bytes[k + 1] \in SUBSET (0 .. 7)
    BY <1>1 DEF Erased
  <1>4. Xor(w, bytes[k + 1]) \in Word32
    <2>1. \A x \in SUBSET (0 .. 7) : Xor(w, x) \in Word32
      BY DEF Xor, Word32
    <2> QED
      BY <1>3, <2>1
  <1>5. /\ Represents(rest[h + 1], Xor(w, bytes[k + 1]), ahead, h)
        /\ ahead \in SUBSET Int
        /\ \A e \in ahead : e <= h - 8
    BY <1>2, ByteTaken
  <1>6. PICK turn \in [0 .. 8 -> Word32] :
            /\ turn[0] = Xor(w, bytes[k + 1])
            /\ \A j \in 1 .. 8 : turn[j] = Turned(turn[j - 1])
            /\ EightShifts(Xor(w, bytes[k + 1])) = turn[8]
    BY <1>4, EightShiftsIs
  <1>7. \A n \in 32 .. High(bytes) : rest[n] = Divided(rest[n + 1], n)
    BY DEF IsDivision
  <1> HIDE DEF h, ahead
  <1> DEFINE T == {j \in 0 .. 8 : Represents(rest[h + 1 - j], turn[j], ahead, h - j)}
  <1>8. 0 \in T
    <2>1. h + 1 - 0 = h + 1 /\ h - 0 = h
      BY <1>1
    <2> QED
      BY <1>5, <1>6, <2>1
  <1>9. ASSUME NEW j \in 1 .. 8, j - 1 \in T
        PROVE  j \in T
    <2>1. PICK m \in 32 .. High(bytes) : m = h + 1 - j
      <3>1. j \in Int /\ 1 <= j /\ j <= 8
        OBVIOUS
      <3>2. h \in Int /\ h >= 39 /\ h <= High(bytes) /\ High(bytes) \in Int
        BY <1>1
      <3>3. h + 1 - j \in 32 .. High(bytes)
        BY <3>1, <3>2
      <3> QED
        BY <3>3
    <2>2. /\ h + 1 - (j - 1) = m + 1 /\ h - (j - 1) = m
          /\ h + 1 - j = m /\ h - j = m - 1 /\ m \in Int /\ m > h - 8
      BY <1>1, <2>1
    <2>3. PICK v \in Word32 : v = turn[j - 1]
      BY <1>6
    <2>4. Represents(rest[m + 1], v, ahead, m)
      <3>1. Represents(rest[h + 1 - (j - 1)], turn[j - 1], ahead, h - (j - 1))
        BY <1>9
      <3> QED
        BY <2>2, <2>3, <3>1
    <2>5. \A e \in ahead : e < m
      <3>1. \A e \in ahead : e \in Int /\ e <= h - 8
        BY <1>5
      <3>2. ASSUME NEW e \in ahead
            PROVE  e < m
        <4>1. e \in Int /\ e <= h - 8
          BY <3>1
        <4>2. h \in Int /\ m \in Int /\ m > h - 8
          BY <1>1, <2>2
        <4> QED
          BY <4>1, <4>2
      <3> QED
        BY <3>2
    <2>6. Represents(Divided(rest[m + 1], m), Turned(v), ahead, m - 1)
      BY <1>5, <2>2, <2>4, <2>5, DivisionTurns
    <2>7. rest[m] = Divided(rest[m + 1], m) /\ turn[j] = Turned(v)
      BY <1>6, <1>7, <2>1, <2>3
    <2>8. Represents(rest[h + 1 - j], turn[j], ahead, h - j)
      BY <2>2, <2>6, <2>7
    <2> QED
      BY <2>8
  <1>10. 8 \in T
    <2> HIDE DEF T
    <2>1. 8 \in Nat /\ 8 \in 0 .. 8
      OBVIOUS
    <2> QED
      BY <1>8, <1>9, <2>1, InductionUpTo
  <1>11. /\ h + 1 - 8 = High(bytes) + 1 - 8 * (k + 1)
         /\ h - 8 = High(bytes) - 8 * (k + 1)
    BY <1>1, SMTT(30) DEF h
  <1>12. Represents(rest[h + 1 - 8], turn[8], ahead, h - 8)
    BY <1>10
  <1> QED
    BY <1>6, <1>11, <1>12 DEF ahead

(* The long division of Crc32b comes to its end.                           *)
LEMMA CrcIs ==
    ASSUME NEW bytes \in Seq(SUBSET Erased)
    PROVE  \E rest : /\ IsDivision(bytes, rest)
                     /\ Crc32b(bytes) = {b \in 0 .. 31 : 31 - b \notin rest[32]}
  <1> DEFINE H == 8 * Len(bytes) + 31
  <1> DEFINE ones == UNION {{H - 8 * (n - 1) - b : b \in bytes[n]} : n \in DOMAIN bytes}
  <1> DEFINE first == Xor(ones, H - 31 .. H)
  <1>1. /\ Len(bytes) \in Nat /\ H \in Int /\ H >= 31 /\ DOMAIN bytes = 1 .. Len(bytes)
        /\ \A n \in 1 .. Len(bytes) : bytes[n] \in SUBSET (0 .. 7)
    BY DEF Erased
  <1>2. ones = OnesFrom(bytes, 0)
    <2>1. ASSUME NEW e \in ones
          PROVE  e \in OnesFrom(bytes, 0)
      <3>1. PICK n \in 1 .. Len(bytes) : e \in {H - 8 * (n - 1) - b : b \in bytes[n]}
        BY <1>1
      <3>2. PICK b \in bytes[n] : e = H - 8 * (n - 1) - b
        BY <3>1
      <3>3. b \in Int
        BY <1>1, <3>2, SMTT(30)
      <3>4. e \in Int /\ H - 8 * (n - 1) - e = b
        BY <1>1, <3>2, <3>3
      <3>5. n \in 0 + 1 .. Len(bytes)
        OBVIOUS
      <3> QED
        BY <3>2, <3>4, <3>5 DEF OnesFrom, High
    <2>2. ASSUME NEW e \in OnesFrom(bytes, 0)
          PROVE  e \in ones
      <3>1. e \in Int
        BY DEF OnesFrom
      <3>2. PICK n \in 0 + 1 .. Len(bytes) : H - 8 * (n - 1) - e \in bytes[n]
        BY DEF OnesFrom, High
      <3>3. PICK b \in bytes[n] : b = H - 8 * (n - 1) - e
        BY <3>2
      <3>4. e = H - 8 * (n - 1) - b /\ n \in DOMAIN bytes
        BY <1>1, <3>1, <3>2, <3>3
      <3>5. e \in {H - 8 * (n - 1) - c : c \in bytes[n]}
        BY <3>3, <3>4
      <3> QED
        BY <3>4, <3>5
    <2> QED
      BY <2>1, <2>2
  <1>3. first \in SUBSET Int
    BY <1>1, <1>2 DEF Xor, OnesFrom
  <1>4. H = High(bytes)
    BY DEF High
  <1> HIDE DEF first, H
  <1> DEFINE N == 8 * Len(bytes)
  <1> DEFINE step == [m \in 1 .. N |-> [x \in SUBSET Int |-> Divided(x, H + 1 - m)]]
  <1>5. N \in Nat /\ N = H - 31
    BY <1>1 DEF H
  <1>6. step \in [1 .. N -> [SUBSET Int -> SUBSET Int]]
    <2>1. \A m \in 1 .. N : H + 1 - m \in Int
      BY <1>1, <1>5
    <2>2. \A m \in 1 .. N : \A x \in SUBSET Int : Divided(x, H + 1 - m) \in SUBSET Int
      BY <2>1, DividedIs
    <2> QED
      BY <2>2
  <1>7. PICK f \in [0 .. N -> SUBSET Int] :
            f[0] = first /\ \A m \in 1 .. N : f[m] = step[m][f[m - 1]]
    <2> HIDE DEF step, N
    <2>1. Reached(SUBSET Int, first, step, N)
      BY <1>3, <1>5, <1>6, RecursionDefined
    <2> QED
      BY <2>1, Zenon DEF Reached, Follows
  <1>8. \A m \in 1 .. N : f[m] = Divided(f[m - 1], H + 1 - m) /\ f[m - 1] \in SUBSET Int
    <2>1. \A m \in 1 .. N : m - 1 \in 0 .. N
      BY <1>5
    <2> QED
      BY <1>7, <2>1
  <1> HIDE DEF step, N
  <1> DEFINE g == [n \in 32 .. H + 1 |-> f[H + 1 - n]]
  <1>9. ASSUME NEW n \in 32 .. H + 1
        PROVE  g[n] = IF n > H THEN first ELSE Divided(g[n + 1], n)
    <2>1. CASE n > H
      <3>1. n = H + 1 /\ H + 1 - n = 0
        BY <1>1, <2>1
      <3> QED
        BY <1>7, <2>1, <3>1
    <2>2. CASE ~(n > H)
      <3>1. PICK m \in 1 .. N : m = H + 1 - n
        BY <1>1, <1>5, <2>2
      <3>2. n \in Int /\ H + 1 - m = n /\ m - 1 = H + 1 - (n + 1) /\ n + 1 \in 32 .. H + 1
        BY <1>1, <2>2, <3>1
      <3>3. g[n] = f[m] /\ g[n + 1] = f[m - 1]
        BY <3>1, <3>2
      <3> QED
        BY <1>8, <2>2, <3>2, <3>3
    <2> QED
      BY <2>1, <2>2
  <1>10. g = [n \in 32 .. H + 1 |-> IF n > H THEN first ELSE Divided(g[n + 1], n)]
    <2>1. g = [n \in 32 .. H + 1 |-> g[n]]
      OBVIOUS
    <2> HIDE DEF g
    <2> QED
      BY <1>9, <2>1
  <1> HIDE DEF g
  <1>11. \E rest :
            /\ rest = [n \in 32 .. H + 1 |-> IF n > H THEN first ELSE Divided(rest[n + 1], n)]
            /\ Crc32b(bytes) = {b \in 0 .. 31 : 31 - b \notin rest[32]}
    BY <1>10, Zenon DEF Crc32b, H, first
  <1>12. PICK rest :
            /\ rest = [n \in 32 .. H + 1 |-> IF n > H THEN first ELSE Divided(rest[n + 1], n)]
            /\ Crc32b(bytes) = {b \in 0 .. 31 : 31 - b \notin rest[32]}
    BY <1>11
  <1>13. /\ DOMAIN rest = 32 .. H + 1
         /\ \A n \in 32 .. H + 1 : rest[n] = IF n > H THEN first ELSE Divided(rest[n + 1], n)
         /\ rest = [n \in 32 .. H + 1 |-> rest[n]]
    BY <1>12
  <1>14. rest[H + 1] = first
    <2>1. H + 1 \in 32 .. H + 1 /\ H + 1 > H
      BY <1>1
    <2> QED
      BY <1>13, <2>1
  <1>15. ASSUME NEW n \in 32 .. H, rest[n + 1] \in SUBSET Int
         PROVE  rest[n] = Divided(rest[n + 1], n) /\ rest[n] \in SUBSET Int
    <2>1. n \in 32 .. H + 1 /\ ~(n > H) /\ n \in Int
      BY <1>1
    <2>2. rest[n] = Divided(rest[n + 1], n)
      BY <1>13, <2>1
    <2> QED
      BY <1>15, <2>1, <2>2, DividedIs
  <1> DEFINE T == {m \in 0 .. N : rest[H + 1 - m] \in SUBSET Int}
  <1>16. \A m \in 0 .. N : m \in T
    <2>1. 0 \in T
      <3>1. H + 1 - 0 = H + 1 /\ 0 \in 0 .. N
        BY <1>1, <1>5
      <3> QED
        BY <1>3, <1>14, <3>1
    <2>2. ASSUME NEW m \in 1 .. N, m - 1 \in T
          PROVE  m \in T
      <3>1. PICK n \in 32 .. H : n = H + 1 - m
        BY <1>1, <1>5
      <3>2. n + 1 = H + 1 - (m - 1) /\ m \in 0 .. N
        BY <1>1, <1>5, <3>1
      <3>3. rest[n + 1] \in SUBSET Int
        BY <2>2, <3>2
      <3> QED
        BY <1>15, <3>1, <3>2, <3>3
    <2> HIDE DEF T
    <2> QED
      BY <1>5, <2>1, <2>2, InductionUpTo
  <1>17. ASSUME NEW n \in 32 .. H + 1
         PROVE  rest[n] \in SUBSET Int
    <2>1. PICK m \in 0 .. N : m = H + 1 - n
      BY <1>1, <1>5
    <2>2. H + 1 - m = n
      BY <1>1, <2>1
    <2> QED
      BY <1>16, <2>2
  <1>18. rest \in [32 .. H + 1 -> SUBSET Int]
    BY <1>13, <1>17
  <1>19. \A n \in 32 .. H : rest[n] = Divided(rest[n + 1], n)
    <2>1. \A n \in 32 .. H : n + 1 \in 32 .. H + 1
      BY <1>1
    <2> QED
      BY <1>15, <1>17, <2>1
  <1>20. first = Xor(OnesFrom(bytes, 0), H - 31 .. H)
    BY <1>2 DEF first
  <1>21. IsDivision(bytes, rest)
    BY <1>4, <1>14, <1>18, <1>19, <1>20 DEF IsDivision
  <1> QED
    BY <1>12, <1>21

-----------------------------------------------------------------------------
(* The register of util_crc32, byte for byte.                              *)

IsRegister(bytes, reg) ==
    /\ reg \in [0 .. Len(bytes) -> Word32]
    /\ reg[0] = 0 .. 31
    /\ \A k \in 1 .. Len(bytes) : reg[k] = EightShifts(Xor(reg[k - 1], bytes[k]))

LEMMA XorType ==
    ASSUME NEW w \in Word32, NEW x \in SUBSET Erased
    PROVE  Xor(w, x) \in Word32
  BY DEF Xor, Word32, Erased

LEMMA EightShiftsType ==
    ASSUME NEW w \in Word32
    PROVE  EightShifts(w) \in Word32
  BY EightShiftsIs

LEMMA RegisterExists ==
    ASSUME NEW bytes \in Seq(SUBSET Erased)
    PROVE  \E reg : IsRegister(bytes, reg)
  <1> DEFINE L == Len(bytes)
  <1> DEFINE step == [k \in 1 .. L |-> [w \in Word32 |-> EightShifts(Xor(w, bytes[k]))]]
  <1>1. L \in Nat /\ \A k \in 1 .. L : bytes[k] \in SUBSET Erased
    OBVIOUS
  <1>2. step \in [1 .. L -> [Word32 -> Word32]]
    <2>1. ASSUME NEW k \in 1 .. L, NEW w \in Word32
          PROVE  EightShifts(Xor(w, bytes[k])) \in Word32
      <3>1. PICK x \in SUBSET Erased : x = bytes[k]
        BY <1>1
      <3>2. EightShifts(Xor(w, x)) \in Word32
        BY XorType, EightShiftsType
      <3> QED
        BY <3>1, <3>2
    <2> QED
      BY <2>1
  <1>3. 0 .. 31 \in Word32
    BY DEF Word32
  <1>4. PICK reg \in [0 .. L -> Word32] :
            reg[0] = 0 .. 31 /\ \A k \in 1 .. L : reg[k] = step[k][reg[k - 1]]
    <2> HIDE DEF step, L
    <2>1. Reached(Word32, 0 .. 31, step, L)
      BY <1>1, <1>2, <1>3, RecursionDefined
    <2> QED
      BY <2>1, Zenon DEF Reached, Follows
  <1>5. \A k \in 1 .. L : reg[k] = EightShifts(Xor(reg[k - 1], bytes[k]))
    <2>1. \A k \in 1 .. L : reg[k - 1] \in Word32
      BY <1>1, <1>4
    <2> QED
      BY <1>4, <2>1
  <1> QED
    BY <1>4, <1>5 DEF IsRegister

(* It computes the remainder of the division.                              *)
LEMMA CrcIsRegister ==
    ASSUME NEW bytes \in Seq(SUBSET Erased), NEW reg, IsRegister(bytes, reg)
    PROVE  Crc32b(bytes) = Complement(reg[Len(bytes)])
  <1> DEFINE L == Len(bytes)
  <1> DEFINE H == High(bytes)
  <1>1. L \in Nat /\ H = 8 * L + 31 /\ H \in Int
    BY DEF High
  <1>2. PICK rest : /\ IsDivision(bytes, rest)
                    /\ Crc32b(bytes) = {b \in 0 .. 31 : 31 - b \notin rest[32]}
    BY CrcIs
  <1> HIDE DEF L, H
  <1> DEFINE T == {k \in 0 .. L : Represents(rest[H + 1 - 8 * k], reg[k], OnesFrom(bytes, k),
                                             H - 8 * k)}
  <1>3. 0 \in T
    <2>1. H + 1 - 8 * 0 = H + 1 /\ H - 8 * 0 = H
      BY <1>1
    <2>2. rest[H + 1] = Xor(OnesFrom(bytes, 0), H - 31 .. H) /\ rest[H + 1] \in SUBSET Int
      <3>1. H + 1 \in 32 .. H + 1
        BY <1>1
      <3> QED
        BY <1>2, <3>1 DEF IsDivision, H
    <2>3. reg[0] = 0 .. 31
      BY DEF IsRegister
    <2>4. ASSUME NEW e \in Int
          PROVE  e \in rest[H + 1] <=> ~(H - e \in reg[0] <=> e \in OnesFrom(bytes, 0))
      <3>1. e \in H - 31 .. H <=> H - e \in 0 .. 31
        BY <1>1
      <3>2. e \in Xor(OnesFrom(bytes, 0), H - 31 .. H)
            <=> ~(e \in OnesFrom(bytes, 0) <=> e \in H - 31 .. H)
        BY Zenon DEF Xor
      <3> QED
        BY <2>2, <2>3, <3>1, <3>2, Zenon
    <2>5. Represents(rest[H + 1], reg[0], OnesFrom(bytes, 0), H)
      BY <2>2, <2>4 DEF Represents
    <2> QED
      BY <1>1, <2>1, <2>5
  <1>4. ASSUME NEW k \in 1 .. L, k - 1 \in T
        PROVE  k \in T
    <2>1. PICK j \in 0 .. L - 1 : j = k - 1
      BY <1>1
    <2>2. j + 1 = k /\ k \in 0 .. L
      BY <1>1, <2>1
    <2>3. PICK w \in Word32 : w = reg[j]
      <3>1. j \in 0 .. L
        BY <1>1, <2>1
      <3> QED
        BY <3>1 DEF IsRegister, L
    <2>4. Represents(rest[H + 1 - 8 * j], w, OnesFrom(bytes, j), H - 8 * j)
      BY <1>4, <2>1, <2>3
    <2>5. Represents(rest[H + 1 - 8 * (j + 1)], EightShifts(Xor(w, bytes[j + 1])),
                     OnesFrom(bytes, j + 1), H - 8 * (j + 1))
      BY <1>2, <2>4, ByteDivided DEF L, H
    <2>6. reg[k] = EightShifts(Xor(w, bytes[k]))
      BY <2>1, <2>3 DEF IsRegister, L
    <2> QED
      BY <2>2, <2>5, <2>6
  <1>5. L \in T
    <2> HIDE DEF T
    <2>1. L \in 0 .. L
      BY <1>1
    <2> QED
      BY <1>1, <1>3, <1>4, <2>1, InductionUpTo
  <1>6. Represents(rest[32], reg[L], OnesFrom(bytes, L), 31)
    <2>1. H + 1 - 8 * L = 32 /\ H - 8 * L = 31
      BY <1>1
    <2> QED
      BY <1>5, <2>1
  <1>7. \A e : e \notin OnesFrom(bytes, L)
    BY <1>1 DEF OnesFrom, L
  <1>8. reg[L] \in Word32
    BY <1>1 DEF IsRegister, L
  <1>9. ASSUME NEW b \in 0 .. 31
        PROVE  31 - b \notin rest[32] <=> b \notin reg[L]
    <2>1. 31 - b \in Int /\ 31 - (31 - b) = b
      OBVIOUS
    <2> QED
      BY <1>6, <1>7, <2>1 DEF Represents
  <1> QED
    BY <1>2, <1>9 DEF Complement, L

-----------------------------------------------------------------------------
(* The three calls.                                                        *)

(* The image with its checksum blanked out.                                *)
Blanked == [n \in 1 .. length |-> IF n \in Field THEN Erased ELSE flash[n]]

(* The bytes the calls before c have taken.                                *)
Before(c) == <<0, ChecksumOffset, ChecksumOffset + 4, length>>[c]

Taken == IF i = 0 THEN Before(call) ELSE Before(call) + (i - 1)

(* Between two calls the register is inverted.                             *)
Register == IF i = 0 THEN Complement(crc) ELSE crc

ChecksumType ==
    /\ length \in Nat /\ length >= ChecksumOffset + 4
    /\ flash \in Seq(SUBSET Erased) /\ Len(flash) = length + 1
    /\ call \in 1 .. 4 /\ i \in Nat /\ crc \in Word32
    /\ call = 4 => i = 0
    /\ call \in 1 .. 3 => i <= Before(call + 1) - Before(call) + 1

(* What TLC sees at the end of a computation holds of every part of one:   *)
(* the register is that of the bytes taken so far.                         *)
RegisterOK == \A reg : IsRegister(Blanked, reg) => Register = reg[Taken]

ChecksumInv == ChecksumType /\ RegisterOK

LEMMA BeforeIs ==
    ASSUME ChecksumType
    PROVE  /\ \A c \in 1 .. 4 : Before(c) \in 0 .. length
           /\ \A c \in 1 .. 3 : Before(c + 1) - Before(c) \in Nat
           /\ Before(1) = 0 /\ Before(2) = ChecksumOffset
           /\ Before(3) = ChecksumOffset + 4 /\ Before(4) = length
           /\ ChecksumOffset \in Nat
  <1>1. ChecksumOffset \in Nat
    BY FilesAssumption
  <1>2. /\ Before(1) = 0 /\ Before(2) = ChecksumOffset
        /\ Before(3) = ChecksumOffset + 4 /\ Before(4) = length
    BY DEF Before
  <1>3. length \in Nat /\ length >= ChecksumOffset + 4
    BY DEF ChecksumType
  <1>4. \A c \in 1 .. 4 : c \in {1, 2, 3, 4}
    OBVIOUS
  <1>5. \A c \in 1 .. 4 : Before(c) \in 0 .. length
    <2>1. ASSUME NEW c \in {1, 2, 3, 4}
          PROVE  Before(c) \in 0 .. length
      <3>1. c = 1 \/ c = 2 \/ c = 3 \/ c = 4
        OBVIOUS
      <3>2. /\ 0 \in 0 .. length /\ ChecksumOffset \in 0 .. length
            /\ ChecksumOffset + 4 \in 0 .. length /\ length \in 0 .. length
        BY <1>1, <1>3
      <3> QED
        BY <1>2, <3>1, <3>2
    <2> QED
      BY <1>4, <2>1
  <1>6. \A c \in 1 .. 3 : Before(c + 1) - Before(c) \in Nat
    <2>1. ASSUME NEW c \in 1 .. 3
          PROVE  Before(c + 1) - Before(c) \in Nat
      <3>1. \/ c = 1 /\ c + 1 = 2
            \/ c = 2 /\ c + 1 = 3
            \/ c = 3 /\ c + 1 = 4
        OBVIOUS
      <3> QED
        BY <1>1, <1>2, <1>3, <3>1
    <2> QED
      BY <2>1
  <1> QED
    BY <1>1, <1>2, <1>5, <1>6

LEMMA BlankedType ==
    ASSUME ChecksumType
    PROVE  /\ Blanked \in Seq(SUBSET Erased) /\ Len(Blanked) = length
           /\ \A n \in 1 .. length : Blanked[n] = IF n \in Field THEN Erased ELSE flash[n]
  <1>1. length \in Nat /\ \A n \in 1 .. length : flash[n] \in SUBSET Erased
    BY DEF ChecksumType
  <1>2. \A n \in 1 .. length : (IF n \in Field THEN Erased ELSE flash[n]) \in SUBSET Erased
    BY <1>1
  <1>3. Blanked \in [1 .. length -> SUBSET Erased]
    BY <1>2 DEF Blanked
  <1> QED
    BY <1>1, <1>3 DEF Blanked

(* The three buffers are the three parts of the blanked image.             *)
LEMMA BufferIs ==
    ASSUME ChecksumType, call \in 1 .. 3
    PROVE  /\ Len(Buffer) = Before(call + 1) - Before(call)
           /\ DOMAIN Buffer = 1 .. Len(Buffer)
           /\ \A n \in 1 .. Len(Buffer) : Buffer[n] = Blanked[Before(call) + n]
  <1>1. /\ length \in Nat /\ length >= ChecksumOffset + 4 /\ ChecksumOffset \in Nat
        /\ flash \in Seq(SUBSET Erased) /\ Len(flash) = length + 1
    BY FilesAssumption DEF ChecksumType
  <1>2. \A n \in 1 .. length : Blanked[n] = IF n \in Field THEN Erased ELSE flash[n]
    BY BlankedType
  <1>3. \A n \in Int : n \in Field <=> ChecksumOffset + 1 <= n /\ n <= ChecksumOffset + 4
    BY <1>1 DEF Field
  <1>4. \A n \in 1 .. length + 1 : flash[n] \in SUBSET Erased
    BY <1>1
  <1>5. CASE call = 1
    <2>1. Buffer = SubSeq(flash, 1, ChecksumOffset)
      <3>1. call = 1 /\ call # 2 /\ call # 3
        BY <1>5
      <3> QED
        BY <3>1, Zenon DEF Buffer
    <2>2. Before(call + 1) - Before(call) = ChecksumOffset /\ Before(call) = 0
      BY <1>1, <1>5, BeforeIs
    <2>3. /\ SubSeq(flash, 1, ChecksumOffset) \in Seq(SUBSET Erased)
          /\ Len(SubSeq(flash, 1, ChecksumOffset)) = ChecksumOffset
          /\ \A n \in 1 .. ChecksumOffset : SubSeq(flash, 1, ChecksumOffset)[n] = flash[n]
      BY <1>1
    <2>4. \A n \in 1 .. ChecksumOffset : n \in 1 .. length /\ n \notin Field
      BY <1>1, <1>3
    <2>5. \A n \in 1 .. ChecksumOffset : flash[n] = Blanked[0 + n]
      BY <1>2, <2>4
    <2> QED
      BY <2>1, <2>2, <2>3, <2>5
  <1>6. CASE call = 2
    <2>1. Buffer = <<Erased, Erased, Erased, Erased>>
      <3>1. call = 2 /\ call # 1 /\ call # 3
        BY <1>6
      <3> QED
        BY <3>1, Zenon DEF Buffer, default_checksum
    <2>2. Before(call + 1) - Before(call) = 4 /\ Before(call) = ChecksumOffset
      BY <1>1, <1>6, BeforeIs
    <2>3. ASSUME NEW n \in 1 .. 4
          PROVE  /\ Blanked[ChecksumOffset + n] = Erased
                 /\ <<Erased, Erased, Erased, Erased>>[n] = Erased
      <3>1. ChecksumOffset + n \in 1 .. length /\ ChecksumOffset + n \in Field
        BY <1>1, <1>3
      <3>2. n = 1 \/ n = 2 \/ n = 3 \/ n = 4
        OBVIOUS
      <3> QED
        BY <1>2, <3>1, <3>2
    <2>4. /\ Len(<<Erased, Erased, Erased, Erased>>) = 4
          /\ DOMAIN <<Erased, Erased, Erased, Erased>> = 1 .. 4
      OBVIOUS
    <2> QED
      BY <2>1, <2>2, <2>3, <2>4
  <1>7. CASE call = 3
    <2>1. Buffer = SubSeq(flash, ChecksumOffset + 5, length)
      <3>1. call = 3 /\ call # 1 /\ call # 2
        BY <1>7
      <3> QED
        BY <3>1, Zenon DEF Buffer
    <2>2. /\ Before(call + 1) - Before(call) = length - (ChecksumOffset + 4)
          /\ Before(call) = ChecksumOffset + 4
      BY <1>1, <1>7, BeforeIs
    <2>3. PICK m \in Nat : m = length - (ChecksumOffset + 4)
      BY <1>1
    <2>4. length - (ChecksumOffset + 5) + 1 = m
      BY <1>1, <2>3
    <2>5. /\ SubSeq(flash, ChecksumOffset + 5, length) \in Seq(SUBSET Erased)
          /\ Len(SubSeq(flash, ChecksumOffset + 5, length)) = m
          /\ \A n \in 1 .. m : SubSeq(flash, ChecksumOffset + 5, length)[n]
                               = flash[(ChecksumOffset + 4) + n]
      <3>1. ChecksumOffset + 5 \in Int /\ length \in Int
            /\ \A n \in ChecksumOffset + 5 .. length : flash[n] \in SUBSET Erased
        BY <1>1, <1>4
      <3>2. /\ SubSeq(flash, ChecksumOffset + 5, length) \in Seq(SUBSET Erased)
            /\ Len(SubSeq(flash, ChecksumOffset + 5, length))
                   = IF ChecksumOffset + 5 <= length THEN length - (ChecksumOffset + 5) + 1
                     ELSE 0
            /\ \A n \in 1 .. length - (ChecksumOffset + 5) + 1 :
                   SubSeq(flash, ChecksumOffset + 5, length)[n]
                   = flash[ChecksumOffset + 5 + n - 1]
        BY <3>1, SubSeqProperties
      <3>3. \A n \in 1 .. m : ChecksumOffset + 5 + n - 1 = (ChecksumOffset + 4) + n
        BY <1>1
      <3> QED
        BY <1>1, <2>3, <2>4, <3>2, <3>3
    <2>6. \A n \in 1 .. m : /\ (ChecksumOffset + 4) + n \in 1 .. length
                            /\ (ChecksumOffset + 4) + n \notin Field
      BY <1>1, <1>3, <2>3
    <2>7. \A n \in 1 .. m :
              flash[(ChecksumOffset + 4) + n] = Blanked[(ChecksumOffset + 4) + n]
      BY <1>2, <2>6
    <2> QED
      BY <2>1, <2>2, <2>3, <2>5, <2>7
  <1> QED
    BY <1>5, <1>6, <1>7

-----------------------------------------------------------------------------
(* The invariant.                                                          *)

(* What happened to byte n of the flash.                                   *)
DamageAt(n) == IF n \in DOMAIN damage THEN damage[n] ELSE {}

(* The flash holds an image of the build, but for the damage.              *)
WrittenFrom(f) ==
    /\ length = Len(f)
    /\ \A n \in 1 .. length : flash[n] = Xor(Inserted(f, Crc32b(f))[n], DamageAt(n))

FlashWritten == damage \in Damages /\ \E f \in Files : WrittenFrom(f)

LEMMA InsertedIs ==
    ASSUME NEW f \in Files
    PROVE  /\ f \in Seq(SUBSET Erased) /\ Len(f) >= ChecksumOffset + 4
           /\ \A n \in Field : f[n] = Erased
           /\ Inserted(f, Crc32b(f)) \in Seq(SUBSET Erased)
           /\ Len(Inserted(f, Crc32b(f))) = Len(f)
           /\ \A n \in 1 .. Len(f) :
                  Inserted(f, Crc32b(f))[n]
                  = IF n \in Field THEN Byte(Crc32b(f), n - ChecksumOffset - 1) ELSE f[n]
  <1>1. /\ f \in Seq(SUBSET Erased) /\ Len(f) >= ChecksumOffset + 4 /\ ChecksumOffset \in Nat
        /\ \A n \in 1 .. 4 : f[ChecksumOffset + n] = Erased
    BY FilesAssumption
  <1>2. ASSUME NEW n \in Field
        PROVE  f[n] = Erased
    <2>1. PICK m \in 1 .. 4 : n = ChecksumOffset + m
      <3>1. n - ChecksumOffset \in 1 .. 4 /\ n = ChecksumOffset + (n - ChecksumOffset)
        BY <1>1 DEF Field
      <3> QED
        BY <3>1
    <2> QED
      BY <1>1, <2>1
  <1> DEFINE crcOf == Crc32b(f)
  <1> HIDE DEF crcOf
  <1>3. \A n : Byte(crcOf, n) \in SUBSET Erased
    BY DEF Byte
  <1>4. \A n \in 1 .. Len(f) :
            (IF n \in Field THEN Byte(crcOf, n - ChecksumOffset - 1) ELSE f[n])
            \in SUBSET Erased
    BY <1>1, <1>3
  <1>5. Inserted(f, crcOf) =
            [n \in 1 .. Len(f) |->
                IF n \in Field THEN Byte(crcOf, n - ChecksumOffset - 1) ELSE f[n]]
    BY <1>1 DEF Inserted
  <1>6. Inserted(f, crcOf) \in [1 .. Len(f) -> SUBSET Erased]
    BY <1>4, <1>5
  <1>7. Inserted(f, crcOf) \in Seq(SUBSET Erased) /\ Len(Inserted(f, crcOf)) = Len(f)
    <2>1. Len(f) \in Nat
      BY <1>1
    <2> HIDE DEF crcOf
    <2>2. PICK image : image = Inserted(f, crcOf)
      OBVIOUS
    <2>3. image \in [1 .. Len(f) -> SUBSET Erased]
      BY <1>6, <2>2
    <2>4. image \in Seq(SUBSET Erased) /\ Len(image) = Len(f)
      BY <2>1, <2>3
    <2> QED
      BY <2>2, <2>4
  <1> QED
    BY <1>1, <1>2, <1>5, <1>7 DEF crcOf

LEMMA ChecksumBegins == ChecksumInit => ChecksumInv /\ FlashWritten
  <1> SUFFICES ASSUME ChecksumInit PROVE ChecksumInv /\ FlashWritten
    OBVIOUS
  <1>1. PICK image \in Images, d \in Damages :
            /\ damage = d
            /\ length = Len(image)
            /\ flash = [n \in 1 .. Len(image) + 1 |->
                           Xor(IF n > Len(image) THEN Erased ELSE image[n],
                               IF n \in DOMAIN d THEN d[n] ELSE {})]
            /\ call = 1 /\ i = 0 /\ crc = {}
    BY DEF ChecksumInit
  <1>2. PICK f \in Files : image = Inserted(f, Crc32b(f))
    BY DEF Images
  <1>3. /\ image \in Seq(SUBSET Erased) /\ Len(image) = Len(f)
        /\ Len(f) >= ChecksumOffset + 4 /\ f \in Seq(SUBSET Erased) /\ Len(f) \in Nat
    BY <1>2, InsertedIs
  <1>4. length \in Nat /\ length >= ChecksumOffset + 4 /\ length = Len(f)
    BY <1>1, <1>3
  <1>5. \A n : DamageAt(n) \in SUBSET Erased /\ DamageAt(n) = IF n \in DOMAIN d THEN d[n] ELSE {}
    BY <1>1, DamagesAssumption DEF DamageAt
  <1>6. \A n \in 1 .. length + 1 :
            flash[n] = Xor(IF n > length THEN Erased ELSE image[n], DamageAt(n))
    BY <1>1, <1>5
  <1>7. flash \in [1 .. length + 1 -> SUBSET Erased]
    <2>1. \A x, y \in SUBSET Erased : Xor(x, y) \in SUBSET Erased
      BY DEF Xor
    <2>2. \A n \in 1 .. length + 1 : (IF n > length THEN Erased ELSE image[n]) \in SUBSET Erased
      BY <1>1, <1>3, <1>4
    <2>3. \A n \in 1 .. length + 1 : flash[n] \in SUBSET Erased
      BY <1>5, <1>6, <2>1, <2>2
    <2>4. flash = [n \in 1 .. length + 1 |-> flash[n]]
      BY <1>1
    <2> QED
      BY <2>3, <2>4
  <1>8. flash \in Seq(SUBSET Erased) /\ Len(flash) = length + 1
    BY <1>4, <1>7
  <1>9. call = 1 /\ i = 0 /\ crc = {} /\ crc \in Word32
    BY <1>1 DEF Word32
  <1>10. ChecksumType
    <2>1. ChecksumOffset \in Nat
      BY FilesAssumption
    <2>2. 0 <= Before(call + 1) - Before(call) + 1
      <3>1. Before(call + 1) = ChecksumOffset /\ Before(call) = 0
        BY <1>9 DEF Before
      <3> QED
        BY <2>1, <3>1
    <2> QED
      BY <1>4, <1>8, <1>9, <2>2 DEF ChecksumType
  <1>11. RegisterOK
    <2>1. Register = 0 .. 31
      BY <1>9 DEF Register, Complement
    <2>2. Taken = 0
      BY <1>9, <1>10, BeforeIs DEF Taken
    <2> QED
      BY <2>1, <2>2 DEF RegisterOK, IsRegister
  <1>12. WrittenFrom(f)
    <2>1. \A n \in 1 .. length : n \in 1 .. length + 1 /\ ~(n > length)
      BY <1>4
    <2>2. \A n \in 1 .. length : flash[n] = Xor(image[n], DamageAt(n))
      BY <1>6, <2>1
    <2> QED
      BY <1>2, <1>4, <2>2 DEF WrittenFrom
  <1> QED
    BY <1>1, <1>10, <1>11, <1>12 DEF ChecksumInv, FlashWritten

LEMMA ChecksumKeeps ==
    ASSUME ChecksumInv, FlashWritten, [calculate_image_crc32]_checksumVars
    PROVE  ChecksumInv' /\ FlashWritten'
  <1>1. ChecksumType /\ RegisterOK
    BY DEF ChecksumInv
  <1>2. flash' = flash /\ length' = length /\ damage' = damage
    BY DEF calculate_image_crc32, CallCrc32, NextByte, ReturnCrc32, checksumVars
  <1>3. /\ length \in Nat /\ length >= ChecksumOffset + 4
        /\ flash \in Seq(SUBSET Erased) /\ Len(flash) = length + 1
        /\ call \in 1 .. 4 /\ i \in Nat /\ crc \in Word32
        /\ call = 4 => i = 0
        /\ call \in 1 .. 3 => i <= Before(call + 1) - Before(call) + 1
    BY <1>1 DEF ChecksumType
  <1>4. FlashWritten'
    BY <1>2 DEF FlashWritten, WrittenFrom, DamageAt
  <1>5. Blanked' = Blanked
    BY <1>2 DEF Blanked
  <1>6. \A c : Before(c)' = Before(c)
    BY <1>2 DEF Before
  <1>7. CASE CallCrc32
    <2>1. call' = call /\ i = 0 /\ i' = 1 /\ crc' = Complement(crc) /\ call \in 1 .. 3
      BY <1>7 DEF CallCrc32
    <2>2. crc' \in Word32
      BY <1>3, <2>1, ComplementIs
    <2>3. PICK b \in Nat : b = Before(call)
      BY <1>1, <2>1, BeforeIs
    <2>4. /\ Before(call)' = b
          /\ Before(call + 1)' - Before(call)' \in Nat
      BY <1>1, <1>6, <2>1, <2>3, BeforeIs
    <2>5. Register' = Register /\ Taken' = Taken
      <3>1. Register' = crc' /\ Register = Complement(crc)
        BY <2>1 DEF Register
      <3>2. Taken' = b + (1 - 1) /\ Taken = b
        BY <2>1, <2>3, <2>4 DEF Taken
      <3> QED
        BY <2>1, <2>3, <3>1, <3>2
    <2>6. RegisterOK'
      BY <1>1, <1>5, <2>5 DEF RegisterOK
    <2>7. ChecksumType'
      BY <1>2, <1>3, <2>1, <2>2, <2>4 DEF ChecksumType
    <2> QED
      BY <1>4, <2>6, <2>7 DEF ChecksumInv
  <1>8. CASE NextByte
    <2>1. /\ call' = call /\ call \in 1 .. 3 /\ i \in DOMAIN Buffer /\ i' = i + 1
          /\ crc' = EightShifts(Xor(crc, Buffer[i]))
      BY <1>8 DEF NextByte
    <2>2. /\ Len(Buffer) = Before(call + 1) - Before(call)
          /\ DOMAIN Buffer = 1 .. Len(Buffer)
          /\ \A n \in 1 .. Len(Buffer) : Buffer[n] = Blanked[Before(call) + n]
      BY <1>1, <2>1, BufferIs
    <2>3. PICK b \in 0 .. length : b = Before(call)
      BY <1>1, <2>1, BeforeIs
    <2>4. PICK e \in 0 .. length : e = Before(call + 1)
      <3>1. call + 1 \in 1 .. 4
        BY <2>1
      <3> QED
        BY <1>1, <3>1, BeforeIs
    <2>5. i >= 1 /\ i <= e - b /\ i \in Nat
      BY <1>3, <2>1, <2>2, <2>3, <2>4
    <2>6. PICK k \in 1 .. length : k = b + i
      BY <1>3, <2>5
    <2>7. PICK x \in SUBSET Erased : x = Buffer[i]
      BY <1>1, <2>1, <2>2, <2>3, <2>6, BlankedType
    <2>8. crc' \in Word32
      BY <1>3, <2>1, <2>7, XorType, EightShiftsType
    <2>9. Taken = k - 1 /\ Taken' = k
      <3>1. Taken = b + (i - 1)
        BY <2>3, <2>5 DEF Taken
      <3>2. Taken' = b + ((i + 1) - 1)
        <4>1. i' # 0
          BY <2>1, <2>5
        <4> QED
          BY <1>6, <2>1, <2>3, <4>1 DEF Taken
      <3> QED
        BY <1>3, <2>5, <2>6, <3>1, <3>2
    <2>10. Register = crc /\ Register' = crc'
      <3>1. i # 0 /\ i' # 0
        BY <2>1, <2>5
      <3> QED
        BY <3>1 DEF Register
    <2>11. ASSUME NEW reg, IsRegister(Blanked, reg)
           PROVE  Register' = reg[Taken']
      <3>1. Register = reg[k - 1]
        BY <1>1, <2>9, <2>11 DEF RegisterOK
      <3>2. Buffer[i] = Blanked[k]
        BY <2>1, <2>2, <2>3, <2>6
      <3>3. reg[k] = EightShifts(Xor(reg[k - 1], Blanked[k]))
        <4>1. k \in 1 .. Len(Blanked)
          BY <1>1, <2>6, BlankedType
        <4> QED
          BY <2>11, <4>1 DEF IsRegister
      <3> QED
        BY <2>1, <2>9, <2>10, <3>1, <3>2, <3>3
    <2>12. RegisterOK'
      BY <1>5, <2>11 DEF RegisterOK
    <2>13. i' <= Before(call + 1)' - Before(call)' + 1
      BY <1>6, <2>1, <2>3, <2>4, <2>5
    <2>14. call' # 4
      BY <2>1
    <2>15. ChecksumType'
      BY <1>2, <1>3, <2>1, <2>8, <2>13, <2>14 DEF ChecksumType
    <2> QED
      BY <1>4, <2>12, <2>15 DEF ChecksumInv
  <1>9. CASE ReturnCrc32
    <2>1. /\ call' = call + 1 /\ call \in 1 .. 3 /\ i = Len(Buffer) + 1 /\ i' = 0
          /\ crc' = Complement(crc)
      BY <1>9 DEF ReturnCrc32
    <2>2. Len(Buffer) = Before(call + 1) - Before(call)
      BY <1>1, <2>1, BufferIs
    <2>3. PICK b \in 0 .. length : b = Before(call)
      <3>1. call \in 1 .. 4
        BY <2>1
      <3> QED
        BY <1>1, <3>1, BeforeIs
    <2>4. PICK e \in 0 .. length : e = Before(call + 1)
      <3>1. call + 1 \in 1 .. 4
        BY <2>1
      <3> QED
        BY <1>1, <3>1, BeforeIs
    <2>5. e - b \in Nat /\ i = e - b + 1 /\ i # 0
      <3>1. call \in 1 .. 3
        BY <2>1
      <3>2. Before(call + 1) - Before(call) \in Nat
        BY <1>1, <3>1, BeforeIs
      <3>3. i = e - b + 1 /\ e - b \in Nat
        BY <2>1, <2>2, <2>3, <2>4, <3>2
      <3> QED
        BY <3>3
    <2>6. crc' \in Word32 /\ Complement(crc') = crc
      BY <1>3, <2>1, ComplementIs
    <2>7. Register' = Register
      BY <2>1, <2>5, <2>6 DEF Register
    <2>8. Taken' = Taken
      <3>1. Taken = b + (i - 1)
        BY <2>3, <2>5 DEF Taken
      <3>2. Taken' = e
        BY <1>6, <2>1, <2>4 DEF Taken
      <3> QED
        BY <2>5, <3>1, <3>2
    <2>9. RegisterOK'
      BY <1>1, <1>5, <2>7, <2>8 DEF RegisterOK
    <2>10. call' \in 1 .. 4
      BY <2>1
    <2>11. (call \in 1 .. 3 => i <= Before(call + 1) - Before(call) + 1)'
      <3>1. ASSUME NEW c \in 1 .. 3
            PROVE  0 <= Before(c + 1) - Before(c) + 1
        <4>1. Before(c + 1) - Before(c) \in Nat
          BY <1>1, BeforeIs
        <4> QED
          BY <4>1
      <3>2. \A c \in 1 .. 3 : 0 <= <<0, ChecksumOffset, ChecksumOffset + 4, length'>>[c + 1]
                                   - <<0, ChecksumOffset, ChecksumOffset + 4, length'>>[c] + 1
        BY <1>2, <3>1 DEF Before
      <3> QED
        BY <2>1, <3>2 DEF Before
    <2>12. ChecksumType'
      BY <1>2, <1>3, <2>1, <2>6, <2>10, <2>11 DEF ChecksumType
    <2> QED
      BY <1>4, <2>9, <2>12 DEF ChecksumInv
  <1>10. CASE UNCHANGED checksumVars
    <2>1. UNCHANGED <<flash, length, damage, call, i, crc>>
      BY <1>10 DEF checksumVars
    <2>2. ChecksumType'
      BY <1>1, <2>1 DEF ChecksumType, Before
    <2>3. RegisterOK'
      BY <1>1, <2>1 DEF RegisterOK, Blanked, Register, Taken, Before
    <2> QED
      BY <1>4, <2>2, <2>3 DEF ChecksumInv
  <1> QED
    BY <1>7, <1>8, <1>9, <1>10 DEF calculate_image_crc32

LEMMA ChecksumInvariant == ChecksumSpec => [](ChecksumInv /\ FlashWritten)
  <1>1. ChecksumInv /\ FlashWritten /\ [calculate_image_crc32]_checksumVars
            => (ChecksumInv /\ FlashWritten)'
    BY ChecksumKeeps
  <1> QED
    BY <1>1, ChecksumBegins, PTL DEF ChecksumSpec

LEMMA DoneIsCrc == ChecksumInv => (call = 4 => crc = Crc32b(Blanked))
  <1> SUFFICES ASSUME ChecksumInv, call = 4 PROVE crc = Crc32b(Blanked)
    OBVIOUS
  <1>1. ChecksumType /\ RegisterOK
    BY DEF ChecksumInv
  <1>2. Blanked \in Seq(SUBSET Erased) /\ Len(Blanked) = length
    BY <1>1, BlankedType
  <1>3. PICK reg : IsRegister(Blanked, reg)
    BY <1>2, RegisterExists
  <1>4. i = 0 /\ crc \in Word32 /\ Before(4) = length
    BY <1>1, BeforeIs DEF ChecksumType
  <1>5. Complement(crc) = reg[length]
    BY <1>1, <1>3, <1>4 DEF RegisterOK, Register, Taken
  <1>6. Crc32b(Blanked) = Complement(reg[length])
    BY <1>2, <1>3, CrcIsRegister
  <1> QED
    BY <1>4, <1>5, <1>6, ComplementIs

(* The three chained calls of util_crc32 give the CRC-32 of the whole      *)
(* image with its checksum blanked out, for every image, every place of    *)
(* the checksum in it, and whatever the flash holds (bootloader.c:30-32,   *)
(* util.c:168-180).                                                        *)
THEOREM ChecksumIsCrcCorrect == ChecksumSpec => []ChecksumIsCrc
  <1>1. ChecksumInv => ChecksumIsCrc
    BY DoneIsCrc DEF ChecksumIsCrc, Blanked
  <1> QED
    BY <1>1, ChecksumInvariant, PTL

-----------------------------------------------------------------------------
(* Damage.  Two registers that differ in their lowest bits only are turned *)
(* back: what differed before was as much further up.                      *)

LEMMA TurnUndone ==
    ASSUME NEW x \in Word32, NEW y \in Word32, NEW low \in Nat, NEW high \in 0 .. 31,
           \A b \in Xor(Turned(x), Turned(y)) : low <= b /\ b < high
    PROVE  \A b \in Xor(x, y) : low + 1 <= b /\ b < high + 1
  <1>1. \A b \in Nat : b \in Turned(x) <=> ~(b + 1 \in x <=> 0 \in x /\ b \in UTIL_CRC32_POLY)
    BY TurnedIs
  <1>2. \A b \in Nat : b \in Turned(y) <=> ~(b + 1 \in y <=> 0 \in y /\ b \in UTIL_CRC32_POLY)
    BY TurnedIs
  <1>3. 0 \in x <=> 0 \in y
    <2>1. 31 + 1 \notin x /\ 31 + 1 \notin y /\ 31 \in UTIL_CRC32_POLY /\ 31 \in Nat
      BY DEF Word32, UTIL_CRC32_POLY
    <2>2. (31 \in Turned(x) <=> 0 \in x) /\ (31 \in Turned(y) <=> 0 \in y)
      BY <1>1, <1>2, <2>1
    <2>3. 31 \notin Xor(Turned(x), Turned(y))
      OBVIOUS
    <2> QED
      BY <2>2, <2>3, XorIs
  <1>4. ASSUME NEW b \in Xor(x, y)
        PROVE  low + 1 <= b /\ b < high + 1
    <2>1. ~(b \in x <=> b \in y) /\ b \in 0 .. 31
      BY XorIs DEF Word32, Xor
    <2>2. b # 0
      BY <1>3, <2>1
    <2>3. b - 1 \in Nat /\ (b - 1) + 1 = b
      BY <2>1, <2>2
    <2>4. b - 1 \in Xor(Turned(x), Turned(y))
      BY <1>1, <1>2, <1>3, <2>1, <2>3, XorIs
    <2>5. low <= b - 1 /\ b - 1 < high
      BY <2>4
    <2> QED
      BY <2>1, <2>5
  <1> QED
    BY <1>4

LEMMA ByteUndone ==
    ASSUME NEW x \in Word32, NEW y \in Word32, NEW high \in 0 .. 24,
           \A b \in Xor(EightShifts(x), EightShifts(y)) : b < high
    PROVE  \A b \in Xor(x, y) : 8 <= b /\ b < high + 8
  <1>1. PICK f \in [0 .. 8 -> Word32] :
            f[0] = x /\ (\A j \in 1 .. 8 : f[j] = Turned(f[j - 1])) /\ EightShifts(x) = f[8]
    BY EightShiftsIs
  <1>2. PICK g \in [0 .. 8 -> Word32] :
            g[0] = y /\ (\A j \in 1 .. 8 : g[j] = Turned(g[j - 1])) /\ EightShifts(y) = g[8]
    BY EightShiftsIs
  <1> DEFINE T == {n \in 0 .. 8 : \A b \in Xor(f[8 - n], g[8 - n]) : n <= b /\ b < high + n}
  <1>3. 0 \in T
    <2>1. \A b \in Xor(f[8], g[8]) : b \in 0 .. 31 /\ b < high
      BY <1>1, <1>2 DEF Xor, Word32
    <2>2. \A b \in Xor(f[8], g[8]) : 0 <= b /\ b < high + 0
      BY <2>1
    <2>3. 8 - 0 = 8
      OBVIOUS
    <2> QED
      BY <2>2, <2>3
  <1>4. ASSUME NEW n \in 1 .. 8, n - 1 \in T
        PROVE  n \in T
    <2>1. PICK j \in 1 .. 8 : j = 8 - (n - 1)
      OBVIOUS
    <2>2. j - 1 = 8 - n /\ high + (n - 1) \in 0 .. 31 /\ n - 1 \in Nat
      BY <2>1
    <2>3. PICK v \in Word32, w \in Word32 : v = f[j - 1] /\ w = g[j - 1]
      BY <1>1, <1>2
    <2>4. f[j] = Turned(v) /\ g[j] = Turned(w)
      BY <1>1, <1>2, <2>3
    <2>5. \A b \in Xor(Turned(v), Turned(w)) : n - 1 <= b /\ b < high + (n - 1)
      BY <1>4, <2>1, <2>4
    <2>6. \A b \in Xor(v, w) : (n - 1) + 1 <= b /\ b < (high + (n - 1)) + 1
      BY <2>2, <2>5, TurnUndone
    <2>7. (n - 1) + 1 = n /\ (high + (n - 1)) + 1 = high + n
      OBVIOUS
    <2> QED
      BY <2>2, <2>3, <2>6, <2>7
  <1>5. 8 \in T
    <2> HIDE DEF T
    <2>1. 8 \in Nat /\ 8 \in 0 .. 8
      OBVIOUS
    <2> QED
      BY <1>3, <1>4, <2>1, InductionUpTo
  <1>6. 8 - 8 = 0
    OBVIOUS
  <1> QED
    BY <1>1, <1>2, <1>5, <1>6

(* A change that begins with byte p and ends three bytes later at most     *)
(* changes the register at the end.                                        *)
LEMMA BurstSeen ==
    ASSUME NEW f \in Seq(SUBSET Erased), NEW g \in Seq(SUBSET Erased), Len(f) = Len(g),
           NEW p \in 1 .. Len(f), f[p] # g[p],
           \A n \in 1 .. Len(f) : n < p \/ n > p + 3 => f[n] = g[n],
           NEW r, IsRegister(f, r), NEW s, IsRegister(g, s)
    PROVE  r[Len(f)] # s[Len(f)]
  <1> DEFINE L == Len(f)
  <1>1. /\ L \in Nat /\ p \in Nat /\ 1 <= p /\ p <= L
        /\ \A n \in 1 .. L : f[n] \in SUBSET (0 .. 7) /\ g[n] \in SUBSET (0 .. 7)
    BY DEF Erased
  <1>2. /\ r \in [0 .. L -> Word32] /\ s \in [0 .. L -> Word32] /\ r[0] = s[0]
        /\ \A n \in 1 .. L : /\ r[n] = EightShifts(Xor(r[n - 1], f[n]))
                             /\ s[n] = EightShifts(Xor(s[n - 1], g[n]))
    BY DEF IsRegister
  <1>3. \A n \in 1 .. L : n < p \/ n > p + 3 => f[n] = g[n]
    OBVIOUS
  <1> HIDE DEF L
  <1> SUFFICES ASSUME r[L] = s[L] PROVE FALSE
    BY DEF L
  <1> DEFINE Same == {n \in 0 .. p - 1 : r[n] = s[n]}
  <1>4. r[p - 1] = s[p - 1]
    <2>1. 0 \in Same
      BY <1>1, <1>2
    <2>2. ASSUME NEW n \in 1 .. p - 1, n - 1 \in Same
          PROVE  n \in Same
      <3>1. n \in 1 .. L /\ n < p
        BY <1>1
      <3>2. f[n] = g[n] /\ r[n - 1] = s[n - 1]
        BY <1>3, <2>2, <3>1
      <3> QED
        BY <1>2, <3>1, <3>2
    <2>3. p - 1 \in Same
      <3> HIDE DEF Same
      <3>1. p - 1 \in Nat /\ p - 1 \in 0 .. p - 1
        BY <1>1
      <3> QED
        BY <2>1, <2>2, <3>1, InductionUpTo
    <2> QED
      BY <2>3
  <1> DEFINE room(k) == IF k < p + 3 THEN 8 * (p + 3 - k) ELSE 0
  <1> DEFINE T == {n \in 0 .. L - p : \A b \in Xor(r[L - n], s[L - n]) : b < room(L - n)}
  <1>5. ASSUME NEW k \in p .. L, \A b \in Xor(r[k], s[k]) : b < room(k)
        PROVE  \A b \in Xor(Xor(r[k - 1], f[k]), Xor(s[k - 1], g[k])) : 8 <= b /\ b < room(k) + 8
    <2>1. k \in 1 .. L /\ k - 1 \in 0 .. L
      BY <1>1
    <2>2. PICK v \in Word32, w \in Word32 : v = Xor(r[k - 1], f[k]) /\ w = Xor(s[k - 1], g[k])
      <3>1. \A v \in Word32 : \A x \in SUBSET (0 .. 7) : Xor(v, x) \in Word32
        BY XorType DEF Erased
      <3>2. r[k - 1] \in Word32 /\ s[k - 1] \in Word32
        BY <1>2, <2>1
      <3> QED
        BY <1>1, <2>1, <3>1, <3>2
    <2>3. r[k] = EightShifts(v) /\ s[k] = EightShifts(w)
      BY <1>2, <2>1, <2>2
    <2>4. PICK high \in 0 .. 24 : high = room(k)
      BY <1>1
    <2>5. \A b \in Xor(v, w) : 8 <= b /\ b < high + 8
      BY <1>5, <2>3, <2>4, ByteUndone
    <2> QED
      BY <2>2, <2>4, <2>5
  <1>6. \A b : \A k \in 1 .. L :
            b \in Xor(Xor(r[k - 1], f[k]), Xor(s[k - 1], g[k]))
            <=> ~(b \in Xor(r[k - 1], s[k - 1]) <=> b \in Xor(f[k], g[k]))
    BY Zenon DEF Xor
  <1>7. 0 \in T
    <2>1. L - 0 = L /\ 0 \in 0 .. L - p /\ Xor(r[L], s[L]) = {}
      BY <1>1 DEF Xor
    <2> QED
      BY <2>1
  <1>8. ASSUME NEW n \in 1 .. L - p, n - 1 \in T
        PROVE  n \in T
    <2>1. PICK k \in p .. L : k = L - (n - 1)
      BY <1>1
    <2>2. k - 1 = L - n /\ k \in 1 .. L /\ k > p /\ n \in 0 .. L - p
      BY <1>1, <2>1
    <2>3. \A b \in Xor(r[k], s[k]) : b < room(k)
      BY <1>8, <2>1
    <2>4. \A b \in Xor(Xor(r[k - 1], f[k]), Xor(s[k - 1], g[k])) : 8 <= b /\ b < room(k) + 8
      BY <1>5, <2>3
    <2>5. ASSUME NEW b \in Xor(r[k - 1], s[k - 1])
          PROVE  b < room(k - 1)
      <3>1. CASE k > p + 3
        <4>1. Xor(f[k], g[k]) = {}
          BY <1>3, <2>2, <3>1 DEF Xor
        <4>2. b \in Xor(Xor(r[k - 1], f[k]), Xor(s[k - 1], g[k]))
          BY <1>6, <2>2, <2>5, <4>1
        <4>3. room(k) = 0
          BY <1>1, <3>1
        <4>4. b \in 0 .. 31
          <5>1. k - 1 \in 0 .. L
            BY <1>1
          <5> QED
            BY <1>2, <2>5, <5>1 DEF Xor, Word32
        <4> QED
          BY <2>4, <4>2, <4>3, <4>4
      <3>2. CASE k <= p + 3
        <4>1. room(k) + 8 = room(k - 1) /\ room(k - 1) >= 8 /\ room(k) \in Nat
          BY <1>1, <2>2, <3>2
        <4>2. CASE b \in Xor(f[k], g[k])
          <5>1. b \in 0 .. 7
            BY <1>1, <2>2, <4>2 DEF Xor
          <5> QED
            BY <4>1, <5>1
        <4>3. CASE b \notin Xor(f[k], g[k])
          <5>1. b \in Xor(Xor(r[k - 1], f[k]), Xor(s[k - 1], g[k]))
            BY <1>6, <2>2, <2>5, <4>3
          <5> QED
            BY <2>4, <4>1, <5>1
        <4> QED
          BY <4>2, <4>3
      <3> QED
        BY <1>1, <2>1, <3>1, <3>2
    <2> QED
      BY <2>2, <2>5
  <1>9. \A b \in Xor(r[p], s[p]) : b < room(p)
    <2>1. L - p \in T
      <3> HIDE DEF T
      <3>1. L - p \in Nat /\ L - p \in 0 .. L - p
        BY <1>1
      <3> QED
        BY <1>7, <1>8, <3>1, InductionUpTo
    <2>2. L - (L - p) = p
      BY <1>1
    <2> QED
      BY <2>1, <2>2
  <1>10. PICK b \in 0 .. 7 : b \in Xor(f[p], g[p])
    <2>1. PICK x \in SUBSET (0 .. 7), y \in SUBSET (0 .. 7) : x = f[p] /\ y = g[p]
      BY <1>1, SMTT(30)
    <2>2. x # y
      BY <2>1
    <2>3. PICK b \in 0 .. 7 : ~(b \in x <=> b \in y)
      BY <2>2
    <2> QED
      BY <2>1, <2>3, XorIs
  <1>11. b \notin Xor(r[p - 1], s[p - 1])
    BY <1>4 DEF Xor
  <1>12. b \in Xor(Xor(r[p - 1], f[p]), Xor(s[p - 1], g[p]))
    <2>1. p \in 1 .. L
      BY <1>1
    <2> QED
      BY <1>6, <1>10, <1>11, <2>1
  <1>13. 8 <= b
    <2>1. p \in p .. L
      BY <1>1
    <2> QED
      BY <1>5, <1>9, <1>12, <2>1
  <1> QED
    BY <1>10, <1>13

(* A word is what its four bytes are.                                      *)
LEMMA BytesTell ==
    ASSUME NEW a \in Word32, NEW b \in Word32, \A n \in 0 .. 3 : Byte(a, n) = Byte(b, n)
    PROVE  a = b
  <1>1. \A x \in 0 .. 31 : \E n \in 0 .. 3 : \E k \in 0 .. 7 : x = 8 * n + k
    <2>1. ASSUME NEW x \in 0 .. 31
          PROVE  \E n \in 0 .. 3 : \E k \in 0 .. 7 : x = 8 * n + k
      <3>1. CASE x \in 0 .. 7
        BY <3>1
      <3>2. CASE x \in 8 .. 15
        <4>1. x - 8 \in 0 .. 7 /\ x = 8 * 1 + (x - 8)
          BY <3>2
        <4> QED
          BY <4>1
      <3>3. CASE x \in 16 .. 23
        <4>1. x - 16 \in 0 .. 7 /\ x = 8 * 2 + (x - 16)
          BY <3>3
        <4> QED
          BY <4>1
      <3>4. CASE x \in 24 .. 31
        <4>1. x - 24 \in 0 .. 7 /\ x = 8 * 3 + (x - 24)
          BY <3>4
        <4> QED
          BY <4>1
      <3> QED
        BY <3>1, <3>2, <3>3, <3>4
    <2> QED
      BY <2>1
  <1>2. ASSUME NEW x \in 0 .. 31
        PROVE  x \in a <=> x \in b
    <2>1. PICK n \in 0 .. 3, k \in 0 .. 7 : x = 8 * n + k
      BY <1>1
    <2>2. k \in Erased /\ Byte(a, n) = Byte(b, n)
      BY DEF Erased
    <2>3. (k \in Byte(a, n) <=> x \in a) /\ (k \in Byte(b, n) <=> x \in b)
      BY <2>1, <2>2 DEF Byte
    <2> QED
      BY <2>2, <2>3
  <1> QED
    BY <1>2 DEF Word32

LEMMA CrcType ==
    ASSUME NEW bytes \in Seq(SUBSET Erased)
    PROVE  Crc32b(bytes) \in Word32
  <1>1. PICK rest : Crc32b(bytes) = {b \in 0 .. 31 : 31 - b \notin rest[32]}
    BY CrcIs
  <1> QED
    BY <1>1 DEF Word32

(* The flash as it is seen by a computation that is done.                  *)
LEMMA DoneIs ==
    ASSUME ChecksumInv, call = 4, NEW f \in Files, WrittenFrom(f)
    PROVE  /\ f \in Seq(SUBSET Erased) /\ Len(f) = length
           /\ Blanked \in Seq(SUBSET Erased) /\ Len(Blanked) = length
           /\ crc = Crc32b(Blanked)
           /\ Field \subseteq 1 .. length
           /\ \A n \in 1 .. length :
                  Blanked[n] = IF n \in Field THEN f[n] ELSE Xor(f[n], DamageAt(n))
           /\ \A n \in Field :
                  flash[n] = Xor(Byte(Crc32b(f), n - ChecksumOffset - 1), DamageAt(n))
  <1>1. ChecksumType
    BY DEF ChecksumInv
  <1>2. /\ length \in Nat /\ length >= ChecksumOffset + 4 /\ ChecksumOffset \in Nat
        /\ length = Len(f)
        /\ \A n \in 1 .. length : flash[n] = Xor(Inserted(f, Crc32b(f))[n], DamageAt(n))
    BY <1>1, FilesAssumption DEF ChecksumType, WrittenFrom
  <1>3. Field \subseteq 1 .. length
    BY <1>2 DEF Field
  <1>4. /\ f \in Seq(SUBSET Erased)
        /\ \A n \in Field : f[n] = Erased
        /\ \A n \in 1 .. length :
               Inserted(f, Crc32b(f))[n]
               = IF n \in Field THEN Byte(Crc32b(f), n - ChecksumOffset - 1) ELSE f[n]
    BY <1>2, InsertedIs
  <1>5. /\ Blanked \in Seq(SUBSET Erased) /\ Len(Blanked) = length
        /\ \A n \in 1 .. length : Blanked[n] = IF n \in Field THEN Erased ELSE flash[n]
    BY <1>1, BlankedType
  <1>6. \A n \in 1 .. length :
            Blanked[n] = IF n \in Field THEN f[n] ELSE Xor(f[n], DamageAt(n))
    BY <1>2, <1>4, <1>5
  <1>7. \A n \in Field :
            flash[n] = Xor(Byte(Crc32b(f), n - ChecksumOffset - 1), DamageAt(n))
    BY <1>2, <1>3, <1>4
  <1> QED
    BY <1>2, <1>3, <1>4, <1>5, <1>6, <1>7, DoneIsCrc

(* Damage that leaves the rest of the image alone leaves its checksum.     *)
LEMMA RestAlone ==
    ASSUME ChecksumInv, call = 4, NEW f \in Files, WrittenFrom(f),
           DOMAIN damage \cap 1 .. length \subseteq Field
    PROVE  crc = Crc32b(f)
  <1>1. \A n \in 1 .. length : n \notin Field => DamageAt(n) = {}
    BY DEF DamageAt
  <1>2. \A x : Xor(x, {}) = x
    BY DEF Xor
  <1>3. \A n \in 1 .. length : Blanked[n] = f[n]
    BY <1>1, <1>2, DoneIs
  <1>4. Blanked = f
    BY <1>3, DoneIs
  <1> QED
    BY <1>4, DoneIs

LEMMA IntactIsValid ==
    ASSUME ChecksumInv, FlashWritten, call = 4, DOMAIN damage \cap 1 .. length = {}
    PROVE  ChecksumValid
  <1>1. PICK f \in Files : WrittenFrom(f)
    BY DEF FlashWritten
  <1>2. crc = Crc32b(f)
    BY <1>1, RestAlone
  <1>3. \A n \in 1 .. length : DamageAt(n) = {}
    BY DEF DamageAt
  <1>4. \A x : Xor(x, {}) = x
    BY DEF Xor
  <1> QED
    BY <1>1, <1>2, <1>3, <1>4, DoneIs, ZenonT(30) DEF ChecksumValid

(* What the build has left and nothing has changed, main accepts: with a   *)
(* checksum at any place, and an image of any length and content           *)
(* (insert_checksum.sh:16-25, main.c:26-30).                               *)
THEOREM IntactAccepted ==
    ChecksumSpec => [](call = 4 /\ DOMAIN damage \cap 1 .. length = {} => ChecksumValid)
  <1>1. ChecksumInv /\ FlashWritten
            => (call = 4 /\ DOMAIN damage \cap 1 .. length = {} => ChecksumValid)
    BY IntactIsValid
  <1> QED
    BY <1>1, ChecksumInvariant, PTL

(* The damage is to bytes in a row, four at most, of the checksum or of    *)
(* what is outside it.                                                     *)
Burst(d) ==
    /\ \E p \in Nat : DOMAIN d \subseteq p .. p + 3
    /\ \A n \in DOMAIN d : d[n] # {}
    /\ DOMAIN d \subseteq Field \/ DOMAIN d \cap Field = {}

BurstsOnly == \A d \in Damages : Burst(d)

LEMMA DamageIsSeen ==
    ASSUME BurstsOnly, ChecksumInv, FlashWritten, call = 4,
           DOMAIN damage \cap 1 .. length # {}
    PROVE  ~ChecksumValid
  <1>1. PICK f \in Files : WrittenFrom(f)
    BY DEF FlashWritten
  <1>2. Burst(damage) /\ damage \in Damages
    BY DEF FlashWritten, BurstsOnly
  <1>3. \A n : DamageAt(n) \in SUBSET Erased
    BY <1>2, DamagesAssumption DEF DamageAt
  <1>4. /\ f \in Seq(SUBSET Erased) /\ Len(f) = length /\ length \in Nat
        /\ Blanked \in Seq(SUBSET Erased) /\ Len(Blanked) = length
        /\ crc = Crc32b(Blanked)
        /\ Field \subseteq 1 .. length
        /\ \A n \in 1 .. length :
               Blanked[n] = IF n \in Field THEN f[n] ELSE Xor(f[n], DamageAt(n))
        /\ \A n \in Field :
               flash[n] = Xor(Byte(Crc32b(f), n - ChecksumOffset - 1), DamageAt(n))
    BY <1>1, DoneIs DEF ChecksumInv, ChecksumType
  <1>5. \A x, y : Xor(x, y) = x => y = {}
    <2>1. ASSUME NEW x, NEW y, Xor(x, y) = x
          PROVE  y = {}
      <3>1. \A e : e \notin y
        BY <2>1, XorIs
      <3> QED
        BY <3>1
    <2> QED
      BY <2>1
  <1>6. CASE DOMAIN damage \subseteq Field
    <2>1. crc = Crc32b(f)
      BY <1>1, <1>6, RestAlone
    <2>2. PICK n \in DOMAIN damage : n \in Field /\ DamageAt(n) # {}
      BY <1>2, <1>6 DEF Burst, DamageAt
    <2>3. flash[n] # Byte(crc, n - ChecksumOffset - 1)
      BY <1>4, <1>5, <2>1, <2>2
    <2> QED
      BY <2>2, <2>3 DEF ChecksumValid
  <1>7. CASE DOMAIN damage \cap Field = {}
    <2> DEFINE Hit == DOMAIN damage \cap 1 .. length
    <2>1. PICK p \in Hit : \A n \in Hit : p <= n
      <3>1. Hit \in SUBSET Nat /\ Hit # {}
        OBVIOUS
      <3> HIDE DEF Hit
      <3> QED
        BY <3>1, LeastNat
    <2>2. PICK q \in Nat : DOMAIN damage \subseteq q .. q + 3
      BY <1>2 DEF Burst
    <2>3. p \in 1 .. length /\ p \in q .. q + 3 /\ p \in Nat
      BY <2>1, <2>2
    <2>4. ASSUME NEW n \in 1 .. length, n < p \/ n > p + 3
          PROVE  Blanked[n] = f[n]
      <3>1. n \notin DOMAIN damage
        <4>1. CASE n < p
          BY <2>1, <2>3, <4>1
        <4>2. CASE n > p + 3
          BY <2>2, <2>3, <4>2
        <4> QED
          BY <2>4, <4>1, <4>2
      <3>2. DamageAt(n) = {} /\ Xor(f[n], {}) = f[n]
        BY <3>1 DEF DamageAt, Xor
      <3> QED
        BY <1>4, <3>2
    <2>5. Blanked[p] # f[p]
      <3>1. p \notin Field /\ DamageAt(p) # {}
        BY <1>2, <1>7, <2>1 DEF Burst, DamageAt
      <3> QED
        BY <1>4, <1>5, <2>3, <3>1
    <2>6. PICK r : IsRegister(Blanked, r)
      BY <1>4, RegisterExists
    <2>7. PICK s : IsRegister(f, s)
      BY <1>4, RegisterExists
    <2>8. r[length] # s[length]
      <3>1. PICK b \in Seq(SUBSET Erased) : b = Blanked
        BY <1>4
      <3>2. Len(b) = Len(f) /\ p \in 1 .. Len(b) /\ b[p] # f[p]
        BY <1>4, <2>3, <2>5, <3>1
      <3>3. \A n \in 1 .. Len(b) : n < p \/ n > p + 3 => b[n] = f[n]
        BY <1>4, <2>4, <3>1
      <3>4. IsRegister(b, r)
        BY <2>6, <3>1
      <3> QED
        BY <1>4, <2>7, <3>1, <3>2, <3>3, <3>4, BurstSeen
    <2>9. /\ r[length] \in Word32 /\ s[length] \in Word32
          /\ crc = Complement(r[length]) /\ Crc32b(f) = Complement(s[length])
      <3>1. length \in 0 .. length
        BY <1>4
      <3> QED
        BY <1>4, <2>6, <2>7, <3>1, CrcIsRegister DEF IsRegister
    <2>10. crc # Crc32b(f)
      BY <2>8, <2>9, ComplementIs
    <2>11. crc \in Word32 /\ Crc32b(f) \in Word32
      BY <1>4, CrcType
    <2>12. PICK m \in 0 .. 3 : Byte(crc, m) # Byte(Crc32b(f), m)
      BY <2>10, <2>11, BytesTell
    <2>13. PICK n \in Field : n - ChecksumOffset - 1 = m
      <3>1. ChecksumOffset \in Nat
        BY FilesAssumption
      <3>2. PICK n \in Int : n = ChecksumOffset + 1 + m
        BY <3>1
      <3>3. n \in Field /\ n - ChecksumOffset - 1 = m
        BY <3>1, <3>2 DEF Field
      <3> QED
        BY <3>3
    <2>14. DamageAt(n) = {} /\ n \in 1 .. length
      BY <1>4, <1>7 DEF DamageAt
    <2>15. flash[n] = Byte(Crc32b(f), m)
      <3>1. \A x : Xor(x, {}) = x
        BY DEF Xor
      <3> QED
        BY <1>4, <2>13, <2>14, <3>1
    <2> QED
      BY <2>12, <2>13, <2>15 DEF ChecksumValid
  <1> QED
    BY <1>2, <1>6, <1>7 DEF Burst

(* main accepts an image if and only if it is as the build left it, when   *)
(* what can happen to it is damage to four bytes in a row, or fewer, that  *)
(* are all of the checksum or all not of it: for every length of the image *)
(* (main.c:26-30, util.c:168-180).                                         *)
THEOREM DamageRefused ==
    ASSUME BurstsOnly
    PROVE  ChecksumSpec => []AcceptsExactlyIntact
  <1>1. ChecksumInv /\ FlashWritten => AcceptsExactlyIntact
    BY IntactIsValid, DamageIsSeen DEF AcceptsExactlyIntact
  <1> QED
    BY <1>1, ChecksumInvariant, PTL

=============================================================================
