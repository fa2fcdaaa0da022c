------------------------------ MODULE Checksum ------------------------------
(***************************************************************************)
(* The checksum of an image: insert_checksum.sh writes it into the file,   *)
(* and calculate_image_crc32 computes it again over what is in the flash,  *)
(* in three calls of util_crc32 that are chained through crc.              *)
(*                                                                         *)
(* A byte is the set of its bits that are one.  The length of the image is *)
(* a value of its own and not part of its bytes.                           *)
(***************************************************************************)
EXTENDS Words, SequencesExt

CONSTANTS
    Files,            \* images as the linker leaves them, sequences of bytes
    ChecksumOffset,   \* variable checksum_offset of calculate_image_crc32
    Damages           \* functions from places in the flash to bits that changed

Erased == 0 .. 7

ASSUME FilesAssumption ==
    /\ ChecksumOffset \in Nat
    /\ \A file \in Files :
           /\ file \in Seq(SUBSET Erased) /\ Len(file) >= ChecksumOffset + 4
           /\ \A n \in 1 .. 4 : file[ChecksumOffset + n] = Erased

ASSUME DamagesAssumption == \A d \in Damages : \A n \in DOMAIN d : d[n] \subseteq Erased

VARIABLES
    flash,      \* the bytes at the address of the image, and those behind it
    length,     \* image_info->length
    damage,     \* what happened to the flash since the image was written
    call,       \* which call of util_crc32 comes or runs, 4 when all are done
    i,          \* variable i of util_crc32, 0 before it is called
    crc         \* variable crc of both functions

checksumVars == <<flash, length, damage, call, i, crc>>

(* Where the checksum is.                                                  *)
Field == ChecksumOffset + 1 .. ChecksumOffset + 4

(* Byte n of a word, the lowest first.                                     *)
Byte(word, n) == {b \in Erased : 8 * n + b \in word}

-----------------------------------------------------------------------------
(* The checksum as it is defined: the remainder of a division by the       *)
(* generator polynomial.  A polynomial over the two-element field is the   *)
(* set of the exponents it has.                                            *)

Generator == {32, 26, 23, 22, 16, 12, 11, 10, 8, 7, 5, 4, 2, 1, 0}

(* A step of a long division: a multiple of the generator is subtracted if *)
(* that takes the exponent n away.                                         *)
Divided(d, n) ==
    LET multiple == {e + n - 32 : e \in Generator}
    IN  CHOOSE r \in {d, Xor(d, multiple)} : n \notin r

(* cksum -a crc32b: the division goes from the highest exponent down.      *)
Crc32b(file) ==
    LET high     == 8 * Len(file) + 31
        ones     == UNION {{high - 8 * (n - 1) - b : b \in file[n]} : n \in DOMAIN file}
        rest[n \in 32 .. high + 1] ==
            IF n > high THEN Xor(ones, high - 31 .. high)
            ELSE Divided(rest[n + 1], n)
        remainder == rest[32]
    IN  {b \in 0 .. 31 : 31 - b \notin remainder}

(* Mutant of Inserted: the bytes of the checksum are not turned round.     *)
InsertedHighestFirst(file, checksum) ==
    [n \in DOMAIN file |->
        IF n \in Field THEN Byte(checksum, ChecksumOffset + 4 - n) ELSE file[n]]

(* insert_checksum.sh                                                      *)
Inserted(file, checksum) ==
    [n \in DOMAIN file |->
        IF n \in Field THEN Byte(checksum, n - ChecksumOffset - 1) ELSE file[n]]

Images == {Inserted(file, Crc32b(file)) : file \in Files}

-----------------------------------------------------------------------------

UTIL_CRC32_POLY == {31, 30, 29, 27, 26, 24, 23, 21, 20, 19, 15, 9, 8, 5}

(* What the eight turns of the inner loop make of crc.                     *)
EightShifts(word) ==
    LET turn[j \in 0 .. 8] ==
            IF j = 0 THEN word
            ELSE LET w == turn[j - 1]
                 IN  Xor(ShiftRight(w, 1), IF 0 \in w THEN UTIL_CRC32_POLY ELSE {})
    IN  turn[8]

(* The image is followed by one byte that does not belong to it.           *)
ChecksumInit ==
    \E image \in Images, d \in Damages :
        /\ damage = d
        /\ length = Len(image)
        /\ flash = [n \in 1 .. Len(image) + 1 |->
                       Xor(IF n > Len(image) THEN Erased ELSE image[n],
                           IF n \in DOMAIN d THEN d[n] ELSE {})]
        /\ call = 1 /\ i = 0 /\ crc = {}

default_checksum == <<Erased, Erased, Erased, Erased>>

(* Mutant of Buffer: the third call starts with the checksum.              *)
BufferFromTheField ==
    CASE call = 1 -> SubSeq(flash, 1, ChecksumOffset)
      [] call = 2 -> default_checksum
      [] call = 3 -> SubSeq(flash, ChecksumOffset + 1, length - 4)

(* What the three calls are handed.                                        *)
Buffer ==
    CASE call = 1 -> SubSeq(flash, 1, ChecksumOffset)
      [] call = 2 -> default_checksum
      [] call = 3 -> SubSeq(flash, ChecksumOffset + 5, length)

CallCrc32 ==
    /\ call \in 1 .. 3 /\ i = 0
    /\ crc' = Complement(crc) /\ i' = 1
    /\ UNCHANGED <<flash, length, damage, call>>

NextByte ==
    /\ call \in 1 .. 3 /\ i \in DOMAIN Buffer
    /\ crc' = EightShifts(Xor(crc, Buffer[i])) /\ i' = i + 1
    /\ UNCHANGED <<flash, length, damage, call>>

ReturnCrc32 ==
    /\ call \in 1 .. 3 /\ i = Len(Buffer) + 1
    /\ crc' = Complement(crc) /\ call' = call + 1 /\ i' = 0
    /\ UNCHANGED <<flash, length, damage>>

calculate_image_crc32 == CallCrc32 \/ NextByte \/ ReturnCrc32

ChecksumSpec == ChecksumInit /\ [][calculate_image_crc32]_checksumVars

-----------------------------------------------------------------------------

(* The comparison of main.                                                 *)
ChecksumValid == \A n \in Field : flash[n] = Byte(crc, n - ChecksumOffset - 1)

(* Three chained calls give the checksum of the whole image with its       *)
(* checksum blanked out, whatever the flash holds and however many bytes   *)
(* each part has (bootloader.c:30-32, util.c:168-180).                     *)
ChecksumIsCrc ==
    call = 4 =>
        crc = Crc32b([n \in 1 .. length |-> IF n \in Field THEN Erased ELSE flash[n]])

(* main accepts an image if and only if it is as the build left it: damage *)
(* to a byte of it or to two neighbours, the checksum included, is seen,   *)
(* and what follows the image does not matter (main.c:26-30).              *)
AcceptsExactlyIntact ==
    call = 4 => (ChecksumValid <=> DOMAIN damage \cap 1 .. length = {})

=============================================================================
