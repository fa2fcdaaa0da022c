------------------------------ MODULE Console ------------------------------
(***************************************************************************)
(* util_printf and util_vsnprintf.  There is one printf_buf and no lock,   *)
(* and two writers: the main loop, which prints from flash_control.c, and  *)
(* the USB interrupt, which prints from dfu_download (download.c:99) and   *)
(* can come at any point of what the main loop does to the buffer.         *)
(*                                                                         *)
(* A message is the sequence of what it consists of: single characters,    *)
(* and numbers with their width in the format.  Of a cell of the buffer    *)
(* only whether it holds the terminator is told apart.                     *)
(***************************************************************************)
EXTENDS Words, SequencesExt

CONSTANTS
    BUF_LEN,          \* sizeof(printf_buf)
    MainMessages,     \* what the main loop prints
    UsbMessages       \* what the interrupt prints

ASSUME BufferAssumption == BUF_LEN \in Nat \ {0, 1}

VARIABLES
    printf_buf,
    at,         \* where the main loop is: "idle", "format", "copy", "print"
    fmt,        \* the part of its message it has not looked at
    size,       \* variable size of util_vsnprintf: the offset of buf_ptr
    left,       \* cells of the current part memcpy has still to write
    buf         \* variable buf of util_printf: the next cell to print

consoleVars == <<printf_buf, at, fmt, size, left, buf>>

Char == [kind |-> "char"]

Num(conversion, zero_pad, val) ==
    [kind |-> conversion, zero_pad |-> zero_pad, val |-> val]

-----------------------------------------------------------------------------
(* Numbers are written in hexadecimal, whatever the conversion.            *)

Negative(number) == number.kind = "d" /\ 31 \in number.val

Magnitude(number) == IF Negative(number) THEN Negated(number.val) ELSE number.val

Numbers ==
    {part \in UNION {Range(message) : message \in MainMessages \cup UsbMessages} :
        part.kind # "char"}

ASSUME MessageAssumption ==
    /\ \A number \in Numbers :
           number.kind \in {"d", "X"} /\ number.zero_pad \in Nat /\ number.val \in Word32
    /\ MainMessages \cup UsbMessages \subseteq Seq(Numbers \cup {Char})

HexDigits ==
    [number \in Numbers |->
        IF number.val = {} THEN 1 ELSE util_log2(Magnitude(number)) \div 4 + 1]

(* The cells a part of a message takes.                                    *)
Length ==
    [part \in Numbers \cup {Char} |->
        IF part = Char THEN 1
        ELSE Max({HexDigits[part], Min({part.zero_pad, 8})}) +
             (IF Negative(part) THEN 1 ELSE 0)]

(* Mutant of Fits: no room is left for the terminator.                     *)
FitsExactly(n, slen) == n + slen <= BUF_LEN

(* The first part that does not fit ends the message.                      *)
Fits(n, slen) == n + slen < BUF_LEN - 1

-----------------------------------------------------------------------------
(* The main loop.                                                          *)

ConsoleInit ==
    /\ printf_buf = [k \in 0 .. BUF_LEN - 1 |-> "nul"]
    /\ at = "idle" /\ fmt = <<>> /\ size = 0 /\ left = 0 /\ buf = 0

Put(mem, k, char) == [mem EXCEPT ![k] = char]

CallPrintf ==
    /\ at = "idle" /\ at' = "format"
    /\ fmt' \in MainMessages /\ size' = 0
    /\ UNCHANGED <<printf_buf, left, buf>>

FormatPart ==
    /\ at = "format" /\ fmt # <<>>
    /\ IF Fits(size, Length[Head(fmt)])
       THEN at' = "copy" /\ left' = Length[Head(fmt)] /\ fmt' = Tail(fmt)
       ELSE fmt' = <<>> /\ UNCHANGED <<at, left>>
    /\ UNCHANGED <<printf_buf, size, buf>>

CopyCell ==
    /\ at = "copy"
    /\ printf_buf' = Put(printf_buf, size, "text")
    /\ size' = size + 1 /\ left' = left - 1
    /\ at' = IF left = 1 THEN "format" ELSE "copy"
    /\ UNCHANGED <<fmt, buf>>

Terminated(mem, k) == Put(mem, k, "nul")

Terminate ==
    /\ at = "format" /\ fmt = <<>> /\ at' = "print"
    /\ printf_buf' = Terminated(printf_buf, size) /\ buf' = 0
    /\ UNCHANGED <<fmt, size, left>>

(* The loop of util_printf.                                                *)
PrintCell ==
    /\ at = "print"
    /\ IF printf_buf[buf] = "nul" THEN at' = "idle" /\ UNCHANGED buf
                                  ELSE buf' = buf + 1 /\ UNCHANGED at
    /\ UNCHANGED <<printf_buf, fmt, size, left>>

MainPrints == CallPrintf \/ FormatPart \/ CopyCell \/ Terminate \/ PrintCell

-----------------------------------------------------------------------------
(* The interrupt prints a message from the first cell to the last.         *)

(* The cells the first n parts of a message take.                          *)
UpTo(message) ==
    LET cells[n \in 0 .. Len(message)] ==
            IF n = 0 THEN 0 ELSE cells[n - 1] + Length[message[n]]
    IN  cells

(* The parts are printed that come before the first that does not fit.     *)
Placed ==
    LET whole(message, n) ==
            \A k \in 1 .. n : Fits(UpTo(message)[k - 1], Length[message[k]])
    IN  [message \in UsbMessages |->
            UpTo(message)[Max({n \in 0 .. Len(message) : whole(message, n)})]]

(* Mutant of InterruptedBuf: buf is one variable for all calls.            *)
SharedBuf == 0

(* Every call of util_printf has a buf of its own.                         *)
InterruptedBuf == buf

UsbPrints ==
    /\ \E message \in UsbMessages :
           LET n == Placed[message]
           IN  printf_buf' = Terminated([k \in 0 .. BUF_LEN - 1 |->
                                            IF k < n THEN "text" ELSE printf_buf[k]], n)
    /\ buf' = InterruptedBuf
    /\ UNCHANGED <<at, fmt, size, left>>

ConsoleNext == MainPrints \/ UsbPrints

(* The main loop goes on; the interrupt may come as often as it likes.     *)
ConsoleSpec == ConsoleInit /\ [][ConsoleNext]_consoleVars /\ WF_consoleVars(MainPrints)

-----------------------------------------------------------------------------

(* What is written lies in the buffer, with the terminator behind it       *)
(* (util.c:44, 82, 143, 155).                                              *)
InsideBuffer ==
    /\ at \in {"format", "copy"} => size + left < BUF_LEN
    /\ at = "print" => buf < BUF_LEN

(* While the main loop prints there is a terminator ahead of it: wherever  *)
(* the interrupt has put its own message over the one that is being        *)
(* written or printed, the loop does not run out of the buffer.            *)
TerminatorAhead ==
    at = "print" => \E k \in buf .. BUF_LEN - 1 : printf_buf[k] = "nul"

(* A number is printed with all its digits and no more than its padding    *)
(* asks for, and fits int_buf (util.c:14-22, 115-140).                     *)
NumbersWhole ==
    \A number \in Range(fmt) \ {Char} :
        LET digits == HexDigits[number]
        IN  /\ \A b \in Magnitude(number) : b < 4 * digits
            /\ digits > 1 => \E b \in Magnitude(number) : b >= 4 * (digits - 1)
            /\ Length[number] < 20

(* Printing comes to an end, however often the interrupt writes into the   *)
(* buffer in the meantime (device util.c:24-30).                           *)
PrintingEnds == at = "print" ~> at = "idle"

=============================================================================
