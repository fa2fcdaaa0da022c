---------------------------- MODULE FlashControl ----------------------------
(***************************************************************************)
(* flash_control.c: erasing and programming one page of flash, seen from   *)
(* the main loop that calls it.  Both calls take long enough for a power   *)
(* loss, or an interrupt, to come in the middle, so each is several steps: *)
(* an erase begins and ends, a program writes one cell per step and then   *)
(* verifies.  The MXC_FLC functions and the flash array are outside the    *)
(* repository: what they do is taken from how flash_control.c uses them.   *)
(***************************************************************************)
EXTENDS MemoryLayout

CONSTANT
    Faults   \* what may go wrong in the environment, a subset of:
             \*   "flash"  an erase or a program fails, or goes wrong silently
             \*   "usb"    a transfer is aborted, or the library refuses one
             \*   "power"  the supply fails at any moment
             \*   "early"  the host does not wait for bwPollTimeout
             \*   "repeat" the host sends a block a second time

ASSUME FaultAssumption == Faults \subseteq {"flash", "usb", "power", "early", "repeat"}

VARIABLES
    flash,     \* contents of the flash
    pc,        \* where the main loop is
    address,   \* local variable address of the download functions
    windex     \* loop variable i of flash_control_program_page

mainVars == <<pc, address, windex>>

PageOf(a) == {x \in FlashAddress : PAGE_ALIGN(x) = PAGE_ALIGN(a)}

PageSetTo(a, cell) == [x \in FlashAddress |-> IF x \in PageOf(a) THEN cell ELSE flash[x]]

-----------------------------------------------------------------------------
(* flash_control_erase_page                                                *)

(* MXC_FLC_PageErase starts on the page of a, unless it refuses: it does   *)
(* for an address that is not in the flash.                                *)
EraseBegins(a) ==
    \/ PageOf(a) # {} /\ flash' = PageSetTo(a, Torn)
    \/ (PageOf(a) = {} \/ "flash" \in Faults) /\ UNCHANGED flash

EraseUnderWay(a) == PageOf(a) # {} /\ \A x \in PageOf(a) : flash[x] = Torn

(* The call returns 0: the check loop has read 0xFF all over the page.     *)
EraseSucceeds(a) == EraseUnderWay(a) /\ flash' = PageSetTo(a, Blank)

(* The call returns ret, and the page is left as it is.                    *)
EraseFails(a, ret) ==
    /\ \/ ret = "ERROR_ERASE" /\ (PageOf(a) = {} \/ "flash" \in Faults)
       \/ ret = "ERROR_CHECK_ERASED" /\ EraseUnderWay(a) /\ "flash" \in Faults
    /\ UNCHANGED flash

-----------------------------------------------------------------------------
(* flash_control_program_page                                              *)

ProgramTarget == PAGE_ALIGN(address) + windex

(* Programming only clears bits: it takes an erased cell to the new value, *)
(* leaves a cell alone where the new value is all ones, and garbles        *)
(* anything else.                                                          *)
Programmed(old, new) ==
    CASE old = Blank                 -> new
      [] new = Blank \/ old = new    -> old
      [] OTHER                       -> Torn

(* One MXC_FLC_Write128 that returns 0, whatever it did to the cell.       *)
ProgramCell(buf) ==
    /\ windex < PAGE_SIZE /\ ProgramTarget \in FlashAddress
    /\ \/ flash' = [flash EXCEPT ![ProgramTarget] = Programmed(@, buf[windex])]
       \/ "flash" \in Faults /\ flash' = [flash EXCEPT ![ProgramTarget] = Torn]
    /\ windex' = windex + 1

(* Mutant of Verified: the loop ends one unit early.                       *)
VerifiedButLast(buf) ==
    \A k \in PageIndex \ {PAGE_SIZE - 1} :
        /\ PAGE_ALIGN(address) + k \in FlashAddress
        /\ flash[PAGE_ALIGN(address) + k] = buf[k]

Verified(buf) ==
    \A k \in PageIndex :
        /\ PAGE_ALIGN(address) + k \in FlashAddress
        /\ flash[PAGE_ALIGN(address) + k] = buf[k]

ProgramSucceeds(buf) == windex = PAGE_SIZE /\ Verified(buf) /\ UNCHANGED flash

ProgramFails(buf, ret) ==
    /\ \/ /\ ret = "ERROR_PROGRAM" /\ windex < PAGE_SIZE
          /\ ProgramTarget \notin FlashAddress \/ "flash" \in Faults
       \/ ret = "ERROR_VERIFY" /\ windex = PAGE_SIZE /\ ~Verified(buf)
    /\ UNCHANGED flash

-----------------------------------------------------------------------------
(* What the rest of the program reads back from the flash.                 *)

FlashHeaderFile(base) ==
    IF {base, base + MINIMUM_SIZE - 1} \subseteq FlashAddress
    THEN HeaderFile(flash, base) ELSE NoFile

FlashHeader(base) ==
    LET f == FlashHeaderFile(base)
    IN  IF f = NoFile THEN NoHeader ELSE FileHeader[f]

(* calculate_image_crc32(base) equals the checksum in the header at base.  *)
(* The checksum is taken to tell an image from anything that differs from  *)
(* it in the length bytes the header announces.                            *)
ChecksumMatches(base) ==
    LET f == FlashHeaderFile(base)
    IN  /\ f # NoFile
        /\ \A o \in 0 .. FileHeader[f].length - 1 :
               base + o \in FlashAddress /\ flash[base + o] = <<f, o>>

(* calculate_image_crc32(base) gets to its end.  The length it has left    *)
(* after the header is unsigned: for a length that ends before, or behind  *)
(* the flash, it reads on until there is no memory to read.                *)
ChecksumEnds(base) ==
    LET length == FlashHeader(base).length
    IN  length >= MINIMUM_SIZE /\ base + length - 1 \in FlashAddress

(* The file whose image the flash holds, whole, at base.                   *)
FileAt(base) == IF ChecksumMatches(base) THEN FlashHeaderFile(base) ELSE NoFile

=============================================================================
