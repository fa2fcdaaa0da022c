---------------------------- MODULE DfuDownload ----------------------------
(***************************************************************************)
(* download.c.  The USB interrupt collects the blocks of an image in page  *)
(* (dfu_download); the main loop writes a full page to the flash           *)
(* (dfu_download_busy) and, at the end, the last partial page and then the *)
(* first page, which had been held back (dfu_download_manifest).           *)
(*                                                                         *)
(* The two functions of the main loop can be interrupted anywhere, so each *)
(* is a sequence of actions driven by pc; address is the argument of the   *)
(* flash_control call under way.                                           *)
(***************************************************************************)
EXTENDS DfuDevice

(* buf with count cells of data copied to it at offset at.                 *)
Copied(buf, at, data, n) ==
    [k \in DOMAIN buf |-> IF k \in at .. at + n - 1 THEN data[k - at] ELSE buf[k]]

(* memset(buf + n, 0xFF, PAGE_SIZE - n)                                    *)
Padded(buf, n) == [k \in DOMAIN buf |-> IF k < n THEN buf[k] ELSE Blank]

-----------------------------------------------------------------------------
(* In the USB interrupt.                                                   *)

(* Mutant of dfu_download_start: what an earlier download has written is   *)
(* still counted.                                                          *)
StartKeepsCount ==
    /\ page_waiting_to_flush' = FALSE
    /\ page_count' = 0 /\ overflow_count' = 0
    /\ image_info' = [image_info EXCEPT !.magic = FALSE, !.length = 0]
    /\ done' = FALSE
    /\ UNCHANGED <<page, first_page, overflow, count>>

(* magic and length are cleared; start_address keeps its last value.       *)
dfu_download_start ==
    /\ page_waiting_to_flush' = FALSE
    /\ count' = 0 /\ page_count' = 0 /\ overflow_count' = 0
    /\ image_info' = [image_info EXCEPT !.magic = FALSE, !.length = 0]
    /\ done' = FALSE
    /\ UNCHANGED <<page, first_page, overflow>>

(* Mutant of dfu_download_check_done: the length is not looked at.         *)
CheckDoneWithoutLength ==
    IF Word(count + page_count) < MINIMUM_SIZE THEN "ERROR_TARGET" ELSE "OK"

dfu_download_check_done ==
    LET progress == Word(count + page_count)
    IN  CASE progress < image_info.length -> "ERROR_NOT_DONE"
          [] progress >= image_info.length /\ progress < MINIMUM_SIZE -> "ERROR_TARGET"
          [] OTHER -> "OK"

(* Mutant of HeaderStatus: the start address is not looked at.             *)
HeaderStatusAnyStart(info) == IF info.magic THEN "OK" ELSE "ERROR_TARGET"

(* What dfu_download_verify_header returns for the header it has read.     *)
HeaderStatus(info) ==
    CASE ~info.magic -> "ERROR_TARGET"
      [] info.magic /\ info.start \notin {APP_START, BOOTLOADER_START} -> "ERROR_FILE"
      [] OTHER -> "OK"

(* image_info is overwritten even when the header is refused.              *)
dfu_download_verify_header(buf) ==
    LET info == HeaderAt(buf, 0)
    IN  /\ image_info' = info
        /\ IF HeaderStatus(info) = "OK" THEN UNCHANGED dfuVars
                                        ELSE Fail(HeaderStatus(info))

(* Mutant of PagePart: the end of the page is not looked at.               *)
WholeBlock(n) == n

(* How much of a block of n cells still goes to page.                      *)
PagePart(n) == IF n > PAGE_SIZE - page_count THEN PAGE_SIZE - page_count ELSE n

(* The header has just become complete in page.                            *)
HeaderArrives(filled) ==
    count = 0 /\ filled >= MINIMUM_SIZE /\ page_count < MINIMUM_SIZE

(* The callback of the request that read a block: n is what arrived, and   *)
(* request.status is not looked at.                                        *)
dfu_download(n) ==
    LET fits   == PagePart(n)
        filled == page_count + fits
        block  == [k \in 0 .. TRANSFER_SIZE - 1 |-> <<file, sent + k>>]
        rest   == [k \in 0 .. TRANSFER_SIZE - 1 |-> <<file, sent + fits + k>>]
    IN  /\ page' = Copied(page, page_count, block, fits)
        /\ overflow' = Copied(overflow, 0, rest, n - fits)
        /\ overflow_count' = n - fits
        /\ page_count' = filled
        /\ page_waiting_to_flush' = (filled = PAGE_SIZE)
        /\ IF HeaderArrives(filled)
           THEN dfu_download_verify_header(page')
           ELSE UNCHANGED <<state, status, image_info>>
        /\ usb_util_ack
        /\ UNCHANGED <<first_page, count, done>>

-----------------------------------------------------------------------------
(* In the main loop.                                                       *)

Return == pc' = "poll" /\ address' = 0 /\ windex' = 0

CallErase(a, at) ==
    pc' = at /\ address' = a /\ EraseBegins(a) /\ UNCHANGED windex

CallProgram(a, at) == pc' = at /\ address' = a /\ windex' = 0

(* The page flash_control_program_page is working on.                      *)
ProgramBuffer == IF pc = "firstProgram" THEN first_page ELSE page

(* Mutant of HeldBack: the first page is written like every other.         *)
NeverHeldBack == FALSE

(* The first page is not written when it is complete: see first_page.      *)
HeldBack == count = 0

(* Mutant of CarriedOver: the next page starts empty.                      *)
NothingCarriedOver == 0

(* What is already in page for the next one.                               *)
CarriedOver == overflow_count

BusyErase ==
    /\ pc = "busy"
    /\ dirty' = TRUE
    /\ CallErase(Word(image_info.start + count), "busyErase")
    /\ UNCHANGED <<dfuVars, downloadVars>>

BusyErased ==
    /\ pc = "busyErase" /\ EraseSucceeds(address)
    /\ IF HeldBack
       THEN first_page' = page /\ pc' = "busyAdvance" /\ UNCHANGED <<address, windex>>
       ELSE CallProgram(address, "busyProgram") /\ UNCHANGED first_page
    /\ UNCHANGED <<dfuVars, dirty, page, overflow, count, page_count, overflow_count,
                   page_waiting_to_flush, done, image_info>>

BusyProgrammed ==
    /\ pc = "busyProgram" /\ ProgramSucceeds(ProgramBuffer)
    /\ pc' = "busyAdvance"
    /\ UNCHANGED <<dfuVars, dirty, downloadVars, address, windex>>

(* The next page is prepared one assignment at a time, each of which an    *)
(* interrupt can come before.                                              *)
BusyAdvance ==
    /\ pc = "busyAdvance" /\ pc' = "busyCarry"
    /\ count' = Word(count + PAGE_SIZE)
    /\ UNCHANGED <<page, page_count, overflow_count, page_waiting_to_flush>>

BusyCarry ==
    /\ pc = "busyCarry" /\ pc' = "busyCount"
    /\ page' = Copied(page, 0, overflow, overflow_count)
    /\ UNCHANGED <<count, page_count, overflow_count, page_waiting_to_flush>>

BusyCount ==
    /\ pc = "busyCount" /\ pc' = "busyEmpty"
    /\ page_count' = CarriedOver
    /\ UNCHANGED <<page, count, overflow_count, page_waiting_to_flush>>

BusyEmpty ==
    /\ pc = "busyEmpty" /\ pc' = "busyFlushed"
    /\ overflow_count' = 0
    /\ UNCHANGED <<page, count, page_count, page_waiting_to_flush>>

BusyFlushed ==
    /\ pc = "busyFlushed" /\ pc' = "busyPublish"
    /\ page_waiting_to_flush' = FALSE
    /\ UNCHANGED <<page, count, page_count, overflow_count>>

BusyNextPage ==
    /\ BusyAdvance \/ BusyCarry \/ BusyCount \/ BusyEmpty \/ BusyFlushed
    /\ UNCHANGED <<dfuVars, dirty, flash, first_page, overflow, done, image_info,
                   address, windex>>

BusyPublish ==
    /\ pc = "busyPublish"
    /\ Enter("DOWNLOAD_SYNC")
    /\ Return
    /\ UNCHANGED <<dirty, flash, downloadVars>>

dfu_download_busy ==
    BusyErase \/ BusyErased \/ BusyProgrammed \/ BusyNextPage \/ BusyPublish

-----------------------------------------------------------------------------

(* An image of less than one page: its first page is still in page.        *)
ManifestFirst ==
    /\ pc = "manifest" /\ HeldBack
    /\ first_page' = Padded(page, page_count)
    /\ page_count' = 0
    /\ dirty' = TRUE
    /\ CallErase(image_info.start, "firstErase")
    /\ UNCHANGED <<dfuVars, page, overflow, count, overflow_count,
                   page_waiting_to_flush, done, image_info>>

ManifestFirstErased ==
    /\ pc = "firstErase" /\ EraseSucceeds(address)
    /\ pc' = "tail"
    /\ UNCHANGED <<dfuVars, dirty, downloadVars, address, windex>>

(* The page in progress, or at once the first page if there is none.       *)
ManifestTail ==
    /\ \/ pc = "manifest" /\ ~HeldBack
       \/ pc = "tail"
    /\ IF page_count # 0
       THEN /\ page' = Padded(page, page_count)
            /\ CallErase(Word(image_info.start + count), "tailErase")
       ELSE /\ CallProgram(image_info.start, "firstProgram")
            /\ UNCHANGED <<page, flash>>
    /\ UNCHANGED <<dfuVars, dirty, first_page, overflow, count, page_count,
                   overflow_count, page_waiting_to_flush, done, image_info>>

ManifestTailErased ==
    /\ pc = "tailErase" /\ EraseSucceeds(address)
    /\ CallProgram(address, "tailProgram")
    /\ UNCHANGED <<dfuVars, dirty, downloadVars>>

ManifestTailProgrammed ==
    /\ pc = "tailProgram" /\ ProgramSucceeds(ProgramBuffer)
    /\ CallProgram(image_info.start, "firstProgram")
    /\ UNCHANGED <<dfuVars, dirty, downloadVars>>

(* dfu_download_stop sets done.                                            *)
ManifestFirstProgrammed ==
    /\ pc = "firstProgram" /\ ProgramSucceeds(ProgramBuffer)
    /\ dirty' = FALSE
    /\ done' = TRUE
    /\ pc' = "manifestPublish"
    /\ UNCHANGED <<dfuVars, page, first_page, overflow, count, page_count,
                   overflow_count, page_waiting_to_flush, image_info, address, windex>>

ManifestPublish ==
    /\ pc = "manifestPublish"
    /\ Enter("MANIFEST_SYNC")
    /\ Return
    /\ UNCHANGED <<dirty, flash, downloadVars>>

dfu_download_manifest ==
    \/ ManifestFirst \/ ManifestFirstErased
    \/ ManifestTail \/ ManifestTailErased \/ ManifestTailProgrammed
    \/ ManifestFirstProgrammed \/ ManifestPublish

-----------------------------------------------------------------------------
(* Inside the flash_control calls, and their error returns: the caller     *)
(* puts the error in state and status and goes back to the main loop.      *)

Programming == pc \in {"busyProgram", "tailProgram", "firstProgram"}

FlashProgramCell ==
    /\ Programming /\ ProgramCell(ProgramBuffer)
    /\ UNCHANGED <<dfuVars, dirty, downloadVars, pc, address>>

(* Mutant of FlashEraseFails: the callers return without an error.         *)
EraseErrorIgnored ==
    /\ pc \in {"busyErase", "firstErase", "tailErase"}
    /\ \E ret \in {"ERROR_ERASE", "ERROR_CHECK_ERASED"} : EraseFails(address, ret)
    /\ Return
    /\ UNCHANGED <<dfuVars, dirty, downloadVars>>

FlashEraseFails ==
    /\ pc \in {"busyErase", "firstErase", "tailErase"}
    /\ \E ret \in {"ERROR_ERASE", "ERROR_CHECK_ERASED"} :
           EraseFails(address, ret) /\ Fail(ret)
    /\ Return
    /\ UNCHANGED <<dirty, downloadVars>>

(* Mutant of FlashProgramFails: a page that is not as it should be is      *)
(* programmed once more.                                                   *)
ProgramRetried ==
    /\ Programming
    /\ \E ret \in {"ERROR_PROGRAM", "ERROR_VERIFY"} : ProgramFails(ProgramBuffer, ret)
    /\ windex' = 0
    /\ UNCHANGED <<dfuVars, dirty, downloadVars, pc, address>>

FlashProgramFails ==
    /\ Programming
    /\ \E ret \in {"ERROR_PROGRAM", "ERROR_VERIFY"} :
           ProgramFails(ProgramBuffer, ret) /\ Fail(ret)
    /\ Return
    /\ UNCHANGED <<dirty, downloadVars>>

FlashControlStep == FlashProgramCell \/ FlashEraseFails \/ FlashProgramFails

(* A step of the main loop in download.c.                                  *)
DownloadStep ==
    /\ dfu_download_busy \/ dfu_download_manifest \/ FlashControlStep
    /\ UNCHANGED <<uploadVars, requestVars, hostVars>>

=============================================================================
