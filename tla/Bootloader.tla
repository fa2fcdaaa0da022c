----------------------------- MODULE Bootloader -----------------------------
(***************************************************************************)
(* The whole program: main.c, the jump of bootloader.c and the reset they  *)
(* lead to, composed with the DFU state machine in the USB interrupt and   *)
(* with what the environment can do.                                       *)
(*                                                                         *)
(* Reset stands for the startup code too: it zeroes the RAM, where all of  *)
(* dfu_state lives, but for bootloader_shared.  The bootloader runs from   *)
(* RAM, so it survives the erasure of its own image until the next reset.  *)
(***************************************************************************)
EXTENDS Dfu

CONSTANTS
    InitialBootloader,   \* the file the bootloader was installed from
    InitialApp           \* the file of the application, or NoFile

ASSUME InitialAssumption ==
    InitialBootloader \in File /\ InitialApp \in File \cup {NoFile}

VARIABLE magic    \* bootloader_shared.magic = BOOTLOADER_MAGIC

vars == <<flash, mainVars, dfuVars, dirty, downloadVars, uploadVars,
          requestVars, hostVars, magic>>

-----------------------------------------------------------------------------

Zero == <<NoFile, 2>>   \* zeroed RAM

ZeroPage == [k \in PageIndex |-> Zero]

ZeroOverflow == [k \in 0 .. TRANSFER_SIZE - 1 |-> Zero]

ZeroInfo == [magic |-> FALSE, start |-> 0, length |-> 0]

(* The flash with file f at base.                                          *)
Installed(mem, base, f) ==
    [a \in FlashAddress |->
        IF f # NoFile /\ a - base \in 0 .. FileSize[f] - 1 THEN <<f, a - base>> ELSE mem[a]]

(* The device is switched on for the first time.                           *)
Init ==
    /\ flash = Installed(Installed([a \in FlashAddress |-> Blank],
                                   BOOTLOADER_START, InitialBootloader),
                         APP_START, InitialApp)
    /\ pc = "reset" /\ address = 0 /\ windex = 0
    /\ state = "APP_IDLE" /\ status = "OK" /\ dirty = FALSE
    /\ page = ZeroPage /\ first_page = ZeroPage /\ overflow = ZeroOverflow
    /\ count = 0 /\ page_count = 0 /\ overflow_count = 0
    /\ page_waiting_to_flush = FALSE /\ done = FALSE /\ image_info = ZeroInfo
    /\ total_len = 0 /\ transmit_count = 0
    /\ pending = "none" /\ req_len = 0 /\ answer = "none"
    /\ file = NoFile /\ sent = 0 /\ received = 0
    /\ magic \in BOOLEAN

(* Back to the reset handler, which zeroes the RAM.  The host has lost the *)
(* device and with it the file it was downloading.                         *)
Reset ==
    /\ pc' = "reset" /\ address' = 0 /\ windex' = 0
    /\ state' = "APP_IDLE" /\ status' = "OK" /\ dirty' = FALSE
    /\ page' = ZeroPage /\ first_page' = ZeroPage /\ overflow' = ZeroOverflow
    /\ count' = 0 /\ page_count' = 0 /\ overflow_count' = 0
    /\ page_waiting_to_flush' = FALSE /\ done' = FALSE /\ image_info' = ZeroInfo
    /\ total_len' = 0 /\ transmit_count' = 0
    /\ pending' = "none" /\ req_len' = 0 /\ answer' = "none"
    /\ file' = NoFile /\ sent' = 0 /\ received' = 0
    /\ UNCHANGED flash

-----------------------------------------------------------------------------

(* The vector table and the code the hardware starts are those of a whole  *)
(* bootloader.  Of anything else nothing can be said.                      *)
BootloaderRuns == FileAt(BOOTLOADER_START) # NoFile

(* Mutant of AppValid: the checksum is not looked at.                      *)
AppHasImage == FlashHeader(APP_START).magic

(* has_image && checksum_valid                                             *)
AppValid == FlashHeader(APP_START).magic /\ ChecksumMatches(APP_START)

(* main gets past the checksums: that of the bootloader, whatever it turns *)
(* out to be, and that of the application if it has a header.              *)
ChecksumsEnd ==
    /\ ChecksumEnds(BOOTLOADER_START)
    /\ FlashHeader(APP_START).magic => ChecksumEnds(APP_START)

Dead ==
    /\ pc = "reset" /\ ~(BootloaderRuns /\ ChecksumsEnd)
    /\ pc' = "dead"
    /\ UNCHANGED <<address, windex, dfuVars, dirty>>

(* magic is only read: nothing clears it.                                  *)
StartApp ==
    /\ pc = "reset" /\ BootloaderRuns /\ ChecksumsEnd
    /\ AppValid /\ ~magic
    /\ pc' = "app"
    /\ UNCHANGED <<address, windex, dfuVars, dirty>>

dfu_init == Enter("IDLE") /\ dirty' = FALSE

EnterDfu ==
    /\ pc = "reset" /\ BootloaderRuns /\ ChecksumsEnd
    /\ ~AppValid \/ magic
    /\ dfu_init
    /\ pc' = "poll"
    /\ UNCHANGED <<address, windex>>

main == Dead \/ StartApp \/ EnterDfu

(* Mutant of PollLeadsTo: DETACH is forgotten.                             *)
PollWithoutDetach ==
    CASE state = "MANIFEST"      -> "manifest"
      [] state = "DOWNLOAD_BUSY" -> "busy"
      [] OTHER                   -> "poll"

(* Where dfu_poll_state leads from each state, "poll" where it returns 0   *)
(* and has done nothing.                                                   *)
PollLeadsTo ==
    CASE state = "MANIFEST"      -> "manifest"
      [] state = "DOWNLOAD_BUSY" -> "busy"
      [] state = "DETACH"        -> "stop"
      [] OTHER                   -> "poll"

dfu_poll_state ==
    /\ pc = "poll"
    /\ PollLeadsTo # "poll" /\ pc' = PollLeadsTo
    /\ UNCHANGED <<address, windex, dfuVars, dirty>>

(* usb_stop and jump(BOOTLOADER_START).                                    *)
jump == pc = "stop" /\ Reset /\ UNCHANGED magic

MainStep ==
    \/ /\ main \/ dfu_poll_state
       /\ UNCHANGED <<flash, downloadVars, uploadVars, requestVars, hostVars, magic>>
    \/ DownloadStep /\ UNCHANGED magic
    \/ jump

-----------------------------------------------------------------------------

(* The application asks for the bootloader: it sets bootloader_shared.magic*)
(* and resets.                                                             *)
AppEntersBootloader == pc = "app" /\ Reset /\ magic' = TRUE

(* The supply fails and comes back, with anything in bootloader_shared.    *)
PowerCycle == "power" \in Faults /\ Reset /\ magic' \in BOOLEAN

Next ==
    \/ MainStep
    \/ usb_handler /\ UNCHANGED magic
    \/ AppEntersBootloader
    \/ PowerCycle

Spec == Init /\ [][Next]_vars

=============================================================================
