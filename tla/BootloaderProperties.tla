------------------------ MODULE BootloaderProperties ------------------------
(***************************************************************************)
(* What the bootloader has to guarantee.                                   *)
(***************************************************************************)
EXTENDS Bootloader

MainLocation ==
    {"reset", "dead", "app", "poll", "stop",
     "busy", "busyErase", "busyProgram", "busyAdvance", "busyCarry",
     "busyCount", "busyEmpty", "busyFlushed", "busyPublish",
     "manifest", "firstErase", "tail", "tailErase", "tailProgram", "firstProgram",
     "manifestPublish"}

FlashOK == flash \in [FlashAddress -> Cell]

MainOK ==
    pc \in MainLocation /\ address \in 0 .. UINT32_MAX /\ windex \in 0 .. PAGE_SIZE

DfuOK == state \in DfuState /\ status \in DfuStatus

DownloadOK ==
    /\ page \in [PageIndex -> Cell] /\ first_page \in [PageIndex -> Cell]
    /\ overflow \in [0 .. TRANSFER_SIZE - 1 -> Cell]
    /\ count \in 0 .. UINT32_MAX
    /\ page_count \in 0 .. PAGE_SIZE /\ overflow_count \in 0 .. TRANSFER_SIZE
    /\ page_waiting_to_flush \in BOOLEAN /\ done \in BOOLEAN /\ image_info \in Header

UploadOK == total_len \in 0 .. UINT32_MAX /\ transmit_count \in 0 .. total_len

RequestOK ==
    /\ pending \in Callback \cup {"none"} /\ req_len \in 0 .. UINT32_MAX
    /\ pending = "dfu_download" => req_len <= TRANSFER_SIZE
    /\ answer \in {"ack", "stall", "data", "none"}

HostOK ==
    file \in File \cup {NoFile} /\ sent \in Nat /\ received \in 0 .. UINT32_MAX

(* The types of all variables and, with them, the bounds of the buffers:   *)
(* dfu_download never runs over page or overflow (download.c:78-84), and   *)
(* dfu_upload never past total_len (upload.c:46-48).                       *)
TypeOK ==
    /\ FlashOK /\ MainOK
    /\ DfuOK /\ dirty \in BOOLEAN
    /\ DownloadOK /\ UploadOK /\ RequestOK
    /\ HostOK /\ magic \in BOOLEAN

-----------------------------------------------------------------------------

Regions == {BOOTLOADER_START, APP_START}

Downloading == state \in {"DOWNLOAD_SYNC", "DOWNLOAD_BUSY", "DOWNLOAD_IDLE"}

(* buf holds the n cells of the file from offset on.                       *)
HoldsPart(buf, at, offset, n) ==
    \A k \in 0 .. n - 1 : buf[at + k] = <<file, offset + k>>

(* While a file is being downloaded, every cell the host has sent is in    *)
(* exactly one place, and in order: in the flash behind the first page     *)
(* (which is still erased), in first_page, in page or in overflow.         *)
StreamInOrder ==
    Downloading /\ pc = "poll" =>
        /\ sent = count + page_count + overflow_count
        /\ HoldsPart(page, 0, count, page_count)
        /\ HoldsPart(overflow, 0, count + PAGE_SIZE, overflow_count)
        /\ page_waiting_to_flush <=> page_count = PAGE_SIZE
        /\ count > 0 =>
               /\ HoldsPart(first_page, 0, 0, PAGE_SIZE)
               /\ HoldsPart(flash, image_info.start + PAGE_SIZE, PAGE_SIZE, count - PAGE_SIZE)
               /\ \A k \in PageIndex : flash[image_info.start + k] = Blank
        /\ sent >= MINIMUM_SIZE => image_info = FileHeader[file]

(* No cell of the first page of an image, neither its vector table nor its *)
(* header, is in the flash before everything behind that page is in place: *)
(* an update cut short at any moment, by the host, the supply or the       *)
(* flash, never leaves a start in front of the rest of an older image or   *)
(* of nothing (download.c:119-121, 185).                                   *)
HeaderLast ==
    \A base \in Regions : \A k \in PageIndex :
        base + k \in FlashAddress =>
            LET f == flash[base + k][1]
            IN  f # NoFile /\ flash[base + k] = <<f, k>> =>
                    \A o \in PAGE_SIZE .. FileHeader[f].length - 1 :
                        base + o \in FlashAddress /\ flash[base + o] = <<f, o>>

(* When the device reports that it is back in dfuIDLE after a download,    *)
(* the flash holds the file the host sent, whole and where its header says *)
(* it belongs.                                                             *)
CompletionIsTrue ==
    [][state = "MANIFEST_SYNC" /\ state' = "IDLE" => FileAt(FileHeader[file].start) = file]_vars

(* DETACH, which leads to a jump into the flash, is granted only while     *)
(* there is a bootloader to jump to (dfu.c:186-194).                       *)
DetachSafe == state = "DETACH" => BootloaderRuns

(* The flash can be programmed only where it has been erased, and erase    *)
(* and program are far apart: the first page of an image is erased with    *)
(* the first flush, and programmed many requests later as the last, when   *)
(* start_address, count and the flash in between must still belong to the  *)
(* same download (download.c:110-121, 147-168, 185).                       *)
ProgramsErased ==
    Programming => \A k \in windex .. PAGE_SIZE - 1 :
        PAGE_ALIGN(address) + k \in FlashAddress => flash[PAGE_ALIGN(address) + k] = Blank

(* The host is always given the next block: what the device counts as      *)
(* transmitted, the host has, unless it has been told of an error          *)
(* (upload.c:28-38, 48).                                                   *)
UploadInStep ==
    state = "UPLOAD_IDLE" /\ pending # "dfu_upload_callback" => received = transmit_count

-----------------------------------------------------------------------------

(* A device that has told the host it is busy becomes responsive again,    *)
(* also if the flash fails it (dfu.c:447-466).                             *)
BusyEnds ==
    state \in {"DOWNLOAD_BUSY", "MANIFEST"} ~> state \notin {"DOWNLOAD_BUSY", "MANIFEST"}

(* How many steps the main loop has left at most before it polls again: an *)
(* erase or two, and every cell of a page or two.                          *)
WorkLeft ==
    LET remaining == PAGE_SIZE - windex
    IN  CASE pc = "busy"            -> 9 + PAGE_SIZE
          [] pc = "busyErase"       -> 8 + PAGE_SIZE
          [] pc = "busyProgram"     -> 7 + remaining
          [] pc = "busyAdvance"     -> 6
          [] pc = "busyCarry"       -> 5
          [] pc = "busyCount"       -> 4
          [] pc = "busyEmpty"       -> 3
          [] pc = "busyFlushed"     -> 2
          [] pc = "busyPublish"     -> 1
          [] pc = "manifest"        -> 7 + 2 * PAGE_SIZE
          [] pc = "firstErase"      -> 6 + 2 * PAGE_SIZE
          [] pc = "tail"            -> 5 + 2 * PAGE_SIZE
          [] pc = "tailErase"       -> 4 + 2 * PAGE_SIZE
          [] pc = "tailProgram"     -> 3 + PAGE_SIZE + remaining
          [] pc = "firstProgram"    -> 2 + remaining
          [] pc = "manifestPublish" -> 1
          [] OTHER                  -> 0

(* The times the host is told to wait, 700 and 1200 ms, are constants: a   *)
(* flush takes the work of one page and a manifest that of two, however    *)
(* long the file is, whatever the flash fails, and whatever the host makes *)
(* the interrupt do in the meantime.  Every step of the main loop has less *)
(* to do than the one before, and no interrupt gives it more (dfu.c:214,   *)
(* 299, flash_control.c:32-66).                                            *)
WorkShrinks ==
    [][WorkLeft > 0 => WorkLeft' < WorkLeft \/ (usb_handler /\ UNCHANGED mainVars)]_vars

-----------------------------------------------------------------------------
(* What the repository says of the program and the program does not do.    *)

(* "Individual subsystems will be responsible acking and naking as         *)
(* necessary" (usb.c:191): no SETUP packet is left without an answer, if   *)
(* the library takes every transfer.                                       *)
EverySetupAnswered == [][Setup => answer' # "none"]_vars

(* The application is in the flash, behind the bootloader (APP_SIZE,       *)
(* memory_layout.h:17): an update erases pages of the flash.               *)
ErasesOnlyFlash ==
    pc \in {"busyErase", "firstErase", "tailErase"} => address \in FlashAddress

(* "App image checksum failed" (main.c:42) is a reason for entering DFU    *)
(* mode: a whole bootloader never stops over the application it has taken. *)
BadAppLeadsToDfu == pc = "dead" => ~BootloaderRuns

=============================================================================
