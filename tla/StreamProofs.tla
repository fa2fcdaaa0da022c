---------------------------- MODULE StreamProofs ----------------------------
(***************************************************************************)
(* The inductive invariant behind the properties of a download: what page, *)
(* first_page, overflow and the flash hold at every place of the main loop *)
(* and in every state of the protocol, for a host that waits while the     *)
(* device is busy and sends no block twice.  From it, that a download is   *)
(* neither cut, repeated nor shuffled.                                     *)
(***************************************************************************)
EXTENDS BootloaderProofs, BootloaderRefinement

FlashEnd == FLASH_START + FLASH_SIZE

(* The host waits for bwPollTimeout and sends the blocks in order.         *)
HostWaits == {"early", "repeat"} \cap Faults = {}

-----------------------------------------------------------------------------
(* The parts.                                                              *)

(* The header of the file has arrived and has been accepted.               *)
Accepted ==
    /\ image_info = FileHeader[file]
    /\ image_info.magic /\ image_info.start \in Regions

(* A download of the file is under way.                                    *)
Session ==
    /\ file \in Offered /\ sent <= FileSize[file]
    /\ ~done /\ overflow_count < TRANSFER_SIZE

FirstPageErased == \A k \in PageIndex : flash[image_info.start + k] = Blank

(* The flash has the pages of the file up to n, but for the first one.     *)
Behind(n) ==
    n > 0 =>
        /\ n >= PAGE_SIZE /\ image_info.start + n <= FlashEnd
        /\ dirty
        /\ HoldsPart(first_page, 0, 0, PAGE_SIZE)
        /\ FirstPageErased
        /\ HoldsPart(flash, image_info.start + PAGE_SIZE, PAGE_SIZE, n - PAGE_SIZE)

(* What has been sent is in the flash up to n, and then in page and        *)
(* overflow.                                                               *)
Collected(n) ==
    /\ Session
    /\ count % PAGE_SIZE = 0 /\ Behind(n)
    /\ sent = count + page_count + overflow_count
    /\ HoldsPart(page, 0, count, page_count)
    /\ HoldsPart(overflow, 0, count + PAGE_SIZE, overflow_count)
    /\ page_waiting_to_flush <=> page_count = PAGE_SIZE
    /\ ~page_waiting_to_flush => overflow_count = 0
    /\ sent >= MINIMUM_SIZE => Accepted

(* The host has ended the download, and all of the image has come.         *)
Complete == MINIMUM_SIZE <= sent /\ image_info.length <= sent

(* The file is in the flash.                                               *)
Written ==
    /\ file \in Offered /\ Accepted /\ done
    /\ FileAt(image_info.start) = file

-----------------------------------------------------------------------------
(* What holds at each place.                                               *)

BusyPlace ==
    {"busy", "busyErase", "busyProgram", "busyAdvance", "busyCarry",
     "busyCount", "busyEmpty", "busyFlushed", "busyPublish"}

ManifestPlace ==
    {"manifest", "firstErase", "tail", "tailErase", "tailProgram", "firstProgram",
     "manifestPublish"}

(* The states the protocol can be in at a place of the main loop, and the  *)
(* only place and state in which a block can be on its way.                *)
ProtocolOK ==
    /\ pc \in {"reset", "dead", "app"} => state = "APP_IDLE" /\ pending = "none"
    /\ pc = "stop" => state = "DETACH"
    /\ pc \in BusyPlace \cup ManifestPlace => state \in {"DOWNLOAD_BUSY", "MANIFEST", "ERROR"}
    /\ state = "DETACH" => pending = "none" /\ ~dirty
    /\ pending = "dfu_download" =>
           /\ pc = "poll" /\ state = "DOWNLOAD_SYNC" /\ ~page_waiting_to_flush
           /\ sent + req_len <= FileSize[file]

(* Between two polls, dfu_download_busy and dfu_download_manifest.         *)
PollOK ==
    pc = "poll" =>
        /\ Downloading => Collected(count)
        /\ state = "DOWNLOAD_BUSY" => page_waiting_to_flush
        /\ state = "DOWNLOAD_IDLE" => ~page_waiting_to_flush
        /\ state = "MANIFEST" => ~done
        /\ state \in {"MANIFEST_SYNC", "MANIFEST"} /\ ~done =>
               Collected(count) /\ ~page_waiting_to_flush /\ Complete
        /\ state = "MANIFEST_SYNC" /\ done => Written

(* A full page is being written.                                           *)
FlushOK ==
    /\ pc \in {"busy", "busyErase", "busyProgram"} =>
           Collected(count) /\ page_waiting_to_flush
    /\ pc \in {"busyErase", "busyProgram"} => dirty /\ address = image_info.start + count
    /\ pc = "busyProgram" => count > 0 /\ image_info.start + count + PAGE_SIZE <= FlashEnd
    /\ pc = "busyAdvance" => Collected(count + PAGE_SIZE) /\ page_waiting_to_flush

(* The next page is being prepared.                                        *)
PrepareOK ==
    pc \in {"busyCarry", "busyCount", "busyEmpty", "busyFlushed", "busyPublish"} =>
        /\ Session /\ Accepted
        /\ count > 0 /\ count % PAGE_SIZE = 0 /\ Behind(count)
        /\ pc \in {"busyCarry", "busyCount"} => sent = count + overflow_count
        /\ pc = "busyCarry" => HoldsPart(overflow, 0, count, overflow_count)
        /\ pc = "busyCount" => HoldsPart(page, 0, count, overflow_count)
        /\ pc \in {"busyEmpty", "busyFlushed", "busyPublish"} =>
               /\ sent = count + page_count /\ page_count < PAGE_SIZE
               /\ HoldsPart(page, 0, count, page_count)
        /\ pc \in {"busyFlushed", "busyPublish"} => overflow_count = 0
        /\ pc = "busyPublish" => ~page_waiting_to_flush

(* The end of the image is being written: what is left in page, and then   *)
(* the first page.                                                         *)
TailOK ==
    /\ pc = "manifest" => Collected(count) /\ ~page_waiting_to_flush /\ Complete
    /\ pc \in {"firstErase", "tail", "tailErase", "tailProgram", "firstProgram"} =>
           /\ Session /\ Accepted /\ Complete /\ dirty
           /\ \A k \in PageIndex :
                  first_page[k] = IF k < sent THEN <<file, k>> ELSE Blank
    /\ pc \in {"firstErase", "tail"} => count = 0 /\ page_count = 0 /\ sent <= PAGE_SIZE
    /\ pc \in {"firstErase", "firstProgram"} => address = image_info.start
    /\ pc = "tail" => FirstPageErased
    /\ pc \in {"tail", "firstProgram"} => image_info.start + PAGE_SIZE <= FlashEnd
    /\ pc \in {"tailErase", "tailProgram"} =>
           /\ count > 0 /\ count % PAGE_SIZE = 0 /\ Behind(count)
           /\ page_count \in 1 .. PAGE_SIZE - 1
           /\ sent = count + page_count /\ HoldsPart(page, 0, count, page_count)
           /\ \A k \in page_count .. PAGE_SIZE - 1 : page[k] = Blank
           /\ address = image_info.start + count
    /\ pc = "tailProgram" => image_info.start + count + PAGE_SIZE <= FlashEnd

(* Everything but the first page is in place, and of that what has been    *)
(* programmed so far.                                                      *)
LastOK ==
    pc = "firstProgram" =>
        /\ \A o \in PAGE_SIZE .. sent - 1 :
               /\ image_info.start + o \in FlashAddress
               /\ flash[image_info.start + o] = <<file, o>>
        /\ \A k \in PageIndex :
               flash[image_info.start + k] \in
                   IF k < windex THEN {first_page[k], Torn} ELSE {Blank}

DoneOK == pc = "manifestPublish" => Written

StreamInv ==
    /\ TypeOK
    /\ ProtocolOK /\ PollOK /\ FlushOK /\ PrepareOK /\ TailOK /\ LastOK /\ DoneOK

-----------------------------------------------------------------------------
(* Pages.                                                                  *)

LEMMA MultipleFacts ==
    ASSUME NEW q \in Nat
    PROVE  /\ \A k \in PageIndex : (PAGE_SIZE * q + k) % PAGE_SIZE = k
           /\ \A r \in Nat : PAGE_SIZE * q < PAGE_SIZE * r =>
                                 PAGE_SIZE * q + PAGE_SIZE <= PAGE_SIZE * r
           /\ \A r \in Nat : PAGE_SIZE * q + PAGE_SIZE * r = PAGE_SIZE * (q + r)
  BY SizeFacts DEF PageIndex

LEMMA AlignedIsMultiple ==
    ASSUME NEW a \in Nat, a % PAGE_SIZE = 0
    PROVE  \E q \in Nat : a = PAGE_SIZE * q
  BY SizeFacts

LEMMA ModRange ==
    ASSUME NEW x \in Nat
    PROVE  /\ x % PAGE_SIZE \in 0 .. PAGE_SIZE - 1 /\ x - (x % PAGE_SIZE) \in Nat
           /\ (x - (x % PAGE_SIZE)) % PAGE_SIZE = 0
  BY SizeFacts

(* Two aligned addresses are a page apart or the same.                     *)
LEMMA AlignedFacts ==
    ASSUME NEW a \in Nat, a % PAGE_SIZE = 0
    PROVE  /\ \A k \in PageIndex : (a + k) % PAGE_SIZE = k
           /\ \A b \in Nat : b % PAGE_SIZE = 0 /\ a < b => a + PAGE_SIZE <= b
           /\ \A b \in Nat : b % PAGE_SIZE = 0 => (a + b) % PAGE_SIZE = 0
  <1>1. PICK q \in Nat : a = PAGE_SIZE * q
    BY AlignedIsMultiple
  <1>2. \A b \in Nat : b % PAGE_SIZE = 0 => \E r \in Nat : b = PAGE_SIZE * r
    BY AlignedIsMultiple
  <1>3. ASSUME NEW b \in Nat, b % PAGE_SIZE = 0
        PROVE  (a + b) % PAGE_SIZE = 0
    <2>1. PICK r \in Nat : b = PAGE_SIZE * r
      BY <1>2, <1>3
    <2>2. a + b = PAGE_SIZE * (q + r) + 0 /\ q + r \in Nat /\ 0 \in PageIndex
      BY <1>1, <2>1, MultipleFacts, SizeFacts DEF PageIndex
    <2> QED
      BY <2>2, MultipleFacts
  <1> QED
    BY <1>1, <1>2, <1>3, MultipleFacts, ZenonT(30)

(* A header has cells, and they are in the first page.                     *)
LEMMA HeaderSize ==
    /\ MINIMUM_SIZE \in Nat /\ MINIMUM_SIZE > 0 /\ MINIMUM_SIZE <= PAGE_SIZE
    /\ BOOTLOADER_INFO_OFFSET \in 0 .. MINIMUM_SIZE - 1
  <1>1. /\ BOOTLOADER_INFO_OFFSET \in Nat /\ BOOTLOADER_INFO_SIZE \in Nat \ {0}
        /\ MINIMUM_SIZE <= PAGE_SIZE
    BY SizeAssumption
  <1>2. MINIMUM_SIZE = BOOTLOADER_INFO_OFFSET + BOOTLOADER_INFO_SIZE
    BY DEF MINIMUM_SIZE
  <1> QED
    BY <1>1, <1>2

(* The flash and its regions begin and end with a page.                    *)
LEMMA FlashFacts ==
    /\ FlashEnd \in Nat /\ FlashEnd <= UINT32_MAX
    /\ FlashAddress = FLASH_START .. FlashEnd - 1
    /\ FLASH_START % PAGE_SIZE = 0 /\ FlashEnd % PAGE_SIZE = 0
    /\ Regions \subseteq Nat
    /\ \A start \in Regions : start % PAGE_SIZE = 0 /\ FLASH_START <= start
  <1>1. FlashEnd % PAGE_SIZE = 0 /\ APP_START % PAGE_SIZE = 0
    BY AlignedFacts, SizeAssumption DEF FlashEnd, APP_START, BOOTLOADER_START
  <1> QED
    BY <1>1, SizeAssumption DEF FlashEnd, FlashAddress, Regions, APP_START, BOOTLOADER_START

(* The page of an aligned address is in the flash from its first to its    *)
(* last cell, or not at all.                                               *)
LEMMA PageFacts ==
    ASSUME NEW a \in Nat, a % PAGE_SIZE = 0
    PROVE  /\ PAGE_ALIGN(a) = a
           /\ \A x \in FlashAddress : x \in PageOf(a) <=> x \in a .. a + PAGE_SIZE - 1
           /\ PageOf(a) # {} => FLASH_START <= a /\ a + PAGE_SIZE <= FlashEnd
  <1>1. PAGE_ALIGN(a) = a
    BY SizeFacts DEF PAGE_ALIGN
  <1>2. ASSUME NEW x \in Nat
        PROVE  PAGE_ALIGN(x) = a <=> x \in a .. a + PAGE_SIZE - 1
    <2>1. CASE PAGE_ALIGN(x) = a
      BY <2>1, ModRange, SizeFacts DEF PAGE_ALIGN
    <2>2. CASE x \in a .. a + PAGE_SIZE - 1
      <3>1. x - a \in PageIndex /\ x = a + (x - a)
        BY <2>2, SizeFacts DEF PageIndex
      <3>2. x % PAGE_SIZE = x - a
        BY <3>1, AlignedFacts
      <3> QED
        BY <2>2, <3>2, SizeFacts DEF PAGE_ALIGN
    <2> QED
      BY <2>1, <2>2
  <1>3. \A x \in FlashAddress : x \in PageOf(a) <=> x \in a .. a + PAGE_SIZE - 1
    BY <1>1, <1>2, FlashFacts, SizeFacts DEF PageOf
  <1>4. ASSUME NEW x \in PageOf(a)
        PROVE  FLASH_START <= a /\ a + PAGE_SIZE <= FlashEnd
    <2>1. x \in FlashAddress /\ x \in a .. a + PAGE_SIZE - 1
      BY <1>3 DEF PageOf
    <2>2. ~(a < FLASH_START)
      BY <2>1, AlignedFacts, FlashFacts, SizeFacts
    <2>3. a < FlashEnd
      BY <2>1, FlashFacts, SizeFacts
    <2> QED
      BY <2>2, <2>3, AlignedFacts, FlashFacts, SizeFacts
  <1> QED
    BY <1>1, <1>3, <1>4

-----------------------------------------------------------------------------
(* What depends on the memory of the device and the host alone.            *)

memory == <<flash, dirty, downloadVars, file, sent>>

LEMMA MemoryKept ==
    ASSUME UNCHANGED memory
    PROVE  /\ Session' <=> Session
           /\ Accepted' <=> Accepted
           /\ Complete' <=> Complete
           /\ FirstPageErased' <=> FirstPageErased
           /\ \A n : Behind(n)' <=> Behind(n)
           /\ \A n : Collected(n)' <=> Collected(n)
           /\ Written' <=> Written
  <1> USE DEF memory, downloadVars, Session, Accepted, Complete, FirstPageErased, HoldsPart
  <1>1. \A n : Behind(n)' <=> Behind(n)
    BY DEF Behind
  <1>2. \A n : Collected(n)' <=> Collected(n)
    BY <1>1 DEF Collected
  <1>3. FileAt(image_info.start)' = FileAt(image_info.start)
    BY DEF FileAt, ChecksumMatches, FlashHeaderFile, HeaderFile
  <1>4. Written' <=> Written
    BY <1>3 DEF Written
  <1> QED
    BY <1>1, <1>2, <1>4

(* The places of the main loop keep what they have if none of that changes.*)
LEMMA PlacesKept ==
    ASSUME StreamInv, UNCHANGED <<memory, mainVars>>
    PROVE  FlushOK' /\ PrepareOK' /\ TailOK' /\ LastOK' /\ DoneOK'
  <1> USE MemoryKept DEF StreamInv, memory, downloadVars, mainVars
  <1>1. FlushOK'
    BY DEF FlushOK
  <1>2. PrepareOK'
    BY DEF PrepareOK, HoldsPart
  <1>3. TailOK'
    BY DEF TailOK, HoldsPart
  <1>4. LastOK'
    BY DEF LastOK
  <1>5. DoneOK'
    BY DEF DoneOK
  <1> QED
    BY <1>1, <1>2, <1>3, <1>4, <1>5

-----------------------------------------------------------------------------
(* The state machine.                                                      *)

LEMMA SubmittedOutcome ==
    ASSUME NEW cb, NEW len, NEW ok, Submitted(cb, len, ok)
    PROVE  pending' \in {"none", cb} /\ (pending' # "none" => req_len' = len)
  BY DEF Submitted, Answered

LEMMA ResponseOutcome ==
    /\ Unexpected => state' = "ERROR" /\ pending' = "none" /\ UNCHANGED downloadVars
    /\ \A req : Report(req) =>
           state' = state /\ pending' # "dfu_download" /\ UNCHANGED downloadVars
    /\ \A s : Move(s) => state' = s /\ pending' = "none" /\ UNCHANGED downloadVars
    /\ \A s : ReportAfter(s) =>
           state' = s /\ pending' # "dfu_download" /\ UNCHANGED downloadVars
  <1>1. dfu_send_reply => pending' # "dfu_download"
    BY SubmittedOutcome DEF dfu_send_reply, dfu_write_control_data
  <1> QED
    BY <1>1 DEF Unexpected, Report, Move, ReportAfter, Enter, Fail, dfuVars,
                usb_util_stall, usb_util_ack, Answered

LEMMA UploadOutcome ==
    ASSUME NEW total, NEW transmitted, NEW len, UploadBlock(total, transmitted, len)
    PROVE  state' \in {"UPLOAD_IDLE", "ERROR"} /\ pending' # "dfu_download"
  <1>1. PICK n, ok :
            IF ok THEN /\ dfu_write_control_data("dfu_upload_callback", n, TRUE)
                       /\ Enter("UPLOAD_IDLE")
                  ELSE usb_util_stall /\ Fail("ERROR_UNKNOWN")
    BY DEF UploadBlock
  <1>2. CASE ok
    <2>1. Submitted("dfu_upload_callback", n, TRUE) /\ state' = "UPLOAD_IDLE"
      BY <1>1, <1>2 DEF dfu_write_control_data, Enter
    <2> QED
      BY <2>1 DEF Submitted
  <1>3. CASE ~ok
    BY <1>1, <1>3 DEF Fail, usb_util_stall, Answered
  <1> QED
    BY <1>2, <1>3

(* Where a request leads that does not announce a block.                   *)
OtherOutcome ==
    \/ state' = state /\ (state = "DETACH" => pending' = "none")
    \/ state' = "ERROR" /\ state # "DETACH"
    \/ state \notin {"MANIFEST_SYNC", "DETACH"} /\ state' \in {"IDLE", "UPLOAD_IDLE"}
    \/ state = "IDLE" /\ state' = "DETACH" /\ ~dirty /\ pending' = "none"
    \/ state = "DOWNLOAD_SYNC" /\ state' = AfterSync
    \/ state = "DOWNLOAD_IDLE" /\ state' = "MANIFEST_SYNC" /\ dfu_download_check_done = "OK"
    \/ state = "MANIFEST_SYNC" /\ state' = AfterManifest

LEMMA MachineOutcome ==
    ASSUME NEW req, NEW len, dfu_state_machine(req, len), req # "DOWNLOAD" \/ len = 0
    PROVE  UNCHANGED downloadVars /\ pending' # "dfu_download" /\ OtherOutcome
  <1> USE ResponseOutcome DEF Refuse
  <1>1. CASE state = "IDLE" /\ dfu_state_idle(req, len)
    <2>1. CASE dfu_upload_start(len) /\ UNCHANGED downloadVars
      BY <1>1, <2>1, UploadOutcome DEF dfu_upload_start, OtherOutcome
    <2>2. CASE usb_util_ack /\ UNCHANGED <<dfuVars, downloadVars, uploadVars>>
      BY <1>1, <2>2 DEF usb_util_ack, Answered, dfuVars, OtherOutcome
    <2>3. CASE /\ Fail("ERROR_FIRMWARE") /\ usb_util_stall
               /\ UNCHANGED <<downloadVars, uploadVars>>
      BY <1>1, <2>3 DEF Fail, usb_util_stall, Answered, OtherOutcome
    <2>4. CASE Unexpected \/ Report(req) \/ (DetachAllowed /\ Move("DETACH"))
      BY <1>1, <2>4 DEF DetachAllowed, OtherOutcome
    <2> QED
      BY <1>1, <2>1, <2>2, <2>3, <2>4 DEF dfu_state_idle
  <1>2. CASE state = "DOWNLOAD_SYNC" /\ dfu_state_download_sync(req)
    BY <1>2 DEF dfu_state_download_sync, OtherOutcome
  <1>3. CASE state = "DOWNLOAD_BUSY" /\ dfu_state_download_busy(req)
    BY <1>3 DEF dfu_state_download_busy, OtherOutcome
  <1>4. CASE state = "DOWNLOAD_IDLE" /\ dfu_state_download_idle(req, len)
    <2>1. CASE /\ IF dfu_download_check_done = "OK"
                  THEN Enter("MANIFEST_SYNC") ELSE Fail(dfu_download_check_done)
               /\ usb_util_ack /\ UNCHANGED <<downloadVars, uploadVars>>
      BY <1>4, <2>1 DEF Enter, Fail, usb_util_ack, Answered, OtherOutcome
    <2>2. CASE Unexpected \/ Report(req) \/ Move("IDLE")
      BY <1>4, <2>2 DEF OtherOutcome
    <2> QED
      BY <1>4, <2>1, <2>2 DEF dfu_state_download_idle
  <1>5. CASE state = "MANIFEST_SYNC" /\ dfu_state_manifest_sync(req)
    BY <1>5 DEF dfu_state_manifest_sync, OtherOutcome
  <1>6. CASE state = "MANIFEST" /\ dfu_state_manifest(req)
    BY <1>6 DEF dfu_state_manifest, OtherOutcome
  <1>7. CASE state = "UPLOAD_IDLE" /\ dfu_state_upload_idle(req, len)
    <2>1. CASE dfu_upload(len) /\ UNCHANGED downloadVars
      BY <1>7, <2>1, UploadOutcome DEF dfu_upload, OtherOutcome
    <2>2. CASE Answered("none") /\ UNCHANGED <<dfuVars, downloadVars, uploadVars>>
      BY <1>7, <2>2 DEF Answered, dfuVars, OtherOutcome
    <2>3. CASE Unexpected \/ Report(req) \/ Move("IDLE")
      BY <1>7, <2>3 DEF OtherOutcome
    <2> QED
      BY <1>7, <2>1, <2>2, <2>3 DEF dfu_state_upload_idle
  <1>8. CASE state = "ERROR" /\ dfu_state_error(req)
    BY <1>8 DEF dfu_state_error, OtherOutcome
  <1>9. CASE /\ state \in {"APP_IDLE", "DETACH"} /\ usb_util_stall
             /\ UNCHANGED <<dfuVars, downloadVars, uploadVars>>
    BY <1>9 DEF usb_util_stall, Answered, dfuVars, OtherOutcome
  <1> QED
    BY <1>1, <1>2, <1>3, <1>4, <1>5, <1>6, <1>7, <1>8, <1>9 DEF dfu_state_machine

(* The first block of a file and the ones that follow.                     *)
LEMMA BlockOutcome ==
    ASSUME NEW len, len > 0, dfu_state_machine("DOWNLOAD", len)
    PROVE  /\ state = "IDLE" => dfu_download_start
           /\ state = "DOWNLOAD_IDLE" => UNCHANGED downloadVars
           /\ state \in {"IDLE", "DOWNLOAD_IDLE"} =>
                  /\ state' = "DOWNLOAD_SYNC"
                  /\ pending' = "dfu_download" => req_len' = len
  <1> USE DEF Refuse, Report, DfuRequest
  <1>1. dfu_read_control_data("dfu_download", len) =>
            (pending' = "dfu_download" => req_len' = len)
    BY SubmittedOutcome DEF dfu_read_control_data
  <1>2. ASSUME state = "IDLE"
        PROVE  /\ dfu_download_start /\ Enter("DOWNLOAD_SYNC")
               /\ dfu_read_control_data("dfu_download", len)
    BY <1>2 DEF dfu_state_machine, dfu_state_idle
  <1>3. ASSUME state = "DOWNLOAD_IDLE"
        PROVE  /\ UNCHANGED downloadVars /\ Enter("DOWNLOAD_SYNC")
               /\ dfu_read_control_data("dfu_download", len)
    BY <1>3 DEF dfu_state_machine, dfu_state_download_idle
  <1> QED
    BY <1>1, <1>2, <1>3 DEF Enter

-----------------------------------------------------------------------------
(* A request or the end of a reply, which change none of the memory.       *)

LEMMA CheckedIsComplete ==
    ASSUME TypeOK, Collected(count), ~page_waiting_to_flush, dfu_download_check_done = "OK"
    PROVE  Complete
  <1> DEFINE progress == Word(count + page_count)
  <1>1. progress \in Nat /\ progress <= sent
    <2>1. count + page_count \in Nat /\ sent = count + page_count
      BY SizeFacts DEF TypeOK, DownloadOK, Collected
    <2> QED
      BY <2>1, SizeFacts DEF Word
  <1>2. ~(progress < image_info.length)
    BY Zenon DEF dfu_download_check_done
  <1>3. ~(progress >= image_info.length /\ progress < MINIMUM_SIZE)
    BY <1>2, Zenon DEF dfu_download_check_done
  <1>4. image_info.length \in Nat /\ MINIMUM_SIZE \in Nat /\ sent \in Nat
    BY SizeFacts DEF TypeOK, DownloadOK, Header, HostOK
  <1> HIDE DEF progress
  <1> QED
    BY <1>1, <1>2, <1>3, <1>4 DEF Complete

LEMMA RequestKeepsStream ==
    ASSUME StreamInv, TypeOK', UNCHANGED <<memory, mainVars>>,
           pc \in {"poll", "stop"}, state \notin {"DOWNLOAD_BUSY", "MANIFEST"},
           pending' # "dfu_download", OtherOutcome
    PROVE  StreamInv'
  <1> USE DEF OtherOutcome
  <1>1. /\ UNCHANGED <<pc, dirty, done, page_waiting_to_flush>>
        /\ UNCHANGED <<count, page_count, overflow_count, sent, file>>
    BY DEF memory, downloadVars, mainVars
  <1>2. ProtocolOK /\ PollOK
    BY DEF StreamInv
  <1>3. ProtocolOK'
    BY <1>1, <1>2 DEF ProtocolOK, BusyPlace, ManifestPlace, AfterSync, AfterManifest
  <1>4. ASSUME pc = "poll" PROVE PollOK'
    <2>1. /\ Collected(count)' <=> Collected(count)
          /\ Complete' <=> Complete
          /\ Written' <=> Written
      BY <1>1, MemoryKept
    <2>2. state \in {"DOWNLOAD_SYNC", "DOWNLOAD_IDLE"} => Collected(count)
      BY <1>2, <1>4 DEF PollOK, Downloading
    <2>3. state = "DOWNLOAD_IDLE" /\ dfu_download_check_done = "OK" => Complete
      BY <1>2, <1>4, <2>2, CheckedIsComplete DEF PollOK, StreamInv
    <2>4. Collected(count) => ~done
      BY DEF Collected, Session
    <2> QED
      BY <1>1, <1>2, <1>4, <2>1, <2>2, <2>3, <2>4
         DEF PollOK, Downloading, AfterSync, AfterManifest
  <1>5. PollOK'
    BY <1>1, <1>4 DEF PollOK
  <1> QED
    BY <1>3, <1>5, PlacesKept DEF StreamInv

LEMMA ReplyKeepsStream ==
    ASSUME StreamInv, TypeOK', UNCHANGED <<memory, mainVars>>,
           Connected, pending # "none", pending' = "none", state' \in {state, "ERROR"}
    PROVE  StreamInv'
  <1>1. UNCHANGED <<pc, dirty, done, page_waiting_to_flush, sent, file, count>>
    BY DEF memory, downloadVars, mainVars
  <1>2. ProtocolOK /\ PollOK
    BY DEF StreamInv
  <1>3. ProtocolOK'
    BY <1>1, <1>2 DEF ProtocolOK, BusyPlace, ManifestPlace, Connected
  <1>4. PollOK'
    <2>1. /\ Collected(count)' <=> Collected(count)
          /\ Complete' <=> Complete
          /\ Written' <=> Written
      BY <1>1, MemoryKept
    <2> QED
      BY <1>1, <1>2, <2>1 DEF PollOK, Downloading
  <1> QED
    BY <1>3, <1>4, PlacesKept DEF StreamInv

(* Each part is about some places of the main loop only.                   *)
LEMMA OtherPlaces ==
    /\ pc' # "poll" => PollOK'
    /\ pc' \notin {"busy", "busyErase", "busyProgram", "busyAdvance"} => FlushOK'
    /\ pc' \notin {"busyCarry", "busyCount", "busyEmpty", "busyFlushed", "busyPublish"} =>
           PrepareOK'
    /\ pc' \notin {"manifest", "firstErase", "tail", "tailErase", "tailProgram",
                   "firstProgram"} => TailOK'
    /\ pc' # "firstProgram" => LastOK'
    /\ pc' # "manifestPublish" => DoneOK'
  BY DEF PollOK, FlushOK, PrepareOK, TailOK, LastOK, DoneOK

(* The first block of a file is announced.                                 *)
LEMMA FirstBlockKeepsStream ==
    ASSUME TypeOK', pc = "poll", UNCHANGED mainVars, dfu_download_start,
           file' \in Offered, sent' = 0, state' = "DOWNLOAD_SYNC",
           NEW len \in BlockLength(file', 0), pending' = "dfu_download" => req_len' = len
    PROVE  StreamInv'
  <1>1. /\ count' = 0 /\ page_count' = 0 /\ overflow_count' = 0
        /\ page_waiting_to_flush' = FALSE /\ done' = FALSE
    BY DEF dfu_download_start
  <1>2. pc' = "poll"
    BY DEF mainVars
  <1>3. FileSize[file'] \in Nat
    BY FileAssumption, HostAssumption
  <1>4. Collected(count)'
    <2>1. Session' /\ Behind(count)'
      BY <1>1, <1>3, SizeFacts DEF Session, Behind
    <2>2. count' % PAGE_SIZE = 0 /\ page_count' # PAGE_SIZE
          /\ ~(sent' >= MINIMUM_SIZE) /\ sent' = count' + page_count' + overflow_count'
      BY <1>1, SizeFacts, HeaderSize
    <2>3. HoldsPart(page, 0, count, page_count)'
          /\ HoldsPart(overflow, 0, count + PAGE_SIZE, overflow_count)'
      <3>1. 0 .. page_count' - 1 = {} /\ 0 .. overflow_count' - 1 = {}
        BY <1>1
      <3> QED
        BY <3>1 DEF HoldsPart
    <2> QED
      BY <1>1, <2>1, <2>2, <2>3 DEF Collected
  <1>5. PollOK'
    BY <1>1, <1>4 DEF PollOK, Downloading
  <1>6. ProtocolOK'
    BY <1>1, <1>2, <1>3 DEF ProtocolOK, BusyPlace, ManifestPlace, BlockLength
  <1> QED
    BY <1>2, <1>5, <1>6, OtherPlaces DEF StreamInv

(* A further block of it is announced.                                     *)
LEMMA NextBlockKeepsStream ==
    ASSUME StreamInv, TypeOK', UNCHANGED <<memory, mainVars>>,
           pc = "poll", state = "DOWNLOAD_IDLE", state' = "DOWNLOAD_SYNC",
           NEW len \in BlockLength(file, sent), pending' = "dfu_download" => req_len' = len
    PROVE  StreamInv'
  <1>1. UNCHANGED <<pc, count, page_waiting_to_flush, done, file, sent>>
    BY DEF memory, downloadVars, mainVars
  <1>2. PollOK /\ ProtocolOK
    BY DEF StreamInv
  <1>3. Collected(count)' <=> Collected(count)
    BY <1>1, MemoryKept
  <1>4. PollOK'
    BY <1>1, <1>2, <1>3 DEF PollOK, Downloading
  <1>5. FileSize[file] \in Nat /\ sent \in Nat
    <2>1. Collected(count) /\ sent \in Nat
      BY <1>2 DEF PollOK, Downloading, StreamInv, TypeOK, HostOK
    <2> QED
      BY <2>1, FileAssumption, HostAssumption DEF Collected, Session
  <1>6. ProtocolOK'
    BY <1>1, <1>2, <1>5 DEF ProtocolOK, PollOK, BusyPlace, ManifestPlace, BlockLength
  <1> QED
    BY <1>1, <1>4, <1>6, OtherPlaces DEF StreamInv

LEMMA SetupKeepsStream ==
    ASSUME HostWaits, StreamInv, TypeOK', Setup
    PROVE  StreamInv'
  <1>1. /\ pc \in {"poll", "stop"} /\ state \notin {"DOWNLOAD_BUSY", "MANIFEST"}
        /\ pending = "none" /\ UNCHANGED <<dirty, flash, mainVars>>
        /\ pc = "stop" => state = "DETACH"
    BY DEF HostWaits, Setup, HostMayTalk, StreamInv, ProtocolOK
  <1>2. ASSUME NEW req, NEW len, dfu_state_machine(req, len), req # "DOWNLOAD" \/ len = 0,
               UNCHANGED <<file, sent>>
        PROVE  StreamInv'
    <2>1. UNCHANGED downloadVars /\ pending' # "dfu_download" /\ OtherOutcome
      BY <1>2, MachineOutcome
    <2>2. UNCHANGED <<memory, mainVars>>
      BY <1>1, <1>2, <2>1 DEF memory
    <2> QED
      BY <1>1, <2>1, <2>2, RequestKeepsStream
  <1>3. CASE HostDownload
    <2>1. ASSUME state = "IDLE", NEW f \in Offered, NEW len \in BlockLength(f, 0),
                 file' = f, sent' = 0, dfu_state_machine("DOWNLOAD", len)
          PROVE  StreamInv'
      <3>1. len > 0 /\ pc = "poll"
        BY <1>1, <2>1 DEF BlockLength
      <3> QED
        BY <1>1, <2>1, <3>1, BlockOutcome, FirstBlockKeepsStream
    <2>2. ASSUME state = "DOWNLOAD_IDLE", NEW offset \in NextOffset,
                 NEW len \in BlockLength(file, offset),
                 sent' = offset, file' = file, dfu_state_machine("DOWNLOAD", len)
          PROVE  StreamInv'
      <3>1. len > 0 /\ pc = "poll" /\ offset = sent
        BY <1>1, <2>2 DEF BlockLength, NextOffset, HostWaits
      <3>2. /\ UNCHANGED downloadVars /\ state' = "DOWNLOAD_SYNC"
            /\ pending' = "dfu_download" => req_len' = len
        BY <2>2, <3>1, BlockOutcome
      <3>3. UNCHANGED <<memory, mainVars>>
        BY <1>1, <2>2, <3>1, <3>2 DEF memory
      <3> QED
        BY <2>2, <3>1, <3>2, <3>3, NextBlockKeepsStream
    <2> QED
      BY <1>2, <1>3, <2>1, <2>2 DEF HostDownload
  <1>4. CASE HostUpload
    BY <1>2, <1>4 DEF HostUpload
  <1>5. CASE HostRequest
    BY <1>2, <1>5 DEF HostRequest, hostVars
  <1> QED
    BY <1>3, <1>4, <1>5 DEF Setup

-----------------------------------------------------------------------------
(* A block arrives.                                                        *)

(* The header of the file, once it is in page.                             *)
LEMMA HeaderInPage ==
    ASSUME file \in File, NEW n \in Nat, n >= MINIMUM_SIZE,
           \A k \in 0 .. n - 1 : page'[k] = <<file, k>>
    PROVE  HeaderAt(page', 0) = FileHeader[file]
  <1>1. \A o \in BOOTLOADER_INFO_OFFSET .. MINIMUM_SIZE - 1 : page'[0 + o] = <<file, o>>
    BY SizeFacts DEF PageIndex
  <1>2. page'[0 + BOOTLOADER_INFO_OFFSET][1] = file
    BY <1>1, SizeAssumption DEF MINIMUM_SIZE
  <1>3. HeaderFile(page', 0) = file
    BY <1>1, <1>2 DEF HeaderFile
  <1> QED
    BY <1>3, FileAssumption DEF HeaderAt

LEMMA BlockCollected ==
    ASSUME TypeOK, Collected(count), ~page_waiting_to_flush,
           NEW n \in 0 .. TRANSFER_SIZE, sent + n <= FileSize[file],
           dfu_download(n), sent' = sent + n, UNCHANGED <<flash, dirty, file>>
    PROVE  /\ UNCHANGED <<count, done>>
           /\ state' = "ERROR" \/ (state' = state /\ Collected(count)')
  <1> DEFINE fits  == PagePart(n)
             block == [k \in 0 .. TRANSFER_SIZE - 1 |-> <<file, sent + k>>]
             rest  == [k \in 0 .. TRANSFER_SIZE - 1 |-> <<file, sent + fits + k>>]
  <1>1. /\ file \in File /\ count \in Nat /\ page_count \in Nat /\ n \in Nat /\ sent \in Nat
        /\ page_count < PAGE_SIZE /\ overflow_count = 0 /\ sent = count + page_count
        /\ page \in [PageIndex -> Cell] /\ overflow \in [0 .. TRANSFER_SIZE - 1 -> Cell]
    BY SizeFacts, HostAssumption DEF TypeOK, DownloadOK, Collected, Session
  <1>2. /\ fits \in 0 .. n /\ n - fits \in Nat /\ page_count + fits \in 0 .. PAGE_SIZE
        /\ n - fits > 0 => page_count + fits = PAGE_SIZE
        /\ n - fits < TRANSFER_SIZE
    BY <1>1, SizeFacts DEF PagePart
  <1>3. /\ page' = Copied(page, page_count, block, fits)
        /\ overflow' = Copied(overflow, 0, rest, n - fits)
        /\ overflow_count' = n - fits /\ page_count' = page_count + fits
        /\ page_waiting_to_flush' = (page_count + fits = PAGE_SIZE)
        /\ UNCHANGED <<first_page, count, done>>
        /\ IF HeaderArrives(page_count + fits)
           THEN dfu_download_verify_header(page')
           ELSE UNCHANGED <<state, status, image_info>>
    BY DEF dfu_download
  <1> HIDE DEF fits
  <1>4. Session'
    BY <1>1, <1>2, <1>3 DEF Collected, Session
  <1>5. Behind(count)'
    <2>1. CASE count = 0
      BY <1>3, <2>1 DEF Behind
    <2>2. CASE count # 0
      <3>1. UNCHANGED <<image_info, count, first_page>>
        BY <1>3, <2>2 DEF HeaderArrives
      <3> QED
        BY <3>1 DEF Collected, Behind, HoldsPart, FirstPageErased
    <2> QED
      BY <2>1, <2>2
  <1>6. \A k \in 0 .. page_count + fits - 1 : page'[k] = <<file, count + k>>
    <2> SUFFICES ASSUME NEW k \in 0 .. page_count + fits - 1
                 PROVE  page'[k] = <<file, count + k>>
      OBVIOUS
    <2>1. k \in PageIndex
      BY <1>1, <1>2, SizeFacts DEF PageIndex
    <2>2. CASE k < page_count
      BY <1>1, <1>2, <1>3, <2>1, <2>2 DEF Copied, Collected, HoldsPart
    <2>3. CASE k >= page_count
      <3>1. page'[k] = block[k - page_count]
        BY <1>1, <1>2, <1>3, <2>1, <2>3 DEF Copied
      <3>2. k - page_count \in 0 .. TRANSFER_SIZE - 1 /\ sent + (k - page_count) = count + k
        BY <1>1, <1>2, <2>1, <2>3, SizeFacts
      <3> QED
        BY <3>1, <3>2
    <2> QED
      BY <1>1, <2>1, <2>2, <2>3 DEF PageIndex
  <1>7. \A k \in 0 .. n - fits - 1 : overflow'[k] = <<file, count + PAGE_SIZE + k>>
    <2> SUFFICES ASSUME NEW k \in 0 .. n - fits - 1
                 PROVE  overflow'[k] = <<file, count + PAGE_SIZE + k>>
      OBVIOUS
    <2>1. k \in 0 .. TRANSFER_SIZE - 1 /\ sent + fits + k = count + PAGE_SIZE + k
      BY <1>1, <1>2, SizeFacts
    <2>2. overflow'[k] = rest[k - 0] /\ k - 0 = k
      BY <1>1, <1>2, <1>3, <2>1 DEF Copied
    <2> QED
      BY <2>1, <2>2
  <1>8. state' = "ERROR" \/ (state' = state /\ (sent' >= MINIMUM_SIZE => Accepted'))
    <2>1. CASE sent >= MINIMUM_SIZE
      <3>1. ~HeaderArrives(page_count + fits)
        BY <1>1, <2>1, SizeFacts DEF HeaderArrives
      <3> QED
        BY <1>3, <2>1, <3>1 DEF Collected, Accepted
    <2>2. CASE sent < MINIMUM_SIZE /\ sent' >= MINIMUM_SIZE
      <3>1. count = 0
        BY <1>1, <2>2, SizeAssumption, SizeFacts DEF Collected
      <3>2. HeaderArrives(page_count + fits)
        BY <1>1, <1>2, <2>2, <3>1, SizeAssumption, SizeFacts DEF HeaderArrives
      <3>3. HeaderAt(page', 0) = FileHeader[file]
        BY <1>1, <1>2, <1>6, <3>1, <3>2, HeaderInPage DEF HeaderArrives
      <3>4. /\ image_info' = FileHeader[file]
            /\ IF HeaderStatus(FileHeader[file]) = "OK"
               THEN UNCHANGED dfuVars ELSE Fail(HeaderStatus(FileHeader[file]))
        BY <1>3, <3>2, <3>3 DEF dfu_download_verify_header
      <3>5. ASSUME HeaderStatus(FileHeader[file]) = "OK"
            PROVE  FileHeader[file].magic /\ FileHeader[file].start \in Regions
        <4>1. FileHeader[file].magic
          BY <3>5, Zenon DEF HeaderStatus
        <4>2. FileHeader[file].start \in {APP_START, BOOTLOADER_START}
          BY <3>5, <4>1, Zenon DEF HeaderStatus
        <4> QED
          BY <4>1, <4>2 DEF Regions
      <3> QED
        BY <3>4, <3>5 DEF Fail, dfuVars, Accepted
    <2>3. CASE sent' < MINIMUM_SIZE
      <3>1. ~HeaderArrives(page_count + fits)
        BY <1>1, <1>2, <2>3, SizeFacts DEF HeaderArrives
      <3> QED
        BY <1>1, <1>3, <2>3, <3>1, SizeFacts
    <2> QED
      BY <1>1, <2>1, <2>2, <2>3, SizeFacts
  <1>9. state' = state => Collected(count)' \/ state' = "ERROR"
    <2>1. sent' = count' + page_count' + overflow_count'
      <3>1. sent + n = count + (page_count + fits) + (n - fits)
        BY <1>1, <1>2
      <3> QED
        BY <1>3, <3>1
    <2>2. HoldsPart(page, 0, count, page_count)'
      BY <1>1, <1>2, <1>3, <1>6 DEF HoldsPart
    <2>3. HoldsPart(overflow, 0, count + PAGE_SIZE, overflow_count)'
      BY <1>3, <1>7 DEF HoldsPart
    <2>4. /\ page_waiting_to_flush' <=> page_count' = PAGE_SIZE
          /\ ~page_waiting_to_flush' => overflow_count' = 0
      <3>1. ASSUME page_count + fits = PAGE_SIZE
            PROVE  page_waiting_to_flush' = TRUE /\ page_count' = PAGE_SIZE
        BY <1>3, <3>1
      <3>2. ASSUME page_count + fits # PAGE_SIZE
            PROVE  page_waiting_to_flush' = FALSE /\ page_count' # PAGE_SIZE
        BY <1>3, <3>2
      <3>3. page_count + fits # PAGE_SIZE => overflow_count' = 0
        BY <1>2, <1>3
      <3> QED
        BY <3>1, <3>2, <3>3
    <2>5. count' % PAGE_SIZE = 0
      BY <1>3 DEF Collected
    <2> QED
      BY <1>4, <1>5, <1>8, <2>1, <2>2, <2>3, <2>4, <2>5 DEF Collected
  <1> QED
    BY <1>3, <1>8, <1>9

LEMMA CallbackKeepsStream ==
    ASSUME StreamInv, TypeOK', usb_util_endpoint_callback
    PROVE  StreamInv'
  <1>1. /\ Connected /\ UNCHANGED <<dirty, flash, mainVars>>
        /\ ProtocolOK /\ PollOK /\ TypeOK
    BY DEF usb_util_endpoint_callback, StreamInv
  <1>2. ASSUME pending = "dfu_download", NEW n \in {0, req_len}, dfu_download(n),
               sent' = sent + n, UNCHANGED file
        PROVE  StreamInv'
    <2>1. /\ pc = "poll" /\ pc' = "poll" /\ state = "DOWNLOAD_SYNC"
          /\ ~page_waiting_to_flush /\ sent + req_len <= FileSize[file]
      BY <1>1, <1>2 DEF ProtocolOK, mainVars
    <2>2. Collected(count)
      BY <1>1, <2>1 DEF PollOK, Downloading
    <2>3. n \in 0 .. TRANSFER_SIZE /\ sent + n <= FileSize[file]
      <3>1. req_len \in 0 .. TRANSFER_SIZE /\ sent \in Nat
        BY <1>1, <1>2, SizeFacts DEF TypeOK, RequestOK, HostOK
      <3>2. FileSize[file] \in Nat
        BY <2>2, FileAssumption, HostAssumption DEF Collected, Session
      <3> QED
        BY <2>1, <3>1, <3>2, SizeFacts
    <2>4. state' = "ERROR" \/ (state' = state /\ Collected(count)')
      BY <1>1, <1>2, <2>1, <2>2, <2>3, BlockCollected
    <2>5. pending' = "none"
      BY <1>2 DEF dfu_download, usb_util_ack, Answered
    <2>6. PollOK' /\ ProtocolOK'
      BY <2>1, <2>4, <2>5 DEF PollOK, Downloading, ProtocolOK, BusyPlace, ManifestPlace
    <2> QED
      BY <2>1, <2>6, OtherPlaces DEF StreamInv
  <1>3. ASSUME pending # "none", NEW error, dfu_sent_callback(error),
               UNCHANGED <<downloadVars, file, sent>>
        PROVE  StreamInv'
    <2>1. pending' = "none" /\ state' \in {state, "ERROR"}
      BY <1>3 DEF dfu_sent_callback, usb_util_ack, usb_util_stall, Answered, Fail, dfuVars
    <2>2. UNCHANGED <<memory, mainVars>>
      BY <1>1, <1>3 DEF memory
    <2> QED
      BY <1>1, <1>3, <2>1, <2>2, ReplyKeepsStream
  <1>4. CASE DataArrives
    BY <1>2, <1>4 DEF DataArrives
  <1>5. CASE ReplyTaken \/ BlockTaken
    BY <1>3, <1>5 DEF ReplyTaken, BlockTaken, hostVars
  <1>6. CASE TransferFails
    <2>1. sent \in Nat /\ UNCHANGED <<file, sent>>
      BY <1>1, <1>6 DEF TransferFails, hostVars, TypeOK, HostOK
    <2>2. sent' = sent + 0
      BY <2>1
    <2> QED
      BY <1>2, <1>3, <1>6, <2>1, <2>2 DEF TransferFails
  <1> QED
    BY <1>4, <1>5, <1>6 DEF usb_util_endpoint_callback

-----------------------------------------------------------------------------
(* main, the poll and the reset.                                           *)

LEMMA ResetKeepsStream ==
    ASSUME TypeOK', Reset
    PROVE  StreamInv'
  <1>1. pc' = "reset" /\ state' = "APP_IDLE" /\ pending' = "none"
    BY DEF Reset
  <1>2. ProtocolOK'
    BY <1>1 DEF ProtocolOK, BusyPlace, ManifestPlace
  <1> QED
    BY <1>1, <1>2, OtherPlaces DEF StreamInv

LEMMA MainKeepsStream ==
    ASSUME StreamInv, TypeOK', main \/ dfu_poll_state,
           UNCHANGED <<flash, downloadVars, requestVars, hostVars>>
    PROVE  StreamInv'
  <1>1. ProtocolOK /\ PollOK /\ UNCHANGED <<pending, done, page_waiting_to_flush, count>>
    BY DEF StreamInv, requestVars, downloadVars
  <1>2. CASE Dead \/ StartApp
    <2>1. pc = "reset" /\ pc' \in {"dead", "app"} /\ state' = state
      BY <1>2 DEF Dead, StartApp, dfuVars
    <2>2. ProtocolOK'
      BY <1>1, <2>1 DEF ProtocolOK, BusyPlace, ManifestPlace
    <2> QED
      BY <2>1, <2>2, OtherPlaces DEF StreamInv
  <1>3. CASE EnterDfu
    <2>1. pc = "reset" /\ pc' = "poll" /\ state' = "IDLE"
      BY <1>3 DEF EnterDfu, dfu_init, Enter
    <2>2. ProtocolOK' /\ PollOK'
      BY <1>1, <2>1 DEF ProtocolOK, PollOK, Downloading, BusyPlace, ManifestPlace
    <2> QED
      BY <2>1, <2>2, OtherPlaces DEF StreamInv
  <1>4. CASE dfu_poll_state
    <2>1. /\ pc = "poll" /\ UNCHANGED memory /\ UNCHANGED <<state, dirty>>
          /\ pc' = PollLeadsTo /\ PollLeadsTo # "poll"
      BY <1>4 DEF dfu_poll_state, dfuVars, memory, hostVars
    <2>2. /\ Collected(count)' <=> Collected(count)
          /\ Complete' <=> Complete
      BY <1>1, <2>1, MemoryKept
    <2>3. CASE state = "MANIFEST"
      <3>1. pc' = "manifest"
        BY <2>1, <2>3, Zenon DEF PollLeadsTo
      <3>2. TailOK'
        BY <1>1, <2>1, <2>2, <2>3, <3>1 DEF TailOK, PollOK
      <3>3. ProtocolOK'
        BY <1>1, <2>1, <2>3, <3>1 DEF ProtocolOK, BusyPlace, ManifestPlace
      <3> QED
        BY <3>1, <3>2, <3>3, OtherPlaces DEF StreamInv
    <2>4. CASE state = "DOWNLOAD_BUSY"
      <3>1. pc' = "busy"
        BY <2>1, <2>4, Zenon DEF PollLeadsTo
      <3>2. FlushOK'
        BY <1>1, <2>1, <2>2, <2>4, <3>1 DEF FlushOK, PollOK, Downloading
      <3>3. ProtocolOK'
        BY <1>1, <2>1, <2>4, <3>1 DEF ProtocolOK, BusyPlace, ManifestPlace
      <3> QED
        BY <3>1, <3>2, <3>3, OtherPlaces DEF StreamInv
    <2>5. CASE state = "DETACH"
      <3>1. pc' = "stop"
        BY <2>1, <2>5, Zenon DEF PollLeadsTo
      <3>2. ProtocolOK'
        BY <1>1, <2>1, <2>5, <3>1 DEF ProtocolOK, BusyPlace, ManifestPlace
      <3> QED
        BY <3>1, <3>2, OtherPlaces DEF StreamInv
    <2>6. state \in {"MANIFEST", "DOWNLOAD_BUSY", "DETACH"}
      BY <2>1, Zenon DEF PollLeadsTo
    <2> QED
      BY <2>3, <2>4, <2>5, <2>6
  <1> QED
    BY <1>2, <1>3, <1>4 DEF main

-----------------------------------------------------------------------------
(* The flash_control calls.                                                *)

LEMMA WordFits == \A x \in 0 .. UINT32_MAX : Word(x) = x
  BY SizeFacts DEF Word

LEMMA StartFacts ==
    ASSUME TypeOK, Accepted
    PROVE  /\ image_info.start \in Nat /\ image_info.start % PAGE_SIZE = 0
           /\ FLASH_START <= image_info.start /\ Word(image_info.start) = image_info.start
           /\ PAGE_ALIGN(image_info.start) = image_info.start
  <1>1. image_info.start \in 0 .. UINT32_MAX
    BY DEF TypeOK, DownloadOK, Header
  <1>2. /\ image_info.start \in Nat /\ image_info.start % PAGE_SIZE = 0
        /\ FLASH_START <= image_info.start
    BY <1>1, FlashFacts DEF Accepted
  <1> QED
    BY <1>1, <1>2, WordFits, PageFacts

(* The page after what is in the flash.                                    *)
LEMMA NextPageFacts ==
    ASSUME TypeOK, Accepted, count % PAGE_SIZE = 0, Behind(count)
    PROVE  /\ image_info.start + count \in Nat /\ (image_info.start + count) % PAGE_SIZE = 0
           /\ Word(image_info.start + count) = image_info.start + count
           /\ PAGE_ALIGN(image_info.start + count) = image_info.start + count
  <1>1. count \in Nat /\ image_info.start \in 0 .. UINT32_MAX
    BY DEF TypeOK, DownloadOK, Header
  <1>2. (image_info.start + count) % PAGE_SIZE = 0
    BY <1>1, StartFacts, AlignedFacts DEF TypeOK, DownloadOK
  <1>3. image_info.start + count \in 0 .. UINT32_MAX
    BY <1>1, FlashFacts, SizeFacts DEF Behind
  <1> QED
    BY <1>2, <1>3, WordFits, PageFacts

(* An erase, in its two steps, changes the page it is given and no other.  *)
LEMMA EraseOutcome ==
    ASSUME NEW a \in Nat, a % PAGE_SIZE = 0, EraseBegins(a) \/ EraseSucceeds(a)
    PROVE  \A x \in FlashAddress : x \notin a .. a + PAGE_SIZE - 1 => flash'[x] = flash[x]
  BY PageFacts DEF EraseBegins, EraseSucceeds, PageSetTo

LEMMA ErasedOutcome ==
    ASSUME NEW a \in Nat, a % PAGE_SIZE = 0, EraseSucceeds(a)
    PROVE  /\ FLASH_START <= a /\ a + PAGE_SIZE <= FlashEnd
           /\ \A k \in PageIndex : flash'[a + k] = Blank
  <1>1. FLASH_START <= a /\ a + PAGE_SIZE <= FlashEnd
    BY PageFacts DEF EraseSucceeds, EraseUnderWay
  <1>2. \A k \in PageIndex : a + k \in FlashAddress /\ a + k \in PageOf(a)
    BY <1>1, PageFacts, FlashFacts, SizeFacts DEF PageIndex
  <1> QED
    BY <1>1, <1>2 DEF EraseSucceeds, PageSetTo

LEMMA ProgramOutcome ==
    ASSUME TypeOK, NEW buf, PAGE_ALIGN(address) = address, ProgramCell(buf)
    PROVE  /\ windex \in PageIndex /\ windex' = windex + 1
           /\ address + windex \in FlashAddress
           /\ \A x \in FlashAddress : x # address + windex => flash'[x] = flash[x]
           /\ flash'[address + windex] \in
                  {Programmed(flash[address + windex], buf[windex]), Torn}
  BY SizeFacts DEF TypeOK, FlashOK, MainOK, ProgramCell, ProgramTarget, PageIndex

(* What is in the flash before the page at a is kept when only that page   *)
(* changes.                                                                *)
LEMMA BehindKept ==
    ASSUME TypeOK, Accepted, UNCHANGED <<first_page, image_info, file>>,
           dirty => dirty',
           \A x \in FlashAddress : x < image_info.start + count => flash'[x] = flash[x],
           Behind(count), UNCHANGED count
    PROVE  Behind(count)'
  <1>1. /\ count \in Nat /\ image_info.start \in Nat /\ FLASH_START <= image_info.start
        /\ FlashEnd \in Nat
    BY StartFacts, FlashFacts DEF TypeOK, DownloadOK
  <1>2. ASSUME count > 0
        PROVE  \A o \in 0 .. count - 1 :
                   flash'[image_info.start + o] = flash[image_info.start + o]
    <2>1. image_info.start + count <= FlashEnd
      BY <1>2 DEF Behind
    <2>2. ASSUME NEW o \in 0 .. count - 1
          PROVE  /\ image_info.start + o \in FlashAddress
                 /\ image_info.start + o < image_info.start + count
      BY <1>1, <2>1, FlashFacts, SizeFacts
    <2> QED
      BY <2>2
  <1>3. ASSUME count > 0
        PROVE  FirstPageErased' /\
               HoldsPart(flash, image_info.start + PAGE_SIZE, PAGE_SIZE, count - PAGE_SIZE)'
    <2>1. FirstPageErased'
      BY <1>1, <1>2, <1>3, SizeFacts DEF FirstPageErased, Behind, PageIndex
    <2>2. ASSUME NEW k \in 0 .. count - PAGE_SIZE - 1
          PROVE  flash'[image_info.start + PAGE_SIZE + k] = <<file, PAGE_SIZE + k>>
      <3>1. /\ PAGE_SIZE + k \in 0 .. count - 1
            /\ image_info.start + (PAGE_SIZE + k) = image_info.start + PAGE_SIZE + k
        BY <1>1, <1>3, SizeFacts
      <3> QED
        BY <1>2, <1>3, <3>1 DEF Behind, HoldsPart
    <2> QED
      BY <2>1, <2>2 DEF HoldsPart
  <1> QED
    BY <1>3 DEF Behind, HoldsPart

-----------------------------------------------------------------------------
(* dfu_download_busy.                                                      *)

(* A page that waits is full and the header is in it or before it.         *)
LEMMA WaitingPage ==
    ASSUME TypeOK, Collected(count), page_waiting_to_flush
    PROVE  /\ page_count = PAGE_SIZE /\ Accepted
           /\ \A k \in PageIndex : page[k] = <<file, count + k>>
  <1>1. page_count = PAGE_SIZE
    BY DEF Collected
  <1>2. count \in Nat /\ overflow_count \in Nat /\ sent >= MINIMUM_SIZE
    BY <1>1, SizeAssumption, SizeFacts DEF TypeOK, DownloadOK, Collected
  <1> QED
    BY <1>1, <1>2, SizeFacts DEF Collected, HoldsPart, PageIndex

LEMMA BusyEraseKeeps ==
    ASSUME StreamInv, BusyErase, UNCHANGED hostVars
    PROVE  FlushOK'
  <1>1. /\ TypeOK /\ Collected(count) /\ page_waiting_to_flush
        /\ UNCHANGED <<file, sent>> /\ UNCHANGED downloadVars /\ dirty' /\ pc' = "busyErase"
    BY DEF StreamInv, FlushOK, BusyErase, CallErase, hostVars
  <1>2. Accepted
    BY <1>1, WaitingPage
  <1>3. /\ image_info.start + count \in Nat /\ (image_info.start + count) % PAGE_SIZE = 0
        /\ Word(image_info.start + count) = image_info.start + count
    BY <1>1, <1>2, NextPageFacts DEF Collected
  <1>4. address' = image_info.start + count /\ EraseBegins(image_info.start + count)
    BY <1>3 DEF BusyErase, CallErase
  <1>5. \A x \in FlashAddress : x < image_info.start + count => flash'[x] = flash[x]
    BY <1>3, <1>4, EraseOutcome, FlashFacts, SizeFacts
  <1>6. Behind(count)'
    BY <1>1, <1>2, <1>5, BehindKept DEF downloadVars, Collected
  <1>7. Collected(count)' /\ page_waiting_to_flush'
    BY <1>1, <1>6 DEF Collected, Session, Accepted, HoldsPart, downloadVars
  <1>8. address' = image_info'.start + count'
    BY <1>1, <1>4 DEF downloadVars
  <1> QED
    BY <1>1, <1>7, <1>8 DEF FlushOK

LEMMA BusyErasedKeeps ==
    ASSUME StreamInv, BusyErased, UNCHANGED hostVars
    PROVE  FlushOK'
  <1>1. /\ TypeOK /\ Collected(count) /\ page_waiting_to_flush /\ dirty
        /\ address = image_info.start + count /\ EraseSucceeds(address)
        /\ UNCHANGED <<file, sent, dirty, page, overflow, count, page_count, overflow_count,
                       page_waiting_to_flush, done, image_info>>
    BY DEF StreamInv, FlushOK, BusyErased, hostVars
  <1>2. Accepted /\ page_count = PAGE_SIZE /\ \A k \in PageIndex : page[k] = <<file, count + k>>
    BY <1>1, WaitingPage
  <1>3. address \in Nat /\ address % PAGE_SIZE = 0
    BY <1>1, <1>2, NextPageFacts DEF Collected
  <1>4. /\ address + PAGE_SIZE <= FlashEnd
        /\ \A k \in PageIndex : flash'[address + k] = Blank
    BY <1>1, <1>3, ErasedOutcome
  <1>5. count \in Nat /\ image_info.start \in Nat
    BY <1>1, <1>2, StartFacts DEF TypeOK, DownloadOK
  <1>6. CASE HeldBack
    <2>1. count = 0 /\ first_page' = page /\ pc' = "busyAdvance"
      BY <1>6 DEF BusyErased, HeldBack
    <2>2. \A k \in PageIndex : page[k] = <<file, k>>
      BY <1>2, <2>1 DEF PageIndex
    <2>3. HoldsPart(first_page, 0, 0, PAGE_SIZE)'
      BY <1>1, <2>1, <2>2, SizeFacts DEF HoldsPart, PageIndex
    <2>4. FirstPageErased'
      BY <1>1, <1>4, <1>5, <2>1 DEF FirstPageErased
    <2>5. Behind(count + PAGE_SIZE)'
      BY <1>1, <1>4, <1>5, <2>1, <2>3, <2>4, SizeFacts DEF Behind, HoldsPart
    <2>6. Collected(count + PAGE_SIZE)'
      BY <1>1, <2>5 DEF Collected, Session, Accepted, HoldsPart
    <2> QED
      BY <1>1, <2>1, <2>6 DEF FlushOK
  <1>7. CASE ~HeldBack
    <2>1. /\ count # 0 /\ pc' = "busyProgram" /\ UNCHANGED first_page
          /\ address' = address /\ windex' = 0
      BY <1>7 DEF BusyErased, HeldBack, CallProgram
    <2>2. \A x \in FlashAddress : x < image_info.start + count => flash'[x] = flash[x]
      BY <1>1, <1>3, EraseOutcome, FlashFacts, SizeFacts
    <2>3. Behind(count)'
      BY <1>1, <1>2, <2>1, <2>2, BehindKept DEF Collected
    <2>4. Collected(count)'
      BY <1>1, <2>3 DEF Collected, Session, Accepted, HoldsPart
    <2>5. /\ address' = image_info'.start + count' /\ count' > 0
          /\ image_info'.start + count' + PAGE_SIZE <= FlashEnd
      BY <1>1, <1>4, <1>5, <2>1
    <2> QED
      BY <1>1, <2>1, <2>4, <2>5 DEF FlushOK
  <1> QED
    BY <1>6, <1>7

LEMMA BusyProgramCellKeeps ==
    ASSUME StreamInv, FlashProgramCell, pc = "busyProgram", UNCHANGED hostVars
    PROVE  FlushOK'
  <1>1. /\ TypeOK /\ Collected(count) /\ page_waiting_to_flush /\ dirty
        /\ address = image_info.start + count /\ count > 0
        /\ image_info.start + count + PAGE_SIZE <= FlashEnd
        /\ UNCHANGED <<file, sent, dirty, pc, address>> /\ UNCHANGED downloadVars
        /\ ProgramCell(ProgramBuffer)
    BY DEF StreamInv, FlushOK, FlashProgramCell, hostVars
  <1>2. Accepted
    BY <1>1, WaitingPage
  <1>3. address \in Nat /\ PAGE_ALIGN(address) = address
    BY <1>1, <1>2, NextPageFacts DEF Collected
  <1>4. \A x \in FlashAddress : x < address => flash'[x] = flash[x]
    BY <1>1, <1>3, ProgramOutcome, FlashFacts, SizeFacts DEF PageIndex
  <1>5. Behind(count)'
    BY <1>1, <1>2, <1>4, BehindKept DEF Collected, downloadVars
  <1>6. Collected(count)'
    BY <1>1, <1>5 DEF Collected, Session, Accepted, HoldsPart, downloadVars
  <1> QED
    BY <1>1, <1>6 DEF FlushOK, downloadVars

(* The page in the flash, and the flash before it.                         *)
LEMMA BehindNext ==
    ASSUME TypeOK, Accepted, Behind(count), count > 0, count % PAGE_SIZE = 0,
           image_info.start + count + PAGE_SIZE <= FlashEnd,
           \A k \in PageIndex : flash[image_info.start + count + k] = <<file, count + k>>
    PROVE  Behind(count + PAGE_SIZE)
  <1>1. count \in Nat /\ image_info.start \in Nat /\ count >= PAGE_SIZE
    BY StartFacts DEF TypeOK, DownloadOK, Behind
  <1>2. ASSUME NEW k \in 0 .. count + PAGE_SIZE - PAGE_SIZE - 1
        PROVE  flash[image_info.start + PAGE_SIZE + k] = <<file, PAGE_SIZE + k>>
    <2>1. CASE k < count - PAGE_SIZE
      BY <1>1, <2>1, SizeFacts, SMTT(30) DEF Behind, HoldsPart
    <2>2. CASE k >= count - PAGE_SIZE
      <3>1. /\ k + PAGE_SIZE - count \in PageIndex
            /\ image_info.start + count + (k + PAGE_SIZE - count)
                   = image_info.start + PAGE_SIZE + k
            /\ count + (k + PAGE_SIZE - count) = PAGE_SIZE + k
        BY <1>1, <2>2, SizeFacts DEF PageIndex
      <3> QED
        BY <3>1
    <2> QED
      BY <1>1, <2>1, <2>2, SizeFacts
  <1> QED
    BY <1>1, <1>2, SizeFacts DEF Behind, HoldsPart

LEMMA BusyProgrammedKeeps ==
    ASSUME StreamInv, BusyProgrammed, UNCHANGED hostVars
    PROVE  FlushOK'
  <1>1. /\ TypeOK /\ Collected(count) /\ page_waiting_to_flush /\ dirty
        /\ address = image_info.start + count /\ count > 0
        /\ image_info.start + count + PAGE_SIZE <= FlashEnd
        /\ UNCHANGED <<file, sent, dirty, flash>> /\ UNCHANGED downloadVars
        /\ Verified(page) /\ pc' = "busyAdvance"
    BY DEF StreamInv, FlushOK, BusyProgrammed, ProgramSucceeds, ProgramBuffer, hostVars
  <1>2. Accepted /\ \A k \in PageIndex : page[k] = <<file, count + k>>
    BY <1>1, WaitingPage
  <1>3. PAGE_ALIGN(address) = address
    BY <1>1, <1>2, NextPageFacts DEF Collected
  <1>4. \A k \in PageIndex : flash[image_info.start + count + k] = <<file, count + k>>
    BY <1>1, <1>2, <1>3 DEF Verified
  <1>5. Behind(count + PAGE_SIZE)
    BY <1>1, <1>2, <1>4, BehindNext DEF Collected
  <1>6. Behind(count + PAGE_SIZE)'
    BY <1>1, <1>5 DEF Behind, HoldsPart, FirstPageErased, downloadVars
  <1>7. Collected(count + PAGE_SIZE)'
    BY <1>1, <1>6 DEF Collected, Session, Accepted, HoldsPart, downloadVars
  <1> QED
    BY <1>1, <1>7 DEF FlushOK, downloadVars

(* The next page is prepared: what has been written is counted, and what   *)
(* was carried over becomes the beginning of the page.                     *)
LEMMA BusyAdvanceKeeps ==
    ASSUME StreamInv, BusyAdvance, UNCHANGED <<file, sent>>,
           UNCHANGED <<dirty, flash, first_page, overflow, done, image_info>>
    PROVE  PrepareOK'
  <1>1. /\ TypeOK /\ Collected(count + PAGE_SIZE) /\ page_waiting_to_flush
        /\ pc' = "busyCarry" /\ count' = Word(count + PAGE_SIZE)
        /\ UNCHANGED <<page, page_count, overflow_count, page_waiting_to_flush>>
    BY DEF StreamInv, FlushOK, BusyAdvance
  <1>2. /\ page_count = PAGE_SIZE /\ count \in Nat /\ overflow_count \in Nat
        /\ sent = count + PAGE_SIZE + overflow_count
    BY <1>1 DEF Collected, TypeOK, DownloadOK
  <1>3. Accepted
    BY <1>1, <1>2, SizeFacts, SizeAssumption DEF Collected
  <1>4. count' = count + PAGE_SIZE
    <2>1. count + PAGE_SIZE > 0
      BY <1>2, SizeFacts
    <2>2. image_info.start + (count + PAGE_SIZE) <= FlashEnd /\ image_info.start \in Nat
      BY <1>1, <1>3, <2>1, StartFacts DEF Collected, Behind
    <2>3. count + PAGE_SIZE \in 0 .. UINT32_MAX
      BY <1>2, <2>2, FlashFacts, SizeFacts
    <2> QED
      BY <1>1, <2>3, WordFits
  <1>5. count' % PAGE_SIZE = 0 /\ count' > 0
    <2>1. PAGE_SIZE % PAGE_SIZE = 0 /\ count % PAGE_SIZE = 0
      BY <1>1, SizeFacts DEF Collected
    <2>2. (count + PAGE_SIZE) % PAGE_SIZE = 0
      BY <1>2, <2>1, SizeFacts, AlignedFacts
    <2> QED
      BY <1>2, <1>4, <2>2, SizeFacts
  <1>6. Behind(count)'
    BY <1>1, <1>4 DEF Collected, Behind, HoldsPart, FirstPageErased
  <1>7. HoldsPart(overflow, 0, count, overflow_count)'
    BY <1>1, <1>4 DEF Collected, HoldsPart
  <1>8. Session' /\ Accepted' /\ sent' = count' + overflow_count'
    BY <1>1, <1>2, <1>3, <1>4 DEF Collected, Session, Accepted
  <1> QED
    BY <1>1, <1>5, <1>6, <1>7, <1>8 DEF PrepareOK

LEMMA BusyNextPageKeeps ==
    ASSUME StreamInv, BusyNextPage, UNCHANGED hostVars
    PROVE  PrepareOK'
  <1>1. /\ TypeOK /\ UNCHANGED <<file, sent>>
        /\ UNCHANGED <<dirty, flash, first_page, overflow, done, image_info>>
    BY DEF StreamInv, BusyNextPage, hostVars
  <1>2. CASE BusyAdvance
    BY <1>1, <1>2, BusyAdvanceKeeps
  <1>3. ASSUME BusyCarry \/ BusyCount \/ BusyEmpty \/ BusyFlushed
        PROVE  /\ Session /\ Accepted /\ count > 0 /\ count % PAGE_SIZE = 0 /\ Behind(count)
               /\ UNCHANGED count /\ Behind(count)' /\ Accepted'
               /\ Session' <=> overflow_count' < TRANSFER_SIZE
               /\ count \in Nat /\ overflow_count \in 0 .. PAGE_SIZE - 1
    <2>1. /\ Session /\ Accepted /\ count > 0 /\ count % PAGE_SIZE = 0 /\ Behind(count)
      BY <1>3 DEF StreamInv, PrepareOK, BusyCarry, BusyCount, BusyEmpty, BusyFlushed
    <2>2. UNCHANGED count
      BY <1>3 DEF BusyCarry, BusyCount, BusyEmpty, BusyFlushed
    <2>3. count \in Nat /\ overflow_count \in 0 .. PAGE_SIZE - 1
      BY <1>1, <2>1, SizeFacts DEF TypeOK, DownloadOK, Session
    <2> QED
      BY <1>1, <2>1, <2>2, <2>3
         DEF Session, Accepted, Behind, HoldsPart, FirstPageErased
  <1>4. CASE BusyCarry
    <2>1. /\ sent = count + overflow_count /\ HoldsPart(overflow, 0, count, overflow_count)
          /\ page' = Copied(page, 0, overflow, overflow_count) /\ pc' = "busyCount"
          /\ UNCHANGED <<page_count, overflow_count>>
          /\ page \in [PageIndex -> Cell]
      BY <1>1, <1>4 DEF StreamInv, PrepareOK, BusyCarry, TypeOK, DownloadOK
    <2>2. ASSUME NEW k \in 0 .. overflow_count - 1
          PROVE  page'[k] = <<file, count + k>>
      <3>1. k \in PageIndex /\ k \in 0 .. 0 + overflow_count - 1 /\ k - 0 = k
        BY <1>3, <1>4, <2>2, SizeFacts DEF PageIndex
      <3>2. page'[k] = overflow[k]
        BY <2>1, <3>1 DEF Copied
      <3> QED
        BY <2>1, <2>2, <3>2 DEF HoldsPart
    <2>3. HoldsPart(page, 0, count, overflow_count)'
      BY <1>1, <1>3, <1>4, <2>1, <2>2 DEF HoldsPart
    <2>4. Session'
      BY <1>3, <1>4, <2>1 DEF Session
    <2> QED
      BY <1>1, <1>3, <1>4, <2>1, <2>3, <2>4 DEF PrepareOK
  <1>5. CASE BusyCount
    <2>1. /\ sent = count + overflow_count /\ HoldsPart(page, 0, count, overflow_count)
          /\ page_count' = overflow_count /\ pc' = "busyEmpty"
          /\ UNCHANGED <<page, overflow_count>>
      BY <1>1, <1>5 DEF StreamInv, PrepareOK, BusyCount, CarriedOver
    <2>2. HoldsPart(page, 0, count, page_count)'
      BY <1>1, <1>3, <1>5, <2>1 DEF HoldsPart
    <2>3. Session' /\ sent' = count' + page_count' /\ page_count' < PAGE_SIZE
      BY <1>1, <1>3, <1>5, <2>1, SizeFacts DEF Session
    <2> QED
      BY <1>1, <1>3, <1>5, <2>1, <2>2, <2>3 DEF PrepareOK
  <1>6. CASE BusyEmpty
    <2>1. /\ sent = count + page_count /\ HoldsPart(page, 0, count, page_count)
          /\ page_count < PAGE_SIZE /\ overflow_count' = 0 /\ pc' = "busyFlushed"
          /\ UNCHANGED <<page, page_count>>
      BY <1>1, <1>6 DEF StreamInv, PrepareOK, BusyEmpty
    <2>2. HoldsPart(page, 0, count, page_count)'
      BY <1>1, <1>3, <1>6, <2>1 DEF HoldsPart
    <2>3. Session'
      BY <1>3, <1>6, <2>1, SizeFacts
    <2> QED
      BY <1>1, <1>3, <1>6, <2>1, <2>2, <2>3 DEF PrepareOK
  <1>7. CASE BusyFlushed
    <2>1. /\ sent = count + page_count /\ HoldsPart(page, 0, count, page_count)
          /\ page_count < PAGE_SIZE /\ overflow_count = 0 /\ pc' = "busyPublish"
          /\ UNCHANGED <<page, page_count, overflow_count>>
          /\ page_waiting_to_flush' = FALSE
      BY <1>1, <1>7 DEF StreamInv, PrepareOK, BusyFlushed
    <2>2. HoldsPart(page, 0, count, page_count)'
      BY <1>1, <1>3, <1>7, <2>1 DEF HoldsPart
    <2>3. Session'
      BY <1>3, <1>7, <2>1, SizeFacts
    <2> QED
      BY <1>1, <1>3, <1>7, <2>1, <2>2, <2>3 DEF PrepareOK
  <1> QED
    BY <1>2, <1>4, <1>5, <1>6, <1>7 DEF BusyNextPage

LEMMA BusyPublishKeeps ==
    ASSUME StreamInv, BusyPublish, UNCHANGED hostVars
    PROVE  PollOK'
  <1>1. /\ Session /\ Accepted /\ count % PAGE_SIZE = 0 /\ Behind(count)
        /\ sent = count + page_count /\ page_count < PAGE_SIZE /\ overflow_count = 0
        /\ HoldsPart(page, 0, count, page_count) /\ ~page_waiting_to_flush
        /\ UNCHANGED memory /\ state' = "DOWNLOAD_SYNC"
        /\ TypeOK
    BY DEF StreamInv, PrepareOK, BusyPublish, Enter, memory, hostVars
  <1>2. sent = count + page_count + overflow_count
    BY <1>1 DEF TypeOK, DownloadOK
  <1>3. HoldsPart(overflow, 0, count + PAGE_SIZE, overflow_count)
    BY <1>1 DEF HoldsPart
  <1>4. Collected(count)
    BY <1>1, <1>2, <1>3, SizeFacts DEF Collected, TypeOK, DownloadOK
  <1>5. Collected(count)'
    <2>1. UNCHANGED count
      BY <1>1 DEF memory, downloadVars
    <2> QED
      BY <1>1, <1>4, <2>1, MemoryKept
  <1> QED
    BY <1>1, <1>5 DEF PollOK, Downloading

-----------------------------------------------------------------------------
(* dfu_download_manifest.                                                  *)

(* What dfu_download_manifest begins with.                                 *)
LEMMA ManifestBegins ==
    ASSUME StreamInv, pc = "manifest"
    PROVE  /\ TypeOK /\ Session /\ Complete /\ Accepted /\ Collected(count)
           /\ page_count < PAGE_SIZE /\ page_count \in Nat /\ count \in Nat /\ sent \in Nat
           /\ overflow_count = 0 /\ sent = count + page_count
  <1>1. TypeOK /\ Collected(count) /\ ~page_waiting_to_flush /\ Complete
    BY DEF StreamInv, TailOK
  <1>2. page_count \in 0 .. PAGE_SIZE /\ count \in Nat /\ page_count # PAGE_SIZE
    BY <1>1 DEF TypeOK, DownloadOK, Collected
  <1> QED
    BY <1>1, <1>2, SizeFacts DEF Collected, Complete, TypeOK, HostOK

LEMMA ManifestFirstKeeps ==
    ASSUME StreamInv, ManifestFirst, UNCHANGED hostVars
    PROVE  TailOK'
  <1>1. /\ pc = "manifest" /\ pc' = "firstErase" /\ count = 0 /\ dirty'
        /\ first_page' = Padded(page, page_count) /\ page_count' = 0
        /\ address' = image_info.start
        /\ UNCHANGED <<file, sent, count, overflow_count, done, image_info>>
    BY DEF ManifestFirst, HeldBack, CallErase, hostVars
  <1>2. /\ TypeOK /\ Session /\ Complete /\ Accepted /\ Collected(count)
        /\ page_count < PAGE_SIZE /\ sent = page_count /\ page_count \in Nat
    BY <1>1, ManifestBegins
  <1>3. Session' /\ Complete' /\ Accepted'
    BY <1>1, <1>2 DEF Session, Complete, Accepted
  <1>4. ASSUME NEW k \in PageIndex
        PROVE  first_page'[k] = IF k < sent THEN <<file, k>> ELSE Blank
    <2>1. page \in [PageIndex -> Cell] /\ first_page'[k] = IF k < sent THEN page[k] ELSE Blank
      BY <1>1, <1>2, <1>4 DEF Padded, TypeOK, DownloadOK
    <2>2. k < sent => page[k] = <<file, k>>
      BY <1>1, <1>2, <1>4 DEF Collected, HoldsPart, PageIndex
    <2> QED
      BY <2>1, <2>2
  <1>5. \A k \in PageIndex : first_page'[k] = IF k < sent' THEN <<file', k>> ELSE Blank
    BY <1>1, <1>4
  <1>6. /\ count' = 0 /\ page_count' = 0 /\ sent' <= PAGE_SIZE
        /\ address' = image_info'.start
    BY <1>1, <1>2, SizeFacts
  <1> QED
    BY <1>1, <1>3, <1>5, <1>6 DEF TailOK

LEMMA ManifestFirstErasedKeeps ==
    ASSUME StreamInv, ManifestFirstErased, UNCHANGED hostVars
    PROVE  TailOK'
  <1>1. /\ pc = "firstErase" /\ pc' = "tail" /\ EraseSucceeds(address)
        /\ UNCHANGED <<file, sent, dirty>> /\ UNCHANGED downloadVars
        /\ TypeOK /\ TailOK
    BY DEF StreamInv, ManifestFirstErased, hostVars
  <1>2. Session /\ Accepted /\ Complete /\ address = image_info.start
    BY <1>1 DEF TailOK
  <1>3. /\ image_info.start + PAGE_SIZE <= FlashEnd
        /\ \A k \in PageIndex : flash'[image_info.start + k] = Blank
    BY <1>1, <1>2, StartFacts, ErasedOutcome
  <1> QED
    BY <1>1, <1>2, <1>3
       DEF TailOK, Session, Accepted, Complete, FirstPageErased, downloadVars

(* The tail of the image is in page.                                       *)
LEMMA ManifestTailErase ==
    ASSUME StreamInv, ManifestTail, page_count # 0, UNCHANGED hostVars
    PROVE  TailOK' /\ pc' = "tailErase"
  <1>1. pc = "manifest" /\ count # 0
    BY DEF ManifestTail, StreamInv, TailOK, HeldBack
  <1>2. /\ TypeOK /\ Session /\ Complete /\ Accepted /\ Collected(count)
        /\ page_count < PAGE_SIZE /\ page_count \in Nat /\ count \in Nat
        /\ sent = count + page_count
    BY <1>1, ManifestBegins
  <1>3. /\ page' = Padded(page, page_count)
        /\ pc' = "tailErase" /\ address' = Word(image_info.start + count)
        /\ EraseBegins(Word(image_info.start + count))
        /\ UNCHANGED <<file, sent, dirty, first_page, count, page_count, overflow_count,
                       done, image_info>>
    BY DEF ManifestTail, CallErase, hostVars
  <1>4. /\ image_info.start + count \in Nat /\ (image_info.start + count) % PAGE_SIZE = 0
        /\ Word(image_info.start + count) = image_info.start + count
    BY <1>2, NextPageFacts DEF Collected
  <1>5. \A x \in FlashAddress : x < image_info.start + count => flash'[x] = flash[x]
    BY <1>3, <1>4, EraseOutcome, FlashFacts, SizeFacts
  <1>6. Behind(count)' /\ Session' /\ Complete' /\ Accepted'
    BY <1>2, <1>3, <1>5, BehindKept DEF Collected, Session, Complete, Accepted
  <1>7. count >= PAGE_SIZE /\ dirty /\ HoldsPart(first_page, 0, 0, PAGE_SIZE)
    BY <1>1, <1>2 DEF Collected, Behind
  <1>8. \A k \in PageIndex : first_page'[k] = IF k < sent' THEN <<file', k>> ELSE Blank
    BY <1>2, <1>3, <1>7, SizeFacts DEF HoldsPart, PageIndex
  <1>9. ASSUME NEW k \in PageIndex
        PROVE  page'[k] = IF k < page_count THEN <<file, count + k>> ELSE Blank
    <2>1. /\ page \in [PageIndex -> Cell]
          /\ page'[k] = IF k < page_count THEN page[k] ELSE Blank
      BY <1>2, <1>3, <1>9 DEF Padded, TypeOK, DownloadOK
    <2>2. k < page_count => page[k] = <<file, count + k>>
      BY <1>2, <1>9 DEF Collected, HoldsPart, PageIndex
    <2> QED
      BY <2>1, <2>2
  <1>10. HoldsPart(page, 0, count, page_count)'
    <2>1. ASSUME NEW k \in 0 .. page_count - 1
          PROVE  page'[0 + k] = <<file, count + k>>
      <3>1. k \in PageIndex /\ 0 + k = k /\ k < page_count
        BY <1>2, SizeFacts DEF PageIndex
      <3> QED
        BY <1>9, <3>1
    <2> QED
      BY <1>3, <2>1 DEF HoldsPart
  <1>11. \A k \in page_count' .. PAGE_SIZE - 1 : page'[k] = Blank
    <2>1. ASSUME NEW k \in page_count .. PAGE_SIZE - 1
          PROVE  page'[k] = Blank
      <3>1. k \in PageIndex /\ ~(k < page_count)
        BY <1>2, SizeFacts DEF PageIndex
      <3> QED
        BY <1>9, <3>1
    <2> QED
      BY <1>3, <2>1
  <1>12. /\ count' > 0 /\ count' % PAGE_SIZE = 0 /\ page_count' \in 1 .. PAGE_SIZE - 1
         /\ sent' = count' + page_count' /\ address' = image_info'.start + count' /\ dirty'
    BY <1>1, <1>2, <1>3, <1>4, <1>7, SizeFacts DEF Collected
  <1> QED
    BY <1>3, <1>6, <1>8, <1>10, <1>11, <1>12 DEF TailOK

(* There is no tail: the first page is next.                               *)
LEMMA ManifestNoTail ==
    ASSUME StreamInv, ManifestTail, page_count = 0, UNCHANGED hostVars
    PROVE  TailOK' /\ LastOK' /\ pc' = "firstProgram"
  <1>1. /\ pc' = "firstProgram" /\ address' = image_info.start /\ windex' = 0
        /\ UNCHANGED <<file, sent, dirty, flash>> /\ UNCHANGED downloadVars
        /\ TypeOK /\ TailOK
        /\ pc = "tail" \/ (pc = "manifest" /\ count # 0)
    BY DEF StreamInv, ManifestTail, HeldBack, CallProgram, hostVars, downloadVars
  <1>2. /\ Session /\ Complete /\ Accepted /\ dirty
        /\ image_info.start + PAGE_SIZE <= FlashEnd
        /\ FirstPageErased
        /\ \A k \in PageIndex : first_page[k] = IF k < sent THEN <<file, k>> ELSE Blank
        /\ \A o \in PAGE_SIZE .. sent - 1 :
               /\ image_info.start + o \in FlashAddress
               /\ flash[image_info.start + o] = <<file, o>>
    <2>1. CASE pc = "tail"
      <3>1. sent \in Nat /\ sent <= PAGE_SIZE
        BY <1>1, <2>1 DEF TypeOK, HostOK, TailOK
      <3> QED
        BY <1>1, <2>1, <3>1, SizeFacts DEF TailOK
    <2>2. CASE pc = "manifest" /\ count # 0
      <3>1. /\ Session /\ Complete /\ Accepted /\ Collected(count)
            /\ count \in Nat /\ sent = count + 0 /\ sent = count
        BY <2>2, ManifestBegins
      <3>2. /\ count >= PAGE_SIZE /\ image_info.start + count <= FlashEnd /\ dirty
            /\ HoldsPart(first_page, 0, 0, PAGE_SIZE) /\ FirstPageErased
            /\ HoldsPart(flash, image_info.start + PAGE_SIZE, PAGE_SIZE, count - PAGE_SIZE)
        BY <2>2, <3>1 DEF Collected, Behind
      <3>3. image_info.start \in Nat /\ FLASH_START <= image_info.start
        BY <1>1, <3>1, StartFacts
      <3>4. \A k \in PageIndex : first_page[k] = IF k < sent THEN <<file, k>> ELSE Blank
        BY <3>1, <3>2, SizeFacts DEF HoldsPart, PageIndex
      <3>5. ASSUME NEW o \in PAGE_SIZE .. sent - 1
            PROVE  /\ image_info.start + o \in FlashAddress
                   /\ flash[image_info.start + o] = <<file, o>>
        <4>1. /\ o - PAGE_SIZE \in 0 .. count - PAGE_SIZE - 1
              /\ image_info.start + PAGE_SIZE + (o - PAGE_SIZE) = image_info.start + o
              /\ PAGE_SIZE + (o - PAGE_SIZE) = o
          BY <3>1, <3>3, SizeFacts
        <4>2. image_info.start + o \in FlashAddress
          BY <3>1, <3>2, <3>3, FlashFacts, SizeFacts
        <4> QED
          BY <3>2, <4>1, <4>2 DEF HoldsPart
      <3>6. image_info.start + PAGE_SIZE <= FlashEnd
        BY <3>1, <3>2, <3>3, FlashFacts, SizeFacts
      <3> QED
        BY <3>1, <3>2, <3>4, <3>5, <3>6
    <2> QED
      BY <1>1, <2>1, <2>2
  <1>3. TailOK'
    BY <1>1, <1>2 DEF TailOK, Session, Complete, Accepted, downloadVars
  <1>4. LastOK'
    BY <1>1, <1>2, SizeFacts DEF LastOK, FirstPageErased, PageIndex, downloadVars
  <1> QED
    BY <1>1, <1>3, <1>4

LEMMA ManifestTailErasedKeeps ==
    ASSUME StreamInv, ManifestTailErased, UNCHANGED hostVars
    PROVE  TailOK'
  <1>1. /\ pc = "tailErase" /\ pc' = "tailProgram" /\ EraseSucceeds(address)
        /\ address' = address
        /\ UNCHANGED <<file, sent, dirty>> /\ UNCHANGED downloadVars
        /\ TypeOK /\ TailOK
    BY DEF StreamInv, ManifestTailErased, CallProgram, hostVars
  <1>2. /\ Session /\ Accepted /\ Complete /\ dirty /\ count % PAGE_SIZE = 0 /\ Behind(count)
        /\ address = image_info.start + count /\ count > 0
    BY <1>1 DEF TailOK
  <1>3. address \in Nat /\ address % PAGE_SIZE = 0
    BY <1>1, <1>2, NextPageFacts
  <1>4. address + PAGE_SIZE <= FlashEnd
    BY <1>1, <1>3, ErasedOutcome
  <1>5. \A x \in FlashAddress : x < image_info.start + count => flash'[x] = flash[x]
    BY <1>1, <1>2, <1>3, EraseOutcome, FlashFacts, SizeFacts
  <1>6. Behind(count)'
    BY <1>1, <1>2, <1>5, BehindKept DEF downloadVars
  <1> QED
    BY <1>1, <1>2, <1>4, <1>6
       DEF TailOK, Session, Accepted, Complete, HoldsPart, downloadVars

LEMMA TailProgramCellKeeps ==
    ASSUME StreamInv, FlashProgramCell, pc = "tailProgram", UNCHANGED hostVars
    PROVE  TailOK'
  <1>1. /\ ProgramCell(ProgramBuffer)
        /\ UNCHANGED <<file, sent, dirty, pc, address>> /\ UNCHANGED downloadVars
        /\ TypeOK /\ TailOK
    BY DEF StreamInv, FlashProgramCell, hostVars
  <1>2. /\ Session /\ Accepted /\ Complete /\ dirty /\ count % PAGE_SIZE = 0 /\ Behind(count)
        /\ address = image_info.start + count /\ count > 0
    BY <1>1 DEF TailOK
  <1>3. address \in Nat /\ PAGE_ALIGN(address) = address
    BY <1>1, <1>2, NextPageFacts
  <1>4. \A x \in FlashAddress : x < address => flash'[x] = flash[x]
    BY <1>1, <1>3, ProgramOutcome, FlashFacts, SizeFacts DEF PageIndex
  <1>5. Behind(count)'
    BY <1>1, <1>2, <1>4, BehindKept DEF downloadVars
  <1> QED
    BY <1>1, <1>2, <1>5
       DEF TailOK, Session, Accepted, Complete, HoldsPart, downloadVars

LEMMA ManifestTailProgrammedKeeps ==
    ASSUME StreamInv, ManifestTailProgrammed, UNCHANGED hostVars
    PROVE  TailOK' /\ LastOK'
  <1>1. /\ pc = "tailProgram" /\ pc' = "firstProgram" /\ Verified(page)
        /\ address' = image_info.start /\ windex' = 0
        /\ UNCHANGED <<file, sent, dirty, flash>> /\ UNCHANGED downloadVars
        /\ TypeOK /\ TailOK
    BY DEF StreamInv, ManifestTailProgrammed, CallProgram, ProgramSucceeds, ProgramBuffer,
           hostVars
  <1>2. /\ Session /\ Accepted /\ Complete /\ dirty /\ count % PAGE_SIZE = 0 /\ Behind(count)
        /\ address = image_info.start + count /\ count > 0
        /\ image_info.start + count + PAGE_SIZE <= FlashEnd
        /\ page_count \in 1 .. PAGE_SIZE - 1 /\ sent = count + page_count
        /\ HoldsPart(page, 0, count, page_count)
        /\ \A k \in PageIndex : first_page[k] = IF k < sent THEN <<file, k>> ELSE Blank
    BY <1>1 DEF TailOK
  <1>3. /\ count \in Nat /\ count >= PAGE_SIZE /\ FirstPageErased
        /\ image_info.start \in Nat /\ FLASH_START <= image_info.start
        /\ HoldsPart(flash, image_info.start + PAGE_SIZE, PAGE_SIZE, count - PAGE_SIZE)
    BY <1>1, <1>2, StartFacts DEF Behind, TypeOK, DownloadOK
  <1>4. PAGE_ALIGN(address) = address
    BY <1>1, <1>2, NextPageFacts
  <1>5. \A k \in PageIndex : flash[image_info.start + count + k] = page[k]
    BY <1>1, <1>2, <1>4 DEF Verified
  <1>6. ASSUME NEW o \in PAGE_SIZE .. sent - 1
        PROVE  /\ image_info.start + o \in FlashAddress
               /\ flash[image_info.start + o] = <<file, o>>
    <2>1. image_info.start + o \in FlashAddress
      BY <1>2, <1>3, FlashFacts, SizeFacts, SMTT(30)
    <2>2. CASE o < count
      <3>1. /\ o - PAGE_SIZE \in 0 .. count - PAGE_SIZE - 1
            /\ image_info.start + PAGE_SIZE + (o - PAGE_SIZE) = image_info.start + o
            /\ PAGE_SIZE + (o - PAGE_SIZE) = o
        BY <1>3, <2>2, SizeFacts
      <3> QED
        BY <1>3, <2>1, <3>1 DEF HoldsPart
    <2>3. CASE o >= count
      <3>1. /\ o - count \in PageIndex /\ o - count \in 0 .. page_count - 1
            /\ image_info.start + count + (o - count) = image_info.start + o
            /\ count + (o - count) = o /\ 0 + (o - count) = o - count
        BY <1>2, <1>3, <2>3, SizeFacts DEF PageIndex
      <3>2. page[o - count] = <<file, o>>
        BY <1>2, <3>1 DEF HoldsPart
      <3> QED
        BY <1>5, <2>1, <3>1, <3>2
    <2> QED
      BY <1>3, <2>2, <2>3, SizeFacts
  <1>7. TailOK'
    <2>1. image_info.start + PAGE_SIZE <= image_info.start + count + PAGE_SIZE
      BY <1>3, SizeFacts
    <2>2. image_info.start + PAGE_SIZE <= FlashEnd
      <3>1. image_info.start + count + PAGE_SIZE <= FlashEnd /\ FlashEnd \in Nat
        BY <1>2, FlashFacts
      <3>2. image_info.start \in Nat /\ count \in Nat /\ PAGE_SIZE \in Nat
        BY <1>3, SizeFacts
      <3> QED
        BY <2>1, <3>1, <3>2
    <2> QED
      BY <1>1, <1>2, <2>2 DEF TailOK, Session, Complete, Accepted, downloadVars
  <1>8. LastOK'
    BY <1>1, <1>3, <1>6, SizeFacts DEF LastOK, FirstPageErased, PageIndex, downloadVars
  <1> QED
    BY <1>7, <1>8

LEMMA FirstProgramCellKeeps ==
    ASSUME StreamInv, FlashProgramCell, pc = "firstProgram", UNCHANGED hostVars
    PROVE  TailOK' /\ LastOK'
  <1>1. /\ ProgramCell(first_page)
        /\ UNCHANGED <<file, sent, dirty, pc, address>> /\ UNCHANGED downloadVars
        /\ TypeOK /\ TailOK /\ LastOK
    BY DEF StreamInv, FlashProgramCell, ProgramBuffer, hostVars
  <1>2. /\ Session /\ Accepted /\ Complete /\ dirty /\ address = image_info.start
        /\ image_info.start + PAGE_SIZE <= FlashEnd
        /\ \A k \in PageIndex : first_page[k] = IF k < sent THEN <<file, k>> ELSE Blank
    BY <1>1 DEF TailOK
  <1>3. image_info.start \in Nat /\ FLASH_START <= image_info.start
    BY <1>1, <1>2, StartFacts
  <1>4. /\ windex \in PageIndex /\ windex' = windex + 1
        /\ \A x \in FlashAddress : x # image_info.start + windex => flash'[x] = flash[x]
        /\ flash'[image_info.start + windex] \in
               {Programmed(flash[image_info.start + windex], first_page[windex]), Torn}
    BY <1>1, <1>2, StartFacts, ProgramOutcome
  <1>5. TailOK'
    BY <1>1, <1>2 DEF TailOK, Session, Complete, Accepted, downloadVars
  <1>6. ASSUME NEW o \in PAGE_SIZE .. sent - 1
        PROVE  /\ image_info.start + o \in FlashAddress
               /\ flash'[image_info.start + o] = <<file, o>>
    <2>1. image_info.start + o # image_info.start + windex
      BY <1>3, <1>4, SizeFacts DEF PageIndex
    <2> QED
      BY <1>1, <1>4, <2>1 DEF LastOK
  <1>7. ASSUME NEW k \in PageIndex
        PROVE  flash'[image_info.start + k] \in
                   IF k < windex + 1 THEN {first_page[k], Torn} ELSE {Blank}
    <2>1. image_info.start + k \in FlashAddress
      BY <1>2, <1>3, FlashFacts, SizeFacts DEF PageIndex
    <2>2. CASE k = windex
      <3>1. flash[image_info.start + k] \in IF k < windex THEN {first_page[k], Torn} ELSE {Blank}
        BY <1>1 DEF LastOK
      <3>2. ~(k < windex)
        BY <1>4, <2>2, SizeFacts DEF PageIndex
      <3>3. Programmed(Blank, first_page[k]) = first_page[k]
        BY DEF Programmed
      <3> QED
        BY <1>4, <2>2, <3>1, <3>2, <3>3, SizeFacts DEF PageIndex
    <2>3. CASE k # windex
      <3>1. image_info.start + k # image_info.start + windex /\ (k < windex <=> k < windex + 1)
        BY <1>3, <1>4, <2>3, SizeFacts DEF PageIndex
      <3> QED
        BY <1>1, <1>4, <2>1, <3>1 DEF LastOK
    <2> QED
      BY <2>2, <2>3
  <1>8. LastOK'
    BY <1>1, <1>4, <1>6, <1>7 DEF LastOK, downloadVars
  <1> QED
    BY <1>5, <1>8

(* The first page has been verified.  Of the flash, first_page and the     *)
(* page that have been read back, the image is made.                       *)
LEMMA ManifestFirstProgrammedKeeps ==
    ASSUME StreamInv, ManifestFirstProgrammed, UNCHANGED hostVars
    PROVE  DoneOK'
  <1>1. /\ pc = "firstProgram" /\ Verified(first_page) /\ done' = TRUE
        /\ UNCHANGED <<file, sent, flash, image_info>>
        /\ TypeOK /\ TailOK /\ LastOK
    BY DEF StreamInv, ManifestFirstProgrammed, ProgramSucceeds, ProgramBuffer, hostVars
  <1>2. /\ Session /\ Accepted /\ Complete /\ dirty /\ address = image_info.start
        /\ image_info.start + PAGE_SIZE <= FlashEnd
        /\ \A k \in PageIndex : first_page[k] = IF k < sent THEN <<file, k>> ELSE Blank
    BY <1>1 DEF TailOK
  <1>3. /\ image_info.start \in Nat /\ FLASH_START <= image_info.start
        /\ PAGE_ALIGN(address) = image_info.start
        /\ sent \in Nat /\ image_info.length \in Nat /\ file \in File
    BY <1>1, <1>2, StartFacts, HostAssumption
       DEF TypeOK, HostOK, DownloadOK, Header, Session
  <1>4. ASSUME NEW o \in 0 .. sent - 1
        PROVE  /\ image_info.start + o \in FlashAddress
               /\ flash[image_info.start + o] = <<file, o>>
    <2>1. CASE o \in PageIndex
      <3>1. o < sent
        BY <1>3, <1>4
      <3>2. first_page[o] = <<file, o>>
        BY <1>2, <2>1, <3>1
      <3> QED
        BY <1>1, <1>3, <2>1, <3>2 DEF Verified
    <2>2. CASE o >= PAGE_SIZE
      <3>1. o \in PAGE_SIZE .. sent - 1
        BY <1>3, <2>2, SizeFacts
      <3> QED
        BY <1>1, <3>1 DEF LastOK
    <2> QED
      BY <1>3, <2>1, <2>2, SizeFacts DEF PageIndex
  <1>5. sent >= MINIMUM_SIZE /\ sent >= image_info.length
    BY <1>2, <1>3, SizeFacts DEF Complete
  <1>6. FlashHeaderFile(image_info.start) = file
    <2>1. \A o \in BOOTLOADER_INFO_OFFSET .. MINIMUM_SIZE - 1 :
              flash[image_info.start + o] = <<file, o>>
      <3>1. \A o \in BOOTLOADER_INFO_OFFSET .. MINIMUM_SIZE - 1 : o \in 0 .. sent - 1
        BY <1>3, <1>5, HeaderSize
      <3> QED
        BY <1>4, <3>1
    <2>2. flash[image_info.start + BOOTLOADER_INFO_OFFSET][1] = file
      <3>1. BOOTLOADER_INFO_OFFSET \in BOOTLOADER_INFO_OFFSET .. MINIMUM_SIZE - 1
        BY HeaderSize
      <3> QED
        BY <2>1, <3>1
    <2>3. HeaderFile(flash, image_info.start) = file
      BY <2>1, <2>2 DEF HeaderFile
    <2>4. 0 \in 0 .. sent - 1 /\ MINIMUM_SIZE - 1 \in 0 .. sent - 1
      BY <1>3, <1>5, HeaderSize
    <2>5. {image_info.start, image_info.start + MINIMUM_SIZE - 1} \subseteq FlashAddress
      BY <1>3, <1>4, <2>4, SizeFacts
    <2> QED
      BY <2>3, <2>5 DEF FlashHeaderFile
  <1>7. ChecksumMatches(image_info.start)
    <2>1. \A o \in 0 .. FileHeader[file].length - 1 :
              /\ image_info.start + o \in FlashAddress
              /\ flash[image_info.start + o] = <<file, o>>
      BY <1>2, <1>3, <1>4, <1>5 DEF Accepted
    <2>2. file # NoFile
      BY <1>3, FileAssumption
    <2> QED
      BY <1>6, <2>1, <2>2 DEF ChecksumMatches
  <1>8. FileAt(image_info.start) = file
    BY <1>6, <1>7 DEF FileAt
  <1>9. FileAt(image_info.start)' = FileAt(image_info.start)
    BY <1>1 DEF FileAt, ChecksumMatches, FlashHeaderFile, HeaderFile
  <1>10. Written'
    BY <1>1, <1>2, <1>8, <1>9 DEF Written, Session, Accepted
  <1> QED
    BY <1>10 DEF DoneOK

LEMMA ManifestPublishKeeps ==
    ASSUME StreamInv, ManifestPublish, UNCHANGED hostVars
    PROVE  PollOK'
  <1>1. /\ Written /\ done /\ UNCHANGED memory /\ state' = "MANIFEST_SYNC"
    BY DEF StreamInv, DoneOK, Written, ManifestPublish, Enter, memory, hostVars
  <1>2. Written' /\ done'
    BY <1>1, MemoryKept DEF memory, downloadVars
  <1> QED
    BY <1>1, <1>2 DEF PollOK, Downloading

-----------------------------------------------------------------------------
(* Every step of download.c, and every step.                               *)

LEMMA DownloadProtocol ==
    ASSUME ProtocolOK, pc \in BusyPlace \cup ManifestPlace, UNCHANGED pending,
           \/ pc' \in BusyPlace \cup ManifestPlace /\ state' = state
           \/ pc' = "poll" /\ state' \in {"DOWNLOAD_SYNC", "MANIFEST_SYNC", "ERROR"}
    PROVE  ProtocolOK'
  BY DEF ProtocolOK, BusyPlace, ManifestPlace

LEMMA DownloadKeepsStream ==
    ASSUME StreamInv, TypeOK', DownloadStep
    PROVE  StreamInv'
  <1>1. ProtocolOK /\ UNCHANGED pending /\ UNCHANGED hostVars
    BY DEF StreamInv, DownloadStep, requestVars
  <1> USE OtherPlaces DEF BusyPlace, ManifestPlace
  <1>2. ASSUME pc \in BusyPlace \cup ManifestPlace,
               pc' \in BusyPlace \cup ManifestPlace, UNCHANGED dfuVars,
               FlushOK' /\ PrepareOK' /\ TailOK' /\ LastOK' /\ DoneOK'
        PROVE  StreamInv'
    BY <1>1, <1>2, DownloadProtocol DEF StreamInv, dfuVars
  <1>3. ASSUME pc \in BusyPlace \cup ManifestPlace, pc' = "poll",
               state' \in {"DOWNLOAD_SYNC", "MANIFEST_SYNC", "ERROR"}, PollOK'
        PROVE  StreamInv'
    BY <1>1, <1>3, DownloadProtocol DEF StreamInv
  <1>4. CASE dfu_download_busy
    <2>1. CASE BusyErase
      BY <1>1, <1>2, <2>1, BusyEraseKeeps DEF BusyErase, CallErase
    <2>2. CASE BusyErased
      BY <1>1, <1>2, <2>2, BusyErasedKeeps DEF BusyErased, CallProgram
    <2>3. CASE BusyProgrammed
      BY <1>1, <1>2, <2>3, BusyProgrammedKeeps DEF BusyProgrammed
    <2>4. CASE BusyNextPage
      BY <1>1, <1>2, <2>4, BusyNextPageKeeps
         DEF BusyNextPage, BusyAdvance, BusyCarry, BusyCount, BusyEmpty, BusyFlushed
    <2>5. CASE BusyPublish
      BY <1>1, <1>3, <2>5, BusyPublishKeeps DEF BusyPublish, Enter, Return
    <2> QED
      BY <1>4, <2>1, <2>2, <2>3, <2>4, <2>5 DEF dfu_download_busy
  <1>5. CASE dfu_download_manifest
    <2>1. CASE ManifestFirst
      BY <1>1, <1>2, <2>1, ManifestFirstKeeps DEF ManifestFirst, CallErase
    <2>2. CASE ManifestFirstErased
      BY <1>1, <1>2, <2>2, ManifestFirstErasedKeeps DEF ManifestFirstErased
    <2>3. CASE ManifestTail
      BY <1>1, <1>2, <2>3, ManifestTailErase, ManifestNoTail DEF ManifestTail
    <2>4. CASE ManifestTailErased
      BY <1>1, <1>2, <2>4, ManifestTailErasedKeeps DEF ManifestTailErased, CallProgram
    <2>5. CASE ManifestTailProgrammed
      BY <1>1, <1>2, <2>5, ManifestTailProgrammedKeeps DEF ManifestTailProgrammed, CallProgram
    <2>6. CASE ManifestFirstProgrammed
      BY <1>1, <1>2, <2>6, ManifestFirstProgrammedKeeps DEF ManifestFirstProgrammed
    <2>7. CASE ManifestPublish
      BY <1>1, <1>3, <2>7, ManifestPublishKeeps DEF ManifestPublish, Enter, Return
    <2> QED
      BY <1>5, <2>1, <2>2, <2>3, <2>4, <2>5, <2>6, <2>7 DEF dfu_download_manifest
  <1>6. CASE FlashProgramCell
    <2>1. pc' = pc /\ UNCHANGED dfuVars /\ pc \in {"busyProgram", "tailProgram", "firstProgram"}
      BY <1>6 DEF FlashProgramCell, Programming
    <2> QED
      BY <1>1, <1>2, <1>6, <2>1, BusyProgramCellKeeps, TailProgramCellKeeps,
         FirstProgramCellKeeps
  <1>7. CASE FlashEraseFails \/ FlashProgramFails
    <2>1. /\ pc' = "poll" /\ state' = "ERROR"
          /\ pc \in {"busyErase", "firstErase", "tailErase",
                     "busyProgram", "tailProgram", "firstProgram"}
      BY <1>7 DEF FlashEraseFails, FlashProgramFails, Programming, Return, Fail
    <2>2. PollOK'
      BY <2>1 DEF PollOK, Downloading
    <2> QED
      BY <1>3, <2>1, <2>2
  <1> QED
    BY <1>4, <1>5, <1>6, <1>7 DEF DownloadStep, FlashControlStep

LEMMA StreamInit ==
    ASSUME Init
    PROVE  StreamInv
  <1>1. pc = "reset" /\ state = "APP_IDLE" /\ pending = "none"
    BY DEF Init
  <1> QED
    BY <1>1, InitType DEF StreamInv, ProtocolOK, PollOK, FlushOK, PrepareOK, TailOK, LastOK,
                          DoneOK, BusyPlace, ManifestPlace

LEMMA StreamNext ==
    ASSUME HostWaits, StreamInv, [Next]_vars
    PROVE  StreamInv'
  <1>1. TypeOK'
    BY NextType DEF StreamInv
  <1>2. CASE MainStep
    <2>1. CASE jump
      BY <1>1, <2>1, ResetKeepsStream DEF jump
    <2>2. CASE DownloadStep
      BY <1>1, <2>2, DownloadKeepsStream
    <2>3. CASE /\ main \/ dfu_poll_state
               /\ UNCHANGED <<flash, downloadVars, uploadVars, requestVars, hostVars, magic>>
      BY <1>1, <2>3, MainKeepsStream
    <2> QED
      BY <1>2, <2>1, <2>2, <2>3 DEF MainStep
  <1>3. CASE usb_handler
    BY <1>1, <1>3, SetupKeepsStream, CallbackKeepsStream DEF usb_handler
  <1>4. CASE AppEntersBootloader \/ PowerCycle
    BY <1>1, <1>4, ResetKeepsStream DEF AppEntersBootloader, PowerCycle
  <1>5. CASE UNCHANGED vars
    <2>1. UNCHANGED <<memory, mainVars>> /\ UNCHANGED <<state, pending, req_len>>
      BY <1>5 DEF vars, memory, hostVars, dfuVars, requestVars
    <2>2. /\ ProtocolOK' <=> ProtocolOK
          /\ PollOK' <=> PollOK
      BY <2>1, MemoryKept
         DEF ProtocolOK, PollOK, Downloading, memory, downloadVars, mainVars
    <2> QED
      BY <1>1, <2>1, <2>2, PlacesKept DEF StreamInv
  <1> QED
    BY <1>2, <1>3, <1>4, <1>5 DEF Next

(* As long as the host waits for the device and sends the blocks in order, *)
(* every cell it has sent is accounted for at every place of the main loop *)
(* and in every state of the protocol: StreamInv (dfu.c:206-316,           *)
(* download.c:70-199).                                                     *)
THEOREM StreamInvariant == ASSUME HostWaits PROVE Spec => []StreamInv
  <1>1. Init => StreamInv
    BY StreamInit
  <1>2. StreamInv /\ [Next]_vars => StreamInv'
    BY StreamNext
  <1> QED
    BY <1>1, <1>2, PTL DEF Spec

(* A download is neither cut, repeated nor shuffled between the interrupt  *)
(* that collects it and the main loop that writes it (download.c:70-103,   *)
(* 105-140).                                                               *)
THEOREM StreamCorrect == ASSUME HostWaits PROVE Spec => []StreamInOrder
  <1>1. StreamInv => StreamInOrder
    <2> SUFFICES ASSUME StreamInv, Downloading, pc = "poll"
                 PROVE  StreamInOrder
      BY DEF StreamInOrder
    <2>1. Collected(count)
      BY DEF StreamInv, PollOK
    <2> QED
      BY <2>1 DEF StreamInOrder, Collected, Behind, Accepted, FirstPageErased
  <1> QED
    BY <1>1, StreamInvariant, PTL

(* MANIFEST_SYNC is left for IDLE only when the file is in the flash.      *)
LEMMA ManifestSyncEnds ==
    ASSUME StreamInv, [Next]_vars, state = "MANIFEST_SYNC", state' = "IDLE"
    PROVE  pc = "poll" /\ done
  <1>1. pc = "poll" /\ pending # "dfu_download" /\ TypeOK
    <2>1. pc \in MainLocation /\ ProtocolOK /\ TypeOK
      BY DEF StreamInv, TypeOK, MainOK
    <2> QED
      BY <2>1 DEF ProtocolOK, MainLocation, BusyPlace, ManifestPlace
  <1>2. ASSUME NEW req, NEW len, dfu_state_machine(req, len), req # "DOWNLOAD" \/ len = 0
        PROVE  done
    BY <1>2, MachineOutcome DEF OtherOutcome, AfterManifest
  <1>3. ASSUME Setup PROVE done
    <2>1. CASE HostDownload
      BY <1>2, <2>1 DEF HostDownload
    <2>2. CASE HostUpload
      BY <1>2, <2>2 DEF HostUpload
    <2>3. CASE HostRequest
      BY <1>2, <2>3 DEF HostRequest
    <2> QED
      BY <1>3, <2>1, <2>2, <2>3 DEF Setup
  <1>4. ~usb_util_endpoint_callback
    BY <1>1 DEF usb_util_endpoint_callback, DataArrives, ReplyTaken, BlockTaken, TransferFails,
                dfu_sent_callback, Fail, dfuVars
  <1>5. ~MainStep
    <2>1. PollLeadsTo = "poll"
      BY Zenon DEF PollLeadsTo
    <2>2. ~main /\ ~dfu_poll_state /\ ~jump
      BY <1>1, <2>1 DEF main, Dead, StartApp, EnterDfu, dfu_poll_state, jump
    <2>3. ~dfu_download_busy
      BY <1>1 DEF dfu_download_busy, BusyErase, BusyErased, BusyProgrammed, BusyNextPage,
                  BusyAdvance, BusyCarry, BusyCount, BusyEmpty, BusyFlushed, BusyPublish
    <2>4. ~dfu_download_manifest
      BY <1>1 DEF dfu_download_manifest, ManifestFirst, ManifestFirstErased, ManifestTail,
                  ManifestTailErased, ManifestTailProgrammed, ManifestFirstProgrammed,
                  ManifestPublish
    <2>5. ~FlashControlStep
      BY <1>1 DEF FlashControlStep, FlashProgramCell, FlashEraseFails, FlashProgramFails,
                  Programming
    <2> QED
      BY <2>2, <2>3, <2>4, <2>5 DEF MainStep, DownloadStep
  <1>6. ~AppEntersBootloader /\ ~PowerCycle /\ ~UNCHANGED vars
    BY <1>1 DEF AppEntersBootloader, PowerCycle, Reset, vars, dfuVars
  <1> QED
    BY <1>1, <1>3, <1>4, <1>5, <1>6 DEF Next, usb_handler

(* A host that is told the update is complete can rely on it: the file is  *)
(* in the flash, whole (dfu.c:291-316, download.c:142-199).                *)
THEOREM CompletionCorrect == ASSUME HostWaits PROVE Spec => CompletionIsTrue
  <1>1. ASSUME StreamInv, [Next]_vars, state = "MANIFEST_SYNC", state' = "IDLE"
        PROVE  FileAt(FileHeader[file].start) = file
    <2>1. pc = "poll" /\ done
      BY <1>1, ManifestSyncEnds
    <2> QED
      BY <1>1, <2>1 DEF StreamInv, PollOK, Written, Accepted
  <1> QED
    BY <1>1, StreamInvariant, PTL DEF Spec, CompletionIsTrue

=============================================================================
