---------------------------- MODULE RecoveryProofs ----------------------------
(***************************************************************************)
(* Recovery adds to Bootloader a host that follows a plan, and fairness.   *)
(* Theorem: it adds no behaviour, so that what is proved of Bootloader     *)
(* holds through the trouble and after it.  What is proved of it here is   *)
(* that the flash is erased wherever it is programmed, for a host that     *)
(* waits but may send blocks twice.                                        *)
(***************************************************************************)
EXTENDS Recovery, StreamProofs

(* What the patient host may have to say.                                  *)
PatientRequests == {"DOWNLOAD", "GET_STATUS", "CLEAR_STATUS", "ABORT", "DETACH"}

LEMMA MinOfTwo ==
    ASSUME NEW a \in Int, NEW b \in Int
    PROVE  Min({a, b}) \in {a, b} /\ Min({a, b}) <= a /\ Min({a, b}) <= b
  <1>1. \E x \in {a, b} : \A y \in {a, b} : x <= y
    <2>1. CASE a <= b
      BY <2>1
    <2>2. CASE b <= a
      BY <2>2
    <2> QED
      BY <2>1, <2>2
  <1> QED
    BY <1>1 DEF Min

(* The patient host sends blocks any host may send.                        *)
LEMMA PatientBlockLength ==
    ASSUME NEW f \in File, NEW offset \in Nat,
           NEW n, n = Min({TRANSFER_SIZE, FileSize[f] - offset}), n > 0
    PROVE  n \in BlockLength(f, offset)
  <1>1. FileSize[f] - offset \in Int /\ TRANSFER_SIZE \in Int /\ FileSize[f] \in Nat
    BY FileAssumption, SizeFacts
  <1>2. n \in {TRANSFER_SIZE, FileSize[f] - offset} /\ n <= TRANSFER_SIZE
        /\ n <= FileSize[f] - offset
    BY <1>1, MinOfTwo
  <1> QED
    BY <1>1, <1>2 DEF BlockLength

(* The patient host sends its own file, and only when it is calm.          *)
SessionOK == session # "none" => calm /\ file = Wanted

LEMMA PatientTalks ==
    ASSUME PatientRequests \subseteq HostRequests, TypeOK, SessionOK, Patient
    PROVE  Setup
  <1>1. Connected /\ HostMayTalk /\ pending = "none" /\ UNCHANGED <<dirty, flash, mainVars>>
    BY DEF Patient, HostMayTalk, mainVars
  <1>2. UNCHANGED received
    BY DEF Patient
  <1>3. ASSUME PatientBegin
        PROVE  HostDownload
    <2>1. Wanted \in Offered /\ Wanted \in File /\ FileSize[Wanted] \in Nat
      BY WantedAssumption, HostAssumption, FileAssumption
    <2>2. PICK n : n = Min({TRANSFER_SIZE, FileSize[Wanted]}) /\ n > 0
                   /\ dfu_state_machine("DOWNLOAD", n)
      BY <1>3 DEF PatientBegin, PatientBlock
    <2>3. n \in BlockLength(Wanted, 0)
      <3>1. FileSize[Wanted] - 0 = FileSize[Wanted]
        BY <2>1
      <3> QED
        BY <2>1, <2>2, <3>1, PatientBlockLength
    <2> QED
      BY <1>2, <1>3, <2>1, <2>2, <2>3 DEF PatientBegin, HostDownload, PatientRequests
  <1>4. ASSUME PatientGoOn
        PROVE  HostDownload
    <2>1. file = Wanted /\ Wanted \in File /\ sent \in Nat
      BY <1>4, WantedAssumption, HostAssumption
         DEF PatientGoOn, SessionOK, TypeOK, HostOK
    <2>2. PICK n : n = Min({TRANSFER_SIZE, FileSize[Wanted] - sent}) /\ n > 0
                   /\ dfu_state_machine("DOWNLOAD", n)
      BY <1>4 DEF PatientGoOn, PatientBlock
    <2>3. n \in BlockLength(file, sent)
      BY <2>1, <2>2, PatientBlockLength
    <2>4. sent \in NextOffset /\ sent' = sent /\ file' = file /\ state = "DOWNLOAD_IDLE"
      BY <1>4 DEF NextOffset, PatientGoOn
    <2> QED
      BY <1>2, <2>2, <2>3, <2>4 DEF HostDownload, PatientRequests
  <1>5. ASSUME PatientEnd
        PROVE  HostDownload
    BY <1>2, <1>5 DEF PatientEnd, PatientRequest, HostDownload, PatientRequests
  <1>6. ASSUME PatientStatus \/ PatientAbort \/ PatientClear \/ PatientDetach
        PROVE  HostRequest
    <2>1. PICK req \in {"GET_STATUS", "ABORT", "CLEAR_STATUS", "DETACH"} : PatientRequest(req)
      BY <1>6 DEF PatientStatus, PatientAbort, PatientClear, PatientDetach
    <2> QED
      BY <1>2, <2>1 DEF PatientRequest, HostRequest, PatientRequests, hostVars
  <1> QED
    BY <1>1, <1>3, <1>4, <1>5, <1>6 DEF Patient, Setup

LEMMA RecoveryStep ==
    ASSUME PatientRequests \subseteq HostRequests, TypeOK, SessionOK, [RecoveryNext]_recoveryVars
    PROVE  [Next]_vars
  <1>1. CASE Patient
    BY <1>1, PatientTalks DEF Patient, Next, usb_handler
  <1>2. CASE CalmTransfer
    <2>1. usb_util_endpoint_callback
      BY <1>2 DEF CalmTransfer, usb_util_endpoint_callback, mainVars
    <2> QED
      BY <1>2, <2>1 DEF CalmTransfer, Next, usb_handler
  <1>3. CASE MainRuns \/ Trouble \/ CalmDown \/ UNCHANGED recoveryVars
    BY <1>3 DEF MainRuns, Trouble, CalmDown, recoveryVars, Next
  <1> QED
    BY <1>1, <1>2, <1>3 DEF RecoveryNext

LEMMA SessionStep ==
    ASSUME SessionOK, [RecoveryNext]_recoveryVars
    PROVE  SessionOK'
  <1>1. CASE MainRuns
    <2>1. CASE Connected'
      <3>1. UNCHANGED file
        BY <1>1, <2>1 DEF MainRuns, MainStep, DownloadStep, jump, Reset, hostVars, Connected
      <3> QED
        BY <1>1, <2>1, <3>1 DEF MainRuns, SessionOK
    <2>2. CASE ~Connected'
      BY <1>1, <2>2 DEF MainRuns, SessionOK
    <2> QED
      BY <2>1, <2>2
  <1>2. CASE Patient
    BY <1>2 DEF Patient, PatientBegin, PatientGoOn, PatientEnd, PatientStatus, PatientAbort,
                PatientClear, PatientDetach, PatientBlock, PatientRequest, SessionOK
  <1>3. CASE CalmTransfer
    BY <1>3 DEF CalmTransfer, DataArrives, ReplyTaken, BlockTaken, hostVars, SessionOK
  <1>4. CASE Trouble \/ CalmDown \/ UNCHANGED recoveryVars
    BY <1>4 DEF Trouble, CalmDown, recoveryVars, vars, hostVars, SessionOK
  <1> QED
    BY <1>1, <1>2, <1>3, <1>4 DEF RecoveryNext

(* The trouble, the calm and the patient host are among what Bootloader    *)
(* allows: the patient host is a host like any other, and what is proved   *)
(* of every host is true of the device on its way back (dfu.c, main.c).    *)
THEOREM RecoveryIsBootloader ==
    ASSUME PatientRequests \subseteq HostRequests
    PROVE  RecoverySpec => Spec
  <1>1. RecoveryInit => Init /\ TypeOK /\ SessionOK
    BY InitType DEF RecoveryInit, SessionOK
  <1>2. TypeOK /\ SessionOK /\ [RecoveryNext]_recoveryVars => [Next]_vars
    BY RecoveryStep
  <1>3. TypeOK /\ SessionOK /\ [RecoveryNext]_recoveryVars => TypeOK' /\ SessionOK'
    BY <1>2, NextType, SessionStep
  <1> QED
    BY <1>1, <1>2, <1>3, PTL DEF RecoverySpec, Spec

-----------------------------------------------------------------------------
(* Why the flash is erased where it is programmed, for a host that may     *)
(* send a block twice.  Such a host breaks StreamInv, and what is left of  *)
(* it speaks of places in the flash and not of what is in the file.        *)

(* The start address has been looked at.                                   *)
Located == image_info.start \in Regions

(* The first page is erased as soon as one page has been flushed, and all  *)
(* n cells from there are inside the flash.                                *)
Begun(n) ==
    n > 0 =>
        /\ Located /\ n >= PAGE_SIZE /\ image_info.start + n <= FlashEnd
        /\ FirstPageErased

(* A download is under way.                                                *)
Gathered ==
    /\ count % PAGE_SIZE = 0 /\ Begun(count)
    /\ page_waiting_to_flush => page_count = PAGE_SIZE
    /\ page_count >= MINIMUM_SIZE => Located

(* A block is read in one state only.                                      *)
BlockOnItsWay ==
    pending = "dfu_download" => pc = "stop" \/ (pc = "poll" /\ state = "DOWNLOAD_SYNC")

PollGathered ==
    pc = "poll" =>
        /\ Downloading => Gathered
        /\ state = "DOWNLOAD_BUSY" => page_waiting_to_flush
        /\ state = "MANIFEST_SYNC" => done \/ (Gathered /\ Located)
        /\ state = "MANIFEST" => Gathered /\ Located

(* From a call of dfu_download_busy or dfu_download_manifest to the end of *)
(* the last page that is written.                                          *)
WritingPlace == (BusyPlace \cup ManifestPlace) \ {"manifestPublish"}

(* The page being programmed is erased from windex on.                     *)
ErasedAhead ==
    /\ address + PAGE_SIZE <= FlashEnd
    /\ \A k \in windex .. PAGE_SIZE - 1 : flash[address + k] = Blank

WritingErased ==
    /\ pc \in WritingPlace => Located /\ count % PAGE_SIZE = 0
    /\ pc \in WritingPlace \ {"firstProgram"} => Begun(count)
    /\ pc = "busyAdvance" => Begun(count + PAGE_SIZE)
    /\ pc \in {"busyProgram", "busyCarry", "busyCount", "busyEmpty", "busyFlushed",
               "busyPublish", "tailErase", "tailProgram"} => count > 0
    /\ pc \in {"firstErase", "tail"} => count = 0 /\ page_count = 0
    /\ pc \in {"busyErase", "busyProgram", "tailErase", "tailProgram"} =>
           address = image_info.start + count
    /\ pc \in {"firstErase", "firstProgram"} => address = image_info.start
    /\ pc = "tail" => FirstPageErased /\ image_info.start + PAGE_SIZE <= FlashEnd
    /\ pc \in {"busyProgram", "tailProgram", "firstProgram"} => ErasedAhead
    /\ pc = "busyPublish" => ~page_waiting_to_flush
    /\ pc = "manifestPublish" => done

ErasedInv == TypeOK /\ BlockOnItsWay /\ PollGathered /\ WritingErased

(* Each part is about some places only.                                    *)
LEMMA ErasedElsewhere ==
    /\ pc' # "poll" => PollGathered'
    /\ pc' \notin BusyPlace \cup ManifestPlace => WritingErased'
  BY DEF PollGathered, WritingErased, WritingPlace, BusyPlace, ManifestPlace

LEMMA LocatedFacts ==
    ASSUME TypeOK, Located
    PROVE  /\ image_info.start \in Nat /\ image_info.start % PAGE_SIZE = 0
           /\ FLASH_START <= image_info.start /\ Word(image_info.start) = image_info.start
           /\ PAGE_ALIGN(image_info.start) = image_info.start
  <1>1. image_info.start \in 0 .. UINT32_MAX
    BY DEF TypeOK, DownloadOK, Header
  <1>2. /\ image_info.start \in Nat /\ image_info.start % PAGE_SIZE = 0
        /\ FLASH_START <= image_info.start
    BY <1>1, FlashFacts DEF Located
  <1> QED
    BY <1>1, <1>2, WordFits, PageFacts

(* Where the next page goes.                                               *)
LEMMA BegunFacts ==
    ASSUME TypeOK, Located, count % PAGE_SIZE = 0, Begun(count)
    PROVE  /\ image_info.start + count \in Nat /\ (image_info.start + count) % PAGE_SIZE = 0
           /\ Word(image_info.start + count) = image_info.start + count
           /\ PAGE_ALIGN(image_info.start + count) = image_info.start + count
  <1>1. count \in Nat /\ image_info.start \in 0 .. UINT32_MAX
    BY DEF TypeOK, DownloadOK, Header
  <1>2. (image_info.start + count) % PAGE_SIZE = 0
    BY <1>1, LocatedFacts, AlignedFacts
  <1>3. image_info.start + count \in 0 .. UINT32_MAX
    BY <1>1, FlashFacts, SizeFacts DEF Begun
  <1> QED
    BY <1>2, <1>3, WordFits, PageFacts

(* A change of the flash behind the first count cells.                     *)
LEMMA BegunKept ==
    ASSUME TypeOK, Located, Begun(count), UNCHANGED <<image_info, count>>,
           \A x \in FlashAddress : x < image_info.start + count => flash'[x] = flash[x]
    PROVE  Begun(count)'
  <1> SUFFICES ASSUME count > 0
               PROVE  FirstPageErased'
    BY DEF Begun, Located
  <1>1. /\ count \in Nat /\ image_info.start \in Nat /\ FLASH_START <= image_info.start
        /\ image_info.start + count <= FlashEnd /\ count >= PAGE_SIZE /\ FirstPageErased
    BY LocatedFacts DEF TypeOK, DownloadOK, Begun
  <1>2. ASSUME NEW k \in PageIndex
        PROVE  flash'[image_info.start + k] = Blank
    <2>1. image_info.start + k \in FlashAddress /\ image_info.start + k < image_info.start + count
      <3>1. k \in Nat /\ k < PAGE_SIZE /\ PAGE_SIZE \in Nat
        BY SizeFacts DEF PageIndex
      <3>2. k < count
        BY <1>1, <3>1
      <3>3. FlashEnd \in Nat /\ FLASH_START \in Nat
        BY FlashFacts, SizeFacts
      <3>4. image_info.start + k \in FLASH_START .. FlashEnd - 1
        BY <1>1, <3>1, <3>2, <3>3
      <3> QED
        BY <1>1, <3>1, <3>2, <3>4, FlashFacts
    <2> QED
      BY <1>1, <2>1 DEF FirstPageErased
  <1> QED
    BY <1>2 DEF FirstPageErased

LEMMA PlaceKept ==
    ASSUME UNCHANGED <<flash, image_info, count>>
    PROVE  /\ Located' <=> Located
           /\ FirstPageErased' <=> FirstPageErased
           /\ \A n : Begun(n)' <=> Begun(n)
  BY DEF Located, FirstPageErased, Begun

LEMMA GatheredKept ==
    ASSUME UNCHANGED <<flash, downloadVars>>
    PROVE  (Located' <=> Located) /\ (Gathered' <=> Gathered)
  BY PlaceKept DEF downloadVars, Gathered

LEMMA WritingKept ==
    ASSUME WritingErased, UNCHANGED <<flash, downloadVars, mainVars>>
    PROVE  WritingErased'
  BY PlaceKept DEF WritingErased, ErasedAhead, downloadVars, mainVars

-----------------------------------------------------------------------------
(* The interrupt.                                                          *)

(* A download that may be ended has its header.                            *)
LEMMA CheckedIsLocated ==
    ASSUME TypeOK, Gathered, dfu_download_check_done = "OK"
    PROVE  Located
  <1> DEFINE progress == Word(count + page_count)
  <1>1. progress \in Nat /\ progress <= count + page_count
        /\ count \in Nat /\ page_count \in Nat
    BY SizeFacts DEF TypeOK, DownloadOK, Word
  <1>2. ~(progress < image_info.length)
    BY Zenon DEF dfu_download_check_done
  <1>3. ~(progress >= image_info.length /\ progress < MINIMUM_SIZE)
    BY <1>2, Zenon DEF dfu_download_check_done
  <1>4. image_info.length \in Nat /\ MINIMUM_SIZE \in Nat
    BY SizeFacts DEF TypeOK, DownloadOK, Header
  <1> HIDE DEF progress
  <1> QED
    BY <1>1, <1>2, <1>3, <1>4 DEF Gathered, Begun

LEMMA RequestKeepsErased ==
    ASSUME ErasedInv, UNCHANGED <<flash, downloadVars, mainVars>>,
           pc \in {"poll", "stop"}, pending' # "dfu_download", OtherOutcome
    PROVE  BlockOnItsWay' /\ PollGathered' /\ WritingErased'
  <1>1. /\ (Located' <=> Located) /\ (Gathered' <=> Gathered)
        /\ UNCHANGED <<pc, done, page_waiting_to_flush>>
    BY GatheredKept DEF mainVars, downloadVars
  <1>2. PollGathered'
    <2> SUFFICES ASSUME pc = "poll" PROVE PollGathered'
      BY <1>1 DEF PollGathered
    <2>1. state = "DOWNLOAD_IDLE" /\ dfu_download_check_done = "OK" => Gathered /\ Located
      BY CheckedIsLocated DEF ErasedInv, PollGathered, Downloading
    <2>2. PollGathered
      BY DEF ErasedInv
    <2> QED
      BY <1>1, <2>1, <2>2
         DEF PollGathered, Downloading, OtherOutcome, AfterSync, AfterManifest
  <1> QED
    BY <1>2, WritingKept DEF ErasedInv, BlockOnItsWay

LEMMA SetupKeepsErased ==
    ASSUME "early" \notin Faults, ErasedInv, Setup
    PROVE  BlockOnItsWay' /\ PollGathered' /\ WritingErased'
  <1>1. /\ pc \in {"poll", "stop"} /\ pending = "none"
        /\ UNCHANGED <<flash, mainVars>> /\ pc' = pc
    BY DEF Setup, HostMayTalk, mainVars
  <1>2. ASSUME NEW req, NEW len, dfu_state_machine(req, len), req # "DOWNLOAD" \/ len = 0
        PROVE  BlockOnItsWay' /\ PollGathered' /\ WritingErased'
    BY <1>1, <1>2, MachineOutcome, RequestKeepsErased
  <1>3. ASSUME NEW len, len > 0, dfu_state_machine("DOWNLOAD", len),
               state \in {"IDLE", "DOWNLOAD_IDLE"}
        PROVE  BlockOnItsWay' /\ PollGathered' /\ WritingErased'
    <2>1. /\ state' = "DOWNLOAD_SYNC"
          /\ state = "IDLE" => dfu_download_start
          /\ state = "DOWNLOAD_IDLE" => UNCHANGED downloadVars
      BY <1>3, BlockOutcome
    <2>2. pc = "poll" => Gathered'
      <3>1. CASE state = "IDLE"
        <4>1. count' = 0 /\ page_count' = 0 /\ page_waiting_to_flush' = FALSE
          BY <2>1, <3>1 DEF dfu_download_start
        <4> QED
          BY <4>1, HeaderSize, SizeFacts DEF Gathered, Begun
      <3>2. CASE state = "DOWNLOAD_IDLE"
        BY <1>1, <2>1, <3>2, GatheredKept DEF ErasedInv, PollGathered, Downloading
      <3> QED
        BY <1>3, <3>1, <3>2
    <2>3. PollGathered'
      BY <1>1, <2>1, <2>2 DEF PollGathered, Downloading
    <2>4. WritingErased'
      BY <1>1, ErasedElsewhere DEF BusyPlace, ManifestPlace
    <2> QED
      BY <1>1, <2>1, <2>3, <2>4 DEF BlockOnItsWay
  <1>4. CASE HostDownload
    <2>1. ASSUME NEW f, NEW offset, NEW len \in BlockLength(f, offset)
          PROVE  len > 0
      BY DEF BlockLength
    <2> QED
      BY <1>2, <1>3, <1>4, <2>1 DEF HostDownload
  <1>5. CASE HostUpload
    BY <1>2, <1>5 DEF HostUpload
  <1>6. CASE HostRequest
    BY <1>2, <1>6 DEF HostRequest
  <1> QED
    BY <1>4, <1>5, <1>6 DEF Setup

(* A block arrives, with the header or without.                            *)
LEMMA BlockGathered ==
    ASSUME TypeOK, Gathered, NEW n \in Nat, dfu_download(n), UNCHANGED flash
    PROVE  state' = "ERROR" \/ (state' = state /\ Gathered')
  <1> DEFINE filled == page_count + PagePart(n)
  <1>1. /\ UNCHANGED count /\ page_count' = filled
        /\ page_waiting_to_flush' = (filled = PAGE_SIZE)
        /\ IF HeaderArrives(filled)
           THEN dfu_download_verify_header(page')
           ELSE UNCHANGED <<state, status, image_info>>
    BY DEF dfu_download
  <1>2. count \in Nat /\ page_count \in Nat /\ filled \in Nat
    BY SizeFacts DEF TypeOK, DownloadOK, PagePart
  <1> HIDE DEF filled
  <1>3. CASE HeaderArrives(filled)
    <2>1. count = 0
      BY <1>3 DEF HeaderArrives
    <2>2. state' = "ERROR" \/ (state' = state /\ Located')
      <3>1. /\ image_info' = HeaderAt(page', 0)
            /\ IF HeaderStatus(HeaderAt(page', 0)) = "OK"
               THEN UNCHANGED dfuVars ELSE Fail(HeaderStatus(HeaderAt(page', 0)))
        BY <1>1, <1>3 DEF dfu_download_verify_header
      <3>2. PICK info : info = HeaderAt(page', 0)
        OBVIOUS
      <3>3. ASSUME HeaderStatus(info) = "OK"
            PROVE  info.start \in Regions
        <4>1. info.magic
          BY <3>3, Zenon DEF HeaderStatus
        <4>2. info.start \in {APP_START, BOOTLOADER_START}
          BY <3>3, <4>1, Zenon DEF HeaderStatus
        <4> QED
          BY <4>2 DEF Regions
      <3>4. CASE HeaderStatus(info) = "OK"
        <4>1. UNCHANGED dfuVars /\ image_info' = info
          BY <3>1, <3>2, <3>4
        <4> QED
          BY <3>3, <3>4, <4>1 DEF dfuVars, Located
      <3>5. CASE HeaderStatus(info) # "OK"
        <4>1. Fail(HeaderStatus(info))
          BY <3>1, <3>2, <3>5
        <4> QED
          BY <4>1, Zenon DEF Fail
      <3> QED
        BY <3>4, <3>5
    <2>3. ASSUME Located' PROVE Gathered'
      <3>1. count' = 0 /\ count' % PAGE_SIZE = 0
        BY <1>1, <2>1 DEF Gathered
      <3>2. Begun(count)'
        BY <3>1 DEF Begun
      <3>3. page_waiting_to_flush' => page_count' = PAGE_SIZE
        BY <1>1
      <3> QED
        BY <2>3, <3>1, <3>2, <3>3 DEF Gathered
    <2> QED
      BY <2>2, <2>3
  <1>4. CASE ~HeaderArrives(filled)
    <2>1. UNCHANGED <<state, image_info, count, flash>>
      BY <1>1, <1>4
    <2>2. filled >= MINIMUM_SIZE => Located
      <3>1. CASE count = 0
        <4>1. filled >= MINIMUM_SIZE => page_count >= MINIMUM_SIZE
          BY <1>2, <1>4, <3>1, HeaderSize DEF HeaderArrives
        <4> QED
          BY <4>1 DEF Gathered
      <3>2. CASE count # 0
        BY <1>2, <3>2 DEF Gathered, Begun
      <3> QED
        BY <3>1, <3>2
    <2> QED
      BY <1>1, <2>1, <2>2, PlaceKept DEF Gathered
  <1> QED
    BY <1>3, <1>4

LEMMA CallbackKeepsErased ==
    ASSUME ErasedInv, usb_util_endpoint_callback
    PROVE  BlockOnItsWay' /\ PollGathered' /\ WritingErased'
  <1>1. UNCHANGED <<flash, mainVars>> /\ pc' = pc
    BY DEF usb_util_endpoint_callback, mainVars
  <1>2. ASSUME pending = "dfu_download", NEW n \in Nat, dfu_download(n)
        PROVE  BlockOnItsWay' /\ PollGathered' /\ WritingErased'
    <2>1. pending' = "none"
      BY <1>2 DEF dfu_download, usb_util_ack, Answered
    <2>2. pc = "stop" \/ (pc = "poll" /\ state = "DOWNLOAD_SYNC")
      BY <1>2 DEF ErasedInv, BlockOnItsWay
    <2>3. WritingErased'
      BY <1>1, <2>2, ErasedElsewhere DEF BusyPlace, ManifestPlace
    <2>4. ASSUME pc = "poll" PROVE PollGathered'
      <3>1. state' = "ERROR" \/ (state' = "DOWNLOAD_SYNC" /\ Gathered')
        BY <1>1, <1>2, <2>2, <2>4, BlockGathered
           DEF ErasedInv, PollGathered, Downloading
      <3> QED
        BY <3>1 DEF PollGathered, Downloading
    <2> QED
      BY <1>1, <2>1, <2>2, <2>3, <2>4, ErasedElsewhere DEF BlockOnItsWay
  <1>3. ASSUME NEW error, dfu_sent_callback(error), UNCHANGED downloadVars
        PROVE  BlockOnItsWay' /\ PollGathered' /\ WritingErased'
    <2>1. pending' = "none" /\ state' \in {state, "ERROR"}
      BY <1>3 DEF dfu_sent_callback, usb_util_ack, usb_util_stall, Answered, Fail, dfuVars
    <2>2. /\ (Located' <=> Located) /\ (Gathered' <=> Gathered)
          /\ UNCHANGED <<done, page_waiting_to_flush>>
      BY <1>1, <1>3, GatheredKept DEF downloadVars
    <2>3. PollGathered'
      BY <1>1, <2>1, <2>2 DEF ErasedInv, PollGathered, Downloading
    <2>4. WritingErased'
      BY <1>1, <1>3, WritingKept DEF ErasedInv
    <2> QED
      BY <2>1, <2>3, <2>4 DEF BlockOnItsWay
  <1>4. req_len \in Nat /\ 0 \in Nat
    BY SizeFacts DEF ErasedInv, TypeOK, RequestOK
  <1>5. CASE DataArrives
    BY <1>2, <1>4, <1>5 DEF DataArrives
  <1>6. CASE ReplyTaken \/ BlockTaken
    BY <1>3, <1>6 DEF ReplyTaken, BlockTaken
  <1>7. CASE TransferFails
    BY <1>2, <1>3, <1>4, <1>7 DEF TransferFails
  <1> QED
    BY <1>5, <1>6, <1>7 DEF usb_util_endpoint_callback

-----------------------------------------------------------------------------
(* main and the poll.                                                      *)

LEMMA MainKeepsErased ==
    ASSUME ErasedInv, main \/ dfu_poll_state,
           UNCHANGED <<flash, downloadVars, requestVars>>
    PROVE  BlockOnItsWay' /\ PollGathered' /\ WritingErased'
  <1>1. UNCHANGED pending
    BY DEF requestVars
  <1>2. CASE Dead \/ StartApp
    <2>1. pc = "reset" /\ pc' \in {"dead", "app"}
      BY <1>2 DEF Dead, StartApp
    <2> QED
      BY <1>1, <2>1, ErasedElsewhere DEF ErasedInv, BlockOnItsWay, BusyPlace, ManifestPlace
  <1>3. CASE EnterDfu
    <2>1. pc = "reset" /\ pc' = "poll" /\ state' = "IDLE"
      BY <1>3 DEF EnterDfu, dfu_init, Enter
    <2>2. PollGathered'
      BY <2>1 DEF PollGathered, Downloading
    <2> QED
      BY <1>1, <2>1, <2>2, ErasedElsewhere
         DEF ErasedInv, BlockOnItsWay, BusyPlace, ManifestPlace
  <1>4. CASE dfu_poll_state
    <2>1. /\ pc = "poll" /\ UNCHANGED state
          /\ pc' = PollLeadsTo /\ PollLeadsTo # "poll"
      BY <1>4 DEF dfu_poll_state, dfuVars
    <2>2. /\ state = "MANIFEST" => pc' = "manifest"
          /\ state = "DOWNLOAD_BUSY" => pc' = "busy"
          /\ state = "DETACH" => pc' = "stop"
          /\ state \in {"MANIFEST", "DOWNLOAD_BUSY", "DETACH"}
      <3>1. state = "MANIFEST" => PollLeadsTo = "manifest"
        BY Zenon DEF PollLeadsTo
      <3>2. state = "DOWNLOAD_BUSY" => PollLeadsTo = "busy"
        BY Zenon DEF PollLeadsTo
      <3>3. state = "DETACH" => PollLeadsTo = "stop"
        BY Zenon DEF PollLeadsTo
      <3>4. state \in {"MANIFEST", "DOWNLOAD_BUSY", "DETACH"}
        BY <2>1, Zenon DEF PollLeadsTo
      <3> QED
        BY <2>1, <3>1, <3>2, <3>3, <3>4
    <2>3. state \in {"MANIFEST", "DOWNLOAD_BUSY"} => Gathered /\ Located
      BY <2>1, HeaderSize DEF ErasedInv, PollGathered, Downloading, Gathered
    <2>4. Gathered /\ Located => Gathered' /\ Located'
      BY GatheredKept
    <2>5. pc' # "poll" /\ pending # "dfu_download"
      BY <2>1, <2>2 DEF ErasedInv, BlockOnItsWay
    <2>6. WritingErased'
      BY <2>2, <2>3, <2>4, ErasedElsewhere
         DEF WritingErased, WritingPlace, Gathered, BusyPlace, ManifestPlace
    <2> QED
      BY <1>1, <2>5, <2>6, ErasedElsewhere DEF BlockOnItsWay
  <1> QED
    BY <1>2, <1>3, <1>4 DEF main

-----------------------------------------------------------------------------
(* dfu_download_busy and dfu_download_manifest, to the next place.         *)

(* Every erase and every cell is behind the pages already written.         *)
LEMMA EraseKeepsBegun ==
    ASSUME TypeOK, Located, count % PAGE_SIZE = 0, Begun(count),
           UNCHANGED <<image_info, count>>,
           \/ EraseBegins(image_info.start + count)
           \/ EraseSucceeds(image_info.start + count)
    PROVE  Begun(count)' /\ Located'
  <1>1. image_info.start + count \in Nat /\ (image_info.start + count) % PAGE_SIZE = 0
    BY BegunFacts
  <1>2. \A x \in FlashAddress : x < image_info.start + count => flash'[x] = flash[x]
    BY <1>1, EraseOutcome, FlashFacts, SizeFacts
  <1> QED
    BY <1>2, BegunKept DEF Located

(* A cell is programmed, and those behind it stay erased.                  *)
LEMMA CellKeepsAhead ==
    ASSUME TypeOK, ErasedAhead, NEW buf, ProgramCell(buf), UNCHANGED address,
           address % PAGE_SIZE = 0, FLASH_START <= address
    PROVE  /\ ErasedAhead'
           /\ \A x \in FlashAddress : x < address => flash'[x] = flash[x]
  <1>1. address \in Nat /\ PAGE_ALIGN(address) = address
    BY SizeFacts, PageFacts DEF TypeOK, MainOK
  <1>2. /\ windex \in PageIndex /\ windex' = windex + 1
        /\ \A x \in FlashAddress : x # address + windex => flash'[x] = flash[x]
    BY <1>1, ProgramOutcome
  <1>3. ASSUME NEW k \in windex + 1 .. PAGE_SIZE - 1
        PROVE  flash'[address + k] = Blank
    <2>1. address + k \in FlashAddress /\ address + k # address + windex
          /\ k \in windex .. PAGE_SIZE - 1
      <3>1. PAGE_SIZE \in Nat /\ FlashEnd \in Nat /\ FLASH_START \in Nat
        BY FlashFacts, SizeFacts
      <3>2. windex \in Nat /\ address + PAGE_SIZE <= FlashEnd
        BY <1>2, SizeFacts DEF ErasedAhead, PageIndex
      <3>3. k \in Nat /\ windex < k /\ k < PAGE_SIZE
        BY <3>1, <3>2
      <3>4. address + k \in FLASH_START .. FlashEnd - 1 /\ address + k # address + windex
        BY <1>1, <3>1, <3>2, <3>3
      <3>5. k \in windex .. PAGE_SIZE - 1
        BY <3>1, <3>2, <3>3
      <3> QED
        BY <3>4, <3>5, FlashFacts
    <2> QED
      BY <1>2, <2>1 DEF ErasedAhead
  <1>4. \A x \in FlashAddress : x < address => flash'[x] = flash[x]
    BY <1>1, <1>2, FlashFacts, SizeFacts DEF PageIndex
  <1> QED
    BY <1>2, <1>3, <1>4 DEF ErasedAhead

LEMMA BusyKeepsErased ==
    ASSUME ErasedInv, dfu_download_busy
    PROVE  /\ pc \in BusyPlace
           /\ \/ pc' \in BusyPlace /\ WritingErased'
              \/ pc' = "poll" /\ PollGathered'
  <1> USE DEF WritingPlace, BusyPlace, ManifestPlace
  <1>1. TypeOK /\ WritingErased
    BY DEF ErasedInv
  <1>2. CASE BusyErase
    <2>1. /\ pc = "busy" /\ pc' = "busyErase" /\ UNCHANGED downloadVars
          /\ UNCHANGED <<image_info, count>>
          /\ address' = Word(image_info.start + count) /\ EraseBegins(address')
      BY <1>2 DEF BusyErase, CallErase, downloadVars
    <2>2. Located /\ count % PAGE_SIZE = 0 /\ Begun(count)
      BY <1>1, <2>1 DEF WritingErased
    <2>3. address' = image_info.start + count
      BY <1>1, <2>1, <2>2, BegunFacts
    <2>4. Begun(count)' /\ Located'
      BY <1>1, <2>1, <2>2, <2>3, EraseKeepsBegun
    <2> QED
      BY <2>1, <2>2, <2>3, <2>4 DEF WritingErased
  <1>3. CASE BusyErased
    <2>1. /\ pc = "busyErase" /\ EraseSucceeds(address) /\ UNCHANGED <<image_info, count>>
      BY <1>3 DEF BusyErased
    <2>2. /\ Located /\ count % PAGE_SIZE = 0 /\ Begun(count)
          /\ address = image_info.start + count
      BY <1>1, <2>1 DEF WritingErased
    <2>3. address \in Nat /\ address % PAGE_SIZE = 0 /\ image_info.start \in Nat /\ count \in Nat
      BY <1>1, <2>2, BegunFacts, LocatedFacts DEF TypeOK, DownloadOK
    <2>4. /\ address + PAGE_SIZE <= FlashEnd
          /\ \A k \in PageIndex : flash'[address + k] = Blank
      BY <2>1, <2>3, ErasedOutcome
    <2>5. Begun(count)' /\ Located'
      BY <1>1, <2>1, <2>2, EraseKeepsBegun
    <2>6. CASE HeldBack
      <3>1. count = 0 /\ pc' = "busyAdvance"
        BY <1>3, <2>6 DEF BusyErased, HeldBack
      <3>2. FirstPageErased'
        BY <2>1, <2>2, <2>3, <2>4, <3>1 DEF FirstPageErased
      <3>3. Begun(count + PAGE_SIZE)'
        BY <2>1, <2>2, <2>3, <2>4, <2>5, <3>1, <3>2, SizeFacts DEF Begun
      <3> QED
        BY <2>1, <2>2, <2>5, <3>1, <3>3 DEF WritingErased
    <2>7. CASE ~HeldBack
      <3>1. count > 0 /\ pc' = "busyProgram" /\ address' = address /\ windex' = 0
        BY <1>3, <2>3, <2>7 DEF BusyErased, HeldBack, CallProgram
      <3>2. ErasedAhead'
        BY <2>4, <3>1 DEF ErasedAhead, PageIndex
      <3> QED
        BY <2>1, <2>2, <2>5, <3>1, <3>2 DEF WritingErased
    <2> QED
      BY <2>1, <2>6, <2>7
  <1>4. CASE BusyProgrammed
    <2>1. /\ pc = "busyProgram" /\ pc' = "busyAdvance"
          /\ UNCHANGED <<flash, image_info, count>>
      BY <1>4 DEF BusyProgrammed, ProgramSucceeds, downloadVars
    <2>2. /\ Located /\ count % PAGE_SIZE = 0 /\ Begun(count) /\ count > 0
          /\ image_info.start + count + PAGE_SIZE <= FlashEnd
      BY <1>1, <2>1 DEF WritingErased, ErasedAhead
    <2>3. Begun(count + PAGE_SIZE)
      <3>1. count \in Nat /\ image_info.start \in Nat
        BY <1>1, <2>2, LocatedFacts DEF TypeOK, DownloadOK
      <3>2. FirstPageErased /\ count + PAGE_SIZE >= PAGE_SIZE
            /\ image_info.start + (count + PAGE_SIZE) <= FlashEnd
        BY <2>2, <3>1, SizeFacts DEF Begun
      <3> QED
        BY <2>2, <3>2 DEF Begun
    <2> QED
      BY <2>1, <2>2, <2>3, PlaceKept DEF WritingErased
  <1>5. CASE BusyNextPage
    <2>1. UNCHANGED <<flash, image_info>>
      BY <1>5 DEF BusyNextPage
    <2>2. CASE BusyAdvance
      <3>1. pc = "busyAdvance" /\ pc' = "busyCarry" /\ count' = Word(count + PAGE_SIZE)
        BY <2>2 DEF BusyAdvance
      <3>2. /\ Located /\ count % PAGE_SIZE = 0 /\ Begun(count + PAGE_SIZE)
            /\ count \in Nat /\ image_info.start \in Nat
        BY <1>1, <3>1, LocatedFacts DEF WritingErased, TypeOK, DownloadOK
      <3>3. count + PAGE_SIZE > 0
        BY <3>2, SizeFacts
      <3>4. image_info.start + (count + PAGE_SIZE) <= FlashEnd
        BY <3>2, <3>3 DEF Begun
      <3>5. count' = count + PAGE_SIZE
        <4>1. count + PAGE_SIZE \in 0 .. UINT32_MAX
          BY <3>2, <3>4, FlashFacts, SizeFacts
        <4> QED
          BY <3>1, <4>1, WordFits
      <3>6. count' % PAGE_SIZE = 0
        <4>1. PAGE_SIZE % PAGE_SIZE = 0
          BY SizeFacts
        <4> QED
          BY <3>2, <3>5, <4>1, SizeFacts, AlignedFacts
      <3>7. Begun(count)' /\ Located'
        BY <2>1, <3>2, <3>5 DEF Begun, Located, FirstPageErased
      <3> QED
        BY <3>1, <3>3, <3>5, <3>6, <3>7 DEF WritingErased
    <2>3. CASE BusyCarry \/ BusyCount \/ BusyEmpty \/ BusyFlushed
      <3>1. /\ UNCHANGED count
            /\ \/ pc = "busyCarry" /\ pc' = "busyCount"
               \/ pc = "busyCount" /\ pc' = "busyEmpty"
               \/ pc = "busyEmpty" /\ pc' = "busyFlushed"
               \/ pc = "busyFlushed" /\ pc' = "busyPublish" /\ page_waiting_to_flush' = FALSE
        BY <2>3 DEF BusyCarry, BusyCount, BusyEmpty, BusyFlushed
      <3>2. Located' /\ count' % PAGE_SIZE = 0 /\ Begun(count)' /\ count' > 0
        BY <1>1, <2>1, <3>1, PlaceKept DEF WritingErased
      <3> QED
        BY <3>1, <3>2 DEF WritingErased
    <2> QED
      BY <1>5, <2>2, <2>3 DEF BusyNextPage
  <1>6. CASE BusyPublish
    <2>1. /\ pc = "busyPublish" /\ pc' = "poll" /\ state' = "DOWNLOAD_SYNC"
          /\ UNCHANGED <<flash, downloadVars>>
      BY <1>6 DEF BusyPublish, Return, Enter
    <2>2. Located /\ count % PAGE_SIZE = 0 /\ Begun(count) /\ ~page_waiting_to_flush
      BY <1>1, <2>1 DEF WritingErased
    <2>3. Gathered'
      BY <2>1, <2>2, GatheredKept DEF Gathered
    <2> QED
      BY <2>1, <2>3 DEF PollGathered, Downloading
  <1> QED
    BY <1>2, <1>3, <1>4, <1>5, <1>6 DEF dfu_download_busy

LEMMA ManifestKeepsErased ==
    ASSUME ErasedInv, dfu_download_manifest
    PROVE  /\ pc \in ManifestPlace
           /\ \/ pc' \in ManifestPlace /\ WritingErased'
              \/ pc' = "poll" /\ PollGathered'
  <1> USE DEF WritingPlace, BusyPlace, ManifestPlace
  <1>1. TypeOK /\ WritingErased
    BY DEF ErasedInv
  <1>2. CASE ManifestFirst
    <2>1. /\ pc = "manifest" /\ pc' = "firstErase" /\ count = 0 /\ page_count' = 0
          /\ address' = image_info.start /\ UNCHANGED <<image_info, count>>
      BY <1>2 DEF ManifestFirst, HeldBack, CallErase
    <2>2. Located /\ count % PAGE_SIZE = 0
      BY <1>1, <2>1 DEF WritingErased
    <2>3. Begun(count)' /\ Located'
      BY <2>1, <2>2 DEF Begun, Located
    <2> QED
      BY <2>1, <2>2, <2>3 DEF WritingErased
  <1>3. CASE ManifestFirstErased
    <2>1. /\ pc = "firstErase" /\ pc' = "tail" /\ EraseSucceeds(address)
          /\ UNCHANGED <<image_info, count, page_count>>
      BY <1>3 DEF ManifestFirstErased, downloadVars
    <2>2. Located /\ count % PAGE_SIZE = 0 /\ count = 0 /\ page_count = 0
          /\ address = image_info.start
      BY <1>1, <2>1 DEF WritingErased
    <2>3. /\ image_info.start + PAGE_SIZE <= FlashEnd
          /\ \A k \in PageIndex : flash'[image_info.start + k] = Blank
      BY <1>1, <2>1, <2>2, LocatedFacts, ErasedOutcome
    <2>4. FirstPageErased' /\ Begun(count)' /\ Located'
      BY <2>1, <2>2, <2>3 DEF FirstPageErased, Begun, Located
    <2> QED
      BY <2>1, <2>2, <2>3, <2>4 DEF WritingErased
  <1>4. CASE ManifestTail /\ page_count # 0
    <2>1. /\ pc = "manifest" /\ count # 0 /\ pc' = "tailErase"
          /\ UNCHANGED <<image_info, count>>
          /\ address' = Word(image_info.start + count) /\ EraseBegins(address')
      BY <1>1, <1>4 DEF ManifestTail, WritingErased, HeldBack, CallErase
    <2>2. Located /\ count % PAGE_SIZE = 0 /\ Begun(count) /\ count > 0
      BY <1>1, <2>1 DEF WritingErased, TypeOK, DownloadOK
    <2>3. address' = image_info.start + count
      BY <1>1, <2>1, <2>2, BegunFacts
    <2>4. Begun(count)' /\ Located'
      BY <1>1, <2>1, <2>2, <2>3, EraseKeepsBegun
    <2> QED
      BY <2>1, <2>2, <2>3, <2>4 DEF WritingErased
  <1>5. CASE ManifestTail /\ page_count = 0
    <2>1. /\ pc = "tail" \/ (pc = "manifest" /\ count # 0)
          /\ pc' = "firstProgram" /\ address' = image_info.start /\ windex' = 0
          /\ UNCHANGED <<flash, image_info, count>>
      BY <1>5 DEF ManifestTail, HeldBack, CallProgram
    <2>2. /\ Located /\ count % PAGE_SIZE = 0 /\ Begun(count)
          /\ pc = "tail" => FirstPageErased /\ image_info.start + PAGE_SIZE <= FlashEnd
      BY <1>1, <2>1 DEF WritingErased
    <2>3. FirstPageErased /\ image_info.start + PAGE_SIZE <= FlashEnd
      <3>1. count \in Nat /\ image_info.start \in Nat
        BY <1>1, <2>2, LocatedFacts DEF TypeOK, DownloadOK
      <3> QED
        BY <2>1, <2>2, <3>1, FlashFacts, SizeFacts DEF Begun
    <2>4. ErasedAhead'
      BY <2>1, <2>3 DEF ErasedAhead, FirstPageErased, PageIndex
    <2> QED
      BY <2>1, <2>2, <2>4, PlaceKept DEF WritingErased
  <1>6. CASE ManifestTailErased
    <2>1. /\ pc = "tailErase" /\ pc' = "tailProgram" /\ EraseSucceeds(address)
          /\ address' = address /\ windex' = 0 /\ UNCHANGED <<image_info, count>>
      BY <1>6 DEF ManifestTailErased, CallProgram, downloadVars
    <2>2. /\ Located /\ count % PAGE_SIZE = 0 /\ Begun(count) /\ count > 0
          /\ address = image_info.start + count
      BY <1>1, <2>1 DEF WritingErased
    <2>3. address \in Nat /\ address % PAGE_SIZE = 0
      BY <1>1, <2>2, BegunFacts
    <2>4. /\ address + PAGE_SIZE <= FlashEnd
          /\ \A k \in PageIndex : flash'[address + k] = Blank
      BY <2>1, <2>3, ErasedOutcome
    <2>5. Begun(count)' /\ Located'
      BY <1>1, <2>1, <2>2, EraseKeepsBegun
    <2>6. ErasedAhead'
      BY <2>1, <2>4 DEF ErasedAhead, PageIndex
    <2> QED
      BY <2>1, <2>2, <2>5, <2>6 DEF WritingErased
  <1>7. CASE ManifestTailProgrammed
    <2>1. /\ pc = "tailProgram" /\ pc' = "firstProgram"
          /\ address' = image_info.start /\ windex' = 0
          /\ UNCHANGED <<flash, image_info, count>>
      BY <1>7 DEF ManifestTailProgrammed, CallProgram, ProgramSucceeds, downloadVars
    <2>2. Located /\ count % PAGE_SIZE = 0 /\ Begun(count) /\ count > 0
      BY <1>1, <2>1 DEF WritingErased
    <2>3. FirstPageErased /\ image_info.start + PAGE_SIZE <= FlashEnd
      <3>1. count \in Nat /\ image_info.start \in Nat
        BY <1>1, <2>2, LocatedFacts DEF TypeOK, DownloadOK
      <3> QED
        BY <2>2, <3>1, FlashFacts, SizeFacts DEF Begun
    <2>4. ErasedAhead'
      BY <2>1, <2>3 DEF ErasedAhead, FirstPageErased, PageIndex
    <2> QED
      BY <2>1, <2>2, <2>4, PlaceKept DEF WritingErased
  <1>8. CASE ManifestFirstProgrammed
    <2>1. pc = "firstProgram" /\ pc' = "manifestPublish" /\ done'
      BY <1>8 DEF ManifestFirstProgrammed
    <2> QED
      BY <2>1 DEF WritingErased
  <1>9. CASE ManifestPublish
    <2>1. /\ pc = "manifestPublish" /\ pc' = "poll" /\ state' = "MANIFEST_SYNC"
          /\ UNCHANGED done
      BY <1>9 DEF ManifestPublish, Return, Enter, downloadVars
    <2>2. done'
      BY <1>1, <2>1 DEF WritingErased
    <2> QED
      BY <2>1, <2>2 DEF PollGathered, Downloading
  <1> QED
    BY <1>2, <1>3, <1>4, <1>5, <1>6, <1>7, <1>8, <1>9 DEF dfu_download_manifest

(* A cell of a page, and the error returns.                                *)
LEMMA FlashKeepsErased ==
    ASSUME ErasedInv, FlashControlStep
    PROVE  /\ pc \in BusyPlace \cup ManifestPlace
           /\ \/ pc' \in BusyPlace \cup ManifestPlace /\ WritingErased'
              \/ pc' = "poll" /\ PollGathered'
  <1> USE DEF WritingPlace, BusyPlace, ManifestPlace
  <1>1. TypeOK /\ WritingErased
    BY DEF ErasedInv
  <1>2. CASE FlashProgramCell
    <2>1. /\ pc \in {"busyProgram", "tailProgram", "firstProgram"}
          /\ ProgramCell(ProgramBuffer) /\ UNCHANGED <<pc, address, image_info, count>>
      BY <1>2 DEF FlashProgramCell, Programming, downloadVars
    <2>2. Located /\ count % PAGE_SIZE = 0 /\ ErasedAhead
      BY <1>1, <2>1 DEF WritingErased
    <2>3. address % PAGE_SIZE = 0 /\ FLASH_START <= address
      <3>1. CASE pc = "firstProgram"
        BY <1>1, <2>2, <3>1, LocatedFacts DEF WritingErased
      <3>2. CASE pc \in {"busyProgram", "tailProgram"}
        <4>1. address = image_info.start + count /\ Begun(count) /\ count \in Nat
          BY <1>1, <3>2 DEF WritingErased, TypeOK, DownloadOK
        <4> QED
          BY <1>1, <2>2, <4>1, LocatedFacts, BegunFacts, SizeFacts
      <3> QED
        BY <2>1, <3>1, <3>2
    <2>4. /\ ErasedAhead'
          /\ \A x \in FlashAddress : x < address => flash'[x] = flash[x]
      BY <1>1, <2>1, <2>2, <2>3, CellKeepsAhead
    <2>5. CASE pc = "firstProgram"
      BY <1>1, <2>1, <2>2, <2>4, <2>5 DEF WritingErased, Located
    <2>6. CASE pc \in {"busyProgram", "tailProgram"}
      <3>1. address = image_info.start + count /\ Begun(count) /\ count > 0
        BY <1>1, <2>6 DEF WritingErased
      <3>2. Begun(count)' /\ Located'
        BY <1>1, <2>1, <2>2, <2>4, <3>1, BegunKept DEF Located
      <3> QED
        BY <2>1, <2>2, <2>4, <2>6, <3>1, <3>2 DEF WritingErased
    <2> QED
      BY <2>1, <2>5, <2>6
  <1>3. CASE FlashEraseFails \/ FlashProgramFails
    <2>1. /\ pc' = "poll" /\ state' = "ERROR"
          /\ pc \in {"busyErase", "firstErase", "tailErase",
                     "busyProgram", "tailProgram", "firstProgram"}
      BY <1>3 DEF FlashEraseFails, FlashProgramFails, Programming, Return, Fail
    <2> QED
      BY <2>1 DEF PollGathered, Downloading
  <1> QED
    BY <1>2, <1>3 DEF FlashControlStep

LEMMA DownloadKeepsErased ==
    ASSUME ErasedInv, DownloadStep
    PROVE  BlockOnItsWay' /\ PollGathered' /\ WritingErased'
  <1>1. /\ pc \in BusyPlace \cup ManifestPlace
        /\ \/ pc' \in BusyPlace \cup ManifestPlace /\ WritingErased'
           \/ pc' = "poll" /\ PollGathered'
    BY BusyKeepsErased, ManifestKeepsErased, FlashKeepsErased DEF DownloadStep
  <1>2. PollGathered' /\ WritingErased'
    BY <1>1, ErasedElsewhere DEF BusyPlace, ManifestPlace
  <1>3. pending' # "dfu_download"
    BY <1>1 DEF ErasedInv, BlockOnItsWay, DownloadStep, requestVars, BusyPlace, ManifestPlace
  <1> QED
    BY <1>2, <1>3 DEF BlockOnItsWay

LEMMA ErasedNext ==
    ASSUME "early" \notin Faults, ErasedInv, [Next]_vars
    PROVE  ErasedInv'
  <1>1. TypeOK'
    BY NextType DEF ErasedInv
  <1>2. ASSUME Reset
        PROVE  BlockOnItsWay' /\ PollGathered' /\ WritingErased'
    <2>1. pc' = "reset" /\ pending' = "none"
      BY <1>2 DEF Reset
    <2> QED
      BY <2>1, ErasedElsewhere DEF BlockOnItsWay, BusyPlace, ManifestPlace
  <1>3. CASE MainStep
    BY <1>1, <1>2, <1>3, DownloadKeepsErased, MainKeepsErased DEF MainStep, jump, ErasedInv
  <1>4. CASE usb_handler
    BY <1>1, <1>4, SetupKeepsErased, CallbackKeepsErased DEF usb_handler, ErasedInv
  <1>5. CASE AppEntersBootloader \/ PowerCycle
    BY <1>1, <1>2, <1>5 DEF AppEntersBootloader, PowerCycle, ErasedInv
  <1>6. CASE UNCHANGED vars
    <2>1. UNCHANGED <<flash, downloadVars, mainVars>> /\ UNCHANGED <<pc, state, pending>>
          /\ UNCHANGED <<done, page_waiting_to_flush>>
      BY <1>6 DEF vars, dfuVars, requestVars, mainVars, downloadVars
    <2> QED
      BY <1>1, <2>1, WritingKept, GatheredKept
         DEF ErasedInv, BlockOnItsWay, PollGathered, Downloading
  <1> QED
    BY <1>3, <1>4, <1>5, <1>6 DEF Next

(* No page is programmed that has not been erased, by a host that waits    *)
(* while the device is busy: for images and pages of every size, whatever  *)
(* blocks are repeated, whatever fails, and whatever an earlier download   *)
(* has left in start_address and count (download.c:105-199).               *)
THEOREM ProgramsErasedCorrect ==
    ASSUME "early" \notin Faults
    PROVE  Spec => []ProgramsErased
  <1>1. Init => ErasedInv
    <2> SUFFICES ASSUME Init PROVE ErasedInv
      OBVIOUS
    <2>1. pc = "reset" /\ pending = "none"
      BY DEF Init
    <2> QED
      BY <2>1, InitType DEF ErasedInv, BlockOnItsWay, PollGathered, WritingErased,
                            WritingPlace, BusyPlace, ManifestPlace
  <1>2. ErasedInv /\ [Next]_vars => ErasedInv'
    BY ErasedNext
  <1>3. ASSUME ErasedInv PROVE ProgramsErased
    <2> SUFFICES ASSUME Programming PROVE ProgramsErased
      BY DEF ProgramsErased
    <2>1. TypeOK /\ Located /\ count % PAGE_SIZE = 0 /\ ErasedAhead
      BY <1>3 DEF ErasedInv, WritingErased, WritingPlace, BusyPlace, ManifestPlace, Programming
    <2>2. PAGE_ALIGN(address) = address
      <3>1. CASE pc = "firstProgram"
        BY <1>3, <2>1, <3>1, LocatedFacts DEF ErasedInv, WritingErased
      <3>2. CASE pc \in {"busyProgram", "tailProgram"}
        <4>1. address = image_info.start + count /\ Begun(count)
          BY <1>3, <3>2 DEF ErasedInv, WritingErased, WritingPlace, BusyPlace, ManifestPlace
        <4> QED
          BY <2>1, <4>1, BegunFacts
      <3> QED
        BY <3>1, <3>2 DEF Programming
    <2> QED
      BY <2>1, <2>2 DEF ProgramsErased, ErasedAhead
  <1> QED
    BY <1>1, <1>2, <1>3, PTL DEF Spec

-----------------------------------------------------------------------------

(* So the buffers keep their bounds and nothing is programmed that is not  *)
(* erased, through all trouble and on the way back (download.c, main.c).   *)
THEOREM RecoverySafe ==
    ASSUME PatientRequests \subseteq HostRequests, "early" \notin Faults
    PROVE  RecoverySpec => [](TypeOK /\ ProgramsErased)
  BY RecoveryIsBootloader, TypeCorrect, ProgramsErasedCorrect, PTL

=============================================================================
