-------------------------- MODULE BootloaderProofs --------------------------
(***************************************************************************)
(* Theorems about the bootloader, for every layout of the memory, every    *)
(* set of files, every host and every combination of faults.               *)
(***************************************************************************)
EXTENDS BootloaderProperties, TLAPS

-----------------------------------------------------------------------------
(* What the arithmetic of the layout stays within.                         *)

LEMMA SizeFacts ==
    /\ PAGE_SIZE \in Nat /\ PAGE_SIZE > 0
    /\ TRANSFER_SIZE \in Nat /\ TRANSFER_SIZE > 0 /\ TRANSFER_SIZE <= PAGE_SIZE
    /\ UINT32_MAX \in Nat /\ FLASH_START \in Nat /\ FLASH_SIZE \in Nat
    /\ TRANSFER_SIZE <= UINT32_MAX /\ PAGE_SIZE <= UINT32_MAX
    /\ BOOTLOADER_INFO_OFFSET \in PageIndex
    /\ MINIMUM_SIZE \in Nat /\ BOOTLOADER_SIZE \in Nat
    /\ BOOTLOADER_START \in Nat /\ APP_START \in Nat
  BY SizeAssumption DEF BOOTLOADER_SIZE, MINIMUM_SIZE, PageIndex, BOOTLOADER_START, APP_START

LEMMA WordType == \A x \in Nat : Word(x) \in 0 .. UINT32_MAX
  BY SizeFacts DEF Word

LEMMA CellFacts ==
    /\ Blank \in Cell /\ Torn \in Cell /\ Zero \in Cell
    /\ \A f \in File \cup {NoFile}, n \in Nat : <<f, n>> \in Cell
    /\ \A c \in Cell : c[1] \in File \cup {NoFile}
  BY DEF Cell, Blank, Torn, Zero

LEMMA NoHeaderType == NoHeader \in Header /\ ZeroInfo \in Header
  BY SizeFacts DEF NoHeader, ZeroInfo, Header

(* A header read from the page buffer is a header.                         *)
LEMMA PageHeaderType ==
    ASSUME NEW buf \in [PageIndex -> Cell]
    PROVE  HeaderAt(buf, 0) \in Header
  <1>1. buf[0 + BOOTLOADER_INFO_OFFSET] \in Cell
    BY SizeFacts DEF PageIndex
  <1>2. HeaderFile(buf, 0) \in File \cup {NoFile}
    BY <1>1, CellFacts DEF HeaderFile
  <1> QED
    BY <1>2, FileAssumption, NoHeaderType DEF HeaderAt

(* A header read from anywhere in the memory is a header.                  *)
LEMMA FlashHeaderType ==
    ASSUME FlashOK, NEW base \in Nat
    PROVE  FlashHeader(base) \in Header
  <1>1. ASSUME {base, base + MINIMUM_SIZE - 1} \subseteq FlashAddress
        PROVE  flash[base + BOOTLOADER_INFO_OFFSET] \in Cell
    <2>1. base + BOOTLOADER_INFO_OFFSET \in FlashAddress
      BY <1>1, SizeAssumption DEF FlashAddress, MINIMUM_SIZE
    <2> QED
      BY <2>1 DEF FlashOK
  <1>2. FlashHeaderFile(base) \in File \cup {NoFile}
    BY <1>1, CellFacts DEF FlashHeaderFile, HeaderFile
  <1> QED
    BY <1>2, FileAssumption, NoHeaderType DEF FlashHeader

LEMMA CopiedType ==
    ASSUME NEW D, NEW buf \in [D -> Cell], NEW data, NEW at, NEW n,
           \A k \in D : k \in at .. at + n - 1 => data[k - at] \in Cell
    PROVE  Copied(buf, at, data, n) \in [D -> Cell]
  BY DEF Copied

LEMMA PaddedType ==
    ASSUME NEW buf \in [PageIndex -> Cell], NEW n
    PROVE  Padded(buf, n) \in [PageIndex -> Cell]
  BY CellFacts DEF Padded

-----------------------------------------------------------------------------
(* The flash_control calls.                                                *)

LEMMA EraseType ==
    ASSUME FlashOK, NEW a, EraseBegins(a) \/ EraseSucceeds(a)
    PROVE  FlashOK'
  BY CellFacts DEF FlashOK, EraseBegins, EraseSucceeds, PageSetTo

LEMMA ProgramType ==
    ASSUME FlashOK, windex \in 0 .. PAGE_SIZE,
           NEW buf \in [PageIndex -> Cell], ProgramCell(buf)
    PROVE  FlashOK' /\ windex' \in 0 .. PAGE_SIZE
  <1>1. windex \in PageIndex /\ windex' \in 0 .. PAGE_SIZE
    BY SizeFacts DEF ProgramCell, PageIndex
  <1>2. \A old \in Cell : Programmed(old, buf[windex]) \in Cell
    BY <1>1, CellFacts DEF Programmed
  <1>3. FlashOK'
    BY <1>2, CellFacts DEF ProgramCell, FlashOK
  <1> QED
    BY <1>1, <1>3

-----------------------------------------------------------------------------
(* The control endpoint and the state machine.                             *)

LEMMA StatusValues ==
    /\ HeaderStatus(image_info) \in DfuStatus
    /\ \A info : HeaderStatus(info) \in DfuStatus
    /\ dfu_download_check_done \in DfuStatus
  BY Zenon DEF HeaderStatus, dfu_download_check_done, DfuStatus

LEMMA AnsweredType ==
    ASSUME NEW how \in {"ack", "stall", "none"}, Answered(how)
    PROVE  RequestOK'
  BY SizeFacts DEF Answered, RequestOK

LEMMA SubmittedType ==
    ASSUME NEW cb \in Callback, NEW len \in 0 .. UINT32_MAX, NEW ok \in BOOLEAN,
           cb = "dfu_download" => len <= TRANSFER_SIZE,
           Submitted(cb, len, ok)
    PROVE  RequestOK'
  BY AnsweredType DEF Submitted, RequestOK, Callback

LEMMA SubmitResultType == SubmitResult \subseteq BOOLEAN
  BY DEF SubmitResult

LEMMA ReadType ==
    ASSUME NEW len \in 0 .. TRANSFER_SIZE, dfu_read_control_data("dfu_download", len)
    PROVE  RequestOK'
  BY SubmittedType, SubmitResultType, SizeFacts DEF dfu_read_control_data, Callback

LEMMA ReplyType ==
    ASSUME dfu_send_reply
    PROVE  RequestOK'
  <1>1. PICK ok \in SubmitResult :
            Submitted("dfu_send_state_status_callback", 1, ok)
    BY DEF dfu_send_reply, dfu_write_control_data
  <1> QED
    BY <1>1, SubmittedType, SubmitResultType, SizeFacts DEF Callback

LEMMA EnterType ==
    ASSUME NEW s \in DfuState, Enter(s)
    PROVE  DfuOK'
  BY DEF Enter, DfuOK, DfuStatus

LEMMA FailType ==
    ASSUME NEW error \in DfuStatus, Fail(error)
    PROVE  DfuOK'
  BY DEF Fail, DfuOK, DfuState

(* Neither the state machine nor a callback touches more than this.        *)
Kept == DfuOK /\ DownloadOK /\ UploadOK /\ RequestOK

LEMMA UnchangedTypes ==
    /\ DfuOK /\ UNCHANGED dfuVars => DfuOK'
    /\ DownloadOK /\ UNCHANGED downloadVars => DownloadOK'
    /\ UploadOK /\ UNCHANGED uploadVars => UploadOK'
    /\ RequestOK /\ UNCHANGED requestVars => RequestOK'
    /\ HostOK /\ UNCHANGED hostVars => HostOK'
  BY DEF DfuOK, DownloadOK, UploadOK, RequestOK, HostOK,
         dfuVars, downloadVars, uploadVars, requestVars, hostVars

(* What is left of the image never runs past its end: either the block is  *)
(* cut to what is left, or the sum wraps and starts over.                  *)
LEMMA UploadBlockType ==
    ASSUME NEW total \in 0 .. UINT32_MAX, NEW transmitted \in 0 .. total,
           NEW len \in 0 .. TRANSFER_SIZE, UploadBlock(total, transmitted, len)
    PROVE  DfuOK' /\ UploadOK' /\ RequestOK'
  <1> DEFINE n == UploadLength(total, transmitted, len)
  <1>1. n \in 0 .. UINT32_MAX /\ Word(transmitted + n) \in 0 .. total
    <2>1. Word(transmitted + len) \in 0 .. UINT32_MAX
      BY WordType, SizeFacts
    <2>2. CASE total < Word(transmitted + len)
      <3>1. n = total - transmitted
        BY <2>2 DEF UploadLength
      <3>2. transmitted + n = total
        BY <3>1
      <3>3. Word(total) = total
        BY SizeFacts DEF Word
      <3>4. Word(transmitted + n) = total
        BY <3>2, <3>3
      <3>5. n \in 0 .. UINT32_MAX
        BY <3>1, SizeFacts
      <3> HIDE DEF n
      <3> QED
        BY <3>4, <3>5
    <2>3. CASE ~(total < Word(transmitted + len))
      <3>1. n = len
        BY <2>3 DEF UploadLength
      <3> QED
        BY <2>1, <2>3, <3>1, SizeFacts
    <2> QED
      BY <2>2, <2>3
  <1>2. UploadOK'
    BY <1>1 DEF UploadBlock, UploadOK
  <1>3. PICK ok \in SubmitResult :
            IF ok THEN /\ dfu_write_control_data("dfu_upload_callback", n, TRUE)
                       /\ Enter("UPLOAD_IDLE")
                  ELSE usb_util_stall /\ Fail("ERROR_UNKNOWN")
    BY DEF UploadBlock
  <1>4. CASE ok
    BY <1>1, <1>3, <1>4, SubmittedType, EnterType, <1>2
       DEF dfu_write_control_data, Callback, DfuState
  <1>5. CASE ~ok
    BY <1>3, <1>5, AnsweredType, FailType, <1>2 DEF usb_util_stall, DfuStatus
  <1> QED
    BY <1>4, <1>5

LEMMA UploadStartType ==
    ASSUME FlashOK, NEW len \in 0 .. TRANSFER_SIZE, dfu_upload_start(len)
    PROVE  DfuOK' /\ UploadOK' /\ RequestOK'
  <1> DEFINE app   == FlashHeader(APP_START)
             total == IF app.magic THEN Word(BOOTLOADER_SIZE + app.length)
                                   ELSE FlashHeader(BOOTLOADER_START).length
  <1>1. app \in Header /\ FlashHeader(BOOTLOADER_START) \in Header
    BY FlashHeaderType, SizeFacts
  <1>2. total \in 0 .. UINT32_MAX
    BY <1>1, WordType, SizeFacts DEF Header
  <1>3. UploadBlock(total, 0, len)
    BY DEF dfu_upload_start
  <1> HIDE DEF total
  <1> QED
    BY <1>2, <1>3, UploadBlockType

(* A block of n cells fits in what is left of page and in overflow.        *)
LEMMA DownloadType ==
    ASSUME DfuOK, DownloadOK, HostOK, NEW n \in 0 .. TRANSFER_SIZE, dfu_download(n)
    PROVE  DfuOK' /\ DownloadOK' /\ RequestOK'
  <1> DEFINE fits  == PagePart(n)
             block == [k \in 0 .. TRANSFER_SIZE - 1 |-> <<file, sent + k>>]
             rest  == [k \in 0 .. TRANSFER_SIZE - 1 |-> <<file, sent + fits + k>>]
  <1>1. fits \in 0 .. n /\ page_count + fits \in 0 .. PAGE_SIZE
    BY SizeFacts DEF DownloadOK, PagePart
  <1> HIDE DEF fits
  <1>2. page' \in [PageIndex -> Cell]
    <2>1. page' = Copied(page, page_count, block, fits)
      BY DEF dfu_download, fits
    <2>2. \A k \in PageIndex : k \in page_count .. page_count + fits - 1 =>
              block[k - page_count] \in Cell
      <3> SUFFICES ASSUME NEW k \in PageIndex, k \in page_count .. page_count + fits - 1
                   PROVE  block[k - page_count] \in Cell
        OBVIOUS
      <3>1. page_count \in Nat /\ fits \in Nat /\ fits <= TRANSFER_SIZE
        BY <1>1, SizeFacts DEF DownloadOK
      <3>2. k - page_count \in 0 .. TRANSFER_SIZE - 1
        BY <3>1, SizeFacts DEF PageIndex
      <3>3. sent + (k - page_count) \in Nat
        BY <3>2, SizeFacts DEF HostOK
      <3>4. block[k - page_count] = <<file, sent + (k - page_count)>>
        BY <3>2
      <3> QED
        BY <3>3, <3>4, CellFacts DEF HostOK
    <2> HIDE DEF block
    <2> QED
      BY <2>1, <2>2, CopiedType DEF DownloadOK
  <1>3. overflow' \in [0 .. TRANSFER_SIZE - 1 -> Cell]
    <2>1. overflow' = Copied(overflow, 0, rest, n - fits)
      BY DEF dfu_download, fits
    <2>2. \A k \in 0 .. TRANSFER_SIZE - 1 : k \in 0 .. 0 + (n - fits) - 1 =>
              rest[k - 0] \in Cell
      BY <1>1, CellFacts, SizeFacts DEF HostOK
    <2> HIDE DEF rest
    <2> QED
      BY <2>1, <2>2, CopiedType DEF DownloadOK
  <1>4. image_info' \in Header /\ DfuOK'
    <2>1. CASE HeaderArrives(page_count + fits)
      <3>1. dfu_download_verify_header(page')
        BY <2>1 DEF dfu_download, fits
      <3>2. image_info' = HeaderAt(page', 0)
        BY <3>1 DEF dfu_download_verify_header
      <3>3. DfuOK'
        BY <3>1, StatusValues, FailType, UnchangedTypes DEF dfu_download_verify_header
      <3> QED
        BY <1>2, <3>2, <3>3, PageHeaderType
    <2>2. CASE ~HeaderArrives(page_count + fits)
      BY <2>2 DEF dfu_download, fits, DfuOK, DownloadOK
    <2> QED
      BY <2>1, <2>2
  <1>5. RequestOK'
    BY AnsweredType DEF dfu_download, usb_util_ack
  <1>6. /\ overflow_count' = n - fits /\ page_count' = page_count + fits
        /\ page_waiting_to_flush' \in BOOLEAN
        /\ UNCHANGED <<first_page, count, done>>
    BY DEF dfu_download, fits
  <1>7. overflow_count' \in 0 .. TRANSFER_SIZE
    BY <1>1, <1>6, SizeFacts
  <1> QED
    BY <1>1, <1>2, <1>3, <1>4, <1>5, <1>6, <1>7 DEF DownloadOK

LEMMA StartType ==
    ASSUME DownloadOK, dfu_download_start
    PROVE  DownloadOK'
  <1>1. image_info' = [image_info EXCEPT !.magic = FALSE, !.length = 0]
    BY DEF dfu_download_start
  <1>2. image_info' \in Header
    <2>1. [image_info EXCEPT !.magic = FALSE] \in Header
      BY DEF DownloadOK, Header
    <2>2. \A h \in Header : [h EXCEPT !.length = 0] \in Header
      BY SizeFacts DEF Header
    <2>3. image_info' = [[image_info EXCEPT !.magic = FALSE] EXCEPT !.length = 0]
      BY <1>1
    <2> QED
      BY <2>1, <2>2, <2>3
  <1>3. /\ page' \in [PageIndex -> Cell] /\ first_page' \in [PageIndex -> Cell]
        /\ overflow' \in [0 .. TRANSFER_SIZE - 1 -> Cell]
    BY DEF dfu_download_start, DownloadOK
  <1>4. count' = 0 /\ page_count' = 0 /\ overflow_count' = 0
    BY DEF dfu_download_start
  <1>5. page_waiting_to_flush' \in BOOLEAN /\ done' \in BOOLEAN
    BY DEF dfu_download_start
  <1> QED
    BY <1>2, <1>3, <1>4, <1>5, SizeFacts DEF DownloadOK

LEMMA CallbackType ==
    ASSUME DfuOK, NEW error \in BOOLEAN, dfu_sent_callback(error)
    PROVE  DfuOK' /\ RequestOK'
  BY AnsweredType, FailType, UnchangedTypes
     DEF dfu_sent_callback, usb_util_ack, usb_util_stall, DfuStatus

-----------------------------------------------------------------------------
(* The handlers of dfu.c.  They are made of four kinds of response.        *)

LEMMA RespondTypes ==
    ASSUME Kept
    PROVE  /\ Unexpected => Kept'
           /\ \A req : Report(req) => Kept'
           /\ \A s \in DfuState : Move(s) => Kept'
           /\ \A s \in DfuState : ReportAfter(s) => Kept'
  <1>1. Unexpected => Kept'
    BY FailType, AnsweredType, UnchangedTypes DEF Kept, Unexpected, usb_util_stall, DfuStatus
  <1>2. ASSUME NEW req, Report(req) PROVE Kept'
    BY <1>2, ReplyType, UnchangedTypes DEF Kept, Report
  <1>3. ASSUME NEW s \in DfuState, Move(s) PROVE Kept'
    BY <1>3, EnterType, AnsweredType, UnchangedTypes DEF Kept, Move, usb_util_ack
  <1>4. ASSUME NEW s \in DfuState, ReportAfter(s) PROVE Kept'
    BY <1>4, EnterType, ReplyType, UnchangedTypes DEF Kept, ReportAfter
  <1> QED
    BY <1>1, <1>2, <1>3, <1>4

LEMMA IdleType ==
    ASSUME FlashOK, Kept, NEW req, NEW len \in 0 .. TRANSFER_SIZE, dfu_state_idle(req, len)
    PROVE  Kept'
  <1>1. CASE /\ dfu_download_start /\ Enter("DOWNLOAD_SYNC")
             /\ dfu_read_control_data("dfu_download", len) /\ UNCHANGED uploadVars
    BY <1>1, StartType, EnterType, ReadType, UnchangedTypes DEF Kept, DfuState
  <1>2. CASE dfu_upload_start(len) /\ UNCHANGED downloadVars
    BY <1>2, UploadStartType, UnchangedTypes DEF Kept
  <1>3. CASE usb_util_ack /\ UNCHANGED <<dfuVars, downloadVars, uploadVars>>
    BY <1>3, AnsweredType, UnchangedTypes DEF Kept, usb_util_ack
  <1>4. CASE /\ Fail("ERROR_FIRMWARE") /\ usb_util_stall
             /\ UNCHANGED <<downloadVars, uploadVars>>
    BY <1>4, FailType, AnsweredType, UnchangedTypes DEF Kept, usb_util_stall, DfuStatus
  <1>5. CASE Unexpected \/ Report(req) \/ Move("DETACH")
    BY <1>5, RespondTypes DEF DfuState
  <1> QED
    BY <1>1, <1>2, <1>3, <1>4, <1>5 DEF dfu_state_idle, Refuse

LEMMA DownloadIdleType ==
    ASSUME Kept, NEW req, NEW len \in 0 .. TRANSFER_SIZE, dfu_state_download_idle(req, len)
    PROVE  Kept'
  <1>1. CASE /\ dfu_read_control_data("dfu_download", len) /\ Enter("DOWNLOAD_SYNC")
             /\ UNCHANGED <<downloadVars, uploadVars>>
    BY <1>1, EnterType, ReadType, UnchangedTypes DEF Kept, DfuState
  <1>2. CASE /\ IF dfu_download_check_done = "OK"
                THEN Enter("MANIFEST_SYNC") ELSE Fail(dfu_download_check_done)
             /\ usb_util_ack /\ UNCHANGED <<downloadVars, uploadVars>>
    <2>1. DfuOK'
      BY <1>2, EnterType, FailType, StatusValues DEF DfuState
    <2> QED
      BY <1>2, <2>1, AnsweredType, UnchangedTypes DEF Kept, usb_util_ack
  <1>3. CASE Unexpected \/ Report(req) \/ Move("IDLE")
    BY <1>3, RespondTypes DEF DfuState
  <1> QED
    BY <1>1, <1>2, <1>3 DEF dfu_state_download_idle, Refuse

LEMMA UploadIdleType ==
    ASSUME Kept, NEW req, NEW len \in 0 .. TRANSFER_SIZE, dfu_state_upload_idle(req, len)
    PROVE  Kept'
  <1>1. CASE dfu_upload(len) /\ UNCHANGED downloadVars
    BY <1>1, UploadBlockType, UnchangedTypes DEF Kept, dfu_upload, UploadOK
  <1>2. CASE Answered("none") /\ UNCHANGED <<dfuVars, downloadVars, uploadVars>>
    BY <1>2, AnsweredType, UnchangedTypes DEF Kept
  <1>3. CASE Unexpected \/ Report(req) \/ Move("IDLE")
    BY <1>3, RespondTypes DEF DfuState
  <1> QED
    BY <1>1, <1>2, <1>3 DEF dfu_state_upload_idle, Refuse

LEMMA MachineType ==
    ASSUME FlashOK, Kept, NEW req, NEW len \in 0 .. TRANSFER_SIZE, dfu_state_machine(req, len)
    PROVE  Kept'
  <1>1. CASE dfu_state_idle(req, len)
    BY <1>1, IdleType
  <1>2. CASE dfu_state_download_sync(req)
    BY <1>2, RespondTypes DEF dfu_state_download_sync, Refuse, AfterSync, DfuState
  <1>3. CASE dfu_state_download_busy(req) \/ dfu_state_manifest(req)
    BY <1>3, RespondTypes DEF dfu_state_download_busy, dfu_state_manifest, Refuse
  <1>4. CASE dfu_state_download_idle(req, len)
    BY <1>4, DownloadIdleType
  <1>5. CASE dfu_state_manifest_sync(req)
    BY <1>5, RespondTypes DEF dfu_state_manifest_sync, Refuse, AfterManifest, DfuState
  <1>6. CASE dfu_state_upload_idle(req, len)
    BY <1>6, UploadIdleType
  <1>7. CASE dfu_state_error(req)
    BY <1>7, RespondTypes DEF dfu_state_error, Refuse, DfuState
  <1>8. CASE usb_util_stall /\ UNCHANGED <<dfuVars, downloadVars, uploadVars>>
    BY <1>8, AnsweredType, UnchangedTypes DEF Kept, usb_util_stall
  <1> QED
    BY <1>1, <1>2, <1>3, <1>4, <1>5, <1>6, <1>7, <1>8 DEF dfu_state_machine

LEMMA SetupType ==
    ASSUME TypeOK, Setup, UNCHANGED magic
    PROVE  TypeOK'
  <1> USE DEF TypeOK
  <1>1. FlashOK' /\ MainOK' /\ dirty' \in BOOLEAN
    BY DEF Setup, mainVars, FlashOK, MainOK
  <1>2. Kept
    BY DEF Kept
  <1>3. ASSUME HostDownload PROVE Kept' /\ HostOK'
    <2>1. CASE \E f \in Offered : \E len \in BlockLength(f, 0) :
                   file' = f /\ sent' = 0 /\ dfu_state_machine("DOWNLOAD", len)
      BY <1>2, <1>3, <2>1, MachineType, HostAssumption DEF HostDownload, BlockLength, HostOK
    <2>2. CASE /\ \E offset \in NextOffset : \E len \in BlockLength(file, offset) :
                      sent' = offset /\ dfu_state_machine("DOWNLOAD", len)
               /\ UNCHANGED file
      <3>1. NextOffset \subseteq Nat
        BY SizeFacts DEF NextOffset, HostOK
      <3>2. PICK offset \in Nat : \E len \in BlockLength(file, offset) :
                 sent' = offset /\ dfu_state_machine("DOWNLOAD", len)
        BY <2>2, <3>1
      <3> QED
        BY <1>2, <1>3, <2>2, <3>2, MachineType DEF HostDownload, BlockLength, HostOK
    <2>3. CASE dfu_state_machine("DOWNLOAD", 0) /\ UNCHANGED <<file, sent>>
      BY <1>2, <1>3, <2>3, MachineType, SizeFacts DEF HostDownload, HostOK
    <2> QED
      BY <1>3, <2>1, <2>2, <2>3 DEF HostDownload
  <1>4. ASSUME HostUpload PROVE Kept' /\ HostOK'
    <2>1. PICK len \in 0 .. TRANSFER_SIZE : dfu_state_machine("UPLOAD", len)
      BY <1>4, SizeFacts DEF HostUpload
    <2>2. HostOK'
      BY <1>4, SizeFacts DEF HostUpload, HostOK
    <2> QED
      BY <1>2, <2>1, <2>2, MachineType
  <1>5. ASSUME HostRequest PROVE Kept' /\ HostOK'
    BY <1>2, <1>5, MachineType, UnchangedTypes, SizeFacts DEF HostRequest
  <1>6. Kept' /\ HostOK'
    BY <1>3, <1>4, <1>5 DEF Setup
  <1> QED
    BY <1>1, <1>6 DEF Kept

LEMMA EndpointCallbackType ==
    ASSUME TypeOK, usb_util_endpoint_callback, UNCHANGED magic
    PROVE  TypeOK'
  <1> USE DEF TypeOK
  <1>1. FlashOK' /\ MainOK' /\ dirty' \in BOOLEAN
    BY DEF usb_util_endpoint_callback, mainVars, FlashOK, MainOK
  <1>2. ASSUME DataArrives PROVE Kept' /\ HostOK'
    <2>1. req_len \in 0 .. TRANSFER_SIZE
      BY <1>2, SizeFacts DEF DataArrives, RequestOK
    <2>2. DfuOK' /\ DownloadOK' /\ RequestOK'
      BY <1>2, <2>1, DownloadType DEF DataArrives
    <2>3. UploadOK' /\ HostOK'
      BY <1>2, <2>1, UnchangedTypes, SizeFacts DEF DataArrives, HostOK
    <2> QED
      BY <2>2, <2>3 DEF Kept
  <1>3. ASSUME ReplyTaken PROVE Kept' /\ HostOK'
    BY <1>3, CallbackType, UnchangedTypes DEF ReplyTaken, Kept
  <1>4. ASSUME BlockTaken PROVE Kept' /\ HostOK'
    <2>1. HostOK'
      BY <1>4, WordType DEF BlockTaken, HostOK, RequestOK
    <2> QED
      BY <1>4, <2>1, CallbackType, UnchangedTypes DEF BlockTaken, Kept
  <1>5. ASSUME TransferFails PROVE Kept' /\ HostOK'
    <2>1. CASE dfu_download(0)
      BY <1>5, <2>1, DownloadType, UnchangedTypes, SizeFacts DEF TransferFails, Kept
    <2>2. CASE dfu_sent_callback(TRUE) /\ UNCHANGED downloadVars
      BY <1>5, <2>2, CallbackType, UnchangedTypes DEF TransferFails, Kept
    <2> QED
      BY <1>5, <2>1, <2>2 DEF TransferFails
  <1> QED
    BY <1>1, <1>2, <1>3, <1>4, <1>5 DEF usb_util_endpoint_callback, Kept

-----------------------------------------------------------------------------
(* The main loop in download.c: one step for each of its actions.          *)

Working == FlashOK /\ MainOK /\ DfuOK /\ dirty \in BOOLEAN /\ DownloadOK

LEMMA ReturnType ==
    ASSUME Return
    PROVE  MainOK'
  BY SizeFacts DEF Return, MainOK, MainLocation

LEMMA CallTypes ==
    ASSUME FlashOK, MainOK, NEW a \in 0 .. UINT32_MAX, NEW at \in MainLocation
    PROVE  /\ CallErase(a, at) => MainOK' /\ FlashOK'
           /\ CallProgram(a, at) => MainOK'
  BY EraseType, SizeFacts DEF CallErase, CallProgram, MainOK

(* The addresses handed to flash_control fit in a word.                    *)
LEMMA TargetType ==
    ASSUME DownloadOK
    PROVE  /\ image_info.start \in 0 .. UINT32_MAX
           /\ Word(image_info.start + count) \in 0 .. UINT32_MAX
  <1>1. image_info.start \in 0 .. UINT32_MAX
    BY DEF DownloadOK, Header
  <1>2. image_info.start + count \in Nat
    BY <1>1, SizeFacts DEF DownloadOK
  <1> QED
    BY <1>1, <1>2, WordType

LEMMA BufferType ==
    ASSUME DownloadOK
    PROVE  ProgramBuffer \in [PageIndex -> Cell]
  BY DEF DownloadOK, ProgramBuffer

LEMMA BusyType ==
    ASSUME Working, dfu_download_busy
    PROVE  Working'
  <1> USE DEF Working
  <1>1. CASE BusyErase
    BY <1>1, CallTypes, TargetType, UnchangedTypes DEF BusyErase, MainLocation
  <1>2. CASE BusyErased
    <2>1. FlashOK' /\ DfuOK' /\ dirty' \in BOOLEAN
      BY <1>2, EraseType, UnchangedTypes DEF BusyErased
    <2>2. MainOK'
      BY <1>2, SizeFacts DEF BusyErased, CallProgram, MainOK, MainLocation
    <2>3. DownloadOK'
      BY <1>2 DEF BusyErased, DownloadOK
    <2> QED
      BY <2>1, <2>2, <2>3
  <1>3. CASE BusyProgrammed
    BY <1>3, UnchangedTypes DEF BusyProgrammed, ProgramSucceeds, FlashOK, MainOK, MainLocation
  <1>4. CASE BusyNextPage
    <2>1. DownloadOK'
      <3>1. CASE BusyAdvance
        <4>1. count + PAGE_SIZE \in Nat
          BY SizeFacts DEF DownloadOK
        <4>2. count' \in 0 .. UINT32_MAX
          BY <3>1, <4>1, WordType DEF BusyAdvance
        <4> QED
          BY <1>4, <3>1, <4>2 DEF BusyNextPage, BusyAdvance, DownloadOK
      <3>2. CASE BusyCarry
        <4>1. \A k \in PageIndex :
                  k \in 0 .. 0 + overflow_count - 1 => overflow[k - 0] \in Cell
          BY SizeFacts DEF DownloadOK, PageIndex
        <4>2. Copied(page, 0, overflow, overflow_count) \in [PageIndex -> Cell]
          BY <4>1, CopiedType DEF DownloadOK
        <4> QED
          BY <1>4, <3>2, <4>2 DEF BusyNextPage, BusyCarry, DownloadOK
      <3>3. CASE BusyCount
        BY <1>4, <3>3, SizeFacts DEF BusyNextPage, BusyCount, CarriedOver, DownloadOK
      <3>4. CASE BusyEmpty
        BY <1>4, <3>4, SizeFacts DEF BusyNextPage, BusyEmpty, DownloadOK
      <3>5. CASE BusyFlushed
        BY <1>4, <3>5 DEF BusyNextPage, BusyFlushed, DownloadOK
      <3> QED
        BY <1>4, <3>1, <3>2, <3>3, <3>4, <3>5 DEF BusyNextPage
    <2>2. FlashOK' /\ MainOK' /\ DfuOK' /\ dirty' \in BOOLEAN
      BY <1>4, UnchangedTypes
         DEF BusyNextPage, BusyAdvance, BusyCarry, BusyCount, BusyEmpty, BusyFlushed,
             FlashOK, MainOK, MainLocation
    <2> QED
      BY <2>1, <2>2
  <1>5. CASE BusyPublish
    BY <1>5, ReturnType, EnterType, UnchangedTypes DEF BusyPublish, FlashOK, DfuState
  <1> QED
    BY <1>1, <1>2, <1>3, <1>4, <1>5 DEF dfu_download_busy

LEMMA ManifestType ==
    ASSUME Working, dfu_download_manifest
    PROVE  Working'
  <1> USE DEF Working
  <1>1. CASE ManifestFirst
    <2>1. FlashOK' /\ MainOK'
      BY <1>1, CallTypes, TargetType DEF ManifestFirst, MainLocation
    <2>2. first_page' \in [PageIndex -> Cell]
      BY <1>1, PaddedType DEF ManifestFirst, DownloadOK
    <2>3. DownloadOK'
      BY <1>1, <2>2, SizeFacts DEF ManifestFirst, DownloadOK
    <2> QED
      BY <1>1, <2>1, <2>3, UnchangedTypes DEF ManifestFirst
  <1>2. CASE ManifestFirstErased
    BY <1>2, EraseType, UnchangedTypes DEF ManifestFirstErased, MainOK, MainLocation
  <1>3. CASE ManifestTail
    <2>1. CASE page_count # 0
      <3>1. FlashOK' /\ MainOK'
        BY <1>3, <2>1, CallTypes, TargetType DEF ManifestTail, MainLocation
      <3>2. page' \in [PageIndex -> Cell]
        BY <1>3, <2>1, PaddedType DEF ManifestTail, DownloadOK
      <3>3. DownloadOK'
        BY <1>3, <3>2 DEF ManifestTail, DownloadOK
      <3> QED
        BY <1>3, <3>1, <3>3, UnchangedTypes DEF ManifestTail
    <2>2. CASE page_count = 0
      <3>1. FlashOK' /\ MainOK'
        BY <1>3, <2>2, CallTypes, TargetType DEF ManifestTail, MainLocation, FlashOK
      <3>2. DownloadOK'
        BY <1>3, <2>2 DEF ManifestTail, DownloadOK
      <3> QED
        BY <1>3, <3>1, <3>2, UnchangedTypes DEF ManifestTail
    <2> QED
      BY <2>1, <2>2
  <1>4. CASE ManifestTailErased
    BY <1>4, EraseType, UnchangedTypes, SizeFacts
       DEF ManifestTailErased, CallProgram, MainOK, MainLocation
  <1>5. CASE ManifestTailProgrammed
    BY <1>5, CallTypes, TargetType, UnchangedTypes
       DEF ManifestTailProgrammed, ProgramSucceeds, FlashOK, MainLocation
  <1>6. CASE ManifestFirstProgrammed
    <2>1. DownloadOK'
      BY <1>6 DEF ManifestFirstProgrammed, DownloadOK
    <2> QED
      BY <1>6, <2>1, UnchangedTypes
         DEF ManifestFirstProgrammed, ProgramSucceeds, FlashOK, MainOK, MainLocation
  <1>7. CASE ManifestPublish
    BY <1>7, ReturnType, EnterType, UnchangedTypes DEF ManifestPublish, FlashOK, DfuState
  <1> QED
    BY <1>1, <1>2, <1>3, <1>4, <1>5, <1>6, <1>7 DEF dfu_download_manifest

LEMMA FlashControlType ==
    ASSUME Working, FlashControlStep
    PROVE  Working'
  <1> USE DEF Working
  <1>1. CASE FlashProgramCell
    BY <1>1, BufferType, ProgramType, UnchangedTypes DEF FlashProgramCell, MainOK
  <1>2. CASE FlashEraseFails
    BY <1>2, ReturnType, FailType, UnchangedTypes
       DEF FlashEraseFails, EraseFails, FlashOK, DfuStatus
  <1>3. CASE FlashProgramFails
    BY <1>3, ReturnType, FailType, UnchangedTypes
       DEF FlashProgramFails, ProgramFails, FlashOK, DfuStatus
  <1> QED
    BY <1>1, <1>2, <1>3 DEF FlashControlStep

-----------------------------------------------------------------------------

(* What the startup code leaves in the download buffers.                   *)
LEMMA ZeroTypes ==
    /\ ZeroPage \in [PageIndex -> Cell]
    /\ ZeroOverflow \in [0 .. TRANSFER_SIZE - 1 -> Cell]
    /\ ZeroInfo \in Header
    /\ 0 \in 0 .. UINT32_MAX /\ 0 \in 0 .. PAGE_SIZE /\ 0 \in 0 .. TRANSFER_SIZE
  BY CellFacts, NoHeaderType, SizeFacts DEF ZeroPage, ZeroOverflow

LEMMA InitType ==
    ASSUME Init
    PROVE  TypeOK
  <1>1. FlashOK
    <2>1. \A mem \in [FlashAddress -> Cell], base \in Nat, f \in File \cup {NoFile} :
              Installed(mem, base, f) \in [FlashAddress -> Cell]
      <3> SUFFICES ASSUME NEW mem \in [FlashAddress -> Cell], NEW base \in Nat,
                          NEW f \in File \cup {NoFile}, NEW a \in FlashAddress,
                          f # NoFile, a - base \in 0 .. FileSize[f] - 1
                   PROVE  <<f, a - base>> \in Cell
        BY DEF Installed
      <3>1. a - base \in Nat
        BY FileAssumption, SizeFacts DEF FlashAddress
      <3> QED
        BY <3>1, CellFacts
    <2>2. [a \in FlashAddress |-> Blank] \in [FlashAddress -> Cell]
      BY CellFacts
    <2> QED
      BY <2>1, <2>2, SizeFacts, InitialAssumption DEF Init, FlashOK
  <1>2. DownloadOK
    BY ZeroTypes, Zenon DEF Init, DownloadOK
  <1>3. MainOK /\ DfuOK /\ UploadOK /\ RequestOK /\ HostOK
    BY SizeFacts DEF Init, MainOK, MainLocation, DfuOK, DfuState, DfuStatus, UploadOK,
                     RequestOK, HostOK
  <1> QED
    BY <1>1, <1>2, <1>3 DEF Init, TypeOK

LEMMA ResetType ==
    ASSUME TypeOK, Reset, magic' \in BOOLEAN
    PROVE  TypeOK'
  <1>1. DownloadOK'
    BY ZeroTypes, Zenon DEF Reset, DownloadOK
  <1>2. MainOK' /\ DfuOK' /\ UploadOK' /\ RequestOK' /\ HostOK' /\ FlashOK'
    BY SizeFacts DEF TypeOK, Reset, MainOK, MainLocation, DfuOK, DfuState, DfuStatus,
                     UploadOK, RequestOK, HostOK, FlashOK
  <1> QED
    BY <1>1, <1>2 DEF Reset, TypeOK

LEMMA MainStepType ==
    ASSUME TypeOK, MainStep
    PROVE  TypeOK'
  <1>1. CASE DownloadStep /\ UNCHANGED magic
    <2>1. Working'
      BY <1>1, BusyType, ManifestType, FlashControlType DEF DownloadStep, Working, TypeOK
    <2> QED
      BY <1>1, <2>1, UnchangedTypes DEF DownloadStep, Working, TypeOK
  <1>2. CASE jump
    BY <1>2, ResetType DEF jump, TypeOK
  <1>3. CASE /\ main \/ dfu_poll_state
             /\ UNCHANGED <<flash, downloadVars, uploadVars, requestVars, hostVars, magic>>
    <2>1. FlashOK' /\ DownloadOK' /\ UploadOK' /\ RequestOK' /\ HostOK' /\ magic' \in BOOLEAN
      BY <1>3, UnchangedTypes DEF TypeOK, FlashOK
    <2>2. MainOK' /\ DfuOK' /\ dirty' \in BOOLEAN
      <3>1. CASE Dead \/ StartApp
        BY <3>1, UnchangedTypes DEF TypeOK, Dead, StartApp, MainOK, MainLocation
      <3>2. CASE EnterDfu
        BY <3>2, EnterType DEF TypeOK, EnterDfu, dfu_init, DfuState, MainOK, MainLocation
      <3>3. CASE dfu_poll_state
        <4>1. PollLeadsTo \in MainLocation
          BY Zenon DEF PollLeadsTo, MainLocation
        <4> QED
          BY <3>3, <4>1, UnchangedTypes DEF TypeOK, dfu_poll_state, MainOK
      <3> QED
        BY <1>3, <3>1, <3>2, <3>3 DEF main
    <2> QED
      BY <2>1, <2>2 DEF TypeOK
  <1> QED
    BY <1>1, <1>2, <1>3 DEF MainStep

LEMMA NextType ==
    ASSUME TypeOK, [Next]_vars
    PROVE  TypeOK'
  <1>1. CASE MainStep
    BY <1>1, MainStepType
  <1>2. CASE usb_handler /\ UNCHANGED magic
    BY <1>2, SetupType, EndpointCallbackType DEF usb_handler
  <1>3. CASE AppEntersBootloader \/ PowerCycle
    BY <1>3, ResetType DEF AppEntersBootloader, PowerCycle
  <1>4. CASE UNCHANGED vars
    BY <1>4, UnchangedTypes DEF vars, mainVars, TypeOK, FlashOK, MainOK
  <1> QED
    BY <1>1, <1>2, <1>3, <1>4 DEF Next

(* Whatever the host asks for and whenever it asks, the blocks it sends    *)
(* stay within page and overflow, and what it reads within the image       *)
(* (download.c:78-84, upload.c:46-48).                                     *)
THEOREM TypeCorrect == Spec => []TypeOK
  <1>1. Init => TypeOK
    BY InitType
  <1>2. TypeOK /\ [Next]_vars => TypeOK'
    BY NextType
  <1> QED
    BY <1>1, <1>2, PTL DEF Spec

-----------------------------------------------------------------------------
(* What the flash holds at an address depends on nothing but the flash.    *)
LEMMA SameFlashSameFile ==
    ASSUME UNCHANGED flash, NEW base
    PROVE  FileAt(base)' = FileAt(base)
  BY DEF FileAt, ChecksumMatches, FlashHeaderFile, HeaderFile

-----------------------------------------------------------------------------
(* What UploadInStep needs while a block is on its way to the host: the    *)
(* device has counted it, the host has not.                                *)
UploadCounted ==
    state = "UPLOAD_IDLE" =>
        transmit_count = IF pending = "dfu_upload_callback" THEN Word(received + req_len)
                                                            ELSE received

(* The main loop never enters UPLOAD_IDLE.                                 *)
LEMMA MainLeavesUploadAlone ==
    ASSUME MainStep, state' = "UPLOAD_IDLE"
    PROVE  UNCHANGED <<state, uploadVars, requestVars, hostVars>>
  <1>1. CASE DownloadStep
    <2>1. CASE dfu_download_busy
      BY <1>1, <2>1
         DEF DownloadStep, dfu_download_busy, BusyErase, BusyErased, BusyProgrammed,
             BusyNextPage, BusyPublish, Enter, dfuVars
    <2>2. CASE dfu_download_manifest
      BY <1>1, <2>2
         DEF DownloadStep, dfu_download_manifest, ManifestFirst, ManifestFirstErased,
             ManifestTail, ManifestTailErased, ManifestTailProgrammed,
             ManifestFirstProgrammed, ManifestPublish, Enter, dfuVars
    <2>3. CASE FlashControlStep
      BY <1>1, <2>3
         DEF DownloadStep, FlashControlStep, FlashProgramCell, FlashEraseFails,
             FlashProgramFails, Fail, dfuVars
    <2> QED
      BY <1>1, <2>1, <2>2, <2>3 DEF DownloadStep
  <1>2. CASE /\ main \/ dfu_poll_state
             /\ UNCHANGED <<uploadVars, requestVars, hostVars>>
    BY <1>2 DEF main, Dead, StartApp, EnterDfu, dfu_init, Enter, dfu_poll_state, dfuVars
  <1>3. CASE jump
    BY <1>3 DEF jump, Reset
  <1> QED
    BY <1>1, <1>2, <1>3 DEF MainStep

(* A block that is sent is counted, by n, from what the host has.          *)
LEMMA BlockCounted ==
    ASSUME NEW total, NEW transmitted, NEW len,
           UploadBlock(total, transmitted, len),
           received' = transmitted
    PROVE  UploadCounted'
  <1> DEFINE n == UploadLength(total, transmitted, len)
  <1>1. PICK ok \in SubmitResult :
            IF ok THEN /\ dfu_write_control_data("dfu_upload_callback", n, TRUE)
                       /\ Enter("UPLOAD_IDLE")
                  ELSE usb_util_stall /\ Fail("ERROR_UNKNOWN")
    BY DEF UploadBlock
  <1>2. transmit_count' = Word(transmitted + n)
    BY DEF UploadBlock
  <1> HIDE DEF n
  <1>3. CASE ok
    <2>1. pending' = "dfu_upload_callback" /\ req_len' = n
      BY <1>1, <1>3 DEF dfu_write_control_data, Submitted
    <2>2. Word(received + req_len)' = Word(transmitted + n)
      BY <2>1 DEF Word
    <2> QED
      BY <1>2, <2>1, <2>2 DEF UploadCounted
  <1>4. CASE ~ok
    BY <1>1, <1>4 DEF Fail, UploadCounted
  <1> QED
    BY <1>3, <1>4

(* Any other request leaves UPLOAD_IDLE or leaves the upload alone.        *)
LEMMA OtherRequest ==
    ASSUME NEW req, NEW len, dfu_state_machine(req, len),
           req # "UPLOAD" \/ len = 0, state' = "UPLOAD_IDLE"
    PROVE  state = "UPLOAD_IDLE" /\ UNCHANGED transmit_count /\ pending' # "dfu_upload_callback"
  <1> USE DEF Enter, Fail, Move, ReportAfter, Refuse, Unexpected, dfuVars, uploadVars
  <1>1. CASE dfu_state_upload_idle(req, len) /\ state = "UPLOAD_IDLE"
    <2>1. CASE Answered("none") /\ UNCHANGED uploadVars
      BY <1>1, <2>1 DEF Answered
    <2>2. CASE Report(req)
      <3>1. PICK ok \in SubmitResult :
                Submitted("dfu_send_state_status_callback", 1, ok)
        BY <2>2 DEF Report, dfu_send_reply, dfu_write_control_data
      <3> QED
        BY <1>1, <2>2, <3>1 DEF Report, Submitted, Answered
    <2> QED
      BY <1>1, <2>1, <2>2 DEF dfu_state_upload_idle
  <1>2. ~(state = "IDLE" /\ dfu_state_idle(req, len))
    BY DEF dfu_state_idle, Report, UploadBlock
  <1>3. ~(state = "DOWNLOAD_SYNC" /\ dfu_state_download_sync(req))
    BY DEF dfu_state_download_sync, Report, AfterSync
  <1>4. ~(state = "DOWNLOAD_BUSY" /\ dfu_state_download_busy(req))
    BY DEF dfu_state_download_busy
  <1>5. ~(state = "DOWNLOAD_IDLE" /\ dfu_state_download_idle(req, len))
    BY DEF dfu_state_download_idle, Report
  <1>6. ~(state = "MANIFEST_SYNC" /\ dfu_state_manifest_sync(req))
    BY DEF dfu_state_manifest_sync, Report, AfterManifest
  <1>7. ~(state = "MANIFEST" /\ dfu_state_manifest(req))
    BY DEF dfu_state_manifest
  <1>8. ~(state = "ERROR" /\ dfu_state_error(req))
    BY DEF dfu_state_error, Report
  <1> QED
    BY <1>1, <1>2, <1>3, <1>4, <1>5, <1>6, <1>7, <1>8 DEF dfu_state_machine

LEMMA SetupCounts ==
    ASSUME UploadCounted, Setup
    PROVE  UploadCounted'
  <1>1. pending = "none" /\ (state = "UPLOAD_IDLE" => received = transmit_count)
    BY DEF Setup, UploadCounted
  <1>2. ASSUME NEW req, NEW len, dfu_state_machine(req, len),
               req # "UPLOAD" \/ len = 0, UNCHANGED received
        PROVE  UploadCounted'
    BY <1>1, <1>2, OtherRequest DEF UploadCounted
  <1>3. CASE HostDownload
    BY <1>2, <1>3 DEF HostDownload
  <1>4. CASE HostRequest
    BY <1>2, <1>4 DEF HostRequest, hostVars
  <1>5. CASE HostUpload
    <2>1. PICK len \in 0 .. TRANSFER_SIZE :
              /\ dfu_state_machine("UPLOAD", len)
              /\ len = 0 \/ state \in {"IDLE", "UPLOAD_IDLE"}
      BY <1>5, SizeFacts DEF HostUpload
    <2>2. received' = IF state = "IDLE" THEN 0 ELSE received
      BY <1>5 DEF HostUpload
    <2>3. CASE len = 0
      <3>1. CASE state' = "UPLOAD_IDLE"
        BY <1>1, <2>1, <2>2, <2>3, <3>1, OtherRequest DEF UploadCounted
      <3> QED
        BY <3>1 DEF UploadCounted
    <2>4. CASE state = "IDLE" /\ len # 0
      <3>1. dfu_state_idle("UPLOAD", len)
        BY <2>1, <2>4 DEF dfu_state_machine
      <3>2. dfu_upload_start(len)
        BY <2>4, <3>1 DEF dfu_state_idle, Report, Refuse, DfuRequest
      <3> QED
        BY <2>2, <2>4, <3>2, BlockCounted DEF dfu_upload_start
    <2>5. CASE state = "UPLOAD_IDLE" /\ len # 0
      <3>1. dfu_state_upload_idle("UPLOAD", len)
        BY <2>1, <2>5 DEF dfu_state_machine
      <3>2. dfu_upload(len)
        BY <2>5, <3>1 DEF dfu_state_upload_idle, Report, Refuse
      <3> QED
        BY <1>1, <2>2, <2>5, <3>2, BlockCounted DEF dfu_upload
    <2> QED
      BY <2>1, <2>3, <2>4, <2>5
  <1> QED
    BY <1>3, <1>4, <1>5 DEF Setup

LEMMA CallbackCounts ==
    ASSUME UploadCounted, usb_util_endpoint_callback
    PROVE  UploadCounted'
  <1>1. ASSUME NEW error \in BOOLEAN, dfu_sent_callback(error), UNCHANGED transmit_count,
               ~error => received' = IF pending = "dfu_upload_callback"
                                     THEN Word(received + req_len) ELSE received
        PROVE  UploadCounted'
    BY <1>1 DEF dfu_sent_callback, Fail, usb_util_ack, Answered, dfuVars, UploadCounted
  <1>2. CASE DataArrives \/ (TransferFails /\ pending = "dfu_download")
    <2>1. PICK n : dfu_download(n)
      BY <1>2 DEF DataArrives, TransferFails
    <2>2. state' \in {state, "ERROR"} /\ pending' = "none"
      BY <2>1 DEF dfu_download, dfu_download_verify_header, Fail, dfuVars,
                  usb_util_ack, Answered
    <2> QED
      BY <1>2, <2>2 DEF DataArrives, TransferFails, hostVars, uploadVars, UploadCounted
  <1>3. CASE ReplyTaken
    BY <1>1, <1>3 DEF ReplyTaken, hostVars, uploadVars
  <1>4. CASE BlockTaken
    BY <1>1, <1>4 DEF BlockTaken, uploadVars
  <1>5. CASE TransferFails /\ pending # "dfu_download"
    BY <1>1, <1>5 DEF TransferFails, uploadVars
  <1> QED
    BY <1>2, <1>3, <1>4, <1>5 DEF usb_util_endpoint_callback

(* Whatever transfers fail, an upload goes on where the host left off, or  *)
(* ends in an error (upload.c:28-38, 48).                                  *)
THEOREM UploadCorrect == Spec => []UploadInStep
  <1>1. Init => UploadCounted
    BY DEF Init, UploadCounted
  <1>2. UploadCounted /\ [Next]_vars => UploadCounted'
    <2> SUFFICES ASSUME UploadCounted, [Next]_vars
                 PROVE  UploadCounted'
      OBVIOUS
    <2>1. CASE MainStep
      BY <2>1, MainLeavesUploadAlone DEF UploadCounted, uploadVars, requestVars, hostVars
    <2>2. CASE usb_handler
      BY <2>2, SetupCounts, CallbackCounts DEF usb_handler
    <2>3. CASE AppEntersBootloader \/ PowerCycle
      BY <2>3 DEF AppEntersBootloader, PowerCycle, Reset, UploadCounted
    <2>4. CASE UNCHANGED vars
      BY <2>4 DEF vars, dfuVars, uploadVars, requestVars, hostVars, UploadCounted
    <2> QED
      BY <2>1, <2>2, <2>3, <2>4 DEF Next
  <1>3. UploadCounted => UploadInStep
    BY DEF UploadCounted, UploadInStep
  <1> QED
    BY <1>1, <1>2, <1>3, PTL DEF Spec

-----------------------------------------------------------------------------
(* EverySetupAnswered.                                                     *)

(* With a library that takes every transfer, a request gets an answer in   *)
(* every state of the protocol; only an UPLOAD of length 0 does not.       *)
LEMMA MachineAnswers ==
    ASSUME "usb" \notin Faults, NEW req \in DfuRequest \ {"UPLOAD"}, NEW len,
           dfu_state_machine(req, len)
    PROVE  answer' # "none"
  <1> USE DEF usb_util_ack, usb_util_stall, Answered
  <1>1. \A callback, n : dfu_read_control_data(callback, n) => answer' = "data"
    BY DEF dfu_read_control_data, SubmitResult, Submitted
  <1>2. dfu_send_reply => answer' = "data"
    BY DEF dfu_send_reply, dfu_write_control_data, SubmitResult, Submitted
  <1>3. /\ Unexpected => answer' = "stall"
        /\ \A s : Move(s) => answer' = "ack"
        /\ \A s : ReportAfter(s) => answer' = "data"
        /\ Report(req) => answer' = "data"
        /\ \A known : Refuse(req, known) => answer' = "stall"
    BY <1>2 DEF Unexpected, Move, ReportAfter, Report, Refuse
  <1>4. dfu_state_idle(req, len) => answer' # "none"
    BY <1>1, <1>3 DEF dfu_state_idle
  <1>5. dfu_state_download_idle(req, len) => answer' # "none"
    BY <1>1, <1>3 DEF dfu_state_download_idle
  <1>6. /\ dfu_state_download_sync(req) => answer' # "none"
        /\ dfu_state_download_busy(req) => answer' # "none"
        /\ dfu_state_manifest_sync(req) => answer' # "none"
        /\ dfu_state_manifest(req) => answer' # "none"
        /\ dfu_state_error(req) => answer' # "none"
    BY <1>3 DEF dfu_state_download_sync, dfu_state_download_busy, dfu_state_manifest_sync,
                dfu_state_manifest, dfu_state_error
  <1>7. dfu_state_upload_idle(req, len) => answer' # "none"
    BY <1>3 DEF dfu_state_upload_idle
  <1> QED
    BY <1>4, <1>5, <1>6, <1>7 DEF dfu_state_machine

(* No SETUP packet is left without an answer, whatever state it finds the  *)
(* device in, if the library takes every transfer and the host does not    *)
(* upload (usb.c:191, dfu.c:394-428).                                      *)
THEOREM SetupAnswered ==
    ASSUME "usb" \notin Faults, "UPLOAD" \notin HostRequests
    PROVE  Spec => EverySetupAnswered
  <1>1. Setup => answer' # "none"
    <2> SUFFICES ASSUME Setup PROVE answer' # "none"
      OBVIOUS
    <2>1. PICK req \in DfuRequest \ {"UPLOAD"} : \E len : dfu_state_machine(req, len)
      BY HostAssumption DEF Setup, HostDownload, HostUpload, HostRequest, DfuRequest
    <2>2. PICK len : dfu_state_machine(req, len)
      BY <2>1
    <2> QED
      BY <2>2, MachineAnswers
  <1> QED
    BY <1>1, PTL DEF EverySetupAnswered

-----------------------------------------------------------------------------
(* WorkShrinks.                                                            *)

LEMMA WorkInFlush ==
    ASSUME MainOK, dfu_download_busy
    PROVE  WorkLeft' < WorkLeft
  <1>1. windex \in 0 .. PAGE_SIZE /\ PAGE_SIZE \in Nat
    BY SizeFacts DEF MainOK
  <1>2. CASE BusyErase
    BY <1>1, <1>2 DEF BusyErase, CallErase, WorkLeft
  <1>3. CASE BusyErased
    BY <1>1, <1>3 DEF BusyErased, CallProgram, WorkLeft
  <1>4. CASE BusyProgrammed
    BY <1>1, <1>4 DEF BusyProgrammed, ProgramSucceeds, WorkLeft
  <1>5. CASE BusyNextPage
    BY <1>5 DEF BusyNextPage, BusyAdvance, BusyCarry, BusyCount, BusyEmpty, BusyFlushed,
                WorkLeft
  <1>6. CASE BusyPublish
    BY <1>6 DEF BusyPublish, Return, WorkLeft
  <1> QED
    BY <1>2, <1>3, <1>4, <1>5, <1>6 DEF dfu_download_busy

LEMMA WorkInManifest ==
    ASSUME MainOK, dfu_download_manifest
    PROVE  WorkLeft' < WorkLeft
  <1>1. windex \in 0 .. PAGE_SIZE /\ PAGE_SIZE \in Nat
    BY SizeFacts DEF MainOK
  <1>2. CASE ManifestFirst
    BY <1>1, <1>2 DEF ManifestFirst, CallErase, WorkLeft
  <1>3. CASE ManifestFirstErased
    BY <1>1, <1>3 DEF ManifestFirstErased, WorkLeft
  <1>4. CASE ManifestTail
    BY <1>1, <1>4, SizeFacts DEF ManifestTail, CallErase, CallProgram, WorkLeft
  <1>5. CASE ManifestTailErased
    BY <1>1, <1>5 DEF ManifestTailErased, CallProgram, WorkLeft
  <1>6. CASE ManifestTailProgrammed
    BY <1>1, <1>6 DEF ManifestTailProgrammed, ProgramSucceeds, CallProgram, WorkLeft
  <1>7. CASE ManifestFirstProgrammed
    BY <1>1, <1>7 DEF ManifestFirstProgrammed, ProgramSucceeds, WorkLeft
  <1>8. CASE ManifestPublish
    BY <1>8 DEF ManifestPublish, Return, WorkLeft
  <1> QED
    BY <1>2, <1>3, <1>4, <1>5, <1>6, <1>7, <1>8 DEF dfu_download_manifest

LEMMA WorkInFlashControl ==
    ASSUME MainOK, FlashControlStep
    PROVE  WorkLeft' < WorkLeft
  <1>1. windex \in 0 .. PAGE_SIZE /\ PAGE_SIZE \in Nat
    BY SizeFacts DEF MainOK
  <1>2. CASE FlashProgramCell
    BY <1>1, <1>2 DEF FlashProgramCell, Programming, ProgramCell, WorkLeft
  <1>3. CASE FlashEraseFails \/ FlashProgramFails
    <2>1. WorkLeft' = 0
      BY <1>3 DEF FlashEraseFails, FlashProgramFails, Return, WorkLeft
    <2>2. pc \in {"busyErase", "firstErase", "tailErase",
                  "busyProgram", "tailProgram", "firstProgram"}
      BY <1>3 DEF FlashEraseFails, FlashProgramFails, Programming
    <2>3. WorkLeft > 0
      BY <1>1, <2>2 DEF WorkLeft
    <2> QED
      BY <2>1, <2>3
  <1> QED
    BY <1>2, <1>3 DEF FlashControlStep

(* Every step of the main loop on a page brings it nearer to its end, for  *)
(* pages of every size, and no interrupt sets it back: the host can be     *)
(* given a constant to wait (dfu.c:214, 299).                              *)
THEOREM WorkShrinksCorrect == Spec => WorkShrinks
  <1> DEFINE Shrinks ==
          WorkLeft > 0 => WorkLeft' < WorkLeft \/ (usb_handler /\ UNCHANGED mainVars)
  <1>1. ASSUME TypeOK, Next
        PROVE  Shrinks
    <2> SUFFICES ASSUME WorkLeft > 0
                 PROVE  WorkLeft' < WorkLeft \/ (usb_handler /\ UNCHANGED mainVars)
      OBVIOUS
    <2>1. MainOK
      BY <1>1 DEF TypeOK
    <2>2. CASE DownloadStep
      BY <2>1, <2>2, WorkInFlush, WorkInManifest, WorkInFlashControl DEF DownloadStep
    <2>3. CASE main \/ dfu_poll_state
      <3>1. pc \in {"reset", "poll"}
        BY <2>3 DEF main, Dead, StartApp, EnterDfu, dfu_poll_state
      <3> QED
        BY <3>1 DEF WorkLeft
    <2>4. CASE jump \/ AppEntersBootloader \/ PowerCycle
      <3>1. WorkLeft' = 0
        BY <2>4 DEF jump, AppEntersBootloader, PowerCycle, Reset, WorkLeft
      <3> QED
        BY <3>1
    <2>5. CASE usb_handler
      BY <2>5 DEF usb_handler, Setup, usb_util_endpoint_callback
    <2> QED
      BY <1>1, <2>2, <2>3, <2>4, <2>5 DEF Next, MainStep
  <1>2. TypeOK /\ [Next]_vars => [Shrinks]_vars
    BY <1>1
  <1> QED
    BY <1>2, TypeCorrect, PTL DEF Spec, WorkShrinks

=============================================================================
