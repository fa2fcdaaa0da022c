-------------------------------- MODULE Dfu --------------------------------
(***************************************************************************)
(* dfu.c: the DFU state machine.  dfu_state_machine runs in the USB        *)
(* interrupt once for every class request; the handlers below are one per  *)
(* value of dfu_state.state, with one disjunct per request.  The callbacks *)
(* of the transfers the handlers start run in later interrupts.            *)
(***************************************************************************)
EXTENDS DfuUpload

CONSTANTS
    Offered,        \* the files the host downloads, a subset of File
    HostRequests    \* the requests the host makes, a subset of DfuRequest

ASSUME HostAssumption == Offered \subseteq File /\ HostRequests \subseteq DfuRequest

-----------------------------------------------------------------------------

(* The response to a request a state has no case for.                      *)
Unexpected ==
    /\ Fail("ERROR_STALLED_PACKET") /\ usb_util_stall
    /\ UNCHANGED <<downloadVars, uploadVars>>

Refuse(req, known) == req \notin known /\ Unexpected

(* GET_STATUS and GET_STATE, where they leave the state alone.             *)
Report(req) ==
    /\ req \in {"GET_STATUS", "GET_STATE"}
    /\ dfu_send_reply
    /\ UNCHANGED <<dfuVars, downloadVars, uploadVars>>

(* Mutant of Move: the acknowledgement is forgotten.                       *)
MoveUnanswered(s) ==
    Enter(s) /\ Answered("none") /\ UNCHANGED <<downloadVars, uploadVars>>

(* A request that only moves to another state.                             *)
Move(s) == Enter(s) /\ usb_util_ack /\ UNCHANGED <<downloadVars, uploadVars>>

(* GET_STATUS, where it moves on to s and reports s.                       *)
ReportAfter(s) ==
    Enter(s) /\ dfu_send_reply /\ UNCHANGED <<downloadVars, uploadVars>>

(* Mutant of DetachAllowed: dirty is not looked at.                        *)
DetachAlways == TRUE

(* Leaving is refused once the flash has been written to.                  *)
DetachAllowed == ~dirty

dfu_state_idle(req, len) ==
    \/ /\ req = "DOWNLOAD" /\ len > 0
       /\ dfu_download_start
       /\ Enter("DOWNLOAD_SYNC")
       /\ dfu_read_control_data("dfu_download", len)
       /\ UNCHANGED uploadVars
    \/ /\ req = "UPLOAD" /\ len > 0
       /\ dfu_upload_start(len)
       /\ UNCHANGED downloadVars
    \/ req \in {"DOWNLOAD", "UPLOAD"} /\ len = 0 /\ Unexpected
    \/ /\ req = "ABORT"
       /\ usb_util_ack
       /\ UNCHANGED <<dfuVars, downloadVars, uploadVars>>
    \/ Report(req)
    \/ req = "DETACH" /\ DetachAllowed /\ Move("DETACH")
    \/ /\ req = "DETACH" /\ ~DetachAllowed
       /\ Fail("ERROR_FIRMWARE") /\ usb_util_stall
       /\ UNCHANGED <<downloadVars, uploadVars>>
    \/ Refuse(req, DfuRequest \ {"CLEAR_STATUS"})

(* Where GET_STATUS leads from DOWNLOAD_SYNC.                              *)
AfterSync == IF page_waiting_to_flush THEN "DOWNLOAD_BUSY" ELSE "DOWNLOAD_IDLE"

dfu_state_download_sync(req) ==
    \/ req = "GET_STATUS" /\ ReportAfter(AfterSync)
    \/ req = "GET_STATE" /\ Report(req)
    \/ Refuse(req, {"GET_STATUS", "GET_STATE"})

dfu_state_download_busy(req) == Refuse(req, {})

(* A block of data is answered by the read; the result of the read is not  *)
(* looked at.                                                              *)
dfu_state_download_idle(req, len) ==
    \/ /\ req = "DOWNLOAD" /\ len > 0
       /\ dfu_read_control_data("dfu_download", len)
       /\ Enter("DOWNLOAD_SYNC")
       /\ UNCHANGED <<downloadVars, uploadVars>>
    \/ /\ req = "DOWNLOAD" /\ len = 0
       /\ IF dfu_download_check_done = "OK" THEN Enter("MANIFEST_SYNC")
                                            ELSE Fail(dfu_download_check_done)
       /\ usb_util_ack
       /\ UNCHANGED <<downloadVars, uploadVars>>
    \/ req = "ABORT" /\ Move("IDLE")
    \/ Report(req)
    \/ Refuse(req, {"DOWNLOAD", "ABORT", "GET_STATUS", "GET_STATE"})

(* Mutant of AfterManifest: done is not looked at.                         *)
AfterManifestAtOnce == "IDLE"

AfterManifest == IF done THEN "IDLE" ELSE "MANIFEST"

dfu_state_manifest_sync(req) ==
    \/ req = "GET_STATUS" /\ ReportAfter(AfterManifest)
    \/ req = "GET_STATE" /\ Report(req)
    \/ Refuse(req, {"GET_STATUS", "GET_STATE"})

dfu_state_manifest(req) == Refuse(req, {})

(* An UPLOAD of length 0 is neither acknowledged nor stalled.              *)
dfu_state_upload_idle(req, len) ==
    \/ /\ req = "UPLOAD" /\ len > 0
       /\ dfu_upload(len)
       /\ UNCHANGED downloadVars
    \/ /\ req = "UPLOAD" /\ len = 0
       /\ Answered("none")
       /\ UNCHANGED <<dfuVars, downloadVars, uploadVars>>
    \/ req = "ABORT" /\ Move("IDLE")
    \/ Report(req)
    \/ Refuse(req, {"UPLOAD", "ABORT", "GET_STATUS", "GET_STATE"})

dfu_state_error(req) ==
    \/ Report(req)
    \/ req = "CLEAR_STATUS" /\ Move("IDLE")
    \/ Refuse(req, {"GET_STATUS", "GET_STATE", "CLEAR_STATUS"})

(* The state machine has no case for DETACH.                               *)
dfu_state_machine(req, len) ==
    \/ state = "IDLE"          /\ dfu_state_idle(req, len)
    \/ state = "DOWNLOAD_SYNC" /\ dfu_state_download_sync(req)
    \/ state = "DOWNLOAD_BUSY" /\ dfu_state_download_busy(req)
    \/ state = "DOWNLOAD_IDLE" /\ dfu_state_download_idle(req, len)
    \/ state = "MANIFEST_SYNC" /\ dfu_state_manifest_sync(req)
    \/ state = "MANIFEST"      /\ dfu_state_manifest(req)
    \/ state = "UPLOAD_IDLE"   /\ dfu_state_upload_idle(req, len)
    \/ state = "ERROR"         /\ dfu_state_error(req)
    \/ /\ state \in {"APP_IDLE", "DETACH"}
       /\ usb_util_stall
       /\ UNCHANGED <<dfuVars, downloadVars, uploadVars>>

-----------------------------------------------------------------------------
(* The host.                                                               *)

Connected == pc \notin {"reset", "app", "dead"}

(* A host that keeps to the DFU protocol waits for bwPollTimeout, taken to *)
(* be long enough, before it says anything to a device that is busy.       *)
HostMayTalk ==
    \/ "early" \in Faults
    \/ pc \in {"poll", "stop"} /\ state \notin {"DOWNLOAD_BUSY", "MANIFEST"}

BlockLength(f, offset) ==
    {n \in 1 .. TRANSFER_SIZE : offset + n <= FileSize[f]}

(* Where in its file the host goes on: behind what it has sent or, if it   *)
(* believes its last block lost, one block earlier.  The block number it   *)
(* counts by is in wValue, which nobody looks at.                          *)
NextOffset ==
    IF "repeat" \in Faults
    THEN {sent, IF sent > TRANSFER_SIZE THEN sent - TRANSFER_SIZE ELSE 0}
    ELSE {sent}

(* A SETUP packet: req and wLength, where the handler looks at it.  The    *)
(* host begins a download with any of its files, sends the blocks of the   *)
(* file in order, and ends the download when it likes.                     *)
HostDownload ==
    /\ "DOWNLOAD" \in HostRequests
    /\ \/ /\ state = "IDLE"
          /\ \E f \in Offered : \E len \in BlockLength(f, 0) :
                 file' = f /\ sent' = 0 /\ dfu_state_machine("DOWNLOAD", len)
       \/ /\ state = "DOWNLOAD_IDLE"
          /\ \E offset \in NextOffset : \E len \in BlockLength(file, offset) :
                 sent' = offset /\ dfu_state_machine("DOWNLOAD", len)
          /\ UNCHANGED file
       \/ dfu_state_machine("DOWNLOAD", 0) /\ UNCHANGED <<file, sent>>
    /\ UNCHANGED received

HostUpload ==
    /\ "UPLOAD" \in HostRequests
    /\ \E len \in IF state \in {"IDLE", "UPLOAD_IDLE"} THEN 0 .. TRANSFER_SIZE ELSE {0} :
           dfu_state_machine("UPLOAD", len)
    /\ received' = IF state = "IDLE" THEN 0 ELSE received
    /\ UNCHANGED <<file, sent>>

HostRequest ==
    /\ \E req \in HostRequests \ {"DOWNLOAD", "UPLOAD"} : dfu_state_machine(req, 0)
    /\ UNCHANGED hostVars

Setup ==
    /\ Connected /\ HostMayTalk /\ pending = "none"
    /\ HostDownload \/ HostUpload \/ HostRequest
    /\ UNCHANGED <<dirty, flash, mainVars>>

-----------------------------------------------------------------------------
(* usb_util_endpoint_callback: the transfer has ended, and the callback of *)
(* the request is called with the length and the status of it.             *)

DataArrives ==
    /\ pending = "dfu_download"
    /\ dfu_download(req_len)
    /\ sent' = sent + req_len
    /\ UNCHANGED <<uploadVars, file, received>>

ReplyTaken ==
    /\ pending = "dfu_send_state_status_callback"
    /\ dfu_sent_callback(FALSE)
    /\ UNCHANGED <<downloadVars, uploadVars, hostVars>>

BlockTaken ==
    /\ pending = "dfu_upload_callback"
    /\ dfu_sent_callback(FALSE)
    /\ received' = Word(received + req_len)
    /\ UNCHANGED <<downloadVars, uploadVars, file, sent>>

(* The transfer has failed: nothing has been transferred.  dfu_download    *)
(* does not look at the status, the other two callbacks do.                *)
TransferFails ==
    /\ "usb" \in Faults
    /\ \/ pending = "dfu_download" /\ dfu_download(0)
       \/ /\ pending \in {"dfu_send_state_status_callback", "dfu_upload_callback"}
          /\ dfu_sent_callback(TRUE)
          /\ UNCHANGED downloadVars
    /\ UNCHANGED <<uploadVars, hostVars>>

usb_util_endpoint_callback ==
    /\ Connected
    /\ DataArrives \/ ReplyTaken \/ BlockTaken \/ TransferFails
    /\ UNCHANGED <<dirty, flash, mainVars>>

(* An interrupt of the USB peripheral.                                     *)
usb_handler == Setup \/ usb_util_endpoint_callback

=============================================================================
