----------------------------- MODULE DfuDevice -----------------------------
(***************************************************************************)
(* struct dfu, the state the USB interrupt and the main loop share, and    *)
(* the control endpoint through which the class requests are answered      *)
(* (dfu_read_control_data, dfu_write_control_data, usb/util.c).            *)
(*                                                                         *)
(* The Maxim USB library is outside the repository.  From the way the code *)
(* uses it: it takes one request at a time, calls the request's callback   *)
(* from a later interrupt with the number of bytes transferred and an      *)
(* error code, and a new SETUP packet ends the transfer in progress first. *)
(***************************************************************************)
EXTENDS FlashControl

VARIABLES
    state, status, dirty,           \* struct dfu
    page, first_page, overflow,     \* struct dfu_download: the buffers
    count, page_count, overflow_count, page_waiting_to_flush,
    done, image_info,
    total_len, transmit_count,      \* struct dfu_upload
    pending, req_len,               \* callback and length of dfu.request
    answer,                         \* what became of the last SETUP packet
    file, sent, received            \* the host: the file it downloads, the
                                    \* cells of it the device has been given,
                                    \* and the cells it has uploaded (as a
                                    \* 32-bit count)

dfuVars == <<state, status>>
downloadVars == <<page, first_page, overflow, count, page_count, overflow_count,
                  page_waiting_to_flush, done, image_info>>
uploadVars == <<total_len, transmit_count>>
requestVars == <<pending, req_len, answer>>
hostVars == <<file, sent, received>>

DfuState == {"APP_IDLE", "IDLE", "DOWNLOAD_SYNC", "DOWNLOAD_BUSY", "DOWNLOAD_IDLE",
             "MANIFEST_SYNC", "MANIFEST", "UPLOAD_IDLE", "ERROR", "DETACH"}

DfuStatus == {"OK", "ERROR_TARGET", "ERROR_FILE", "ERROR_ERASE", "ERROR_CHECK_ERASED",
              "ERROR_PROGRAM", "ERROR_VERIFY", "ERROR_NOT_DONE", "ERROR_FIRMWARE",
              "ERROR_UNKNOWN", "ERROR_STALLED_PACKET"}

DfuRequest == {"DETACH", "DOWNLOAD", "UPLOAD", "GET_STATUS", "CLEAR_STATUS",
               "GET_STATE", "ABORT"}

Callback == {"dfu_download", "dfu_send_state_status_callback", "dfu_upload_callback"}

-----------------------------------------------------------------------------

Enter(s) == state' = s /\ status' = "OK"

Fail(error) == state' = "ERROR" /\ status' = error

Answered(how) == answer' = how /\ pending' = "none" /\ req_len' = 0

usb_util_ack == Answered("ack")

usb_util_stall == Answered("stall")

(* MXC_USB_ReadEndpoint and MXC_USB_WriteEndpoint take the request (ok) or *)
(* return an error, in which case nothing is answered.                     *)
Submitted(callback, len, ok) ==
    IF ok
    THEN pending' = callback /\ req_len' = len /\ answer' = "data"
    ELSE Answered("none")

SubmitResult == IF "usb" \in Faults THEN BOOLEAN ELSE {TRUE}

dfu_read_control_data(callback, len) ==
    \E ok \in SubmitResult : Submitted(callback, len, ok)

dfu_write_control_data(callback, len, ok) == Submitted(callback, len, ok)

(* dfu_send_status and dfu_send_state: the reply is a copy of state and    *)
(* status taken here.  The callers do not look at the result.              *)
dfu_send_reply ==
    \E ok \in SubmitResult :
        dfu_write_control_data("dfu_send_state_status_callback", 1, ok)

(* Mutant of dfu_sent_callback: the status is not looked at.               *)
SentWhateverHappened(error) == UNCHANGED dfuVars /\ usb_util_ack

(* dfu_send_state_status_callback and dfu_upload_callback are the same:    *)
(* error is the request's status.                                          *)
dfu_sent_callback(error) ==
    IF error
    THEN Fail("ERROR_UNKNOWN") /\ usb_util_stall
    ELSE UNCHANGED dfuVars /\ usb_util_ack

=============================================================================
