----------------------------- MODULE DfuUpload -----------------------------
(***************************************************************************)
(* upload.c: the host reads the flash back, from the start of the          *)
(* bootloader to the end of the application, one block per request, each   *)
(* transferred by the USB interrupt straight from the flash.               *)
(***************************************************************************)
EXTENDS DfuDownload

(* Mutant of UploadLength: the end of the image is not looked at.          *)
UploadUnclamped(total, transmitted, len) == len

(* How much of the len cells asked for is sent.                            *)
UploadLength(total, transmitted, len) ==
    IF total < Word(transmitted + len) THEN total - transmitted ELSE len

(* transmit_count moves on before the transfer, and whether or not the     *)
(* library takes the request.                                              *)
UploadBlock(total, transmitted, len) ==
    LET n == UploadLength(total, transmitted, len)
    IN  /\ total_len' = total
        /\ transmit_count' = Word(transmitted + n)
        /\ \E ok \in SubmitResult :
               IF ok
               THEN /\ dfu_write_control_data("dfu_upload_callback", n, TRUE)
                    /\ Enter("UPLOAD_IDLE")
               ELSE usb_util_stall /\ Fail("ERROR_UNKNOWN")

dfu_upload(len) == UploadBlock(total_len, transmit_count, len)

(* The bootloader and the application if there is one, else the bootloader.*)
dfu_upload_start(len) ==
    LET app == FlashHeader(APP_START)
    IN  UploadBlock(IF app.magic THEN Word(BOOTLOADER_SIZE + app.length)
                                 ELSE FlashHeader(BOOTLOADER_START).length, 0, len)

=============================================================================
