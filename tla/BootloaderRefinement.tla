------------------------ MODULE BootloaderRefinement ------------------------
(***************************************************************************)
(* The bootloader keeps the promise of SafeUpdate, for a host that waits   *)
(* while the device is busy, through failing transfers, a failing flash    *)
(* and a failing supply.                                                   *)
(***************************************************************************)
EXTENDS BootloaderProperties

FileTarget ==
    [f \in File |->
        LET h == FileHeader[f]
        IN  CASE h.magic /\ h.start = BOOTLOADER_START                        -> "bootloader"
              [] h.magic /\ h.start = APP_START /\ APP_START # BOOTLOADER_START -> "app"
              [] OTHER                                                       -> "none"]

Abstract == INSTANCE SafeUpdate WITH
    Region <- {"bootloader", "app"},
    Target <- FileTarget,
    image  <- [r \in {"bootloader", "app"} |->
                  FileAt(IF r = "app" THEN APP_START ELSE BOOTLOADER_START)],
    offer  <- file,
    mode   <- IF Connected THEN "dfu" ELSE pc

(* Every step of the device is a step of SafeUpdate or changes nothing     *)
(* there: an update replaces one image by the offered one and leaves the   *)
(* other alone (download.c, main.c).                                       *)
ImplementsSafeUpdate == Abstract!Spec

=============================================================================
