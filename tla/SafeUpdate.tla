----------------------------- MODULE SafeUpdate -----------------------------
(***************************************************************************)
(* What a field update promises, without pages, buffers or packets.  A     *)
(* region of the flash holds a whole image or none.  The host offers one   *)
(* file at a time; the device gives up the image of the region the file is *)
(* for, and no other, before the file takes its place, and what takes its  *)
(* place is that file.  A device that restarts runs the application only   *)
(* if it has a whole one, and is lost only if it has no whole bootloader.  *)
(***************************************************************************)
CONSTANTS
    File, NoFile,
    Region,           \* "bootloader" and "app"
    Target            \* the region each file is for; not a region if the
                      \* device has to refuse the file

VARIABLES
    image,            \* what each region holds
    offer,            \* the file the host is downloading
    mode              \* what runs: "reset", "dfu", "app", "dead"

vars == <<image, offer, mode>>

Init ==
    /\ image \in [Region -> File \cup {NoFile}]
    /\ offer = NoFile
    /\ mode = "reset"

Offer ==
    /\ mode = "dfu"
    /\ offer' \in File
    /\ UNCHANGED <<image, mode>>

Becomes(f) ==
    /\ mode = "dfu" /\ offer # NoFile /\ Target[offer] \in Region
    /\ image' = [image EXCEPT ![Target[offer]] = f]
    /\ UNCHANGED <<offer, mode>>

GiveUp == Becomes(NoFile)

Commit == Becomes(offer) /\ image[Target[offer]] = NoFile

(* "dfu" is always a choice: the application, or noise in the RAM at power *)
(* up, may have asked for it.                                              *)
Start ==
    /\ mode = "reset"
    /\ mode' \in IF image["bootloader"] = NoFile THEN {"dead"}
                 ELSE {"dfu"} \cup IF image["app"] = NoFile THEN {} ELSE {"app"}
    /\ UNCHANGED <<image, offer>>

Restart == mode' = "reset" /\ offer' = NoFile /\ UNCHANGED image

Next == Offer \/ GiveUp \/ Commit \/ Start \/ Restart

Spec == Init /\ [][Next]_vars

=============================================================================
