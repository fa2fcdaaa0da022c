------------------------------ MODULE Recovery ------------------------------
(***************************************************************************)
(* What becomes of the device after trouble.  For a while anything goes:   *)
(* every fault of the constant Faults and any host.  Then comes calm: the  *)
(* supply, the transfers and the flash work, and a patient host takes the  *)
(* device as it finds it, brings it back to dfuIDLE, downloads a file from *)
(* its beginning and detaches the device when it is done.                  *)
(***************************************************************************)
EXTENDS BootloaderProperties, FiniteSetsExt

CONSTANT Wanted      \* the file the patient host installs

ASSUME WantedAssumption == Wanted \in Offered

VARIABLES
    calm,            \* the trouble is over
    session          \* the patient host: "none", "sending" or "complete"

recoveryVars == <<vars, calm, session>>

-----------------------------------------------------------------------------
(* The device.                                                             *)

Erasing == pc \in {"busyErase", "firstErase", "tailErase"}

(* The flash does what it is told; what it has refused or garbled before   *)
(* stays as it is.                                                         *)
FlashSound ==
    /\ Erasing' /\ ~Erasing => PageOf(address') = {} \/ EraseUnderWay(address)'
    /\ Erasing /\ EraseUnderWay(address) => pc' # "poll"
    /\ Programming /\ windex < PAGE_SIZE /\ ProgramTarget \in FlashAddress =>
           /\ windex' = windex + 1
           /\ flash' = [flash EXCEPT ![ProgramTarget] = Programmed(@, ProgramBuffer[windex])]

(* A step of the main loop.  The host forgets its session with a device    *)
(* that is gone.                                                           *)
MainRuns ==
    /\ MainStep
    /\ calm => FlashSound
    /\ session' = IF Connected' THEN session ELSE "none"
    /\ UNCHANGED calm

Trouble ==
    /\ ~calm
    /\ (usb_handler /\ UNCHANGED magic) \/ AppEntersBootloader \/ PowerCycle
    /\ UNCHANGED <<calm, session>>

CalmDown ==
    /\ ~calm /\ calm' = TRUE
    /\ UNCHANGED <<vars, session>>

-----------------------------------------------------------------------------
(* The patient host, by the state the device is in.                        *)

PatientRequest(req) ==
    dfu_state_machine(req, 0) /\ UNCHANGED <<file, sent>>

PatientBlock(len) ==
    len > 0 /\ dfu_state_machine("DOWNLOAD", len) /\ session' = "sending"

PatientBegin ==
    /\ state = "IDLE" /\ session # "complete"
    /\ file' = Wanted /\ sent' = 0
    /\ PatientBlock(Min({TRANSFER_SIZE, FileSize[Wanted]}))

PatientGoOn ==
    /\ state = "DOWNLOAD_IDLE" /\ session = "sending"
    /\ PatientBlock(Min({TRANSFER_SIZE, FileSize[Wanted] - sent}))
    /\ UNCHANGED <<file, sent>>

PatientEnd ==
    /\ state = "DOWNLOAD_IDLE" /\ session = "sending" /\ sent = FileSize[Wanted]
    /\ PatientRequest("DOWNLOAD") /\ UNCHANGED session

PatientStatus ==
    /\ state \in {"DOWNLOAD_SYNC", "MANIFEST_SYNC"}
    /\ PatientRequest("GET_STATUS")
    /\ session' = IF state' = "IDLE" /\ session = "sending" THEN "complete" ELSE session

(* What an earlier host has begun is given up.                             *)
PatientAbort ==
    /\ session # "sending" /\ state \in {"DOWNLOAD_IDLE", "UPLOAD_IDLE"}
    /\ PatientRequest("ABORT") /\ UNCHANGED session

PatientClear ==
    /\ state = "ERROR"
    /\ PatientRequest("CLEAR_STATUS") /\ session' = "none"

PatientDetach ==
    /\ state = "IDLE" /\ session = "complete"
    /\ PatientRequest("DETACH") /\ UNCHANGED session

Patient ==
    /\ calm /\ Connected /\ pending = "none"
    /\ pc \in {"poll", "stop"} /\ state \notin {"DOWNLOAD_BUSY", "MANIFEST"}
    /\ \/ PatientBegin \/ PatientGoOn \/ PatientEnd \/ PatientStatus
       \/ PatientAbort \/ PatientClear \/ PatientDetach
    /\ answer' # "none"
    /\ UNCHANGED <<calm, received, dirty, flash, mainVars, magic>>

CalmTransfer ==
    /\ calm /\ Connected
    /\ DataArrives \/ ReplyTaken \/ BlockTaken
    /\ UNCHANGED <<calm, session, dirty, flash, mainVars, magic>>

-----------------------------------------------------------------------------

RecoveryInit == Init /\ calm = FALSE /\ session = "none"

RecoveryNext == MainRuns \/ Trouble \/ CalmDown \/ Patient \/ CalmTransfer

(* The main loop runs whenever it can: interrupts are short, and the flash *)
(* controller ends what it has begun.  Once it is calm, a transfer that    *)
(* has begun ends, and the patient host does not go away.  It need never   *)
(* become calm.                                                            *)
RecoverySpec ==
    /\ RecoveryInit /\ [][RecoveryNext]_recoveryVars
    /\ WF_recoveryVars(MainRuns)
    /\ WF_recoveryVars(Patient)
    /\ WF_recoveryVars(CalmTransfer)

(* Whatever the flash, the bus, the supply and the hosts before did, and   *)
(* wherever they left the device, a patient host installs its application, *)
(* and the device starts it unless the application has asked for the       *)
(* bootloader: there is no state, error or leftover of an earlier download *)
(* that a host cannot get the device out of (dfu.c, download.c, main.c).   *)
UpdateCompletes ==
    calm ~> FileAt(APP_START) = Wanted /\ (pc = "app" \/ magic)

=============================================================================
