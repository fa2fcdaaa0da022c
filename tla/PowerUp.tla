------------------------------ MODULE PowerUp ------------------------------
(***************************************************************************)
(* From the supply coming up to the next program: the reset handler, main  *)
(* (main.c) with the initialisation of the USB layer and of DFU, the poll  *)
(* loop with the USB interrupt, and the two jumps.  What DFU does is cut   *)
(* down to what matters to the processor: an update of the bootloader      *)
(* under the program's feet, and the one flag, dirty, that updates of both *)
(* regions set and clear and DETACH looks at.  The modules from            *)
(* FlashControl to Bootloader have the rest.                               *)
(***************************************************************************)
EXTENDS UsbDevice

VARIABLES
    dfu,      \* dfu_state.state: "IDLE", "BUSY" (the main loop has to flush),
              \* "DETACH", or what the RAM held before dfu_init
    dirty     \* dfu_state.dirty

powerVars == <<pc, startupVars, libraryVars, listVars, plugged, dfu, dirty>>

-----------------------------------------------------------------------------

PowerInit ==
    /\ boot = "whole" /\ pc = ResetVector
    /\ data = "none" /\ table = [e \in Exception |-> Garbage]
    /\ vtor = "flash" /\ masked = TRUE /\ enabled = {}
    /\ library = "down" /\ registered = {} /\ events = {} /\ latched = {}
    /\ connected = FALSE /\ configured = FALSE
    /\ head = GarbageLists /\ next = [cb \in EnumCallback |-> Garbage]
    /\ plugged \in BOOLEAN
    /\ dfu = Garbage /\ dirty \in BOOLEAN

(* The supply fails and comes back.                                        *)
PowerCycle ==
    /\ PowerOn /\ LibraryDown
    /\ head' = GarbageLists /\ next' = [cb \in EnumCallback |-> Garbage]
    /\ plugged' \in BOOLEAN
    /\ dfu' = Garbage /\ dirty' \in BOOLEAN

-----------------------------------------------------------------------------
(* Startup, and what it does to the variables of the program: next is in   *)
(* .data, head, dfu and dirty are in .bss.                                 *)

BssAfter(old, zero) == IF pc = "bss" THEN zero ELSE old

StartupStep ==
    /\ flash_reset_handler
    /\ head' = BssAfter(head, ZeroLists)
    /\ dfu' = BssAfter(dfu, "APP_IDLE") /\ dirty' = BssAfter(dirty, FALSE)
    /\ next' = IF pc = "copying" THEN LoadedNext ELSE next
    /\ UNCHANGED <<libraryVars, plugged>>

-----------------------------------------------------------------------------
(* main                                                                    *)

(* The order of the calls that lead to the poll loop.  Mutant of MainNext: *)
(* the interrupt is enabled first.                                         *)
MainStartsFirst ==
    [usb_init |-> "usb_start", usb_start |-> "dfu_init",
     dfu_init |-> "dfu_class_req_callback",
     dfu_class_req_callback |-> "dfu_set_config_callback",
     dfu_set_config_callback |-> "dfu_set_interface_callback",
     dfu_set_interface_callback |-> "poll"]

MainNext ==
    [usb_init |-> "dfu_init",
     dfu_init |-> "dfu_class_req_callback",
     dfu_class_req_callback |-> "dfu_set_config_callback",
     dfu_set_config_callback |-> "dfu_set_interface_callback",
     dfu_set_interface_callback |-> "usb_start",
     usb_start |-> "poll"]

(* Whether there is an application to start is the subject of Bootloader.  *)
MainDecides ==
    /\ pc = "main" /\ pc' \in {"jump_app", "usb_init"}
    /\ UNCHANGED <<startupVars, libraryVars, listVars, plugged, dfu, dirty>>

InitUsb ==
    /\ pc = "usb_init" /\ pc' = MainNext[pc]
    /\ usb_init
    /\ UNCHANGED <<startupVars, listVars, plugged, dfu, dirty>>

(* dfu_init: the state first, then the three callbacks.                    *)
InitDfu ==
    /\ pc = "dfu_init" /\ pc' = MainNext[pc]
    /\ dfu' = "IDLE" /\ dirty' = FALSE
    /\ UNCHANGED <<startupVars, libraryVars, listVars, plugged>>

RegisterCallback ==
    /\ pc \in EnumCallback /\ pc' = MainNext[pc]
    /\ usb_register_enum_callback(pc)
    /\ UNCHANGED <<startupVars, libraryVars, plugged, dfu, dirty>>

StartUsb ==
    /\ pc = "usb_start" /\ pc' = MainNext[pc]
    /\ usb_start
    /\ UNCHANGED <<boot, data, table, vtor, masked, libraryVars, listVars, plugged, dfu, dirty>>

(* The main loop flushes a page of the application or of the bootloader,   *)
(* which is then erased, or completes one of the two.  The flag does not   *)
(* say of which region it speaks: a complete application clears it with    *)
(* the bootloader erased.  The program goes on from the RAM.               *)
PollFlushes ==
    /\ pc = "poll" /\ dfu = "BUSY" /\ UNCHANGED pc
    /\ dfu' = "IDLE"
    /\ \/ dirty' = TRUE /\ boot' \in {boot, "erased"}
       \/ dirty' = FALSE /\ boot' \in {boot, "whole"}
    /\ UNCHANGED <<data, table, vtor, masked, enabled, libraryVars, listVars, plugged>>

PollDetaches ==
    /\ pc = "poll" /\ dfu = "DETACH" /\ pc' = "usb_disconnect"
    /\ UNCHANGED <<startupVars, libraryVars, listVars, plugged, dfu, dirty>>

(* usb_stop_device, one call after the other.                              *)
StopUsb ==
    /\ \/ /\ pc = "usb_disconnect" /\ pc' = "usb_shutdown"
          /\ MXC_USB_Disconnect /\ UNCHANGED enabled
       \/ /\ pc = "usb_shutdown" /\ pc' = "usb_disable_irq"
          /\ LibraryDown /\ UNCHANGED enabled
       \/ /\ pc = "usb_disable_irq" /\ pc' = "jump_boot"
          /\ NVIC_DisableIRQ /\ UNCHANGED libraryVars
    /\ UNCHANGED <<boot, data, table, vtor, masked, listVars, plugged, dfu, dirty>>

Jump ==
    /\ JumpQuiets \/ JumpLeaves
    /\ UNCHANGED <<libraryVars, listVars, plugged, dfu, dirty>>

MainThread ==
    \/ StartupStep
    \/ MainDecides \/ InitUsb \/ InitDfu \/ RegisterCallback \/ StartUsb
    \/ PollFlushes \/ PollDetaches \/ StopUsb
    \/ Jump

-----------------------------------------------------------------------------
(* The USB interrupt, at any point of the main thread it is enabled at.    *)

BusEvent ==
    /\ UsbInterrupt /\ \E event \in Event : usb_event_callback(event)
    /\ UNCHANGED <<pc, startupVars, listVars, plugged, dfu, dirty>>

StandardRequest ==
    /\ UsbInterrupt /\ SetConfiguration
    /\ UNCHANGED <<pc, startupVars, listVars, plugged, dfu, dirty>>

(* A class request, where it reaches the state machine of DFU: a block     *)
(* that fills a page, or a DETACH.                                         *)
ClassRequest ==
    /\ UsbInterrupt /\ connected /\ plugged
    /\ Calls("CLASS", {"dfu_class_req_callback"})
    /\ dfu = "IDLE"
    /\ dfu' = "BUSY" \/ (~dirty /\ dfu' = "DETACH")
    /\ UNCHANGED <<pc, startupVars, libraryVars, listVars, plugged, dirty>>

usb_handler == BusEvent \/ StandardRequest \/ ClassRequest

Environment ==
    \/ Cable /\ UNCHANGED <<pc, startupVars, listVars, dfu, dirty>>
    \/ PowerCycle

PowerNext == MainThread \/ usb_handler \/ Environment

(* The main thread goes on, and an interrupt that waits is taken.          *)
PowerSpec ==
    /\ PowerInit /\ [][PowerNext]_powerVars
    /\ WF_powerVars(MainThread) /\ WF_powerVars(BusEvent)

-----------------------------------------------------------------------------

(* Whenever an exception can be taken, there is code of the bootloader     *)
(* where the vector table in use leads: during the copy to the RAM the     *)
(* handlers in the flash, and in DFU mode only those in the RAM, because   *)
(* an update erases the others (startup.c:69-96, bootloader.c:45-71).      *)
(* Exempt are the application, a device with no bootloader at its reset,   *)
(* and the one way the program itself gets there, "lost": DETACH is        *)
(* granted with the bootloader erased (download.c:193, dfu.c:186), and the *)
(* jump sets VTOR to erased flash (bootloader.c:71).                       *)
ExceptionsHandled ==
    pc \notin {"app", "dead", "lost"} =>
        \A e \in Exception : CanBeTaken(e) => HasHandler(e)

(* A host never meets a device that is half set up: as soon as the USB     *)
(* interrupt can be taken, every request leads to the callbacks that are   *)
(* registered for it and to no others, dfu_init has been through, and the  *)
(* library has every descriptor the others announce (main.c:46-49).        *)
HostIsServed ==
    UsbInterrupt =>
        /\ \A r \in EnumRequest :
               Calls(r, {cb \in EnumCallback : CallbackRequest[cb] = r})
        /\ dfu \in {"IDLE", "BUSY", "DETACH"}
        /\ AskedFor \subseteq registered

(* With no event left to handle, the device is connected exactly while the *)
(* bus has power, and configured only while it is connected (device        *)
(* usb.c:135-158).  By which host is not said: see SetConfiguration.       *)
ConnectionFollowsCable ==
    pc = "poll" /\ UsbInterrupt /\ latched \cap events = {} =>
        /\ connected <=> plugged
        /\ configured => connected

(* In DFU mode the device connects to a bus that has power, unless the     *)
(* library has failed (main.c:46-53, device usb.c:125-151).                *)
ConnectsToBus ==
    pc = "poll" /\ library = "up" /\ plugged ~> connected \/ ~plugged \/ pc # "poll"

=============================================================================
