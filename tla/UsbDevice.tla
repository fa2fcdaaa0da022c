----------------------------- MODULE UsbDevice -----------------------------
(***************************************************************************)
(* The two usb.c files: what the program registers with the USB library,   *)
(* the lists of callbacks it keeps itself, and what its event callback     *)
(* does when the cable is plugged, unplugged or the host resets the bus.   *)
(*                                                                         *)
(* The library is outside the repository.  From the way usb.c uses it: it  *)
(* latches events, calls the event callback from the interrupt for those   *)
(* that are enabled, and hands over the requests of a host it is connected *)
(* to.  Of plugging and unplugging it remembers the later one.             *)
(***************************************************************************)
EXTENDS Startup, FiniteSets

VARIABLES
    library,     \* "down", "failed" (MXC_USB_Init or enum_init), or "up"
    registered,  \* the <<type, index>> pairs it has descriptors for
    events,      \* the events enabled in it
    latched,     \* the events that have happened and not been handled
    connected,   \* the pull-up: the host sees a device
    configured,  \* the host has chosen the configuration
    head,        \* struct usb: the heads of the lists of callbacks
    next,        \* the next pointers in the callbacks
    plugged      \* the bus has power

libraryVars == <<library, registered, events, latched, connected, configured>>
listVars == <<head, next>>

-----------------------------------------------------------------------------

Event == {"BRST", "VBUS", "NOVBUS"}

EnumRequest == {"CLASS", "VENDOR", "SET_CONFIG", "SET_INTERFACE", "GET_INTERFACE",
                "SET_FEATURE", "CLEAR_FEATURE"}

NULL == "NULL"

(* The callbacks of the program, each with the request it is for.          *)
CallbackRequest ==
    [dfu_class_req_callback     |-> "CLASS",
     dfu_set_config_callback    |-> "SET_CONFIG",
     dfu_set_interface_callback |-> "SET_INTERFACE"]

EnumCallback == DOMAIN CallbackRequest

(* The RAM of this module when the supply comes up, after .data has been   *)
(* copied, and after .bss has been zeroed.                                 *)
GarbageLists == [r \in EnumRequest |-> Garbage]
LoadedNext == [cb \in EnumCallback |-> NULL]
ZeroLists == [r \in EnumRequest |-> NULL]

LibraryDown ==
    /\ library' = "down" /\ registered' = {} /\ events' = {} /\ latched' = {}
    /\ connected' = FALSE /\ configured' = FALSE

-----------------------------------------------------------------------------
(* The descriptors (descriptors.h, descriptors.c).                         *)

USB_STRING_DESCRIPTOR_LEN == 5

StringIndex ==
    [LANGUAGE_ID |-> 0, MANUFACTURER |-> 1, PRODUCT |-> 2, SERIAL_ID |-> 3,
     DFU_INTERFACE |-> 4]

(* What a host asks for: the two descriptors every device has, the list of *)
(* languages, and the strings those descriptors name by their index.       *)
AskedFor ==
    {<<"DEVICE", 0>>, <<"CONFIG", 0>>} \cup
    {<<"STRING", StringIndex[s]>> :
        s \in {"LANGUAGE_ID", "MANUFACTURER", "PRODUCT", "SERIAL_ID", "DFU_INTERFACE"}}

-----------------------------------------------------------------------------
(* Starting and stopping the library.                                      *)

(* usb_init.  When the library fails nothing is registered, and main does  *)
(* not look at the result.                                                 *)
usb_init ==
    /\ \/ /\ library' = "up"
          /\ registered' = {<<"DEVICE", 0>>, <<"CONFIG", 0>>} \cup
                           {<<"STRING", i>> : i \in 0 .. USB_STRING_DESCRIPTOR_LEN - 1}
          /\ events' = {"NOVBUS", "VBUS"}
          /\ latched' = IF plugged THEN {"VBUS"} ELSE {}
       \/ library' = "failed" /\ UNCHANGED <<registered, events, latched>>
    /\ UNCHANGED <<connected, configured>>

usb_start == enabled' = enabled \cup {"USB"}

(* usb_stop_device is three calls, and after the first two the interrupt   *)
(* is still enabled.                                                       *)
MXC_USB_Disconnect ==
    /\ connected' = FALSE
    /\ UNCHANGED <<library, registered, events, latched, configured>>

NVIC_DisableIRQ == enabled' = enabled \ {"USB"}

-----------------------------------------------------------------------------
(* The lists of callbacks.                                                 *)

(* usb_register_enum_callback: cb becomes the last of its list.            *)
usb_register_enum_callback(cb) ==
    LET r    == CallbackRequest[cb]
        last == CHOOSE c \in EnumCallback : CallbackRequest[c] = r /\ next[c] = NULL
    IN  IF head[r] = NULL
        THEN head' = [head EXCEPT ![r] = cb] /\ next' = [next EXCEPT ![cb] = NULL]
        ELSE head' = head /\ next' = [next EXCEPT ![last] = cb, ![cb] = NULL]

(* The links usb_enum_callback follows for a request: the first, the next  *)
(* of the first, and so on.                                                *)
Links(r) ==
    LET link[n \in 0 .. Cardinality(EnumCallback)] ==
            IF n = 0 THEN head[r]
            ELSE IF link[n - 1] \in EnumCallback THEN next[link[n - 1]] ELSE link[n - 1]
    IN  link

(* usb_enum_callback calls these callbacks, and comes to an end.           *)
Calls(r, callbacks) ==
    LET link == Links(r)
    IN  /\ link[Cardinality(EnumCallback)] = NULL
        /\ {link[n] : n \in DOMAIN link} \ {NULL} = callbacks

-----------------------------------------------------------------------------
(* The interrupt.                                                          *)

UsbInterrupt == "USB" \in enabled /\ ~masked /\ library = "up"

(* Mutant of ConfigurationAfter: an unplugged device stays configured.     *)
ConfigurationUnlessReset(event) == configured /\ event # "BRST"

(* enum_clearconfig is called for two of the events.                       *)
ConfigurationAfter(event) == configured /\ event \notin {"NOVBUS", "BRST"}

(* Mutant of ConnectionAfter: the pull-up is never switched on.            *)
ConnectionWithoutPullUp(event) == connected /\ event # "NOVBUS"

(* MXC_USB_Connect and MXC_USB_Disconnect.                                 *)
ConnectionAfter(event) == event = "VBUS" \/ (connected /\ event # "NOVBUS")

(* usb_event_callback.  No callback of the program is registered for an    *)
(* event.                                                                  *)
usb_event_callback(event) ==
    /\ event \in latched \cap events
    /\ events' = CASE event = "NOVBUS" -> events \ {"BRST"}
                   [] event = "VBUS"   -> events \cup {"BRST"}
                   [] event = "BRST"   -> events
    /\ latched' = latched \ (IF event = "VBUS" THEN {"VBUS", "BRST"} ELSE {event})
    /\ connected' = ConnectionAfter(event)
    /\ configured' = ConfigurationAfter(event)
    /\ UNCHANGED <<library, registered>>

(* The library carries out a SET_CONFIGURATION of the host.  VBUS alone    *)
(* does not clear it: when the cable goes out and in again before the      *)
(* interrupt, the configuration of before lasts until the bus reset.       *)
SetConfiguration ==
    /\ connected /\ plugged /\ latched \cap events = {}
    /\ configured' \in BOOLEAN
    /\ UNCHANGED <<library, registered, events, latched, connected>>

-----------------------------------------------------------------------------
(* The cable and the host at its other end.                                *)

Latch(event, opposite) ==
    latched' = IF library = "up" THEN (latched \ {opposite}) \cup {event} ELSE latched

Plug == ~plugged /\ plugged' = TRUE /\ Latch("VBUS", "NOVBUS")

Unplug == plugged /\ plugged' = FALSE /\ Latch("NOVBUS", "VBUS")

BusReset == plugged /\ connected /\ UNCHANGED plugged /\ Latch("BRST", "BRST")

Cable ==
    /\ Plug \/ Unplug \/ BusReset
    /\ UNCHANGED <<library, registered, events, connected, configured>>

=============================================================================
