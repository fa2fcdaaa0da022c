---------------------------- MODULE PowerUpProofs ----------------------------
(***************************************************************************)
(* Theorems about PowerUp: why every exception has its handler, why a host *)
(* is served, and why the connection follows the cable.  What is true      *)
(* depends on how far the main thread has come, and PowerInv says it part  *)
(* by part.                                                                *)
(***************************************************************************)
EXTENDS PowerUp, FiniteSetTheorems, TLAPS

(* The parts of the main thread, in their order.                           *)
FromFlash == {ResetVector, "copying", "bss", "vectors", "handlers", "vtor"}
Registering ==
    {"dfu_class_req_callback", "dfu_set_config_callback", "dfu_set_interface_callback"}
Served == {"usb_start", "poll", "usb_disconnect", "usb_shutdown", "usb_disable_irq"}
Leaving == {"leave_app", "leave_boot"}
FromRam ==
    {"init_system", "main", "usb_init", "dfu_init", "jump_app", "jump_boot"}
        \cup Registering \cup Served \cup Leaving
Over == {"app", "dead", "lost"}

PcOK == pc \in FromFlash \cup FromRam \cup Over

(* The handlers in the RAM are in the table before the table is in use,    *)
(* and until then nothing erases those in the flash.                       *)
RamVector == [e \in Exception |-> "ram_handler"]

VectorsInv ==
    /\ pc \in FromFlash => vtor = "flash" /\ masked
    /\ pc \in {"bss", "vectors", "handlers", "vtor"} \cup FromRam => data = "loaded"
    /\ pc = "handlers" => table = FlashVector
    /\ pc \in {"vtor"} \cup FromRam => table = RamVector
    /\ pc \in FromRam => vtor = "ram"
    /\ pc \in {"init_system"} \cup Leaving => masked

(* As long as the program runs from the flash, or with its vector table,   *)
(* the bootloader is there: updates erase it in DFU mode only.             *)
BootInv == pc \in FromFlash => boot = "whole"

(* The USB interrupt is enabled from the end of the initialisation to the  *)
(* end of usb_stop.                                                        *)
InterruptInv ==
    /\ enabled \in SUBSET {"USB"}
    /\ "USB" \in enabled => pc \in Served \ {"usb_start"}
    /\ library = "up" =>
           pc \in ({"dfu_init"} \cup Registering \cup Served) \ {"usb_disable_irq"}
    /\ library # "up" => ~connected /\ ~configured
    /\ library = "up" => AskedFor \subseteq registered

(* The lists with these callbacks registered.                              *)
HeadWith(callbacks) ==
    [r \in EnumRequest |->
        IF r = "CLASS" /\ "dfu_class_req_callback" \in callbacks
        THEN "dfu_class_req_callback"
        ELSE IF r = "SET_CONFIG" /\ "dfu_set_config_callback" \in callbacks
        THEN "dfu_set_config_callback"
        ELSE IF r = "SET_INTERFACE" /\ "dfu_set_interface_callback" \in callbacks
        THEN "dfu_set_interface_callback"
        ELSE NULL]

(* A callback is put at the end of a list that is empty, one after the     *)
(* other.                                                                  *)
ListsInv ==
    /\ pc \in {"bss", "vectors", "handlers", "vtor", "init_system", "main", "usb_init",
               "dfu_init"} \cup Registering \cup Served => next = LoadedNext
    /\ pc \in {"vectors", "handlers", "vtor", "init_system", "main", "usb_init", "dfu_init",
               "dfu_class_req_callback"} => head = HeadWith({})
    /\ pc = "dfu_set_config_callback" => head = HeadWith({"dfu_class_req_callback"})
    /\ pc = "dfu_set_interface_callback" =>
           head = HeadWith({"dfu_class_req_callback", "dfu_set_config_callback"})
    /\ pc \in Served => head = HeadWith(Registering)
    /\ pc \in Registering \cup Served => dfu \in {"IDLE", "BUSY", "DETACH"}

(* While the library is up, a difference between the connection and the    *)
(* cable is always announced by an event that waits and is enabled.        *)
CableInv ==
    library = "up" /\ pc \notin {"usb_disconnect", "usb_shutdown"} =>
        /\ {"VBUS", "NOVBUS"} \subseteq events
        /\ "VBUS" \in latched => plugged
        /\ "NOVBUS" \in latched => ~plugged
        /\ plugged /\ ~connected => "VBUS" \in latched
        /\ ~plugged /\ connected => "NOVBUS" \in latched
        /\ configured => connected

BusType ==
    /\ plugged \in BOOLEAN /\ connected \in BOOLEAN /\ configured \in BOOLEAN
    /\ latched \in SUBSET Event /\ events \in SUBSET Event
    /\ dirty \in BOOLEAN /\ masked \in BOOLEAN

PowerInv ==
    /\ PcOK /\ BusType
    /\ VectorsInv /\ BootInv /\ InterruptInv /\ ListsInv /\ CableInv

-----------------------------------------------------------------------------
(* What the tables of UsbDevice and PowerUp hold.                          *)

LEMMA CallbacksAre == EnumCallback = Registering /\ NULL \notin EnumCallback
  <1>1. EnumCallback = {"dfu_class_req_callback", "dfu_set_config_callback",
                        "dfu_set_interface_callback"}
    BY DEF EnumCallback, CallbackRequest
  <1> QED
    BY <1>1 DEF Registering, NULL

LEMMA RequestsAre ==
    /\ CallbackRequest["dfu_class_req_callback"] = "CLASS"
    /\ CallbackRequest["dfu_set_config_callback"] = "SET_CONFIG"
    /\ CallbackRequest["dfu_set_interface_callback"] = "SET_INTERFACE"
  BY DEF CallbackRequest

LEMMA MainNextIs ==
    /\ MainNext["usb_init"] = "dfu_init"
    /\ MainNext["dfu_init"] = "dfu_class_req_callback"
    /\ MainNext["dfu_class_req_callback"] = "dfu_set_config_callback"
    /\ MainNext["dfu_set_config_callback"] = "dfu_set_interface_callback"
    /\ MainNext["dfu_set_interface_callback"] = "usb_start"
    /\ MainNext["usb_start"] = "poll"
  BY DEF MainNext

(* The language, the strings and the two descriptors are among those       *)
(* usb_init has for the library.                                           *)
LEMMA DescriptorsThere ==
    AskedFor \subseteq {<<"DEVICE", 0>>, <<"CONFIG", 0>>} \cup
                       {<<"STRING", i>> : i \in 0 .. USB_STRING_DESCRIPTOR_LEN - 1}
  <1>1. \A s \in {"LANGUAGE_ID", "MANUFACTURER", "PRODUCT", "SERIAL_ID", "DFU_INTERFACE"} :
            StringIndex[s] \in 0 .. 4
    BY DEF StringIndex
  <1>2. 0 .. USB_STRING_DESCRIPTOR_LEN - 1 = 0 .. 4
    BY DEF USB_STRING_DESCRIPTOR_LEN
  <1> QED
    BY <1>1, <1>2, Zenon DEF AskedFor

-----------------------------------------------------------------------------
(* The parts of the main thread, one after the other.                      *)

LEMMA InitPower == PowerInit => PowerInv
  <1> SUFFICES ASSUME PowerInit PROVE PowerInv
    OBVIOUS
  <1>1. PcOK /\ BusType
    BY DEF PowerInit, PcOK, BusType, FromFlash, Event
  <1>2. VectorsInv /\ BootInv
    BY DEF PowerInit, VectorsInv, BootInv, FromFlash, FromRam, Registering, Served, Leaving,
           ResetVector
  <1>3. InterruptInv /\ ListsInv /\ CableInv
    BY DEF PowerInit, InterruptInv, ListsInv, CableInv, Registering, Served, ResetVector
  <1> QED
    BY <1>1, <1>2, <1>3 DEF PowerInv

LEMMA PowerCyclePower ==
    ASSUME PowerInv, PowerCycle
    PROVE  PowerInv'
  <1>1. PcOK' /\ BusType'
    BY DEF PowerCycle, PowerOn, LibraryDown, PcOK, BusType, FromFlash, Over, Event
  <1>2. VectorsInv' /\ BootInv'
    BY DEF PowerInv, PowerCycle, PowerOn, VectorsInv, BootInv, FromFlash, FromRam, Registering,
           Served, Leaving, ResetVector
  <1>3. InterruptInv' /\ ListsInv' /\ CableInv'
    BY DEF PowerCycle, PowerOn, LibraryDown, InterruptInv, ListsInv, CableInv, Registering,
           Served, ResetVector
  <1> QED
    BY <1>1, <1>2, <1>3 DEF PowerInv

LEMMA StartupPower ==
    ASSUME PowerInv, StartupStep
    PROVE  PowerInv'
  <1> USE DEF StartupStep, flash_reset_handler, CopyData, DataCopied, ZeroBss, CopyVectors,
              ReplaceHandlers, SetVtor, init_system, libraryVars, BssAfter
  <1>1. PcOK' /\ BusType'
    BY DEF PowerInv, PcOK, BusType, FromFlash, FromRam
  <1>2. VectorsInv'
    <2>1. pc = "handlers" => table' = RamVector
      <3> SUFFICES ASSUME pc = "handlers" PROVE table' = RamVector
        OBVIOUS
      <3>1. table = FlashVector
        BY DEF PowerInv, VectorsInv
      <3>2. table' = [e \in Exception |-> IF e \in Replaced THEN "ram_handler" ELSE table[e]]
        BY DEF ResetVector
      <3>3. ASSUME NEW e \in Exception
            PROVE  (IF e \in Replaced THEN "ram_handler" ELSE table[e]) = "ram_handler"
        BY <3>1 DEF FlashVector, Replaced
      <3> QED
        BY <3>2, <3>3 DEF RamVector
    <2> QED
      BY <2>1 DEF PowerInv, VectorsInv, FromFlash, FromRam, Registering, Served, Leaving,
                  ResetVector
  <1>3. BootInv' /\ InterruptInv' /\ CableInv'
    BY DEF PowerInv, VectorsInv, BootInv, InterruptInv, CableInv, FromFlash, Registering, Served,
           ResetVector
  <1>4. ListsInv'
    <2>1. ZeroLists = HeadWith({})
      BY DEF ZeroLists, HeadWith
    <2> QED
      BY <2>1 DEF PowerInv, ListsInv, Registering, Served, ResetVector
  <1> QED
    BY <1>1, <1>2, <1>3, <1>4 DEF PowerInv

(* The first callback of its kind becomes its list.                        *)
LEMMA FirstInList ==
    ASSUME NEW cb \in EnumCallback, NEW callbacks, usb_register_enum_callback(cb),
           head = HeadWith(callbacks), callbacks \subseteq Registering, cb \notin callbacks,
           next = LoadedNext
    PROVE  head' = HeadWith(callbacks \cup {cb}) /\ next' = LoadedNext
  <1>1. CallbackRequest[cb] \in EnumRequest /\ head[CallbackRequest[cb]] = NULL
    BY CallbacksAre, RequestsAre DEF HeadWith, EnumRequest, Registering
  <1>2. head' = [head EXCEPT ![CallbackRequest[cb]] = cb] /\ next' = [next EXCEPT ![cb] = NULL]
    BY <1>1 DEF usb_register_enum_callback
  <1>3. next' = LoadedNext
    BY <1>2 DEF LoadedNext
  <1>4. ASSUME NEW r \in EnumRequest
        PROVE  head'[r] = HeadWith(callbacks \cup {cb})[r]
    BY <1>1, <1>2, CallbacksAre, RequestsAre DEF HeadWith, EnumRequest, Registering
  <1>5. head' = [r \in EnumRequest |-> head'[r]]
    BY <1>2 DEF HeadWith
  <1> QED
    BY <1>3, <1>4, <1>5 DEF HeadWith

LEMMA RegisterPower ==
    ASSUME PowerInv, RegisterCallback
    PROVE  PowerInv'
  <1>1. pc \in Registering /\ pc \in EnumCallback /\ pc' = MainNext[pc]
        /\ pc' \in Registering \cup {"usb_start"}
    <2>1. pc \in Registering /\ pc \in EnumCallback /\ pc' = MainNext[pc]
      BY CallbacksAre DEF RegisterCallback
    <2>2. \A p \in Registering : MainNext[p] \in Registering \cup {"usb_start"}
      BY MainNextIs DEF Registering
    <2> QED
      BY <2>1, <2>2
  <1>2. PcOK' /\ BusType' /\ VectorsInv'
    <2>1. UNCHANGED <<data, table, vtor, masked, plugged, connected, configured, latched, events,
                      dirty>>
      BY DEF RegisterCallback, startupVars, libraryVars
    <2>2. PcOK'
      BY <1>1 DEF PcOK, FromRam, Served
    <2>3. BusType'
      BY <2>1 DEF PowerInv, BusType
    <2>4. VectorsInv'
      BY <1>1, <2>1 DEF PowerInv, VectorsInv, FromFlash, FromRam, Registering, Served, Leaving,
                        ResetVector
    <2> QED
      BY <2>2, <2>3, <2>4
  <1>3. BootInv' /\ InterruptInv' /\ CableInv'
    BY <1>1 DEF PowerInv, RegisterCallback, BootInv, InterruptInv, CableInv, FromFlash,
                ResetVector, Registering, Served, startupVars, libraryVars
  <1>4. dfu' \in {"IDLE", "BUSY", "DETACH"} /\ next = LoadedNext
        /\ usb_register_enum_callback(pc)
    BY <1>1 DEF PowerInv, RegisterCallback, ListsInv
  <1>5. ListsInv'
    <2>1. CASE pc = "dfu_class_req_callback"
      <3>1. head' = HeadWith({} \cup {pc}) /\ next' = LoadedNext
        BY <1>1, <1>4, <2>1, FirstInList DEF PowerInv, ListsInv
      <3> QED
        BY <1>1, <1>4, <2>1, <3>1, MainNextIs DEF ListsInv, Served
    <2>2. CASE pc = "dfu_set_config_callback"
      <3>1. head' = HeadWith({"dfu_class_req_callback"} \cup {pc}) /\ next' = LoadedNext
        BY <1>1, <1>4, <2>2, FirstInList DEF PowerInv, ListsInv, Registering
      <3>2. {"dfu_class_req_callback"} \cup {pc} =
                {"dfu_class_req_callback", "dfu_set_config_callback"}
        BY <2>2
      <3> QED
        BY <1>1, <1>4, <2>2, <3>1, <3>2, MainNextIs DEF ListsInv, Served
    <2>3. CASE pc = "dfu_set_interface_callback"
      <3>1. head' = HeadWith({"dfu_class_req_callback", "dfu_set_config_callback"} \cup {pc})
            /\ next' = LoadedNext
        BY <1>1, <1>4, <2>3, FirstInList DEF PowerInv, ListsInv, Registering
      <3>2. {"dfu_class_req_callback", "dfu_set_config_callback"} \cup {pc} = Registering
        BY <2>3 DEF Registering
      <3> QED
        BY <1>1, <1>4, <2>3, <3>1, <3>2, MainNextIs DEF ListsInv, Served, Registering
    <2> QED
      BY <1>1, <2>1, <2>2, <2>3 DEF Registering
  <1> QED
    BY <1>2, <1>3, <1>5 DEF PowerInv

(* main up to the poll loop.                                               *)
LEMMA MainPower ==
    ASSUME PowerInv, MainDecides \/ InitUsb \/ InitDfu \/ StartUsb
    PROVE  PowerInv'
  <1>1. \/ pc = "main" /\ pc' \in {"jump_app", "usb_init"}
        \/ pc = "usb_init" /\ pc' = "dfu_init"
        \/ pc = "dfu_init" /\ pc' = "dfu_class_req_callback"
        \/ pc = "usb_start" /\ pc' = "poll"
    BY MainNextIs DEF MainDecides, InitUsb, InitDfu, StartUsb
  <1> USE DEF MainDecides, InitUsb, InitDfu, StartUsb, startupVars, libraryVars, listVars
  <1>2. PcOK' /\ VectorsInv'
    BY <1>1 DEF PowerInv, PcOK, VectorsInv, FromFlash, FromRam, Over, Registering, Served,
                Leaving, ResetVector
  <1>3. BusType'
    BY <1>1 DEF PowerInv, BusType, usb_init, Event
  <1>4. BootInv'
    BY <1>1 DEF BootInv, FromFlash, ResetVector, Registering
  <1>5. InterruptInv'
    <2>1. CASE InitUsb
      <3>1. enabled' = enabled /\ pc = "usb_init" /\ pc' = "dfu_init" /\ library # "up"
            /\ connected' = connected /\ configured' = configured
        BY <1>1, <2>1 DEF PowerInv, InterruptInv, usb_init, Registering, Served
      <3>2. library' = "up" => AskedFor \subseteq registered'
        BY <2>1, DescriptorsThere DEF usb_init
      <3> QED
        BY <3>1, <3>2 DEF PowerInv, InterruptInv, Registering, Served
    <2>2. CASE MainDecides \/ InitDfu \/ StartUsb
      <3>1. library' = library /\ registered' = registered
            /\ connected' = connected /\ configured' = configured
        BY <2>2
      <3>2. enabled' = enabled \/ (pc = "usb_start" /\ enabled' = enabled \cup {"USB"})
        BY <2>2 DEF usb_start
      <3>3. library = "up" => pc \in {"dfu_init", "usb_start"}
        BY <1>1 DEF PowerInv, InterruptInv, Registering, Served
      <3>4. enabled \in SUBSET {"USB"} /\ "USB" \notin enabled
        BY <1>1 DEF PowerInv, InterruptInv, Served
      <3>5. enabled' \in SUBSET {"USB"} /\ ("USB" \in enabled' => pc' = "poll")
        BY <1>1, <3>2, <3>4
      <3>6. library' = "up" => pc' \in {"dfu_class_req_callback", "poll"}
        BY <1>1, <3>1, <3>3
      <3>7. (library # "up" => ~connected /\ ~configured)
            /\ (library = "up" => AskedFor \subseteq registered)
        BY DEF PowerInv, InterruptInv
      <3> QED
        BY <3>1, <3>5, <3>6, <3>7 DEF InterruptInv, Registering, Served
    <2> QED
      BY <2>1, <2>2
  <1>6. ListsInv'
    BY <1>1 DEF PowerInv, ListsInv, Registering, Served
  <1>7. CableInv'
    <2>1. CASE InitUsb
      BY <2>1 DEF PowerInv, InterruptInv, CableInv, BusType, usb_init, Registering, Served
    <2>2. CASE MainDecides \/ InitDfu \/ StartUsb
      BY <1>1, <2>2 DEF PowerInv, CableInv
    <2> QED
      BY <2>1, <2>2
  <1> QED
    BY <1>2, <1>3, <1>4, <1>5, <1>6, <1>7 DEF PowerInv

LEMMA PollPower ==
    ASSUME PowerInv, PollFlushes \/ PollDetaches
    PROVE  PowerInv'
  <1>1. pc = "poll" /\ pc' \in {"poll", "usb_disconnect"}
    BY DEF PollFlushes, PollDetaches
  <1> USE DEF PollFlushes, PollDetaches, startupVars, libraryVars, listVars
  <1>2. PcOK' /\ BusType'
    BY <1>1 DEF PowerInv, PcOK, BusType, FromRam, Served
  <1>3. VectorsInv'
    <2>1. data' = data /\ table' = table /\ vtor' = vtor
      OBVIOUS
    <2> QED
      BY <1>1, <2>1 DEF PowerInv, VectorsInv, FromFlash, FromRam, Served, Leaving, ResetVector
  <1>4. BootInv'
    BY <1>1 DEF BootInv, FromFlash, ResetVector
  <1>5. InterruptInv' /\ CableInv'
    <2>1. enabled' = enabled /\ UNCHANGED libraryVars /\ plugged' = plugged
      OBVIOUS
    <2> QED
      BY <1>1, <2>1 DEF PowerInv, InterruptInv, CableInv, Served
  <1>6. ListsInv'
    BY <1>1 DEF PowerInv, ListsInv, Registering, Served
  <1> QED
    BY <1>2, <1>3, <1>4, <1>5, <1>6 DEF PowerInv

(* usb_stop and jump.                                                      *)
LEMMA LeavePower ==
    ASSUME PowerInv, StopUsb \/ Jump
    PROVE  PowerInv'
  <1>1. \/ pc = "usb_disconnect" /\ pc' = "usb_shutdown"
        \/ pc = "usb_shutdown" /\ pc' = "usb_disable_irq"
        \/ pc = "usb_disable_irq" /\ pc' = "jump_boot"
        \/ pc \in {"jump_app", "jump_boot"} /\ pc' \in Leaving
        \/ pc = "leave_app" /\ pc' = "app"
        \/ pc = "leave_boot" /\ pc' \in {ResetVector, "lost"}
    BY DEF StopUsb, Jump, JumpQuiets, JumpLeaves, Leaving
  <1>2. PcOK'
    BY <1>1 DEF PcOK, FromFlash, FromRam, Over, Served, Leaving
  <1>3. BusType'
    BY DEF PowerInv, BusType, StopUsb, Jump, JumpQuiets, JumpLeaves, MXC_USB_Disconnect,
           LibraryDown, libraryVars
  <1>4. VectorsInv'
    <2>1. pc' \in Leaving \cup {ResetVector} => masked'
      BY <1>1 DEF PowerInv, VectorsInv, Jump, JumpQuiets, JumpLeaves, StopUsb, Leaving, ResetVector
    <2>2. pc' = ResetVector => vtor' = "flash"
      BY <1>1 DEF Jump, JumpQuiets, JumpLeaves, StopUsb, Leaving, ResetVector
    <2>3. pc' # ResetVector => pc' \in {"app", "lost"} \/ vtor' = vtor
      BY <1>1 DEF Jump, JumpQuiets, JumpLeaves, StopUsb, Leaving, ResetVector
    <2>4. data' = data /\ table' = table
      BY DEF Jump, JumpQuiets, JumpLeaves, StopUsb
    <2> QED
      BY <1>1, <2>1, <2>2, <2>3, <2>4 DEF PowerInv, VectorsInv, FromFlash, FromRam, Registering,
         Served, Leaving, ResetVector
  <1>5. BootInv'
    <2>1. boot' = boot /\ (pc' = ResetVector => boot = "whole")
      BY DEF StopUsb, Jump, JumpQuiets, JumpLeaves, ResetVector
    <2> QED
      BY <1>1, <2>1 DEF BootInv, FromFlash, Leaving, ResetVector
  <1>6. InterruptInv'
    <2>1. enabled' \in SUBSET {"USB"}
          /\ ("USB" \in enabled' => pc \in {"usb_disconnect", "usb_shutdown"})
      <3>1. enabled \in SUBSET {"USB"} /\ ("USB" \in enabled => pc \in Served)
        BY DEF PowerInv, InterruptInv
      <3>2. CASE StopUsb
        BY <1>1, <3>1, <3>2 DEF StopUsb, NVIC_DisableIRQ, Leaving
      <3>3. CASE Jump
        BY <1>1, <3>1, <3>3 DEF Jump, JumpQuiets, JumpLeaves, Served
      <3> QED
        BY <3>2, <3>3
    <2>2. library = "up" => pc \in {"usb_disconnect", "usb_shutdown"}
      BY <1>1 DEF PowerInv, InterruptInv, Registering, Served
    <2>3. \/ LibraryDown /\ pc = "usb_shutdown"
          \/ library' = library /\ registered' = registered /\ configured' = configured
             /\ connected' \in {FALSE, connected} /\ pc # "usb_shutdown"
      <3>1. CASE StopUsb
        BY <3>1 DEF StopUsb, MXC_USB_Disconnect, libraryVars
      <3>2. CASE Jump
        BY <1>1, <3>2 DEF Jump, JumpQuiets, JumpLeaves, libraryVars
      <3> QED
        BY <3>1, <3>2
    <2>4. library' = "up" => pc' = "usb_shutdown"
      BY <1>1, <2>2, <2>3 DEF LibraryDown
    <2>5. (connected' => connected) /\ (configured' => configured)
          /\ (library' = library \/ (~connected' /\ ~configured'))
      <3>1. CASE LibraryDown
        BY <3>1 DEF LibraryDown
      <3>2. CASE library' = library /\ configured' = configured
                 /\ connected' \in {FALSE, connected}
        <4>1. CASE connected' = FALSE
          BY <3>2, <4>1
        <4>2. CASE connected' = connected
          BY <3>2, <4>2
        <4> QED
          BY <3>2, <4>1, <4>2
      <3> QED
        BY <2>3, <3>1, <3>2
    <2>6. library' = "up" => library = "up" /\ registered' = registered
      BY <2>3 DEF LibraryDown
    <2>7. (library # "up" => ~connected /\ ~configured)
          /\ (library = "up" => AskedFor \subseteq registered)
      BY DEF PowerInv, InterruptInv
    <2>8. "USB" \in enabled' => pc' \in {"usb_shutdown", "usb_disable_irq"}
      BY <1>1, <2>1 DEF Leaving
    <2> QED
      BY <2>1, <2>4, <2>5, <2>6, <2>7, <2>8 DEF InterruptInv, Served
  <1>7. ListsInv'
    BY <1>1 DEF PowerInv, ListsInv, StopUsb, Jump, listVars, Leaving, Registering, Served,
                ResetVector
  <1>8. CableInv'
    BY <1>1 DEF PowerInv, InterruptInv, CableInv, StopUsb, Jump, JumpQuiets, JumpLeaves, Leaving,
                MXC_USB_Disconnect, LibraryDown, libraryVars, Registering, Served, ResetVector
  <1> QED
    BY <1>2, <1>3, <1>4, <1>5, <1>6, <1>7, <1>8 DEF PowerInv

-----------------------------------------------------------------------------
(* The interrupt and the cable.                                            *)

LEMMA EventPower ==
    ASSUME PowerInv, BusEvent
    PROVE  PowerInv'
  <1>1. PICK event \in Event : usb_event_callback(event)
    BY DEF BusEvent
  <1>2. UsbInterrupt /\ pc' = pc /\ UNCHANGED startupVars /\ UNCHANGED listVars
        /\ plugged' = plugged /\ dfu' = dfu /\ dirty' = dirty
    BY DEF BusEvent
  <1>3. library = "up" /\ library' = library /\ registered' = registered /\ event \in latched
    BY <1>1, <1>2 DEF UsbInterrupt, usb_event_callback
  <1>4. /\ event = "NOVBUS" => events' = events \ {"BRST"}
        /\ event = "VBUS" => events' = events \cup {"BRST"}
        /\ event = "BRST" => events' = events
    <2> SUFFICES ASSUME events' = CASE event = "NOVBUS" -> events \ {"BRST"}
                                    [] event = "VBUS"   -> events \cup {"BRST"}
                                    [] event = "BRST"   -> events
                 PROVE  <1>4!:
      BY <1>1 DEF usb_event_callback
    <2>1. "NOVBUS" # "VBUS" /\ "NOVBUS" # "BRST" /\ "VBUS" # "BRST"
      OBVIOUS
    <2> QED
      BY <2>1, Zenon
  <1>5. connected' = (event = "VBUS" \/ (connected /\ event # "NOVBUS"))
        /\ configured' = (configured /\ event \notin {"NOVBUS", "BRST"})
    BY <1>1 DEF usb_event_callback, ConnectionAfter, ConfigurationAfter
  <1>6. latched' = latched \ (IF event = "VBUS" THEN {"VBUS", "BRST"} ELSE {event})
    BY <1>1 DEF usb_event_callback
  <1>7. PcOK' /\ VectorsInv' /\ BootInv' /\ ListsInv'
    BY <1>2 DEF PowerInv, PcOK, VectorsInv, BootInv, ListsInv, startupVars, listVars
  <1>8. BusType'
    BY <1>2, <1>4, <1>5, <1>6 DEF PowerInv, BusType, startupVars, Event
  <1>9. InterruptInv'
    BY <1>2, <1>3 DEF PowerInv, InterruptInv, startupVars
  <1>10. CableInv'
    <2> SUFFICES ASSUME pc \notin {"usb_disconnect", "usb_shutdown"}
                 PROVE  CableInv'
      BY <1>2 DEF CableInv
    <2>1. /\ {"VBUS", "NOVBUS"} \subseteq events
          /\ "VBUS" \in latched => plugged
          /\ "NOVBUS" \in latched => ~plugged
          /\ plugged /\ ~connected => "VBUS" \in latched
          /\ ~plugged /\ connected => "NOVBUS" \in latched
          /\ configured => connected
      BY <1>3 DEF PowerInv, CableInv
    <2>2. CASE event = "VBUS"
      BY <1>2, <1>3, <1>4, <1>5, <1>6, <2>1, <2>2 DEF CableInv
    <2>3. CASE event = "NOVBUS"
      BY <1>2, <1>3, <1>4, <1>5, <1>6, <2>1, <2>3 DEF CableInv
    <2>4. CASE event = "BRST"
      BY <1>2, <1>3, <1>4, <1>5, <1>6, <2>1, <2>4 DEF CableInv
    <2> QED
      BY <2>2, <2>3, <2>4 DEF Event
  <1> QED
    BY <1>7, <1>8, <1>9, <1>10 DEF PowerInv

LEMMA RequestPower ==
    ASSUME PowerInv, StandardRequest \/ ClassRequest
    PROVE  PowerInv'
  <1>1. UsbInterrupt /\ pc' = pc /\ UNCHANGED startupVars /\ UNCHANGED listVars
        /\ plugged' = plugged /\ dirty' = dirty /\ connected
        /\ library' = library /\ registered' = registered /\ events' = events
        /\ latched' = latched /\ connected' = connected /\ configured' \in BOOLEAN
    BY DEF StandardRequest, ClassRequest, SetConfiguration, libraryVars, PowerInv, BusType
  <1>2. library = "up" /\ pc \in Served
    BY <1>1 DEF UsbInterrupt, PowerInv, InterruptInv
  <1>3. PcOK' /\ BusType' /\ VectorsInv'
    BY <1>1 DEF PowerInv, PcOK, BusType, VectorsInv, startupVars
  <1>4. BootInv'
    BY <1>1 DEF StandardRequest, ClassRequest, PowerInv, BootInv, startupVars, UsbInterrupt
  <1>5. InterruptInv' /\ CableInv'
    BY <1>1, <1>2 DEF PowerInv, InterruptInv, CableInv, startupVars
  <1>6. ListsInv'
    <2>1. dfu' \in {"IDLE", "BUSY", "DETACH"}
      BY <1>2 DEF StandardRequest, ClassRequest, PowerInv, ListsInv
    <2> QED
      BY <1>1, <2>1 DEF PowerInv, ListsInv, listVars
  <1> QED
    BY <1>3, <1>4, <1>5, <1>6 DEF PowerInv

LEMMA CablePower ==
    ASSUME PowerInv, Cable, UNCHANGED <<pc, startupVars, listVars, dfu, dirty>>
    PROVE  PowerInv'
  <1>1. pc' = pc /\ UNCHANGED startupVars /\ UNCHANGED listVars /\ dfu' = dfu /\ dirty' = dirty
        /\ library' = library /\ registered' = registered /\ events' = events
        /\ connected' = connected /\ configured' = configured
    BY DEF Cable
  <1>2. PcOK' /\ VectorsInv' /\ BootInv' /\ InterruptInv' /\ ListsInv'
    BY <1>1 DEF PowerInv, PcOK, VectorsInv, BootInv, InterruptInv, ListsInv, startupVars, listVars
  <1>3. BusType'
    BY <1>1 DEF PowerInv, BusType, Cable, Plug, Unplug, BusReset, Latch, startupVars, Event
  <1>4. CableInv'
    BY <1>1 DEF PowerInv, BusType, CableInv, Cable, Plug, Unplug, BusReset, Latch
  <1> QED
    BY <1>2, <1>3, <1>4 DEF PowerInv

LEMMA PowerStep ==
    ASSUME PowerInv, [PowerNext]_powerVars
    PROVE  PowerInv'
  <1>1. CASE UNCHANGED powerVars
    BY <1>1 DEF powerVars, startupVars, libraryVars, listVars, PowerInv, PcOK, BusType, VectorsInv,
                BootInv, InterruptInv, ListsInv, CableInv
  <1>2. CASE PowerNext
    BY <1>2, PowerCyclePower, StartupPower, RegisterPower, MainPower, PollPower, LeavePower,
       EventPower, RequestPower, CablePower
       DEF PowerNext, MainThread, usb_handler, Environment
  <1> QED
    BY <1>1, <1>2

(* At every part of the main thread, from the reset handler to the jump,   *)
(* vector table, RAM, callback lists and library are as far as that part   *)
(* needs them (startup.c:56-100, main.c:46-60, device usb.c:88-173).       *)
THEOREM PowerInvariant == PowerSpec => []PowerInv
  BY InitPower, PowerStep, PTL DEF PowerSpec

-----------------------------------------------------------------------------
(* What follows.                                                           *)

(* At any moment from the reset to the jump, the vector table in use leads *)
(* each exception that can be taken to code that is there: to the flash    *)
(* until the RAM is filled, and to the RAM from then on, whatever updates  *)
(* of either region have erased.  What it does not say is that the jump    *)
(* finds a bootloader: after it the program may be "lost"                  *)
(* (startup.c:69-96, bootloader.c:45-71).                                  *)
THEOREM ExceptionsHandledCorrect == PowerSpec => []ExceptionsHandled
  <1>1. ASSUME PowerInv PROVE ExceptionsHandled
    <2> SUFFICES ASSUME pc \notin Over, NEW e \in Exception, CanBeTaken(e)
                 PROVE  HasHandler(e)
      BY DEF ExceptionsHandled, Over
    <2>1. CASE pc \in FromFlash
      <3>1. vtor = "flash" /\ masked /\ boot = "whole"
        BY <1>1, <2>1 DEF PowerInv, VectorsInv, BootInv, FromFlash, ResetVector
      <3>2. e \in FaultException
        BY <3>1 DEF CanBeTaken
      <3> QED
        BY <3>1, <3>2 DEF HasHandler, InMemory, VectorOf, FlashVector
    <2>2. CASE pc \in FromRam
      <3>1. vtor = "ram" /\ table = RamVector /\ data = "loaded"
        BY <1>1, <2>2 DEF PowerInv, VectorsInv
      <3> QED
        BY <3>1 DEF HasHandler, InMemory, VectorOf, RamVector
    <2> QED
      BY <1>1, <2>1, <2>2 DEF PowerInv, PcOK
  <1> QED
    BY <1>1, PowerInvariant, PTL

(* With no event left, the device is connected exactly while the bus has   *)
(* power, and configured at most while connected (device usb.c:135-158).   *)
THEOREM ConnectionCorrect == PowerSpec => []ConnectionFollowsCable
  <1>1. ASSUME PowerInv PROVE ConnectionFollowsCable
    BY <1>1 DEF PowerInv, BusType, CableInv, ConnectionFollowsCable, UsbInterrupt
  <1> QED
    BY <1>1, PowerInvariant, PTL

(* A list of one callback is followed to its end.                          *)
LEMMA OneInList ==
    ASSUME NEW r \in EnumRequest, next = LoadedNext, head[r] \in EnumCallback \cup {NULL}
    PROVE  Calls(r, {head[r]} \ {NULL})
  <1> DEFINE Step(f) == [n \in 0 .. 3 |-> IF n = 0 THEN head[r]
                             ELSE IF f[n - 1] \in EnumCallback THEN next[f[n - 1]] ELSE f[n - 1]]
             first == [n \in 0 .. 3 |-> IF n = 0 THEN head[r] ELSE NULL]
  <1>1. Cardinality(EnumCallback) = 3
    <2>1. EnumCallback = ({"dfu_class_req_callback"} \cup {"dfu_set_config_callback"})
                             \cup {"dfu_set_interface_callback"}
      BY CallbacksAre DEF Registering
    <2> DEFINE one == {"dfu_class_req_callback"}
               two == one \cup {"dfu_set_config_callback"}
    <2>2. IsFiniteSet(one) /\ Cardinality(one) = 1
      BY FS_Singleton
    <2>3. IsFiniteSet(two) /\ Cardinality(two) = 2
      <3>1. "dfu_set_config_callback" \notin one
        OBVIOUS
      <3> HIDE DEF one
      <3>2. IsFiniteSet(two) /\ Cardinality(two) = Cardinality(one) + 1
        BY <2>2, <3>1, FS_AddElement
      <3> QED
        BY <2>2, <3>2
    <2>4. "dfu_set_interface_callback" \notin two
          /\ EnumCallback = two \cup {"dfu_set_interface_callback"}
      BY <2>1
    <2> HIDE DEF two
    <2>5. Cardinality(EnumCallback) = Cardinality(two) + 1
      BY <2>3, <2>4, FS_AddElement
    <2> QED
      BY <2>3, <2>5
  <1>2. \A c \in EnumCallback : next[c] = NULL
    BY DEF LoadedNext
  <1>3. first = Step(first)
    <2>1. ASSUME NEW n \in 0 .. 3
          PROVE  first[n] = (IF n = 0 THEN head[r]
                             ELSE IF first[n - 1] \in EnumCallback THEN next[first[n - 1]]
                             ELSE first[n - 1])
      <3>1. CASE n = 0
        BY <3>1
      <3>2. CASE n # 0
        <4>1. n - 1 \in 0 .. 3 /\ first[n - 1] \in EnumCallback \cup {NULL} /\ first[n] = NULL
          BY <3>2
        <4> HIDE DEF first
        <4> QED
          BY <3>2, <4>1, <1>2
      <3> QED
        BY <3>1, <3>2
    <2> QED
      BY <2>1
  <1>4. Links(r) = Step(Links(r))
    <2> HIDE DEF first
    <2>1. \E f : f = Step(f)
      BY <1>3
    <2> QED
      BY <1>1, <2>1, Zenon DEF Links
  <1>5. PICK link : link = Links(r)
    OBVIOUS
  <1>6. link = Step(link)
    BY <1>4, <1>5
  <1>7. link[0] = head[r]
    BY <1>6
  <1>8. link[1] = NULL
    <2>1. link[1] = IF link[0] \in EnumCallback THEN next[link[0]] ELSE link[0]
      BY <1>6
    <2> QED
      BY <1>2, <1>7, <2>1
  <1>9. link[2] = NULL
    <2>1. link[2] = IF link[1] \in EnumCallback THEN next[link[1]] ELSE link[1]
      BY <1>6
    <2> QED
      BY <1>8, <2>1, CallbacksAre
  <1>10. link[3] = NULL
    <2>1. link[3] = IF link[2] \in EnumCallback THEN next[link[2]] ELSE link[2]
      BY <1>6
    <2> QED
      BY <1>9, <2>1, CallbacksAre
  <1>11. DOMAIN link = {0, 1, 2, 3}
    <2>1. DOMAIN link = 0 .. 3
      BY <1>6
    <2> QED
      BY <2>1
  <1>12. {link[n] : n \in DOMAIN link} = {head[r], NULL}
    BY <1>7, <1>8, <1>9, <1>10, <1>11
  <1>13. {link[n] : n \in DOMAIN link} \ {NULL} = {head[r]} \ {NULL}
    BY <1>12
  <1> QED
    BY <1>1, <1>5, <1>10, <1>13, Zenon DEF Calls

(* As soon as the USB interrupt can be taken, requests reach their         *)
(* callbacks and only those, the state machine is initialised and the      *)
(* descriptors are there (main.c:46-49).                                   *)
THEOREM HostIsServedCorrect == PowerSpec => []HostIsServed
  <1>1. ASSUME PowerInv PROVE HostIsServed
    <2> SUFFICES ASSUME UsbInterrupt PROVE HostIsServed
      BY DEF HostIsServed
    <2>1. pc \in Served /\ library = "up"
      BY <1>1 DEF PowerInv, InterruptInv, UsbInterrupt
    <2>2. dfu \in {"IDLE", "BUSY", "DETACH"} /\ AskedFor \subseteq registered
      BY <1>1, <2>1 DEF PowerInv, InterruptInv, ListsInv
    <2>3. next = LoadedNext /\ head = HeadWith(Registering)
      BY <1>1, <2>1 DEF PowerInv, ListsInv
    <2>4. ASSUME NEW r \in EnumRequest
          PROVE  Calls(r, {cb \in EnumCallback : CallbackRequest[cb] = r})
      <3>1. head[r] \in EnumCallback \cup {NULL}
            /\ {head[r]} \ {NULL} = {cb \in EnumCallback : CallbackRequest[cb] = r}
        BY <2>3, CallbacksAre, RequestsAre DEF HeadWith, Registering, EnumRequest
      <3> QED
        BY <2>3, <3>1, OneInList
    <2> QED
      BY <2>2, <2>4 DEF HostIsServed
  <1> QED
    BY <1>1, PowerInvariant, PTL

=============================================================================
