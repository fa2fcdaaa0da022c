------------------------------ MODULE Startup ------------------------------
(***************************************************************************)
(* startup.c and jump (bootloader.c): how the bootloader gets from its     *)
(* vector table in the flash into the RAM, and how it gives the processor  *)
(* away.  The linker script puts the vector table, the reset handler and   *)
(* five handlers (.flash_isr) into the flash, and all other code into      *)
(* .data, which the reset handler copies to the RAM before it can run.     *)
(*                                                                         *)
(* The state is what decides which code an exception ends in.  Of the RAM  *)
(* only the parts the reset handler writes one after the other are told    *)
(* apart, and of the flash only whether the bootloader is in it.           *)
(***************************************************************************)
EXTENDS Integers

VARIABLES
    pc,        \* where the main thread of execution is
    boot,      \* the bootloader's flash: "whole" or "erased"
    data,      \* .data in the RAM: "none", "partial" or "loaded"
    table,     \* __ram_vector: where each entry leads
    vtor,      \* the vector table in use: "flash", "ram" or "app"
    masked,    \* PRIMASK: all but NMI and hard fault wait
    enabled    \* the interrupts enabled in the NVIC

startupVars == <<boot, data, table, vtor, masked, enabled>>

-----------------------------------------------------------------------------

FaultException ==
    {"NonMaskableInt", "HardFault", "MemoryManagement", "BusFault", "UsageFault"}

Interrupt == {"USB"}     \* the one interrupt the program enables

Exception == FaultException \cup Interrupt

(* __isr_vector: the faults have handlers in the flash, the interrupts     *)
(* have theirs in .data.                                                   *)
FlashVector ==
    [e \in Exception |-> IF e \in FaultException THEN "flash_handler" ELSE "ram_handler"]

ResetVector == "flash_reset_handler"

(* What is in the RAM when the supply comes up.                            *)
Garbage == "garbage"

(* The processor is reset: the boot ROM leaves interrupts masked and uses  *)
(* the vector table at BOOTLOADER_START.  Without one nothing runs.        *)
PowerOn ==
    /\ pc' = IF boot = "whole" THEN ResetVector ELSE "dead"
    /\ data' = "none" /\ table' = [e \in Exception |-> Garbage]
    /\ vtor' = "flash" /\ masked' = TRUE /\ enabled' = {}
    /\ UNCHANGED boot

-----------------------------------------------------------------------------
(* flash_reset_handler                                                     *)

(* The loop that copies .data is under way.                                *)
CopyData ==
    /\ pc = ResetVector /\ pc' = "copying"
    /\ data' = "partial"
    /\ UNCHANGED <<boot, table, vtor, masked, enabled>>

DataCopied ==
    /\ pc = "copying" /\ pc' = "bss"
    /\ data' = "loaded"
    /\ UNCHANGED <<boot, table, vtor, masked, enabled>>

(* __ram_vector is in .bss too.                                            *)
ZeroBss ==
    /\ pc = "bss" /\ pc' = "vectors"
    /\ table' = [e \in Exception |-> "zero"]
    /\ UNCHANGED <<boot, data, vtor, masked, enabled>>

CopyVectors ==
    /\ pc = "vectors" /\ pc' = "handlers"
    /\ table' = FlashVector
    /\ UNCHANGED <<boot, data, vtor, masked, enabled>>

(* Mutant of Replaced: the entry of the bus fault is forgotten.            *)
ReplacedButOne == FaultException \ {"BusFault"}

(* The exceptions that get a handler in the RAM instead.                   *)
Replaced == FaultException

ReplaceHandlers ==
    /\ pc = "handlers" /\ pc' = "vtor"
    /\ table' = [e \in Exception |-> IF e \in Replaced THEN "ram_handler" ELSE table[e]]
    /\ UNCHANGED <<boot, data, vtor, masked, enabled>>

(* SCB->VTOR = __ram_vector                                                *)
SetVtor ==
    /\ pc = "vtor" /\ pc' = "init_system"
    /\ vtor' = "ram"
    /\ UNCHANGED <<boot, data, table, masked, enabled>>

(* __enable_irq, and the clocks.                                           *)
init_system ==
    /\ pc = "init_system" /\ pc' = "main"
    /\ masked' = FALSE
    /\ UNCHANGED <<boot, data, table, vtor, enabled>>

flash_reset_handler ==
    \/ CopyData \/ DataCopied \/ ZeroBss \/ CopyVectors \/ ReplaceHandlers
    \/ SetVtor \/ init_system

-----------------------------------------------------------------------------
(* jump: "jump_app" and "jump_boot" are its calls with APP_START and       *)
(* BOOTLOADER_START.                                                       *)

(* __disable_irq and the registers of the NVIC.                            *)
JumpQuiets ==
    /\ pc \in {"jump_app", "jump_boot"}
    /\ pc' = IF pc = "jump_app" THEN "leave_app" ELSE "leave_boot"
    /\ masked' = TRUE /\ enabled' = {}
    /\ UNCHANGED <<boot, data, table, vtor>>

(* VTOR and the branch to the reset vector of what is at the address, with *)
(* no look at what is there: where the bootloader is erased, the processor *)
(* is "lost", with a vector table that leads nowhere.                      *)
JumpLeaves ==
    /\ \/ pc = "leave_app" /\ pc' = "app" /\ vtor' = "app"
       \/ /\ pc = "leave_boot" /\ vtor' = "flash"
          /\ pc' = IF boot = "whole" THEN ResetVector ELSE "lost"
    /\ UNCHANGED <<boot, data, table, masked, enabled>>

-----------------------------------------------------------------------------
(* The processor takes an exception.                                       *)

(* NMI and the faults do not wait for anything.  (A fault the program does *)
(* not enable, and it enables none, is taken as a hard fault unless the    *)
(* boot ROM has enabled it: all five are allowed for.)                     *)
CanBeTaken(e) ==
    e \in FaultException \/ (e \in enabled /\ ~masked)

VectorOf(e) == IF vtor = "ram" THEN table[e] ELSE FlashVector[e]

(* There is code of the bootloader where the vector leads.                 *)
InMemory(handler) ==
    \/ handler = "flash_handler" /\ boot = "whole"
    \/ handler = "ram_handler" /\ data = "loaded"

HasHandler(e) ==
    /\ vtor = "flash" => boot = "whole"
    /\ InMemory(VectorOf(e))

=============================================================================
