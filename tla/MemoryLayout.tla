---------------------------- MODULE MemoryLayout ----------------------------
(***************************************************************************)
(* The address map of the device (memory_layout.h), the image header       *)
(* (struct bootloader_info, bootloader.h) and the values a byte of memory  *)
(* can hold, as far as the properties tell them apart.                     *)
(*                                                                         *)
(* A cell of memory stands for one 16-byte unit, the amount one call of    *)
(* MXC_FLC_Write128 programs.  A cell that came from an image file is the  *)
(* pair of the file and the offset in it, so that a misplaced, missing or  *)
(* repeated cell is visible wherever it ends up.                           *)
(***************************************************************************)
EXTENDS Integers

CONSTANTS
    FLASH_START,             \* first address of the flash
    FLASH_SIZE,              \* size of the flash, in cells
    PAGE_SIZE,               \* erase unit of the flash, in cells
    BOOTLOADER_INFO_OFFSET,  \* offset of struct bootloader_info in an image
    BOOTLOADER_INFO_SIZE,    \* sizeof(struct bootloader_info)
    TRANSFER_SIZE,           \* wTransferSize = sizeof(control_data) = sizeof(overflow)
    UINT32_MAX,              \* largest value of a 32-bit word
    File,                    \* the image files a host may download
    NoFile,                  \* not a file
    FileHeader,              \* the struct bootloader_info in each file
    FileSize                 \* the length of each file

-----------------------------------------------------------------------------

BOOTLOADER_SIZE == PAGE_SIZE * 2

BOOTLOADER_START == FLASH_START

APP_SIZE == FLASH_SIZE - BOOTLOADER_SIZE

(* On the device FLASH_START is 0x10000000, which makes APP_START the      *)
(* first address of the RAM.  An instance with FLASH_START equal to        *)
(* BOOTLOADER_SIZE has the application right behind the bootloader, where  *)
(* APP_SIZE and the upload code presume it.                                *)
APP_START == BOOTLOADER_START + BOOTLOADER_START

PAGE_ALIGN(x) == x - (x % PAGE_SIZE)

MINIMUM_SIZE == BOOTLOADER_INFO_OFFSET + BOOTLOADER_INFO_SIZE

FlashAddress == FLASH_START .. FLASH_START + FLASH_SIZE - 1

PageIndex == 0 .. PAGE_SIZE - 1

(* Arithmetic on uint32_t.                                                 *)
Word(x) == x % (UINT32_MAX + 1)

-----------------------------------------------------------------------------

(* The members of struct bootloader_info the code reads: whether magic is  *)
(* BOOTLOADER_MAGIC, start_address and length.                             *)
Header == [magic : BOOLEAN, start : 0 .. UINT32_MAX, length : 0 .. UINT32_MAX]

(* What those members read as where no header has been written: erased     *)
(* flash reads 0xFF in every byte.                                         *)
NoHeader == [magic |-> FALSE, start |-> UINT32_MAX, length |-> UINT32_MAX]

Cell == (File \cup {NoFile}) \X Nat

Blank == <<NoFile, 0>>   \* 0xFF in every byte: an erased cell, or padding
Torn  == <<NoFile, 1>>   \* neither erased nor what was to be programmed

(* The file whose header starts at mem[base + BOOTLOADER_INFO_OFFSET],     *)
(* NoFile if no file's header is there in full.                            *)
HeaderFile(mem, base) ==
    LET f == mem[base + BOOTLOADER_INFO_OFFSET][1]
    IN  IF \A o \in BOOTLOADER_INFO_OFFSET .. MINIMUM_SIZE - 1 :
               mem[base + o] = <<f, o>>
        THEN f ELSE NoFile

HeaderAt(mem, base) ==
    LET f == HeaderFile(mem, base)
    IN  IF f = NoFile THEN NoHeader ELSE FileHeader[f]

-----------------------------------------------------------------------------

ASSUME SizeAssumption ==
    /\ FLASH_START \in Nat /\ FLASH_SIZE \in Nat
    /\ PAGE_SIZE \in Nat \ {0}
    /\ FLASH_START % PAGE_SIZE = 0 /\ FLASH_SIZE % PAGE_SIZE = 0
    /\ FLASH_SIZE >= BOOTLOADER_SIZE
    /\ BOOTLOADER_INFO_OFFSET \in Nat
    /\ BOOTLOADER_INFO_SIZE \in Nat \ {0}
    /\ MINIMUM_SIZE <= PAGE_SIZE
    /\ TRANSFER_SIZE \in 1 .. PAGE_SIZE
    /\ UINT32_MAX \in Nat /\ FLASH_START + FLASH_SIZE <= UINT32_MAX

ASSUME FileAssumption ==
    /\ NoFile \notin File
    /\ FileHeader \in [File -> Header]
    /\ FileSize \in [File -> Nat]

=============================================================================
