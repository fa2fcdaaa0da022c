\* The bootloader replaces itself and is read back, under every fault.
SPECIFICATION Spec
CONSTANTS
    FLASH_START = 6
    FLASH_SIZE = 12
    PAGE_SIZE = 3
    BOOTLOADER_INFO_OFFSET = 1
    BOOTLOADER_INFO_SIZE = 1
    TRANSFER_SIZE = 2
    UINT32_MAX = 31
    NoFile = NoFile
    File <- MCFile
    FileSize <- MiddleFileSize
    FileHeader <- MiddleFileHeader
    InitialBootloader = "boot1"
    InitialApp = "app2"
    Offered = {"boot2"}
    HostRequests <- AllRequests
    Faults = {"flash", "usb", "power"}
INVARIANTS
    TypeOK
    DetachSafe
    UploadInStep
\* A device without a whole bootloader stops for good.
CHECK_DEADLOCK FALSE
