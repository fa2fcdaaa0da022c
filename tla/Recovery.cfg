\* A patient host after trouble of every kind.
SPECIFICATION RecoverySpec
CONSTANTS
    FLASH_START = 4
    FLASH_SIZE = 8
    PAGE_SIZE = 2
    BOOTLOADER_INFO_OFFSET = 1
    BOOTLOADER_INFO_SIZE = 1
    TRANSFER_SIZE = 2
    UINT32_MAX = 15
    NoFile = NoFile
    File <- MCFile
    FileSize <- SmallFileSize
    FileHeader <- SmallFileHeader
    InitialBootloader = "boot1"
    InitialApp = NoFile
    Offered = {"app2"}
    Wanted = "app2"
    HostRequests <- TroubleRequests
    Faults = {"flash", "usb", "power", "repeat"}
INVARIANTS
    TypeOK
    ProgramsErased
PROPERTIES
    BusyEnds
    UpdateCompletes
\* A device without a whole bootloader stops for good.
CHECK_DEADLOCK FALSE
