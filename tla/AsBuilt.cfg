\* Violated: the address of the application as memory_layout.h computes it.
SPECIFICATION Spec
CONSTANTS
    FLASH_START = 16
    FLASH_SIZE = 16
    PAGE_SIZE = 4
    BOOTLOADER_INFO_OFFSET = 2
    BOOTLOADER_INFO_SIZE = 1
    TRANSFER_SIZE = 2
    UINT32_MAX = 63
    NoFile = NoFile
    File <- MCFile
    FileSize <- MCFileSize
    FileHeader <- MCFileHeader
    InitialBootloader = "boot1"
    InitialApp = NoFile
    Offered = {"app1"}
    HostRequests <- DownloadRequests
    Faults = {}
INVARIANTS
    ErasesOnlyFlash
\* A device without a whole bootloader stops for good.
CHECK_DEADLOCK FALSE
