\* Violated: an image is accepted with a header that stops the bootloader.
SPECIFICATION Spec
CONSTANTS
    FLASH_START = 8
    FLASH_SIZE = 16
    PAGE_SIZE = 4
    BOOTLOADER_INFO_OFFSET = 2
    BOOTLOADER_INFO_SIZE = 1
    TRANSFER_SIZE = 2
    UINT32_MAX = 63
    NoFile = NoFile
    File <- MCFile
    FileSize <- MCFileSize
    FileHeader <- MCFileHeader
    InitialBootloader = "boot1"
    InitialApp = "app2"
    Offered = {"short"}
    HostRequests <- DownloadRequests
    Faults = {}
INVARIANTS
    BadAppLeadsToDfu
\* A device without a whole bootloader stops for good.
CHECK_DEADLOCK FALSE
