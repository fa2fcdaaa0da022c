\* Both regions updated in turn, and a file for neither.
SPECIFICATION Spec
CONSTANTS
    FLASH_START = 6
    FLASH_SIZE = 12
    PAGE_SIZE = 3
    BOOTLOADER_INFO_OFFSET = 1
    BOOTLOADER_INFO_SIZE = 1
    TRANSFER_SIZE = 2
    UINT32_MAX = 31
    NoFile = NoFile
    File <- MCFile
    FileSize <- MiddleFileSize
    FileHeader <- MiddleFileHeader
    InitialBootloader = "boot1"
    InitialApp = "app2"
    Offered = {"tiny", "boot2", "stray"}
    HostRequests <- DownloadRequests
    Faults = {"usb", "power"}
INVARIANTS
    StreamInOrder
    HeaderLast
PROPERTIES
    CompletionIsTrue
    ImplementsSafeUpdate
\* A device without a whole bootloader stops for good.
CHECK_DEADLOCK FALSE
