\* The main loop and the USB interrupt print into one buffer.
SPECIFICATION ConsoleSpec
CONSTANTS
    BUF_LEN = 12
    MainMessages <- MCMainMessages
    UsbMessages <- MCUsbMessages
INVARIANTS
    InsideBuffer
    TerminatorAhead
    NumbersWhole
PROPERTIES
    PrintingEnds
CHECK_DEADLOCK FALSE
