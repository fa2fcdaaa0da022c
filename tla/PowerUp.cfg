\* The bootloader from the supply coming up to the next program.
SPECIFICATION PowerSpec
INVARIANTS
    ExceptionsHandled
    HostIsServed
    ConnectionFollowsCable
PROPERTIES
    ConnectsToBus
\* A device whose bootloader is erased stops for good, as does one that waits.
CHECK_DEADLOCK FALSE
