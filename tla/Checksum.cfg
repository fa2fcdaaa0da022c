\* The checksum of an image, computed in three parts, against its definition.
SPECIFICATION ChecksumSpec
CONSTANTS
    Files <- MCFiles
    ChecksumOffset = 2
    Damages <- MCDamages
INVARIANTS
    ChecksumIsCrc
    AcceptsExactlyIntact
CHECK_DEADLOCK FALSE
