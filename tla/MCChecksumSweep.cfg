\* Every four-bit packet, a sweep from every kind of start.
SPECIFICATION SweepSpec
CONSTANTS
    Words = 16
    DefaultMin = 3
    Mins = {0, 1, 5, 12}
INVARIANTS
    AlignedChecksumValid
    ChecksumNeverZero
CHECK_DEADLOCK FALSE
