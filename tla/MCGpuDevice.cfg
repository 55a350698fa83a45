CONSTANTS
    NaN = NaN
    Big = Big
    VendorIds = {1, 2}
    Versions = {1, 2}
    Numerals = {1, 2}
    OutOfRange <- Big
    NotANumber <- NaN
    MaxOptions = 2

SPECIFICATION Spec

INVARIANTS
    TypeOK
    FailsExactlyOnMalformed
    VersionOfLastOption

CHECK_DEADLOCK FALSE
