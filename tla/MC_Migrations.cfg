SPECIFICATION Spec
CONSTANTS
    u1 = u1
    q1 = q1
    Uploads <- MC_Uploads
    Quotes <- MC_Quotes
    MaxMints = 2
INVARIANTS
    TypeOK
    VersionIsPath
    UploadsCarried
    ChargedOnce
CHECK_DEADLOCK FALSE
