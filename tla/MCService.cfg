SPECIFICATION FairSpec
CONSTANTS
    r0 = r0
    r1 = r1
    r2 = r2
    Register <- MCRegister
    Writable <- MCWritable
    Scan <- MCScan
    MaxOwed = 2
    Lapses <- MCLapses
INVARIANTS
    TypeOK
    NeverInitiates
PROPERTIES
    FramesAreWhole
    ReadAnswered
    WriteCarriedOut
