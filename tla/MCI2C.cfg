SPECIFICATION FairSpec
CONSTANTS
    Reads <- MCReads
    Writes <- MCWrites
    I2C_PAGE_SIZE = 3
    ByteMod = 8
INVARIANTS
    TypeOK
    InBuffer
    OkIsWhole
    PagesTile
    BusReleased
    FailResets
PROPERTIES
    CallReturns
    StaysOnlyThere
