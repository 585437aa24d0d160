SPECIFICATION FairSpec
CONSTANTS
    v1 = v1
    v2 = v2
    NoImage = NoImage
    Image <- MCImage
    Size <- MCSize
    BankPages = 3
    CopyPages = 2
    HostPages = 4
    Faults <- MCFaults
INVARIANTS
    TypeOK
    BootsWholeImage
    RecoverySource
    InterruptedUpgradeRecovers
PROPERTIES
    BankWrittenUnderMark
    RecoveryRestores
    UpgradeIsAtomic
    RequestServed
    BackInService
