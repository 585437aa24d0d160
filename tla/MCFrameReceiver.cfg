SPECIFICATION FairSpec
INVARIANTS
    TypeOK
    BufferMatchesState
    OddSlipIsDeaf
PROPERTIES
    EvenSlipRecovers
