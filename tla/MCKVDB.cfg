SPECIFICATION Spec
CONSTANTS
    Key = {"k1", "k2"}
    Value = {"short", "long"}
    ValueOf <- MCValueOf
    SECTOR_NUM = 3
    SecSize = 6
    KvLen <- MCKvLen
    KV_HDR_DATA_SIZE = 1
    FDB_SEC_REMAIN_THRESHOLD = 1
    MaxCuts = 2
INVARIANTS
    TypeOK
    ReadsBack
    OneCopy
    SpareSector
    Fits
PROPERTY StoreIsAtomic
