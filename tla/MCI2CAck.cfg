SPECIFICATION Spec
CONSTANTS
    Reads <- MCReads
    Writes <- MCAlarm
    I2C_PAGE_SIZE = 3
    ByteMod = 8
INVARIANT OkIsAcknowledged
