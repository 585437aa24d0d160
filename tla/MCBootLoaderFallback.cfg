SPECIFICATION Spec
CONSTANTS
    v1 = v1
    v2 = v2
    NoImage = NoImage
    Image <- MCImage
    Size <- MCLargeSize
    BankPages = 3
    CopyPages = 2
    HostPages = 3
    Faults <- MCFallback
INVARIANT AlwaysBootsWholeImage
