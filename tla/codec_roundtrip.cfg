\* Every append overload at the edges of its encoding, lists nested one
\* deep, up to four appends: what reader >> and contents() read back is
\* what was written.
SPECIFICATION MC_Spec
CONSTANTS
    Ints <- MC_Ints
    Longs <- MC_Longs
    StrLens = {0, 15, 16}
    RawLens = {6, 4096}
    Fill <- MC_Fill
    MaxOps = 4
    MaxDepth = 2
INVARIANTS TypeOK RoundTrip
PROPERTY ArchiveImplemented
\* encode stops once done() has run or an append has thrown
CHECK_DEADLOCK FALSE
