\* A list of strings whose encoding is 4096 bytes or more: _pop_container
\* back-patches its size into 12 bits, and the reader no longer finds the
\* values that were written.
SPECIFICATION MC_Spec
CONSTANTS
    Ints = {}
    Longs = {}
    StrLens <- MC_LongStrLens
    RawLens = {}
    Fill <- MC_Fill
    MaxOps = 3
    MaxDepth = 2
PROPERTY ArchiveImplemented
\* encode stops once done() has run or an append has thrown
CHECK_DEADLOCK FALSE
