\* One elector instance that keeps naming this runner master while the
\* runner's node sees no quorum; services promotable.
CONSTANTS
    Self = Self
    Other = Other
    Nil = Nil
    E1 = E1
    E2 = E2
    Electors <- MC_OneElector
    MaxTick = 3
    MaxStarts = 1
    WarmAt = 1
    AutoRecover = 1
    StatusValues = {2}
    DisabledModes = {FALSE}
    Masters = {Self}
SPECIFICATION Spec
PROPERTY QuorumLossDemotes
