\* One elector node, StateUpdates reordered: a delayed StateUpdate of the
\* running instance arrives after a later one.
CONSTANTS
    Self = Self
    Other = Other
    Nil = Nil
    E1 = E1
    E2 = E2
    Electors <- MC_OneElector
    MaxTick = 2
    MaxStarts = 2
    WarmAt = 1
    AutoRecover = 1
    StatusValues <- MC_StatusValues
    DisabledModes = {FALSE}
    Masters = {Self, Other}
SPECIFICATION Spec
PROPERTY StateUpdatesInOrder
