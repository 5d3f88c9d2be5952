\* The runner against any elector behaviour: one elector node whose instance
\* restarts once, ticks naming either node master, StateUpdates lost and
\* reordered, the supervisor reporting any verdict, enabled and disabled.
CONSTANTS
    Self = Self
    Other = Other
    Nil = Nil
    E1 = E1
    E2 = E2
    Electors <- MC_OneElector
    MaxTick = 2
    MaxStarts = 2
    WarmAt = 1
    AutoRecover = 1
    StatusValues <- MC_StatusValues
    DisabledModes = {FALSE, TRUE}
    Masters = {Self, Other}
SPECIFICATION Spec
INVARIANT TypeOK
INVARIANT ServicesFollowState
VIEW MC_View
INVARIANT ElectorGoneDemotes
