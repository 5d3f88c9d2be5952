\* Three elector-capable nodes, one crash and restart; entries may be
\* pruned from 4 rounds on and are from 6 on.
CONSTANTS
    Nodes <- MC_Nodes
    Electors <- MC_Nodes
    Nil = Nil
    Limit <- MC_Limit
    MaxCrashes = 1
    MaxLoss = 0
    MinPruneAge = 4
    MaxPruneAge = 6
    DownCap = 0
SPECIFICATION PeersSpec
INVARIANT AtMostOneLeader
PROPERTY EventuallyStableLeader
PROPERTY ElectorFlagsConverge
