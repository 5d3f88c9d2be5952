\* Two crashes: a node, then the Leader that still lists it.
CONSTANTS
    Nodes <- MC_Nodes
    Electors <- MC_Nodes
    Nil = Nil
    Limit <- MC_Limit
    MaxCrashes = 2
    MaxLoss = 0
    MinPruneAge = 4
    MaxPruneAge = 6
    DownCap = 8
SPECIFICATION PeersSpec
INVARIANT LeaderTableFresh
