\* Three elector-capable nodes, no crash, up to two lost heartbeat
\* datagrams: do two candidates ever both promote?
CONSTANTS
    Nodes <- MC_Nodes
    Electors <- MC_Nodes
    Nil = Nil
    Limit <- MC_Limit
    MaxCrashes = 0
    MaxLoss = 2
    MinPruneAge = 4
    MaxPruneAge = 6
    DownCap = 0
SPECIFICATION PeersSpec
INVARIANT AtMostOneLeader
PROPERTY EventuallyStableLeader
