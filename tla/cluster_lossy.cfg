\* Three nodes, all elector-capable; no crash; up to three lost heartbeat datagrams.
CONSTANTS
    Nodes <- MC_Nodes
    Electors <- MC_Nodes
    Nil = Nil
    Limit <- MC_Limit
    MaxCrashes = 0
    MaxLoss = 3
SPECIFICATION Spec
PROPERTY EventuallyStableLeader
