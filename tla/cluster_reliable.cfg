\* Three nodes, all elector-capable; one crash; one datagram lost.
CONSTANTS
    Nodes <- MC_Nodes
    Electors <- MC_Nodes
    Nil = Nil
    Limit <- MC_Limit
    MaxCrashes = 1
    MaxLoss = 1
SPECIFICATION Spec
INVARIANT TypeOK
INVARIANT AtMostOneLeader
PROPERTY EventuallyStableLeader
