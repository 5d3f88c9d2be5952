\* Three elector-capable nodes, no crash; the CLI on node 1's machine runs
\* elector commands against any node.
CONSTANTS
    Nodes <- MC_Nodes
    Electors <- MC_Nodes
    Nil = Nil
    Limit <- MC_Limit
    MaxCrashes = 0
    MaxLoss = 0
    MinPruneAge = 4
    MaxPruneAge = 6
    DownCap = 0
    Runners <- MC_Runners
    Outside = Outside
    Homes <- MC_Homes
    Commands <- MC_Elector
    NoNode = NoNode
    TimeoutMin = 4
    TimeoutMax = 7
SPECIFICATION RpcSpec
INVARIANT RpcTypeOK
PROPERTY ElectorRpcAnswered
