\* Three nodes, two of them runners, no crash; the CLI on any node's
\* machine runs start, naming a node or not, against any node.
CONSTANTS
    Nodes <- MC_Nodes
    Electors <- MC_Nodes
    Nil = Nil
    Limit <- MC_Limit
    MaxCrashes = 0
    MaxLoss = 0
    MinPruneAge = 4
    MaxPruneAge = 6
    DownCap = 0
    Runners <- MC_Runners
    Outside = Outside
    Homes <- MC_AnyHome
    Commands <- MC_Start
    NoNode = NoNode
    TimeoutMin = 4
    TimeoutMax = 7
SPECIFICATION RpcSpec
INVARIANT StartRunsAtTarget
