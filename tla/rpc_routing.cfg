\* Two elector-capable nodes, both runners, one crash and restart; the CLI
\* on node 1's machine runs elector commands and start with or without a
\* node argument against either node.  The CLI gives up after 4 to 7 rounds
\* (command_timeout, 6 s, against the 1 s round).
CONSTANTS
    Nodes <- MC_Pair
    Electors <- MC_Pair
    Nil = Nil
    Limit <- MC_Limit
    MaxCrashes = 1
    MaxLoss = 0
    MinPruneAge = 4
    MaxPruneAge = 6
    DownCap = 0
    Runners <- MC_Pair
    Outside = Outside
    Homes <- MC_Homes
    Commands <- MC_Commands
    NoNode = NoNode
    TimeoutMin = 4
    TimeoutMax = 7
SPECIFICATION RpcSpec
INVARIANT RpcTypeOK
PROPERTY ElectorRpcAnswered
