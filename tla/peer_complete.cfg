\* No crash, no loss: only the order in which the three nodes tick varies.
CONSTANTS
    Nodes <- MC_Nodes
    Electors <- MC_Nodes
    Nil = Nil
    Limit <- MC_Limit
    MaxCrashes = 0
    MaxLoss = 0
    MinPruneAge = 4
    MaxPruneAge = 6
    DownCap = 8
SPECIFICATION PeersSpec
PROPERTY LeaderSeesAll
