\* Three elector-capable nodes, no crash, no loss: do the non-leaders settle as Servants?
CONSTANTS
    Nodes <- MC_Nodes
    Electors <- MC_Nodes
    Nil = Nil
    Limit <- MC_Limit
    MaxCrashes = 0
    MaxLoss = 0
SPECIFICATION Spec
PROPERTY OthersSettleAsServants
