\* Three elector-capable nodes, one crash, no loss: does the largest id lead once it is back?
CONSTANTS
    Nodes <- MC_Nodes
    Electors <- MC_Nodes
    Nil = Nil
    Limit <- MC_Limit
    MaxCrashes = 1
    MaxLoss = 0
SPECIFICATION Spec
PROPERTY LargestElectorLeads
