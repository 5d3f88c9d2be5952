\* Every message type as the nodes build it, encoded and decoded.
SPECIFICATION Spec
CONSTANTS
    n1 = n1
    n2 = n2
    Version = 1
    Nil = Nil
    NoAddr = 0
    MinTime = 0
    Keys <- MC_Keys
    Msgs <- MC_Msgs
INVARIANT ReceivedAsSent
