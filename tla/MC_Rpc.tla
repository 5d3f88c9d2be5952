-------------------------------- MODULE MC_Rpc --------------------------------
EXTENDS Rpc

MC_Nodes == {1, 2, 3}
MC_Limit == 4
MC_Pair == {1, 2}
MC_Runners == {1, 2}
\* The routing runs: the CLI on node 1's machine, both command kinds.
MC_Homes == {1}
MC_Commands == {"elector", "start"}
\* The wrong-node run: the CLI on a node's machine runs a start naming a node.
MC_AnyHome == {1, 2, 3}
MC_Start == {"start"}
MC_Elector == {"elector"}
=============================================================================
