------------------------- MODULE MC_ServiceManager -------------------------
(* Model-checking instance of ServiceManager: two services, 00-one with   *)
(* every script and 01-two without demote and failed scripts, so both the *)
(* scripted and the direct transitions occur, under the priority gates.   *)
EXTENDS ServiceManager

MC_Services == {1, 2}
MC_Prio == [s \in MC_Services |-> s - 1]
MC_Has == [s \in MC_Services |->
             IF s = 1 THEN Events ELSE {"start", "stop", "status", "promote"}]
(* The same services without status scripts: status() then launches     *)
(* nothing, so no status check races update_states.                      *)
MC_HasNoStatus == [s \in MC_Services |-> MC_Has[s] \ {"status"}]
(* 00-one unprioritized and disabled, 01-two prioritized. *)
MC_PrioUnprioFirst == [s \in MC_Services |-> IF s = 1 THEN NO_PRIORITY ELSE 1]
MC_FirstDisabled == [s \in MC_Services |-> s = 1]
MC_NotDisabled == [s \in MC_Services |-> FALSE]
MC_AllStatusCodes == {0, 1, 90, 91, 92}
(* Status scripts that only report health (0) or failure (1), never a     *)
(* state of their own.                                                   *)
MC_HealthStatusCodes == {0, 1}
=============================================================================
