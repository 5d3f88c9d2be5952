---------------------------- MODULE MC_Elector ----------------------------
(* Model-checking instance of Elector: two runners. *)
EXTENDS Elector

MC_Runners == {1, 2}
MC_Names == {"alpha", "beta"}
MC_Name == [r \in MC_Runners |-> IF r = 1 THEN "alpha" ELSE "beta"]
MC_ReportStates == S_Failed..S_Master
(* For the safety run: one state of each kind the elector tells apart
   (failed, down, not electable, electable, above Slave). *)
MC_SafetyReportStates == {S_Failed, S_Stopped, S_Slave, S_Master}
MC_ReportSvcs == {{}, {Promoted}, {FailedSvc}}
=============================================================================
