------------------------------ MODULE MC_Runner ------------------------------
(* Model-checking instance of Runner: two elector nodes, two ticks per    *)
(* elector instance (the second past elector_startup_tolerance), a small  *)
(* auto_recover.                                                           *)
EXTENDS Runner

CONSTANTS E1, E2

MC_Electors == {E1, E2}
MC_OneElector == {E1}
MC_StatusValues == {Status_Error, Status_Ok, Status_Promotable}

(* The state without the names the order property uses (the instance      *)
(* numbers and heard): no action reads them, so states that differ only   *)
(* in them have the same futures for the runner's state.                   *)
MC_View == <<rs, enabled, elector, eAge, seqnrs, quorum, starts,
             [e \in Electors |-> <<inst[e] = NoInst, inst[e].tick>>],
             {[m EXCEPT !.inc = 0] : m \in net}>>
====
