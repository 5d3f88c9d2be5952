------------------------ MODULE MC_ServiceShutdown ------------------------
(* Model-checking instance of ServiceShutdown, over the services of       *)
(* MC_ServiceManager.                                                      *)
EXTENDS ServiceShutdown, MC_ServiceManager
=============================================================================
