\* Two prioritized services; status scripts exit 0 or 1; maintenance on and off;
\* the supervisor may be asked to shut down at any point.
CONSTANTS
    Services <- MC_Services
    Prio <- MC_Prio
    Has <- MC_Has
    Disabled <- MC_NotDisabled
    StatusCodes <- MC_HealthStatusCodes
    MaintenanceModes = {FALSE, TRUE}
SPECIFICATION ShutdownSpec
INVARIANT ShutdownTypeOK
INVARIANT NoUnsupervisedScript
PROPERTY PriorityOrderKept
PROPERTY ShutdownCompletes
CHECK_DEADLOCK FALSE
