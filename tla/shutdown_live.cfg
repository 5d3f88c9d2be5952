\* Two prioritized services without status scripts; no maintenance mode.
CONSTANTS
    Services <- MC_Services
    Prio <- MC_Prio
    Has <- MC_HasNoStatus
    Disabled <- MC_NotDisabled
    StatusCodes <- MC_AllStatusCodes
    MaintenanceModes = {FALSE}
SPECIFICATION ShutdownSpec
INVARIANT ShutdownTypeOK
PROPERTY ShutdownCompletes
\* The destructor returns and the process exits (or koi::run builds a new
\* nexus, with a new service_manager in its initial state).
CHECK_DEADLOCK FALSE
