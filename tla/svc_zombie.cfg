\* Two prioritized services; any status exit code; maintenance on and off.
CONSTANTS
    Services <- MC_Services
    Prio <- MC_Prio
    Has <- MC_Has
    Disabled <- MC_NotDisabled
    StatusCodes <- MC_AllStatusCodes
    MaintenanceModes = {FALSE, TRUE}
SPECIFICATION Spec
INVARIANT NoZombies
