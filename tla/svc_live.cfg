\* Two prioritized services; any status exit code; no maintenance mode.
CONSTANTS
    Services <- MC_Services
    Prio <- MC_Prio
    Has <- MC_HasNoStatus
    Disabled <- MC_NotDisabled
    StatusCodes <- MC_AllStatusCodes
    MaintenanceModes = {FALSE}
SPECIFICATION Spec
PROPERTY TargetEventuallyResolved
