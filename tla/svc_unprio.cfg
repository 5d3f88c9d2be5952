\* An unprioritized, disabled service beside a prioritized one; no status
\* scripts; no maintenance mode.
CONSTANTS
    Services <- MC_Services
    Prio <- MC_PrioUnprioFirst
    Has <- MC_HasNoStatus
    Disabled <- MC_FirstDisabled
    StatusCodes <- MC_AllStatusCodes
    MaintenanceModes = {FALSE}
SPECIFICATION Spec
PROPERTY TargetEventuallyResolved
