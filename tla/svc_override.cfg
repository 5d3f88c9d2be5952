\* Two prioritized services; status scripts exit 0 or 1; maintenance on and off.
CONSTANTS
    Services <- MC_Services
    Prio <- MC_Prio
    Has <- MC_Has
    Disabled <- MC_NotDisabled
    StatusCodes <- MC_HealthStatusCodes
    MaintenanceModes = {FALSE, TRUE}
SPECIFICATION Spec
PROPERTY StopsInPriorityOrder
