\* Two runners with distinct names; elector restarts.
CONSTANTS
    Runners <- MC_Runners
    Names <- MC_Names
    Name <- MC_Name
    None = None
    ReportStates <- MC_SafetyReportStates
    ReportSvcs <- MC_ReportSvcs
SPECIFICATION Spec
INVARIANT MasterNeverDangles
INVARIANT ManualMeansMasterless
PROPERTY MasterAnnouncedHealthy
