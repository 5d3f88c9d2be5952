\* Two runners: can _target_master outlive its runner's entry?
CONSTANTS
    Runners <- MC_Runners
    Names <- MC_Names
    Name <- MC_Name
    None = None
    ReportStates <- MC_ReportStates
    ReportSvcs <- MC_ReportSvcs
SPECIFICATION Spec
INVARIANT TargetNeverDangles
