\* Two runners: is a promoted target kept until it can be elected?
CONSTANTS
    Runners <- MC_Runners
    Names <- MC_Names
    Name <- MC_Name
    None = None
    ReportStates <- MC_ReportStates
    ReportSvcs <- MC_ReportSvcs
SPECIFICATION Spec
PROPERTY TargetKeptUntilElected
