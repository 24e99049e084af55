SPECIFICATION Spec
CONSTANTS
    StatusViewers = {"index"}
    DiagnosticViewers = {"gateway"}
    Answers <- MC_Answers
    CapabilityComponents <- MC_CapabilityComponents
INVARIANT UnreachableShowsNoLiveState
