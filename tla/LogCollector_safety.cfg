CONSTANTS
    MultiTenant = FALSE
    EKS = FALSE
    InitObjs <- MCHealthyObjs
    InitLC <- MCPlainLC
    Toggle = {"License", "APIServer"}
    LCSpecs <- MCSpecs
    MaxChanges = 2
    MaxErrors = 1
    ErrStages <- MCErrStages
    NoCfg = NoCfg

SPECIFICATION Spec
INVARIANT HealthyMeansApplied
