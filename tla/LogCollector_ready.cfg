CONSTANTS
    MultiTenant = FALSE
    EKS = FALSE
    InitObjs <- MCHealthyObjs
    InitLC <- MCPlainLC
    Toggle = {"License"}
    LCSpecs <- MCSpecs
    MaxChanges = 2
    MaxErrors = 0
    ErrStages <- MCErrStages
    NoCfg = NoCfg

SPECIFICATION Spec
INVARIANT CRReadyMeansHealthy
