CONSTANTS
    MultiTenant = FALSE
    EKS = FALSE
    InitObjs <- MCWindowsObjs
    InitLC <- MCPlainLC
    Toggle = {}
    LCSpecs <- MCSpecs
    MaxChanges = 1
    MaxErrors = 1
    ErrStages <- MCWinErrStages
    NoCfg = NoCfg

SPECIFICATION Spec
INVARIANT HealthyMeansWindowsApplied
