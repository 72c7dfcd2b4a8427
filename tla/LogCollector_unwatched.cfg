CONSTANTS
    MultiTenant = FALSE
    EKS = FALSE
    InitObjs <- MCHealthyObjs
    InitLC <- MCSyslogLCInit
    Toggle = {"SyslogCA"}
    LCSpecs <- MCSpecs
    MaxChanges = 2
    MaxErrors = 0
    ErrStages <- MCErrStages
    NoCfg = NoCfg

SPECIFICATION FairSpec
PROPERTY Converges
