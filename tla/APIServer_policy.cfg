CONSTANTS
    EnterpriseCRDs = TRUE
    InitVariant = "Enterprise"
    Variants <- MCEnterprise
    InitObjs <- MCEnterpriseObjs
    Toggle = {}
    MaxChanges = 2
    MaxErrors = 0
    ErrStages <- MCErrStages
    MidPassDelete = FALSE
    MayBreak = FALSE
SPECIFICATION FairSpec
PROPERTY Converges
