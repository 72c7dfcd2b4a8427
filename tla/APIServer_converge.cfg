CONSTANTS
    EnterpriseCRDs = FALSE
    InitVariant = ""
    Variants <- MCCalico
    InitObjs = {}
    Toggle <- MCToggle
    MaxChanges = 4
    MaxErrors = 1
    ErrStages <- MCErrStages
    MidPassDelete = FALSE
    MayBreak = TRUE
SPECIFICATION FairSpec
PROPERTY Converges FinalizerReleased
