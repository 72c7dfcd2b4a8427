CONSTANTS
    EnterpriseCRDs = TRUE
    InitVariant = "Enterprise"
    Variants <- MCVariants
    InitObjs <- MCEnterpriseObjs
    Toggle <- MCToggle
    MaxChanges = 4
    MaxErrors = 1
    ErrStages <- MCErrStages
    MidPassDelete = FALSE
    MayBreak = TRUE
SPECIFICATION Spec
PROPERTY TeardownSpec
