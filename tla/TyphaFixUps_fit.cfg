CONSTANTS
    WideBits <- MCWideBits
    NarrowBits <- MCNarrowBits
    Graces <- MCGracesFit
    Nil = Nil
SPECIFICATION Spec
INVARIANT DeadlineCoversGrace
