CONSTANTS
    WideBits <- MCWideBits
    NarrowBits <- MCNarrowBits
    Graces <- MCGracesWrap
    Nil = Nil
SPECIFICATION Spec
INVARIANT DeadlineCoversGrace
