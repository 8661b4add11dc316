CONSTANTS
    MemWords = 16
    CodeEnd = 7
    DataEnd = 12
    WordSpan <- MCWordSpan
    OpSpan = 64
    NReg = 2
    ImmSpan = 16
    WordBits = 13
    MaxSteps = 12
    Images <- MCImages
SPECIFICATION Spec
INVARIANTS
    TypeOK
    StackBounds
    FlagsTrichotomy
    StepBound
PROPERTIES
    CodeIntegrity
    PreciseErrors
    ImplementsStack
    LastInFirstOut
    Termination
