CONSTANTS
    MemWords = 16
    CodeEnd = 7
    DataEnd = 12
    WordSpan <- MCWordSpan
    OpSpan = 64
    NReg = 4
    ImmSpan = 16
    WordBits = 16
    ByteSpan = 16
    MaxSteps = 10
    Images = {}
    Files <- MCFiles
    MaxProgramSize = 8
    StringBase = 8
    StringLimit = 16
    Reloaded <- MCReloaded
    MaxCalls = 3
SPECIFICATION HostSpec
INVARIANTS
    HostTypeOK
    LoadOutcome
    RunsProtected
    LoadCorrect
PROPERTIES
    LoaderConfined
    ProcessEnds
