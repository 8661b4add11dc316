CONSTANTS
    WordSpan <- MCWordSpan
    OpSpan = 256
    NReg = 4
    ImmSpan = 64
    WordBits = 20
    ByteSpan = 32
    Names <- MCNames
    Stored <- MCStored
    Hash <- MCHash
    HashSlots = {0, 1}
    MaxSymbols = 4
    StringStart = 8
    StringName <- MCStringName
    Spelling <- MCSpelling
    Sources <- MCSources
    Capacity = 13
    JunkBytes = {0, 21}
SPECIFICATION AssemblerSpec
INVARIANTS
    AssemblerTypeOK
    OutputIsProgram
PROPERTY AssemblyOutcome
