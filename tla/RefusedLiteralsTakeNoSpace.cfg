CONSTANTS
    MemWords = 64
    CodeEnd = 31
    DataEnd = 47
    WordSpan <- MCWordSpan
    OpSpan = 256
    NReg = 4
    ImmSpan = 64
    WordBits = 20
    ByteSpan = 32
    MaxSteps = 5
    Images = {}
    Files <- Missing
    MaxProgramSize = 32
    StringBase = 16
    StringLimit = 32
    Names <- MCNames
    Stored <- MCStored
    Hash <- MCHash
    HashSlots = {0, 1}
    MaxSymbols = 8
    StringStart = 16
    StringName <- MCStringName
    Spelling <- MCSpelling
    Sources <- PipelineSources
    Capacity = 24
    JunkBytes = {21}
    Commands <- MCCommands
    Readable <- MCReadable
    HexBases <- MCHexBases
    HexHeader = 1000
SPECIFICATION PipelineSpec
INVARIANT RefusedLiteralsTakeNoSpace
