CONSTANTS
    WordSpan <- MCWordSpan
    OpSpan = 256
    NReg = 4
    ImmSpan = 64
    WordBits = 20
    ByteSpan = 32
    Names <- MCNames
    Stored <- MCStored
    Hash <- MCHash
    HashSlots = {0, 1}
    MaxSymbols = 3
    StringStart = 1
    StringName <- MCStringName
    Spelling <- MCSpelling
    Sources <- MCSources
    Capacity = 2
    JunkBytes = {21}
    Documents <- MCDocuments
    SyscallNumber <- MCSyscallNumber
    RegisterNumber <- MCRegisterNumber
    Written <- MCWritten
    LiteralLimit = 5
    RegisterName <- MCRegisterName
    Invocations <- MCInvocations
    LineLimit = 12
    LabelLimit = 6
    MaxSearchDirs = 2
SPECIFICATION ListingSpec
INVARIANTS
    ListingTypeOK
    StatementsAreLines
    LabelsByToken
    ArgumentsAgree
    SearchOutcome
    LabelsAgree
    RowsAreWindow
    ListingReassembles
PROPERTY ImplementsLines
