CONSTANTS
    Names <- MCNames
    Stored <- MCStored
    Hash <- MCHash
    HashSlots = {0, 1}
    MaxSymbols = 3
    StringStart = 4
    Numbers = {0, 2}
    Texts <- MCTexts
    AddrLimit = 6
SPECIFICATION TableSpec
INVARIANTS
    TableTypeOK
    StringsApart
PROPERTY ImplementsDictionary
