CONSTANTS
    MemWords = 3
    CodeEnd = 0
    DataEnd = 1
    WordSpan = 16
    ByteSpan = 2
    HostWords = {0, 6, 15}
SPECIFICATION MemorySpec
INVARIANT MemoryTypeOK
PROPERTIES
    ReadOnlyCodeFrozen
    ByteWriteIsLocal
