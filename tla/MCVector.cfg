SPECIFICATION Spec
CONSTANTS
    Vectors = {v, w}
    Values = {1, 2}
    None = None
    Capacities = {1}
    HeaderSize = 1
    Strings <- MCStrings
    ChunkSize = 5
    Align = 2
    Base = 1
    MaxCount = 3
    MaxTexts = 2
    MaxChunks = 3
INVARIANTS
    BlocksApart
    SpareSlotIsZero
PROPERTIES
    ImplementsLists
