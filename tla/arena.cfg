SPECIFICATION Spec
CONSTANTS
    Types <- Classes
    SizeOf <- ClassSize
    AlignOf <- ClassAlign
    BufSize = 168
    ChunkSize = 176
    Names = {"a"}
    MaxBlocks = 3
PROPERTY ArenaPromise
CHECK_DEADLOCK FALSE
