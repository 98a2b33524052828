SPECIFICATION ScanSpec
CONSTANTS
    Vertex <- ManyVertex
    Kind <- ManyKind
    Buffers <- ManyBuffers
    Graphs <- ManyGraphs
    Levels0 <- ManyLevels0
    Bucket <- ManyBucket
    CounterValues = 256
INVARIANT NeverReadsDestroyed
CHECK_DEADLOCK FALSE
