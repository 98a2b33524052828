SPECIFICATION ScanSpec
CONSTANTS
    Vertex <- SmallVertex
    Kind <- SmallKind
    Buffers <- SmallBuffers
    Graphs <- SmallGraphs
    Levels0 <- SmallLevels0
    Bucket <- SmallBucket
    CounterValues = 256
INVARIANTS
    NeverReadsDestroyed
    BucketsExact
PROPERTY Promise
CHECK_DEADLOCK FALSE
