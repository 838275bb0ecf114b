CONSTANTS
    Appenders = {a1}
    Queries = {q1}
    QueryTimes = {0, 2}
    MinT = 0
    MaxT = 6
    MaxBatch = 1
    ChunkRange = 2
SPECIFICATION FairSpec
PROPERTIES CompactionEnds
