CONSTANTS
    Appenders = {a1}
    Queries = {q1}
    QueryTimes = {0, 1, 2, 4}
    MinT = 0
    MaxT = 6
    MaxBatch = 2
    ChunkRange = 2
SPECIFICATION Spec
INVARIANTS QueryComplete
