CONSTANTS
    Appenders = {a1, a2}
    Queries = {}
    QueryTimes = {}
    MinT = 0
    MaxT = 5
    MaxBatch = 1
    ChunkRange = 2
SPECIFICATION Spec
INVARIANTS WindowSealed
