CONSTANTS
    Appenders = {a1}
    Labels = {l1}
    Kinds = {"float"}
    NoLabel = NoLabel
    MaxT = 2
    MaxRef = 2
    MaxSeg = 7
    MaxDeletes = 0
    MaxRestarts = 0
SPECIFICATION WholeSpec
INVARIANTS LogGivesBack KnownRefs CheckpointFaithful
CHECK_DEADLOCK FALSE
