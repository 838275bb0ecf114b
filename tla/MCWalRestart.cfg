CONSTANTS
    Appenders = {a1}
    Labels = {l1}
    Kinds = {"float"}
    NoLabel = NoLabel
    MaxT = 2
    MaxRef = 1
    MaxSeg = 5
    MaxDeletes = 1
    MaxRestarts = 1
SPECIFICATION WholeSpec
INVARIANTS LogGivesBack DeletedStaysDeleted NothingInvented
CHECK_DEADLOCK FALSE
