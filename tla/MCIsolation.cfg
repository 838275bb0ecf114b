CONSTANTS
    Series = {s1}
    MaxAppendID = 3
    MaxReads = 2
    MaxSamples = 3
SPECIFICATION Spec
INVARIANTS NoDirtyRead ReadsExactPrefix
PROPERTIES RepeatableRead WatermarkMonotone
CHECK_DEADLOCK FALSE
