SPECIFICATION MCSpec
CONSTANTS
    BlkTimes = 5
    BlkRanges <- MCRanges
    BlkMaxBytes = 5
    BlkRetention = 3
    BlkLate = 1
    BlkDeletes = 1
    BlkFaults = 1
    BlkCrashes = 1

    
PROPERTIES
    BlocksAreTidy
CHECK_DEADLOCK FALSE
