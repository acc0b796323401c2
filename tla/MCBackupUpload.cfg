SPECIFICATION FairSpec
CONSTANTS
    Keys <- Seconds
    MaxTime = 2
    Period = 2
    RetentionCount = 1
    MaxRequests = 1
    MaxChanges = 1
    MaxDeletes = 1
    MaxFaults = 1
    MaxCrashes = 1
    MaxEvents = 1
PROPERTY UploadReturns
CHECK_DEADLOCK FALSE
