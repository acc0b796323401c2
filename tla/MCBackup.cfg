SPECIFICATION FairSpec
CONSTANTS
    Keys <- Seconds
    MaxTime = 3
    Period = 2
    RetentionCount = 1
    MaxRequests = 1
    MaxChanges = 1
    MaxDeletes = 1
    MaxFaults = 1
    MaxCrashes = 1
    MaxEvents = 1
INVARIANTS TypeOK ArchivesWhole CompletedRestorable RetentionKeepsEnough
           NoOrphanArchive OneBackupPerScheduledTime
PROPERTIES KeepsPromise BackupEnds ScheduleServed
CHECK_DEADLOCK FALSE
