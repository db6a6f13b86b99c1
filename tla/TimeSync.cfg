\* main and the sync task end: the system may stop.
SPECIFICATION Spec
CHECK_DEADLOCK FALSE
CONSTANTS
    retry_count_max = 3
INVARIANTS
    TypeOK
    AwsNeedsTime
    RestMeansStarted
    TasksNeverStuck
PROPERTIES
    SyncTaskEnds
    TimeStartsAws
