SPECIFICATION Spec
CONSTANTS
    HTTP_SERVER_MONITOR_QUEUE_LEN = 3
    MaxChunks = 3
    PatientClient = TRUE
INVARIANTS
    RetriesAfterTimeout
