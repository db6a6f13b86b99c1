SPECIFICATION PoweredPortalSpec
CONSTANTS
    RFID_MAX_CARDS = 1
    CardIds <- MCCardIds
    DefaultCards <- MCDefaultCards
    Stamps <- MCStamps
    TimerOutlastsMain = TRUE
    Deinits = FALSE
    HTTP_SERVER_MONITOR_QUEUE_LEN = 3
    MaxChunks = 1
    PatientClient = TRUE
INVARIANTS
    UpdateNeverStuck
PROPERTIES
    AppliedUpdateBoots
