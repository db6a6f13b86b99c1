SPECIFICATION PoweredSpec
CONSTANTS
    RFID_MAX_CARDS = 2
    CardIds <- MCCardIds
    DefaultCards <- MCDefaultCards
    Stamps <- MCOneStamp
    TimerOutlastsMain = TRUE
    Deinits = FALSE
INVARIANTS
    WriteNeverStuck
PROPERTIES
    ChangesReachFile
