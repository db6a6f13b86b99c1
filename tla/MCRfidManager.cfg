SPECIFICATION Spec
CONSTANTS
    RFID_MAX_CARDS = 2
    CardIds <- MCCardIds
    DefaultCards <- MCDefaultCards
    Stamps <- MCStamps
    TimerOutlastsMain = TRUE
    Deinits = TRUE
INVARIANTS
    TypeOK
    UniqueIds
    LookupsAgree
    CleanMeansDurable
    NoLostWakeup
PROPERTIES
    StoreSpec
