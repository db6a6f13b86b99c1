SPECIFICATION Spec
CHECK_DEADLOCK FALSE
CONSTANTS
    retry_count_max = 3
PROPERTIES
    AnnouncesCurrentStatus
