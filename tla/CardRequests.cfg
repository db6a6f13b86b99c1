SPECIFICATION Spec
CONSTANTS
    Typed = {0, 1, 2, 3}
    INT_MAX = 2
    Defaults = {1}
    Connections = {c1, c2}
INVARIANTS
    TypeOK
    AddedIsAuthorized
    PageNeverStuck
PROPERTIES
    PageCatchesUp
