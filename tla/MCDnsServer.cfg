SPECIFICATION Spec
CONSTANTS
    Questions <- MCQuestions
    Sockets = {s1, s2, s3}
    NoSocket = NoSocket
    MaxWaiting = 2
INVARIANTS
    TypeOK
    NoSocketLeak
    OwnersAgree
    ServerNeverStuck
PROPERTIES
    LookupsAnswered
