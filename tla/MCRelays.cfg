SPECIFICATION Spec
CONSTANTS
    Posts <- PageAndComment
    AuthorOf <- Whose
    ParentOf <- Answers
    NoPost = "none"
    Followers <- AmyAndFay
    Messages <- OneMessage
    Kinds <- AllKinds
    MaxArrivals = 3
    MaxTroubles = 1
    Unsaid = Unsaid
INVARIANTS
    RelaysInv
    ShownOnce
    ToldOnce
    RoomFirst
PROPERTIES
    EventuallyHandled
CHECK_DEADLOCK FALSE
CONSTRAINT
    ThreeInAll
