SPECIFICATION RoomsSpec
CONSTANTS
    SlotKinds <- EveryKind
    RoomIds = {r1, r2, r3}
    LocalNames = {main, alt}
    Matrix = matrix
    Inbox = {inbox}
    MaxOps = 5
    MaxFaults = 1
    Nothing = Nothing
INVARIANTS
    RoomsInv
    TombstonesLead
    BackfilledOnce
