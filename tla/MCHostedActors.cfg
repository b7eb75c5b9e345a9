SPECIFICATION Spec
CONSTANTS
    Users <- TheUsers
    Members <- TheMembers
    Admins <- TheAdmins
    Handles <- TheHandles
    Reserved <- NoNames
    OldRooms <- HomeAndClub
    NewRooms <- Made
    First <- AnnAtHome
    Controllers <- WhoControls
    NoRecord = NoRecord
    Idle = Idle
    MaxCommands = 3
    MaxWarnings = 1
    MaxSteps = 4
    MaxChanges = 1
    MaxCrashes = 1
INVARIANTS
    HostedInv
    InStep
PROPERTIES
    SeatKept
    DeletionCompletes
CHECK_DEADLOCK FALSE
