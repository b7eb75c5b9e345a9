SPECIFICATION Spec
CONSTANTS
    alice = alice
    bob = bob
    chat = chat
    beside = beside
    own = own
    new = new
    NoActor = NoActor
    NoName = NoName
    NoRoom = NoRoom
    NoRow = NoRow
    NoJob = NoJob
    Users <- MCUsers
    Usernames <- MCUsernames
    Default <- MCDefault
    Suffixed <- MCSuffixed
    Claimable <- MCClaimable
    OwnRooms <- MCOwnRooms
    BridgeRooms <- MCBridgeRooms
    Legacy <- MCLegacy
    Tasks <- MCTasks
    Runs <- MCRuns
    MaxIdentities = 2
    MaxKeys = 2
CONSTRAINT OneMeeting
SYMMETRY Symmetry
INVARIANTS
    RegistryInv
    AlwaysActive
PROPERTIES
    RoomKept
    ActiveNotStolen
