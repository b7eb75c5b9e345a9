SPECIFICATION Spec
CONSTANTS
    Users <- AnnAndBob
    Actors <- Identities
    Own <- TheirIdentities
    Oldest <- TheirOldest
    Rooms <- Room1And2
    RoomActor <- WhoseRoom
    FollowersOf <- TheirFollowers
    Barrable <- Guests
    Menus <- SaidOrVoted
    MaxRequests = 2
    MaxEvents = 3
    MaxTimeouts = 1
    MaxCrashes = 1
INVARIANTS
    OutboundInv
    DuplicatesExplained
    ConfirmedOnly
    DeletedAtFollowers
    Heard
CONSTRAINT
    OneTrouble
CHECK_DEADLOCK FALSE
