SPECIFICATION Spec
CONSTANTS
    ann = ann
    mod = mod
    profile = profile
    shadow = shadow
    other = other
    Users <- MCUsers
    Actors <- MCActors
    Own <- MCOwn
    Oldest <- MCOldest
    HasRoom <- MCHasRoom
    Reactors <- MCReactors
    Barrable <- MCReactors
    MaxRequests = 2
    MaxEvents = 2
    MaxTimeouts = 1
    MaxCrashes = 1
INVARIANTS
    BridgeInv
    NothingUnasked
PROPERTIES
    UndoBeforeForget
    ReactionReaches
CONSTRAINT
    TroublesApart
