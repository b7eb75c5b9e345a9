SPECIFICATION Spec
CONSTANTS
    n1 = n1
    n3 = n3
    alice = alice
    bob = bob
    carol = carol
    NoTask = NoTask
    NoEvent = NoEvent
    Activities <- MCActivities
    Notes <- MCNotes
    Actors <- MCActors
    Deliveries <- MCDeliveries
    Arrivals <- Scenarios
    Kind <- MCKind
    NoteOf <- MCNoteOf
    ActorOf <- MCActorOf
    AuthorOf <- MCAuthorOf
    AnnounceOf <- MCAnnounceOf
    Followed <- MCFollowed
    MaxFaults = 1
INVARIANTS
    MirrorInv
    MirroredOnce
PROPERTIES
    NoResurrection
    EventuallyMirrored
