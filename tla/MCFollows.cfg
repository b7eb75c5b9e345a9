SPECIFICATION Spec
CONSTANTS
    ann = ann
    bob = bob
    main = main
    alt = alt
    bobs = bobs
    channel = channel
    rem = rem
    board = board
    guild = guild
    Nothing = Nothing
    Users = {ann, bob}
    Profiles = {main, alt, bobs}
    Hosted = {channel}
    Remotes = {rem}
    Boards = {board}
    Guilds = {guild}
    OwnerOf <- MCOwnerOf
    OldestOf <- MCOldestOf
    Workloads <- MCWorkloads
    Slots <- FourSlots
    Length <- MCLength
    MaxFaults = 1
INVARIANTS
    FollowsInv
    BlockHolds
PROPERTIES
    FollowAnswered
