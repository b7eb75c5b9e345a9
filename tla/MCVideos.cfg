SPECIFICATION VideosSpec
CONSTANTS
    FromChat <- TheChats
    FromWidget <- TheWidgets
    Replacements <- Better
    OwnerFollowers <- Amy
    ChannelFollowers <- Cat
    MaxVideos = 2
    MaxCommands = 3
    MaxTroubles = 1
    None = None
INVARIANTS
    VideosInv
    IndexMatches
    FollowersMatch
CHECK_DEADLOCK FALSE
