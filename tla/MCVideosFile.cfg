SPECIFICATION VideosSpec
CONSTANTS
    FromChat <- TheChats
    FromWidget <- TheWidgets
    Replacements <- Better
    OwnerFollowers <- Amy
    ChannelFollowers <- Cat
    MaxVideos = 2
    MaxCommands = 3
    MaxTroubles = 0
    None = None
INVARIANT
    FileStays
CHECK_DEADLOCK FALSE
