CONSTANTS
    Names = {"A", "A!", "A 2"}
    Paths = {"x", "y"}
    Urls = {"u", "v"}
    Lower <- MCLower
    Stems <- MCStems
    SlugOf <- MCSlugOf
    Invalid = {}
    Dirs = {"lib"}
    FirstFiles <- MCPlaylists
    MaxEdits = 2
    MaxHands = 0
    MaxFaults = 0
SPECIFICATION Spec
PROPERTY SavedStaysReadable
CHECK_DEADLOCK FALSE
