CONSTANTS
    Names = {"A", "A!", "A 2"}
    Paths = {"x", "y"}
    Urls = {"u"}
    Lower <- MCLower
    Stems <- MCStems
    SlugOf <- MCSlugOf
    Invalid = {}
    Dirs = {"lib"}
    FirstFiles <- MCFirstFiles
    MaxEdits = 2
    MaxHands = 1
    MaxFaults = 1
SPECIFICATION Spec
INVARIANT TypeOK
INVARIANT SaveHitsItsShow
INVARIANT ImportsAgree
INVARIANT SlugFinds
PROPERTY NamesStayDistinct
PROPERTY RefreshLosesNothing
CHECK_DEADLOCK FALSE
