CONSTANTS
    v1 = v1
    v2 = v2
    v3 = v3
    shared = shared
    own = own
    Videos = {v1, v2, v3}
    Titles = {shared, own}
    Title <- MCTitle
    Skip = {}
    None = None
    MaxChanges = 1
    MaxFaults = 2
    MaxStuck = 1
SPECIFICATION Spec
SYMMETRY Symmetry
INVARIANT TypeOK
INVARIANT IndexMatchesLibrary
INVARIANT WholeRunSyncs
INVARIANT WholeRunHeals
PROPERTY HeldVideosKept
PROPERTY SelectedRunsOnlyAdd
