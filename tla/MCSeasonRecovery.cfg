CONSTANTS
    v1 = v1
    v2 = v2
    v3 = v3
    shared = shared
    own = own
    Videos = {v1, v2, v3}
    Titles = {shared, own}
    Title <- MCTitle
    Skip = {}
    None = None
    MaxChanges = 2
    MaxFaults = 1
    MaxStuck = 0
SPECIFICATION Spec
SYMMETRY Symmetry
PROPERTY RecoveryFinishesRenames
