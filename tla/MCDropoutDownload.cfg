CONSTANTS
    Listings = {1, 2, 3}
    Slots = {1, 2}
    Dest <- MCDest
    MaxJobs = 2
    MaxFaults = 1
    MaxEdits = 1
SPECIFICATION Spec
INVARIANT TypeOK
INVARIANT SuccessIsComplete
INVARIANT RecordedIsPlaced
INVARIANT InventoryHonest
PROPERTY NothingOverwritten
CHECK_DEADLOCK FALSE
