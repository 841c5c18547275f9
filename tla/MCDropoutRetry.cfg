CONSTANTS
    Listings = {1, 2, 3}
    Slots = {1, 2}
    Dest <- MCDest
    MaxJobs = 2
    MaxFaults = 1
    MaxEdits = 1
SPECIFICATION Spec
INVARIANT RetryAccepted
CHECK_DEADLOCK FALSE
