SPECIFICATION BroadcastSpec
CONSTANTS
    u1 = u1
    u2 = u2
    Users = {u1, u2}
    Announcements = {a1}
    MaxJobs = 2
    Requests <- MCRequests
    FlushEvery = 2
    Batch = 1
    MaxFaults = 1
CHECK_DEADLOCK FALSE
INVARIANTS BroadcastTypeOK OneExclusiveJob CompletedIsAccounted
PROPERTIES ExclusiveIsReleased DeletionsAreTried
