SPECIFICATION AlertsSpec
CONSTANTS
    Orders = {o1}
    Withdrawals = {w1}
    Accounts = {a1}
    Services = {s1}
    Requested = {api}
    MaxEvents = 2
INVARIANTS AlertsTypeOK ToldOncePerScan
PROPERTIES AlertsFollowConditions
