SPECIFICATION FairSpec
CONSTANTS
    j1 = j1
    j2 = j2
    request = request
    Worker = Worker
    controller = controller
    Jobs = {j1, j2}
    LinkOf <- MCLinkOf
    Requests = {request}
    Controllers = {controller}
    MaxFailures = 2
    BatchLimit = 1
    MaxRuns = 2
    MaxDisturbances = 2
INVARIANTS
    TypeOK
    OneActiveOrderPerLink
    ActiveBelowLimit
    RunsAccountFor
    RunsCounted
PROPERTIES
    DueJobIsHandled
CHECK_DEADLOCK FALSE
