SPECIFICATION ManualSpec
CONSTANTS
    customer = customer
    referrer = referrer
    o1 = o1
    o2 = o2
    h1 = h1
    h2 = h2
    NoUser = NoUser
    Users = {customer, referrer}
    Levels = {1}
    OpeningBalance = 20
    OpeningReferral = 0
    AdjustAmounts = {}
    MaxAdjust = 0
    Orders = {o1, o2}
    Editors = {h1, h2}
    Customer <- MCCustomer
    Referrer <- MCReferrer
    AdminOrders = {o1, o2}
    LinkOf <- MCLinkOf
    OrderAmounts = {20}
    PartialRefunds = {10}
    NewStatuses <- MCNewStatuses
    Submittable = {o1}
    MaxSubmissions = 2
SYMMETRY EditorSymmetry
INVARIANTS
    ProcessedOnce
CHECK_DEADLOCK FALSE
