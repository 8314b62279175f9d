SPECIFICATION OrdersSpec
CONSTANTS
    customer = customer
    referrer = referrer
    o1 = o1
    o2 = o2
    h1 = h1
    h2 = h2
    NoUser = NoUser
    Users = {customer, referrer}
    Levels = {1, 4}
    OpeningBalance = 60
    OpeningReferral = 0
    AdjustAmounts = {}
    MaxAdjust = 0
    Orders = {o1, o2}
    Editors = {h1, h2}
    Customer <- MCCustomer
    Referrer <- MCReferrer
    AdminOrders = {}
    LinkOf <- MCLinkOf
    OrderAmounts = {40}
    PartialRefunds = {20}
    NewStatuses <- MCNewStatuses
SYMMETRY MCSymmetry
INVARIANTS
    OrdersTypeOK
    OrderBooks
    ReferralBooks
    RefundedIsWhole
PROPERTIES
    RefundIsFinal
    CommissionStays
    MoneyFollowsOrders
CHECK_DEADLOCK FALSE
