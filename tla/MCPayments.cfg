SPECIFICATION PaymentsSpec
CONSTANTS
    u1 = u1
    u2 = u2
    d1 = d1
    w1 = w1
    w2 = w2
    h1 = h1
    h2 = h2
    Users = {u1, u2}
    Levels = {1}
    OpeningBalance = 1
    OpeningReferral = 1
    AdjustAmounts <- MCAdjustAmounts
    MaxAdjust = 1
    Deposits = {d1}
    Withdrawals = {w1, w2}
    Handlers = {h1, h2}
    Owner <- MCOwner
    ReferralWithdrawals = {w2}
    Amounts = {1, 2}
    DepositAmounts = {1, 2}
SYMMETRY HandlerSymmetry
INVARIANTS
    PaymentsTypeOK
    PaymentsBooks
    OneLedgerRowPerApproval
    HonestNotices
PROPERTIES
    DecisionsFinal
    ImplementsSettlement
CHECK_DEADLOCK FALSE
