CONSTANTS
    a = a
    b = b
    s1 = s1
    s2 = s2
    s3 = s3
    refund = refund
    deduct = deduct
    x1 = x1
    x2 = x2
    n1 = n1
    n2 = n2
    f = f
    Accounts = {a, b}
    PostPaid = {b}
    Opening <- MCOpening
    Threshold <- MCThreshold
    Calls = {s1, s2, s3, refund, deduct, x1, x2, n1, n2, f}
    kind <- MCKind
    of <- MCOf
    to <- MCTo
    amount <- MCAmount
    setting <- MCSetting
    Products <- MCProducts
    Scenarios <- MCScenarios
    MaxFaults = 1
SPECIFICATION FairSpec
INVARIANTS TypeOK BalanceExplained OverdraftNeedsOverlap ExchangeWhole OrderCreditedOnce CompletedIsCredited AnswersMatchBooks
PROPERTY EveryLowAccountWarned
CHECK_DEADLOCK FALSE
