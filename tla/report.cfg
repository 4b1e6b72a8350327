CONSTANTS
    m1 = m1
    m2 = m2
    k1 = k1
    k2 = k2
    k3 = k3
    u1 = u1
    u2 = u2
    r1 = r1
    r2 = r2
    bare = bare
    fake = fake
    Msgs = {m1, m2}
    Keys = {k1, k2, k3}
    Urls = {u1, u2}
    Reports = {r1, r2, bare, fake}
    Fakes = {fake}
    Bare = {bare}
    Scenarios <- MCScenarios
    msgOf <- MCMsgOf
    urlOf <- MCUrlOf
    keyOf <- MCKeyOf
    RetryTimes = 1
    MaxFaults <- MCMaxFaults
SPECIFICATION FairSpec
INVARIANTS TypeOK ReportIsSomewhere DroppedWasTold PostsNeedFaults
PROPERTIES EveryReportConcluded ImplementsStore
CHECK_DEADLOCK FALSE
