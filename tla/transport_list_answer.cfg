CONSTANTS
    Threads = {t1, t2}
    p1 = p1
    p2 = p2
    Packets = {p1, p2}
    Handled = {p2}
    Size = 2
    PacketsSize = 2
    Fees <- MCFees
    ErrorLimit = 2
    Conns = {1, 2, 3, 4}
    MaxFaults = 0
SPECIFICATION Spec
INVARIANT AcceptedNotToldFailed
CHECK_DEADLOCK FALSE
