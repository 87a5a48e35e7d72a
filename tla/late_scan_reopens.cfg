SPECIFICATION Spec
CONSTANTS
    k1 = k1
    c1 = c1
    r1 = r1
    r2 = r2
    Keys = {k1}
    Cabinets = {c1}
    CabinetOf <- OneKeyCabinet
    Reservations = {r1}
    KeyOf <- OneBooking
    Earlier <- NoneEarlier
    NeedsApproval = {}
    Requests = {q1, q2}
    Threads = {t1, t2}
    MaxFaults = 0
    NoTask = NoTask
PROPERTIES VerdictFinal
CHECK_DEADLOCK FALSE
