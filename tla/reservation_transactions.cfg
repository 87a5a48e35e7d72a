SPECIFICATION FairSpec
CONSTANTS
    k1 = k1
    Keys = {k1}
    Reservations = {r1, r2}
    KeyOf <- OneKey
    NeedsApproval = {k1}
    Calls = {c1, c2}
    Nobody = Nobody
INVARIANTS
    ReservedForSomebody
PROPERTIES
    OnlyCancelOverwrites
    BorrowedKept
    TransactionsEnd
CHECK_DEADLOCK FALSE
