SPECIFICATION Spec
CONSTANTS
    Users = {1, 2, 3}
    OpenIDs = {"o1", "o2"}
    Numbers = {1, 9}
    Logins = {"l1", "l2", "l3"}
    LoginOf <- MCLoginOf
    Edits = {e1, e2}
    Faces = {"f1"}
    NoUser = NoUser
    NoNumber = NoNumber
SYMMETRY Symmetry
INVARIANTS
    TypeOK
    OneAccount
    VerifiedWasConfirmed
    VerifiedNumberUnique
CHECK_DEADLOCK FALSE
