----------------------- MODULE ReservationTransactions -----------------------
(***************************************************************************)
(* The transactions that write reservations and keys.status, statement by  *)
(* statement, as PostgreSQL runs them side by side under READ COMMITTED    *)
(* (no isolation level is set anywhere): creation, cancellation, review,   *)
(* expiry, and the verdicts of pickups and returns.                        *)
(*                                                                         *)
(* A statement sees what is committed when it begins, and what its own     *)
(* transaction wrote.  A row that is written or selected FOR UPDATE is     *)
(* locked until the transaction ends; whoever wants it waits, and then     *)
(* looks again whether the newer version still matches its WHERE.          *)
(*                                                                         *)
(* OperationLedger takes each of these transactions as one step; here is   *)
(* what that abstraction leaves out.  The bookings are ones that the       *)
(* exclusion constraint admits together; the administrator's edit of a     *)
(* key's status is not among the transactions.  From the check of a pickup *)
(* to its verdict the key is taken: that two pickups can both pass the     *)
(* check is left to OperationLedger, which has the check apart.            *)
(***************************************************************************)
EXTENDS Naturals, FiniteSets

CONSTANTS
    Keys,
    Reservations,
    KeyOf,          \* the key a reservation is for
    NeedsApproval,  \* keys with requires_approval
    Calls,          \* goroutines and their database connections
    Nobody          \* the holder of a row that is not locked

Rows == Keys \cup Reservations

ASSUME TransactionsAssumption ==
    /\ Keys \cap Reservations = {}
    /\ KeyOf \in [Reservations -> Keys]
    /\ NeedsApproval \subseteq Keys
    /\ Nobody \notin Calls

VARIABLES
    row,        \* committed reservations.status and keys.status
    draft,      \* the newest version of a row, committed or not
    holder,     \* the call whose transaction has locked a row
    call,       \* what a call is doing
    past,       \* reservations whose pickup window is over
    contended   \* history: keys whose release two transactions decided at once

vars == <<row, draft, holder, call, past, contended>>

Claiming  == {"PENDING", "APPROVED", "ACTIVE"}
GivenUp   == {"REJECTED", "CANCELLED", "EXPIRED"}
Final     == GivenUp \cup {"USED"}
ReservationStatus == {"NONE"} \cup Claiming \cup Final
KeyStatus == {"AVAILABLE", "RESERVED", "BORROWED"}

\* Versions of the rows of both tables.
Versions == {v \in [Rows -> KeyStatus \cup ReservationStatus] :
                /\ \A k \in Keys : v[k] \in KeyStatus
                /\ \A r \in Reservations : v[r] \in ReservationStatus}

-----------------------------------------------------------------------------
(* Transactions                                                            *)

Kinds == {"none", "create", "cancel", "review", "expire", "pickup", "return"}
Steps == {"idle", "insert", "lock", "update", "review", "lapsed", "use", "count",
          "key", "await", "set", "commit"}

\* todo: the reservations a call has yet to deal with; key: the key of the
\* one it is dealing with.
Idle == [kind |-> "none", at |-> "idle", key |-> Nobody, todo |-> {}]

Job(kind, at, k, todo) == [kind |-> kind, at |-> at, key |-> k, todo |-> todo]

Goto(c, at) == call' = [call EXCEPT ![c].at = at]

\* After one reservation the expiry goes on to the next it has locked.
Continue(c) == Goto(c, IF call[c].todo = {} THEN "commit" ELSE "update")

Free(c, x) == holder[x] \in {c, Nobody}

\* What a statement of c sees of a row when it begins.
Visible(c, x) == IF holder[x] = c THEN draft[x] ELSE row[x]

Write(c, x, status) ==
    /\ Free(c, x)
    /\ holder' = [holder EXCEPT ![x] = c]
    /\ draft' = [draft EXCEPT ![x] = status]

\* c has given a reservation of the key up and is not yet committed.
Releasing(c, k) ==
    \E r \in Reservations : KeyOf[r] = k /\ holder[r] = c /\ draft[r] \in GivenUp

NoteContention ==
    contended' = contended \cup
        {k \in Keys : \E c, d \in Calls : c # d /\ Releasing(c, k)' /\ Releasing(d, k)'}

Init ==
    /\ row = [x \in Rows |-> IF x \in Keys THEN "AVAILABLE" ELSE "NONE"]
    /\ draft = row
    /\ holder = [x \in Rows |-> Nobody]
    /\ call = [c \in Calls |-> Idle]
    /\ past = {}
    /\ contended = {}

-----------------------------------------------------------------------------
(* What is checked before a transaction begins, on what is committed then  *)

Begin(c, job) ==
    /\ call[c] = Idle
    /\ call' = [call EXCEPT ![c] = job]
    /\ UNCHANGED <<row, draft, holder, past, contended>>

\* A reservation's id is made by the call that creates it.
BeingCreated(r) ==
    \E c \in Calls : call[c].kind = "create" /\ (r \in call[c].todo \/ holder[r] = c)

CreateReservation(c, r) ==
    /\ row[r] = "NONE"
    /\ ~BeingCreated(r)
    /\ row[KeyOf[r]] # "BORROWED"
    /\ Begin(c, Job("create", "insert", KeyOf[r], {r}))

CancelReservation(c, r) ==
    /\ row[r] \in Claiming
    /\ Begin(c, Job("cancel", "update", KeyOf[r], {r}))

\* The clock is read here, before there is a transaction.
ReviewReservation(c, r) ==
    /\ row[r] = "PENDING"
    /\ Begin(c, Job("review", IF r \in past THEN "lapsed" ELSE "review", KeyOf[r], {r}))

\* The scheduler's goroutine, one run at a time; SELECT ... FOR UPDATE finds
\* the rows it is going to lock.
ExpireReservations(c) ==
    LET lapsed == {r \in past : row[r] \in Claiming}
    IN  /\ \A d \in Calls : call[d].kind # "expire"
        /\ lapsed # {}
        /\ Begin(c, Job("expire", "lock", Nobody, lapsed))

\* A key has one operation at a time (OperationLedger, OneActiveOperation).
InOperation(k) == \E c \in Calls : call[c].kind \in {"pickup", "return"} /\ call[c].key = k

\* From startPickup to CompletePickup.
CompletePickup(c, r) ==
    /\ row[r] \in {"APPROVED", "ACTIVE"}
    /\ r \notin past
    /\ row[KeyOf[r]] # "BORROWED"
    /\ ~InOperation(KeyOf[r])
    /\ Begin(c, Job("pickup", "use", KeyOf[r], {r}))

\* From StartReturn to CompleteReturn.
CompleteReturn(c, k) ==
    /\ row[k] = "BORROWED"
    /\ ~InOperation(k)
    /\ Begin(c, Job("return", "set", k, {}))

-----------------------------------------------------------------------------
(* Statements on reservations                                              *)

\* tx.Create, then the key is reserved.
Insert(c) == \E r \in call[c].todo :
    /\ call[c].at = "insert"
    /\ Write(c, r, IF KeyOf[r] \in NeedsApproval THEN "PENDING" ELSE "ACTIVE")
    /\ call' = [call EXCEPT ![c].at = "key", ![c].todo = {}]
    /\ UNCHANGED <<row, past, contended>>

\* Mutant: the rows found are expired without a second look at them.
LockUnseen(c) == \E r \in call[c].todo :
    /\ call[c].at = "lock"
    /\ Write(c, r, draft[r])
    /\ LET rest == call[c].todo \ {r}
           mine == {x \in Reservations : holder'[x] = c}
       IN  call' = [call EXCEPT
               ![c].todo = IF rest # {} THEN rest ELSE mine,
               ![c].at = IF rest # {} THEN "lock" ELSE "update"]
    /\ UNCHANGED <<row, past, contended>>

\* SELECT ... FOR UPDATE of the expiry: row by row, each looked at again once
\* it is free.
LockLapsed(c) == \E r \in call[c].todo :
    /\ call[c].at = "lock"
    /\ Free(c, r)
    /\ holder' = IF row[r] \in Claiming THEN [holder EXCEPT ![r] = c] ELSE holder
    /\ LET rest == call[c].todo \ {r}
           mine == {x \in Reservations : holder'[x] = c}
       IN  call' = [call EXCEPT
               ![c].todo = IF rest # {} THEN rest ELSE mine,
               ![c].at = IF rest # {} THEN "lock" ELSE IF mine # {} THEN "update" ELSE "commit"]
    /\ UNCHANGED <<row, draft, past, contended>>

\* The UPDATE of a cancellation, which names the row only, or of an expiry,
\* on a row it has locked.
Update(c) == \E r \in call[c].todo :
    /\ call[c].at = "update"
    /\ Write(c, r, IF call[c].kind = "cancel" THEN "CANCELLED" ELSE "EXPIRED")
    /\ call' = [call EXCEPT ![c] = Job(@.kind, "count", KeyOf[r], @.todo \ {r})]
    /\ NoteContention
    /\ UNCHANGED <<row, past>>

\* Review looks at the row FOR UPDATE and writes its verdict, by the clock
\* read before: a window that ends in between does not count.
Review(c) == \E r \in call[c].todo :
    /\ call[c].at \in {"review", "lapsed"}
    /\ \/ /\ Free(c, r)
          /\ row[r] # "PENDING"
          /\ call' = [call EXCEPT ![c] = Idle]
          /\ UNCHANGED <<draft, holder, contended>>
       \/ \E verdict \in IF call[c].at = "lapsed" THEN {"EXPIRED"} ELSE {"APPROVED", "REJECTED"} :
              /\ row[r] = "PENDING"
              /\ Write(c, r, verdict)
              /\ call' = [call EXCEPT ![c].todo = {},
                             ![c].at = IF verdict = "APPROVED" THEN "commit" ELSE "count"]
              /\ NoteContention
    /\ UNCHANGED <<row, past>>

\* Mutant: the key is locked before the reservation.
UseKeyFirst(c) == \E r \in call[c].todo :
    /\ call[c].at = "use"
    /\ IF holder[KeyOf[r]] # c
       THEN Write(c, KeyOf[r], "BORROWED") /\ UNCHANGED call
       ELSE /\ Free(c, r)
            /\ row[r] \in Claiming
            /\ Write(c, r, "USED")
            /\ call' = [call EXCEPT ![c].at = "set", ![c].todo = {}]
    /\ UNCHANGED <<row, past, contended>>

\* CompletePickup uses the reservation if it still claims the key.
Use(c) == \E r \in call[c].todo :
    /\ call[c].at = "use"
    /\ Free(c, r)
    /\ IF row[r] \in Claiming
       THEN /\ Write(c, r, "USED")
            /\ call' = [call EXCEPT ![c].at = "set", ![c].todo = {}]
       ELSE /\ call' = [call EXCEPT ![c] = Idle]
            /\ UNCHANGED <<draft, holder>>
    /\ UNCHANGED <<row, past, contended>>

-----------------------------------------------------------------------------
(* Statements on the key                                                   *)

\* Mutant: the count is made outside the transaction.
CountOutside(c) ==
    /\ call[c].at = "count"
    /\ IF \E r \in Reservations : KeyOf[r] = call[c].key /\ row[r] \in Claiming
       THEN Continue(c)
       ELSE Goto(c, "key")
    /\ UNCHANGED <<row, draft, holder, past, contended>>

\* The claims that are left, as far as they can be seen.
Count(c) ==
    /\ call[c].at = "count"
    /\ IF \E r \in Reservations : KeyOf[r] = call[c].key /\ Visible(c, r) \in Claiming
       THEN Continue(c)
       ELSE Goto(c, "key")
    /\ UNCHANGED <<row, draft, holder, past, contended>>

\* The status a key must have for the UPDATE of this call, and gets by it.
From(c) == IF call[c].kind = "create" THEN "AVAILABLE" ELSE "RESERVED"
To(c)   == IF call[c].kind = "create" THEN "RESERVED" ELSE "AVAILABLE"

\* UPDATE keys ... WHERE status = ...: a key seen in another status is no
\* reason to wait for it ...
FindKey(c) ==
    /\ call[c].at = "key"
    /\ IF Visible(c, call[c].key) = From(c) THEN Goto(c, "await") ELSE Continue(c)
    /\ UNCHANGED <<row, draft, holder, past, contended>>

\* Mutant: the status is not looked at again once the key is free.
WriteKeyUnseen(c) ==
    /\ call[c].at = "await"
    /\ Write(c, call[c].key, To(c))
    /\ Continue(c)
    /\ UNCHANGED <<row, past, contended>>

\* ... and one that had it may have another when the lock is got.
WriteKey(c) ==
    /\ call[c].at = "await"
    /\ Free(c, call[c].key)
    /\ IF draft[call[c].key] = From(c)
       THEN Write(c, call[c].key, To(c))
       ELSE UNCHANGED <<draft, holder>>
    /\ Continue(c)
    /\ UNCHANGED <<row, past, contended>>

\* updateKeyAndSlot, whatever the status was.
SetKey(c) ==
    /\ call[c].at = "set"
    /\ Write(c, call[c].key, IF call[c].kind = "pickup" THEN "BORROWED" ELSE "AVAILABLE")
    /\ Goto(c, "commit")
    /\ UNCHANGED <<row, past, contended>>

-----------------------------------------------------------------------------
(* The end of a transaction                                                *)

Unlocked(c) == [x \in Rows |-> IF holder[x] = c THEN Nobody ELSE holder[x]]

Commit(c) ==
    /\ call[c].at = "commit"
    /\ row' = [x \in Rows |-> IF holder[x] = c THEN draft[x] ELSE row[x]]
    /\ holder' = Unlocked(c)
    /\ call' = [call EXCEPT ![c] = Idle]
    /\ UNCHANGED <<draft, past, contended>>

\* A statement fails, the connection is lost or the server dies.
Rollback(c) ==
    /\ call[c].at # "idle"
    /\ draft' = [x \in Rows |-> IF holder[x] = c THEN row[x] ELSE draft[x]]
    /\ holder' = Unlocked(c)
    /\ call' = [call EXCEPT ![c] = Idle]
    /\ UNCHANGED <<row, past, contended>>

Lapse(r) ==
    /\ row[r] # "NONE"
    /\ r \notin past
    /\ past' = past \cup {r}
    /\ UNCHANGED <<row, draft, holder, call, contended>>

BeginStep(c) ==
    \/ \E r \in Reservations :
           \/ CreateReservation(c, r) \/ CancelReservation(c, r)
           \/ ReviewReservation(c, r) \/ CompletePickup(c, r)
    \/ ExpireReservations(c)
    \/ \E k \in Keys : CompleteReturn(c, k)

Statement(c) ==
    \/ Insert(c) \/ LockLapsed(c) \/ Update(c) \/ Review(c) \/ Use(c)
    \/ Count(c) \/ FindKey(c) \/ WriteKey(c) \/ SetKey(c) \/ Commit(c)

Next ==
    \/ \E c \in Calls : BeginStep(c) \/ Statement(c) \/ Rollback(c)
    \/ \E r \in Reservations : Lapse(r)

Spec == Init /\ [][Next]_vars

\* A transaction that can go on does, and who waits for a row gets it in turn.
FairSpec == Spec /\ \A c \in Calls : SF_vars(Statement(c))

-----------------------------------------------------------------------------
(* Properties                                                              *)

\* Rows and calls keep their types; what nobody has locked is committed.
TypeOK ==
    /\ row \in Versions /\ draft \in Versions
    /\ holder \in [Rows -> Calls \cup {Nobody}]
    /\ call \in [Calls -> [kind : Kinds, at : Steps, key : Keys \cup {Nobody},
                           todo : SUBSET Reservations]]
    /\ past \subseteq Reservations
    /\ contended \subseteq Keys
    /\ \A x \in Rows : holder[x] = Nobody => draft[x] = row[x]

\* Only a cancellation, which names its row without a status, ever replaces
\* the last status of a reservation: expiry, review and pickup meet on the
\* row's lock and the second finds it taken (reservation_repository.go:113-192,
\* operation_repository.go:275-285).
OnlyCancelOverwrites ==
    [][\A r \in Reservations :
           row[r] \in Final /\ row'[r] # row[r] => row'[r] = "CANCELLED"]_vars

\* The ledger takes a key that is out back only by a return: a creation or a
\* release that waited while a pickup took the key leaves it BORROWED
\* (reservation_repository.go:29, 105, 202).
BorrowedKept ==
    [][\A k \in Keys : row[k] = "BORROWED" /\ row'[k] # "BORROWED" =>
           \E c \in Calls : call[c].kind = "return" /\ call[c].key = k]_vars

\* A key is RESERVED for somebody (docs/03-STATE-MACHINE.md:62, 102) unless two
\* transactions that give up reservations of it have overlapped, each counting
\* what the other was giving up: no other order of creations, reviews, pickups
\* and returns strands it (reservation_repository.go:95-111, 194-207).
ReservedForSomebody ==
    \A k \in Keys \ contended : row[k] = "RESERVED" =>
        \E r \in Reservations : KeyOf[r] = k /\ row[r] \in Claiming

\* Transactions that wait for each other's rows all end: reservations are
\* locked before keys, and only the expiry locks several.
TransactionsEnd == \A c \in Calls : call[c].at # "idle" ~> call[c].at = "idle"

=============================================================================
