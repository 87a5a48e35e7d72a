--------------------------- MODULE OperationLedger ---------------------------
(***************************************************************************)
(* The server's ledger of reservations, borrow records, device operations  *)
(* and key states, and the flows that write it: the reservation and        *)
(* operation handlers, the device-event handlers and the schedulers.       *)
(*                                                                         *)
(* A PostgreSQL transaction that locks the operation row, or a single      *)
(* guarded UPDATE, is one step.  What a handler does BETWEEN two database  *)
(* calls is not atomic: a handler is a thread that keeps what it read (a   *)
(* reservation it found active, a row it will write back) while others     *)
(* run.  The cabinet is whatever it likes to be here: once a command has   *)
(* been published it may report any verdict, any number of times, in any   *)
(* order (the firmware does not recognise a command it already executed    *)
(* and QoS-1 delivery repeats events), so what is shown of the ledger does *)
(* not depend on how the cabinet behaves.                                  *)
(*                                                                         *)
(* request_id is UNIQUE on device_operations, so an operation is named by  *)
(* the client request that created it; borrow_records.reservation_id is    *)
(* UNIQUE, so a borrow record is named by its reservation.                 *)
(*                                                                         *)
(* slots.presence is left out: inventory snapshots overwrite it at any     *)
(* moment, so here the presence check of a pickup may pass or fail freely. *)
(* So may the checks that the user is verified and the cabinet online.     *)
(***************************************************************************)
EXTENDS Naturals, FiniteSets

CONSTANTS
    Keys,           \* keys, each with its own slot
    Cabinets,       \* devices
    CabinetOf,      \* the cabinet a key lives in
    Reservations,   \* reservations users may make
    KeyOf,          \* the key a reservation is for
    Earlier,        \* <<r, s>>: r is due back before the window of s begins
    NeedsApproval,  \* keys with requires_approval
    Requests,       \* client request ids
    Threads,        \* goroutines serving HTTP requests and device events
    MaxFaults,      \* restarts of the server process and failures of the database
    NoTask          \* no operation row under this request id

ASSUME LedgerAssumption ==
    /\ CabinetOf \in [Keys -> Cabinets]
    /\ KeyOf \in [Reservations -> Keys]
    /\ Earlier \subseteq Reservations \X Reservations
    /\ NeedsApproval \subseteq Keys
    /\ MaxFaults \in Nat
    /\ NoTask \notin [action : {"PICKUP", "RETURN"}, res : Reservations]

VARIABLES
    res,        \* reservations.status, "NONE" before the row exists
    window,     \* where the clock stands in the pickup window
    key,        \* keys.status
    borrow,     \* borrow_records.status of the reservation's record
    task,       \* action and reservation of an operation row
    status,     \* device_operations.status, "NONE" before the row exists
    scanned,    \* operations whose row carries a confirmed RFID scan
    aged,       \* operations older than the two-minute limit
    sends,      \* how many commands were published for an operation
    thread,     \* what each goroutine has read and does next
    sweep,      \* operations the timeout scheduler still has to handle
    closed,     \* history: operations that have ever had a verdict
    faults      \* history: faults so far

tables == <<res, key, borrow, task, status, scanned>>
vars   == <<res, window, key, borrow, task, status, scanned,
            aged, sends, thread, sweep, closed, faults>>

-----------------------------------------------------------------------------
(* Rows                                                                    *)

ReservationStatus == {"NONE", "PENDING", "APPROVED", "ACTIVE", "USED",
                      "REJECTED", "CANCELLED", "EXPIRED"}
Claiming     == {"PENDING", "APPROVED", "ACTIVE"}     \* isReservationActive
KeyStatus    == {"AVAILABLE", "RESERVED", "BORROWED"}
BorrowStatus == {"NONE", "BORROWING", "BORROWED", "RETURNING", "COMPLETED",
                 "EXCEPTION"}
Live         == {"AUTHORIZED", "EXECUTING"}
Terminal     == {"SUCCESS", "FAILED", "TIMEOUT", "CANCELLED"}

Tasks == [action : {"PICKUP", "RETURN"}, res : Reservations]

Pickup(r)   == [action |-> "PICKUP", res |-> r]
ReturnOf(r) == [action |-> "RETURN", res |-> r]

\* Two bookings of one key whose periods intersect.
Overlap(r, s) ==
    /\ KeyOf[r] = KeyOf[s]
    /\ <<r, s>> \notin Earlier
    /\ <<s, r>> \notin Earlier

TaskKey(job)     == KeyOf[job.res]
TaskCabinet(job) == CabinetOf[TaskKey(job)]

\* The partial unique indexes on active operations: one per cabinet, one
\* per key (a key belongs to one cabinet).
Contend(job, other) == TaskCabinet(job) = TaskCabinet(other)

ActiveOps == {q \in Requests : status[q] \in Live}

Busy(job) == \E q \in ActiveOps : Contend(task[q], job)

-----------------------------------------------------------------------------
(* Goroutines                                                              *)

Idle               == [pc |-> "idle"]
Creating(r)        == [pc |-> "create", res |-> r]
CancellingRes(r)   == [pc |-> "cancelRes", res |-> r]
Preparing(q, job)  == [pc |-> "prepare", req |-> q, task |-> job]
Beginning(q)       == [pc |-> "begin", req |-> q]
Dispatching(q)     == [pc |-> "dispatch", req |-> q]
Failing(q)         == [pc |-> "fail", req |-> q]
Aborting(q)        == [pc |-> "abort", req |-> q]
Cancelling(q)      == [pc |-> "cancel", req |-> q]
HoldingRow(q, row) == [pc |-> "rfid", req |-> q, row |-> row]

ThreadStates ==
         {Idle}
    \cup [pc : {"create", "cancelRes"}, res : Reservations]
    \cup [pc : {"prepare"}, req : Requests, task : Tasks]
    \cup [pc : {"begin", "dispatch", "fail", "abort", "cancel"}, req : Requests]
    \cup [pc : {"rfid"}, req : Requests, row : Live \cup Terminal]

Goto(t, next) == thread' = [thread EXCEPT ![t] = next]

-----------------------------------------------------------------------------
Init ==
    /\ res = [r \in Reservations |-> "NONE"]
    /\ window = [r \in Reservations |-> "future"]
    /\ key = [k \in Keys |-> "AVAILABLE"]
    /\ borrow = [r \in Reservations |-> "NONE"]
    /\ task = [q \in Requests |-> NoTask]
    /\ status = [q \in Requests |-> "NONE"]
    /\ scanned = {}
    /\ aged = {}
    /\ sends = [q \in Requests |-> 0]
    /\ thread = [t \in Threads |-> Idle]
    /\ sweep = {}
    /\ closed = {}
    /\ faults = 0

-----------------------------------------------------------------------------
(* The clock                                                               *)

\* A pickup window opens once every earlier booking's period is over.
OpenWindow(r) ==
    /\ window[r] = "future"
    /\ \A s \in Reservations : <<s, r>> \in Earlier => window[s] = "past"
    /\ window' = [window EXCEPT ![r] = "open"]
    /\ UNCHANGED <<tables, aged, sends, thread, sweep, closed, faults>>

CloseWindow(r) ==
    /\ window[r] = "open"
    /\ window' = [window EXCEPT ![r] = "past"]
    /\ UNCHANGED <<tables, aged, sends, thread, sweep, closed, faults>>

\* Two minutes pass since the operation was created or, later, dispatched.
Age(q) ==
    /\ status[q] \in Live
    /\ q \notin aged
    /\ aged' = aged \cup {q}
    /\ UNCHANGED <<tables, window, sends, thread, sweep, closed, faults>>

-----------------------------------------------------------------------------
(* Reservations                                                            *)

\* Keys.status once no claiming reservation is left on the key.
Released(k, after) ==
    IF key[k] = "RESERVED" /\ ~\E r \in Reservations :
                                   KeyOf[r] = k /\ after[r] \in Claiming
    THEN "AVAILABLE" ELSE key[k]

\* CreateReservation up to the insert: all its checks, on what it reads now.
CheckReservation(t, r) ==
    /\ thread[t] = Idle
    /\ res[r] = "NONE"
    /\ \A u \in Threads : thread[u] # Creating(r)
    /\ key[KeyOf[r]] # "BORROWED"
    /\ \A s \in Reservations :
           KeyOf[s] = KeyOf[r] =>
               /\ borrow[s] \notin {"BORROWING", "BORROWED", "RETURNING"}
               /\ ~(res[s] \in Claiming /\ Overlap(s, r))
    /\ Goto(t, Creating(r))
    /\ UNCHANGED <<tables, window, aged, sends, sweep, closed, faults>>

\* The insert, under the reservations_no_overlap exclusion constraint.
InsertReservation(t, r) ==
    /\ thread[t] = Creating(r)
    /\ \A s \in Reservations : res[s] \in Claiming => ~Overlap(s, r)
    /\ res' = [res EXCEPT ![r] =
                  IF KeyOf[r] \in NeedsApproval THEN "PENDING" ELSE "ACTIVE"]
    /\ key' = [key EXCEPT ![KeyOf[r]] = IF @ = "AVAILABLE" THEN "RESERVED" ELSE @]
    /\ Goto(t, Idle)
    /\ UNCHANGED <<window, borrow, task, status, scanned, aged, sends,
                   sweep, closed, faults>>

\* The exclusion constraint rejects the insert.
RejectReservation(t, r) ==
    /\ thread[t] = Creating(r)
    /\ \E s \in Reservations : res[s] \in Claiming /\ Overlap(s, r)
    /\ Goto(t, Idle)
    /\ UNCHANGED <<tables, window, aged, sends, sweep, closed, faults>>

\* Review of a pending reservation, under the row lock.
ReviewReservation(r) ==
    /\ res[r] = "PENDING"
    /\ res' \in {[res EXCEPT ![r] = verdict] :
                   verdict \in IF window[r] = "past"
                               THEN {"EXPIRED"} ELSE {"APPROVED", "REJECTED"}}
    /\ key' = IF res'[r] = "APPROVED" THEN key
              ELSE [key EXCEPT ![KeyOf[r]] = Released(KeyOf[r], res')]
    /\ UNCHANGED <<window, borrow, task, status, scanned, aged, sends,
                   thread, sweep, closed, faults>>

\* CancelReservation reads the reservation, without a lock ...
ReadForCancelReservation(t, r) ==
    /\ thread[t] = Idle
    /\ res[r] \in Claiming
    /\ Goto(t, CancellingRes(r))
    /\ UNCHANGED <<tables, window, aged, sends, sweep, closed, faults>>

\* ... and writes the whole row back, whatever became of it meanwhile.
CancelReservation(t, r) ==
    /\ thread[t] = CancellingRes(r)
    /\ res' = [res EXCEPT ![r] = "CANCELLED"]
    /\ key' = [key EXCEPT ![KeyOf[r]] = Released(KeyOf[r], res')]
    /\ Goto(t, Idle)
    /\ UNCHANGED <<window, borrow, task, status, scanned, aged, sends,
                   sweep, closed, faults>>

Lapsed == {r \in Reservations : res[r] \in Claiming /\ window[r] = "past"}

\* The reservation scheduler: one transaction over every lapsed reservation.
ExpireReservations ==
    /\ Lapsed # {}
    /\ res' = [r \in Reservations |-> IF r \in Lapsed THEN "EXPIRED" ELSE res[r]]
    /\ key' = [k \in Keys |-> IF \E r \in Lapsed : KeyOf[r] = k
                              THEN Released(k, res') ELSE key[k]]
    /\ UNCHANGED <<window, borrow, task, status, scanned, aged, sends,
                   thread, sweep, closed, faults>>

-----------------------------------------------------------------------------
(* Starting an operation                                                   *)

NoLiveBorrow(k) ==
    \A r \in Reservations :
        KeyOf[r] = k => borrow[r] \notin {"BORROWING", "BORROWED", "RETURNING"}

\* startPickup up to the transaction: every check, on what is read now.
CheckPickup(t, q, r) ==
    /\ thread[t] = Idle
    /\ status[q] = "NONE"
    /\ res[r] \in {"ACTIVE", "APPROVED"}
    /\ window[r] = "open"
    /\ key[KeyOf[r]] \in {"AVAILABLE", "RESERVED"}
    /\ ~Busy(Pickup(r))
    /\ NoLiveBorrow(KeyOf[r])
    /\ Goto(t, Preparing(q, Pickup(r)))
    /\ UNCHANGED <<tables, window, aged, sends, sweep, closed, faults>>

\* StartReturn up to the transaction.
CheckReturn(t, q, r) ==
    /\ thread[t] = Idle
    /\ status[q] = "NONE"
    /\ borrow[r] = "BORROWED"
    /\ ~Busy(ReturnOf(r))
    /\ Goto(t, Preparing(q, ReturnOf(r)))
    /\ UNCHANGED <<tables, window, aged, sends, sweep, closed, faults>>

\* Mutant: no UNIQUE reservation_id, a failed pickup may be tried again.
MayPrepareAgain(q, job) ==
    /\ status[q] = "NONE"
    /\ ~Busy(job)
    /\ borrow[job.res] \in
           IF job.action = "PICKUP" THEN {"NONE", "EXCEPTION"} ELSE {"BORROWED"}

\* Mutant: no unique indexes on active operations.
MayPrepareBusy(q, job) ==
    /\ status[q] = "NONE"
    /\ borrow[job.res] = IF job.action = "PICKUP" THEN "NONE" ELSE "BORROWED"

\* What the database itself still enforces when the rows are written:
\* UNIQUE request_id, the active-operation indexes, and for a pickup the
\* UNIQUE reservation_id of the new borrow record, for a return the guard
\* of the UPDATE.
MayPrepare(q, job) ==
    /\ status[q] = "NONE"
    /\ ~Busy(job)
    /\ borrow[job.res] = IF job.action = "PICKUP" THEN "NONE" ELSE "BORROWED"

\* PreparePickup / PrepareReturn: borrow record and operation, together.
Prepare(t, q, job) ==
    /\ thread[t] = Preparing(q, job)
    /\ MayPrepare(q, job)
    /\ borrow' = [borrow EXCEPT ![job.res] =
                     IF job.action = "PICKUP" THEN "BORROWING" ELSE "RETURNING"]
    /\ task' = [task EXCEPT ![q] = job]
    /\ status' = [status EXCEPT ![q] = "AUTHORIZED"]
    /\ Goto(t, Beginning(q))
    /\ UNCHANGED <<res, window, key, scanned, aged, sends, sweep,
                   closed, faults>>

\* Mutant: the loser of a race dispatches the operation it was given back.
PrepareRefusedDispatches(t, q, job) ==
    /\ thread[t] = Preparing(q, job)
    /\ ~MayPrepare(q, job)
    /\ Goto(t, IF status[q] = "NONE" THEN Idle ELSE Dispatching(q))
    /\ UNCHANGED <<tables, window, aged, sends, sweep, closed, faults>>

\* resolvePrepareError: the request's existing operation is returned, or an
\* error; either way this thread dispatches nothing.
PrepareRefused(t, q, job) ==
    /\ thread[t] = Preparing(q, job)
    /\ ~MayPrepare(q, job)
    /\ Goto(t, Idle)
    /\ UNCHANGED <<tables, window, aged, sends, sweep, closed, faults>>

\* Mutant: the row is left SENT, a status the handlers only ever read.
BeginSent(t, q) ==
    /\ thread[t] = Beginning(q)
    /\ status[q] = "AUTHORIZED"
    /\ status' = [status EXCEPT ![q] = "SENT"]
    /\ aged' = aged \ {q}
    /\ Goto(t, Dispatching(q))
    /\ UNCHANGED <<res, window, key, borrow, task, scanned, sends, sweep, closed,
                   faults>>

\* BeginExecution; sent_at restarts the operation's two minutes.
BeginExecution(t, q) ==
    /\ thread[t] = Beginning(q)
    /\ status[q] = "AUTHORIZED"
    /\ status' = [status EXCEPT ![q] = "EXECUTING"]
    /\ aged' = aged \ {q}
    /\ Goto(t, Dispatching(q))
    /\ UNCHANGED <<res, window, key, borrow, task, scanned, sends,
                   sweep, closed, faults>>

BeginRefused(t, q) ==
    /\ thread[t] = Beginning(q)
    /\ status[q] # "AUTHORIZED"
    /\ Goto(t, Idle)
    /\ UNCHANGED <<tables, window, aged, sends, sweep, closed, faults>>

\* The gateway publishes the command.  A publish that fails because the
\* broker is unreachable sends nothing; one that only timed out waiting for
\* the PUBACK has been sent all the same.
Dispatch(t, q) ==
    /\ thread[t] = Dispatching(q)
    /\ \/ /\ sends' = [sends EXCEPT ![q] = @ + 1]
          /\ thread' \in {[thread EXCEPT ![t] = Idle], [thread EXCEPT ![t] = Failing(q)]}
       \/ /\ sends' = sends
          /\ Goto(t, Failing(q))
    /\ UNCHANGED <<tables, window, aged, sweep, closed, faults>>

-----------------------------------------------------------------------------
(* Verdicts: transactions that lock the operation row                      *)

Conclude(q, verdict) ==
    /\ status' = [status EXCEPT ![q] = verdict]
    /\ closed' = closed \cup {q}

BorrowOf(q) == task[q].res

\* Mutant: a failed return is treated like a failed pickup.
FailAsPickup(q) ==
    IF status[q] \in Live
    THEN /\ borrow' = [borrow EXCEPT ![BorrowOf(q)] = "EXCEPTION"]
         /\ Conclude(q, "FAILED")
    ELSE UNCHANGED <<borrow, status, closed>>

\* Fail: the borrow record's status is overwritten whatever it was.
FailTx(q) ==
    IF status[q] \in Live
    THEN /\ borrow' = [borrow EXCEPT ![BorrowOf(q)] =
                          IF task[q].action = "RETURN" THEN "BORROWED" ELSE "EXCEPTION"]
         /\ Conclude(q, "FAILED")
    ELSE UNCHANGED <<borrow, status, closed>>

\* Timeout and Cancel: only a record that is in transit is put back.
PutBack(q) ==
    borrow' = [borrow EXCEPT ![BorrowOf(q)] =
                  IF @ \notin {"BORROWING", "RETURNING"} THEN @
                  ELSE IF task[q].action = "RETURN" THEN "BORROWED" ELSE "EXCEPTION"]

\* Mutant: the borrow record is forgotten.
TimeoutOperationOnly(q) ==
    IF status[q] \in Live
    THEN UNCHANGED borrow /\ Conclude(q, "TIMEOUT")
    ELSE UNCHANGED <<borrow, status, closed>>

\* Mutant: no second look at the status under the lock.
TimeoutUnchecked(q) == PutBack(q) /\ Conclude(q, "TIMEOUT")

TimeoutTx(q) ==
    IF status[q] \in Live
    THEN PutBack(q) /\ Conclude(q, "TIMEOUT")
    ELSE UNCHANGED <<borrow, status, closed>>

CancelTx(q) ==
    IF status[q] \in Live
    THEN PutBack(q) /\ Conclude(q, "CANCELLED")
    ELSE UNCHANGED <<borrow, status, closed>>

-----------------------------------------------------------------------------
(* Verdicts reached by the server                                          *)

DispatchFailed(t, q) ==
    /\ thread[t] = Failing(q)
    /\ FailTx(q)
    /\ Goto(t, Idle)
    /\ UNCHANGED <<res, window, key, task, scanned, aged, sends, sweep,
                   faults>>

\* CancelOperation reads the status, without a lock: an operation that has
\* been dispatched is aborted on the cabinet first, another is cancelled
\* straight away.
ReadForCancel(t, q) ==
    /\ thread[t] = Idle
    /\ status[q] \in Live
    /\ Goto(t, IF status[q] = "EXECUTING" THEN Aborting(q) ELSE Cancelling(q))
    /\ UNCHANGED <<tables, window, aged, sends, sweep, closed, faults>>

\* AbortOperation: confirmed by the cabinet, or refused, unanswered, unsent.
Abort(t, q) ==
    /\ thread[t] = Aborting(q)
    /\ thread' \in {[thread EXCEPT ![t] = Cancelling(q)], [thread EXCEPT ![t] = Idle]}
    /\ UNCHANGED <<tables, window, aged, sends, sweep, closed, faults>>

CancelOperation(t, q) ==
    /\ thread[t] = Cancelling(q)
    /\ CancelTx(q)
    /\ Goto(t, Idle)
    /\ UNCHANGED <<res, window, key, task, scanned, aged, sends, sweep,
                   faults>>

\* Mutant: only dispatched operations are looked for.
ExpiredExecuting == {q \in aged : status[q] = "EXECUTING"}

Expired == {q \in aged : status[q] \in Live}

\* ExpireTimedOutOperations: the query ...
FindExpired ==
    /\ sweep = {}
    /\ Expired # {}
    /\ sweep' = Expired
    /\ UNCHANGED <<tables, window, aged, sends, thread, closed, faults>>

\* ... and one turn of its loop: the abort's result is ignored.
TimeoutOperation(q) ==
    /\ q \in sweep
    /\ TimeoutTx(q)
    /\ sweep' = sweep \ {q}
    /\ UNCHANGED <<res, window, key, task, scanned, aged, sends, thread,
                   faults>>

-----------------------------------------------------------------------------
(* Events of the cabinet.  A handler that fails or finds a verdict changes *)
(* nothing and is a stuttering step.                                       *)

Reported(q) == sends[q] > 0

\* PICKUP_SUCCESS -> CompletePickup
PickupSucceeded(q) ==
    /\ Reported(q)
    /\ task[q].action = "PICKUP"
    /\ status[q] = "EXECUTING"
    /\ res[BorrowOf(q)] \in Claiming
    /\ borrow[BorrowOf(q)] = "BORROWING"
    /\ res' = [res EXCEPT ![BorrowOf(q)] = "USED"]
    /\ borrow' = [borrow EXCEPT ![BorrowOf(q)] = "BORROWED"]
    /\ key' = [key EXCEPT ![TaskKey(task[q])] = "BORROWED"]
    /\ Conclude(q, "SUCCESS")
    /\ UNCHANGED <<window, task, scanned, aged, sends, thread, sweep, faults>>

\* RETURN_SUCCESS -> CompleteReturn
ReturnSucceeded(q) ==
    /\ Reported(q)
    /\ task[q].action = "RETURN"
    /\ status[q] = "EXECUTING"
    /\ q \in scanned
    /\ borrow[BorrowOf(q)] = "RETURNING"
    /\ borrow' = [borrow EXCEPT ![BorrowOf(q)] = "COMPLETED"]
    /\ key' = [key EXCEPT ![TaskKey(task[q])] = "AVAILABLE"]
    /\ Conclude(q, "SUCCESS")
    /\ UNCHANGED <<res, window, task, scanned, aged, sends, thread, sweep, faults>>

\* Any failure event -> Fail
OperationFailed(q) ==
    /\ Reported(q)
    /\ status[q] \in Live
    /\ FailTx(q)
    /\ UNCHANGED <<res, window, key, task, scanned, aged, sends, thread,
                   sweep, faults>>

\* RFID_CONFIRMED, which cabinets send for returns alone (the tag is scanned
\* in rfid_verify_return only): the handler reads the whole operation row ...
ReadForScan(t, q) ==
    /\ thread[t] = Idle
    /\ Reported(q)
    /\ status[q] # "NONE"
    /\ task[q].action = "RETURN"
    /\ Goto(t, HoldingRow(q, status[q]))
    /\ UNCHANGED <<tables, window, aged, sends, sweep, closed, faults>>

\* ... and writes it back with the scanned tag, its old status included.
\* The active-operation indexes reject a row that would come back to life
\* beside another active operation; that error is ignored.
WriteScan(t, q, row) ==
    LET rejected == /\ row \in Live
                    /\ \E p \in ActiveOps \ {q} : Contend(task[p], task[q])
    IN  /\ thread[t] = HoldingRow(q, row)
        /\ status'  = IF rejected THEN status ELSE [status EXCEPT ![q] = row]
        /\ scanned' = IF rejected THEN scanned ELSE scanned \cup {q}
        /\ Goto(t, Idle)
        /\ UNCHANGED <<res, window, key, borrow, task, aged, sends,
                       sweep, closed, faults>>

-----------------------------------------------------------------------------
(* Faults                                                                  *)

Fault == faults < MaxFaults /\ faults' = faults + 1

\* The server process dies and starts again: goroutines are lost, rows stay.
Restart ==
    /\ Fault
    /\ thread' = [t \in Threads |-> Idle]
    /\ sweep' = {}
    /\ UNCHANGED <<tables, window, aged, sends, closed>>

\* A transaction of a handler is rolled back, or committed without an answer
\* (the step before): the handler returns its error and goes no further.
HandlerFails(t) ==
    /\ Fault
    /\ thread[t] # Idle
    /\ Goto(t, Idle)
    /\ UNCHANGED <<tables, window, aged, sends, sweep, closed>>

\* An operation cannot be timed out: the rest of the list is abandoned.
SweepFails ==
    /\ Fault
    /\ sweep # {}
    /\ sweep' = {}
    /\ UNCHANGED <<tables, window, aged, sends, thread, closed>>

FaultStep == Restart \/ SweepFails \/ \E t \in Threads : HandlerFails(t)

ReservationStep ==
    \/ ExpireReservations
    \/ \E r \in Reservations :
           \/ OpenWindow(r) \/ CloseWindow(r) \/ ReviewReservation(r)
           \/ \E t \in Threads :
                  \/ CheckReservation(t, r) \/ InsertReservation(t, r)
                  \/ RejectReservation(t, r)
                  \/ ReadForCancelReservation(t, r) \/ CancelReservation(t, r)

StartStep ==
    \E t \in Threads, q \in Requests :
        \/ \E r \in Reservations : CheckPickup(t, q, r) \/ CheckReturn(t, q, r)
        \/ \E job \in Tasks : Prepare(t, q, job) \/ PrepareRefused(t, q, job)
        \/ BeginExecution(t, q) \/ BeginRefused(t, q) \/ Dispatch(t, q)
        \/ DispatchFailed(t, q)

CancelStep ==
    \E t \in Threads, q \in Requests :
        ReadForCancel(t, q) \/ Abort(t, q) \/ CancelOperation(t, q)

EventStep ==
    \E q \in Requests :
        \/ PickupSucceeded(q) \/ ReturnSucceeded(q) \/ OperationFailed(q)
        \/ \E t \in Threads :
               \/ ReadForScan(t, q)
               \/ \E row \in Live \cup Terminal : WriteScan(t, q, row)

SweepStep == FindExpired \/ \E q \in Requests : Age(q) \/ TimeoutOperation(q)

Next == ReservationStep \/ StartStep \/ CancelStep \/ EventStep \/ SweepStep \/ FaultStep

Spec == Init /\ [][Next]_vars

\* The timeout scheduler's goroutine runs whenever it can, and time passes.
Fairness ==
    /\ WF_vars(FindExpired)
    /\ \A q \in Requests : WF_vars(Age(q)) /\ WF_vars(TimeoutOperation(q))

FairSpec == Spec /\ Fairness

-----------------------------------------------------------------------------
(* Properties                                                              *)

\* Every variable holds values of its column's or structure's type; an
\* operation row exists exactly when its request has a task.
TypeOK ==
    /\ res \in [Reservations -> ReservationStatus]
    /\ window \in [Reservations -> {"future", "open", "past"}]
    /\ key \in [Keys -> KeyStatus]
    /\ borrow \in [Reservations -> BorrowStatus]
    /\ task \in [Requests -> Tasks \cup {NoTask}]
    /\ status \in [Requests -> {"NONE"} \cup Live \cup Terminal]
    /\ scanned \subseteq Requests
    /\ aged \subseteq Requests
    /\ sends \in [Requests -> Nat]
    /\ thread \in [Threads -> ThreadStates]
    /\ sweep \subseteq Requests
    /\ closed \subseteq Requests
    /\ faults \in 0 .. MaxFaults
    /\ \A q \in Requests : task[q] = NoTask <=> status[q] = "NONE"

\* A cabinet, and so a key, never has two operations under way, although
\* the service's own check of that is stale by the time it inserts and a
\* late RFID event can bring a finished operation back to life.
OneActiveOperation ==
    \A p, q \in ActiveOps : Contend(task[p], task[q]) => p = q

\* A borrow record in transit always has an operation under way that will
\* settle it: no interleaving of verdicts, stale writes and faults leaves
\* a record BORROWING or RETURNING, and its key locked, for good.
NoStrandedBorrow ==
    \A r \in Reservations :
        /\ borrow[r] = "BORROWING" => \E q \in ActiveOps : task[q] = Pickup(r)
        /\ borrow[r] = "RETURNING" => \E q \in ActiveOps : task[q] = ReturnOf(r)

\* A key the ledger calls BORROWED has a borrow record it can be returned
\* through; without one no operation could ever make it available again.
BorrowedKeyHasBorrower ==
    \A k \in Keys : key[k] = "BORROWED" =>
        \E r \in Reservations : KeyOf[r] = k /\ borrow[r] \in {"BORROWED", "RETURNING"}

\* A reservation is served by one pickup operation at most, whatever became
\* of it: retries under fresh request ids never open a second one.
OnePickupPerReservation ==
    \A p, q \in Requests :
        /\ status[p] # "NONE" /\ status[q] # "NONE"
        /\ task[p].action = "PICKUP" /\ task[p] = task[q]
        => p = q

\* A client request moves the mechanism at most once, whichever handlers
\* its retries reach: no second command is published for an operation.
OneCommandPerRequest == \A q \in Requests : sends[q] <= 1

\* The verdict on a pickup is final: no late report, sweep, cancellation or
\* event handler replaces it.
PickupVerdictFinal ==
    [][\A q \in Requests :
           status[q] \in Terminal /\ task[q].action = "PICKUP"
           => status'[q] = status[q]]_vars

\* Every operation that is created is concluded, wherever the thread that
\* created it died: the timeout scheduler gets to it.
OperationsSettle ==
    \A q \in Requests : status[q] \in Live ~> status[q] \in Terminal

\* docs/04-API-CONTRACT.md:419 has clients stop polling at SUCCESS, FAILED,
\* TIMEOUT or CANCELLED: a verdict, once reached, is the last word.
VerdictFinal ==
    [][\A q \in Requests : status[q] \in Terminal => status'[q] = status[q]]_vars

\* docs/07-ERROR-CODES.md:44, KEY_ALREADY_BORROWED: a key that a borrow
\* record occupies is not given to another.
OneBorrowerPerKey ==
    \A r, s \in Reservations :
        /\ KeyOf[r] = KeyOf[s]
        /\ {borrow[r], borrow[s]} \subseteq {"BORROWING", "BORROWED", "RETURNING"}
        => r = s

\* docs/03-STATE-MACHINE.md:93, "USED --> [*]": a reservation whose key was
\* handed out stays used.
UsedFinal ==
    [][\A r \in Reservations : res[r] = "USED" => res'[r] = "USED"]_vars

\* The ledger seen as lending: the jobs its active operations are doing, and
\* the borrow records.
Lending == INSTANCE CabinetLending WITH
    Place  <- [r \in Reservations |-> CabinetOf[KeyOf[r]]],
    jobs   <- {task[q] : q \in ActiveOps},
    record <- borrow

\* Whatever its handlers, sweeps and stale writes do, seen from outside the
\* ledger lends: a cabinet is given one job at a time, the step that ends a
\* job settles its record, an ended pickup never starts again and a record
\* in EXCEPTION is left alone.
ImplementsLending == Lending!Spec

=============================================================================
