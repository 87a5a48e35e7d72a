----------------------- MODULE OperationLedgerProofs -----------------------
(***************************************************************************)
(* Proofs about OperationLedger, for any number of keys, cabinets,         *)
(* reservations, requests and goroutines.                                  *)
(*                                                                         *)
(* None of the ledger's invariants is inductive by itself.  IInv says what *)
(* they lean on: which borrow status goes with an operation's action and   *)
(* life, that a goroutine holding a stale row can only ever revive a       *)
(* return that already had a verdict, and that whoever is about to         *)
(* dispatch an operation is alone in doing so.                             *)
(***************************************************************************)
EXTENDS OperationLedger, TLAPS

Known(q) == status[q] # "NONE"

\* A pickup operation has a borrow record, in transit while it is active.
PickupRecord ==
    \A q \in Requests :
        Known(q) /\ task[q].action = "PICKUP" =>
            /\ borrow[BorrowOf(q)] # "NONE"
            /\ status[q] \in Live => borrow[BorrowOf(q)] = "BORROWING"

\* A return is only ever for a record whose pickup has succeeded.
ReturnRecord ==
    \A q \in Requests :
        Known(q) /\ task[q].action = "RETURN" =>
            borrow[BorrowOf(q)] \notin {"NONE", "BORROWING", "EXCEPTION"}

\* A record in transit has an operation under way, for a return one that
\* no stale row can conclude behind the record's back.
InTransit ==
    \A r \in Reservations :
        /\ borrow[r] = "BORROWING" =>
               \E q \in Requests : status[q] \in Live /\ task[q] = Pickup(r)
        /\ borrow[r] = "RETURNING" =>
               \E q \in Requests : /\ status[q] \in Live
                                   /\ q \notin closed
                                   /\ task[q] = ReturnOf(r)

\* Only a known operation has had a verdict.
ClosedKnown == \A q \in closed : Known(q)

\* A verdict in a row was reached, by this row or the one it was copied from.
VerdictRecorded == \A q \in Requests : status[q] \in Terminal => q \in closed

\* Rows are only held of returns; a verdict in one was really reached.
HeldRow ==
    \A t \in Threads, q \in Requests, row \in Live \cup Terminal :
        thread[t] = HoldingRow(q, row) =>
            /\ Known(q)
            /\ task[q].action = "RETURN"
            /\ row \in Terminal => q \in closed

OnItsWay(t, q) == thread[t] \in {Beginning(q), Dispatching(q)}

\* One goroutine at most is about to dispatch an operation, once.
Dispatcher ==
    /\ \A q \in Requests : ~Known(q) => sends[q] = 0
    /\ \A t \in Threads, q \in Requests :
           OnItsWay(t, q) => Known(q) /\ sends[q] = 0
    /\ \A t, u \in Threads, q \in Requests :
           OnItsWay(t, q) /\ OnItsWay(u, q) => t = u

IInv ==
    /\ TypeOK
    /\ OneActiveOperation
    /\ OnePickupPerReservation
    /\ OneCommandPerRequest
    /\ BorrowedKeyHasBorrower
    /\ PickupRecord
    /\ ReturnRecord
    /\ InTransit
    /\ ClosedKnown
    /\ VerdictRecorded
    /\ HeldRow
    /\ Dispatcher

-----------------------------------------------------------------------------
(* Types                                                                   *)

\* Every state a goroutine is sent to is one of ThreadStates.
LEMMA ThreadTypes ==
    /\ Idle \in ThreadStates
    /\ \A r \in Reservations :
           Creating(r) \in ThreadStates /\ CancellingRes(r) \in ThreadStates
    /\ \A q \in Requests :
           /\ Beginning(q) \in ThreadStates
           /\ Dispatching(q) \in ThreadStates
           /\ Failing(q) \in ThreadStates
           /\ Aborting(q) \in ThreadStates
           /\ Cancelling(q) \in ThreadStates
           /\ \A job \in Tasks : Preparing(q, job) \in ThreadStates
           /\ \A row \in Live \cup Terminal : HoldingRow(q, row) \in ThreadStates
  BY DEF ThreadStates, Idle, Creating, CancellingRes, Beginning, Dispatching,
         Failing, Aborting, Cancelling, Preparing, HoldingRow

\* The row of a known operation names its action and its reservation.
LEMMA KnownTask ==
    ASSUME TypeOK, NEW q \in Requests, Known(q)
    PROVE  /\ task[q] \in Tasks
           /\ BorrowOf(q) \in Reservations
           /\ task[q].action \in {"PICKUP", "RETURN"}
           /\ task[q] = [action |-> task[q].action, res |-> BorrowOf(q)]
           /\ TaskKey(task[q]) \in Keys
  <1>1. task[q] \in Tasks
    BY DEF TypeOK, Known
  <1>2. TaskKey(task[q]) \in Keys
    BY <1>1, LedgerAssumption DEF Tasks, TaskKey
  <1> QED
    BY <1>1, <1>2 DEF Tasks, BorrowOf

LEMMA InitTypeOK == Init => TypeOK
  <1> SUFFICES ASSUME Init PROVE TypeOK
    OBVIOUS
  <1>1. MaxFaults \in Nat /\ faults \in 0 .. MaxFaults
    BY LedgerAssumption DEF Init
  <1> QED
    BY <1>1, ThreadTypes
    DEF Init, TypeOK, ReservationStatus, KeyStatus, BorrowStatus

\* A verdict keeps every column in its type, whichever transaction reaches it.
LEMMA ConcludeType ==
    ASSUME TypeOK, NEW q \in Requests, status[q] \in Live,
           NEW verdict \in Terminal, Conclude(q, verdict),
           borrow' \in [Reservations -> BorrowStatus],
           UNCHANGED task
    PROVE  /\ status' \in [Requests -> {"NONE"} \cup Live \cup Terminal]
           /\ closed' \subseteq Requests
           /\ \A p \in Requests : task'[p] = NoTask <=> status'[p] = "NONE"
  BY DEF TypeOK, Conclude, Live, Terminal

LEMMA FailType ==
    ASSUME TypeOK, NEW q \in Requests, FailTx(q), UNCHANGED task
    PROVE  /\ borrow' \in [Reservations -> BorrowStatus]
           /\ status' \in [Requests -> {"NONE"} \cup Live \cup Terminal]
           /\ closed' \subseteq Requests
           /\ \A p \in Requests : task'[p] = NoTask <=> status'[p] = "NONE"
  <1>1. CASE status[q] \in Live
    <2>1. borrow' \in [Reservations -> BorrowStatus]
      BY <1>1 DEF FailTx, TypeOK, BorrowStatus
    <2> QED
      BY <1>1, <2>1, ConcludeType DEF FailTx, Terminal
  <1>2. CASE status[q] \notin Live
    BY <1>2 DEF FailTx, TypeOK
  <1> QED
    BY <1>1, <1>2

LEMMA PutBackType ==
    ASSUME TypeOK, NEW q \in Requests, UNCHANGED task,
           TimeoutTx(q) \/ CancelTx(q)
    PROVE  /\ borrow' \in [Reservations -> BorrowStatus]
           /\ status' \in [Requests -> {"NONE"} \cup Live \cup Terminal]
           /\ closed' \subseteq Requests
           /\ \A p \in Requests : task'[p] = NoTask <=> status'[p] = "NONE"
  <1>1. CASE status[q] \in Live
    <2>1. PutBack(q)
      BY <1>1 DEF TimeoutTx, CancelTx
    <2>2. borrow' \in [Reservations -> BorrowStatus]
      BY <2>1 DEF PutBack, TypeOK, BorrowStatus
    <2>3. Conclude(q, "TIMEOUT") \/ Conclude(q, "CANCELLED")
      BY <1>1 DEF TimeoutTx, CancelTx
    <2> QED
      BY <1>1, <2>2, <2>3, ConcludeType DEF Terminal
  <1>2. CASE status[q] \notin Live
    BY <1>2 DEF TimeoutTx, CancelTx, TypeOK
  <1> QED
    BY <1>1, <1>2

\* A step that only sends goroutines somewhere keeps the types.
LEMMA ThreadOnlyType ==
    ASSUME TypeOK, UNCHANGED <<tables, window, aged, sends, sweep, closed, faults>>,
           thread' \in [Threads -> ThreadStates]
    PROVE  TypeOK'
  BY DEF TypeOK, tables

LEMMA ReservationType == TypeOK /\ ReservationStep => TypeOK'
  <1> SUFFICES ASSUME TypeOK, ReservationStep PROVE TypeOK'
    OBVIOUS
  <1> USE ThreadTypes
  <1>1. ASSUME ExpireReservations PROVE TypeOK'
    <2>1. key' \in [Keys -> KeyStatus]
      BY <1>1 DEF ExpireReservations, Released, TypeOK, KeyStatus
    <2>2. res' \in [Reservations -> ReservationStatus]
      BY <1>1 DEF ExpireReservations, TypeOK, ReservationStatus
    <2> QED
      BY <1>1, <2>1, <2>2 DEF ExpireReservations, TypeOK
  <1>2. ASSUME NEW r \in Reservations, OpenWindow(r) \/ CloseWindow(r)
        PROVE  TypeOK'
    BY <1>2 DEF OpenWindow, CloseWindow, TypeOK, tables
  <1>3. ASSUME NEW r \in Reservations, ReviewReservation(r) PROVE TypeOK'
    <2>1. res' \in [Reservations -> ReservationStatus]
      BY <1>3 DEF ReviewReservation, TypeOK, ReservationStatus
    <2>2. key' \in [Keys -> KeyStatus]
      BY <1>3 DEF ReviewReservation, Released, TypeOK, KeyStatus
    <2> QED
      BY <1>3, <2>1, <2>2 DEF ReviewReservation, TypeOK
  <1>4. ASSUME NEW r \in Reservations, NEW t \in Threads,
               \/ CheckReservation(t, r) \/ RejectReservation(t, r)
               \/ ReadForCancelReservation(t, r)
        PROVE  TypeOK'
    <2>1. thread' \in [Threads -> ThreadStates]
      BY <1>4 DEF CheckReservation, RejectReservation, ReadForCancelReservation,
                  Goto, TypeOK
    <2> QED
      BY <1>4, <2>1, ThreadOnlyType
      DEF CheckReservation, RejectReservation, ReadForCancelReservation
  <1>5. ASSUME NEW r \in Reservations, NEW t \in Threads, InsertReservation(t, r)
        PROVE  TypeOK'
    <2>1. res' \in [Reservations -> ReservationStatus]
      BY <1>5 DEF InsertReservation, TypeOK, ReservationStatus
    <2>2. key' \in [Keys -> KeyStatus]
      BY <1>5 DEF InsertReservation, TypeOK, KeyStatus
    <2> QED
      BY <1>5, <2>1, <2>2 DEF InsertReservation, Goto, TypeOK
  <1>6. ASSUME NEW r \in Reservations, NEW t \in Threads, CancelReservation(t, r)
        PROVE  TypeOK'
    <2>1. res' \in [Reservations -> ReservationStatus]
      BY <1>6 DEF CancelReservation, TypeOK, ReservationStatus
    <2>2. key' \in [Keys -> KeyStatus]
      BY <1>6 DEF CancelReservation, Released, TypeOK, KeyStatus
    <2> QED
      BY <1>6, <2>1, <2>2 DEF CancelReservation, Goto, TypeOK
  <1> QED
    BY <1>1, <1>2, <1>3, <1>4, <1>5, <1>6 DEF ReservationStep

LEMMA StartType == TypeOK /\ StartStep => TypeOK'
  <1> SUFFICES ASSUME TypeOK, NEW t \in Threads, NEW q \in Requests,
                 \/ \E r \in Reservations : CheckPickup(t, q, r) \/ CheckReturn(t, q, r)
                 \/ \E job \in Tasks : Prepare(t, q, job) \/ PrepareRefused(t, q, job)
                 \/ BeginExecution(t, q) \/ BeginRefused(t, q) \/ Dispatch(t, q)
                 \/ DispatchFailed(t, q)
               PROVE  TypeOK'
    BY DEF StartStep
  <1> USE ThreadTypes
  <1>1. ASSUME NEW r \in Reservations, CheckPickup(t, q, r) \/ CheckReturn(t, q, r)
        PROVE  TypeOK'
    <2>1. Pickup(r) \in Tasks /\ ReturnOf(r) \in Tasks
      BY DEF Pickup, ReturnOf, Tasks
    <2>2. thread' \in [Threads -> ThreadStates]
      BY <1>1, <2>1 DEF CheckPickup, CheckReturn, Goto, TypeOK
    <2> QED
      BY <1>1, <2>2, ThreadOnlyType DEF CheckPickup, CheckReturn
  <1>2. ASSUME NEW job \in Tasks, Prepare(t, q, job) PROVE TypeOK'
    <2>1. borrow' \in [Reservations -> BorrowStatus]
      BY <1>2 DEF Prepare, TypeOK, BorrowStatus
    <2>2. /\ task' \in [Requests -> Tasks \cup {NoTask}]
          /\ status' \in [Requests -> {"NONE"} \cup Live \cup Terminal]
      BY <1>2 DEF Prepare, TypeOK, Live
    <2>3. job # NoTask
      BY LedgerAssumption DEF Tasks
    <2>4. \A p \in Requests : task'[p] = NoTask <=> status'[p] = "NONE"
      BY <1>2, <2>3 DEF Prepare, TypeOK
    <2>5. thread' \in [Threads -> ThreadStates]
      BY <1>2 DEF Prepare, Goto, TypeOK
    <2> QED
      BY <1>2, <2>1, <2>2, <2>4, <2>5 DEF Prepare, TypeOK
  <1>3. ASSUME NEW job \in Tasks, PrepareRefused(t, q, job) PROVE TypeOK'
    <2>1. thread' \in [Threads -> ThreadStates]
      BY <1>3 DEF PrepareRefused, Goto, TypeOK
    <2> QED
      BY <1>3, <2>1, ThreadOnlyType DEF PrepareRefused
  <1>4. ASSUME BeginExecution(t, q) PROVE TypeOK'
    <2>1. /\ status' \in [Requests -> {"NONE"} \cup Live \cup Terminal]
          /\ \A p \in Requests : task'[p] = NoTask <=> status'[p] = "NONE"
      BY <1>4 DEF BeginExecution, TypeOK, Live
    <2>2. thread' \in [Threads -> ThreadStates]
      BY <1>4 DEF BeginExecution, Goto, TypeOK
    <2> QED
      BY <1>4, <2>1, <2>2 DEF BeginExecution, TypeOK
  <1>5. ASSUME BeginRefused(t, q) PROVE TypeOK'
    <2>1. thread' \in [Threads -> ThreadStates]
      BY <1>5 DEF BeginRefused, Goto, TypeOK
    <2> QED
      BY <1>5, <2>1, ThreadOnlyType DEF BeginRefused
  <1>6. ASSUME Dispatch(t, q) PROVE TypeOK'
    <2>1. thread' \in [Threads -> ThreadStates] /\ sends' \in [Requests -> Nat]
      BY <1>6 DEF Dispatch, Goto, TypeOK
    <2> QED
      BY <1>6, <2>1 DEF Dispatch, TypeOK, tables
  <1>7. ASSUME DispatchFailed(t, q) PROVE TypeOK'
    <2>1. thread' \in [Threads -> ThreadStates]
      BY <1>7 DEF DispatchFailed, Goto, TypeOK
    <2> QED
      BY <1>7, <2>1, FailType DEF DispatchFailed, TypeOK
  <1> QED
    BY <1>1, <1>2, <1>3, <1>4, <1>5, <1>6, <1>7

LEMMA CancelType == TypeOK /\ CancelStep => TypeOK'
  <1> SUFFICES ASSUME TypeOK, NEW t \in Threads, NEW q \in Requests,
                      ReadForCancel(t, q) \/ Abort(t, q) \/ CancelOperation(t, q)
               PROVE  TypeOK'
    BY DEF CancelStep
  <1>1. thread' \in [Threads -> ThreadStates]
    BY ThreadTypes DEF ReadForCancel, Abort, CancelOperation, Goto, TypeOK
  <1>2. CASE ReadForCancel(t, q) \/ Abort(t, q)
    BY <1>1, <1>2, ThreadOnlyType DEF ReadForCancel, Abort
  <1>3. CASE CancelOperation(t, q)
    BY <1>1, <1>3, PutBackType DEF CancelOperation, TypeOK
  <1> QED
    BY <1>2, <1>3

LEMMA EventType == TypeOK /\ HeldRow /\ EventStep => TypeOK'
  <1> SUFFICES ASSUME TypeOK, HeldRow, NEW q \in Requests,
                 \/ PickupSucceeded(q) \/ ReturnSucceeded(q) \/ OperationFailed(q)
                 \/ \E t \in Threads :
                        \/ ReadForScan(t, q)
                        \/ \E row \in Live \cup Terminal : WriteScan(t, q, row)
               PROVE  TypeOK'
    BY DEF EventStep
  <1>1. CASE PickupSucceeded(q)
    <2>1. /\ borrow' \in [Reservations -> BorrowStatus]
          /\ res' \in [Reservations -> ReservationStatus]
          /\ key' \in [Keys -> KeyStatus]
      BY <1>1 DEF PickupSucceeded, TypeOK, BorrowStatus, ReservationStatus, KeyStatus
    <2>2. status[q] \in Live /\ Conclude(q, "SUCCESS") /\ UNCHANGED task
      BY <1>1 DEF PickupSucceeded, Live
    <2> QED
      BY <1>1, <2>1, <2>2, ConcludeType DEF PickupSucceeded, TypeOK, Terminal
  <1>2. CASE ReturnSucceeded(q)
    <2>1. /\ borrow' \in [Reservations -> BorrowStatus]
          /\ key' \in [Keys -> KeyStatus]
      BY <1>2 DEF ReturnSucceeded, TypeOK, BorrowStatus, KeyStatus
    <2>2. status[q] \in Live /\ Conclude(q, "SUCCESS") /\ UNCHANGED task
      BY <1>2 DEF ReturnSucceeded, Live
    <2> QED
      BY <1>2, <2>1, <2>2, ConcludeType DEF ReturnSucceeded, TypeOK, Terminal
  <1>3. CASE OperationFailed(q)
    BY <1>3, FailType DEF OperationFailed, TypeOK
  <1>4. ASSUME NEW t \in Threads, ReadForScan(t, q) PROVE TypeOK'
    <2>1. status[q] # "NONE"
      BY <1>4 DEF ReadForScan
    <2>2. thread' \in [Threads -> ThreadStates]
      BY <1>4, <2>1, ThreadTypes DEF ReadForScan, Goto, TypeOK
    <2> QED
      BY <1>4, <2>2, ThreadOnlyType DEF ReadForScan
  <1>5. ASSUME NEW t \in Threads, NEW row \in Live \cup Terminal, WriteScan(t, q, row)
        PROVE  TypeOK'
    <2>1. thread' \in [Threads -> ThreadStates]
      BY <1>5, ThreadTypes DEF WriteScan, Goto, TypeOK
    <2>2. Known(q)
      BY <1>5 DEF WriteScan, HeldRow
    <2>3. /\ status' \in [Requests -> {"NONE"} \cup Live \cup Terminal]
          /\ \A p \in Requests : status'[p] = "NONE" <=> status[p] = "NONE"
      BY <1>5, <2>2 DEF WriteScan, TypeOK, Known, Live, Terminal
    <2> QED
      BY <1>5, <2>1, <2>3 DEF WriteScan, TypeOK
  <1> QED
    BY <1>1, <1>2, <1>3, <1>4, <1>5

LEMMA RestType ==
    /\ TypeOK /\ SweepStep => TypeOK'
    /\ TypeOK /\ FaultStep => TypeOK'
  <1>1. ASSUME TypeOK, FindExpired PROVE TypeOK'
    BY <1>1 DEF FindExpired, Expired, TypeOK, tables
  <1>2. ASSUME TypeOK, NEW q \in Requests, Age(q) PROVE TypeOK'
    BY <1>2 DEF Age, TypeOK, tables
  <1>3. ASSUME TypeOK, NEW q \in Requests, TimeoutOperation(q) PROVE TypeOK'
    BY <1>3, PutBackType DEF TimeoutOperation, TypeOK
  <1>4. ASSUME TypeOK, FaultStep PROVE TypeOK'
    <2>1. thread' \in [Threads -> ThreadStates] /\ sweep' \subseteq Requests
      BY <1>4, ThreadTypes DEF FaultStep, Restart, SweepFails, HandlerFails, Goto, TypeOK
    <2>2. faults' \in 0 .. MaxFaults
      BY <1>4, LedgerAssumption
      DEF FaultStep, Restart, SweepFails, HandlerFails, Fault, TypeOK
    <2> QED
      BY <1>4, <2>1, <2>2
      DEF FaultStep, Restart, SweepFails, HandlerFails, TypeOK, tables
  <1> QED
    BY <1>1, <1>2, <1>3, <1>4 DEF SweepStep

-----------------------------------------------------------------------------
(* The inductive invariant                                                 *)

\* A goroutine that moves neither picks up a row nor becomes a dispatcher.
QuietThreads ==
    \A t \in Threads :
        \/ thread'[t] = thread[t]
        \/ thread'[t].pc \notin {"begin", "dispatch", "rfid"}

\* Whoever holds a row or is on the way has that role's program counter.
LEMMA Roles ==
    ASSUME NEW t \in Threads, NEW q \in Requests
    PROVE  /\ OnItsWay(t, q) => thread[t].pc \in {"begin", "dispatch"}
           /\ \A row \in Live \cup Terminal :
                  thread[t] = HoldingRow(q, row) => thread[t].pc = "rfid"
           /\ OnItsWay(t, q)' => thread'[t].pc \in {"begin", "dispatch"}
           /\ \A row \in Live \cup Terminal :
                  thread'[t] = HoldingRow(q, row) => thread'[t].pc = "rfid"
  BY DEF OnItsWay, Beginning, Dispatching, HoldingRow

\* Only a sent step, or a new dispatcher, can disturb Dispatcher.
LEMMA DispatcherKept ==
    ASSUME IInv, QuietThreads, UNCHANGED sends,
           \A q \in Requests : Known(q) <=> Known(q)'
    PROVE  Dispatcher' /\ OneCommandPerRequest'
  <1>1. \A t \in Threads, q \in Requests : OnItsWay(t, q)' => OnItsWay(t, q)
    BY Roles DEF QuietThreads, OnItsWay
  <1> QED
    BY <1>1 DEF IInv, Dispatcher, OneCommandPerRequest

LEMMA HeldRowKept ==
    ASSUME IInv, QuietThreads, UNCHANGED task, closed \subseteq closed',
           \A q \in Requests : Known(q) => Known(q)'
    PROVE  HeldRow'
  <1>1. \A t \in Threads, q \in Requests, row \in Live \cup Terminal :
            thread'[t] = HoldingRow(q, row) => thread[t] = HoldingRow(q, row)
    BY Roles DEF QuietThreads
  <1> QED
    BY <1>1 DEF IInv, HeldRow

\* The record parts depend on nothing but the rows.
LEMMA QuietStep ==
    ASSUME IInv, TypeOK', QuietThreads,
           UNCHANGED <<borrow, task, status, sends, closed>>,
           \A k \in Keys : key'[k] = "BORROWED" => key[k] = "BORROWED"
    PROVE  IInv'
  <1>1. Dispatcher' /\ OneCommandPerRequest'
    BY DispatcherKept DEF Known
  <1>2. HeldRow'
    BY HeldRowKept DEF Known
  <1>3. OneActiveOperation' /\ OnePickupPerReservation' /\ VerdictRecorded'
    BY DEF IInv, OneActiveOperation, OnePickupPerReservation, VerdictRecorded,
           ActiveOps
  <1>4. BorrowedKeyHasBorrower'
    BY DEF IInv, BorrowedKeyHasBorrower
  <1>5. PickupRecord' /\ ReturnRecord' /\ InTransit' /\ ClosedKnown'
    BY DEF IInv, PickupRecord, ReturnRecord, InTransit, ClosedKnown, Known, BorrowOf
  <1> QED
    BY <1>1, <1>2, <1>3, <1>4, <1>5 DEF IInv

\* A verdict on an active operation takes its borrow record out of transit.
LEMMA SettleStep ==
    ASSUME IInv, TypeOK', QuietThreads, UNCHANGED <<task, sends>>,
           NEW q \in Requests, status[q] \in Live,
           NEW verdict \in Terminal, Conclude(q, verdict),
           NEW b \in {"BORROWED", "COMPLETED", "EXCEPTION"},
           b = "EXCEPTION" => borrow[BorrowOf(q)] = "BORROWING",
           borrow' = [borrow EXCEPT ![BorrowOf(q)] = b],
           BorrowedKeyHasBorrower'
    PROVE  IInv'
  <1>1. Known(q) /\ BorrowOf(q) \in Reservations
    BY KnownTask DEF IInv, Known, Live
  <1>2. /\ status' = [status EXCEPT ![q] = verdict]
        /\ closed' = closed \cup {q}
        /\ verdict # "NONE" /\ verdict \notin Live
    BY DEF Conclude, Terminal, Live
  <1>3. status \in [Requests -> {"NONE"} \cup Live \cup Terminal]
    BY DEF IInv, TypeOK
  <1>4. \A p \in Requests : Known(p) <=> Known(p)'
    BY <1>1, <1>2, <1>3 DEF Known
  <1>5. Dispatcher' /\ OneCommandPerRequest'
    BY <1>4, DispatcherKept
  <1>6. HeldRow'
    BY <1>2, <1>4, HeldRowKept
  <1>7. ActiveOps' = ActiveOps \ {q}
    BY <1>2, <1>3 DEF ActiveOps
  <1>8. OneActiveOperation'
    BY <1>7 DEF IInv, OneActiveOperation
  <1>9. OnePickupPerReservation'
    BY <1>4 DEF IInv, OnePickupPerReservation, Known
  <1>10. VerdictRecorded'
    BY <1>2, <1>3 DEF IInv, VerdictRecorded
  <1>11. \A r \in Reservations : borrow'[r] = IF r = BorrowOf(q) THEN b ELSE borrow[r]
    BY <1>1 DEF IInv, TypeOK
  <1>12. PickupRecord'
    <2> SUFFICES ASSUME NEW p \in Requests, Known(p), task[p].action = "PICKUP"
                 PROVE  /\ borrow'[BorrowOf(p)] # "NONE"
                        /\ status'[p] \in Live => borrow'[BorrowOf(p)] = "BORROWING"
      BY <1>4 DEF PickupRecord, BorrowOf
    <2>1. BorrowOf(p) \in Reservations
      BY KnownTask DEF IInv
    <2>2. borrow'[BorrowOf(p)] # "NONE"
      BY <1>11, <2>1 DEF IInv, PickupRecord
    <2>3. ASSUME status'[p] \in Live PROVE borrow'[BorrowOf(p)] = "BORROWING"
      <3>1. p # q /\ status[p] \in Live
        BY <2>3, <1>2, <1>3
      <3>2. TaskCabinet(task[p]) = TaskCabinet(task[q]) => p = q
        BY <3>1 DEF IInv, OneActiveOperation, ActiveOps, Contend
      <3>3. BorrowOf(p) # BorrowOf(q)
        BY <3>1, <3>2 DEF TaskCabinet, TaskKey, BorrowOf
      <3> QED
        BY <1>11, <2>1, <3>1, <3>3 DEF IInv, PickupRecord
    <2> QED
      BY <2>2, <2>3
  <1>13. ReturnRecord'
    <2> SUFFICES ASSUME NEW p \in Requests, Known(p), task[p].action = "RETURN"
                 PROVE  borrow'[BorrowOf(p)] \notin {"NONE", "BORROWING", "EXCEPTION"}
      BY <1>4 DEF ReturnRecord, BorrowOf
    <2>1. BorrowOf(p) \in Reservations
      BY KnownTask DEF IInv
    <2>2. borrow[BorrowOf(p)] \notin {"NONE", "BORROWING", "EXCEPTION"}
      BY DEF IInv, ReturnRecord
    <2> QED
      BY <1>11, <2>1, <2>2
  <1>14. InTransit'
    <2> SUFFICES ASSUME NEW r \in Reservations
                 PROVE  /\ borrow'[r] = "BORROWING" =>
                               \E p \in Requests : status'[p] \in Live /\ task[p] = Pickup(r)
                        /\ borrow'[r] = "RETURNING" =>
                               \E p \in Requests : /\ status'[p] \in Live
                                                   /\ p \notin closed'
                                                   /\ task[p] = ReturnOf(r)
      BY DEF InTransit
    <2>1. \A p \in Requests :
              (task[p] = Pickup(r) \/ task[p] = ReturnOf(r)) /\ r # BorrowOf(q) => p # q
      BY DEF Pickup, ReturnOf, BorrowOf
    <2>2. borrow'[r] \in {"BORROWING", "RETURNING"} =>
              r # BorrowOf(q) /\ borrow'[r] = borrow[r]
      BY <1>11
    <2> QED
      BY <1>2, <1>3, <2>1, <2>2 DEF IInv, InTransit
  <1>15. ClosedKnown'
    BY <1>1, <1>2, <1>4 DEF IInv, TypeOK, ClosedKnown
  <1> QED
    BY <1>5, <1>6, <1>8, <1>9, <1>10, <1>12, <1>13, <1>14, <1>15 DEF IInv

-----------------------------------------------------------------------------
(* One lemma per kind of step                                              *)

LEMMA IInvReservation == IInv /\ ReservationStep => IInv'
  <1> SUFFICES ASSUME IInv, ReservationStep PROVE IInv'
    OBVIOUS
  <1>1. TypeOK'
    BY ReservationType DEF IInv
  <1>2. UNCHANGED <<borrow, task, status, sends, closed>>
    BY DEF ReservationStep, ExpireReservations, OpenWindow, CloseWindow,
           ReviewReservation, CheckReservation, InsertReservation,
           RejectReservation, ReadForCancelReservation, CancelReservation, tables
  <1>3. QuietThreads
    <2>1. CASE UNCHANGED thread
      BY <2>1 DEF QuietThreads
    <2>2. CASE \E t \in Threads, r \in Reservations :
                   Goto(t, Idle) \/ Goto(t, Creating(r)) \/ Goto(t, CancellingRes(r))
      BY <2>2 DEF QuietThreads, Goto, Idle, Creating, CancellingRes, IInv, TypeOK
    <2> QED
      BY <2>1, <2>2
      DEF ReservationStep, ExpireReservations, OpenWindow, CloseWindow,
          ReviewReservation, CheckReservation, InsertReservation,
          RejectReservation, ReadForCancelReservation, CancelReservation
  <1>4. \A k \in Keys : key'[k] = "BORROWED" => key[k] = "BORROWED"
    BY LedgerAssumption
    DEF ReservationStep, ExpireReservations, OpenWindow, CloseWindow,
        ReviewReservation, CheckReservation, InsertReservation,
        RejectReservation, ReadForCancelReservation, CancelReservation,
        Released, tables, IInv, TypeOK
  <1> QED
    BY <1>1, <1>2, <1>3, <1>4, QuietStep

\* A transaction that puts the borrow record of an operation back.
\* What a put-back transaction does to the record of an active operation.
LEMMA PutBackRecord ==
    ASSUME IInv, NEW q \in Requests, status[q] \in Live,
           FailTx(q) \/ TimeoutTx(q) \/ CancelTx(q)
    PROVE  /\ Known(q) /\ BorrowOf(q) \in Reservations
           /\ \E verdict \in Terminal : Conclude(q, verdict)
           /\ borrow' = [borrow EXCEPT ![BorrowOf(q)] = borrow'[BorrowOf(q)]]
           /\ task[q].action = "PICKUP" =>
                  /\ borrow[BorrowOf(q)] = "BORROWING"
                  /\ borrow'[BorrowOf(q)] = "EXCEPTION"
           /\ task[q].action = "RETURN" =>
                  /\ borrow[BorrowOf(q)] \in {"BORROWED", "RETURNING", "COMPLETED"}
                  /\ \/ borrow'[BorrowOf(q)] = "BORROWED"
                     \/ /\ borrow[BorrowOf(q)] = "COMPLETED"
                        /\ borrow'[BorrowOf(q)] = "COMPLETED"
  <1>1. Known(q) /\ BorrowOf(q) \in Reservations
    BY KnownTask DEF IInv, Known, Live
  <1>2. borrow \in [Reservations -> BorrowStatus]
    BY DEF IInv, TypeOK
  <1>3. FailTx(q) \/ PutBack(q)
    BY DEF TimeoutTx, CancelTx
  <1>4. borrow' = [borrow EXCEPT ![BorrowOf(q)] = borrow'[BorrowOf(q)]]
    BY <1>1, <1>2, <1>3 DEF FailTx, PutBack
  <1>5. task[q].action = "PICKUP" => borrow[BorrowOf(q)] = "BORROWING"
    BY <1>1 DEF IInv, PickupRecord
  <1>6. task[q].action = "RETURN" =>
            borrow[BorrowOf(q)] \in {"BORROWED", "RETURNING", "COMPLETED"}
    BY <1>1, <1>2 DEF IInv, ReturnRecord, BorrowStatus
  <1>7. \E verdict \in Terminal : Conclude(q, verdict)
    BY DEF FailTx, TimeoutTx, CancelTx, Terminal
  <1> QED
    BY <1>1, <1>2, <1>3, <1>4, <1>5, <1>6, <1>7 DEF FailTx, PutBack

LEMMA IInvPutBack ==
    ASSUME IInv, TypeOK', QuietThreads, UNCHANGED <<task, sends, key>>,
           NEW q \in Requests,
           FailTx(q) \/ TimeoutTx(q) \/ CancelTx(q)
    PROVE  IInv'
  <1>1. CASE status[q] \notin Live
    <2>1. UNCHANGED <<borrow, status, closed>>
      BY <1>1 DEF FailTx, TimeoutTx, CancelTx
    <2> QED
      BY <2>1, QuietStep
  <1>2. CASE status[q] \in Live
    <2> DEFINE b == borrow'[BorrowOf(q)]
    <2>1. /\ BorrowOf(q) \in Reservations
          /\ task[q].action \in {"PICKUP", "RETURN"}
      BY <1>2, KnownTask DEF IInv, Known, Live
    <2>2. /\ borrow' = [borrow EXCEPT ![BorrowOf(q)] = b]
          /\ b \in {"BORROWED", "COMPLETED", "EXCEPTION"}
          /\ b = "EXCEPTION" => borrow[BorrowOf(q)] = "BORROWING"
          /\ borrow[BorrowOf(q)] \in {"BORROWED", "RETURNING"} => b = "BORROWED"
          /\ \E verdict \in Terminal : Conclude(q, verdict)
      BY <1>2, <2>1, PutBackRecord
    <2> HIDE DEF b
    <2>3. BorrowedKeyHasBorrower'
      <3>1. \A r \in Reservations :
                borrow[r] \in {"BORROWED", "RETURNING"} =>
                borrow'[r] \in {"BORROWED", "RETURNING"}
        BY <2>1, <2>2 DEF IInv, TypeOK
      <3> QED
        BY <3>1 DEF IInv, BorrowedKeyHasBorrower
    <2> QED
      BY <1>2, <2>2, <2>3, SettleStep
  <1> QED
    BY <1>1, <1>2

LEMMA IInvPickupSucceeded ==
    ASSUME IInv, TypeOK', NEW q \in Requests, PickupSucceeded(q)
    PROVE  IInv'
  <1>1. /\ status[q] \in Live /\ Conclude(q, "SUCCESS")
        /\ borrow' = [borrow EXCEPT ![BorrowOf(q)] = "BORROWED"]
        /\ UNCHANGED <<task, sends, thread>>
    BY DEF PickupSucceeded, Live
  <1>2. QuietThreads
    BY <1>1 DEF QuietThreads
  <1>3. BorrowOf(q) \in Reservations
    BY <1>1, KnownTask DEF IInv, Known, Live
  <1>4. BorrowedKeyHasBorrower'
    <2>1. \A r \in Reservations :
              borrow[r] \in {"BORROWED", "RETURNING"} =>
              borrow'[r] \in {"BORROWED", "RETURNING"}
      BY <1>1 DEF IInv, TypeOK
    <2>2. borrow'[BorrowOf(q)] = "BORROWED"
      BY <1>1, <1>3 DEF IInv, TypeOK
    <2>3. \A k \in Keys : key'[k] = "BORROWED" =>
              key[k] = "BORROWED" \/ k = KeyOf[BorrowOf(q)]
      BY DEF PickupSucceeded, TaskKey, BorrowOf, IInv, TypeOK
    <2> QED
      BY <1>3, <2>1, <2>2, <2>3 DEF IInv, BorrowedKeyHasBorrower
  <1> QED
    BY <1>1, <1>2, <1>4, SettleStep DEF Terminal

LEMMA IInvReturnSucceeded ==
    ASSUME IInv, TypeOK', NEW q \in Requests, ReturnSucceeded(q)
    PROVE  IInv'
  <1>1. /\ status[q] \in Live /\ Conclude(q, "SUCCESS")
        /\ borrow' = [borrow EXCEPT ![BorrowOf(q)] = "COMPLETED"]
        /\ UNCHANGED <<task, sends, thread>>
    BY DEF ReturnSucceeded, Live
  <1>2. QuietThreads
    BY <1>1 DEF QuietThreads
  <1>3. BorrowOf(q) \in Reservations
    BY <1>1, KnownTask DEF IInv, Known, Live
  <1>4. BorrowedKeyHasBorrower'
    <2>1. \A r \in Reservations :
              KeyOf[r] # KeyOf[BorrowOf(q)] => borrow'[r] = borrow[r]
      BY <1>1 DEF IInv, TypeOK
    <2>2. \A k \in Keys : key'[k] = "BORROWED" =>
              key[k] = "BORROWED" /\ k # KeyOf[BorrowOf(q)]
      BY DEF ReturnSucceeded, TaskKey, BorrowOf, IInv, TypeOK
    <2> QED
      BY <2>1, <2>2 DEF IInv, BorrowedKeyHasBorrower
  <1> QED
    BY <1>1, <1>2, <1>4, SettleStep DEF Terminal

LEMMA IInvPrepare ==
    ASSUME IInv, TypeOK', NEW t \in Threads, NEW q \in Requests, NEW job \in Tasks,
           Prepare(t, q, job)
    PROVE  IInv'
  <1> DEFINE r0 == job.res
             b  == IF job.action = "PICKUP" THEN "BORROWING" ELSE "RETURNING"
  <1>1. /\ r0 \in Reservations
        /\ job.action \in {"PICKUP", "RETURN"}
        /\ job = [action |-> job.action, res |-> r0]
    BY DEF Tasks
  <1>2. /\ status[q] = "NONE" /\ ~Busy(job)
        /\ borrow[r0] = IF job.action = "PICKUP" THEN "NONE" ELSE "BORROWED"
        /\ thread[t] = Preparing(q, job)
    BY DEF Prepare, MayPrepare
  <1>3. /\ \A p \in Requests :
               /\ status'[p] = IF p = q THEN "AUTHORIZED" ELSE status[p]
               /\ task'[p] = IF p = q THEN job ELSE task[p]
        /\ \A r \in Reservations : borrow'[r] = IF r = r0 THEN b ELSE borrow[r]
        /\ \A u \in Threads : thread'[u] = IF u = t THEN Beginning(q) ELSE thread[u]
        /\ UNCHANGED <<key, sends, closed>>
    BY <1>1 DEF Prepare, Goto, IInv, TypeOK
  <1>4. \A p \in Requests : Known(p) => p # q /\ BorrowOf(p) \in Reservations
    BY <1>2, KnownTask DEF IInv, Known
  <1>5. \A p \in Requests : Known(p)' <=> Known(p) \/ p = q
    BY <1>3 DEF Known
  <1>6. \A p \in Requests : Known(p) => status'[p] = status[p] /\ task'[p] = task[p]
    BY <1>3, <1>4
  <1> HIDE DEF r0, b
  <1>8. OneActiveOperation'
    <2>1. ActiveOps' = ActiveOps \cup {q} /\ q \notin ActiveOps
      BY <1>2, <1>3 DEF ActiveOps, Live
    <2>2. \A p \in ActiveOps : task'[p] = task[p] /\ ~Contend(task[p], job)
      BY <1>2, <1>3, <2>1 DEF Busy, ActiveOps
    <2>3. task'[q] = job
      BY <1>3
    <2>4. \A p \in ActiveOps : ~Contend(job, task[p])
      BY <2>2 DEF Contend
    <2> QED
      BY <2>1, <2>2, <2>3, <2>4 DEF IInv, OneActiveOperation
  <1>9. OnePickupPerReservation'
    <2>1. \A p \in Requests :
              Known(p) /\ task[p].action = "PICKUP" => task[p] # job
      BY <1>2 DEF IInv, PickupRecord, BorrowOf, r0
    <2> QED
      BY <1>3, <1>5, <1>6, <2>1 DEF IInv, OnePickupPerReservation, Known
  <1>10. PickupRecord'
    <2>1. ASSUME NEW p \in Requests, Known(p), task[p].action = "PICKUP"
          PROVE  BorrowOf(p) # r0 \/ borrow[r0] = "BORROWED"
      BY <1>2, <2>1 DEF IInv, PickupRecord
    <2>2. ASSUME NEW p \in Requests, Known(p), task[p].action = "PICKUP"
          PROVE  /\ borrow'[BorrowOf(p)] # "NONE"
                 /\ status[p] \in Live => borrow'[BorrowOf(p)] = "BORROWING"
      <3>1. CASE BorrowOf(p) = r0
        <4>1. borrow[r0] = "BORROWED" /\ status[p] \notin Live
          BY <2>1, <2>2, <3>1 DEF IInv, PickupRecord
        <4> QED
          BY <1>1, <1>3, <3>1, <4>1 DEF b
      <3>2. CASE BorrowOf(p) # r0
        BY <1>3, <1>4, <2>2, <3>2 DEF IInv, PickupRecord
      <3> QED
        BY <3>1, <3>2
    <2>3. job.action = "PICKUP" => borrow'[r0] = "BORROWING"
      BY <1>1, <1>3 DEF b
    <2> QED
      BY <1>3, <1>5, <1>6, <2>2, <2>3 DEF PickupRecord, BorrowOf, Known, r0
  <1>11. ReturnRecord'
    <2>1. ASSUME NEW p \in Requests, Known(p), task[p].action = "RETURN"
          PROVE  borrow'[BorrowOf(p)] \notin {"NONE", "BORROWING", "EXCEPTION"}
      <3>1. borrow[BorrowOf(p)] \notin {"NONE", "BORROWING", "EXCEPTION"}
        BY <2>1 DEF IInv, ReturnRecord
      <3> QED
        BY <1>2, <1>3, <1>4, <2>1, <3>1 DEF b
    <2>2. job.action = "RETURN" => borrow'[r0] = "RETURNING"
      BY <1>1, <1>3 DEF b
    <2> QED
      BY <1>3, <1>5, <1>6, <2>1, <2>2 DEF ReturnRecord, BorrowOf, Known, r0
  <1>12. VerdictRecorded'
    BY <1>3 DEF IInv, VerdictRecorded, Terminal
  <1>13. InTransit'
    <2> SUFFICES ASSUME NEW r \in Reservations
                 PROVE  /\ borrow'[r] = "BORROWING" =>
                               \E p \in Requests : status'[p] \in Live /\ task'[p] = Pickup(r)
                        /\ borrow'[r] = "RETURNING" =>
                               \E p \in Requests : /\ status'[p] \in Live
                                                   /\ p \notin closed'
                                                   /\ task'[p] = ReturnOf(r)
      BY DEF InTransit
    <2>1. CASE r = r0
      <3>1. status'[q] \in Live /\ task'[q] = job
        BY <1>3 DEF Live
      <3>2. job = IF job.action = "PICKUP" THEN Pickup(r0) ELSE ReturnOf(r0)
        BY <1>1 DEF Pickup, ReturnOf
      <3>3. q \notin closed'
        BY <1>2, <1>3 DEF IInv, ClosedKnown, Known
      <3> QED
        BY <1>1, <1>3, <2>1, <3>1, <3>2, <3>3 DEF b
    <2>2. CASE r # r0
      <3>1. \A p \in Requests : status[p] \in Live => Known(p)
        BY DEF Live, Known
      <3> QED
        BY <1>3, <1>6, <2>2, <3>1 DEF IInv, InTransit
    <2> QED
      BY <2>1, <2>2
  <1>14. BorrowedKeyHasBorrower'
    <2>1. \A r \in Reservations :
              borrow[r] \in {"BORROWED", "RETURNING"} =>
              borrow'[r] \in {"BORROWED", "RETURNING"}
      BY <1>1, <1>2, <1>3 DEF b
    <2> QED
      BY <1>3, <2>1 DEF IInv, BorrowedKeyHasBorrower
  <1>15. HeldRow'
    <2>1. \A u \in Threads, p \in Requests, row \in Live \cup Terminal :
              thread'[u] = HoldingRow(p, row) => thread[u] = HoldingRow(p, row)
      BY <1>3 DEF Beginning, HoldingRow
    <2> QED
      BY <1>3, <1>5, <1>6, <2>1 DEF IInv, HeldRow
  <1>16. Dispatcher' /\ OneCommandPerRequest'
    <2>1. \A u \in Threads, p \in Requests :
              OnItsWay(u, p)' => (u = t /\ p = q) \/ (OnItsWay(u, p) /\ u # t)
      BY <1>2, <1>3 DEF OnItsWay, Beginning, Dispatching, Preparing
    <2>2. \A u \in Threads : ~OnItsWay(u, q)
      BY <1>2 DEF IInv, Dispatcher, Known
    <2>3. sends[q] = 0
      BY <1>2 DEF IInv, Dispatcher, Known
    <2> QED
      BY <1>3, <1>5, <2>1, <2>2, <2>3 DEF IInv, Dispatcher, OneCommandPerRequest
  <1>17. ClosedKnown'
    BY <1>3, <1>5 DEF IInv, TypeOK, ClosedKnown
  <1> QED
    BY <1>8, <1>9, <1>10, <1>11, <1>12, <1>13, <1>14, <1>15, <1>16, <1>17 DEF IInv

\* BeginExecution keeps the operation active; its goroutine stays alone.
LEMMA IInvBegin ==
    ASSUME IInv, TypeOK', NEW t \in Threads, NEW q \in Requests,
           BeginExecution(t, q)
    PROVE  IInv'
  <1>1. /\ status[q] = "AUTHORIZED" /\ thread[t] = Beginning(q)
        /\ \A p \in Requests : status'[p] = IF p = q THEN "EXECUTING" ELSE status[p]
        /\ \A u \in Threads : thread'[u] = IF u = t THEN Dispatching(q) ELSE thread[u]
        /\ UNCHANGED <<key, borrow, task, sends, closed>>
    BY DEF BeginExecution, Goto, IInv, TypeOK
  <1>2. \A p \in Requests :
            /\ Known(p)' <=> Known(p)
            /\ status'[p] \in Live <=> status[p] \in Live
            /\ status'[p] \in Terminal <=> status[p] \in Terminal
    BY <1>1 DEF Known, Live, Terminal
  <1>3. ActiveOps' = ActiveOps
    BY <1>2 DEF ActiveOps
  <1>4. /\ OneActiveOperation' /\ OnePickupPerReservation'
        /\ VerdictRecorded' /\ BorrowedKeyHasBorrower'
    BY <1>1, <1>2, <1>3
    DEF IInv, OneActiveOperation, OnePickupPerReservation, Known, VerdictRecorded,
        BorrowedKeyHasBorrower
  <1>5. PickupRecord' /\ ReturnRecord' /\ InTransit'
    BY <1>1, <1>2 DEF IInv, PickupRecord, ReturnRecord, InTransit, BorrowOf
  <1>6. HeldRow' /\ ClosedKnown'
    <2>1. \A u \in Threads, p \in Requests, row \in Live \cup Terminal :
              thread'[u] = HoldingRow(p, row) => thread[u] = HoldingRow(p, row)
      BY <1>1 DEF Dispatching, HoldingRow
    <2> QED
      BY <1>1, <1>2, <2>1 DEF IInv, HeldRow, ClosedKnown, TypeOK
  <1>7. Dispatcher' /\ OneCommandPerRequest'
    <2>1. \A u \in Threads, p \in Requests : OnItsWay(u, p)' => OnItsWay(u, p)
      BY <1>1 DEF OnItsWay, Beginning, Dispatching
    <2> QED
      BY <1>1, <1>2, <2>1 DEF IInv, Dispatcher, OneCommandPerRequest
  <1> QED
    BY <1>4, <1>5, <1>6, <1>7 DEF IInv

\* The only dispatcher of an operation publishes its only command.
LEMMA IInvDispatch ==
    ASSUME IInv, TypeOK', NEW t \in Threads, NEW q \in Requests, Dispatch(t, q)
    PROVE  IInv'
  <1>1. /\ thread[t] = Dispatching(q)
        /\ thread'[t] \in {Idle, Failing(q)}
        /\ \A u \in Threads : u # t => thread'[u] = thread[u]
        /\ \A p \in Requests : p # q => sends'[p] = sends[p]
        /\ sends'[q] \in {sends[q], sends[q] + 1}
        /\ UNCHANGED <<key, borrow, task, status, closed>>
    BY DEF Dispatch, Goto, tables, IInv, TypeOK
  <1>2. QuietThreads
    BY <1>1 DEF QuietThreads, Idle, Failing
  <1>3. HeldRow'
    BY <1>1, <1>2, HeldRowKept DEF Known
  <1>4. /\ OneActiveOperation' /\ OnePickupPerReservation' /\ VerdictRecorded'
        /\ ClosedKnown' /\ BorrowedKeyHasBorrower'
        /\ PickupRecord' /\ ReturnRecord' /\ InTransit'
    BY <1>1
    DEF IInv, OneActiveOperation, OnePickupPerReservation, VerdictRecorded,
        ClosedKnown, BorrowedKeyHasBorrower, PickupRecord, ReturnRecord, InTransit,
        Known, BorrowOf, ActiveOps
  <1>5. OnItsWay(t, q)
    BY <1>1 DEF OnItsWay
  <1>6. sends[q] = 0 /\ Known(q)
    BY <1>5 DEF IInv, Dispatcher
  <1>7. \A u \in Threads, p \in Requests :
            OnItsWay(u, p)' => OnItsWay(u, p) /\ p # q
    <2> SUFFICES ASSUME NEW u \in Threads, NEW p \in Requests, OnItsWay(u, p)'
                 PROVE  OnItsWay(u, p) /\ p # q
      OBVIOUS
    <2>1. u # t
      BY <1>1, Roles DEF Idle, Failing
    <2>2. OnItsWay(u, p)
      BY <1>1, <2>1 DEF OnItsWay
    <2> QED
      BY <1>5, <2>1, <2>2 DEF IInv, Dispatcher
  <1>8. Dispatcher' /\ OneCommandPerRequest'
    BY <1>1, <1>6, <1>7 DEF IInv, Dispatcher, OneCommandPerRequest, Known
  <1> QED
    BY <1>3, <1>4, <1>8 DEF IInv

\* What the event handler reads is a row of a known return.
LEMMA IInvReadForScan ==
    ASSUME IInv, TypeOK', NEW t \in Threads, NEW q \in Requests, ReadForScan(t, q)
    PROVE  IInv'
  <1>1. /\ Known(q) /\ task[q].action = "RETURN"
        /\ \A u \in Threads :
               thread'[u] = IF u = t THEN HoldingRow(q, status[q]) ELSE thread[u]
        /\ UNCHANGED <<key, borrow, task, status, sends, closed>>
    BY DEF ReadForScan, Known, Goto, tables, IInv, TypeOK
  <1>2. HeldRow'
    <2> SUFFICES ASSUME NEW u \in Threads, NEW p \in Requests,
                        NEW row \in Live \cup Terminal,
                        thread'[u] = HoldingRow(p, row)
                 PROVE  /\ Known(p)
                        /\ task[p].action = "RETURN"
                        /\ row \in Terminal => p \in closed
      BY <1>1 DEF HeldRow, Known
    <2>1. CASE u = t
      <3>1. p = q /\ row = status[q]
        BY <1>1, <2>1 DEF HoldingRow
      <3> QED
        BY <1>1, <3>1 DEF IInv, VerdictRecorded
    <2>2. CASE u # t
      BY <1>1, <2>2 DEF IInv, HeldRow
    <2> QED
      BY <2>1, <2>2
  <1>3. /\ OneActiveOperation' /\ OnePickupPerReservation' /\ VerdictRecorded'
        /\ ClosedKnown' /\ BorrowedKeyHasBorrower'
        /\ PickupRecord' /\ ReturnRecord' /\ InTransit'
    BY <1>1
    DEF IInv, OneActiveOperation, OnePickupPerReservation, VerdictRecorded,
        ClosedKnown, BorrowedKeyHasBorrower, PickupRecord, ReturnRecord, InTransit,
        Known, BorrowOf, ActiveOps
  <1>4. Dispatcher' /\ OneCommandPerRequest'
    <2>1. \A u \in Threads, p \in Requests : OnItsWay(u, p)' => OnItsWay(u, p)
      BY <1>1 DEF OnItsWay, HoldingRow, Beginning, Dispatching
    <2> QED
      BY <1>1, <2>1 DEF IInv, Dispatcher, OneCommandPerRequest, Known
  <1> QED
    BY <1>2, <1>3, <1>4 DEF IInv

\* A stale row can bring a return back to life, but never beside another
\* operation of its cabinet, and never conclude one that had no verdict.
LEMMA IInvWriteScan ==
    ASSUME IInv, TypeOK', NEW t \in Threads, NEW q \in Requests,
           NEW row \in Live \cup Terminal, WriteScan(t, q, row)
    PROVE  IInv'
  <1>1. /\ thread[t] = HoldingRow(q, row)
        /\ \A u \in Threads : thread'[u] = IF u = t THEN Idle ELSE thread[u]
        /\ UNCHANGED <<key, borrow, task, sends, closed>>
    BY DEF WriteScan, Goto, IInv, TypeOK
  <1>2. /\ Known(q) /\ task[q].action = "RETURN"
        /\ row \in Terminal => q \in closed
    BY <1>1 DEF IInv, HeldRow
  <1>3. QuietThreads
    BY <1>1 DEF QuietThreads, Idle
  <1>4. CASE UNCHANGED status
    BY <1>1, <1>3, <1>4, QuietStep
  <1>5. ASSUME status' = [status EXCEPT ![q] = row],
               row \in Live =>
                   \A p \in ActiveOps \ {q} : ~Contend(task[p], task[q])
        PROVE  IInv'
    <2>1. \A p \in Requests : status'[p] = IF p = q THEN row ELSE status[p]
      BY <1>5 DEF IInv, TypeOK
    <2>2. \A p \in Requests : Known(p)' <=> Known(p)
      BY <1>2, <2>1 DEF Known, Live, Terminal
    <2>3. Live \cap Terminal = {}
      BY DEF Live, Terminal
    <2>4. OneActiveOperation'
      <3> SUFFICES ASSUME NEW p \in ActiveOps', NEW s \in ActiveOps',
                          Contend(task[p], task[s])
                   PROVE  p = s
        BY <1>1 DEF OneActiveOperation
      <3>1. \A o \in ActiveOps' : o # q => o \in ActiveOps \ {q}
        BY <2>1 DEF ActiveOps
      <3>2. q \in ActiveOps' => row \in Live
        BY <2>1 DEF ActiveOps
      <3>3. Contend(task[s], task[p])
        BY DEF Contend
      <3>4. CASE p # q /\ s # q
        BY <3>1, <3>4 DEF IInv, OneActiveOperation
      <3>5. CASE p = q \/ s = q
        BY <1>5, <3>1, <3>2, <3>3, <3>5
      <3> QED
        BY <3>4, <3>5
    <2>5. OnePickupPerReservation' /\ BorrowedKeyHasBorrower' /\ ClosedKnown'
      BY <1>1, <2>2
      DEF IInv, TypeOK, OnePickupPerReservation, BorrowedKeyHasBorrower, ClosedKnown, Known
    <2>6. PickupRecord' /\ ReturnRecord'
      BY <1>1, <1>2, <2>1, <2>2 DEF IInv, PickupRecord, ReturnRecord, BorrowOf
    <2>7. InTransit'
      <3>1. \A r \in Reservations : task[q] # Pickup(r)
        BY <1>2 DEF Pickup
      <3>2. \A p \in Requests :
                status[p] \in Live /\ p \notin closed => status'[p] \in Live
        BY <1>2, <2>1
      <3>3. \A p \in Requests, r \in Reservations :
                status[p] \in Live /\ task[p] = Pickup(r) => status'[p] \in Live
        BY <2>1, <3>1
      <3> QED
        BY <1>1, <3>2, <3>3 DEF IInv, InTransit
    <2>8. VerdictRecorded'
      BY <1>1, <1>2, <2>1 DEF IInv, VerdictRecorded
    <2>9. HeldRow'
      BY <1>1, <1>3, <2>2, HeldRowKept
    <2>10. Dispatcher' /\ OneCommandPerRequest'
      BY <1>1, <1>3, <2>2, DispatcherKept
    <2> QED
      BY <2>4, <2>5, <2>6, <2>7, <2>8, <2>9, <2>10 DEF IInv
  <1> QED
    BY <1>4, <1>5 DEF WriteScan

\* Steps that leave every row alone and give no goroutine a new role.
LEMMA IInvQuiet ==
    ASSUME IInv, TypeOK',
           \/ \E t \in Threads, q \in Requests :
                  \/ \E r \in Reservations : CheckPickup(t, q, r) \/ CheckReturn(t, q, r)
                  \/ \E job \in Tasks : PrepareRefused(t, q, job)
                  \/ BeginRefused(t, q) \/ ReadForCancel(t, q) \/ Abort(t, q)
           \/ \E q \in Requests : Age(q)
           \/ FindExpired
           \/ FaultStep
           \/ UNCHANGED vars
    PROVE  IInv'
  <1>1. UNCHANGED <<key, borrow, task, status, sends, closed>>
    BY DEF CheckPickup, CheckReturn, PrepareRefused, BeginRefused, ReadForCancel,
           Abort, Age, FindExpired, FaultStep, Restart, SweepFails, HandlerFails, tables, vars
  <1>2. QuietThreads
    <2>1. CASE UNCHANGED thread \/ FaultStep
      <3>1. \A t \in Threads : thread'[t] = thread[t] \/ thread'[t] = Idle
        BY <2>1 DEF FaultStep, Restart, SweepFails, HandlerFails, Goto, IInv, TypeOK
      <3> QED
        BY <3>1 DEF QuietThreads, Idle
    <2>2. ASSUME NEW t \in Threads, NEW q \in Requests,
                 \/ \E r \in Reservations : CheckPickup(t, q, r) \/ CheckReturn(t, q, r)
                 \/ \E job \in Tasks : PrepareRefused(t, q, job)
                 \/ BeginRefused(t, q) \/ ReadForCancel(t, q) \/ Abort(t, q)
          PROVE  QuietThreads
      <3>1. /\ thread'[t].pc \in {"prepare", "idle", "abort", "cancel"}
            /\ \A u \in Threads : u # t => thread'[u] = thread[u]
        BY <2>2
        DEF CheckPickup, CheckReturn, PrepareRefused, BeginRefused, ReadForCancel,
            Abort, Goto, Preparing, Idle, Aborting, Cancelling, IInv, TypeOK
      <3> QED
        BY <3>1 DEF QuietThreads
    <2> QED
      BY <2>1, <2>2 DEF Age, FindExpired, vars
  <1> QED
    BY <1>1, <1>2, QuietStep

\* Steps that run one of the three put-back transactions.
LEMMA IInvConclude ==
    ASSUME IInv, TypeOK',
           \E q \in Requests :
               \/ OperationFailed(q) \/ TimeoutOperation(q)
               \/ \E t \in Threads : DispatchFailed(t, q) \/ CancelOperation(t, q)
    PROVE  IInv'
  <1>1. PICK q \in Requests :
               \/ OperationFailed(q) \/ TimeoutOperation(q)
               \/ \E t \in Threads : DispatchFailed(t, q) \/ CancelOperation(t, q)
    OBVIOUS
  <1>2. /\ UNCHANGED <<task, sends, key>>
        /\ FailTx(q) \/ TimeoutTx(q) \/ CancelTx(q)
    BY <1>1 DEF OperationFailed, TimeoutOperation, DispatchFailed, CancelOperation
  <1>3. QuietThreads
    BY <1>1 DEF OperationFailed, TimeoutOperation, DispatchFailed, CancelOperation,
                QuietThreads, Goto, Idle, IInv, TypeOK
  <1> QED
    BY <1>2, <1>3, IInvPutBack

LEMMA NextType == IInv /\ [Next]_vars => TypeOK'
  <1>1. IInv /\ UNCHANGED vars => TypeOK'
    BY DEF IInv, TypeOK, vars
  <1> QED
    BY <1>1, ReservationType, StartType, CancelType, EventType, RestType DEF Next, IInv

LEMMA IInvInit == Init => IInv
  <1> SUFFICES ASSUME Init PROVE IInv
    OBVIOUS
  <1>1. TypeOK
    BY InitTypeOK
  <1>2. \A q \in Requests : ~Known(q) /\ status[q] \notin Live \cup Terminal
    BY DEF Init, Known, Live, Terminal
  <1>3. \A t \in Threads : thread[t].pc = "idle"
    BY DEF Init, Idle
  <1>4. HeldRow /\ Dispatcher /\ OneCommandPerRequest
    BY <1>3, Roles DEF Init, HeldRow, Dispatcher, OneCommandPerRequest
  <1>5. OneActiveOperation /\ OnePickupPerReservation /\ VerdictRecorded /\ ClosedKnown
    BY <1>2
    DEF Init, OneActiveOperation, ActiveOps, OnePickupPerReservation, VerdictRecorded,
        ClosedKnown, Known
  <1>6. BorrowedKeyHasBorrower /\ PickupRecord /\ ReturnRecord /\ InTransit
    BY <1>2
    DEF Init, BorrowedKeyHasBorrower, PickupRecord, ReturnRecord, InTransit
  <1> QED
    BY <1>1, <1>4, <1>5, <1>6 DEF IInv

LEMMA IInvNext == IInv /\ [Next]_vars => IInv'
  <1> SUFFICES ASSUME IInv, [Next]_vars PROVE IInv'
    OBVIOUS
  <1>1. TypeOK'
    BY NextType
  <1>2. CASE ReservationStep
    BY <1>2, IInvReservation
  <1>3. CASE StartStep
    BY <1>1, <1>3, IInvQuiet, IInvPrepare, IInvBegin, IInvDispatch, IInvConclude
    DEF StartStep
  <1>4. CASE CancelStep
    BY <1>1, <1>4, IInvQuiet, IInvConclude DEF CancelStep
  <1>5. CASE EventStep
    BY <1>1, <1>5, IInvPickupSucceeded, IInvReturnSucceeded, IInvConclude,
       IInvReadForScan, IInvWriteScan
    DEF EventStep
  <1>6. CASE SweepStep
    BY <1>1, <1>6, IInvQuiet, IInvConclude DEF SweepStep
  <1>7. CASE FaultStep \/ UNCHANGED vars
    BY <1>1, <1>7, IInvQuiet
  <1> QED
    BY <1>2, <1>3, <1>4, <1>5, <1>6, <1>7 DEF Next

\* The strengthened invariant holds in every reachable state.
THEOREM Inductive == Spec => []IInv
  BY IInvInit, IInvNext, PTL DEF Spec

-----------------------------------------------------------------------------
(* What follows                                                            *)

\* Every column keeps its type, and an operation row its task, whatever
\* stale row a handler writes back.
THEOREM TypeCorrect == Spec => []TypeOK
  <1>1. IInv => TypeOK
    BY DEF IInv
  <1> QED
    BY <1>1, Inductive, PTL

\* A cabinet never has two operations under way, with any number of
\* concurrent handlers, late scans and faults.
THEOREM ActiveOperationUnique == Spec => []OneActiveOperation
  <1>1. IInv => OneActiveOperation
    BY DEF IInv
  <1> QED
    BY <1>1, Inductive, PTL

\* No borrow record stays in transit without an operation to settle it.
THEOREM NoRecordStranded == Spec => []NoStrandedBorrow
  <1>1. IInv => NoStrandedBorrow
    BY DEF IInv, InTransit, NoStrandedBorrow, ActiveOps
  <1> QED
    BY <1>1, Inductive, PTL

\* A BORROWED key can always be returned through some borrow record.
THEOREM BorrowedKeyReturnable == Spec => []BorrowedKeyHasBorrower
  <1>1. IInv => BorrowedKeyHasBorrower
    BY DEF IInv
  <1> QED
    BY <1>1, Inductive, PTL

\* However often it is retried, a reservation gets one pickup operation.
THEOREM PickupUnique == Spec => []OnePickupPerReservation
  <1>1. IInv => OnePickupPerReservation
    BY DEF IInv
  <1> QED
    BY <1>1, Inductive, PTL

\* However often it is retried, a request publishes one command.
THEOREM CommandUnique == Spec => []OneCommandPerRequest
  <1>1. IInv => OneCommandPerRequest
    BY DEF IInv
  <1> QED
    BY <1>1, Inductive, PTL

\* Once a pickup has a verdict no step of any handler changes it.
LEMMA PickupVerdictStep ==
    ASSUME IInv, Next, NEW q \in Requests,
           status[q] \in Terminal, task[q].action = "PICKUP"
    PROVE  status'[q] = status[q]
  <1> USE DEF IInv, TypeOK
  <1>1. status[q] \notin Live /\ status[q] # "NONE"
    BY DEF Live, Terminal
  <1>2. CASE UNCHANGED status
    BY <1>2
  <1>3. ASSUME NEW p \in Requests, NEW v, status' = [status EXCEPT ![p] = v],
               status[p] = "NONE" \/ status[p] \in Live
        PROVE  status'[q] = status[q]
    BY <1>1, <1>3
  <1>4. ASSUME NEW t \in Threads, NEW p \in Requests, NEW row \in Live \cup Terminal,
               WriteScan(t, p, row)
        PROVE  status'[q] = status[q]
    <2>1. task[p].action = "RETURN"
      BY <1>4 DEF WriteScan, HeldRow
    <2> QED
      BY <1>4, <2>1 DEF WriteScan
  <1>5. CASE ReservationStep
    BY <1>2, <1>5
    DEF ReservationStep, ExpireReservations, OpenWindow, CloseWindow,
        ReviewReservation, CheckReservation, InsertReservation,
        RejectReservation, ReadForCancelReservation, CancelReservation, tables
  <1>6. CASE StartStep
    <2>1. ASSUME NEW t \in Threads, NEW p \in Requests, NEW job \in Tasks, Prepare(t, p, job)
          PROVE  status'[q] = status[q]
      BY <2>1, <1>3 DEF Prepare, MayPrepare
    <2>2. ASSUME NEW t \in Threads, NEW p \in Requests, BeginExecution(t, p)
          PROVE  status'[q] = status[q]
      BY <2>2, <1>3 DEF BeginExecution, Live
    <2>3. ASSUME NEW t \in Threads, NEW p \in Requests, DispatchFailed(t, p)
          PROVE  status'[q] = status[q]
      BY <2>3, <1>2, <1>3 DEF DispatchFailed, FailTx, Conclude
    <2> QED
      BY <1>6, <2>1, <2>2, <2>3
      DEF StartStep, CheckPickup, CheckReturn, PrepareRefused, BeginRefused,
          Dispatch, tables
  <1>7. CASE CancelStep
    BY <1>2, <1>3, <1>7
    DEF CancelStep, ReadForCancel, Abort, CancelOperation, CancelTx, Conclude, tables
  <1>8. CASE EventStep
    BY <1>2, <1>3, <1>4, <1>8
    DEF EventStep, PickupSucceeded, ReturnSucceeded, OperationFailed, ReadForScan,
        FailTx, Conclude, Live, tables
  <1>9. CASE SweepStep \/ FaultStep
    BY <1>2, <1>3, <1>9
    DEF SweepStep, FindExpired, Age, TimeoutOperation, TimeoutTx, Conclude,
        FaultStep, Restart, SweepFails, HandlerFails, tables
  <1> QED
    BY <1>5, <1>6, <1>7, <1>8, <1>9 DEF Next

\* A pickup's verdict is final in every behaviour.
THEOREM PickupVerdictIsFinal == Spec => PickupVerdictFinal
  <1>1. IInv /\ [Next]_vars =>
            [\A q \in Requests : status[q] \in Terminal /\ task[q].action = "PICKUP"
                                 => status'[q] = status[q]]_vars
    BY PickupVerdictStep
  <1> QED
    BY <1>1, Inductive, PTL DEF Spec, PickupVerdictFinal

=============================================================================
