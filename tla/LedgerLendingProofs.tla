------------------------ MODULE LedgerLendingProofs ------------------------
(***************************************************************************)
(* OperationLedger implements CabinetLending, for any number of keys,      *)
(* cabinets, reservations, requests, goroutines and faults: initial        *)
(* states map to initial states, and with the inductive invariant of       *)
(* OperationLedgerProofs every step maps to a step or to a stutter.        *)
(***************************************************************************)
EXTENDS OperationLedgerProofs

Jobs == {task[q] : q \in ActiveOps}

\* Steps that leave records alone and conclude or begin nothing are stutters.
LEMMA LendingStutter ==
    ASSUME UNCHANGED <<borrow, task>>, ActiveOps' = ActiveOps
    PROVE  UNCHANGED Lending!vars
  BY DEF Lending!vars

\* An operation under way is a job, for a reservation.
LEMMA ActiveJob ==
    ASSUME IInv, NEW q \in ActiveOps
    PROVE  /\ Known(q) /\ BorrowOf(q) \in Reservations
           /\ task[q] \in Jobs
           /\ \/ task[q] = Lending!Pickup(BorrowOf(q)) /\ task[q].action = "PICKUP"
              \/ task[q] = Lending!ReturnOf(BorrowOf(q)) /\ task[q].action = "RETURN"
  <1>1. q \in Requests /\ Known(q)
    BY DEF ActiveOps, Known, Live
  <1> QED
    BY <1>1, KnownTask DEF IInv, Jobs, Lending!Pickup, Lending!ReturnOf

\* A verdict takes its job away, and no other: no second active operation
\* is doing the same job.
LEMMA JobEnds ==
    ASSUME IInv, NEW q \in ActiveOps, NEW verdict \in Terminal,
           Conclude(q, verdict), UNCHANGED task
    PROVE  Jobs' = Jobs \ {task[q]}
  <1>1. ActiveOps' = ActiveOps \ {q}
    BY DEF Conclude, ActiveOps, IInv, TypeOK, Live, Terminal
  <1>2. \A p \in ActiveOps : task[p] = task[q] => p = q
    BY DEF IInv, OneActiveOperation, Contend
  <1> QED
    BY <1>1, <1>2 DEF Jobs

\* A job that no active operation's cabinet stands in the way of is free.
LEMMA JobFree ==
    ASSUME IInv, NEW r \in Reservations, NEW job \in Tasks, job.res = r,
           \A p \in ActiveOps : ~Contend(task[p], job)
    PROVE  Lending!Free(r)
  <1>1. \A p \in ActiveOps : task[p].res \in Reservations
    BY ActiveJob DEF BorrowOf
  <1>2. \A p \in ActiveOps : CabinetOf[KeyOf[task[p].res]] # CabinetOf[KeyOf[r]]
    BY DEF Contend, TaskCabinet, TaskKey
  <1> QED
    BY <1>1, <1>2 DEF Lending!Free

LEMMA LendingInit == Init => Lending!Init
  BY DEF Init, Lending!Init, ActiveOps, Live

\* The transaction that creates an operation starts its job.
LEMMA LendingPrepare ==
    ASSUME IInv, NEW t \in Threads, NEW q \in Requests, NEW job \in Tasks,
           Prepare(t, q, job)
    PROVE  Lending!Next
  <1> DEFINE r == job.res
  <1>1. /\ r \in Reservations
        /\ \/ job = Lending!Pickup(r) /\ job.action = "PICKUP"
           \/ job = Lending!ReturnOf(r) /\ job.action = "RETURN"
    BY DEF Tasks, Lending!Pickup, Lending!ReturnOf
  <1>2. /\ status[q] = "NONE" /\ ~Busy(job)
        /\ borrow[r] = IF job.action = "PICKUP" THEN "NONE" ELSE "BORROWED"
        /\ borrow' = [borrow EXCEPT ![r] =
                         IF job.action = "PICKUP" THEN "BORROWING" ELSE "RETURNING"]
        /\ task' = [task EXCEPT ![q] = job]
        /\ status' = [status EXCEPT ![q] = "AUTHORIZED"]
    BY DEF Prepare, MayPrepare
  <1>3. ActiveOps' = ActiveOps \cup {q} /\ q \notin ActiveOps
    BY <1>2 DEF ActiveOps, IInv, TypeOK, Live
  <1>4. Jobs' = Jobs \cup {job}
    <2>1. task'[q] = job /\ \A p \in ActiveOps : task'[p] = task[p]
      BY <1>2, <1>3 DEF ActiveOps, IInv, TypeOK
    <2> QED
      BY <1>3, <2>1 DEF Jobs
  <1>5. Lending!Free(r)
    BY <1>1, <1>2, JobFree DEF Busy
  <1>6. CASE job = Lending!Pickup(r) /\ job.action = "PICKUP"
    <2>1. Lending!StartPickup(r)
      BY <1>2, <1>4, <1>5, <1>6 DEF Lending!StartPickup, Lending!Start, Jobs
    <2> QED
      BY <1>1, <2>1 DEF Lending!Next
  <1>7. CASE job = Lending!ReturnOf(r) /\ job.action = "RETURN"
    <2>1. Lending!StartReturn(r)
      BY <1>2, <1>4, <1>5, <1>7 DEF Lending!StartReturn, Lending!Start, Jobs
    <2> QED
      BY <1>1, <2>1 DEF Lending!Next
  <1> QED
    BY <1>1, <1>6, <1>7

\* A transaction that puts a record back ends its job: a pickup has failed,
\* a return, or a return that was reopened, leaves the key out.
LEMMA LendingPutBack ==
    ASSUME IInv, UNCHANGED task, NEW q \in Requests,
           FailTx(q) \/ TimeoutTx(q) \/ CancelTx(q)
    PROVE  [Lending!Next]_(Lending!vars)
  <1>1. CASE status[q] \notin Live
    BY <1>1, LendingStutter DEF FailTx, TimeoutTx, CancelTx, ActiveOps
  <1>2. CASE status[q] \in Live
    <2>1. q \in ActiveOps
      BY <1>2 DEF ActiveOps
    <2>2. PICK r \in Reservations : r = BorrowOf(q)
      BY <2>1, ActiveJob
    <2>3. Jobs' = Jobs \ {task[q]}
      BY <1>2, <2>1, PutBackRecord, JobEnds
    <2>4. CASE task[q].action = "PICKUP"
      <3>1. /\ borrow[r] = "BORROWING"
            /\ borrow' = [borrow EXCEPT ![r] = "EXCEPTION"]
        BY <1>2, <2>2, <2>4, PutBackRecord
      <3>2. Lending!Pickup(r) \in Jobs /\ Jobs' = Jobs \ {Lending!Pickup(r)}
        BY <2>1, <2>2, <2>3, <2>4, ActiveJob
      <3>3. Lending!EndPickup(r)
        BY <3>1, <3>2 DEF Lending!EndPickup, Jobs
      <3> QED
        BY <3>3 DEF Lending!Next
    <2>5. CASE task[q].action = "RETURN"
      <3>1. /\ borrow[r] \in {"BORROWED", "RETURNING", "COMPLETED"}
            /\ \/ borrow' = [borrow EXCEPT ![r] = "BORROWED"]
               \/ /\ borrow[r] = "COMPLETED"
                  /\ borrow' = [borrow EXCEPT ![r] = "COMPLETED"]
        BY <1>2, <2>2, <2>5, PutBackRecord
      <3>2. Lending!ReturnOf(r) \in Jobs /\ Jobs' = Jobs \ {Lending!ReturnOf(r)}
        BY <2>1, <2>2, <2>3, <2>5, ActiveJob
      <3>3. CASE borrow[r] = "RETURNING"
        <4>1. Lending!EndReturn(r)
          BY <3>1, <3>2, <3>3 DEF Lending!EndReturn, Jobs
        <4> QED
          BY <4>1 DEF Lending!Next
      <3>4. CASE borrow[r] \in {"BORROWED", "COMPLETED"}
        <4>1. borrow' = borrow \/ borrow' = [borrow EXCEPT ![r] = "BORROWED"]
          BY <3>1, <3>4 DEF IInv, TypeOK
        <4>2. Lending!EndReopened(r)
          BY <3>2, <3>4, <4>1 DEF Lending!EndReopened, Jobs
        <4> QED
          BY <4>2 DEF Lending!Next
      <3> QED
        BY <3>1, <3>3, <3>4
    <2> QED
      BY <2>1, <2>4, <2>5, ActiveJob
  <1> QED
    BY <1>1, <1>2

\* The cabinet's success reports end a pickup or a return.
LEMMA LendingSucceeded ==
    ASSUME IInv, NEW q \in Requests, PickupSucceeded(q) \/ ReturnSucceeded(q)
    PROVE  Lending!Next
  <1>1. q \in ActiveOps /\ UNCHANGED task
    BY DEF PickupSucceeded, ReturnSucceeded, ActiveOps, Live
  <1>2. PICK r \in Reservations : r = BorrowOf(q)
    BY <1>1, ActiveJob
  <1>3. Jobs' = Jobs \ {task[q]}
    BY <1>1, JobEnds DEF PickupSucceeded, ReturnSucceeded, Terminal
  <1>4. CASE PickupSucceeded(q)
    <2>1. Lending!Pickup(r) \in Jobs /\ Jobs' = Jobs \ {Lending!Pickup(r)}
      BY <1>1, <1>2, <1>3, <1>4, ActiveJob DEF PickupSucceeded
    <2>2. Lending!EndPickup(r)
      BY <1>2, <1>4, <2>1 DEF Lending!EndPickup, PickupSucceeded, Jobs
    <2> QED
      BY <2>2 DEF Lending!Next
  <1>5. CASE ReturnSucceeded(q)
    <2>1. Lending!ReturnOf(r) \in Jobs /\ Jobs' = Jobs \ {Lending!ReturnOf(r)}
      BY <1>1, <1>2, <1>3, <1>5, ActiveJob DEF ReturnSucceeded
    <2>2. Lending!EndReturn(r)
      BY <1>2, <1>5, <2>1 DEF Lending!EndReturn, ReturnSucceeded, Jobs
    <2> QED
      BY <2>2 DEF Lending!Next
  <1> QED
    BY <1>4, <1>5

\* A stale row that is written back is no change, or it reopens a return:
\* one that had a verdict, for a record that is settled.
LEMMA LendingWriteScan ==
    ASSUME IInv, NEW t \in Threads, NEW q \in Requests,
           NEW row \in Live \cup Terminal, WriteScan(t, q, row)
    PROVE  [Lending!Next]_(Lending!vars)
  <1>1. /\ Known(q) /\ task[q].action = "RETURN"
        /\ row \in Terminal => q \in closed
        /\ UNCHANGED <<borrow, task>>
    BY DEF WriteScan, IInv, HeldRow
  <1>2. CASE UNCHANGED status
    BY <1>1, <1>2, LendingStutter DEF ActiveOps
  <1>3. ASSUME status' = [status EXCEPT ![q] = row],
               row \in Live =>
                   \A p \in ActiveOps \ {q} : ~Contend(task[p], task[q])
        PROVE  [Lending!Next]_(Lending!vars)
    <2>1. ActiveOps' = IF row \in Live THEN ActiveOps \cup {q} ELSE ActiveOps \ {q}
      BY <1>3 DEF ActiveOps, IInv, TypeOK
    <2>2. CASE q \in ActiveOps <=> row \in Live
      BY <1>1, <2>1, <2>2, LendingStutter
    <2>3. PICK r \in Reservations :
              /\ r = BorrowOf(q) /\ task[q] \in Tasks
              /\ task[q] = Lending!ReturnOf(r)
      BY <1>1, KnownTask DEF IInv, Lending!ReturnOf
    <2>4. ASSUME q \in closed, \A p \in ActiveOps \ {q} : ~Contend(task[p], task[q])
          PROVE  borrow[r] \in {"BORROWED", "COMPLETED"}
      <3>1. \A p \in ActiveOps : p # q => task[p] # task[q]
        BY <2>4 DEF Contend
      <3>2. borrow[r] # "RETURNING"
        BY <2>3, <2>4, <3>1
        DEF IInv, InTransit, ActiveOps, Lending!ReturnOf, ReturnOf
      <3> QED
        BY <1>1, <2>3, <3>2 DEF IInv, TypeOK, ReturnRecord, BorrowStatus
    <2>5. CASE q \notin ActiveOps /\ row \in Live
      <3>1. q \in closed
        BY <1>1, <2>5 DEF IInv, TypeOK, VerdictRecorded, ActiveOps, Known
      <3>2. Jobs' = Jobs \cup {task[q]}
        BY <1>1, <2>1, <2>5 DEF Jobs
      <3>3. Lending!Free(r)
        BY <1>3, <2>3, <2>5, JobFree DEF BorrowOf
      <3>4. Lending!Reopen(r)
        BY <1>1, <1>3, <2>3, <2>4, <2>5, <3>1, <3>2, <3>3 DEF Lending!Reopen, Jobs
      <3> QED
        BY <3>4 DEF Lending!Next
    <2>6. CASE q \in ActiveOps /\ row \notin Live
      <3>1. \A p \in ActiveOps \ {q} : ~Contend(task[p], task[q])
        BY <2>6 DEF IInv, OneActiveOperation
      <3>2. q \in closed
        BY <1>1, <2>6
      <3>3. borrow[r] \in {"BORROWED", "COMPLETED"}
        BY <2>4, <3>1, <3>2
      <3>4. Jobs' = Jobs \ {task[q]}
        BY <1>1, <2>1, <2>6, <3>1 DEF Jobs, Contend
      <3>5. task[q] \in Jobs
        BY <2>6 DEF Jobs
      <3>6. Lending!EndReopened(r)
        BY <1>1, <2>3, <3>3, <3>4, <3>5 DEF Lending!EndReopened, Jobs
      <3> QED
        BY <3>6 DEF Lending!Next
    <2> QED
      BY <2>2, <2>5, <2>6
  <1> QED
    BY <1>2, <1>3 DEF WriteScan

LEMMA LendingNext == IInv /\ [Next]_vars => [Lending!Next]_(Lending!vars)
  <1> SUFFICES ASSUME IInv, [Next]_vars PROVE [Lending!Next]_(Lending!vars)
    OBVIOUS
  <1>1. CASE ReservationStep \/ FaultStep \/ UNCHANGED vars
    <2>1. UNCHANGED <<borrow, task, status>>
      BY <1>1
      DEF ReservationStep, ExpireReservations, OpenWindow, CloseWindow,
          ReviewReservation, CheckReservation, InsertReservation,
          RejectReservation, ReadForCancelReservation, CancelReservation,
          FaultStep, Restart, SweepFails, HandlerFails, vars, tables
    <2> QED
      BY <2>1, LendingStutter DEF ActiveOps
  <1>2. CASE StartStep
    <2>1. ASSUME NEW t \in Threads, NEW q \in Requests, BeginExecution(t, q)
          PROVE  UNCHANGED Lending!vars
      <3>1. ActiveOps' = ActiveOps /\ UNCHANGED <<borrow, task>>
        BY <2>1 DEF BeginExecution, ActiveOps, Live, IInv, TypeOK
      <3> QED
        BY <3>1, LendingStutter
    <2>2. ASSUME NEW t \in Threads, NEW q \in Requests, DispatchFailed(t, q)
          PROVE  [Lending!Next]_(Lending!vars)
      BY <2>2, LendingPutBack DEF DispatchFailed
    <2>3. ASSUME NEW t \in Threads, NEW q \in Requests,
                 \/ \E r \in Reservations : CheckPickup(t, q, r) \/ CheckReturn(t, q, r)
                 \/ \E job \in Tasks : PrepareRefused(t, q, job)
                 \/ BeginRefused(t, q) \/ Dispatch(t, q)
          PROVE  UNCHANGED Lending!vars
      <3>1. ActiveOps' = ActiveOps /\ UNCHANGED <<borrow, task>>
        BY <2>3 DEF CheckPickup, CheckReturn, PrepareRefused, BeginRefused, Dispatch,
                    tables, ActiveOps
      <3> QED
        BY <3>1, LendingStutter
    <2> QED
      BY <1>2, <2>1, <2>2, <2>3, LendingPrepare DEF StartStep
  <1>3. CASE CancelStep
    <2>1. ASSUME NEW t \in Threads, NEW q \in Requests, ReadForCancel(t, q) \/ Abort(t, q)
          PROVE  UNCHANGED Lending!vars
      BY <2>1, LendingStutter DEF ReadForCancel, Abort, tables, ActiveOps
    <2>2. ASSUME NEW t \in Threads, NEW q \in Requests, CancelOperation(t, q)
          PROVE  [Lending!Next]_(Lending!vars)
      BY <2>2, LendingPutBack DEF CancelOperation
    <2> QED
      BY <1>3, <2>1, <2>2 DEF CancelStep
  <1>4. CASE EventStep
    <2>1. ASSUME NEW q \in Requests, OperationFailed(q)
          PROVE  [Lending!Next]_(Lending!vars)
      BY <2>1, LendingPutBack DEF OperationFailed
    <2>2. ASSUME NEW q \in Requests, NEW t \in Threads, ReadForScan(t, q)
          PROVE  UNCHANGED Lending!vars
      BY <2>2, LendingStutter DEF ReadForScan, tables, ActiveOps
    <2> QED
      BY <1>4, <2>1, <2>2, LendingSucceeded, LendingWriteScan DEF EventStep
  <1>5. CASE SweepStep
    <2>1. ASSUME NEW q \in Requests, TimeoutOperation(q)
          PROVE  [Lending!Next]_(Lending!vars)
      BY <2>1, LendingPutBack DEF TimeoutOperation
    <2>2. ASSUME FindExpired \/ \E q \in Requests : Age(q)
          PROVE  UNCHANGED Lending!vars
      BY <2>2, LendingStutter DEF FindExpired, Age, tables, ActiveOps
    <2> QED
      BY <1>5, <2>1, <2>2 DEF SweepStep
  <1> QED
    BY <1>1, <1>2, <1>3, <1>4, <1>5 DEF Next

\* Seen from outside the ledger lends: one job at a time per cabinet, each
\* settled with its record, whatever handlers, sweeps, retries, stale writes
\* and faults do inside.
THEOREM LedgerImplementsLending == Spec => ImplementsLending
  <1>1. Init => Lending!Init
    BY LendingInit
  <1>2. IInv /\ [Next]_vars => [Lending!Next]_(Lending!vars)
    BY LendingNext
  <1> QED
    BY <1>1, <1>2, Inductive, PTL DEF Spec, ImplementsLending, Lending!Spec

=============================================================================
