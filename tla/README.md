# Key cabinet: TLA+ models, checks and proofs

A smart key cabinet lends physical keys. A Go server owns reservations, borrow
records and device operations in PostgreSQL; an ESP32 cabinet moves the keys and
reports over MQTT; an RK3588 kiosk with a face camera and a WeChat mini-program
are its clients. This directory models the parts of it in which several actors
share state, model-checks them with TLC and proves the main results with TLAPS.
Paths below are relative to the repository; `server/` paths to
`src/server/internal/` where no other root is named.

## Inventory

| Component | State | Operations | Talks to | Hard behaviour | What makes it correct |
|---|---|---|---|---|---|
| Device operations (`service/operation_service.go`, `infrastructure/postgres/operation_repository.go`) | `device_operations`: action, status, request id, scanned tag, `sent_at` | start pickup/return, dispatch, cancel, timeout sweep, device events | reservations, borrow records, keys (one transaction), gateway (publish, abort) | checks made before the transaction; retries of one request; verdicts racing late events, sweep and cancel; crash between steps | one operation per cabinet and key, one command per request, every operation concluded once, no record left in transit |
| Reservations (`service/reservation_service.go`, `reservation_repository.go`) | `reservations.status`, pickup window, period | create, review, cancel, expire, use (by a pickup) | keys (reserved/released), operations | unlocked read then write; expiry during a pickup; release decided on a count | USED is final; no overlapping bookings; a key is RESERVED only for somebody |
| Borrow records (`service/borrow_service.go`, `borrow_repository.go`) | `borrow_records.status`, due and reminder fields | written by operation transactions; overdue mark; legacy endpoints | operations, reminders | a record in transit depends on an operation concluding | a BORROWED key has a record it can be returned through; one borrower per key |
| Keys and slots | `keys.status`, `slots.presence` | status edits, inventory, verdicts | all of the above, reconciler | three writers | ledger agrees with what the cabinet holds |
| Schedulers (`src/server/cmd/api/main.go:129-187`) | none (tickers) | operation timeout (30 s), reservation expiry (1 min), overdue and reminders (5 min) | services | work through lists read earlier | everything overdue is handled in the end |
| MQTT gateway (`infrastructure/device/mqtt_gateway.go`) | abort waiters, seen message ids, pending messages, device heartbeats | publish command, abort and wait, dispatch events, expire devices | broker, operation service, device service | QoS-1 repeats, message-id collisions, restart empties the tables, monitor against fresh status | no event lost or applied to the wrong operation; a device is offline only when silent |
| Cabinet firmware (`src/firmware/esp32/main`) | command queue (8), abort flag, motor, slot switches, door | pickup, return, abort, sensor scan, heartbeat | broker, user's hand | abort handled on the MQTT task while the worker runs; abort flag without an operation id; redelivered commands; full queue | after ABORT_ACK nothing moves; a success report has the change in the slot, and for a return the tag, behind it |
| Inventory reconciler and alerts (`service/inventory_reconciler.go`) | open alerts, slot presence | apply a snapshot | keys, slots, alerts | snapshot older than the verdict it contradicts; find-then-create of alerts | one open alert per fault; alerts close when the fault is gone |
| Reminders (`service/borrow_service.go:241-381`) | reminder rows, retry counters | send, retry with back-off | WeChat API | sent but not recorded | bounded retries; at most one reminder per record and kind recorded as sent |
| Cabinet service (`service/cabinet_service.go`) | none of its own | room match, direct dispense, face authentication | everything | several writes without one transaction; lookup by a number anybody may claim | a face session goes to a verified user: of the number shown, or of the id shown |
| Cabinet authentication (`transport/http/middleware/cabinet_auth.go`) | nonce table | verify HMAC, time window, nonce | device registry | table pruned while requests arrive | a nonce is accepted once |
| Edge kiosk (`src/edge/rk3588/face_app`) | session and operation of the screen | authenticate, choose, start, poll | server API | slow answers of an earlier session | a session never drives another's operation |
| Mini-program (`src/miniprogram`) | request ids, polling timers | reserve, pick up, return, poll, cancel | server API | page left and re-entered while polling | one request id per intent |
| User accounts (`service/auth_service.go`, `user_repository.go`) | `users`, `user_identities` | login with registration, profile, verification | face authentication, operations | simultaneous first logins; rows saved long after they were read | one account per WeChat user; the verified mark stays with the number that was confirmed |
| HTTP transport, migrations, simulators, face engine | | | | | sequential, or pure I/O, or numeric |

How they interact: every request of a client is a goroutine that calls one service
method; a device event is a goroutine that the gateway starts; the schedulers are
goroutines of their own. They share only the database (row locks and constraints)
and the gateway's in-memory tables. The cabinet is a second computer with its own
clock, linked by QoS-1 MQTT.

## Plan

Most important behaviour first; each module is written to be proved about
(constants with named assumptions, one action per operation, no RECURSIVE).

1. `OperationLedger` (done): the database as the handlers, schedulers and device
   events drive it, cabinet arbitrary. Runs, inductive invariant, proofs.
2. `CabinetFirmware` (done): command queue, abort flag, worker, motor, RFID check,
   user. Runs, inductive invariant, proofs.
3. `CabinetLending` (done): what the ledger promises, and the proof that
   `OperationLedger` implements it.
4. `DeviceEvents` (done): the gateway's way in for reports: registration, duplicate
   table, acknowledgement, abort waiters, restart.
5. `CabinetMonitor` (done): heartbeats, wills, the heartbeat monitor, inventory
   snapshots, slot presence and alerts.
6. `BorrowReminders` (done): the overdue check, and the endpoints that move borrow
   records without an operation.
7. `UserAccounts` (done): login, profile, verification, face sessions.
8. `ReservationTransactions` (done): the transactions on reservations and keys
   statement by statement under READ COMMITTED, with row locks and rollbacks.
9. `CabinetSystem`: ledger, wire and cabinet together with the physical key, to show
   where ledger and key part; and the edge kiosk's session machine in front of it.
10. The mini-program's polling.

Every safety property that a passing run checks is proved, in all seven modules, and so
is the refinement to `CabinetLending`. With TLC alone stay the liveness properties
(`OperationsSettle`, `QueueDrains`, `PresenceSettles`, `AlertsSettle`, `OnlineSettles`,
`OverdueReminded`, `TransactionsEnd`), which need fairness and ENABLED and are out of the prover's reach,
and the counterexamples. Worth proving next: what `CabinetSystem` will say of ledger
and key, from the invariants of its parts.

## OperationLedger

### State and code

| Variable | Code |
|---|---|
| `res` | `reservations.status`; `"NONE"` before the row exists |
| `window` | where the clock stands in `[PickupWindowStart, PickupWindowEnd]` |
| `key` | `keys.status` as the flows write it |
| `borrow` | `borrow_records.status`, indexed by reservation (`idx_borrow_records_reservation_id` is UNIQUE) |
| `task`, `status`, `scanned` | `device_operations`, indexed by `request_id` (UNIQUE): action and reservation, status, whether the row carries the matching tag |
| `aged` | operations older than the two minutes of `startOperationTimeoutScheduler` |
| `sends` | commands `publishCommand` handed to the broker for the operation |
| `thread` | a goroutine's local variables and the database call it makes next |
| `sweep` | rest of the list of `ExpireTimedOutOperations` |
| `closed`, `faults` | history: operations that ever had a verdict; restarts of the server and failures of the database |

A transaction that locks the operation row (`lockOperation`), or a single guarded
UPDATE, is one step. Everything between two database calls of a handler is not: a
handler reads (`CheckPickup`, `ReadForCancel`, `ReadForScan`,
`ReadForCancelReservation`), keeps what it read in `thread`, and acts on it later.
So `StartPickup` is `CheckPickup`, `Prepare` or `PrepareRefused`, `BeginExecution` or
`BeginRefused`, `Dispatch` and, when the publish reported an error, `DispatchFailed`;
`CancelOperation` is `ReadForCancel`, `Abort`, `CancelOperation`; the sweep is
`FindExpired` and one `TimeoutOperation` per list entry. Verdict transactions
(`FailTx`, `TimeoutTx`, `CancelTx`) are shared by the actions that call them, as in
the code.

The cabinet is unconstrained: once a command is published it may report success,
failure or an RFID scan at any time, repeatedly and in any order. What holds here
holds whatever the firmware, the network and the gateway do. A tag scan is reported
for returns only, which is when the firmware scans.

### Abstractions

- The reads a start makes before its transaction are taken at one moment; what
  matters, that they are stale when the transaction runs, is kept.
- Transactions are atomic. Those that lock the operation row are serialised by
  that lock; the release of a key after a cancellation or expiry is not, and what
  its statements do to each other is in `ReservationTransactions`.
- `slots.presence`, the device's online state and the user's verification only
  decide whether a start is allowed, and others write them at any moment; the checks
  may pass or fail freely.
- The legacy endpoints (`POST /borrow-records`, its status and complete routes, and
  `PATCH /keys/:id/status`) write records without an operation. The mini-program's
  API mode does not call them. The results below assume nobody does; the
  routes that move a record are in `BorrowReminders`, the key status edit in
  `CabinetMonitor`.
- Operation events are a log; the one decision taken on them (an RFID event row
  counts as a scan) coincides with `scanned`, because the row write and the event
  are made by the same handler.
- A transaction that is rolled back has changed nothing, and one whose answer is lost
  has done its step; either way the handler returns its error and goes no further
  (`HandlerFails`), so that an operation may stay AUTHORIZED or EXECUTING with nobody
  who carries it on. In the sweep the rest of the list is abandoned (`SweepFails`).
  Where nothing is kept between two calls (most device events, reviews, the expiry of
  reservations) an error is a stuttering step. An RFID handler ignores the error of
  its write and may still append its event, which counts as a scan while the operation
  is active; that is `WriteScan` of the row as it is.

### Runs

All runs use one cabinet and one key: two keys of one cabinet contend for the same
active-operation slot as two operations of one key do, and different cabinets share
nothing. Two threads are two handlers overlapping, on top of the scheduler and the
device events, which are concurrent with both. Deadlock checking is off because the
system really stops: all bookings past, all operations concluded.

| Run | Instance | Question | Distinct states |
|---|---|---|---|
| `ledger_bookings` | 2 overlapping bookings, approval, 2 requests, 2 threads | With two users after one key: do the tables stay well-typed, is one operation under way at a time, can every key marked BORROWED be returned, and is all of it lending as `CabinetLending` describes it? | 1.1 million |
| `ledger_retries` | 1 booking, 2 requests, 2 threads, 2 faults, fairness | Requests retried under the same and under fresh ids, while handlers, the sweep or the whole server die: none stranded, one pickup, one command, pickup verdicts final; and does every operation reach a verdict? | 0.5 million |
| `late_scan_reopens` | 1 booking, 2 requests | Is a verdict final? No: see below | counterexample |
| `cancel_overwrites_used` | 1 booking | Is USED final? No | counterexample |
| `second_borrower` | 2 consecutive bookings | Does a key have one borrower? No | counterexample |

Bounds: two bookings or two requests are the least at which two of a kind meet. Two
faults are one for the handler that leaves an operation behind and one for the sweep
that has just found it; all a fault does is empty `thread`, `sweep` or both. A third
request, with which a return revived by a stale RFID row would meet another live
operation and the index refuse the row, is beyond the bounds; the safety properties
are proved for any number of requests and faults. `sends` needs no bound: an
operation is dispatched once, which is itself a checked property. Symmetry of threads
and requests, and of the two bookings (they overlap both ways), is used in
`ledger_bookings` only, since the other run has a liveness property.

Fairness (`FairSpec`): weak fairness of the sweep's query and of each turn of its
loop, which is what a ticker goroutine that runs for the life of the process gives
(`src/server/cmd/api/main.go:146-166`), and of `Age`, which is time passing. The
database may fail `MaxFaults` times and is then assumed to answer: a sweep that fails
for ever ends nothing. No handler is assumed to make progress; the operations whose
handler died are the point of the run.

### What the violations show

- `late_scan_reopens`: `OnDeviceEvent` writes the operation row it read before the
  verdict (`service/operation_service.go:379`, `Update` sets every column). A
  concluded return is EXECUTING again until the sweep ends it a second time, while
  `docs/04-API-CONTRACT.md:419` has clients stop polling at the first verdict.
- `cancel_overwrites_used`: `CancelReservation` checks and writes without a lock or a
  status condition (`service/reservation_service.go:225-241`); a pickup that
  completes in between is overwritten, against `docs/03-STATE-MACHINE.md:93`.
- `second_borrower`: the live-record check (`service/operation_service.go:132-136`)
  is stale when `PreparePickup` inserts, and no constraint repeats it; a start
  at the end of one window and one at the beginning of the next leave two live
  records of one key, against `docs/07-ERROR-CODES.md:44`.

### Proofs (`OperationLedgerProofs`)

For all values of the constants (`LedgerAssumption`: functions have the right
domains, `NoTask` is not a task), TLAPS proves `Spec => []` of `TypeOK`,
`OneActiveOperation`, `NoStrandedBorrow`, `BorrowedKeyHasBorrower`,
`OnePickupPerReservation`, `OneCommandPerRequest`, and the action property
`PickupVerdictFinal`.

None of them is inductive alone, `TypeOK` included (a written-back row must be known
to be a row). `IInv` adds what ties the structures together:

- `PickupRecord`, `ReturnRecord`: what a pickup's or return's status says about the
  status of the borrow record;
- `InTransit`: a record that is BORROWING or RETURNING has a live operation of the
  matching action, and for RETURNING one that has never had a verdict;
- `HeldRow`: what an RFID handler's stale copy may still contain: it is the copy of a
  return the table knows, and a terminal status in it is one that was reached, so
  writing it can revive a return but never conclude one;
- `Dispatcher`: at most one thread is between `Prepare` and the publish of an
  operation, and none has published before it;
- `ClosedKnown`, `VerdictRecorded`: the history variable is truthful.

A revived return is why `NoStrandedBorrow` needs care: `WriteScan` can turn a
concluded operation EXECUTING while the record is BORROWED or COMPLETED; the
active-operation index (`Contend`) keeps it from meeting a second live operation,
and `Fail`, which overwrites the record unconditionally, can then move a COMPLETED
record back to BORROWED. `BorrowedKeyHasBorrower` survives that because `key` is
AVAILABLE by then.

Only model-checked: `OperationsSettle` (liveness under fairness is outside TLAPS's
reach) and the three counterexamples.

### What the ledger implements (`CabinetLending`, `LedgerLendingProofs`)

`CabinetLending` knows neither requests nor goroutines, clock, network or
reservations' states: there are the jobs a cabinet is doing and the borrow records.
A job starts on a free cabinet and moves its record into transit; the step that ends
a job settles its record. `ImplementsLending` maps `jobs` to the tasks of the active
operations and `record` to `borrow`, and says that every step of the ledger, stale
writes included, is a lending step or none.

The promise has to admit one thing the ledger does: a late RFID report revives a
return that was over (`Reopen`), and its second verdict may move a COMPLETED record
to BORROWED when it is a failure (`EndReopened`). What it does not admit is what the
refinement is worth: a revived return takes the cabinet only when it is free, a
pickup is never revived, no step settles the record of another job, and a record in
EXCEPTION is left alone.

`LedgerImplementsLending` proves it for all values of the constants, from the
inductive invariant of `OperationLedgerProofs`: `OneActiveOperation` gives `Free`,
`InTransit`, `PickupRecord` and `ReturnRecord` say which record a verdict finds, and
`ClosedKnown` tells a first verdict from that of a revived return. `ledger_bookings`
checks it on two bookings, where a job of one has to wait for that of the other.

## CabinetFirmware

### State and code

| Variable | Code |
|---|---|
| `queue` | `s_cmd_queue`, filled by `mqtt_event_handler`, emptied by `cmd_worker_task` |
| `cmd`, `pc`, `stroke`, `turns` | where `execute_command`, `rfid_verify_return`, `motor_dispense_slot`, `step_motor` and `motor_calibrate_home` are, and their loop counters |
| `aborting` | `s_abort_requested` |
| `powered` | the motor driver's enable pin (low is on) |
| `mqtt` | how far the MQTT task is with an abort |
| `inSlot`, `doorClosed` | the keys and the door; a micro-switch sees that some key is in its slot, a magnet that the door is closed |
| `reports` | what has been published about each operation |
| `delivered` | how often a command was delivered |
| `seen` | history: what slot and reader have shown since the command started: `emptied`, `filled`, `matched` |

The MQTT task handles an abort itself while the worker is busy; the tasks have the
same priority and the ESP32 two cores, and nothing but the queue is synchronised. So
each access to the flag or the pin is a step: an abort is `ReceiveAbort` (flag),
`DisableMotor` (pin), `AnswerAbort` (reports); a movement is `EnterStroke` (looks at
the flag), `EnableMotor`, and `Turn` (looks at the flag) and `Pulse` in turn. A
dispense is the strokes `push`, `retract`, `home` and `nudge`, the last one inside
`motor_calibrate_home`, which ignores its failure. The three polling loops share
`Poll` (timeout, abort) and `Sense` (read the pins).

The server is arbitrary: any command or abort at any time, an abort any number of
times, a command as often as `MaxDeliveries` says (QoS 1). The user opens and closes
the door at will and takes and puts keys while it is open; what the user does is
external. A reboot can happen anywhere; keys and published reports survive it.

Left out: the periodic inventory snapshot and the heartbeat (they read the pins and
publish), acknowledgements, the failure codes, JSON, the slot number check (commands
name existing slots), and the abort branch of `execute_command`, which no command
reaches because aborts are never queued. The rod's position is not modelled: homing
may find its origin at any turn, or never. Reading the tag is one step with
publishing the result, which fails or matches; a missing and a foreign tag are one.
The cabinet has one RC522 for all slots (`sensor_task.c:80-81`), and `rfid_task.c:59-103`
compares whatever tag is in its field: `ScanTag` reads any tag or none, whichever key
closed the slot's switch.

### Runs

| Run | Instance | Question | Distinct states |
|---|---|---|---|
| `firmware_commands` | 1 slot, 2 keys, a pickup (delivered twice) and a return, queue of 1, loops of 2 turns, fairness | Do aborts, jams, reboots and swapped keys leave the motor off, does a success have its slot's change and its tag behind it, and does a full queue drain? | 0.8 million |
| `aborted_moves` | the same | Does the mechanism rest for an operation whose abort was confirmed? No | counterexample |

Bounds: `MaxTurns` stands for the pulses of a stroke, the steps of homing and the
polls of a waiting loop; two turns are enough to be interrupted before, between and
after pulses. One slot suffices because one command runs at a time and each looks at
its own slot. With queue depth 1, one command running and three deliveries, the queue
is full and overflows. Deadlock checking is off: the user can always move the door,
so it would show nothing.

Fairness: `WF_vars(WorkerTask)`: FreeRTOS runs a ready task, every loop of the worker
sleeps or counts, and it waits for nobody. Neither user nor server is assumed to do
anything, so `QueueDrains` says that no one can hold up the worker; aborts without
end do not either.

`SuccessWitnessed` says as much as the sensors can: a pickup's slot was emptied, a
return's slot was filled and the expected tag was read, during this execution. It does
not say that the expected key is in the slot. A wrong key in the slot while the right
tag is held to the reader is RETURN_SUCCESS in the code and in the model, though
`docs/06-DEVICE-OPERATION.md:44-47` wants a wrong key refused; so is a pickup whose key
was put back before the door closed.

`aborted_moves` is short: a pickup is queued, its abort is received and confirmed,
the worker takes the pickup from the queue, clears the flag (`motor_clear_abort`,
`mqtt_client_task.c:26`) and moves. `AbortHaltsMotor` is what does hold, and holds
only until the next command begins.

### Proofs (`CabinetFirmwareProofs`)

From `FirmwareAssumption` (domains of the functions, positive bounds), for any number
of slots, keys, operations, turns and deliveries: `Spec => []` of `TypeOK`,
`AbortHaltsMotor`, `MotorRests` and `SuccessWitnessed`. The invariant adds

- `Foreseen`: what the worker knows of the slot at each point. A pickup that has
  passed its presence check has the key still there or saw it taken (`"emptied"`);
  a return cannot have a key in the slot without having seen it (`"filled"`), and is
  past the reader only with the expected tag (`"matched"`). `SuccessWitnessed` follows
  at the last point;
- `Counted`: in the body of a loop there is a turn left, without which the loop
  counter's bound is not inductive.

`AbortHaltsMotor` and `MotorRests` are inductive together with the types: a pulse is
only reached from `Turn` with the flag down, and between the flag going up and the
pin going high `mqtt.pc` is `"disable"`. Only model-checked: `QueueDrains` and the
counterexample.

## DeviceEvents

### State and code

| Variable | Code |
|---|---|
| `registered`, `pending`, `draining` | `handler` and `pending` of the gateway, and the slice `RegisterEventHandler` works through |
| `packet` | where the goroutine of a received PUBLISH is in `processMessage` and `handleIncoming` |
| `seen` | `seenMessages` |
| `scanned`, `verdict` | what has been committed: a return's scan, the status of an operation |
| `starter` | how far `dispatchPrepared` of an operation is: before `BeginExecution`, before publishing, after it, gone |
| `published` | commands and aborts handed to the MQTT client, which the cabinet may have got |
| `waiter`, `answer`, `call` | `abortWaiters`, the one place in a call's channel, and how far the call is |
| `applied`, `overtaken`, `restarts` | history; `overtaken`: operations cancelled without an abort after `BeginExecution` |

`SetOrderMatters(false)` and manual acknowledgement (`mqtt_gateway.go:158-159`) make
every packet a goroutine whose acknowledgement is the last thing it does. It looks
for its msgId (`CheckSeen`), calls the handler (`Handle`, `HandlerFails`), enters the
msgId, signals an abort waiter and acknowledges (`Finish`). Each of these uses the
gateway's mutex or the database once; between them other packets, also of the same
report, do theirs. The starter of an operation commits `BeginExecution` and publishes
the command after it (`PublishCommand`, `DispatchFails`). `BeginAbort`, `TakeAnswer` and
`GiveUp` are `AbortOperation`. Who calls it has read the status before: the sweep aborts
whatever has no verdict, `CancelOperation` what it found EXECUTING; when it found
AUTHORIZED, it goes on to its `Cancel` without an abort (`SkipAbort`,
`operation_service.go:285`), whatever the starter does meanwhile. `ConcludeCall` is that
`Cancel`, the one after a confirmed abort, or the sweep's `Timeout`. A restart empties
the tables and kills the goroutines; packets without an acknowledgement stay without
one. Requests and sweeps begin when the handler is registered and the waiting packets
are processed (`Serving`; `main.go:54-104`).

Abstractions: messages that do not parse are acknowledged and dropped and are left
out. Operations are returns, which have the longest sequence of reports (scan, then
success); the model starts with a server that is up and operations that are prepared.
The handling of a report is one step: that a scan's handler reads the row, updates it
and appends the event in three is in `OperationLedger` (`ReadForScan`, `WriteScan`). The
channel lookup and the send of `signalAbort` are one step, because a channel is used by
one call. The cabinet reports only on what it was sent (`Sent`). Every report has a msgId of its own; the cabinet makes
them from its clock, and two with the same id are one message here, as they are to
the gateway. Nothing relies on the redelivery the comment at `mqtt_gateway.go:497`
hopes for: the client connects with a clean session, so the broker may forget an
unacknowledged packet, and a later packet of a report may come or not.

### Run

`device_events` (4.9 million distinct states): two returns that are dispatched; of one a
scan (in two packets) and a success, of the other an abort answer; a cancellation of
each and the timeout sweep on the second; one restart. Any handler may fail. That is the least in
which a duplicate overlaps its original, a success overtakes its scan, two abort calls
meet, and an answer exists for an operation that somebody else waits beside. `Failed`
is empty: a failure report concludes an operation as the sweep does.

Safety only, so no fairness is stated.

`CancelledMeansStopped` has an exception, and the exception is a disagreement of code
and documentation. `docs/05-MQTT-PROTOCOL.md:276` lets the server conclude a
cancellation only after the cabinet has confirmed the stop. In the code a
`CancelOperation` reads AUTHORIZED, the starter commits `BeginExecution` and publishes
the command, and the cancellation, which asks the cabinet nothing, writes CANCELLED:
`Cancel` (`operation_repository.go:462-488`) refuses only an operation that is over. The
cabinet runs a cancelled operation. Without the last disjunct of the property TLC finds
this in four steps of two actors (`SkipAbort`, `BeginExecution`, `PublishCommand`,
`ConcludeCall`). What the property says is that this overlap is the only way: no answer
about another operation, no answer that came too late, no lost waiter and no restart
cancels what runs, and what is cancelled before it has begun is never sent.

### Proofs (`DeviceEventsProofs`)

All seven invariants are theorems for any number of packets, reports, operations,
calls and restarts, from `EventsAssumption` (a packet carries a report about some
operation; `NoCall` is not a call). They are inductive only with these parts:

- `HandledApplied`: a goroutine past its handler has had its report committed. Without
  it `AckedMeansApplied` says nothing of the step that acknowledges.
- `AnswerIsOurs`: an ABORT_ACK in a call's channel, or taken from it, has a committed
  report about the operation of that call. Its proof in `Finish` is where
  `NoStaleWaiter` is needed: a waiter left by another call would make the answer
  somebody else's. `CancelledMeansStopped` follows from it when the call is concluded
  after a confirmed abort.
- `CancelledUnsent`, `BegunFirst`: what is AUTHORIZED has not been sent, and what was
  cancelled before it was begun has a starter that will not begin it. They carry the
  cancellations without an abort.
- `DrainAfterRegister`: there is nothing left to drain before a handler is registered,
  so taking `pending` over loses nothing; a restart empties both.

`WaiterReachable` and `NoStaleWaiter` need each other: a call that returns deletes the
waiter by the operation's id, which is its own only because it is still the one
registered. Each action has a lemma; `InboxFrame`, `ReportFrame`, `VerdictFrame`,
`AnswerFrame` and `CallFrame` say what a step that leaves a part of the state alone
keeps.

## CabinetMonitor

### State and code

| Variable | Code |
|---|---|
| `contents` | the physical slots |
| `key`, `presence`, `open`, `device` | `keys.status`, `slots.presence`, types of open `device_alerts` per slot, `devices.status` |
| `memory` | the gateway's `deviceStates` entry; `"stale"` is ONLINE but older than the timeout |
| `monitor` | `expireStaleDevices` between releasing its lock and writing to the database |
| `worker` | goroutines of messages: the snapshot they carry, the slot they are at, the rows they read |
| `changes`, `outages` | bounds |

`handleStatus` updates `memory` and then the database (`Heartbeat` or `Will`,
`WriteStatus`); `handleInventory` goes on into `OnInventorySnapshot`, which reads all
slots at once (`ReadSlots`) and then, slot by slot, updates presence, reads the key
and opens or closes alerts. Each statement is a step. A worker's snapshot and rows may
be arbitrarily old when it acts on them; a verdict of the ledger
(`updateKeyAndSlot`) or a hand in the slot comes in between.

Abstractions: one cabinet, since nothing is shared between cabinets. `MAINTENANCE`
stands for every key status that the reconciler takes alike. An administrator's edit
gives a key any other status (`UpdateKeyStatus`). `open` holds types, not rows: two
goroutines can open the same alert twice, nothing prevents it, and
`ResolveAllBySlot` closes both. Presence timestamps and last-seen times are left out,
no decision is taken on them. Database errors are left out. The will is the LWT the
firmware configures (`mqtt_client_task.c:298-319`).

### Run and fairness

`cabinet_monitor` (0.7 million distinct states): a slot with a key and one without,
two goroutines, two changes, one outage. Two changes suffice to have a snapshot of
before and of after a verdict in flight; one outage for a will, a silence or a restart
to meet a heartbeat. The three liveness properties say that whatever was written out
of order, in the end presence, alerts and online state are right for good. The three
action properties say what a step never does on the way there: with no outdated
snapshot of a slot under way, a right row (`PresenceStays`) or a right set of alerts
(`AlertsStay`) stays right, whichever goroutine acts and wherever it is in its list;
and a usable cabinet with no OFFLINE on its way is taken offline by an outage only
(`OnlineStays`).

Fairness: goroutines run and the monitor's ticker ticks (weak). `Heartbeat` and
`Snapshot` are strongly fair: a living cabinet sends both for ever (firmware: every
change and every minute), but with two workers a message can find both busy, which in
the code, where goroutines are not limited, does not stop it. The properties hold
because of that repetition: a single wrong write stands until the next message.

### Proofs (`CabinetMonitorProofs`)

`TypeOK` and the three action properties are theorems for any number of slots,
goroutines, changes and outages, from `MonitorAssumption` (at least one slot, bounds
are numbers). `TypeOK` becomes inductive with `Formed`: a goroutine at a slot has a
snapshot and the rows it read, and one that is to open or close an alert has decided
which. The action properties need no other invariant, but facts about every step,
proved once per action and collected in `Allowed`:

- `Carried`: a goroutine's snapshot is the one it had, one of the slots as they are,
  or none. So what was up to date stays so while nobody touches the slot.
- `PresenceWritten`, `AlertsWritten`: a presence changes with the key, by the ledger,
  or to what some goroutine's snapshot says; alerts by a goroutine that is at the slot.
- `Decided`: what a goroutine is about to do with the alerts follows from its snapshot
  and the key as it is now, or was decided before; the second case is the one
  `AlertsRight` has to speak about.
- `OnlineKept`: only an outage sends an OFFLINE on its way.

The three liveness properties are only model-checked.

## BorrowReminders

### State and code

| Variable | Code |
|---|---|
| `status`, `overdue` | `borrow_records.status`, whether `overdue_at` is set |
| `row` | the `reminders` row of a record and type: status, attempts, when to retry |
| `checker` | a call of `CheckOverdue`: its time, what is left of its list, the reminder in its hands |
| `past` | rows of a record that a request of `borrow_service` may have read before it writes |
| `clock`, `events` | time and a bound |
| `undisturbed`, `delivered` | history |

A check is `BeginCheck` (`MarkOverdue`, one UPDATE), `ListBorrowed`, per record
`Process` with `Create` and `Send` and `SaveReminder`, then `ListRetries` and `Retry`.
The scheduler comes back for ever; the endpoint `POST /borrow-records/check-overdue`
runs the same code beside it. `Send` is external: WeChat accepts, refuses, or accepts
and the answer is lost. `Settle` is what the ledger's transactions make of a record,
`Edit` what `MarkBorrowed`, `BeginReturn` and `CompleteReturn` do: find a status,
then save the whole row as it was read.

Abstractions: a step of the clock is longer than the half hour of warning and the
longest back-off, so `retryAt` is the next step; at the end of time a failed reminder
may be tried again at once, so that the three attempts can be made. `CreateBorrowing`
looks at key and reservation before it inserts; here it asks only that the record is
not there, since no reminder depends on whose it is. `MarkOperationFailed`, which
nobody calls, is left out. A check without a WeChat client does nothing and is left out. The order of a list and
its limit of 50 are left out.

### Run and fairness

`borrow_reminders` (1.1 million distinct states): one record due at once, scheduler
and one request, two changes or restarts. `AloneSendsOnce` is about what one check
does; overlapping checks do send twice, because the unique index that the comment at
`borrow_service.go:293` relies on guards the creation of the row and not the sending
of one that exists. `NoReminderAfterReturn` compares each sending with the records that
were BORROWED at some moment since its check began. `OverdueReminded` is liveness:
fairness is that time passes, that the scheduler's ticker ticks, and that a check that
runs goes on; a killed one may leave a PENDING row, which the next takes up.

### Proofs (`BorrowRemindersProofs`)

`TypeOK`, `AloneSendsOnce` and `NoReminderAfterReturn` are theorems for any records,
due times, number of checks and changes, from `RemindersAssumption`. The invariant
has three parts; TLC found it to hold on the run's instance before it was proved.

- `Typed`: types, and `Formed`, what a check has in its hands at each step: the
  reminders it makes from the list of borrowed records are of records that were
  BORROWED since it began (`live`), also after the record has moved on.
- `Watched`: every record that is BORROWED now is in `live` of every check under way,
  which is what a list made in the middle of a check needs.
- `Once`: as long as no two checks have overlapped, none was killed and no answer was
  lost (`undisturbed`), one check runs at most (`Alone`); a message that was accepted
  is in its row or about to be saved there (`Recorded`); and what a check sends or is
  going to retry is not SENT yet, and it has each reminder in its hands once
  (`Fresh`). `AloneSendsOnce` alone says nothing of lists; without `Fresh`, a list of
  retries could hold what has just been sent.

`OverdueReminded` is only model-checked.

## UserAccounts

### State and code

| Variable | Code |
|---|---|
| `row` | `users`: student number, is there a real name, `identity_verified` |
| `identity` | `user_identities`, unique per provider and subject |
| `login`, `edit` | `WechatLogin` after `FindIdentity`; `UpdateProfile` with the row it is going to save |
| `verifying` | rows locked by `VerifyIdentity` |
| `face` | `FaceAuth`: what was shown, how far it is, for whom it signed a session |
| `confirmed` | history: what administrators verified |

Registration and verification are transactions; a profile is read without a lock and
saved later, every column of it (`SaveProfile`), after any verification that holds the
row. `idx_users_verified_student_no` is a partial unique index (`Taken`).

Abstractions: a second real name counts as the first; `Department`, a change of which
also revokes the verification, is left out, as are phone, role and status (no request
disables an account). A verification is of the number it finds in the row.
`FaceAuth` looks for the string it was shown as a student number (`FindByStudentNo`)
and, when no row has it, as the id of a user (`FindByID`, `cabinet_service.go:375-380`);
the two are statements of their own, and a number in a profile may be somebody's id.
Face match, liveness and the cabinet's state only decide whether `FaceAuth` is allowed,
and it may happen at any time.

### Run

`user_accounts` (0.3 million distinct states, up to the names of the profile changes):
two WeChat users, one of them logging in twice at once, three ids (in any order of the
primary key), two numbers, one of which is an id as well, two profile changes, one face
request. Two changes are the least in which both users claim a number, or one of them
saves an older row over a verification; verifications may follow each other without
limit. What the code does and no property denies: `FindByStudentNo` returns the first
row of a number, so somebody who enters another's number in a profile with a smaller id
keeps the owner from a session until the administrator acts; a user's own id opens a
session as the number does; and a late save undoes a verification, or brings a revoked
mark back together with the number it was given for.

### Proofs (`UserAccountsProofs`)

The invariants of the run are theorems for any number of ids, WeChat users, numbers and
requests, from `AccountsAssumption` (every login has a WeChat user; `NoUser` and
`NoNumber` are neither an id nor a number), and so is `SessionsConfirmed`: a session is
signed for a user verified with the number shown or, by the fallback, for the user whose
own id was shown, verified with some number. Together with `VerifiedWasConfirmed` it
follows from the check at `cabinet_service.go:387` alone, so no run spends a property on
it. The strengthening adds:

- `EditConfirmed`: a row that a request is still going to save carries the mark only
  with a number confirmed for that user. `SaveProfile` writes such a row however late;
  `EditedRow` says that `UpdateProfile` made it from a row with the same number.
- `LockedComplete`: a row `VerifyIdentity` has locked has a number, because a save
  waits for the lock. Otherwise the number an administrator confirms could be missing.
- `IdentityExists`: an identity leads to a row, so that a login finds an account and a
  new id cannot already belong to another WeChat user.

`VerifiedNumberUnique` rests on the index (`Taken`, in both writers), not on the check
that `VerifyIdentity` makes before: two verifications that lock different rows both pass
that check, and an edit that was read with the mark may be saved after another account
got the number.

## ReservationTransactions

### State and code

| Variable | Code |
|---|---|
| `row` | committed `reservations.status` and `keys.status` |
| `draft` | the newest version of a row, committed or not |
| `holder` | whose transaction has the row locked |
| `call` | a goroutine with its connection: which transaction it runs, its next statement, the reservations it has left, the key of the current one |
| `past` | reservations whose `pickup_window_end` is over |
| `contended` | history: keys of which two transactions have been giving reservations up at once |

`OperationLedger` takes a transaction as one step. Here every SQL statement that
touches a reservation or `keys.status` is a step, with PostgreSQL's default isolation,
which nothing in the server changes: a statement sees the rows that are committed when
it begins and its own transaction's writes (`Visible`), a written row or one selected
FOR UPDATE is locked until the end (`Write`, `LockLapsed`), and who has waited for a row
evaluates the WHERE again on the version that is there now. So `UPDATE keys ... WHERE
status = 'RESERVED'` is two steps: `FindKey`, which decides whether the row is worth
waiting for, and `WriteKey`, which looks again. `Commit` makes a transaction's drafts
visible; `Rollback`, a failed statement, a lost connection or the end of the server,
may come at any step.

| Transaction | Statements |
|---|---|
| `Create` (`reservation_repository.go:21-33`) | `Insert`, `FindKey`, `WriteKey`, `Commit` |
| `Update` of a cancellation (76-111) | `Update`, `Count`, `FindKey`, `WriteKey`, `Commit` |
| `Review` (113-164) | `Review`, for a rejection or a lapsed window `Count`, `FindKey`, `WriteKey`, `Commit` |
| `ExpireBefore` (166-192) | `LockLapsed` per row, then per reservation `Update`, `Count`, `FindKey`, `WriteKey`, and one `Commit` |
| `CompletePickup` (`operation_repository.go:254-304`) | `Use`, `SetKey`, `Commit` |
| `CompleteReturn` (306-400) | `SetKey`, `Commit` |

What the services check before a transaction is the guard of the action that begins
it, on the rows committed then; any number of steps may lie between.

Abstractions: the bookings are ones the exclusion constraint admits together, so an
insert never conflicts. One operation per key at a time is taken from `OperationLedger`
(`OneActiveOperation`); the operation and borrow-record rows a verdict also writes are
written by no other transaction here, and their refusals are rollbacks. A pickup begins
with what `startPickup` checked and holds the key from there to its verdict: a second
borrower who passes the check before the first one's `PreparePickup` is in
`OperationLedger` (`second_borrower`), which has the two apart. A review decides by the
clock read before its transaction (`reservation_service.go:325`): one that began in time
(`review`) approves or rejects also when the window has ended since, one that began too
late (`lapsed`) expires the reservation. A review's SELECT FOR UPDATE and its UPDATE are one
step, since the row is locked in between. The administrator's edit of a key's status is left out: it would make a BORROWED key
anything at any time.

### Run

| Run | Instance | Question | Distinct states |
|---|---|---|---|
| `reservation_transactions` | 1 key with approval, 2 reservations, 2 calls, fairness | Are reservations and key kept in step by interleaved statements, and do transactions wait for each other for ever? | 0.1 million |

Two calls are two transactions that overlap, in every order of their statements, with
any number before and after them; what a third in between could do is covered by the
proofs. Two reservations are the least with a claim to be counted, and the expiry then
holds two rows while it goes for the key, which is the longest chain a deadlock could
have here. Pickup windows end once, calls begin again without limit, so the states are
finite without a bound. Deadlock checking is off: when all reservations have ended,
nothing is left to do.

Fairness: a call's next statement is strongly fair. A connection that can go on does,
and PostgreSQL serves a row's waiters in turn, so that a row which is free again and
again is got in the end. Rollbacks are not assumed; a deadlock would have to be broken
by one.

`ReservedForSomebody` excepts the keys in `contended`, and the exception is real. Two
users cancel at the same time; both UPDATEs are done, both counts still see the other's
reservation as claiming, nobody releases the key, and it stays RESERVED without a
reservation (`reservation_repository.go:95-103`, against `docs/03-STATE-MACHINE.md:62`
and `:102`). What the property says is that such an overlap is the only way: any two
other transactions, and any rollback between their statements, leave a RESERVED key
with somebody who will release it. A creation that has inserted its reservation while
the last one is being cancelled can leave a claimed key AVAILABLE as well; nothing
reads that status but the key list, and no property denies it.

### Proofs (`ReservationTransactionsProofs`)

`TypeOK`, `ReservedForSomebody`, `OnlyCancelOverwrites` and `BorrowedKept` are theorems
for any number of keys, reservations and calls, from `TransactionsAssumption` (keys and
reservations are different rows; every reservation has a key; `Nobody` is not a call).
The inductive invariant:

- `Formed`: what a call has in its hands at each statement; the expiry, for one, has
  locked every reservation it is going to update.
- `Locks`: who has a row locked knows what the committed row is and what it is becoming
  (`Held`, `HeldKey`): a review's row is PENDING, an expiry's, a pickup's claims the key,
  a release's key is RESERVED. Since only the holder can commit, this is what
  `OnlyCancelOverwrites` and `BorrowedKept` need; a cancellation alone knows no more
  than that the row exists.
- `Created`: a reservation that is not there yet is being made by one call.
- `Noted`: of a key that is not `contended`, one call at most is giving up reservations.
- `Cared`: a RESERVED key has a claim nobody is giving up (`Kept`), or a call that is
  giving one up and has not counted yet, has counted nothing, or has already written the
  key (`Deciding`). `ReservedForSomebody` is not inductive without it: it says nothing
  of claims whose end is written but not committed.

Every statement of a call leaves the other calls and their rows alone (`Frame`);
`StepKeeps` reduces a step to what it does to the call that takes it. `Count` is where
`Noted` enters: a claim it sees is somebody else's to give up only if two are at it.
`TransactionsEnd` is only model-checked.

## Not modelled

See the plan for what is next. In particular there is no model in which ledger, wire,
cabinet and physical key run together, so what is said about them is said of each side
with the other one arbitrary.

Left out for good: the RC522 driver, Wi-Fi set-up and boot of the firmware, the face
engine and liveness detection (signal processing), tokens and the WeChat code
exchange, the signature check of the kiosk's requests, HTTP decoding and error
formatting, mock services and simulators, page layout of the mini-program.

`DirectDispense` (`service/cabinet_service.go`) is not modelled because it cannot
succeed on the migrated schema: it creates a borrow record without a reservation,
while `borrow_records.reservation_id` is NOT NULL with a foreign key
(`src/server/migrations/000001_init.up.sql:97`; `docs/02-DATA-MODEL.md:257` shows it
nullable), so its transaction is refused before a command is sent.

## Running

    tlc -workers 2 -config ledger_retries.cfg MCOperationLedger
    tlapm OperationLedgerProofs.tla
    tlapm LedgerLendingProofs.tla
    tlc -workers 2 -config firmware_commands.cfg MCCabinetFirmware
    tlapm CabinetFirmwareProofs.tla
    tlc -workers 2 -config device_events.cfg MCDeviceEvents
    tlapm DeviceEventsProofs.tla
    tlc -workers 2 -config cabinet_monitor.cfg MCCabinetMonitor
    tlapm CabinetMonitorProofs.tla
    tlc -workers 2 -config borrow_reminders.cfg MCBorrowReminders
    tlapm BorrowRemindersProofs.tla
    tlc -workers 2 -config user_accounts.cfg MCUserAccounts
    tlapm UserAccountsProofs.tla
    tlc -workers 2 -config reservation_transactions.cfg MCReservationTransactions
    tlapm ReservationTransactionsProofs.tla
