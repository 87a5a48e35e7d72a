--------------------------- MODULE CabinetFirmware ---------------------------
(***************************************************************************)
(* The command side of the cabinet's ESP32: the MQTT task that receives    *)
(* commands, the worker task that carries them out, and what they share,   *)
(* the command queue, the abort flag and the motor's enable pin.  A user's *)
(* hand works the keys and the door meanwhile.                             *)
(*                                                                         *)
(* The two tasks have the same priority and the chip has two cores, so     *)
(* every read and write of the shared flag and pin is a step of its own.   *)
(* A slot's switch says that some key is in; the one RC522 reader of the   *)
(* cabinet reads whatever tag is held to it, whichever slot was filled.    *)
(* The server is arbitrary here: it may send a command or an abort for any *)
(* operation at any time, and QoS 1 may deliver either more than once.     *)
(* Acknowledgements (COMMAND_ACK, ABORT_ACK) accompany the reports below   *)
(* and are left out; what went wrong is not told apart in a FAILED report. *)
(***************************************************************************)
EXTENDS Naturals, Sequences

CONSTANTS
    Slots,
    Keys,
    Operations,     \* operation ids
    Action,         \* "PICKUP" or "RETURN"
    SlotOf,         \* the slot a command names
    KeyOf,          \* the key whose tag a return command expects
    QueueDepth,     \* capacity of s_cmd_queue
    MaxTurns,       \* turns of every motor and polling loop
    MaxDeliveries,  \* how often each command may be delivered
    NoKey, NoOp

ASSUME FirmwareAssumption ==
    /\ Action \in [Operations -> {"PICKUP", "RETURN"}]
    /\ SlotOf \in [Operations -> Slots]
    /\ KeyOf \in [Operations -> Keys]
    /\ QueueDepth \in Nat \ {0}
    /\ MaxTurns \in Nat \ {0}
    /\ MaxDeliveries \in [Operations -> Nat]
    /\ NoKey \notin Keys
    /\ NoOp \notin Operations

VARIABLES
    inSlot,     \* the key in each slot
    doorClosed, \* the door magnet
    queue,      \* s_cmd_queue
    cmd,        \* the command the worker is executing, NoOp between two
    pc,         \* where in execute_command the worker is
    stroke,     \* which motor movement, while it is in one
    turns,      \* turns of the present loop so far
    aborting,   \* s_abort_requested
    powered,    \* the motor's EN pin is low
    mqtt,       \* the MQTT task: idle, or inside the handling of an abort
    reports,    \* per operation, what has been published about it
    delivered,  \* per operation, how often its command was delivered
    seen        \* history: what slot and reader have shown during this execution

hand   == <<inSlot, doorClosed>>
worker == <<cmd, pc, stroke, turns>>
vars   == <<inSlot, doorClosed, queue, cmd, pc, stroke, turns, aborting,
            powered, mqtt, reports, delivered, seen>>

Strokes  == {"push", "retract", "home", "nudge"}
Moving   == {"enter", "enable", "loop", "pulse", "off"}
Polling  == {"await", "sense", "door", "doorSense", "insert", "insertSense"}
Points   == {"idle", "check", "jammed", "scan", "succeed"} \cup Moving \cup Polling
Report   == {"SUCCESS", "FAILED", "RFID_CONFIRMED", "ABORTED"}
Handling == [pc : {"idle"}] \cup [pc : {"disable", "answer"}, op : Operations]

Quiet == [pc |-> "idle"]

Publish(op, stage) == reports' = [reports EXCEPT ![op] = @ \cup {stage}]

Init ==
    /\ inSlot \in [Slots -> Keys \cup {NoKey}]
    /\ \A s, u \in Slots : inSlot[s] = inSlot[u] => s = u \/ inSlot[s] = NoKey
    /\ doorClosed = TRUE
    /\ queue = <<>>
    /\ cmd = NoOp
    /\ pc = "idle"
    /\ stroke = "push"
    /\ turns = 0
    /\ aborting = FALSE
    /\ powered = FALSE
    /\ mqtt = Quiet
    /\ reports = [op \in Operations |-> {}]
    /\ delivered = [op \in Operations |-> 0]
    /\ seen = {}

-----------------------------------------------------------------------------
(* The user                                                                *)

MoveDoor ==
    /\ doorClosed' = ~doorClosed
    /\ UNCHANGED <<inSlot, queue, worker, aborting, powered, mqtt, reports,
                   delivered, seen>>

\* What the slot of the executing command has witnessed.
Witness(s, event) ==
    IF cmd # NoOp /\ SlotOf[cmd] = s THEN seen \cup event ELSE seen

Take(s) ==
    /\ ~doorClosed
    /\ inSlot[s] # NoKey
    /\ inSlot' = [inSlot EXCEPT ![s] = NoKey]
    /\ seen' = Witness(s, {"emptied"})
    /\ UNCHANGED <<doorClosed, queue, worker, aborting, powered, mqtt, reports,
                   delivered>>

Put(s, k) ==
    /\ ~doorClosed
    /\ inSlot[s] = NoKey
    /\ \A u \in Slots : inSlot[u] # k
    /\ inSlot' = [inSlot EXCEPT ![s] = k]
    /\ seen' = Witness(s, {"filled"})
    /\ UNCHANGED <<doorClosed, queue, worker, aborting, powered, mqtt, reports,
                   delivered>>

-----------------------------------------------------------------------------
(* The MQTT task                                                           *)

\* A pickup or return command: queued, or dropped when the queue is full.
ReceiveCommand(op) ==
    /\ mqtt = Quiet
    /\ delivered[op] < MaxDeliveries[op]
    /\ delivered' = [delivered EXCEPT ![op] = @ + 1]
    /\ queue' = IF Len(queue) < QueueDepth THEN Append(queue, op) ELSE queue
    /\ UNCHANGED <<hand, worker, aborting, powered, mqtt, reports, seen>>

\* An abort: motor_request_abort raises the flag ...
ReceiveAbort(op) ==
    /\ mqtt = Quiet
    /\ aborting' = TRUE
    /\ mqtt' = [pc |-> "disable", op |-> op]
    /\ UNCHANGED <<hand, queue, worker, powered, reports, delivered, seen>>

\* ... and disables the motor ...
DisableMotor ==
    /\ mqtt.pc = "disable"
    /\ powered' = FALSE
    /\ mqtt' = [mqtt EXCEPT !.pc = "answer"]
    /\ UNCHANGED <<hand, queue, worker, aborting, reports, delivered, seen>>

\* ... and the abort is confirmed, whatever the worker was doing.
AnswerAbort ==
    /\ mqtt.pc = "answer"
    /\ Publish(mqtt.op, "ABORTED")
    /\ mqtt' = Quiet
    /\ UNCHANGED <<hand, queue, worker, aborting, powered, delivered, seen>>

-----------------------------------------------------------------------------
(* The worker                                                              *)

Goto(next) == pc' = next /\ UNCHANGED <<cmd, stroke, turns>>

\* Enter a loop: its counter starts over.
Loop(next) == pc' = next /\ turns' = 0 /\ UNCHANGED <<cmd, stroke>>

\* One more turn.
Again(next) == pc' = next /\ turns' = turns + 1 /\ UNCHANGED <<cmd, stroke>>

\* Return from execute_command.
Finish ==
    /\ cmd' = NoOp
    /\ pc' = "idle"
    /\ stroke' = "push"
    /\ turns' = 0
    /\ seen' = {}

\* cmd_worker_task takes the next command; motor_clear_abort forgets every
\* abort received so far, one for this very command included.
StartCommand ==
    /\ pc = "idle"
    /\ queue # <<>>
    /\ queue' = Tail(queue)
    /\ cmd' = Head(queue)
    /\ pc' = IF Action[cmd'] = "PICKUP" THEN "check" ELSE "insert"
    /\ turns' = 0
    /\ aborting' = FALSE
    /\ seen' = IF inSlot[SlotOf[cmd']] # NoKey THEN {"filled"} ELSE {}
    /\ UNCHANGED <<hand, stroke, powered, mqtt, reports, delivered>>

\* Mutant: the motor is started without looking at the slot first.
CheckNothing ==
    /\ pc = "check"
    /\ Goto("enter")
    /\ UNCHANGED <<reports, seen, hand, queue, aborting, powered, mqtt, delivered>>

\* A pickup from an empty slot is refused.
CheckPresence ==
    /\ pc = "check"
    /\ IF inSlot[SlotOf[cmd]] = NoKey
       THEN Publish(cmd, "FAILED") /\ Finish
       ELSE Goto("enter") /\ UNCHANGED <<reports, seen>>
    /\ UNCHANGED <<hand, queue, aborting, powered, mqtt, delivered>>

-----------------------------------------------------------------------------
(* The motor: motor_dispense_slot, step_motor, motor_calibrate_home        *)

\* A movement starts: step_motor looks at the flag first, homing does not.
Begin(next) ==
    /\ stroke' = next
    /\ pc' = IF next = "home" THEN "enable" ELSE "enter"
    /\ UNCHANGED <<cmd, turns>>

\* The last small movement's failure is ignored by motor_calibrate_home.
StrokeFails ==
    /\ powered' = FALSE
    /\ Goto(IF stroke = "nudge" THEN "off" ELSE "jammed")

StrokeEnds ==
    /\ UNCHANGED powered
    /\ CASE stroke = "push"    -> Begin("retract")
         [] stroke = "retract" -> Begin("home")
         [] stroke = "home"    -> Begin("nudge")
         [] stroke = "nudge"   -> Goto("off")

EnterStroke ==
    /\ pc = "enter"
    /\ IF aborting THEN StrokeFails ELSE Goto("enable") /\ UNCHANGED powered
    /\ UNCHANGED <<hand, queue, aborting, mqtt, reports, delivered, seen>>

EnableMotor ==
    /\ pc = "enable"
    /\ powered' = TRUE
    /\ Loop("loop")
    /\ UNCHANGED <<hand, queue, aborting, mqtt, reports, delivered, seen>>

\* Mutant: the flag is only looked at when the movement starts.
TurnUnchecked ==
    /\ pc = "loop"
    /\ \/ IF stroke = "home" THEN StrokeEnds
          ELSE turns = MaxTurns /\ StrokeEnds
       \/ /\ stroke = "home" \/ turns < MaxTurns
          /\ Goto("pulse") /\ UNCHANGED powered
    /\ UNCHANGED <<hand, queue, aborting, mqtt, reports, delivered, seen>>

\* The head of a movement's loop.  Homing ends when the origin switch
\* closes, any other movement after its number of pulses.
Turn ==
    /\ pc = "loop"
    /\ \/ IF stroke = "home" THEN StrokeEnds
          ELSE turns = MaxTurns /\ StrokeEnds
       \/ /\ stroke = "home" \/ turns < MaxTurns
          /\ IF aborting THEN StrokeFails ELSE Goto("pulse") /\ UNCHANGED powered
    /\ UNCHANGED <<hand, queue, aborting, mqtt, reports, delivered, seen>>

\* One pulse; it moves the rod if the motor is powered.  Homing gives up
\* when the origin does not come.
Pulse ==
    /\ pc = "pulse"
    /\ IF stroke = "home" /\ turns = MaxTurns
       THEN StrokeFails
       ELSE Again("loop") /\ UNCHANGED powered
    /\ UNCHANGED <<hand, queue, aborting, mqtt, reports, delivered, seen>>

\* Mutant: the motor is left enabled when homing is over.
SkipMotorOff ==
    /\ pc = "off"
    /\ Loop("await")
    /\ UNCHANGED <<hand, queue, aborting, powered, mqtt, reports, delivered, seen>>

MotorOff ==
    /\ pc = "off"
    /\ powered' = FALSE
    /\ Loop("await")
    /\ UNCHANGED <<hand, queue, aborting, mqtt, reports, delivered, seen>>

\* motor_dispense_slot returned false: jammed, or aborted and then silent.
Jammed ==
    /\ pc = "jammed"
    /\ IF aborting THEN UNCHANGED reports ELSE Publish(cmd, "FAILED")
    /\ Finish
    /\ UNCHANGED <<hand, queue, aborting, powered, mqtt, delivered>>

-----------------------------------------------------------------------------
(* Polling loops: the key leaves, the key arrives, the door closes         *)

\* Mutant: one turn too many.
PollOnceMore(head, body) ==
    /\ pc = head
    /\ IF turns > MaxTurns THEN Publish(cmd, "FAILED") /\ Finish
       ELSE IF aborting THEN Finish /\ UNCHANGED reports
       ELSE Goto(body) /\ UNCHANGED <<reports, seen>>
    /\ UNCHANGED <<hand, queue, aborting, powered, mqtt, delivered>>

\* The head of a loop: the time is up, or an abort ends it silently.
Poll(head, body) ==
    /\ pc = head
    /\ IF turns = MaxTurns THEN Publish(cmd, "FAILED") /\ Finish
       ELSE IF aborting THEN Finish /\ UNCHANGED reports
       ELSE Goto(body) /\ UNCHANGED <<reports, seen>>
    /\ UNCHANGED <<hand, queue, aborting, powered, mqtt, delivered>>

\* Mutant: turns are not counted.
SenseUncounted(body, found, next, head) ==
    /\ pc = body
    /\ IF found THEN Loop(next) ELSE Goto(head)
    /\ UNCHANGED <<hand, queue, aborting, powered, mqtt, reports, delivered, seen>>

\* Its body: what it waits for is read from the pins.
Sense(body, found, next, head) ==
    /\ pc = body
    /\ IF found THEN Loop(next) ELSE Again(head)
    /\ UNCHANGED <<hand, queue, aborting, powered, mqtt, reports, delivered, seen>>

AwaitRemoval   == Poll("await", "sense")
AwaitInsertion == Poll("insert", "insertSense")
AwaitDoor      == Poll("door", "doorSense")

SenseRemoval   == Sense("sense", inSlot[SlotOf[cmd]] = NoKey, "door", "await")
SenseInsertion == Sense("insertSense", inSlot[SlotOf[cmd]] # NoKey, "scan", "insert")
SenseDoor      == Sense("doorSense", doorClosed, "succeed", "door")

\* What the reader finds in its field: the expected tag, another or none.
ScanTag ==
    /\ pc = "scan"
    /\ \E tag \in Keys \cup {NoKey} :
           IF tag = KeyOf[cmd]
           THEN /\ Publish(cmd, "RFID_CONFIRMED")
                /\ Loop("door")
                /\ seen' = seen \cup {"matched"}
           ELSE Publish(cmd, "FAILED") /\ Finish
    /\ UNCHANGED <<hand, queue, aborting, powered, mqtt, delivered>>

Succeed ==
    /\ pc = "succeed"
    /\ Publish(cmd, "SUCCESS")
    /\ Finish
    /\ UNCHANGED <<hand, queue, aborting, powered, mqtt, delivered>>

-----------------------------------------------------------------------------
\* Power is lost and comes back: nothing in memory survives, the published
\* reports and the keys do.  app_main homes the rod before the tasks start.
Reboot ==
    /\ queue' = <<>>
    /\ Finish
    /\ aborting' = FALSE
    /\ powered' = FALSE
    /\ mqtt' = Quiet
    /\ UNCHANGED <<hand, reports, delivered>>

User == MoveDoor \/ \E s \in Slots : Take(s) \/ \E k \in Keys : Put(s, k)

MqttTask ==
    \/ \E op \in Operations : ReceiveCommand(op) \/ ReceiveAbort(op)
    \/ DisableMotor \/ AnswerAbort

WorkerTask ==
    \/ StartCommand \/ CheckPresence
    \/ EnterStroke \/ EnableMotor \/ Turn \/ Pulse \/ MotorOff \/ Jammed
    \/ AwaitRemoval \/ SenseRemoval \/ AwaitInsertion \/ SenseInsertion
    \/ ScanTag \/ AwaitDoor \/ SenseDoor \/ Succeed

Next == User \/ MqttTask \/ WorkerTask \/ Reboot

Spec == Init /\ [][Next]_vars

\* The worker task is scheduled whenever it can run.
FairSpec == Spec /\ WF_vars(WorkerTask)

-----------------------------------------------------------------------------
(* Properties                                                              *)

PlacesOK ==
    /\ inSlot \in [Slots -> Keys \cup {NoKey}]
    /\ doorClosed \in BOOLEAN
    /\ queue \in Seq(Operations)
    /\ Len(queue) <= QueueDepth
    /\ mqtt \in Handling
    /\ delivered \in [Operations -> Nat]
    /\ \A op \in Operations : delivered[op] <= MaxDeliveries[op]

ControlOK ==
    /\ cmd \in Operations \cup {NoOp}
    /\ pc \in Points
    /\ pc = "idle" <=> cmd = NoOp
    /\ stroke \in Strokes
    /\ turns \in 0 .. MaxTurns
    /\ seen \subseteq {"emptied", "filled", "matched"}

OutcomesOK ==
    /\ aborting \in BOOLEAN
    /\ powered \in BOOLEAN
    /\ reports \in [Operations -> SUBSET Report]

\* Types, the queue's capacity, and every loop within its bound.
TypeOK == PlacesOK /\ ControlOK /\ OutcomesOK

\* Once motor_request_abort is through, no pulse reaches a powered motor
\* until the next command begins, although the worker enables the motor
\* without a lock and may do so after the abort disabled it.
AbortHaltsMotor ==
    aborting /\ mqtt.pc # "disable" /\ pc = "pulse" => ~powered

\* The motor is powered only while a movement is under way: every way out
\* of one, abort, jam and success, has disabled it.
MotorRests == powered => pc \in Moving

\* A pickup is a success only when a key was taken from its slot during this
\* execution; a return, when some key was in the slot and the expected tag was
\* at the reader.  Nothing in the code ties the tag to the key in the slot: a
\* wrong key there and the right tag held to the reader make a success
\* (rfid_task.c:62-101).
SuccessWitnessed ==
    pc = "succeed" =>
        (IF Action[cmd] = "PICKUP" THEN {"emptied"} ELSE {"filled", "matched"}) \subseteq seen

\* A full queue, at which commands are dropped without a word, does not
\* stay full: no user can hold up the worker for good.
QueueDrains == Len(queue) = QueueDepth ~> Len(queue) < QueueDepth

\* docs/05-MQTT-PROTOCOL.md:276, an abort is confirmed once the machine has
\* come to a safe stop: the mechanism is not driven for an operation whose
\* abort has been confirmed.
AbortedStaysStopped ==
    pc = "pulse" /\ powered => "ABORTED" \notin reports[cmd]

=============================================================================
