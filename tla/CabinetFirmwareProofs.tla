------------------------ MODULE CabinetFirmwareProofs ------------------------
(***************************************************************************)
(* What CabinetFirmware promises for every number of slots, keys,          *)
(* operations, queue places, loop turns and deliveries.                    *)
(***************************************************************************)
EXTENDS CabinetFirmware, TLAPS

\* What the worker knows of the slot at each point: on the way to a pickup
\* the key is still there or has been taken since; on the way to a return
\* no key can be in the slot unnoticed; and behind either, what happened has
\* been witnessed.
Foreseen ==
    /\ pc \in Moving \cup {"await", "sense"} =>
           /\ Action[cmd] = "PICKUP"
           /\ inSlot[SlotOf[cmd]] # NoKey \/ "emptied" \in seen
    /\ pc \in {"check", "jammed"} => Action[cmd] = "PICKUP"
    /\ pc \in {"insert", "insertSense", "scan"} =>
           /\ Action[cmd] = "RETURN"
           /\ inSlot[SlotOf[cmd]] # NoKey => "filled" \in seen
    /\ pc = "scan" => "filled" \in seen
    /\ pc \in {"door", "doorSense", "succeed"} =>
           (IF Action[cmd] = "PICKUP" THEN {"emptied"} ELSE {"filled", "matched"}) \subseteq seen

\* Inside the body of a loop there is a turn left to take.
Counted ==
    /\ pc \in {"sense", "insertSense", "doorSense"} => turns < MaxTurns
    /\ pc = "pulse" /\ stroke # "home" => turns < MaxTurns

IInv ==
    /\ PlacesOK /\ ControlOK /\ OutcomesOK
    /\ AbortHaltsMotor /\ MotorRests /\ Foreseen /\ Counted

-----------------------------------------------------------------------------
LEMMA Initially == Init => IInv
<1>. SUFFICES ASSUME Init PROVE IInv
  OBVIOUS
<1>1. PlacesOK
  BY FirmwareAssumption DEF Init, PlacesOK, Quiet, Handling
<1>2. ControlOK
  BY FirmwareAssumption DEF Init, ControlOK, Strokes, Points
<1>3. OutcomesOK
  BY DEF Init, OutcomesOK
<1>4. AbortHaltsMotor /\ MotorRests /\ Foreseen /\ Counted
  BY DEF Init, AbortHaltsMotor, MotorRests, Foreseen, Counted, Moving
<1>. QED
  BY <1>1, <1>2, <1>3, <1>4 DEF IInv

\* Publishing a report, returning and moving on in execute_command, each
\* for any state of the rest.
LEMMA Published ==
    ASSUME OutcomesOK, NEW op \in Operations, NEW stage \in Report,
           Publish(op, stage)
    PROVE  reports' \in [Operations -> SUBSET Report]
  BY DEF OutcomesOK, Publish

LEMMA Finished ==
    ASSUME FirmwareAssumption, Finish
    PROVE  ControlOK'
  BY DEF FirmwareAssumption, Finish, ControlOK, Strokes, Points

LEMMA MovedOn ==
    ASSUME ControlOK, pc # "idle", UNCHANGED <<cmd, seen>>,
           pc' \in Points, pc' # "idle", stroke' \in Strokes,
           turns' \in 0 .. MaxTurns
    PROVE  ControlOK'
  BY DEF ControlOK

\* A loop's head leaves, refused or aborted, or enters the body with a turn
\* left; nothing else of the machine moves.
LEMMA Polled ==
    ASSUME FirmwareAssumption, ControlOK, OutcomesOK,
           NEW head \in Points \ {"idle"}, NEW body \in Points \ {"idle"},
           Poll(head, body)
    PROVE  /\ ControlOK' /\ OutcomesOK'
           /\ \/ Finish
              \/ pc' = body /\ turns < MaxTurns /\ UNCHANGED <<cmd, stroke, turns, seen>>
           /\ UNCHANGED <<hand, queue, aborting, powered, mqtt, delivered>>
<1>1. pc = head /\ cmd \in Operations
  BY DEF Poll, ControlOK
<1>2. CASE Publish(cmd, "FAILED") /\ Finish
  BY <1>1, <1>2, Published, Finished DEF OutcomesOK, Report, Poll
<1>3. CASE Finish /\ UNCHANGED reports
  BY <1>3, Finished DEF OutcomesOK, Poll
<1>4. CASE turns # MaxTurns /\ Goto(body) /\ UNCHANGED <<reports, seen>>
  <2>1. turns < MaxTurns
    BY <1>4 DEF FirmwareAssumption, ControlOK
  <2>2. ControlOK'
    BY <1>1, <1>4, MovedOn DEF ControlOK, Goto
  <2>. QED
    BY <1>4, <2>1, <2>2 DEF OutcomesOK, Poll, Goto
<1>. QED
  BY <1>2, <1>3, <1>4 DEF Poll

\* A loop's body leads on, or back to the head; nothing else changes.
LEMMA Sensed ==
    ASSUME FirmwareAssumption, ControlOK, OutcomesOK, turns < MaxTurns,
           NEW body \in Points \ {"idle"}, NEW STATE found,
           NEW next \in Points \ {"idle"}, NEW head \in Points \ {"idle"},
           Sense(body, found, next, head)
    PROVE  /\ ControlOK' /\ OutcomesOK'
           /\ pc' = (IF found THEN next ELSE head)
           /\ UNCHANGED <<hand, queue, aborting, powered, mqtt, reports,
                          delivered, seen, cmd, stroke>>
<1>1. turns' \in 0 .. MaxTurns
  BY DEF FirmwareAssumption, ControlOK, Sense, Loop, Again
<1>2. ControlOK'
  BY <1>1, MovedOn DEF ControlOK, Sense, Loop, Again
<1>. QED
  BY <1>2 DEF OutcomesOK, Sense, Loop, Again

\* Every step of the user, the two tasks and a reboot keeps the invariant.
LEMMA Stepwise == IInv /\ [Next]_vars => IInv'
<1>. SUFFICES ASSUME IInv, [Next]_vars PROVE IInv'
  OBVIOUS
<1>. USE FirmwareAssumption DEF IInv
<1>1. ASSUME MoveDoor PROVE IInv'
  <2>1. PlacesOK'
    BY <1>1 DEF MoveDoor, hand, PlacesOK
  <2>2. ControlOK'
    BY <1>1 DEF MoveDoor, worker, ControlOK, Strokes, Points, Moving, Polling
  <2>3. OutcomesOK'
    BY <1>1 DEF MoveDoor, OutcomesOK
  <2>4. AbortHaltsMotor' /\ MotorRests'
    BY <1>1
    DEF MoveDoor, worker, OutcomesOK, PlacesOK, Handling, AbortHaltsMotor,
        MotorRests, Moving
  <2>5. Foreseen' /\ Counted'
    BY <1>1
    DEF MoveDoor, hand, worker, ControlOK, PlacesOK, Foreseen, Counted, Moving
  <2>. QED
    BY <2>1, <2>2, <2>3, <2>4, <2>5 DEF IInv
<1>2. ASSUME NEW s \in Slots, Take(s) PROVE IInv'
  <2>1. PlacesOK'
    BY <1>2 DEF Take, Witness, hand, PlacesOK
  <2>2. ControlOK'
    BY <1>2
    DEF Take, Witness, worker, ControlOK, Strokes, Points, Moving, Polling
  <2>3. OutcomesOK'
    BY <1>2 DEF Take, Witness, OutcomesOK
  <2>4. AbortHaltsMotor' /\ MotorRests'
    BY <1>2
    DEF Take, Witness, worker, OutcomesOK, PlacesOK, Handling, AbortHaltsMotor,
        MotorRests, Moving
  <2>5. Foreseen' /\ Counted'
    BY <1>2
    DEF Take, Witness, hand, worker, ControlOK, PlacesOK, Foreseen, Counted,
        Moving
  <2>. QED
    BY <2>1, <2>2, <2>3, <2>4, <2>5 DEF IInv
<1>3. ASSUME NEW s \in Slots, NEW k \in Keys, Put(s, k) PROVE IInv'
  <2>1. PlacesOK'
    BY <1>3 DEF Put, Witness, hand, PlacesOK
  <2>2. ControlOK'
    BY <1>3
    DEF Put, Witness, worker, ControlOK, Strokes, Points, Moving,
        Polling
  <2>3. OutcomesOK'
    BY <1>3 DEF Put, Witness, OutcomesOK
  <2>4. AbortHaltsMotor' /\ MotorRests'
    BY <1>3
    DEF Put, Witness, worker, OutcomesOK, PlacesOK, Handling,
        AbortHaltsMotor, MotorRests, Moving
  <2>5. Foreseen' /\ Counted'
    BY <1>3
    DEF Put, Witness, hand, worker, ControlOK, PlacesOK, Foreseen,
        Counted, Moving
  <2>. QED
    BY <2>1, <2>2, <2>3, <2>4, <2>5 DEF IInv
<1>4. ASSUME NEW op \in Operations, ReceiveCommand(op) PROVE IInv'
  <2>1. PlacesOK'
    BY <1>4 DEF ReceiveCommand, hand, PlacesOK
  <2>2. ControlOK'
    BY <1>4
    DEF ReceiveCommand, worker, ControlOK, Strokes, Points, Moving, Polling
  <2>3. OutcomesOK'
    BY <1>4 DEF ReceiveCommand, OutcomesOK
  <2>4. AbortHaltsMotor' /\ MotorRests'
    BY <1>4
    DEF ReceiveCommand, worker, OutcomesOK, PlacesOK, Handling,
        AbortHaltsMotor, MotorRests, Moving
  <2>5. Foreseen' /\ Counted'
    BY <1>4
    DEF ReceiveCommand, hand, worker, ControlOK, PlacesOK, Foreseen, Counted,
        Moving
  <2>. QED
    BY <2>1, <2>2, <2>3, <2>4, <2>5 DEF IInv
<1>5. ASSUME NEW op \in Operations, ReceiveAbort(op) PROVE IInv'
  <2>1. PlacesOK'
    BY <1>5 DEF ReceiveAbort, hand, PlacesOK, Handling
  <2>2. ControlOK'
    BY <1>5
    DEF ReceiveAbort, worker, ControlOK, Strokes, Points, Moving, Polling
  <2>3. OutcomesOK'
    BY <1>5 DEF ReceiveAbort, OutcomesOK
  <2>4. AbortHaltsMotor' /\ MotorRests'
    BY <1>5
    DEF ReceiveAbort, worker, OutcomesOK, PlacesOK, Handling, AbortHaltsMotor,
        MotorRests, Moving
  <2>5. Foreseen' /\ Counted'
    BY <1>5
    DEF ReceiveAbort, hand, worker, ControlOK, PlacesOK, Foreseen, Counted,
        Moving
  <2>. QED
    BY <2>1, <2>2, <2>3, <2>4, <2>5 DEF IInv
<1>6. ASSUME DisableMotor PROVE IInv'
  <2>1. PlacesOK'
    BY <1>6 DEF DisableMotor, hand, PlacesOK, Handling
  <2>2. ControlOK'
    BY <1>6
    DEF DisableMotor, worker, ControlOK, Strokes, Points, Moving, Polling
  <2>3. OutcomesOK'
    BY <1>6 DEF DisableMotor, OutcomesOK
  <2>4. AbortHaltsMotor' /\ MotorRests'
    BY <1>6
    DEF DisableMotor, worker, OutcomesOK, PlacesOK, Handling, AbortHaltsMotor,
        MotorRests, Moving
  <2>5. Foreseen' /\ Counted'
    BY <1>6
    DEF DisableMotor, hand, worker, ControlOK, PlacesOK, Foreseen, Counted,
        Moving
  <2>. QED
    BY <2>1, <2>2, <2>3, <2>4, <2>5 DEF IInv
<1>7. ASSUME AnswerAbort PROVE IInv'
  <2>1. PlacesOK'
    BY <1>7 DEF AnswerAbort, Publish, Quiet, hand, PlacesOK, Handling
  <2>2. ControlOK'
    BY <1>7
    DEF AnswerAbort, Publish, Quiet, worker, ControlOK, Strokes, Points,
        Moving, Polling
  <2>3. OutcomesOK'
    BY <1>7
    DEF AnswerAbort, Publish, Quiet, OutcomesOK, PlacesOK, Handling, Report
  <2>4. AbortHaltsMotor' /\ MotorRests'
    BY <1>7
    DEF AnswerAbort, Publish, Quiet, worker, OutcomesOK, PlacesOK, Handling,
        AbortHaltsMotor, MotorRests, Moving
  <2>5. Foreseen' /\ Counted'
    BY <1>7
    DEF AnswerAbort, Publish, Quiet, hand, worker, ControlOK, PlacesOK,
        Foreseen, Counted, Moving
  <2>. QED
    BY <2>1, <2>2, <2>3, <2>4, <2>5 DEF IInv
<1>8. ASSUME StartCommand PROVE IInv'
  <2>1. Head(queue) \in Operations /\ Tail(queue) \in Seq(Operations)
        /\ Len(Tail(queue)) <= QueueDepth
    BY <1>8 DEF StartCommand, PlacesOK
  <2>2. PlacesOK'
    BY <1>8, <2>1 DEF StartCommand, hand, PlacesOK
  <2>3. ControlOK'
    BY <1>8, <2>1 DEF StartCommand, ControlOK, Strokes, Points, Moving, Polling
  <2>4. OutcomesOK'
    BY <1>8, <2>1 DEF StartCommand, OutcomesOK
  <2>5. AbortHaltsMotor' /\ MotorRests'
    BY <1>8, <2>1
    DEF StartCommand, OutcomesOK, PlacesOK, Handling, AbortHaltsMotor,
        MotorRests, Moving
  <2>6. Foreseen' /\ Counted'
    BY <1>8, <2>1
    DEF StartCommand, hand, ControlOK, PlacesOK, Foreseen, Counted, Moving
  <2>. QED
    BY <2>2, <2>3, <2>4, <2>5, <2>6 DEF IInv
<1>9. ASSUME CheckPresence PROVE IInv'
  <2>1. cmd \in Operations
    BY <1>9 DEF CheckPresence, ControlOK
  <2>2. PlacesOK'
    BY <1>9 DEF CheckPresence, hand, PlacesOK
  <2>3. ControlOK'
    <3>1. CASE Finish
      BY <3>1, Finished
    <3>2. CASE Goto("enter") /\ seen' = seen
      BY <1>9, <3>2, MovedOn
      DEF CheckPresence, Goto, ControlOK, Points, Moving, Polling
    <3>. QED
      BY <1>9, <3>1, <3>2 DEF CheckPresence
  <2>4. OutcomesOK'
    BY <1>9, <2>1, Published DEF CheckPresence, OutcomesOK, Report
  <2>5. AbortHaltsMotor' /\ MotorRests'
    BY <1>9
    DEF CheckPresence, Publish, Finish, Goto, AbortHaltsMotor, MotorRests,
        Moving
  <2>6. Foreseen' /\ Counted'
    BY <1>9
    DEF CheckPresence, Publish, Finish, Goto, hand, Foreseen, Counted, Moving
  <2>. QED
    BY <2>2, <2>3, <2>4, <2>5, <2>6 DEF IInv
<1>10. ASSUME EnterStroke PROVE IInv'
  <2>1. PlacesOK'
    BY <1>10 DEF EnterStroke, StrokeFails, Goto, hand, PlacesOK
  <2>2. ControlOK'
    BY <1>10
    DEF EnterStroke, StrokeFails, Goto, ControlOK, Strokes, Points, Moving,
        Polling
  <2>3. OutcomesOK'
    BY <1>10 DEF EnterStroke, StrokeFails, Goto, OutcomesOK
  <2>4. AbortHaltsMotor' /\ MotorRests'
    BY <1>10
    DEF EnterStroke, StrokeFails, Goto, OutcomesOK, PlacesOK, Handling,
        AbortHaltsMotor, MotorRests, Moving
  <2>5. Foreseen' /\ Counted'
    BY <1>10
    DEF EnterStroke, StrokeFails, Goto, hand, ControlOK, PlacesOK, Foreseen,
        Counted, Moving
  <2>. QED
    BY <2>1, <2>2, <2>3, <2>4, <2>5 DEF IInv
<1>11. ASSUME EnableMotor PROVE IInv'
  <2>1. PlacesOK'
    BY <1>11 DEF EnableMotor, Loop, hand, PlacesOK
  <2>2. ControlOK'
    BY <1>11 DEF EnableMotor, Loop, ControlOK, Strokes, Points, Moving, Polling
  <2>3. OutcomesOK'
    BY <1>11 DEF EnableMotor, Loop, OutcomesOK
  <2>4. AbortHaltsMotor' /\ MotorRests'
    BY <1>11
    DEF EnableMotor, Loop, OutcomesOK, PlacesOK, Handling, AbortHaltsMotor,
        MotorRests, Moving
  <2>5. Foreseen' /\ Counted'
    BY <1>11
    DEF EnableMotor, Loop, hand, ControlOK, PlacesOK, Foreseen, Counted, Moving
  <2>. QED
    BY <2>1, <2>2, <2>3, <2>4, <2>5 DEF IInv
<1>12. ASSUME Turn PROVE IInv'
  <2>1. /\ pc = "loop" /\ pc' \in Moving \cup {"jammed"}
        /\ pc' = "pulse" => ~aborting
        /\ pc' = "pulse" /\ stroke' # "home" => turns < MaxTurns
        /\ UNCHANGED <<cmd, turns>> /\ stroke' \in Strokes
        /\ powered' = powered \/ powered' = FALSE
        /\ pc' = "jammed" => powered' = FALSE
    <3>1. CASE pc = "loop" /\ StrokeEnds
      BY <3>1 DEF StrokeEnds, Begin, Goto, Strokes, Moving, ControlOK
    <3>2. CASE pc = "loop" /\ StrokeFails
      BY <3>2 DEF StrokeFails, Goto, Strokes, Moving, ControlOK
    <3>3. CASE /\ pc = "loop"
               /\ stroke = "home" \/ turns < MaxTurns
               /\ ~aborting /\ Goto("pulse") /\ UNCHANGED powered
      BY <3>3 DEF Goto, Strokes, Moving, ControlOK
    <3>. QED
      BY <1>12, <3>1, <3>2, <3>3 DEF Turn
  <2>2. UNCHANGED <<hand, queue, aborting, mqtt, reports, delivered, seen>>
    BY <1>12 DEF Turn
  <2>3. PlacesOK'
    BY <2>2 DEF hand, PlacesOK
  <2>4. ControlOK'
    BY <2>1, <2>2, MovedOn DEF Points, Moving, ControlOK
  <2>5. OutcomesOK'
    BY <2>1, <2>2 DEF OutcomesOK
  <2>6. AbortHaltsMotor' /\ MotorRests'
    BY <2>1, <2>2 DEF AbortHaltsMotor, MotorRests, Moving
  <2>7. Foreseen' /\ Counted'
    BY <2>1, <2>2 DEF hand, Foreseen, Counted, Moving
  <2>. QED
    BY <2>3, <2>4, <2>5, <2>6, <2>7 DEF IInv
<1>13. ASSUME Pulse PROVE IInv'
  <2>1. CASE Again("loop") /\ UNCHANGED powered
    <3>1. turns < MaxTurns
      <4>1. CASE stroke = "home"
        BY <1>13, <2>1, <4>1 DEF Pulse, ControlOK, Again, StrokeFails, Goto
      <4>2. CASE stroke # "home"
        BY <1>13, <4>2 DEF Pulse, Counted
      <4>. QED
        BY <4>1, <4>2
    <3>2. ControlOK'
      BY <1>13, <2>1, <3>1, MovedOn DEF Pulse, Again, ControlOK, Points, Moving
    <3>. QED
      BY <1>13, <2>1, <3>2
      DEF Pulse, Again, hand, PlacesOK, OutcomesOK, AbortHaltsMotor, MotorRests,
          Foreseen, Counted, Moving, IInv
  <2>2. CASE StrokeFails
    <3>1. ControlOK'
      BY <1>13, <2>2, MovedOn DEF Pulse, StrokeFails, Goto, ControlOK,
          Points, Moving
    <3>. QED
      BY <1>13, <2>2, <3>1
      DEF Pulse, StrokeFails, Goto, hand, PlacesOK, OutcomesOK, AbortHaltsMotor,
          MotorRests, Foreseen, Counted, Moving, IInv
  <2>. QED
    BY <1>13, <2>1, <2>2 DEF Pulse
<1>14. ASSUME MotorOff PROVE IInv'
  <2>1. PlacesOK'
    BY <1>14 DEF MotorOff, Loop, hand, PlacesOK
  <2>2. ControlOK'
    BY <1>14 DEF MotorOff, Loop, ControlOK, Strokes, Points, Moving, Polling
  <2>3. OutcomesOK'
    BY <1>14 DEF MotorOff, Loop, OutcomesOK
  <2>4. AbortHaltsMotor' /\ MotorRests'
    BY <1>14
    DEF MotorOff, Loop, OutcomesOK, PlacesOK, Handling, AbortHaltsMotor,
        MotorRests, Moving
  <2>5. Foreseen' /\ Counted'
    BY <1>14
    DEF MotorOff, Loop, hand, ControlOK, PlacesOK, Foreseen, Counted, Moving
  <2>. QED
    BY <2>1, <2>2, <2>3, <2>4, <2>5 DEF IInv
<1>15. ASSUME Jammed PROVE IInv'
  <2>1. cmd \in Operations
    BY <1>15 DEF Jammed, ControlOK
  <2>2. PlacesOK'
    BY <1>15 DEF Jammed, hand, PlacesOK
  <2>3. ControlOK'
    BY <1>15, Finished DEF Jammed
  <2>4. OutcomesOK'
    BY <1>15, <2>1, Published DEF Jammed, OutcomesOK, Report
  <2>5. AbortHaltsMotor' /\ MotorRests'
    BY <1>15 DEF Jammed, Publish, Finish, AbortHaltsMotor, MotorRests, Moving
  <2>6. Foreseen' /\ Counted'
    BY <1>15 DEF Jammed, Publish, Finish, hand, Foreseen, Counted, Moving
  <2>. QED
    BY <2>2, <2>3, <2>4, <2>5, <2>6 DEF IInv
<1>16. ASSUME AwaitRemoval PROVE IInv'
  <2>1. /\ ControlOK' /\ OutcomesOK'
        /\ \/ Finish
           \/ pc' = "sense" /\ turns < MaxTurns /\ UNCHANGED <<cmd, stroke, turns, seen>>
        /\ UNCHANGED <<hand, queue, aborting, powered, mqtt, delivered>>
    BY <1>16, Polled DEF AwaitRemoval, Points, Polling
  <2>2. pc = "await"
    BY <1>16 DEF AwaitRemoval, Poll
  <2>3. PlacesOK'
    BY <2>1, <2>2 DEF hand, PlacesOK
  <2>4. AbortHaltsMotor' /\ MotorRests'
    BY <2>1, <2>2 DEF AbortHaltsMotor, MotorRests, Moving, Finish
  <2>5. Foreseen' /\ Counted'
    BY <2>1, <2>2 DEF hand, Foreseen, Counted, Moving, Finish
  <2>. QED
    BY <2>1, <2>2, <2>3, <2>4, <2>5 DEF IInv
<1>17. ASSUME SenseRemoval PROVE IInv'
  <2>1. pc = "sense" /\ turns < MaxTurns
    BY <1>17 DEF SenseRemoval, Sense, Counted
  <2>2. /\ ControlOK' /\ OutcomesOK'
        /\ pc' = (IF inSlot[SlotOf[cmd]] = NoKey THEN "door" ELSE "await")
        /\ UNCHANGED <<hand, queue, aborting, powered, mqtt, reports,
                       delivered, seen, cmd, stroke>>
    BY <1>17, <2>1, Sensed DEF SenseRemoval, Points, Polling
  <2>3. PlacesOK'
    BY <2>1, <2>2 DEF hand, PlacesOK
  <2>4. AbortHaltsMotor' /\ MotorRests'
    BY <2>1, <2>2 DEF AbortHaltsMotor, MotorRests, Moving
  <2>5. Foreseen' /\ Counted'
    BY <2>1, <2>2 DEF hand, Foreseen, Counted, Moving
  <2>. QED
    BY <2>1, <2>2, <2>3, <2>4, <2>5 DEF IInv
<1>18. ASSUME AwaitInsertion PROVE IInv'
  <2>1. /\ ControlOK' /\ OutcomesOK'
        /\ \/ Finish
           \/ pc' = "insertSense" /\ turns < MaxTurns /\ UNCHANGED <<cmd, stroke, turns, seen>>
        /\ UNCHANGED <<hand, queue, aborting, powered, mqtt, delivered>>
    BY <1>18, Polled DEF AwaitInsertion, Points, Polling
  <2>2. pc = "insert"
    BY <1>18 DEF AwaitInsertion, Poll
  <2>3. PlacesOK'
    BY <2>1, <2>2 DEF hand, PlacesOK
  <2>4. AbortHaltsMotor' /\ MotorRests'
    BY <2>1, <2>2 DEF AbortHaltsMotor, MotorRests, Moving, Finish
  <2>5. Foreseen' /\ Counted'
    BY <2>1, <2>2 DEF hand, Foreseen, Counted, Moving, Finish
  <2>. QED
    BY <2>1, <2>2, <2>3, <2>4, <2>5 DEF IInv
<1>19. ASSUME SenseInsertion PROVE IInv'
  <2>1. pc = "insertSense" /\ turns < MaxTurns
    BY <1>19 DEF SenseInsertion, Sense, Counted
  <2>2. /\ ControlOK' /\ OutcomesOK'
        /\ pc' = (IF inSlot[SlotOf[cmd]] # NoKey THEN "scan" ELSE "insert")
        /\ UNCHANGED <<hand, queue, aborting, powered, mqtt, reports,
                       delivered, seen, cmd, stroke>>
    BY <1>19, <2>1, Sensed DEF SenseInsertion, Points, Polling
  <2>3. PlacesOK'
    BY <2>1, <2>2 DEF hand, PlacesOK
  <2>4. AbortHaltsMotor' /\ MotorRests'
    BY <2>1, <2>2 DEF AbortHaltsMotor, MotorRests, Moving
  <2>5. Foreseen' /\ Counted'
    BY <2>1, <2>2 DEF hand, Foreseen, Counted, Moving
  <2>. QED
    BY <2>1, <2>2, <2>3, <2>4, <2>5 DEF IInv
<1>20. ASSUME ScanTag PROVE IInv'
  <2>1. cmd \in Operations /\ pc = "scan"
    BY <1>20 DEF ScanTag, ControlOK
  <2>2. UNCHANGED <<hand, queue, aborting, powered, mqtt, delivered>>
    BY <1>20 DEF ScanTag
  <2>3. CASE /\ Publish(cmd, "RFID_CONFIRMED") /\ Loop("door")
             /\ seen' = seen \cup {"matched"}
    <3>1. ControlOK'
      BY <2>1, <2>3 DEF Loop, ControlOK, Strokes, Points, Moving, Polling
    <3>2. PlacesOK' /\ OutcomesOK'
      BY <2>1, <2>2, <2>3, Published DEF PlacesOK, OutcomesOK, Report, hand
    <3>3. AbortHaltsMotor' /\ MotorRests'
      BY <2>1, <2>2, <2>3 DEF Loop, AbortHaltsMotor, MotorRests, Moving
    <3>4. Foreseen' /\ Counted'
      BY <2>1, <2>2, <2>3 DEF Loop, hand, Foreseen, Counted, Moving
    <3>. QED
      BY <3>1, <3>2, <3>3, <3>4 DEF IInv
  <2>4. CASE Publish(cmd, "FAILED") /\ Finish
    <3>1. ControlOK'
      BY <2>4, Finished
    <3>2. PlacesOK' /\ OutcomesOK'
      BY <2>1, <2>2, <2>4, Published DEF PlacesOK, OutcomesOK, Report, hand
    <3>3. AbortHaltsMotor' /\ MotorRests' /\ Foreseen' /\ Counted'
      BY <2>1, <2>2, <2>4
      DEF Finish, AbortHaltsMotor, MotorRests, Foreseen, Counted, Moving
    <3>. QED
      BY <3>1, <3>2, <3>3 DEF IInv
  <2>. QED
    BY <1>20, <2>3, <2>4 DEF ScanTag
<1>21. ASSUME AwaitDoor PROVE IInv'
  <2>1. /\ ControlOK' /\ OutcomesOK'
        /\ \/ Finish
           \/ pc' = "doorSense" /\ turns < MaxTurns /\ UNCHANGED <<cmd, stroke, turns, seen>>
        /\ UNCHANGED <<hand, queue, aborting, powered, mqtt, delivered>>
    BY <1>21, Polled DEF AwaitDoor, Points, Polling
  <2>2. pc = "door"
    BY <1>21 DEF AwaitDoor, Poll
  <2>3. PlacesOK'
    BY <2>1, <2>2 DEF hand, PlacesOK
  <2>4. AbortHaltsMotor' /\ MotorRests'
    BY <2>1, <2>2 DEF AbortHaltsMotor, MotorRests, Moving, Finish
  <2>5. Foreseen' /\ Counted'
    BY <2>1, <2>2 DEF hand, Foreseen, Counted, Moving, Finish
  <2>. QED
    BY <2>1, <2>2, <2>3, <2>4, <2>5 DEF IInv
<1>22. ASSUME SenseDoor PROVE IInv'
  <2>1. pc = "doorSense" /\ turns < MaxTurns
    BY <1>22 DEF SenseDoor, Sense, Counted
  <2>2. /\ ControlOK' /\ OutcomesOK'
        /\ pc' = (IF doorClosed THEN "succeed" ELSE "door")
        /\ UNCHANGED <<hand, queue, aborting, powered, mqtt, reports,
                       delivered, seen, cmd, stroke>>
    BY <1>22, <2>1, Sensed DEF SenseDoor, Points, Polling
  <2>3. PlacesOK'
    BY <2>1, <2>2 DEF hand, PlacesOK
  <2>4. AbortHaltsMotor' /\ MotorRests'
    BY <2>1, <2>2 DEF AbortHaltsMotor, MotorRests, Moving
  <2>5. Foreseen' /\ Counted'
    BY <2>1, <2>2 DEF hand, Foreseen, Counted, Moving
  <2>. QED
    BY <2>1, <2>2, <2>3, <2>4, <2>5 DEF IInv
<1>23. ASSUME Succeed PROVE IInv'
  <2>1. cmd \in Operations
    BY <1>23 DEF Succeed, ControlOK
  <2>2. PlacesOK'
    BY <1>23 DEF Succeed, hand, PlacesOK
  <2>3. ControlOK'
    BY <1>23, Finished DEF Succeed
  <2>4. OutcomesOK'
    BY <1>23, <2>1, Published DEF Succeed, OutcomesOK, Report
  <2>5. AbortHaltsMotor' /\ MotorRests'
    BY <1>23 DEF Succeed, Publish, Finish, AbortHaltsMotor, MotorRests, Moving
  <2>6. Foreseen' /\ Counted'
    BY <1>23 DEF Succeed, Publish, Finish, hand, Foreseen, Counted, Moving
  <2>. QED
    BY <2>2, <2>3, <2>4, <2>5, <2>6 DEF IInv
<1>24. ASSUME Reboot PROVE IInv'
  <2>1. PlacesOK'
    BY <1>24 DEF Reboot, Finish, Quiet, hand, PlacesOK, Handling
  <2>2. ControlOK'
    BY <1>24
    DEF Reboot, Finish, Quiet, ControlOK, Strokes, Points, Moving, Polling
  <2>3. OutcomesOK'
    BY <1>24 DEF Reboot, Finish, Quiet, OutcomesOK
  <2>4. AbortHaltsMotor' /\ MotorRests'
    BY <1>24
    DEF Reboot, Finish, Quiet, OutcomesOK, PlacesOK, Handling, AbortHaltsMotor,
        MotorRests, Moving
  <2>5. Foreseen' /\ Counted'
    BY <1>24
    DEF Reboot, Finish, Quiet, hand, ControlOK, PlacesOK, Foreseen, Counted,
        Moving
  <2>. QED
    BY <2>1, <2>2, <2>3, <2>4, <2>5 DEF IInv
<1>25. CASE UNCHANGED vars
  <2>1. PlacesOK' /\ ControlOK' /\ OutcomesOK'
    BY <1>25 DEF vars, PlacesOK, ControlOK, OutcomesOK
  <2>2. AbortHaltsMotor' /\ MotorRests' /\ Foreseen' /\ Counted'
    BY <1>25 DEF vars, AbortHaltsMotor, MotorRests, Foreseen, Counted
  <2>. QED
    BY <2>1, <2>2 DEF IInv
<1>. QED
  BY <1>1, <1>2, <1>3, <1>4, <1>5, <1>6, <1>7, <1>8, <1>9,
     <1>10, <1>11, <1>12, <1>13, <1>14, <1>15, <1>16, <1>17, <1>18,
     <1>19, <1>20, <1>21, <1>22, <1>23, <1>24, <1>25
  DEF Next, User, MqttTask, WorkerTask

\* The invariant holds throughout.
THEOREM Invariance == Spec => []IInv
<1>1. Init => IInv
  BY Initially
<1>2. IInv /\ [Next]_vars => IInv'
  BY Stepwise
<1>. QED
  BY <1>1, <1>2, PTL DEF Spec

\* The queue keeps its capacity and every variable its type.
THEOREM TypeCorrect == Spec => []TypeOK
<1>1. IInv => TypeOK
  BY DEF IInv, TypeOK
<1>. QED
  BY <1>1, Invariance, PTL

\* After motor_request_abort no pulse reaches a powered motor before the
\* next command, whatever the interleaving of the two tasks.
THEOREM AbortHalts == Spec => []AbortHaltsMotor
<1>1. IInv => AbortHaltsMotor
  BY DEF IInv
<1>. QED
  BY <1>1, Invariance, PTL

\* No way out of a movement leaves the motor powered.
THEOREM MotorIsOff == Spec => []MotorRests
<1>1. IInv => MotorRests
  BY DEF IInv
<1>. QED
  BY <1>1, Invariance, PTL

\* Behind a reported pickup a key left the slot during that execution, behind
\* a reported return some key was in the slot and the expected tag was at the
\* reader: whether it is the tag of that key the cabinet cannot know
\* (rfid_task.c:62-101).
THEOREM SuccessIsWitnessed == Spec => []SuccessWitnessed
<1>1. IInv => SuccessWitnessed
  BY DEF IInv, Foreseen, SuccessWitnessed
<1>. QED
  BY <1>1, Invariance, PTL

=============================================================================
