SPECIFICATION FairSpec
CONSTANTS
    s1 = s1
    k1 = k1
    pickup = pickup
    return = return
    Slots = {s1}
    Keys = {k1, k2}
    Operations = {pickup, return}
    Action <- BothWays
    SlotOf <- OneSlot
    KeyOf <- OneKey
    QueueDepth = 1
    MaxTurns = 2
    MaxDeliveries <- Redelivery
    NoKey = NoKey
    NoOp = NoOp
INVARIANTS TypeOK AbortHaltsMotor MotorRests SuccessWitnessed
PROPERTIES QueueDrains
CHECK_DEADLOCK FALSE
