--------------------------- MODULE CabinetMonitor ---------------------------
(***************************************************************************)
(* How the server follows one cabinet: the gateway's table of devices and  *)
(* its heartbeat monitor, the status stored in devices, and the            *)
(* reconciliation of inventory snapshots with slots, keys and              *)
(* device_alerts.                                                          *)
(*                                                                         *)
(* Every status message and every snapshot has a goroutine of its own (a   *)
(* worker here), and each of their statements on the database is a step,   *)
(* so a snapshot is compared with rows that were read before, and written  *)
(* after, what other goroutines and the ledger write.  Meanwhile keys are  *)
(* put in, taken out or swapped, and the ledger and administrators change  *)
(* the status of keys.  The cabinet is alive and keeps reporting; its      *)
(* messages may stay away for a while.                                     *)
(***************************************************************************)
EXTENDS Naturals, FiniteSets

CONSTANTS
    SlotCount,   \* slots of the cabinet, numbered from 1
    Bound,       \* slots that have a key
    SendsRFID,   \* do snapshots carry the tag found in a slot?
    Workers,     \* goroutines at work at the same time
    MaxChanges,  \* changes of a slot's contents or of a key's status
    MaxOutages   \* wills, silences and restarts of the server

Slots == 1..SlotCount

ASSUME MonitorAssumption ==
    /\ SlotCount \in Nat \ {0}
    /\ Bound \subseteq Slots
    /\ SendsRFID \in BOOLEAN
    /\ MaxChanges \in Nat
    /\ MaxOutages \in Nat

VARIABLES
    contents,  \* what is in a slot
    key,       \* status of the key bound to a slot
    presence,  \* slots.presence
    open,      \* types of the open device_alerts of a slot
    device,    \* devices.status
    memory,    \* deviceStates of the gateway
    monitor,   \* what monitorHeartbeats is doing
    worker,    \* the goroutines
    changes,
    outages

vars == <<contents, key, presence, open, device, memory, monitor, worker, changes,
          outages>>

Contents  == {"empty", "own", "other"}
\* MAINTENANCE stands for every status the reconciler ignores, NONE for no key.
KeyStatus == {"AVAILABLE", "BORROWED", "MAINTENANCE", "NONE"}
Presence  == {"UNKNOWN", "PRESENT", "ABSENT"}
AlertType == {"WRONG_KEY_IN_SLOT", "MISSING_KEY", "UNEXPECTED_KEY_IN_SLOT",
              "UNREGISTERED_KEY"}
Memory    == {"unknown", "ONLINE", "stale", "OFFLINE"}  \* stale: ONLINE, but too old

\* Where a goroutine is; slot is the one it is at, rows the presence it read.
Idle == [at |-> "idle", says |-> "ONLINE", found |-> <<>>, rows |-> <<>>, slot |-> 0,
         alert |-> "none"]

Steps == {"idle", "status", "slots", "presence", "key", "resolve", "find", "create"}

Told(c) == IF c = "empty" THEN "ABSENT" ELSE "PRESENT"

Init ==
    /\ contents = [s \in Slots |-> IF s \in Bound THEN "own" ELSE "empty"]
    /\ key = [s \in Slots |-> IF s \in Bound THEN "AVAILABLE" ELSE "NONE"]
    /\ presence = [s \in Slots |-> "UNKNOWN"]
    /\ open = [s \in Slots |-> {}]
    /\ device = "OFFLINE"
    /\ memory = "unknown"
    /\ monitor = "idle"
    /\ worker = [w \in Workers |-> Idle]
    /\ changes = 0
    /\ outages = 0

inventory == <<contents, key, presence, open, changes>>

-----------------------------------------------------------------------------
(* Messages of the cabinet and of its broker                               *)

Begin(w, job) ==
    /\ worker[w] = Idle
    /\ worker' = [worker EXCEPT ![w] = job]

\* status/heartbeat, and status/online when the cabinet connects.
Heartbeat(w) ==
    /\ Begin(w, [Idle EXCEPT !.at = "status"])
    /\ memory' = "ONLINE"
    /\ UNCHANGED <<inventory, device, monitor, outages>>

\* The cabinet's will, sent when the broker loses it; it is retained, so the
\* server receives it again whenever it subscribes.
Will(w) ==
    /\ outages < MaxOutages
    /\ outages' = outages + 1
    /\ Begin(w, [Idle EXCEPT !.at = "status", !.says = "OFFLINE"])
    /\ memory' = "OFFLINE"
    /\ UNCHANGED <<inventory, device, monitor>>

\* status/inventory, on a change and every minute.
Snapshot(w) ==
    /\ Begin(w, [Idle EXCEPT !.at = "status", !.found = contents])
    /\ memory' = "ONLINE"
    /\ UNCHANGED <<inventory, device, monitor, outages>>

\* UpdateRuntimeStatus; a snapshot goes on to OnInventorySnapshot.
WriteStatus(w) ==
    /\ worker[w].at = "status"
    /\ device' = worker[w].says
    /\ worker' = [worker EXCEPT ![w] =
                     IF @.found = <<>> THEN Idle ELSE [@ EXCEPT !.at = "slots"]]
    /\ UNCHANGED <<inventory, memory, monitor, outages>>

-----------------------------------------------------------------------------
(* Reconciliation, slot by slot                                            *)

\* FindByDeviceID, once for all slots.
ReadSlots(w) ==
    /\ worker[w].at = "slots"
    /\ worker' = [worker EXCEPT ![w].at = "presence", ![w].slot = 1, ![w].rows = presence]
    /\ UNCHANGED <<inventory, device, memory, monitor, outages>>

\* Mutant: only a key that appeared is written.
UpdateArrival(w) ==
    LET s == worker[w].slot
        told == Told(worker[w].found[s])
    IN  /\ worker[w].at = "presence"
        /\ presence' = [presence EXCEPT ![s] =
               IF worker[w].rows[s] # told /\ told = "PRESENT" THEN told ELSE @]
        /\ worker' = [worker EXCEPT ![w].at = "key", ![w].rows[s] = told]
        /\ UNCHANGED <<contents, key, open, changes, device, memory, monitor, outages>>

\* Mutant: the row is saved before it gets the new presence.
UpdatePresenceLate(w) ==
    LET s == worker[w].slot
        told == Told(worker[w].found[s])
    IN  /\ worker[w].at = "presence"
        /\ presence' = [presence EXCEPT ![s] =
               IF worker[w].rows[s] # told THEN worker[w].rows[s] ELSE @]
        /\ worker' = [worker EXCEPT ![w].at = "key", ![w].rows[s] = told]
        /\ UNCHANGED <<contents, key, open, changes, device, memory, monitor, outages>>

\* UpdatePresence, when the row that was read says otherwise.
UpdatePresence(w) ==
    LET s == worker[w].slot
        told == Told(worker[w].found[s])
    IN  /\ worker[w].at = "presence"
        /\ presence' = [presence EXCEPT ![s] =
               IF worker[w].rows[s] # told THEN told ELSE @]
        /\ worker' = [worker EXCEPT ![w].at = "key", ![w].rows[s] = told]
        /\ UNCHANGED <<contents, key, open, changes, device, memory, monitor, outages>>

\* What is wrong with a slot; a later finding replaces an earlier one.
Discrepancy(c, status) ==
    CASE status = "NONE" -> IF c # "empty" /\ SendsRFID THEN "UNREGISTERED_KEY" ELSE "none"
      [] status = "BORROWED" /\ c # "empty"   -> "UNEXPECTED_KEY_IN_SLOT"
      [] status = "AVAILABLE" /\ c = "empty"  -> "MISSING_KEY"
      [] c = "other" /\ SendsRFID             -> "WRONG_KEY_IN_SLOT"
      [] OTHER                                -> "none"

\* keyRepo.FindByID and the comparison.
ReadKey(w) ==
    LET s == worker[w].slot
        d == Discrepancy(worker[w].found[s], key[s])
    IN  /\ worker[w].at = "key"
        /\ worker' = [worker EXCEPT ![w].at = IF d = "none" THEN "resolve" ELSE "find",
                                    ![w].alert = d]
        /\ UNCHANGED <<inventory, device, memory, monitor, outages>>

\* Mutant: the loop runs one slot too far.
NextSlotTooFar(job) ==
    IF job.slot > SlotCount THEN Idle
    ELSE [job EXCEPT !.at = "presence", !.slot = @ + 1, !.alert = "none"]

NextSlot(job) ==
    IF job.slot = SlotCount THEN Idle
    ELSE [job EXCEPT !.at = "presence", !.slot = @ + 1, !.alert = "none"]

\* Mutant: the alerts of all slots are closed.
ResolveEverywhere(w) ==
    /\ worker[w].at = "resolve"
    /\ open' = [s \in Slots |-> {}]
    /\ worker' = [worker EXCEPT ![w] = NextSlot(@)]
    /\ UNCHANGED <<contents, key, presence, changes, device, memory, monitor, outages>>

\* ResolveAllBySlot closes the alerts of a healthy slot, whatever their type.
Resolve(w) ==
    /\ worker[w].at = "resolve"
    /\ open' = [open EXCEPT ![worker[w].slot] = {}]
    /\ worker' = [worker EXCEPT ![w] = NextSlot(@)]
    /\ UNCHANGED <<contents, key, presence, changes, device, memory, monitor, outages>>

\* Mutant: a slot with any open alert gets no other.
FindAnyOpen(w) ==
    /\ worker[w].at = "find"
    /\ worker' = [worker EXCEPT ![w] =
           IF open[@.slot] # {} THEN NextSlot(@) ELSE [@ EXCEPT !.at = "create"]]
    /\ UNCHANGED <<inventory, device, memory, monitor, outages>>

\* FindOpenBySlotAndType.
FindOpen(w) ==
    /\ worker[w].at = "find"
    /\ worker' = [worker EXCEPT ![w] =
           IF @.alert \in open[@.slot] THEN NextSlot(@) ELSE [@ EXCEPT !.at = "create"]]
    /\ UNCHANGED <<inventory, device, memory, monitor, outages>>

\* Two goroutines that both found none create an alert each; open keeps the
\* types, not the number.
Create(w) ==
    /\ worker[w].at = "create"
    /\ open' = [open EXCEPT ![worker[w].slot] = @ \cup {worker[w].alert}]
    /\ worker' = [worker EXCEPT ![w] = NextSlot(@)]
    /\ UNCHANGED <<contents, key, presence, changes, device, memory, monitor, outages>>

-----------------------------------------------------------------------------
(* The monitor, the world and the ledger                                   *)

\* Heartbeat messages stay away until the entry is older than the timeout.
FallSilent ==
    /\ outages < MaxOutages
    /\ outages' = outages + 1
    /\ memory = "ONLINE"
    /\ memory' = "stale"
    /\ UNCHANGED <<inventory, device, monitor, worker>>

\* Mutant: the age of the entry is not looked at.
ExpireAny ==
    /\ monitor = "idle"
    /\ memory \in {"ONLINE", "stale"}
    /\ memory' = "OFFLINE"
    /\ monitor' = "expiring"
    /\ UNCHANGED <<inventory, device, worker, outages>>

\* expireStaleDevices marks the entry under the lock ...
Expire ==
    /\ monitor = "idle"
    /\ memory = "stale"
    /\ memory' = "OFFLINE"
    /\ monitor' = "expiring"
    /\ UNCHANGED <<inventory, device, worker, outages>>

\* Mutant: the list of stale devices is kept from one tick to the next.
WriteExpiryAgain ==
    /\ monitor = "expiring"
    /\ device' = "OFFLINE"
    /\ UNCHANGED <<inventory, memory, monitor, worker, outages>>

\* ... and tells the database when it has released it.
WriteExpiry ==
    /\ monitor = "expiring"
    /\ monitor' = "idle"
    /\ device' = "OFFLINE"
    /\ UNCHANGED <<inventory, memory, worker, outages>>

\* The process starts again: the table is empty, goroutines are gone.
Restart ==
    /\ outages < MaxOutages
    /\ outages' = outages + 1
    /\ memory' = "unknown"
    /\ monitor' = "idle"
    /\ worker' = [w \in Workers |-> Idle]
    /\ UNCHANGED <<inventory, device>>

Change == changes < MaxChanges /\ changes' = changes + 1

\* Somebody puts a key in, takes it out or swaps it, operation or not.
Handle(s) ==
    /\ Change
    /\ \E c \in Contents \ {contents[s]} :
           /\ c = "own" => s \in Bound
           /\ contents' = [contents EXCEPT ![s] = c]
    /\ UNCHANGED <<key, presence, open, device, memory, monitor, worker, outages>>

\* The ledger's verdict on a pickup or a return: updateKeyAndSlot.
CompletePickup(s) ==
    /\ Change
    /\ key[s] = "AVAILABLE"
    /\ key' = [key EXCEPT ![s] = "BORROWED"]
    /\ presence' = [presence EXCEPT ![s] = "ABSENT"]
    /\ UNCHANGED <<contents, open, device, memory, monitor, worker, outages>>

CompleteReturn(s) ==
    /\ Change
    /\ key[s] = "BORROWED"
    /\ key' = [key EXCEPT ![s] = "AVAILABLE"]
    /\ presence' = [presence EXCEPT ![s] = "PRESENT"]
    /\ UNCHANGED <<contents, open, device, memory, monitor, worker, outages>>

\* An administrator sets the status, whatever it was: the row is saved without
\* a look at what happened since it was read.
UpdateKeyStatus(s) ==
    /\ Change
    /\ key[s] # "NONE"
    /\ \E status \in KeyStatus \ {"NONE", key[s]} : key' = [key EXCEPT ![s] = status]
    /\ UNCHANGED <<contents, presence, open, device, memory, monitor, worker, outages>>

-----------------------------------------------------------------------------
Reconcile(w) ==
    \/ ReadSlots(w) \/ UpdatePresence(w) \/ ReadKey(w)
    \/ Resolve(w) \/ FindOpen(w) \/ Create(w)

Work(w) == WriteStatus(w) \/ Reconcile(w)

Next ==
    \/ \E w \in Workers : Heartbeat(w) \/ Will(w) \/ Snapshot(w) \/ Work(w)
    \/ FallSilent \/ Expire \/ WriteExpiry \/ Restart
    \/ \E s \in Slots : Handle(s) \/ CompletePickup(s) \/ CompleteReturn(s)
                            \/ UpdateKeyStatus(s)

\* Goroutines are scheduled, the monitor's ticker ticks, and the cabinet
\* keeps sending both kinds of message.  A worker may be busy whenever a
\* message comes; goroutines are not that few, hence the strong fairness.
Fairness ==
    /\ \A w \in Workers : WF_vars(Work(w))
    /\ WF_vars(Expire \/ WriteExpiry)
    /\ SF_vars(\E w \in Workers : Heartbeat(w))
    /\ SF_vars(\E w \in Workers : Snapshot(w))

Spec == Init /\ [][Next]_vars /\ Fairness

-----------------------------------------------------------------------------
(* Properties                                                              *)

\* Rows, table and goroutines keep their types; no goroutine leaves the
\* slots of the cabinet.
TypeOK ==
    /\ contents \in [Slots -> Contents]
    /\ key \in [Slots -> KeyStatus]
    /\ presence \in [Slots -> Presence]
    /\ open \in [Slots -> SUBSET AlertType]
    /\ device \in {"ONLINE", "OFFLINE"}
    /\ memory \in Memory
    /\ monitor \in {"idle", "expiring"}
    /\ worker \in [Workers -> [at: Steps, says: {"ONLINE", "OFFLINE"},
                               found: [Slots -> Contents] \cup {<<>>},
                               rows: [Slots -> Presence] \cup {<<>>},
                               slot: 0..SlotCount, alert: AlertType \cup {"none"}]]
    /\ changes \in 0..MaxChanges
    /\ outages \in 0..MaxOutages

\* What a goroutine carries about a slot is what is in it.
UpToDate(w, s) == worker[w].found # <<>> => worker[w].found[s] = contents[s]

\* Nobody puts a key in or takes one out, and the key's status stays.
SlotLeftAlone(s) == contents'[s] = contents[s] /\ key'[s] = key[s]

PresenceRight(s) ==
    /\ presence[s] = Told(contents[s])
    /\ \A w \in Workers : UpToDate(w, s)

\* The row of a slot that is right stays right while no older snapshot is on
\* its way, although other goroutines write it after they read it at any
\* earlier time (inventory_reconciler.go:56-112).
PresenceStays ==
    [][\A s \in Slots : PresenceRight(s) /\ SlotLeftAlone(s) => PresenceRight(s)']_vars

Healthy(s) == Discrepancy(contents[s], key[s]) = "none"

\* The alerts of a slot say what is wrong with it, and so do the goroutines
\* that are going to open or close one.
AlertsRight(s) ==
    LET d == Discrepancy(contents[s], key[s])
    IN  /\ IF Healthy(s) THEN open[s] = {} ELSE d \in open[s]
        /\ \A w \in Workers :
               /\ UpToDate(w, s)
               /\ worker[w].slot = s /\ worker[w].at \in {"resolve", "find", "create"} =>
                      worker[w].alert = d

\* The right alert is not closed and no alert is opened for a healthy slot by
\* goroutines that are at other slots or reconcile the slot again
\* (inventory_reconciler.go:114-223, alert_repository.go:33-54).
AlertsStay ==
    [][\A s \in Slots : AlertsRight(s) /\ SlotLeftAlone(s) => AlertsRight(s)']_vars

\* Once nobody touches a slot any more the database comes to say, for good,
\* what is in it, although a snapshot may be written after a newer one, or
\* over what the ledger wrote meanwhile (inventory_reconciler.go:109-119).
PresenceSettles == \A s \in Slots : <>[](presence[s] = Told(contents[s]))

\* In the end an unhealthy slot has the alert for what is wrong with it now
\* and a healthy one has none left open, also when goroutines with an older
\* snapshot or an older key status open and close alerts of the same slot
\* (inventory_reconciler.go:188-223).
AlertsSettle ==
    \A s \in Slots : <>[](LET d == Discrepancy(contents[s], key[s])
                          IN  IF d = "none" THEN open[s] = {} ELSE d \in open[s])

\* ensureDeviceReady lets an operation start: both the row and the gateway's
\* own entry call the cabinet online.
Reachable == device = "ONLINE" /\ memory = "ONLINE"

OnlineRight ==
    /\ Reachable
    /\ monitor = "idle"
    /\ \A w \in Workers : worker[w].at = "status" => worker[w].says = "ONLINE"

\* A cabinet that is usable, with no OFFLINE on its way to the database, stays
\* so until the next will, silence or restart: neither the monitor nor a
\* late write takes it offline (mqtt_gateway.go:279-302, 505-530).
OnlineStays == [][OnlineRight /\ outages' = outages => OnlineRight']_vars

\* A living cabinet becomes usable for good after its last outage: no will,
\* late write of the monitor or restart leaves row and table disagreeing
\* (mqtt_gateway.go:279-302, 505-530).
OnlineSettles == <>[]Reachable
=============================================================================
