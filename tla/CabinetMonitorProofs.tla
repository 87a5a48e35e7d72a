------------------------ MODULE CabinetMonitorProofs ------------------------
(***************************************************************************)
(* Type correctness of CabinetMonitor, and that what is right about a      *)
(* cabinet stays right, for any number of slots and goroutines.            *)
(***************************************************************************)
EXTENDS CabinetMonitor, TLAPS

Jobs == [at: Steps, says: {"ONLINE", "OFFLINE"},
         found: [Slots -> Contents] \cup {<<>>},
         rows: [Slots -> Presence] \cup {<<>>},
         slot: 0..SlotCount, alert: AlertType \cup {"none"}]

AtSlot == {"presence", "key", "resolve", "find", "create"}

\* What a goroutine has in its hands at each of its steps.
Formed(j) ==
    /\ j.at \in {"slots"} \cup AtSlot => j.found # <<>>
    /\ j.at \in AtSlot => j.slot \in Slots /\ j.rows # <<>>
    /\ j.at = "resolve" => j.alert = "none"
    /\ j.at \in {"find", "create"} => j.alert # "none"

IInv == TypeOK /\ \A w \in Workers : Formed(worker[w])

-----------------------------------------------------------------------------
(* What a step may do                                                      *)

\* Snapshots are taken of the slots as they are and not altered.
Carried ==
    \A w \in Workers : \/ worker'[w].found = worker[w].found
                       \/ worker'[w].found = contents
                       \/ worker'[w].found = <<>>

\* Presence is written by the ledger with the key, or from a snapshot.
PresenceWritten ==
    \A s \in Slots :
        \/ presence'[s] = presence[s]
        \/ key'[s] # key[s]
        \/ \E w \in Workers : /\ worker[w].found # <<>>
                              /\ presence'[s] = Told(worker[w].found[s])

\* Alerts of a slot are opened and closed by goroutines that are there.
AlertsWritten ==
    \A s \in Slots :
        \/ open'[s] = open[s]
        \/ \E w \in Workers :
               /\ worker[w].slot = s
               /\ \/ worker[w].at = "resolve" /\ open'[s] = {}
                  \/ worker[w].at = "create" /\ open'[s] = open[s] \cup {worker[w].alert}

Deciding == {"resolve", "find", "create"}

\* What a goroutine is about to do with the alerts of a slot it decided with
\* the key as it is, or before.
Decided ==
    \A w \in Workers : worker'[w].at \in Deciding =>
        \/ /\ worker[w].at \in Deciding
           /\ worker'[w].slot = worker[w].slot
           /\ worker'[w].alert = worker[w].alert
        \/ /\ worker[w].found # <<>>
           /\ worker'[w].slot \in Slots
           /\ worker'[w].alert = Discrepancy(worker[w].found[worker'[w].slot],
                                             key[worker'[w].slot])

\* A late OFFLINE is only on its way after an outage.
OnlineKept == OnlineRight /\ outages' = outages => OnlineRight'

Allowed == IInv' /\ Carried /\ PresenceWritten /\ AlertsWritten /\ Decided /\ OnlineKept

-----------------------------------------------------------------------------
(* Goroutines                                                              *)

LEMMA SlotsExist == 1 \in Slots /\ Slots \subseteq 1..SlotCount /\ SlotCount \in Nat
BY MonitorAssumption DEF Slots

\* The other goroutines keep what they have.
LEMMA NewJob ==
    ASSUME IInv, NEW w \in Workers, NEW j \in Jobs, Formed(j),
           worker' = [worker EXCEPT ![w] = j]
    PROVE  /\ worker' \in [Workers -> Jobs]
           /\ \A v \in Workers : Formed(worker'[v])
           /\ \A v \in Workers : worker'[v] = IF v = w THEN j ELSE worker[v]
<1>1. worker \in [Workers -> Jobs]
  BY DEF IInv, TypeOK, Jobs
<1>2. \A v \in Workers : worker'[v] = IF v = w THEN j ELSE worker[v]
  BY <1>1
<1> QED  BY <1>1, <1>2 DEF IInv

LEMMA IdleJob == Idle \in Jobs /\ Formed(Idle)
BY SlotsExist DEF Idle, Jobs, Formed, Steps, AtSlot

LEMMA NextSlotJob ==
    ASSUME NEW j \in Jobs, Formed(j), j.at \in AtSlot
    PROVE  /\ NextSlot(j) \in Jobs /\ Formed(NextSlot(j))
           /\ NextSlot(j).at \in {"idle", "presence"}
           /\ NextSlot(j).found = j.found \/ NextSlot(j).found = <<>>
<1>1. CASE j.slot = SlotCount
  BY <1>1, IdleJob DEF NextSlot, Idle
<1>2. CASE j.slot # SlotCount
  <2> DEFINE k == [j EXCEPT !.at = "presence", !.slot = @ + 1, !.alert = "none"]
  <2>1. NextSlot(j) = k
    BY <1>2 DEF NextSlot
  <2>2. j.slot \in 1..SlotCount /\ j.slot + 1 \in 1..SlotCount
    BY <1>2, SlotsExist DEF Formed, Slots
  <2>3. /\ k \in Jobs /\ k.at = "presence" /\ k.slot = j.slot + 1
        /\ k.found = j.found /\ k.rows = j.rows
    <3>1. j.slot + 1 \in 0..SlotCount /\ "presence" \in Steps
      BY <2>2, SlotsExist DEF Steps
    <3>2. k \in Jobs
      BY <3>1 DEF Jobs
    <3>3. k.at = "presence" /\ k.slot = j.slot + 1 /\ k.found = j.found /\ k.rows = j.rows
      BY DEF Jobs
    <3> QED  BY <3>2, <3>3
  <2> HIDE DEF k
  <2>4. Formed(k)
    BY <2>2, <2>3, SlotsExist DEF Formed, AtSlot, Slots
  <2> QED  BY <2>1, <2>3, <2>4
<1> QED  BY <1>1, <1>2

LEMMA InitInvariant == Init => IInv
<1> SUFFICES ASSUME Init PROVE IInv
  OBVIOUS
<1>1. worker \in [Workers -> Jobs] /\ \A w \in Workers : Formed(worker[w])
  BY IdleJob DEF Init
<1>2. TypeOK
  BY <1>1, MonitorAssumption DEF Init, TypeOK, Jobs, Contents, KeyStatus, Presence, Memory
<1> QED  BY <1>1, <1>2 DEF IInv

\* A step that leaves goroutines and inventory alone.
LEMMA QuietInventory ==
    ASSUME IInv, UNCHANGED <<inventory, worker>>
    PROVE  Carried /\ PresenceWritten /\ AlertsWritten /\ Decided
BY DEF Carried, PresenceWritten, AlertsWritten, Decided, inventory

\* A message gets a goroutine of its own.
LEMMA BeginJob ==
    ASSUME IInv, NEW w \in Workers, NEW j \in Jobs, Formed(j), Begin(w, j),
           j.at = "status", j.found = contents \/ j.found = <<>>,
           UNCHANGED inventory
    PROVE  /\ worker' \in [Workers -> Jobs]
           /\ \A v \in Workers : Formed(worker'[v])
           /\ \A v \in Workers : worker'[v] = IF v = w THEN j ELSE worker[v]
           /\ Carried /\ PresenceWritten /\ AlertsWritten /\ Decided
<1>1. worker' = [worker EXCEPT ![w] = j]
  BY DEF Begin
<1>2. /\ worker' \in [Workers -> Jobs]
      /\ \A v \in Workers : Formed(worker'[v])
      /\ \A v \in Workers : worker'[v] = IF v = w THEN j ELSE worker[v]
  BY <1>1, NewJob
<1>3. Carried
  BY <1>2 DEF Carried
<1>4. PresenceWritten /\ AlertsWritten
  BY DEF PresenceWritten, AlertsWritten, inventory
<1>5. Decided
  BY <1>2 DEF Decided, Deciding
<1> QED  BY <1>2, <1>3, <1>4, <1>5

LEMMA HeartbeatStep ==
    ASSUME IInv, NEW w \in Workers, Heartbeat(w)
    PROVE  Allowed
<1> DEFINE j == [Idle EXCEPT !.at = "status"]
<1>1. /\ j \in Jobs /\ Formed(j) /\ j.at = "status" /\ j.found = <<>> /\ j.says = "ONLINE"
      /\ Begin(w, j)
  BY IdleJob DEF Heartbeat, Jobs, Steps, Formed, AtSlot, Idle
<1>2. memory' = "ONLINE" /\ UNCHANGED <<inventory, device, monitor, outages>>
  BY DEF Heartbeat
<1> HIDE DEF j
<1>3. /\ worker' \in [Workers -> Jobs]
      /\ \A v \in Workers : Formed(worker'[v])
      /\ \A v \in Workers : worker'[v] = IF v = w THEN j ELSE worker[v]
      /\ Carried /\ PresenceWritten /\ AlertsWritten /\ Decided
  BY <1>1, <1>2, BeginJob
<1>4. IInv'
  BY <1>2, <1>3 DEF IInv, TypeOK, Jobs, Memory, inventory
<1>5. OnlineKept
  BY <1>1, <1>2, <1>3 DEF OnlineKept, OnlineRight, Reachable
<1> QED  BY <1>3, <1>4, <1>5 DEF Allowed

LEMMA WillStep ==
    ASSUME IInv, NEW w \in Workers, Will(w)
    PROVE  Allowed
<1> DEFINE j == [Idle EXCEPT !.at = "status", !.says = "OFFLINE"]
<1>1. /\ j \in Jobs /\ Formed(j) /\ j.at = "status" /\ j.found = <<>>
      /\ Begin(w, j)
  BY IdleJob DEF Will, Jobs, Steps, Formed, AtSlot, Idle
<1>2. /\ memory' = "OFFLINE" /\ outages < MaxOutages /\ outages' = outages + 1
      /\ UNCHANGED <<inventory, device, monitor>>
  BY DEF Will
<1> HIDE DEF j
<1>3. /\ worker' \in [Workers -> Jobs]
      /\ \A v \in Workers : Formed(worker'[v])
      /\ Carried /\ PresenceWritten /\ AlertsWritten /\ Decided
  BY <1>1, <1>2, BeginJob
<1>4. IInv'
  BY <1>2, <1>3, MonitorAssumption DEF IInv, TypeOK, Jobs, Memory, inventory
<1>5. OnlineKept
  BY <1>2 DEF OnlineKept, IInv, TypeOK
<1> QED  BY <1>3, <1>4, <1>5 DEF Allowed

LEMMA SnapshotStep ==
    ASSUME IInv, NEW w \in Workers, Snapshot(w)
    PROVE  Allowed
<1> DEFINE j == [Idle EXCEPT !.at = "status", !.found = contents]
<1>1. /\ j \in Jobs /\ Formed(j) /\ j.at = "status" /\ j.found = contents /\ j.says = "ONLINE"
      /\ Begin(w, j)
  BY IdleJob DEF Snapshot, Jobs, Steps, Formed, AtSlot, Idle, IInv, TypeOK
<1>2. memory' = "ONLINE" /\ UNCHANGED <<inventory, device, monitor, outages>>
  BY DEF Snapshot
<1> HIDE DEF j
<1>3. /\ worker' \in [Workers -> Jobs]
      /\ \A v \in Workers : Formed(worker'[v])
      /\ \A v \in Workers : worker'[v] = IF v = w THEN j ELSE worker[v]
      /\ Carried /\ PresenceWritten /\ AlertsWritten /\ Decided
  BY <1>1, <1>2, BeginJob
<1>4. IInv'
  BY <1>2, <1>3 DEF IInv, TypeOK, Jobs, Memory, inventory
<1>5. OnlineKept
  BY <1>1, <1>2, <1>3 DEF OnlineKept, OnlineRight, Reachable
<1> QED  BY <1>3, <1>4, <1>5 DEF Allowed

\* A goroutine goes on: what has to be shown of its new job.
LEMMA WorkJob ==
    ASSUME IInv, NEW w \in Workers, NEW j \in Jobs, Formed(j),
           worker' = [worker EXCEPT ![w] = j],
           j.found = worker[w].found \/ j.found = <<>>,
           j.at # "status",
           j.at \in Deciding =>
               \/ /\ worker[w].at \in Deciding
                  /\ j.slot = worker[w].slot /\ j.alert = worker[w].alert
               \/ /\ worker[w].found # <<>> /\ j.slot \in Slots
                  /\ j.alert = Discrepancy(worker[w].found[j.slot], key[j.slot]),
           UNCHANGED <<contents, key, changes, memory, monitor, outages>>,
           (worker[w].at = "status" /\ device' = worker[w].says) \/ device' = device,
           device' \in {"ONLINE", "OFFLINE"},
           presence' \in [Slots -> Presence], open' \in [Slots -> SUBSET AlertType]
    PROVE  IInv' /\ Carried /\ Decided /\ OnlineKept
<1>1. /\ worker' \in [Workers -> Jobs]
      /\ \A v \in Workers : Formed(worker'[v])
      /\ \A v \in Workers : worker'[v] = IF v = w THEN j ELSE worker[v]
  BY NewJob
<1>2. IInv'
  BY <1>1 DEF IInv, TypeOK, Jobs
<1>3. Carried
  BY <1>1 DEF Carried
<1>4. Decided
  BY <1>1 DEF Decided, Deciding
<1>5. OnlineKept
  BY <1>1 DEF OnlineKept, OnlineRight, Reachable
<1> QED  BY <1>2, <1>3, <1>4, <1>5

LEMMA JobTypes ==
    ASSUME IInv, NEW w \in Workers
    PROVE  worker[w] \in Jobs /\ Formed(worker[w])
BY DEF IInv, TypeOK, Jobs

LEMMA WriteStatusStep ==
    ASSUME IInv, NEW w \in Workers, WriteStatus(w)
    PROVE  Allowed
<1> DEFINE j == IF worker[w].found = <<>> THEN Idle ELSE [worker[w] EXCEPT !.at = "slots"]
<1>1. /\ worker[w].at = "status" /\ device' = worker[w].says
      /\ worker' = [worker EXCEPT ![w] = j]
      /\ UNCHANGED <<inventory, memory, monitor, outages>>
  BY DEF WriteStatus
<1>2. worker[w] \in Jobs /\ Formed(worker[w])
  BY JobTypes
<1>3. /\ j \in Jobs /\ Formed(j) /\ j.at \in {"idle", "slots"}
      /\ j.found = worker[w].found \/ j.found = <<>>
  <2>1. CASE worker[w].found = <<>>
    BY <2>1, IdleJob DEF Idle
  <2>2. CASE worker[w].found # <<>>
    <3>1. j = [worker[w] EXCEPT !.at = "slots"] /\ j \in Jobs
      BY <1>2, <2>2 DEF Jobs, Steps
    <3>2. j.at = "slots" /\ j.found = worker[w].found
      BY <1>2, <3>1 DEF Jobs
    <3> QED  BY <2>2, <3>1, <3>2 DEF Formed, AtSlot
  <2> QED  BY <2>1, <2>2
<1> HIDE DEF j
<1>4. IInv' /\ Carried /\ Decided /\ OnlineKept
  <2>1. device' \in {"ONLINE", "OFFLINE"} /\ j.at # "status" /\ j.at \notin Deciding
    BY <1>1, <1>2, <1>3 DEF Jobs, Deciding
  <2>2. presence' \in [Slots -> Presence] /\ open' \in [Slots -> SUBSET AlertType]
    BY <1>1 DEF IInv, TypeOK, inventory
  <2>3. UNCHANGED <<contents, key, changes, memory, monitor, outages>>
    BY <1>1 DEF inventory
  <2> QED  BY <1>1, <1>3, <2>1, <2>2, <2>3, WorkJob
<1>5. PresenceWritten /\ AlertsWritten
  BY <1>1 DEF PresenceWritten, AlertsWritten, inventory
<1> QED  BY <1>4, <1>5 DEF Allowed

LEMMA ReadSlotsStep ==
    ASSUME IInv, NEW w \in Workers, ReadSlots(w)
    PROVE  Allowed
<1> DEFINE j == [worker[w] EXCEPT !.at = "presence", !.slot = 1, !.rows = presence]
<1>1. /\ worker[w].at = "slots"
      /\ UNCHANGED <<inventory, device, memory, monitor, outages>>
  BY DEF ReadSlots
<1>2. worker[w] \in Jobs /\ Formed(worker[w])
  BY JobTypes
<1>3. worker' = [worker EXCEPT ![w] = j]
  BY DEF ReadSlots
<1>4. 1 \in 0..SlotCount /\ 1 \in Slots /\ presence \in [Slots -> Presence] /\ presence # <<>>
  BY SlotsExist DEF IInv, TypeOK, Slots
<1>5. /\ j \in Jobs
      /\ j.at = "presence" /\ j.slot = 1 /\ j.rows = presence /\ j.found = worker[w].found
  <2>1. j \in Jobs
    BY <1>2, <1>4 DEF Jobs, Steps
  <2>2. j.at = "presence" /\ j.slot = 1 /\ j.rows = presence /\ j.found = worker[w].found
    BY <1>2 DEF Jobs
  <2> QED  BY <2>1, <2>2
<1> HIDE DEF j
<1>6. Formed(j)
  BY <1>1, <1>2, <1>4, <1>5 DEF Formed, AtSlot
<1>7. IInv' /\ Carried /\ Decided /\ OnlineKept
  <2>1. device' \in {"ONLINE", "OFFLINE"} /\ j.at # "status" /\ j.at \notin Deciding
    BY <1>1, <1>5 DEF IInv, TypeOK, Deciding
  <2>2. presence' \in [Slots -> Presence] /\ open' \in [Slots -> SUBSET AlertType]
    BY <1>1 DEF IInv, TypeOK, inventory
  <2>3. UNCHANGED <<contents, key, changes, device, memory, monitor, outages>>
    BY <1>1 DEF inventory
  <2> QED  BY <1>3, <1>5, <1>6, <2>1, <2>2, <2>3, WorkJob
<1>8. PresenceWritten /\ AlertsWritten
  BY <1>1 DEF PresenceWritten, AlertsWritten, inventory
<1> QED  BY <1>7, <1>8 DEF Allowed

LEMMA UpdatePresenceStep ==
    ASSUME IInv, NEW w \in Workers, UpdatePresence(w)
    PROVE  Allowed
<1> DEFINE s == worker[w].slot
           told == Told(worker[w].found[s])
           j == [worker[w] EXCEPT !.at = "key", !.rows = [@ EXCEPT ![s] = told]]
<1>1. /\ worker[w].at = "presence"
      /\ presence' = [presence EXCEPT ![s] = IF worker[w].rows[s] # told THEN told ELSE @]
      /\ UNCHANGED <<contents, key, open, changes, device, memory, monitor, outages>>
  BY DEF UpdatePresence
<1>2. worker[w] \in Jobs /\ Formed(worker[w])
  BY JobTypes
<1>3. worker' = [worker EXCEPT ![w] = j]
  BY DEF UpdatePresence
<1>4. s \in Slots /\ worker[w].found # <<>> /\ worker[w].rows # <<>>
  BY <1>1, <1>2 DEF Formed, AtSlot
<1>5. told \in Presence
  BY DEF Told, Presence
<1>6. /\ j \in Jobs /\ j.rows # <<>>
      /\ j.at = "key" /\ j.slot = s /\ j.found = worker[w].found
  <2>1. worker[w].rows \in [Slots -> Presence]
    BY <1>2, <1>4 DEF Jobs
  <2> DEFINE rows == [worker[w].rows EXCEPT ![s] = told]
  <2>2. rows \in [Slots -> Presence]
    BY <1>5, <2>1
  <2>3. rows # <<>>
    BY <2>2, SlotsExist
  <2>4. j = [worker[w] EXCEPT !.at = "key", !.rows = rows]
    OBVIOUS
  <2> HIDE DEF rows, told, j
  <2>5. j \in Jobs
    BY <1>2, <2>2, <2>4 DEF Jobs, Steps
  <2>6. j.at = "key" /\ j.slot = s /\ j.rows = rows /\ j.found = worker[w].found
    BY <1>2, <2>4 DEF Jobs
  <2> QED  BY <2>3, <2>5, <2>6
<1> HIDE DEF j
<1>7. Formed(j)
  BY <1>4, <1>6 DEF Formed, AtSlot
<1>8. IInv' /\ Carried /\ Decided /\ OnlineKept
  <2>1. device' \in {"ONLINE", "OFFLINE"} /\ j.at # "status" /\ j.at \notin Deciding
    BY <1>1, <1>6 DEF IInv, TypeOK, Deciding
  <2>2. presence' \in [Slots -> Presence] /\ open' \in [Slots -> SUBSET AlertType]
    BY <1>1, <1>5 DEF IInv, TypeOK
  <2> QED  BY <1>1, <1>3, <1>6, <1>7, <2>1, <2>2, WorkJob
<1>9. PresenceWritten
  BY <1>1, <1>4 DEF PresenceWritten, IInv, TypeOK
<1>10. AlertsWritten
  BY <1>1 DEF AlertsWritten
<1> QED  BY <1>8, <1>9, <1>10 DEF Allowed

LEMMA DiscrepancyType ==
    ASSUME NEW c, NEW k PROVE Discrepancy(c, k) \in AlertType \cup {"none"}
BY DEF Discrepancy, AlertType

LEMMA ReadKeyStep ==
    ASSUME IInv, NEW w \in Workers, ReadKey(w)
    PROVE  Allowed
<1> DEFINE s == worker[w].slot
           d == Discrepancy(worker[w].found[s], key[s])
           at == IF d = "none" THEN "resolve" ELSE "find"
           j == [worker[w] EXCEPT !.at = at, !.alert = d]
<1>1. /\ worker[w].at = "key"
      /\ UNCHANGED <<inventory, device, memory, monitor, outages>>
  BY DEF ReadKey
<1>2. worker[w] \in Jobs /\ Formed(worker[w])
  BY JobTypes
<1>3. worker' = [worker EXCEPT ![w] = j]
  BY DEF ReadKey
<1>4. s \in Slots /\ worker[w].found # <<>> /\ worker[w].rows # <<>>
  BY <1>1, <1>2 DEF Formed, AtSlot
<1>5. /\ d \in AlertType \cup {"none"} /\ at \in {"resolve", "find"}
      /\ at = "resolve" <=> d = "none"
  BY DiscrepancyType
<1>6. j \in Jobs /\ j.at = at /\ j.alert = d /\ j.slot = s
      /\ j.found = worker[w].found /\ j.rows = worker[w].rows
  <2> HIDE DEF d, at
  <2>1. at \in Steps
    BY <1>5 DEF Steps
  <2>2. j \in Jobs
    BY <1>2, <1>5, <2>1 DEF Jobs
  <2>3. j.at = at /\ j.alert = d /\ j.slot = s /\ j.found = worker[w].found /\ j.rows = worker[w].rows
    BY <1>2 DEF Jobs
  <2> QED  BY <2>2, <2>3
<1>7. Formed(j)
  <2> HIDE DEF d, at, j
  <2> QED  BY <1>4, <1>5, <1>6 DEF Formed, AtSlot
<1>8. IInv' /\ Carried /\ Decided /\ OnlineKept
  <2> HIDE DEF at, j
  <2>1. device' \in {"ONLINE", "OFFLINE"} /\ j.at # "status"
    BY <1>1, <1>5, <1>6 DEF IInv, TypeOK
  <2>2. presence' \in [Slots -> Presence] /\ open' \in [Slots -> SUBSET AlertType]
    BY <1>1 DEF IInv, TypeOK, inventory
  <2>3. UNCHANGED <<contents, key, changes, device, memory, monitor, outages>>
    BY <1>1 DEF inventory
  <2>4. j.slot \in Slots /\ j.alert = Discrepancy(worker[w].found[j.slot], key[j.slot])
    BY <1>4, <1>6
  <2> QED  BY <1>3, <1>4, <1>6, <1>7, <2>1, <2>2, <2>3, <2>4, WorkJob
<1>9. PresenceWritten /\ AlertsWritten
  BY <1>1 DEF PresenceWritten, AlertsWritten, inventory
<1> QED  BY <1>8, <1>9 DEF Allowed

\* Resolve, FindOpen and Create go on to the next slot; what is left to show
\* of them is what they do to the alerts.
LEMMA NextSlotStep ==
    ASSUME IInv, NEW w \in Workers, worker[w].at \in Deciding,
           worker' = [worker EXCEPT ![w] = NextSlot(@)],
           UNCHANGED <<contents, key, presence, changes, device, memory, monitor, outages>>,
           open' \in [Slots -> SUBSET AlertType]
    PROVE  IInv' /\ Carried /\ Decided /\ OnlineKept /\ PresenceWritten
<1> DEFINE j == NextSlot(worker[w])
<1>1. worker[w] \in Jobs /\ Formed(worker[w]) /\ worker[w].at \in AtSlot
  BY JobTypes DEF Deciding, AtSlot
<1>2. /\ j \in Jobs /\ Formed(j) /\ j.at \in {"idle", "presence"}
      /\ j.found = worker[w].found \/ j.found = <<>>
  BY <1>1, NextSlotJob
<1>3. worker' = [worker EXCEPT ![w] = j]
  OBVIOUS
<1> HIDE DEF j
<1>4. /\ device' \in {"ONLINE", "OFFLINE"} /\ presence' \in [Slots -> Presence]
      /\ j.at # "status" /\ j.at \notin Deciding
  BY <1>2 DEF IInv, TypeOK, Deciding
<1>5. IInv' /\ Carried /\ Decided /\ OnlineKept
  BY <1>2, <1>3, <1>4, WorkJob
<1>6. PresenceWritten
  BY DEF PresenceWritten
<1> QED  BY <1>5, <1>6

LEMMA ResolveStep ==
    ASSUME IInv, NEW w \in Workers, Resolve(w)
    PROVE  Allowed
<1>1. /\ worker[w].at = "resolve" /\ worker[w].at \in Deciding
      /\ worker' = [worker EXCEPT ![w] = NextSlot(@)]
      /\ open' = [open EXCEPT ![worker[w].slot] = {}]
      /\ UNCHANGED <<contents, key, presence, changes, device, memory, monitor, outages>>
  BY DEF Resolve, Deciding
<1>2. open' \in [Slots -> SUBSET AlertType]
  BY <1>1 DEF IInv, TypeOK
<1>3. AlertsWritten
  BY <1>1 DEF AlertsWritten, IInv, TypeOK
<1>4. IInv' /\ Carried /\ Decided /\ OnlineKept /\ PresenceWritten
  BY <1>1, <1>2, NextSlotStep
<1> QED  BY <1>3, <1>4 DEF Allowed

LEMMA CreateStep ==
    ASSUME IInv, NEW w \in Workers, Create(w)
    PROVE  Allowed
<1>1. /\ worker[w].at = "create" /\ worker[w].at \in Deciding
      /\ worker' = [worker EXCEPT ![w] = NextSlot(@)]
      /\ open' = [open EXCEPT ![worker[w].slot] = @ \cup {worker[w].alert}]
      /\ UNCHANGED <<contents, key, presence, changes, device, memory, monitor, outages>>
  BY DEF Create, Deciding
<1>2. worker[w].alert \in AlertType
  BY <1>1, JobTypes DEF Jobs, Formed
<1>3. open' \in [Slots -> SUBSET AlertType]
  BY <1>1, <1>2 DEF IInv, TypeOK
<1>4. AlertsWritten
  BY <1>1 DEF AlertsWritten, IInv, TypeOK
<1>5. IInv' /\ Carried /\ Decided /\ OnlineKept /\ PresenceWritten
  BY <1>1, <1>3, NextSlotStep
<1> QED  BY <1>4, <1>5 DEF Allowed

LEMMA FindOpenStep ==
    ASSUME IInv, NEW w \in Workers, FindOpen(w)
    PROVE  Allowed
<1>1. /\ worker[w].at = "find" /\ worker[w].at \in Deciding
      /\ UNCHANGED <<inventory, device, memory, monitor, outages>>
      /\ open' \in [Slots -> SUBSET AlertType] /\ presence' \in [Slots -> Presence]
      /\ device' \in {"ONLINE", "OFFLINE"}
  BY DEF FindOpen, Deciding, IInv, TypeOK, inventory
<1>2. UNCHANGED <<contents, key, presence, open, changes, device, memory, monitor, outages>>
  BY <1>1 DEF inventory
<1>3. PresenceWritten /\ AlertsWritten
  BY <1>2 DEF PresenceWritten, AlertsWritten
<1>4. CASE worker[w].alert \in open[worker[w].slot]
  <2>1. worker' = [worker EXCEPT ![w] = NextSlot(@)]
    BY <1>4 DEF FindOpen
  <2> QED  BY <1>1, <1>2, <1>3, <2>1, NextSlotStep DEF Allowed
<1>5. CASE worker[w].alert \notin open[worker[w].slot]
  <2> DEFINE j == [worker[w] EXCEPT !.at = "create"]
  <2>1. worker' = [worker EXCEPT ![w] = j]
    BY <1>5 DEF FindOpen
  <2>2. worker[w] \in Jobs /\ Formed(worker[w])
    BY JobTypes
  <2>3. j \in Jobs
    BY <2>2 DEF Jobs, Steps
  <2>4. /\ j.at = "create" /\ j.slot = worker[w].slot /\ j.alert = worker[w].alert
        /\ j.found = worker[w].found /\ j.rows = worker[w].rows
    BY <2>2 DEF Jobs
  <2> HIDE DEF j
  <2>5. Formed(j) /\ j.at # "status"
    BY <1>1, <2>2, <2>4 DEF Formed, AtSlot
  <2>6. IInv' /\ Carried /\ Decided /\ OnlineKept
    BY <1>1, <1>2, <2>1, <2>3, <2>4, <2>5, WorkJob
  <2> QED  BY <1>3, <2>6 DEF Allowed
<1> QED  BY <1>4, <1>5

-----------------------------------------------------------------------------
(* The monitor, the world and the ledger                                   *)

LEMMA FallSilentStep ==
    ASSUME IInv, FallSilent
    PROVE  Allowed
<1>1. IInv'
  BY MonitorAssumption DEF FallSilent, IInv, TypeOK, Memory, inventory
<1>2. OnlineKept
  BY DEF FallSilent, OnlineKept, IInv, TypeOK
<1> QED  BY <1>1, <1>2, QuietInventory DEF FallSilent, Allowed

LEMMA ExpireStep ==
    ASSUME IInv, Expire
    PROVE  Allowed
<1>1. IInv'
  BY DEF Expire, IInv, TypeOK, Memory, inventory
<1>2. OnlineKept
  BY DEF Expire, OnlineKept, OnlineRight, Reachable
<1> QED  BY <1>1, <1>2, QuietInventory DEF Expire, Allowed

LEMMA WriteExpiryStep ==
    ASSUME IInv, WriteExpiry
    PROVE  Allowed
<1>1. IInv'
  BY DEF WriteExpiry, IInv, TypeOK, inventory
<1>2. OnlineKept
  BY DEF WriteExpiry, OnlineKept, OnlineRight
<1> QED  BY <1>1, <1>2, QuietInventory DEF WriteExpiry, Allowed

LEMMA RestartStep ==
    ASSUME IInv, Restart
    PROVE  Allowed
<1>1. worker' \in [Workers -> Jobs] /\ \A w \in Workers : worker'[w] = Idle
  BY IdleJob DEF Restart
<1>2. Formed(Idle) /\ Idle.found = <<>> /\ Idle.at = "idle"
  BY IdleJob DEF Idle
<1>3. UNCHANGED <<contents, key, presence, open, changes, device>>
  BY DEF Restart, inventory
<1>4. IInv'
  BY <1>1, <1>2, <1>3, MonitorAssumption DEF Restart, IInv, TypeOK, Jobs, Memory
<1>5. Carried /\ PresenceWritten /\ AlertsWritten /\ Decided
  BY <1>1, <1>2, <1>3 DEF Carried, PresenceWritten, AlertsWritten, Decided, Deciding
<1>6. OnlineKept
  BY DEF Restart, OnlineKept, IInv, TypeOK
<1> QED  BY <1>4, <1>5, <1>6 DEF Allowed

\* A change of a slot or of its key.
LEMMA ChangeStep ==
    ASSUME IInv, Change, UNCHANGED <<open, device, memory, monitor, worker, outages>>,
           contents' \in [Slots -> Contents], key' \in [Slots -> KeyStatus],
           presence' \in [Slots -> Presence], PresenceWritten
    PROVE  Allowed
<1>1. IInv'
  BY MonitorAssumption DEF Change, IInv, TypeOK
<1>2. Carried /\ AlertsWritten /\ Decided
  BY DEF Carried, AlertsWritten, Decided
<1>3. OnlineKept
  BY DEF OnlineKept, OnlineRight, Reachable
<1> QED  BY <1>1, <1>2, <1>3 DEF Allowed

LEMMA LedgerAndWorldStep ==
    ASSUME IInv, NEW s \in Slots,
           \/ Handle(s) \/ CompletePickup(s) \/ CompleteReturn(s) \/ UpdateKeyStatus(s)
    PROVE  Allowed
<1>1. CASE Handle(s)
  BY <1>1, ChangeStep DEF Handle, PresenceWritten, IInv, TypeOK
<1>2. CASE CompletePickup(s)
  <2>1. PresenceWritten
    BY <1>2 DEF CompletePickup, PresenceWritten, IInv, TypeOK
  <2> QED  BY <1>2, <2>1, ChangeStep DEF CompletePickup, IInv, TypeOK, KeyStatus, Presence
<1>3. CASE CompleteReturn(s)
  <2>1. PresenceWritten
    BY <1>3 DEF CompleteReturn, PresenceWritten, IInv, TypeOK
  <2> QED  BY <1>3, <2>1, ChangeStep DEF CompleteReturn, IInv, TypeOK, KeyStatus, Presence
<1>4. CASE UpdateKeyStatus(s)
  BY <1>4, ChangeStep DEF UpdateKeyStatus, PresenceWritten, IInv, TypeOK, KeyStatus
<1> QED  BY <1>1, <1>2, <1>3, <1>4

LEMMA StutterStep == IInv /\ UNCHANGED vars => Allowed
<1> SUFFICES ASSUME IInv, UNCHANGED vars PROVE Allowed
  OBVIOUS
<1>1. UNCHANGED <<inventory, worker>>
  BY DEF vars, inventory
<1>2. IInv'
  BY DEF vars, IInv, TypeOK
<1>3. OnlineKept
  BY DEF vars, OnlineKept, OnlineRight, Reachable
<1> QED  BY <1>1, <1>2, <1>3, QuietInventory DEF Allowed

LEMMA NextAllowed == IInv /\ [Next]_vars => Allowed
<1> SUFFICES ASSUME IInv, [Next]_vars PROVE Allowed
  OBVIOUS
<1>1. ASSUME NEW w \in Workers, Heartbeat(w) \/ Will(w) \/ Snapshot(w) PROVE Allowed
  BY <1>1, HeartbeatStep, WillStep, SnapshotStep
<1>2. ASSUME NEW w \in Workers, Work(w) PROVE Allowed
  BY <1>2, WriteStatusStep, ReadSlotsStep, UpdatePresenceStep, ReadKeyStep, ResolveStep,
     FindOpenStep, CreateStep DEF Work, Reconcile
<1>3. CASE FallSilent \/ Expire \/ WriteExpiry \/ Restart
  BY <1>3, FallSilentStep, ExpireStep, WriteExpiryStep, RestartStep
<1>4. CASE UNCHANGED vars
  BY <1>4, StutterStep
<1> QED  BY <1>1, <1>2, <1>3, <1>4, LedgerAndWorldStep DEF Next

-----------------------------------------------------------------------------
(* What the steps of the specification come to                             *)

\* Rows, table and goroutines stay well formed: whoever reconciles a slot has
\* a snapshot and rows in its hands, and an alert to open but none to close.
THEOREM Inductive == Spec => []IInv
<1>1. IInv /\ [Next]_vars => IInv'
  BY NextAllowed DEF Allowed
<1> QED  BY <1>1, InitInvariant, PTL DEF Spec

\* The monitor's state is well typed and no goroutine leaves the slots.
THEOREM TypeCorrect == Spec => []TypeOK
<1>1. IInv => TypeOK
  BY DEF IInv
<1> QED  BY <1>1, Inductive, PTL

\* What goroutines carry stays up to date while nobody touches the slot.
LEMMA CarriedUpToDate ==
    ASSUME Carried, NEW s \in Slots, contents'[s] = contents[s],
           \A w \in Workers : UpToDate(w, s)
    PROVE  \A w \in Workers : worker'[w].found # <<>> => worker'[w].found[s] = contents'[s]
BY DEF Carried, UpToDate

LEMMA PresenceStep ==
    ASSUME Allowed, NEW s \in Slots, PresenceRight(s), SlotLeftAlone(s)
    PROVE  PresenceRight(s)'
<1>1. contents'[s] = contents[s] /\ key'[s] = key[s]
  BY DEF SlotLeftAlone
<1>2. \A w \in Workers : UpToDate(w, s)'
  BY <1>1, CarriedUpToDate DEF Allowed, PresenceRight, UpToDate
<1>3. presence'[s] = Told(contents[s])
  BY <1>1 DEF Allowed, PresenceWritten, PresenceRight, UpToDate
<1> QED  BY <1>1, <1>2, <1>3 DEF PresenceRight

\* A right row stays right until the slot or its key is touched.
THEOREM PresenceStable == Spec => PresenceStays
<1>1. IInv /\ [Next]_vars =>
          [\A s \in Slots : PresenceRight(s) /\ SlotLeftAlone(s) => PresenceRight(s)']_vars
  BY NextAllowed, PresenceStep
<1> QED  BY <1>1, Inductive, PTL DEF Spec, PresenceStays

LEMMA AlertsStep ==
    ASSUME IInv, Allowed, NEW s \in Slots, AlertsRight(s), SlotLeftAlone(s)
    PROVE  AlertsRight(s)'
<1> DEFINE d == Discrepancy(contents[s], key[s])
<1>1. contents'[s] = contents[s] /\ key'[s] = key[s]
  BY DEF SlotLeftAlone
<1>2. \A w \in Workers :
          /\ UpToDate(w, s)
          /\ worker[w].slot = s /\ worker[w].at \in Deciding => worker[w].alert = d
  BY DEF AlertsRight, Deciding
<1>3. IF d = "none" THEN open[s] = {} ELSE d \in open[s]
  BY DEF AlertsRight, Healthy
<1>4. \A w \in Workers : UpToDate(w, s)'
  BY <1>1, <1>2, CarriedUpToDate DEF Allowed, UpToDate
<1>5. ASSUME NEW w \in Workers, worker'[w].slot = s, worker'[w].at \in Deciding
      PROVE  worker'[w].alert = d
  BY <1>2, <1>5 DEF Allowed, Decided, UpToDate
<1>6. \A w \in Workers : /\ worker[w].at = "resolve" => worker[w].alert = "none"
                         /\ worker[w].at = "create" => worker[w].alert # "none"
  BY DEF IInv, Formed
<1>7. IF d = "none" THEN open'[s] = {} ELSE d \in open'[s]
  <2> HIDE DEF d
  <2>1. CASE open'[s] = open[s]
    BY <1>3, <2>1
  <2>2. ASSUME NEW w \in Workers, worker[w].slot = s, worker[w].at = "resolve", open'[s] = {}
        PROVE  d = "none" /\ open'[s] = {}
    BY <1>2, <1>6, <2>2 DEF Deciding
  <2>3. ASSUME NEW w \in Workers, worker[w].slot = s, worker[w].at = "create",
               open'[s] = open[s] \cup {worker[w].alert}
        PROVE  d # "none" /\ d \in open'[s]
    BY <1>2, <1>6, <2>3 DEF Deciding
  <2> QED  BY <2>1, <2>2, <2>3 DEF Allowed, AlertsWritten
<1> QED  BY <1>1, <1>4, <1>5, <1>7 DEF AlertsRight, Healthy, Deciding

\* The right alerts of a slot stay as they are until it or its key is touched.
THEOREM AlertsStable == Spec => AlertsStay
<1>1. IInv /\ [Next]_vars =>
          [\A s \in Slots : AlertsRight(s) /\ SlotLeftAlone(s) => AlertsRight(s)']_vars
  BY NextAllowed, AlertsStep
<1> QED  BY <1>1, Inductive, PTL DEF Spec, AlertsStay

\* A usable cabinet stays usable until the next outage.
THEOREM OnlineStable == Spec => OnlineStays
<1>1. IInv /\ [Next]_vars => [OnlineRight /\ outages' = outages => OnlineRight']_vars
  BY NextAllowed DEF Allowed, OnlineKept
<1> QED  BY <1>1, Inductive, PTL DEF Spec, OnlineStays
=============================================================================
