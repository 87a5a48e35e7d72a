-------------------- MODULE ReservationTransactionsProofs --------------------
(***************************************************************************)
(* The safety of ReservationTransactions, for any number of keys,          *)
(* reservations and transactions: its types, that a final status is only   *)
(* overwritten by a cancellation, that a key which is out stays BORROWED,  *)
(* and when a key is RESERVED for somebody.                                *)
(***************************************************************************)
EXTENDS ReservationTransactions, TLAPS

Releasers == {"cancel", "review", "expire"}

\* What a call has at hand at each of its steps.
Formed(c) ==
    LET j == call[c]
    IN  /\ j.at = "idle" => j = Idle
        /\ j.kind = "none" => j.at = "idle"
        /\ j.at = "insert" => j.kind = "create"
        /\ j.at = "lock" => j.kind = "expire"
        /\ j.at = "update" => j.kind \in {"cancel", "expire"}
        /\ j.at \in {"review", "lapsed"} => j.kind = "review"
        /\ j.at = "use" => j.kind = "pickup"
        /\ j.at = "set" => j.kind \in {"pickup", "return"}
        /\ j.at = "count" => j.kind \in Releasers
        /\ j.at \in {"key", "await"} => j.kind \in Releasers \cup {"create"}
        /\ j.at \in {"insert", "review", "lapsed", "use", "count", "key", "await", "set"} => j.key \in Keys
        /\ j.at \in {"insert", "review", "lapsed", "use"} => \A r \in j.todo : KeyOf[r] = j.key
        /\ j.kind \notin {"cancel", "expire"} /\ j.at \notin {"insert", "review", "lapsed", "use"} => j.todo = {}
        /\ j.kind = "expire" /\ j.at # "lock" => \A r \in j.todo : holder[r] = c
        /\ j.kind # "create" => \A r \in j.todo : row[r] # "NONE"
        /\ j.at = "count" => Releasing(c, j.key)
        /\ j.kind = "pickup" /\ j.at = "commit" => j.key \in Keys /\ holder[j.key] = c
        /\ j.kind = "create" /\ j.at \in {"key", "await"} =>
               \E r \in Reservations : KeyOf[r] = j.key /\ holder[r] = c

\* What a reservation was and will be whose row a call has locked.
Held(c, r) ==
    LET j == call[c]
    IN  \/ /\ j.kind = "create" /\ row[r] = "NONE" /\ draft[r] \in Claiming
           /\ KeyOf[r] = j.key /\ j.at # "insert"
        \/ j.kind = "cancel" /\ row[r] # "NONE" /\ draft[r] = "CANCELLED"
        \/ /\ j.kind = "review" /\ row[r] = "PENDING" /\ j.at \notin {"review", "lapsed"}
           /\ draft[r] \in {"APPROVED", "REJECTED", "EXPIRED"}
        \/ j.kind = "expire" /\ row[r] \in Claiming /\ draft[r] \in {row[r], "EXPIRED"}
        \/ /\ j.kind = "pickup" /\ row[r] \in Claiming /\ draft[r] = "USED"
           /\ KeyOf[r] = j.key /\ j.at \in {"set", "commit"}

\* The same of a key.
HeldKey(c, k) ==
    LET j == call[c]
    IN  \/ /\ j.kind = "create" /\ row[k] = "AVAILABLE" /\ draft[k] = "RESERVED"
           /\ \E r \in Reservations : KeyOf[r] = k /\ holder[r] = c
        \/ /\ j.kind \in Releasers /\ row[k] = "RESERVED" /\ draft[k] = "AVAILABLE"
           /\ j.at \notin {"lock", "review", "lapsed"}
        \/ j.kind = "pickup" /\ j.key = k /\ j.at = "commit" /\ draft[k] = "BORROWED"
        \/ j.kind = "return" /\ j.key = k /\ j.at = "commit" /\ draft[k] = "AVAILABLE"

Locks ==
    /\ \A c \in Calls, r \in Reservations : holder[r] = c => Held(c, r)
    /\ \A c \in Calls, k \in Keys : holder[k] = c => HeldKey(c, k)

\* A reservation that does not exist yet is being made by one call at most.
Creates(c, r) == call[c].kind = "create" /\ (r \in call[c].todo \/ holder[r] = c)

Created == \A c \in Calls, r \in Reservations : Creates(c, r) =>
    /\ row[r] = "NONE"
    /\ \A d \in Calls : Creates(d, r) => c = d

\* Every overlap of two releases has been noted.
Noted == \A k \in Keys \ contended : \A c, d \in Calls :
             Releasing(c, k) /\ Releasing(d, k) => c = d

\* A claim that nobody is giving up.
Kept(r) == row[r] \in Claiming /\ ~(holder[r] \in Calls /\ draft[r] \in GivenUp)

\* c gives up a claim to the key and has yet to decide about the key, or is
\* going to make it AVAILABLE.
Deciding(c, k) ==
    /\ \E r \in Reservations :
           /\ KeyOf[r] = k /\ holder[r] = c
           /\ row[r] \in Claiming /\ draft[r] \in GivenUp
    /\ \/ call[c].key = k /\ call[c].at \in {"count", "key", "await"}
       \/ holder[k] = c

\* A RESERVED key has a claim that stays, or somebody who releases it.
Cared == \A k \in Keys \ contended : row[k] = "RESERVED" =>
    \/ \E r \in Reservations : KeyOf[r] = k /\ Kept(r)
    \/ \E c \in Calls : Deciding(c, k)

IInv ==
    /\ TypeOK
    /\ \A c \in Calls : Formed(c)
    /\ Locks /\ Created /\ Noted /\ Cared

-----------------------------------------------------------------------------
(* Versions and frames                                                     *)

\* The tables have no row in common.
LEMMA Tables ==
    /\ \A k \in Keys : k \in Rows /\ k \notin Reservations
    /\ \A r \in Reservations : r \in Rows /\ r \notin Keys /\ KeyOf[r] \in Keys
BY TransactionsAssumption DEF Rows

LEMMA KeyVersion ==
    ASSUME NEW v \in Versions, NEW k \in Keys, NEW s \in KeyStatus
    PROVE  [v EXCEPT ![k] = s] \in Versions
BY Tables DEF Versions

LEMMA ReservationVersion ==
    ASSUME NEW v \in Versions, NEW r \in Reservations, NEW s \in ReservationStatus
    PROVE  [v EXCEPT ![r] = s] \in Versions
BY Tables DEF Versions

JobType == [kind : Kinds, at : Steps, key : Keys \cup {Nobody}, todo : SUBSET Reservations]

LEMMA Types ==
    ASSUME TypeOK
    PROVE  /\ row \in [Rows -> KeyStatus \cup ReservationStatus]
           /\ draft \in [Rows -> KeyStatus \cup ReservationStatus]
           /\ holder \in [Rows -> Calls \cup {Nobody}]
           /\ call \in [Calls -> JobType]
           /\ \A k \in Keys : row[k] \in KeyStatus /\ draft[k] \in KeyStatus
           /\ \A r \in Reservations : row[r] \in ReservationStatus /\ draft[r] \in ReservationStatus
BY DEF TypeOK, Versions, JobType

\* A step of c leaves the other calls and what they have locked alone.
Frame(c) ==
    /\ \A d \in Calls \ {c} :
           /\ call'[d] = call[d]
           /\ \A x \in Rows :
                  /\ holder'[x] = d <=> holder[x] = d
                  /\ holder[x] = d => draft'[x] = draft[x] /\ row'[x] = row[x]
    /\ \A r \in Reservations : row[r] # "NONE" => row'[r] # "NONE"

LEMMA OthersRelease ==
    ASSUME NEW c \in Calls, Frame(c), NEW d \in Calls \ {c}, NEW k \in Keys
    PROVE  /\ Releasing(d, k)' <=> Releasing(d, k)
           /\ Deciding(d, k)' <=> Deciding(d, k)
BY Tables DEF Frame, Releasing, Deciding

LEMMA OthersCreate ==
    ASSUME NEW c \in Calls, Frame(c), NEW d \in Calls \ {c}, NEW r \in Reservations
    PROVE  Creates(d, r)' <=> Creates(d, r)
BY Tables DEF Frame, Creates

LEMMA OthersFormed ==
    ASSUME IInv, NEW c \in Calls, Frame(c), NEW d \in Calls \ {c}
    PROVE  Formed(d)'
<1>1. call'[d] = call[d] /\ Formed(d) /\ call[d] \in JobType
  BY Types DEF IInv, Frame
<1>2. call[d].at = "count" => Releasing(d, call[d].key)'
  <2>1. call[d].at = "count" => call[d].key \in Keys /\ Releasing(d, call[d].key)
    BY <1>1 DEF Formed
  <2> QED  BY <1>1, <2>1, OthersRelease
<1>3. call[d].kind = "expire" /\ call[d].at # "lock" => \A r \in call[d].todo : holder'[r] = d
  BY <1>1, Tables DEF Formed, Frame, JobType
<1>4. call[d].kind # "create" => \A r \in call[d].todo : row'[r] # "NONE"
  BY <1>1, Tables DEF Formed, Frame, JobType
<1>5. call[d].kind = "pickup" /\ call[d].at = "commit" =>
         call[d].key \in Keys /\ holder'[call[d].key] = d
  <2> SUFFICES ASSUME call[d].kind = "pickup", call[d].at = "commit"
               PROVE  call[d].key \in Keys /\ holder'[call[d].key] = d
    OBVIOUS
  <2>1. call[d].key \in Keys /\ holder[call[d].key] = d
    BY <1>1 DEF Formed
  <2>2. call[d].key \in Rows
    BY <2>1, Tables
  <2> QED  BY <2>1, <2>2 DEF Frame
<1>6. call[d].kind = "create" /\ call[d].at \in {"key", "await"} =>
         \E r \in Reservations : KeyOf[r] = call[d].key /\ holder'[r] = d
  BY <1>1, Tables DEF Formed, Frame
<1> QED  BY <1>1, <1>2, <1>3, <1>4, <1>5, <1>6 DEF Formed, Releasing

LEMMA OthersHeld ==
    ASSUME IInv, NEW c \in Calls, Frame(c), NEW d \in Calls \ {c}
    PROVE  /\ \A r \in Reservations : holder'[r] = d => Held(d, r)'
           /\ \A k \in Keys : holder'[k] = d => HeldKey(d, k)'
<1>1. ASSUME NEW r \in Reservations, holder'[r] = d PROVE Held(d, r)'
  BY <1>1, Tables DEF IInv, Locks, Frame, Held
<1>2. ASSUME NEW k \in Keys, holder'[k] = d PROVE HeldKey(d, k)'
  BY <1>2, Tables DEF IInv, Locks, Frame, HeldKey
<1> QED  BY <1>1, <1>2

\* What has to be shown of the call that takes the step, and of the whole.
LEMMA StepKeeps ==
    ASSUME IInv, NEW c \in Calls, Frame(c), TypeOK', Formed(c)',
           \A r \in Reservations : holder'[r] = c => Held(c, r)',
           \A k \in Keys : holder'[k] = c => HeldKey(c, k)',
           Created', Noted', Cared'
    PROVE  IInv'
<1>1. \A d \in Calls : Formed(d)'
  BY OthersFormed
<1>2. \A d \in Calls, r \in Reservations : holder'[r] = d => Held(d, r)'
  BY OthersHeld
<1>3. \A d \in Calls, k \in Keys : holder'[k] = d => HeldKey(d, k)'
  BY OthersHeld
<1> QED  BY <1>1, <1>2, <1>3 DEF IInv, Locks

LEMMA CreatedKept ==
    ASSUME IInv, NEW c \in Calls, Frame(c), row' = row,
           \A r \in Reservations : Creates(c, r)' => Creates(c, r)
    PROVE  Created'
<1>1. \A d \in Calls, r \in Reservations : Creates(d, r)' => Creates(d, r)
  BY OthersCreate
<1>2. Created
  BY DEF IInv
<1> QED  BY <1>1, <1>2 DEF Created

LEMMA NotedKept ==
    ASSUME IInv, NEW c \in Calls, Frame(c), contended' = contended,
           \A k \in Keys : Releasing(c, k)' => Releasing(c, k)
    PROVE  Noted'
<1>1. \A d \in Calls, k \in Keys : Releasing(d, k)' => Releasing(d, k)
  BY OthersRelease
<1>2. Noted
  BY DEF IInv
<1> QED  BY <1>1, <1>2 DEF Noted

LEMMA CaredKept ==
    ASSUME IInv, NEW c \in Calls, Frame(c), row' = row, contended \subseteq contended',
           \A k \in Keys \ contended : row[k] = "RESERVED" =>
               \/ Deciding(c, k)'
               \/ \E r \in Reservations : KeyOf[r] = k /\ Kept(r)'
               \/ /\ ~Deciding(c, k)
                  /\ \A r \in Reservations : KeyOf[r] = k /\ Kept(r) => Kept(r)'
    PROVE  Cared'
<1> SUFFICES ASSUME NEW k \in Keys \ contended', row'[k] = "RESERVED"
             PROVE  \/ \E r \in Reservations : KeyOf[r] = k /\ Kept(r)'
                    \/ \E d \in Calls : Deciding(d, k)'
  BY DEF Cared
<1>1. k \in Keys \ contended /\ row[k] = "RESERVED"
  OBVIOUS
<1>2. \/ \E r \in Reservations : KeyOf[r] = k /\ Kept(r)
      \/ \E d \in Calls : Deciding(d, k)
  BY <1>1 DEF IInv, Cared
<1>3. CASE Deciding(c, k)' \/ \E r \in Reservations : KeyOf[r] = k /\ Kept(r)'
  BY <1>3
<1>4. CASE ~Deciding(c, k) /\ \A r \in Reservations : KeyOf[r] = k /\ Kept(r) => Kept(r)'
  <2>1. CASE \E r \in Reservations : KeyOf[r] = k /\ Kept(r)
    BY <1>4, <2>1
  <2>2. CASE \E d \in Calls : Deciding(d, k)
    <3> PICK d \in Calls : Deciding(d, k)
      BY <2>2
    <3>1. d # c
      BY <1>4
    <3> QED  BY <1>1, <3>1, OthersRelease
  <2> QED  BY <1>2, <2>1, <2>2
<1> QED  BY <1>1, <1>3, <1>4

-----------------------------------------------------------------------------
(* Going on                                                                *)

\* The job of c is the only one that changes.
Becomes(c, kind, at, k, todo) ==
    /\ call' \in [Calls -> JobType]
    /\ \A d \in Calls \ {c} : call'[d] = call[d]
    /\ call'[c].kind = kind /\ call'[c].at = at
    /\ call'[c].key = k /\ call'[c].todo = todo

LEMMA GoingTo ==
    ASSUME TypeOK, NEW c \in Calls, NEW at \in Steps, Goto(c, at)
    PROVE  Becomes(c, call[c].kind, at, call[c].key, call[c].todo)
BY Types DEF Goto, Becomes, JobType

LEMMA GoingToWith ==
    ASSUME TypeOK, NEW c \in Calls, NEW at \in Steps, NEW todo \in SUBSET Reservations,
           call' = [call EXCEPT ![c].todo = todo, ![c].at = at]
    PROVE  Becomes(c, call[c].kind, at, call[c].key, todo)
BY Types DEF Becomes, JobType

LEMMA GoingOn ==
    ASSUME TypeOK, NEW c \in Calls, Continue(c)
    PROVE  Becomes(c, call[c].kind, IF call[c].todo = {} THEN "commit" ELSE "update",
                   call[c].key, call[c].todo)
<1> DEFINE at == IF call[c].todo = {} THEN "commit" ELSE "update"
<1>1. at \in Steps /\ Goto(c, at)
  BY DEF Continue, Steps
<1> QED  BY <1>1, GoingTo

LEMMA Starting ==
    ASSUME TypeOK, NEW c \in Calls, NEW kind \in Kinds, NEW at \in Steps,
           NEW k \in Keys \cup {Nobody}, NEW todo \in SUBSET Reservations,
           call' = [call EXCEPT ![c] = Job(kind, at, k, todo)]
    PROVE  Becomes(c, kind, at, k, todo)
BY Types DEF Becomes, JobType, Job

LEMMA Stopping ==
    ASSUME TypeOK, NEW c \in Calls, call' = [call EXCEPT ![c] = Idle]
    PROVE  Becomes(c, "none", "idle", Nobody, {}) /\ call'[c] = Idle
BY Types DEF Becomes, JobType, Idle, Kinds, Steps

\* A statement that writes nothing.
LEMMA Reading ==
    ASSUME IInv, NEW c \in Calls, NEW kind, NEW at, NEW k, NEW todo,
           Becomes(c, kind, at, k, todo), UNCHANGED <<row, draft, holder>>,
           past' \subseteq Reservations, contended' \subseteq Keys
    PROVE  Frame(c) /\ TypeOK'
BY Types DEF IInv, Becomes, Frame, TypeOK, JobType

\* A statement that writes one row.
LEMMA Writing ==
    ASSUME IInv, NEW c \in Calls, NEW kind, NEW at, NEW k, NEW todo,
           Becomes(c, kind, at, k, todo), UNCHANGED <<row, past>>, contended' \subseteq Keys,
           NEW x \in Rows, NEW s, Write(c, x, s),
           (x \in Keys /\ s \in KeyStatus) \/ (x \in Reservations /\ s \in ReservationStatus)
    PROVE  /\ Frame(c) /\ TypeOK'
           /\ holder'[x] = c /\ draft'[x] = s
           /\ \A y \in Rows \ {x} : holder'[y] = holder[y] /\ draft'[y] = draft[y]
           /\ holder[x] \in {c, Nobody} /\ (holder[x] = Nobody => draft[x] = row[x])
<1>1. TypeOK
  BY DEF IInv
<1>2. draft' \in Versions
  BY <1>1, KeyVersion, ReservationVersion DEF Write, TypeOK
<1>3. /\ holder' \in [Rows -> Calls \cup {Nobody}]
      /\ holder'[x] = c /\ draft'[x] = s
      /\ \A y \in Rows \ {x} : holder'[y] = holder[y] /\ draft'[y] = draft[y]
      /\ holder[x] \in {c, Nobody} /\ (holder[x] = Nobody => draft[x] = row[x])
  BY <1>1, Types DEF Write, Free, TypeOK
<1>4. TypeOK'
  BY <1>1, <1>2, <1>3, TransactionsAssumption DEF TypeOK, Becomes, JobType
<1>5. Frame(c)
  BY <1>3, TransactionsAssumption DEF Frame, Becomes
<1> QED  BY <1>3, <1>4, <1>5

\* The facts of the invariant about one call.
LEMMA Known ==
    ASSUME IInv, NEW c \in Calls
    PROVE  /\ Formed(c) /\ call[c] \in JobType
           /\ \A r \in Reservations : holder[r] = c => Held(c, r)
           /\ \A k \in Keys : holder[k] = c => HeldKey(c, k)
           /\ \A r \in Reservations : Creates(c, r) => row[r] = "NONE"
           /\ c # Nobody
BY Types, TransactionsAssumption DEF IInv, Locks, Created

\* Who has not begun, or not yet written, has nothing locked.
LEMMA EmptyHanded ==
    ASSUME IInv, NEW c \in Calls,
           call[c].kind = "none" \/ call[c].at \in {"insert", "review", "lapsed", "use"}
    PROVE  \A x \in Rows : holder[x] # c
<1>1. \A r \in Reservations : holder[r] # c
  BY Known DEF Held, Formed
<1>2. \A k \in Keys : holder[k] # c
  BY <1>1, Known DEF HeldKey, Formed, Releasers
<1> QED  BY <1>1, <1>2 DEF Rows

LEMMA BeginKeeps ==
    ASSUME IInv, NEW c \in Calls, NEW kind \in Kinds, NEW at \in Steps,
           NEW k \in Keys \cup {Nobody}, NEW todo \in SUBSET Reservations,
           Begin(c, Job(kind, at, k, todo)), Formed(c)',
           kind = "create" => \A r \in todo : row[r] = "NONE" /\ ~BeingCreated(r)
    PROVE  IInv'
<1>1. /\ Becomes(c, kind, at, k, todo)
      /\ call[c] = Idle /\ UNCHANGED <<row, draft, holder, past, contended>>
  BY Starting DEF Begin, IInv
<1>2. Frame(c) /\ TypeOK'
  BY <1>1, Reading DEF IInv, TypeOK
<1>3. \A x \in Rows : holder[x] # c
  BY <1>1, EmptyHanded DEF Idle
<1>4. /\ \A r \in Reservations : holder'[r] = c => Held(c, r)'
      /\ \A l \in Keys : holder'[l] = c => HeldKey(c, l)'
  BY <1>1, <1>3, Tables
<1>5. Created'
  <2>1. \A r \in Reservations : Creates(c, r)' => kind = "create" /\ r \in todo
    BY <1>1, <1>3, Tables DEF Creates, Becomes
  <2>2. \A d \in Calls \ {c}, r \in Reservations : Creates(d, r)' <=> Creates(d, r)
    BY <1>2, OthersCreate
  <2>3. \A d \in Calls, r \in Reservations : Creates(d, r) => BeingCreated(r)
    BY DEF Creates, BeingCreated
  <2> QED  BY <1>1, <2>1, <2>2, <2>3 DEF IInv, Created
<1>6. \A l \in Keys : ~Releasing(c, l)' /\ ~Deciding(c, l)
  BY <1>1, <1>3, Tables DEF Releasing, Deciding
<1>7. Noted'
  BY <1>1, <1>2, <1>6, NotedKept
<1>8. Cared'
  <2>1. \A r \in Reservations : Kept(r)' <=> Kept(r)
    BY <1>1 DEF Kept
  <2> QED  BY <1>1, <1>2, <1>6, <2>1, CaredKept
<1> QED  BY <1>2, <1>4, <1>5, <1>7, <1>8, StepKeeps

LEMMA BeginStepKeeps ==
    ASSUME IInv, NEW c \in Calls, BeginStep(c)
    PROVE  IInv'
<1> USE DEF Kinds, Steps
<1>1. ASSUME NEW r \in Reservations, CreateReservation(c, r) PROVE IInv'
  <2>1. Becomes(c, "create", "insert", KeyOf[r], {r})
    BY <1>1, Tables, Starting DEF CreateReservation, Begin, IInv
  <2>2. Formed(c)'
    BY <2>1, Tables DEF Formed, Becomes
  <2> QED  BY <1>1, <2>2, Tables, BeginKeeps DEF CreateReservation
<1>2. ASSUME NEW r \in Reservations, CancelReservation(c, r) PROVE IInv'
  <2>1. /\ Becomes(c, "cancel", "update", KeyOf[r], {r})
        /\ row' = row /\ row[r] # "NONE"
    BY <1>2, Tables, Starting DEF CancelReservation, Begin, IInv, Claiming
  <2>2. Formed(c)'
    BY <2>1, Tables DEF Formed, Becomes
  <2> QED  BY <1>2, <2>2, Tables, BeginKeeps DEF CancelReservation
<1>3. ASSUME NEW r \in Reservations, ReviewReservation(c, r) PROVE IInv'
  <2> DEFINE at == IF r \in past THEN "lapsed" ELSE "review"
  <2>1. /\ Becomes(c, "review", at, KeyOf[r], {r})
        /\ row' = row /\ row[r] # "NONE" /\ at \in Steps
    <3>1. at \in Steps
      OBVIOUS
    <3> QED  BY <1>3, <3>1, Tables, Starting DEF ReviewReservation, Begin, IInv
  <2>2. Formed(c)'
    BY <2>1, Tables DEF Formed, Becomes
  <2>3. Begin(c, Job("review", at, KeyOf[r], {r}))
    BY <1>3 DEF ReviewReservation
  <2> HIDE DEF at
  <2> QED  BY <2>1, <2>2, <2>3, Tables, BeginKeeps
<1>4. ASSUME NEW r \in Reservations, CompletePickup(c, r) PROVE IInv'
  <2>1. /\ Becomes(c, "pickup", "use", KeyOf[r], {r})
        /\ row' = row /\ row[r] # "NONE"
    BY <1>4, Tables, Starting DEF CompletePickup, Begin, IInv
  <2>2. Formed(c)'
    BY <2>1, Tables DEF Formed, Becomes
  <2> QED  BY <1>4, <2>2, Tables, BeginKeeps DEF CompletePickup
<1>5. ASSUME ExpireReservations(c) PROVE IInv'
  <2> DEFINE lapsed == {r \in past : row[r] \in Claiming}
  <2>1. lapsed \in SUBSET Reservations
    BY DEF IInv, TypeOK
  <2>2. Begin(c, Job("expire", "lock", Nobody, lapsed))
    BY <1>5 DEF ExpireReservations
  <2>3. /\ Becomes(c, "expire", "lock", Nobody, lapsed)
        /\ row' = row /\ \A r \in lapsed : row[r] # "NONE"
    BY <2>1, <2>2, Starting DEF Begin, IInv, Claiming
  <2>4. Formed(c)'
    BY <2>3 DEF Formed, Becomes
  <2> QED  BY <2>1, <2>2, <2>4, BeginKeeps
<1>6. ASSUME NEW k \in Keys, CompleteReturn(c, k) PROVE IInv'
  <2>1. Becomes(c, "return", "set", k, {})
    BY <1>6, Starting DEF CompleteReturn, Begin, IInv
  <2>2. Formed(c)'
    BY <2>1 DEF Formed, Becomes
  <2> QED  BY <1>6, <2>2, BeginKeeps DEF CompleteReturn
<1> QED  BY <1>1, <1>2, <1>3, <1>4, <1>5, <1>6 DEF BeginStep

-----------------------------------------------------------------------------
(* Statements on reservations                                              *)

LEMMA InsertKeeps ==
    ASSUME IInv, NEW c \in Calls, Insert(c)
    PROVE  IInv'
<1> PICK r \in call[c].todo :
        /\ call[c].at = "insert"
        /\ Write(c, r, IF KeyOf[r] \in NeedsApproval THEN "PENDING" ELSE "ACTIVE")
        /\ call' = [call EXCEPT ![c].at = "key", ![c].todo = {}]
        /\ UNCHANGED <<row, past, contended>>
  BY DEF Insert
<1> DEFINE s == IF KeyOf[r] \in NeedsApproval THEN "PENDING" ELSE "ACTIVE"
           k == call[c].key
<1>1. /\ r \in Reservations /\ r \in Rows /\ r \notin Keys
      /\ k \in Keys /\ KeyOf[r] = k /\ call[c].kind = "create"
      /\ \A x \in Rows : holder[x] # c
  BY Known, EmptyHanded, Tables DEF Formed, JobType
<1>2. Creates(c, r) /\ row[r] = "NONE"
  BY <1>1, Known DEF Creates
<1>3. Becomes(c, "create", "key", k, {})
  BY <1>1, Types DEF IInv, Becomes, JobType, Steps
<1>4. s \in ReservationStatus /\ s \in Claiming
  BY DEF ReservationStatus, Claiming
<1>5. /\ Frame(c) /\ TypeOK'
      /\ holder'[r] = c /\ draft'[r] = s
      /\ \A y \in Rows \ {r} : holder'[y] = holder[y] /\ draft'[y] = draft[y]
  <2>1. contended' \subseteq Keys /\ Write(c, r, s)
    BY DEF IInv, TypeOK
  <2> HIDE DEF s, k
  <2> QED  BY <1>1, <1>3, <1>4, <2>1, Writing
<1>6. \A x \in Rows : holder'[x] = c <=> x = r
  BY <1>1, <1>5
<1> HIDE DEF s
<1>7. Formed(c)'
  BY <1>1, <1>3, <1>5 DEF Formed, Becomes
<1>8. /\ \A x \in Reservations : holder'[x] = c => Held(c, x)'
      /\ \A l \in Keys : holder'[l] = c => HeldKey(c, l)'
  BY <1>1, <1>2, <1>3, <1>4, <1>5, <1>6, Tables DEF Held, Becomes
<1>9. Created'
  <2>1. \A x \in Reservations : Creates(c, x)' => Creates(c, x)
    BY <1>2, <1>3, <1>6, Tables DEF Creates, Becomes
  <2> QED  BY <1>5, <2>1, CreatedKept
<1>10. Noted'
  <2>1. \A l \in Keys : ~Releasing(c, l)'
    BY <1>4, <1>5, <1>6, Tables DEF Releasing, Claiming, GivenUp
  <2> QED  BY <1>5, <2>1, NotedKept
<1>11. Cared'
  <2>1. \A l \in Keys : ~Deciding(c, l)
    BY <1>1, Tables DEF Deciding
  <2>2. \A x \in Reservations : Kept(x) => Kept(x)'
    BY <1>2, <1>5, Tables DEF Kept, Claiming
  <2> QED  BY <1>5, <2>1, <2>2, CaredKept
<1> QED  BY <1>5, <1>7, <1>8, <1>9, <1>10, <1>11, StepKeeps

LEMMA LockLapsedKeeps ==
    ASSUME IInv, NEW c \in Calls, LockLapsed(c)
    PROVE  IInv'
<1> DEFINE rest(r) == call[c].todo \ {r}
           mine == {x \in Reservations : holder'[x] = c}
           todo(r) == IF rest(r) # {} THEN rest(r) ELSE mine
           at(r) == IF rest(r) # {} THEN "lock" ELSE IF mine # {} THEN "update" ELSE "commit"
<1> PICK r \in call[c].todo :
        /\ call[c].at = "lock"
        /\ Free(c, r)
        /\ holder' = IF row[r] \in Claiming THEN [holder EXCEPT ![r] = c] ELSE holder
        /\ call' = [call EXCEPT ![c].todo = todo(r), ![c].at = at(r)]
        /\ UNCHANGED <<row, draft, past, contended>>
  BY DEF LockLapsed
<1>1. /\ r \in Reservations /\ r \in Rows /\ r \notin Keys
      /\ call[c].kind = "expire" /\ call[c].todo \subseteq Reservations
      /\ \A x \in call[c].todo : row[x] # "NONE"
  BY Known, Tables DEF Formed, JobType
<1>2. at(r) \in Steps /\ todo(r) \in SUBSET Reservations
  BY <1>1 DEF Steps
<1>3. Becomes(c, "expire", at(r), call[c].key, todo(r))
  <2> HIDE DEF at, todo
  <2> QED  BY <1>1, <1>2, GoingToWith DEF IInv
<1>4. /\ Frame(c) /\ TypeOK'
      /\ \A y \in Rows \ {r} : holder'[y] = holder[y]
      /\ holder'[r] = c \/ holder'[r] = holder[r]
      /\ holder'[r] = c /\ holder[r] # c => row[r] \in Claiming /\ draft[r] = row[r]
  <2> HIDE DEF at, todo
  <2>1. CASE row[r] \in Claiming
    <3>1. Write(c, r, draft[r])
      BY <1>1, <2>1, Types DEF IInv, Write
    <3>2. draft[r] \in ReservationStatus /\ contended' \subseteq Keys
      BY <1>1, Types DEF IInv, TypeOK
    <3> DEFINE s == draft[r]
    <3>3. s \in ReservationStatus /\ Write(c, r, s)
      BY <3>1, <3>2
    <3> HIDE DEF s
    <3>4. /\ Frame(c) /\ TypeOK' /\ holder'[r] = c
          /\ \A y \in Rows \ {r} : holder'[y] = holder[y] /\ draft'[y] = draft[y]
          /\ holder[r] \in {c, Nobody} /\ (holder[r] = Nobody => draft[r] = row[r])
      BY <1>1, <1>3, <3>2, <3>3, Writing
    <3> QED  BY <2>1, <3>4
  <2>2. CASE row[r] \notin Claiming
    <3>1. holder' = holder
      BY <2>2
    <3>2. Frame(c) /\ TypeOK'
      BY <1>3, <3>1, Reading DEF IInv, TypeOK
    <3> QED  BY <3>1, <3>2
  <2> QED  BY <2>1, <2>2
<1>5. Formed(c)'
  <2>1. \A x \in todo(r) : row[x] # "NONE"
    <3>1. \A x \in mine : row[x] # "NONE"
      BY <1>1, <1>4, Known, Tables DEF Held, Claiming
    <3> QED  BY <1>1, <3>1
  <2>2. at(r) # "lock" => \A x \in todo(r) : holder'[x] = c
    OBVIOUS
  <2>3. at(r) \in {"lock", "update", "commit"}
    OBVIOUS
  <2> HIDE DEF at, todo
  <2> QED  BY <1>3, <2>1, <2>2, <2>3 DEF Formed, Becomes
<1> HIDE DEF at, todo
<1>6. /\ \A x \in Reservations : holder'[x] = c => Held(c, x)'
      /\ \A l \in Keys : holder'[l] = c => HeldKey(c, l)'
  <2>1. ASSUME NEW x \in Reservations, holder'[x] = c PROVE Held(c, x)'
    BY <1>1, <1>3, <1>4, <2>1, Known, Tables DEF Held, Becomes
  <2>2. ASSUME NEW l \in Keys, holder'[l] = c PROVE HeldKey(c, l)'
    BY <1>1, <1>3, <1>4, <2>2, Known, Tables DEF HeldKey, Becomes
  <2> QED  BY <2>1, <2>2
<1>7. Created'
  <2>1. \A x \in Reservations : ~Creates(c, x)'
    BY <1>3 DEF Creates, Becomes
  <2> QED  BY <1>4, <2>1, CreatedKept
<1>8. Noted'
  <2>1. \A l \in Keys : Releasing(c, l)' => Releasing(c, l)
    BY <1>4, Tables DEF Releasing, Claiming, GivenUp
  <2> QED  BY <1>4, <2>1, NotedKept
<1>9. Cared'
  <2>1. \A l \in Keys : ~Deciding(c, l)
    BY <1>1, Known, Tables DEF Deciding, HeldKey
  <2>2. \A x \in Reservations : Kept(x) => Kept(x)'
    BY <1>4, Tables DEF Kept, Claiming, GivenUp
  <2> QED  BY <1>4, <2>1, <2>2, CaredKept
<1> QED  BY <1>4, <1>5, <1>6, <1>7, <1>8, <1>9, StepKeeps

LEMMA UpdateKeeps ==
    ASSUME IInv, NEW c \in Calls, Update(c)
    PROVE  IInv'
<1> DEFINE s == IF call[c].kind = "cancel" THEN "CANCELLED" ELSE "EXPIRED"
           kind == call[c].kind
<1> PICK r \in call[c].todo :
        /\ call[c].at = "update"
        /\ Write(c, r, s)
        /\ call' = [call EXCEPT ![c] = Job(@.kind, "count", KeyOf[r], @.todo \ {r})]
        /\ NoteContention
        /\ UNCHANGED <<row, past>>
  BY DEF Update
<1> DEFINE rest == call[c].todo \ {r}
<1>1. /\ r \in Reservations /\ r \in Rows /\ r \notin Keys /\ KeyOf[r] \in Keys
      /\ kind \in {"cancel", "expire"} /\ kind \in Kinds
      /\ call[c].todo \subseteq Reservations
      /\ \A x \in call[c].todo : row[x] # "NONE"
      /\ kind = "expire" => \A x \in call[c].todo : holder[x] = c
  BY Known, Tables DEF Formed, JobType, Kinds
<1>2. kind = "expire" => row[r] \in Claiming
  BY <1>1, Known DEF Held
<1>3. Becomes(c, kind, "count", KeyOf[r], rest)
  <2>1. call' = [call EXCEPT ![c] = Job(kind, "count", KeyOf[r], rest)]
    OBVIOUS
  <2>2. rest \in SUBSET Reservations /\ "count" \in Steps
    BY <1>1 DEF Steps
  <2> HIDE DEF rest, kind
  <2> QED  BY <1>1, <2>1, <2>2, Starting DEF IInv
<1>4. s \in ReservationStatus /\ s \in GivenUp /\ s \notin Claiming
  BY DEF ReservationStatus, Final, GivenUp, Claiming
<1>5. contended \subseteq contended' /\ contended' \subseteq Keys
  BY DEF NoteContention, IInv, TypeOK
<1>6. /\ Frame(c) /\ TypeOK'
      /\ holder'[r] = c /\ draft'[r] = s
      /\ \A y \in Rows \ {r} : holder'[y] = holder[y] /\ draft'[y] = draft[y]
  <2>1. Write(c, r, s) /\ UNCHANGED <<row, past>>
    OBVIOUS
  <2> HIDE DEF s, kind, rest
  <2> QED  BY <1>1, <1>3, <1>4, <1>5, <2>1, Writing
<1>7. s = IF kind = "cancel" THEN "CANCELLED" ELSE "EXPIRED"
  OBVIOUS
<1>8. \A x \in rest : x \in Reservations /\ row[x] # "NONE" /\ (kind = "expire" => holder'[x] = c)
  BY <1>1, <1>6, Tables
<1>9. kind = call[c].kind /\ row' = row
  OBVIOUS
<1> HIDE DEF s, kind, rest
<1>10. Releasing(c, KeyOf[r])'
  BY <1>1, <1>4, <1>6 DEF Releasing
<1>11. Formed(c)'
  BY <1>1, <1>3, <1>8, <1>9, <1>10 DEF Formed, Becomes, Releasing, Releasers
<1>12. /\ \A x \in Reservations : holder'[x] = c => Held(c, x)'
       /\ \A l \in Keys : holder'[l] = c => HeldKey(c, l)'
  <2>1. Held(c, r)'
    BY <1>1, <1>2, <1>3, <1>6, <1>7, <1>9 DEF Held, Becomes
  <2>2. ASSUME NEW x \in Reservations, x # r, holder'[x] = c PROVE Held(c, x)'
    BY <1>1, <1>3, <1>6, <1>9, <2>2, Known, Tables DEF Held, Becomes
  <2>3. ASSUME NEW l \in Keys, holder'[l] = c PROVE HeldKey(c, l)'
    BY <1>1, <1>3, <1>6, <1>9, <2>3, Known, Tables DEF HeldKey, Becomes, Releasers
  <2> QED  BY <2>1, <2>2, <2>3
<1>13. Created'
  <2>1. \A x \in Reservations : ~Creates(c, x)'
    BY <1>1, <1>3 DEF Creates, Becomes
  <2> QED  BY <1>6, <1>9, <2>1, CreatedKept
<1>14. Noted'
  BY DEF NoteContention, Noted
<1>15. Cared'
  <2>1. \A x \in Reservations \ {r} : Kept(x) => Kept(x)'
    BY <1>6, <1>9, Tables DEF Kept
  <2>2. row[r] \in Claiming => Deciding(c, KeyOf[r])'
    BY <1>1, <1>3, <1>4, <1>6, <1>9 DEF Deciding, Becomes
  <2>3. ASSUME NEW l \in Keys, Deciding(c, l) PROVE Deciding(c, l)'
    <3>1. holder[l] = c
      BY <2>3 DEF Deciding
    <3>2. holder'[l] = c
      BY <1>1, <1>6, <3>1, Tables
    <3>3. PICK x \in Reservations : /\ KeyOf[x] = l /\ holder[x] = c
                                    /\ row[x] \in Claiming /\ draft[x] \in GivenUp
      BY <2>3 DEF Deciding
    <3>4. holder'[x] = c /\ draft'[x] \in GivenUp
      BY <1>4, <1>6, <3>3, Tables
    <3> QED  BY <1>9, <3>2, <3>3, <3>4 DEF Deciding
  <2>4. \A l \in Keys : \/ Deciding(c, l)'
                        \/ /\ ~Deciding(c, l)
                           /\ \A x \in Reservations : KeyOf[x] = l /\ Kept(x) => Kept(x)'
    BY <2>1, <2>2, <2>3 DEF Kept
  <2> QED  BY <1>5, <1>6, <1>9, <2>4, CaredKept
<1> QED  BY <1>6, <1>11, <1>12, <1>13, <1>14, <1>15, StepKeeps

\* A call that has nothing locked gives up before it writes.
LEMMA StopsKeeps ==
    ASSUME IInv, NEW c \in Calls, \A x \in Rows : holder[x] # c,
           call' = [call EXCEPT ![c] = Idle],
           UNCHANGED <<row, draft, holder, past, contended>>
    PROVE  IInv'
<1>1. Becomes(c, "none", "idle", Nobody, {}) /\ call'[c] = Idle
  BY Stopping DEF IInv
<1>2. Frame(c) /\ TypeOK'
  BY <1>1, Reading DEF IInv, TypeOK
<1>3. Formed(c)'
  BY <1>1 DEF Formed, Idle
<1>4. /\ \A x \in Reservations : holder'[x] = c => Held(c, x)'
      /\ \A l \in Keys : holder'[l] = c => HeldKey(c, l)'
  BY Tables
<1>5. Created'
  <2>1. \A x \in Reservations : ~Creates(c, x)'
    BY <1>1 DEF Creates, Becomes
  <2> QED  BY <1>2, <2>1, CreatedKept
<1>6. \A l \in Keys : ~Releasing(c, l)' /\ ~Deciding(c, l)
  BY Tables DEF Releasing, Deciding
<1>7. Noted'
  BY <1>2, <1>6, NotedKept
<1>8. Cared'
  <2>1. \A x \in Reservations : Kept(x) => Kept(x)'
    BY DEF Kept
  <2> QED  BY <1>2, <1>6, <2>1, CaredKept
<1> QED  BY <1>2, <1>3, <1>4, <1>5, <1>7, <1>8, StepKeeps

LEMMA ReviewKeeps ==
    ASSUME IInv, NEW c \in Calls, Review(c)
    PROVE  IInv'
<1> PICK r \in call[c].todo :
        /\ call[c].at \in {"review", "lapsed"}
        /\ \/ /\ Free(c, r)
              /\ row[r] # "PENDING"
              /\ call' = [call EXCEPT ![c] = Idle]
              /\ UNCHANGED <<draft, holder, contended>>
           \/ \E verdict \in IF call[c].at = "lapsed" THEN {"EXPIRED"} ELSE {"APPROVED", "REJECTED"} :
                  /\ row[r] = "PENDING"
                  /\ Write(c, r, verdict)
                  /\ call' = [call EXCEPT ![c].todo = {},
                                 ![c].at = IF verdict = "APPROVED" THEN "commit" ELSE "count"]
                  /\ NoteContention
        /\ UNCHANGED <<row, past>>
  BY DEF Review
<1> DEFINE k == call[c].key
<1>1. /\ r \in Reservations /\ r \in Rows /\ r \notin Keys
      /\ k \in Keys /\ KeyOf[r] = k /\ call[c].kind = "review"
      /\ \A x \in Rows : holder[x] # c
  BY Known, EmptyHanded, Tables DEF Formed, JobType
<1>2. CASE call' = [call EXCEPT ![c] = Idle] /\ UNCHANGED <<draft, holder, contended>>
  BY <1>1, <1>2, StopsKeeps
<1>3. ASSUME NEW verdict \in {"EXPIRED", "APPROVED", "REJECTED"},
             row[r] = "PENDING", Write(c, r, verdict),
             call' = [call EXCEPT ![c].todo = {},
                         ![c].at = IF verdict = "APPROVED" THEN "commit" ELSE "count"],
             NoteContention
      PROVE  IInv'
  <2> DEFINE at == IF verdict = "APPROVED" THEN "commit" ELSE "count"
  <2>1. at \in Steps
    BY DEF Steps
  <2>2. Becomes(c, "review", at, k, {})
    <3>1. TypeOK /\ call' = [call EXCEPT ![c].todo = {}, ![c].at = at]
      BY <1>3 DEF IInv
    <3> HIDE DEF at
    <3>2. Becomes(c, call[c].kind, at, call[c].key, {})
      BY <2>1, <3>1, GoingToWith
    <3> QED  BY <1>1, <3>2
  <2>3. verdict \in ReservationStatus
    BY DEF ReservationStatus, Claiming, Final, GivenUp
  <2>4. contended \subseteq contended' /\ contended' \subseteq Keys
    BY <1>3 DEF NoteContention, IInv, TypeOK
  <2>5. /\ Frame(c) /\ TypeOK'
        /\ holder'[r] = c /\ draft'[r] = verdict
        /\ \A y \in Rows \ {r} : holder'[y] = holder[y] /\ draft'[y] = draft[y]
    <3> HIDE DEF at, k
    <3> QED  BY <1>1, <1>3, <2>2, <2>3, <2>4, Writing
  <2>6. \A x \in Rows : holder'[x] = c <=> x = r
    BY <1>1, <2>5
  <2>7. verdict # "APPROVED" => Releasing(c, KeyOf[r])'
    BY <1>1, <1>3, <2>5 DEF Releasing, GivenUp
  <2>8. Formed(c)'
    BY <1>1, <2>2, <2>7 DEF Formed, Becomes, Releasing, Releasers
  <2>9. /\ \A x \in Reservations : holder'[x] = c => Held(c, x)'
        /\ \A l \in Keys : holder'[l] = c => HeldKey(c, l)'
    <3>1. call'[c].kind = "review" /\ call'[c].at \notin {"review", "lapsed"}
      BY <2>2 DEF Becomes
    <3>2. row'[r] = "PENDING" /\ draft'[r] \in {"APPROVED", "REJECTED", "EXPIRED"}
      BY <1>3, <2>5
    <3>3. Held(c, r)'
      BY <3>1, <3>2 DEF Held
    <3> QED  BY <1>1, <2>6, <3>3, Tables
  <2>10. Created'
    <3>1. \A x \in Reservations : ~Creates(c, x)'
      BY <2>2 DEF Creates, Becomes
    <3> QED  BY <2>5, <3>1, CreatedKept
  <2>11. Noted'
    BY <1>3 DEF NoteContention, Noted
  <2>12. Cared'
    <3>1. \A l \in Keys : ~Deciding(c, l)
      BY <1>1, Tables DEF Deciding
    <3>2. \A x \in Reservations \ {r} : Kept(x) => Kept(x)'
      BY <2>5, Tables DEF Kept
    <3>3. CASE verdict = "APPROVED"
      <4>1. Kept(r) => Kept(r)'
        BY <1>1, <2>5, <3>3 DEF Kept, GivenUp
      <4> QED  BY <2>4, <2>5, <3>1, <3>2, <4>1, CaredKept
    <3>4. CASE verdict # "APPROVED"
      <4>1. Deciding(c, KeyOf[r])'
        BY <1>1, <1>3, <2>2, <2>5, <3>4 DEF Deciding, Becomes, Claiming, GivenUp
      <4>2. \A l \in Keys : \/ Deciding(c, l)'
                           \/ \A x \in Reservations : KeyOf[x] = l /\ Kept(x) => Kept(x)'
        BY <3>2, <4>1
      <4> QED  BY <1>3, <2>4, <2>5, <3>1, <4>2, CaredKept
    <3> QED  BY <3>3, <3>4
  <2> QED  BY <2>5, <2>8, <2>9, <2>10, <2>11, <2>12, StepKeeps
<1> QED  BY <1>2, <1>3

LEMMA UseKeeps ==
    ASSUME IInv, NEW c \in Calls, Use(c)
    PROVE  IInv'
<1> PICK r \in call[c].todo :
        /\ call[c].at = "use"
        /\ IF row[r] \in Claiming
           THEN /\ Write(c, r, "USED")
                /\ call' = [call EXCEPT ![c].at = "set", ![c].todo = {}]
           ELSE /\ call' = [call EXCEPT ![c] = Idle]
                /\ UNCHANGED <<draft, holder>>
        /\ UNCHANGED <<row, past, contended>>
  BY DEF Use
<1> DEFINE k == call[c].key
<1>1. /\ r \in Reservations /\ r \in Rows /\ r \notin Keys
      /\ k \in Keys /\ KeyOf[r] = k /\ call[c].kind = "pickup"
      /\ \A x \in Rows : holder[x] # c
  BY Known, EmptyHanded, Tables DEF Formed, JobType
<1>2. CASE row[r] \notin Claiming
  BY <1>1, <1>2, StopsKeeps
<1>3. CASE row[r] \in Claiming
  <2>1. Becomes(c, "pickup", "set", k, {})
    BY <1>1, <1>3, Types DEF IInv, Becomes, JobType, Steps
  <2>2. "USED" \in ReservationStatus /\ contended' \subseteq Keys
    BY DEF ReservationStatus, Final, IInv, TypeOK
  <2>3. /\ Frame(c) /\ TypeOK'
        /\ holder'[r] = c /\ draft'[r] = "USED"
        /\ \A y \in Rows \ {r} : holder'[y] = holder[y] /\ draft'[y] = draft[y]
    <3> HIDE DEF k
    <3> QED  BY <1>1, <1>3, <2>1, <2>2, Writing
  <2>4. \A x \in Rows : holder'[x] = c <=> x = r
    BY <1>1, <2>3
  <2>5. Formed(c)'
    BY <1>1, <2>1 DEF Formed, Becomes
  <2>6. /\ \A x \in Reservations : holder'[x] = c => Held(c, x)'
        /\ \A l \in Keys : holder'[l] = c => HeldKey(c, l)'
    BY <1>1, <1>3, <2>1, <2>3, <2>4, Tables DEF Held, Becomes
  <2>7. Created'
    <3>1. \A x \in Reservations : ~Creates(c, x)'
      BY <2>1 DEF Creates, Becomes
    <3> QED  BY <2>3, <3>1, CreatedKept
  <2>8. Noted'
    <3>1. \A l \in Keys : ~Releasing(c, l)'
      BY <2>3, <2>4, Tables DEF Releasing, GivenUp
    <3> QED  BY <2>3, <3>1, NotedKept
  <2>9. Cared'
    <3>1. \A l \in Keys : ~Deciding(c, l)
      BY <1>1, Tables DEF Deciding
    <3>2. \A x \in Reservations : Kept(x) => Kept(x)'
      BY <2>3, Tables DEF Kept, GivenUp
    <3> QED  BY <2>3, <3>1, <3>2, CaredKept
  <2> QED  BY <2>3, <2>5, <2>6, <2>7, <2>8, <2>9, StepKeeps
<1> QED  BY <1>2, <1>3

-----------------------------------------------------------------------------
(* Statements on the key                                                   *)

\* A statement after which c is somewhere else and nothing is written.
LEMMA MovesKeeps ==
    ASSUME IInv, NEW c \in Calls, NEW at \in {"update", "key", "await", "commit"},
           Becomes(c, call[c].kind, at, call[c].key, call[c].todo),
           UNCHANGED <<row, draft, holder, past, contended>>,
           call[c].at \notin {"idle", "insert", "lock", "review", "lapsed", "use", "set", "commit"},
           Formed(c)',
           \A k \in Keys \ contended : row[k] = "RESERVED" /\ Deciding(c, k) =>
               \/ Deciding(c, k)'
               \/ \E r \in Reservations : KeyOf[r] = k /\ Kept(r)
    PROVE  IInv'
<1>1. Frame(c) /\ TypeOK'
  BY Reading DEF IInv, TypeOK
<1>2. /\ \A x \in Reservations : holder'[x] = c => Held(c, x)'
      /\ \A l \in Keys : holder'[l] = c => HeldKey(c, l)'
  <2>1. ASSUME NEW x \in Reservations, holder'[x] = c PROVE Held(c, x)'
    BY <2>1, Known DEF Held, Becomes
  <2>2. ASSUME NEW l \in Keys, holder'[l] = c PROVE HeldKey(c, l)'
    BY <2>2, Known DEF HeldKey, Becomes
  <2> QED  BY <2>1, <2>2
<1>3. Created'
  <2>1. \A x \in Reservations : Creates(c, x)' => Creates(c, x)
    BY DEF Creates, Becomes
  <2> QED  BY <1>1, <2>1, CreatedKept
<1>4. Noted'
  <2>1. \A l \in Keys : Releasing(c, l)' => Releasing(c, l)
    BY DEF Releasing
  <2> QED  BY <1>1, <2>1, NotedKept
<1>5. Cared'
  <2>1. \A x \in Reservations : Kept(x)' <=> Kept(x)
    BY DEF Kept
  <2> QED  BY <1>1, <2>1, CaredKept
<1> QED  BY <1>1, <1>2, <1>3, <1>4, <1>5, StepKeeps

LEMMA CountKeeps ==
    ASSUME IInv, NEW c \in Calls, Count(c)
    PROVE  IInv'
<1> DEFINE k == call[c].key
           claimed == \E r \in Reservations : KeyOf[r] = k /\ Visible(c, r) \in Claiming
<1>1. /\ call[c].at = "count" /\ UNCHANGED <<row, draft, holder, past, contended>>
      /\ IF claimed THEN Continue(c) ELSE Goto(c, "key")
  BY DEF Count
<1>2. /\ Formed(c) /\ k \in Keys /\ call[c].kind \in Releasers /\ Releasing(c, k)
  BY <1>1, Known DEF Formed
<1>3. CASE claimed
  <2> DEFINE at == IF call[c].todo = {} THEN "commit" ELSE "update"
  <2>1. Becomes(c, call[c].kind, at, k, call[c].todo)
    BY <1>1, <1>3, GoingOn DEF IInv
  <2>2. Formed(c)'
    BY <1>1, <1>2, <2>1 DEF Formed, Becomes, Releasers
  <2>3. PICK s \in Reservations : KeyOf[s] = k /\ Visible(c, s) \in Claiming
    BY <1>3
  <2>4. k \notin contended => Kept(s)
    <3>1. CASE holder[s] = c
      <4>1. Held(c, s) /\ draft[s] \in Claiming
        BY <2>3, <3>1, Known DEF Visible
      <4> QED  BY <1>2, <3>1, <4>1 DEF Held, Kept, Claiming, GivenUp, Releasers
    <3>2. CASE holder[s] # c
      <4>1. row[s] \in Claiming
        BY <2>3, <3>2 DEF Visible
      <4>2. SUFFICES ASSUME k \notin contended, holder[s] \in Calls, draft[s] \in GivenUp
                     PROVE  FALSE
        BY <4>1 DEF Kept
      <4> DEFINE d == holder[s]
      <4>3. Releasing(d, k)
        BY <2>3, <4>2 DEF Releasing
      <4> HIDE DEF d
      <4>4. d \in Calls
        BY <4>2 DEF d
      <4>5. c = d
        BY <1>2, <4>2, <4>3, <4>4 DEF IInv, Noted
      <4> QED  BY <3>2, <4>5 DEF d
    <3> QED  BY <3>1, <3>2
  <2>5. ASSUME NEW l \in Keys \ contended, Deciding(c, l)
        PROVE  \/ Deciding(c, l)'
               \/ \E r \in Reservations : KeyOf[r] = l /\ Kept(r)
    <3>1. CASE holder[l] = c
      BY <1>1, <2>5, <3>1 DEF Deciding
    <3>2. CASE holder[l] # c
      BY <2>3, <2>4, <2>5, <3>2 DEF Deciding
    <3> QED  BY <3>1, <3>2
  <2> HIDE DEF k, claimed
  <2> QED  BY <1>1, <2>1, <2>2, <2>5, MovesKeeps DEF k
<1>4. CASE ~claimed
  <2>1. Becomes(c, call[c].kind, "key", k, call[c].todo)
    BY <1>1, <1>4, GoingTo DEF IInv, Steps
  <2>2. Formed(c)'
    BY <1>1, <1>2, <2>1 DEF Formed, Becomes, Releasers
  <2>3. \A l \in Keys : Deciding(c, l) => Deciding(c, l)'
    BY <1>1, <2>1 DEF Deciding, Becomes
  <2> HIDE DEF k, claimed
  <2> QED  BY <1>1, <2>1, <2>2, <2>3, MovesKeeps DEF k
<1> QED  BY <1>3, <1>4

\* Who makes a reservation gives none up.
LEMMA CreatorsKeep ==
    ASSUME IInv, NEW c \in Calls, call[c].kind \in {"create", "pickup", "return"}, NEW k \in Keys
    PROVE  ~Deciding(c, k) /\ ~Releasing(c, k)
BY Known DEF Held, Deciding, Releasing, Claiming, GivenUp

LEMMA FindKeyKeeps ==
    ASSUME IInv, NEW c \in Calls, FindKey(c)
    PROVE  IInv'
<1> DEFINE k == call[c].key
<1>1. /\ call[c].at = "key" /\ UNCHANGED <<row, draft, holder, past, contended>>
      /\ IF Visible(c, k) = From(c) THEN Goto(c, "await") ELSE Continue(c)
  BY DEF FindKey
<1>2. Formed(c) /\ k \in Keys /\ call[c].kind \in Releasers \cup {"create"}
  BY <1>1, Known DEF Formed
<1>3. CASE Visible(c, k) = From(c)
  <2>1. Becomes(c, call[c].kind, "await", k, call[c].todo)
    BY <1>1, <1>3, GoingTo DEF IInv, Steps
  <2>2. Formed(c)'
    BY <1>1, <1>2, <2>1 DEF Formed, Becomes, Releasers
  <2>3. \A l \in Keys : Deciding(c, l) => Deciding(c, l)'
    BY <1>1, <2>1 DEF Deciding, Becomes
  <2> QED  BY <1>1, <2>1, <2>2, <2>3, MovesKeeps
<1>4. CASE Visible(c, k) # From(c)
  <2> DEFINE at == IF call[c].todo = {} THEN "commit" ELSE "update"
  <2>1. Becomes(c, call[c].kind, at, k, call[c].todo)
    BY <1>1, <1>4, GoingOn DEF IInv
  <2>2. Formed(c)'
    BY <1>1, <1>2, <2>1 DEF Formed, Becomes, Releasers
  <2>3. ASSUME NEW l \in Keys, row[l] = "RESERVED", Deciding(c, l)
        PROVE  Deciding(c, l)'
    <3>1. call[c].kind # "create"
      BY <2>3, CreatorsKeep
    <3>2. holder[l] = c
      BY <1>1, <1>4, <2>3, <3>1 DEF Deciding, Visible, From
    <3> QED  BY <1>1, <2>3, <3>2 DEF Deciding
  <2> QED  BY <1>1, <2>1, <2>2, <2>3, MovesKeeps
<1> QED  BY <1>3, <1>4

\* The key is written, and what c does about its reservations stays.
LEMMA KeyWrittenKeeps ==
    ASSUME IInv, NEW c \in Calls, NEW k \in Keys, NEW s \in KeyStatus,
           NEW at \in {"update", "commit"},
           Becomes(c, call[c].kind, at, k, call[c].todo), Write(c, k, s),
           UNCHANGED <<row, past, contended>>,
           call[c].key = k, call[c].at \in {"await", "set"},
           Formed(c)', HeldKey(c, k)'
    PROVE  IInv'
<1>1. /\ k \in Rows /\ k \notin Reservations
      /\ contended' \subseteq Keys
  BY Tables DEF IInv, TypeOK
<1>2. /\ Frame(c) /\ TypeOK'
      /\ holder'[k] = c /\ draft'[k] = s
      /\ \A y \in Rows \ {k} : holder'[y] = holder[y] /\ draft'[y] = draft[y]
  BY <1>1, Writing
<1>3. \A x \in Reservations : holder'[x] = holder[x] /\ draft'[x] = draft[x]
  BY <1>1, <1>2, Tables
<1>4. \A l \in Keys : holder[l] = c => holder'[l] = c
  BY <1>2, Tables
<1>5. /\ \A x \in Reservations : holder'[x] = c => Held(c, x)'
      /\ \A l \in Keys : holder'[l] = c => HeldKey(c, l)'
  <2>1. ASSUME NEW x \in Reservations, holder'[x] = c PROVE Held(c, x)'
    <3>1. Held(c, x)
      BY <1>3, <2>1, Known
    <3>2. /\ call'[c].kind = call[c].kind /\ call'[c].key = call[c].key
          /\ call'[c].at \in {"update", "commit"}
          /\ call[c].kind = "pickup" => call'[c].at = "commit"
      BY DEF Becomes, Formed
    <3> QED  BY <1>3, <3>1, <3>2 DEF Held
  <2>2. ASSUME NEW l \in Keys, l # k, holder'[l] = c PROVE HeldKey(c, l)'
    <3>1. holder[l] = c /\ draft'[l] = draft[l]
      BY <1>2, <2>2, Tables
    <3>2. HeldKey(c, l)
      BY <3>1, Known
    <3> QED  BY <1>3, <2>2, <3>1, <3>2 DEF HeldKey, Becomes
  <2> QED  BY <2>1, <2>2
<1>6. Created'
  <2>1. \A x \in Reservations : Creates(c, x)' => Creates(c, x)
    BY <1>3 DEF Creates, Becomes
  <2> QED  BY <1>2, <2>1, CreatedKept
<1>7. Noted'
  <2>1. \A l \in Keys : Releasing(c, l)' => Releasing(c, l)
    BY <1>3 DEF Releasing
  <2> QED  BY <1>2, <2>1, NotedKept
<1>8. Cared'
  <2>1. \A x \in Reservations : Kept(x) => Kept(x)'
    BY <1>3 DEF Kept
  <2>2. \A l \in Keys : Deciding(c, l) => Deciding(c, l)'
    BY <1>2, <1>3, <1>4 DEF Deciding
  <2> QED  BY <1>2, <2>1, <2>2, CaredKept
<1> QED  BY <1>2, <1>5, <1>6, <1>7, <1>8, StepKeeps

LEMMA WriteKeyKeeps ==
    ASSUME IInv, NEW c \in Calls, WriteKey(c)
    PROVE  IInv'
<1> DEFINE at == IF call[c].todo = {} THEN "commit" ELSE "update"
<1> PICK k \in Keys : k = call[c].key
  BY Known DEF WriteKey, Formed
<1>1. /\ call[c].at = "await" /\ Free(c, k)
      /\ IF draft[k] = From(c) THEN Write(c, k, To(c)) ELSE UNCHANGED <<draft, holder>>
      /\ Continue(c)
      /\ UNCHANGED <<row, past, contended>>
  BY DEF WriteKey
<1>2. /\ Formed(c) /\ k \in Keys /\ k \in Rows /\ call[c].kind \in Releasers \cup {"create"}
      /\ holder[k] \in {c, Nobody} /\ (holder[k] = Nobody => draft[k] = row[k])
  BY <1>1, Known, Tables DEF Formed, Free, IInv, TypeOK
<1>3. Becomes(c, call[c].kind, at, k, call[c].todo)
  BY <1>1, GoingOn DEF IInv
<1>4. CASE draft[k] = From(c)
  <2>1. holder[k] = Nobody /\ row[k] = From(c)
    <3>1. holder[k] = c => HeldKey(c, k)
      BY <1>2, Known
    <3> QED  BY <1>2, <1>4, <3>1 DEF HeldKey, From, Releasers
  <2>2. /\ Write(c, k, To(c)) /\ To(c) \in KeyStatus
        /\ holder'[k] = c /\ draft'[k] = To(c)
        /\ \A x \in Rows \ {k} : holder'[x] = holder[x]
    BY <1>1, <1>2, <1>4, Types DEF Write, To, KeyStatus, IInv
  <2>3. /\ row' = row
        /\ \A x \in Reservations : holder'[x] = holder[x]
    BY <1>1, <1>2, <2>2, Tables
  <2>4. Formed(c)'
    BY <1>1, <1>2, <1>3, <2>3, Known DEF Formed, Becomes, Releasers, JobType
  <2>5. call'[c].kind = call[c].kind /\ call'[c].key = k /\ call'[c].at \notin {"lock", "review", "lapsed"}
    BY <1>3 DEF Becomes
  <2>6. row'[k] = From(c) /\ draft'[k] = To(c)
    BY <2>1, <2>2, <2>3
  <2> HIDE DEF at
  <2>7. HeldKey(c, k)'
    <3>1. CASE call[c].kind = "create"
      <4>1. \E r \in Reservations : KeyOf[r] = k /\ holder'[r] = c
        BY <1>1, <1>2, <2>3, <3>1 DEF Formed
      <4>2. row'[k] = "AVAILABLE" /\ draft'[k] = "RESERVED"
        BY <2>6, <3>1 DEF From, To
      <4> QED  BY <2>5, <3>1, <4>1, <4>2 DEF HeldKey
    <3>2. CASE call[c].kind \in Releasers
      <4>1. row'[k] = "RESERVED" /\ draft'[k] = "AVAILABLE"
        BY <2>6, <3>2 DEF From, To, Releasers
      <4> QED  BY <2>5, <3>2, <4>1 DEF HeldKey
    <3> QED  BY <1>2, <3>1, <3>2
  <2>8. at \in {"update", "commit"}
    BY DEF at
  <2> QED  BY <1>1, <1>2, <1>3, <2>2, <2>4, <2>7, <2>8, KeyWrittenKeeps
<1>5. CASE draft[k] # From(c)
  <2>1. UNCHANGED <<row, draft, holder, past, contended>>
    BY <1>1, <1>5
  <2>2. Formed(c)'
    BY <1>1, <1>2, <1>3, <2>1 DEF Formed, Becomes, Releasers
  <2>3. ASSUME NEW l \in Keys, row[l] = "RESERVED", Deciding(c, l)
        PROVE  Deciding(c, l)'
    <3>1. call[c].kind # "create"
      BY <2>3, CreatorsKeep
    <3>2. holder[l] = c
      BY <1>1, <1>2, <1>5, <2>3, <3>1 DEF Deciding, From
    <3> QED  BY <2>1, <2>3, <3>2 DEF Deciding
  <2> QED  BY <1>1, <1>3, <2>1, <2>2, <2>3, MovesKeeps
<1> QED  BY <1>4, <1>5

LEMMA SetKeyKeeps ==
    ASSUME IInv, NEW c \in Calls, SetKey(c)
    PROVE  IInv'
<1> DEFINE s == IF call[c].kind = "pickup" THEN "BORROWED" ELSE "AVAILABLE"
<1> PICK k \in Keys : k = call[c].key
  BY Known DEF SetKey, Formed
<1>1. /\ call[c].at = "set" /\ Write(c, k, s) /\ Goto(c, "commit")
      /\ UNCHANGED <<row, past, contended>>
  BY DEF SetKey
<1>2. Formed(c) /\ k \in Keys /\ k \in Rows /\ call[c].kind \in {"pickup", "return"}
      /\ call[c].todo = {}
  BY <1>1, Known, Tables DEF Formed
<1>3. Becomes(c, call[c].kind, "commit", k, call[c].todo)
  BY <1>1, GoingTo DEF IInv, Steps
<1>4. s \in KeyStatus /\ holder'[k] = c /\ draft'[k] = s
  BY <1>1, <1>2, Types DEF Write, KeyStatus, IInv
<1>5. Formed(c)'
  BY <1>2, <1>3, <1>4 DEF Formed, Becomes
<1>6. call'[c].kind = call[c].kind /\ call'[c].key = k /\ call'[c].at = "commit"
  BY <1>3 DEF Becomes
<1>7. s = IF call[c].kind = "pickup" THEN "BORROWED" ELSE "AVAILABLE"
  OBVIOUS
<1> HIDE DEF s
<1>8. HeldKey(c, k)'
  BY <1>2, <1>4, <1>6, <1>7 DEF HeldKey
<1> QED  BY <1>1, <1>2, <1>3, <1>4, <1>5, <1>8, KeyWrittenKeeps

-----------------------------------------------------------------------------
(* The end of a transaction                                                *)

\* What c has locked when it commits.
LEMMA Committing ==
    ASSUME IInv, NEW c \in Calls, Commit(c)
    PROVE  /\ \A x \in Rows : holder[x] = c => row'[x] = draft[x] /\ holder'[x] = Nobody
           /\ \A x \in Rows : holder[x] # c => row'[x] = row[x] /\ holder'[x] = holder[x]
           /\ \A x \in Rows : holder'[x] # c
           /\ Frame(c) /\ TypeOK'
           /\ call'[c] = Idle
<1>1. /\ \A x \in Rows : holder[x] = c => row'[x] = draft[x] /\ holder'[x] = Nobody
      /\ \A x \in Rows : holder[x] # c => row'[x] = row[x] /\ holder'[x] = holder[x]
      /\ row' = [x \in Rows |-> row'[x]] /\ holder' = [x \in Rows |-> holder'[x]]
      /\ UNCHANGED <<draft, past, contended>>
      /\ call' = [call EXCEPT ![c] = Idle] /\ c # Nobody
  BY Known DEF Commit, Unlocked
<1>2. Becomes(c, "none", "idle", Nobody, {}) /\ call'[c] = Idle
  BY <1>1, Stopping DEF IInv
<1>3. \A x \in Rows : holder'[x] # c
  BY <1>1
<1>4. row' \in Versions
  <2>1. row' \in [Rows -> KeyStatus \cup ReservationStatus]
    BY <1>1, Types DEF IInv
  <2>2. \A k \in Keys : row'[k] \in KeyStatus
    BY <1>1, Types, Tables DEF IInv
  <2>3. \A r \in Reservations : row'[r] \in ReservationStatus
    BY <1>1, Types, Tables DEF IInv
  <2> QED  BY <2>1, <2>2, <2>3 DEF Versions
<1>5. /\ holder' \in [Rows -> Calls \cup {Nobody}]
      /\ \A x \in Rows : holder'[x] = Nobody => draft'[x] = row'[x]
  BY <1>1, Types DEF IInv, TypeOK
<1>6. TypeOK'
  BY <1>1, <1>2, <1>4, <1>5 DEF IInv, TypeOK, Becomes, JobType
<1>7. \A r \in Reservations : row[r] # "NONE" => row'[r] # "NONE"
  <2>1. \A r \in Reservations : holder[r] = c => Held(c, r)
    BY Known
  <2>2. \A r \in Reservations : holder[r] = c => draft[r] # "NONE"
    BY <2>1 DEF Held, Claiming
  <2> QED  BY <1>1, <2>2, Tables
<1>8. Frame(c)
  BY <1>1, <1>2, <1>7, TransactionsAssumption DEF Frame, Becomes
<1> QED  BY <1>1, <1>2, <1>3, <1>6, <1>8

LEMMA CommitKeeps ==
    ASSUME IInv, NEW c \in Calls, Commit(c)
    PROVE  IInv'
<1>1. /\ \A x \in Rows : holder[x] = c => row'[x] = draft[x] /\ holder'[x] = Nobody
      /\ \A x \in Rows : holder[x] # c => row'[x] = row[x] /\ holder'[x] = holder[x]
      /\ \A x \in Rows : holder'[x] # c
      /\ Frame(c) /\ TypeOK' /\ call'[c] = Idle
  BY Committing
<1>2. call[c].at = "commit" /\ UNCHANGED <<draft, contended>> /\ Nobody \notin Calls
  BY TransactionsAssumption DEF Commit
<1>3. Formed(c)'
  BY <1>1 DEF Formed, Idle
<1>4. /\ \A x \in Reservations : holder'[x] = c => Held(c, x)'
      /\ \A l \in Keys : holder'[l] = c => HeldKey(c, l)'
  BY <1>1, Tables
<1>5. Created'
  <2> SUFFICES ASSUME NEW d \in Calls, NEW r \in Reservations, Creates(d, r)'
               PROVE  row'[r] = "NONE" /\ \A e \in Calls : Creates(e, r)' => d = e
    BY DEF Created
  <2>1. \A x \in Reservations : ~Creates(c, x)'
    BY <1>1 DEF Creates, Idle
  <2>2. d # c /\ Creates(d, r)
    BY <2>1, <1>1, OthersCreate
  <2>3. row[r] = "NONE" /\ ~Creates(c, r)
    BY <2>2 DEF IInv, Created
  <2>4. holder[r] # c
    BY <2>3, Known DEF Held, Creates, Claiming
  <2>5. \A e \in Calls \ {c} : Creates(e, r)' <=> Creates(e, r)
    BY <1>1, OthersCreate
  <2>6. \A e \in Calls : Creates(e, r)' => d = e
    BY <2>1, <2>2, <2>5 DEF IInv, Created
  <2> QED  BY <1>1, <2>3, <2>4, <2>6, Tables
<1>6. Noted'
  <2>1. \A l \in Keys : ~Releasing(c, l)'
    BY <1>1, Tables DEF Releasing
  <2> QED  BY <1>1, <1>2, <2>1, NotedKept
<1>7. Cared'
  <2> SUFFICES ASSUME NEW k \in Keys \ contended, row'[k] = "RESERVED"
               PROVE  \/ \E r \in Reservations : KeyOf[r] = k /\ Kept(r)'
                      \/ \E d \in Calls : Deciding(d, k)'
    BY <1>2 DEF Cared
  <2>1. CASE holder[k] = c
    <3>1. call[c].kind = "create" /\ \E r \in Reservations : KeyOf[r] = k /\ holder[r] = c
      BY <1>1, <2>1, Known, Tables DEF HeldKey
    <3>2. PICK r \in Reservations : KeyOf[r] = k /\ holder[r] = c
      BY <3>1
    <3>3. row'[r] \in Claiming /\ holder'[r] = Nobody
      BY <1>1, <3>1, <3>2, Known, Tables DEF Held
    <3> QED  BY <1>2, <3>2, <3>3 DEF Kept
  <2>2. CASE holder[k] # c
    <3>1. row[k] = "RESERVED"
      BY <1>1, <2>2, Tables
    <3>2. ASSUME NEW d \in Calls, Deciding(d, k) PROVE Deciding(d, k)'
      <4>1. d # c
        BY <1>2, <2>2, <3>2 DEF Deciding
      <4> QED  BY <1>1, <3>2, <4>1, OthersRelease
    <3>3. ASSUME NEW r \in Reservations, KeyOf[r] = k, Kept(r) PROVE Kept(r)'
      <4>1. CASE holder[r] = c
        <5>1. Held(c, r) /\ Formed(c) /\ row[r] \in Claiming /\ draft[r] \notin GivenUp
          BY <3>3, <4>1, Known DEF Kept
        <5>2. call[c].kind # "pickup"
          BY <1>2, <2>2, <3>3, <5>1 DEF Formed, Held, Claiming, GivenUp
        <5>3. draft[r] \in Claiming
          BY <5>1, <5>2 DEF Held, Claiming, GivenUp
        <5>4. row'[r] \in Claiming /\ holder'[r] = Nobody
          BY <1>1, <4>1, <5>3, Tables
        <5> QED  BY <1>2, <5>4 DEF Kept
      <4>2. CASE holder[r] # c
        BY <1>1, <1>2, <3>3, <4>2, Tables DEF Kept
      <4> QED  BY <4>1, <4>2
    <3> QED  BY <3>1, <3>2, <3>3 DEF IInv, Cared
  <2> QED  BY <2>1, <2>2
<1> QED  BY <1>1, <1>3, <1>4, <1>5, <1>6, <1>7, StepKeeps

LEMMA RolledBackKeeps ==
    ASSUME IInv, NEW c \in Calls, Rollback(c)
    PROVE  IInv'
<1>1. /\ \A x \in Rows : holder[x] = c => draft'[x] = row[x] /\ holder'[x] = Nobody
      /\ \A x \in Rows : holder[x] # c => draft'[x] = draft[x] /\ holder'[x] = holder[x]
      /\ draft' = [x \in Rows |-> draft'[x]] /\ holder' = [x \in Rows |-> holder'[x]]
      /\ UNCHANGED <<row, past, contended>>
      /\ call' = [call EXCEPT ![c] = Idle] /\ c # Nobody /\ Nobody \notin Calls
  BY Known, TransactionsAssumption DEF Rollback, Unlocked
<1>2. Becomes(c, "none", "idle", Nobody, {}) /\ call'[c] = Idle
  BY <1>1, Stopping DEF IInv
<1>3. \A x \in Rows : holder'[x] # c
  BY <1>1
<1>4. draft' \in Versions
  <2>1. draft' \in [Rows -> KeyStatus \cup ReservationStatus]
    BY <1>1, Types DEF IInv
  <2>2. \A k \in Keys : draft'[k] \in KeyStatus
    BY <1>1, Types, Tables DEF IInv
  <2>3. \A r \in Reservations : draft'[r] \in ReservationStatus
    BY <1>1, Types, Tables DEF IInv
  <2> QED  BY <2>1, <2>2, <2>3 DEF Versions
<1>5. /\ holder' \in [Rows -> Calls \cup {Nobody}]
      /\ \A x \in Rows : holder'[x] = Nobody => draft'[x] = row'[x]
  BY <1>1, Types DEF IInv, TypeOK
<1>6. TypeOK'
  BY <1>1, <1>2, <1>4, <1>5 DEF IInv, TypeOK, Becomes, JobType
<1>7. Frame(c)
  BY <1>1, <1>2 DEF Frame, Becomes
<1>8. Formed(c)'
  BY <1>2 DEF Formed, Idle
<1>9. /\ \A x \in Reservations : holder'[x] = c => Held(c, x)'
      /\ \A l \in Keys : holder'[l] = c => HeldKey(c, l)'
  BY <1>3, Tables
<1>10. Created'
  <2>1. \A x \in Reservations : ~Creates(c, x)'
    BY <1>2 DEF Creates, Idle
  <2> QED  BY <1>1, <1>7, <2>1, CreatedKept
<1>11. Noted'
  <2>1. \A l \in Keys : ~Releasing(c, l)'
    BY <1>3, Tables DEF Releasing
  <2> QED  BY <1>1, <1>7, <2>1, NotedKept
<1>12. Cared'
  <2>1. \A x \in Reservations : Kept(x) => Kept(x)'
    BY <1>1, Tables DEF Kept
  <2>2. ASSUME NEW l \in Keys, Deciding(c, l)
        PROVE  \E r \in Reservations : KeyOf[r] = l /\ Kept(r)'
    BY <1>1, <2>2, Tables DEF Deciding, Kept
  <2> QED  BY <1>1, <1>7, <2>1, <2>2, CaredKept
<1> QED  BY <1>6, <1>7, <1>8, <1>9, <1>10, <1>11, <1>12, StepKeeps

\* Time passes, or nothing happens.
LEMMA RestKeeps ==
    ASSUME IInv, UNCHANGED <<row, draft, holder, call, contended>>, past' \subseteq Reservations
    PROVE  IInv'
<1>1. TypeOK'
  BY DEF IInv, TypeOK
<1>2. \A c \in Calls : Formed(c)'
  BY DEF IInv, Formed, Releasing
<1>3. Locks'
  BY DEF IInv, Locks, Held, HeldKey
<1>4. Created' /\ Noted'
  BY DEF IInv, Created, Creates, Noted, Releasing
<1>5. Cared'
  BY DEF IInv, Cared, Kept, Deciding
<1> QED  BY <1>1, <1>2, <1>3, <1>4, <1>5 DEF IInv

LEMMA InitHolds ==
    ASSUME Init
    PROVE  IInv
<1>1. /\ \A k \in Keys : row[k] = "AVAILABLE"
      /\ \A r \in Reservations : row[r] = "NONE"
      /\ \A x \in Rows : holder[x] \notin Calls
      /\ \A c \in Calls : call[c] = Idle
  BY Tables, TransactionsAssumption DEF Init
<1>2. row \in Versions /\ draft \in Versions
  <2>1. row \in [Rows -> KeyStatus \cup ReservationStatus] /\ draft = row
    BY DEF Init, KeyStatus, ReservationStatus
  <2> QED  BY <1>1, <2>1 DEF Versions, KeyStatus, ReservationStatus
<1>3. TypeOK
  BY <1>2 DEF Init, TypeOK, Idle, Kinds, Steps
<1>4. \A c \in Calls : Formed(c)
  BY <1>1 DEF Formed, Idle
<1>5. Locks
  BY <1>1, Tables DEF Locks
<1>6. Created /\ Noted
  BY <1>1, Tables DEF Created, Creates, Noted, Releasing, Idle
<1>7. Cared
  BY <1>1 DEF Cared
<1> QED  BY <1>3, <1>4, <1>5, <1>6, <1>7 DEF IInv

LEMMA NextKeeps ==
    ASSUME IInv, [Next]_vars
    PROVE  IInv'
<1>1. ASSUME NEW c \in Calls, BeginStep(c) PROVE IInv'
  BY <1>1, BeginStepKeeps
<1>2. ASSUME NEW c \in Calls, Statement(c) PROVE IInv'
  BY <1>2, InsertKeeps, LockLapsedKeeps, UpdateKeeps, ReviewKeeps, UseKeeps, CountKeeps,
     FindKeyKeeps, WriteKeyKeeps, SetKeyKeeps, CommitKeeps DEF Statement
<1>3. ASSUME NEW c \in Calls, Rollback(c) PROVE IInv'
  BY <1>3, RolledBackKeeps
<1>4. ASSUME NEW r \in Reservations, Lapse(r) PROVE IInv'
  BY <1>4, RestKeeps DEF Lapse, IInv, TypeOK
<1>5. CASE UNCHANGED vars
  BY <1>5, RestKeeps DEF vars, IInv, TypeOK
<1> QED  BY <1>1, <1>2, <1>3, <1>4, <1>5 DEF Next

\* What is committed changes by a commit only, and only where c has a lock.
LEMMA CommittedBy ==
    ASSUME IInv, [Next]_vars, NEW x \in Rows, row'[x] # row[x]
    PROVE  \E c \in Calls : holder[x] = c /\ row'[x] = draft[x]
<1>1. PICK c \in Calls : Commit(c)
  <2>1. \A c \in Calls : BeginStep(c) \/ Rollback(c) => row' = row
    BY DEF BeginStep, CreateReservation, CancelReservation, ReviewReservation, CompletePickup,
           ExpireReservations, CompleteReturn, Begin, Rollback
  <2>2. \A c \in Calls : Statement(c) => Commit(c) \/ row' = row
    BY DEF Statement, Insert, LockLapsed, Update, Review, Use, Count, FindKey, WriteKey, SetKey
  <2>3. \A r \in Reservations : Lapse(r) => row' = row
    BY DEF Lapse
  <2>4. UNCHANGED vars => row' = row
    BY DEF vars
  <2> QED  BY <2>1, <2>2, <2>3, <2>4 DEF Next
<1> QED  BY <1>1, Committing

-----------------------------------------------------------------------------
(* Theorems                                                                *)

\* The inductive invariant: every lock is held by a call that knows what the
\* row was, and every RESERVED key has a claim that nobody is giving up or a
\* call that is still going to release it (reservation_repository.go:76-111,
\* 166-207).
THEOREM Inductive == Spec => []IInv
<1>1. Init => IInv
  BY InitHolds
<1>2. IInv /\ [Next]_vars => IInv'
  BY NextKeeps
<1> QED  BY <1>1, <1>2, PTL DEF Spec

\* The rows of both tables and the calls keep their types, and a row that no
\* transaction has locked is the committed one.
THEOREM TypeCorrect == Spec => []TypeOK
<1>1. IInv => TypeOK
  BY DEF IInv
<1> QED  BY <1>1, Inductive, PTL

\* A key is RESERVED only while a reservation claims it, unless two releases of
\* it have overlapped: no other order of the statements of creations, reviews,
\* cancellations, expiries, pickups and returns, and no rollback between two
\* of them, strands it.
THEOREM ReservedClaimed == Spec => []ReservedForSomebody
<1>1. IInv => ReservedForSomebody
  BY DEF IInv, Cared, Kept, Deciding, ReservedForSomebody
<1> QED  BY <1>1, Inductive, PTL

\* However the statements interleave, only a cancellation replaces the last
\* status of a reservation: whoever else has locked the row found it claiming.
THEOREM FinalUnlessCancelled == Spec => OnlyCancelOverwrites
<1>1. IInv /\ [Next]_vars =>
          [\A r \in Reservations :
              row[r] \in Final /\ row'[r] # row[r] => row'[r] = "CANCELLED"]_vars
  <2> SUFFICES ASSUME IInv, [Next]_vars, NEW r \in Reservations,
                      row[r] \in Final, row'[r] # row[r]
               PROVE  row'[r] = "CANCELLED"
    OBVIOUS
  <2>1. PICK c \in Calls : holder[r] = c /\ row'[r] = draft[r]
    BY CommittedBy, Tables
  <2>2. Held(c, r)
    BY <2>1, Known
  <2> QED  BY <2>1, <2>2 DEF Held, Claiming, Final, GivenUp
<1> QED  BY <1>1, Inductive, PTL DEF Spec, OnlyCancelOverwrites

\* A key that is out stays BORROWED until the commit of a return: no creation
\* and no release that waited for the pickup overwrites it.
THEOREM BorrowedStays == Spec => BorrowedKept
<1>1. IInv /\ [Next]_vars =>
          [\A k \in Keys : row[k] = "BORROWED" /\ row'[k] # "BORROWED" =>
              \E c \in Calls : call[c].kind = "return" /\ call[c].key = k]_vars
  <2> SUFFICES ASSUME IInv, [Next]_vars, NEW k \in Keys,
                      row[k] = "BORROWED", row'[k] # "BORROWED"
               PROVE  \E c \in Calls : call[c].kind = "return" /\ call[c].key = k
    OBVIOUS
  <2>1. PICK c \in Calls : holder[k] = c /\ row'[k] = draft[k]
    BY CommittedBy, Tables
  <2>2. HeldKey(c, k)
    BY <2>1, Known
  <2> QED  BY <2>1, <2>2 DEF HeldKey
<1> QED  BY <1>1, Inductive, PTL DEF Spec, BorrowedKept

=============================================================================
