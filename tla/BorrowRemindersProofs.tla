------------------------ MODULE BorrowRemindersProofs -----------------------
(***************************************************************************)
(* The safety of BorrowReminders, for any records, due times and callers   *)
(* of CheckOverdue: its types, that a check does not remind of what came   *)
(* back before it began, and that checks which are left alone send a       *)
(* reminder once.                                                          *)
(***************************************************************************)
EXTENDS BorrowReminders, TLAPS

Todos == [rem: Reminders, attempts: 0..(MaxAttempts - 1)]

Jobs == [at: Steps, now: 0..MaxTime, retrying: BOOLEAN, todo: SUBSET Todos,
         rem: Reminders \cup {<<>>}, attempts: 0..(MaxAttempts - 1), sent: BOOLEAN,
         live: SUBSET Records]

\* What a check has in its hands at each of its steps; the records it still
\* goes by were BORROWED since it began.
Formed(j) ==
    /\ j.at \in {"create", "send", "save"} => j.rem \in Reminders
    /\ j.at \in {"idle", "list", "create"} => ~j.retrying
    /\ ~j.retrying => \A x \in j.todo : x.rem[1] \in j.live
    /\ j.at \in {"create", "send"} => j.rem[1] \in j.live

Typed ==
    /\ TypeOK
    /\ checker \in [Checkers -> Jobs]
    /\ \A c \in Checkers : checker[c].now =< clock /\ Formed(checker[c])
    /\ \A m \in Reminders : row[m].status = "NONE" => row[m].attempts = 0

\* A check knows of every record that is BORROWED while it is under way.
Watched == \A c \in Checkers : checker[c].at # "idle" =>
               \A r \in Records : status[r] = "BORROWED" => r \in checker[c].live

\* Nobody else is between the first and the last statement of a check.
Alone == \A c, d \in Checkers : c = d \/ checker[c].at = "idle" \/ checker[d].at = "idle"

\* A message that was accepted is in its row, or about to be saved there.
Recorded == \A m \in Reminders :
    /\ delivered[m] =< 1
    /\ delivered[m] = 1 =>
           \/ row[m].status = "SENT"
           \/ \E c \in Checkers : checker[c].at = "save" /\ checker[c].rem = m /\ checker[c].sent

\* What a check is sending, and what it is going to retry, was not sent yet,
\* and it has each reminder in its hands only once.
Fresh(j, rows) ==
    /\ j.at \in {"send", "save"} => rows[j.rem].status # "SENT"
    /\ j.retrying => \A x \in j.todo :
           /\ rows[x.rem].status # "SENT"
           /\ j.at \in {"send", "save"} => x.rem # j.rem
           /\ \A y \in j.todo : x.rem = y.rem => x = y

Once == undisturbed => Alone /\ Recorded /\ \A c \in Checkers : Fresh(checker[c], row)

IInv == Typed /\ Watched /\ Once
-----------------------------------------------------------------------------
(* Checks                                                                  *)

LEMMA Limits == MaxAttempts = 3 /\ MaxTime \in Nat /\ MaxEvents \in Nat
BY RemindersAssumption DEF MaxAttempts

LEMMA IdleJob == Idle \in Jobs /\ Formed(Idle) /\ Idle.at = "idle" /\ Idle.now = 0
                 /\ Idle.todo = {} /\ ~Idle.retrying
BY Limits DEF Idle, Jobs, Formed, Steps

LEMMA JobTypes ==
    ASSUME Typed, NEW c \in Checkers
    PROVE  checker[c] \in Jobs /\ Formed(checker[c]) /\ checker[c].now =< clock
BY DEF Typed

\* A job is typed as TypeOK wants it.
LEMMA TypedAgain ==
    ASSUME Typed, checker' \in [Checkers -> Jobs],
           \A c \in Checkers : checker'[c].now =< clock' /\ Formed(checker'[c]),
           clock' \in 0..MaxTime, status' \in [Records -> BorrowStatus],
           overdue' \in [Records -> BOOLEAN],
           row' \in [Reminders -> [status: RowStatus, attempts: 0..MaxAttempts,
                                   retryAt: 0..MaxTime]],
           \A m \in Reminders : row'[m].status = "NONE" => row'[m].attempts = 0,
           past' \in [Records -> SUBSET (BorrowStatus \X BOOLEAN)],
           events' \in 0..MaxEvents, delivered' \in [Reminders -> 0..2],
           undisturbed' \in BOOLEAN
    PROVE  Typed'
<1>1. ASSUME NEW c \in Checkers
      PROVE  /\ checker'[c].at \in Steps
             /\ checker'[c].now \in 0..clock'
             /\ checker'[c].retrying \in BOOLEAN
             /\ checker'[c].todo \subseteq [rem: Reminders, attempts: 0..MaxAttempts]
             /\ checker'[c].rem \in Reminders \cup {<<>>}
             /\ checker'[c].attempts \in 0..(MaxAttempts - 1)
             /\ checker'[c].sent \in BOOLEAN
             /\ checker'[c].live \subseteq Records
  <2>1. checker'[c] \in Jobs /\ checker'[c].now =< clock'
    OBVIOUS
  <2>2. Todos \subseteq [rem: Reminders, attempts: 0..MaxAttempts]
    BY Limits DEF Todos
  <2> QED  BY <2>1, <2>2, Limits DEF Jobs
<1>2. TypeOK'
  BY <1>1 DEF TypeOK
<1> QED  BY <1>2 DEF Typed

\* The other checks keep what they have.
LEMMA NewJob ==
    ASSUME Typed, NEW c \in Checkers, NEW j \in Jobs, Formed(j), j.now =< clock,
           checker' = [checker EXCEPT ![c] = j]
    PROVE  /\ checker' \in [Checkers -> Jobs]
           /\ \A d \in Checkers : checker'[d].now =< clock /\ Formed(checker'[d])
           /\ \A d \in Checkers : checker'[d] = IF d = c THEN j ELSE checker[d]
<1>1. checker \in [Checkers -> Jobs]
  BY DEF Typed
<1>2. \A d \in Checkers : checker'[d] = IF d = c THEN j ELSE checker[d]
  BY <1>1
<1> QED  BY <1>1, <1>2 DEF Typed

\* Going on to the next reminder.
LEMMA ContinueJob ==
    ASSUME NEW j \in Jobs, ~j.retrying => \A x \in j.todo : x.rem[1] \in j.live
    PROVE  LET k == Continue(j)
           IN  /\ k \in Jobs /\ Formed(k) /\ k.at \in {"idle", "next"}
               /\ k.at = "idle" \/ (k.now = j.now /\ k.live = j.live)
               /\ k.now = j.now \/ k.now = 0
               /\ k.retrying => j.retrying /\ k.todo = j.todo
<1>1. CASE j.retrying /\ j.todo = {}
  BY <1>1, IdleJob DEF Continue
<1>2. CASE ~(j.retrying /\ j.todo = {})
  <2> DEFINE k == [j EXCEPT !.at = "next", !.rem = <<>>, !.attempts = 0, !.sent = FALSE]
  <2>1. Continue(j) = k
    BY <1>2 DEF Continue
  <2>2. k \in Jobs
    <3>1. 0 \in 0..(MaxAttempts - 1) /\ "next" \in Steps
      BY Limits DEF Steps
    <3> QED  BY <3>1 DEF Jobs
  <2>3. k.at = "next" /\ k.now = j.now /\ k.live = j.live /\ k.todo = j.todo
        /\ k.retrying = j.retrying
    BY DEF Jobs
  <2> HIDE DEF k
  <2>4. Formed(k)
    BY <2>3 DEF Formed
  <2> QED  BY <2>1, <2>2, <2>3, <2>4
<1> QED  BY <1>1, <1>2

\* A step of a check that writes neither rows nor history.
LEMMA QuietStep ==
    ASSUME IInv, NEW c \in Checkers, NEW j \in Jobs, Formed(j),
           checker[c].at \notin {"idle", "save"},
           checker' = [checker EXCEPT ![c] = j],
           j.at = "idle" \/ j.live = checker[c].live,
           j.now = checker[c].now \/ j.now = 0,
           undisturbed => Fresh(j, row),
           UNCHANGED <<clock, records, row, events, history>>
    PROVE  IInv'
<1>1. /\ checker[c].now =< clock /\ checker[c].now \in Nat /\ clock \in Nat
      /\ j.now =< clock
  BY JobTypes, Limits DEF IInv, Typed, TypeOK, Jobs
<1>2. /\ checker' \in [Checkers -> Jobs]
      /\ \A d \in Checkers : checker'[d].now =< clock /\ Formed(checker'[d])
      /\ \A d \in Checkers : checker'[d] = IF d = c THEN j ELSE checker[d]
  BY <1>1, NewJob DEF IInv
<1>3. UNCHANGED <<clock, status, overdue, past, row, events, undisturbed, delivered>>
  BY DEF records, history
<1>4. Typed'
  BY <1>2, <1>3, TypedAgain DEF IInv, Typed, TypeOK
<1>5. Watched'
  BY <1>2, <1>3 DEF IInv, Watched
<1>6. Once'
  <2> SUFFICES ASSUME undisturbed' PROVE Alone' /\ Recorded' /\ \A d \in Checkers : Fresh(checker[d], row)'
    BY DEF Once
  <2>1. undisturbed /\ Alone /\ Recorded /\ \A d \in Checkers : Fresh(checker[d], row)
    BY <1>3 DEF IInv, Once
  <2>2. Alone'
    BY <1>2, <2>1 DEF Alone
  <2>3. Recorded'
    BY <1>2, <1>3, <2>1 DEF Recorded
  <2>4. \A d \in Checkers : Fresh(checker'[d], row')
    BY <1>2, <1>3, <2>1
  <2> QED  BY <2>2, <2>3, <2>4
<1> QED  BY <1>4, <1>5, <1>6 DEF IInv

LEMMA ListBorrowedStep ==
    ASSUME IInv, NEW c \in Checkers, ListBorrowed(c)
    PROVE  IInv'
<1> DEFINE list == {Todo(m, 0) : m \in Wanted(checker[c].now)}
           j == [checker[c] EXCEPT !.at = "next", !.todo = list]
<1>1. /\ checker[c].at = "list" /\ checker' = [checker EXCEPT ![c] = j]
      /\ UNCHANGED <<clock, records, row, events, history>>
  BY DEF ListBorrowed
<1>2. checker[c] \in Jobs /\ Formed(checker[c])
  BY JobTypes DEF IInv
<1>3. \A x \in list : x \in Todos /\ x.rem[1] \in checker[c].live
  <2> SUFFICES ASSUME NEW m \in Wanted(checker[c].now)
               PROVE  Todo(m, 0) \in Todos /\ Todo(m, 0).rem[1] \in checker[c].live
    OBVIOUS
  <2>1. m \in Reminders /\ status[m[1]] = "BORROWED" /\ m[1] \in Records
    BY DEF Wanted, Reminders
  <2>2. m[1] \in checker[c].live
    BY <1>1, <2>1 DEF IInv, Watched
  <2> QED  BY <2>1, <2>2, Limits DEF Todo, Todos
<1> HIDE DEF list
<1>4. /\ j \in Jobs /\ j.at = "next" /\ j.todo = list /\ j.live = checker[c].live
      /\ j.retrying = checker[c].retrying /\ j.now = checker[c].now
  <2>1. j \in Jobs
    BY <1>2, <1>3 DEF Jobs, Steps
  <2> QED  BY <1>2, <2>1 DEF Jobs
<1> HIDE DEF j
<1>5. Formed(j) /\ Fresh(j, row)
  BY <1>1, <1>2, <1>3, <1>4 DEF Formed, Fresh
<1> QED  BY <1>1, <1>4, <1>5, QuietStep

\* What a check may try was not sent, nor tried too often.
LEMMA NotSkipped ==
    ASSUME Typed, NEW m \in Reminders, NEW now \in Nat, ~Skip(m, now)
    PROVE  row[m].status # "SENT" /\ row[m].attempts \in 0..(MaxAttempts - 1)
BY Limits DEF Typed, TypeOK, Skip, Due

LEMMA ProcessStep ==
    ASSUME IInv, NEW c \in Checkers, Process(c)
    PROVE  IInv'
<1>1. /\ checker[c].at = "next" /\ ~checker[c].retrying
      /\ UNCHANGED <<clock, records, row, events, history>>
  BY DEF Process
<1>2. checker[c] \in Jobs /\ Formed(checker[c])
  BY JobTypes DEF IInv
<1>3. PICK x \in checker[c].todo :
          checker' = [checker EXCEPT ![c] =
              IF Skip(x.rem, @.now) THEN [checker[c] EXCEPT !.todo = @ \ {x}]
              ELSE [[checker[c] EXCEPT !.todo = @ \ {x}] EXCEPT
                       !.at = IF row[x.rem].status = "NONE" THEN "create" ELSE "send",
                       !.rem = x.rem, !.attempts = row[x.rem].attempts]]
  BY DEF Process
<1> DEFINE left == [checker[c] EXCEPT !.todo = @ \ {x}]
<1>4. x \in Todos /\ x.rem \in Reminders /\ x.rem[1] \in checker[c].live
  BY <1>1, <1>2 DEF Jobs, Todos, Formed
<1>5. /\ left \in Jobs /\ left.at = "next" /\ left.todo = checker[c].todo \ {x}
      /\ left.live = checker[c].live /\ ~left.retrying /\ left.now = checker[c].now
  BY <1>1, <1>2 DEF Jobs
<1>6. CASE Skip(x.rem, checker[c].now)
  <2>1. checker' = [checker EXCEPT ![c] = left]
    BY <1>3, <1>6
  <2> HIDE DEF left
  <2>2. Formed(left) /\ Fresh(left, row)
    BY <1>1, <1>2, <1>5 DEF Formed, Fresh
  <2> QED  BY <1>1, <1>5, <2>1, <2>2, QuietStep
<1>7. CASE ~Skip(x.rem, checker[c].now)
  <2> DEFINE at == IF row[x.rem].status = "NONE" THEN "create" ELSE "send"
             j == [left EXCEPT !.at = at, !.rem = x.rem, !.attempts = row[x.rem].attempts]
  <2>1. checker' = [checker EXCEPT ![c] = j]
    BY <1>3, <1>7
  <2> HIDE DEF left
  <2>2. row[x.rem].status # "SENT" /\ row[x.rem].attempts \in 0..(MaxAttempts - 1)
    BY <1>2, <1>4, <1>7, NotSkipped, Limits DEF Jobs, IInv
  <2>3. at \in {"create", "send"} /\ at \in Steps
    BY DEF Steps
  <2> HIDE DEF at
  <2>4. j \in Jobs
    BY <1>4, <1>5, <2>2, <2>3 DEF Jobs
  <2>5. /\ j.at = at /\ j.rem = x.rem /\ j.todo = left.todo /\ j.live = left.live
        /\ j.retrying = left.retrying /\ j.now = left.now
    BY <1>5 DEF Jobs
  <2> HIDE DEF j
  <2>6. Formed(j) /\ Fresh(j, row)
    BY <1>1, <1>2, <1>4, <1>5, <2>2, <2>3, <2>5 DEF Formed, Fresh
  <2> QED  BY <1>1, <1>5, <2>1, <2>4, <2>5, <2>6, QuietStep
<1> QED  BY <1>6, <1>7

LEMMA RetryStep ==
    ASSUME IInv, NEW c \in Checkers, Retry(c)
    PROVE  IInv'
<1>1. /\ checker[c].at = "next" /\ checker[c].retrying
      /\ UNCHANGED <<clock, records, row, events, history>>
  BY DEF Retry
<1>2. checker[c] \in Jobs /\ Formed(checker[c])
  BY JobTypes DEF IInv
<1>3. PICK x \in checker[c].todo :
          checker' = [checker EXCEPT ![c] =
              IF StillBorrowed(x.rem[1])
              THEN [[checker[c] EXCEPT !.todo = @ \ {x}] EXCEPT
                       !.at = "send", !.rem = x.rem, !.attempts = x.attempts]
              ELSE Continue([checker[c] EXCEPT !.todo = @ \ {x}])]
  BY DEF Retry
<1> DEFINE left == [checker[c] EXCEPT !.todo = @ \ {x}]
<1>4. /\ x \in Todos /\ x.rem \in Reminders /\ x.attempts \in 0..(MaxAttempts - 1)
      /\ x.rem[1] \in Records
  BY <1>2 DEF Jobs, Todos, Reminders
<1>5. /\ left \in Jobs /\ left.at = "next" /\ left.todo = checker[c].todo \ {x}
      /\ left.live = checker[c].live /\ left.retrying /\ left.now = checker[c].now
  BY <1>1, <1>2 DEF Jobs
<1>6. undisturbed => Fresh(checker[c], row)
  BY DEF IInv, Once
<1>7. CASE StillBorrowed(x.rem[1])
  <2> DEFINE j == [left EXCEPT !.at = "send", !.rem = x.rem, !.attempts = x.attempts]
  <2>1. checker' = [checker EXCEPT ![c] = j]
    BY <1>3, <1>7
  <2> HIDE DEF left
  <2>2. j \in Jobs
    BY <1>4, <1>5 DEF Jobs, Steps
  <2>3. /\ j.at = "send" /\ j.rem = x.rem /\ j.todo = left.todo /\ j.live = left.live
        /\ j.retrying = left.retrying /\ j.now = left.now
    BY <1>5 DEF Jobs
  <2> HIDE DEF j
  <2>4. x.rem[1] \in j.live
    BY <1>1, <1>4, <1>5, <1>7, <2>3 DEF StillBorrowed, IInv, Watched
  <2>5. Formed(j)
    BY <1>4, <1>5, <2>3, <2>4 DEF Formed
  <2>6. undisturbed => Fresh(j, row)
    BY <1>1, <1>5, <1>6, <2>3 DEF Fresh
  <2> QED  BY <1>1, <1>5, <2>1, <2>2, <2>3, <2>5, <2>6, QuietStep
<1>8. CASE ~StillBorrowed(x.rem[1])
  <2> DEFINE j == Continue(left)
  <2>1. checker' = [checker EXCEPT ![c] = j]
    BY <1>3, <1>8
  <2> HIDE DEF left
  <2>2. /\ j \in Jobs /\ Formed(j) /\ j.at \in {"idle", "next"}
        /\ j.at = "idle" \/ (j.now = left.now /\ j.live = left.live)
        /\ j.now = left.now \/ j.now = 0
        /\ j.retrying => left.retrying /\ j.todo = left.todo
    BY <1>5, ContinueJob
  <2> HIDE DEF j
  <2>3. undisturbed => Fresh(j, row)
    BY <1>1, <1>5, <1>6, <2>2 DEF Fresh
  <2> QED  BY <1>1, <1>5, <2>1, <2>2, <2>3, QuietStep
<1> QED  BY <1>7, <1>8

LEMMA ListRetriesStep ==
    ASSUME IInv, NEW c \in Checkers, ListRetries(c)
    PROVE  IInv'
<1> DEFINE failed == {m \in Reminders : row[m].status = "FAILED" /\ Due(m, checker[c].now)}
           list == {Todo(m, row[m].attempts) : m \in failed}
           i == [checker[c] EXCEPT !.retrying = TRUE, !.todo = list]
           j == Continue(i)
<1>1. /\ checker[c].at = "next"
      /\ checker' = [checker EXCEPT ![c] = j]
      /\ UNCHANGED <<clock, records, row, events, history>>
  BY DEF ListRetries
<1>2. checker[c] \in Jobs
  BY JobTypes DEF IInv
<1>3. \A x \in list : x \in Todos /\ row[x.rem].status # "SENT"
  <2> SUFFICES ASSUME NEW m \in failed
               PROVE  /\ Todo(m, row[m].attempts) \in Todos
                      /\ row[Todo(m, row[m].attempts).rem].status # "SENT"
    OBVIOUS
  <2>1. row[m].attempts \in 0..(MaxAttempts - 1)
    BY Limits DEF Due, IInv, Typed, TypeOK
  <2> QED  BY <2>1 DEF Todo, Todos
<1>4. \A x, y \in list : x.rem = y.rem => x = y
  BY DEF Todo
<1> HIDE DEF list
<1>5. i \in Jobs
  BY <1>2, <1>3 DEF Jobs
<1>6. i.retrying /\ i.todo = list /\ i.live = checker[c].live /\ i.now = checker[c].now
  BY <1>2 DEF Jobs
<1> HIDE DEF i
<1>7. /\ j \in Jobs /\ Formed(j) /\ j.at \in {"idle", "next"}
      /\ j.at = "idle" \/ (j.now = i.now /\ j.live = i.live)
      /\ j.now = i.now \/ j.now = 0
      /\ j.retrying => i.retrying /\ j.todo = i.todo
  BY <1>5, <1>6, ContinueJob
<1> HIDE DEF j
<1>8. Fresh(j, row)
  BY <1>3, <1>4, <1>6, <1>7 DEF Fresh
<1> QED  BY <1>1, <1>6, <1>7, <1>8, QuietStep

\* A check that goes on with a job of its own, whatever it does to the rows.
LEMMA GoesOn ==
    ASSUME IInv, NEW c \in Checkers, checker[c].at # "idle",
           NEW j \in Jobs, Formed(j),
           checker' = [checker EXCEPT ![c] = j],
           j.at = "idle" \/ j.live = checker[c].live,
           j.now = checker[c].now \/ j.now = 0,
           UNCHANGED <<clock, records, events>>,
           row' \in [Reminders -> [status: RowStatus, attempts: 0..MaxAttempts,
                                   retryAt: 0..MaxTime]],
           \A m \in Reminders : row'[m].status = "NONE" => row'[m].attempts = 0,
           delivered' \in [Reminders -> 0..2], undisturbed' \in BOOLEAN
    PROVE  /\ Typed' /\ Watched'
           /\ \A d \in Checkers : checker'[d] = IF d = c THEN j ELSE checker[d]
           /\ Alone => Alone' /\ \A d \in Checkers : d = c \/ checker'[d].at = "idle"
<1>1. j.now =< clock
  BY JobTypes, Limits DEF IInv, Typed, TypeOK, Jobs
<1>2. /\ checker' \in [Checkers -> Jobs]
      /\ \A d \in Checkers : checker'[d].now =< clock /\ Formed(checker'[d])
      /\ \A d \in Checkers : checker'[d] = IF d = c THEN j ELSE checker[d]
  BY <1>1, NewJob DEF IInv
<1>3. UNCHANGED <<clock, status, overdue, past, events>>
  BY DEF records
<1>4. Typed'
  BY <1>2, <1>3, TypedAgain DEF IInv, Typed, TypeOK
<1>5. Watched'
  BY <1>2, <1>3 DEF IInv, Watched
<1>6. Alone => Alone' /\ \A d \in Checkers : d = c \/ checker'[d].at = "idle"
  BY <1>2 DEF Alone
<1> QED  BY <1>2, <1>4, <1>5, <1>6

LEMMA CreateStep ==
    ASSUME IInv, NEW c \in Checkers, Create(c)
    PROVE  IInv'
<1> DEFINE m == checker[c].rem
<1>1. /\ checker[c].at = "create"
      /\ UNCHANGED <<clock, records, events, history>>
  BY DEF Create
<1>2. checker[c] \in Jobs /\ Formed(checker[c])
  BY JobTypes DEF IInv
<1>3. m \in Reminders /\ ~checker[c].retrying
  BY <1>1, <1>2 DEF Formed
<1>4. CASE row[m].status = "NONE"
  <2> DEFINE j == [checker[c] EXCEPT !.at = "send"]
  <2>1. row' = [row EXCEPT ![m].status = "PENDING"] /\ checker' = [checker EXCEPT ![c] = j]
    BY <1>4 DEF Create
  <2>2. /\ j \in Jobs /\ j.at = "send" /\ j.rem = m /\ ~j.retrying /\ j.live = checker[c].live
        /\ j.now = checker[c].now /\ j.todo = checker[c].todo
    BY <1>2, <1>3 DEF Jobs, Steps
  <2> HIDE DEF j
  <2>3. Formed(j)
    BY <1>1, <1>2, <1>3, <2>2 DEF Formed
  <2>4. /\ row' \in [Reminders -> [status: RowStatus, attempts: 0..MaxAttempts,
                                    retryAt: 0..MaxTime]]
        /\ row'[m].status = "PENDING"
        /\ \A n \in Reminders : n # m => row'[n] = row[n]
    BY <1>3, <2>1 DEF IInv, Typed, TypeOK, RowStatus
  <2>5. /\ Typed' /\ Watched'
        /\ \A d \in Checkers : checker'[d] = IF d = c THEN j ELSE checker[d]
        /\ Alone => Alone' /\ \A d \in Checkers : d = c \/ checker'[d].at = "idle"
    <3>1. /\ \A n \in Reminders : row'[n].status = "NONE" => row'[n].attempts = 0
          /\ delivered' \in [Reminders -> 0..2] /\ undisturbed' \in BOOLEAN
      BY <1>1, <2>4 DEF IInv, Typed, TypeOK, history
    <3> QED  BY <1>1, <2>1, <2>2, <2>3, <2>4, <3>1, GoesOn
  <2>6. Once'
    <3> SUFFICES ASSUME undisturbed'
                 PROVE  Alone' /\ Recorded' /\ \A d \in Checkers : Fresh(checker[d], row)'
      BY DEF Once
    <3>1. undisturbed /\ Alone /\ Recorded /\ \A d \in Checkers : Fresh(checker[d], row)
      BY <1>1 DEF IInv, Once, history
    <3>2. Recorded'
      BY <1>1, <1>3, <1>4, <2>4, <2>5, <3>1 DEF Recorded, history
    <3>3. Fresh(j, row')
      BY <2>2, <2>4 DEF Fresh
    <3>4. \A d \in Checkers : d # c => Fresh(checker'[d], row')
      <4> SUFFICES ASSUME NEW d \in Checkers, d # c PROVE Fresh(checker[d], row')
        BY <2>5
      <4>1. checker[d].at = "idle" /\ checker[d].todo \subseteq Todos /\ Fresh(checker[d], row)
        BY <1>1, <3>1, JobTypes DEF Alone, IInv, Jobs
      <4>2. \A x \in checker[d].todo : row'[x.rem].status # "SENT"
                                      \/ row'[x.rem] = row[x.rem]
        BY <2>4, <4>1 DEF Todos
      <4> QED  BY <4>1, <4>2 DEF Fresh
    <3> QED  BY <2>5, <3>1, <3>2, <3>3, <3>4
  <2> QED  BY <2>5, <2>6 DEF IInv
<1>5. CASE row[m].status # "NONE"
  <2> DEFINE j == Continue(checker[c])
  <2>1. checker' = [checker EXCEPT ![c] = j] /\ UNCHANGED row
    BY <1>5 DEF Create
  <2>2. /\ j \in Jobs /\ Formed(j) /\ j.at \in {"idle", "next"}
        /\ j.at = "idle" \/ (j.now = checker[c].now /\ j.live = checker[c].live)
        /\ j.now = checker[c].now \/ j.now = 0
        /\ ~j.retrying
    BY <1>2, <1>3, ContinueJob DEF Formed
  <2> HIDE DEF j
  <2>3. Fresh(j, row)
    BY <2>2 DEF Fresh
  <2> QED  BY <1>1, <2>1, <2>2, <2>3, QuietStep
<1> QED  BY <1>4, <1>5

\* What a step makes of the history.
LEMMA Observed ==
    ASSUME Typed, NEW calm \in BOOLEAN, NEW sent, Observe(calm, sent)
    PROVE  /\ undisturbed' \in BOOLEAN /\ delivered' \in [Reminders -> 0..2]
           /\ undisturbed' => undisturbed /\ calm
           /\ undisturbed' => \A m \in Reminders :
                  delivered'[m] = IF m \in sent /\ delivered[m] < 2
                                  THEN delivered[m] + 1 ELSE delivered[m]
<1>1. undisturbed \in BOOLEAN /\ delivered \in [Reminders -> 0..2]
  BY DEF Typed, TypeOK
<1>2. /\ undisturbed' = (undisturbed /\ calm)
      /\ delivered' = [m \in Reminders |->
             IF ~undisturbed' THEN 0
             ELSE IF m \in sent /\ delivered[m] < 2 THEN delivered[m] + 1 ELSE delivered[m]]
  BY DEF Observe
<1>3. undisturbed' \in BOOLEAN /\ (undisturbed' => undisturbed /\ calm)
  BY <1>1, <1>2
<1>4. \A m \in Reminders : delivered'[m] \in 0..2
  BY <1>1, <1>2
<1>5. delivered' \in [Reminders -> 0..2]
  BY <1>2, <1>4
<1> QED  BY <1>2, <1>3, <1>5

LEMMA SendStep ==
    ASSUME IInv, NEW c \in Checkers, Send(c)
    PROVE  IInv'
<1>1. checker[c].at = "send" /\ UNCHANGED <<clock, records, row, events>>
  BY DEF Send
<1>2. PICK accepted \in BOOLEAN, told \in BOOLEAN :
          /\ told => accepted
          /\ checker' = [checker EXCEPT ![c].at = "save", ![c].sent = told]
          /\ Observe(accepted = told, IF accepted THEN {checker[c].rem} ELSE {})
  BY DEF Send
<1> DEFINE m == checker[c].rem
           j == [checker[c] EXCEPT !.at = "save", !.sent = told]
<1>3. checker[c] \in Jobs /\ Formed(checker[c]) /\ m \in Reminders
  BY <1>1, JobTypes DEF IInv, Formed
<1>4. checker' = [checker EXCEPT ![c] = j]
  BY <1>2
<1>5. /\ j \in Jobs /\ j.at = "save" /\ j.rem = m /\ j.sent = told
      /\ j.live = checker[c].live /\ j.now = checker[c].now /\ j.todo = checker[c].todo
      /\ j.retrying = checker[c].retrying
  BY <1>3 DEF Jobs, Steps
<1> HIDE DEF j
<1>6. Formed(j)
  BY <1>1, <1>3, <1>5 DEF Formed
<1>7. /\ undisturbed' \in BOOLEAN /\ delivered' \in [Reminders -> 0..2]
      /\ undisturbed' => undisturbed /\ (accepted = told)
      /\ undisturbed' => \A n \in Reminders :
             delivered'[n] = IF n \in (IF accepted THEN {m} ELSE {}) /\ delivered[n] < 2
                             THEN delivered[n] + 1 ELSE delivered[n]
  <2>1. (accepted = told) \in BOOLEAN
    OBVIOUS
  <2> QED  BY <1>2, <2>1, Observed DEF IInv
<1>8. /\ Typed' /\ Watched'
      /\ \A d \in Checkers : checker'[d] = IF d = c THEN j ELSE checker[d]
      /\ Alone => Alone' /\ \A d \in Checkers : d = c \/ checker'[d].at = "idle"
  <2>1. /\ row' \in [Reminders -> [status: RowStatus, attempts: 0..MaxAttempts,
                                    retryAt: 0..MaxTime]]
        /\ \A n \in Reminders : row'[n].status = "NONE" => row'[n].attempts = 0
    BY <1>1 DEF IInv, Typed, TypeOK
  <2> QED  BY <1>1, <1>4, <1>5, <1>6, <1>7, <2>1, GoesOn
<1>9. Once'
  <2> SUFFICES ASSUME undisturbed'
               PROVE  Alone' /\ Recorded' /\ \A d \in Checkers : Fresh(checker[d], row)'
    BY DEF Once
  <2>1. undisturbed /\ Alone /\ Recorded /\ \A d \in Checkers : Fresh(checker[d], row)
    BY <1>7 DEF IInv, Once
  <2>2. \A d \in Checkers : Fresh(checker'[d], row')
    BY <1>1, <1>5, <1>8, <2>1 DEF Fresh
  <2>3. accepted <=> told
    BY <1>7
  <2>4. \A d \in Checkers : d # c => checker[d].at = "idle"
    BY <1>1, <2>1 DEF Alone
  <2>5. row[m].status # "SENT"
    BY <1>1, <2>1 DEF Fresh
  <2>6. delivered[m] # 1 /\ delivered[m] =< 1 /\ delivered[m] \in 0..2
    BY <1>1, <1>3, <2>1, <2>4, <2>5 DEF Recorded, IInv, Typed, TypeOK
  <2>7. ASSUME NEW n \in Reminders
        PROVE  /\ delivered'[n] =< 1
               /\ delivered'[n] = 1 =>
                     \/ row'[n].status = "SENT"
                     \/ \E d \in Checkers : checker'[d].at = "save" /\ checker'[d].rem = n
                                           /\ checker'[d].sent
    <3>1. CASE n = m
      BY <1>5, <1>7, <1>8, <2>3, <2>6, <3>1
    <3>2. CASE n # m
      <4>1. delivered'[n] = delivered[n]
        BY <1>7, <3>2
      <4>2. delivered[n] = 1 => row[n].status = "SENT"
        BY <1>1, <2>1, <2>4 DEF Recorded
      <4> QED  BY <1>1, <2>1, <4>1, <4>2 DEF Recorded
    <3> QED  BY <3>1, <3>2
  <2>8. Recorded'
    BY <2>7 DEF Recorded
  <2> QED  BY <1>8, <2>1, <2>2, <2>8
<1> QED  BY <1>8, <1>9 DEF IInv

LEMMA SaveReminderStep ==
    ASSUME IInv, NEW c \in Checkers, SaveReminder(c)
    PROVE  IInv'
<1> DEFINE job == checker[c]
           m == job.rem
           saved == [status   |-> IF job.sent THEN "SENT" ELSE "FAILED",
                     attempts |-> job.attempts + 1,
                     retryAt  |-> IF job.sent \/ job.now = MaxTime THEN 0 ELSE job.now + 1]
           j == Continue(job)
<1>1. /\ job.at = "save" /\ row' = [row EXCEPT ![m] = saved]
      /\ checker' = [checker EXCEPT ![c] = j]
      /\ UNCHANGED <<clock, records, events, history>>
  BY DEF SaveReminder
<1>2. job \in Jobs /\ Formed(job) /\ m \in Reminders
  BY <1>1, JobTypes DEF IInv, Formed
<1>3. /\ saved \in [status: RowStatus, attempts: 0..MaxAttempts, retryAt: 0..MaxTime]
      /\ saved.status = IF job.sent THEN "SENT" ELSE "FAILED"
  BY <1>2, Limits DEF Jobs, RowStatus
<1> HIDE DEF saved
<1>4. /\ row' \in [Reminders -> [status: RowStatus, attempts: 0..MaxAttempts,
                                  retryAt: 0..MaxTime]]
      /\ row'[m] = saved /\ \A n \in Reminders : n # m => row'[n] = row[n]
  BY <1>1, <1>2, <1>3 DEF IInv, Typed, TypeOK
<1>5. /\ j \in Jobs /\ Formed(j) /\ j.at \in {"idle", "next"}
      /\ j.at = "idle" \/ (j.now = job.now /\ j.live = job.live)
      /\ j.now = job.now \/ j.now = 0
      /\ j.retrying => job.retrying /\ j.todo = job.todo
  BY <1>2, ContinueJob DEF Formed
<1> HIDE DEF j
<1>6. /\ Typed' /\ Watched'
      /\ \A d \in Checkers : checker'[d] = IF d = c THEN j ELSE checker[d]
      /\ Alone => Alone' /\ \A d \in Checkers : d = c \/ checker'[d].at = "idle"
  <2>1. \A n \in Reminders : row'[n].status = "NONE" => row'[n].attempts = 0
    BY <1>3, <1>4 DEF IInv, Typed
  <2>2. delivered' \in [Reminders -> 0..2] /\ undisturbed' \in BOOLEAN
    BY <1>1 DEF IInv, Typed, TypeOK, history
  <2> QED  BY <1>1, <1>4, <1>5, <2>1, <2>2, GoesOn
<1>7. Once'
  <2> SUFFICES ASSUME undisturbed'
               PROVE  Alone' /\ Recorded' /\ \A d \in Checkers : Fresh(checker[d], row)'
    BY DEF Once
  <2>1. /\ undisturbed /\ Alone /\ Recorded /\ \A d \in Checkers : Fresh(checker[d], row)
        /\ delivered' = delivered
    BY <1>1 DEF IInv, Once, history
  <2>2. \A d \in Checkers : d # c => checker[d].at = "idle" /\ ~(checker[d].at = "save")
    BY <1>1, <2>1 DEF Alone
  <2>3. row[m].status # "SENT"
    BY <1>1, <2>1 DEF Fresh
  <2>4. ASSUME NEW n \in Reminders
        PROVE  delivered'[n] =< 1 /\ (delivered'[n] = 1 => row'[n].status = "SENT")
    <3>1. CASE n = m
      BY <1>3, <1>4, <2>1, <2>2, <2>3, <3>1 DEF Recorded
    <3>2. CASE n # m
      BY <1>4, <2>1, <2>2, <3>2 DEF Recorded
    <3> QED  BY <3>1, <3>2
  <2>5. Recorded'
    BY <2>4 DEF Recorded
  <2>6. Fresh(j, row')
    <3>1. \A x \in job.todo : x.rem \in Reminders
      BY <1>2 DEF Jobs, Todos
    <3> QED  BY <1>1, <1>4, <1>5, <2>1, <3>1 DEF Fresh
  <2>7. ASSUME NEW d \in Checkers, d # c PROVE Fresh(checker'[d], row')
    <3>1. ~checker[d].retrying
      BY <2>2, <2>7, JobTypes DEF IInv, Formed
    <3> QED  BY <1>6, <2>2, <2>7, <3>1 DEF Fresh
  <2> QED  BY <1>6, <2>1, <2>5, <2>6, <2>7
<1> QED  BY <1>6, <1>7 DEF IInv

LEMMA BeginCheckStep ==
    ASSUME IInv, NEW c \in Checkers, BeginCheck(c)
    PROVE  IInv'
<1> DEFINE live == {r \in Records : status[r] = "BORROWED"}
           j == [Idle EXCEPT !.at = "list", !.now = clock, !.live = live]
           calm == \A d \in Checkers : checker[d].at = "idle"
<1>1. /\ checker[c].at = "idle" /\ overdue' = MarkOverdue(clock)
      /\ checker' = [checker EXCEPT ![c] = j] /\ Observe(calm, {})
      /\ past' = [r \in Records |-> past[r] \cup {<<status[r], overdue'[r]>>}]
      /\ UNCHANGED <<clock, status, row, events>>
  BY DEF BeginCheck
<1>2. clock \in 0..MaxTime /\ live \subseteq Records
  BY DEF IInv, Typed, TypeOK
<1> HIDE DEF live
<1>3. /\ j \in Jobs /\ j.at = "list" /\ j.now = clock /\ j.live = live
      /\ ~j.retrying /\ j.todo = {}
  BY <1>2, IdleJob DEF Idle, Jobs, Steps
<1> HIDE DEF j
<1>4. Formed(j) /\ j.now =< clock /\ Fresh(j, row)
  BY <1>2, <1>3, Limits DEF Formed, Fresh
<1>5. /\ checker' \in [Checkers -> Jobs]
      /\ \A d \in Checkers : checker'[d].now =< clock /\ Formed(checker'[d])
      /\ \A d \in Checkers : checker'[d] = IF d = c THEN j ELSE checker[d]
  BY <1>1, <1>3, <1>4, NewJob DEF IInv
<1>6. /\ undisturbed' \in BOOLEAN /\ delivered' \in [Reminders -> 0..2]
      /\ undisturbed' => undisturbed /\ calm
      /\ undisturbed' => \A m \in Reminders : delivered'[m] = delivered[m]
  <2>1. calm \in BOOLEAN
    OBVIOUS
  <2> HIDE DEF calm
  <2> QED  BY <1>1, <2>1, Observed DEF IInv
<1>7. Typed'
  <2>1. overdue' \in [Records -> BOOLEAN]
    BY <1>1 DEF MarkOverdue, IInv, Typed, TypeOK
  <2>2. past' \in [Records -> SUBSET (BorrowStatus \X BOOLEAN)]
    <3>1. ASSUME NEW r \in Records
          PROVE  past[r] \cup {<<status[r], overdue'[r]>>} \in SUBSET (BorrowStatus \X BOOLEAN)
      BY <2>1 DEF IInv, Typed, TypeOK
    <3> QED  BY <1>1, <3>1
  <2> QED  BY <1>1, <1>5, <1>6, <2>1, <2>2, TypedAgain DEF IInv, Typed, TypeOK
<1>8. Watched'
  BY <1>1, <1>3, <1>5 DEF IInv, Watched, live
<1>9. Once'
  <2> SUFFICES ASSUME undisturbed'
               PROVE  Alone' /\ Recorded' /\ \A d \in Checkers : Fresh(checker[d], row)'
    BY DEF Once
  <2>1. undisturbed /\ calm /\ Recorded /\ \A d \in Checkers : Fresh(checker[d], row)
    BY <1>6 DEF IInv, Once
  <2>2. Alone'
    BY <1>5, <2>1 DEF Alone
  <2>3. Recorded'
    BY <1>1, <1>6, <2>1 DEF Recorded
  <2>4. \A d \in Checkers : Fresh(checker'[d], row')
    BY <1>1, <1>4, <1>5, <2>1
  <2> QED  BY <2>2, <2>3, <2>4
<1> QED  BY <1>7, <1>8, <1>9 DEF IInv

-----------------------------------------------------------------------------
(* Everything else                                                         *)

\* The checks under way learn of a record that becomes BORROWED.
LEMMA ChangeStep ==
    ASSUME IInv, NEW r \in Records, NEW to \in BorrowStatus, NEW late \in BOOLEAN,
           Change(r, to, late)
    PROVE  IInv'
<1>1. /\ events < MaxEvents /\ events' = events + 1
      /\ status' = [status EXCEPT ![r] = to]
      /\ overdue' = [overdue EXCEPT ![r] = late]
      /\ past' = [past EXCEPT ![r] = @ \cup {<<to, late>>}]
      /\ UNCHANGED <<clock, row, undisturbed, delivered>>
  BY DEF Change, history
<1>2. \A c \in Checkers : checker'[c] = IF to = "BORROWED" /\ checker[c].at # "idle"
                                       THEN [checker[c] EXCEPT !.live = @ \cup {r}]
                                       ELSE checker[c]
  BY DEF Change
<1>3. ASSUME NEW c \in Checkers
      PROVE  /\ checker'[c] \in Jobs /\ Formed(checker'[c])
             /\ checker'[c].at = checker[c].at /\ checker'[c].now = checker[c].now
             /\ checker'[c].retrying = checker[c].retrying
             /\ checker'[c].todo = checker[c].todo /\ checker'[c].rem = checker[c].rem
             /\ checker'[c].sent = checker[c].sent
             /\ checker[c].live \subseteq checker'[c].live
             /\ to = "BORROWED" /\ checker[c].at # "idle" => r \in checker'[c].live
  <2>1. checker[c] \in Jobs /\ Formed(checker[c])
    BY JobTypes DEF IInv
  <2> DEFINE k == [checker[c] EXCEPT !.live = @ \cup {r}]
  <2>2. /\ k \in Jobs /\ k.at = checker[c].at /\ k.now = checker[c].now
        /\ k.retrying = checker[c].retrying /\ k.todo = checker[c].todo
        /\ k.rem = checker[c].rem /\ k.sent = checker[c].sent
        /\ k.live = checker[c].live \cup {r}
    BY <2>1 DEF Jobs
  <2> HIDE DEF k
  <2>3. Formed(k)
    BY <2>1, <2>2 DEF Formed
  <2>4. CASE to = "BORROWED" /\ checker[c].at # "idle"
    <3>1. checker'[c] = k
      BY <1>2, <2>4 DEF k
    <3> QED  BY <2>2, <2>3, <3>1
  <2>5. CASE ~(to = "BORROWED" /\ checker[c].at # "idle")
    <3>1. checker'[c] = checker[c]
      BY <1>2, <2>5
    <3> QED  BY <2>1, <2>5, <3>1
  <2> QED  BY <2>4, <2>5
<1>4. checker' \in [Checkers -> Jobs]
  <2>1. checker' = [c \in Checkers |-> checker'[c]]
    BY DEF Change
  <2> QED  BY <1>3, <2>1
<1>5. Typed'
  <2>1. \A c \in Checkers : checker'[c].now =< clock' /\ Formed(checker'[c])
    BY <1>1, <1>3, JobTypes DEF IInv
  <2>2. /\ status' \in [Records -> BorrowStatus] /\ overdue' \in [Records -> BOOLEAN]
        /\ events' \in 0..MaxEvents
    BY <1>1, Limits DEF IInv, Typed, TypeOK
  <2>3. past' \in [Records -> SUBSET (BorrowStatus \X BOOLEAN)]
    BY <1>1 DEF IInv, Typed, TypeOK
  <2> QED  BY <1>1, <1>4, <2>1, <2>2, <2>3, TypedAgain DEF IInv, Typed, TypeOK
<1>6. Watched'
  BY <1>1, <1>3 DEF IInv, Watched, Typed, TypeOK
<1>7. Once'
  <2> SUFFICES ASSUME undisturbed'
               PROVE  Alone' /\ Recorded' /\ \A d \in Checkers : Fresh(checker[d], row)'
    BY DEF Once
  <2>1. undisturbed /\ Alone /\ Recorded /\ \A d \in Checkers : Fresh(checker[d], row)
    BY <1>1 DEF IInv, Once
  <2>2. Alone' /\ Recorded'
    BY <1>1, <1>3, <2>1 DEF Alone, Recorded
  <2>3. \A d \in Checkers : Fresh(checker'[d], row')
    BY <1>1, <1>3, <2>1 DEF Fresh
  <2> QED  BY <2>2, <2>3
<1> QED  BY <1>5, <1>6, <1>7 DEF IInv

LEMMA RecordStep ==
    ASSUME IInv, NEW r \in Records, CreateBorrowing(r) \/ Settle(r) \/ Edit(r)
    PROVE  IInv'
<1>1. CASE CreateBorrowing(r)
  BY <1>1, ChangeStep DEF CreateBorrowing, BorrowStatus
<1>2. CASE Settle(r)
  BY <1>2, ChangeStep DEF Settle, IInv, Typed, TypeOK
<1>3. CASE Edit(r)
  <2>1. PICK read \in past[r], to \in BorrowStatus : Change(r, to, read[2])
    BY <1>3 DEF Edit
  <2>2. read[2] \in BOOLEAN
    BY DEF IInv, Typed, TypeOK
  <2> QED  BY <2>1, <2>2, ChangeStep
<1> QED  BY <1>1, <1>2, <1>3

LEMMA TickStep == ASSUME IInv, Tick PROVE IInv'
<1>1. /\ clock' = clock + 1 /\ clock < MaxTime
      /\ UNCHANGED <<status, overdue, past, row, checker, events, undisturbed, delivered>>
  BY DEF Tick, records, history
<1>2. Typed'
  <2>1. clock \in Nat /\ clock' \in 0..MaxTime
    BY <1>1, Limits DEF IInv, Typed, TypeOK
  <2>2. ASSUME NEW c \in Checkers PROVE checker'[c].now =< clock'
    <3>1. checker[c].now \in 0..MaxTime /\ checker[c].now =< clock
      BY JobTypes DEF IInv, Jobs
    <3> QED  BY <1>1, <2>1, <3>1, Limits
  <2> QED  BY <1>1, <2>1, <2>2, TypedAgain DEF IInv, Typed, TypeOK
<1>3. Watched'
  BY <1>1 DEF IInv, Watched
<1>4. Once'
  BY <1>1 DEF IInv, Once, Alone, Recorded, Fresh
<1> QED  BY <1>2, <1>3, <1>4 DEF IInv

LEMMA RestartStep == ASSUME IInv, Restart PROVE IInv'
<1> DEFINE calm == \A c \in Checkers : checker[c].at = "idle"
<1>1. /\ events < MaxEvents /\ events' = events + 1
      /\ checker' = [c \in Checkers |-> Idle]
      /\ past' = [r \in Records |-> {<<status[r], overdue[r]>>}]
      /\ Observe(calm, {})
      /\ UNCHANGED <<clock, status, overdue, row>>
  BY DEF Restart
<1>2. checker' \in [Checkers -> Jobs] /\ \A c \in Checkers : checker'[c] = Idle
  BY <1>1, IdleJob
<1>3. /\ undisturbed' \in BOOLEAN /\ delivered' \in [Reminders -> 0..2]
      /\ undisturbed' => undisturbed /\ calm
      /\ undisturbed' => \A m \in Reminders : delivered'[m] = delivered[m]
  <2>1. calm \in BOOLEAN
    OBVIOUS
  <2> HIDE DEF calm
  <2> QED  BY <1>1, <2>1, Observed DEF IInv
<1>4. Typed'
  <2>1. past' \in [Records -> SUBSET (BorrowStatus \X BOOLEAN)]
    BY <1>1 DEF IInv, Typed, TypeOK
  <2>2. events' \in 0..MaxEvents
    BY <1>1, Limits DEF IInv, Typed, TypeOK
  <2>3. \A c \in Checkers : checker'[c].now =< clock' /\ Formed(checker'[c])
    BY <1>1, <1>2, IdleJob, Limits DEF IInv, Typed, TypeOK
  <2> QED  BY <1>1, <1>2, <1>3, <2>1, <2>2, <2>3, TypedAgain DEF IInv, Typed, TypeOK
<1>5. Watched'
  BY <1>2, IdleJob DEF Watched
<1>6. Once'
  <2> SUFFICES ASSUME undisturbed'
               PROVE  Alone' /\ Recorded' /\ \A d \in Checkers : Fresh(checker[d], row)'
    BY DEF Once
  <2>1. Alone' /\ \A d \in Checkers : Fresh(checker'[d], row')
    BY <1>2, IdleJob DEF Alone, Fresh
  <2>2. Recorded'
    BY <1>1, <1>3 DEF IInv, Once, Recorded
  <2> QED  BY <2>1, <2>2
<1> QED  BY <1>4, <1>5, <1>6 DEF IInv

LEMMA StutterStep == ASSUME IInv, UNCHANGED vars PROVE IInv'
<1>1. /\ UNCHANGED <<clock, status, overdue, past, row, checker, events, undisturbed,
                     delivered>>
  BY DEF vars
<1>2. Typed'
  BY <1>1 DEF IInv, Typed, TypeOK
<1>3. Watched' /\ Once'
  BY <1>1 DEF IInv, Watched, Once, Alone, Recorded, Fresh
<1> QED  BY <1>2, <1>3 DEF IInv

-----------------------------------------------------------------------------
(* What the steps of the specification come to                             *)

LEMMA InitInvariant == Init => IInv
<1> SUFFICES ASSUME Init PROVE IInv
  OBVIOUS
<1>1. checker \in [Checkers -> Jobs] /\ \A c \in Checkers : checker[c] = Idle
  BY IdleJob DEF Init
<1>2. TypeOK
  <2>1. past \in [Records -> SUBSET (BorrowStatus \X BOOLEAN)]
    <3>1. ASSUME NEW r \in Records
          PROVE  {<<status[r], FALSE>>} \in SUBSET (BorrowStatus \X BOOLEAN)
      <4>1. status[r] \in BorrowStatus
        BY DEF Init, BorrowStatus
      <4>2. FALSE \in BOOLEAN
        OBVIOUS
      <4>3. <<status[r], FALSE>> \in BorrowStatus \X BOOLEAN
        BY <4>1, <4>2, Zenon
      <4> QED  BY <4>3, Zenon
    <3> QED  BY <3>1 DEF Init
  <2>2. /\ status \in [Records -> BorrowStatus] /\ overdue \in [Records -> BOOLEAN]
        /\ clock \in 0..MaxTime /\ events \in 0..MaxEvents
        /\ row \in [Reminders -> [status: RowStatus, attempts: 0..MaxAttempts,
                                   retryAt: 0..MaxTime]]
        /\ delivered \in [Reminders -> 0..2] /\ undisturbed \in BOOLEAN
    BY Limits DEF Init, BorrowStatus, RowStatus
  <2>3. ASSUME NEW c \in Checkers
        PROVE  /\ checker[c].at \in Steps /\ checker[c].now \in 0..clock
               /\ checker[c].retrying \in BOOLEAN
               /\ checker[c].todo \subseteq [rem: Reminders, attempts: 0..MaxAttempts]
               /\ checker[c].rem \in Reminders \cup {<<>>}
               /\ checker[c].attempts \in 0..(MaxAttempts - 1)
               /\ checker[c].sent \in BOOLEAN /\ checker[c].live \subseteq Records
    <3>1. checker[c] = Idle /\ clock = 0
      BY <1>1 DEF Init
    <3> QED  BY <3>1, Limits DEF Idle, Steps
  <2> QED  BY <2>1, <2>2, <2>3 DEF TypeOK
<1>3. Typed
  BY <1>1, <1>2, IdleJob, Limits DEF Typed, Init
<1>4. Watched /\ Once
  BY <1>1, IdleJob DEF Init, Watched, Once, Alone, Recorded, Fresh
<1> QED  BY <1>3, <1>4 DEF IInv

LEMMA NextInvariant == IInv /\ [Next]_vars => IInv'
<1> SUFFICES ASSUME IInv, [Next]_vars PROVE IInv'
  OBVIOUS
<1>1. ASSUME NEW c \in Checkers, BeginCheck(c) \/ Check(c) PROVE IInv'
  BY <1>1, BeginCheckStep, ListBorrowedStep, ProcessStep, CreateStep, ListRetriesStep,
     RetryStep, SendStep, SaveReminderStep DEF Check
<1>2. ASSUME NEW r \in Records, CreateBorrowing(r) \/ Settle(r) \/ Edit(r) PROVE IInv'
  BY <1>2, RecordStep
<1> QED  BY <1>1, <1>2, TickStep, RestartStep, StutterStep DEF Next

\* The strengthening of the three invariants holds in every behaviour: what
\* a check has in its hands is well formed, was BORROWED since the check
\* began and, while checks are left alone, was not sent before.
THEOREM Inductive == Spec => []IInv
  BY InitInvariant, NextInvariant, PTL DEF Spec

\* Rows and checks are well typed and no row counts more than three attempts.
THEOREM TypeCorrect == Spec => []TypeOK
<1>1. IInv => TypeOK
  BY DEF IInv, Typed
<1> QED  BY <1>1, Inductive, PTL

\* A check reminds of no key that came back before it began.
THEOREM ReturnedLeftAlone == Spec => []NoReminderAfterReturn
<1>1. IInv => NoReminderAfterReturn
  BY DEF IInv, Typed, Formed, NoReminderAfterReturn
<1> QED  BY <1>1, Inductive, PTL

\* Checks that are left alone send each reminder at most once.
THEOREM SentOnce == Spec => []AloneSendsOnce
<1>1. IInv => AloneSendsOnce
  BY DEF IInv, Once, Recorded, AloneSendsOnce
<1> QED  BY <1>1, Inductive, PTL
=============================================================================
