-------------------------- MODULE BorrowReminders ---------------------------
(***************************************************************************)
(* Reminders for borrowed keys: CheckOverdue, run by the scheduler every   *)
(* five minutes and by anybody who calls POST /borrow-records/check-       *)
(* overdue, at the same time or not.                                       *)
(*                                                                         *)
(* A check marks overdue records, lists the BORROWED ones, sends a         *)
(* reminder for each that is due soon or overdue, and retries those whose  *)
(* sending failed.  Every statement on the database and every call of      *)
(* WeChat is a step of its own; Save writes back the whole row that was    *)
(* read.  Meanwhile the ledger moves the borrow records on, in its own     *)
(* transactions, and requests to borrow_service move them by a write of    *)
(* every column that goes by what they read before.                        *)
(*                                                                         *)
(* Time is a clock of which a step is longer than the backoff and the      *)
(* half hour of warning.                                                   *)
(***************************************************************************)
EXTENDS Naturals, FiniteSets

CONSTANTS
    Records,     \* borrow records
    DueAt,       \* expected_return_at
    Checkers,    \* callers of CheckOverdue
    Scheduler,   \* the one that comes back forever
    MaxTime,     \* where the clock stops
    MaxEvents    \* changes of a record and restarts of the server

MaxAttempts == 3

ASSUME RemindersAssumption ==
    /\ MaxTime \in Nat
    /\ DueAt \in [Records -> 0..MaxTime]
    /\ Scheduler \in Checkers
    /\ MaxEvents \in Nat

Reminders == Records \X {"APPROACHING_OVERDUE", "OVERDUE"}

VARIABLES
    clock,
    status,     \* borrow_records.status, "NONE" before the record is inserted
    overdue,    \* is overdue_at set?
    row,        \* the reminder of a record and type, status "NONE" while there is none
    checker,    \* the checks under way
    past,       \* status and overdue of a record when a request may have read it
    events,     \* changes and restarts so far
    undisturbed, \* history: no two checks at once, none killed, no answer lost
    delivered    \* history: until then, messages WeChat accepted for a reminder

vars == <<clock, status, overdue, row, checker, past, events, undisturbed,
          delivered>>

BorrowStatus == {"NONE", "BORROWING", "BORROWED", "RETURNING", "COMPLETED", "EXCEPTION"}
RowStatus    == {"NONE", "PENDING", "SENT", "FAILED"}

\* A check: the time it was called at, whether it retries already, what is
\* left of its list, the reminder in its hands and how its sending went; and,
\* as a history, the records BORROWED at some moment since it began.
Idle == [at |-> "idle", now |-> 0, retrying |-> FALSE, todo |-> {}, rem |-> <<>>,
         attempts |-> 0, sent |-> FALSE, live |-> {}]

Steps == {"idle", "list", "next", "create", "send", "save"}

\* A check is over with the last of its retries.
Continue(job) ==
    IF job.retrying /\ job.todo = {} THEN Idle
    ELSE [job EXCEPT !.at = "next", !.rem = <<>>, !.attempts = 0, !.sent = FALSE]

Todo(rem, attempts) == [rem |-> rem, attempts |-> attempts]

Init ==
    /\ clock = 0
    /\ status \in [Records -> {"NONE", "BORROWING", "BORROWED"}]
    /\ overdue = [r \in Records |-> FALSE]
    /\ row = [m \in Reminders |-> [status |-> "NONE", attempts |-> 0, retryAt |-> 0]]
    /\ checker = [c \in Checkers |-> Idle]
    /\ past = [r \in Records |-> {<<status[r], FALSE>>}]
    /\ events = 0
    /\ delivered = [m \in Reminders |-> 0]
    /\ undisturbed = TRUE

records == <<status, overdue, past>>
history == <<undisturbed, delivered>>

\* Counting ends when the history is disturbed.
Observe(calm, sent) ==
    /\ undisturbed' = (undisturbed /\ calm)
    /\ delivered' = [m \in Reminders |->
           IF ~undisturbed' THEN 0
           ELSE IF m \in sent /\ delivered[m] < 2 THEN delivered[m] + 1 ELSE delivered[m]]

-----------------------------------------------------------------------------
(* A check                                                                 *)

\* What is overdue after one UPDATE.
MarkOverdue(now) ==
    [r \in Records |-> overdue[r] \/ (status[r] = "BORROWED" /\ DueAt[r] < now)]

\* CheckOverdue takes the time and marks what is overdue.
BeginCheck(c) ==
    /\ checker[c].at = "idle"
    /\ overdue' = MarkOverdue(clock)
    /\ checker' = [checker EXCEPT ![c] =
           [Idle EXCEPT !.at = "list", !.now = clock,
                        !.live = {r \in Records : status[r] = "BORROWED"}]]
    /\ Observe(\A d \in Checkers : checker[d].at = "idle", {})
    /\ past' = [r \in Records |-> past[r] \cup {<<status[r], overdue'[r]>>}]
    /\ UNCHANGED <<clock, status, row, events>>

\* The reminders dispatchReminders asks for: of the records it lists.
Wanted(now) ==
    {m \in Reminders :
        /\ status[m[1]] = "BORROWED"
        /\ IF m[2] = "OVERDUE" THEN DueAt[m[1]] < now
           ELSE now =< DueAt[m[1]] /\ DueAt[m[1]] < now + 1}

ListBorrowed(c) ==
    /\ checker[c].at = "list"
    /\ checker' = [checker EXCEPT ![c].at = "next",
                                  ![c].todo = {Todo(m, 0) : m \in Wanted(checker[c].now)}]
    /\ UNCHANGED <<clock, records, row, events, history>>

\* Mutant: one attempt more than the limit.
DueOnceMore(m, now) == row[m].attempts =< MaxAttempts /\ row[m].retryAt =< now

Due(m, now) == row[m].attempts < MaxAttempts /\ row[m].retryAt =< now

\* Mutant: a reminder that has a row has been dealt with.
SkipExisting(m, now) == row[m].status # "NONE"

\* Mutant: what was sent is sent again when it is due.
SkipUndue(m, now) == row[m].status # "NONE" /\ ~Due(m, now)

\* processReminder leaves alone what was sent, was tried too often or is to
\* be tried later.
Skip(m, now) == row[m].status = "SENT" \/ (row[m].status # "NONE" /\ ~Due(m, now))

\* FindByRecordAndType; a PENDING row that a check left behind is taken up.
Process(c) ==
    /\ checker[c].at = "next"
    /\ ~checker[c].retrying
    /\ \E x \in checker[c].todo :
           LET m == x.rem
               left == [checker[c] EXCEPT !.todo = @ \ {x}]
           IN  checker' = [checker EXCEPT ![c] =
                   IF Skip(m, @.now) THEN left
                   ELSE [left EXCEPT !.at = IF row[m].status = "NONE" THEN "create" ELSE "send",
                                     !.rem = m, !.attempts = row[m].attempts]]
    /\ UNCHANGED <<clock, records, row, events, history>>

\* The unique index lets one check create the row, the other gives up.
Create(c) ==
    LET m == checker[c].rem
    IN  /\ checker[c].at = "create"
        /\ IF row[m].status = "NONE"
           THEN /\ row' = [row EXCEPT ![m].status = "PENDING"]
                /\ checker' = [checker EXCEPT ![c].at = "send"]
           ELSE /\ checker' = [checker EXCEPT ![c] = Continue(@)]
                /\ UNCHANGED row
        /\ UNCHANGED <<clock, records, events, history>>

\* FindPendingOrFailedRetries, which finds FAILED rows only.
ListRetries(c) ==
    /\ checker[c].at = "next"
    /\ ~checker[c].retrying
    /\ checker[c].todo = {}
    /\ LET failed == {m \in Reminders : row[m].status = "FAILED" /\ Due(m, checker[c].now)}
       IN  checker' = [checker EXCEPT ![c] =
               Continue([@ EXCEPT !.retrying = TRUE,
                                  !.todo = {Todo(m, row[m].attempts) : m \in failed}])]
    /\ UNCHANGED <<clock, records, row, events, history>>

\* Mutant: a retry does not look at the record again.
StillBorrowedUnread(r) == TRUE

StillBorrowed(r) == status[r] = "BORROWED"

\* retryFailedReminders goes by the row it listed and the record as it is now.
Retry(c) ==
    /\ checker[c].at = "next"
    /\ checker[c].retrying
    /\ \E x \in checker[c].todo :
           LET left == [checker[c] EXCEPT !.todo = @ \ {x}]
           IN  checker' = [checker EXCEPT ![c] =
                   IF StillBorrowed(x.rem[1])
                   THEN [left EXCEPT !.at = "send", !.rem = x.rem, !.attempts = x.attempts]
                   ELSE Continue(left)]
    /\ UNCHANGED <<clock, records, row, events, history>>

\* SendSubscribeMessage: accepted, refused, or accepted with the answer lost.
Send(c) ==
    /\ checker[c].at = "send"
    /\ \E accepted, told \in BOOLEAN :
           /\ told => accepted
           /\ checker' = [checker EXCEPT ![c].at = "save", ![c].sent = told]
           /\ Observe(accepted = told, IF accepted THEN {checker[c].rem} ELSE {})
    /\ UNCHANGED <<clock, records, row, events>>

\* Save: every column, from the row as it was read.  At the end of time what
\* failed may be tried again at once.
SaveReminder(c) ==
    LET m == checker[c].rem
        job == checker[c]
    IN  /\ job.at = "save"
        /\ row' = [row EXCEPT ![m] =
               [status   |-> IF job.sent THEN "SENT" ELSE "FAILED",
                attempts |-> job.attempts + 1,
                retryAt  |-> IF job.sent \/ job.now = MaxTime THEN 0 ELSE job.now + 1]]
        /\ checker' = [checker EXCEPT ![c] = Continue(@)]
        /\ UNCHANGED <<clock, records, events, history>>

-----------------------------------------------------------------------------
(* Everything else                                                         *)

\* A record gets a status; checks under way see which are BORROWED.
Change(r, to, late) ==
    /\ events < MaxEvents
    /\ events' = events + 1
    /\ status' = [status EXCEPT ![r] = to]
    /\ overdue' = [overdue EXCEPT ![r] = late]
    /\ past' = [past EXCEPT ![r] = @ \cup {<<to, late>>}]
    /\ checker' = [c \in Checkers |->
           IF to = "BORROWED" /\ checker[c].at # "idle"
           THEN [checker[c] EXCEPT !.live = @ \cup {r}] ELSE checker[c]]
    /\ UNCHANGED <<clock, row, history>>

\* A request inserts a record of its reservation, if there is none and no
\* other record of the key is active; the ledger does when a pickup is prepared.
CreateBorrowing(r) == status[r] = "NONE" /\ Change(r, "BORROWING", FALSE)

\* What the ledger makes of a record: verdicts on pickups and returns.
LedgerMoves ==
    {<<"BORROWING", "BORROWED">>, <<"BORROWING", "EXCEPTION">>, <<"BORROWED", "RETURNING">>,
     <<"RETURNING", "BORROWED">>, <<"RETURNING", "COMPLETED">>}

Settle(r) == \E to \in BorrowStatus :
    <<status[r], to>> \in LedgerMoves /\ Change(r, to, overdue[r])

\* MarkBorrowed, BeginReturn and CompleteReturn find the status they need and
\* later write every column, whatever has become of the record meanwhile.
EditMoves ==
    {<<"BORROWING", "BORROWED">>, <<"BORROWED", "RETURNING">>, <<"RETURNING", "COMPLETED">>}

Edit(r) == \E read \in past[r], to \in BorrowStatus :
    <<read[1], to>> \in EditMoves /\ Change(r, to, read[2])

Tick ==
    /\ clock < MaxTime
    /\ clock' = clock + 1
    /\ UNCHANGED <<records, row, checker, events, history>>

Restart ==
    /\ events < MaxEvents
    /\ events' = events + 1
    /\ checker' = [c \in Checkers |-> Idle]
    /\ past' = [r \in Records |-> {<<status[r], overdue[r]>>}]
    /\ Observe(\A c \in Checkers : checker[c].at = "idle", {})
    /\ UNCHANGED <<clock, status, overdue, row>>

-----------------------------------------------------------------------------
Check(c) ==
    \/ ListBorrowed(c) \/ Process(c) \/ Create(c) \/ ListRetries(c)
    \/ Retry(c) \/ Send(c) \/ SaveReminder(c)

Next ==
    \/ \E c \in Checkers : BeginCheck(c) \/ Check(c)
    \/ \E r \in Records : CreateBorrowing(r) \/ Settle(r) \/ Edit(r)
    \/ Tick \/ Restart

\* Time passes, the scheduler comes back and a check that was begun goes on.
Fairness ==
    /\ WF_vars(Tick)
    /\ WF_vars(BeginCheck(Scheduler))
    /\ \A c \in Checkers : WF_vars(Check(c))

Spec == Init /\ [][Next]_vars /\ Fairness

-----------------------------------------------------------------------------
(* Properties                                                              *)

\* Rows and checks keep their types; no reminder is tried more
\* often than the limit, as far as its row knows.
TypeOK ==
    /\ clock \in 0..MaxTime
    /\ status \in [Records -> BorrowStatus]
    /\ overdue \in [Records -> BOOLEAN]
    /\ row \in [Reminders -> [status: RowStatus, attempts: 0..MaxAttempts,
                              retryAt: 0..MaxTime]]
    /\ \A c \in Checkers :
           LET job == checker[c]
           IN  /\ job.at \in Steps
               /\ job.now \in 0..clock
               /\ job.retrying \in BOOLEAN
               /\ job.todo \subseteq [rem: Reminders, attempts: 0..MaxAttempts]
               /\ job.rem \in Reminders \cup {<<>>}
               /\ job.attempts \in 0..(MaxAttempts - 1)
               /\ job.sent \in BOOLEAN
               /\ job.live \subseteq Records
    /\ past \in [Records -> SUBSET (BorrowStatus \X BOOLEAN)]
    /\ events \in 0..MaxEvents
    /\ delivered \in [Reminders -> 0..2]
    /\ undisturbed \in BOOLEAN

\* As long as no two checks overlap, none is killed and no answer of WeChat
\* is lost, a user is reminded of a record at most once of each kind, however
\* sendings fail and are retried (borrow_service.go:278-307).
AloneSendsOnce == undisturbed => \A m \in Reminders : delivered[m] =< 1

\* A check that began after a key came back does not remind of it, though it
\* finds reminders left over from before (borrow_service.go:322-326).
NoReminderAfterReturn ==
    \A c \in Checkers : checker[c].at = "send" => checker[c].rem[1] \in checker[c].live

\* A user who keeps a key past its time is reminded of it, or reminding was
\* given up after three attempts, although checks die between their steps,
\* overlap and overwrite each other's rows (borrow_service.go:269-328).
OverdueReminded ==
    \A r \in Records :
        LET m == <<r, "OVERDUE">>
        IN  (clock > DueAt[r] /\ status[r] = "BORROWED") ~>
                \/ status[r] # "BORROWED"
                \/ row[m].status = "SENT"
                \/ row[m].attempts = MaxAttempts
=============================================================================
