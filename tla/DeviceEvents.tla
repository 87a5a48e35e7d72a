---------------------------- MODULE DeviceEvents ----------------------------
(***************************************************************************)
(* The server's MQTT gateway between a cabinet and the operation service:  *)
(* the reports of a cabinet (progress, RFID scan, verdicts, abort answers) *)
(* on their way in, and AbortOperation, which publishes an abort and waits *)
(* for the report that answers it.                                         *)
(*                                                                         *)
(* SetOrderMatters(false) gives every received packet a goroutine of its   *)
(* own, so the packets of one report, and of several, are handled side by  *)
(* side; what a goroutine does between two uses of the gateway's locks or  *)
(* of the database is one step.  A report is a message with its msgId; the *)
(* same report may arrive in several packets (QoS 1).  The operation       *)
(* service is its transactions: what the ledger then makes of a verdict is *)
(* module OperationLedger.  Handling a scan is one step here, where the    *)
(* ledger has the read, the update of the row and the event apart.         *)
(*                                                                         *)
(* The starter of an operation dispatches its command while others may     *)
(* already cancel it or time it out.                                       *)
(*                                                                         *)
(* A packet whose handler fails is not acknowledged.  Nothing here relies  *)
(* on the broker sending it again: a later packet of the same report may   *)
(* arrive or not.                                                          *)
(***************************************************************************)
EXTENDS Naturals, Sequences, Functions

CONSTANTS
    Operations,  \* returns, prepared and authorized when the model starts
    Reports,     \* messages of the cabinet, one msgId each
    About,       \* the operation a report names
    Stage,       \* data.stage of a report
    Failed,      \* reports with status FAILED or ERROR
    Carries,     \* the report in each PUBLISH packet the gateway may receive
    Calls,       \* calls of AbortOperation
    Aborts,      \* the operation a call is to abort
    Cancels,     \* calls made by CancelOperation; the timeout sweep makes the others
    MaxRestarts, \* how often the server process may restart
    NoCall       \* no abort waiter

ASSUME EventsAssumption ==
    /\ About \in [Reports -> Operations]
    /\ Stage \in [Reports -> STRING]
    /\ Failed \subseteq Reports
    /\ Carries \in Seq(Reports)
    /\ Aborts \in [Calls -> Operations]
    /\ Cancels \subseteq Calls
    /\ MaxRestarts \in Nat
    /\ NoCall \notin Calls

Packets == DOMAIN Carries

VARIABLES
    registered,  \* is handler set?
    pending,     \* packets that arrived before it was
    draining,    \* what RegisterEventHandler took over from pending
    packet,      \* how far the goroutine of a packet is
    seen,        \* seenMessages
    scanned,     \* operations with a recorded RFID_CONFIRMED
    verdict,     \* status of an operation
    starter,     \* how far the goroutine that dispatches an operation is
    published,   \* commands and aborts the cabinet may have been sent
    overtaken,   \* history: cancelled without an abort, after BeginExecution
    applied,     \* history: reports a handler has committed
    waiter,      \* abortWaiters
    answer,      \* the result waiting in the channel of a call
    call,        \* how far a call of AbortOperation is
    restarts     \* history: restarts so far

inbox    == <<registered, pending, draining>>
database == <<scanned, verdict, applied>>
aborting == <<waiter, answer, call>>
dispatch == <<starter, published>>
vars     == <<inbox, packet, seen, database, dispatch, overtaken, aborting, restarts>>

-----------------------------------------------------------------------------
(* Reports                                                                 *)

\* What handleIncoming makes of status and stage; all the words for a
\* completed abort become one.
EventType(r) ==
    IF r \in Failed THEN "FAILED"
    ELSE IF Stage[r] \in {"ABORTED", "CANCELLED", "ABORT_ACK"} THEN "ABORT_ACK"
    ELSE Stage[r]

AnswersAbort(r) == EventType(r) \in {"ABORT_ACK", "ABORT_FAILED"}

Busy  == {"received", "fresh", "handled"}   \* a goroutine is at work
Ended == {"acked", "unacked"}
PacketStates == {"out", "queued"} \cup Busy \cup Ended

Returned   == {"confirmed", "failed"}
CallStates == {"none", "waiting", "unsent", "done"} \cup Returned

\* Requests and sweeps begin when NewOperationService has returned, after the
\* waiting packets are processed.
Serving == registered /\ draining = <<>>

Live(o) == verdict[o] \in {"AUTHORIZED", "EXECUTING"}

\* The server is up and the operations have been prepared.
Init ==
    /\ registered = TRUE
    /\ pending = <<>>
    /\ draining = <<>>
    /\ packet = [p \in Packets |-> "out"]
    /\ seen = {}
    /\ scanned = {}
    /\ verdict = [o \in Operations |-> "AUTHORIZED"]
    /\ starter = [o \in Operations |-> "authorized"]
    /\ published = {}
    /\ overtaken = {}
    /\ applied = {}
    /\ waiter = [o \in Operations |-> NoCall]
    /\ answer = [c \in Calls |-> "none"]
    /\ call = [c \in Calls |-> "none"]
    /\ restarts = 0

-----------------------------------------------------------------------------
(* Dispatching                                                             *)

\* BeginExecution, unless the operation was cancelled or timed out before.
BeginExecution(o) ==
    /\ starter[o] = "authorized"
    /\ verdict[o] = "AUTHORIZED"
    /\ starter' = [starter EXCEPT ![o] = "begun"]
    /\ verdict' = [verdict EXCEPT ![o] = "EXECUTING"]
    /\ UNCHANGED <<inbox, packet, seen, scanned, applied, published, overtaken, aborting, restarts>>

\* The command is published after that transaction.
PublishCommand(o) ==
    /\ starter[o] = "begun"
    /\ starter' = [starter EXCEPT ![o] = "published"]
    /\ published' = published \cup {<<"command", o>>}
    /\ UNCHANGED <<inbox, packet, seen, database, overtaken, aborting, restarts>>

\* Publishing ends in an error, whether the command got through or not; an
\* operation with a verdict keeps it.
DispatchFails(o) ==
    /\ starter[o] = "published"
    /\ Live(o)
    /\ starter' = [starter EXCEPT ![o] = "gone"]
    /\ verdict' = [verdict EXCEPT ![o] = "FAILED"]
    /\ UNCHANGED <<inbox, packet, seen, scanned, applied, published, overtaken, aborting, restarts>>

-----------------------------------------------------------------------------
(* Receiving                                                               *)

\* A cabinet reports on a command it was sent and answers an abort.
Sent(r) == <<IF AnswersAbort(r) THEN "abort" ELSE "command", About[r]>> \in published

\* onMessage: event packets wait until a handler is there to take them.  The
\* packets about an operation come in the order of their numbers, which their
\* goroutines do not keep.  An answer may also be to an abort that an earlier
\* process published.
Receive(p) ==
    /\ packet[p] = "out"
    /\ Sent(Carries[p])
    /\ \A q \in 1..(p - 1) :
           About[Carries[q]] = About[Carries[p]] => packet[q] # "out"
    /\ packet' = [packet EXCEPT ![p] = IF registered THEN "received" ELSE "queued"]
    /\ pending' = IF registered THEN pending ELSE Append(pending, p)
    /\ UNCHANGED <<registered, draining, seen, database, aborting, dispatch, overtaken, restarts>>

\* Mutant: the packets that came early are forgotten.
RegisterAndForget ==
    /\ ~registered
    /\ registered' = TRUE
    /\ pending' = <<>>
    /\ UNCHANGED <<draining, packet, seen, database, aborting, dispatch, overtaken, restarts>>

\* RegisterEventHandler takes the waiting packets with it ...
RegisterEventHandler ==
    /\ ~registered
    /\ registered' = TRUE
    /\ draining' = pending
    /\ pending' = <<>>
    /\ UNCHANGED <<packet, seen, database, aborting, dispatch, overtaken, restarts>>

\* ... and processes them itself, one after the other, while new packets
\* are already being handled.
DrainNext ==
    /\ draining # <<>>
    /\ packet[Head(draining)] = "queued"
    /\ packet' = [packet EXCEPT ![Head(draining)] = "received"]
    /\ UNCHANGED <<inbox, seen, database, aborting, dispatch, overtaken, restarts>>

DrainedOne ==
    /\ draining # <<>>
    /\ packet[Head(draining)] \in Ended
    /\ draining' = Tail(draining)
    /\ UNCHANGED <<registered, pending, packet, seen, database, aborting, dispatch, overtaken, restarts>>

-----------------------------------------------------------------------------
(* Handling a report                                                       *)

\* Mutant: the id is entered when it is looked up, before the handler runs.
CheckAndMarkSeen(p) ==
    /\ packet[p] = "received"
    /\ packet' = [packet EXCEPT ![p] = IF Carries[p] \in seen THEN "acked" ELSE "fresh"]
    /\ seen' = seen \cup {Carries[p]}
    /\ UNCHANGED <<inbox, database, aborting, dispatch, overtaken, restarts>>

hasSeenMessage(r) == r \in seen

\* A report already handled is acknowledged again.
CheckSeen(p) ==
    /\ packet[p] = "received"
    /\ packet' = [packet EXCEPT ![p] = IF hasSeenMessage(Carries[p]) THEN "acked" ELSE "fresh"]
    /\ UNCHANGED <<inbox, seen, database, aborting, dispatch, overtaken, restarts>>

\* Mutant: a return is completed on the cabinet's word alone.
AcceptsAny(r) == TRUE

\* CompleteReturn refuses a success whose scan is not on record yet, unless
\* the operation is over.
Accepts(r) ==
    EventType(r) = "RETURN_SUCCESS" =>
        About[r] \in scanned \/ ~Live(About[r])

\* An event row is added unless the operation is over; one with its id may be
\* there already.
AppendEventIfActive(r) ==
    IF Live(About[r]) /\ EventType(r) = "RFID_CONFIRMED"
    THEN scanned \cup {About[r]} ELSE scanned

\* What OnDeviceEvent commits: nothing once the operation has a verdict.
Commit(r) ==
    LET o == About[r]
    IN  /\ verdict' = [verdict EXCEPT ![o] =
                CASE Live(o) /\ EventType(r) = "RETURN_SUCCESS" -> "SUCCESS"
                  [] Live(o) /\ EventType(r) = "FAILED"         -> "FAILED"
                  [] OTHER                                   -> @]
        /\ scanned' = AppendEventIfActive(r)
        /\ applied' = applied \cup {r}

Handle(p) ==
    /\ packet[p] = "fresh"
    /\ Accepts(Carries[p])
    /\ Commit(Carries[p])
    /\ packet' = [packet EXCEPT ![p] = "handled"]
    /\ UNCHANGED <<inbox, seen, aborting, dispatch, overtaken, restarts>>

\* The handler refuses the report or the database fails: no acknowledgement.
HandlerFails(p) ==
    /\ packet[p] = "fresh"
    /\ packet' = [packet EXCEPT ![p] = "unacked"]
    /\ UNCHANGED <<inbox, seen, database, aborting, dispatch, overtaken, restarts>>

\* Mutant: the answer goes to whoever waits, whatever operation it names.
SignalEveryone(r) ==
    IF AnswersAbort(r)
    THEN answer' = [c \in Calls |->
                       IF c \in {waiter[o] : o \in Operations} /\ answer[c] = "none"
                       THEN EventType(r) ELSE answer[c]]
    ELSE answer' = answer

\* Mutant: the cabinet's own word is passed on.
SignalStage(r) ==
    IF AnswersAbort(r)
    THEN answer' = [c \in Calls |->
                       IF c = waiter[About[r]] /\ answer[c] = "none"
                       THEN Stage[r] ELSE answer[c]]
    ELSE answer' = answer

\* signalAbort: the channel of a call holds one result, a second is dropped.
SignalAbort(r) ==
    IF AnswersAbort(r)
    THEN answer' = [c \in Calls |->
                       IF c = waiter[About[r]] /\ answer[c] = "none"
                       THEN EventType(r) ELSE answer[c]]
    ELSE answer' = answer

\* markMessageSeen, signalAbort and the acknowledgement.  A channel belongs
\* to one call, so looking it up and sending into it are one step.
Finish(p) ==
    /\ packet[p] = "handled"
    /\ seen' = seen \cup {Carries[p]}
    /\ SignalAbort(Carries[p])
    /\ packet' = [packet EXCEPT ![p] = "acked"]
    /\ UNCHANGED <<inbox, database, waiter, call, dispatch, overtaken, restarts>>

\* markMessageSeen drops ids older than an hour once there are over 4096.
Prune(r) ==
    /\ r \in seen
    /\ seen' = seen \ {r}
    /\ UNCHANGED <<inbox, packet, database, aborting, dispatch, overtaken, restarts>>

-----------------------------------------------------------------------------
(* AbortOperation                                                          *)

\* CancelOperation aborts what it found dispatched, the timeout sweep whatever
\* it found without a verdict.
FoundDispatched(c) ==
    IF c \in Cancels THEN verdict[Aborts[c]] = "EXECUTING" ELSE Live(Aborts[c])

\* Mutant: a second call takes the place of the first.
BeginAbortOverwrites(c) ==
    /\ Serving
    /\ call[c] = "none"
    /\ FoundDispatched(c)
    /\ waiter' = [waiter EXCEPT ![Aborts[c]] = c]
    /\ call' = [call EXCEPT ![c] = "waiting"]
    /\ published' = published \cup {<<"abort", Aborts[c]>>}
    /\ UNCHANGED <<inbox, packet, seen, database, answer, starter, overtaken, restarts>>

\* One call at a time waits for an operation; another is refused.  The abort
\* may be published before the command is.
BeginAbort(c) ==
    /\ Serving
    /\ call[c] = "none"
    /\ FoundDispatched(c)
    /\ IF waiter[Aborts[c]] = NoCall
       THEN /\ waiter' = [waiter EXCEPT ![Aborts[c]] = c]
            /\ call' = [call EXCEPT ![c] = "waiting"]
            /\ published' = published \cup {<<"abort", Aborts[c]>>}
       ELSE /\ call' = [call EXCEPT ![c] = "failed"]
            /\ UNCHANGED <<waiter, published>>
    /\ UNCHANGED <<inbox, packet, seen, database, answer, starter, overtaken, restarts>>

\* CancelOperation needs no abort for what it found AUTHORIZED; its starter
\* may be about to begin.
SkipAbort(c) ==
    /\ c \in Cancels
    /\ Serving
    /\ call[c] = "none"
    /\ verdict[Aborts[c]] = "AUTHORIZED"
    /\ call' = [call EXCEPT ![c] = "unsent"]
    /\ UNCHANGED <<inbox, packet, seen, database, waiter, answer, dispatch, overtaken, restarts>>

\* AbortOperation returns; the deferred delete goes by the operation's id, and
\* nobody reads the channel of the call any more.
ReturnFrom(c, result) ==
    /\ call[c] = "waiting"
    /\ call' = [call EXCEPT ![c] = result]
    /\ waiter' = [waiter EXCEPT ![Aborts[c]] = NoCall]
    /\ answer' = [answer EXCEPT ![c] = "none"]
    /\ UNCHANGED <<inbox, packet, seen, database, dispatch, overtaken, restarts>>

\* The answer came in time: err == nil is a confirmed abort.
TakeAnswer(c) ==
    /\ answer[c] # "none"
    /\ ReturnFrom(c, IF answer[c] = "ABORT_ACK" THEN "confirmed" ELSE "failed")

\* Mutant: the timeout path leaves the waiter behind.
GiveUpKeepsWaiter(c) ==
    /\ call[c] = "waiting"
    /\ call' = [call EXCEPT ![c] = "failed"]
    /\ UNCHANGED <<inbox, packet, seen, database, waiter, answer, dispatch, overtaken, restarts>>

\* The abort cannot be published, its timer fires or the request's context
\* ends, perhaps with an answer already in the channel.
GiveUp(c) == ReturnFrom(c, "failed")

\* CancelOperation cancels after a confirmed abort, or without one what it
\* had found AUTHORIZED; the sweep times the operation out whatever became of
\* the abort.  Neither replaces a verdict.
ConcludeCall(c) ==
    LET o == Aborts[c]
        outcome == CASE c \notin Cancels                      -> "TIMEOUT"
                     [] call[c] \in {"confirmed", "unsent"}   -> "CANCELLED"
                     [] OTHER                                 -> verdict[o]
    IN  /\ call[c] \in Returned \cup {"unsent"}
        /\ call' = [call EXCEPT ![c] = "done"]
        /\ verdict' = [verdict EXCEPT ![o] = IF Live(o) THEN outcome ELSE @]
        /\ overtaken' = IF call[c] = "unsent" /\ verdict[o] = "EXECUTING"
                        THEN overtaken \cup {o} ELSE overtaken
        /\ UNCHANGED <<inbox, packet, seen, scanned, applied, waiter, answer, dispatch, restarts>>

-----------------------------------------------------------------------------
(* The server dies and starts again: tables and goroutines are gone, the   *)
(* database stays, packets not acknowledged stay so.                       *)

Restart ==
    /\ restarts < MaxRestarts
    /\ restarts' = restarts + 1
    /\ registered' = FALSE
    /\ pending' = <<>>
    /\ draining' = <<>>
    /\ packet' = [p \in Packets |-> IF packet[p] \in Busy \cup {"queued"}
                                    THEN "unacked" ELSE packet[p]]
    /\ seen' = {}
    /\ waiter' = [o \in Operations |-> NoCall]
    /\ answer' = [c \in Calls |-> "none"]
    /\ call' = [c \in Calls |-> IF call[c] = "none" THEN "none" ELSE "done"]
    /\ starter' = [o \in Operations |-> "gone"]
    /\ UNCHANGED <<database, published, overtaken>>

-----------------------------------------------------------------------------
Work(p) == CheckSeen(p) \/ Handle(p) \/ HandlerFails(p) \/ Finish(p)

Progress(c) ==
    TakeAnswer(c) \/ GiveUp(c) \/ ConcludeCall(c)

Next ==
    \/ RegisterEventHandler \/ DrainNext \/ DrainedOne \/ Restart
    \/ \E p \in Packets : Receive(p) \/ Work(p)
    \/ \E r \in Reports : Prune(r)
    \/ \E o \in Operations : BeginExecution(o) \/ PublishCommand(o) \/ DispatchFails(o)
    \/ \E c \in Calls : BeginAbort(c) \/ SkipAbort(c) \/ Progress(c)

Spec == Init /\ [][Next]_vars

-----------------------------------------------------------------------------
(* Properties                                                              *)

\* The gateway's tables, goroutines and calls keep their types.
TypeOK ==
    /\ registered \in BOOLEAN
    /\ pending \in Seq(Packets)
    /\ draining \in Seq(Packets)
    /\ packet \in [Packets -> PacketStates]
    /\ seen \subseteq Reports
    /\ scanned \subseteq Operations
    /\ verdict \in [Operations ->
        {"AUTHORIZED", "EXECUTING", "SUCCESS", "FAILED", "TIMEOUT", "CANCELLED"}]
    /\ starter \in [Operations -> {"authorized", "begun", "published", "gone"}]
    /\ published \subseteq {"command", "abort"} \X Operations
    /\ overtaken \subseteq Operations
    /\ applied \subseteq Reports
    /\ waiter \in [Operations -> Calls \cup {NoCall}]
    /\ answer \in [Calls -> {"none", "ABORT_ACK", "ABORT_FAILED"}]
    /\ call \in [Calls -> CallStates]
    /\ restarts \in 0..MaxRestarts

\* A packet is acknowledged, and a msgId counted as handled, only after a
\* handler has committed its report: side by side with a second packet of
\* the same report, after a failed attempt and across a restart, no report
\* is swallowed as a duplicate of one that never took effect
\* (mqtt_gateway.go:459-498).
AckedMeansApplied ==
    /\ \A p \in Packets : packet[p] = "acked" => Carries[p] \in applied
    /\ seen \subseteq applied

\* A success is believed only with the RFID scan of the same operation on
\* record, in whatever order their goroutines run and however often either
\* arrives (operation_repository.go:329-340).
ReturnVerified ==
    \A o \in Operations : verdict[o] = "SUCCESS" => o \in scanned

\* An abort call at work is the registered waiter of its operation, so the
\* answer can reach it: neither a second call for the operation nor the
\* clean-up of another one removes it (mqtt_gateway.go:206-219).
WaiterReachable ==
    \A c \in Calls : call[c] = "waiting" => waiter[Aborts[c]] = c

\* An operation that was sent to the cabinet is CANCELLED only when the cabinet
\* confirmed an abort of that same operation, not by an answer about another
\* one, a late verdict or a timeout, and one cancelled before it was begun is
\* never sent.  The exception is the code's: a CancelOperation that read
\* AUTHORIZED and came to its Cancel after BeginExecution cancels a running
\* operation without an abort (operation_service.go:285-313, 520-532).
CancelledMeansStopped ==
    \A o \in Operations : verdict[o] = "CANCELLED" =>
        \/ \E r \in applied : About[r] = o /\ EventType(r) = "ABORT_ACK"
        \/ <<"command", o>> \notin published
        \/ o \in overtaken

\* A packet that came before the handler was registered is never forgotten:
\* it is waiting to be taken over or in the list the registering goroutine
\* works through, also with packets and a restart in between
\* (mqtt_gateway.go:180-190).
EarlyPacketsKept ==
    \A p \in Packets : packet[p] = "queued" => p \in Range(pending) \cup Range(draining)

\* A registered waiter belongs to a call that is still waiting: a call that
\* ended, answered or not, leaves its operation free for the next abort
\* instead of refusing every later one (mqtt_gateway.go:209-219).
NoStaleWaiter ==
    \A o \in Operations : waiter[o] # NoCall =>
        Aborts[waiter[o]] = o /\ call[waiter[o]] = "waiting"
=============================================================================
