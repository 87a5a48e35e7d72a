------------------------- MODULE DeviceEventsProofs -------------------------
(***************************************************************************)
(* The safety properties of DeviceEvents, for any number of packets,       *)
(* reports, operations, aborts and restarts, from one inductive invariant. *)
(***************************************************************************)
EXTENDS DeviceEvents, TLAPS

\* A goroutine past its handler has had its report committed.
HandledApplied ==
    \A p \in Packets : packet[p] = "handled" => Carries[p] \in applied

\* The cabinet said that it stopped o.
Stopped(o) == \E r \in applied : About[r] = o /\ EventType(r) = "ABORT_ACK"

\* A result in a call's channel, and the call that took it, are about the
\* operation the call is to abort.
AnswerIsOurs ==
    \A c \in Calls : answer[c] = "ABORT_ACK" \/ call[c] = "confirmed" => Stopped(Aborts[c])

\* Nothing is left to drain before a handler is registered.
DrainAfterRegister == ~registered => draining = <<>>

\* What was cancelled before it was begun, with no abort, has not been sent, and
\* its starter will not begin it.
CancelledUnsent ==
    \A o \in Operations : verdict[o] = "CANCELLED" =>
        \/ Stopped(o)
        \/ <<"command", o>> \notin published /\ starter[o] # "begun"
        \/ o \in overtaken

\* Only a begun operation is sent.
BegunFirst ==
    \A o \in Operations : verdict[o] = "AUTHORIZED" =>
        <<"command", o>> \notin published /\ starter[o] \in {"authorized", "gone"}

\* The strengthening, by the part of the state a step can disturb.
InboxInv   == DrainAfterRegister /\ EarlyPacketsKept
ReportInv  == HandledApplied /\ AckedMeansApplied
VerdictInv == ReturnVerified /\ CancelledUnsent /\ BegunFirst
CallInv    == WaiterReachable /\ NoStaleWaiter

IInv ==
    /\ TypeOK
    /\ InboxInv
    /\ ReportInv
    /\ VerdictInv
    /\ AnswerIsOurs
    /\ CallInv

-----------------------------------------------------------------------------
(* Frames                                                                  *)

LEMMA ReportTypes ==
    \A p \in Packets : Carries[p] \in Reports /\ About[Carries[p]] \in Operations
BY EventsAssumption DEF Packets

LEMMA InboxFrame == InboxInv /\ UNCHANGED <<inbox, packet>> => InboxInv'
BY DEF InboxInv, DrainAfterRegister, EarlyPacketsKept, inbox

LEMMA ReportFrame == ReportInv /\ UNCHANGED <<packet, seen, applied>> => ReportInv'
BY DEF ReportInv, HandledApplied, AckedMeansApplied

LEMMA VerdictFrame == VerdictInv /\ UNCHANGED <<database, dispatch, overtaken>> => VerdictInv'
BY DEF VerdictInv, ReturnVerified, CancelledUnsent, BegunFirst, Stopped, database, dispatch

LEMMA AnswerFrame == AnswerIsOurs /\ UNCHANGED <<answer, call, applied>> => AnswerIsOurs'
BY DEF AnswerIsOurs, Stopped

LEMMA CallFrame == CallInv /\ UNCHANGED <<waiter, call>> => CallInv'
BY DEF CallInv, WaiterReachable, NoStaleWaiter

LEMMA InitInvariant == Init => IInv
<1> SUFFICES ASSUME Init PROVE IInv
  OBVIOUS
<1> USE DEF Init
<1>1. TypeOK
  <2>1. pending \in Seq(Packets) /\ draining \in Seq(Packets)
    OBVIOUS
  <2>2. packet \in [Packets -> PacketStates] /\ call \in [Calls -> CallStates]
    BY DEF PacketStates, CallStates
  <2>3. waiter \in [Operations -> Calls \cup {NoCall}] /\ restarts \in 0..MaxRestarts
    BY EventsAssumption
  <2> QED  BY <2>1, <2>2, <2>3 DEF TypeOK
<1>2. InboxInv /\ ReportInv
  BY DEF InboxInv, DrainAfterRegister, EarlyPacketsKept, ReportInv, HandledApplied,
         AckedMeansApplied
<1>3. VerdictInv /\ AnswerIsOurs
  BY DEF VerdictInv, ReturnVerified, CancelledUnsent, BegunFirst, AnswerIsOurs
<1>4. CallInv
  BY EventsAssumption DEF CallInv, WaiterReachable, NoStaleWaiter
<1> QED  BY <1>1, <1>2, <1>3, <1>4 DEF IInv

-----------------------------------------------------------------------------
(* Dispatching                                                             *)

LEMMA BeginExecutionStep ==
    ASSUME IInv, NEW o \in Operations, BeginExecution(o)
    PROVE  IInv'
<1>1. /\ TypeOK /\ InboxInv /\ ReportInv /\ VerdictInv /\ AnswerIsOurs /\ CallInv
      /\ verdict[o] = "AUTHORIZED" /\ verdict' = [verdict EXCEPT ![o] = "EXECUTING"]
      /\ starter' = [starter EXCEPT ![o] = "begun"]
      /\ UNCHANGED <<inbox, packet, seen, scanned, applied, published, overtaken, aborting, restarts>>
  BY DEF IInv, BeginExecution
<1>2. TypeOK'
  BY <1>1 DEF TypeOK, inbox, aborting
<1>3. VerdictInv'
  BY <1>1 DEF VerdictInv, ReturnVerified, CancelledUnsent, BegunFirst, Stopped, TypeOK
<1>4. InboxInv' /\ ReportInv' /\ AnswerIsOurs' /\ CallInv'
  BY <1>1, InboxFrame, ReportFrame, AnswerFrame, CallFrame DEF aborting
<1> QED  BY <1>1, <1>2, <1>3, <1>4 DEF IInv

\* What is published was begun, so it was not cancelled before.
LEMMA PublishCommandStep ==
    ASSUME IInv, NEW o \in Operations, PublishCommand(o)
    PROVE  IInv'
<1>1. /\ TypeOK /\ InboxInv /\ ReportInv /\ VerdictInv /\ AnswerIsOurs /\ CallInv
      /\ starter[o] = "begun" /\ starter' = [starter EXCEPT ![o] = "published"]
      /\ published' = published \cup {<<"command", o>>}
      /\ UNCHANGED <<inbox, packet, seen, database, overtaken, aborting, restarts>>
  BY DEF IInv, PublishCommand
<1>2. TypeOK'
  BY <1>1 DEF TypeOK, inbox, database, aborting
<1>3. VerdictInv'
  <2>1. verdict[o] # "AUTHORIZED"
    BY <1>1 DEF VerdictInv, BegunFirst
  <2>2. \A q \in Operations \ {o} : starter'[q] = starter[q]
                                  /\ (<<"command", q>> \in published' <=> <<"command", q>> \in published)
    BY <1>1 DEF TypeOK
  <2>3. verdict[o] = "CANCELLED" => Stopped(o) \/ o \in overtaken
    BY <1>1 DEF VerdictInv, CancelledUnsent
  <2> QED  BY <1>1, <2>1, <2>2, <2>3 DEF VerdictInv, ReturnVerified, CancelledUnsent, BegunFirst,
                                         Stopped, database
<1>4. InboxInv' /\ ReportInv' /\ AnswerIsOurs' /\ CallInv'
  BY <1>1, InboxFrame, ReportFrame, AnswerFrame, CallFrame DEF database, aborting
<1> QED  BY <1>1, <1>2, <1>3, <1>4 DEF IInv

LEMMA DispatchFailsStep ==
    ASSUME IInv, NEW o \in Operations, DispatchFails(o)
    PROVE  IInv'
<1>1. /\ TypeOK /\ InboxInv /\ ReportInv /\ VerdictInv /\ AnswerIsOurs /\ CallInv
      /\ verdict' = [verdict EXCEPT ![o] = "FAILED"]
      /\ starter' = [starter EXCEPT ![o] = "gone"]
      /\ UNCHANGED <<inbox, packet, seen, scanned, applied, published, overtaken, aborting, restarts>>
  BY DEF IInv, DispatchFails
<1>2. TypeOK'
  BY <1>1 DEF TypeOK, inbox, aborting
<1>3. VerdictInv'
  BY <1>1 DEF VerdictInv, ReturnVerified, CancelledUnsent, BegunFirst, Stopped, TypeOK
<1>4. InboxInv' /\ ReportInv' /\ AnswerIsOurs' /\ CallInv'
  BY <1>1, InboxFrame, ReportFrame, AnswerFrame, CallFrame DEF aborting
<1> QED  BY <1>1, <1>2, <1>3, <1>4 DEF IInv

-----------------------------------------------------------------------------
(* Receiving                                                               *)

LEMMA ReceiveStep ==
    ASSUME IInv, NEW p \in Packets, Receive(p)
    PROVE  IInv'
<1>1. /\ TypeOK /\ InboxInv /\ ReportInv /\ VerdictInv /\ AnswerIsOurs /\ CallInv
      /\ UNCHANGED <<registered, draining, seen, database, aborting, dispatch, overtaken, restarts>>
  BY DEF IInv, Receive
<1>2. TypeOK'
  BY <1>1 DEF Receive, TypeOK, PacketStates, Busy, database, aborting, dispatch
<1>3. InboxInv'
  <2>1. CASE registered
    BY <1>1, <2>1 DEF Receive, InboxInv, TypeOK, DrainAfterRegister, EarlyPacketsKept
  <2>2. CASE ~registered
    <3>1. pending' = Append(pending, p) /\ packet' = [packet EXCEPT ![p] = "queued"]
      BY <2>2 DEF Receive
    <3>2. \A q \in Range(pending) \cup {p} : q \in Range(pending')
      <4>1. pending \in Seq(Packets)
        BY <1>1 DEF TypeOK
      <4>2. /\ DOMAIN pending' = 1..(Len(pending) + 1)
            /\ pending'[Len(pending) + 1] = p
            /\ \A i \in 1..Len(pending) : pending'[i] = pending[i]
        BY <3>1, <4>1
      <4> QED  BY <4>1, <4>2 DEF Range
    <3>3. EarlyPacketsKept'
      BY <1>1, <3>1, <3>2 DEF InboxInv, EarlyPacketsKept, TypeOK
    <3> QED  BY <1>1, <3>3 DEF InboxInv, DrainAfterRegister
  <2> QED  BY <2>1, <2>2
<1>4. ReportInv'
  BY <1>1 DEF Receive, ReportInv, HandledApplied, AckedMeansApplied, TypeOK, database
<1>5. VerdictInv' /\ AnswerIsOurs' /\ CallInv'
  BY <1>1, VerdictFrame, AnswerFrame, CallFrame DEF database, aborting
<1> QED  BY <1>2, <1>3, <1>4, <1>5 DEF IInv

LEMMA RegisterEventHandlerStep ==
    ASSUME IInv, RegisterEventHandler
    PROVE  IInv'
<1>1. /\ TypeOK /\ InboxInv /\ ReportInv /\ VerdictInv /\ AnswerIsOurs /\ CallInv
      /\ UNCHANGED <<packet, seen, database, aborting, dispatch, overtaken, restarts>>
  BY DEF IInv, RegisterEventHandler
<1>2. TypeOK'
  BY <1>1 DEF RegisterEventHandler, TypeOK, database, aborting, dispatch
<1>3. InboxInv'
  <2>1. draining = <<>> /\ draining' = pending /\ registered'
    BY <1>1 DEF RegisterEventHandler, InboxInv, DrainAfterRegister
  <2>2. Range(draining) = {}
    BY <2>1 DEF Range
  <2> QED  BY <1>1, <2>1, <2>2 DEF InboxInv, DrainAfterRegister, EarlyPacketsKept
<1>4. ReportInv' /\ VerdictInv' /\ AnswerIsOurs' /\ CallInv'
  BY <1>1, ReportFrame, VerdictFrame, AnswerFrame, CallFrame DEF database, aborting
<1> QED  BY <1>2, <1>3, <1>4 DEF IInv

LEMMA DrainNextStep ==
    ASSUME IInv, DrainNext
    PROVE  IInv'
<1>1. /\ TypeOK /\ InboxInv /\ ReportInv /\ VerdictInv /\ AnswerIsOurs /\ CallInv
      /\ UNCHANGED <<inbox, seen, database, aborting, dispatch, overtaken, restarts>>
  BY DEF IInv, DrainNext
<1>2. TypeOK'
  BY <1>1 DEF DrainNext, TypeOK, PacketStates, Busy, inbox, database, aborting, dispatch
<1>3. InboxInv'
  BY <1>1 DEF DrainNext, InboxInv, DrainAfterRegister, EarlyPacketsKept, TypeOK, inbox
<1>4. ReportInv'
  BY <1>1 DEF DrainNext, ReportInv, HandledApplied, AckedMeansApplied, TypeOK, database
<1>5. VerdictInv' /\ AnswerIsOurs' /\ CallInv'
  BY <1>1, VerdictFrame, AnswerFrame, CallFrame DEF database, aborting
<1> QED  BY <1>2, <1>3, <1>4, <1>5 DEF IInv

LEMMA DrainedOneStep ==
    ASSUME IInv, DrainedOne
    PROVE  IInv'
<1>1. /\ TypeOK /\ InboxInv /\ ReportInv /\ VerdictInv /\ AnswerIsOurs /\ CallInv
      /\ UNCHANGED <<registered, pending, packet, seen, database, aborting, dispatch, overtaken, restarts>>
  BY DEF IInv, DrainedOne
<1>2. /\ draining # <<>> /\ draining' = Tail(draining) /\ draining \in Seq(Packets)
      /\ packet[Head(draining)] # "queued"
  BY <1>1 DEF DrainedOne, Ended, TypeOK
<1>3. TypeOK'
  BY <1>1, <1>2 DEF TypeOK, database, aborting, dispatch
<1>4. InboxInv'
  <2>1. \A q \in Range(draining) : q = Head(draining) \/ q \in Range(draining')
    <3> SUFFICES ASSUME NEW i \in 1..Len(draining), i # 1
                 PROVE  draining[i] \in Range(draining')
      BY <1>2 DEF Range
    <3>1. i - 1 \in 1..Len(draining') /\ draining'[i - 1] = draining[i]
      BY <1>2
    <3>2. DOMAIN draining' = 1..Len(draining')
      BY <1>2
    <3> QED  BY <3>1, <3>2 DEF Range
  <2>2. EarlyPacketsKept'
    BY <1>1, <1>2, <2>1 DEF InboxInv, EarlyPacketsKept
  <2> QED  BY <1>1, <1>2, <2>2 DEF InboxInv, DrainAfterRegister
<1>5. ReportInv' /\ VerdictInv' /\ AnswerIsOurs' /\ CallInv'
  BY <1>1, ReportFrame, VerdictFrame, AnswerFrame, CallFrame DEF database, aborting
<1> QED  BY <1>3, <1>4, <1>5 DEF IInv

-----------------------------------------------------------------------------
(* Handling a report                                                       *)

\* A goroutine that has not run its handler, or ends without it, acknowledges
\* nothing but what was handled before.
LEMMA CheckSeenStep ==
    ASSUME IInv, NEW p \in Packets, CheckSeen(p)
    PROVE  IInv'
<1>1. /\ TypeOK /\ InboxInv /\ ReportInv /\ VerdictInv /\ AnswerIsOurs /\ CallInv
      /\ UNCHANGED <<inbox, seen, database, aborting, dispatch, overtaken, restarts>>
  BY DEF IInv, CheckSeen
<1>2. TypeOK'
  BY <1>1 DEF CheckSeen, TypeOK, PacketStates, Busy, Ended, inbox, database, aborting, dispatch
<1>3. InboxInv'
  BY <1>1 DEF CheckSeen, InboxInv, DrainAfterRegister, EarlyPacketsKept, TypeOK, inbox
<1>4. ReportInv'
  BY <1>1 DEF CheckSeen, hasSeenMessage, ReportInv, HandledApplied, AckedMeansApplied, TypeOK,
              database
<1>5. VerdictInv' /\ AnswerIsOurs' /\ CallInv'
  BY <1>1, VerdictFrame, AnswerFrame, CallFrame DEF database, aborting
<1> QED  BY <1>2, <1>3, <1>4, <1>5 DEF IInv

LEMMA HandlerFailsStep ==
    ASSUME IInv, NEW p \in Packets, HandlerFails(p)
    PROVE  IInv'
<1>1. /\ TypeOK /\ InboxInv /\ ReportInv /\ VerdictInv /\ AnswerIsOurs /\ CallInv
      /\ UNCHANGED <<inbox, seen, database, aborting, dispatch, overtaken, restarts>>
  BY DEF IInv, HandlerFails
<1>2. TypeOK'
  BY <1>1 DEF HandlerFails, TypeOK, PacketStates, Ended, inbox, database, aborting, dispatch
<1>3. InboxInv'
  BY <1>1 DEF HandlerFails, InboxInv, DrainAfterRegister, EarlyPacketsKept, TypeOK, inbox
<1>4. ReportInv'
  BY <1>1 DEF HandlerFails, ReportInv, HandledApplied, AckedMeansApplied, TypeOK, database
<1>5. VerdictInv' /\ AnswerIsOurs' /\ CallInv'
  BY <1>1, VerdictFrame, AnswerFrame, CallFrame DEF database, aborting
<1> QED  BY <1>2, <1>3, <1>4, <1>5 DEF IInv

LEMMA HandleStep ==
    ASSUME IInv, NEW p \in Packets, Handle(p)
    PROVE  IInv'
<1> DEFINE r == Carries[p]
           o == About[r]
<1>1. /\ TypeOK /\ InboxInv /\ ReportInv /\ VerdictInv /\ AnswerIsOurs /\ CallInv
      /\ packet[p] = "fresh" /\ Accepts(r) /\ packet' = [packet EXCEPT ![p] = "handled"]
      /\ UNCHANGED <<inbox, seen, aborting, dispatch, overtaken, restarts>>
  BY DEF IInv, Handle
<1>2. r \in Reports /\ o \in Operations
  BY ReportTypes
<1>3. /\ applied' = applied \cup {r}
      /\ scanned \subseteq scanned' /\ scanned' \subseteq scanned \cup {o}
  BY DEF Handle, Commit, AppendEventIfActive
<1>4. /\ verdict' \in [Operations ->
             {"AUTHORIZED", "EXECUTING", "SUCCESS", "FAILED", "TIMEOUT", "CANCELLED"}]
      /\ \A q \in Operations : \/ verdict'[q] = verdict[q]
                               \/ verdict'[q] = "FAILED"
                               \/ /\ q = o /\ Live(o)
                                  /\ verdict'[q] = "SUCCESS" /\ EventType(r) = "RETURN_SUCCESS"
  <2> DEFINE new == CASE Live(o) /\ EventType(r) = "RETURN_SUCCESS" -> "SUCCESS"
                      [] Live(o) /\ EventType(r) = "FAILED"         -> "FAILED"
                      [] OTHER                                      -> verdict[o]
  <2>1. verdict' = [verdict EXCEPT ![o] = new]
    BY <1>1, <1>2 DEF Handle, Commit, TypeOK
  <2>2. \/ new = verdict[o]
        \/ new = "FAILED"
        \/ Live(o) /\ new = "SUCCESS" /\ EventType(r) = "RETURN_SUCCESS"
    OBVIOUS
  <2> HIDE DEF new
  <2> QED  BY <1>1, <1>2, <2>1, <2>2 DEF TypeOK
<1>5. TypeOK'
  BY <1>1, <1>2, <1>3, <1>4 DEF TypeOK, PacketStates, Busy, inbox, aborting, dispatch
<1>6. InboxInv'
  BY <1>1 DEF InboxInv, DrainAfterRegister, EarlyPacketsKept, TypeOK, inbox
<1>7. ReportInv'
  BY <1>1, <1>3 DEF ReportInv, HandledApplied, AckedMeansApplied, TypeOK
<1>8. VerdictInv'
  <2>1. ReturnVerified'
    BY <1>1, <1>3, <1>4 DEF VerdictInv, ReturnVerified, Accepts
  <2>2. CancelledUnsent' /\ BegunFirst'
    BY <1>1, <1>3, <1>4 DEF VerdictInv, CancelledUnsent, BegunFirst, Stopped, dispatch
  <2> QED  BY <2>1, <2>2 DEF VerdictInv
<1>9. AnswerIsOurs'
  BY <1>1, <1>3 DEF AnswerIsOurs, Stopped, aborting
<1>10. CallInv'
  BY <1>1, CallFrame DEF aborting
<1> QED  BY <1>5, <1>6, <1>7, <1>8, <1>9, <1>10 DEF IInv

\* The answer that is passed on is about the operation of the call that gets
\* it, because a registered waiter is that of its own operation.
LEMMA FinishStep ==
    ASSUME IInv, NEW p \in Packets, Finish(p)
    PROVE  IInv'
<1> DEFINE r == Carries[p]
<1>1. /\ TypeOK /\ InboxInv /\ ReportInv /\ VerdictInv /\ AnswerIsOurs /\ CallInv
      /\ packet[p] = "handled" /\ seen' = seen \cup {r}
      /\ packet' = [packet EXCEPT ![p] = "acked"]
      /\ UNCHANGED <<inbox, database, waiter, call, dispatch, overtaken, restarts>>
  BY DEF IInv, Finish
<1>2. r \in Reports /\ About[r] \in Operations /\ r \in applied
  BY <1>1, ReportTypes DEF ReportInv, HandledApplied
<1>3. /\ answer' \in [Calls -> {"none", "ABORT_ACK", "ABORT_FAILED"}]
      /\ \A c \in Calls : \/ answer'[c] = answer[c]
                          \/ c = waiter[About[r]] /\ answer'[c] = EventType(r)
  <2>1. CASE AnswersAbort(r)
    <3>1. answer' = [c \in Calls |-> IF c = waiter[About[r]] /\ answer[c] = "none"
                                      THEN EventType(r) ELSE answer[c]]
      BY <2>1 DEF Finish, SignalAbort
    <3>2. EventType(r) \in {"ABORT_ACK", "ABORT_FAILED"}
      BY <2>1 DEF AnswersAbort
    <3> QED  BY <1>1, <3>1, <3>2 DEF TypeOK
  <2>2. CASE ~AnswersAbort(r)
    BY <1>1, <2>2 DEF Finish, SignalAbort, TypeOK
  <2> QED  BY <2>1, <2>2
<1>4. TypeOK'
  BY <1>1, <1>2, <1>3 DEF TypeOK, PacketStates, Ended, inbox, database, dispatch
<1>5. InboxInv'
  BY <1>1 DEF InboxInv, DrainAfterRegister, EarlyPacketsKept, TypeOK, inbox
<1>6. ReportInv'
  BY <1>1, <1>2 DEF ReportInv, HandledApplied, AckedMeansApplied, TypeOK, database
<1>7. VerdictInv' /\ CallInv'
  BY <1>1, VerdictFrame, CallFrame
<1>8. AnswerIsOurs'
  <2> SUFFICES ASSUME NEW c \in Calls, answer'[c] = "ABORT_ACK" \/ call[c] = "confirmed"
               PROVE  Stopped(Aborts[c])
    BY <1>1 DEF AnswerIsOurs, Stopped, database
  <2>1. CASE answer'[c] = answer[c] \/ call[c] = "confirmed"
    BY <1>1, <2>1 DEF AnswerIsOurs
  <2>2. CASE c = waiter[About[r]] /\ answer'[c] = EventType(r) /\ call[c] # "confirmed"
    <3>1. Aborts[c] = About[r]
      BY <1>1, <1>2, <2>2, EventsAssumption DEF CallInv, NoStaleWaiter
    <3> QED  BY <1>2, <2>2, <3>1 DEF Stopped
  <2> QED  BY <1>3, <2>1, <2>2
<1> QED  BY <1>4, <1>5, <1>6, <1>7, <1>8 DEF IInv

LEMMA PruneStep ==
    ASSUME IInv, NEW r \in Reports, Prune(r)
    PROVE  IInv'
<1>1. /\ TypeOK /\ InboxInv /\ ReportInv /\ VerdictInv /\ AnswerIsOurs /\ CallInv
      /\ UNCHANGED <<inbox, packet, database, aborting, dispatch, overtaken, restarts>>
  BY DEF IInv, Prune
<1>2. TypeOK' /\ ReportInv'
  BY <1>1 DEF Prune, TypeOK, ReportInv, HandledApplied, AckedMeansApplied, inbox, database, aborting, dispatch
<1>3. InboxInv' /\ VerdictInv' /\ AnswerIsOurs' /\ CallInv'
  BY <1>1, InboxFrame, VerdictFrame, AnswerFrame, CallFrame DEF database, aborting
<1> QED  BY <1>2, <1>3 DEF IInv

-----------------------------------------------------------------------------
(* AbortOperation                                                          *)

LEMMA BeginAbortStep ==
    ASSUME IInv, NEW c \in Calls, BeginAbort(c)
    PROVE  IInv'
<1> DEFINE o == Aborts[c]
<1>1. /\ TypeOK /\ InboxInv /\ ReportInv /\ VerdictInv /\ AnswerIsOurs /\ CallInv
      /\ call[c] = "none" /\ published' \in {published, published \cup {<<"abort", o>>}}
      /\ UNCHANGED <<inbox, packet, seen, database, answer, starter, overtaken, restarts>>
  BY DEF IInv, BeginAbort
<1>2. o \in Operations /\ c # NoCall
  BY EventsAssumption
<1>3. \/ /\ waiter[o] = NoCall /\ waiter' = [waiter EXCEPT ![o] = c]
         /\ call' = [call EXCEPT ![c] = "waiting"]
      \/ waiter' = waiter /\ call' = [call EXCEPT ![c] = "failed"]
  BY DEF BeginAbort
<1>4. TypeOK'
  BY <1>1, <1>2, <1>3 DEF TypeOK, CallStates, Returned, inbox, database
<1>5. AnswerIsOurs'
  BY <1>1, <1>3 DEF AnswerIsOurs, Stopped, TypeOK, database
<1>6. CallInv'
  <2>1. WaiterReachable'
    <3> SUFFICES ASSUME NEW d \in Calls, call'[d] = "waiting"
                 PROVE  waiter'[Aborts[d]] = d
      BY DEF WaiterReachable
    <3>1. Aborts[d] \in Operations /\ d # NoCall
      BY EventsAssumption
    <3>2. CASE d = c
      BY <1>1, <1>2, <1>3, <3>2 DEF TypeOK
    <3>3. CASE d # c
      <4>1. waiter[Aborts[d]] = d
        BY <1>1, <1>3, <3>3 DEF CallInv, WaiterReachable, TypeOK
      <4> QED  BY <1>1, <1>3, <3>1, <4>1 DEF TypeOK
    <3> QED  BY <3>2, <3>3
  <2>2. NoStaleWaiter'
    <3> SUFFICES ASSUME NEW q \in Operations, waiter'[q] # NoCall
                 PROVE  Aborts[waiter'[q]] = q /\ call'[waiter'[q]] = "waiting"
      BY DEF NoStaleWaiter
    <3>1. CASE waiter'[q] = waiter[q]
      <4>1. waiter[q] \in Calls /\ Aborts[waiter[q]] = q /\ call[waiter[q]] = "waiting"
        BY <1>1, <3>1 DEF CallInv, NoStaleWaiter, TypeOK
      <4> QED  BY <1>1, <1>3, <3>1, <4>1 DEF TypeOK
    <3>2. CASE waiter'[q] # waiter[q]
      <4>1. q = o /\ waiter'[q] = c /\ call'[c] = "waiting"
        BY <1>1, <1>2, <1>3, <3>2 DEF TypeOK
      <4> QED  BY <4>1
    <3> QED  BY <3>1, <3>2
  <2> QED  BY <2>1, <2>2 DEF CallInv
<1>7. InboxInv' /\ ReportInv'
  BY <1>1, InboxFrame, ReportFrame DEF database
<1>8. VerdictInv'
  <2>1. \A q \in Operations : <<"command", q>> \in published' <=> <<"command", q>> \in published
    BY <1>1
  <2> QED  BY <1>1, <2>1 DEF VerdictInv, ReturnVerified, CancelledUnsent, BegunFirst, Stopped, database
<1> QED  BY <1>4, <1>5, <1>6, <1>7, <1>8 DEF IInv

LEMMA SkipAbortStep ==
    ASSUME IInv, NEW c \in Calls, SkipAbort(c)
    PROVE  IInv'
<1>1. /\ TypeOK /\ InboxInv /\ ReportInv /\ VerdictInv /\ AnswerIsOurs /\ CallInv
      /\ call[c] = "none" /\ call' = [call EXCEPT ![c] = "unsent"]
      /\ UNCHANGED <<inbox, packet, seen, database, waiter, answer, dispatch, overtaken, restarts>>
  BY DEF IInv, SkipAbort
<1>2. TypeOK'
  BY <1>1 DEF TypeOK, CallStates, inbox, database, dispatch
<1>3. AnswerIsOurs' /\ CallInv'
  BY <1>1 DEF AnswerIsOurs, Stopped, CallInv, WaiterReachable, NoStaleWaiter, TypeOK, database
<1>4. InboxInv' /\ ReportInv' /\ VerdictInv'
  BY <1>1, InboxFrame, ReportFrame, VerdictFrame DEF database
<1> QED  BY <1>2, <1>3, <1>4 DEF IInv

\* A call that returns removes its own waiter and nobody else's.
LEMMA ReturnFromStep ==
    ASSUME IInv, NEW c \in Calls, NEW result \in Returned, ReturnFrom(c, result),
           result = "confirmed" => answer[c] = "ABORT_ACK"
    PROVE  IInv'
<1>1. /\ TypeOK /\ InboxInv /\ ReportInv /\ VerdictInv /\ AnswerIsOurs /\ CallInv
      /\ call[c] = "waiting" /\ call' = [call EXCEPT ![c] = result]
      /\ waiter' = [waiter EXCEPT ![Aborts[c]] = NoCall]
      /\ answer' = [answer EXCEPT ![c] = "none"]
      /\ UNCHANGED <<inbox, packet, seen, database, dispatch, overtaken, restarts>>
  BY DEF IInv, ReturnFrom
<1>2. waiter[Aborts[c]] = c /\ Aborts[c] \in Operations /\ result # "waiting"
  BY <1>1, EventsAssumption DEF CallInv, WaiterReachable, Returned
<1>3. TypeOK'
  BY <1>1, <1>2 DEF TypeOK, CallStates, Returned, inbox, database, dispatch
<1>4. AnswerIsOurs'
  BY <1>1 DEF AnswerIsOurs, Stopped, TypeOK, database
<1>5. CallInv'
  <2>1. WaiterReachable'
    BY <1>1, <1>2 DEF CallInv, WaiterReachable, TypeOK
  <2>2. NoStaleWaiter'
    BY <1>1, <1>2, EventsAssumption DEF CallInv, NoStaleWaiter, TypeOK
  <2> QED  BY <2>1, <2>2 DEF CallInv
<1>6. InboxInv' /\ ReportInv' /\ VerdictInv'
  BY <1>1, InboxFrame, ReportFrame, VerdictFrame DEF database
<1> QED  BY <1>3, <1>4, <1>5, <1>6 DEF IInv

LEMMA TakeAnswerStep ==
    ASSUME IInv, NEW c \in Calls, TakeAnswer(c)
    PROVE  IInv'
<1> DEFINE result == IF answer[c] = "ABORT_ACK" THEN "confirmed" ELSE "failed"
<1>1. ReturnFrom(c, result)
  BY DEF TakeAnswer
<1>2. result \in Returned /\ (result = "confirmed" => answer[c] = "ABORT_ACK")
  BY DEF Returned
<1> HIDE DEF result
<1> QED  BY <1>1, <1>2, ReturnFromStep

LEMMA GiveUpStep ==
    ASSUME IInv, NEW c \in Calls, GiveUp(c)
    PROVE  IInv'
<1>1. ReturnFrom(c, "failed") /\ "failed" \in Returned
  BY DEF GiveUp, Returned
<1> QED  BY <1>1, ReturnFromStep

LEMMA ConcludeCallStep ==
    ASSUME IInv, NEW c \in Calls, ConcludeCall(c)
    PROVE  IInv'
<1> DEFINE o == Aborts[c]
<1>1. /\ TypeOK /\ InboxInv /\ ReportInv /\ VerdictInv /\ AnswerIsOurs /\ CallInv
      /\ call[c] \in Returned \cup {"unsent"} /\ call' = [call EXCEPT ![c] = "done"]
      /\ UNCHANGED <<inbox, packet, seen, scanned, applied, waiter, answer, dispatch, restarts>>
  BY DEF IInv, ConcludeCall
<1>0. o \in Operations
  BY EventsAssumption
<1>2. /\ verdict' \in [Operations ->
             {"AUTHORIZED", "EXECUTING", "SUCCESS", "FAILED", "TIMEOUT", "CANCELLED"}]
      /\ \A q \in Operations : \/ verdict'[q] = verdict[q]
                               \/ verdict'[q] = "TIMEOUT"
                               \/ /\ q = o /\ Live(o) /\ call[c] \in {"confirmed", "unsent"}
                                  /\ verdict'[q] = "CANCELLED"
  <2> DEFINE outcome == CASE c \notin Cancels                    -> "TIMEOUT"
                          [] call[c] \in {"confirmed", "unsent"} -> "CANCELLED"
                          [] OTHER                               -> verdict[o]
  <2>1. verdict' = [verdict EXCEPT ![o] = IF Live(o) THEN outcome ELSE @]
    BY DEF ConcludeCall
  <2>2. \/ outcome \in {verdict[o], "TIMEOUT"}
        \/ outcome = "CANCELLED" /\ call[c] \in {"confirmed", "unsent"}
    OBVIOUS
  <2> HIDE DEF outcome
  <2> QED  BY <1>1, <1>0, <2>1, <2>2 DEF TypeOK
<1>3. /\ overtaken \subseteq overtaken' /\ overtaken' \subseteq overtaken \cup {o}
      /\ call[c] = "unsent" /\ verdict[o] = "EXECUTING" => o \in overtaken'
  BY DEF ConcludeCall
<1>4. TypeOK'
  BY <1>1, <1>0, <1>2, <1>3 DEF TypeOK, CallStates, inbox, dispatch
<1>5. VerdictInv'
  <2>1. ReturnVerified'
    BY <1>1, <1>2 DEF VerdictInv, ReturnVerified
  <2>2. call[c] = "confirmed" => Stopped(o)
    BY <1>1 DEF AnswerIsOurs
  <2>3. Live(o) /\ call[c] = "unsent" =>
            \/ o \in overtaken'
            \/ <<"command", o>> \notin published /\ starter[o] # "begun"
    BY <1>1, <1>0, <1>3 DEF Live, VerdictInv, BegunFirst
  <2>4. CancelledUnsent'
    BY <1>1, <1>2, <1>3, <2>2, <2>3 DEF VerdictInv, CancelledUnsent, Stopped, dispatch
  <2>5. BegunFirst'
    BY <1>1, <1>2 DEF VerdictInv, BegunFirst, dispatch
  <2> QED  BY <2>1, <2>4, <2>5 DEF VerdictInv
<1>6. AnswerIsOurs'
  BY <1>1 DEF AnswerIsOurs, Stopped, TypeOK
<1>7. CallInv'
  BY <1>1 DEF CallInv, WaiterReachable, NoStaleWaiter, TypeOK, Returned
<1>8. InboxInv' /\ ReportInv'
  BY <1>1, InboxFrame, ReportFrame
<1> QED  BY <1>4, <1>5, <1>6, <1>7, <1>8 DEF IInv

-----------------------------------------------------------------------------
(* Restarts and all steps                                                  *)

LEMMA RestartStep ==
    ASSUME IInv, Restart
    PROVE  IInv'
<1>1. /\ TypeOK /\ InboxInv /\ ReportInv /\ VerdictInv /\ AnswerIsOurs /\ CallInv
      /\ UNCHANGED <<database, published, overtaken>>
      /\ starter' = [o \in Operations |-> "gone"]
  BY DEF IInv, Restart
<1>2. TypeOK'
  <2>1. packet' \in [Packets -> PacketStates] /\ call' \in [Calls -> CallStates]
    BY <1>1 DEF Restart, TypeOK, PacketStates, Ended, CallStates
  <2>2. /\ pending' \in Seq(Packets) /\ draining' \in Seq(Packets)
        /\ waiter' \in [Operations -> Calls \cup {NoCall}]
        /\ restarts' \in 0..MaxRestarts
    BY <1>1, EventsAssumption DEF Restart, TypeOK
  <2> QED  BY <1>1, <2>1, <2>2 DEF Restart, TypeOK, database
<1>3. InboxInv' /\ ReportInv'
  BY <1>1 DEF Restart, InboxInv, DrainAfterRegister, EarlyPacketsKept, ReportInv,
              HandledApplied, AckedMeansApplied, Busy, TypeOK, database
<1>4. VerdictInv'
  BY <1>1 DEF VerdictInv, ReturnVerified, CancelledUnsent, BegunFirst, Stopped, database
<1>5. AnswerIsOurs' /\ CallInv'
  BY <1>1 DEF Restart, AnswerIsOurs, CallInv, WaiterReachable, NoStaleWaiter
<1> QED  BY <1>2, <1>3, <1>4, <1>5 DEF IInv

LEMMA StutterStep == IInv /\ UNCHANGED vars => IInv'
<1> SUFFICES ASSUME IInv, UNCHANGED vars PROVE IInv'
  OBVIOUS
<1>1. UNCHANGED <<inbox, packet, seen, database, aborting, dispatch, overtaken, restarts>>
  BY DEF vars
<1>2. TypeOK'
  BY <1>1 DEF IInv, TypeOK, inbox, database, aborting, dispatch
<1> QED  BY <1>1, <1>2, InboxFrame, ReportFrame, VerdictFrame, AnswerFrame, CallFrame
         DEF IInv, database, aborting

LEMMA NextInvariant == IInv /\ [Next]_vars => IInv'
BY BeginExecutionStep, PublishCommandStep, DispatchFailsStep, ReceiveStep, RegisterEventHandlerStep, DrainNextStep, DrainedOneStep, CheckSeenStep,
   HandleStep, HandlerFailsStep, FinishStep, PruneStep, BeginAbortStep, SkipAbortStep,
   TakeAnswerStep,
   GiveUpStep, ConcludeCallStep, RestartStep, StutterStep DEF Next, Work, Progress

-----------------------------------------------------------------------------
(* Theorems                                                                *)

\* The strengthening holds in every reachable state: results in the channels
\* are about the right operation, and a handler has committed what its
\* goroutine is about to acknowledge (mqtt_gateway.go:459-498).
THEOREM Inductive == Spec => []IInv
<1>1. Init => IInv
  BY InitInvariant
<1>2. IInv /\ [Next]_vars => IInv'
  BY NextInvariant
<1> QED  BY <1>1, <1>2, PTL DEF Spec

\* The gateway's tables, goroutines and calls keep their types.
THEOREM TypeCorrect == Spec => []TypeOK
<1>1. IInv => TypeOK
  BY DEF IInv
<1> QED  BY <1>1, Inductive, PTL

\* Nothing is acknowledged or counted as handled before a handler has
\* committed it, for any number of packets of a report and any number of
\* restarts (mqtt_gateway.go:459-498).
THEOREM AcknowledgedApplied == Spec => []AckedMeansApplied
<1>1. IInv => AckedMeansApplied
  BY DEF IInv, ReportInv
<1> QED  BY <1>1, Inductive, PTL

\* No return is believed without its own scan, in whatever order its reports
\* are handled (operation_repository.go:329-340).
THEOREM ReturnsVerified == Spec => []ReturnVerified
<1>1. IInv => ReturnVerified
  BY DEF IInv, VerdictInv
<1> QED  BY <1>1, Inductive, PTL

\* A call that waits can be reached by the answer, however many calls abort
\* the same operation (mqtt_gateway.go:206-219).
THEOREM WaitersReachable == Spec => []WaiterReachable
<1>1. IInv => WaiterReachable
  BY DEF IInv, CallInv
<1> QED  BY <1>1, Inductive, PTL

\* An operation is cancelled only after the cabinet said that it stopped that
\* same operation, or before it is begun and then its command is never sent;
\* or, the one exception in the code, by a CancelOperation that read AUTHORIZED
\* and was overtaken by BeginExecution (operation_service.go:285-313, 520-532).
THEOREM CancelledStopped == Spec => []CancelledMeansStopped
<1>1. IInv => CancelledMeansStopped
  BY DEF IInv, VerdictInv, CancelledUnsent, CancelledMeansStopped, Stopped
<1> QED  BY <1>1, Inductive, PTL

\* No packet that came before the handler is forgotten
\* (mqtt_gateway.go:180-190).
THEOREM EarlyKept == Spec => []EarlyPacketsKept
<1>1. IInv => EarlyPacketsKept
  BY DEF IInv, InboxInv
<1> QED  BY <1>1, Inductive, PTL

\* A call that has ended leaves no waiter behind (mqtt_gateway.go:209-219).
THEOREM WaitersCurrent == Spec => []NoStaleWaiter
<1>1. IInv => NoStaleWaiter
  BY DEF IInv, CallInv
<1> QED  BY <1>1, Inductive, PTL
=============================================================================
