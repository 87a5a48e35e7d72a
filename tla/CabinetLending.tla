--------------------------- MODULE CabinetLending ---------------------------
(***************************************************************************)
(* What the ledger promises of lending, without requests, goroutines, the  *)
(* clock or the network: a cabinet does one job at a time, and a borrow    *)
(* record moves along with the jobs done for it.                           *)
(*                                                                         *)
(* A job is a pickup or a return for a reservation.  Its record is created *)
(* with its pickup and settled in the same step that ends the job.  One    *)
(* thing the promise has to admit: a late RFID report may bring a return   *)
(* that was over back to life (Reopen).  What even that cannot do is       *)
(* revive a pickup, share a cabinet, or touch a record that ended in       *)
(* EXCEPTION.                                                              *)
(***************************************************************************)
CONSTANTS
    Reservations,
    Place          \* the cabinet a reservation is picked up and returned at

VARIABLES
    jobs,    \* jobs under way
    record   \* borrow record of a reservation

vars == <<jobs, record>>

Pickup(r)   == [action |-> "PICKUP", res |-> r]
ReturnOf(r) == [action |-> "RETURN", res |-> r]

Free(r) == \A job \in jobs : Place[job.res] # Place[r]

Init ==
    /\ jobs = {}
    /\ record = [r \in Reservations |-> "NONE"]

Start(job, from, to) ==
    /\ Free(job.res)
    /\ record[job.res] = from
    /\ jobs' = jobs \cup {job}
    /\ record' = [record EXCEPT ![job.res] = to]

StartPickup(r) == Start(Pickup(r), "NONE", "BORROWING")
StartReturn(r) == Start(ReturnOf(r), "BORROWED", "RETURNING")

\* The key is out, or it is not: either way the pickup is over for good.
EndPickup(r) ==
    /\ Pickup(r) \in jobs
    /\ record[r] = "BORROWING"
    /\ jobs' = jobs \ {Pickup(r)}
    /\ record' \in {[record EXCEPT ![r] = outcome] : outcome \in {"BORROWED", "EXCEPTION"}}

\* The key is back, or it is still out.
EndReturn(r) ==
    /\ ReturnOf(r) \in jobs
    /\ record[r] = "RETURNING"
    /\ jobs' = jobs \ {ReturnOf(r)}
    /\ record' \in {[record EXCEPT ![r] = outcome] : outcome \in {"COMPLETED", "BORROWED"}}

\* A return whose record has been settled is under way again ...
Reopen(r) ==
    /\ Free(r)
    /\ record[r] \in {"BORROWED", "COMPLETED"}
    /\ jobs' = jobs \cup {ReturnOf(r)}
    /\ UNCHANGED record

\* ... until it ends once more, leaving the record as it was or, when it
\* fails, BORROWED.
EndReopened(r) ==
    /\ ReturnOf(r) \in jobs
    /\ record[r] \in {"BORROWED", "COMPLETED"}
    /\ jobs' = jobs \ {ReturnOf(r)}
    /\ record' \in {record, [record EXCEPT ![r] = "BORROWED"]}

Next ==
    \E r \in Reservations :
        \/ StartPickup(r) \/ EndPickup(r)
        \/ StartReturn(r) \/ EndReturn(r)
        \/ Reopen(r) \/ EndReopened(r)

Spec == Init /\ [][Next]_vars

=============================================================================
