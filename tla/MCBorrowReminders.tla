-------------------------- MODULE MCBorrowReminders -------------------------
(***************************************************************************)
(* One record that is due soon and then overdue; the scheduler and one     *)
(* caller beside it.                                                       *)
(***************************************************************************)
EXTENDS BorrowReminders

MCDueAt == [r \in Records |-> 0]
=============================================================================
