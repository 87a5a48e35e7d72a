---------------------- MODULE MCReservationTransactions ----------------------
(* Instance of ReservationTransactions for TLC: the reservations of a key. *)
EXTENDS ReservationTransactions

CONSTANT k1

OneKey == [r \in Reservations |-> k1]

=============================================================================
