-------------------------- MODULE MCOperationLedger --------------------------
(* Instances of OperationLedger for TLC.                                   *)
EXTENDS OperationLedger, TLC

CONSTANTS k1, c1, r1, r2

\* One key and two bookings of it, one after the other.
OneKeyCabinet  == [k \in {k1} |-> c1]
OneKeyOf       == [r \in {r1, r2} |-> k1]
Consecutive    == {<<r1, r2>>}

\* One key and one booking.
OneBooking     == [r \in {r1} |-> k1]

\* No booking's period is over before another's window begins.
NoneEarlier    == {}

Symmetry == Permutations(Threads) \cup Permutations(Requests)

\* Bookings may be exchanged too when they are for one key, on the same terms.
BookingSymmetry == Symmetry \cup Permutations(Reservations)

=============================================================================
