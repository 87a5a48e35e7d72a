------------------------- MODULE MCCabinetFirmware -------------------------
(* Instances of CabinetFirmware for TLC.                                   *)
EXTENDS CabinetFirmware

CONSTANTS s1, k1, pickup, return

\* A pickup and a return of one key, from and to one slot; the other key is
\* one that does not belong there.
OneSlot   == [op \in {pickup, return} |-> s1]
OneKey    == [op \in {pickup, return} |-> k1]
BothWays  == [op \in {pickup, return} |-> IF op = pickup THEN "PICKUP" ELSE "RETURN"]

\* The pickup command may be delivered twice.
Redelivery == [op \in {pickup, return} |-> IF op = pickup THEN 2 ELSE 1]

=============================================================================
