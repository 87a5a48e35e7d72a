-------------------------- MODULE MCCabinetMonitor --------------------------
(***************************************************************************)
(* Slot 1 has a key, slot 2 has none; two goroutines work side by side.    *)
(***************************************************************************)
EXTENDS CabinetMonitor
=============================================================================
