--------------------------- MODULE MCDeviceEvents ---------------------------
(***************************************************************************)
(* Two returns, dispatched while users cancel both and the timeout sweep   *)
(* aborts o2: of o1 the scan (in two packets) and the success may arrive,  *)
(* of o2 the answer to an abort.                                           *)
(***************************************************************************)
EXTENDS DeviceEvents

MCReports == {"scan", "success", "stopped"}
MCAbout   == [r \in MCReports |-> IF r = "stopped" THEN "o2" ELSE "o1"]
MCStage   == [scan |-> "RFID_CONFIRMED", success |-> "RETURN_SUCCESS", stopped |-> "ABORTED"]
MCCarries == <<"scan", "scan", "success", "stopped">>
MCCalls   == {"user1", "user2", "sweep2"}
MCAborts  == [c \in MCCalls |-> IF c = "user1" THEN "o1" ELSE "o2"]
=============================================================================
