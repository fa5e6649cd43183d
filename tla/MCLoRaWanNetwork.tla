-------------------------- MODULE MCLoRaWanNetwork --------------------------
(* Three fragments and two channels, with receive windows as in MCLoRaWan. *)
(* Interference comes in the instants in which windows open and close, and *)
(* on the air together with an uplink.                                     *)
EXTENDS LoRaWanNetwork, TLC

CONSTANTS b1, b2

TwoChannels == <<b1, b2>>

ClassA ==
  "open rx1" :> 1 @@ "close rx1" :> 2 @@ "open rx2" :> 2 @@ "close rx2" :> 3
=============================================================================
