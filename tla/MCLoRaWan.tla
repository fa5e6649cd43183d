------------------------------ MODULE MCLoRaWan -----------------------------
(* Two receive windows of one unit, the first closing as the second opens, *)
(* as with the one-second windows of SimulatedRadio one second apart.      *)
EXTENDS LoRaWan, TLC

ClassA ==
  "open rx1" :> 1 @@ "close rx1" :> 2 @@ "open rx2" :> 2 @@ "close rx2" :> 3
=============================================================================
