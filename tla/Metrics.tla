------------------------------ MODULE Metrics -------------------------------
(***************************************************************************)
(* The counters of src/metrics.rs, as a value and its update functions.    *)
(* record_tx and record_rx count a frame twice, in a total and in a map    *)
(* with default zero; here the map is total and the total is its sum.      *)
(***************************************************************************)
EXTENDS Naturals

CONSTANT NodeIds  \* the identifiers a node may have

Counters ==
  [tx : [NodeIds -> Nat], rx : [NodeIds -> Nat],
   collisions : Nat, captures : Nat, airtime : Nat]

NoMetrics ==
  [tx |-> [id \in NodeIds |-> 0], rx |-> [id \in NodeIds |-> 0],
   collisions |-> 0, captures |-> 0, airtime |-> 0]

RecordTx(m, id)            == [m EXCEPT !.tx[id] = @ + 1]
RecordRx(m, id)            == [m EXCEPT !.rx[id] = @ + 1]
RecordCollision(m)         == [m EXCEPT !.collisions = @ + 1]
RecordCapture(m)           == [m EXCEPT !.captures = @ + 1]
RecordAirtime(m, duration) == [m EXCEPT !.airtime = @ + duration]
=============================================================================
