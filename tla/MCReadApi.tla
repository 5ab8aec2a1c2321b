------------------------------ MODULE MCReadApi ------------------------------
(* One endpoint.  Batch 3 replays event 1; the two events are published a  *)
(* microsecond apart, in the same millisecond.                             *)
EXTENDS ReadApi

CONSTANTS e1

MCEndpointOf == [d \in Deliveries |-> e1]
MCBatchOf    == [d \in Deliveries |-> d]
MCBatchAt    == [b \in Batches |-> b]
MCEventOf    == [d \in Deliveries |-> IF d \in LiveBatches THEN d ELSE 1]
MCEventAt    == [b \in LiveBatches |-> 4 + b]
MCEventId    == [b \in LiveBatches |-> b]
=============================================================================
