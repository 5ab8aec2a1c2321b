--------------------------- MODULE MCDeliveryWorker ---------------------------
(* Small instances of DeliveryWorker for TLC.                              *)
EXTENDS DeliveryWorker, TLC

CONSTANTS w1, w2, e1, e2, t1, t2, live1, live2, live3, replay

(* One endpoint; two events and, between them in seq, a replayed delivery. *)
OneTenantOf   == e1 :> t1
OneEndpointOf == (1 :> e1) @@ (2 :> e1)
OneBatchOf    == (1 :> live1) @@ (2 :> live2)
MixEndpointOf == (1 :> e1) @@ (2 :> e1) @@ (3 :> e1)
MixBatchOf    == (1 :> live1) @@ (2 :> replay) @@ (3 :> live2)

(* Two tenants with an endpoint each; the first has two deliveries.        *)
TwoTenantOf   == (e1 :> t1) @@ (e2 :> t2)
TwoEndpointOf == (1 :> e1) @@ (2 :> e1) @@ (3 :> e2)
TwoBatchOf    == (1 :> live1) @@ (2 :> live2) @@ (3 :> live3)

WorkerSymmetry == Permutations(Workers)
=============================================================================
