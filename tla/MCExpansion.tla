------------------------------ MODULE MCExpansion ------------------------------
(* Small instances of Expansion for TLC.                                   *)
EXTENDS Expansion, TLC

CONSTANTS w1, w2, t1, t2, e1, e2, k1, k2, order, user

Publication(t, k, y) == [tenant |-> t, key |-> k, type |-> y]

(* One tenant; request 3 repeats the key of request 1; e2 registers late.  *)
OneTenantOf  == (e1 :> t1) @@ (e2 :> t1)
OneWants     == (e1 :> {order, user}) @@ (e2 :> {order})
OnePublishes == (1 :> Publication(t1, k1, order)) @@ (2 :> Publication(t1, k2, user))
                @@ (3 :> Publication(t1, k1, order))
OneLockKey   == (t1 :> 7)

(* Two tenants whose advisory lock keys collide.                           *)
TwoTenantOf  == (e1 :> t1) @@ (e2 :> t2)
TwoWants     == (e1 :> {order}) @@ (e2 :> {order})
TwoPublishes == (1 :> Publication(t1, k1, order)) @@ (2 :> Publication(t2, k1, order))
TwoLockKey   == (t1 :> 7) @@ (t2 :> 7)

WorkerSymmetry == Permutations(Workers)
=============================================================================
