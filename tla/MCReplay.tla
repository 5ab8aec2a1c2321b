------------------------------- MODULE MCReplay -------------------------------
(* Small instances of Replay for TLC.                                      *)
EXTENDS Replay, TLC

CONSTANTS w1, w2, e1, e2, k1, k2

Ask(e, k, a, b) == [endpoint |-> e, key |-> k, start |-> a, end |-> b]

(* Request 2 repeats the key of request 1 with another range.              *)
RepeatAsks == (1 :> Ask(e1, k1, 1, 2)) @@ (2 :> Ask(e1, k1, 0, 1))

(* Two replays of overlapping ranges of one endpoint.                      *)
OverlapAsks == (1 :> Ask(e1, k1, 1, 1)) @@ (2 :> Ask(e1, k2, 1, 2))

WorkerSymmetry == Permutations(Workers)
=============================================================================
