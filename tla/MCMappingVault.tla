--------------------------- MODULE MCMappingVault ---------------------------
(* Two workers share the file; the first runs two tasks on its event loop. *)
EXTENDS MappingVault, TLC

CONSTANTS w1, w2, t1, t2, t3, o1, o2, o3, b1

MCWorkerOf == t1 :> w1 @@ t2 :> w1 @@ t3 :> w2

(* One worker with three tasks queueing for its lock. *)
MCSameWorker == t1 :> w1 @@ t2 :> w1 @@ t3 :> w1

OriginalSymmetry == Permutations(Originals)
=============================================================================
