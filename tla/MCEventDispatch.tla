--------------------------- MODULE MCEventDispatch ---------------------------
(* Two connections that share a worker: with two descriptor numbers they   *)
(* share batches, and the second may take over the number of the first.    *)
EXTENDS EventDispatch
=============================================================================
