--------------------------- MODULE MCEventChannel ---------------------------
(***************************************************************************)
(* EventChannel for TLC.  The domains are numbers because the order of     *)
(* their structs is the lock order.  dom0 has the lower number: a guest    *)
(* closes a link towards a lower peer and dom0 towards a higher one, so    *)
(* that both orders are taken.  CPUs are interchangeable.                  *)
(***************************************************************************)
EXTENDS EventChannel, TLC

ThreadSymmetry == Permutations(Thread)
=============================================================================
