----------------------------- MODULE MCBlkRing -----------------------------
(***************************************************************************)
(* Instances of BlkRing for TLC.                                           *)
(***************************************************************************)
EXTENDS BlkRing, TLC

\* Requests are told apart only by identity, entries of the pool not at all.
BlkSymmetry == Permutations(Request) \union Permutations(PendingReq)
=============================================================================
