----------------------------- MODULE MCSharedHeap -----------------------------
(***************************************************************************)
(* The instance of SharedHeap: a small and a larger buffer in a segment of *)
(* three chunks.  They fill it, leave gaps too small and large enough, and *)
(* make it grow to its limit.                                              *)
(***************************************************************************)
EXTENDS SharedHeap, TLC

CONSTANTS b1, b2

TwoSizes == b1 :> 1 @@ b2 :> 2
==============================================================================
