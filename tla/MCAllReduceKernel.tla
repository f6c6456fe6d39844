-------------------------- MODULE MCAllReduceKernel --------------------------
(* All-reduces of small tensors on up to MaxRanks devices. *)
EXTENDS AllReduceKernel

CONSTANTS MaxElements, VecSizes, MaxRanks, MaxWorkitem

MCLaunches ==
  [element_count : 0 .. MaxElements, VecSize : VecSizes,
   reduction_size : 1 .. MaxRanks, max_workitem : 1 .. MaxWorkitem]
=============================================================================
