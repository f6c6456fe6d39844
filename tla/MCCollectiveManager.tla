------------------------- MODULE MCCollectiveManager -------------------------
(***************************************************************************)
(* Collective "A" of two ops on two devices and "B" of one op on the first *)
(* of them, or "A" of all three ops on three devices.                      *)
(***************************************************************************)
EXTENDS CollectiveManager

MCOps == {"A1", "A2", "B1"}

Op(key, device, ranks, elements) ==
  [key |-> key, gpu_device_id |-> device, num_local_devices |-> ranks,
   data_type |-> "float", reduction_op |-> "sum",
   NumElements |-> elements, VecSize |-> 2]

\* Three vectors on two devices and four on three: the last slice is longer.
Two == [A1 |-> Op("A", 1, 2, 5), A2 |-> Op("A", 2, 2, 5), B1 |-> Op("B", 1, 1, 1)]
Three == [A1 |-> Op("A", 1, 3, 7), A2 |-> Op("A", 2, 3, 7), B1 |-> Op("A", 3, 3, 7)]

\* One vector: the first rank has no kernel.
Short == [Two EXCEPT !["A1"].NumElements = 1, !["A2"].NumElements = 1]

\* All ops agree, or one op of A disagrees with the other in one argument.
MCCases ==
  {Two, Three, Short,
   [Two EXCEPT !["A2"].data_type = "half", !["A2"].VecSize = 4],
   [Two EXCEPT !["A2"].reduction_op = "min"],
   [Two EXCEPT !["A2"].num_local_devices = 1],
   [Two EXCEPT !["A2"].NumElements = 4]}
=============================================================================
