--------------------------- MODULE AllReduceKernel ---------------------------
(***************************************************************************)
(* The kernels of one all-reduce: RunAllReduce launches one per rank, and  *)
(* each reduces the vectors of its slice of all the inputs into all the    *)
(* outputs (itex/core/kernels/gpu/collective_ops.h).  The kernels run on   *)
(* as many devices at once, so the result is right only if no two turns    *)
(* touch the same element and every element is in some turn.               *)
(***************************************************************************)
EXTENDS AllReduceSlices

CONSTANT Launches    \* the launches considered, see AllReduceSlices

ASSUME LaunchesAssumption ==
  Launches \subseteq [element_count : Nat, VecSize : Nat \ {0},
                      reduction_size : Nat \ {0}, max_workitem : Nat \ {0}]

VARIABLES L,        \* what the collective is launched with
          rank,     \* i, the next rank RunAllReduce launches a kernel for
          turns     \* the turns of the kernels launched so far

vars == <<L, rank, turns>>

Init == L \in Launches /\ rank = 0 /\ turns = {}

LaunchAllReduceKernel ==
  /\ rank < L.reduction_size
  /\ turns' = turns \union Turns(L, rank)
  /\ rank' = rank + 1
  /\ UNCHANGED L

Next == LaunchAllReduceKernel

Spec == Init /\ [][Next]_vars

-----------------------------------------------------------------------------

\* collective_ops.h:349-350, "Each rank allreduces a sub slice of the tensors":
\* once every kernel is launched, each element of the tensor is stored by
\* exactly one turn of one work item.
EveryElementOnce ==
  rank = L.reduction_size =>
    \A e \in 0 .. L.element_count - 1 :
      /\ \E t \in turns : e \in Stored(L, t)
      /\ \A s, t \in turns : e \in Stored(L, s) /\ e \in Stored(L, t) => s = t

\* The last slice has its partial vector in a turn that stores it whole.
EvenlyDealt ==
  /\ vec_tail_element_count(L) > 0
  /\ local_vec_count(L, LastRank(L)) > L.max_workitem
  /\ local_vec_count(L, LastRank(L)) % L.max_workitem = 0

\* No work item stores beyond the tensor, unless the last slice is longer than
\* the device is wide and its vectors are dealt out evenly.
StoresStayInside ==
  (\E t \in turns : ~(Stored(L, t) \subseteq 0 .. L.element_count - 1))
    => EvenlyDealt

\* collective_ops.h:388-389, "Last rank may need to process the tail elements
\* which can't form a full vector and need partial block store": what lies
\* behind the tensor is never stored to.
TailStoredInPart ==
  \A t \in turns : Stored(L, t) \subseteq 0 .. L.element_count - 1

=============================================================================
