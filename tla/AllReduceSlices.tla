--------------------------- MODULE AllReduceSlices ---------------------------
(***************************************************************************)
(* How LaunchAllReduceKernel (itex/core/kernels/gpu/collective_ops.h)      *)
(* divides a tensor: the elements are grouped in vectors of VecSize, the   *)
(* vectors in one slice per rank, and a slice's vectors are dealt out to   *)
(* the work items of that rank's kernel, which go over them in turns.      *)
(*                                                                         *)
(* L is what one all-reduce is launched with:                              *)
(*   L.element_count     elements in each participant's tensor             *)
(*   L.VecSize           elements in a vector, VecBytes / sizeof(T)        *)
(*   L.reduction_size    number of participants                            *)
(*   L.max_workitem      num_max_concurrent_workitem of the device         *)
(***************************************************************************)
EXTENDS Integers

vec_tail_element_count(L) == L.element_count % L.VecSize

total_vec_count(L) ==
  L.element_count \div L.VecSize + (IF vec_tail_element_count(L) > 0 THEN 1 ELSE 0)

slice_vec_count(L) == total_vec_count(L) \div L.reduction_size

LastRank(L) == L.reduction_size - 1

\* Mutated form: the vectors left over by the division are not reduced.
local_vec_count_no_tail(L, rank) == slice_vec_count(L)

\* The last rank also takes the vectors the division leaves over.
local_vec_count(L, rank) ==
  slice_vec_count(L)
    + (IF rank = LastRank(L) THEN total_vec_count(L) % L.reduction_size ELSE 0)

\* The vectors of a rank's slice.
Slice(L, rank) ==
  rank * slice_vec_count(L) .. rank * slice_vec_count(L) + local_vec_count(L, rank) - 1

num_workitem(L, rank) ==
  IF local_vec_count(L, rank) <= L.max_workitem
  THEN local_vec_count(L, rank) ELSE L.max_workitem

num_vec_per_workitem(L, rank) == local_vec_count(L, rank) \div num_workitem(L, rank)

num_tail_vec(L, rank) == local_vec_count(L, rank) % num_workitem(L, rank)

\* The turns of the rank's kernel: work item t.index in its turn t.n.  Every
\* item has num_vec_per_workitem turns, the first num_tail_vec one more.
\* Nothing is launched for an empty slice.
Turns(L, rank) ==
  IF local_vec_count(L, rank) = 0 THEN {}
  ELSE {t \in [rank : {rank}, index : 0 .. num_workitem(L, rank) - 1,
               n : 0 .. num_vec_per_workitem(L, rank)] :
          \/ t.n < num_vec_per_workitem(L, rank)
          \/ t.index < num_tail_vec(L, rank)}

\* The vector it loads from every input, reduces and stores to every output.
VectorOf(L, t) ==
  t.rank * slice_vec_count(L) + num_workitem(L, t.rank) * t.n + t.index

\* Mutated form: the last vector of a single turn is stored whole.
StoresPartOnlyInTail(L, t) ==
  /\ t.rank = LastRank(L)
  /\ vec_tail_element_count(L) > 0
  /\ t.n = num_vec_per_workitem(L, t.rank)
  /\ t.index = num_tail_vec(L, t.rank) - 1

\* Whether the turn stores with PartialStore: only in the last rank's kernel,
\* by the last item, if all items have one turn, or by the last item that has
\* an extra one.
StoresPart(L, t) ==
  /\ t.rank = LastRank(L)
  /\ vec_tail_element_count(L) > 0
  /\ IF t.n < num_vec_per_workitem(L, t.rank)
     THEN /\ local_vec_count(L, t.rank) <= num_workitem(L, t.rank)
          /\ t.index = num_workitem(L, t.rank) - 1
     ELSE t.index = num_tail_vec(L, t.rank) - 1

\* The elements of each output the turn stores to.
Stored(L, t) ==
  VectorOf(L, t) * L.VecSize ..
  VectorOf(L, t) * L.VecSize
    + (IF StoresPart(L, t) THEN vec_tail_element_count(L) ELSE L.VecSize) - 1

=============================================================================
