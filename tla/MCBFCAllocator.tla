--------------------------- MODULE MCBFCAllocator ---------------------------
(***************************************************************************)
(* BFCAllocator on small devices.  No operation depends on the number of a *)
(* chunk handle, nor on what a deleted chunk's fields or the               *)
(* requested_size of a free chunk were: PoolView identifies the states     *)
(* that differ only in those, by naming each chunk by its address.         *)
(***************************************************************************)
EXTENDS BFCAllocator

CONSTANT LastGrain

MCAddressSpace == 1 .. LastGrain

PtrOf(h) == IF h \in DOMAIN heap.chunks_ THEN heap.chunks_[h].ptr ELSE nullptr

ChunkView(h) ==
  LET c == heap.chunks_[h]
  IN  [c EXCEPT !.prev = <<PtrOf(c.prev), c.prev \in Live(heap)>>,
                !.next = <<PtrOf(c.next), c.next \in Live(heap)>>,
                !.requested_size = IF in_use(c) THEN @ ELSE 0]

PoolView ==
  <<{ChunkView(h) : h \in Live(heap)},
    [b \in Bins |-> {<<PtrOf(h), h \in Live(heap)>> : h \in heap.bins_[b]}],
    [p \in DOMAIN heap.handles_ |-> heap.handles_[p] \in Live(heap)],
    Cardinality(FreeList(heap)), Cardinality(DOMAIN heap.chunks_ \ Live(heap)),
    heap.regions_, heap.fatal, curr_region_allocation_bytes_,
    total_region_allocated_bytes_, alloc_mode, held, call>>
=============================================================================
