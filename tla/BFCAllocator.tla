---------------------------- MODULE BFCAllocator ----------------------------
(***************************************************************************)
(* The best-fit-with-coalescing device allocator,                          *)
(* itex/core/devices/bfc_allocator.{h,cc}.                                 *)
(*                                                                         *)
(* Every size, pointer and region the allocator keeps is a multiple of     *)
(* kMinAllocationSize, so the model counts them in GRAINS of that size;    *)
(* only what a client asks for (num_bytes) and the memory limits are in    *)
(* bytes.  The pool's data structures are one record, heap, and every      *)
(* private member function is an operator from heaps to heaps.             *)
(*                                                                         *)
(* A public call holds lock_ from its first look at the pool to its        *)
(* return, so a call is one step, except an AllocateRaw that reaches       *)
(* ExtendLarge: its loops are steps of their own (the variable call), and  *)
(* no other call starts while one is under way.                            *)
(***************************************************************************)
EXTENDS Integers, FiniteSets

CONSTANTS
  kMinAllocationSize,         \* bytes in a grain
  kNumBins,
  kMaxInternalFragmentation,  \* grains
  GlobalMemSize,              \* the device's memory, bytes
  SystemReserved,             \* what mode 1 leaves to the system, bytes
  LimitAlloc,                 \* largest single region of ExtendLarge, grains
  kSmallSize, kSmallBuffer, kLargeBuffer, kMinLargeAlloc, kRoundLarge,
                              \* the thresholds of ExtendSmall, grains
  GrainModulus,               \* 2^64 bytes, the range of size_t, in grains
  AllocModes,                 \* the values of ITEX_ALLOC_MODE considered
  Requests,                   \* the sizes clients ask for, bytes
  AddressSpace                \* the grains the driver can hand out

ASSUME GrainAssumption == kMinAllocationSize \in Nat \ {0}
ASSUME BinsAssumption == kNumBins \in Nat \ {0}
ASSUME FragmentationAssumption == kMaxInternalFragmentation \in Nat \ {0}
\* The constructor aborts when the device has less than the reserve.
ASSUME MemoryAssumption ==
  /\ GlobalMemSize \in Nat
  /\ SystemReserved \in Nat
  /\ GlobalMemSize > SystemReserved
ASSUME LimitAssumption == LimitAlloc \in Nat \ {0}
ASSUME ThresholdsAssumption ==
  /\ {kSmallSize, kSmallBuffer, kLargeBuffer, kMinLargeAlloc, kRoundLarge}
       \subseteq Nat \ {0}
  /\ kSmallSize <= kSmallBuffer
  /\ kMinLargeAlloc <= kLargeBuffer
ASSUME ModulusAssumption == GrainModulus \in Nat \ {0}
ASSUME ModesAssumption == AllocModes \subseteq Int
ASSUME RequestsAssumption == Requests \subseteq Nat
ASSUME AddressAssumption == AddressSpace \subseteq Nat \ {0}

nullptr == 0
kInvalidChunkHandle == -1
kInvalidBinNum == -1
Bins == 0 .. kNumBins - 1

VARIABLES
  heap,           \* the pool: chunks, bins, regions (see InitHeap)
  curr_region_allocation_bytes_,   \* grains
  total_region_allocated_bytes_,   \* grains
  alloc_mode,     \* ITEX_ALLOC_MODE, read once
  held,           \* the blocks clients hold: pointer -> num_bytes
  call            \* the AllocateRaw that is inside ExtendLarge, or NoCall

vars == <<heap, curr_region_allocation_bytes_, total_region_allocated_bytes_,
          alloc_mode, held, call>>

-----------------------------------------------------------------------------
(* Sizes *)

RoundedBytes(bytes) == (bytes + kMinAllocationSize - 1) \div kMinAllocationSize

\* Mutated form: the last bin does not take all larger sizes.
BinNumForSizeUncapped(size) ==
  Cardinality({b \in 1 .. GrainModulus : b <= size /\ 2^b <= size})

\* min(kNumBins - 1, floor(log2(size))): how many of the upper bins' sizes
\* 2^1, 2^2, ... do not exceed the size.
BinNumForSize(size) == Cardinality({b \in 1 .. kNumBins - 1 : 2^b <= size})

memory_limit_ ==
  IF alloc_mode = 1 THEN GlobalMemSize - SystemReserved ELSE GlobalMemSize

\* Mutated form: earlier regions are not counted.
available_bytes_uncounted == memory_limit_ \div kMinAllocationSize

\* memory_limit_ - total_region_allocated_bytes_ in size_t, rounded down.
available_bytes ==
  ((memory_limit_ - total_region_allocated_bytes_ * kMinAllocationSize)
     % (GrainModulus * kMinAllocationSize)) \div kMinAllocationSize

-----------------------------------------------------------------------------
(* The pool's data structures *)

\* A Chunk as chunks_.resize() default-constructs it.
NewChunk == [size |-> 0, requested_size |-> 0, allocation_id |-> -1,
             ptr |-> nullptr, prev |-> kInvalidChunkHandle,
             next |-> kInvalidChunkHandle, bin_num |-> kInvalidBinNum]

\* handles_ is the handle slots of all regions: the slot (p - ptr_) of the
\* region that holds p is handles_[p].  fatal: some ITEX_CHECK has failed.
InitHeap == [chunks_ |-> [h \in {} |-> NewChunk],
             free_chunks_list_ |-> kInvalidChunkHandle,
             bins_ |-> [b \in Bins |-> {}],
             regions_ |-> {},
             handles_ |-> [p \in {} |-> kInvalidChunkHandle],
             fatal |-> FALSE]

ITEX_CHECK(H, cond) == [H EXCEPT !.fatal = IF cond THEN @ ELSE TRUE]

in_use(c) == c.allocation_id # -1

\* Writes through ChunkFromHandle(h).
SetChunk(H, h, c) ==
  [H EXCEPT !.chunks_ = [g \in DOMAIN @ |-> IF g = h THEN c ELSE @[g]]]

End(r) == r.ptr + r.memory_size
Grains(ptr, size) == ptr .. ptr + size - 1

\* upper_bound over the regions sorted by end_ptr; the slot's index is then
\* checked against the region found.
RegionFor(H, p, r) ==
  /\ p < End(r)
  /\ \A s \in H.regions_ : p < End(s) => End(r) <= End(s)

HasSlot(H, p) == \E r \in H.regions_ : RegionFor(H, p, r) /\ p >= r.ptr

get_handle(H, p) == H.handles_[p]

set_handle(H, p, h) ==
  [ITEX_CHECK(H, HasSlot(H, p)) EXCEPT !.handles_[p] = h]

erase(H, p) == set_handle(H, p, kInvalidChunkHandle)

AddAllocationRegion(H, base, size) ==
  [H EXCEPT !.regions_ = @ \union {[ptr |-> base, memory_size |-> size]},
            !.handles_ = [p \in DOMAIN @ \union Grains(base, size) |->
                            IF p \in Grains(base, size)
                            THEN kInvalidChunkHandle ELSE @[p]]]

-----------------------------------------------------------------------------
(* Chunk handles: a vector, with the unused ones in a list through next *)

NewHandle(H) == IF H.free_chunks_list_ # kInvalidChunkHandle
                THEN H.free_chunks_list_
                ELSE Cardinality(DOMAIN H.chunks_)

\* Mutated form: the handle taken stays at the head of the list.
AllocateChunkNoPop(H) ==
  IF H.free_chunks_list_ # kInvalidChunkHandle
  THEN H
  ELSE [H EXCEPT !.chunks_ = [h \in DOMAIN @ \union {NewHandle(H)} |->
                                IF h = NewHandle(H) THEN NewChunk ELSE @[h]]]

AllocateChunk(H) ==
  IF H.free_chunks_list_ # kInvalidChunkHandle
  THEN [H EXCEPT !.free_chunks_list_ = H.chunks_[H.free_chunks_list_].next]
  ELSE [H EXCEPT !.chunks_ = [h \in DOMAIN @ \union {NewHandle(H)} |->
                                IF h = NewHandle(H) THEN NewChunk ELSE @[h]]]

DeallocateChunk(H, h) ==
  LET c == [H.chunks_[h] EXCEPT !.allocation_id = -1,
                                !.bin_num = kInvalidBinNum,
                                !.next = H.free_chunks_list_]
  IN  [SetChunk(H, h, c) EXCEPT !.free_chunks_list_ = h]

\* Mutated form: the handle is not put on the free list.
DeleteChunkLeaks(H, h) == erase(H, H.chunks_[h].ptr)

DeleteChunk(H, h) == DeallocateChunk(erase(H, H.chunks_[h].ptr), h)

-----------------------------------------------------------------------------
(* Bins *)

InsertFreeChunkIntoBin(H, h) ==
  LET c == H.chunks_[h]
      b == BinNumForSize(c.size)
      C == ITEX_CHECK(H, ~in_use(c) /\ c.bin_num = kInvalidBinNum)
  IN  [SetChunk(C, h, [c EXCEPT !.bin_num = b])
         EXCEPT !.bins_[b] = @ \union {h}]

RemoveFreeChunkFromBin(H, h) ==
  LET c == H.chunks_[h]
      C == ITEX_CHECK(H, /\ ~in_use(c) /\ c.bin_num # kInvalidBinNum
                         /\ h \in H.bins_[c.bin_num])
  IN  [SetChunk(C, h, [c EXCEPT !.bin_num = kInvalidBinNum])
         EXCEPT !.bins_[c.bin_num] = @ \ {h}]

\* Mutated form: first fit, the chunks of a bin in address order.
ChunkComparatorByAddress(H, g, h) == H.chunks_[g].ptr < H.chunks_[h].ptr

\* A bin is a set ordered by size, then by address.
ChunkComparator(H, g, h) ==
  \/ H.chunks_[g].size < H.chunks_[h].size
  \/ H.chunks_[g].size = H.chunks_[h].size /\ H.chunks_[g].ptr < H.chunks_[h].ptr

FitsIn(H, b, size) == {h \in H.bins_[b] : H.chunks_[h].size >= size}

\* Mutated form: only the first bin is searched.
FindChunkOneBin(H, size) ==
  {h \in FitsIn(H, BinNumForSize(size), size) :
     \A g \in FitsIn(H, BinNumForSize(size), size) : ~ChunkComparator(H, g, h)}

\* What the two loops of FindChunkPtr stop at: nothing, or one chunk.
FindChunk(H, size) ==
  UNION {{h \in FitsIn(H, b, size) :
            /\ \A a \in BinNumForSize(size) .. b - 1 : FitsIn(H, a, size) = {}
            /\ \A g \in FitsIn(H, b, size) : ~ChunkComparator(H, g, h)} :
         b \in BinNumForSize(size) .. kNumBins - 1}

-----------------------------------------------------------------------------
(* Splitting and merging *)

\* The chunk after a split or a merge, if there is one, gets its new prev.
SetPrev(H, h, prev) ==
  IF h # kInvalidChunkHandle
  THEN SetChunk(H, h, [H.chunks_[h] EXCEPT !.prev = prev])
  ELSE H

SplitChunk(H, h, size) ==
  LET new == NewHandle(H)
      A   == AllocateChunk(H)
      c   == A.chunks_[h]
      S   == set_handle(ITEX_CHECK(A, ~in_use(c) /\ c.bin_num = kInvalidBinNum),
                        c.ptr + size, new)
      New == SetChunk(S, new,
               [S.chunks_[new] EXCEPT !.ptr = c.ptr + size, !.size = c.size - size,
                                      !.allocation_id = -1, !.prev = h,
                                      !.next = c.next])
      Cut == SetChunk(New, h, [c EXCEPT !.size = size, !.next = new])
  IN  InsertFreeChunkIntoBin(SetPrev(Cut, c.next, new), new)

\* Mutated form: the chunk after the merged pair keeps its old prev.
MergeStalePrev(H, h1, h2) ==
  LET c1 == H.chunks_[h1]
      c2 == H.chunks_[h2]
  IN  DeleteChunk(SetChunk(H, h1, [c1 EXCEPT !.next = c2.next,
                                             !.size = @ + c2.size]), h2)

Merge(H, h1, h2) ==
  LET c1 == H.chunks_[h1]
      c2 == H.chunks_[h2]
      C  == ITEX_CHECK(H, ~in_use(c1) /\ ~in_use(c2) /\ c2.prev = h1)
      J  == SetChunk(C, h1, [c1 EXCEPT !.next = c2.next, !.size = @ + c2.size])
  IN  DeleteChunk(SetPrev(J, c2.next, h1), h2)

\* A neighbour handle that names a chunk not in use.
Mergeable(H, h) == h # kInvalidChunkHandle /\ ~in_use(H.chunks_[h])

\* Mutated form: the chunk merged away stays in its bin.
MergeNextStillBinned(H, h) ==
  LET n == H.chunks_[h].next
  IN  IF Mergeable(H, n) THEN Merge(H, h, n) ELSE H

MergeNext(H, h) ==
  LET n == H.chunks_[h].next
  IN  IF Mergeable(H, n) THEN Merge(RemoveFreeChunkFromBin(H, n), h, n) ELSE H

MergePrev(H, h) ==
  LET p == H.chunks_[h].prev
  IN  IF Mergeable(H, p) THEN Merge(RemoveFreeChunkFromBin(H, p), p, h) ELSE H

\* The chunk TryToCoalesce(h) returns.
Coalesced(H, h) ==
  IF Mergeable(H, H.chunks_[h].prev) THEN H.chunks_[h].prev ELSE h

\* Mutated form: only the neighbour before is merged.
TryToCoalescePrevOnly(H, h) == MergePrev(H, h)

TryToCoalesce(H, h) == MergePrev(MergeNext(H, h), h)

-----------------------------------------------------------------------------
(* The two public calls and Extend, as functions of the pool *)

\* Mutated form: the threshold on padding is left out.
NeedsSplitNoThreshold(c, size) == c.size >= 2 * size

NeedsSplit(c, size) ==
  c.size >= 2 * size \/ c.size - size >= kMaxInternalFragmentation

\* Mutated form: the chunk handed out is not marked in use.
TakeChunkUnmarked(H, h, size, num_bytes) ==
  LET R == RemoveFreeChunkFromBin(H, h)
      S == IF NeedsSplit(H.chunks_[h], size) THEN SplitChunk(R, h, size) ELSE R
  IN  SetChunk(S, h, [S.chunks_[h] EXCEPT !.requested_size = num_bytes])

\* FindChunkPtr, once it has found h.
TakeChunk(H, h, size, num_bytes) ==
  LET R == RemoveFreeChunkFromBin(H, h)
      S == IF NeedsSplit(H.chunks_[h], size) THEN SplitChunk(R, h, size) ELSE R
  IN  SetChunk(S, h, [S.chunks_[h] EXCEPT !.requested_size = num_bytes,
                                          !.allocation_id = 0])

\* DeallocateRaw, once it has found that h is the chunk at the pointer.
Release(H, h) ==
  LET F == SetChunk(ITEX_CHECK(H, h # kInvalidChunkHandle), h,
                    [H.chunks_[h] EXCEPT !.allocation_id = -1])
      C == TryToCoalesce(F, h)
  IN  InsertFreeChunkIntoBin(C, Coalesced(F, h))

\* The tail of ExtendLarge and of ExtendSmall.
AddRegion(H, base, size) ==
  LET R == AddAllocationRegion(H, base, size)
      h == NewHandle(R)
      A == AllocateChunk(R)
      C == SetChunk(A, h, [A.chunks_[h] EXCEPT !.ptr = base, !.size = size,
                                               !.allocation_id = -1,
                                               !.prev = kInvalidChunkHandle,
                                               !.next = kInvalidChunkHandle])
  IN  InsertFreeChunkIntoBin(set_handle(C, base, h), h)

-----------------------------------------------------------------------------
(* ITEX_GPUMalloc asks the driver: any free range of that size, or null *)

ITEX_GPUMalloc(size) ==
  {nullptr} \union
  {p \in AddressSpace : Grains(p, size) \subseteq AddressSpace \ DOMAIN heap.handles_}

-----------------------------------------------------------------------------
(* The calls *)

\* turn is the parity of the loop turns so far: a turn is a step of the thread
\* even if it leaves everything else as it was.
NoCall == [pc |-> "idle", num_bytes |-> 0, bytes |-> 0, increased |-> FALSE,
           turn |-> 0]

Idle == call = NoCall

\* FindChunkPtr on the pool H on behalf of AllocateRaw(num_bytes), and return.
ReturnFrom(H, num_bytes) ==
  \/ \E h \in FindChunk(H, RoundedBytes(num_bytes)) :
       LET p == H.chunks_[h].ptr
       IN  /\ heap' = TakeChunk(H, h, RoundedBytes(num_bytes), num_bytes)
           /\ held' = [q \in DOMAIN held \union {p} |->
                         IF q = p THEN num_bytes ELSE held[q]]
  \/ /\ FindChunk(H, RoundedBytes(num_bytes)) = {}
     /\ heap' = H
     /\ held' = held

\* AllocateRaw served by the pool as it is.
AllocateFromPool(num_bytes) ==
  /\ Idle
  /\ num_bytes # 0
  /\ FindChunk(heap, RoundedBytes(num_bytes)) # {}
  /\ ReturnFrom(heap, num_bytes)
  /\ UNCHANGED <<curr_region_allocation_bytes_, total_region_allocated_bytes_,
                 alloc_mode, call>>

\* AllocateRaw has found no chunk and calls Extend.
NeedsExtend(num_bytes) ==
  /\ Idle
  /\ num_bytes # 0
  /\ FindChunk(heap, RoundedBytes(num_bytes)) = {}

\* AllocateRaw returns nullptr without having asked the driver.
AllocateFails(num_bytes) ==
  /\ \/ Idle /\ num_bytes = 0
     \/ NeedsExtend(num_bytes) /\ alloc_mode \notin {1, 2}
     \/ NeedsExtend(num_bytes) /\ RoundedBytes(num_bytes) > available_bytes
  /\ UNCHANGED vars

\* The size ExtendSmall asks the driver for.
SmallRegion(size) ==
  IF size <= kSmallSize THEN kSmallBuffer
  ELSE IF size < kMinLargeAlloc THEN kLargeBuffer
  ELSE kRoundLarge * ((size + kRoundLarge - 1) \div kRoundLarge)

ExtendSmall(num_bytes) ==
  LET bytes == SmallRegion(RoundedBytes(num_bytes))
  IN  /\ alloc_mode = 2
      /\ NeedsExtend(num_bytes)
      /\ RoundedBytes(num_bytes) <= available_bytes
      /\ \E mem_addr \in ITEX_GPUMalloc(bytes) :
           \/ mem_addr = nullptr /\ UNCHANGED vars
           \/ /\ mem_addr # nullptr
              /\ total_region_allocated_bytes_' =
                   total_region_allocated_bytes_ + bytes
              /\ ReturnFrom(AddRegion(heap, mem_addr, bytes), num_bytes)
              /\ UNCHANGED <<curr_region_allocation_bytes_, alloc_mode, call>>

\* ExtendLarge, up to its first loop.
ExtendLarge(num_bytes) ==
  /\ alloc_mode = 1
  /\ NeedsExtend(num_bytes)
  /\ RoundedBytes(num_bytes) <= available_bytes
  /\ call' = [pc |-> "grow", num_bytes |-> num_bytes, bytes |-> 0,
              increased |-> FALSE, turn |-> 0]
  /\ UNCHANGED <<heap, curr_region_allocation_bytes_,
                 total_region_allocated_bytes_, alloc_mode, held>>

Doubled == (2 * curr_region_allocation_bytes_) % GrainModulus

\* One turn of: while (rounded_bytes > curr_region_allocation_bytes_) ...
GrowRegionSize ==
  /\ call.pc = "grow"
  /\ RoundedBytes(call.num_bytes) > curr_region_allocation_bytes_
  /\ curr_region_allocation_bytes_' = Doubled
  /\ call' = [call EXCEPT !.increased = TRUE, !.turn = 1 - @]
  /\ UNCHANGED <<heap, total_region_allocated_bytes_, alloc_mode, held>>

AtMost(S) == CHOOSE m \in S : \A n \in S : m <= n

\* The driver has given ExtendLarge a region: record it and return.
GotRegion(mem_addr, bytes) ==
  /\ curr_region_allocation_bytes_' =
       IF call.increased THEN curr_region_allocation_bytes_ ELSE Doubled
  /\ total_region_allocated_bytes_' = total_region_allocated_bytes_ + bytes
  /\ ReturnFrom(AddRegion(heap, mem_addr, bytes), call.num_bytes)
  /\ call' = NoCall
  /\ UNCHANGED alloc_mode

\* The first ITEX_GPUMalloc of ExtendLarge.
TryMalloc ==
  LET bytes == AtMost({curr_region_allocation_bytes_, available_bytes, LimitAlloc})
  IN  /\ call.pc = "grow"
      /\ RoundedBytes(call.num_bytes) <= curr_region_allocation_bytes_
      /\ \E mem_addr \in ITEX_GPUMalloc(bytes) :
           \/ mem_addr # nullptr /\ GotRegion(mem_addr, bytes)
           \/ /\ mem_addr = nullptr
              /\ call' = [call EXCEPT !.pc = "backpedal", !.bytes = bytes]
              /\ UNCHANGED <<heap, curr_region_allocation_bytes_,
                             total_region_allocated_bytes_, alloc_mode, held>>

\* Mutated form: kBackpedalFactor = 0.95.
BackpedalledLess(bytes) == (19 * bytes + 19) \div 20

\* RoundedBytes(bytes * kBackpedalFactor), kBackpedalFactor = 0.9.
Backpedalled(bytes) == (9 * bytes + 9) \div 10

\* One turn of: while (mem_addr == nullptr) ...
Backpedal ==
  LET bytes == Backpedalled(call.bytes)
  IN  /\ call.pc = "backpedal"
      /\ bytes >= RoundedBytes(call.num_bytes)
      /\ \E mem_addr \in ITEX_GPUMalloc(bytes) :
           \/ mem_addr # nullptr /\ GotRegion(mem_addr, bytes)
           \/ /\ mem_addr = nullptr
              /\ call' = [call EXCEPT !.bytes = bytes, !.turn = 1 - @]
              /\ UNCHANGED <<heap, curr_region_allocation_bytes_,
                             total_region_allocated_bytes_, alloc_mode, held>>

\* The loop breaks: Extend returns false and AllocateRaw returns nullptr.
BackpedalGivesUp ==
  /\ call.pc = "backpedal"
  /\ Backpedalled(call.bytes) < RoundedBytes(call.num_bytes)
  /\ call' = NoCall
  /\ UNCHANGED <<heap, curr_region_allocation_bytes_,
                 total_region_allocated_bytes_, alloc_mode, held>>

\* A client frees a block it holds, or nullptr.
DeallocateRaw(p) ==
  /\ Idle
  /\ \/ p = nullptr /\ UNCHANGED vars
     \/ /\ p # nullptr
        /\ heap' = Release(heap, get_handle(heap, p))
        /\ held' = [q \in DOMAIN held \ {p} |-> held[q]]
        /\ UNCHANGED <<curr_region_allocation_bytes_,
                       total_region_allocated_bytes_, alloc_mode, call>>

-----------------------------------------------------------------------------

Init ==
  /\ alloc_mode \in AllocModes
  /\ heap = InitHeap
  /\ curr_region_allocation_bytes_ = RoundedBytes(memory_limit_)
  /\ total_region_allocated_bytes_ = 0
  /\ held = [p \in {} |-> 0]
  /\ call = NoCall

\* What the thread inside ExtendLarge does next.
ExtendStep == GrowRegionSize \/ TryMalloc \/ Backpedal \/ BackpedalGivesUp

Next ==
  \/ \E num_bytes \in Requests :
       \/ AllocateFromPool(num_bytes)
       \/ AllocateFails(num_bytes)
       \/ ExtendSmall(num_bytes)
       \/ ExtendLarge(num_bytes)
  \/ ExtendStep
  \/ \E p \in DOMAIN held \union {nullptr} : DeallocateRaw(p)

Spec == Init /\ [][Next]_vars

\* A thread that holds lock_ keeps running; nobody has to call.
FairSpec == Spec /\ WF_vars(ExtendStep)

-----------------------------------------------------------------------------
(* Types *)

Handle == Nat \union {kInvalidChunkHandle}

Chunk == [size : Nat, requested_size : Nat, allocation_id : {-1, 0}, ptr : Nat,
          prev : Handle, next : Handle, bin_num : Bins \union {kInvalidBinNum}]

Region == [ptr : Nat \ {0}, memory_size : Nat \ {0}]

\* The chunks that are part of a region; the others are on the free list.
Live(H) == {h \in DOMAIN H.chunks_ :
              /\ H.chunks_[h].ptr \in DOMAIN H.handles_
              /\ H.handles_[H.chunks_[h].ptr] = h}

HeapType(H) ==
  /\ IsFiniteSet(DOMAIN H.chunks_)
  /\ DOMAIN H.chunks_ = 0 .. Cardinality(DOMAIN H.chunks_) - 1
  /\ H.chunks_ \in [DOMAIN H.chunks_ -> Chunk]
  /\ H.free_chunks_list_ \in Handle
  /\ H.bins_ \in [Bins -> SUBSET DOMAIN H.chunks_]
  /\ H.regions_ \subseteq Region
  /\ DOMAIN H.handles_ = UNION {Grains(r.ptr, r.memory_size) : r \in H.regions_}
  /\ H.handles_ \in [DOMAIN H.handles_ -> DOMAIN H.chunks_ \union {kInvalidChunkHandle}]

CallType ==
  [pc : {"idle", "grow", "backpedal"}, num_bytes : Nat, bytes : Nat,
   increased : BOOLEAN, turn : {0, 1}]

\* Types of the variables; the slots are exactly the grains of the regions.
TypeOK ==
  /\ HeapType(heap)
  /\ curr_region_allocation_bytes_ \in Nat
  /\ total_region_allocated_bytes_ \in Nat
  /\ alloc_mode \in AllocModes
  /\ DOMAIN held \subseteq DOMAIN heap.handles_
  /\ held \in [DOMAIN held -> Requests]
  /\ call \in CallType

-----------------------------------------------------------------------------
(* Properties of the pool *)

\* None of the ITEX_CHECKs and ITEX_DCHECKs of bfc_allocator.{h,cc} fails, in
\* whatever order blocks of whatever sizes are allocated and freed.
NoCheckFails == heap.fatal = FALSE

Extent(c) == Grains(c.ptr, c.size)

\* bfc_allocator.h:65-70: the chunks of a region are disjoint, cover it
\* without gaps, and prev and next name the physically adjacent chunks.
ChunksTileRegions ==
  LET C == heap.chunks_
  IN  /\ UNION {Extent(C[h]) : h \in Live(heap)} = DOMAIN heap.handles_
      /\ \A g, h \in Live(heap) :
           g # h => Extent(C[g]) \intersect Extent(C[h]) = {}
      /\ \A h \in Live(heap) :
           /\ C[h].next # kInvalidChunkHandle =>
                /\ C[h].next \in Live(heap)
                /\ C[C[h].next].prev = h
                /\ C[C[h].next].ptr = C[h].ptr + C[h].size
           /\ C[h].prev # kInvalidChunkHandle =>
                C[h].prev \in Live(heap) /\ C[C[h].prev].next = h

\* bfc_allocator.h:108-109: the bins hold each free chunk exactly once, in the
\* bin for its size, and never a chunk in use or a deleted one.
FreeChunksAreBinned ==
  \A b \in Bins :
    heap.bins_[b] = {h \in Live(heap) :
                       /\ ~in_use(heap.chunks_[h])
                       /\ heap.chunks_[h].bin_num = b
                       /\ BinNumForSize(heap.chunks_[h].size) = b}
    /\ \A h \in Live(heap) :
         ~in_use(heap.chunks_[h]) => h \in heap.bins_[heap.chunks_[h].bin_num]

\* bfc_allocator.h:72-74: "We always merge adjacent free chunks": two chunks
\* that touch inside one region are never both free.
FreeChunksCoalesced ==
  \A g, h \in Live(heap) :
    /\ heap.chunks_[g].ptr + heap.chunks_[g].size = heap.chunks_[h].ptr
    /\ \A r \in heap.regions_ : r.ptr # heap.chunks_[h].ptr
    => in_use(heap.chunks_[g]) \/ in_use(heap.chunks_[h])

\* The handles on the list that starts at free_chunks_list_.
FreeList(H) ==
  LET n == Cardinality(DOMAIN H.chunks_)
      at[i \in 0 .. n] ==
        IF i = 0 THEN H.free_chunks_list_
        ELSE IF at[i - 1] = kInvalidChunkHandle THEN kInvalidChunkHandle
        ELSE H.chunks_[at[i - 1]].next
  IN  {at[i] : i \in 0 .. n} \ {kInvalidChunkHandle}

\* Every deleted chunk can be found again by AllocateChunk: chunks_ grows only
\* when more chunks than ever before are needed at once.
NoHandleLeaks == FreeList(heap) = DOMAIN heap.chunks_ \ Live(heap)

\* A block a client holds starts a chunk in use that has room for it, and every
\* chunk in use is such a block; bfc_allocator.cc:160-163: no more than the
\* threshold is wasted on padding it, nor as much again as was asked for.
BlocksAreChunks ==
  /\ {heap.chunks_[h].ptr : h \in {g \in Live(heap) : in_use(heap.chunks_[g])}}
       = DOMAIN held
  /\ \A p \in DOMAIN held :
       LET c == heap.chunks_[heap.handles_[p]]
           size == RoundedBytes(held[p])
       IN  /\ in_use(c)
           /\ c.requested_size = held[p]
           /\ size <= c.size
           /\ c.size < 2 * size
           /\ c.size - size < kMaxInternalFragmentation

\* In the default mode the regions together stay within memory_limit_, so the
\* driver keeps its reserve.
WithinMemoryLimit ==
  alloc_mode = 1 =>
    Cardinality(DOMAIN heap.handles_) * kMinAllocationSize <= memory_limit_

-----------------------------------------------------------------------------
(* Properties of steps *)

\* FindChunkPtr is best fit: an allocation that the pool can serve takes the
\* smallest free chunk that is large enough, the lowest of that size.
BestFit ==
  [][\A p \in DOMAIN held' \ DOMAIN held :
       LET c == heap.chunks_[heap.handles_[p]]
       IN  heap.regions_' = heap.regions_ =>
             \A h \in Live(heap) :
               /\ ~in_use(heap.chunks_[h])
               /\ heap.chunks_[h].size >= RoundedBytes(held'[p])
               => \/ c.size < heap.chunks_[h].size
                  \/ c.size = heap.chunks_[h].size /\ p <= heap.chunks_[h].ptr]_vars

\* The size an AllocateRaw that returns in this step was called with.
Asked == IF Idle THEN {held'[p] : p \in DOMAIN held' \ DOMAIN held}
         ELSE {call.num_bytes}

\* AllocateRaw adds a region only when no free chunk of the pool is large
\* enough for the request, and then serves the request from it, unless the
\* request is above LimitAlloc, which cuts regions to size without a second
\* look (bfc_allocator.cc:308); an existing region never changes or disappears.
GrowsOnlyWhenNeeded ==
  [][/\ heap.regions_ \subseteq heap.regions_'
     /\ heap.regions_' # heap.regions_ =>
          /\ \A num_bytes \in Asked, h \in Live(heap) :
               ~in_use(heap.chunks_[h]) =>
                 heap.chunks_[h].size < RoundedBytes(num_bytes)
          /\ \/ DOMAIN held' # DOMAIN held
             \/ \E num_bytes \in Asked : RoundedBytes(num_bytes) > LimitAlloc]_vars

\* The allocator implements what allocator.h promises its clients.
Abstract == INSTANCE AllocatorSpec WITH
  Grain <- kMinAllocationSize, Sizes <- Requests,
  memory <- DOMAIN heap.handles_, blocks <- held

ImplementsAllocator == Abstract!ASpec

-----------------------------------------------------------------------------
(* Liveness *)

\* An AllocateRaw that needs more than nine grains returns, however often the
\* driver refuses: every turn of the backpedal loop then asks for less.  The one
\* exception is a size of the next region that has been doubled to 0, modulo the
\* range of size_t: the loop at bfc_allocator.cc:301 then has nothing to double.
LargeCallReturns ==
  (~Idle /\ RoundedBytes(call.num_bytes) > 9)
    ~> (Idle \/ curr_region_allocation_bytes_ = 0)

=============================================================================
