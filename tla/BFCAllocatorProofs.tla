------------------------- MODULE BFCAllocatorProofs -------------------------
(***************************************************************************)
(* The invariants of BFCAllocator and its refinement of AllocatorSpec, for *)
(* every device, every limit, every set of requests and both modes.        *)
(*                                                                         *)
(* BFCHeapProofs shows what each member function does to the pool; here    *)
(* the calls are put together.  IInv is the inductive invariant: the pool  *)
(* is consistent between steps, the blocks clients hold are the chunks in  *)
(* use, the regions add up to total_region_allocated_bytes_, and a call    *)
(* inside ExtendLarge asks for no more than is available.                  *)
(***************************************************************************)
EXTENDS BFCHeapProofs

\* The blocks of f are the chunks in use of H.
Blocks(H, f) ==
  /\ f \in [DOMAIN f -> Requests \ {0}]
  /\ DOMAIN f = {H.chunks_[h].ptr : h \in Used(H)}
  /\ \A h \in Used(H) :
       /\ H.chunks_[h].requested_size = f[H.chunks_[h].ptr]
       /\ RoundedBytes(f[H.chunks_[h].ptr]) <= H.chunks_[h].size
       /\ H.chunks_[h].size < 2 * RoundedBytes(f[H.chunks_[h].ptr])
       /\ H.chunks_[h].size - RoundedBytes(f[H.chunks_[h].ptr])
            < kMaxInternalFragmentation

\* total_region_allocated_bytes_ is what the regions add up to.
Accounted ==
  /\ IsFiniteSet(DOMAIN heap.handles_)
  /\ total_region_allocated_bytes_ \in Nat
  /\ total_region_allocated_bytes_ = Cardinality(DOMAIN heap.handles_)
  /\ alloc_mode = 1 =>
       total_region_allocated_bytes_ * kMinAllocationSize <= memory_limit_

CallConsistent ==
  /\ call \in CallType
  /\ call.pc # "idle" =>
       /\ alloc_mode = 1
       /\ call.num_bytes \in Requests \ {0}
       /\ RoundedBytes(call.num_bytes) <= available_bytes
       /\ FindChunk(heap, RoundedBytes(call.num_bytes)) = {}
  /\ call.pc = "backpedal" => call.bytes <= available_bytes

IInv ==
  /\ Pool(heap)
  /\ Blocks(heap, held)
  /\ curr_region_allocation_bytes_ \in Nat
  /\ alloc_mode \in AllocModes
  /\ Accounted
  /\ CallConsistent

-----------------------------------------------------------------------------
(* Sizes *)

\* RoundedBytes is positive for every request but 0.
LEMMA RoundedType ==
  ASSUME NEW n \in Nat
  PROVE  RoundedBytes(n) \in Nat /\ (n # 0 => RoundedBytes(n) > 0)
BY GrainAssumption, SMT DEF RoundedBytes

\* The constructor leaves a limit that is not negative.
LEMMA LimitType == memory_limit_ \in Nat
BY MemoryAssumption DEF memory_limit_

\* available_bytes is a size_t even after a wrap-around.
LEMMA AvailableType ==
  ASSUME total_region_allocated_bytes_ \in Nat
  PROVE  available_bytes \in Nat
<1> DEFINE k == kMinAllocationSize
           m == GrainModulus * k
           a == memory_limit_ - total_region_allocated_bytes_ * k
<1>1. k \in Nat \ {0} /\ m \in Nat \ {0} /\ a \in Int
  BY GrainAssumption, ModulusAssumption, LimitType, SMT
<1> HIDE DEF k, m, a
<1>2. a % m \in Nat
  BY <1>1, SMT
<1>3. (a % m) \div k \in Nat
  BY <1>1, <1>2, SMT
<1> QED BY <1>3 DEF available_bytes, k, m, a

\* A region no larger than available_bytes keeps the total within the limit.
LEMMA AvailableFits ==
  ASSUME total_region_allocated_bytes_ \in Nat,
         total_region_allocated_bytes_ * kMinAllocationSize <= memory_limit_,
         NEW bytes \in Nat, bytes <= available_bytes
  PROVE  (total_region_allocated_bytes_ + bytes) * kMinAllocationSize <= memory_limit_
<1> DEFINE k == kMinAllocationSize
           m == GrainModulus * k
           t == total_region_allocated_bytes_
           a == memory_limit_ - t * k
           v == available_bytes
<1>1. /\ k \in Nat \ {0} /\ m \in Nat \ {0} /\ t * k \in Nat /\ t \in Nat
      /\ memory_limit_ \in Nat /\ v \in Nat
  BY GrainAssumption, ModulusAssumption, LimitType, AvailableType, SMT
<1>2. a \in Nat
  BY <1>1
<1>3. v = (a % m) \div k
  BY DEF available_bytes
<1> HIDE DEF k, m, a, v, t
<1>4. a % m \in Nat /\ a % m <= a
  BY <1>1, <1>2, SMT
<1>5. v * k <= a % m
  BY <1>1, <1>3, <1>4, SMT
<1>6. bytes * k <= v * k
  BY <1>1, SMT DEF v
<1>7. bytes * k \in Nat /\ v * k \in Nat
  BY <1>1, SMT
<1>8. (t + bytes) * k = t * k + bytes * k
  BY <1>1, SMT
<1>9. bytes * k <= a
  BY <1>2, <1>4, <1>5, <1>6, <1>7
<1> QED BY <1>1, <1>2, <1>7, <1>8, <1>9 DEF a, t, k

\* The two std::min of ExtendLarge.
LEMMA AtMostOfThree ==
  ASSUME NEW a \in Nat, NEW b \in Nat, NEW c \in Nat
  PROVE  LET m == AtMost({a, b, c})
         IN  m \in {a, b, c} /\ m <= a /\ m <= b /\ m <= c
<1> DEFINE S == {a, b, c}
<1>1. \E m \in S : \A n \in S : m <= n
  <2>1. CASE a <= b /\ a <= c BY <2>1
  <2>2. CASE b <= a /\ b <= c BY <2>2
  <2>3. CASE c <= a /\ c <= b BY <2>3
  <2> QED BY <2>1, <2>2, <2>3
<1>2. AtMost(S) \in S /\ \A n \in S : AtMost(S) <= n
  BY <1>1 DEF AtMost
<1> QED BY <1>2

\* ExtendSmall never asks the driver for nothing, nor for less than it needs.
LEMMA SmallRegionType ==
  ASSUME NEW size \in Nat, size > 0
  PROVE  SmallRegion(size) \in Nat \ {0} /\ size <= SmallRegion(size)
<1> DEFINE d == kRoundLarge
           q == (size + d - 1) \div d
<1>1. /\ d \in Nat \ {0} /\ kSmallBuffer \in Nat \ {0} /\ kLargeBuffer \in Nat \ {0}
      /\ kSmallSize \in Nat /\ kMinLargeAlloc \in Nat
      /\ kSmallSize <= kSmallBuffer /\ kMinLargeAlloc <= kLargeBuffer
  BY ThresholdsAssumption
<1> HIDE DEF d
<1>2. q \in Nat /\ q > 0
  BY <1>1, SMT
<1>4. size <= d * q
  <2> DEFINE x == size + d - 1
             r == x % d
  <2>1. x \in Nat /\ x = size + d - 1
    BY <1>1
  <2> HIDE DEF x
  <2>2. r \in 0 .. d - 1 /\ x = d * (x \div d) + r
    BY <1>1, <2>1, SMT
  <2> HIDE DEF r
  <2>3. x \div d = q
    BY DEF x, q
  <2> HIDE DEF q
  <2> DEFINE m == d * q
  <2>4. m \in Nat /\ x = m + r
    BY <1>1, <1>2, <2>2, <2>3
  <2> HIDE DEF m
  <2>5. size <= m
    BY <1>1, <2>1, <2>2, <2>4
  <2> QED BY <2>5 DEF m
<1> HIDE DEF q
<1>3. d * q \in Nat \ {0}
  BY <1>1, <1>2, SMT
<1>5. CASE size <= kSmallSize
  BY <1>1, <1>5 DEF SmallRegion
<1>6. CASE ~(size <= kSmallSize) /\ size < kMinLargeAlloc
  BY <1>1, <1>6 DEF SmallRegion
<1>7. CASE ~(size <= kSmallSize) /\ ~(size < kMinLargeAlloc)
  BY <1>3, <1>4, <1>7 DEF SmallRegion, d, q
<1> QED BY <1>5, <1>6, <1>7

-----------------------------------------------------------------------------
(* The calls *)

\* What FindChunkPtr finds is a free chunk with room for the request.
LEMMA FindChunkSound ==
  ASSUME NEW H, Pool(H), NEW size, NEW h \in FindChunk(H, size)
  PROVE  h \in Live(H) /\ ~in_use(H.chunks_[h]) /\ size <= H.chunks_[h].size
<1>1. BinNumForSize(size) \in Bins
  BY BinType
<1>2. PICK b \in BinNumForSize(size) .. kNumBins - 1 : h \in FitsIn(H, b, size)
  BY DEF FindChunk
<1>3. b \in Bins /\ b # kInvalidBinNum
  BY <1>1, <1>2, BinsAssumption DEF Bins, kInvalidBinNum
<1>4. h \in H.bins_[b] /\ H.chunks_[h].size >= size
  BY <1>2 DEF FitsIn
<1>5. h \in DOMAIN H.chunks_
  BY <1>3, <1>4 DEF Pool, Sound, HeapType
<1>6. H.chunks_[h].bin_num = b
  BY <1>3, <1>4, <1>5 DEF Pool, Binned
<1>7. h \in Live(H) /\ ~in_use(H.chunks_[h])
  BY <1>3, <1>5, <1>6 DEF Pool, Binned
<1>8. size <= H.chunks_[h].size
  BY <1>4
<1> QED BY <1>7, <1>8

\* A larger size has no smaller bin.
LEMMA BinMonotone ==
  ASSUME NEW m \in Int, NEW n \in Int, m <= n
  PROVE  BinNumForSize(m) <= BinNumForSize(n)
<1> DEFINE S == {b \in 1 .. kNumBins - 1 : 2^b <= m}
           T == {b \in 1 .. kNumBins - 1 : 2^b <= n}
<1>1. kNumBins \in Nat /\ \A b \in 1 .. kNumBins - 1 : 2^b \in Int
  BY BinsAssumption
<1>2. T \in SUBSET (1 .. kNumBins - 1) /\ IsFiniteSet(1 .. kNumBins - 1)
  BY <1>1, FS_Interval
<1>3. IsFiniteSet(T)
  BY <1>2, FS_Subset
<1>4. S \in SUBSET T
  BY <1>1
<1>5. Cardinality(S) <= Cardinality(T)
  BY <1>3, <1>4, FS_Subset
<1> QED BY <1>5 DEF BinNumForSize

\* A free chunk with room for a request is in a bin FindChunkPtr looks at.
LEMMA FitIsBinned ==
  ASSUME NEW H, Pool(H), NEW size \in Nat, NEW g \in Live(H),
         ~in_use(H.chunks_[g]), size <= H.chunks_[g].size
  PROVE  LET b == BinNumForSize(H.chunks_[g].size)
         IN  /\ H.chunks_[g].size \in Nat /\ b \in Bins
             /\ b \in BinNumForSize(size) .. kNumBins - 1
             /\ g \in FitsIn(H, b, size)
<1> DEFINE b == BinNumForSize(H.chunks_[g].size)
<1>1. g \in DOMAIN H.chunks_ /\ H.chunks_[g].size \in Nat
  BY DEF Pool, Sound, HeapType, Chunk, Live
<1>2. b \in Bins /\ BinNumForSize(size) \in Bins /\ BinNumForSize(size) <= b
  BY <1>1, BinType, BinMonotone
<1>3. H.chunks_[g].bin_num = b
  BY <1>1 DEF Pool, Binned
<1>4. g \in H.bins_[b]
  BY <1>1, <1>2, <1>3 DEF Pool, Binned
<1> HIDE DEF b
<1>5. b \in BinNumForSize(size) .. kNumBins - 1
  BY <1>2, BinsAssumption DEF Bins
<1>6. g \in FitsIn(H, b, size)
  BY <1>1, <1>4 DEF FitsIn
<1> QED BY <1>1, <1>2, <1>5, <1>6 DEF b

\* What FindChunkPtr finds is the smallest free chunk with room for the
\* request, and the lowest of those: the bins it passes over have nothing that
\* fits, and the ones it does not reach only larger chunks.
LEMMA FindChunkBest ==
  ASSUME NEW H, Pool(H), NEW size \in Nat, NEW h \in FindChunk(H, size),
         NEW g \in Live(H), ~in_use(H.chunks_[g]), size <= H.chunks_[g].size
  PROVE  \/ H.chunks_[h].size < H.chunks_[g].size
         \/ /\ H.chunks_[h].size = H.chunks_[g].size
            /\ H.chunks_[h].ptr <= H.chunks_[g].ptr
<1> DEFINE a == BinNumForSize(H.chunks_[g].size)
<1>1. /\ H.chunks_[g].size \in Nat /\ a \in BinNumForSize(size) .. kNumBins - 1
      /\ g \in FitsIn(H, a, size) /\ a \in Bins
  BY FitIsBinned
<1>2. PICK b \in BinNumForSize(size) .. kNumBins - 1 :
        /\ h \in FitsIn(H, b, size)
        /\ \A d \in BinNumForSize(size) .. b - 1 : FitsIn(H, d, size) = {}
        /\ \A k \in FitsIn(H, b, size) : ~ChunkComparator(H, k, h)
  BY DEF FindChunk
<1>3. h \in Live(H) /\ ~in_use(H.chunks_[h]) /\ size <= H.chunks_[h].size
  BY FindChunkSound
<1>4. /\ H.chunks_[h].size \in Nat /\ H.chunks_[h].ptr \in Nat
      /\ H.chunks_[g].ptr \in Nat /\ h \in DOMAIN H.chunks_
  BY <1>3 DEF Pool, Sound, HeapType, Chunk, Live
<1>5. BinNumForSize(size) \in Nat /\ b \in Bins /\ kNumBins \in Nat
  BY BinType, BinsAssumption DEF Bins
<1>6. H.chunks_[h].bin_num = b /\ b = BinNumForSize(H.chunks_[h].size)
  <2>1. h \in H.bins_[b] /\ b # kInvalidBinNum
    BY <1>2, <1>5 DEF FitsIn, Bins, kInvalidBinNum
  <2> QED BY <1>4, <1>5, <2>1 DEF Pool, Binned
<1> HIDE DEF a
<1>7. CASE a < b
  BY <1>1, <1>2, <1>5, <1>7
<1>8. CASE a = b
  BY <1>1, <1>2, <1>4, <1>8 DEF ChunkComparator
<1>9. CASE b < a
  <2>1. ~(H.chunks_[g].size <= H.chunks_[h].size)
    <3> SUFFICES ASSUME H.chunks_[g].size <= H.chunks_[h].size PROVE FALSE
      OBVIOUS
    <3>1. a <= b
      BY <1>1, <1>4, <1>6, BinMonotone DEF a
    <3> QED BY <1>1, <1>5, <1>9, <3>1 DEF Bins
  <2> QED BY <1>1, <1>4, <2>1
<1> QED BY <1>1, <1>5, <1>7, <1>8, <1>9 DEF Bins

\* FindChunkPtr finds something if any free chunk has room for the request.
LEMMA FindChunkComplete ==
  ASSUME NEW H, Pool(H), NEW size \in Nat, NEW g \in Live(H),
         ~in_use(H.chunks_[g]), size <= H.chunks_[g].size
  PROVE  FindChunk(H, size) # {}
<1> DEFINE first == BinNumForSize(size)
           B == {b \in first .. kNumBins - 1 : FitsIn(H, b, size) # {}}
<1>1. first \in Nat /\ kNumBins \in Nat
  BY BinType, BinsAssumption DEF Bins
<1>2. B # {} /\ B \in SUBSET Nat
  <2>1. B # {}
    BY FitIsBinned
  <2> HIDE DEF first
  <2> QED BY <1>1, <2>1
<1> HIDE DEF first
<1>3. PICK b \in B : \A d \in B : b <= d
  BY <1>2, Least
<1>4. /\ b \in first .. kNumBins - 1 /\ b \in Bins
      /\ \A d \in first .. b - 1 : FitsIn(H, d, size) = {}
  BY <1>1, <1>3 DEF Bins
<1> DEFINE F == FitsIn(H, b, size)
           sizes == {H.chunks_[k].size : k \in F}
<1>5. \A k \in F : H.chunks_[k].size \in Nat /\ H.chunks_[k].ptr \in Nat
  BY <1>4 DEF Pool, Sound, HeapType, Chunk, FitsIn
<1>6. F # {}
  BY <1>3
<1> HIDE DEF F
<1>7. PICK s \in sizes : \A t \in sizes : s <= t
  <2>1. sizes \in SUBSET Nat /\ sizes # {}
    BY <1>5, <1>6
  <2> QED BY <2>1, Least
<1> DEFINE ptrs == {H.chunks_[k].ptr : k \in {i \in F : H.chunks_[i].size = s}}
<1>8. PICK p \in ptrs : \A q \in ptrs : p <= q
  <2>1. ptrs \in SUBSET Nat /\ ptrs # {}
    BY <1>5, <1>7
  <2> QED BY <2>1, Least
<1>9. PICK h \in F : H.chunks_[h].size = s /\ H.chunks_[h].ptr = p
  BY <1>8
<1>10. ASSUME NEW k \in F PROVE ~ChunkComparator(H, k, h)
  <2>1. s <= H.chunks_[k].size
    BY <1>7
  <2>2. H.chunks_[k].size = s => p <= H.chunks_[k].ptr
    BY <1>8
  <2> QED BY <1>5, <1>9, <2>1, <2>2 DEF ChunkComparator
<1>11. h \in FindChunk(H, size)
  BY <1>4, <1>9, <1>10 DEF FindChunk, F, first
<1> QED BY <1>11

\* Distinct chunks start at distinct addresses of the pool.
LEMMA LivePointers ==
  ASSUME NEW H, Pool(H)
  PROVE  /\ \A h \in Live(H) : /\ h \in DOMAIN H.chunks_ /\ H.chunks_[h] \in Chunk
                               /\ H.chunks_[h].ptr \in DOMAIN H.handles_
                               /\ H.handles_[H.chunks_[h].ptr] = h
         /\ \A g, h \in Live(H) : H.chunks_[g].ptr = H.chunks_[h].ptr => g = h
BY DEF Live, Pool, Sound, HeapType

\* The clients' blocks with the one at p added.
With(f, p, n) == [q \in DOMAIN f \union {p} |-> IF q = p THEN n ELSE f[q]]

\* A block taken from the pool is a new block, and the others stay theirs.
LEMMA TakeBlocks ==
  ASSUME NEW H, Pool(H), NEW f, Blocks(H, f), NEW h \in Live(H), NEW T,
         NEW n \in Requests \ {0}, Taken(H, h, RoundedBytes(n), n, T)
  PROVE  /\ Blocks(T, With(f, H.chunks_[h].ptr, n))
         /\ H.chunks_[h].ptr \notin DOMAIN f
<1> DEFINE p == H.chunks_[h].ptr
           F == With(f, p, n)
<1>1. p \notin DOMAIN f
  <2>1. h \notin Used(H) /\ \A g \in Used(H) : g \in Live(H)
    BY DEF Taken, Used
  <2> QED BY <2>1, LivePointers DEF Blocks
<1>2. /\ DOMAIN F = DOMAIN f \union {p} /\ F[p] = n
      /\ \A q \in DOMAIN f : F[q] = f[q]
      /\ F \in [DOMAIN F -> Requests \ {0}]
  BY <1>1 DEF Blocks, With
<1> HIDE DEF F, p
<1>3. Used(T) = Used(H) \union {h} /\ T.chunks_[h].ptr = p
      /\ \A g \in Used(H) : /\ T.chunks_[g].ptr = H.chunks_[g].ptr
                            /\ T.chunks_[g].size = H.chunks_[g].size
                            /\ T.chunks_[g].requested_size = H.chunks_[g].requested_size
  BY DEF Taken, p
<1>4. DOMAIN F = {T.chunks_[g].ptr : g \in Used(T)}
  BY <1>2, <1>3 DEF Blocks
<1>5. ASSUME NEW g \in Used(T)
      PROVE  /\ T.chunks_[g].requested_size = F[T.chunks_[g].ptr]
             /\ RoundedBytes(F[T.chunks_[g].ptr]) <= T.chunks_[g].size
             /\ T.chunks_[g].size < 2 * RoundedBytes(F[T.chunks_[g].ptr])
             /\ T.chunks_[g].size - RoundedBytes(F[T.chunks_[g].ptr])
                  < kMaxInternalFragmentation
  <2>1. CASE g = h
    BY <1>2, <1>3, <2>1 DEF Taken
  <2>2. CASE g \in Used(H)
    <3>1. H.chunks_[g].ptr \in DOMAIN f
      BY <2>2 DEF Blocks
    <3>2. F[T.chunks_[g].ptr] = f[H.chunks_[g].ptr]
      BY <1>2, <1>3, <2>2, <3>1
    <3> QED BY <1>3, <2>2, <3>2 DEF Blocks
  <2> QED BY <1>3, <2>1, <2>2
<1> QED BY <1>1, <1>2, <1>4, <1>5 DEF Blocks, F, p

\* A block given back is gone, and the others stay theirs.
LEMMA ReleaseBlocks ==
  ASSUME NEW H, Pool(H), NEW f, Blocks(H, f), NEW h \in Used(H), NEW R,
         Released(H, h, R)
  PROVE  Blocks(R, [q \in DOMAIN f \ {H.chunks_[h].ptr} |-> f[q]])
<1> DEFINE p == H.chunks_[h].ptr
           F == [q \in DOMAIN f \ {p} |-> f[q]]
<1>1. /\ DOMAIN F = DOMAIN f \ {p} /\ \A q \in DOMAIN F : F[q] = f[q]
      /\ F \in [DOMAIN F -> Requests \ {0}]
  BY DEF Blocks
<1> HIDE DEF F
<1>2. Used(R) = Used(H) \ {h}
      /\ \A g \in Used(R) : /\ R.chunks_[g].ptr = H.chunks_[g].ptr
                            /\ R.chunks_[g].size = H.chunks_[g].size
                            /\ R.chunks_[g].requested_size = H.chunks_[g].requested_size
  BY DEF Released
<1>3. \A g \in Used(R) : H.chunks_[g].ptr # p /\ H.chunks_[g].ptr \in DOMAIN f
  <2>1. \A g \in Used(H) : g \in Live(H)
    BY DEF Used
  <2>2. \A g \in Used(R) : g \in Used(H) /\ g # h
    BY <1>2
  <2> QED BY <2>1, <2>2, LivePointers DEF Blocks
<1>4. DOMAIN F = {R.chunks_[g].ptr : g \in Used(R)}
  <2>1. \A q \in DOMAIN F : \E g \in Used(R) : q = R.chunks_[g].ptr
    BY <1>1, <1>2 DEF Blocks
  <2>2. \A g \in Used(R) : R.chunks_[g].ptr \in DOMAIN F
    BY <1>1, <1>2, <1>3
  <2> QED BY <2>1, <2>2
<1>5. ASSUME NEW g \in Used(R)
      PROVE  /\ R.chunks_[g].requested_size = F[R.chunks_[g].ptr]
             /\ RoundedBytes(F[R.chunks_[g].ptr]) <= R.chunks_[g].size
             /\ R.chunks_[g].size < 2 * RoundedBytes(F[R.chunks_[g].ptr])
             /\ R.chunks_[g].size - RoundedBytes(F[R.chunks_[g].ptr])
                  < kMaxInternalFragmentation
  <2>1. F[R.chunks_[g].ptr] = f[H.chunks_[g].ptr] /\ g \in Used(H)
    BY <1>1, <1>2, <1>3
  <2> QED BY <1>2, <2>1 DEF Blocks
<1> QED BY <1>1, <1>4, <1>5 DEF Blocks, F

\* A new region changes no block.
LEMMA ExtendBlocks ==
  ASSUME NEW H, NEW f, Blocks(H, f), NEW A, UsedUnchanged(H, A)
  PROVE  Blocks(A, f)
<1>1. DOMAIN f = {A.chunks_[g].ptr : g \in Used(A)}
  BY DEF Blocks, UsedUnchanged
<1> QED BY <1>1 DEF Blocks, UsedUnchanged

\* AllocateRaw's last look at the pool.
LEMMA ReturnFromSound ==
  ASSUME NEW H, Pool(H), Blocks(H, held), NEW n \in Requests \ {0}, ReturnFrom(H, n)
  PROVE  /\ Pool(heap') /\ Blocks(heap', held')
         /\ DOMAIN heap'.handles_ = DOMAIN H.handles_ /\ heap'.regions_ = H.regions_
         /\ \/ held' = held
            \/ \E h \in Live(H) : /\ Taken(H, h, RoundedBytes(n), n, heap')
                                  /\ held' = With(held, H.chunks_[h].ptr, n)
<1>1. n \in Nat /\ n # 0 /\ RoundedBytes(n) \in Nat /\ RoundedBytes(n) > 0
  BY RequestsAssumption, RoundedType
<1>2. CASE heap' = H /\ held' = held
  BY <1>2
<1>3. ASSUME NEW h \in FindChunk(H, RoundedBytes(n)),
             heap' = TakeChunk(H, h, RoundedBytes(n), n),
             held' = With(held, H.chunks_[h].ptr, n)
      PROVE  /\ Pool(heap') /\ Blocks(heap', held')
             /\ DOMAIN heap'.handles_ = DOMAIN H.handles_ /\ heap'.regions_ = H.regions_
             /\ h \in Live(H) /\ Taken(H, h, RoundedBytes(n), n, heap')
  <2>1. h \in Live(H) /\ ~in_use(H.chunks_[h]) /\ RoundedBytes(n) <= H.chunks_[h].size
    BY FindChunkSound
  <2>2. Taken(H, h, RoundedBytes(n), n, heap')
    BY <1>1, <1>3, <2>1, TakeSound
  <2>3. Blocks(heap', held')
    BY <1>3, <2>1, <2>2, TakeBlocks
  <2>4. Pool(heap') /\ DOMAIN heap'.handles_ = DOMAIN H.handles_
        /\ heap'.regions_ = H.regions_
    BY <2>2 DEF Taken
  <2> QED BY <2>1, <2>2, <2>3, <2>4
<1> QED BY <1>2, <1>3 DEF ReturnFrom, With

\* The pool once the driver has given it a region.
LEMMA GrownSound ==
  ASSUME Pool(heap), Blocks(heap, held), Accounted,
         NEW bytes \in Nat \ {0}, NEW mem_addr \in ITEX_GPUMalloc(bytes),
         mem_addr # nullptr
  PROVE  LET A == AddRegion(heap, mem_addr, bytes)
         IN  /\ Pool(A) /\ Blocks(A, held)
             /\ DOMAIN heap.handles_ \subseteq DOMAIN A.handles_
             /\ heap.regions_ \subseteq A.regions_
             /\ IsFiniteSet(DOMAIN A.handles_)
             /\ Cardinality(DOMAIN A.handles_) = total_region_allocated_bytes_ + bytes
<1> DEFINE A == AddRegion(heap, mem_addr, bytes)
           G == Grains(mem_addr, bytes)
           D == DOMAIN heap.handles_
<1>1. mem_addr \in Nat \ {0} /\ G \intersect D = {}
  BY AddressAssumption DEF ITEX_GPUMalloc
<1>2. Extended(heap, mem_addr, bytes, A)
  BY <1>1, AddRegionSound
<1> HIDE DEF A
<1>3. Pool(A) /\ DOMAIN A.handles_ = D \union G /\ UsedUnchanged(heap, A)
      /\ heap.regions_ \subseteq A.regions_
  BY <1>2 DEF Extended
<1>4. Blocks(A, held)
  BY <1>3, ExtendBlocks
<1>5. IsFiniteSet(G) /\ Cardinality(G) = bytes
  <2> DEFINE b == mem_addr + bytes - 1
  <2>1. mem_addr \in Int /\ b \in Int /\ mem_addr <= b /\ b - mem_addr + 1 = bytes
    BY <1>1
  <2> HIDE DEF b
  <2>2. IsFiniteSet(mem_addr .. b) /\ Cardinality(mem_addr .. b) = b - mem_addr + 1
    BY <2>1, FS_Interval
  <2> QED BY <2>1, <2>2 DEF Grains, b
<1>6. IsFiniteSet(D) /\ Cardinality(D) = total_region_allocated_bytes_
      /\ total_region_allocated_bytes_ \in Nat
  BY DEF Accounted
<1> HIDE DEF D, G
<1>7. /\ IsFiniteSet(D \union G)
      /\ Cardinality(D \union G) = Cardinality(D) + Cardinality(G) - Cardinality(D \intersect G)
  BY <1>5, <1>6, FS_Union
<1>8. Cardinality(D \intersect G) = 0
  <2>1. D \intersect G = {}
    BY <1>1
  <2> QED BY <2>1, FS_EmptySet
<1>9. Cardinality(D \union G) = total_region_allocated_bytes_ + bytes
  BY <1>5, <1>6, <1>7, <1>8
<1> QED BY <1>3, <1>4, <1>7, <1>9 DEF A, D

\* One request served from a region the driver has just given.
LEMMA GrownReturn ==
  ASSUME IInv, NEW bytes \in Nat \ {0}, NEW mem_addr \in ITEX_GPUMalloc(bytes),
         mem_addr # nullptr, NEW n \in Requests \ {0},
         ReturnFrom(AddRegion(heap, mem_addr, bytes), n),
         total_region_allocated_bytes_' = total_region_allocated_bytes_ + bytes,
         alloc_mode' = alloc_mode,
         alloc_mode = 1 => bytes <= available_bytes
  PROVE  Pool(heap') /\ Blocks(heap', held') /\ Accounted'
<1> DEFINE A == AddRegion(heap, mem_addr, bytes)
<1>1. /\ Pool(A) /\ Blocks(A, held)
      /\ IsFiniteSet(DOMAIN A.handles_)
      /\ Cardinality(DOMAIN A.handles_) = total_region_allocated_bytes_ + bytes
  BY GrownSound DEF IInv
<1>2. ReturnFrom(A, n)
  OBVIOUS
<1> HIDE DEF A
<1>3. /\ Pool(heap') /\ Blocks(heap', held')
      /\ DOMAIN heap'.handles_ = DOMAIN A.handles_
  BY <1>1, <1>2, ReturnFromSound
<1>4. total_region_allocated_bytes_ \in Nat /\ total_region_allocated_bytes_' \in Nat
  BY DEF IInv, Accounted
<1>5. alloc_mode' = 1 =>
        total_region_allocated_bytes_' * kMinAllocationSize <= memory_limit_'
  <2> HAVE alloc_mode' = 1
  <2>1. memory_limit_' = memory_limit_
    BY DEF memory_limit_
  <2>2. (total_region_allocated_bytes_ + bytes) * kMinAllocationSize <= memory_limit_
    BY <1>4, AvailableFits DEF IInv, Accounted
  <2> QED BY <2>1, <2>2
<1> QED BY <1>1, <1>3, <1>4, <1>5 DEF Accounted

-----------------------------------------------------------------------------
(* The invariant *)

\* The constructor establishes the invariant.
LEMMA InitIInv == Init => IInv
<1> SUFFICES ASSUME Init PROVE IInv
  OBVIOUS
<1>1. heap = InitHeap /\ held = [p \in {} |-> 0] /\ call = NoCall
      /\ total_region_allocated_bytes_ = 0 /\ alloc_mode \in AllocModes
      /\ curr_region_allocation_bytes_ = RoundedBytes(memory_limit_)
  BY DEF Init
<1>2. /\ heap.chunks_ = [h \in {} |-> NewChunk] /\ DOMAIN heap.chunks_ = {}
      /\ heap.free_chunks_list_ = kInvalidChunkHandle
      /\ heap.bins_ = [b \in Bins |-> {}] /\ heap.regions_ = {}
      /\ heap.handles_ = [p \in {} |-> kInvalidChunkHandle]
      /\ DOMAIN heap.handles_ = {} /\ heap.fatal = FALSE /\ IsHeap(heap)
  BY <1>1 DEF InitHeap, IsHeap
<1>3. IsFiniteSet({}) /\ Cardinality({}) = 0
  BY FS_EmptySet
<1>4. Live(heap) = {} /\ Dead(heap) = {} /\ Used(heap) = {}
  BY <1>2 DEF Live, Dead, Used
<1>5. HeapType(heap)
  <2>1. 0 .. Cardinality(DOMAIN heap.chunks_) - 1 = {}
    BY <1>2, <1>3
  <2>2. heap.chunks_ \in [DOMAIN heap.chunks_ -> Chunk]
    BY <1>2
  <2>3. heap.handles_ \in [DOMAIN heap.handles_ -> DOMAIN heap.chunks_ \union {kInvalidChunkHandle}]
    BY <1>2
  <2>4. heap.bins_ \in [Bins -> SUBSET DOMAIN heap.chunks_]
    BY <1>2
  <2>5. UNION {Grains(r.ptr, r.memory_size) : r \in heap.regions_} = {}
    BY <1>2
  <2> QED BY <1>2, <1>3, <2>1, <2>2, <2>3, <2>4, <2>5 DEF HeapType, Handle
<1>6. Pool(heap)
  <2>1. Sound(heap)
    BY <1>2, <1>4, <1>5
       DEF Sound, SlotsPoint, ChunksSized, ChunksLinked, ChunksCover, RegionsDisjoint,
           FreeListLinked, FreeListReaches
  <2>2. Binned(heap, {})
    BY <1>2, <1>4 DEF Binned
  <2>3. NoFreePair(heap, {})
    BY <1>4 DEF NoFreePair
  <2> QED BY <2>1, <2>2, <2>3 DEF Pool
<1>7. Blocks(heap, held)
  BY <1>1, <1>4 DEF Blocks
<1>8. curr_region_allocation_bytes_ \in Nat
  BY <1>1, LimitType, RoundedType
<1>9. Accounted
  <2>1. 0 * kMinAllocationSize <= memory_limit_
    BY LimitType, GrainAssumption
  <2> QED BY <1>1, <1>2, <1>3, <2>1 DEF Accounted
<1>10. CallConsistent
  BY <1>1 DEF CallConsistent, CallType, NoCall
<1> QED BY <1>1, <1>6, <1>7, <1>8, <1>9, <1>10 DEF IInv

\* A step of AllocateRaw or of ExtendLarge that leaves the pool alone.
LEMMA PoolUntouched ==
  ASSUME IInv, UNCHANGED <<heap, total_region_allocated_bytes_, alloc_mode, held>>
  PROVE  /\ Pool(heap') /\ Blocks(heap', held') /\ Accounted'
         /\ alloc_mode' \in AllocModes /\ available_bytes' = available_bytes
BY DEF IInv, Accounted, memory_limit_, available_bytes

\* Every call, and every turn of the loops of ExtendLarge, keeps the invariant.
LEMMA NextIInv == IInv /\ [Next]_vars => IInv'
<1> SUFFICES ASSUME IInv, [Next]_vars PROVE IInv'
  OBVIOUS
<1> USE DEF IInv
<1>0. /\ Requests \subseteq Nat /\ total_region_allocated_bytes_ \in Nat
      /\ available_bytes \in Nat /\ GrainModulus \in Nat \ {0} /\ LimitAlloc \in Nat \ {0}
      /\ curr_region_allocation_bytes_ \in Nat /\ call \in CallType
  BY RequestsAssumption, AvailableType, ModulusAssumption, LimitAssumption
     DEF Accounted, CallConsistent
<1>1. ASSUME UNCHANGED vars PROVE IInv'
  <2>1. UNCHANGED <<heap, curr_region_allocation_bytes_,
                    total_region_allocated_bytes_, alloc_mode, held, call>>
    BY <1>1 DEF vars
  <2>2. CallConsistent'
    BY <2>1, PoolUntouched DEF CallConsistent
  <2> QED BY <2>1, <2>2, PoolUntouched
<1>2. ASSUME NEW n \in Requests, AllocateFromPool(n) PROVE IInv'
  <2>1. /\ n # 0 /\ ReturnFrom(heap, n)
        /\ UNCHANGED <<curr_region_allocation_bytes_, total_region_allocated_bytes_,
                       alloc_mode, call>>
    BY <1>2 DEF AllocateFromPool
  <2>2. /\ Pool(heap') /\ Blocks(heap', held')
        /\ DOMAIN heap'.handles_ = DOMAIN heap.handles_
    BY <2>1, ReturnFromSound
  <2>3. Accounted'
    BY <2>1, <2>2 DEF Accounted, memory_limit_
  <2>4. CallConsistent'
    <3>1. call' = NoCall
      BY <1>2, <2>1 DEF AllocateFromPool, Idle
    <3> QED BY <3>1 DEF CallConsistent, NoCall, CallType
  <2> QED BY <2>1, <2>2, <2>3, <2>4
<1>3. ASSUME NEW n \in Requests, AllocateFails(n) PROVE IInv'
  BY <1>1, <1>3 DEF AllocateFails
<1>4. ASSUME NEW n \in Requests, ExtendSmall(n) PROVE IInv'
  <2> DEFINE bytes == SmallRegion(RoundedBytes(n))
  <2>1. alloc_mode = 2 /\ Idle /\ n # 0
    BY <1>4 DEF ExtendSmall, NeedsExtend
  <2>2. bytes \in Nat \ {0}
    BY <1>0, <2>1, RoundedType, SmallRegionType
  <2>3. PICK mem_addr \in ITEX_GPUMalloc(bytes) :
          \/ mem_addr = nullptr /\ UNCHANGED vars
          \/ /\ mem_addr # nullptr
             /\ total_region_allocated_bytes_' = total_region_allocated_bytes_ + bytes
             /\ ReturnFrom(AddRegion(heap, mem_addr, bytes), n)
             /\ UNCHANGED <<curr_region_allocation_bytes_, alloc_mode, call>>
    BY <1>4 DEF ExtendSmall
  <2> HIDE DEF bytes
  <2>4. CASE UNCHANGED vars
    BY <1>1, <2>4
  <2>5. CASE /\ mem_addr # nullptr
             /\ total_region_allocated_bytes_' = total_region_allocated_bytes_ + bytes
             /\ ReturnFrom(AddRegion(heap, mem_addr, bytes), n)
             /\ UNCHANGED <<curr_region_allocation_bytes_, alloc_mode, call>>
    <3>1. Pool(heap') /\ Blocks(heap', held') /\ Accounted'
      BY <2>1, <2>2, <2>5, GrownReturn
    <3>2. CallConsistent'
      <4>1. call' = NoCall
        BY <2>1, <2>5 DEF Idle
      <4> QED BY <4>1 DEF CallConsistent, NoCall, CallType
    <3> QED BY <2>5, <3>1, <3>2
  <2> QED BY <2>3, <2>4, <2>5
<1>5. ASSUME NEW n \in Requests, ExtendLarge(n) PROVE IInv'
  <2>1. /\ alloc_mode = 1 /\ n # 0 /\ RoundedBytes(n) <= available_bytes
        /\ FindChunk(heap, RoundedBytes(n)) = {}
        /\ call' = [pc |-> "grow", num_bytes |-> n, bytes |-> 0,
                    increased |-> FALSE, turn |-> 0]
        /\ UNCHANGED <<heap, curr_region_allocation_bytes_,
                       total_region_allocated_bytes_, alloc_mode, held>>
    BY <1>5 DEF ExtendLarge, NeedsExtend
  <2>2. CallConsistent'
    <3>1. call' \in CallType /\ call'.pc = "grow" /\ call'.num_bytes = n
      BY <1>0, <2>1 DEF CallType
    <3> QED BY <2>1, <3>1, PoolUntouched DEF CallConsistent
  <2> QED BY <2>1, <2>2, PoolUntouched
<1>6. ASSUME GrowRegionSize PROVE IInv'
  <2>1. /\ call.pc = "grow" /\ curr_region_allocation_bytes_' = Doubled
        /\ call' = [call EXCEPT !.increased = TRUE, !.turn = 1 - @]
        /\ UNCHANGED <<heap, total_region_allocated_bytes_, alloc_mode, held>>
    BY <1>6 DEF GrowRegionSize
  <2>2. curr_region_allocation_bytes_' \in Nat
    BY <1>0, <2>1, SMT DEF Doubled
  <2>3. CallConsistent'
    <3> DEFINE turn == 1 - call.turn
    <3>0. turn \in {0, 1} /\ call' = [call EXCEPT !.increased = TRUE, !.turn = turn]
      BY <1>0, <2>1 DEF CallType
    <3> HIDE DEF turn
    <3>1. call' \in CallType /\ call'.pc = "grow" /\ call'.num_bytes = call.num_bytes
      BY <1>0, <2>1, <3>0 DEF CallType
    <3> QED BY <2>1, <3>1, PoolUntouched DEF CallConsistent
  <2> QED BY <2>1, <2>2, <2>3, PoolUntouched
<1>7. ASSUME NEW bytes \in Nat \ {0}, NEW mem_addr \in ITEX_GPUMalloc(bytes),
             mem_addr # nullptr, call.pc # "idle", bytes <= available_bytes,
             GotRegion(mem_addr, bytes)
      PROVE  IInv'
  <2>1. /\ total_region_allocated_bytes_' = total_region_allocated_bytes_ + bytes
        /\ ReturnFrom(AddRegion(heap, mem_addr, bytes), call.num_bytes)
        /\ call' = NoCall /\ alloc_mode' = alloc_mode
        /\ curr_region_allocation_bytes_' \in {curr_region_allocation_bytes_, Doubled}
    BY <1>7 DEF GotRegion
  <2>2. call.num_bytes \in Requests \ {0}
    BY <1>7 DEF CallConsistent
  <2>3. Pool(heap') /\ Blocks(heap', held') /\ Accounted'
    BY <1>7, <2>1, <2>2, GrownReturn
  <2>4. curr_region_allocation_bytes_' \in Nat
    BY <1>0, <2>1, SMT DEF Doubled
  <2>5. CallConsistent'
    BY <2>1 DEF CallConsistent, NoCall, CallType
  <2> QED BY <2>1, <2>3, <2>4, <2>5
<1>8. ASSUME TryMalloc PROVE IInv'
  <2> DEFINE bytes == AtMost({curr_region_allocation_bytes_, available_bytes, LimitAlloc})
  <2>1. call.pc = "grow" /\ RoundedBytes(call.num_bytes) <= curr_region_allocation_bytes_
    BY <1>8 DEF TryMalloc
  <2>2. /\ call.num_bytes \in Requests \ {0} /\ RoundedBytes(call.num_bytes) <= available_bytes
        /\ RoundedBytes(call.num_bytes) \in Nat /\ RoundedBytes(call.num_bytes) > 0
    BY <1>0, <2>1, RoundedType DEF CallConsistent
  <2>3. bytes \in Nat \ {0} /\ bytes <= available_bytes
    <3>1. /\ bytes \in {curr_region_allocation_bytes_, available_bytes, LimitAlloc}
          /\ bytes <= available_bytes
      BY <1>0, AtMostOfThree
    <3> HIDE DEF bytes
    <3> QED BY <1>0, <2>1, <2>2, <3>1
  <2>4. PICK mem_addr \in ITEX_GPUMalloc(bytes) :
          \/ mem_addr # nullptr /\ GotRegion(mem_addr, bytes)
          \/ /\ mem_addr = nullptr
             /\ call' = [call EXCEPT !.pc = "backpedal", !.bytes = bytes]
             /\ UNCHANGED <<heap, curr_region_allocation_bytes_,
                            total_region_allocated_bytes_, alloc_mode, held>>
    BY <1>8 DEF TryMalloc
  <2> HIDE DEF bytes
  <2>5. CASE mem_addr # nullptr /\ GotRegion(mem_addr, bytes)
    BY <1>7, <2>1, <2>3, <2>5
  <2>6. CASE /\ call' = [call EXCEPT !.pc = "backpedal", !.bytes = bytes]
             /\ UNCHANGED <<heap, curr_region_allocation_bytes_,
                            total_region_allocated_bytes_, alloc_mode, held>>
    <3>1. /\ call' \in CallType /\ call'.pc = "backpedal"
          /\ call'.num_bytes = call.num_bytes /\ call'.bytes = bytes
      BY <1>0, <2>3, <2>6 DEF CallType
    <3>2. CallConsistent'
      BY <2>1, <2>3, <2>6, <3>1, PoolUntouched DEF CallConsistent
    <3> QED BY <2>6, <3>2, PoolUntouched
  <2> QED BY <2>4, <2>5, <2>6
<1>9. ASSUME Backpedal PROVE IInv'
  <2> DEFINE bytes == Backpedalled(call.bytes)
  <2>1. call.pc = "backpedal" /\ bytes >= RoundedBytes(call.num_bytes)
    BY <1>9 DEF Backpedal
  <2>2. /\ call.num_bytes \in Requests \ {0} /\ call.bytes <= available_bytes
        /\ RoundedBytes(call.num_bytes) \in Nat /\ RoundedBytes(call.num_bytes) > 0
        /\ call.bytes \in Nat
    BY <1>0, <2>1, RoundedType DEF CallConsistent, CallType
  <2>3. bytes \in Nat \ {0} /\ bytes <= available_bytes
    BY <1>0, <2>1, <2>2 DEF Backpedalled
  <2>4. PICK mem_addr \in ITEX_GPUMalloc(bytes) :
          \/ mem_addr # nullptr /\ GotRegion(mem_addr, bytes)
          \/ /\ mem_addr = nullptr
             /\ call' = [call EXCEPT !.bytes = bytes, !.turn = 1 - @]
             /\ UNCHANGED <<heap, curr_region_allocation_bytes_,
                            total_region_allocated_bytes_, alloc_mode, held>>
    BY <1>9 DEF Backpedal
  <2> HIDE DEF bytes
  <2>5. CASE mem_addr # nullptr /\ GotRegion(mem_addr, bytes)
    BY <1>7, <2>1, <2>3, <2>5
  <2>6. CASE /\ call' = [call EXCEPT !.bytes = bytes, !.turn = 1 - @]
             /\ UNCHANGED <<heap, curr_region_allocation_bytes_,
                            total_region_allocated_bytes_, alloc_mode, held>>
    <3> DEFINE turn == 1 - call.turn
    <3>0. turn \in {0, 1} /\ call' = [call EXCEPT !.bytes = bytes, !.turn = turn]
      BY <1>0, <2>6 DEF CallType
    <3> HIDE DEF turn
    <3>1. /\ call' \in CallType /\ call'.pc = "backpedal"
          /\ call'.num_bytes = call.num_bytes /\ call'.bytes = bytes
      BY <1>0, <2>1, <2>3, <3>0 DEF CallType
    <3>2. CallConsistent'
      BY <2>1, <2>3, <2>6, <3>1, PoolUntouched DEF CallConsistent
    <3> QED BY <2>6, <3>2, PoolUntouched
  <2> QED BY <2>4, <2>5, <2>6
<1>10. ASSUME BackpedalGivesUp PROVE IInv'
  <2>1. /\ call' = NoCall
        /\ UNCHANGED <<heap, curr_region_allocation_bytes_,
                       total_region_allocated_bytes_, alloc_mode, held>>
    BY <1>10 DEF BackpedalGivesUp
  <2>2. CallConsistent'
    BY <2>1 DEF CallConsistent, NoCall, CallType
  <2> QED BY <2>1, <2>2, PoolUntouched
<1>11. ASSUME NEW p \in DOMAIN held \union {nullptr}, DeallocateRaw(p) PROVE IInv'
  <2>1. CASE UNCHANGED vars
    BY <1>1, <2>1
  <2>2. CASE /\ p # nullptr
             /\ heap' = Release(heap, get_handle(heap, p))
             /\ held' = [q \in DOMAIN held \ {p} |-> held[q]]
             /\ UNCHANGED <<curr_region_allocation_bytes_,
                            total_region_allocated_bytes_, alloc_mode, call>>
    <3>1. PICK h \in Used(heap) : p = heap.chunks_[h].ptr
      BY <2>2 DEF Blocks
    <3>2. get_handle(heap, p) = h
      BY <3>1 DEF get_handle, Used, Live
    <3>3. Released(heap, h, heap')
      BY <2>2, <3>2, ReleaseSound
    <3>4. Blocks(heap', held')
      BY <2>2, <3>1, <3>3, ReleaseBlocks
    <3>5. Pool(heap') /\ DOMAIN heap'.handles_ = DOMAIN heap.handles_
      BY <3>3 DEF Released
    <3>6. Accounted'
      BY <2>2, <3>5 DEF Accounted, memory_limit_
    <3>7. CallConsistent'
      <4>1. call' = NoCall
        BY <1>11, <2>2 DEF DeallocateRaw, Idle
      <4> QED BY <4>1 DEF CallConsistent, NoCall, CallType
    <3> QED BY <2>2, <3>4, <3>5, <3>6, <3>7
  <2> QED BY <1>11, <2>1, <2>2 DEF DeallocateRaw
<1> QED BY <1>1, <1>2, <1>3, <1>4, <1>5, <1>6, <1>8, <1>9, <1>10, <1>11
        DEF Next, ExtendStep

\* The inductive invariant holds in every reachable state.
THEOREM Invariant == Spec => []IInv
<1>1. Init => IInv
  BY InitIInv
<1>2. IInv /\ [Next]_vars => IInv'
  BY NextIInv
<1> QED BY <1>1, <1>2, PTL DEF Spec

-----------------------------------------------------------------------------
(* What the runs check, for every instance *)

\* The types of the variables, for every instance of the allocator.
THEOREM TypeCorrect == Spec => []TypeOK
<1>1. IInv => TypeOK
  <2> SUFFICES ASSUME IInv PROVE TypeOK
    OBVIOUS
  <2>1. HeapType(heap)
    BY DEF IInv, Pool, Sound
  <2>2. DOMAIN held \subseteq DOMAIN heap.handles_
    BY DEF IInv, Blocks, Used, Live
  <2>3. held \in [DOMAIN held -> Requests]
    BY DEF IInv, Blocks
  <2> QED BY <2>1, <2>2, <2>3 DEF IInv, TypeOK, Accounted, CallConsistent
<1> QED BY <1>1, Invariant, PTL

\* No ITEX_CHECK of the allocator can fail, on any device and for any requests.
THEOREM ChecksHold == Spec => []NoCheckFails
<1>1. IInv => NoCheckFails
  BY DEF IInv, Pool, Sound, NoCheckFails
<1> QED BY <1>1, Invariant, PTL

\* The chunks tile the regions and are linked to their physical neighbours.
THEOREM Tiling == Spec => []ChunksTileRegions
<1>1. IInv => ChunksTileRegions
  <2> SUFFICES ASSUME IInv PROVE ChunksTileRegions
    OBVIOUS
  <2>0. Sound(heap)
    BY DEF IInv, Pool
  <2>1. UNION {Extent(heap.chunks_[h]) : h \in Live(heap)} = DOMAIN heap.handles_
    <3>1. ASSUME NEW h \in Live(heap), NEW p \in Extent(heap.chunks_[h])
          PROVE  p \in DOMAIN heap.handles_
      BY <2>0 DEF Sound, ChunksSized
    <3>2. ASSUME NEW p \in DOMAIN heap.handles_
          PROVE  \E h \in Live(heap) : p \in Extent(heap.chunks_[h])
      BY <2>0 DEF Sound, ChunksCover
    <3> QED BY <3>1, <3>2
  <2>2. \A g, h \in Live(heap) :
          g # h => Extent(heap.chunks_[g]) \intersect Extent(heap.chunks_[h]) = {}
    BY <2>0, LiveDisjoint
  <2> QED BY <2>0, <2>1, <2>2 DEF ChunksTileRegions, Sound, ChunksLinked
<1> QED BY <1>1, Invariant, PTL

\* Each free chunk is in the bin for its size, and nothing else is in a bin.
THEOREM Binning == Spec => []FreeChunksAreBinned
<1>1. IInv => FreeChunksAreBinned
  <2> SUFFICES ASSUME IInv PROVE FreeChunksAreBinned
    OBVIOUS
  <2>1. Binned(heap, {}) /\ HeapType(heap) /\ \A h \in Live(heap) : h \in DOMAIN heap.chunks_
    BY DEF IInv, Pool, Sound, Live
  <2>2. ASSUME NEW b \in Bins
        PROVE  heap.bins_[b] = {h \in Live(heap) :
                                  /\ ~in_use(heap.chunks_[h])
                                  /\ heap.chunks_[h].bin_num = b
                                  /\ BinNumForSize(heap.chunks_[h].size) = b}
    <3>0. b # kInvalidBinNum
      BY DEF Bins, kInvalidBinNum
    <3>1. heap.bins_[b] \subseteq DOMAIN heap.chunks_
      BY <2>1 DEF HeapType
    <3>2. ASSUME NEW h \in heap.bins_[b]
          PROVE  /\ h \in Live(heap) /\ ~in_use(heap.chunks_[h])
                 /\ heap.chunks_[h].bin_num = b
                 /\ BinNumForSize(heap.chunks_[h].size) = b
      BY <2>1, <3>0, <3>1 DEF Binned
    <3>3. ASSUME NEW h \in Live(heap), heap.chunks_[h].bin_num = b
          PROVE  h \in heap.bins_[b]
      BY <2>1, <3>3 DEF Binned
    <3> QED BY <3>2, <3>3
  <2>3. ASSUME NEW h \in Live(heap), ~in_use(heap.chunks_[h])
        PROVE  h \in heap.bins_[heap.chunks_[h].bin_num]
    <3>1. heap.chunks_[h].bin_num \in Bins
      BY <2>1, <2>3 DEF Binned, HeapType, Chunk
    <3> QED BY <2>1, <3>1 DEF Binned
  <2> QED BY <2>2, <2>3 DEF FreeChunksAreBinned
<1> QED BY <1>1, Invariant, PTL

\* TryToCoalesce and SplitChunk never leave two adjacent free chunks.
THEOREM Coalescing == Spec => []FreeChunksCoalesced
<1>1. IInv => FreeChunksCoalesced
  <2> SUFFICES ASSUME IInv, NEW g \in Live(heap), NEW h \in Live(heap),
                      heap.chunks_[g].ptr + heap.chunks_[g].size = heap.chunks_[h].ptr,
                      \A r \in heap.regions_ : r.ptr # heap.chunks_[h].ptr
               PROVE  in_use(heap.chunks_[g]) \/ in_use(heap.chunks_[h])
    BY DEF FreeChunksCoalesced
  <2> DEFINE p == heap.chunks_[h].prev
             e == heap.chunks_[h].ptr - 1
  <2>0. Sound(heap) /\ NoFreePair(heap, {})
    BY DEF IInv, Pool
  <2>1. p # kInvalidChunkHandle /\ p \in Live(heap) /\ heap.chunks_[p].next = h
    BY <2>0 DEF Sound, ChunksLinked
  <2>2. h # kInvalidChunkHandle
    BY <2>0, SoundTypes DEF Live, kInvalidChunkHandle
  <2>3. heap.chunks_[h].ptr = heap.chunks_[p].ptr + heap.chunks_[p].size
    BY <2>0, <2>1, <2>2 DEF Sound, ChunksLinked
  <2>4. /\ heap.chunks_[g].ptr \in Nat /\ heap.chunks_[g].size \in Nat
        /\ heap.chunks_[p].ptr \in Nat /\ heap.chunks_[p].size \in Nat
        /\ heap.chunks_[g].size > 0 /\ heap.chunks_[p].size > 0
    BY <2>0, <2>1 DEF Sound, ChunksSized, HeapType, Chunk, Live
  <2>5. e \in Extent(heap.chunks_[g]) /\ e \in Extent(heap.chunks_[p])
    BY <2>3, <2>4 DEF Extent, Grains
  <2>6. g = p
    BY <2>0, <2>1, <2>5, LiveDisjoint
  <2> QED BY <2>0, <2>1, <2>2, <2>6 DEF NoFreePair
<1> QED BY <1>1, Invariant, PTL

\* What clients hold is what is in use, with room and with little padding.
THEOREM BlocksMatch == Spec => []BlocksAreChunks
<1>1. IInv => BlocksAreChunks
  <2> SUFFICES ASSUME IInv PROVE BlocksAreChunks
    OBVIOUS
  <2>1. {heap.chunks_[h].ptr : h \in {g \in Live(heap) : in_use(heap.chunks_[g])}}
          = DOMAIN held
    BY DEF IInv, Blocks, Used
  <2>2. ASSUME NEW p \in DOMAIN held
        PROVE  /\ in_use(heap.chunks_[heap.handles_[p]])
               /\ heap.chunks_[heap.handles_[p]].requested_size = held[p]
               /\ RoundedBytes(held[p]) <= heap.chunks_[heap.handles_[p]].size
               /\ heap.chunks_[heap.handles_[p]].size < 2 * RoundedBytes(held[p])
               /\ heap.chunks_[heap.handles_[p]].size - RoundedBytes(held[p])
                    < kMaxInternalFragmentation
    <3>1. PICK h \in Used(heap) : p = heap.chunks_[h].ptr
      BY DEF IInv, Blocks
    <3>2. heap.handles_[p] = h /\ in_use(heap.chunks_[h])
      BY <3>1 DEF Used, Live
    <3> QED BY <3>1, <3>2 DEF IInv, Blocks
  <2> QED BY <2>1, <2>2 DEF BlocksAreChunks
<1> QED BY <1>1, Invariant, PTL

\* In the default mode the driver keeps its reserve, whatever the request sizes.
THEOREM LimitKept == Spec => []WithinMemoryLimit
<1>1. IInv => WithinMemoryLimit
  BY DEF IInv, Accounted, WithinMemoryLimit
<1> QED BY <1>1, Invariant, PTL

-----------------------------------------------------------------------------
(* The refinement of AllocatorSpec *)

\* What a client may touch of its block lies in the block's chunk.
LEMMA BlockInChunk ==
  ASSUME NEW H, Pool(H), NEW f, Blocks(H, f), NEW h \in Used(H)
  PROVE  LET p == H.chunks_[h].ptr
         IN  /\ Abstract!Extent(p, f[p]) \subseteq Extent(H.chunks_[h])
             /\ Extent(H.chunks_[h]) \subseteq DOMAIN H.handles_
<1> DEFINE c == H.chunks_[h]
           p == c.ptr
           n == RoundedBytes(f[p])
<1>1. h \in Live(H) /\ c \in Chunk
  BY LivePointers DEF Used
<1>2. p \in Nat /\ c.size \in Nat /\ p \in DOMAIN f
  BY <1>1 DEF Chunk, Blocks
<1>3. n \in Nat /\ n <= c.size
  <2>1. f[p] \in Nat
    BY <1>2, RequestsAssumption DEF Blocks
  <2>2. n \in Nat
    BY <2>1, RoundedType
  <2> QED BY <2>2 DEF Blocks
<1>4. Abstract!Extent(p, f[p]) = p .. p + n - 1
  BY DEF Abstract!Extent, RoundedBytes
<1> HIDE DEF n, p, c
<1>5. p .. p + n - 1 \subseteq p .. p + c.size - 1
  BY <1>2, <1>3
<1>6. Extent(c) = p .. p + c.size - 1
  BY DEF Extent, Grains, p
<1>7. Extent(c) \subseteq DOMAIN H.handles_
  BY <1>1 DEF Pool, Sound, ChunksSized, c
<1> QED BY <1>4, <1>5, <1>6, <1>7 DEF c, p

\* Two blocks never share a grain.
LEMMA BlocksExclusive ==
  ASSUME NEW H, Pool(H), NEW f, Blocks(H, f), NEW p \in DOMAIN f, NEW q \in DOMAIN f,
         p # q
  PROVE  Abstract!Extent(p, f[p]) \intersect Abstract!Extent(q, f[q]) = {}
<1>1. PICK g \in Used(H) : p = H.chunks_[g].ptr
  BY DEF Blocks
<1>2. PICK h \in Used(H) : q = H.chunks_[h].ptr
  BY DEF Blocks
<1>3. g # h /\ g \in Live(H) /\ h \in Live(H) /\ Sound(H)
  BY <1>1, <1>2 DEF Used, Pool
<1>4. Extent(H.chunks_[g]) \intersect Extent(H.chunks_[h]) = {}
  BY <1>3, LiveDisjoint
<1>5. /\ Abstract!Extent(p, f[p]) \subseteq Extent(H.chunks_[g])
      /\ Abstract!Extent(q, f[q]) \subseteq Extent(H.chunks_[h])
  BY <1>1, <1>2, BlockInChunk
<1> QED BY <1>4, <1>5

\* No byte of device memory is ever in the blocks of two clients.
THEOREM Exclusion == Spec => []Abstract!Exclusive
<1>1. IInv => Abstract!Exclusive
  BY BlocksExclusive DEF IInv, Abstract!Exclusive
<1> QED BY <1>1, Invariant, PTL

\* The end of an AllocateRaw is an Allocate or a Refuse of AllocatorSpec.
LEMMA ReturnFromAbstract ==
  ASSUME NEW H, Pool(H), Blocks(H, held), NEW n \in Requests \ {0}, ReturnFrom(H, n),
         DOMAIN heap.handles_ \subseteq DOMAIN H.handles_
  PROVE  Abstract!ANext
<1>1. /\ Pool(heap') /\ Blocks(heap', held')
      /\ DOMAIN heap'.handles_ = DOMAIN H.handles_
      /\ \/ held' = held
         \/ \E h \in Live(H) : /\ Taken(H, h, RoundedBytes(n), n, heap')
                               /\ held' = With(held, H.chunks_[h].ptr, n)
  BY ReturnFromSound
<1>2. DOMAIN heap.handles_ \subseteq DOMAIN heap'.handles_
  BY <1>1
<1>3. CASE held' = held
  <2>1. Abstract!Refuse
    BY <1>2, <1>3 DEF Abstract!Refuse
  <2> QED BY <2>1 DEF Abstract!ANext
<1>4. ASSUME NEW h \in Live(H), Taken(H, h, RoundedBytes(n), n, heap'),
             held' = With(held, H.chunks_[h].ptr, n)
      PROVE  Abstract!ANext
  <2> DEFINE p == H.chunks_[h].ptr
  <2>1. p \notin DOMAIN held
    BY <1>4, TakeBlocks
  <2>2. h \in Used(heap') /\ heap'.chunks_[h].ptr = p
    BY <1>4 DEF Taken
  <2>3. /\ DOMAIN held' = DOMAIN held \union {p} /\ held'[p] = n
        /\ \A q \in DOMAIN held : held'[q] = held[q]
    BY <1>4, <2>1 DEF With
  <2>4. p \in DOMAIN heap'.handles_
    BY <2>2 DEF Used, Live
  <2>5. Abstract!Extent(p, n) \subseteq DOMAIN heap'.handles_
    BY <1>1, <2>2, <2>3, BlockInChunk
  <2>6. ASSUME NEW q \in DOMAIN held
        PROVE  Abstract!Extent(p, n) \intersect Abstract!Extent(q, held[q]) = {}
    <3>1. p # q /\ p \in DOMAIN held' /\ q \in DOMAIN held'
      BY <2>1, <2>3
    <3>2. Abstract!Extent(p, held'[p]) \intersect Abstract!Extent(q, held'[q]) = {}
      BY <1>1, <3>1, BlocksExclusive
    <3> QED BY <2>3, <3>2
  <2>7. held' = [q \in DOMAIN held \union {p} |-> IF q = p THEN n ELSE held[q]]
    BY <1>4 DEF With
  <2> HIDE DEF p
  <2>8. Abstract!Allocate(n, p)
    BY <1>2, <2>1, <2>5, <2>6, <2>7 DEF Abstract!Allocate
  <2> QED BY <2>4, <2>8 DEF Abstract!ANext
<1> QED BY <1>1, <1>3, <1>4

\* The allocator implements the contract of allocator.h, AllocatorSpec.
THEOREM Refinement == Spec => ImplementsAllocator
<1>1. Init => Abstract!AInit
  BY DEF Init, InitHeap, Abstract!AInit
<1>2. ASSUME IInv, [Next]_vars PROVE [Abstract!ANext]_(Abstract!avars)
  <2> USE <1>2
  <2>0. Requests \subseteq Nat /\ total_region_allocated_bytes_ \in Nat
        /\ available_bytes \in Nat /\ Pool(heap) /\ Blocks(heap, held) /\ Accounted
    BY RequestsAssumption, AvailableType DEF IInv, Accounted
  <2>1. ASSUME UNCHANGED <<heap, held>> PROVE [Abstract!ANext]_(Abstract!avars)
    BY <2>1 DEF Abstract!avars
  <2>2. ASSUME NEW n \in Requests, AllocateFromPool(n) PROVE Abstract!ANext
    BY <2>0, <2>2, ReturnFromAbstract DEF AllocateFromPool
  <2>3. ASSUME NEW n \in Requests \ {0}, NEW bytes \in Nat \ {0},
               NEW mem_addr \in ITEX_GPUMalloc(bytes), mem_addr # nullptr,
               ReturnFrom(AddRegion(heap, mem_addr, bytes), n)
        PROVE  Abstract!ANext
    <3> DEFINE A == AddRegion(heap, mem_addr, bytes)
    <3>1. Pool(A) /\ Blocks(A, held) /\ DOMAIN heap.handles_ \subseteq DOMAIN A.handles_
      BY <2>0, <2>3, GrownSound
    <3>2. ReturnFrom(A, n)
      BY <2>3
    <3> HIDE DEF A
    <3> QED BY <3>1, <3>2, ReturnFromAbstract
  <2>4. ASSUME NEW n \in Requests, ExtendSmall(n)
        PROVE  [Abstract!ANext]_(Abstract!avars)
    <3> DEFINE bytes == SmallRegion(RoundedBytes(n))
    <3>1. n # 0
      BY <2>4 DEF ExtendSmall, NeedsExtend
    <3>2. bytes \in Nat \ {0}
      BY <2>0, <3>1, RoundedType, SmallRegionType
    <3>3. PICK mem_addr \in ITEX_GPUMalloc(bytes) :
            \/ mem_addr = nullptr /\ UNCHANGED vars
            \/ mem_addr # nullptr /\ ReturnFrom(AddRegion(heap, mem_addr, bytes), n)
      BY <2>4 DEF ExtendSmall
    <3> HIDE DEF bytes
    <3>4. CASE UNCHANGED vars
      BY <2>1, <3>4 DEF vars
    <3> QED BY <2>3, <3>1, <3>2, <3>3, <3>4
  <2>5. ASSUME NEW bytes \in Nat \ {0}, NEW mem_addr \in ITEX_GPUMalloc(bytes),
               mem_addr # nullptr, call.pc # "idle", GotRegion(mem_addr, bytes)
        PROVE  Abstract!ANext
    <3>1. call.num_bytes \in Requests \ {0}
      BY <2>5 DEF IInv, CallConsistent
    <3> QED BY <2>3, <2>5, <3>1 DEF GotRegion
  <2>6. ASSUME TryMalloc PROVE [Abstract!ANext]_(Abstract!avars)
    <3> DEFINE bytes == AtMost({curr_region_allocation_bytes_, available_bytes, LimitAlloc})
    <3>1. call.pc = "grow" /\ RoundedBytes(call.num_bytes) <= curr_region_allocation_bytes_
      BY <2>6 DEF TryMalloc
    <3>2. RoundedBytes(call.num_bytes) <= available_bytes
          /\ RoundedBytes(call.num_bytes) \in Nat /\ RoundedBytes(call.num_bytes) > 0
          /\ curr_region_allocation_bytes_ \in Nat /\ LimitAlloc \in Nat \ {0}
      BY <2>0, <3>1, RoundedType, LimitAssumption DEF IInv, CallConsistent
    <3>3. bytes \in Nat \ {0}
      <4>1. bytes \in {curr_region_allocation_bytes_, available_bytes, LimitAlloc}
        BY <2>0, <3>2, AtMostOfThree
      <4> HIDE DEF bytes
      <4> QED BY <2>0, <3>1, <3>2, <4>1
    <3>4. PICK mem_addr \in ITEX_GPUMalloc(bytes) :
            \/ mem_addr # nullptr /\ GotRegion(mem_addr, bytes)
            \/ UNCHANGED <<heap, held>>
      BY <2>6 DEF TryMalloc
    <3> HIDE DEF bytes
    <3> QED BY <2>1, <2>5, <3>1, <3>3, <3>4
  <2>7. ASSUME Backpedal PROVE [Abstract!ANext]_(Abstract!avars)
    <3> DEFINE bytes == Backpedalled(call.bytes)
    <3>1. call.pc = "backpedal" /\ bytes >= RoundedBytes(call.num_bytes)
      BY <2>7 DEF Backpedal
    <3>2. RoundedBytes(call.num_bytes) \in Nat /\ RoundedBytes(call.num_bytes) > 0
          /\ call.bytes \in Nat
      BY <2>0, <3>1, RoundedType DEF IInv, CallConsistent, CallType
    <3>3. bytes \in Nat \ {0}
      BY <3>1, <3>2 DEF Backpedalled
    <3>4. PICK mem_addr \in ITEX_GPUMalloc(bytes) :
            \/ mem_addr # nullptr /\ GotRegion(mem_addr, bytes)
            \/ UNCHANGED <<heap, held>>
      BY <2>7 DEF Backpedal
    <3> HIDE DEF bytes
    <3> QED BY <2>1, <2>5, <3>1, <3>3, <3>4
  <2>8. ASSUME NEW p \in DOMAIN held \union {nullptr}, DeallocateRaw(p)
        PROVE  [Abstract!ANext]_(Abstract!avars)
    <3>1. CASE UNCHANGED vars
      BY <2>1, <3>1 DEF vars
    <3>2. CASE /\ p # nullptr
               /\ heap' = Release(heap, get_handle(heap, p))
               /\ held' = [q \in DOMAIN held \ {p} |-> held[q]]
      <4>1. PICK h \in Used(heap) : p = heap.chunks_[h].ptr
        BY <2>0, <3>2 DEF Blocks
      <4>2. get_handle(heap, p) = h
        BY <4>1 DEF get_handle, Used, Live
      <4>3. DOMAIN heap'.handles_ = DOMAIN heap.handles_
        BY <2>0, <3>2, <4>2, ReleaseSound DEF Released
      <4>4. Abstract!Deallocate(p)
        BY <3>2, <4>3 DEF Abstract!Deallocate
      <4>5. p \in DOMAIN held
        BY <3>2
      <4> QED BY <4>4, <4>5 DEF Abstract!ANext
    <3> QED BY <2>8, <3>1, <3>2 DEF DeallocateRaw
  <2>9. ASSUME GrowRegionSize \/ BackpedalGivesUp \/ UNCHANGED vars
               \/ \E n \in Requests : AllocateFails(n) \/ ExtendLarge(n)
        PROVE  UNCHANGED <<heap, held>>
    BY <2>9 DEF GrowRegionSize, BackpedalGivesUp, AllocateFails, ExtendLarge, vars
  <2> QED BY <2>1, <2>2, <2>4, <2>6, <2>7, <2>8, <2>9 DEF Next, ExtendStep
<1> QED BY <1>1, <1>2, Invariant, PTL DEF Spec, ImplementsAllocator, Abstract!ASpec

-----------------------------------------------------------------------------
(* What the steps of the runs do, for every instance *)

\* Every deleted chunk is on the free list: the handles that splitting takes and
\* merging gives back are never lost, however many there have been.
THEOREM NoLeak == Spec => []NoHandleLeaks
<1>1. IInv => NoHandleLeaks
  BY FreeListIsDead DEF IInv, Pool, NoHandleLeaks, Dead
<1> QED BY <1>1, Invariant, PTL

\* A call that has been given a region returns a block, unless the region is
\* smaller than the request.
LEMMA GrownServes ==
  ASSUME IInv, NEW bytes \in Nat \ {0}, NEW mem_addr \in ITEX_GPUMalloc(bytes),
         mem_addr # nullptr, NEW n \in Requests \ {0},
         ReturnFrom(AddRegion(heap, mem_addr, bytes), n)
  PROVE  /\ heap.regions_ \subseteq heap'.regions_ /\ heap'.regions_ # heap.regions_
         /\ RoundedBytes(n) <= bytes => DOMAIN held' # DOMAIN held
         /\ \A p \in DOMAIN held' \ DOMAIN held : held'[p] = n
<1> DEFINE A == AddRegion(heap, mem_addr, bytes)
           G == Grains(mem_addr, bytes)
<1>0. n \in Nat /\ RoundedBytes(n) \in Nat
  BY RequestsAssumption, RoundedType
<1>1. mem_addr \in Nat \ {0} /\ G \intersect DOMAIN heap.handles_ = {}
  BY AddressAssumption DEF ITEX_GPUMalloc
<1>2. Extended(heap, mem_addr, bytes, A)
  BY <1>1, AddRegionSound DEF IInv
<1>3. Pool(A) /\ Blocks(A, held)
  BY GrownSound DEF IInv
<1>4. ReturnFrom(A, n)
  OBVIOUS
<1> HIDE DEF A
<1>5. /\ heap'.regions_ = A.regions_
      /\ \/ held' = held
         \/ \E h \in Live(A) : /\ Taken(A, h, RoundedBytes(n), n, heap')
                               /\ held' = With(held, A.chunks_[h].ptr, n)
  BY <1>3, <1>4, ReturnFromSound
<1>6. A.regions_ = heap.regions_ \union {[ptr |-> mem_addr, memory_size |-> bytes]}
  BY <1>2 DEF Extended
<1>7. [ptr |-> mem_addr, memory_size |-> bytes] \notin heap.regions_
  <2> SUFFICES ASSUME [ptr |-> mem_addr, memory_size |-> bytes] \in heap.regions_
               PROVE  FALSE
    OBVIOUS
  <2>1. G \subseteq DOMAIN heap.handles_
    BY DEF IInv, Pool, Sound, HeapType
  <2>2. mem_addr \in G
    BY <1>1 DEF Grains
  <2> QED BY <1>1, <2>1, <2>2
<1>8. ASSUME RoundedBytes(n) <= bytes PROVE DOMAIN held' # DOMAIN held
  <2>1. FindChunk(A, RoundedBytes(n)) # {}
    BY <1>0, <1>2, <1>3, <1>8, FindChunkComplete DEF Extended
  <2>2. PICK h \in FindChunk(A, RoundedBytes(n)) :
          /\ heap' = TakeChunk(A, h, RoundedBytes(n), n)
          /\ held' = With(held, A.chunks_[h].ptr, n)
    BY <1>4, <2>1 DEF ReturnFrom, With
  <2>3. h \in Live(A) /\ ~in_use(A.chunks_[h]) /\ RoundedBytes(n) <= A.chunks_[h].size
    BY <1>3, FindChunkSound
  <2>4. Taken(A, h, RoundedBytes(n), n, heap')
    BY <1>0, <1>3, <2>2, <2>3, RoundedType, TakeSound
  <2>5. A.chunks_[h].ptr \notin DOMAIN held
    BY <1>3, <2>3, <2>4, TakeBlocks
  <2> QED BY <2>2, <2>5 DEF With
<1>9. \A p \in DOMAIN held' \ DOMAIN held : held'[p] = n
  BY <1>5 DEF With
<1> QED BY <1>5, <1>6, <1>7, <1>8, <1>9

\* What a step does to the pool: AllocateRaw takes a chunk ...
Serves == /\ Idle
          /\ \E n \in Requests \ {0} : ReturnFrom(heap, n)

\* ... or adds a region, in which it may find one, ...
GrowsBy(n, bytes, mem_addr) ==
  /\ mem_addr # nullptr
  /\ ReturnFrom(AddRegion(heap, mem_addr, bytes), n)
  /\ FindChunk(heap, RoundedBytes(n)) = {}
  /\ RoundedBytes(n) <= bytes \/ (~Idle /\ RoundedBytes(n) > LimitAlloc)
  /\ Idle \/ call.num_bytes = n

Grows ==
  \E n \in Requests \ {0}, bytes \in Nat \ {0} :
    \E mem_addr \in ITEX_GPUMalloc(bytes) : GrowsBy(n, bytes, mem_addr)

\* ... or DeallocateRaw takes a block back.
Frees == DOMAIN held' \subseteq DOMAIN held /\ heap'.regions_ = heap.regions_

\* Every step does one of these or leaves the pool alone.
LEMMA StepKinds ==
  ASSUME IInv, [Next]_vars
  PROVE  Serves \/ Grows \/ Frees \/ UNCHANGED <<heap, held>>
<1>0. Requests \subseteq Nat /\ total_region_allocated_bytes_ \in Nat
      /\ available_bytes \in Nat /\ Pool(heap) /\ Blocks(heap, held)
      /\ curr_region_allocation_bytes_ \in Nat /\ LimitAlloc \in Nat \ {0}
  BY RequestsAssumption, AvailableType, LimitAssumption DEF IInv, Accounted
<1>1. ASSUME NEW n \in Requests, AllocateFromPool(n) PROVE Serves
  BY <1>1 DEF AllocateFromPool, Serves
<1>2. ASSUME NEW n \in Requests, ExtendSmall(n) PROVE Grows \/ UNCHANGED <<heap, held>>
  <2> DEFINE size == RoundedBytes(n)
             bytes == SmallRegion(size)
  <2>1. n # 0 /\ Idle /\ FindChunk(heap, size) = {}
    BY <1>2 DEF ExtendSmall, NeedsExtend
  <2>2. size \in Nat /\ size > 0
    BY <1>0, <2>1, RoundedType
  <2>3. bytes \in Nat \ {0} /\ size <= bytes
    <3> HIDE DEF size
    <3> QED BY <2>2, SmallRegionType
  <2>4. PICK mem_addr \in ITEX_GPUMalloc(bytes) :
          \/ mem_addr = nullptr /\ UNCHANGED vars
          \/ mem_addr # nullptr /\ ReturnFrom(AddRegion(heap, mem_addr, bytes), n)
    BY <1>2 DEF ExtendSmall
  <2> HIDE DEF bytes
  <2>5. CASE UNCHANGED vars
    BY <2>5 DEF vars
  <2>6. CASE mem_addr # nullptr /\ ReturnFrom(AddRegion(heap, mem_addr, bytes), n)
    <3>1. GrowsBy(n, bytes, mem_addr)
      BY <2>1, <2>3, <2>6 DEF GrowsBy
    <3> QED BY <2>1, <2>3, <3>1 DEF Grows
  <2> QED BY <2>4, <2>5, <2>6
<1>3. ASSUME NEW bytes \in Nat \ {0}, NEW mem_addr \in ITEX_GPUMalloc(bytes),
             mem_addr # nullptr, call.pc # "idle", GotRegion(mem_addr, bytes),
             \/ RoundedBytes(call.num_bytes) <= bytes
             \/ RoundedBytes(call.num_bytes) > LimitAlloc
      PROVE  Grows
  <2>1. /\ call.num_bytes \in Requests \ {0}
        /\ FindChunk(heap, RoundedBytes(call.num_bytes)) = {}
    BY <1>3 DEF IInv, CallConsistent
  <2>2. ReturnFrom(AddRegion(heap, mem_addr, bytes), call.num_bytes)
    BY <1>3 DEF GotRegion
  <2>3. ~Idle
    BY <1>3 DEF Idle, NoCall
  <2>4. GrowsBy(call.num_bytes, bytes, mem_addr)
    BY <1>3, <2>1, <2>2, <2>3 DEF GrowsBy
  <2> QED BY <2>1, <2>4 DEF Grows
<1>4. ASSUME TryMalloc PROVE Grows \/ UNCHANGED <<heap, held>>
  <2> DEFINE bytes == AtMost({curr_region_allocation_bytes_, available_bytes, LimitAlloc})
             size == RoundedBytes(call.num_bytes)
  <2>1. call.pc = "grow" /\ size <= curr_region_allocation_bytes_
    BY <1>4 DEF TryMalloc
  <2>2. size <= available_bytes /\ size \in Nat /\ size > 0
    BY <1>0, <2>1, RoundedType DEF IInv, CallConsistent
  <2>3. bytes \in {curr_region_allocation_bytes_, available_bytes, LimitAlloc}
    BY <1>0, AtMostOfThree
  <2>4. PICK mem_addr \in ITEX_GPUMalloc(bytes) :
          \/ mem_addr # nullptr /\ GotRegion(mem_addr, bytes)
          \/ UNCHANGED <<heap, held>>
    BY <1>4 DEF TryMalloc
  <2> HIDE DEF bytes, size
  <2>5. bytes \in Nat \ {0} /\ (size <= bytes \/ size > LimitAlloc)
    BY <1>0, <2>1, <2>2, <2>3
  <2>6. CASE mem_addr # nullptr /\ GotRegion(mem_addr, bytes)
    BY <1>3, <2>1, <2>5, <2>6 DEF size
  <2> QED BY <2>4, <2>6
<1>5. ASSUME Backpedal PROVE Grows \/ UNCHANGED <<heap, held>>
  <2> DEFINE bytes == Backpedalled(call.bytes)
             size == RoundedBytes(call.num_bytes)
  <2>1. call.pc = "backpedal" /\ bytes >= size
    BY <1>5 DEF Backpedal
  <2>2. size \in Nat /\ size > 0 /\ call.bytes \in Nat
    BY <1>0, <2>1, RoundedType DEF IInv, CallConsistent, CallType
  <2>3. bytes \in Nat
    BY <2>2 DEF Backpedalled
  <2>4. PICK mem_addr \in ITEX_GPUMalloc(bytes) :
          \/ mem_addr # nullptr /\ GotRegion(mem_addr, bytes)
          \/ UNCHANGED <<heap, held>>
    BY <1>5 DEF Backpedal
  <2> HIDE DEF bytes, size
  <2>5. bytes \in Nat \ {0} /\ size <= bytes
    BY <2>1, <2>2, <2>3
  <2>6. CASE mem_addr # nullptr /\ GotRegion(mem_addr, bytes)
    BY <1>3, <2>1, <2>5, <2>6 DEF size
  <2> QED BY <2>4, <2>6
<1>6. ASSUME NEW p \in DOMAIN held \union {nullptr}, DeallocateRaw(p)
      PROVE  Frees \/ UNCHANGED <<heap, held>>
  <2>1. CASE UNCHANGED vars
    BY <2>1 DEF vars
  <2>2. CASE /\ p # nullptr
             /\ heap' = Release(heap, get_handle(heap, p))
             /\ held' = [q \in DOMAIN held \ {p} |-> held[q]]
    <3>1. PICK h \in Used(heap) : p = heap.chunks_[h].ptr
      BY <1>0, <2>2 DEF Blocks
    <3>2. get_handle(heap, p) = h
      BY <3>1 DEF get_handle, Used, Live
    <3>3. heap'.regions_ = heap.regions_
      BY <1>0, <2>2, <3>2, ReleaseSound DEF Released
    <3> QED BY <2>2, <3>3 DEF Frees
  <2> QED BY <1>6, <2>1, <2>2 DEF DeallocateRaw
<1>7. ASSUME GrowRegionSize \/ BackpedalGivesUp \/ UNCHANGED vars
             \/ \E n \in Requests : AllocateFails(n) \/ ExtendLarge(n)
      PROVE  UNCHANGED <<heap, held>>
  BY <1>7 DEF GrowRegionSize, BackpedalGivesUp, AllocateFails, ExtendLarge, vars
<1> QED BY <1>1, <1>2, <1>4, <1>5, <1>6, <1>7 DEF Next, ExtendStep

\* FindChunkPtr is best fit over the whole pool, although it stops at the first
\* chunk that fits in the first bin that has one.
THEOREM BestFitting == Spec => BestFit
<1> DEFINE Best ==
      \A p \in DOMAIN held' \ DOMAIN held :
        LET c == heap.chunks_[heap.handles_[p]]
        IN  heap.regions_' = heap.regions_ =>
              \A h \in Live(heap) :
                /\ ~in_use(heap.chunks_[h])
                /\ heap.chunks_[h].size >= RoundedBytes(held'[p])
                => \/ c.size < heap.chunks_[h].size
                   \/ c.size = heap.chunks_[h].size /\ p <= heap.chunks_[h].ptr
<1>1. ASSUME IInv, [Next]_vars PROVE Best
  <2>1. ASSUME Serves PROVE Best
    <3>1. PICK n \in Requests \ {0} : ReturnFrom(heap, n)
      BY <2>1 DEF Serves
    <3>2. n \in Nat /\ RoundedBytes(n) \in Nat /\ Pool(heap)
      BY <1>1, RequestsAssumption, RoundedType DEF IInv
    <3>3. CASE held' = held
      BY <3>3
    <3>4. CASE held' # held
      <4>1. PICK g \in FindChunk(heap, RoundedBytes(n)) :
              held' = With(held, heap.chunks_[g].ptr, n)
        BY <3>1, <3>4 DEF ReturnFrom, With
      <4>2. g \in Live(heap)
        BY <3>2, FindChunkSound
      <4>3. heap.handles_[heap.chunks_[g].ptr] = g
        BY <3>2, <4>2, LivePointers
      <4>4. \A p \in DOMAIN held' \ DOMAIN held : p = heap.chunks_[g].ptr /\ held'[p] = n
        BY <4>1 DEF With
      <4>5. \A h \in Live(heap) :
              /\ ~in_use(heap.chunks_[h])
              /\ heap.chunks_[h].size >= RoundedBytes(n)
              => \/ heap.chunks_[g].size < heap.chunks_[h].size
                 \/ /\ heap.chunks_[g].size = heap.chunks_[h].size
                    /\ heap.chunks_[g].ptr <= heap.chunks_[h].ptr
        BY <3>2, FindChunkBest
      <4> QED BY <4>3, <4>4, <4>5
    <3> QED BY <3>3, <3>4
  <2>2. ASSUME Grows PROVE Best
    <3>1. heap'.regions_ # heap.regions_
      BY <1>1, <2>2, GrownServes DEF Grows, GrowsBy
    <3> QED BY <3>1
  <2>3. ASSUME Frees \/ UNCHANGED <<heap, held>> PROVE Best
    BY <2>3 DEF Frees
  <2> QED BY <1>1, <2>1, <2>2, <2>3, StepKinds
<1>2. IInv /\ [Next]_vars => [Best]_vars
  BY <1>1
<1> QED BY <1>2, Invariant, PTL DEF Spec, BestFit

\* The driver is asked for memory only when no free chunk will do, and what it
\* gives serves the request, unless LimitAlloc has cut it.
THEOREM GrowthNeeded == Spec => GrowsOnlyWhenNeeded
<1> DEFINE Needed ==
      /\ heap.regions_ \subseteq heap.regions_'
      /\ heap.regions_' # heap.regions_ =>
           /\ \A num_bytes \in Asked, h \in Live(heap) :
                ~in_use(heap.chunks_[h]) =>
                  heap.chunks_[h].size < RoundedBytes(num_bytes)
           /\ \/ DOMAIN held' # DOMAIN held
              \/ \E num_bytes \in Asked : RoundedBytes(num_bytes) > LimitAlloc
<1>1. ASSUME IInv, [Next]_vars PROVE Needed
  <2>1. ASSUME Serves PROVE Needed
    <3>1. heap'.regions_ = heap.regions_
      BY <1>1, <2>1, ReturnFromSound DEF Serves, IInv
    <3> QED BY <3>1
  <2>2. ASSUME Grows PROVE Needed
    <3>1. PICK n \in Requests \ {0}, bytes \in Nat \ {0} :
            \E mem_addr \in ITEX_GPUMalloc(bytes) :
              GrowsBy(n, bytes, mem_addr)
      BY <2>2 DEF Grows
    <3> USE DEF GrowsBy
    <3>2. n \in Nat /\ RoundedBytes(n) \in Nat /\ Pool(heap)
      BY <1>1, RequestsAssumption, RoundedType DEF IInv
    <3>3. /\ heap.regions_ \subseteq heap'.regions_
          /\ RoundedBytes(n) <= bytes => DOMAIN held' # DOMAIN held
          /\ \A p \in DOMAIN held' \ DOMAIN held : held'[p] = n
      BY <1>1, <3>1, GrownServes
    <3>4. Asked \subseteq {n} /\ (~Idle => n \in Asked)
      BY <3>1, <3>3 DEF Asked
    <3>5. ASSUME NEW h \in Live(heap), ~in_use(heap.chunks_[h])
          PROVE  heap.chunks_[h].size < RoundedBytes(n)
      <4>1. heap.chunks_[h].size \in Nat
        BY <3>2 DEF Pool, Sound, HeapType, Chunk, Live
      <4>2. ~(RoundedBytes(n) <= heap.chunks_[h].size)
        BY <3>1, <3>2, <3>5, FindChunkComplete
      <4> QED BY <3>2, <4>1, <4>2
    <3>6. DOMAIN held' # DOMAIN held \/ \E m \in Asked : RoundedBytes(m) > LimitAlloc
      BY <3>1, <3>3, <3>4
    <3> QED BY <3>3, <3>4, <3>5, <3>6
  <2>3. ASSUME Frees \/ UNCHANGED <<heap, held>> PROVE Needed
    BY <2>3 DEF Frees
  <2> QED BY <1>1, <2>1, <2>2, <2>3, StepKinds
<1>2. IInv /\ [Next]_vars => [Needed]_vars
  BY <1>1
<1> QED BY <1>2, Invariant, PTL DEF Spec, GrowsOnlyWhenNeeded
=============================================================================
