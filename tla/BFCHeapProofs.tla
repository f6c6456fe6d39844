---------------------------- MODULE BFCHeapProofs ---------------------------
(***************************************************************************)
(* Proofs about BFCAllocator, for every device, every limit and every set  *)
(* of requests.                                                            *)
(*                                                                         *)
(* The inductive invariant is stated of a heap H rather than of the        *)
(* variable, so that it can be followed through the member functions that  *)
(* one call runs in turn: Sound(H) is the layout of chunks in regions,     *)
(* Binned(H, L) that the free chunks outside L are binned, and             *)
(* NoFreePair(H, X) that no two neighbours outside X are both free.        *)
(***************************************************************************)
EXTENDS BFCAllocator, FiniteSetTheorems, WellFoundedInduction, TLAPS

IsHeap(H) ==
  H = [chunks_ |-> H.chunks_, free_chunks_list_ |-> H.free_chunks_list_,
       bins_ |-> H.bins_, regions_ |-> H.regions_, handles_ |-> H.handles_,
       fatal |-> H.fatal]

Dead(H) == DOMAIN H.chunks_ \ Live(H)

\* A slot that is not invalid names the chunk that starts there.
SlotsPoint(H) ==
  \A p \in DOMAIN H.handles_ :
    H.handles_[p] # kInvalidChunkHandle => H.chunks_[H.handles_[p]].ptr = p

\* A chunk is not empty, and no chunk starts in the middle of it: this is what
\* keeps chunks disjoint.
ChunksSized(H) ==
  \A h \in Live(H) :
    /\ H.chunks_[h].size > 0
    /\ \A p \in Extent(H.chunks_[h]) :
         /\ p \in DOMAIN H.handles_
         /\ p # H.chunks_[h].ptr => H.handles_[p] = kInvalidChunkHandle

ChunksLinked(H) ==
  \A h \in Live(H) :
    /\ H.chunks_[h].next # kInvalidChunkHandle =>
         /\ H.chunks_[h].next \in Live(H)
         /\ H.chunks_[H.chunks_[h].next].prev = h
         /\ H.chunks_[H.chunks_[h].next].ptr = H.chunks_[h].ptr + H.chunks_[h].size
    /\ H.chunks_[h].prev # kInvalidChunkHandle =>
         /\ H.chunks_[h].prev \in Live(H)
         /\ H.chunks_[H.chunks_[h].prev].next = h
    /\ H.chunks_[h].prev = kInvalidChunkHandle =>
         \E r \in H.regions_ : r.ptr = H.chunks_[h].ptr

ChunksCover(H) ==
  \A p \in DOMAIN H.handles_ : \E h \in Live(H) : p \in Extent(H.chunks_[h])

RegionsDisjoint(H) ==
  \A r, s \in H.regions_ :
    r # s => Grains(r.ptr, r.memory_size) \intersect Grains(s.ptr, s.memory_size) = {}

\* Locally, the deleted chunks form a list that starts at free_chunks_list_.
FreeListLinked(H) ==
  /\ H.free_chunks_list_ \in Dead(H) \union {kInvalidChunkHandle}
  /\ \A d \in Dead(H) :
       /\ H.chunks_[d].next \in Dead(H) \union {kInvalidChunkHandle}
       /\ H.chunks_[d].next # kInvalidChunkHandle =>
            H.chunks_[d].next # H.free_chunks_list_
  /\ \A d, e \in Dead(H) :
       H.chunks_[d].next = H.chunks_[e].next /\ d # e =>
         H.chunks_[d].next = kInvalidChunkHandle

\* The list reaches every deleted chunk: what contains its head, and the next of
\* each of its members, contains all of them.
FreeListReaches(H) ==
  \A S \in SUBSET Dead(H) :
    /\ H.free_chunks_list_ \in S \union {kInvalidChunkHandle}
    /\ \A d \in S : H.chunks_[d].next \in S \union {kInvalidChunkHandle}
    => Dead(H) \subseteq S

Sound(H) ==
  /\ IsHeap(H)
  /\ HeapType(H)
  /\ H.fatal = FALSE
  /\ SlotsPoint(H)
  /\ ChunksSized(H)
  /\ ChunksLinked(H)
  /\ ChunksCover(H)
  /\ RegionsDisjoint(H)
  /\ FreeListLinked(H)
  /\ FreeListReaches(H)

\* The chunks of L are free but in no bin.
Binned(H, L) ==
  /\ \A b \in Bins, h \in DOMAIN H.chunks_ :
       h \in H.bins_[b] <=> H.chunks_[h].bin_num = b
  /\ \A h \in DOMAIN H.chunks_ :
       H.chunks_[h].bin_num # kInvalidBinNum =>
         /\ h \in Live(H) \ L
         /\ ~in_use(H.chunks_[h])
         /\ H.chunks_[h].bin_num = BinNumForSize(H.chunks_[h].size)
  /\ \A h \in Live(H) :
       ~in_use(H.chunks_[h]) /\ h \notin L => H.chunks_[h].bin_num # kInvalidBinNum

\* Of two neighbours outside X, one is in use.
NoFreePair(H, X) ==
  \A h \in Live(H) :
    /\ H.chunks_[h].next # kInvalidChunkHandle
    /\ h \notin X /\ H.chunks_[h].next \notin X
    => in_use(H.chunks_[h]) \/ in_use(H.chunks_[H.chunks_[h].next])

Used(H) == {h \in Live(H) : in_use(H.chunks_[h])}

-----------------------------------------------------------------------------

\* Every size has a bin: BinNumForSize never leaves the array bins_.
LEMMA BinType == \A n : BinNumForSize(n) \in Bins
<1> TAKE n
<1> DEFINE S == {b \in 1 .. kNumBins - 1 : 2^b <= n}
<1>1. kNumBins \in Nat /\ kNumBins >= 1
  BY BinsAssumption
<1>2. IsFiniteSet(1 .. kNumBins - 1) /\ Cardinality(1 .. kNumBins - 1) = kNumBins - 1
  BY <1>1, FS_Interval
<1>3. S \in SUBSET (1 .. kNumBins - 1)
  OBVIOUS
<1>4. IsFiniteSet(S) /\ Cardinality(S) <= kNumBins - 1
  BY <1>2, <1>3, FS_Subset
<1>5. Cardinality(S) \in Nat
  BY <1>4, FS_CardinalityType
<1> QED BY <1>1, <1>4, <1>5 DEF BinNumForSize, Bins

\* Writing bins, allocation_id and requested_size leaves the layout as it was.
LEMMA SameLayout ==
  ASSUME NEW H, Sound(H), NEW I, IsHeap(I), HeapType(I), I.fatal = FALSE,
         DOMAIN I.chunks_ = DOMAIN H.chunks_,
         I.handles_ = H.handles_, I.regions_ = H.regions_,
         I.free_chunks_list_ = H.free_chunks_list_,
         \A g \in DOMAIN H.chunks_ :
           /\ I.chunks_[g].ptr = H.chunks_[g].ptr
           /\ I.chunks_[g].size = H.chunks_[g].size
           /\ I.chunks_[g].prev = H.chunks_[g].prev
           /\ I.chunks_[g].next = H.chunks_[g].next
  PROVE  Sound(I) /\ Live(I) = Live(H)
<1>1. Live(I) = Live(H)
  BY DEF Live
<1>2. Dead(I) = Dead(H)
  BY <1>1 DEF Dead
<1>3. SlotsPoint(I)
  BY DEF Sound, SlotsPoint, HeapType
<1>4. ChunksSized(I)
  <2> SUFFICES ASSUME NEW h \in Live(H)
               PROVE  /\ I.chunks_[h].size > 0
                      /\ \A p \in Extent(I.chunks_[h]) :
                           /\ p \in DOMAIN I.handles_
                           /\ p # I.chunks_[h].ptr => I.handles_[p] = kInvalidChunkHandle
    BY <1>1 DEF ChunksSized
  <2>1. h \in DOMAIN H.chunks_
    BY DEF Live
  <2>2. Extent(I.chunks_[h]) = Extent(H.chunks_[h])
    BY <2>1 DEF Extent
  <2>3. /\ H.chunks_[h].size > 0
        /\ \A p \in Extent(H.chunks_[h]) :
             /\ p \in DOMAIN H.handles_
             /\ p # H.chunks_[h].ptr => H.handles_[p] = kInvalidChunkHandle
    BY DEF Sound, ChunksSized
  <2> QED BY <2>1, <2>2, <2>3
<1>5. ChunksLinked(I)
  <2> SUFFICES ASSUME NEW h \in Live(H)
               PROVE  /\ I.chunks_[h].next # kInvalidChunkHandle =>
                           /\ I.chunks_[h].next \in Live(H)
                           /\ I.chunks_[I.chunks_[h].next].prev = h
                           /\ I.chunks_[I.chunks_[h].next].ptr =
                                I.chunks_[h].ptr + I.chunks_[h].size
                      /\ I.chunks_[h].prev # kInvalidChunkHandle =>
                           /\ I.chunks_[h].prev \in Live(H)
                           /\ I.chunks_[I.chunks_[h].prev].next = h
                      /\ I.chunks_[h].prev = kInvalidChunkHandle =>
                           \E r \in I.regions_ : r.ptr = I.chunks_[h].ptr
    BY <1>1 DEF ChunksLinked
  <2>1. \A g \in Live(H) : g \in DOMAIN H.chunks_
    BY DEF Live
  <2>2. /\ H.chunks_[h].next # kInvalidChunkHandle =>
             /\ H.chunks_[h].next \in Live(H)
             /\ H.chunks_[H.chunks_[h].next].prev = h
             /\ H.chunks_[H.chunks_[h].next].ptr = H.chunks_[h].ptr + H.chunks_[h].size
        /\ H.chunks_[h].prev # kInvalidChunkHandle =>
             /\ H.chunks_[h].prev \in Live(H)
             /\ H.chunks_[H.chunks_[h].prev].next = h
        /\ H.chunks_[h].prev = kInvalidChunkHandle =>
             \E r \in H.regions_ : r.ptr = H.chunks_[h].ptr
    BY DEF Sound, ChunksLinked
  <2> QED BY <2>1, <2>2
<1>6. ChunksCover(I)
  <2>1. \A h \in Live(H) : Extent(I.chunks_[h]) = Extent(H.chunks_[h])
    BY DEF Extent, Live
  <2> QED BY <1>1, <2>1 DEF Sound, ChunksCover
<1>7. RegionsDisjoint(I)
  BY DEF Sound, RegionsDisjoint
<1>8. FreeListLinked(I)
  BY <1>2 DEF Sound, FreeListLinked, Dead
<1>9. FreeListReaches(I)
  BY <1>2 DEF Sound, FreeListReaches, Dead
<1> QED BY <1>1, <1>3, <1>4, <1>5, <1>6, <1>7, <1>8, <1>9 DEF Sound

\* What a passing ITEX_CHECK does: nothing.
LEMMA CheckPasses ==
  ASSUME NEW H, IsHeap(H), NEW b, b
  PROVE  ITEX_CHECK(H, b) = H
BY DEF IsHeap, ITEX_CHECK

\* A write through ChunkFromHandle changes that chunk and nothing else.
LEMMA SetChunkEffect ==
  ASSUME NEW H, IsHeap(H), NEW h, NEW c
  PROVE  LET I == SetChunk(H, h, c)
         IN  /\ IsHeap(I)
             /\ I.chunks_ = [g \in DOMAIN H.chunks_ |-> IF g = h THEN c ELSE H.chunks_[g]]
             /\ I.bins_ = H.bins_
             /\ I.regions_ = H.regions_
             /\ I.handles_ = H.handles_
             /\ I.free_chunks_list_ = H.free_chunks_list_
             /\ I.fatal = H.fatal
BY DEF IsHeap, SetChunk

\* InsertFreeChunkIntoBin on a free unbinned chunk: its check passes, and the
\* chunk gets the bin for its size.
LEMMA InsertEffect ==
  ASSUME NEW H, Sound(H), NEW h \in DOMAIN H.chunks_,
         ~in_use(H.chunks_[h]), H.chunks_[h].bin_num = kInvalidBinNum
  PROVE  LET I == InsertFreeChunkIntoBin(H, h)
             b == BinNumForSize(H.chunks_[h].size)
         IN  /\ IsHeap(I)
             /\ I.chunks_ = [g \in DOMAIN H.chunks_ |->
                               IF g = h THEN [H.chunks_[h] EXCEPT !.bin_num = b]
                               ELSE H.chunks_[g]]
             /\ I.bins_ = [H.bins_ EXCEPT ![b] = @ \union {h}]
             /\ I.regions_ = H.regions_
             /\ I.handles_ = H.handles_
             /\ I.free_chunks_list_ = H.free_chunks_list_
             /\ I.fatal = FALSE
<1> DEFINE c == H.chunks_[h]
           b == BinNumForSize(c.size)
           S == SetChunk(H, h, [c EXCEPT !.bin_num = b])
<1>1. ITEX_CHECK(H, ~in_use(c) /\ c.bin_num = kInvalidBinNum) = H
  BY CheckPasses DEF Sound
<1>2. InsertFreeChunkIntoBin(H, h) = [S EXCEPT !.bins_[b] = @ \union {h}]
  BY <1>1 DEF InsertFreeChunkIntoBin
<1>3. /\ IsHeap(S)
      /\ S.chunks_ = [g \in DOMAIN H.chunks_ |-> IF g = h THEN [c EXCEPT !.bin_num = b]
                                                 ELSE H.chunks_[g]]
      /\ S.bins_ = H.bins_ /\ S.regions_ = H.regions_ /\ S.handles_ = H.handles_
      /\ S.free_chunks_list_ = H.free_chunks_list_ /\ S.fatal = FALSE
  BY SetChunkEffect DEF Sound
<1> HIDE DEF S, b
<1> QED BY <1>2, <1>3 DEF IsHeap, b

\* RemoveFreeChunkFromBin on a free binned chunk: its check passes, and the
\* chunk leaves its bin.
LEMMA RemoveEffect ==
  ASSUME NEW H, Sound(H), NEW h \in DOMAIN H.chunks_, ~in_use(H.chunks_[h]),
         H.chunks_[h].bin_num \in Bins, h \in H.bins_[H.chunks_[h].bin_num]
  PROVE  LET I == RemoveFreeChunkFromBin(H, h)
             b == H.chunks_[h].bin_num
         IN  /\ IsHeap(I)
             /\ I.chunks_ = [g \in DOMAIN H.chunks_ |->
                               IF g = h THEN [H.chunks_[h] EXCEPT !.bin_num = kInvalidBinNum]
                               ELSE H.chunks_[g]]
             /\ I.bins_ = [H.bins_ EXCEPT ![b] = @ \ {h}]
             /\ I.regions_ = H.regions_
             /\ I.handles_ = H.handles_
             /\ I.free_chunks_list_ = H.free_chunks_list_
             /\ I.fatal = FALSE
<1> DEFINE c == H.chunks_[h]
           b == c.bin_num
           S == SetChunk(H, h, [c EXCEPT !.bin_num = kInvalidBinNum])
<1>1. b # kInvalidBinNum
  BY DEF Bins, kInvalidBinNum
<1>2. ITEX_CHECK(H, /\ ~in_use(c) /\ b # kInvalidBinNum /\ h \in H.bins_[b]) = H
  BY <1>1, CheckPasses DEF Sound
<1>3. RemoveFreeChunkFromBin(H, h) = [S EXCEPT !.bins_[b] = @ \ {h}]
  BY <1>2 DEF RemoveFreeChunkFromBin
<1>4. /\ IsHeap(S)
      /\ S.chunks_ = [g \in DOMAIN H.chunks_ |->
                        IF g = h THEN [c EXCEPT !.bin_num = kInvalidBinNum]
                        ELSE H.chunks_[g]]
      /\ S.bins_ = H.bins_ /\ S.regions_ = H.regions_ /\ S.handles_ = H.handles_
      /\ S.free_chunks_list_ = H.free_chunks_list_ /\ S.fatal = FALSE
  BY SetChunkEffect DEF Sound
<1> HIDE DEF S, b
<1> QED BY <1>3, <1>4 DEF IsHeap, b

\* Two heaps that differ only in bins.
SameButBins(H, I) ==
  /\ DOMAIN I.chunks_ = DOMAIN H.chunks_
  /\ Live(I) = Live(H)
  /\ I.handles_ = H.handles_ /\ I.regions_ = H.regions_
  /\ \A g \in DOMAIN H.chunks_ :
       /\ I.chunks_[g].ptr = H.chunks_[g].ptr
       /\ I.chunks_[g].size = H.chunks_[g].size
       /\ I.chunks_[g].requested_size = H.chunks_[g].requested_size
       /\ I.chunks_[g].allocation_id = H.chunks_[g].allocation_id
       /\ I.chunks_[g].prev = H.chunks_[g].prev
       /\ I.chunks_[g].next = H.chunks_[g].next

\* InsertFreeChunkIntoBin keeps the pool sound and bins the chunk.
LEMMA InsertSound ==
  ASSUME NEW H, Sound(H), NEW L, Binned(H, L), NEW h \in Live(H), h \in L,
         ~in_use(H.chunks_[h])
  PROVE  LET I == InsertFreeChunkIntoBin(H, h)
         IN  Sound(I) /\ Binned(I, L \ {h}) /\ SameButBins(H, I)
<1> DEFINE I == InsertFreeChunkIntoBin(H, h)
           c == H.chunks_[h]
           b == BinNumForSize(c.size)
<1>0. h \in DOMAIN H.chunks_ /\ c \in Chunk
  BY DEF Live, Sound, HeapType
<1>1. c.bin_num = kInvalidBinNum
  BY <1>0 DEF Binned
<1>2. /\ IsHeap(I)
      /\ I.chunks_ = [g \in DOMAIN H.chunks_ |->
                        IF g = h THEN [c EXCEPT !.bin_num = b] ELSE H.chunks_[g]]
      /\ I.bins_ = [H.bins_ EXCEPT ![b] = @ \union {h}]
      /\ I.regions_ = H.regions_
      /\ I.handles_ = H.handles_
      /\ I.free_chunks_list_ = H.free_chunks_list_
      /\ I.fatal = FALSE
  BY <1>0, <1>1, InsertEffect
<1>3. b \in Bins
  BY BinType
<1> HIDE DEF I, b
<1>4. [c EXCEPT !.bin_num = b] \in Chunk
  BY <1>0, <1>3 DEF Chunk
<1>5. HeapType(I)
  <2>1. I.chunks_ \in [DOMAIN I.chunks_ -> Chunk]
    BY <1>2, <1>4 DEF Sound, HeapType
  <2>2. I.bins_ \in [Bins -> SUBSET DOMAIN I.chunks_]
    BY <1>0, <1>2, <1>3 DEF Sound, HeapType
  <2> QED BY <1>2, <2>1, <2>2 DEF Sound, HeapType
<1>6. \A g \in DOMAIN H.chunks_ :
        /\ I.chunks_[g].ptr = H.chunks_[g].ptr
        /\ I.chunks_[g].size = H.chunks_[g].size
        /\ I.chunks_[g].requested_size = H.chunks_[g].requested_size
        /\ I.chunks_[g].allocation_id = H.chunks_[g].allocation_id
        /\ I.chunks_[g].prev = H.chunks_[g].prev
        /\ I.chunks_[g].next = H.chunks_[g].next
        /\ g # h => I.chunks_[g].bin_num = H.chunks_[g].bin_num
        /\ g = h => I.chunks_[g].bin_num = b
  BY <1>0, <1>2 DEF Chunk
<1>7. Sound(I) /\ Live(I) = Live(H)
  <2>1. /\ IsHeap(I) /\ I.fatal = FALSE
        /\ DOMAIN I.chunks_ = DOMAIN H.chunks_
        /\ I.handles_ = H.handles_ /\ I.regions_ = H.regions_
        /\ I.free_chunks_list_ = H.free_chunks_list_
    BY <1>2
  <2>2. \A g \in DOMAIN H.chunks_ :
          /\ I.chunks_[g].ptr = H.chunks_[g].ptr
          /\ I.chunks_[g].size = H.chunks_[g].size
          /\ I.chunks_[g].prev = H.chunks_[g].prev
          /\ I.chunks_[g].next = H.chunks_[g].next
    BY <1>6
  <2> QED BY <1>5, <2>1, <2>2, SameLayout, ZenonT(30)
<1>8. Binned(I, L \ {h})
  <2>1. \A a \in Bins, g \in DOMAIN I.chunks_ :
          g \in I.bins_[a] <=> I.chunks_[g].bin_num = a
    <3> SUFFICES ASSUME NEW a \in Bins, NEW g \in DOMAIN I.chunks_
                 PROVE  g \in I.bins_[a] <=> I.chunks_[g].bin_num = a
      OBVIOUS
    <3>1. g \in DOMAIN H.chunks_ /\ a # kInvalidBinNum
      BY <1>2 DEF Bins, kInvalidBinNum
    <3>2. g \in H.bins_[a] <=> H.chunks_[g].bin_num = a
      BY <3>1 DEF Binned
    <3>3. I.bins_[a] = IF a = b THEN H.bins_[a] \union {h} ELSE H.bins_[a]
      BY <1>2 DEF Sound, HeapType
    <3> QED BY <1>1, <1>6, <3>1, <3>2, <3>3
  <2>2. \A g \in DOMAIN I.chunks_ :
          I.chunks_[g].bin_num # kInvalidBinNum =>
            /\ g \in Live(I) \ (L \ {h})
            /\ ~in_use(I.chunks_[g])
            /\ I.chunks_[g].bin_num = BinNumForSize(I.chunks_[g].size)
    BY <1>2, <1>6, <1>7 DEF Binned, in_use, b
  <2>3. \A g \in Live(I) :
          ~in_use(I.chunks_[g]) /\ g \notin L \ {h} =>
            I.chunks_[g].bin_num # kInvalidBinNum
    BY <1>3, <1>6, <1>7 DEF Binned, in_use, Bins, kInvalidBinNum, Live
  <2> QED BY <2>1, <2>2, <2>3 DEF Binned
<1> QED BY <1>2, <1>6, <1>7, <1>8 DEF SameButBins, I

\* RemoveFreeChunkFromBin keeps the pool sound and unbins the chunk.
LEMMA RemoveSound ==
  ASSUME NEW H, Sound(H), NEW L, Binned(H, L), NEW h \in Live(H) \ L,
         ~in_use(H.chunks_[h])
  PROVE  LET I == RemoveFreeChunkFromBin(H, h)
         IN  Sound(I) /\ Binned(I, L \union {h}) /\ SameButBins(H, I)
<1> DEFINE I == RemoveFreeChunkFromBin(H, h)
           c == H.chunks_[h]
           b == c.bin_num
<1>0. h \in DOMAIN H.chunks_ /\ c \in Chunk
  BY DEF Live, Sound, HeapType
<1>1. b \in Bins /\ h \in H.bins_[b]
  BY <1>0 DEF Binned, Chunk
<1>2. /\ IsHeap(I)
      /\ I.chunks_ = [g \in DOMAIN H.chunks_ |->
                        IF g = h THEN [c EXCEPT !.bin_num = kInvalidBinNum]
                        ELSE H.chunks_[g]]
      /\ I.bins_ = [H.bins_ EXCEPT ![b] = @ \ {h}]
      /\ I.regions_ = H.regions_
      /\ I.handles_ = H.handles_
      /\ I.free_chunks_list_ = H.free_chunks_list_
      /\ I.fatal = FALSE
  BY <1>0, <1>1, RemoveEffect
<1> HIDE DEF I
<1>4. [c EXCEPT !.bin_num = kInvalidBinNum] \in Chunk
  BY <1>0 DEF Chunk
<1>5. HeapType(I)
  <2>1. I.chunks_ \in [DOMAIN I.chunks_ -> Chunk]
    BY <1>2, <1>4 DEF Sound, HeapType
  <2>2. I.bins_ \in [Bins -> SUBSET DOMAIN I.chunks_]
    <3>1. H.bins_ \in [Bins -> SUBSET DOMAIN H.chunks_]
      BY DEF Sound, HeapType
    <3>2. DOMAIN I.chunks_ = DOMAIN H.chunks_ /\ I.bins_ = [H.bins_ EXCEPT ![b] = @ \ {h}]
      BY <1>2
    <3> HIDE DEF b
    <3> QED BY <3>1, <3>2
  <2> QED BY <1>2, <2>1, <2>2 DEF Sound, HeapType
<1>6. \A g \in DOMAIN H.chunks_ :
        /\ I.chunks_[g].ptr = H.chunks_[g].ptr
        /\ I.chunks_[g].size = H.chunks_[g].size
        /\ I.chunks_[g].requested_size = H.chunks_[g].requested_size
        /\ I.chunks_[g].allocation_id = H.chunks_[g].allocation_id
        /\ I.chunks_[g].prev = H.chunks_[g].prev
        /\ I.chunks_[g].next = H.chunks_[g].next
        /\ g # h => I.chunks_[g].bin_num = H.chunks_[g].bin_num
        /\ g = h => I.chunks_[g].bin_num = kInvalidBinNum
  BY <1>0, <1>2 DEF Chunk
<1>7. Sound(I) /\ Live(I) = Live(H)
  <2>1. /\ IsHeap(I) /\ I.fatal = FALSE
        /\ DOMAIN I.chunks_ = DOMAIN H.chunks_
        /\ I.handles_ = H.handles_ /\ I.regions_ = H.regions_
        /\ I.free_chunks_list_ = H.free_chunks_list_
    BY <1>2
  <2>2. \A g \in DOMAIN H.chunks_ :
          /\ I.chunks_[g].ptr = H.chunks_[g].ptr
          /\ I.chunks_[g].size = H.chunks_[g].size
          /\ I.chunks_[g].prev = H.chunks_[g].prev
          /\ I.chunks_[g].next = H.chunks_[g].next
    BY <1>6
  <2> QED BY <1>5, <2>1, <2>2, SameLayout, ZenonT(30)
<1>8. Binned(I, L \union {h})
  <2>1. \A a \in Bins, g \in DOMAIN I.chunks_ :
          g \in I.bins_[a] <=> I.chunks_[g].bin_num = a
    <3> SUFFICES ASSUME NEW a \in Bins, NEW g \in DOMAIN I.chunks_
                 PROVE  g \in I.bins_[a] <=> I.chunks_[g].bin_num = a
      OBVIOUS
    <3>1. g \in DOMAIN H.chunks_ /\ a # kInvalidBinNum
      BY <1>2 DEF Bins, kInvalidBinNum
    <3>2. g \in H.bins_[a] <=> H.chunks_[g].bin_num = a
      BY <3>1 DEF Binned
    <3>3. I.bins_[a] = IF a = b THEN H.bins_[a] \ {h} ELSE H.bins_[a]
      BY <1>2 DEF Sound, HeapType
    <3> QED BY <1>6, <3>1, <3>2, <3>3
  <2>2. \A g \in DOMAIN I.chunks_ :
          I.chunks_[g].bin_num # kInvalidBinNum =>
            /\ g \in Live(I) \ (L \union {h})
            /\ ~in_use(I.chunks_[g])
            /\ I.chunks_[g].bin_num = BinNumForSize(I.chunks_[g].size)
    BY <1>2, <1>6, <1>7 DEF Binned, in_use
  <2>3. \A g \in Live(I) :
          ~in_use(I.chunks_[g]) /\ g \notin L \union {h} =>
            I.chunks_[g].bin_num # kInvalidBinNum
    BY <1>6, <1>7 DEF Binned, in_use, Live
  <2> QED BY <2>1, <2>2, <2>3 DEF Binned
<1> QED BY <1>2, <1>6, <1>7, <1>8 DEF SameButBins, I

\* RegionFor finds the region of every address of the pool.
LEMMA SlotExists ==
  ASSUME NEW H, H.regions_ \subseteq Region, RegionsDisjoint(H),
         NEW r \in H.regions_, NEW p \in Grains(r.ptr, r.memory_size)
  PROVE  HasSlot(H, p)
<1>1. /\ r.ptr \in Nat /\ r.memory_size \in Nat
      /\ p \in Int /\ p >= r.ptr /\ p < End(r)
  BY DEF Region, Grains, End
<1>2. ASSUME NEW s \in H.regions_, p < End(s)
      PROVE  End(r) <= End(s)
  <2>1. s.ptr \in Nat /\ s.memory_size \in Nat /\ s.memory_size > 0
    BY DEF Region
  <2>2. SUFFICES ASSUME End(s) < End(r) PROVE FALSE
    BY <1>1, <2>1 DEF End
  <2>3. End(s) - 1 \in Grains(s.ptr, s.memory_size)
    BY <2>1 DEF End, Grains
  <2>4. End(s) - 1 \in Grains(r.ptr, r.memory_size)
    BY <1>1, <1>2, <2>1, <2>2 DEF End, Grains
  <2>5. s # r
    BY <1>1, <2>2 DEF End
  <2> QED BY <2>3, <2>4, <2>5 DEF RegionsDisjoint
<1> QED BY <1>1, <1>2 DEF HasSlot, RegionFor

\* RegionManager::set_handle finds its region, so its check passes, and writes
\* that one slot.
LEMMA SetHandleEffect ==
  ASSUME NEW H, IsHeap(H), H.regions_ \subseteq Region, RegionsDisjoint(H),
         DOMAIN H.handles_ = UNION {Grains(r.ptr, r.memory_size) : r \in H.regions_},
         NEW p \in DOMAIN H.handles_, NEW h
  PROVE  LET I == set_handle(H, p, h)
         IN  /\ IsHeap(I)
             /\ I.handles_ = [H.handles_ EXCEPT ![p] = h]
             /\ I.chunks_ = H.chunks_
             /\ I.bins_ = H.bins_
             /\ I.regions_ = H.regions_
             /\ I.free_chunks_list_ = H.free_chunks_list_
             /\ I.fatal = H.fatal
<1>1. PICK r \in H.regions_ : p \in Grains(r.ptr, r.memory_size)
  OBVIOUS
<1>2. HasSlot(H, p)
  BY <1>1, SlotExists
<1>3. ITEX_CHECK(H, HasSlot(H, p)) = H
  BY <1>2, CheckPasses
<1>4. set_handle(H, p, h) = [H EXCEPT !.handles_[p] = h]
  BY <1>3 DEF set_handle
<1> QED BY <1>4 DEF IsHeap

\* AllocateChunk takes a handle that no chunk of the pool has.
LEMMA AllocateChunkEffect ==
  ASSUME NEW H, Sound(H), NEW L, Binned(H, L)
  PROVE  LET A == AllocateChunk(H)
             new == NewHandle(H)
         IN  /\ IsHeap(A)
             /\ A.bins_ = H.bins_
             /\ A.regions_ = H.regions_
             /\ A.handles_ = H.handles_
             /\ A.fatal = H.fatal
             /\ new \in Nat /\ new \notin Live(H)
             /\ DOMAIN A.chunks_ = DOMAIN H.chunks_ \union {new}
             /\ IsFiniteSet(DOMAIN A.chunks_)
             /\ DOMAIN A.chunks_ = 0 .. Cardinality(DOMAIN A.chunks_) - 1
             /\ A.chunks_ \in [DOMAIN A.chunks_ -> Chunk]
             /\ \A g \in DOMAIN H.chunks_ : A.chunks_[g] = H.chunks_[g]
             /\ A.chunks_[new].bin_num = kInvalidBinNum
             /\ A.free_chunks_list_ \in (Dead(H) \ {new}) \union {kInvalidChunkHandle}
             /\ \A d \in Dead(H) \ {new} :
                  /\ H.chunks_[d].next \in (Dead(H) \ {new}) \union {kInvalidChunkHandle}
                  /\ H.chunks_[d].next # kInvalidChunkHandle =>
                       H.chunks_[d].next # A.free_chunks_list_
<1> DEFINE A == AllocateChunk(H)
           new == NewHandle(H)
           D == DOMAIN H.chunks_
           n == Cardinality(D)
<1>1. /\ IsFiniteSet(D) /\ D = 0 .. n - 1 /\ n \in Nat
      /\ H.chunks_ \in [D -> Chunk]
  BY FS_CardinalityType DEF Sound, HeapType
<1>2. CASE H.free_chunks_list_ # kInvalidChunkHandle
  <2>1. new = H.free_chunks_list_ /\ new \in Dead(H) /\ new \in D
    BY <1>2 DEF NewHandle, Sound, FreeListLinked, Dead
  <2>2. A = [H EXCEPT !.free_chunks_list_ = H.chunks_[new].next]
    BY <1>2, <2>1 DEF AllocateChunk
  <2> HIDE DEF A, new
  <2>3. /\ IsHeap(A) /\ A.chunks_ = H.chunks_ /\ A.bins_ = H.bins_
        /\ A.regions_ = H.regions_ /\ A.handles_ = H.handles_ /\ A.fatal = H.fatal
        /\ A.free_chunks_list_ = H.chunks_[new].next
    BY <2>2 DEF IsHeap, Sound
  <2>4. D = D \union {new} /\ new \in Nat /\ new \notin Live(H)
    BY <1>1, <2>1 DEF Dead
  <2>5. H.chunks_[new].bin_num = kInvalidBinNum
    BY <2>1, <2>4 DEF Binned
  <2>6. A.free_chunks_list_ \in (Dead(H) \ {new}) \union {kInvalidChunkHandle}
    BY <2>1, <2>3 DEF Sound, FreeListLinked
  <2>7. ASSUME NEW d \in Dead(H) \ {new}
        PROVE  /\ H.chunks_[d].next \in (Dead(H) \ {new}) \union {kInvalidChunkHandle}
               /\ H.chunks_[d].next # kInvalidChunkHandle =>
                    H.chunks_[d].next # A.free_chunks_list_
    BY <2>1, <2>3, <2>7 DEF Sound, FreeListLinked
  <2> QED BY <1>1, <2>3, <2>4, <2>5, <2>6, <2>7 DEF A, new
<1>3. CASE H.free_chunks_list_ = kInvalidChunkHandle
  <2>1. new = n
    BY <1>3 DEF NewHandle
  <2>2. A = [H EXCEPT !.chunks_ = [h \in D \union {n} |->
                                     IF h = n THEN NewChunk ELSE H.chunks_[h]]]
    BY <1>3, <2>1 DEF AllocateChunk
  <2> HIDE DEF A, new
  <2>3. /\ IsHeap(A)
        /\ A.chunks_ = [h \in D \union {n} |-> IF h = n THEN NewChunk ELSE H.chunks_[h]]
        /\ A.bins_ = H.bins_
        /\ A.regions_ = H.regions_ /\ A.handles_ = H.handles_ /\ A.fatal = H.fatal
        /\ A.free_chunks_list_ = kInvalidChunkHandle
    BY <1>3, <2>2 DEF IsHeap, Sound
  <2>4. n \notin D
    BY <1>1
  <2>5. IsFiniteSet(D \union {n}) /\ Cardinality(D \union {n}) = n + 1
    BY <1>1, <2>4, FS_AddElement
  <2>6. D \union {n} = 0 .. n
    BY <1>1
  <2>7. NewChunk \in Chunk /\ NewChunk.bin_num = kInvalidBinNum
    BY DEF NewChunk, Chunk, Handle, nullptr
  <2>8. A.chunks_ \in [D \union {n} -> Chunk]
    BY <1>1, <2>3, <2>4, <2>7
  <2>9. \A d \in Dead(H) \ {n} :
          H.chunks_[d].next \in (Dead(H) \ {n}) \union {kInvalidChunkHandle}
    BY <2>4 DEF Sound, FreeListLinked, Dead
  <2>10. n \notin Live(H)
    BY <2>4 DEF Live
  <2>11. /\ DOMAIN A.chunks_ = D \union {n}
         /\ DOMAIN A.chunks_ = 0 .. Cardinality(DOMAIN A.chunks_) - 1
         /\ IsFiniteSet(DOMAIN A.chunks_)
    BY <1>1, <2>3, <2>5, <2>6
  <2>12. \A g \in D : A.chunks_[g] = H.chunks_[g]
    BY <2>3, <2>4
  <2>13. A.chunks_[n].bin_num = kInvalidBinNum
    BY <2>3, <2>7
  <2> HIDE DEF D
  <2> QED BY <1>1, <2>1, <2>3, <2>8, <2>9, <2>10, <2>11, <2>12, <2>13 DEF A, new, D
<1> QED BY <1>2, <1>3

\* Chunks in use are left as they were, but for their neighbours.
UsedUnchanged(H, I) ==
  /\ Used(I) = Used(H)
  /\ \A g \in Used(H) :
       /\ I.chunks_[g].ptr = H.chunks_[g].ptr
       /\ I.chunks_[g].size = H.chunks_[g].size
       /\ I.chunks_[g].requested_size = H.chunks_[g].requested_size

\* The list is what it was, without its first chunk if AllocateChunk took one.
LEMMA ListPop ==
  ASSUME NEW H, Sound(H), NEW K, Dead(K) = Dead(H) \ {NewHandle(H)},
         \A d \in Dead(K) : K.chunks_[d].next = H.chunks_[d].next,
         K.free_chunks_list_ = AllocateChunk(H).free_chunks_list_
  PROVE  FreeListReaches(K)
<1> DEFINE new == NewHandle(H)
<1> SUFFICES ASSUME NEW S \in SUBSET Dead(K),
                    K.free_chunks_list_ \in S \union {kInvalidChunkHandle},
                    \A d \in S : K.chunks_[d].next \in S \union {kInvalidChunkHandle}
             PROVE  Dead(K) \subseteq S
  BY DEF FreeListReaches
<1>1. \A T \in SUBSET Dead(H) :
        /\ H.free_chunks_list_ \in T \union {kInvalidChunkHandle}
        /\ \A d \in T : H.chunks_[d].next \in T \union {kInvalidChunkHandle}
        => Dead(H) \subseteq T
  BY DEF Sound, FreeListReaches
<1>2. CASE H.free_chunks_list_ = kInvalidChunkHandle
  BY <1>1, <1>2
<1>3. CASE H.free_chunks_list_ # kInvalidChunkHandle
  <2>1. new = H.free_chunks_list_ /\ new \in Dead(H)
    BY <1>3 DEF NewHandle, Sound, FreeListLinked
  <2>2. K.free_chunks_list_ = H.chunks_[new].next
    <3>1. AllocateChunk(H) = [H EXCEPT !.free_chunks_list_ = H.chunks_[new].next]
      BY <1>3, <2>1 DEF AllocateChunk
    <3> QED BY <3>1 DEF Sound, IsHeap
  <2> DEFINE T == S \union {new}
  <2>3. T \in SUBSET Dead(H) /\ H.free_chunks_list_ \in T
    BY <2>1
  <2>4. \A d \in T : H.chunks_[d].next \in T \union {kInvalidChunkHandle}
    BY <2>2
  <2>5. Dead(H) \subseteq T
    BY <1>1, <2>3, <2>4
  <2> QED BY <2>5
<1> QED BY <1>2, <1>3

\* The list is what it was behind the chunk DeallocateChunk has put first.
LEMMA ListPush ==
  ASSUME NEW H, Sound(H), NEW K, NEW h, h # kInvalidChunkHandle,
         Dead(K) = Dead(H) \union {h}, h \notin Dead(H),
         \A d \in Dead(H) : K.chunks_[d].next = H.chunks_[d].next,
         K.chunks_[h].next = H.free_chunks_list_, K.free_chunks_list_ = h
  PROVE  FreeListReaches(K)
<1> SUFFICES ASSUME NEW S \in SUBSET Dead(K),
                    K.free_chunks_list_ \in S \union {kInvalidChunkHandle},
                    \A d \in S : K.chunks_[d].next \in S \union {kInvalidChunkHandle}
             PROVE  Dead(K) \subseteq S
  BY DEF FreeListReaches
<1>1. /\ H.free_chunks_list_ \in Dead(H) \union {kInvalidChunkHandle}
      /\ \A d \in Dead(H) : H.chunks_[d].next \in Dead(H) \union {kInvalidChunkHandle}
      /\ \A T \in SUBSET Dead(H) :
           /\ H.free_chunks_list_ \in T \union {kInvalidChunkHandle}
           /\ \A d \in T : H.chunks_[d].next \in T \union {kInvalidChunkHandle}
           => Dead(H) \subseteq T
  BY DEF Sound, FreeListLinked, FreeListReaches
<1>2. h \in S
  OBVIOUS
<1> DEFINE T == S \ {h}
<1>3. T \in SUBSET Dead(H)
  OBVIOUS
<1>4. H.free_chunks_list_ \in T \union {kInvalidChunkHandle}
  BY <1>1, <1>2
<1>5. \A d \in T : H.chunks_[d].next \in T \union {kInvalidChunkHandle}
  BY <1>1, <1>3
<1>6. Dead(H) \subseteq T
  BY <1>1, <1>3, <1>4, <1>5
<1> QED BY <1>2, <1>6

\* The handles of a sound pool are naturals, so none is kInvalidChunkHandle.
LEMMA SoundTypes ==
  ASSUME NEW H, Sound(H)
  PROVE  DOMAIN H.chunks_ \subseteq Nat
BY FS_CardinalityType DEF Sound, HeapType

\* Two chunks of the pool never overlap.
LEMMA LiveDisjoint ==
  ASSUME NEW H, Sound(H), NEW g \in Live(H), NEW h \in Live(H), g # h
  PROVE  Extent(H.chunks_[g]) \intersect Extent(H.chunks_[h]) = {}
<1> DEFINE a == H.chunks_[g]
           b == H.chunks_[h]
<1>1. /\ a.ptr \in Nat /\ a.size \in Nat /\ b.ptr \in Nat /\ b.size \in Nat
      /\ g \in Nat /\ h \in Nat
      /\ H.handles_[a.ptr] = g /\ H.handles_[b.ptr] = h
  BY SoundTypes DEF Sound, HeapType, Chunk, Live
<1>2. /\ \A p \in Extent(a) : p # a.ptr => H.handles_[p] = kInvalidChunkHandle
      /\ \A p \in Extent(b) : p # b.ptr => H.handles_[p] = kInvalidChunkHandle
  BY DEF Sound, ChunksSized
<1>3. a.ptr # b.ptr
  BY <1>1
<1> HIDE DEF a, b
<1> SUFFICES ASSUME NEW p \in Extent(a), p \in Extent(b) PROVE FALSE
  BY DEF a, b
<1>4. CASE a.ptr < b.ptr
  <2>1. b.ptr \in Extent(a)
    BY <1>1, <1>4 DEF Extent, Grains
  <2> QED BY <1>1, <1>2, <1>3, <2>1 DEF kInvalidChunkHandle
<1>5. CASE b.ptr < a.ptr
  <2>1. a.ptr \in Extent(b)
    BY <1>1, <1>5 DEF Extent, Grains
  <2> QED BY <1>1, <1>2, <1>3, <2>1 DEF kInvalidChunkHandle
<1> QED BY <1>1, <1>3, <1>4, <1>5

\* SetChunkEffect chunk by chunk.
LEMMA SetChunkAt ==
  ASSUME NEW H, IsHeap(H), NEW h, NEW c
  PROVE  LET I == SetChunk(H, h, c)
         IN  /\ IsHeap(I)
             /\ DOMAIN I.chunks_ = DOMAIN H.chunks_
             /\ \A g \in DOMAIN H.chunks_ \ {h} : I.chunks_[g] = H.chunks_[g]
             /\ h \in DOMAIN H.chunks_ => I.chunks_[h] = c
             /\ I.chunks_ = [g \in DOMAIN I.chunks_ |-> I.chunks_[g]]
             /\ I.bins_ = H.bins_
             /\ I.regions_ = H.regions_
             /\ I.handles_ = H.handles_
             /\ I.free_chunks_list_ = H.free_chunks_list_
             /\ I.fatal = H.fatal
<1> DEFINE I == SetChunk(H, h, c)
<1>1. /\ IsHeap(I)
      /\ I.chunks_ = [g \in DOMAIN H.chunks_ |-> IF g = h THEN c ELSE H.chunks_[g]]
      /\ I.bins_ = H.bins_ /\ I.regions_ = H.regions_ /\ I.handles_ = H.handles_
      /\ I.free_chunks_list_ = H.free_chunks_list_ /\ I.fatal = H.fatal
  BY SetChunkEffect
<1> HIDE DEF I
<1> QED BY <1>1 DEF I

\* Only the chunk that follows a split or a merge gets a new prev.
LEMMA SetPrevEffect ==
  ASSUME NEW H, IsHeap(H), NEW h, NEW prev,
         H.chunks_ = [g \in DOMAIN H.chunks_ |-> H.chunks_[g]]
  PROVE  LET I == SetPrev(H, h, prev)
         IN  /\ IsHeap(I)
             /\ DOMAIN I.chunks_ = DOMAIN H.chunks_
             /\ \A g \in DOMAIN H.chunks_ \ {h} : I.chunks_[g] = H.chunks_[g]
             /\ h # kInvalidChunkHandle /\ h \in DOMAIN H.chunks_ =>
                  I.chunks_[h] = [H.chunks_[h] EXCEPT !.prev = prev]
             /\ I.chunks_ = [g \in DOMAIN I.chunks_ |-> I.chunks_[g]]
             /\ I.bins_ = H.bins_
             /\ I.regions_ = H.regions_
             /\ I.handles_ = H.handles_
             /\ I.free_chunks_list_ = H.free_chunks_list_
             /\ I.fatal = H.fatal
<1>1. CASE h # kInvalidChunkHandle
  <2>1. SetPrev(H, h, prev) = SetChunk(H, h, [H.chunks_[h] EXCEPT !.prev = prev])
    BY <1>1 DEF SetPrev
  <2> QED BY <2>1, SetChunkAt
<1>2. CASE h = kInvalidChunkHandle
  BY <1>2 DEF SetPrev
<1> QED BY <1>1, <1>2

\* SplitChunk keeps the pool sound: the front part keeps the handle, the
\* remainder is a binned chunk of its own, and chunks in use are untouched.
LEMMA SplitSound ==
  ASSUME NEW H, Sound(H), NEW L \in SUBSET Live(H), Binned(H, L), NEW h \in L,
         ~in_use(H.chunks_[h]), NEW size \in Nat, size > 0,
         size < H.chunks_[h].size
  PROVE  LET S == SplitChunk(H, h, size)
         IN  /\ Sound(S) /\ Binned(S, L)
             /\ DOMAIN S.handles_ = DOMAIN H.handles_ /\ S.regions_ = H.regions_
             /\ h \in Live(S)
             /\ S.chunks_[h].ptr = H.chunks_[h].ptr
             /\ S.chunks_[h].size = size
             /\ S.chunks_[h].allocation_id = H.chunks_[h].allocation_id
             /\ UsedUnchanged(H, S)
             /\ NoFreePair(H, {}) => NoFreePair(S, {h})
<1> DEFINE new == NewHandle(H)
           A == AllocateChunk(H)
           D == DOMAIN H.chunks_
           c == H.chunks_[h]
           x == c.next
           q == c.ptr + size
           B == set_handle(A, q, new)
           cnew == [B.chunks_[new] EXCEPT !.ptr = q, !.size = c.size - size,
                      !.allocation_id = -1, !.prev = h, !.next = x]
           N == SetChunk(B, new, cnew)
           M == SetChunk(N, h, [c EXCEPT !.size = size, !.next = new])
           K == SetPrev(M, x, new)
           S == SplitChunk(H, h, size)
<1>0. h \in Live(H)
  OBVIOUS
<1>1. /\ h \in D /\ c \in Chunk /\ D \subseteq Nat
      /\ H.chunks_ \in [D -> Chunk]
      /\ c.ptr \in Nat /\ c.size \in Nat /\ x \in Handle
      /\ IsHeap(H) /\ H.fatal = FALSE /\ H.regions_ \subseteq Region
      /\ RegionsDisjoint(H)
      /\ DOMAIN H.handles_ = UNION {Grains(r.ptr, r.memory_size) : r \in H.regions_}
      /\ H.handles_ \in [DOMAIN H.handles_ -> D \union {kInvalidChunkHandle}]
  BY SoundTypes DEF Live, Sound, HeapType, Chunk
<1>2. /\ IsHeap(A)
      /\ A.bins_ = H.bins_ /\ A.regions_ = H.regions_
      /\ A.handles_ = H.handles_ /\ A.fatal = FALSE
      /\ new \in Nat /\ new \notin Live(H)
      /\ DOMAIN A.chunks_ = D \union {new}
      /\ IsFiniteSet(DOMAIN A.chunks_)
      /\ DOMAIN A.chunks_ = 0 .. Cardinality(DOMAIN A.chunks_) - 1
      /\ A.chunks_ \in [DOMAIN A.chunks_ -> Chunk]
      /\ \A g \in D : A.chunks_[g] = H.chunks_[g]
      /\ A.chunks_[new].bin_num = kInvalidBinNum
      /\ A.free_chunks_list_ \in (Dead(H) \ {new}) \union {kInvalidChunkHandle}
      /\ \A d \in Dead(H) \ {new} :
           /\ H.chunks_[d].next \in (Dead(H) \ {new}) \union {kInvalidChunkHandle}
           /\ H.chunks_[d].next # kInvalidChunkHandle =>
                H.chunks_[d].next # A.free_chunks_list_
  BY <1>1, AllocateChunkEffect
<1> HIDE DEF A, new
<1>3. /\ q \in Nat /\ q # c.ptr /\ q \in Extent(c)
      /\ q \in DOMAIN H.handles_ /\ H.handles_[q] = kInvalidChunkHandle
  <2>1. q \in Nat /\ q # c.ptr /\ q \in Extent(c)
    BY <1>1 DEF Extent, Grains
  <2> QED BY <2>1 DEF Sound, ChunksSized
<1>4. c.bin_num = kInvalidBinNum
  BY <1>1 DEF Binned
<1>5. /\ IsHeap(B)
      /\ B.handles_ = [H.handles_ EXCEPT ![q] = new]
      /\ B.chunks_ = A.chunks_ /\ B.bins_ = H.bins_ /\ B.regions_ = H.regions_
      /\ B.free_chunks_list_ = A.free_chunks_list_ /\ B.fatal = FALSE
  <2>1. RegionsDisjoint(A)
    BY <1>1, <1>2 DEF RegionsDisjoint
  <2> QED BY <1>1, <1>2, <1>3, <2>1, SetHandleEffect
<1>6. S = InsertFreeChunkIntoBin(K, new)
  <2>1. A.chunks_[h] = c
    BY <1>1, <1>2
  <2>2. ITEX_CHECK(A, ~in_use(c) /\ c.bin_num = kInvalidBinNum) = A
    BY <1>2, <1>4, CheckPasses
  <2> QED BY <1>5, <2>1, <2>2 DEF SplitChunk, A, new, B
<1> HIDE DEF B, S, cnew
<1>8. new # h /\ h # kInvalidChunkHandle /\ new # kInvalidChunkHandle
  BY <1>1, <1>2 DEF kInvalidChunkHandle
<1>9. x # kInvalidChunkHandle =>
        /\ x \in Live(H) /\ x \in D /\ x # new /\ x # h
        /\ H.chunks_[x].prev = h
        /\ H.chunks_[x].ptr = c.ptr + c.size
  <2>1. x # kInvalidChunkHandle =>
          /\ x \in Live(H)
          /\ H.chunks_[x].prev = h
          /\ H.chunks_[x].ptr = c.ptr + c.size
    BY DEF Sound, ChunksLinked
  <2>2. c.size > 0 /\ c.ptr \in Nat /\ c.size \in Nat
    BY <1>1
  <2>3. x # kInvalidChunkHandle => x # h
    <3> SUFFICES ASSUME x # kInvalidChunkHandle, x = h PROVE FALSE
      OBVIOUS
    <3>1. c.ptr = c.ptr + c.size
      BY <2>1
    <3> QED BY <2>2, <3>1
  <2>4. Live(H) \subseteq D /\ new \notin Live(H)
    BY <1>2 DEF Live
  <2> QED BY <2>1, <2>3, <2>4
<1>7. /\ IsHeap(N)
      /\ DOMAIN N.chunks_ = D \union {new}
      /\ \A g \in D \ {new} : N.chunks_[g] = H.chunks_[g]
      /\ N.chunks_[new] = cnew
      /\ N.bins_ = H.bins_ /\ N.regions_ = H.regions_
      /\ N.handles_ = [H.handles_ EXCEPT ![q] = new]
      /\ N.free_chunks_list_ = A.free_chunks_list_ /\ N.fatal = FALSE
  <2>1. /\ DOMAIN B.chunks_ = D \union {new}
        /\ \A g \in D : B.chunks_[g] = H.chunks_[g]
    BY <1>2, <1>5
  <2>2. /\ IsHeap(N)
        /\ DOMAIN N.chunks_ = DOMAIN B.chunks_
        /\ \A g \in DOMAIN B.chunks_ \ {new} : N.chunks_[g] = B.chunks_[g]
        /\ new \in DOMAIN B.chunks_ => N.chunks_[new] = cnew
        /\ N.chunks_ = [g \in DOMAIN N.chunks_ |-> N.chunks_[g]]
        /\ N.bins_ = B.bins_ /\ N.regions_ = B.regions_ /\ N.handles_ = B.handles_
        /\ N.free_chunks_list_ = B.free_chunks_list_ /\ N.fatal = B.fatal
    BY <1>5, SetChunkAt
  <2> HIDE DEF N
  <2> QED BY <1>5, <2>1, <2>2
<1> HIDE DEF N
<1>71. /\ IsHeap(M)
       /\ DOMAIN M.chunks_ = D \union {new}
       /\ \A g \in D \ {new, h} : M.chunks_[g] = H.chunks_[g]
       /\ M.chunks_[new] = cnew
       /\ M.chunks_[h] = [c EXCEPT !.size = size, !.next = new]
       /\ M.chunks_ = [g \in DOMAIN M.chunks_ |-> M.chunks_[g]]
       /\ M.bins_ = H.bins_ /\ M.regions_ = H.regions_
       /\ M.handles_ = [H.handles_ EXCEPT ![q] = new]
       /\ M.free_chunks_list_ = A.free_chunks_list_ /\ M.fatal = FALSE
  <2>2. /\ IsHeap(M)
        /\ DOMAIN M.chunks_ = DOMAIN N.chunks_
        /\ \A g \in DOMAIN N.chunks_ \ {h} : M.chunks_[g] = N.chunks_[g]
        /\ h \in DOMAIN N.chunks_ => M.chunks_[h] = [c EXCEPT !.size = size, !.next = new]
        /\ M.chunks_ = [g \in DOMAIN M.chunks_ |-> M.chunks_[g]]
        /\ M.bins_ = N.bins_ /\ M.regions_ = N.regions_ /\ M.handles_ = N.handles_
        /\ M.free_chunks_list_ = N.free_chunks_list_ /\ M.fatal = N.fatal
    BY <1>7, SetChunkAt
  <2> HIDE DEF M
  <2> QED BY <1>1, <1>7, <1>8, <2>2
<1> HIDE DEF M
<1>10. /\ IsHeap(K)
       /\ DOMAIN K.chunks_ = D \union {new}
       /\ \A g \in (D \union {new}) \ {x} : K.chunks_[g] = M.chunks_[g]
       /\ x # kInvalidChunkHandle /\ x \in D =>
            K.chunks_[x] = [M.chunks_[x] EXCEPT !.prev = new]
       /\ K.chunks_ = [g \in DOMAIN K.chunks_ |-> K.chunks_[g]]
       /\ K.handles_ = [H.handles_ EXCEPT ![q] = new]
       /\ K.bins_ = H.bins_ /\ K.regions_ = H.regions_
       /\ K.free_chunks_list_ = A.free_chunks_list_ /\ K.fatal = FALSE
  <2>1. IsHeap(M) /\ M.chunks_ = [g \in DOMAIN M.chunks_ |-> M.chunks_[g]]
    BY <1>71
  <2>2. /\ IsHeap(K)
        /\ DOMAIN K.chunks_ = DOMAIN M.chunks_
        /\ \A g \in DOMAIN M.chunks_ \ {x} : K.chunks_[g] = M.chunks_[g]
        /\ x # kInvalidChunkHandle /\ x \in DOMAIN M.chunks_ =>
             K.chunks_[x] = [M.chunks_[x] EXCEPT !.prev = new]
        /\ K.chunks_ = [g \in DOMAIN K.chunks_ |-> K.chunks_[g]]
        /\ K.bins_ = M.bins_ /\ K.regions_ = M.regions_ /\ K.handles_ = M.handles_
        /\ K.free_chunks_list_ = M.free_chunks_list_ /\ K.fatal = M.fatal
    BY <2>1, SetPrevEffect, SMTT(60)
  <2> HIDE DEF K
  <2> QED BY <1>71, <2>2
<1> HIDE DEF K
<1>11. /\ K.chunks_[new] \in Chunk
       /\ K.chunks_[new].ptr = q /\ K.chunks_[new].size = c.size - size
       /\ K.chunks_[new].allocation_id = -1
       /\ K.chunks_[new].prev = h /\ K.chunks_[new].next = x
       /\ K.chunks_[new].bin_num = kInvalidBinNum
  <2>1. K.chunks_[new] = cnew
    BY <1>71, <1>8, <1>9, <1>10
  <2>2. A.chunks_[new] \in Chunk
    BY <1>2
  <2>3. c.size - size \in Nat /\ h \in Handle
    BY <1>1 DEF Handle
  <2>4. cnew = [A.chunks_[new] EXCEPT !.ptr = q, !.size = c.size - size,
                  !.allocation_id = -1, !.prev = h, !.next = x]
    BY <1>5 DEF cnew
  <2> DEFINE rest == c.size - size
             a == A.chunks_[new]
  <2>5. /\ q \in Nat /\ x \in Handle /\ rest \in Nat /\ h \in Handle
        /\ a \in Chunk /\ a.bin_num = kInvalidBinNum
        /\ cnew = [a EXCEPT !.ptr = q, !.size = rest, !.allocation_id = -1,
                            !.prev = h, !.next = x]
    BY <1>1, <1>2, <1>3, <2>2, <2>3, <2>4
  <2> HIDE DEF cnew, q, x, c, rest, a
  <2>6. /\ cnew \in Chunk
        /\ cnew.ptr = q /\ cnew.size = rest /\ cnew.allocation_id = -1
        /\ cnew.prev = h /\ cnew.next = x /\ cnew.bin_num = kInvalidBinNum
    BY <2>5 DEF Chunk
  <2> QED BY <2>1, <2>6 DEF rest
<1>12. /\ K.chunks_[h] \in Chunk
       /\ K.chunks_[h].ptr = c.ptr /\ K.chunks_[h].size = size
       /\ K.chunks_[h].allocation_id = c.allocation_id
       /\ K.chunks_[h].prev = c.prev /\ K.chunks_[h].next = new
       /\ K.chunks_[h].bin_num = c.bin_num
  <2>1. K.chunks_[h] = [c EXCEPT !.size = size, !.next = new]
    BY <1>1, <1>8, <1>9, <1>10, <1>71
  <2>2. new \in Handle
    BY <1>2 DEF Handle
  <2> QED BY <1>1, <2>1, <2>2 DEF Chunk
<1>13. x # kInvalidChunkHandle =>
       /\ K.chunks_[x] \in Chunk
       /\ K.chunks_[x].ptr = H.chunks_[x].ptr /\ K.chunks_[x].size = H.chunks_[x].size
       /\ K.chunks_[x].requested_size = H.chunks_[x].requested_size
       /\ K.chunks_[x].allocation_id = H.chunks_[x].allocation_id
       /\ K.chunks_[x].prev = new /\ K.chunks_[x].next = H.chunks_[x].next
       /\ K.chunks_[x].bin_num = H.chunks_[x].bin_num
  <2> HAVE x # kInvalidChunkHandle
  <2>1. K.chunks_[x] = [H.chunks_[x] EXCEPT !.prev = new]
    <3>1. M.chunks_[x] = H.chunks_[x]
      BY <1>71, <1>9
    <3> QED BY <1>9, <1>10, <3>1
  <2>2. new \in Handle /\ H.chunks_[x] \in Chunk
    BY <1>1, <1>2, <1>9 DEF Handle
  <2> QED BY <2>1, <2>2 DEF Chunk
<1>14. \A g \in D \ {new, h, x} : K.chunks_[g] = H.chunks_[g]
  BY <1>71, <1>10
<1>15. /\ DOMAIN K.handles_ = DOMAIN H.handles_
       /\ K.handles_[q] = new
       /\ \A p \in DOMAIN H.handles_ : p # q => K.handles_[p] = H.handles_[p]
  BY <1>1, <1>3, <1>10
<1> HIDE DEF c, x, q, D
<1>16. Live(K) = Live(H) \union {new}
  <2>1. new \in Live(K)
    BY <1>3, <1>10, <1>11, <1>15 DEF Live
  <2>2. ASSUME NEW g \in Live(H) PROVE g \in Live(K)
    <3>1. g \in D /\ H.chunks_[g].ptr \in DOMAIN H.handles_
          /\ H.handles_[H.chunks_[g].ptr] = g /\ g # new
      BY <1>2 DEF Live, D
    <3>2. K.chunks_[g].ptr = H.chunks_[g].ptr
      <4>1. CASE g = h BY <1>12, <4>1 DEF c
      <4>2. CASE g = x /\ g # h BY <1>1, <1>13, <3>1, <4>2 DEF kInvalidChunkHandle
      <4>3. CASE g # x /\ g # h BY <1>14, <3>1, <4>3
      <4> QED BY <4>1, <4>2, <4>3
    <3>3. H.chunks_[g].ptr # q
      BY <1>1, <1>3, <3>1 DEF kInvalidChunkHandle
    <3> QED BY <1>10, <1>15, <3>1, <3>2, <3>3 DEF Live
  <2>3. ASSUME NEW g \in Live(K), g # new PROVE g \in Live(H)
    <3>1. g \in D /\ K.chunks_[g].ptr \in DOMAIN H.handles_
          /\ K.handles_[K.chunks_[g].ptr] = g
      BY <1>10, <1>15, <2>3 DEF Live
    <3>2. K.chunks_[g].ptr = H.chunks_[g].ptr
      <4>1. CASE g = h BY <1>12, <4>1 DEF c
      <4>2. CASE g = x /\ g # h BY <1>1, <1>13, <3>1, <4>2 DEF kInvalidChunkHandle
      <4>3. CASE g # x /\ g # h BY <1>14, <2>3, <3>1, <4>3
      <4> QED BY <4>1, <4>2, <4>3
    <3>3. K.chunks_[g].ptr # q
      BY <1>15, <2>3, <3>1
    <3> QED BY <1>15, <3>1, <3>2, <3>3 DEF Live, D
  <2> QED BY <2>1, <2>2, <2>3
<1>17. \A g \in D \ {new, h} :
         /\ K.chunks_[g] \in Chunk
         /\ K.chunks_[g].ptr = H.chunks_[g].ptr
         /\ K.chunks_[g].size = H.chunks_[g].size
         /\ K.chunks_[g].requested_size = H.chunks_[g].requested_size
         /\ K.chunks_[g].allocation_id = H.chunks_[g].allocation_id
         /\ K.chunks_[g].next = H.chunks_[g].next
         /\ K.chunks_[g].bin_num = H.chunks_[g].bin_num
         /\ g # x => K.chunks_[g].prev = H.chunks_[g].prev
         /\ g = x => K.chunks_[g].prev = new
  <2> TAKE g \in D \ {new, h}
  <2>1. CASE g = x
    BY <1>1, <1>13, <2>1 DEF kInvalidChunkHandle
  <2>2. CASE g # x
    BY <1>1, <1>14, <2>2
  <2> QED BY <2>1, <2>2
<1>18. HeapType(K)
  <2>1. K.chunks_ \in [DOMAIN K.chunks_ -> Chunk]
    <3>1. \A g \in DOMAIN K.chunks_ : K.chunks_[g] \in Chunk
      BY <1>10, <1>11, <1>12, <1>17
    <3> QED BY <1>10, <3>1
  <2>2. K.free_chunks_list_ \in Handle
    BY <1>1, <1>2, <1>10 DEF Dead, Handle, D
  <2>3. K.bins_ \in [Bins -> SUBSET DOMAIN K.chunks_]
    BY <1>10 DEF Sound, HeapType, D
  <2>4. K.handles_ \in [DOMAIN K.handles_ -> DOMAIN K.chunks_ \union {kInvalidChunkHandle}]
    BY <1>1, <1>3, <1>10
  <2> QED BY <1>1, <1>2, <1>10, <1>15, <2>1, <2>2, <2>3, <2>4 DEF HeapType
<1>19. \A g \in Live(H) : g \in D /\ g # new
  BY <1>2 DEF Live, D
<1>20. SlotsPoint(K)
  <2> SUFFICES ASSUME NEW p \in DOMAIN K.handles_,
                      K.handles_[p] # kInvalidChunkHandle
               PROVE  K.chunks_[K.handles_[p]].ptr = p
    BY DEF SlotsPoint
  <2>1. CASE p = q
    BY <1>11, <1>15, <2>1
  <2>2. CASE p # q
    <3>1. /\ K.handles_[p] = H.handles_[p] /\ p \in DOMAIN H.handles_
          /\ H.handles_[p] \in D
      BY <1>1, <1>15, <2>2
    <3>2. H.chunks_[H.handles_[p]].ptr = p
      BY <3>1 DEF Sound, SlotsPoint
    <3>3. H.handles_[p] \in Live(H)
      BY <3>1, <3>2 DEF Live, D
    <3> QED BY <1>12, <1>17, <1>19, <3>1, <3>2, <3>3 DEF c
  <2> QED BY <2>1, <2>2
<1>21. ChunksSized(K)
  <2> SUFFICES ASSUME NEW g \in Live(K)
               PROVE  /\ K.chunks_[g].size > 0
                      /\ \A p \in Extent(K.chunks_[g]) :
                           /\ p \in DOMAIN K.handles_
                           /\ p # K.chunks_[g].ptr => K.handles_[p] = kInvalidChunkHandle
    BY DEF ChunksSized
  <2>0. \A p \in Extent(c) : /\ p \in DOMAIN H.handles_
                             /\ p # c.ptr => H.handles_[p] = kInvalidChunkHandle
    BY DEF Sound, ChunksSized, c
  <2>1. CASE g = new
    <3>1. c.size - size > 0
      BY <1>1 DEF c
    <3>2. \A p \in Extent(K.chunks_[new]) : p \in Extent(c) /\ p # c.ptr
      BY <1>1, <1>11 DEF Extent, Grains, q
    <3> QED BY <1>11, <1>15, <2>0, <2>1, <3>1, <3>2
  <2>2. CASE g = h
    <3>1. \A p \in Extent(K.chunks_[h]) : p \in Extent(c) /\ p # q
      BY <1>1, <1>12 DEF Extent, Grains, q, c
    <3> QED BY <1>12, <1>15, <2>0, <2>2, <3>1
  <2>3. CASE g # new /\ g # h
    <3>1. g \in Live(H) /\ g \in D \ {new, h}
      BY <1>16, <1>19, <2>3
    <3>2. K.chunks_[g].ptr = H.chunks_[g].ptr /\ K.chunks_[g].size = H.chunks_[g].size
      BY <1>17, <3>1
    <3>3. Extent(K.chunks_[g]) = Extent(H.chunks_[g])
      BY <3>2 DEF Extent
    <3>4. q \notin Extent(H.chunks_[g])
      BY <1>3, <2>3, <3>1, LiveDisjoint DEF c
    <3>5. /\ H.chunks_[g].size > 0
          /\ \A p \in Extent(H.chunks_[g]) :
               /\ p \in DOMAIN H.handles_
               /\ p # H.chunks_[g].ptr => H.handles_[p] = kInvalidChunkHandle
      BY <3>1 DEF Sound, ChunksSized
    <3> QED BY <1>15, <3>2, <3>3, <3>4, <3>5
  <2> QED BY <2>1, <2>2, <2>3
<1>22. ChunksLinked(K)
  <2> SUFFICES ASSUME NEW g \in Live(K)
               PROVE  /\ K.chunks_[g].next # kInvalidChunkHandle =>
                           /\ K.chunks_[g].next \in Live(K)
                           /\ K.chunks_[K.chunks_[g].next].prev = g
                           /\ K.chunks_[K.chunks_[g].next].ptr
                                = K.chunks_[g].ptr + K.chunks_[g].size
                      /\ K.chunks_[g].prev # kInvalidChunkHandle =>
                           /\ K.chunks_[g].prev \in Live(K)
                           /\ K.chunks_[K.chunks_[g].prev].next = g
                      /\ K.chunks_[g].prev = kInvalidChunkHandle =>
                           \E r \in K.regions_ : r.ptr = K.chunks_[g].ptr
    BY DEF ChunksLinked
  <2>0. \A k \in Live(H) :
          /\ H.chunks_[k].next # kInvalidChunkHandle =>
               /\ H.chunks_[k].next \in Live(H)
               /\ H.chunks_[H.chunks_[k].next].prev = k
               /\ H.chunks_[H.chunks_[k].next].ptr = H.chunks_[k].ptr + H.chunks_[k].size
          /\ H.chunks_[k].prev # kInvalidChunkHandle =>
               /\ H.chunks_[k].prev \in Live(H)
               /\ H.chunks_[H.chunks_[k].prev].next = k
          /\ H.chunks_[k].prev = kInvalidChunkHandle =>
               \E r \in H.regions_ : r.ptr = H.chunks_[k].ptr
    BY DEF Sound, ChunksLinked
  <2>1. CASE g = new
    <3>1. x # kInvalidChunkHandle =>
            /\ x \in Live(K) /\ K.chunks_[x].prev = new
            /\ K.chunks_[x].ptr = q + (c.size - size)
      BY <1>1, <1>9, <1>13, <1>16 DEF q
    <3> QED BY <1>8, <1>11, <1>12, <1>16, <2>1, <3>1
  <2>2. CASE g = h
    <3>1. c.prev # kInvalidChunkHandle =>
            /\ c.prev \in Live(H) /\ H.chunks_[c.prev].next = h
      BY <2>0 DEF c
    <3>2. c.prev # kInvalidChunkHandle => c.prev # h
      <4>1. x = h => FALSE
        BY <1>8, <1>9
      <4> QED BY <3>1, <4>1 DEF x, c
    <3>3. c.prev # kInvalidChunkHandle => K.chunks_[c.prev].next = h
      BY <1>17, <1>19, <3>1, <3>2
    <3>4. c.prev = kInvalidChunkHandle => \E r \in H.regions_ : r.ptr = c.ptr
      BY <2>0 DEF c
    <3> QED BY <1>10, <1>11, <1>12, <1>16, <2>2, <3>1, <3>3, <3>4 DEF q
  <2>3. CASE g # new /\ g # h
    <3>1. g \in Live(H) /\ g \in D \ {new, h}
      BY <1>16, <1>19, <2>3
    <3> DEFINE z == H.chunks_[g].next
               y == H.chunks_[g].prev
    <3>2. z # kInvalidChunkHandle =>
            /\ z \in Live(K)
            /\ K.chunks_[z].prev = g
            /\ K.chunks_[z].ptr = H.chunks_[g].ptr + H.chunks_[g].size
      <4> HAVE z # kInvalidChunkHandle
      <4>1. /\ z \in Live(H) /\ H.chunks_[z].prev = g
            /\ H.chunks_[z].ptr = H.chunks_[g].ptr + H.chunks_[g].size
        BY <2>0, <3>1
      <4>2. z # x
        BY <1>9, <2>3, <4>1
      <4>3. CASE z = h
        BY <1>12, <1>16, <4>1, <4>3 DEF c
      <4>4. CASE z # h
        BY <1>16, <1>17, <1>19, <4>1, <4>2, <4>4
      <4> QED BY <4>3, <4>4
    <3>3. CASE g = x
      BY <1>10, <1>11, <1>16, <1>17, <1>8, <3>1, <3>2, <3>3
    <3>4. CASE g # x
      <4>1. y # kInvalidChunkHandle => /\ y \in Live(K) /\ K.chunks_[y].next = g
        <5> HAVE y # kInvalidChunkHandle
        <5>1. y \in Live(H) /\ H.chunks_[y].next = g
          BY <2>0, <3>1
        <5>2. y # h
          BY <3>4, <5>1 DEF x, c
        <5> QED BY <1>16, <1>17, <1>19, <5>1, <5>2
      <4>2. y = kInvalidChunkHandle => \E r \in H.regions_ : r.ptr = H.chunks_[g].ptr
        BY <2>0, <3>1
      <4>3. /\ K.chunks_[g].ptr = H.chunks_[g].ptr
            /\ K.chunks_[g].size = H.chunks_[g].size
            /\ K.chunks_[g].next = z /\ K.chunks_[g].prev = y
        BY <1>17, <3>1, <3>4
      <4> HIDE DEF y, z
      <4> QED BY <1>10, <3>2, <4>1, <4>2, <4>3
    <3> QED BY <3>3, <3>4
  <2> QED BY <2>1, <2>2, <2>3
<1>23. ChunksCover(K)
  <2> SUFFICES ASSUME NEW p \in DOMAIN K.handles_
               PROVE  \E g \in Live(K) : p \in Extent(K.chunks_[g])
    BY DEF ChunksCover
  <2>1. PICK g \in Live(H) : p \in Extent(H.chunks_[g])
    BY <1>15 DEF Sound, ChunksCover
  <2>2. CASE g = h
    <3>1. p \in Extent(K.chunks_[h]) \/ p \in Extent(K.chunks_[new])
      BY <1>1, <1>11, <1>12, <2>1, <2>2 DEF Extent, Grains, q, c
    <3> QED BY <1>16, <3>1
  <2>3. CASE g # h
    <3>1. Extent(K.chunks_[g]) = Extent(H.chunks_[g])
      BY <1>17, <1>19, <2>3 DEF Extent
    <3> QED BY <1>16, <2>1, <3>1
  <2> QED BY <2>2, <2>3
<1>24. RegionsDisjoint(K)
  BY <1>1, <1>10 DEF RegionsDisjoint
<1>25. FreeListLinked(K)
  <2>1. Dead(K) = Dead(H) \ {new}
    BY <1>10, <1>16 DEF Dead, D
  <2>2. \A d \in Dead(K) : K.chunks_[d].next = H.chunks_[d].next
    BY <1>17, <2>1 DEF Dead, D
  <2>3. \A d, e \in Dead(H) :
          H.chunks_[d].next = H.chunks_[e].next /\ d # e =>
            H.chunks_[d].next = kInvalidChunkHandle
    BY DEF Sound, FreeListLinked
  <2> QED BY <1>2, <1>10, <2>1, <2>2, <2>3 DEF FreeListLinked
<1>25a. FreeListReaches(K)
  <2>1. Dead(K) = Dead(H) \ {new}
    BY <1>10, <1>16 DEF Dead, D
  <2>2. \A d \in Dead(K) : K.chunks_[d].next = H.chunks_[d].next
    BY <1>17, <2>1 DEF Dead, D
  <2>3. K.free_chunks_list_ = AllocateChunk(H).free_chunks_list_
    BY <1>10 DEF A
  <2> QED BY <2>1, <2>2, <2>3, ListPop DEF new
<1>26. Sound(K)
  BY <1>25a, <1>10, <1>18, <1>20, <1>21, <1>22, <1>23, <1>24, <1>25 DEF Sound
<1>27. Binned(K, L \union {new})
  <2>1. \A b \in Bins, g \in DOMAIN K.chunks_ :
          g \in K.bins_[b] <=> K.chunks_[g].bin_num = b
    <3> TAKE b \in Bins, g \in DOMAIN K.chunks_
    <3>0. b # kInvalidBinNum
      BY DEF Bins, kInvalidBinNum
    <3>01. H.bins_[b] \subseteq D
      BY DEF Sound, HeapType, D
    <3>1. \A k \in D : k \in H.bins_[b] <=> H.chunks_[k].bin_num = b
      BY DEF Binned, D
    <3>2. CASE g = new
      <4>1. new \notin H.bins_[b]
        BY <1>2, <3>0, <3>01, <3>1 DEF Binned, D
      <4> QED BY <1>10, <1>11, <3>0, <3>2, <4>1
    <3>3. CASE g = h
      BY <1>1, <1>10, <1>12, <3>1, <3>3 DEF c
    <3>4. CASE g # new /\ g # h
      BY <1>10, <1>17, <3>1, <3>4
    <3> QED BY <3>2, <3>3, <3>4
  <2>2. \A g \in DOMAIN K.chunks_ :
          K.chunks_[g].bin_num # kInvalidBinNum =>
            /\ g \in Live(K) \ (L \union {new})
            /\ ~in_use(K.chunks_[g])
            /\ K.chunks_[g].bin_num = BinNumForSize(K.chunks_[g].size)
    <3> TAKE g \in DOMAIN K.chunks_
    <3> HAVE K.chunks_[g].bin_num # kInvalidBinNum
    <3>1. g # new /\ g # h /\ g \in D \ {new, h}
      BY <1>4, <1>10, <1>11, <1>12
    <3>2. /\ g \in Live(H) \ L /\ ~in_use(H.chunks_[g])
          /\ H.chunks_[g].bin_num = BinNumForSize(H.chunks_[g].size)
      BY <1>17, <3>1 DEF Binned, D
    <3> QED BY <1>16, <1>17, <3>1, <3>2 DEF in_use
  <2>3. \A g \in Live(K) :
          ~in_use(K.chunks_[g]) /\ g \notin L \union {new} =>
            K.chunks_[g].bin_num # kInvalidBinNum
    <3> TAKE g \in Live(K)
    <3> HAVE ~in_use(K.chunks_[g]) /\ g \notin L \union {new}
    <3>1. g \in Live(H) /\ g # h /\ g # new /\ g \in D \ {new, h}
      BY <1>16, <1>19
    <3> QED BY <1>17, <3>1 DEF Binned, in_use
  <2> QED BY <2>1, <2>2, <2>3 DEF Binned
<1>28. new \in Live(K) /\ ~in_use(K.chunks_[new])
  BY <1>11, <1>16 DEF in_use
<1>29. Sound(S) /\ Binned(S, L) /\ SameButBins(K, S)
  <2>1. (L \union {new}) \ {new} = L
    BY <1>2
  <2> QED BY <1>6, <1>26, <1>27, <1>28, <2>1, InsertSound
<1>30. /\ DOMAIN S.handles_ = DOMAIN H.handles_ /\ S.regions_ = H.regions_
       /\ Live(S) = Live(H) \union {new}
       /\ \A g \in D \union {new} :
            /\ S.chunks_[g].ptr = K.chunks_[g].ptr
            /\ S.chunks_[g].size = K.chunks_[g].size
            /\ S.chunks_[g].requested_size = K.chunks_[g].requested_size
            /\ S.chunks_[g].allocation_id = K.chunks_[g].allocation_id
            /\ S.chunks_[g].next = K.chunks_[g].next
  BY <1>10, <1>15, <1>16, <1>29 DEF SameButBins
<1>31. UsedUnchanged(H, S)
  <2>1. \A g \in Live(H) : in_use(S.chunks_[g]) <=> in_use(H.chunks_[g])
    BY <1>12, <1>17, <1>19, <1>30 DEF in_use, c
  <2>2. ~in_use(S.chunks_[new])
    BY <1>11, <1>30 DEF in_use
  <2>3. Used(S) = Used(H)
    BY <1>30, <2>1, <2>2 DEF Used
  <2>4. \A g \in Used(H) : g \in D \ {new, h}
    BY <1>19 DEF Used
  <2> QED BY <1>17, <1>30, <2>3, <2>4 DEF UsedUnchanged
<1>32. ASSUME NoFreePair(H, {}) PROVE NoFreePair(S, {h})
  <2> SUFFICES ASSUME NEW g \in Live(S), S.chunks_[g].next # kInvalidChunkHandle,
                      g # h, S.chunks_[g].next # h
               PROVE  in_use(S.chunks_[g]) \/ in_use(S.chunks_[S.chunks_[g].next])
    BY DEF NoFreePair
  <2>0. \A k \in Live(H) : H.chunks_[k].next # kInvalidChunkHandle =>
          in_use(H.chunks_[k]) \/ in_use(H.chunks_[H.chunks_[k].next])
    BY <1>32 DEF NoFreePair
  <2>1. CASE g = new
    <3>1. S.chunks_[g].next = x /\ x # kInvalidChunkHandle
      BY <1>11, <1>30, <2>1
    <3>2. in_use(H.chunks_[x])
      BY <1>0, <2>0, <3>1 DEF x, c
    <3> QED BY <1>9, <1>17, <1>30, <3>1, <3>2 DEF in_use
  <2>2. CASE g # new
    <3>1. g \in Live(H) /\ g \in D \ {new, h}
      BY <1>19, <1>30, <2>2
    <3>2. S.chunks_[g].next = H.chunks_[g].next
          /\ S.chunks_[g].allocation_id = H.chunks_[g].allocation_id
      BY <1>17, <1>30, <3>1
    <3> DEFINE z == H.chunks_[g].next
    <3>3. z \in Live(H) /\ z # h
      BY <3>1, <3>2 DEF Sound, ChunksLinked
    <3>4. S.chunks_[z].allocation_id = H.chunks_[z].allocation_id
      BY <1>17, <1>19, <1>30, <3>3
    <3> QED BY <2>0, <3>1, <3>2, <3>4 DEF in_use
  <2> QED BY <2>1, <2>2
<1>33. /\ h \in Live(S)
       /\ S.chunks_[h].ptr = c.ptr /\ S.chunks_[h].size = size
       /\ S.chunks_[h].allocation_id = c.allocation_id
  BY <1>0, <1>1, <1>12, <1>30
<1> QED BY <1>29, <1>30, <1>31, <1>32, <1>33 DEF S, c

\* M is H with the free neighbours h1 and h2 merged into h1.
Merged(H, L, h1, h2, M) ==
  /\ Sound(M) /\ Binned(M, L \ {h2})
  /\ DOMAIN M.handles_ = DOMAIN H.handles_ /\ M.regions_ = H.regions_
  /\ Live(M) = Live(H) \ {h2} /\ h1 # h2
  /\ M.chunks_[h1].allocation_id = H.chunks_[h1].allocation_id
  /\ M.chunks_[h1].prev = H.chunks_[h1].prev
  /\ M.chunks_[h1].next = H.chunks_[h2].next
  /\ \A g \in Live(M) \ {h1} :
       /\ M.chunks_[g].next = H.chunks_[g].next
       /\ M.chunks_[g].allocation_id = H.chunks_[g].allocation_id
  /\ UsedUnchanged(H, M)
  /\ NoFreePair(H, {h1, h2}) => NoFreePair(M, {h1})

\* Merge joins two free neighbours and deletes the second handle; the pool stays
\* sound and chunks in use are untouched.
LEMMA MergeSound ==
  ASSUME NEW H, Sound(H), NEW L \in SUBSET Live(H), Binned(H, L),
         NEW h1 \in L, NEW h2 \in L,
         ~in_use(H.chunks_[h1]), ~in_use(H.chunks_[h2]), H.chunks_[h1].next = h2
  PROVE  Merged(H, L, h1, h2, Merge(H, h1, h2))
<1> DEFINE D == DOMAIN H.chunks_
           c1 == H.chunks_[h1]
           c2 == H.chunks_[h2]
           x == c2.next
           sum == c1.size + c2.size
           J == SetChunk(H, h1, [c1 EXCEPT !.next = x, !.size = sum])
           K == SetPrev(J, x, h1)
           B == set_handle(K, c2.ptr, kInvalidChunkHandle)
           dead == [c2 EXCEPT !.allocation_id = -1, !.bin_num = kInvalidBinNum,
                              !.next = H.free_chunks_list_]
           T == SetChunk(B, h2, dead)
           M == Merge(H, h1, h2)
<1>1. /\ h1 \in Live(H) /\ h2 \in Live(H)
      /\ h1 \in D /\ h2 \in D /\ c1 \in Chunk /\ c2 \in Chunk /\ D \subseteq Nat
      /\ H.chunks_ \in [D -> Chunk]
      /\ c1.ptr \in Nat /\ c1.size \in Nat /\ c2.ptr \in Nat /\ c2.size \in Nat
      /\ x \in Handle /\ H.free_chunks_list_ \in Handle
      /\ IsHeap(H) /\ H.fatal = FALSE /\ H.regions_ \subseteq Region
      /\ RegionsDisjoint(H)
      /\ DOMAIN H.handles_ = UNION {Grains(r.ptr, r.memory_size) : r \in H.regions_}
      /\ H.handles_ \in [DOMAIN H.handles_ -> D \union {kInvalidChunkHandle}]
      /\ h1 # kInvalidChunkHandle /\ h2 # kInvalidChunkHandle
  <2>1. /\ h1 \in Live(H) /\ h2 \in Live(H)
        /\ h1 \in D /\ h2 \in D /\ D \subseteq Nat /\ H.chunks_ \in [D -> Chunk]
    BY SoundTypes DEF Live, Sound, HeapType
  <2>2. h1 # kInvalidChunkHandle /\ h2 # kInvalidChunkHandle
    BY <2>1 DEF kInvalidChunkHandle
  <2> QED BY <2>1, <2>2 DEF Sound, HeapType, Chunk
<1>2. \A k \in Live(H) :
        /\ H.chunks_[k].size > 0
        /\ H.chunks_[k].next # kInvalidChunkHandle =>
             /\ H.chunks_[k].next \in Live(H)
             /\ H.chunks_[H.chunks_[k].next].prev = k
             /\ H.chunks_[H.chunks_[k].next].ptr = H.chunks_[k].ptr + H.chunks_[k].size
        /\ H.chunks_[k].prev # kInvalidChunkHandle =>
             /\ H.chunks_[k].prev \in Live(H)
             /\ H.chunks_[H.chunks_[k].prev].next = k
        /\ H.chunks_[k].prev = kInvalidChunkHandle =>
             \E r \in H.regions_ : r.ptr = H.chunks_[k].ptr
  BY DEF Sound, ChunksLinked, ChunksSized
<1>3. /\ c1.size > 0 /\ c2.size > 0
      /\ c2.prev = h1 /\ c2.ptr = c1.ptr + c1.size /\ h1 # h2
  BY <1>1, <1>2
<1>4. x # kInvalidChunkHandle =>
        /\ x \in Live(H) /\ x \in D /\ x # h1 /\ x # h2
        /\ H.chunks_[x].prev = h2
        /\ H.chunks_[x].ptr = c2.ptr + c2.size
  <2>1. x # kInvalidChunkHandle =>
        /\ x \in Live(H) /\ H.chunks_[x].prev = h2
        /\ H.chunks_[x].ptr = c2.ptr + c2.size
    BY <1>1, <1>2
  <2>2. /\ c1.ptr \in Nat /\ c1.size \in Nat /\ c1.size > 0
        /\ c2.ptr \in Nat /\ c2.size \in Nat /\ c2.size > 0
        /\ c2.ptr = c1.ptr + c1.size
    BY <1>1, <1>3
  <2>3. x # kInvalidChunkHandle => x # h2
    <3> SUFFICES ASSUME x # kInvalidChunkHandle, x = h2 PROVE FALSE
      OBVIOUS
    <3>1. c2.ptr = c2.ptr + c2.size
      BY <2>1
    <3> QED BY <2>2, <3>1
  <2>4. x # kInvalidChunkHandle => x # h1
    <3> SUFFICES ASSUME x # kInvalidChunkHandle, x = h1 PROVE FALSE
      OBVIOUS
    <3>1. c1.ptr = c2.ptr + c2.size
      BY <2>1
    <3> QED BY <2>2, <3>1
  <2>5. Live(H) \subseteq D
    BY DEF Live
  <2> QED BY <2>1, <2>3, <2>4, <2>5
<1>5. c1.bin_num = kInvalidBinNum /\ c2.bin_num = kInvalidBinNum
  BY <1>1 DEF Binned
<1>6. /\ c2.ptr \in DOMAIN H.handles_ /\ H.handles_[c2.ptr] = h2
      /\ c1.ptr \in DOMAIN H.handles_ /\ H.handles_[c1.ptr] = h1
  BY <1>1 DEF Live
<1>7. /\ IsHeap(J)
      /\ DOMAIN J.chunks_ = D
      /\ \A g \in D \ {h1} : J.chunks_[g] = H.chunks_[g]
      /\ J.chunks_[h1] = [c1 EXCEPT !.next = x, !.size = sum]
      /\ J.chunks_ = [g \in DOMAIN J.chunks_ |-> J.chunks_[g]]
      /\ J.bins_ = H.bins_ /\ J.regions_ = H.regions_ /\ J.handles_ = H.handles_
      /\ J.free_chunks_list_ = H.free_chunks_list_ /\ J.fatal = FALSE
  BY <1>1, SetChunkAt
<1>8. M = DeleteChunk(K, h2)
  <2>1. ITEX_CHECK(H, ~in_use(c1) /\ ~in_use(c2) /\ c2.prev = h1) = H
    BY <1>1, <1>3, CheckPasses
  <2> QED BY <2>1 DEF Merge
<1> HIDE DEF J
<1>9. /\ IsHeap(K)
      /\ DOMAIN K.chunks_ = D
      /\ \A g \in D \ {x} : K.chunks_[g] = J.chunks_[g]
      /\ x # kInvalidChunkHandle /\ x \in D =>
           K.chunks_[x] = [J.chunks_[x] EXCEPT !.prev = h1]
      /\ K.chunks_ = [g \in DOMAIN K.chunks_ |-> K.chunks_[g]]
      /\ K.bins_ = H.bins_ /\ K.regions_ = H.regions_ /\ K.handles_ = H.handles_
      /\ K.free_chunks_list_ = H.free_chunks_list_ /\ K.fatal = FALSE
  <2>1. IsHeap(J) /\ J.chunks_ = [g \in DOMAIN J.chunks_ |-> J.chunks_[g]]
    BY <1>7
  <2>2. /\ IsHeap(K)
        /\ DOMAIN K.chunks_ = DOMAIN J.chunks_
        /\ \A g \in DOMAIN J.chunks_ \ {x} : K.chunks_[g] = J.chunks_[g]
        /\ x # kInvalidChunkHandle /\ x \in DOMAIN J.chunks_ =>
             K.chunks_[x] = [J.chunks_[x] EXCEPT !.prev = h1]
        /\ K.chunks_ = [g \in DOMAIN K.chunks_ |-> K.chunks_[g]]
        /\ K.bins_ = J.bins_ /\ K.regions_ = J.regions_ /\ K.handles_ = J.handles_
        /\ K.free_chunks_list_ = J.free_chunks_list_ /\ K.fatal = J.fatal
    BY <2>1, SetPrevEffect, SMTT(60)
  <2> HIDE DEF K
  <2> QED BY <1>7, <2>2
<1> HIDE DEF K
<1>10. K.chunks_[h2] = c2
  <2>1. h2 \in D /\ h2 # h1
    BY <1>1, <1>3
  <2>2. h2 # x
    BY <1>1, <1>4
  <2> QED BY <2>1, <2>2, <1>7, <1>9
<1>11. /\ IsHeap(B)
       /\ B.handles_ = [H.handles_ EXCEPT ![c2.ptr] = kInvalidChunkHandle]
       /\ B.chunks_ = K.chunks_ /\ B.bins_ = H.bins_ /\ B.regions_ = H.regions_
       /\ B.free_chunks_list_ = H.free_chunks_list_ /\ B.fatal = FALSE
  <2>1. RegionsDisjoint(K)
    BY <1>1, <1>9 DEF RegionsDisjoint
  <2> QED BY <1>1, <1>6, <1>9, <2>1, SetHandleEffect
<1>12. M = [T EXCEPT !.free_chunks_list_ = h2]
  <2>1. erase(K, K.chunks_[h2].ptr) = B
    BY <1>10 DEF erase
  <2>2. B.chunks_[h2] = c2
    BY <1>10, <1>11
  <2>3. M = DeallocateChunk(B, h2)
    BY <1>8, <2>1 DEF DeleteChunk
  <2> QED BY <1>11, <2>2, <2>3 DEF DeallocateChunk
<1> HIDE DEF B, M
<1>13. /\ IsHeap(T)
       /\ DOMAIN T.chunks_ = D
       /\ \A g \in D \ {h2} : T.chunks_[g] = K.chunks_[g]
       /\ T.chunks_[h2] = dead
       /\ T.chunks_ = [g \in DOMAIN T.chunks_ |-> T.chunks_[g]]
       /\ T.bins_ = H.bins_ /\ T.regions_ = H.regions_
       /\ T.handles_ = [H.handles_ EXCEPT ![c2.ptr] = kInvalidChunkHandle]
       /\ T.fatal = FALSE
  <2>2. /\ IsHeap(T)
        /\ DOMAIN T.chunks_ = DOMAIN B.chunks_
        /\ \A g \in DOMAIN B.chunks_ \ {h2} : T.chunks_[g] = B.chunks_[g]
        /\ h2 \in DOMAIN B.chunks_ => T.chunks_[h2] = dead
        /\ T.chunks_ = [g \in DOMAIN T.chunks_ |-> T.chunks_[g]]
        /\ T.bins_ = B.bins_ /\ T.regions_ = B.regions_ /\ T.handles_ = B.handles_
        /\ T.fatal = B.fatal
    BY <1>11, SetChunkAt
  <2> HIDE DEF T, dead
  <2> QED BY <1>1, <1>9, <1>11, <2>2
<1> HIDE DEF T
<1>14. /\ IsHeap(M)
       /\ M.chunks_ = T.chunks_ /\ M.bins_ = H.bins_ /\ M.regions_ = H.regions_
       /\ M.handles_ = [H.handles_ EXCEPT ![c2.ptr] = kInvalidChunkHandle]
       /\ M.free_chunks_list_ = h2 /\ M.fatal = FALSE
  BY <1>12, <1>13 DEF IsHeap
<1>15. /\ DOMAIN M.chunks_ = D
       /\ M.chunks_ = [g \in DOMAIN M.chunks_ |-> M.chunks_[g]]
       /\ M.chunks_[h2] = dead
       /\ M.chunks_[h1] = [c1 EXCEPT !.next = x, !.size = sum]
       /\ x # kInvalidChunkHandle => M.chunks_[x] = [H.chunks_[x] EXCEPT !.prev = h1]
       /\ \A g \in D \ {h1, h2, x} : M.chunks_[g] = H.chunks_[g]
  <2> HIDE DEF dead, c1, c2, x
  <2>1. DOMAIN M.chunks_ = D /\ M.chunks_[h2] = dead
        /\ M.chunks_ = [g \in DOMAIN M.chunks_ |-> M.chunks_[g]]
    BY <1>13, <1>14
  <2>2. M.chunks_[h1] = J.chunks_[h1]
    BY <1>1, <1>3, <1>4, <1>9, <1>13, <1>14
  <2>3. x # kInvalidChunkHandle => M.chunks_[x] = [H.chunks_[x] EXCEPT !.prev = h1]
    BY <1>4, <1>7, <1>9, <1>13, <1>14
  <2>4. \A g \in D \ {h1, h2, x} : M.chunks_[g] = H.chunks_[g]
    BY <1>7, <1>9, <1>13, <1>14
  <2> QED BY <1>7, <2>1, <2>2, <2>3, <2>4
<1>16. /\ M.chunks_[h2] \in Chunk
       /\ M.chunks_[h2].ptr = c2.ptr /\ M.chunks_[h2].allocation_id = -1
       /\ M.chunks_[h2].bin_num = kInvalidBinNum
       /\ M.chunks_[h2].next = H.free_chunks_list_
  BY <1>1, <1>15 DEF Chunk
<1>17. /\ M.chunks_[h1] \in Chunk
       /\ M.chunks_[h1].ptr = c1.ptr /\ M.chunks_[h1].size = sum
       /\ M.chunks_[h1].allocation_id = c1.allocation_id
       /\ M.chunks_[h1].prev = c1.prev /\ M.chunks_[h1].next = x
       /\ M.chunks_[h1].bin_num = kInvalidBinNum
  <2>1. sum \in Nat
    BY <1>1
  <2> HIDE DEF sum
  <2> QED BY <1>1, <1>5, <1>15, <2>1 DEF Chunk
<1>18. /\ DOMAIN M.handles_ = DOMAIN H.handles_
       /\ M.handles_[c2.ptr] = kInvalidChunkHandle
       /\ \A p \in DOMAIN H.handles_ : p # c2.ptr => M.handles_[p] = H.handles_[p]
       /\ M.handles_ \in [DOMAIN M.handles_ -> D \union {kInvalidChunkHandle}]
  BY <1>1, <1>6, <1>14
<1>19. \A g \in D \ {h1, h2} :
         /\ M.chunks_[g] \in Chunk
         /\ M.chunks_[g].ptr = H.chunks_[g].ptr
         /\ M.chunks_[g].size = H.chunks_[g].size
         /\ M.chunks_[g].requested_size = H.chunks_[g].requested_size
         /\ M.chunks_[g].allocation_id = H.chunks_[g].allocation_id
         /\ M.chunks_[g].next = H.chunks_[g].next
         /\ M.chunks_[g].bin_num = H.chunks_[g].bin_num
         /\ g # x => M.chunks_[g].prev = H.chunks_[g].prev
         /\ g = x => M.chunks_[g].prev = h1
  <2> TAKE g \in D \ {h1, h2}
  <2>0. H.chunks_[g] \in Chunk /\ g # kInvalidChunkHandle /\ h1 \in Handle
    BY <1>1 DEF kInvalidChunkHandle, Handle
  <2>1. CASE g = x
    <3>1. M.chunks_[g] = [H.chunks_[g] EXCEPT !.prev = h1]
      BY <1>15, <2>0, <2>1
    <3> QED BY <2>0, <2>1, <3>1 DEF Chunk
  <2>2. CASE g # x
    BY <1>15, <2>0, <2>2
  <2> QED BY <2>1, <2>2
<1> HIDE DEF c1, c2, x, D, sum, dead
<1>20. Live(M) = Live(H) \ {h2}
  <2>1. h2 \notin Live(M)
    BY <1>1, <1>16, <1>18 DEF Live
  <2>2. ASSUME NEW g \in Live(H) \ {h2} PROVE g \in Live(M)
    <3>1. g \in D /\ H.chunks_[g].ptr \in DOMAIN H.handles_
          /\ H.handles_[H.chunks_[g].ptr] = g
      BY DEF Live, D
    <3>2. M.chunks_[g].ptr = H.chunks_[g].ptr
      BY <1>17, <1>19, <2>2, <3>1 DEF c1
    <3>3. H.chunks_[g].ptr # c2.ptr
      BY <1>6, <2>2, <3>1
    <3> QED BY <1>15, <1>18, <3>1, <3>2, <3>3 DEF Live
  <2>3. ASSUME NEW g \in Live(M) PROVE g \in Live(H)
    <3>1. g \in D /\ M.chunks_[g].ptr \in DOMAIN H.handles_
          /\ M.handles_[M.chunks_[g].ptr] = g /\ g # h2
      BY <1>15, <1>18, <2>1 DEF Live
    <3>2. M.chunks_[g].ptr = H.chunks_[g].ptr
      BY <1>17, <1>19, <3>1 DEF c1
    <3>3. M.chunks_[g].ptr # c2.ptr
      BY <1>1, <1>18, <3>1 DEF kInvalidChunkHandle
    <3> QED BY <1>18, <3>1, <3>2, <3>3 DEF Live, D
  <2> QED BY <2>1, <2>2, <2>3
<1>21. \A g \in Live(H) : g \in D
  BY DEF Live, D
<1>22. HeapType(M)
  <2>1. M.chunks_ \in [DOMAIN M.chunks_ -> Chunk]
    <3>1. \A g \in D : M.chunks_[g] \in Chunk
      BY <1>16, <1>17, <1>19
    <3> QED BY <1>15, <3>1
  <2>2. M.free_chunks_list_ \in Handle
    BY <1>1, <1>14 DEF Handle
  <2>3. M.bins_ \in [Bins -> SUBSET DOMAIN M.chunks_]
    BY <1>14, <1>15 DEF Sound, HeapType, D
  <2>4. IsFiniteSet(D) /\ D = 0 .. Cardinality(D) - 1
    BY DEF Sound, HeapType, D
  <2> QED BY <1>1, <1>14, <1>15, <1>18, <2>1, <2>2, <2>3, <2>4 DEF HeapType
<1>23. SlotsPoint(M)
  <2> SUFFICES ASSUME NEW p \in DOMAIN M.handles_,
                      M.handles_[p] # kInvalidChunkHandle
               PROVE  M.chunks_[M.handles_[p]].ptr = p
    BY DEF SlotsPoint
  <2>1. /\ p # c2.ptr /\ p \in DOMAIN H.handles_
        /\ M.handles_[p] = H.handles_[p] /\ H.handles_[p] \in D
    BY <1>1, <1>18
  <2>2. H.chunks_[H.handles_[p]].ptr = p
    BY <2>1 DEF Sound, SlotsPoint
  <2>3. H.handles_[p] # h2
    BY <2>1, <2>2 DEF c2
  <2> QED BY <1>17, <1>19, <2>1, <2>2, <2>3 DEF c1
<1>24. ChunksSized(M)
  <2> SUFFICES ASSUME NEW g \in Live(M)
               PROVE  /\ M.chunks_[g].size > 0
                      /\ \A p \in Extent(M.chunks_[g]) :
                           /\ p \in DOMAIN M.handles_
                           /\ p # M.chunks_[g].ptr => M.handles_[p] = kInvalidChunkHandle
    BY DEF ChunksSized
  <2>0. \A k \in Live(H) : \A p \in Extent(H.chunks_[k]) :
          /\ p \in DOMAIN H.handles_
          /\ p # H.chunks_[k].ptr => H.handles_[p] = kInvalidChunkHandle
    BY DEF Sound, ChunksSized
  <2>1. CASE g = h1
    <3>1. \A p \in Extent(M.chunks_[h1]) : p \in Extent(c1) \/ p \in Extent(c2)
      BY <1>1, <1>3, <1>17 DEF Extent, Grains, sum
    <3>2. \A p \in Extent(c1) \union Extent(c2) :
            /\ p \in DOMAIN H.handles_
            /\ p # c1.ptr /\ p # c2.ptr => H.handles_[p] = kInvalidChunkHandle
      BY <1>1, <2>0 DEF c1, c2
    <3>3. sum > 0
      BY <1>1, <1>3 DEF sum
    <3> QED BY <1>17, <1>18, <2>1, <3>1, <3>2, <3>3
  <2>2. CASE g # h1
    <3>1. g \in Live(H) /\ g \in D \ {h1, h2}
      BY <1>20, <1>21, <2>2
    <3>2. M.chunks_[g].ptr = H.chunks_[g].ptr /\ M.chunks_[g].size = H.chunks_[g].size
      BY <1>19, <3>1
    <3>3. Extent(M.chunks_[g]) = Extent(H.chunks_[g])
      BY <3>2 DEF Extent
    <3> QED BY <1>2, <1>18, <2>0, <3>1, <3>2, <3>3
  <2> QED BY <2>1, <2>2
<1>25. ChunksLinked(M)
  <2> SUFFICES ASSUME NEW g \in Live(M)
               PROVE  /\ M.chunks_[g].next # kInvalidChunkHandle =>
                           /\ M.chunks_[g].next \in Live(M)
                           /\ M.chunks_[M.chunks_[g].next].prev = g
                           /\ M.chunks_[M.chunks_[g].next].ptr
                                = M.chunks_[g].ptr + M.chunks_[g].size
                      /\ M.chunks_[g].prev # kInvalidChunkHandle =>
                           /\ M.chunks_[g].prev \in Live(M)
                           /\ M.chunks_[M.chunks_[g].prev].next = g
                      /\ M.chunks_[g].prev = kInvalidChunkHandle =>
                           \E r \in M.regions_ : r.ptr = M.chunks_[g].ptr
    BY DEF ChunksLinked
  <2>1. CASE g = h1
    <3>1. x # kInvalidChunkHandle =>
            /\ x \in Live(M) /\ M.chunks_[x].prev = h1
            /\ M.chunks_[x].ptr = c1.ptr + sum
      <4> HAVE x # kInvalidChunkHandle
      <4>1. x \in Live(M) /\ x \in D \ {h1, h2}
        BY <1>4, <1>20
      <4>2. M.chunks_[x].prev = h1 /\ M.chunks_[x].ptr = c2.ptr + c2.size
        BY <1>4, <1>19, <4>1
      <4>3. c2.ptr + c2.size = c1.ptr + sum
        BY <1>1, <1>3 DEF sum
      <4> QED BY <4>1, <4>2, <4>3
    <3>2. c1.prev # kInvalidChunkHandle =>
            /\ c1.prev \in Live(M) /\ M.chunks_[c1.prev].next = h1
      <4> HAVE c1.prev # kInvalidChunkHandle
      <4>1. c1.prev \in Live(H) /\ H.chunks_[c1.prev].next = h1
        BY <1>1, <1>2 DEF c1
      <4>2. c1.prev # h1 /\ c1.prev # h2
        BY <1>1, <1>3, <1>4, <4>1 DEF c1, c2, x
      <4> QED BY <1>19, <1>20, <1>21, <4>1, <4>2
    <3>3. c1.prev = kInvalidChunkHandle => \E r \in H.regions_ : r.ptr = c1.ptr
      BY <1>1, <1>2 DEF c1
    <3> QED BY <1>14, <1>17, <2>1, <3>1, <3>2, <3>3
  <2>2. CASE g # h1
    <3>1. g \in Live(H) /\ g \in D \ {h1, h2}
      BY <1>20, <1>21, <2>2
    <3> DEFINE z == H.chunks_[g].next
               y == H.chunks_[g].prev
    <3>2. z # kInvalidChunkHandle =>
            /\ z \in Live(M)
            /\ M.chunks_[z].prev = g
            /\ M.chunks_[z].ptr = H.chunks_[g].ptr + H.chunks_[g].size
      <4> HAVE z # kInvalidChunkHandle
      <4>1. /\ z \in Live(H) /\ H.chunks_[z].prev = g
            /\ H.chunks_[z].ptr = H.chunks_[g].ptr + H.chunks_[g].size
        BY <1>2, <3>1
      <4>2. z # x /\ z # h2
        BY <1>3, <1>4, <2>2, <3>1, <4>1 DEF c2
      <4>3. CASE z = h1
        BY <1>3, <1>17, <1>20, <4>1, <4>3 DEF c1
      <4>4. CASE z # h1
        BY <1>19, <1>20, <1>21, <4>1, <4>2, <4>4
      <4> QED BY <4>3, <4>4
    <3>3. CASE g = x
      BY <1>1, <1>3, <1>17, <1>19, <1>20, <3>1, <3>2, <3>3
    <3>4. CASE g # x
      <4>1. y # kInvalidChunkHandle => /\ y \in Live(M) /\ M.chunks_[y].next = g
        <5> HAVE y # kInvalidChunkHandle
        <5>1. y \in Live(H) /\ H.chunks_[y].next = g
          BY <1>2, <3>1
        <5>2. y # h1 /\ y # h2
          BY <3>1, <3>4, <5>1 DEF x, c2
        <5> QED BY <1>19, <1>20, <1>21, <5>1, <5>2
      <4>2. y = kInvalidChunkHandle => \E r \in H.regions_ : r.ptr = H.chunks_[g].ptr
        BY <1>2, <3>1
      <4>3. /\ M.chunks_[g].ptr = H.chunks_[g].ptr
            /\ M.chunks_[g].size = H.chunks_[g].size
            /\ M.chunks_[g].next = z /\ M.chunks_[g].prev = y
        BY <1>19, <3>1, <3>4
      <4> HIDE DEF y, z
      <4> QED BY <1>14, <3>2, <4>1, <4>2, <4>3
    <3> QED BY <3>3, <3>4
  <2> QED BY <2>1, <2>2
<1>26. ChunksCover(M)
  <2> SUFFICES ASSUME NEW p \in DOMAIN M.handles_
               PROVE  \E g \in Live(M) : p \in Extent(M.chunks_[g])
    BY DEF ChunksCover
  <2>1. PICK g \in Live(H) : p \in Extent(H.chunks_[g])
    BY <1>18 DEF Sound, ChunksCover
  <2>2. CASE g = h1 \/ g = h2
    <3>1. p \in Extent(M.chunks_[h1])
      BY <1>1, <1>3, <1>17, <2>1, <2>2 DEF Extent, Grains, sum, c1, c2
    <3> QED BY <1>1, <1>3, <1>20, <3>1
  <2>3. CASE g # h1 /\ g # h2
    <3>1. Extent(M.chunks_[g]) = Extent(H.chunks_[g])
      BY <1>19, <1>21, <2>3 DEF Extent
    <3> QED BY <1>20, <2>1, <2>3, <3>1
  <2> QED BY <2>2, <2>3
<1>27. RegionsDisjoint(M)
  BY <1>1, <1>14 DEF RegionsDisjoint
<1>28. FreeListLinked(M)
  <2>1. Dead(M) = Dead(H) \union {h2} /\ h2 \notin Dead(H)
    BY <1>1, <1>15, <1>20 DEF Dead, D
  <2>2. \A d \in Dead(H) : M.chunks_[d].next = H.chunks_[d].next
    BY <1>1, <1>19 DEF Dead, D
  <2>3. /\ H.free_chunks_list_ \in Dead(H) \union {kInvalidChunkHandle}
        /\ \A d \in Dead(H) :
             /\ H.chunks_[d].next \in Dead(H) \union {kInvalidChunkHandle}
             /\ H.chunks_[d].next # kInvalidChunkHandle =>
                  H.chunks_[d].next # H.free_chunks_list_
        /\ \A d, e \in Dead(H) :
             H.chunks_[d].next = H.chunks_[e].next /\ d # e =>
               H.chunks_[d].next = kInvalidChunkHandle
    BY DEF Sound, FreeListLinked
  <2> QED BY <1>1, <1>14, <1>16, <2>1, <2>2, <2>3 DEF FreeListLinked
<1>28a. FreeListReaches(M)
  <2>1. Dead(M) = Dead(H) \union {h2} /\ h2 \notin Dead(H)
    BY <1>1, <1>15, <1>20 DEF Dead, D
  <2>2. \A d \in Dead(H) : M.chunks_[d].next = H.chunks_[d].next
    BY <1>1, <1>19 DEF Dead, D
  <2> QED BY <1>1, <1>14, <1>16, <2>1, <2>2, ListPush
<1>29. Sound(M)
  BY <1>28a, <1>14, <1>22, <1>23, <1>24, <1>25, <1>26, <1>27, <1>28 DEF Sound
<1>30. Binned(M, L \ {h2})
  <2>1. \A b \in Bins, g \in DOMAIN M.chunks_ :
          g \in M.bins_[b] <=> M.chunks_[g].bin_num = b
    <3> TAKE b \in Bins, g \in DOMAIN M.chunks_
    <3>0. b # kInvalidBinNum
      BY DEF Bins, kInvalidBinNum
    <3>1. \A k \in D : k \in H.bins_[b] <=> H.chunks_[k].bin_num = b
      BY DEF Binned, D
    <3>2. g \in D /\ M.bins_[b] = H.bins_[b]
      BY <1>14, <1>15
    <3>3. M.chunks_[g].bin_num = H.chunks_[g].bin_num
      <4>1. CASE g = h1 BY <1>5, <1>17, <4>1 DEF c1
      <4>2. CASE g = h2 BY <1>5, <1>16, <4>2 DEF c2
      <4>3. CASE g # h1 /\ g # h2 BY <1>19, <3>2, <4>3
      <4> QED BY <4>1, <4>2, <4>3
    <3> QED BY <3>1, <3>2, <3>3
  <2>2. \A g \in DOMAIN M.chunks_ :
          M.chunks_[g].bin_num # kInvalidBinNum =>
            /\ g \in Live(M) \ (L \ {h2})
            /\ ~in_use(M.chunks_[g])
            /\ M.chunks_[g].bin_num = BinNumForSize(M.chunks_[g].size)
    <3> TAKE g \in DOMAIN M.chunks_
    <3> HAVE M.chunks_[g].bin_num # kInvalidBinNum
    <3>1. g # h1 /\ g # h2 /\ g \in D \ {h1, h2}
      BY <1>15, <1>16, <1>17
    <3>2. /\ g \in Live(H) \ L /\ ~in_use(H.chunks_[g])
          /\ H.chunks_[g].bin_num = BinNumForSize(H.chunks_[g].size)
      BY <1>19, <3>1 DEF Binned, D
    <3> QED BY <1>19, <1>20, <3>1, <3>2 DEF in_use
  <2>3. \A g \in Live(M) :
          ~in_use(M.chunks_[g]) /\ g \notin L \ {h2} =>
            M.chunks_[g].bin_num # kInvalidBinNum
    <3> TAKE g \in Live(M)
    <3> HAVE ~in_use(M.chunks_[g]) /\ g \notin L \ {h2}
    <3>1. g \in Live(H) /\ g # h1 /\ g # h2 /\ g \in D \ {h1, h2} /\ g \notin L
      BY <1>3, <1>20, <1>21
    <3> QED BY <1>19, <3>1 DEF Binned, in_use
  <2> QED BY <2>1, <2>2, <2>3 DEF Binned
<1>31. \A g \in Live(M) \ {h1} : g \in Live(H) /\ g \in D \ {h1, h2}
  BY <1>20, <1>21
<1>32. UsedUnchanged(H, M)
  <2>1. \A g \in Live(M) : in_use(M.chunks_[g]) <=> in_use(H.chunks_[g])
    BY <1>17, <1>19, <1>31 DEF in_use, c1
  <2>2. Used(M) = Used(H)
    BY <1>20, <2>1 DEF Used
  <2>3. \A g \in Used(H) : g \in D \ {h1, h2}
    BY <1>21 DEF Used
  <2> QED BY <1>19, <2>2, <2>3 DEF UsedUnchanged
<1>33. ASSUME NoFreePair(H, {h1, h2}) PROVE NoFreePair(M, {h1})
  <2> SUFFICES ASSUME NEW g \in Live(M), M.chunks_[g].next # kInvalidChunkHandle,
                      g # h1, M.chunks_[g].next # h1
               PROVE  in_use(M.chunks_[g]) \/ in_use(M.chunks_[M.chunks_[g].next])
    BY DEF NoFreePair
  <2> DEFINE z == H.chunks_[g].next
  <2>1. /\ g \in Live(H) /\ g # h2 /\ M.chunks_[g].next = z
        /\ M.chunks_[g].allocation_id = H.chunks_[g].allocation_id
    BY <1>19, <1>31
  <2>2. z \in Live(H) /\ z # h1 /\ z # h2
    BY <1>2, <1>3, <2>1 DEF c2
  <2>3. in_use(H.chunks_[g]) \/ in_use(H.chunks_[z])
    BY <1>33, <2>1, <2>2 DEF NoFreePair
  <2>4. M.chunks_[z].allocation_id = H.chunks_[z].allocation_id
    BY <1>19, <1>21, <2>2
  <2> QED BY <2>1, <2>3, <2>4 DEF in_use
<1> QED BY <1>3, <1>14, <1>17, <1>18, <1>19, <1>20, <1>29, <1>30, <1>31, <1>32, <1>33
        DEF Merged, M, c1, c2, x

\* The heap between two public calls.
Pool(H) == Sound(H) /\ Binned(H, {}) /\ NoFreePair(H, {})

\* Handing a chunk out, or taking it back, leaves the layout as it was.
LEMMA MarkSound ==
  ASSUME NEW H, Sound(H), NEW L, Binned(H, L), NEW h \in Live(H),
         H.chunks_[h].bin_num = kInvalidBinNum,
         NEW c \in Chunk, c.ptr = H.chunks_[h].ptr, c.size = H.chunks_[h].size,
         c.prev = H.chunks_[h].prev, c.next = H.chunks_[h].next,
         c.bin_num = kInvalidBinNum
  PROVE  LET I == SetChunk(H, h, c)
         IN  /\ Sound(I) /\ Live(I) = Live(H)
             /\ in_use(c) => Binned(I, L \ {h})
             /\ ~in_use(c) => Binned(I, L \union {h})
<1> DEFINE I == SetChunk(H, h, c)
           D == DOMAIN H.chunks_
<1>1. h \in D /\ \A g \in Live(H) : g \in D
  BY DEF Live
<1>2. /\ IsHeap(I)
      /\ DOMAIN I.chunks_ = D
      /\ \A g \in D \ {h} : I.chunks_[g] = H.chunks_[g]
      /\ I.chunks_[h] = c
      /\ I.chunks_ = [g \in DOMAIN I.chunks_ |-> I.chunks_[g]]
      /\ I.bins_ = H.bins_ /\ I.regions_ = H.regions_ /\ I.handles_ = H.handles_
      /\ I.free_chunks_list_ = H.free_chunks_list_ /\ I.fatal = FALSE
  BY <1>1, SetChunkAt DEF Sound
<1> HIDE DEF I, D
<1>3. HeapType(I)
  <2>1. H.chunks_ \in [D -> Chunk]
    BY DEF Sound, HeapType, D
  <2>2. \A g \in D : I.chunks_[g] \in Chunk
    BY <1>2, <2>1
  <2>3. I.chunks_ \in [DOMAIN I.chunks_ -> Chunk]
    BY <1>2, <2>2
  <2> QED BY <1>2, <2>3 DEF Sound, HeapType, D
<1>4. \A g \in D :
        /\ I.chunks_[g].ptr = H.chunks_[g].ptr
        /\ I.chunks_[g].size = H.chunks_[g].size
        /\ I.chunks_[g].prev = H.chunks_[g].prev
        /\ I.chunks_[g].next = H.chunks_[g].next
        /\ I.chunks_[g].bin_num = H.chunks_[g].bin_num
  <2> TAKE g \in D
  <2>1. CASE g = h BY <1>2, <2>1
  <2>2. CASE g # h BY <1>2, <2>2
  <2> QED BY <2>1, <2>2
<1>5. Sound(I) /\ Live(I) = Live(H)
  BY <1>2, <1>3, <1>4, SameLayout DEF D
<1>6. \A b \in Bins, g \in DOMAIN I.chunks_ : g \in I.bins_[b] <=> I.chunks_[g].bin_num = b
  BY <1>2, <1>4 DEF Binned, D
<1>7. \A g \in DOMAIN I.chunks_ :
        I.chunks_[g].bin_num # kInvalidBinNum =>
          /\ g \in Live(I) \ (L \union {h})
          /\ ~in_use(I.chunks_[g])
          /\ I.chunks_[g].bin_num = BinNumForSize(I.chunks_[g].size)
  BY <1>2, <1>4, <1>5 DEF Binned, D
<1>8. ASSUME in_use(c) PROVE Binned(I, L \ {h})
  <2>1. \A g \in Live(I) : ~in_use(I.chunks_[g]) /\ g \notin L \ {h} =>
          I.chunks_[g].bin_num # kInvalidBinNum
    BY <1>1, <1>2, <1>5, <1>8 DEF Binned
  <2> QED BY <1>6, <1>7, <2>1 DEF Binned
<1>9. ASSUME ~in_use(c) PROVE Binned(I, L \union {h})
  <2>1. \A g \in Live(I) : ~in_use(I.chunks_[g]) /\ g \notin L \union {h} =>
          I.chunks_[g].bin_num # kInvalidBinNum
    BY <1>1, <1>2, <1>5 DEF Binned
  <2> QED BY <1>6, <1>7, <2>1 DEF Binned
<1> QED BY <1>1, <1>2, <1>5, <1>8, <1>9 DEF I

\* Moving free chunks in or out of bins leaves chunks in use alone.
LEMMA BinsOnly ==
  ASSUME NEW H, Sound(H), NEW I, SameButBins(H, I)
  PROVE  /\ UsedUnchanged(H, I)
         /\ \A X : NoFreePair(H, X) => NoFreePair(I, X)
         /\ \A h \in Live(H) : in_use(I.chunks_[h]) <=> in_use(H.chunks_[h])
<1>1. \A h \in Live(H) : h \in DOMAIN H.chunks_
  BY DEF Live
<1>2. \A h \in Live(H) : in_use(I.chunks_[h]) <=> in_use(H.chunks_[h])
  BY <1>1 DEF SameButBins, in_use
<1>3. UsedUnchanged(H, I)
  <2>1. Used(I) = Used(H)
    BY <1>2 DEF SameButBins, Used
  <2> QED BY <1>1, <2>1 DEF SameButBins, UsedUnchanged, Used
<1>4. ASSUME NEW X, NoFreePair(H, X) PROVE NoFreePair(I, X)
  <2> SUFFICES ASSUME NEW g \in Live(I), I.chunks_[g].next # kInvalidChunkHandle,
                      g \notin X, I.chunks_[g].next \notin X
               PROVE  in_use(I.chunks_[g]) \/ in_use(I.chunks_[I.chunks_[g].next])
    BY DEF NoFreePair
  <2>1. g \in Live(H) /\ I.chunks_[g].next = H.chunks_[g].next
    BY <1>1 DEF SameButBins
  <2>2. H.chunks_[g].next \in Live(H)
    BY <2>1 DEF Sound, ChunksLinked
  <2>3. in_use(H.chunks_[g]) \/ in_use(H.chunks_[H.chunks_[g].next])
    BY <1>4, <2>1 DEF NoFreePair
  <2> QED BY <1>2, <2>1, <2>2, <2>3
<1> QED BY <1>2, <1>3, <1>4

\* The blocks in use are those of H and h, which has become a block of the
\* size asked for, not much padded.
Taken(H, h, size, num_bytes, T) ==
  /\ Pool(T)
  /\ DOMAIN T.handles_ = DOMAIN H.handles_ /\ T.regions_ = H.regions_
  /\ Used(T) = Used(H) \union {h} /\ h \notin Used(H)
  /\ T.chunks_[h].ptr = H.chunks_[h].ptr
  /\ T.chunks_[h].requested_size = num_bytes
  /\ size <= T.chunks_[h].size /\ T.chunks_[h].size < 2 * size
  /\ T.chunks_[h].size - size < kMaxInternalFragmentation
  /\ \A g \in Used(H) :
       /\ T.chunks_[g].ptr = H.chunks_[g].ptr
       /\ T.chunks_[g].size = H.chunks_[g].size
       /\ T.chunks_[g].requested_size = H.chunks_[g].requested_size

\* FindChunkPtr, from the chunk it has found to the pointer it returns.
LEMMA TakeSound ==
  ASSUME NEW H, Pool(H), NEW h \in Live(H), ~in_use(H.chunks_[h]),
         NEW size \in Nat, size > 0, size <= H.chunks_[h].size, NEW num_bytes \in Nat
  PROVE  Taken(H, h, size, num_bytes, TakeChunk(H, h, size, num_bytes))
<1> DEFINE R == RemoveFreeChunkFromBin(H, h)
           S == IF NeedsSplit(H.chunks_[h], size) THEN SplitChunk(R, h, size) ELSE R
           a == S.chunks_[h]
           c == [a EXCEPT !.requested_size = num_bytes, !.allocation_id = 0]
           T == SetChunk(S, h, c)
<1>1. T = TakeChunk(H, h, size, num_bytes)
  BY DEF TakeChunk
<1>2. Sound(R) /\ Binned(R, {h}) /\ SameButBins(H, R)
  <2>1. {} \union {h} = {h} /\ h \in Live(H) \ {}
    OBVIOUS
  <2> QED BY <2>1, RemoveSound DEF Pool
<1> HIDE DEF R
<1>3. \A g \in Live(H) : g \in DOMAIN H.chunks_
  BY DEF Live
<1>4. /\ h \in Live(R) /\ {h} \in SUBSET Live(R)
      /\ ~in_use(R.chunks_[h]) /\ R.chunks_[h].size = H.chunks_[h].size
      /\ R.chunks_[h].ptr = H.chunks_[h].ptr
  BY <1>2, <1>3 DEF SameButBins, in_use
<1>5. NoFreePair(R, {})
  BY <1>2, BinsOnly DEF Pool
<1>6. Used(R) = Used(H) /\ UsedUnchanged(H, R)
  BY <1>2, BinsOnly DEF Pool, UsedUnchanged
<1>7. H.chunks_[h].size \in Nat /\ kMaxInternalFragmentation \in Nat \ {0}
  BY <1>3, FragmentationAssumption DEF Pool, Sound, HeapType, Chunk
<1>8. /\ Sound(S) /\ Binned(S, {h}) /\ NoFreePair(S, {h})
      /\ DOMAIN S.handles_ = DOMAIN H.handles_ /\ S.regions_ = H.regions_
      /\ h \in Live(S) /\ ~in_use(a) /\ a.ptr = H.chunks_[h].ptr
      /\ size <= a.size /\ a.size < 2 * size
      /\ a.size - size < kMaxInternalFragmentation
      /\ UsedUnchanged(R, S)
  <2>1. CASE NeedsSplit(H.chunks_[h], size)
    <3>1. size < R.chunks_[h].size
      BY <1>4, <1>7, <2>1 DEF NeedsSplit
    <3>2. S = SplitChunk(R, h, size)
      BY <2>1
    <3> HIDE DEF S
    <3>3. /\ Sound(S) /\ Binned(S, {h})
          /\ DOMAIN S.handles_ = DOMAIN R.handles_ /\ S.regions_ = R.regions_
          /\ h \in Live(S)
          /\ S.chunks_[h].ptr = R.chunks_[h].ptr /\ S.chunks_[h].size = size
          /\ S.chunks_[h].allocation_id = R.chunks_[h].allocation_id
          /\ UsedUnchanged(R, S) /\ (NoFreePair(R, {}) => NoFreePair(S, {h}))
      BY <1>2, <1>4, <3>1, <3>2, SplitSound
    <3> QED BY <1>2, <1>4, <1>5, <1>7, <3>3 DEF SameButBins, in_use
  <2>2. CASE ~NeedsSplit(H.chunks_[h], size)
    <3>1. S = R
      BY <2>2
    <3>2. NoFreePair(R, {h}) /\ UsedUnchanged(R, R)
      BY <1>5 DEF NoFreePair, UsedUnchanged
    <3> HIDE DEF S
    <3> QED BY <1>2, <1>4, <1>7, <2>2, <3>1, <3>2 DEF NeedsSplit, SameButBins
  <2> QED BY <2>1, <2>2
<1> HIDE DEF S
<1>9. a \in Chunk /\ a.bin_num = kInvalidBinNum /\ h \in DOMAIN S.chunks_
  <2>1. h \in DOMAIN S.chunks_
    BY <1>8 DEF Live
  <2> QED BY <1>8, <2>1 DEF Sound, HeapType, Binned
<1>10. /\ c \in Chunk /\ c.ptr = a.ptr /\ c.size = a.size /\ c.prev = a.prev
       /\ c.next = a.next /\ c.bin_num = kInvalidBinNum
       /\ c.requested_size = num_bytes /\ in_use(c)
  <2> HIDE DEF a
  <2>1. 0 \in {-1, 0}
    OBVIOUS
  <2>2. /\ c \in Chunk /\ c.ptr = a.ptr /\ c.size = a.size /\ c.prev = a.prev
        /\ c.next = a.next /\ c.bin_num = kInvalidBinNum
        /\ c.requested_size = num_bytes /\ c.allocation_id = 0
    BY <1>9, <2>1 DEF Chunk
  <2> QED BY <2>2 DEF in_use
<1> HIDE DEF c
<1>11. /\ Sound(T) /\ Live(T) = Live(S)
       /\ T.handles_ = S.handles_ /\ T.regions_ = S.regions_
       /\ T.chunks_[h] = c
       /\ \A g \in Live(S) \ {h} : T.chunks_[g] = S.chunks_[g]
       /\ Binned(T, {})
  <2> DEFINE L == {h}
  <2>1. L \ {h} = {}
    OBVIOUS
  <2>2. /\ Sound(T) /\ Live(T) = Live(S)
        /\ T.handles_ = S.handles_ /\ T.regions_ = S.regions_
        /\ T.chunks_[h] = c
        /\ \A g \in Live(S) \ {h} : T.chunks_[g] = S.chunks_[g]
        /\ Binned(T, L \ {h})
    <3>1. Sound(S) /\ Binned(S, L) /\ h \in Live(S)
      BY <1>8
    <3> HIDE DEF L
    <3>2. S.chunks_[h].bin_num = kInvalidBinNum
      BY <1>9
    <3>3. /\ c \in Chunk /\ c.ptr = S.chunks_[h].ptr /\ c.size = S.chunks_[h].size
          /\ c.prev = S.chunks_[h].prev /\ c.next = S.chunks_[h].next
          /\ c.bin_num = kInvalidBinNum
      BY <1>10
    <3>4. in_use(c)
      BY <1>10
    <3>5. Sound(T) /\ Live(T) = Live(S)
      BY <3>1, <3>2, <3>3, MarkSound
    <3>6. Binned(T, L \ {h})
      BY <3>1, <3>2, <3>3, <3>4, MarkSound
    <3>7. IsHeap(S) /\ h \in DOMAIN S.chunks_ /\ \A g \in Live(S) : g \in DOMAIN S.chunks_
      BY <3>1 DEF Sound, Live
    <3>8. /\ T.handles_ = S.handles_ /\ T.regions_ = S.regions_ /\ T.chunks_[h] = c
          /\ \A g \in Live(S) \ {h} : T.chunks_[g] = S.chunks_[g]
      <4>0. IsHeap(S)
        BY <3>7
      <4>1. /\ IsHeap(T)
            /\ DOMAIN T.chunks_ = DOMAIN S.chunks_
            /\ \A g \in DOMAIN S.chunks_ \ {h} : T.chunks_[g] = S.chunks_[g]
            /\ h \in DOMAIN S.chunks_ => T.chunks_[h] = c
            /\ T.chunks_ = [g \in DOMAIN T.chunks_ |-> T.chunks_[g]]
            /\ T.bins_ = S.bins_ /\ T.regions_ = S.regions_ /\ T.handles_ = S.handles_
            /\ T.fatal = S.fatal
        BY <4>0, SetChunkAt
      <4> HIDE DEF T
      <4> QED BY <3>7, <4>1
    <3> QED BY <3>5, <3>6, <3>8
  <2> QED BY <2>1, <2>2
<1> HIDE DEF T, a
<1>12. NoFreePair(T, {})
  <2> SUFFICES ASSUME NEW g \in Live(T), T.chunks_[g].next # kInvalidChunkHandle
               PROVE  in_use(T.chunks_[g]) \/ in_use(T.chunks_[T.chunks_[g].next])
    BY DEF NoFreePair
  <2>1. CASE g = h
    BY <1>10, <1>11, <2>1
  <2>2. CASE g # h /\ T.chunks_[g].next = h
    BY <1>10, <1>11, <2>2
  <2>3. CASE g # h /\ T.chunks_[g].next # h
    <3>1. g \in Live(S) /\ T.chunks_[g] = S.chunks_[g]
      BY <1>11, <2>3
    <3>2. S.chunks_[g].next \in Live(S)
      BY <1>8, <3>1 DEF Sound, ChunksLinked
    <3>3. in_use(S.chunks_[g]) \/ in_use(S.chunks_[S.chunks_[g].next])
      BY <1>8, <2>3, <3>1 DEF NoFreePair
    <3> QED BY <1>11, <2>3, <3>1, <3>2, <3>3
  <2> QED BY <2>1, <2>2, <2>3
<1>13. Used(S) = Used(H) /\ h \notin Used(H)
  BY <1>6, <1>8 DEF UsedUnchanged, Used
<1>14. Used(T) = Used(H) \union {h}
  <2>1. Used(T) = Used(S) \union {h}
    BY <1>8, <1>10, <1>11 DEF Used
  <2> QED BY <1>13, <2>1
<1>15. \A g \in Used(H) :
         /\ T.chunks_[g].ptr = H.chunks_[g].ptr
         /\ T.chunks_[g].size = H.chunks_[g].size
         /\ T.chunks_[g].requested_size = H.chunks_[g].requested_size
  <2> TAKE g \in Used(H)
  <2>1. g \in Live(S) \ {h} /\ g \in Used(R)
    BY <1>6, <1>13 DEF Used
  <2> QED BY <1>6, <1>8, <1>11, <2>1 DEF UsedUnchanged
<1> QED BY <1>1, <1>8, <1>10, <1>11, <1>12, <1>13, <1>14, <1>15 DEF Taken, Pool, a

\* A chunk is not its own neighbour, nor the neighbour of its next chunk on the
\* other side.
LEMMA NoCycle ==
  ASSUME NEW H, Sound(H), NEW h \in Live(H), H.chunks_[h].next # kInvalidChunkHandle
  PROVE  LET n == H.chunks_[h].next
         IN  n \in Live(H) /\ n # h /\ H.chunks_[n].next # h /\ H.chunks_[h].prev # n
<1> DEFINE n == H.chunks_[h].next
<1>1. /\ n \in Live(H) /\ H.chunks_[n].ptr = H.chunks_[h].ptr + H.chunks_[h].size
      /\ H.chunks_[h].size > 0 /\ H.chunks_[n].size > 0
  BY DEF Sound, ChunksLinked, ChunksSized
<1>2. /\ H.chunks_[h].ptr \in Nat /\ H.chunks_[n].ptr \in Nat
      /\ H.chunks_[h].size \in Nat /\ H.chunks_[n].size \in Nat
      /\ h # kInvalidChunkHandle /\ n # kInvalidChunkHandle
  <2>1. h \in DOMAIN H.chunks_ /\ n \in DOMAIN H.chunks_
    BY <1>1 DEF Live
  <2>2. h \in Nat
    BY <2>1, SoundTypes
  <2> QED BY <2>1, <2>2 DEF Sound, HeapType, Chunk, kInvalidChunkHandle
<1>3. H.chunks_[n].next # h
  <2> SUFFICES ASSUME H.chunks_[n].next = h PROVE FALSE
    OBVIOUS
  <2>1. H.chunks_[h].ptr = H.chunks_[n].ptr + H.chunks_[n].size
    BY <1>1, <1>2 DEF Sound, ChunksLinked
  <2> QED BY <1>1, <1>2, <2>1
<1>4. n # h
  BY <1>1, <1>2
<1>5. H.chunks_[h].prev # n
  BY <1>2, <1>3 DEF Sound, ChunksLinked
<1> QED BY <1>1, <1>3, <1>4, <1>5

\* Merging h with what follows it; what then follows is not free.
LEMMA MergeNextSound ==
  ASSUME NEW H, Sound(H), NEW h \in Live(H), Binned(H, {h}),
         ~in_use(H.chunks_[h]), NoFreePair(H, {h})
  PROVE  LET N == MergeNext(H, h)
         IN  /\ Sound(N) /\ Binned(N, {h}) /\ NoFreePair(N, {h})
             /\ DOMAIN N.handles_ = DOMAIN H.handles_ /\ N.regions_ = H.regions_
             /\ h \in Live(N) /\ ~in_use(N.chunks_[h])
             /\ N.chunks_[h].prev = H.chunks_[h].prev
             /\ Mergeable(N, N.chunks_[h].prev) <=> Mergeable(H, H.chunks_[h].prev)
             /\ ~Mergeable(N, N.chunks_[h].next)
             /\ UsedUnchanged(H, N)
<1> DEFINE n == H.chunks_[h].next
           p == H.chunks_[h].prev
           R == RemoveFreeChunkFromBin(H, n)
           N == MergeNext(H, h)
<1>1. CASE ~Mergeable(H, n)
  <2>1. N = H
    BY <1>1 DEF MergeNext
  <2> HIDE DEF N
  <2> QED BY <1>1, <2>1 DEF UsedUnchanged, N
<1>2. CASE Mergeable(H, n)
  <2>1. N = Merge(R, h, n)
    BY <1>2 DEF MergeNext
  <2>2. n \in Live(H) \ {h} /\ ~in_use(H.chunks_[n]) /\ n # kInvalidChunkHandle
        /\ H.chunks_[n].next # h /\ p # n
    BY <1>2, NoCycle DEF Mergeable
  <2>3. \A g \in Live(H) : g \in DOMAIN H.chunks_
    BY DEF Live
  <2>4. Sound(R) /\ Binned(R, {h} \union {n}) /\ SameButBins(H, R)
    BY <2>2, RemoveSound
  <2> HIDE DEF R, N
  <2> DEFINE L == {h} \union {n}
  <2>5. /\ L \in SUBSET Live(R) /\ h \in L /\ n \in L
        /\ ~in_use(R.chunks_[h]) /\ ~in_use(R.chunks_[n]) /\ R.chunks_[h].next = n
        /\ R.chunks_[h].prev = p /\ R.chunks_[n].next = H.chunks_[n].next
    BY <2>2, <2>3, <2>4, BinsOnly DEF SameButBins
  <2>6. L \ {n} = {h} /\ L = {h, n}
    BY <2>2
  <2>7. NoFreePair(R, {h, n}) /\ UsedUnchanged(H, R)
    <3>1. NoFreePair(R, {h}) /\ UsedUnchanged(H, R)
      BY <2>4, BinsOnly
    <3> QED BY <3>1 DEF NoFreePair
  <2> HIDE DEF L, n
  <2>8. /\ Sound(N) /\ Binned(N, L \ {n})
        /\ DOMAIN N.handles_ = DOMAIN R.handles_ /\ N.regions_ = R.regions_
        /\ Live(N) = Live(R) \ {n} /\ h # n
        /\ N.chunks_[h].allocation_id = R.chunks_[h].allocation_id
        /\ N.chunks_[h].prev = R.chunks_[h].prev
        /\ N.chunks_[h].next = R.chunks_[n].next
        /\ \A g \in Live(N) \ {h} :
             /\ N.chunks_[g].next = R.chunks_[g].next
             /\ N.chunks_[g].allocation_id = R.chunks_[g].allocation_id
        /\ UsedUnchanged(R, N)
        /\ NoFreePair(R, {h, n}) => NoFreePair(N, {h})
    <3>1. Sound(R) /\ Binned(R, L)
      BY <2>4 DEF L
    <3>2. Merged(R, L, h, n, N)
      BY <2>1, <2>5, <3>1, MergeSound
    <3> QED BY <3>2 DEF Merged
  <2>9. h \in Live(N) /\ ~in_use(N.chunks_[h]) /\ Live(R) = Live(H)
    BY <2>4, <2>5, <2>8 DEF SameButBins, in_use
  <2>10. \A g \in Live(N) \ {h} : in_use(N.chunks_[g]) <=> in_use(H.chunks_[g])
    BY <2>4, <2>8, <2>9, BinsOnly DEF in_use
  <2>11. ~Mergeable(N, N.chunks_[h].next)
    <3> DEFINE z == H.chunks_[n].next
    <3>1. N.chunks_[h].next = z
      BY <2>5, <2>8
    <3>2. z # kInvalidChunkHandle => z \in Live(H) /\ z # n /\ z # h
      BY <2>2, NoCycle
    <3>3. z # kInvalidChunkHandle => in_use(H.chunks_[z])
      BY <2>2, <3>2 DEF NoFreePair
    <3> HIDE DEF z
    <3> QED BY <2>8, <2>9, <2>10, <3>1, <3>2, <3>3 DEF Mergeable
  <2>12. Mergeable(N, p) <=> Mergeable(H, p)
    <3>1. p # kInvalidChunkHandle => p \in Live(H) /\ p # h /\ p # n
      <4>1. p # kInvalidChunkHandle => p \in Live(H) /\ H.chunks_[p].next = h
        BY DEF Sound, ChunksLinked
      <4>2. h # kInvalidChunkHandle
        BY <2>3, SoundTypes DEF kInvalidChunkHandle
      <4>3. p # kInvalidChunkHandle => p # h
        BY <4>1, <4>2, NoCycle
      <4> QED BY <2>2, <4>1, <4>3
    <3> QED BY <2>8, <2>9, <2>10, <3>1 DEF Mergeable
  <2>13. UsedUnchanged(H, N)
    BY <2>7, <2>8 DEF UsedUnchanged
  <2>14. Binned(N, {h}) /\ NoFreePair(N, {h})
    BY <2>6, <2>7, <2>8
  <2>15. DOMAIN N.handles_ = DOMAIN H.handles_ /\ N.regions_ = H.regions_
         /\ N.chunks_[h].prev = p
    BY <2>4, <2>5, <2>8 DEF SameButBins
  <2> HIDE DEF p
  <2> QED BY <2>8, <2>9, <2>11, <2>12, <2>13, <2>14, <2>15 DEF N, p
<1> QED BY <1>1, <1>2

\* A free chunk whose neighbours are both in use breaks no pair.
LEMMA NoFreePairAt ==
  ASSUME NEW H, Sound(H), NEW h \in Live(H), NoFreePair(H, {h}),
         ~Mergeable(H, H.chunks_[h].next), ~Mergeable(H, H.chunks_[h].prev)
  PROVE  NoFreePair(H, {})
<1> SUFFICES ASSUME NEW g \in Live(H), H.chunks_[g].next # kInvalidChunkHandle
             PROVE  in_use(H.chunks_[g]) \/ in_use(H.chunks_[H.chunks_[g].next])
  BY DEF NoFreePair
<1>1. CASE g = h
  BY <1>1 DEF Mergeable
<1>2. CASE H.chunks_[g].next = h
  <2>1. H.chunks_[h].prev = g /\ g # kInvalidChunkHandle
    <3>1. g \in Nat
      BY SoundTypes DEF Live
    <3> QED BY <1>2, <3>1 DEF Sound, ChunksLinked, kInvalidChunkHandle
  <2> QED BY <2>1 DEF Mergeable
<1>3. CASE g # h /\ H.chunks_[g].next # h
  BY <1>3 DEF NoFreePair
<1> QED BY <1>1, <1>2, <1>3

\* Merging h into what precedes it.
LEMMA MergePrevSound ==
  ASSUME NEW H, Sound(H), NEW h \in Live(H), Binned(H, {h}),
         ~in_use(H.chunks_[h]), NoFreePair(H, {h}),
         ~Mergeable(H, H.chunks_[h].next)
  PROVE  LET N == MergePrev(H, h)
             k == Coalesced(H, h)
         IN  /\ Sound(N) /\ Binned(N, {k}) /\ NoFreePair(N, {})
             /\ DOMAIN N.handles_ = DOMAIN H.handles_ /\ N.regions_ = H.regions_
             /\ k \in Live(N) /\ ~in_use(N.chunks_[k])
             /\ UsedUnchanged(H, N)
<1> DEFINE p == H.chunks_[h].prev
           R == RemoveFreeChunkFromBin(H, p)
           N == MergePrev(H, h)
           k == Coalesced(H, h)
<1>1. CASE ~Mergeable(H, p)
  <2>1. N = H /\ k = h
    BY <1>1 DEF MergePrev, Coalesced
  <2>2. NoFreePair(H, {})
    BY <1>1, NoFreePairAt
  <2> HIDE DEF N, k
  <2> QED BY <2>1, <2>2 DEF UsedUnchanged, N, k
<1>2. CASE Mergeable(H, p)
  <2>1. N = Merge(R, p, h) /\ k = p
    BY <1>2 DEF MergePrev, Coalesced
  <2>2. /\ p # kInvalidChunkHandle /\ ~in_use(H.chunks_[p])
        /\ p \in Live(H) /\ H.chunks_[p].next = h
    BY <1>2 DEF Mergeable, Sound, ChunksLinked
  <2>3. h # kInvalidChunkHandle /\ \A g \in Live(H) : g \in DOMAIN H.chunks_
    BY SoundTypes DEF Live, kInvalidChunkHandle
  <2>4. p # h /\ H.chunks_[h].next # p
    BY <2>2, <2>3, NoCycle
  <2>5. Sound(R) /\ Binned(R, {h} \union {p}) /\ SameButBins(H, R)
    BY <2>2, <2>4, RemoveSound
  <2> HIDE DEF R, N, k
  <2> DEFINE L == {h} \union {p}
             y == H.chunks_[p].prev
             z == H.chunks_[h].next
  <2>6. /\ L \in SUBSET Live(R) /\ h \in L /\ p \in L
        /\ ~in_use(R.chunks_[h]) /\ ~in_use(R.chunks_[p]) /\ R.chunks_[p].next = h
        /\ R.chunks_[p].prev = y /\ R.chunks_[h].next = z
    BY <2>2, <2>3, <2>5, BinsOnly DEF SameButBins
  <2>7. L \ {h} = {p}
    BY <2>4
  <2>8. NoFreePair(R, {p, h}) /\ UsedUnchanged(H, R)
    <3>1. NoFreePair(R, {h}) /\ UsedUnchanged(H, R)
      BY <2>5, BinsOnly
    <3> QED BY <3>1 DEF NoFreePair
  <2> HIDE DEF L, p, y, z
  <2>9. /\ Sound(N) /\ Binned(N, L \ {h})
        /\ DOMAIN N.handles_ = DOMAIN R.handles_ /\ N.regions_ = R.regions_
        /\ Live(N) = Live(R) \ {h} /\ p # h
        /\ N.chunks_[p].allocation_id = R.chunks_[p].allocation_id
        /\ N.chunks_[p].prev = R.chunks_[p].prev
        /\ N.chunks_[p].next = R.chunks_[h].next
        /\ \A g \in Live(N) \ {p} :
             /\ N.chunks_[g].next = R.chunks_[g].next
             /\ N.chunks_[g].allocation_id = R.chunks_[g].allocation_id
        /\ UsedUnchanged(R, N)
        /\ NoFreePair(R, {p, h}) => NoFreePair(N, {p})
    <3>1. Sound(R) /\ Binned(R, L)
      BY <2>5 DEF L
    <3>2. Merged(R, L, p, h, N)
      BY <2>1, <2>6, <3>1, MergeSound
    <3> QED BY <3>2 DEF Merged
  <2>10. p \in Live(N) /\ ~in_use(N.chunks_[p]) /\ Live(R) = Live(H)
    BY <2>2, <2>5, <2>6, <2>9 DEF SameButBins, in_use
  <2>11. \A g \in Live(N) \ {p} : in_use(N.chunks_[g]) <=> in_use(H.chunks_[g])
    BY <2>5, <2>9, <2>10, BinsOnly DEF in_use
  <2>12. ~Mergeable(N, z)
    <3>1. z # kInvalidChunkHandle => z \in Live(H) /\ z # h /\ z # p
      BY <2>4, NoCycle DEF z
    <3>2. z # kInvalidChunkHandle => in_use(H.chunks_[z])
      BY DEF Mergeable, z
    <3> QED BY <2>9, <2>10, <2>11, <3>1, <3>2 DEF Mergeable
  <2>13. ~Mergeable(N, y)
    <3>1. y # kInvalidChunkHandle => y \in Live(H) /\ H.chunks_[y].next = p
      BY <2>2 DEF Sound, ChunksLinked, y
    <3>2. y # kInvalidChunkHandle => y # h
      BY <2>4, <3>1 DEF z
    <3>3. y # kInvalidChunkHandle => in_use(H.chunks_[y])
      BY <2>2, <2>4, <3>1, <3>2 DEF NoFreePair
    <3>4. y # kInvalidChunkHandle => y # p
      BY <2>2, <3>3
    <3> QED BY <2>9, <2>10, <2>11, <3>1, <3>2, <3>3, <3>4 DEF Mergeable
  <2>14. NoFreePair(N, {})
    <3>1. NoFreePair(N, {p}) /\ N.chunks_[p].next = z /\ N.chunks_[p].prev = y
      BY <2>6, <2>8, <2>9
    <3> QED BY <2>9, <2>10, <2>12, <2>13, <3>1, NoFreePairAt
  <2>15. UsedUnchanged(H, N)
    BY <2>8, <2>9 DEF UsedUnchanged
  <2>16. DOMAIN N.handles_ = DOMAIN H.handles_ /\ N.regions_ = H.regions_
    BY <2>5, <2>9 DEF SameButBins
  <2> QED BY <2>1, <2>7, <2>9, <2>10, <2>14, <2>15, <2>16 DEF N, k
<1> QED BY <1>1, <1>2

\* The blocks in use are those of H but for h.
Released(H, h, R) ==
  /\ Pool(R)
  /\ DOMAIN R.handles_ = DOMAIN H.handles_ /\ R.regions_ = H.regions_
  /\ Used(R) = Used(H) \ {h}
  /\ \A g \in Used(H) \ {h} :
       /\ R.chunks_[g].ptr = H.chunks_[g].ptr
       /\ R.chunks_[g].size = H.chunks_[g].size
       /\ R.chunks_[g].requested_size = H.chunks_[g].requested_size

\* DeallocateRaw: from a consistent pool to a consistent pool without the block.
LEMMA ReleaseSound ==
  ASSUME NEW H, Pool(H), NEW h \in Used(H)
  PROVE  Released(H, h, Release(H, h))
<1> DEFINE a == H.chunks_[h]
           c == [a EXCEPT !.allocation_id = -1]
           F == SetChunk(H, h, c)
           N == MergeNext(F, h)
           P == MergePrev(N, h)
           k == Coalesced(N, h)
           R == InsertFreeChunkIntoBin(P, k)
<1>1. /\ Sound(H) /\ IsHeap(H) /\ Binned(H, {}) /\ NoFreePair(H, {})
      /\ h \in Live(H) /\ h \in DOMAIN H.chunks_ /\ in_use(a) /\ a \in Chunk
      /\ \A g \in Live(H) : g \in DOMAIN H.chunks_
      /\ h # kInvalidChunkHandle
  <2>1. /\ Sound(H) /\ IsHeap(H) /\ Binned(H, {}) /\ NoFreePair(H, {})
        /\ h \in Live(H) /\ h \in DOMAIN H.chunks_ /\ in_use(a)
        /\ \A g \in Live(H) : g \in DOMAIN H.chunks_
    BY DEF Pool, Used, Live, Sound
  <2>2. h # kInvalidChunkHandle
    BY <2>1, SoundTypes DEF kInvalidChunkHandle
  <2>3. a \in Chunk
    BY <2>1 DEF Sound, HeapType
  <2> QED BY <2>1, <2>2, <2>3
<1>2. a.bin_num = kInvalidBinNum
  BY <1>1 DEF Binned
<1>3. /\ c \in Chunk /\ c.ptr = a.ptr /\ c.size = a.size /\ c.prev = a.prev
      /\ c.next = a.next /\ c.bin_num = kInvalidBinNum /\ ~in_use(c)
  <2> HIDE DEF a
  <2>1. -1 \in {-1, 0}
    OBVIOUS
  <2>2. /\ c \in Chunk /\ c.ptr = a.ptr /\ c.size = a.size /\ c.prev = a.prev
        /\ c.next = a.next /\ c.bin_num = kInvalidBinNum /\ c.allocation_id = -1
    BY <1>1, <1>2, <2>1 DEF Chunk
  <2> QED BY <2>2 DEF in_use
<1> HIDE DEF c
<1>4. Sound(F) /\ Live(F) = Live(H) /\ Binned(F, {h})
  <2> DEFINE L == {}
  <2>1. L \union {h} = {h}
    OBVIOUS
  <2>2. Binned(H, L)
    BY <1>1
  <2> HIDE DEF L
  <2>3. Sound(F) /\ Live(F) = Live(H)
    BY <1>1, <1>2, <1>3, <2>2, MarkSound
  <2>4. Binned(F, L \union {h})
    BY <1>1, <1>2, <1>3, <2>2, MarkSound
  <2> QED BY <2>1, <2>3, <2>4
<1>5. /\ \A g \in DOMAIN H.chunks_ \ {h} : F.chunks_[g] = H.chunks_[g]
      /\ F.chunks_[h] = c
      /\ F.regions_ = H.regions_ /\ F.handles_ = H.handles_
  <2>1. IsHeap(H)
    BY <1>1
  <2>2. /\ IsHeap(F)
        /\ DOMAIN F.chunks_ = DOMAIN H.chunks_
        /\ \A g \in DOMAIN H.chunks_ \ {h} : F.chunks_[g] = H.chunks_[g]
        /\ h \in DOMAIN H.chunks_ => F.chunks_[h] = c
        /\ F.chunks_ = [g \in DOMAIN F.chunks_ |-> F.chunks_[g]]
        /\ F.bins_ = H.bins_ /\ F.regions_ = H.regions_ /\ F.handles_ = H.handles_
        /\ F.fatal = H.fatal
    BY <2>1, SetChunkAt
  <2> HIDE DEF F
  <2> QED BY <1>1, <2>2
<1>6. Release(H, h) = InsertFreeChunkIntoBin(P, Coalesced(F, h))
  <2>1. ITEX_CHECK(H, h # kInvalidChunkHandle) = H
    BY <1>1, CheckPasses
  <2> QED BY <2>1 DEF Release, TryToCoalesce, c
<1> HIDE DEF F
<1>7. NoFreePair(F, {h})
  <2> SUFFICES ASSUME NEW g \in Live(F), F.chunks_[g].next # kInvalidChunkHandle,
                      g # h, F.chunks_[g].next # h
               PROVE  in_use(F.chunks_[g]) \/ in_use(F.chunks_[F.chunks_[g].next])
    BY DEF NoFreePair
  <2>1. g \in Live(H) /\ F.chunks_[g] = H.chunks_[g]
    BY <1>1, <1>4, <1>5
  <2>2. H.chunks_[g].next \in Live(H) \ {h}
    BY <1>1, <2>1 DEF Sound, ChunksLinked
  <2>3. in_use(H.chunks_[g]) \/ in_use(H.chunks_[H.chunks_[g].next])
    BY <1>1, <2>1 DEF NoFreePair
  <2> QED BY <1>1, <1>5, <2>1, <2>2, <2>3
<1>8. Used(F) = Used(H) \ {h} /\ ~in_use(F.chunks_[h]) /\ h \in Live(F)
  BY <1>1, <1>3, <1>4, <1>5 DEF Used
<1>9. /\ Sound(N) /\ Binned(N, {h}) /\ NoFreePair(N, {h})
      /\ DOMAIN N.handles_ = DOMAIN F.handles_ /\ N.regions_ = F.regions_
      /\ h \in Live(N) /\ ~in_use(N.chunks_[h])
      /\ N.chunks_[h].prev = F.chunks_[h].prev
      /\ Mergeable(N, N.chunks_[h].prev) <=> Mergeable(F, F.chunks_[h].prev)
      /\ ~Mergeable(N, N.chunks_[h].next)
      /\ UsedUnchanged(F, N)
  BY <1>4, <1>7, <1>8, MergeNextSound
<1> HIDE DEF N
<1>10. Coalesced(F, h) = k
  BY <1>9 DEF Coalesced
<1>11. /\ Sound(P) /\ Binned(P, {k}) /\ NoFreePair(P, {})
       /\ DOMAIN P.handles_ = DOMAIN N.handles_ /\ P.regions_ = N.regions_
       /\ k \in Live(P) /\ ~in_use(P.chunks_[k])
       /\ UsedUnchanged(N, P)
  BY <1>9, MergePrevSound
<1> HIDE DEF P, k
<1>12. Sound(R) /\ Binned(R, {}) /\ SameButBins(P, R)
  <2> DEFINE L == {k}
  <2>1. L \ {k} = {} /\ k \in L
    OBVIOUS
  <2>2. Binned(P, L)
    BY <1>11
  <2> HIDE DEF L
  <2>3. Sound(R) /\ Binned(R, L \ {k}) /\ SameButBins(P, R)
    BY <1>11, <2>1, <2>2, InsertSound
  <2> QED BY <2>1, <2>3
<1> HIDE DEF R
<1>13. NoFreePair(R, {}) /\ UsedUnchanged(P, R)
  BY <1>11, <1>12, BinsOnly
<1>14. UsedUnchanged(F, R)
  BY <1>9, <1>11, <1>13 DEF UsedUnchanged
<1>15. DOMAIN R.handles_ = DOMAIN H.handles_ /\ R.regions_ = H.regions_
  BY <1>5, <1>9, <1>11, <1>12 DEF SameButBins
<1>16. R = Release(H, h)
  BY <1>6, <1>10 DEF R
<1>17. \A g \in Used(H) \ {h} :
         /\ R.chunks_[g].ptr = H.chunks_[g].ptr
         /\ R.chunks_[g].size = H.chunks_[g].size
         /\ R.chunks_[g].requested_size = H.chunks_[g].requested_size
  <2> TAKE g \in Used(H) \ {h}
  <2>1. F.chunks_[g] = H.chunks_[g] /\ g \in Used(F)
    BY <1>1, <1>5, <1>8 DEF Used
  <2> QED BY <1>14, <2>1 DEF UsedUnchanged
<1>18. Used(R) = Used(H) \ {h}
  BY <1>8, <1>14 DEF UsedUnchanged
<1> QED BY <1>12, <1>13, <1>15, <1>16, <1>17, <1>18 DEF Released, Pool

\* H with one more region, all of it one free chunk.
Extended(H, base, size, A) ==
  /\ Pool(A)
  /\ DOMAIN A.handles_ = DOMAIN H.handles_ \union Grains(base, size)
  /\ A.regions_ = H.regions_ \union {[ptr |-> base, memory_size |-> size]}
  /\ UsedUnchanged(H, A)
  /\ \E h \in Live(A) : ~in_use(A.chunks_[h]) /\ A.chunks_[h].size = size

\* The end of ExtendLarge and ExtendSmall: the new region is one binned chunk.
LEMMA AddRegionSound ==
  ASSUME NEW H, Pool(H), NEW base \in Nat \ {0}, NEW size \in Nat \ {0},
         Grains(base, size) \intersect DOMAIN H.handles_ = {}
  PROVE  Extended(H, base, size, AddRegion(H, base, size))
<1> DEFINE D == DOMAIN H.chunks_
           G == Grains(base, size)
           region == [ptr |-> base, memory_size |-> size]
           R == AddAllocationRegion(H, base, size)
           new == NewHandle(H)
           Z == AllocateChunk(H)
           A == AllocateChunk(R)
           a == A.chunks_[new]
           c == [a EXCEPT !.ptr = base, !.size = size, !.allocation_id = -1,
                          !.prev = kInvalidChunkHandle,
                          !.next = kInvalidChunkHandle]
           C == SetChunk(A, new, c)
           K == set_handle(C, base, new)
           I == InsertFreeChunkIntoBin(K, new)
<1>1. /\ Sound(H) /\ Binned(H, {}) /\ NoFreePair(H, {}) /\ IsHeap(H)
      /\ D \subseteq Nat /\ H.chunks_ \in [D -> Chunk]
      /\ H.fatal = FALSE /\ H.regions_ \subseteq Region /\ RegionsDisjoint(H)
      /\ DOMAIN H.handles_ = UNION {Grains(r.ptr, r.memory_size) : r \in H.regions_}
      /\ H.handles_ \in [DOMAIN H.handles_ -> D \union {kInvalidChunkHandle}]
  BY SoundTypes DEF Pool, Sound, HeapType
<1>2. /\ IsHeap(R)
      /\ R.chunks_ = H.chunks_ /\ R.free_chunks_list_ = H.free_chunks_list_
      /\ R.bins_ = H.bins_ /\ R.fatal = FALSE
      /\ R.regions_ = H.regions_ \union {region}
      /\ R.handles_ = [p \in DOMAIN H.handles_ \union G |->
                         IF p \in G THEN kInvalidChunkHandle ELSE H.handles_[p]]
  <2> DEFINE rs == H.regions_ \union {region}
             hs == [p \in DOMAIN H.handles_ \union G |->
                      IF p \in G THEN kInvalidChunkHandle ELSE H.handles_[p]]
  <2>1. R = [H EXCEPT !.regions_ = rs, !.handles_ = hs]
    BY DEF AddAllocationRegion
  <2> HIDE DEF R, rs, hs
  <2>2. /\ IsHeap(R)
        /\ R.chunks_ = H.chunks_ /\ R.free_chunks_list_ = H.free_chunks_list_
        /\ R.bins_ = H.bins_ /\ R.fatal = H.fatal
        /\ R.regions_ = rs /\ R.handles_ = hs
    BY <1>1, <2>1 DEF IsHeap
  <2> QED BY <1>1, <2>2 DEF rs, hs
<1> HIDE DEF R, G, region
<1>3. /\ IsHeap(Z)
      /\ new \in Nat /\ new \notin Live(H)
      /\ DOMAIN Z.chunks_ = D \union {new}
      /\ IsFiniteSet(DOMAIN Z.chunks_)
      /\ DOMAIN Z.chunks_ = 0 .. Cardinality(DOMAIN Z.chunks_) - 1
      /\ Z.chunks_ \in [DOMAIN Z.chunks_ -> Chunk]
      /\ \A g \in D : Z.chunks_[g] = H.chunks_[g]
      /\ Z.chunks_[new].bin_num = kInvalidBinNum
      /\ Z.free_chunks_list_ \in (Dead(H) \ {new}) \union {kInvalidChunkHandle}
      /\ \A d \in Dead(H) \ {new} :
           /\ H.chunks_[d].next \in (Dead(H) \ {new}) \union {kInvalidChunkHandle}
           /\ H.chunks_[d].next # kInvalidChunkHandle =>
                H.chunks_[d].next # Z.free_chunks_list_
  BY <1>1, AllocateChunkEffect
<1>4. /\ NewHandle(R) = new
      /\ IsHeap(A)
      /\ A.chunks_ = Z.chunks_ /\ A.free_chunks_list_ = Z.free_chunks_list_
      /\ A.bins_ = H.bins_ /\ A.fatal = FALSE
      /\ A.regions_ = R.regions_ /\ A.handles_ = R.handles_
  <2>1. NewHandle(R) = new
    BY <1>2 DEF NewHandle
  <2>2. CASE H.free_chunks_list_ # kInvalidChunkHandle
    <3> DEFINE e == H.chunks_[H.free_chunks_list_].next
    <3>1. A = [R EXCEPT !.free_chunks_list_ = e] /\ Z = [H EXCEPT !.free_chunks_list_ = e]
      BY <1>2, <2>2 DEF AllocateChunk
    <3> HIDE DEF A, Z, e
    <3> QED BY <1>1, <1>2, <2>1, <3>1 DEF IsHeap
  <2>3. CASE H.free_chunks_list_ = kInvalidChunkHandle
    <3> DEFINE e == [h \in D \union {new} |-> IF h = new THEN NewChunk ELSE H.chunks_[h]]
    <3>1. A = [R EXCEPT !.chunks_ = e] /\ Z = [H EXCEPT !.chunks_ = e]
      BY <1>2, <2>1, <2>3 DEF AllocateChunk
    <3> HIDE DEF A, Z, e
    <3> QED BY <1>1, <1>2, <2>1, <3>1 DEF IsHeap
  <2> QED BY <2>2, <2>3
<1>5. I = AddRegion(H, base, size)
  BY <1>4 DEF AddRegion, R
<1> HIDE DEF A, Z, new
<1>6. /\ a \in Chunk /\ a.bin_num = kInvalidBinNum
      /\ new # kInvalidChunkHandle /\ new \in DOMAIN A.chunks_
  BY <1>3, <1>4 DEF kInvalidChunkHandle
<1>7. /\ c \in Chunk /\ c.ptr = base /\ c.size = size /\ c.allocation_id = -1
      /\ c.prev = kInvalidChunkHandle /\ c.next = kInvalidChunkHandle
      /\ c.bin_num = kInvalidBinNum
  <2> HIDE DEF a
  <2>1. -1 \in {-1, 0} /\ kInvalidChunkHandle \in Handle /\ base \in Nat /\ size \in Nat
    BY DEF Handle
  <2> QED BY <1>6, <2>1 DEF Chunk
<1> HIDE DEF c
<1>8. /\ IsHeap(C)
      /\ DOMAIN C.chunks_ = D \union {new}
      /\ \A g \in D \ {new} : C.chunks_[g] = H.chunks_[g]
      /\ C.chunks_[new] = c
      /\ C.chunks_ = [g \in DOMAIN C.chunks_ |-> C.chunks_[g]]
      /\ C.bins_ = H.bins_ /\ C.regions_ = R.regions_ /\ C.handles_ = R.handles_
      /\ C.free_chunks_list_ = Z.free_chunks_list_ /\ C.fatal = FALSE
  <2>1. IsHeap(A)
    BY <1>4
  <2>2. /\ IsHeap(C)
        /\ DOMAIN C.chunks_ = DOMAIN A.chunks_
        /\ \A g \in DOMAIN A.chunks_ \ {new} : C.chunks_[g] = A.chunks_[g]
        /\ new \in DOMAIN A.chunks_ => C.chunks_[new] = c
        /\ C.chunks_ = [g \in DOMAIN C.chunks_ |-> C.chunks_[g]]
        /\ C.bins_ = A.bins_ /\ C.regions_ = A.regions_ /\ C.handles_ = A.handles_
        /\ C.free_chunks_list_ = A.free_chunks_list_ /\ C.fatal = A.fatal
    BY <2>1, SetChunkAt
  <2> HIDE DEF C
  <2> QED BY <1>3, <1>4, <2>2
<1> HIDE DEF C
<1>9. /\ region \in Region /\ region.ptr = base /\ region.memory_size = size
      /\ Grains(region.ptr, region.memory_size) = G
      /\ G \intersect DOMAIN H.handles_ = {} /\ base \in G
  <2>1. region \in Region /\ region.ptr = base /\ region.memory_size = size
    BY DEF region, Region
  <2>2. base \in G
    BY DEF G, Grains
  <2> QED BY <2>1, <2>2 DEF G
<1>10. /\ R.regions_ \subseteq Region /\ RegionsDisjoint(R)
       /\ DOMAIN R.handles_ = DOMAIN H.handles_ \union G
       /\ DOMAIN R.handles_ = UNION {Grains(r.ptr, r.memory_size) : r \in R.regions_}
       /\ \A p \in G : R.handles_[p] = kInvalidChunkHandle
       /\ \A p \in DOMAIN H.handles_ : R.handles_[p] = H.handles_[p]
       /\ R.handles_ \in [DOMAIN R.handles_ -> D \union {kInvalidChunkHandle}]
  <2>1. R.regions_ \subseteq Region
    BY <1>1, <1>2, <1>9
  <2>2. RegionsDisjoint(R)
    <3> SUFFICES ASSUME NEW r \in R.regions_, NEW s \in R.regions_, r # s
                 PROVE  Grains(r.ptr, r.memory_size)
                          \intersect Grains(s.ptr, s.memory_size) = {}
      BY DEF RegionsDisjoint
    <3>1. \A t \in H.regions_ : Grains(t.ptr, t.memory_size) \intersect G = {}
      BY <1>1, <1>9
    <3> QED BY <1>1, <1>2, <1>9, <3>1 DEF RegionsDisjoint
  <2>3. DOMAIN R.handles_ = UNION {Grains(r.ptr, r.memory_size) : r \in R.regions_}
    <3>1. DOMAIN R.handles_ = DOMAIN H.handles_ \union G
      BY <1>2
    <3>2. ASSUME NEW p
          PROVE  p \in DOMAIN R.handles_
                   <=> \E r \in R.regions_ : p \in Grains(r.ptr, r.memory_size)
      BY <1>1, <1>2, <1>9, <3>1
    <3> QED BY <3>2
  <2>4. /\ DOMAIN R.handles_ = DOMAIN H.handles_ \union G
        /\ \A p \in G : R.handles_[p] = kInvalidChunkHandle
        /\ \A p \in DOMAIN H.handles_ : R.handles_[p] = H.handles_[p]
    BY <1>2, <1>9
  <2>5. R.handles_ \in [DOMAIN R.handles_ -> D \union {kInvalidChunkHandle}]
    BY <1>1, <1>2
  <2> QED BY <2>1, <2>2, <2>3, <2>4, <2>5
<1>11. /\ IsHeap(K)
       /\ K.handles_ = [R.handles_ EXCEPT ![base] = new]
       /\ K.chunks_ = C.chunks_ /\ K.bins_ = H.bins_ /\ K.regions_ = R.regions_
       /\ K.free_chunks_list_ = Z.free_chunks_list_ /\ K.fatal = FALSE
  <2>1. RegionsDisjoint(C)
    BY <1>8, <1>10 DEF RegionsDisjoint
  <2>2. base \in DOMAIN C.handles_
    BY <1>8, <1>9, <1>10
  <2>3. DOMAIN C.handles_ = UNION {Grains(r.ptr, r.memory_size) : r \in C.regions_}
    BY <1>8, <1>10
  <2>4. C.regions_ \subseteq Region
    BY <1>8, <1>10
  <2> QED BY <1>8, <2>1, <2>2, <2>3, <2>4, SetHandleEffect, SMTT(30)
<1> HIDE DEF K, I
<1>12. /\ DOMAIN K.chunks_ = D \union {new} /\ K.chunks_[new] = c
       /\ K.chunks_ = [g \in DOMAIN K.chunks_ |-> K.chunks_[g]]
       /\ \A g \in D \ {new} : K.chunks_[g] = H.chunks_[g]
       /\ DOMAIN K.handles_ = DOMAIN H.handles_ \union G
       /\ K.handles_[base] = new
       /\ \A p \in G \ {base} : K.handles_[p] = kInvalidChunkHandle
       /\ \A p \in DOMAIN H.handles_ : K.handles_[p] = H.handles_[p] /\ p # base
  BY <1>8, <1>9, <1>10, <1>11
<1>13. Live(K) = Live(H) \union {new}
  <2>1. new \in Live(K)
    BY <1>7, <1>9, <1>12 DEF Live
  <2>2. ASSUME NEW g \in Live(H) PROVE g \in Live(K)
    BY <1>3, <1>12 DEF Live
  <2>3. ASSUME NEW g \in Live(K), g # new PROVE g \in Live(H)
    <3>1. /\ g \in D \ {new} /\ K.chunks_[g].ptr \in DOMAIN K.handles_
          /\ K.handles_[K.chunks_[g].ptr] = g
      BY <1>12, <2>3 DEF Live
    <3>2. K.chunks_[g] = H.chunks_[g] /\ g # kInvalidChunkHandle
      BY <1>1, <1>12, <3>1 DEF kInvalidChunkHandle
    <3>3. K.chunks_[g].ptr \in DOMAIN H.handles_
      BY <1>12, <3>1, <3>2
    <3> QED BY <1>12, <3>1, <3>2, <3>3 DEF Live
  <2> QED BY <2>1, <2>2, <2>3
<1>14. \A g \in Live(H) : g \in D \ {new} /\ K.chunks_[g] = H.chunks_[g]
  BY <1>3, <1>12 DEF Live
<1>15. HeapType(K)
  <2>1. \A g \in D \union {new} : K.chunks_[g] \in Chunk
    BY <1>1, <1>7, <1>12
  <2>2. K.chunks_ \in [DOMAIN K.chunks_ -> Chunk]
    BY <1>12, <2>1
  <2>3. K.free_chunks_list_ \in Handle
    BY <1>1, <1>3, <1>11 DEF Dead, Handle
  <2>4. K.bins_ \in [Bins -> SUBSET DOMAIN K.chunks_]
    BY <1>11, <1>12 DEF Pool, Sound, HeapType
  <2>5. K.handles_ \in [DOMAIN K.handles_ -> DOMAIN K.chunks_ \union {kInvalidChunkHandle}]
    BY <1>10, <1>11, <1>12
  <2>6. /\ IsFiniteSet(DOMAIN K.chunks_)
        /\ DOMAIN K.chunks_ = 0 .. Cardinality(DOMAIN K.chunks_) - 1
    BY <1>3, <1>12
  <2>7. /\ K.regions_ \subseteq Region
        /\ DOMAIN K.handles_ = UNION {Grains(r.ptr, r.memory_size) : r \in K.regions_}
    BY <1>10, <1>11, <1>12
  <2> QED BY <2>2, <2>3, <2>4, <2>5, <2>6, <2>7 DEF HeapType
<1>16. SlotsPoint(K)
  <2> SUFFICES ASSUME NEW p \in DOMAIN K.handles_,
                      K.handles_[p] # kInvalidChunkHandle
               PROVE  K.chunks_[K.handles_[p]].ptr = p
    BY DEF SlotsPoint
  <2>1. CASE p \in G
    BY <1>7, <1>12, <2>1
  <2>2. CASE p \in DOMAIN H.handles_
    <3>1. K.handles_[p] = H.handles_[p] /\ H.handles_[p] \in D
      BY <1>1, <1>12, <2>2
    <3>2. H.chunks_[H.handles_[p]].ptr = p
      BY <1>1, <2>2, <3>1 DEF Sound, SlotsPoint
    <3>3. H.handles_[p] \in Live(H)
      BY <2>2, <3>1, <3>2 DEF Live
    <3> QED BY <1>14, <3>1, <3>2, <3>3
  <2> QED BY <1>12, <2>1, <2>2
<1>17. Extent(c) = G
  BY <1>7 DEF Extent, G
<1>18. ChunksSized(K)
  <2> SUFFICES ASSUME NEW g \in Live(K)
               PROVE  /\ K.chunks_[g].size > 0
                      /\ \A p \in Extent(K.chunks_[g]) :
                           /\ p \in DOMAIN K.handles_
                           /\ p # K.chunks_[g].ptr => K.handles_[p] = kInvalidChunkHandle
    BY DEF ChunksSized
  <2>1. CASE g = new
    BY <1>7, <1>12, <1>17, <2>1
  <2>2. CASE g # new
    <3>1. g \in Live(H) /\ K.chunks_[g] = H.chunks_[g]
      BY <1>13, <1>14, <2>2
    <3> QED BY <1>1, <1>12, <3>1 DEF Sound, ChunksSized
  <2> QED BY <2>1, <2>2
<1>19. ChunksLinked(K)
  <2> SUFFICES ASSUME NEW g \in Live(K)
               PROVE  /\ K.chunks_[g].next # kInvalidChunkHandle =>
                           /\ K.chunks_[g].next \in Live(K)
                           /\ K.chunks_[K.chunks_[g].next].prev = g
                           /\ K.chunks_[K.chunks_[g].next].ptr
                                = K.chunks_[g].ptr + K.chunks_[g].size
                      /\ K.chunks_[g].prev # kInvalidChunkHandle =>
                           /\ K.chunks_[g].prev \in Live(K)
                           /\ K.chunks_[K.chunks_[g].prev].next = g
                      /\ K.chunks_[g].prev = kInvalidChunkHandle =>
                           \E r \in K.regions_ : r.ptr = K.chunks_[g].ptr
    BY DEF ChunksLinked
  <2>1. CASE g = new
    BY <1>2, <1>7, <1>9, <1>11, <1>12, <2>1
  <2>2. CASE g # new
    <3>1. g \in Live(H) /\ K.chunks_[g] = H.chunks_[g]
      BY <1>13, <1>14, <2>2
    <3>2. /\ H.chunks_[g].next # kInvalidChunkHandle =>
               /\ H.chunks_[g].next \in Live(H)
               /\ H.chunks_[H.chunks_[g].next].prev = g
               /\ H.chunks_[H.chunks_[g].next].ptr = H.chunks_[g].ptr + H.chunks_[g].size
          /\ H.chunks_[g].prev # kInvalidChunkHandle =>
               /\ H.chunks_[g].prev \in Live(H)
               /\ H.chunks_[H.chunks_[g].prev].next = g
          /\ H.chunks_[g].prev = kInvalidChunkHandle =>
               \E r \in H.regions_ : r.ptr = H.chunks_[g].ptr
      BY <1>1, <3>1 DEF Sound, ChunksLinked
    <3> QED BY <1>2, <1>11, <1>13, <1>14, <3>1, <3>2
  <2> QED BY <2>1, <2>2
<1>20. ChunksCover(K)
  <2> SUFFICES ASSUME NEW p \in DOMAIN K.handles_
               PROVE  \E g \in Live(K) : p \in Extent(K.chunks_[g])
    BY DEF ChunksCover
  <2>1. CASE p \in G
    BY <1>12, <1>13, <1>17, <2>1
  <2>2. CASE p \in DOMAIN H.handles_
    BY <1>1, <1>13, <1>14, <2>2 DEF Sound, ChunksCover
  <2> QED BY <1>12, <2>1, <2>2
<1>21. RegionsDisjoint(K)
  BY <1>10, <1>11 DEF RegionsDisjoint
<1>22. FreeListLinked(K)
  <2>1. Dead(K) = Dead(H) \ {new}
    BY <1>12, <1>13 DEF Dead
  <2>2. \A d \in Dead(K) : K.chunks_[d].next = H.chunks_[d].next
    BY <1>12, <2>1 DEF Dead
  <2>3. \A d, e \in Dead(H) :
          H.chunks_[d].next = H.chunks_[e].next /\ d # e =>
            H.chunks_[d].next = kInvalidChunkHandle
    BY <1>1 DEF Sound, FreeListLinked
  <2> QED BY <1>3, <1>11, <2>1, <2>2, <2>3 DEF FreeListLinked
<1>22a. FreeListReaches(K)
  <2>1. Dead(K) = Dead(H) \ {new}
    BY <1>12, <1>13 DEF Dead
  <2>2. \A d \in Dead(K) : K.chunks_[d].next = H.chunks_[d].next
    BY <1>12, <2>1 DEF Dead
  <2>3. K.free_chunks_list_ = AllocateChunk(H).free_chunks_list_
    BY <1>11 DEF Z
  <2> QED BY <1>1, <2>1, <2>2, <2>3, ListPop DEF new
<1>23. Sound(K)
  BY <1>22a, <1>11, <1>15, <1>16, <1>18, <1>19, <1>20, <1>21, <1>22 DEF Sound
<1>24. Binned(K, {new})
  <2>1. \A b \in Bins, g \in DOMAIN K.chunks_ :
          g \in K.bins_[b] <=> K.chunks_[g].bin_num = b
    <3> TAKE b \in Bins, g \in DOMAIN K.chunks_
    <3>0. b # kInvalidBinNum
      BY DEF Bins, kInvalidBinNum
    <3>1. H.bins_[b] \subseteq D
      BY <1>1 DEF Sound, HeapType
    <3>2. \A k \in D : k \in H.bins_[b] <=> H.chunks_[k].bin_num = b
      BY <1>1 DEF Binned
    <3>3. CASE g = new
      <4>1. new \in D => H.chunks_[new].bin_num = kInvalidBinNum
        BY <1>1, <1>3 DEF Binned
      <4> QED BY <1>7, <1>11, <1>12, <3>0, <3>1, <3>2, <3>3, <4>1
    <3>4. CASE g # new
      BY <1>11, <1>12, <3>2, <3>4
    <3> QED BY <3>3, <3>4
  <2>2. \A g \in DOMAIN K.chunks_ :
          K.chunks_[g].bin_num # kInvalidBinNum =>
            /\ g \in Live(K) \ {new}
            /\ ~in_use(K.chunks_[g])
            /\ K.chunks_[g].bin_num = BinNumForSize(K.chunks_[g].size)
    BY <1>1, <1>7, <1>12, <1>13 DEF Binned
  <2>3. \A g \in Live(K) :
          ~in_use(K.chunks_[g]) /\ g \notin {new} =>
            K.chunks_[g].bin_num # kInvalidBinNum
    BY <1>1, <1>13, <1>14 DEF Binned
  <2> QED BY <2>1, <2>2, <2>3 DEF Binned
<1>25. ~in_use(K.chunks_[new]) /\ new \in Live(K)
  BY <1>7, <1>12, <1>13 DEF in_use
<1>26. NoFreePair(K, {})
  <2> SUFFICES ASSUME NEW g \in Live(K), K.chunks_[g].next # kInvalidChunkHandle
               PROVE  in_use(K.chunks_[g]) \/ in_use(K.chunks_[K.chunks_[g].next])
    BY DEF NoFreePair
  <2>1. g # new /\ g \in Live(H) /\ K.chunks_[g] = H.chunks_[g]
    BY <1>7, <1>12, <1>13, <1>14
  <2>2. H.chunks_[g].next \in Live(H)
    BY <1>1, <2>1 DEF Sound, ChunksLinked
  <2> QED BY <1>1, <1>14, <2>1, <2>2 DEF NoFreePair
<1>27. Sound(I) /\ Binned(I, {}) /\ SameButBins(K, I)
  <2> DEFINE L == {new}
  <2>1. L \ {new} = {} /\ new \in L
    OBVIOUS
  <2>2. Binned(K, L)
    BY <1>24
  <2> HIDE DEF L
  <2>3. Sound(I) /\ Binned(I, L \ {new}) /\ SameButBins(K, I)
    BY <1>23, <1>25, <2>1, <2>2, InsertSound DEF I
  <2> QED BY <2>1, <2>3
<1>28. NoFreePair(I, {}) /\ UsedUnchanged(K, I)
  BY <1>23, <1>26, <1>27, BinsOnly
<1>29. Used(K) = Used(H) /\ \A g \in Used(H) : K.chunks_[g] = H.chunks_[g]
  BY <1>13, <1>14, <1>25 DEF Used
<1>30. UsedUnchanged(H, I)
  BY <1>28, <1>29 DEF UsedUnchanged
<1>31. /\ DOMAIN I.handles_ = DOMAIN H.handles_ \union G
       /\ I.regions_ = H.regions_ \union {region}
  BY <1>2, <1>11, <1>12, <1>27 DEF SameButBins
<1>32. new \in Live(I) /\ ~in_use(I.chunks_[new]) /\ I.chunks_[new].size = size
  BY <1>7, <1>12, <1>25, <1>27 DEF SameButBins, in_use, Live
<1> QED BY <1>5, <1>27, <1>28, <1>30, <1>31, <1>32 DEF Extended, Pool, G, region
-----------------------------------------------------------------------------
(* The list of deleted chunks.  FreeList is defined by recursion along it,  *)
(* so what it computes needs induction.                                     *)

\* A set of natural numbers has a least member.
LEMMA Least ==
  ASSUME NEW T \in SUBSET Nat, T # {}
  PROVE  \E x \in T : \A y \in T : x <= y
<1> DEFINE R == OpToRel(<, Nat)
<1>1. IsWellFoundedOn(R, Nat)
  BY NatLessThanWellFounded
<1>2. \A y, x \in Nat : y < x => <<y, x>> \in R
  BY DEF OpToRel
<1> HIDE DEF R
<1>3. PICK x \in T : \A y \in T : ~ (<<y, x>> \in R)
  BY <1>1, WFMin
<1>4. ASSUME NEW y \in T PROVE x <= y
  <2>1. x \in Nat /\ y \in Nat
    OBVIOUS
  <2>2. ~(y < x)
    BY <2>1, <1>2, <1>3
  <2> QED BY <2>1, <2>2
<1> QED BY <1>4

\* Induction over the natural numbers, with a set for the predicate.
LEMMA Induct ==
  ASSUME NEW P, 0 \in P, \A n \in Nat : n \in P => n + 1 \in P
  PROVE  Nat \subseteq P
<1> SUFFICES ASSUME Nat \ P # {} PROVE FALSE
  OBVIOUS
<1>1. PICK x \in Nat \ P : \A y \in Nat \ P : x <= y
  BY Least, Nat \ P \in SUBSET Nat
<1>2. x # 0 /\ x - 1 \in Nat /\ x - 1 \in P
  BY <1>1
<1>3. (x - 1) + 1 \in P
  BY <1>2
<1> QED BY <1>1, <1>3

NextOnList(H, d) ==
  IF d = kInvalidChunkHandle THEN kInvalidChunkHandle ELSE H.chunks_[d].next

\* f[k] is what AllocateChunk would take after k others.
Follows(H, f, n) ==
  /\ f = [k \in 0 .. n |-> f[k]]
  /\ f[0] = H.free_chunks_list_
  /\ \A k \in 1 .. n : f[k] = NextOnList(H, f[k - 1])

\* The list can be followed any number of steps.
LEMMA FollowsExists ==
  ASSUME NEW H, NEW n \in Nat
  PROVE  \E f : Follows(H, f, n)
<1> DEFINE P == {m \in Nat : \E f : Follows(H, f, m)}
<1>1. 0 \in P
  <2> DEFINE f == [k \in 0 .. 0 |-> H.free_chunks_list_]
  <2>1. Follows(H, f, 0)
    BY DEF Follows
  <2> QED BY <2>1
<1>2. ASSUME NEW m \in Nat, m \in P PROVE m + 1 \in P
  <2>1. PICK f : Follows(H, f, m)
    BY <1>2
  <2> DEFINE last == NextOnList(H, f[m])
             g == [k \in 0 .. m + 1 |-> IF k = m + 1 THEN last ELSE f[k]]
  <2> HIDE DEF last
  <2>2. g[0] = H.free_chunks_list_ /\ g = [k \in 0 .. m + 1 |-> g[k]]
    BY <2>1 DEF Follows
  <2>3. ASSUME NEW k \in 1 .. m + 1 PROVE g[k] = NextOnList(H, g[k - 1])
    <3>1. CASE k = m + 1
      <4>1. g[k] = last /\ g[k - 1] = f[m]
        BY <3>1
      <4> HIDE DEF g
      <4> QED BY <4>1 DEF last
    <3>2. CASE k # m + 1
      <4>1. k \in 1 .. m /\ g[k] = f[k] /\ g[k - 1] = f[k - 1]
        BY <3>2
      <4> HIDE DEF g
      <4> QED BY <2>1, <4>1 DEF Follows
    <3> QED BY <3>1, <3>2
  <2> HIDE DEF g
  <2>4. Follows(H, g, m + 1)
    BY <2>2, <2>3 DEF Follows
  <2> QED BY <2>4
<1> HIDE DEF P
<1>3. Nat \subseteq P
  BY <1>1, <1>2, Induct
<1> QED BY <1>3 DEF P

\* FreeList is what the list passes within as many steps as there are chunks.
LEMMA FreeListFollows ==
  ASSUME NEW H, Cardinality(DOMAIN H.chunks_) \in Nat
  PROVE  LET n == Cardinality(DOMAIN H.chunks_)
         IN  \E f : /\ Follows(H, f, n)
                    /\ FreeList(H) = {f[i] : i \in 0 .. n} \ {kInvalidChunkHandle}
<1> DEFINE n == Cardinality(DOMAIN H.chunks_)
           F(f) == [i \in 0 .. n |->
                      IF i = 0 THEN H.free_chunks_list_
                      ELSE IF f[i - 1] = kInvalidChunkHandle THEN kInvalidChunkHandle
                      ELSE H.chunks_[f[i - 1]].next]
           at == CHOOSE f : f = F(f)
<1>1. FreeList(H) = {at[i] : i \in 0 .. n} \ {kInvalidChunkHandle}
  BY DEF FreeList
<1>2. n \in Nat
  OBVIOUS
<1> HIDE DEF n
<1>3. PICK f : Follows(H, f, n)
  BY <1>2, FollowsExists
<1>4. f = F(f)
  <2>1. ASSUME NEW k \in 0 .. n PROVE f[k] = F(f)[k]
    <3>1. CASE k = 0
      BY <1>2, <1>3, <3>1 DEF Follows
    <3>2. CASE k # 0
      BY <1>2, <1>3, <3>2, k \in 1 .. n DEF Follows, NextOnList
    <3> QED BY <3>1, <3>2
  <2>2. f = [k \in 0 .. n |-> f[k]]
    BY <1>3 DEF Follows
  <2>3. F(f) = [k \in 0 .. n |-> F(f)[k]]
    OBVIOUS
  <2> HIDE DEF F
  <2>4. [k \in 0 .. n |-> F(f)[k]] = [k \in 0 .. n |-> f[k]]
    BY <2>1
  <2> QED BY <2>2, <2>3, <2>4
<1> HIDE DEF F
<1>5. at = F(at)
  BY <1>4
<1> HIDE DEF at
<1>6. at = [i \in 0 .. n |->
              IF i = 0 THEN H.free_chunks_list_
              ELSE IF at[i - 1] = kInvalidChunkHandle THEN kInvalidChunkHandle
              ELSE H.chunks_[at[i - 1]].next]
  BY <1>5 DEF F
<1>7. Follows(H, at, n)
  <2>1. at = [k \in 0 .. n |-> at[k]]
    BY <1>6
  <2>2. at[0] = H.free_chunks_list_
    BY <1>2, <1>6
  <2>3. ASSUME NEW k \in 1 .. n PROVE at[k] = NextOnList(H, at[k - 1])
    <3>1. k \in 0 .. n /\ k # 0
      BY <1>2
    <3> QED BY <1>6, <3>1 DEF NextOnList
  <2> QED BY <2>1, <2>2, <2>3 DEF Follows
<1> QED BY <1>1, <1>7 DEF n

\* The list passes deleted chunks only, each once, and ends.
LEMMA FollowsEnds ==
  ASSUME NEW H, Sound(H), NEW f, Follows(H, f, Cardinality(DOMAIN H.chunks_))
  PROVE  LET n == Cardinality(DOMAIN H.chunks_)
         IN  /\ n \in Nat
             /\ \A k \in 0 .. n : f[k] \in Dead(H) \union {kInvalidChunkHandle}
             /\ f[n] = kInvalidChunkHandle
<1> DEFINE D == DOMAIN H.chunks_
           n == Cardinality(D)
<1>1. IsFiniteSet(D) /\ n \in Nat /\ D = 0 .. n - 1 /\ kInvalidChunkHandle \notin D
  BY FS_CardinalityType DEF Sound, HeapType, kInvalidChunkHandle
<1>2. /\ H.free_chunks_list_ \in Dead(H) \union {kInvalidChunkHandle}
      /\ \A d \in Dead(H) :
           /\ H.chunks_[d].next \in Dead(H) \union {kInvalidChunkHandle}
           /\ H.chunks_[d].next # kInvalidChunkHandle =>
                H.chunks_[d].next # H.free_chunks_list_
      /\ \A d, e \in Dead(H) :
           H.chunks_[d].next = H.chunks_[e].next /\ d # e =>
             H.chunks_[d].next = kInvalidChunkHandle
  BY DEF Sound, FreeListLinked
<1>3. Dead(H) \subseteq D
  BY DEF Dead
<1>4. Follows(H, f, n)
  OBVIOUS
<1> HIDE DEF n
<1>5. f[0] = H.free_chunks_list_
      /\ \A k \in Nat : k + 1 <= n => f[k + 1] = NextOnList(H, f[k])
  <2>1. ASSUME NEW k \in Nat, k + 1 <= n PROVE f[k + 1] = NextOnList(H, f[k])
    <3>1. k + 1 \in 1 .. n /\ (k + 1) - 1 = k
      BY <1>1, <2>1
    <3> QED BY <1>4, <3>1 DEF Follows
  <2> QED BY <1>4, <2>1 DEF Follows
<1>6. \A k \in Nat : k <= n => f[k] \in Dead(H) \union {kInvalidChunkHandle}
  <2> DEFINE P == {k \in Nat : k <= n => f[k] \in Dead(H) \union {kInvalidChunkHandle}}
  <2>1. 0 \in P
    BY <1>2, <1>5
  <2>2. ASSUME NEW k \in Nat, k \in P PROVE k + 1 \in P
    BY <1>1, <1>2, <1>5, <2>2 DEF NextOnList
  <2> HIDE DEF P
  <2>3. Nat \subseteq P
    BY <2>1, <2>2, Induct
  <2> QED BY <2>3 DEF P
<1>7. \A i, j \in Nat : i < j /\ j <= n /\ f[i] = f[j] => f[i] = kInvalidChunkHandle
  <2> DEFINE P == {i \in Nat : \A j \in Nat : i < j /\ j <= n /\ f[i] = f[j] =>
                                               f[i] = kInvalidChunkHandle}
  <2>1. 0 \in P
    <3> SUFFICES ASSUME NEW j \in Nat, 0 < j, j <= n, f[0] = f[j],
                        f[0] # kInvalidChunkHandle
                 PROVE  FALSE
      OBVIOUS
    <3>1. j - 1 \in Nat /\ (j - 1) + 1 = j /\ j - 1 <= n
      BY <1>1
    <3>2. f[j] = NextOnList(H, f[j - 1])
      BY <1>5, <3>1
    <3> QED BY <1>2, <1>5, <1>6, <3>1, <3>2 DEF NextOnList
  <2>2. ASSUME NEW i \in Nat, i \in P PROVE i + 1 \in P
    <3> SUFFICES ASSUME NEW j \in Nat, i + 1 < j, j <= n, f[i + 1] = f[j],
                        f[i + 1] # kInvalidChunkHandle
                 PROVE  FALSE
      OBVIOUS
    <3>1. /\ j - 1 \in Nat /\ (j - 1) + 1 = j /\ j - 1 <= n
          /\ i < j - 1 /\ i + 1 <= n /\ i <= n
      BY <1>1
    <3>2. f[j] = NextOnList(H, f[j - 1]) /\ f[i + 1] = NextOnList(H, f[i])
      BY <1>5, <3>1
    <3>3. f[i] = f[j - 1]
      BY <1>2, <1>6, <3>1, <3>2 DEF NextOnList
    <3>4. f[i] = kInvalidChunkHandle
      BY <2>2, <3>1, <3>3
    <3> QED BY <3>2, <3>4 DEF NextOnList
  <2> HIDE DEF P
  <2>3. Nat \subseteq P
    BY <2>1, <2>2, Induct
  <2> QED BY <2>3 DEF P
<1>8. \E k \in Nat : k <= n /\ f[k] = kInvalidChunkHandle
  <2> SUFFICES ASSUME \A k \in Nat : k <= n => f[k] \in D PROVE FALSE
    BY <1>3, <1>6
  <2>1. IsFiniteSet(0 .. n) /\ Cardinality(0 .. n) = n + 1
    BY <1>1, FS_Interval
  <2>2. f \in [0 .. n -> D]
    <3>1. \A k \in 0 .. n : f[k] \in D
      BY <1>1
    <3>2. f = [k \in 0 .. n |-> f[k]]
      BY <1>4 DEF Follows
    <3> HIDE DEF D
    <3>3. [k \in 0 .. n |-> f[k]] \in [0 .. n -> D]
      BY <3>1
    <3> QED BY <3>2, <3>3
  <2>3. Cardinality(D) < Cardinality(0 .. n)
    BY <1>1, <2>1 DEF n
  <2>4. PICK x, y \in 0 .. n : x # y /\ f[x] = f[y]
    BY <1>1, <2>1, <2>2, <2>3, FS_PigeonHole
  <2>5. x \in Nat /\ y \in Nat /\ x <= n /\ y <= n /\ (x < y \/ y < x)
    BY <1>1, <2>4
  <2> QED BY <1>1, <1>7, <2>4, <2>5
<1>9. f[n] = kInvalidChunkHandle
  <2>1. PICK k \in Nat : k <= n /\ f[k] = kInvalidChunkHandle
    BY <1>8
  <2> DEFINE P == {m \in Nat : k + m <= n => f[k + m] = kInvalidChunkHandle}
  <2>2. 0 \in P
    BY <2>1
  <2>3. ASSUME NEW m \in Nat, m \in P PROVE m + 1 \in P
    <3> SUFFICES ASSUME k + (m + 1) <= n PROVE f[k + (m + 1)] = kInvalidChunkHandle
      OBVIOUS
    <3>1. k + m \in Nat /\ k + m <= n /\ (k + m) + 1 = k + (m + 1)
      BY <1>1
    <3> QED BY <1>5, <2>3, <3>1 DEF NextOnList
  <2> HIDE DEF P
  <2>4. Nat \subseteq P
    BY <2>2, <2>3, Induct
  <2>5. n - k \in Nat /\ k + (n - k) = n
    BY <1>1, <2>1
  <2> QED BY <1>1, <2>4, <2>5 DEF P
<1>10. \A k \in 0 .. n : f[k] \in Dead(H) \union {kInvalidChunkHandle}
  BY <1>1, <1>6
<1> QED BY <1>1, <1>9, <1>10 DEF n

\* The free list is exactly the deleted chunks.
LEMMA FreeListIsDead ==
  ASSUME NEW H, Sound(H)
  PROVE  FreeList(H) = Dead(H)
<1> DEFINE n == Cardinality(DOMAIN H.chunks_)
<1>1. n \in Nat
  BY FS_CardinalityType DEF Sound, HeapType
<1>2. PICK f : /\ Follows(H, f, n)
               /\ FreeList(H) = {f[i] : i \in 0 .. n} \ {kInvalidChunkHandle}
  BY <1>1, FreeListFollows
<1>3. /\ \A k \in 0 .. n : f[k] \in Dead(H) \union {kInvalidChunkHandle}
      /\ f[n] = kInvalidChunkHandle
  BY <1>2, FollowsEnds
<1> HIDE DEF n
<1>4. FreeList(H) \in SUBSET Dead(H)
  BY <1>2, <1>3
<1>5. H.free_chunks_list_ \in FreeList(H) \union {kInvalidChunkHandle}
  BY <1>1, <1>2, 0 \in 0 .. n DEF Follows
<1>6. ASSUME NEW d \in FreeList(H)
      PROVE  H.chunks_[d].next \in FreeList(H) \union {kInvalidChunkHandle}
  <2>1. PICK k \in 0 .. n : d = f[k] /\ d # kInvalidChunkHandle
    BY <1>2
  <2>2. k + 1 \in 0 .. n /\ k + 1 \in 1 .. n /\ (k + 1) - 1 = k
    BY <1>1, <1>3, <2>1
  <2>3. f[k + 1] = H.chunks_[d].next
    BY <1>2, <2>1, <2>2 DEF Follows, NextOnList
  <2> QED BY <1>2, <2>2, <2>3
<1>7. Dead(H) \subseteq FreeList(H)
  BY <1>4, <1>5, <1>6 DEF Sound, FreeListReaches
<1> QED BY <1>4, <1>7
=============================================================================
