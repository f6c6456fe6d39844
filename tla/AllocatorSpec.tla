---------------------------- MODULE AllocatorSpec ----------------------------
(***************************************************************************)
(* What itex/core/devices/allocator.h promises the clients of a device     *)
(* allocator: AllocateRaw(num_bytes) returns nullptr or the address of a   *)
(* block of device memory of at least that size which nobody else holds,   *)
(* until DeallocateRaw(ptr) gives the block back.  How the memory is       *)
(* obtained and divided is left open.                                      *)
(***************************************************************************)
EXTENDS Integers

CONSTANTS Grain,      \* bytes in an addressable grain
          Sizes       \* the sizes clients ask for, bytes

VARIABLES memory,     \* the grains obtained from the driver
          blocks      \* the blocks clients hold: address -> size in bytes

avars == <<memory, blocks>>

\* The grains a block of num_bytes at p may touch.
Extent(p, num_bytes) == p .. p + (num_bytes + Grain - 1) \div Grain - 1

AInit == memory = {} /\ blocks = [p \in {} |-> 0]

\* A block is handed out; to serve it the pool may have grown.
Allocate(num_bytes, p) ==
  /\ memory \subseteq memory'
  /\ Extent(p, num_bytes) \subseteq memory'
  /\ \A q \in DOMAIN blocks :
       Extent(p, num_bytes) \intersect Extent(q, blocks[q]) = {}
  /\ p \notin DOMAIN blocks
  /\ blocks' = [q \in DOMAIN blocks \union {p} |->
                  IF q = p THEN num_bytes ELSE blocks[q]]

\* nullptr is returned, whether or not the pool grew on the way.
Refuse == memory \subseteq memory' /\ UNCHANGED blocks

Deallocate(p) ==
  /\ blocks' = [q \in DOMAIN blocks \ {p} |-> blocks[q]]
  /\ UNCHANGED memory

ANext ==
  \/ \E num_bytes \in Sizes \ {0}, p \in memory' : Allocate(num_bytes, p)
  \/ Refuse
  \/ \E p \in DOMAIN blocks : Deallocate(p)

ASpec == AInit /\ [][ANext]_avars

\* No byte of device memory belongs to two clients.
Exclusive ==
  \A p, q \in DOMAIN blocks :
    p # q => Extent(p, blocks[p]) \intersect Extent(q, blocks[q]) = {}

=============================================================================
