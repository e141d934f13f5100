----------------------------- MODULE FramePool ------------------------------
(***************************************************************************)
(* The operations of csrc/xdp/frame_pool.c on a pool: a stack of chunk      *)
(* addresses, written here as a sequence whose last element is the top.     *)
(***************************************************************************)
EXTENDS Integers, Sequences

CONSTANTS
    NumFrames,   \* chunks in the UMEM, the pool's capacity
    ChunkSize    \* bytes per chunk, a power of two

ASSUME NumFramesAssumption == NumFrames \in Nat \ {0}
ASSUME ChunkSizeAssumption == ChunkSize \in Nat \ {0}

\* The chunk addresses.
Frames == {k * ChunkSize : k \in 0 .. NumFrames - 1}

\* rewsr_frame_pool_init: pushed from the highest address down
PoolSeed == [i \in 1 .. NumFrames |-> (NumFrames - i) * ChunkSize]

\* Mutation of ChunkBase: the offset is kept
ChunkBaseUnmasked(addr) == addr

\* rewsr_frame_pool_chunk_base: addr & ~(chunk_size - 1)
ChunkBase(addr) == addr - (addr % ChunkSize)

\* rewsr_frame_pool_alloc: fails when the pool is empty, else pops the top
CanAlloc(p) == Len(p) > 0
Top(p) == p[Len(p)]
Popped(p, n) == SubSeq(p, 1, Len(p) - n)

\* Mutation of Accepts: the capacity test off by one
AcceptsOffByOne(p, addr) ==
    /\ Len(p) + 1 < NumFrames
    /\ ChunkBase(addr) < NumFrames * ChunkSize

\* rewsr_frame_pool_free: refused when the pool is full or the address lies
\* outside the UMEM, else the chunk base is pushed.  A chunk that is in the
\* pool already is not noticed.
Accepts(p, addr) ==
    /\ Len(p) < NumFrames
    /\ ChunkBase(addr) < NumFrames * ChunkSize

PoolFree(p, addr) == IF Accepts(p, addr) THEN Append(p, ChunkBase(addr)) ELSE p

\* PoolFree of one address after the other, what rx_burst and tx_complete do
PoolFreeAll(p, addrs) ==
    LET freed[i \in 0 .. Len(addrs)] ==
          IF i = 0 THEN p ELSE PoolFree(freed[i - 1], addrs[i])
    IN  freed[Len(addrs)]
=============================================================================
