--------------------------- MODULE FramePoolProofs --------------------------
(* The frame pool conserves frames for every number and size of chunks.     *)
EXTENDS FramePoolUse, RemainderLemmas, SequenceTheorems, FiniteSetTheorems, TLAPS

(* Any address inside a chunk is masked down to that chunk.                 *)
LEMMA BaseOfFrame ==
    ASSUME NEW f \in Frames, NEW offset \in 0 .. ChunkSize - 1
    PROVE  ChunkBase(f + offset) = f
<1>1. PICK k \in 0 .. NumFrames - 1 : f = k * ChunkSize
  BY DEF Frames
<1>2. (k * ChunkSize + offset) % ChunkSize = offset
  BY <1>1, OffsetRemainder, ChunkSizeAssumption, NumFramesAssumption
<1>3. k * ChunkSize \in Int
  BY <1>1, ChunkSizeAssumption, NumFramesAssumption
<1> QED
  BY <1>1, <1>2, <1>3, ChunkSizeAssumption DEF ChunkBase

(* The chunks lie below the end of the UMEM.                                *)
LEMMA FrameInside ==
    ASSUME NEW f \in Frames
    PROVE  f \in Nat /\ f < NumFrames * ChunkSize
<1>1. PICK k \in 0 .. NumFrames - 1 : f = k * ChunkSize
  BY DEF Frames
<1>2. (NumFrames - k) * ChunkSize > 0
  BY <1>1, ChunkSizeAssumption, NumFramesAssumption
<1> QED
  BY <1>1, <1>2, ChunkSizeAssumption, NumFramesAssumption

(* An address past the end of the UMEM is refused.                          *)
LEMMA OutsideRefused ==
    ASSUME NEW offset \in 0 .. ChunkSize - 1
    PROVE  PoolFree(pool, NumFrames * ChunkSize + offset) = pool
<1>1. (NumFrames * ChunkSize + offset) % ChunkSize = offset
  BY OffsetRemainder, ChunkSizeAssumption, NumFramesAssumption
<1>2. ChunkBase(NumFrames * ChunkSize + offset) = NumFrames * ChunkSize
  BY <1>1, ChunkSizeAssumption, NumFramesAssumption DEF ChunkBase
<1>3. NumFrames * ChunkSize \in Int
  BY ChunkSizeAssumption, NumFramesAssumption
<1> QED
  BY <1>2, <1>3 DEF PoolFree, Accepts

(* The seeded pool holds every chunk once.                                  *)
LEMMA PoolInit == Init => PoolInv
<1> SUFFICES ASSUME Init PROVE PoolInv
  OBVIOUS
<1>1. /\ DOMAIN pool = 1 .. NumFrames /\ Len(pool) = NumFrames
      /\ \A i \in 1 .. NumFrames : pool[i] = (NumFrames - i) * ChunkSize
  BY NumFramesAssumption DEF Init, PoolSeed
<1>2. \A i \in 1 .. NumFrames : pool[i] \in Frames
  <2> SUFFICES ASSUME NEW i \in 1 .. NumFrames PROVE pool[i] \in Frames
    OBVIOUS
  <2>1. NumFrames - i \in 0 .. NumFrames - 1
    BY NumFramesAssumption
  <2> QED
    BY <1>1, <2>1 DEF Frames
<1>3. pool \in Seq(Frames)
  BY <1>1, <1>2, NumFramesAssumption DEF Init, PoolSeed
<1>4. ASSUME NEW i \in DOMAIN pool, NEW j \in DOMAIN pool, pool[i] = pool[j]
      PROVE  i = j
  <2>1. i \in Int /\ j \in Int
    BY <1>1, NumFramesAssumption
  <2>2. (j - i) * ChunkSize = 0
    BY <1>1, <1>4, <2>1, ChunkSizeAssumption, NumFramesAssumption
  <2>3. j - i = 0
    BY <2>1, <2>2, SmallMultiple, ChunkSizeAssumption
  <2> QED
    BY <2>1, <2>3
<1>5. ASSUME NEW f \in Frames
      PROVE  \E i \in DOMAIN pool : pool[i] = f
  <2>1. PICK k \in 0 .. NumFrames - 1 : f = k * ChunkSize
    BY DEF Frames
  <2>2. NumFrames - k \in 1 .. NumFrames /\ NumFrames - (NumFrames - k) = k
    BY NumFramesAssumption
  <2>3. pool[NumFrames - k] = f
    BY <1>1, <2>1, <2>2
  <2> QED
    BY <1>1, <2>2, <2>3
<1>6. held = {} /\ IsFiniteSet(held) /\ Cardinality(held) = 0
  BY FS_EmptySet DEF Init
<1> QED
  BY <1>1, <1>3, <1>4, <1>5, <1>6, NumFramesAssumption
  DEF PoolInv, TypeOK, NoFrameLostOrDuplicated

(* Taking the top chunk moves it from the pool to the caller.               *)
LEMMA AllocKeeps == PoolInv /\ Alloc => PoolInv'
<1> SUFFICES ASSUME PoolInv, Alloc PROVE PoolInv'
  OBVIOUS
<1> DEFINE n == Len(pool)
<1>1. pool \in Seq(Frames) /\ n \in Nat /\ n > 0 /\ DOMAIN pool = 1 .. n /\ pool[n] \in Frames
  BY LenProperties DEF PoolInv, TypeOK, Alloc, CanAlloc
<1>2. /\ pool' = SubSeq(pool, 1, n - 1)
      /\ held' = held \cup {pool[n]}
  BY DEF Alloc, Popped, Top
<1>3. /\ pool' \in Seq(Frames) /\ Len(pool') = n - 1 /\ DOMAIN pool' = 1 .. n - 1
      /\ \A i \in 1 .. n - 1 : pool'[i] = pool[i]
  BY <1>1, <1>2, SubSeqProperties
<1>4. pool[n] \notin held
  BY <1>1 DEF PoolInv, NoFrameLostOrDuplicated
<1>5. IsFiniteSet(held') /\ Cardinality(held') = Cardinality(held) + 1
  BY <1>2, <1>4, FS_AddElement DEF PoolInv
<1>6. NoFrameLostOrDuplicated'
  <2>1. \A i, j \in DOMAIN pool' : pool'[i] = pool'[j] => i = j
    BY <1>1, <1>3 DEF PoolInv, NoFrameLostOrDuplicated
  <2>2. \A i \in DOMAIN pool' : pool'[i] \notin held'
    BY <1>1, <1>2, <1>3 DEF PoolInv, NoFrameLostOrDuplicated
  <2>3. ASSUME NEW f \in Frames, f \notin held'
        PROVE  \E i \in DOMAIN pool' : pool'[i] = f
    <3>1. PICK i \in 1 .. n : pool[i] = f
      BY <1>1, <1>2, <2>3 DEF PoolInv, NoFrameLostOrDuplicated
    <3>2. i # n
      BY <1>2, <2>3, <3>1
    <3>3. i \in 1 .. n - 1
      <4>1. n \in Nat
        BY <1>1
      <4> QED
        BY <3>1, <3>2, <4>1
    <3> QED
      BY <1>3, <3>1, <3>3
  <2> QED
    BY <2>1, <2>2, <2>3 DEF NoFrameLostOrDuplicated
<1>7. Cardinality(held) \in Nat
  BY FS_CardinalityType DEF PoolInv
<1> QED
  BY <1>1, <1>2, <1>3, <1>5, <1>6, <1>7, NumFramesAssumption DEF PoolInv, TypeOK

(* While a chunk is held the pool has room for it.                          *)
LEMMA RoomForHeld ==
    ASSUME PoolInv, NEW f \in held, NEW offset \in 0 .. ChunkSize - 1
    PROVE  Accepts(pool, f + offset) /\ ChunkBase(f + offset) = f
<1>1. f \in Frames
  BY DEF PoolInv, TypeOK
<1>2. Cardinality(held) \in Nat /\ Cardinality(held) # 0
  BY FS_CardinalityType, FS_EmptySet DEF PoolInv
<1>3. Len(pool) \in Nat
  BY LenProperties DEF PoolInv, TypeOK
<1>4. Len(pool) < NumFrames
  BY <1>2, <1>3, NumFramesAssumption DEF PoolInv
<1> QED
  BY <1>1, <1>4, BaseOfFrame, FrameInside DEF Accepts

(* Freeing a held chunk moves it from the caller to the top of the pool.    *)
LEMMA FreeKeeps ==
    ASSUME PoolInv, NEW f \in Frames, NEW offset \in 0 .. ChunkSize - 1, Free(f, offset)
    PROVE  PoolInv'
<1> DEFINE n == Len(pool)
<1>1. f \in held /\ held' = held \ {f} /\ pool' = Append(pool, f)
  BY RoomForHeld DEF Free, PoolFree
<1>2. pool \in Seq(Frames) /\ n \in Nat /\ DOMAIN pool = 1 .. n
  BY LenProperties DEF PoolInv, TypeOK
<1>3. /\ pool' \in Seq(Frames) /\ Len(pool') = n + 1 /\ DOMAIN pool' = 1 .. n + 1
      /\ \A i \in 1 .. n : pool'[i] = pool[i]
      /\ pool'[n + 1] = f
  BY <1>1, <1>2, AppendProperties, LenProperties
<1>4. IsFiniteSet(held') /\ Cardinality(held') = Cardinality(held) - 1
  BY <1>1, FS_RemoveElement DEF PoolInv
<1>5. \A i \in 1 .. n : pool[i] # f /\ pool[i] \notin held
  BY <1>1, <1>2 DEF PoolInv, NoFrameLostOrDuplicated
<1>6. \A i \in DOMAIN pool' : i \in 1 .. n \/ i = n + 1
  BY <1>2, <1>3
<1>7. NoFrameLostOrDuplicated'
  <2>1. \A i, j \in DOMAIN pool' : pool'[i] = pool'[j] => i = j
    BY <1>2, <1>3, <1>5, <1>6 DEF PoolInv, NoFrameLostOrDuplicated
  <2>2. \A i \in DOMAIN pool' : pool'[i] \notin held'
    BY <1>1, <1>3, <1>5, <1>6
  <2>3. ASSUME NEW g \in Frames, g \notin held'
        PROVE  \E i \in DOMAIN pool' : pool'[i] = g
    <3>1. CASE g = f
      BY <1>2, <1>3, <3>1
    <3>2. CASE g # f
      <4>1. PICK i \in 1 .. n : pool[i] = g
        BY <1>1, <1>2, <2>3, <3>2 DEF PoolInv, NoFrameLostOrDuplicated
      <4> QED
        BY <1>2, <1>3, <4>1
    <3> QED
      BY <3>1, <3>2
  <2> QED
    BY <2>1, <2>2, <2>3 DEF NoFrameLostOrDuplicated
<1>8. Cardinality(held) \in Nat
  BY FS_CardinalityType DEF PoolInv
<1> QED
  BY <1>1, <1>2, <1>3, <1>4, <1>7, <1>8, NumFramesAssumption DEF PoolInv, TypeOK

(* A call that changes nothing keeps the invariant.                         *)
LEMMA StutterKeeps == PoolInv /\ UNCHANGED vars => PoolInv'
BY DEF PoolInv, TypeOK, NoFrameLostOrDuplicated, vars

(* The inductive invariant holds in every reachable state.                  *)
THEOREM PoolInvariant == Spec => []PoolInv
<1>1. PoolInv /\ [Next]_vars => PoolInv'
  <2> SUFFICES ASSUME PoolInv, [Next]_vars PROVE PoolInv'
    OBVIOUS
  <2>1. ASSUME NEW offset \in 0 .. ChunkSize - 1, FreeOutside(offset) PROVE PoolInv'
    BY <2>1, OutsideRefused, StutterKeeps DEF FreeOutside, vars
  <2> QED
    BY <2>1, AllocKeeps, FreeKeeps, StutterKeeps DEF Next, AllocFails
<1> QED
  BY PoolInit, <1>1, PTL DEF Spec

(* For every UMEM the pool neither loses nor duplicates a frame, whatever   *)
(* offsets the kernel returns.                                              *)
THEOREM FramesConserved == Spec => []NoFrameLostOrDuplicated
<1>1. PoolInv => NoFrameLostOrDuplicated
  BY DEF PoolInv
<1> QED
  BY PoolInvariant, <1>1, PTL

(* The result of rewsr_frame_pool_free that every caller ignores is 1.      *)
THEOREM FreeNeverRefused == Spec => []HeldIsAccepted
<1>1. PoolInv => HeldIsAccepted
  BY RoomForHeld DEF HeldIsAccepted
<1> QED
  BY PoolInvariant, <1>1, PTL
=============================================================================
