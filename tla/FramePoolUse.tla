---------------------------- MODULE FramePoolUse ----------------------------
(***************************************************************************)
(* A frame pool and its one caller, who allocates chunks and frees chunks it *)
(* holds by any address inside them: the kernel returns a chunk with an     *)
(* offset for headroom.  The caller also tries addresses outside the UMEM,  *)
(* as test_frame_pool.c does.                                               *)
(***************************************************************************)
EXTENDS FramePool, FiniteSets

VARIABLES
    pool,   \* the free chunks
    held    \* the chunks the caller, or the kernel on its behalf, owns

vars == <<pool, held>>

TypeOK ==
    /\ pool \in Seq(Frames)
    /\ held \in SUBSET Frames

Init ==
    /\ pool = PoolSeed
    /\ held = {}

Alloc ==
    /\ CanAlloc(pool)
    /\ held' = held \cup {Top(pool)}
    /\ pool' = Popped(pool, 1)

\* return 0
AllocFails ==
    /\ ~CanAlloc(pool)
    /\ UNCHANGED vars

Free(f, offset) ==
    /\ f \in held
    /\ pool' = PoolFree(pool, f + offset)
    /\ held' = held \ {f}

FreeOutside(offset) ==
    /\ pool' = PoolFree(pool, NumFrames * ChunkSize + offset)
    /\ UNCHANGED held

Next ==
    \/ Alloc
    \/ AllocFails
    \/ \E f \in Frames, offset \in 0 .. ChunkSize - 1 : Free(f, offset)
    \/ \E offset \in 0 .. ChunkSize - 1 : FreeOutside(offset)

Spec == Init /\ [][Next]_vars

-----------------------------------------------------------------------------
(* "The pool must never lose or duplicate a frame" (test_frame_pool.c:84):  *)
(* no chunk is in the pool twice, or both in the pool and held, and no      *)
(* chunk is in neither.                                                     *)
NoFrameLostOrDuplicated ==
    /\ \A i, j \in DOMAIN pool : pool[i] = pool[j] => i = j
    /\ \A i \in DOMAIN pool : pool[i] \notin held
    /\ \A f \in Frames : f \in held \/ \E i \in DOMAIN pool : pool[i] = f

(* A chunk the caller holds is always taken back: the capacity check of     *)
(* rewsr_frame_pool_free, whose failure every caller ignores, never fires.  *)
HeldIsAccepted ==
    \A f \in held : \A offset \in 0 .. ChunkSize - 1 : Accepts(pool, f + offset)

\* The count that makes HeldIsAccepted inductive.
PoolInv ==
    /\ TypeOK
    /\ NoFrameLostOrDuplicated
    /\ IsFiniteSet(held)
    /\ Len(pool) + Cardinality(held) = NumFrames
=============================================================================
