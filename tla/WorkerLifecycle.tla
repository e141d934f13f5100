--------------------------- MODULE WorkerLifecycle --------------------------
(***************************************************************************)
(* Setup and teardown of a data-plane worker: rewsr_dp_worker_init with the *)
(* rewsr_xsk_umem_create and rewsr_xsk_socket_create it calls, in which any *)
(* system call may fail, and the destroy functions the failure paths and    *)
(* the caller run.  A step is one call that can fail, or one release.       *)
(*                                                                          *)
(* The socket borrows the descriptor of the UMEM (xsk->fd = umem->fd), so   *)
(* two records name it.  Once it is closed the rest of the process may be   *)
(* given the same number for a file of its own.  Before that the memset has *)
(* left xsk->fd at 0, which is the standard input.                          *)
(***************************************************************************)
EXTENDS Integers, Sequences

VARIABLES
    pc,        \* "out" (of the library), "init" or "destroy"
    step,      \* the step of rewsr_dp_worker_init that runs next
    todo,      \* releases still to make before the library returns
    held,      \* what the process holds for the worker
    umem, xsk, \* what the fields of w->umem and w->xsk name
    zeroed,    \* xsk->fd is the 0 of the memset
    foreign,   \* another file of the process has the worker's old fd number
    stdin,     \* descriptor 0 is open
    result     \* what the last call left behind

vars == <<pc, step, todo, held, umem, xsk, zeroed, foreign, stdin, result>>

UmemFields == {"area", "fd", "fill_map", "comp_map", "pool_stack"}
XskFields == {"fd", "rx_map", "tx_map"}
Resources == UmemFields \cup XskFields

-----------------------------------------------------------------------------
(* The releases of a destroy function, in its order.                        *)

Release(of, field) == [of |-> of, field |-> field]

UmemDestroy ==
    << Release("umem", "fill_map"), Release("umem", "comp_map"), Release("umem", "fd"),
       Release("umem", "area"), Release("umem", "pool_stack") >>

SocketDestroy ==
    << Release("xsk", "rx_map"), Release("xsk", "tx_map"), Release("xsk", "fd") >>

WorkerDestroy == SocketDestroy \o UmemDestroy

(* The calls of rewsr_dp_worker_init that can fail: the record the success  *)
(* is noted in, the field, and the releases on failure.  A ring that is     *)
(* mapped and then rejected by rewsr_xsk_ring_init is unmapped by map_ring  *)
(* itself, so for its caller that is one failing call.                      *)

Acquire(of, field, undo) == [of |-> of, field |-> field, undo |-> undo]
Ask(undo) == Acquire("none", "none", undo)

UmemCreate ==
    << Acquire("umem", "area", <<>>),                 \* mmap
       Acquire("umem", "fd", UmemDestroy),            \* socket
       Ask(UmemDestroy),                              \* XDP_UMEM_REG
       Ask(UmemDestroy),                              \* FILL_RING and COMPLETION_RING
       Ask(UmemDestroy),                              \* MMAP_OFFSETS
       Acquire("umem", "fill_map", UmemDestroy),
       Acquire("umem", "comp_map", UmemDestroy),
       Acquire("umem", "pool_stack", UmemDestroy),    \* calloc
       Ask(UmemDestroy) >>                            \* rewsr_frame_pool_init

\* Mutation of SocketCreate: a failed bind leaves the rings mapped
SocketCreateNoUndo ==
    << Ask(UmemDestroy), Acquire("xsk", "fd", UmemDestroy), Ask(UmemDestroy),
       Acquire("xsk", "rx_map", UmemDestroy), Acquire("xsk", "tx_map", UmemDestroy),
       Ask(UmemDestroy) >>

\* Until the RX ring is mapped there is nothing for socket_create to undo;
\* rewsr_dp_worker_init destroys the UMEM after every failure.
SocketCreate ==
    << Ask(UmemDestroy),                              \* if_nametoindex
       Acquire("xsk", "fd", UmemDestroy),             \* RX_RING and TX_RING
       Ask(UmemDestroy),                              \* MMAP_OFFSETS
       Acquire("xsk", "rx_map", UmemDestroy),
       Acquire("xsk", "tx_map", SocketDestroy \o UmemDestroy),
       Ask(SocketDestroy \o UmemDestroy) >>           \* bind

\* The last step is rewsr_pktgen_init, which a SINK skips.
WorkerInit == UmemCreate \o SocketCreate \o << Ask(WorkerDestroy) >>

-----------------------------------------------------------------------------
TypeOK ==
    /\ pc \in {"out", "init", "destroy"}
    /\ step \in 1 .. Len(WorkerInit)
    /\ todo \in Seq([of : {"umem", "xsk"}, field : Resources])
    /\ held \subseteq Resources
    /\ umem \subseteq UmemFields /\ xsk \subseteq XskFields
    /\ {zeroed, foreign, stdin} \subseteq BOOLEAN
    /\ result \in {"none", "ok", "failed", "destroyed"}

Init ==
    /\ pc = "out"
    /\ step = 1
    /\ todo = <<>>
    /\ held = {} /\ umem = {} /\ xsk = {}
    /\ zeroed = FALSE /\ foreign = FALSE /\ stdin = TRUE
    /\ result = "none"

\* The caller does not set up a worker that is running.  The memset clears
\* the fields, an old number is forgotten; umem_create sets its fd to -1.
CallInit ==
    /\ pc = "out" /\ result # "ok"
    /\ pc' = "init"
    /\ step' = 1
    /\ umem' = {} /\ xsk' = {}
    /\ zeroed' = TRUE /\ foreign' = FALSE
    /\ UNCHANGED <<todo, held, stdin, result>>

LastStep == step = Len(WorkerInit)

\* After the last call of umem_create, socket_create begins with xsk->fd = -1.
StepSucceeds ==
    LET s == WorkerInit[step]
    IN  /\ pc = "init"
        /\ zeroed' = (zeroed /\ step # Len(UmemCreate))
        /\ umem' = IF s.of = "umem" THEN umem \cup {s.field} ELSE umem
        /\ xsk' = IF s.of = "xsk" THEN xsk \cup {s.field} ELSE xsk
        /\ held' = held \cup (IF s.of = "none" THEN {} ELSE {s.field})
        /\ pc' = IF LastStep THEN "out" ELSE "init"
        /\ step' = IF LastStep THEN 1 ELSE step + 1
        /\ result' = IF LastStep THEN "ok" ELSE result
        /\ UNCHANGED <<todo, foreign, stdin>>

\* xsk->fd is assigned before the call that may fail: it stays named.
StepFails ==
    LET s == WorkerInit[step]
    IN  /\ pc = "init"
        /\ xsk' = IF s.of = "xsk" /\ s.field = "fd" THEN xsk \cup {"fd"} ELSE xsk
        /\ todo' = s.undo
        /\ pc' = "destroy"
        /\ step' = 1
        /\ result' = "failed"
        /\ UNCHANGED <<held, umem, zeroed, foreign, stdin>>

\* rewsr_dp_worker_destroy, after any call of init and as often as one likes
CallDestroy ==
    /\ pc = "out" /\ result # "none"
    /\ todo' = WorkerDestroy
    /\ pc' = "destroy"
    /\ result' = IF result = "ok" THEN "destroyed" ELSE result
    /\ UNCHANGED <<step, held, umem, xsk, zeroed, foreign, stdin>>

\* Mutation of OwnsUmem: the socket thinks the descriptor is its own
OwnsUmemSet == TRUE

\* xsk->owns_umem, which the memset and rewsr_xsk_socket_create set to 0
OwnsUmem == FALSE

\* Mutation of ReleaseNext: the released field is not cleared
ReleaseNextUncleared ==
    /\ pc = "destroy" /\ todo # <<>>
    /\ todo' = Tail(todo)
    /\ held' = held \ {Head(todo).field}
    /\ UNCHANGED <<pc, step, umem, xsk, zeroed, foreign, stdin, result>>

\* A field that names nothing is skipped.  The socket clears its fd and
\* closes it only if it owns it.
ReleaseNext ==
    LET r == Head(todo)
        named == r.field \in (IF r.of = "umem" THEN umem ELSE xsk)
        socketFd == r = Release("xsk", "fd")
        closes == named /\ (socketFd => OwnsUmem)
    IN  /\ pc = "destroy" /\ todo # <<>>
        /\ todo' = Tail(todo)
        /\ held' = IF closes THEN held \ {r.field} ELSE held
        /\ foreign' = (foreign /\ ~(closes /\ r.field = "fd"))
        /\ stdin' = (stdin /\ ~(zeroed /\ socketFd /\ OwnsUmem))
        /\ zeroed' = (zeroed /\ ~socketFd)
        /\ umem' = IF r.of = "umem" THEN umem \ {r.field} ELSE umem
        /\ xsk' = IF r.of = "xsk" THEN xsk \ {r.field} ELSE xsk
        /\ UNCHANGED <<pc, step, result>>

DestroyReturns ==
    /\ pc = "destroy" /\ todo = <<>>
    /\ pc' = "out"
    /\ UNCHANGED <<step, todo, held, umem, xsk, zeroed, foreign, stdin, result>>

\* Another thread opens a file and gets the number the worker just closed.
NumberReused ==
    /\ "fd" \notin held
    /\ ~foreign
    /\ "fd" \in umem \cup xsk
    /\ foreign' = TRUE
    /\ UNCHANGED <<pc, step, todo, held, umem, xsk, zeroed, stdin, result>>

Next ==
    \/ CallInit \/ StepSucceeds \/ StepFails \/ CallDestroy
    \/ ReleaseNext \/ DestroyReturns \/ NumberReused

Spec == Init /\ [][Next]_vars

-----------------------------------------------------------------------------
(* rewsr_dp_worker_init is all or nothing, whichever of its calls fails: it *)
(* returns 0 with everything acquired and recorded, or an error with        *)
(* nothing left; after destroy nothing is left either.                      *)
AllOrNothing ==
    pc = "out" => IF result = "ok"
                  THEN held = Resources /\ umem = UmemFields /\ xsk = XskFields /\ ~zeroed
                  ELSE held = {}

(* A field that will be released names something the worker holds, so       *)
(* nothing is unmapped, freed or closed twice.                              *)
NothingReleasedTwice ==
    /\ umem \subseteq held
    /\ xsk \ {"fd"} \subseteq held

(* A failed umem_create leaves xsk->fd at 0, a failed socket_create leaves  *)
(* it naming a descriptor that umem destroy closes.  Whoever has that       *)
(* number by now keeps the file: destroy never closes it, nor the standard  *)
(* input.                                                                   *)
ForeignFileKept ==
    [][pc = "destroy" => (foreign => foreign') /\ (stdin => stdin')]_vars
=============================================================================
