------------------------ MODULE WorkerLifecycleProofs -----------------------
(***************************************************************************)
(* Proofs about WorkerLifecycle: whichever call fails, however often init   *)
(* and destroy are called.  The inductive invariant says what each record   *)
(* names while rewsr_dp_worker_init runs (what its steps so far noted),     *)
(* that what is held is exactly what the records name, the borrowed         *)
(* descriptor aside, and that while a destroy function runs everything      *)
(* still named is still on its list.                                        *)
(***************************************************************************)
EXTENDS WorkerLifecycle, SequenceTheorems, TLAPS

Releases == [of : {"umem", "xsk"}, field : Resources]

\* The releases on a list.
Pending(s) == {s[i] : i \in DOMAIN s}

(* The head of a list and the rest of it.                                   *)
LEMMA PendingIs ==
    ASSUME NEW s \in Seq(Releases), s # <<>>
    PROVE  /\ Head(s) \in Releases /\ Tail(s) \in Seq(Releases)
           /\ Pending(s) \subseteq {Head(s)} \cup Pending(Tail(s))
<1>1. Len(s) \in Nat /\ DOMAIN s = 1 .. Len(s)
  BY LenProperties
<1>2. /\ Head(s) = s[1] /\ Head(s) \in Releases /\ Tail(s) \in Seq(Releases)
      /\ Len(Tail(s)) = Len(s) - 1 /\ \A i \in 1 .. Len(Tail(s)) : Tail(s)[i] = s[i + 1]
  BY HeadTailProperties
<1>3. DOMAIN Tail(s) = 1 .. Len(Tail(s))
  BY <1>2, LenProperties
<1>4. ASSUME NEW i \in 1 .. Len(s), i # 1 PROVE s[i] \in Pending(Tail(s))
  <2>1. i - 1 \in 1 .. Len(Tail(s)) /\ (i - 1) + 1 = i
    BY <1>1, <1>2, <1>4
  <2> QED
    BY <1>2, <1>3, <2>1 DEF Pending
<1> QED
  BY <1>1, <1>2, <1>4 DEF Pending

(* The releases of two lists joined.                                        *)
LEMMA PendingJoined ==
    ASSUME NEW s \in Seq(Releases), NEW t \in Seq(Releases)
    PROVE  s \o t \in Seq(Releases) /\ Pending(s) \cup Pending(t) \subseteq Pending(s \o t)
<1> DEFINE m == Len(s)
           n == Len(t)
           w == s \o t
<1>1. m \in Nat /\ n \in Nat /\ DOMAIN s = 1 .. m /\ DOMAIN t = 1 .. n
  BY LenProperties
<1>2. /\ w \in Seq(Releases) /\ Len(w) = m + n
      /\ \A k \in 1 .. m + n : w[k] = IF k <= m THEN s[k] ELSE t[k - m]
  BY ConcatProperties
<1>3. DOMAIN w = 1 .. m + n
  BY <1>2, LenProperties
<1> HIDE DEF m, n, w
<1>4. ASSUME NEW k \in 1 .. m PROVE s[k] \in Pending(w)
  <2>1. k \in 1 .. m + n /\ k <= m
    BY <1>1
  <2> QED
    BY <1>2, <1>3, <2>1 DEF Pending
<1>5. ASSUME NEW k \in 1 .. n PROVE t[k] \in Pending(w)
  <2>1. m + k \in 1 .. m + n /\ ~(m + k <= m) /\ (m + k) - m = k
    BY <1>1
  <2>2. w[m + k] = t[k]
    BY <1>2, <2>1
  <2> QED
    BY <1>3, <2>1, <2>2 DEF Pending
<1>6. Pending(s) \subseteq Pending(w) /\ Pending(t) \subseteq Pending(w)
  BY <1>1, <1>4, <1>5 DEF Pending
<1> QED
  BY <1>2, <1>6 DEF w

(* A destroy function releases every field it is responsible for.           *)
LEMMA DestroyLists ==
    /\ UmemDestroy \in Seq(Releases)
    /\ \A f \in UmemFields : Release("umem", f) \in Pending(UmemDestroy)
    /\ WorkerDestroy \in Seq(Releases)
    /\ \A f \in UmemFields : Release("umem", f) \in Pending(WorkerDestroy)
    /\ \A f \in XskFields : Release("xsk", f) \in Pending(WorkerDestroy)
<1>1. UmemDestroy \in Seq(Releases) /\ DOMAIN UmemDestroy = 1 .. 5
  BY DEF UmemDestroy, Release, Releases, Resources, UmemFields, XskFields
<1>2. \A f \in UmemFields : Release("umem", f) \in Pending(UmemDestroy)
  <2>1. /\ UmemDestroy[1] = Release("umem", "fill_map")
        /\ UmemDestroy[2] = Release("umem", "comp_map")
        /\ UmemDestroy[3] = Release("umem", "fd")
        /\ UmemDestroy[4] = Release("umem", "area")
        /\ UmemDestroy[5] = Release("umem", "pool_stack")
    BY DEF UmemDestroy
  <2>2. {1, 2, 3, 4, 5} \subseteq DOMAIN UmemDestroy
    BY <1>1
  <2> QED
    BY <2>1, <2>2 DEF Pending, UmemFields
<1>3. SocketDestroy \in Seq(Releases) /\ DOMAIN SocketDestroy = 1 .. 3
  BY DEF SocketDestroy, Release, Releases, Resources, UmemFields, XskFields
<1>4. \A f \in XskFields : Release("xsk", f) \in Pending(SocketDestroy)
  <2>1. /\ SocketDestroy[1] = Release("xsk", "rx_map")
        /\ SocketDestroy[2] = Release("xsk", "tx_map")
        /\ SocketDestroy[3] = Release("xsk", "fd")
    BY DEF SocketDestroy
  <2>2. {1, 2, 3} \subseteq DOMAIN SocketDestroy
    BY <1>3
  <2> QED
    BY <2>1, <2>2 DEF Pending, XskFields
<1>5. /\ WorkerDestroy \in Seq(Releases)
      /\ Pending(SocketDestroy) \cup Pending(UmemDestroy) \subseteq Pending(WorkerDestroy)
  BY <1>1, <1>3, PendingJoined DEF WorkerDestroy
<1> QED
  BY <1>1, <1>2, <1>4, <1>5

-----------------------------------------------------------------------------
(* The steps of rewsr_dp_worker_init, one by one.                           *)
LEMMA Steps ==
    /\ Len(WorkerInit) = 16 /\ Len(UmemCreate) = 9
    /\ WorkerInit[1] = Acquire("umem", "area", <<>>)
    /\ WorkerInit[2] = Acquire("umem", "fd", UmemDestroy)
    /\ WorkerInit[3] = Ask(UmemDestroy)
    /\ WorkerInit[4] = Ask(UmemDestroy)
    /\ WorkerInit[5] = Ask(UmemDestroy)
    /\ WorkerInit[6] = Acquire("umem", "fill_map", UmemDestroy)
    /\ WorkerInit[7] = Acquire("umem", "comp_map", UmemDestroy)
    /\ WorkerInit[8] = Acquire("umem", "pool_stack", UmemDestroy)
    /\ WorkerInit[9] = Ask(UmemDestroy)
    /\ WorkerInit[10] = Ask(UmemDestroy)
    /\ WorkerInit[11] = Acquire("xsk", "fd", UmemDestroy)
    /\ WorkerInit[12] = Ask(UmemDestroy)
    /\ WorkerInit[13] = Acquire("xsk", "rx_map", UmemDestroy)
    /\ WorkerInit[14] = Acquire("xsk", "tx_map", WorkerDestroy)
    /\ WorkerInit[15] = Ask(WorkerDestroy)
    /\ WorkerInit[16] = Ask(WorkerDestroy)
<1> DEFINE S == {Acquire(o, f, u) : o \in {"umem", "xsk", "none"},
                                    f \in Resources \cup {"none"},
                                    u \in {<<>>, UmemDestroy, WorkerDestroy}}
           a == UmemCreate
           b == SocketCreate
           c == << Ask(WorkerDestroy) >>
<1>1. \A o \in {"umem", "xsk", "none"}, f \in Resources \cup {"none"},
         u \in {<<>>, UmemDestroy, WorkerDestroy} : Acquire(o, f, u) \in S
  OBVIOUS
<1>2. /\ a = << Acquire("umem", "area", <<>>), Acquire("umem", "fd", UmemDestroy),
                Acquire("none", "none", UmemDestroy), Acquire("none", "none", UmemDestroy),
                Acquire("none", "none", UmemDestroy), Acquire("umem", "fill_map", UmemDestroy),
                Acquire("umem", "comp_map", UmemDestroy),
                Acquire("umem", "pool_stack", UmemDestroy), Acquire("none", "none", UmemDestroy) >>
      /\ b = << Acquire("none", "none", UmemDestroy), Acquire("xsk", "fd", UmemDestroy),
                Acquire("none", "none", UmemDestroy), Acquire("xsk", "rx_map", UmemDestroy),
                Acquire("xsk", "tx_map", WorkerDestroy), Acquire("none", "none", WorkerDestroy) >>
      /\ c = << Acquire("none", "none", WorkerDestroy) >>
  BY DEF UmemCreate, SocketCreate, WorkerDestroy, Ask
<1> HIDE DEF S, a, b, c
<1>3. a \in Seq(S) /\ Len(a) = 9
  BY <1>1, <1>2 DEF Resources, UmemFields, XskFields
<1>4. b \in Seq(S) /\ Len(b) = 6
  BY <1>1, <1>2 DEF Resources, UmemFields, XskFields
<1>5. c \in Seq(S) /\ Len(c) = 1
  BY <1>1, <1>2
<1> DEFINE d == a \o b
           w == d \o c
<1>6. /\ d \in Seq(S) /\ Len(d) = 15
      /\ \A k \in 1 .. 15 : d[k] = IF k <= 9 THEN a[k] ELSE b[k - 9]
  <2>1. /\ d \in Seq(S) /\ Len(d) = Len(a) + Len(b)
        /\ \A k \in 1 .. Len(a) + Len(b) :
             d[k] = IF k <= Len(a) THEN a[k] ELSE b[k - Len(a)]
    BY <1>3, <1>4, ConcatProperties, Zenon
  <2>2. Len(a) = 9 /\ Len(b) = 6
    BY <1>3, <1>4
  <2> HIDE DEF d
  <2>3. Len(a) + Len(b) = 15
    BY <2>2
  <2> QED
    BY <2>1, <2>2, <2>3
<1> HIDE DEF d
<1>7. /\ Len(w) = 16
      /\ \A k \in 1 .. 16 : w[k] = IF k <= 15 THEN d[k] ELSE c[k - 15]
  <2>1. /\ Len(w) = Len(d) + Len(c)
        /\ \A k \in 1 .. Len(d) + Len(c) :
             w[k] = IF k <= Len(d) THEN d[k] ELSE c[k - Len(d)]
    BY <1>5, <1>6, ConcatProperties, Zenon
  <2>2. Len(d) = 15 /\ Len(c) = 1
    BY <1>5, <1>6
  <2> HIDE DEF w
  <2>3. Len(d) + Len(c) = 16
    BY <2>2
  <2> QED
    BY <2>1, <2>2, <2>3
<1>8. WorkerInit = w
  BY DEF WorkerInit, a, b, c, d
<1> HIDE DEF w
<1>9. \A k \in 1 .. 16 : w[k] = IF k <= 9 THEN a[k] ELSE IF k <= 15 THEN b[k - 9] ELSE c[1]
  <2>1. ASSUME NEW k \in 1 .. 15 PROVE w[k] = IF k <= 9 THEN a[k] ELSE b[k - 9]
    BY <1>6, <1>7
  <2>2. w[16] = c[1]
    BY <1>7
  <2> QED
    BY <2>1, <2>2
<1>10. /\ w[1] = a[1] /\ w[2] = a[2] /\ w[3] = a[3] /\ w[4] = a[4] /\ w[5] = a[5]
       /\ w[6] = a[6] /\ w[7] = a[7] /\ w[8] = a[8] /\ w[9] = a[9]
       /\ w[10] = b[1] /\ w[11] = b[2] /\ w[12] = b[3] /\ w[13] = b[4] /\ w[14] = b[5]
       /\ w[15] = b[6] /\ w[16] = c[1]
  BY <1>9
<1>11. Len(UmemCreate) = 9
  BY <1>3 DEF a
<1> QED
  BY <1>2, <1>7, <1>8, <1>10, <1>11 DEF Ask

\* What the steps before step k note in a record.
Noted(of, k) == {WorkerInit[j].field : j \in {i \in 1 .. k - 1 : WorkerInit[i].of = of}}

(* What the steps note, step by step and in the end.                        *)
LEMMA NotedIs ==
    /\ \A of \in {"umem", "xsk"} : Noted(of, 1) = {}
    /\ \A of \in {"umem", "xsk"} : \A k \in 1 .. 16 :
         Noted(of, k + 1) = Noted(of, k) \cup
                            (IF WorkerInit[k].of = of THEN {WorkerInit[k].field} ELSE {})
    /\ Noted("umem", 17) = UmemFields /\ Noted("xsk", 17) = XskFields
    /\ \A k \in 1 .. 17 : Noted("umem", k) \subseteq UmemFields
    /\ \A k \in 1 .. 17 : Noted("xsk", k) \subseteq XskFields
    /\ \A k \in 3 .. 17 : "fd" \in Noted("umem", k)
    /\ \A k \in 1 .. 13 : Noted("xsk", k) \subseteq {"fd"}
    /\ \A k \in 1 .. 2 : Noted("xsk", k) = {}
<1> DEFINE w == WorkerInit
<1>1. /\ \A j \in 1 .. 16 : w[j].of = "umem" <=> j \in {1, 2, 6, 7, 8}
      /\ \A j \in 1 .. 16 : w[j].of = "xsk" <=> j \in {11, 13, 14}
      /\ w[1].field = "area" /\ w[2].field = "fd" /\ w[6].field = "fill_map"
      /\ w[7].field = "comp_map" /\ w[8].field = "pool_stack"
      /\ w[11].field = "fd" /\ w[13].field = "rx_map" /\ w[14].field = "tx_map"
  <2>1. /\ w[1].of = "umem" /\ w[2].of = "umem" /\ w[3].of = "none" /\ w[4].of = "none"
        /\ w[5].of = "none" /\ w[6].of = "umem" /\ w[7].of = "umem" /\ w[8].of = "umem"
        /\ w[9].of = "none" /\ w[10].of = "none" /\ w[11].of = "xsk" /\ w[12].of = "none"
        /\ w[13].of = "xsk" /\ w[14].of = "xsk" /\ w[15].of = "none" /\ w[16].of = "none"
    BY Steps DEF Acquire, Ask
  <2>2. /\ w[1].field = "area" /\ w[2].field = "fd" /\ w[6].field = "fill_map"
        /\ w[7].field = "comp_map" /\ w[8].field = "pool_stack"
        /\ w[11].field = "fd" /\ w[13].field = "rx_map" /\ w[14].field = "tx_map"
    BY Steps DEF Acquire
  <2> HIDE DEF w
  <2> QED
    BY <2>1, <2>2
<1> HIDE DEF w
<1>2. \A of, k : Noted(of, k) = {w[j].field : j \in {i \in 1 .. k - 1 : w[i].of = of}}
  BY DEF Noted, w
<1>3. \A of : Noted(of, 1) = {}
  BY <1>2
<1>4. ASSUME NEW of, NEW k \in 1 .. 16
      PROVE  Noted(of, k + 1) = Noted(of, k) \cup (IF w[k].of = of THEN {w[k].field} ELSE {})
  <2>1. \A i : i \in 1 .. (k + 1) - 1 <=> i \in 1 .. k - 1 \/ i = k
    OBVIOUS
  <2> QED
    BY <1>2, <2>1
<1>5. ASSUME NEW k \in 1 .. 17
      PROVE  /\ Noted("umem", k) \subseteq UmemFields /\ Noted("xsk", k) \subseteq XskFields
             /\ k <= 13 => Noted("xsk", k) \subseteq {"fd"}
             /\ k <= 2 => Noted("xsk", k) = {}
  <2>1. \A i \in 1 .. k - 1 : i \in 1 .. 16 /\ i < k
    OBVIOUS
  <2>2. Noted("umem", k) \subseteq UmemFields
    BY <1>1, <1>2, <2>1 DEF UmemFields
  <2>3. Noted("xsk", k) \subseteq XskFields
    BY <1>1, <1>2, <2>1 DEF XskFields
  <2>4. ASSUME k <= 13 PROVE Noted("xsk", k) \subseteq {"fd"}
    <3>1. \A i \in 1 .. k - 1 : i # 13 /\ i # 14
      BY <2>4
    <3> QED
      BY <1>1, <1>2, <2>1, <3>1
  <2>5. ASSUME k <= 2 PROVE Noted("xsk", k) = {}
    <3>1. \A i \in 1 .. k - 1 : i # 11 /\ i # 13 /\ i # 14
      BY <2>5
    <3> QED
      BY <1>1, <1>2, <2>1, <3>1
  <2> QED
    BY <2>2, <2>3, <2>4, <2>5
<1>6. Noted("umem", 17) = UmemFields
  <2>1. {1, 2, 6, 7, 8} \subseteq {i \in 1 .. 17 - 1 : w[i].of = "umem"}
    BY <1>1
  <2>2. UmemFields \subseteq Noted("umem", 17)
    <3>1. \A j \in {1, 2, 6, 7, 8} : w[j].field \in Noted("umem", 17)
      BY <1>2, <2>1
    <3>2. \A x \in UmemFields : \E j \in {1, 2, 6, 7, 8} : x = w[j].field
      BY <1>1 DEF UmemFields
    <3> QED
      BY <3>1, <3>2
  <2> QED
    BY <1>5, <2>2
<1>7. Noted("xsk", 17) = XskFields
  <2>1. {11, 13, 14} \subseteq {i \in 1 .. 17 - 1 : w[i].of = "xsk"}
    BY <1>1
  <2>2. XskFields \subseteq Noted("xsk", 17)
    <3>1. \A j \in {11, 13, 14} : w[j].field \in Noted("xsk", 17)
      BY <1>2, <2>1
    <3>2. \A x \in XskFields : \E j \in {11, 13, 14} : x = w[j].field
      BY <1>1 DEF XskFields
    <3> QED
      BY <3>1, <3>2
  <2> QED
    BY <1>5, <2>2
<1>8. ASSUME NEW k \in 3 .. 17 PROVE "fd" \in Noted("umem", k)
  <2>1. 2 \in {i \in 1 .. k - 1 : w[i].of = "umem"}
    BY <1>1
  <2> QED
    BY <1>1, <1>2, <2>1
<1> QED
  BY <1>3, <1>4, <1>5, <1>6, <1>7, <1>8 DEF w

(* What a failing step undoes: the UMEM once its area is mapped, the socket *)
(* too once it has a ring mapped.                                           *)
LEMMA UndoIs ==
    \A k \in 1 .. 16 :
       /\ WorkerInit[k].undo \in Seq(Releases)
       /\ k > 1 => \A f \in UmemFields : Release("umem", f) \in Pending(WorkerInit[k].undo)
       /\ k > 13 => \A f \in XskFields : Release("xsk", f) \in Pending(WorkerInit[k].undo)
<1> DEFINE w == WorkerInit
<1>1. /\ w[1].undo = <<>> /\ w[2].undo = UmemDestroy /\ w[3].undo = UmemDestroy
      /\ w[4].undo = UmemDestroy /\ w[5].undo = UmemDestroy /\ w[6].undo = UmemDestroy
      /\ w[7].undo = UmemDestroy /\ w[8].undo = UmemDestroy /\ w[9].undo = UmemDestroy
      /\ w[10].undo = UmemDestroy /\ w[11].undo = UmemDestroy /\ w[12].undo = UmemDestroy
      /\ w[13].undo = UmemDestroy /\ w[14].undo = WorkerDestroy /\ w[15].undo = WorkerDestroy
      /\ w[16].undo = WorkerDestroy
  BY Steps DEF Acquire, Ask
<1> HIDE DEF w
<1>2. ASSUME NEW k \in 1 .. 16
      PROVE  w[k].undo = IF k = 1 THEN <<>> ELSE IF k <= 13 THEN UmemDestroy ELSE WorkerDestroy
  BY <1>1
<1>3. <<>> \in Seq(Releases)
  BY EmptySeq
<1>4. ASSUME NEW k \in 1 .. 16
      PROVE  /\ w[k].undo \in Seq(Releases)
             /\ k > 1 => \A f \in UmemFields : Release("umem", f) \in Pending(w[k].undo)
             /\ k > 13 => \A f \in XskFields : Release("xsk", f) \in Pending(w[k].undo)
  <2>1. CASE k = 1
    <3>1. w[k].undo = <<>> /\ ~(k > 1) /\ ~(k > 13)
      BY <1>1, <2>1
    <3> QED
      BY <1>3, <3>1
  <2>2. CASE k # 1 /\ k <= 13
    <3>1. w[k].undo = UmemDestroy /\ ~(k > 13)
      BY <1>2, <2>2
    <3> QED
      BY <3>1, DestroyLists
  <2>3. CASE k # 1 /\ k > 13
    <3>1. w[k].undo = WorkerDestroy
      BY <1>2, <2>3
    <3> QED
      BY <3>1, DestroyLists
  <2> QED
    BY <2>1, <2>2, <2>3
<1> QED
  BY <1>4 DEF w

-----------------------------------------------------------------------------
(* What holds between two steps.                                            *)
LifecycleInv ==
    /\ pc \in {"out", "init", "destroy"} /\ step \in 1 .. 16
    /\ todo \in Seq(Releases)
    /\ foreign \in BOOLEAN /\ result \in {"none", "ok", "failed", "destroyed"}
    /\ zeroed \in BOOLEAN /\ stdin = TRUE
    /\ umem \subseteq UmemFields /\ xsk \subseteq XskFields
    /\ held = umem \cup (xsk \ {"fd"})
    /\ foreign => "fd" \notin held
    /\ pc = "out" => IF result = "ok" THEN umem = UmemFields /\ xsk = XskFields ELSE held = {}
    /\ pc = "out" /\ result = "ok" => ~zeroed
    /\ pc = "init" => /\ umem = Noted("umem", step) /\ xsk = Noted("xsk", step)
                      /\ result # "ok" /\ ~foreign /\ (zeroed => step <= 9)
    /\ pc = "destroy" => /\ \A f \in umem : Release("umem", f) \in Pending(todo)
                         /\ \A f \in xsk \ {"fd"} : Release("xsk", f) \in Pending(todo)
                         /\ result # "ok"

(* A worker that was never set up.                                          *)
LEMMA LifecycleInit == Init => LifecycleInv
<1> SUFFICES ASSUME Init PROVE LifecycleInv
  OBVIOUS
<1>1. /\ pc = "out" /\ step = 1 /\ held = {} /\ umem = {} /\ xsk = {} /\ result = "none"
      /\ ~foreign
  BY DEF Init
<1>2. todo \in Seq(Releases)
  BY EmptySeq DEF Init
<1>3. foreign \in BOOLEAN /\ zeroed \in BOOLEAN /\ stdin = TRUE
  BY DEF Init
<1> QED
  BY <1>1, <1>2, <1>3 DEF LifecycleInv

(* A step of init that succeeds.                                            *)
LEMMA SucceedsKeeps == LifecycleInv /\ StepSucceeds => LifecycleInv'
<1> SUFFICES ASSUME LifecycleInv, StepSucceeds PROVE LifecycleInv'
  OBVIOUS
<1> DEFINE s == WorkerInit[step]
<1>1. /\ pc = "init" /\ step \in 1 .. 16
      /\ umem' = IF s.of = "umem" THEN umem \cup {s.field} ELSE umem
      /\ xsk' = IF s.of = "xsk" THEN xsk \cup {s.field} ELSE xsk
      /\ held' = held \cup (IF s.of = "none" THEN {} ELSE {s.field})
      /\ pc' = IF step = 16 THEN "out" ELSE "init"
      /\ step' = IF step = 16 THEN 1 ELSE step + 1
      /\ result' = IF step = 16 THEN "ok" ELSE result
      /\ todo' = todo /\ foreign' = foreign
  BY Steps DEF StepSucceeds, LastStep, LifecycleInv
<1>2. s.of \in {"umem", "xsk", "none"} /\ (s.of = "xsk" => step > 2)
      /\ (s.of = "umem" => (s.field = "fd" <=> step = 2))
      /\ (s.of = "umem" => s.field \in UmemFields) /\ (s.of = "xsk" => s.field \in XskFields)
  <2>1. \A k \in 1 .. 16 :
           /\ WorkerInit[k].of \in {"umem", "xsk", "none"}
           /\ WorkerInit[k].of = "xsk" => k > 2
           /\ WorkerInit[k].of = "umem" => (WorkerInit[k].field = "fd" <=> k = 2)
           /\ WorkerInit[k].of = "umem" => WorkerInit[k].field \in UmemFields
           /\ WorkerInit[k].of = "xsk" => WorkerInit[k].field \in XskFields
    BY Steps DEF Acquire, Ask, UmemFields, XskFields
  <2> QED
    BY <1>1, <2>1
<1> HIDE DEF s
<1>3. /\ umem = Noted("umem", step) /\ xsk = Noted("xsk", step) /\ result # "ok"
      /\ held = umem \cup (xsk \ {"fd"})
  BY <1>1 DEF LifecycleInv
<1>4. umem' = Noted("umem", step + 1) /\ xsk' = Noted("xsk", step + 1)
  <2>1. /\ Noted("umem", step + 1)
             = Noted("umem", step) \cup (IF s.of = "umem" THEN {s.field} ELSE {})
        /\ Noted("xsk", step + 1)
             = Noted("xsk", step) \cup (IF s.of = "xsk" THEN {s.field} ELSE {})
    BY <1>1, NotedIs DEF s
  <2> QED
    BY <1>1, <1>3, <2>1
<1>5. step + 1 \in 1 .. 17
  BY <1>1
<1>6. umem' \subseteq UmemFields /\ xsk' \subseteq XskFields
  BY <1>4, <1>5, NotedIs
<1>7. held' = umem' \cup (xsk' \ {"fd"})
  <2>1. s.of = "xsk" => "fd" \in umem
    BY <1>1, <1>2, <1>3, NotedIs
  <2> QED
    BY <1>1, <1>2, <1>3, <2>1
<1>8. ~foreign' /\ (foreign' => "fd" \notin held')
  BY <1>1 DEF LifecycleInv
<1>9. pc' = "out" => result' = "ok" /\ umem' = UmemFields /\ xsk' = XskFields
  BY <1>1, <1>4, NotedIs
<1>10. pc' = "init" => /\ umem' = Noted("umem", step') /\ xsk' = Noted("xsk", step')
                       /\ result' # "ok" /\ step' \in 1 .. 16
  BY <1>1, <1>3, <1>4
<1>11. /\ zeroed' \in BOOLEAN /\ stdin' = TRUE /\ (pc' = "out" => ~zeroed')
       /\ pc' = "init" => (zeroed' => step' <= 9)
  <2>1. /\ zeroed' = (zeroed /\ step # 9) /\ stdin' = stdin
    <3>1. zeroed' = (zeroed /\ step # Len(UmemCreate)) /\ stdin' = stdin
      BY DEF StepSucceeds
    <3>2. Len(UmemCreate) = 9
      BY Steps
    <3> QED
      BY <3>1, <3>2, Zenon
  <2>2. zeroed \in BOOLEAN /\ stdin = TRUE /\ (zeroed => step <= 9)
    BY <1>1 DEF LifecycleInv
  <2>3. zeroed' \in BOOLEAN
    BY <2>1, Zenon
  <2>4. zeroed' => step <= 8
    <3>1. zeroed' => zeroed /\ step # 9
      BY <2>1, Zenon
    <3>2. zeroed' => step <= 9 /\ step # 9
      BY <2>2, <3>1, Zenon
    <3> QED
      BY <1>1, <3>2
  <2>5. step' = step + 1 \/ step = 16
    BY <1>1
  <2> QED
    BY <1>1, <2>1, <2>2, <2>3, <2>4, <2>5
<1> QED
  BY <1>1, <1>6, <1>7, <1>8, <1>9, <1>10, <1>11 DEF LifecycleInv

(* A step of init that fails starts a destroy that covers what is named.    *)
LEMMA FailsKeeps == LifecycleInv /\ StepFails => LifecycleInv'
<1> SUFFICES ASSUME LifecycleInv, StepFails PROVE LifecycleInv'
  OBVIOUS
<1> DEFINE s == WorkerInit[step]
<1>1. /\ pc = "init" /\ step \in 1 .. 16 /\ todo' = s.undo /\ pc' = "destroy" /\ step' = 1
      /\ result' = "failed" /\ held' = held /\ umem' = umem /\ foreign' = foreign
      /\ xsk' = xsk \/ xsk' = xsk \cup {"fd"}
      /\ zeroed' = zeroed /\ stdin' = stdin /\ zeroed \in BOOLEAN /\ stdin = TRUE
  BY DEF StepFails, LifecycleInv
<1>2. /\ umem = Noted("umem", step) /\ xsk = Noted("xsk", step) /\ ~foreign
      /\ umem \subseteq UmemFields /\ xsk \subseteq XskFields
      /\ held = umem \cup (xsk \ {"fd"}) /\ foreign \in BOOLEAN
  BY <1>1 DEF LifecycleInv
<1>3. xsk' \ {"fd"} = xsk \ {"fd"} /\ xsk' \subseteq XskFields
  BY <1>1, <1>2 DEF XskFields
<1>4. s.undo \in Seq(Releases)
  BY <1>1, UndoIs
<1>5. \A f \in umem : Release("umem", f) \in Pending(s.undo)
  <2>1. CASE step = 1
    BY <1>2, <2>1, NotedIs
  <2>2. CASE step # 1
    <3>1. step \in 1 .. 16 /\ step > 1 /\ umem \subseteq UmemFields
      BY <1>1, <1>2, <2>2
    <3> QED
      BY <3>1, UndoIs
  <2> QED
    BY <2>1, <2>2
<1>6. \A f \in xsk \ {"fd"} : Release("xsk", f) \in Pending(s.undo)
  <2>1. CASE step <= 13
    BY <1>1, <1>2, <2>1, NotedIs
  <2>2. CASE step > 13
    BY <1>1, <1>2, <2>2, UndoIs
  <2> QED
    BY <1>1, <2>1, <2>2
<1> HIDE DEF s
<1> QED
  BY <1>1, <1>2, <1>3, <1>4, <1>5, <1>6 DEF LifecycleInv

(* A release: what it clears and closes is on the list no more.             *)
LEMMA ReleaseKeeps ==
    LifecycleInv /\ ReleaseNext => LifecycleInv' /\ (foreign => foreign')
<1>0. LifecycleInv /\ ReleaseNext => stdin' = TRUE /\ zeroed' \in BOOLEAN
  BY Zenon DEF LifecycleInv, ReleaseNext, OwnsUmem
<1> SUFFICES ASSUME LifecycleInv, ReleaseNext PROVE LifecycleInv' /\ (foreign => foreign')
  OBVIOUS
<1> DEFINE r == Head(todo)
           named == r.field \in (IF r.of = "umem" THEN umem ELSE xsk)
           closes == named /\ (r = Release("xsk", "fd") => OwnsUmem)
<1>1. /\ pc = "destroy" /\ todo # <<>> /\ todo' = Tail(todo)
      /\ held' = IF closes THEN held \ {r.field} ELSE held
      /\ foreign' = (foreign /\ ~(closes /\ r.field = "fd"))
      /\ umem' = IF r.of = "umem" THEN umem \ {r.field} ELSE umem
      /\ xsk' = IF r.of = "xsk" THEN xsk \ {r.field} ELSE xsk
      /\ pc' = pc /\ step' = step /\ result' = result
  BY DEF ReleaseNext
<1>2. /\ step \in 1 .. 16 /\ result \in {"none", "failed", "destroyed"}
      /\ umem \subseteq UmemFields /\ xsk \subseteq XskFields
      /\ held = umem \cup (xsk \ {"fd"}) /\ (foreign => "fd" \notin held)
      /\ foreign \in BOOLEAN
  BY <1>1 DEF LifecycleInv
<1>3. /\ \A f \in umem : Release("umem", f) \in Pending(todo)
      /\ \A f \in xsk \ {"fd"} : Release("xsk", f) \in Pending(todo)
  BY <1>1 DEF LifecycleInv
<1>4. /\ r \in Releases /\ todo' \in Seq(Releases)
      /\ Pending(todo) \subseteq {r} \cup Pending(todo')
  BY <1>1, PendingIs DEF LifecycleInv
<1>5. /\ r.of \in {"umem", "xsk"}
      /\ r = Release(r.of, r.field)
      /\ \A o, f : r = Release(o, f) => r.of = o /\ r.field = f
  BY <1>4 DEF Releases, Release
<1>6. closes <=> \/ r.of = "umem" /\ r.field \in umem
                 \/ r.of = "xsk" /\ r.field \in xsk /\ r.field # "fd"
  BY <1>5 DEF OwnsUmem
<1> HIDE DEF r, named, closes
<1>7. held' = umem' \cup (xsk' \ {"fd"})
  <2>1. UmemFields \cap (XskFields \ {"fd"}) = {}
    BY DEF UmemFields, XskFields
  <2>2. CASE r.of = "umem"
    BY <1>1, <1>2, <1>6, <2>1, <2>2
  <2>3. CASE r.of = "xsk"
    BY <1>1, <1>2, <1>6, <2>1, <2>3
  <2> QED
    BY <1>5, <2>2, <2>3
<1>8. foreign => foreign'
  BY <1>1, <1>2, <1>6
<1>9. foreign' \in BOOLEAN /\ (foreign' => foreign)
  BY <1>1
<1>10. foreign' => "fd" \notin held'
  BY <1>1, <1>2, <1>9
<1>11. ASSUME NEW f \in umem' PROVE Release("umem", f) \in Pending(todo')
  <2>1. f \in umem /\ ~(r.of = "umem" /\ r.field = f)
    BY <1>1
  <2> QED
    BY <1>3, <1>4, <1>5, <2>1
<1>12. ASSUME NEW f \in xsk' \ {"fd"} PROVE Release("xsk", f) \in Pending(todo')
  <2>1. f \in xsk \ {"fd"} /\ ~(r.of = "xsk" /\ r.field = f)
    BY <1>1
  <2> QED
    BY <1>3, <1>4, <1>5, <2>1
<1>13. umem' \subseteq UmemFields /\ xsk' \subseteq XskFields
  BY <1>1, <1>2
<1>14. LifecycleInv'
  <2>1. pc' = "destroy" /\ step' \in 1 .. 16 /\ result' \in {"none", "failed", "destroyed"}
    BY <1>1, <1>2
  <2> QED
    BY <1>0, <1>4, <1>7, <1>9, <1>10, <1>11, <1>12, <1>13, <2>1 DEF LifecycleInv
<1> QED
  BY <1>8, <1>14

(* Every step keeps the invariant.                                          *)
LEMMA LifecycleStep == LifecycleInv /\ [Next]_vars => LifecycleInv'
<1> SUFFICES ASSUME LifecycleInv, [Next]_vars PROVE LifecycleInv'
  OBVIOUS
<1>1. CASE CallInit
  <2>1. /\ pc' = "init" /\ step' = 1 /\ umem' = {} /\ xsk' = {} /\ foreign' = FALSE
        /\ todo' = todo /\ held' = held /\ result' = result /\ pc = "out" /\ result # "ok"
    BY <1>1 DEF CallInit
  <2>2. held = {} /\ todo \in Seq(Releases) /\ result \in {"none", "failed", "destroyed"}
    BY <2>1 DEF LifecycleInv
  <2>3. /\ foreign' \in BOOLEAN /\ ~foreign'
        /\ zeroed' \in BOOLEAN /\ stdin' = TRUE
    BY <1>1 DEF CallInit, LifecycleInv
  <2>4. Noted("umem", 1) = {} /\ Noted("xsk", 1) = {}
    BY NotedIs
  <2> QED
    BY <2>1, <2>2, <2>3, <2>4 DEF LifecycleInv
<1>2. CASE StepSucceeds
  BY <1>2, SucceedsKeeps
<1>3. CASE StepFails
  BY <1>3, FailsKeeps
<1>4. CASE CallDestroy
  <2>1. /\ pc' = "destroy" /\ todo' = WorkerDestroy /\ step' = step /\ held' = held
        /\ umem' = umem /\ xsk' = xsk /\ foreign' = foreign
        /\ result' \in {"none", "failed", "destroyed"}
    BY <1>4 DEF CallDestroy, LifecycleInv
  <2>2. /\ step \in 1 .. 16 /\ umem \subseteq UmemFields /\ xsk \subseteq XskFields
        /\ held = umem \cup (xsk \ {"fd"}) /\ (foreign => "fd" \notin held)
        /\ foreign \in BOOLEAN /\ zeroed' \in BOOLEAN /\ stdin' = TRUE
    BY <1>4 DEF LifecycleInv, CallDestroy
  <2>3. /\ WorkerDestroy \in Seq(Releases)
        /\ \A f \in umem : Release("umem", f) \in Pending(WorkerDestroy)
        /\ \A f \in xsk : Release("xsk", f) \in Pending(WorkerDestroy)
    BY <2>2, DestroyLists
  <2> QED
    BY <2>1, <2>2, <2>3 DEF LifecycleInv
<1>5. CASE ReleaseNext
  BY <1>5, ReleaseKeeps
<1>6. CASE DestroyReturns
  <2>1. /\ pc = "destroy" /\ todo = <<>> /\ pc' = "out" /\ step' = step /\ todo' = todo
        /\ held' = held /\ umem' = umem /\ xsk' = xsk /\ foreign' = foreign /\ result' = result
    BY <1>6 DEF DestroyReturns
  <2>2. Pending(todo) = {}
    BY <2>1 DEF Pending
  <2>3. umem = {} /\ xsk \ {"fd"} = {}
    BY <2>1, <2>2 DEF LifecycleInv
  <2>4. zeroed' = zeroed /\ stdin' = stdin
    BY <1>6 DEF DestroyReturns
  <2> QED
    BY <2>1, <2>3, <2>4 DEF LifecycleInv
<1>7. CASE NumberReused
  <2>1. /\ "fd" \notin held /\ "fd" \in umem \cup xsk /\ foreign' = TRUE /\ pc' = pc
        /\ step' = step /\ todo' = todo /\ held' = held /\ umem' = umem /\ xsk' = xsk
        /\ result' = result
    BY <1>7 DEF NumberReused
  <2>2. pc # "init"
    <3> SUFFICES ASSUME pc = "init" PROVE FALSE
      OBVIOUS
    <3>1. /\ umem = Noted("umem", step) /\ xsk = Noted("xsk", step) /\ step \in 1 .. 16
          /\ "fd" \notin umem /\ "fd" \in xsk
      BY <2>1 DEF LifecycleInv
    <3>2. CASE step <= 2
      BY <3>1, <3>2, NotedIs
    <3>3. CASE step > 2
      BY <3>1, <3>3, NotedIs
    <3> QED
      BY <3>1, <3>2, <3>3
  <2>3. foreign' \in BOOLEAN /\ zeroed' = zeroed /\ stdin' = stdin
    BY <1>7 DEF NumberReused
  <2> QED
    BY <2>1, <2>2, <2>3 DEF LifecycleInv
<1>8. CASE UNCHANGED vars
  BY <1>8 DEF vars, LifecycleInv
<1> QED
  BY <1>1, <1>2, <1>3, <1>4, <1>5, <1>6, <1>7, <1>8 DEF Next

-----------------------------------------------------------------------------
(* The invariant holds through any sequence of init, failures and destroys. *)
THEOREM LifecycleSafe == Spec => []LifecycleInv
BY LifecycleInit, LifecycleStep, PTL DEF Spec

(* rewsr_dp_worker_init is all or nothing whichever of its calls fails, and *)
(* rewsr_dp_worker_destroy leaves nothing.                                  *)
THEOREM InitAllOrNothing == Spec => []AllOrNothing
<1>1. UmemFields \cup (XskFields \ {"fd"}) = Resources
  BY DEF Resources, UmemFields, XskFields
<1>2. LifecycleInv => AllOrNothing
  BY <1>1 DEF LifecycleInv, AllOrNothing
<1> QED
  BY <1>2, LifecycleSafe, PTL

(* Nothing is unmapped, freed or closed twice, however often destroy is     *)
(* called.                                                                  *)
THEOREM NoDoubleRelease == Spec => []NothingReleasedTwice
<1>1. LifecycleInv => NothingReleasedTwice
  BY DEF LifecycleInv, NothingReleasedTwice
<1> QED
  BY <1>1, LifecycleSafe, PTL

(* Destroy never closes a file that another part of the process opened      *)
(* under the worker's old descriptor number, nor the standard input.        *)
THEOREM NoForeignClose == Spec => ForeignFileKept
<1>1. ASSUME LifecycleInv, LifecycleInv', [Next]_vars
      PROVE  [pc = "destroy" => (foreign => foreign') /\ (stdin => stdin')]_vars
  <2> SUFFICES ASSUME foreign, pc = "destroy", ~(UNCHANGED vars)
               PROVE  foreign'
    BY <1>1 DEF LifecycleInv
  <2> USE <1>1
  <2>1. CASE ReleaseNext
    BY <2>1, ReleaseKeeps
  <2>2. CASE DestroyReturns
    BY <2>2 DEF DestroyReturns
  <2>3. CASE NumberReused
    BY <2>3 DEF NumberReused
  <2>4. CASE CallInit \/ StepSucceeds \/ StepFails \/ CallDestroy
    BY <2>4 DEF CallInit, StepSucceeds, StepFails, CallDestroy
  <2> QED
    BY <2>1, <2>2, <2>3, <2>4 DEF Next
<1> QED
  BY <1>1, LifecycleSafe, PTL DEF Spec, ForeignFileKept
=============================================================================
