# Formal models of rewsr-piers

TLA+ models of the data plane of rewsr-piers, the TLC runs that check them on
small instances and TLAPS proofs for every instance. Paths below are relative to
the repository; `M.tla` is module `M` in this directory.

## 1. The system

rewsr-piers climbs a ladder of network tiers. The Go side probes the host,
selects the highest tier it can use and runs a benchmark or a self test. The C
side is the AF_XDP data plane of tier 1, the packet code it sends and receives
with, and a UDP benchmark.

| Part | State | Operations | Interacts with | What makes it correct |
|---|---|---|---|---|
| SPSC ring, `csrc/ring/spsc_ring.c` | `head`, `tail`, slots | produce, consume, count | one producer and one consumer thread, no lock | every item once, whole, in order; no slot is copied by both; never jams |
| AF_XDP ring, `csrc/ring/xsk_ring.c` | shared counters modulo 2^32, cached copies on each side, descriptors | reserve, submit, free, peek, release, available | the kernel on the other side | in flight <= size; caches never ahead; descriptors once and in order |
| Frame pool, `csrc/xdp/frame_pool.c` | stack of free chunk addresses | alloc, free, chunk base | `xsk.c` only | no chunk lost or handed out twice |
| UMEM and socket, `csrc/xdp/xsk.c` | pool, fill, completion, RX and TX rings, mappings, fd | create, destroy, refill, rx_burst, tx_burst, tx_complete, kick | kernel through four rings and system calls | every chunk in one place; receive credit is kept; setup is all or nothing |
| Worker, `csrc/dataplane/worker.c` | role, stop flag, counters | init, run, destroy | socket, packet generator, another thread sets `stop` | returns when told; what it queues is sent; counters account for frames |
| Statistics, `csrc/dataplane/stats.c` | counters | zero, add, delta, rate | worker | rates follow from counters |
| XDP program, `csrc/xdp/xdp_prog.c` | redirect counter per queue | filter one packet | kernel, socket map | only fabric packets are redirected |
| Wire formats, `csrc/net/{checksum,packet,pktgen,arp,vlan,vxlan,rss}.c` | generator: sequence, ip id, template checksums | build, parse, update, next, tag, strip, encap, decap | worker | what is built parses; incremental checksums equal full ones; layers come off as they went on; damage is noticed |
| Link queries, `csrc/net/{netlink,ethtool_ioctl}.c` | none | dump links, ioctls | kernel | the dump ends and reports each link |
| Placement, `csrc/sys/*` | none | parse CPU lists, pin, NUMA, hugepages | kernel | parsers accept what sysfs prints |
| UDP benchmark, `csrc/bench/udp_bench.c`, `pier/tier0_udp.go` | samples, sent and received counts | latency, throughput | echo and sink threads over UDP | a sample belongs to its ping; the run ends; nothing is left open or running; loss is real |
| Ladder, `pier/{ladder,preflight,caps,selftest}.go` | the report as it grows | Select, Preflight, Deficit, RunSelfTest | probes of a host that may change | the report explains the selection; what was not read is not reported as held |
| Probes, CLI, logging | none | read and print | host | - |

Hard behaviour: two threads on the SPSC ring; userspace and kernel on four
shared rings, with cached counters and wrap-around; frames moving through six
places, in which each call moves several and may stop half way; kicks that the
kernel may refuse; setup that may fail at any of its calls; datagrams that are
lost or come late, to threads that must be told to end; a report put together
while the host changes; one's-complement arithmetic that errs once in 65536
frames, and two programs that parse the same header. `PROJECT.json` lists these at their lines, under `hazards`.

## 2. Modules

| Module | Models | Kind |
|---|---|---|
| `BoundedFifo` | what a ring promises | abstract specification |
| `SpscRing` | `spsc_produce`, `spsc_consume`, one step per shared access | component |
| `SpscGauge` | `SpscRing` with `spsc_count` running in a thread | composition |
| `XskRing` | all of `xsk_ring.c`, both sides | component |
| `FramePool`, `FramePoolUse` | operations of `frame_pool.c`; a pool and its caller | operators, component |
| `Xsk` | data path of `xsk.c` with the kernel | composition of pool and rings |
| `Worker` | `rewsr_dp_worker_run` over `Xsk` | composition |
| `WorkerLifecycle` | `umem_create`, `socket_create`, `worker_init` and the destroy functions | component |
| `UdpBench` | the C and the Go loopback benchmark, with echo server and sink | component |
| `Ladder` | detection, `Select`, `Preflight`, capabilities and limits | component |
| `SelfTest` | `RunSelfTest`: `Ladder`, then `UdpBench` | composition |
| `Wire` | all of `checksum.c`, `packet.c`, `pktgen.c`, `vlan.c`, `vxlan.c`, `arp.c`; the XDP filter; `rewsr_dp_classify` | operators |
| `PacketPath` | a frame from its sender through layers and wire to its receiver | composition |
| `SpscRingProofs` | theorems about `SpscRing` and `SpscGauge`, refinement of `BoundedFifo` | proofs |
| `XskRingProofs`, `FramePoolProofs` | theorems about `XskRing`, with the refinement of `BoundedFifo`, and about the pool | proofs |
| `WorkerProofs` | theorems about `Xsk`, and about `Worker` on top of them | proofs |
| `WorkerLifecycleProofs` | theorems about `WorkerLifecycle` | proofs |
| `SelfTestProofs` | theorems about `UdpBench` and `Ladder` inside `SelfTest` | proofs |
| `PacketPathProofs` | lemmas about the functions of `Wire`, theorems about `PacketPath` | proofs |
| `RemainderLemmas` | remainders, queues of consecutive numbers, induction over naturals | lemmas |

Correspondence, beyond the `map` of `PROJECT.json`:

- **SpscRing.** A slot is two halves, so a copy that overlaps another shows as
  an item whose halves differ. `ProduceLoad` reads the far index and decides;
  the two copy steps and the publishing store follow. The code pairs release
  stores with acquire loads, so interleavings of these steps are all its
  executions. The n-th item is the number n.
- **XskRing.** Each side has its own handle with `cached_prod` and
  `cached_cons`. A cache is refreshed exactly where the code does it, and keeps
  what a failed call refreshed. Counters are taken modulo `Wrap`, any multiple of
  the size that is at least two laps; the code's is 2^32. `Init` starts from
  every counter value, as `rewsr_xsk_ring_init` does. The callers follow the
  header: the producer submits only what it has written, the consumer releases
  only what it has read and peeks again when it has released everything.
- **Xsk.** The fill and TX rings keep descriptors, counters and `cached_prod`,
  because `xsk.c` does not always submit what it reserves. The RX and completion
  rings are consumed by the protocol of `XskRing`, which implements
  `BoundedFifo`; here they are queues. A call is one step, since the kernel sees
  it only through the counter it publishes last; `rx_burst` publishes twice and
  is two steps (`RxBurst`, then `FillRefill` of what is `owed`). The kernel is
  external: it takes descriptors in order, completes transmissions in any order,
  returns received addresses with an offset, and takes a TX descriptor only if
  its completion will find room.
- **Worker.** One step per call of the loop body. `Receive` chooses freely which
  frames `rewsr_dp_classify` accepts. `KickRefused` is the `ENOBUFS`, `EAGAIN` or
  `EBUSY` that `rewsr_xsk_kick` passes off as success. `NeedsKick` says whether
  the kernel looks at the TX ring by itself. Byte counters are left out: they
  are the packet counters times a length.
- **WorkerLifecycle.** The calls that can fail are a sequence, each with what it
  acquires and what the code releases when it fails; destroy functions are
  sequences of releases. `foreign` is another file of the process that was given
  the number of the closed descriptor, which `xsk->fd` may still name; `zeroed`
  says that `xsk->fd` is still the 0 that the memset of `rewsr_dp_worker_init`
  left there, the number of the standard input (`stdin`).

- **UdpBench.** One process per thread or goroutine, one step per call that can
  block, fail or be seen by another. The ping loop, the echo server and the burst
  are the same in both languages and are the same actions; set-up, errors and
  endings differ and are separate. A datagram is the number of its ping; queues
  have room for `Room`, and any datagram may be lost. In the burst `dropped`
  counts what the path loses and `overflowed` what finds the sink's buffer full. A C receive times out only
  on an empty queue; a Go deadline may also pass while a datagram waits. `held`
  is what must be closed or freed. Go's deferred calls are part of the step that
  returns. Clock values and the statistics over samples are left out.
- **Ladder.** A capability mask is a set, a status file a sequence of lines, a
  release its dotted parts; files are numbered so that a configuration can choose
  them (`Status`, `Release`). One step per tier audited, and the host may change
  before each. `Select` is the code's loop on a host that holds still.
- **Wire.** Frames are sequences of real 16-bit words with a length in bytes, and
  offsets are the source's. `LittleEndian` is what the run-time probe finds:
  conversions between host and network order cancel out everywhere except in two
  places: `cksum_ipv4_pseudo` takes a network-order field for an integer
  (`AsLoaded`), and the XDP program compares fields as loaded with constants it
  swaps on every host (`bswap16`). A call that fails returns `Error`, with length -1 like the code.
- **PacketPath.** The library's functions on one buffer, in any order. A long run
  of the generator is one step (`PktgenSkip`), which makes the carries of its
  counters, the zero checksum and a number that reads as a UDP header reachable. `sent` (the frame as its sender made it,
  and from which number and id, or for whose question), `port`, `layers` and `opened`
  remember what went in, for the properties. A foreign datagram has an IPv4 option.

Operators whose comment says "Mutation of X" are faulty variants of X. They are
part of no specification; putting one in the place of X shows that the property
named with it in `PROJECT.json` notices the fault.

## 3. Runs

Run with `tlc -config C.cfg M`.

| Run | Config, module | Result |
|---|---|---|
| `spsc_ring` | `SpscGauge.cfg`, SpscGauge | passes, 10844 states |
| `xsk_ring` | `XskRing.cfg`, XskRing | passes, 18240 states |
| `frame_pool` | `FramePoolUse.cfg`, FramePoolUse | passes, 326 states |
| `xsk_socket` | `Xsk.cfg`, Xsk | passes, 244465 states |
| `worker_loop` | `Worker.cfg`, Worker | passes, 89665 states |
| `worker_default_sizes` | `WorkerDefaultSizes.cfg`, Worker | violation |
| `worker_refused_kick` | `WorkerKick.cfg`, Worker | violation |
| `worker_lifecycle` | `WorkerLifecycle.cfg`, WorkerLifecycle | passes, 136 states |
| `self_test` | `SelfTest.cfg`, SelfTest | passes, 208772 states |
| `udp_late_echo` | `UdpLateEcho.cfg`, UdpBench | violation |
| `packet_path` | `PacketPath.cfg`, PacketPath | passes, 4037346 states |
| `packet_wire_checksum` | `PacketWire.cfg`, PacketPath | violation |

More configurations show violations; each checks one property that quotes the
repository, and stands beside the runs as the evidence of a finding:

| Config | Module | Property that fails |
|---|---|---|
| `SpscGaugeThird.cfg` | SpscGauge | `CountIsSnapshot`, asked by a third thread |
| `WorkerEcho.cfg` | Worker | `EchoAnswersOnly` |
| `WorkerLimit.cfg` | Worker | `LimitEndsLoop` |
| `UdpUnsent.cfg` | UdpBench | `UnsentIsLost` |
| `UdpBuffer.cfg` | UdpBench | `LossIsThePath` |
| `PacketZero.cfg` | PacketPath | `FrameAsBuilt` |
| `PacketShifted.cfg` | PacketPath | `DataIsAsSent` |
| `PacketBigEndian.cfg` | PacketPath | `FilterAgreesWithParser`, with `LittleEndian = FALSE` |

The type invariants of `SpscGauge`, `Xsk`, `Worker`
and `WorkerLifecycle`, and `PoolInv` and the `RingInv` of `XskRing`, hold under the
configurations of these modules when added to them, and are not part of the runs, whose properties are the ones
that could be wrong; those of the rings, the pool, `Xsk` and `Worker` are also
proved (section 4).

**What the passing runs show, and why the bounds are enough.**

- `spsc_ring`: four slots and nine items let both indices wrap twice, the ring
  become full and empty, and a copy start on each slot in every phase of the
  other thread. Properties: exactly-once delivery of whole items, indices that
  account for items, no shared slot, published slots untouched, refinement of
  `BoundedFifo`, delivery of everything, and a count that is a real snapshot
  when one of the two threads asks.
- `xsk_ring`: size 4, counters modulo 8, batches to 3, nine descriptors, all
  eight starting counters: partial submits, failed reservations, stale caches on
  both sides and the wrap occur together.
- `frame_pool`: five chunks of two addresses, all orders of alloc and free.
- `xsk_socket`: rings of two, bursts of one and two, six frames. With as many
  frames as fill, TX and completion ring together hold, no call finds the pool
  empty, and frames, receive credit and reservations are all conserved.
- `worker_loop`: the three roles, batches of two, limit five, two arrivals, a
  kernel that polls, and the proportions of `rewsr_xsk_config_default`, which
  `rewsr_dp_worker_init` gives every worker: as many frames as the fill and the TX
  ring together hold, so the pool does run dry and transmission may jam. The limit
  needs the TX ring to go round more than twice. What holds all the same: the
  counters account for the frames, the loop returns only when told to and does so
  when stopped, reception goes on (`ReceptionGoesOn`), and the kernel takes what was
  submitted. That the limit is reached does not hold (`WorkerLimit.cfg`).
  `tx_drops` is followed to `DropCap` only; nothing depends on more.
- `worker_lifecycle`: there is no bound. The model is finite, so the run covers
  every failure point followed by any number of retries and destroys.
- `self_test`: the self test over 18 hosts, seven status files and three limits,
  and each benchmark alone, with one to three pings and packets, socket buffers of
  two. Three pings are the fewest in which one is late, one is answered by the
  late echo and one follows; a buffer smaller than the burst makes loss possible.
  Properties: the report agrees with itself and mirrors `Select`, unread
  privileges are never a clean bill, an echo is late only by as many pings as were
  given up, nothing stays open or running, the C echo thread never touches a
  closed socket, loss is what the path lost when the buffer held the burst and it
  was sent to its end, every call returns.
- `packet_path`: payloads of 7 (refused), 8 and 25 bytes, so that the shortest and
  an odd length occur, the latter long enough that a header of a flipped length may
  end inside the payload, two ports, two buffer sizes, sequence numbers around the
  48-bit carry, the id's wrap, the number at which the UDP checksum is 0 and one whose
  words are a UDP header that verifies, up to two layers, two frames, and one flipped
  bit in any word behind the MAC addresses. Bits 0, 9 and 11 are enough to change a
  length, the header length by two sizes, the protocol, the VXLAN flag and any other
  field by one bit; bit 9 of the first IPv4 word is the flip with which `DataIsAsSent`
  fails. Properties: patched frames whose checksum is not 0 are the ones built from
  scratch, layers come off as they went on, data is what was sent unless the header
  length was hit, which the header's checksum would have shown, the step that flips a bit of an address, a
  port or the payload makes data of it no more (`FlipCaught`), and the kernel's
  filter and the worker's parser agree.

**Violations.** Each is a disagreement between the code and what it says of
itself; `findings` in `PROJECT.json` quotes the line.

- `worker_default_sizes`: `tx_burst` reserves `nb` descriptors and submits only
  as many as the pool backs. The difference is never made up, so later bursts
  publish stale descriptors. The default sizes (4096 frames, 2048 for fill and
  2048 for TX) make the pool run dry as soon as the TX ring's frames are all in
  transmission. The run uses the same proportions with rings of two.
  `xsk_socket` shows that enough frames avoid it.
- `worker_refused_kick`: the kick follows only a burst that queued something;
  when the TX ring is full, nothing is queued and nothing is kicked.
- `udp_late_echo`: the ping loop takes any datagram for the echo it waits for.
  After one timeout the late echo ends the next measurement, and so on.
  `OwnEchoUnlessLate` says what still holds.
- `packet_wire_checksum`: the pseudo-header's addresses are added byte-swapped on
  a little-endian host. The project's own verification repeats it, so only another
  stack notices.
- `WorkerLimit.cfg`: the reservations that `tx_burst` does not submit also use the
  ring up. When they make `cached_prod` a ring's size larger than the consumer
  counter, no burst gets a descriptor any more, nothing is transmitted for good, and
  a SOURCE worker short of its limit loops for ever. Same cause and sizes as
  `worker_default_sizes`, under the fairness of `worker_loop`.
- `UdpUnsent.cfg`: a failed write ends Go's burst; what was not sent is in neither
  number. `UdpBuffer.cfg`: what overflows the C sink's buffer, whose size is a
  request that the kernel caps, is reported as lost on the path.
- `PacketZero.cfg`: the generator's patched UDP checksum comes out as 0 once in 65535
  frames and is stored as it is; the builder would store 0xffff.
- `PacketShifted.cfg`: a flip that makes the IPv4 header 28 bytes long puts the UDP
  header on the sequence number, and `rewsr_dp_classify` does not verify the header
  checksum: number 4789 * 2^32 + 24 * 2^16 + 27759 then passes for a datagram whose
  checksum verifies.
- `PacketBigEndian.cfg`: the XDP program's constants are swapped on a big-endian host
  too, so it passes every fabric datagram to the stack.
- `WorkerEcho.cfg`: ECHO sends generated packets without having received any.
- `SpscGaugeThird.cfg`: tail and head are loaded at different moments, so a third
  thread can be told a count the ring never had.

Disagreements that no configuration is about, listed under `findings`: the redirect
counter counts frames that were not redirected; `Detect` does not look at privileges.

**Fairness.** The SPSC threads poll: each keeps calling its function, and is
not stopped for ever (strong fairness only because a thread may also ask for the
count in between). In `XskRing` each caller's next step is weakly fair, as in the
loops of `csrc/test/test_xsk_ring.c`. In `Worker` the worker's thread is weakly
fair; the kernel takes and completes descriptors it is able to (weak); a kick
that is repeated for ever is accepted at some point (strong). Nothing forces
packets to arrive, `stop` to be set or the limit to be finite. In `SelfTest` the
client, the echo server and the counter are weakly fair: the operating system and
the Go runtime schedule every thread, and every wait of theirs ends by a timeout,
a deadline or a closed socket, which are actions of the model. `PacketPath` is
about safety only and has no fairness.

## 4. Proofs

All obligations are checked by `tlapm`. Constants are any values that satisfy the
named assumptions of the modules.

- **SPSC ring** (`SpscRingProofs`; `N >= 2`, not only powers of two). `RingInv`
  adds to the types: the producer past its test knows `Succ(tail) # head`, the
  consumer past its test knows `head # tail`; slots between `head` and `tail` hold
  the next undelivered items in order; the half-written slot and the half-read
  item hold what has been copied so far. Without the first two, a step of the
  other thread could invalidate a test already made; without the contents, order
  does not follow. From it: `FifoCorrect`, `CountCorrect`, `RaceFree`,
  `PublishedStable`, `TypeCorrect`. The lemmas are about distance around a ring
  (`DistTail`, `DistHead`, `DistInjective`).
- **AF_XDP ring** (`XskRingProofs`; any size, any wrap that is a multiple of it,
  at least two laps). `RingInv` puts all counters in order around the ring
  (`CountersOrdered`) and says what the written part holds. That two counters
  less than a size apart name different slots, across the wrap, needs
  `RemainderLemmas` (facts about `%`). From it: `FifoCorrect`,
  `InFlightBounded`, `SubmittedStable`, `TypeCorrect`.
- **Both rings are queues** (`RingIsQueue` in each module). Under `RingInv` the
  abstract queue of the refinement mapping is the sequence of consecutive numbers
  from the first item not yet given back, so a step only has to be judged by what
  it does to two numbers (`IndexSteps`, `QueueSteps`): the store of `tail` or a
  submit puts at the back, the store of `head` or a release takes from the front,
  everything else stutters.
- **Count** (`SpscRingProofs`). `GaugeInv`: a counting producer finds `tail` where
  it loaded it, a counting consumer finds `head` where it was when it loaded
  `tail`; so `CountSnapshot`, for callers that are one of the two threads. That a
  third thread has to be excluded is what `SpscGaugeThird.cfg` shows. `GaugeIsRing`
  carries the ring's theorems over to the composition.
- **Frame pool** (`FramePoolProofs`; any number and size of chunks). `PoolInv`
  counts: free plus held chunks is the number of frames, which is what makes the
  capacity test never fire (`FreeNeverRefused`). `FramesConserved`: nothing lost
  or duplicated.
- **Socket** (`WorkerProofs`; any number of frames, any ring sizes and bursts). Three
  invariants, each resting on those before it. `SocketInv` holds for all sizes:
  addresses are chunks of the UMEM, no ring overflows, and the places together hold
  as many entries as there are frames (`SocketTypes`, `EntriesConserved`). `FillInv`
  needs `NumFrames >= FillSize`: the pool always holds the frames owed to the fill
  ring, so a refill is never cut short (`FillCredit`). `TxInv` needs
  `EnoughFrames`, which is `NumFrames >= FillSize + TxSize + CompSize` and a
  transmit callback that skips no frame: then a TX burst finds a frame for each
  descriptor it reserves (`Submitted`), and every chunk is in exactly one place
  (`Conserved`: all chunks are somewhere, and the places hold no more entries than
  there are chunks). The hypothesis is a sizing rule for `rewsr_xsk_umem_create`,
  not a property of the code: it is for callers of `xsk.h` that pass a configuration
  of their own. The defaults break it, and with them every worker; `worker_default_sizes`
  is the run in which they do. `PoolFreeAll` is a recursive function of the number of
  frames freed, and the proof goes along that number with `UpTo` of
  `RemainderLemmas`.
- **Worker** (`WorkerProofs`; every role, batch, limit and size). Every step of the
  loop is a step of the socket or leaves it alone (`WorkerIsSocketUser`), so the
  socket's theorems hold of it. The one that the sizes of a worker allow is receive
  credit (`WorkerKeepsCredit`, from `NumFrames >= FillSize`); `EnoughFrames` no worker
  has. `LoopInv` says what the loop has
  counted at each place (`BelowLimit`: below the limit by the bursts still to come
  in this round). From it: `StatsAccount`, `Returns`, `WorkerTypes`.
- **Set-up and tear-down** (`WorkerLifecycleProofs`). `LifecycleInv`: while init
  runs the records name exactly what its steps so far noted; what is held is what
  the records name, the borrowed descriptor aside; during a destroy everything
  still named is still on its list; `xsk->fd` is 0 at most until `socket_create`
  starts, and nobody owns it, so nobody closes it. From it: `InitAllOrNothing`, `NoDoubleRelease`
  and the action property `NoForeignClose`. The model is finite, so the run says as
  much; the proof shows why, and does not depend on enumerating the failure points.
- **UDP benchmark** (`SelfTestProofs`; any number of pings and packets, any buffer
  size, both languages, inside the self test and alone). `ControlInv` ties what is
  held and the state of the echo thread to the place in the client: `LeavesNothing`,
  `EchoOnOpenSocket`. `BurstInv` accounts for what was sent (waiting, lost on the
  path, lost to a full buffer or counted) and says the count in the channel is final: `LossCorrect`. `EchoInv` is
  the argument behind `EchoBound`: pings leave in ascending order and pass the echo
  server's queue, its hands and the client's queue in that order, so each echo is
  newer than all counted before it; there are as many echoes counted as pings with
  a sample; hence the pings between an echo and the ping it ends hold no counted
  echo, and there can be at most as many of them as pings given up (`LateCount`, by
  cardinality).
- **Preflight** (`SelfTestProofs`; any set of releases, status files and limits
  numbered in `Ladder`). `LadderInv`: the tiers audited are the first of the ladder,
  the selected one is the first detected, the last tier is always detected, and on a
  steady host each was detected as it would be now. From it: `ReportAgrees`,
  `PreflightMirrorsSelect`, `UnreadShows`.
- **Packet path** (`PacketPathProofs`; any ports, payload lengths, buffers, tags,
  tunnels, numbers of layers and frames, any bit flipped; both byte orders, except
  for `FilterAgrees`).
  - The lemmas are about `Wire`. `Folded`: folding the carries gives the remainder
    modulo 65535, with 65535 for a multiple that is not 0; it is proved from the
    recursive definition by way of the least sum for which it would fail. Sums over words depend
    only on the words they cover and add up over parts, so a patch moves a sum by
    the difference of the words and `cksum_update` follows it.
  - `Kept` is the inductive invariant (`FramesKept`): the buffer holds a frame whose
    words fit its length, the generator is what `pktgen_init` made and
    `pktgen_advance` moved on, the sent frame is the one its sender builds, and what
    arrived went where the filter sends it.
  - `FilterAgrees`: on a little-endian host, on any well-formed frame, the bounds of the
    XDP program and the lengths of the parser select the same datagrams, and comparing
    a loaded field with a swapped constant is comparing the bytes (`SwappedEqual`). On a
    big-endian host it is false (`PacketBigEndian.cfg`).
  - `Layered` adds that between the sent frame and an intact one in the buffer there
    is a frame for every layer, each made of the one inside it. It is needed because
    strip and decap recognise a layer by its bytes: the proof shows that the bytes of
    what is inside never pass for one. They would for a datagram to port 4789 whose
    number has bit 59 set, which is where a tunnel has its flag; hence the hypothesis
    `FewFrames`, at most 2047 * 2^48 frames, of `TagsAndTunnelsTransparent` and
    `GeneratedFramesSound` (whose ARP half is about an intact request). At 10^9 frames a
    second that is more than 18 years.
  - `GeneratedFramesSound`: template sum and patches give the sum of the frame built
    from scratch modulo 65535, so checksums differ at most as 0 and 0xffff do, and the
    builder never stores 0: a frame whose checksum is not 0 is the builder's.
  - `FlipsCaught`: a datagram that verifies has a sum that is a multiple of 65535. One
    bit of a covered word moves it by a power of two below 65535, or a byte-swapped
    one, so it is not a multiple any more. It needs `Kept` only.

Only model-checked:

- liveness (`EverythingDelivered`, `StopEndsLoop`, `ReceptionGoesOn`, `TxServiced`,
  `BenchReturns`, `GoroutinesEnd`): temporal reasoning under fairness, and with it
  `ENABLED`, is out of the prover's reach;
- `OnlyHeaderLengthMisleads` of `PacketPath`: what is left of `DataIsAsSent` when a
  misread header length is excepted, for the bits and numbers of the run. Of it, that
  a flip in the addresses, ports or payload themselves is noticed is `FlipCaught`, and
  proved;
- the violations, which are about single behaviours.

## 5. Not modelled

- `roundup_pow2` of `spsc_ring.c`: `N` is the size after rounding.
- Memory ordering weaker than what acquire and release give.
- In `Worker`, the contents of frames: `rewsr_dp_classify` is a choice there and an
  operator of `Wire`.
- Frames longer than a few dozen bytes, so neither the generator's upper limit of
  2048 bytes (which a 2048-byte chunk cannot hold) nor lengths that wrap at 2^16.
- RSS (`rss.c`): a hash of bits, for which any property is its definition again.
- The netlink dump and the ethtool ioctls: parsing of kernel replies in one
  sequential loop, which keeps waiting if `NLMSG_DONE` never comes.
- Placement (`csrc/sys`), host probes, command line, logging: text in, text out.
- In Go: JSON and text rendering, the non-Linux fallbacks.
- Rates in `stats.c` (floating point), byte counters, logging, formatting.
- The kernel beyond its use of the rings; invalid descriptors the kernel drops.

## 6. Plan

Statistics: sums and deltas of counters, `rx_drops`; the netlink loop.
