# Defrizer: TLA+ models of the AF_XDP receiver and its client

Defrizer watches the TCP traffic of a FaaS host below the network stack. An XDP
program attached to the network link redirects the packets of one port to an
AF_XDP socket; a Go program reads them there. Most of the logic of the
repository is in `src/dumpframes`, and nearly all of its hard behaviour is in
`src/dumpframes/xdp.go`: memory shared with the kernel, without locks, through
four rings. `src/perf_event` holds a second receiver that uses a BPF ring
buffer; its `xdp.go` and `tcp_syn_kern.h` are copies of the ones modelled here, and its
`program.go` has the same `Attach` and `Detach`. `src/client` sends the traffic: a TCP
conversation made by hand from raw packets.

In this directory, `xdp.go` means `src/dumpframes/xdp.go`, `program.go`
`src/dumpframes/program.go`, `dumpframes.go` `src/dumpframes/src/dumpframes.go`, and
`tcp_syn_kern.c` and `tcp_syn_kern.h` the files in `src/dumpframes/src/ebpf`;
`bpf_endian.h` is in its `include/bpf`, and `main.py` is `src/client/main.py`.

## The system

| Part | State | Operations | Meets |
|---|---|---|---|
| Rings (`xdp.go:124-134`) | `Producer`, `Consumer`, `Descs`, in memory the kernel maps too | the loops of `Fill`, `Receive`, `Transmit`, `Complete`; `NumFreeFillSlots`, `NumFreeTxSlots`, `NumReceived`, `NumCompleted` | the kernel, with no lock and, in this code, no fence |
| `Socket` frame accounting | `freeRXDescs`, `freeTXDescs`, `numFilled`, `numTransmitted` | `GetDescs`, `Fill`, `Receive`, `Transmit`, `Poll`, `Complete` | rings below, programs above |
| `Socket` life cycle | `fd`, `umem`, ring mappings | `NewSocket`, `Close` | other users of descriptor numbers |
| `Program` | the attached XDP program; `qidconf_map`, `xsks_map` | `Attach`, `Detach`, `Register`, `Unregister`, `Close` | other processes on the same link |
| `dumpframes` | its place in the loop | set-up, the receive loop, deferred calls | all of the above |
| example of the package comment (`xdp.go:83-99`) | its place in the loop | receive and transmit again | `Socket` |
| XDP filter (`tcp_syn_kern.c`) | the two maps (read only) | parse a packet, give a verdict | `Program`, the kernel |
| perf_event filter and reader | BPF ring buffer | parse a packet, output an event; read | the kernel |
| client (`src/client/main.py`) | `sequence_number`, `acknowledgment_number`, the packet `sr1` waits on | SYN, request, FIN, last ACK | scapy, the network, the server's TCP, its own kernel |

What is hard to test here:

- the two ends of a ring run on two CPUs; every method counts first and uses the
  count later, while the kernel moves on; the counters wrap; the fences are
  commented out;
- the books of a `Socket` must agree with where its frames are after every
  interleaving of methods and kernel, and there are *two* free lists for one UMEM;
- `NewSocket` may fail at any of a dozen system calls; `Close` may come twice;
- `Attach` and `Detach` are several netlink requests, with other processes in
  between; a killed process undoes nothing, and the error of a deferred `Detach` is dropped;
- a packet may be cut anywhere, its length fields may say anything, and it may come
  between the two map updates of `Register`;
- `Poll(-1)` sleeps for ever unless the loop keeps the kernel supplied;
- the client sends everything once and waits without a timeout for *something* that
  answers, over a network that loses and reorders, with numbers that wrap.

`PROJECT.json` lists each hazard at its line with the properties that cover it.

## Modules

| Module | Models | State and actions |
|---|---|---|
| `RingArith` | the `uint32` arithmetic of the rings | `Slot`, `Succ`, `Distance`, `NumFreeSlots`, `NumAvailable`, `Truncate`; `Modulus` stands for 2^32 |
| `BoundedFifo` | what a ring promises: a FIFO queue of bounded capacity | abstract specification |
| `ProducerRing` | Fill and Tx rings, store by store | `Submit` (entry of `Fill`/`Transmit`), `StoreDesc` (a turn of the loop), `StoreProducer`; a store waits in `stores` until the processor shows it (`Drain`); kernel: `KernelRefresh`, `KernelConsume` |
| `ConsumerRing` | Rx and Completion rings, load by load | `Count`, `Receive`, `Complete`, `CopyDesc` (a turn), `StoreConsumer`; kernel: `KernelWrite`, `KernelSubmit`, `KernelRefresh` |
| `XdpSocket` | the methods of `Socket` over FIFO rings | each method is a *call* action (reads the other side's counter, cuts its argument) and a *return* action (publishes, keeps books), with kernel steps between; `Panic` ends the program |
| `SocketPanics` | `XdpSocket` with the panics of `Poll`, `Stats` and `GetDescs` for options `NewSocket` accepts | one action per panic |
| `HeldFrames` | `XdpSocket` with programs that fill frames of `GetDescs` while they hold received ones | `FillFreeHolding` |
| `DumpFrames` | the loop of `dumpframes.go:83-121` over `XdpSocket` | one action per statement of the loop |
| `Rebroadcast` | the loop of the example (`xdp.go:83-99`) over `XdpSocket` | one action per statement |
| `SocketLifecycle` | `NewSocket` and `Close` | the system calls in order, each with its failure; descriptor table shared with others |
| `XdpProgram` | `program.go` as the two `main` functions call it: several processes of dumpframes and perf_event (`EventProc`), one link, one queue | one action per netlink request or map update; `Killed` may end any process anywhere, and any request may fail. History: `author`, who changed the link last; `left`, the attached instance once its process was killed or its `Detach` failed before it removed anything. `FreeMaps` is the kernel freeing the maps nobody refers to |
| `Client` | `main.py` | `SendSyn`, `SendGet`, `SendFin`, `SendLastAck`, and `SynAnswered`, `GetAnswered`, `FinAnswered` where an `sr1` returns; external: `Answers` (what scapy takes for an answer), the server's TCP, the network, the client's kernel |
| `PacketFilter` | the XDP programs, built for either byte order: `xdp_sock_prog` (`tcp_syn_kern.c`), `perf_event_test` (perf_event's `tcp_syn_kern.c`), `xsk_ebpf` (`program.go:120-140`), with the parsers of `tcp_syn_kern.h` | one action per parser, loop turn, map access and verdict; in between, `Register`'s two updates, the socket's end, and the event reader |
| `RingArithProofs`, `ProducerRingProofs`, `ConsumerRingProofs`, `XdpSocketProofs`, `SocketLifecycleProofs`, `XdpProgramProofs`, `PacketFilterProofs`, `ClientProofs` | theorems about the module of that name; `XdpSocketProofs` also about `SocketPanics` and `DumpFrames` | |

How they fit: `ProducerRing`, where stores keep their order, and `ConsumerRing` implement
`BoundedFifo` (checked by refinement and proved), which is the reason `XdpSocket` may use queues for rings.
`DumpFrames` and `Rebroadcast` extend `XdpSocket` and replace its free choice of
calls by one loop; `DumpFrames` is proved to implement `XdpSocket!Spec`, so what
is proved there holds for the loop. `PacketFilter` takes the maps as `XdpProgram`
leaves them: `Register` sets the socket first, `Unregister` changes nothing, and a
socket that goes leaves `xsks_map` while its queue entry stays. Definitions with *Mutant* in their comment
are plausible bugs; no specification uses them. They are there to show that each
property notices the bug it is about.

### What is abstracted

- A descriptor is its address. `Desc.Len` and the bytes of a frame decide nothing
  in the code. The address keeps the frame size and the offset at which the kernel
  puts a packet (`Headroom`), because the free lists divide by the frame size.
- Slots hold model values in the ring modules; the value tells descriptors apart.
- `EINTR` loops (`xdp.go:475,521`) try again in the same state: a stutter.
- Slices that alias buffers of the `Socket` (`rxDescs`, `getRXDescs`) are passed by
  value.
- A packet is its length and the fields the parsers branch on. The port is the 16-bit
  number that was sent; what the program compares is loaded from its bytes and passed through
  `bpf_ntohs`, both as the build's byte order has them. EtherTypes stay symbols, since
  both sides of their comparisons are in network byte order. A field of a header
  the packet has not got keeps one value. That IP's or TCP's other fields (fragment
  offset, flags) are not there is faithful: no program looks at them.
- An event of the ring buffer has no contents: every event is the same text.
- Error texts and logging are left out.
- The client's packets are flags, numbers and length of the payload. Packets of the server have
  no length: the client looks at their numbers only, so that data and a bare ACK
  at the same number are one packet. The server is a TCP that acknowledges a FIN
  at once and data now or with the response, drops what acknowledges bytes it never
  sent, and closes after the client. Its timers do not give up. `Answers` is the
  test of scapy's `TCP.answers`: numbers may be off by two, compared without wrapping; a SYN-ACK
  answers a SYN only, and any ICMP error answers, after which `[TCP]` raises.
- The kernel is external. Its side of the rings is written from how the code uses
  it: it takes from Fill in order, completes receives and sends in any order,
  reserves a completion before it sends, and drops a packet when the Rx ring is
  full. `XDP_UMEM` alignment: an address inside a frame stands for the frame.
- Programs of `XdpSocket!Spec` hand descriptors over as the comments of the methods
  ask (`xdp.go:397-400,447-448`), with two restrictions. They transmit frames of `GetDescs`, not frames
  of `Receive`; `Rebroadcast` shows what happens without this restriction. And
  while they hold received frames, they fill no frame of `GetDescs` that is one of these;
  `HeldFrames` shows what happens without this one. What they hold is up to them: `Fill` takes any
  number of the received frames, and the rest stays with the program until it
  drops it (`DropReceived`) or the next `Receive` reuses the slice. dumpframes keeps to both restrictions, by
  `ImplementsSocket`.

## Runs

| Run | Question | Result |
|---|---|---|
| `producer_ring` | do `Fill`/`Transmit` implement a bounded FIFO although they count before they write and their stores are delayed? does the kernel ever consume what was not submitted, or is anything submitted not consumed? | holds when the processor keeps the order of stores |
| `producer_ring_weak` | and when it does not (arm64, ppc64le, riscv64)? | violated: the kernel consumes a slot before its descriptor is there (`xdp.go:413`) |
| `consumer_ring` | do `Receive` and `Complete` implement the other end? can `Consumer` pass `Producer`? | holds |
| `xdp_socket` | do books and frames agree, in every interleaving? is a frame ever in two places? does `Fill` ever cut what `GetDescs` gave? is a packet ever dropped for a full Rx ring? | holds, for programs that keep to the two restrictions above |
| `held_frames` | may a program keep received frames and fill others meanwhile? | violated: `Receive` marks a frame free (`xdp.go:435`), `GetDescs` gives it out, and it is filled twice |
| `dump_frames` | does the loop use the socket as it must? is every frame on the Rx ring printed? is the kernel ever left without buffers for good? | holds |
| `rebroadcast` | is what `GetDescs` returns unused, in the package's own example? | violated: a frame on the Tx ring is handed out to receive into (`xdp.go:435,459`) |
| `socket_lifecycle` | is everything released once, whichever call fails? does a second `Close` hit somebody else's descriptor? does any pointer dangle? | holds |
| `xdp_program` | processes race on one link, and each may fail, be killed and be restarted anywhere: is a packet ever redirected to a missing socket, while the program's process runs? does anything but a kill, or a `Detach` that failed up to its request to remove, leave a program behind? is a loop served until somebody else changes the link? does every start come to an end? | holds |
| `packet_filter` | does a parser ever read past the end of a packet? what is redirected, what aborted, and for what cause at that moment? does a packet suffer from coming while `Register` runs? | holds |
| `client` | is success reported only for a request the server heard, or reset? does the client end, though it never retransmits? | holds; it ends if no packet is lost and its kernel is quiet |
| `client_close` | does the server know the connection is closed when the client is done? | violated: the FIN acknowledges a byte never sent and is dropped (`main.py:50`) |

Every passing run finishes in about a minute or less with two workers.

### Bounds

- Ring runs: `Size = 2`, `Modulus = 4`. The counters wrap after four operations, so
  full, empty and every wrapped position occur. Two values suffice to see a slot
  that is stale, swapped or duplicated. Batches go to `Size + 1`, so
  cutting happens. `MaxStores = 3` holds a whole call (two slots and `Producer`).
- `xdp_socket`: five frames with frame size 2 and offset 1, so that an address
  inside a frame is not its start; rings of 2: frames 0, 1 receive, 2-4
  transmit, one more than the Tx ring takes. Requests go to `NumFrames + 1`.
- `held_frames`: four frames, rings of 2; one received frame is enough.
- `dump_frames`: Fill and Rx ring of 4 over 5 frames: several frames in every state at
  once. Nothing is transmitted.
- `socket_lifecycle`: two descriptor numbers, one for the socket and one that others
  take, which is enough for reuse. All four choices of Rx and Tx ring.
- `xdp_program`: two processes of dumpframes, which compete for the queue, and one of
  perf_event, which competes for the link only. Each may be killed and
  started again at any point, any number of times; it has two program instances, the one it
  loaded and the one an earlier life left attached.
- `packet_filter`: the lengths are the ends of headers and one byte less: Ethernet
  (13, 14), a cut tag (17), IP (33, 34), IPv6 or IP and TCP (53, 54, 73), with tags or
  options (58, 62, 82). Three tags are one more than the parser follows; length
  fields are too small, minimal, and larger (4, 5, 6 words). One map entry and an
  index outside the map; a ring buffer for one event, so that it is full at
  once. Ports: 7777 and 24862, which is 7777 with its bytes exchanged. Without bounds: see
  *Proofs*.
- `client`: numbers modulo 32; the server starts in the middle (5) and at every number from
  which the conversation meets the end of the field (26 to 31). A response of 5 bytes
  in packets of 2, 3 or 5: shorter and longer than the two by which scapy lets
  numbers differ, and than the one byte the client acknowledges. A request of 3 bytes, so that
  a number that skips it is not near. One packet is lost at most; any number are overtaken,
  repeated by the server or reported undeliverable.
- Four modules allow a stop (`CHECK_DEADLOCK FALSE`): a panic or
  a `Poll` that failed ends the program, the client ends, and a `Poll` on a socket to which no packet
  comes waits.

### Fairness

- `ProducerRing!FairSpec`: a call that is in progress goes on, an issued store
  becomes visible, and the kernel serves the ring. No client has to call.
- `DumpFrames!FairDumpSpec`: weak fairness of the loop (the goroutine of `main` is the
  only one and is scheduled) and of the kernel taking buffers. Packets need not
  arrive and `poll(2)` need not fail; it returns only for a received frame,
  because the timeout is -1 and nothing is transmitted.
- `XdpProgram!FairSpec`: a process that can take its next step does. Netlink
  failures and signals may or may not come.
- `Client!FairSpec`: the client goes on unless it waits in `sr1`; packets that are not lost
  arrive; the server responds, and retransmits when nothing is on its way to the client (its
  timer is longer than that). Losses, ICMP errors and the kernel's resets need not come.

## Proofs

`XdpSocketProofs` is checked by TLAPS from the assumptions on the options
(`OptionsAssumption`, `HeadroomAssumption`: positive sizes, at least one of Rx and
Tx ring, the packet starts inside its frame). It proves, for every number of frames, frame
size and ring size:

- `TypeCorrect`: all addresses on rings and with the kernel lie in the UMEM, so the
  divisions at `xdp.go:411,435,459,641` never index a free list out of range;
- `FrameExclusiveAlways`: no frame is in two places, or twice in one (for the programs of
  `XdpSocket!Spec`, with the two restrictions of *What is abstracted*);
- `CountersExactAlways`, `FreeListsExactAlways`: the books are right in every state;
- `RingsFitAlways`: no ring gets more than it has slots, though slots are counted before and
  filled after the kernel ran;
- `FreeFramesFitAlways`, `RxRingHasRoomAlways`: `Fill` cuts nothing that `GetDescs` found, and a
  frame the kernel has filled finds a slot on an Rx ring as large as the Fill ring.

`FrameExclusive` is not inductive. That a `Fill` in progress does no harm depends on its
arguments having been free when it was called, on nothing having taken
them since, and on the free list agreeing with the rings at the time of `GetDescs`. The
inductive invariant `IInv` adds `FreeListsExact` and `CountersExact`, the separation of the two
directions (`SidesKept`: receive frames are the first `FillRingNumDescs`
ones, transmit frames the rest; it is what makes two free lists for one UMEM
safe), distinctness inside each direction (`RxApart`, `TxApart`), what a call in
progress may still rely on (`CallConsistent`: its arguments are as they were chosen, and none is among the received frames
the program still holds), `RingsFit`, and that the kernel holds start
addresses (`BuffersAligned`, without which a frame plus offset could
run into its neighbour). One lemma per operation on rings says what it does to the
set of frames (`AppendFrames`, `TailFrames`, `ConcatFrames`, `WithoutFrames`,
`SplitFrames`, `PrefixFrames`, `GetDescsFrames`); one lemma per action shows `IInv` preserved.
The last two theorems need no more than `IInv` and a count: a queue without repetitions has as
many entries as frames (`DistinctCount`), and sets of receive frames that have none in common are together
no more than `FillRingNumDescs` (`RxFramesBounded`).

Two of these carry over to `SocketPanics`, in the same module
(`FrameExclusiveUntilPanic`, `CountersExactUntilPanic`): with any options, a panic included, frames
and counters are right. A panic changes neither. That these options do lead to a panic takes one call and no run: it is the
guard of each action of `SocketPanics`.

`PacketFilterProofs` is checked from `PacketAssumption`, `PortAssumption` and `MapAssumption` (lengths and
fields are naturals, 5 words is a possible header length, ports have 16 bits). For packets of every length, with
any number of tags and any length fields, and for maps and ring buffers of any size:

- `InBoundsAlways`: no parser reads past `data_end`;
- `OnlyPortTakenAlways`: only packets that are TCP packets for the port by
  `ForPort`, which says where the headers are in closed form, are taken;
- `AbortsExplainedAlways`, an action property: every step that aborts has one of four causes when it is
  taken, a full ring buffer among them, and coming between the updates of `Register` is none of them;
- `RegisteredDeliveredAlways`: after `Register` returned, none of the port's packets is
  passed to the network stack.

None of the invariants is inductive: a verdict at the end depends on where the cursor has been. `IInv` adds
`ParserPlace` (at each label the cursor is where the closed form puts it: behind the
tags skipped so far, at `NetworkEnd` before the TCP header; and the loop over tags
stopped for one of its three reasons), `ProgramPlace` (which program may be where, and
that an index that passed the lookup is in the map) and `SocketFirst` (a set queue entry
had its socket first). `RegisteredDelivered` needs the converse direction too: a packet
that is for the port by the closed form cannot leave the parser early. `SwapTwice` and
`PortAsSent` show that both builds compare the port that was sent, for every 16-bit
number: what is loaded and what `bpf_ntohs` does to it cancel out.

`AbortsExplained` looks at the ring buffer and the maps when the verdict is given, which later steps change, so it is not a part
of `IInv`: `AbortStep` goes through the steps that abort and takes the place of the cursor from `IInv`.

`TypeCorrect` of `PacketFilterProofs` adds that the cursor and the verdict keep their types.

The last part of `XdpSocketProofs` is about the loop `DumpFrames`, under the options' assumptions alone:

- `ImplementsSocketAlways`: every step of the loop is a step of `XdpSocket!Spec` or none;
- `PollCountStillHoldsAlways`: what `Poll` counted is still there when `Receive` is called;
- `LoopFrameExclusive`: hence no frame is in two places while dumpframes runs.

A step of the loop maps to a call of the socket only if the call's argument is one the socket's
clients may pass, so `LoopInv` adds to `IInv`: which method may be in progress at each
point of the loop (`LoopCall`), that the transmit side is empty (`NothingSent`), and that the
slots counted are still free when `Fill` is called and the kernel holds a frame afterwards (`SlotsCounted`).

`RingArithProofs` says what the unsigned arithmetic of the rings is without the modulus (`DistanceValue`, `SuccValue`,
`AtValue`), so that the steps of both rings become linear arithmetic. Its core is `SlotsDiffer`: counters less than a ring apart have different
slots, also across the wrap, because the size divides the modulus. It is checked from
`SizeAssumption` and `ModulusAssumption` (the ring size divides the range of the counters, which holds two rings: powers of two
below 2^32).

`ProducerRingProofs` adds `ValueAssumption` and `StoresAssumption`. For every size, modulus and number of pending stores, and
for processors that reorder stores too:

- `TypeCorrect`: what is read back is a descriptor or a counter, and a call's locals stay in range;
- `CountersOrderedAlways`: the kernel's counters never pass the program's and never fall more than a ring behind, so the subtraction at `xdp.go:657,673` does not wrap.

Where stores become visible in the order in which they were issued (`StoresInOrder`, a hypothesis of the theorem, not an assumption of the module):

- `ConsumesSubmittedInOrder`: the kernel consumes descriptors, never a slot whose store is still on its way;
- `ImplementsFifoInOrder`: the ring is a `BoundedFifo`.

The hypothesis is needed: the run `producer_ring_weak` shows `ConsumesSubmitted` violated without it.
The program's own `Producer` is what it reads back, the newest of any number of pending stores or else memory, so `IInv` says first
that each location has a newest store, of its type (`StoresKept`). It then puts the counters in order around the circle (`CounterOrder`), the
pending stores of `Producer` between what the kernel may see and what the program has stored, in order of age (`PendingOrder`), and
keeps what is left of a call below the free slots it counted (`CallFits`). `DrainSeen` says that showing a store changes nothing the program
reads back: by it, `Drain` is nothing to the queue. `FInv` adds that the slots from the kernel's position to `Producer` read back as
descriptors (`Written`), and that a pending store to a slot is for a counter that neither `Producer` nor an older pending value of it has
passed (`SlotsAhead`): when the kernel sees a counter, the slots before it are in memory. That is the part that needs the order. `StoreProducer` is a `Put`,
`KernelConsume` a `Take`, and all other steps are nothing to the queue.

`ConsumerRingProofs` is checked from the same assumptions on sizes and values. For every size and modulus:

- `TypeCorrect`: a masked counter is a slot, and a call's locals stay in range;
- `NeverPastProducerAlways`: no call takes what was not produced, so `NumReceived` and `NumCompleted` do not wrap;
- `ImplementsFifoAlways`: the ring is a `BoundedFifo`.

`IInv` puts the kernel's own counters and the shared ones in order around the circle (`KernelOrder`) and keeps
what was counted before a call and what is left of a call below what is there (`CountHolds`, `CallFits`). For the refinement `FInv` adds that the slots up to the kernel's producer are `Written` and
that what a call has `Copied` is still in the ring. By `SlotsDiffer` the kernel overwrites
nothing that is yet to be taken (`NotOverwritten`); `KernelSubmit` is a `Put`,
`StoreConsumer` a `Take`, and all other steps are nothing to the queue.

`SocketLifecycleProofs`, from `FDAssumption` (the record of no descriptor is no descriptor number), for any set of numbers:

- `FailureReleasesAlways`, `PointersValidAlways`, `TypeCorrect`;
- `CloseSparesOthersAlways`, an action property: no step but its owner's closes a descriptor of somebody else.

All rest on the record being exact in both directions (`RecordExact`): the number on record is open and the socket's, and
no other number is. `DescriptorKept` ties it to the place in `NewSocket`, `UmemKept` and `Released` follow the UMEM.

`XdpProgramProofs`, from `ProcAssumption` and `NoneAssumption`, for any set of processes, any of which may run perf_event,
be killed, and fail anywhere, in `Detach` too: `FlagMeansSocket`, `NothingLeftAttached`, `LoopServed` and `TypeCorrect`.
The invariant says whose program instance is whose (`ProgLoaded`, `SocketsKept`, `BoundKept`), what `Register` has done at
each control point (`RegisterOrder`: the socket is in before the flag), that what is attached
is on record in `left` or belongs to a process that has yet to detach it (`AttachedKept`), and that nobody but the last to change the link
took a program away (`ServedKept`). `MapsKept` says that a loaded instance keeps its maps when the kernel frees those of others. `AttachedHasOwner` alone is not
inductive: between the requests of one `Detach` others attach and remove.

`ClientProofs`, from `LengthAssumption` and `ModulusAssumption` (positive lengths; one conversation fits half of the
sequence space), for any lengths, chunks and initial numbers: `TypeCorrect` (no packet carries a number that
does not fit) and `RequestHeard` (`SuccessMeansRequestHeard`). That an ACK means a request heard
depends on everything that can be under way when it is sent, so `IInv` follows the server through the conversation: before it has heard
of the client only the SYN is under way (`Listening`); until it has the request, nothing but its SYN-ACK, resets and
the one request, in sequence and with the right acknowledgment, are (`Half`, `RequestInSequence`); from
then on the request is behind it and one FIN at most ahead (`Heard`). `AcksHeard` keeps that for ACKs that arrive
after the connection is gone.

The inductive invariants were first checked by TLC on the instances of the runs.

Only model-checked, since the prover has no rule for fairness here: the liveness properties
`EverySubmissionConsumed`, `EveryFrameDumped`, `KernelResupplied`, `StartEnds` and `EndsUnlessLost`. Every
invariant, action property and refinement of a passing run is proved as well.

## What the code does and its comments do not say

Four disagreements have a run (see *Runs*). Others met while modelling, visible in the
definitions, without a run of their own:

- `xdp.go:630` "Complete consumes up to n descriptors": it consumes exactly n,
  whether they are there or not (`ConsumerRing!Complete`).
- `xdp.go:711` `NumFilled` "which have not yet been consumed by the kernel": it counts what
  the kernel has consumed too, until `Receive` (`CountersExact` says what it counts).
- `xdp.go:537` "first half of umem, 2nd half otherwise": the border is
  `FillRingNumDescs` (`XdpSocket!Searched`), half of the UMEM for default options only.
- `xdp.go:288` "RxRingNumDescs and TxRingNumDescs cannot both be set to zero": one of them can, but without an Rx ring
  `Stats` (`xdp.go:739`) and `Poll` (`:528,684`) follow a nil pointer (`SocketPanics!StatsPanics`, `PollPanics`).
- `xdp.go:536` "GetDescs returns up to n descriptors": with a Fill ring larger than the UMEM, which `NewSocket` accepts, and n larger
  than what is free, the search runs off the free list and panics (`xdp.go:555,564`, `SocketPanics!FillFreePanics`).
- `xdp.go:582` "frees the resources": ring mappings stay (`SocketLifecycle!Close`); and the
  error return at `xdp.go:287-289` closes nothing (`SocketLifecycle!CheckRings`).
- `program.go:46` `Unregister` "removes any associated mapping": it fails at its first
  step, since `qidconf_map` is an array, and removes nothing (`XdpProgram!Unregister`).
- `dumpframes.go:67` drops the error of `Detach`: when the request to remove fails, the program stays attached
  after `main` returned (`XdpProgram!DetachFails`).
- `program.go:186`: `Detach` removes whatever is attached, also another process's
  program (`XdpProgram!Remove`).
- `tcp_syn_kern.c:48` "pass all other packets to the kernel": packets shorter than an
  Ethernet header, and TCP packets with a cut or too short header, are aborted
  (`PacketFilter!Malformed`). An IP header in the same state passes, since the -1 of
  `parse_iphdr` is taken for a protocol (`tcp_syn_kern.c:85`).
- A queue outside the map: `xdp_sock_prog` passes the packet (`tcp_syn_kern.c:45`),
  `NewProgram`'s instructions return 0, which aborts it (`program.go:129-130`).
- The event filter aborts packets of the port while the ring buffer is full; its own
  comment (perf_event's `tcp_syn_kern.c:74`) doubts that it should.
- `main.py:45` "HTTP GET request successful!" is printed for a bare ACK and for a reset
  (`Client!GetAnswered`); the response itself is not read. `main.py:20,50,57` raise an
  exception when the server's number is 2^32 - 1 (`Client!Send`).
- The client's kernel resets the connection it does not know (`Client!Arrives`), unless the firewall
  rule of `src/README.md:100-103` is set, which drops its resets; the model has both, since the reset may or may not come. If the reset comes after the server took the
  request and before it answers, `sr1` waits for ever.
- `main.py:70` sends to port 8080, and the filters look for 7777 (`tcp_syn_kern.c:102`).
- `Stats` has `uint64` fields for totals and fills them from counters of 32 bits that wrap
  (`xdp.go:738-744`).
- `dumpframes.go` has no signal handler: killed, it leaves a program attached whose
  queue entry is set and whose socket is gone (`XdpProgram!Killed`).

## Not modelled

- The numbers `Stats` returns, and `GetFrame`, `FD`, `NumFilled`, `NumTransmitted`: they
  change no state.
- Slices over buffers of the `Socket` (`xdp.go:429,571`): no program of the repository keeps one
  over the call that overwrites it.
- Processors that reorder loads (`xdp.go:431`); `ProducerRing` has those that reorder stores.
- Timers with which the server gives a connection up, and urgent data, windows and options of TCP: the
  client uses none of them.
- `pad` of `main.py`, which has no caller.
- `LoadProgram`, which no program of the repository calls and which only looks up
  names, and `parse_udphdr`, which has no caller.
- `src/server`: a function that returns its argument.
- Code written by bpf2go.
- Copies of libbpf and kernel headers (`bpf.h`, `bpf_helper_defs.h`, `bpf_helpers.h`).
  They hold some 14,000 of the repository's 14,659 lines of C, nearly all of it
  comments and declarations of helpers and types, most of which nothing here uses. There
  is no behaviour in them to model; what the three helpers the programs call
  (`bpf_map_lookup_elem`, `bpf_redirect_map`, `bpf_ringbuf_output`) return is in `Lookup`,
  `Redirect` and `Output` of `PacketFilter`. Of `bpf_endian.h` the 16-bit macros are modelled; nothing uses the others.

With these exceptions every operation of the repository's own code that changes
state is an action of a module.

## Plan

Done: all modules of the table above, and the theorems of *Proofs*.

Next: processors that reorder loads, in `ConsumerRing`, the counterpart of what `ProducerRing` has for stores.
