---------------------------- MODULE PacketFilter ----------------------------
(***************************************************************************)
(* The XDP programs of the repository, run on one packet at a time while   *)
(* the Go program registers a socket or reads events:                      *)
(*                                                                         *)
(*   xdp_sock_prog    of dumpframes (tcp_syn_kern.c), redirects to AF_XDP; *)
(*   perf_event_test  of perf_event (tcp_syn_kern.c), outputs an event;    *)
(*   xsk_ebpf         the instructions of NewProgram (program.go).         *)
(*                                                                         *)
(* The first two parse headers with the functions of tcp_syn_kern.h.  A    *)
(* packet is its length and the header fields that the parsers look at;    *)
(* positions are bytes from the start of the packet, data_end its length.  *)
(***************************************************************************)
EXTENDS Naturals

CONSTANTS
  Lengths,      \* lengths of packets
  MaxTags,      \* bound: VLAN tags of a packet
  HeaderWords,  \* values of the length fields ihl and doff, in words of 4 bytes
  Ports,        \* destination ports
  MaxSocks,     \* MAX_SOCKS, the entries of both maps
  MaxEvents     \* bound: events the BPF ring buffer holds

ASSUME PacketAssumption ==
  /\ Lengths \subseteq Nat /\ MaxTags \in Nat
  /\ HeaderWords \subseteq Nat /\ 5 \in HeaderWords
ASSUME PortAssumption == \A port \in Ports : port \in Nat /\ port < 65536
ASSUME MapAssumption == MaxSocks \in Nat /\ MaxEvents \in Nat

(* sizeof struct ethhdr, vlan_hdr, iphdr, ipv6hdr, tcphdr *)
EthSize == 14
VlanSize == 4
IpSize == 20
Ip6Size == 40
TcpSize == 20

VLAN_MAX_DEPTH == 2

FilterPort == 7777

(* tcp says whether protocol or nexthdr is IPPROTO_TCP; port is dest as it *)
(* was sent.  A field of a header the packet has not got keeps one value.  *)
(* EtherTypes stay symbols: h_proto is compared in network byte order.     *)
Packet ==
  {p \in [len : Lengths, tags : 0 .. MaxTags, l3 : {"IP", "IPV6", "other"},
          ihl : HeaderWords, tcp : BOOLEAN, doff : HeaderWords,
          port : Ports \cup {FilterPort}] :
     /\ p.l3 # "IP" => p.ihl = 5
     /\ p.l3 = "other" => ~p.tcp
     /\ ~p.tcp => p.doff = 5 /\ p.port = FilterPort}

NoPacket ==
  [len |-> 0, tags |-> 0, l3 |-> "other", ihl |-> 5, tcp |-> FALSE, doff |-> 5,
   port |-> FilterPort]

VARIABLES
  program,   \* the program that is attached
  little,    \* its build: bpfel, for little-endian processors, or bpfeb
  packet,    \* the packet it runs on
  index,     \* ctx->rx_queue_index
  pc,        \* where it is
  pos,       \* nh->pos
  reach,     \* the end of the packet bytes it has read
  proto,     \* h_proto
  tag,       \* i of the loop over VLAN tags
  verdict,   \* its result
  armed,     \* whether Register had returned when the packet arrived
  queues,    \* qidconf_map
  sockets,   \* xsks_map: "none" before, "closed" after the socket is there
  events     \* events in the BPF ring buffer

cursor == <<pos, reach, proto, tag>>
arrival == <<program, little, packet, index, armed>>
maps == <<queues, sockets, events>>
vars == <<arrival, pc, cursor, verdict, maps>>

Queue == 0 .. MaxSocks - 1

Init ==
  /\ program \in {"xdp_sock_prog", "perf_event_test", "xsk_ebpf"}
  /\ little \in BOOLEAN
  /\ packet = NoPacket /\ index = 0 /\ armed = FALSE
  /\ pc = "idle" /\ verdict = "none"
  /\ pos = 0 /\ reach = 0 /\ proto = "none" /\ tag = 0
  /\ queues = [q \in Queue |-> 0]
  /\ sockets = [q \in Queue |-> "none"]
  /\ events = 0

Arrive(p, i) ==
  /\ pc = "idle"
  /\ packet' = p /\ index' = i
  /\ armed' = (i \in Queue /\ queues[i] = 1)
  /\ pc' = IF program = "perf_event_test" THEN "ethernet" ELSE "lookup"
  /\ UNCHANGED <<program, little, cursor, verdict, maps>>

Goto(label) == pc' = label /\ UNCHANGED verdict
Conclude(action) == pc' = "done" /\ verdict' = action
-----------------------------------------------------------------------------
(* bpf_map_lookup_elem(&qidconf_map, &index): NULL when the array has no   *)
(* such entry.  xdp_sock_prog passes the packet, xsk_ebpf returns 0.       *)
Lookup ==
  /\ pc = "lookup" /\ program = "xdp_sock_prog"
  /\ IF index \in Queue THEN Goto("ethernet") ELSE Conclude("PASS")
  /\ UNCHANGED <<arrival, cursor, maps>>

LookupDefault ==
  /\ pc = "lookup" /\ program = "xsk_ebpf"
  /\ IF index \in Queue THEN Goto("qidconf") ELSE Conclude("ABORTED")
  /\ UNCHANGED <<arrival, cursor, maps>>

(* nh->pos + n <= data_end *)
Fits(n) == pos + n <= packet.len

(* The EtherType after i VLAN tags. *)
EtherType(i) == IF i < packet.tags THEN "VLAN" ELSE packet.l3

(* parse_ethhdr_vlan, up to its loop *)
ParseEthhdr ==
  /\ pc = "ethernet"
  /\ IF Fits(EthSize)
     THEN /\ pos' = pos + EthSize /\ reach' = pos + EthSize
          /\ proto' = EtherType(0) /\ tag' = 0
          /\ Goto("vlan")
     ELSE Conclude("ABORTED") /\ UNCHANGED cursor
  /\ UNCHANGED <<arrival, maps>>

SkipTag ==
  /\ pos' = pos + VlanSize /\ reach' = pos + VlanSize
  /\ proto' = EtherType(tag + 1) /\ tag' = tag + 1
  /\ Goto("vlan")

(* Mutants: the loop is not bounded; it is bounded by one tag. *)
ParseVlanUnbounded ==
  /\ pc = "vlan"
  /\ IF proto = "VLAN" /\ Fits(VlanSize)
     THEN SkipTag
     ELSE Goto("network") /\ UNCHANGED cursor
  /\ UNCHANGED <<arrival, maps>>

ParseVlanOnce ==
  /\ pc = "vlan"
  /\ IF tag + 1 < VLAN_MAX_DEPTH /\ proto = "VLAN" /\ Fits(VlanSize)
     THEN SkipTag
     ELSE Goto("network") /\ UNCHANGED cursor
  /\ UNCHANGED <<arrival, maps>>

(* A turn of the loop, or its end: no tag, no room for one, or too many.   *)
ParseVlan ==
  /\ pc = "vlan"
  /\ IF tag < VLAN_MAX_DEPTH /\ proto = "VLAN" /\ Fits(VlanSize)
     THEN SkipTag
     ELSE Goto("network") /\ UNCHANGED cursor
  /\ UNCHANGED <<arrival, maps>>

(* The header at pos is read up to size, and skipped by its own length     *)
(* when that is valid.                                                     *)
Skips(size, length) == Fits(size) /\ length >= size /\ Fits(length)

SkipHeader(size, length) ==
  /\ reach' = IF Fits(size) THEN pos + size ELSE reach
  /\ pos' = IF Skips(size, length) THEN pos + length ELSE pos
  /\ UNCHANGED <<proto, tag>>

(* Mutant: ihl is read before the header is known to be there. *)
ParseIphdrUnchecked ==
  /\ pc = "network" /\ proto = "IP"
  /\ reach' = pos + IpSize
  /\ pos' = IF Skips(IpSize, 4 * packet.ihl) THEN pos + 4 * packet.ihl ELSE pos
  /\ IF Skips(IpSize, 4 * packet.ihl) /\ packet.tcp THEN Goto("tcp") ELSE Conclude("PASS")
  /\ UNCHANGED <<arrival, proto, tag, maps>>

(* parse_iphdr and parse_ip6hdr.  Their -1 is a protocol other than TCP    *)
(* for the caller, which passes the packet.                                *)
ParseIphdr ==
  /\ pc = "network" /\ proto = "IP"
  /\ SkipHeader(IpSize, 4 * packet.ihl)
  /\ IF Skips(IpSize, 4 * packet.ihl) /\ packet.tcp THEN Goto("tcp") ELSE Conclude("PASS")
  /\ UNCHANGED <<arrival, maps>>

ParseIp6hdr ==
  /\ pc = "network" /\ proto = "IPV6"
  /\ SkipHeader(Ip6Size, Ip6Size)
  /\ IF Fits(Ip6Size) /\ packet.tcp THEN Goto("tcp") ELSE Conclude("PASS")
  /\ UNCHANGED <<arrival, maps>>

OtherProtocol ==
  /\ pc = "network" /\ proto \notin {"IP", "IPV6"}
  /\ Conclude("PASS")
  /\ UNCHANGED <<arrival, cursor, maps>>

(* parse_tcphdr.  Its -1 aborts. *)
ParseTcphdr ==
  /\ pc = "tcp"
  /\ SkipHeader(TcpSize, 4 * packet.doff)
  /\ IF Skips(TcpSize, 4 * packet.doff) THEN Goto("port") ELSE Conclude("ABORTED")
  /\ UNCHANGED <<arrival, maps>>

(* The bytes of a 16-bit number, exchanged. *)
Swap16(x) == 256 * (x % 256) + x \div 256

(* The number the processor loads from two bytes of the packet. *)
Load16(wire) == IF little THEN Swap16(wire) ELSE wire

(* Mutant: the number is taken as it was loaded. *)
NoSwap(x) == x

(* __builtin_bswap16 in the little-endian build only *)
bpf_ntohs(x) == IF little THEN Swap16(x) ELSE x

(* bpf_ntohs(tcp->dest) == 7777 *)
CheckPort ==
  /\ pc = "port"
  /\ IF bpf_ntohs(Load16(packet.port)) = FilterPort
     THEN Goto(IF program = "xdp_sock_prog" THEN "qidconf" ELSE "output")
     ELSE Conclude("PASS")
  /\ UNCHANGED <<arrival, cursor, maps>>

(* The entry is read through the pointer of the lookup, as it is now. *)
CheckQueue ==
  /\ pc = "qidconf"
  /\ IF queues[index] = 1 THEN Goto("redirect") ELSE Conclude("PASS")
  /\ UNCHANGED <<arrival, cursor, maps>>

(* bpf_redirect_map(&xsks_map, index, 0): the flags, XDP_ABORTED, when     *)
(* there is no socket.                                                     *)
Redirect ==
  /\ pc = "redirect"
  /\ Conclude(IF sockets[index] = "open" THEN "REDIRECT" ELSE "ABORTED")
  /\ UNCHANGED <<arrival, cursor, maps>>

(* Mutant: the test of the result is inverted. *)
OutputInverted ==
  /\ pc = "output"
  /\ IF events < MaxEvents
     THEN events' = events + 1 /\ Conclude("ABORTED")
     ELSE Conclude("PASS") /\ UNCHANGED events
  /\ UNCHANGED <<arrival, cursor, queues, sockets>>

(* bpf_ringbuf_output: an error when the event does not fit. *)
Output ==
  /\ pc = "output"
  /\ IF events < MaxEvents
     THEN events' = events + 1 /\ Conclude("PASS")
     ELSE Conclude("ABORTED") /\ UNCHANGED events
  /\ UNCHANGED <<arrival, cursor, queues, sockets>>

(* The kernel does what the verdict says. *)
Return ==
  /\ pc = "done"
  /\ packet' = NoPacket /\ index' = 0 /\ armed' = FALSE
  /\ pc' = "idle" /\ verdict' = "none"
  /\ pos' = 0 /\ reach' = 0 /\ proto' = "none" /\ tag' = 0
  /\ UNCHANGED <<program, little, maps>>
-----------------------------------------------------------------------------
(* Program.Register: first the socket, then the queue.  Unregister leaves  *)
(* both maps as they are (see XdpProgram).                                 *)
RegisterSocket(q) ==
  /\ program # "perf_event_test" /\ sockets[q] = "none"
  /\ sockets' = [sockets EXCEPT ![q] = "open"]
  /\ UNCHANGED <<arrival, pc, cursor, verdict, queues, events>>

(* Mutant: the queue may come first. *)
RegisterQueueEarly(q) ==
  /\ program # "perf_event_test" /\ sockets[q] # "closed" /\ queues[q] = 0
  /\ queues' = [queues EXCEPT ![q] = 1]
  /\ UNCHANGED <<arrival, pc, cursor, verdict, sockets, events>>

RegisterQueue(q) ==
  /\ sockets[q] = "open" /\ queues[q] = 0
  /\ queues' = [queues EXCEPT ![q] = 1]
  /\ UNCHANGED <<arrival, pc, cursor, verdict, sockets, events>>

(* The process ends and the kernel takes its socket out of xsks_map. *)
SocketCloses(q) ==
  /\ sockets[q] = "open"
  /\ sockets' = [sockets EXCEPT ![q] = "closed"]
  /\ UNCHANGED <<arrival, pc, cursor, verdict, queues, events>>

(* rd.Read() of perf_event's main *)
Read ==
  /\ events > 0
  /\ events' = events - 1
  /\ UNCHANGED <<arrival, pc, cursor, verdict, queues, sockets>>

ProgramNext ==
  \/ Lookup \/ LookupDefault
  \/ ParseEthhdr \/ ParseVlan \/ ParseIphdr \/ ParseIp6hdr \/ OtherProtocol \/ ParseTcphdr
  \/ CheckPort \/ CheckQueue \/ Redirect \/ Output
  \/ Return

UserNext ==
  \/ \E q \in Queue : RegisterSocket(q) \/ RegisterQueue(q) \/ SocketCloses(q)
  \/ Read

Next ==
  \/ \E p \in Packet, i \in 0 .. MaxSocks : Arrive(p, i)
  \/ ProgramNext
  \/ UserNext

Spec == Init /\ [][Next]_vars
-----------------------------------------------------------------------------
Label == {"idle", "lookup", "ethernet", "vlan", "network", "tcp", "port", "qidconf",
          "redirect", "output", "done"}

(* The locals of the XDP programs (tcp_syn_kern.c:50-60) and the maps. *)
TypeOK ==
  /\ program \in {"xdp_sock_prog", "perf_event_test", "xsk_ebpf"}
  /\ little \in BOOLEAN
  /\ packet \in Packet \cup {NoPacket} /\ index \in 0 .. MaxSocks
  /\ armed \in BOOLEAN
  /\ pc \in Label /\ verdict \in {"none", "PASS", "ABORTED", "REDIRECT"}
  /\ pos \in Nat /\ reach \in Nat
  /\ proto \in {"none", "VLAN", "IP", "IPV6", "other"} /\ tag \in 0 .. VLAN_MAX_DEPTH
  /\ queues \in [Queue -> {0, 1}]
  /\ sockets \in [Queue -> {"none", "open", "closed"}]
  /\ events \in 0 .. MaxEvents

(* No parser reads at or after data_end or moves its cursor beyond it      *)
(* (tcp_syn_kern.h:76,92,122,131,146,182,191), whatever the length fields  *)
(* of the packet say.                                                      *)
InBounds == reach <= packet.len /\ pos <= packet.len

(* What the programs are meant to find, in closed form: the end of the     *)
(* network header of a packet that is not cut short, a TCP segment behind  *)
(* at most two tags, and whether its own header is whole.                  *)
NetworkEnd(p) ==
  EthSize + VlanSize * p.tags + (IF p.l3 = "IP" THEN 4 * p.ihl ELSE Ip6Size)

IsTcp(p) ==
  /\ p.tags <= VLAN_MAX_DEPTH
  /\ p.l3 \in {"IP", "IPV6"}
  /\ p.l3 = "IP" => 4 * p.ihl >= IpSize
  /\ NetworkEnd(p) <= p.len
  /\ p.tcp

WholeTcp(p) == 4 * p.doff >= TcpSize /\ NetworkEnd(p) + 4 * p.doff <= p.len

ForPort(p) == IsTcp(p) /\ WholeTcp(p) /\ p.port = FilterPort

Malformed(p) == p.len < EthSize \/ (IsTcp(p) /\ ~WholeTcp(p))

(* "redirect packets to an xdp socket that match the given IPv4 or IPv6    *)
(* protocol" (tcp_syn_kern.c:48): only a whole TCP packet for the port is  *)
(* redirected (:102-104) or makes an event, by the builds for either byte  *)
(* order.  NewProgram's instructions do not look at the packet.            *)
OnlyPortTaken ==
  /\ pc = "output" => ForPort(packet)
  /\ program = "xdp_sock_prog" /\ (pc \in {"qidconf", "redirect"} \/ verdict = "REDIRECT") =>
       ForPort(packet)

SocketGone == index \in Queue /\ sockets[index] = "closed"

(* Why a packet may be dropped with XDP_ABORTED at this moment: its own    *)
(* malformed headers (tcp_syn_kern.c:64,91), a socket that is gone (:104), *)
(* a ring buffer that is full (perf_event's tcp_syn_kern.c:71-77) or, for  *)
(* NewProgram's instructions, a queue outside the map.                     *)
AbortCause ==
  \/ program # "xsk_ebpf" /\ Malformed(packet)
  \/ program = "xdp_sock_prog" /\ ForPort(packet) /\ SocketGone
  \/ program = "perf_event_test" /\ ForPort(packet) /\ events = MaxEvents
  \/ program = "xsk_ebpf" /\ (index \notin Queue \/ SocketGone)

(* A step that gives the verdict XDP_ABORTED has one of these causes when  *)
(* it is taken: the packet does not suffer from coming while Register is   *)
(* between its two updates (program.go:36-40), nor while the ring buffer   *)
(* has room, however late its reader comes.                                *)
AbortsExplained == [][verdict # "ABORTED" /\ verdict' = "ABORTED" => AbortCause]_vars

(* Once Register has returned (program.go:35-44), a packet for the port    *)
(* that arrives on its queue never goes to the network stack: tags, IP     *)
(* options and TCP options do not hide it from xdp_sock_prog.              *)
RegisteredDelivered ==
  armed /\ verdict = "PASS" => program = "xdp_sock_prog" /\ ~ForPort(packet)
=============================================================================
