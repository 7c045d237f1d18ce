------------------------- MODULE PacketFilterProofs -------------------------
(***************************************************************************)
(* Proofs about PacketFilter, for packets of any length with any number of *)
(* tags and any header lengths, and for maps and ring buffers of any size. *)
(***************************************************************************)
EXTENDS PacketFilter, TLAPS

(* Where the parser is, in terms of the closed form: the tags it skipped   *)
(* are the packet's first ones, and it stopped for one of three reasons.   *)
AtTag ==
  /\ tag <= packet.tags
  /\ pos = EthSize + VlanSize * tag
  /\ proto = EtherType(tag)

ParserPlace ==
  /\ pc \in {"idle", "lookup", "ethernet"} => pos = 0 /\ reach = 0
  /\ pc \notin {"idle", "done"} => packet \in Packet
  /\ pc = "vlan" => AtTag
  /\ pc = "network" =>
       AtTag /\ (tag = VLAN_MAX_DEPTH \/ proto # "VLAN" \/ ~Fits(VlanSize))
  /\ pc = "tcp" => IsTcp(packet) /\ pos = NetworkEnd(packet)
  /\ pc = "port" => IsTcp(packet) /\ WholeTcp(packet)

(* Which program may be where, and what its lookup has established. *)
ProgramPlace ==
  /\ pc = "lookup" => program # "perf_event_test"
  /\ pc \in {"ethernet", "vlan", "network", "tcp", "port"} => program # "xsk_ebpf"
  /\ pc = "output" => program = "perf_event_test"
  /\ pc \in {"qidconf", "redirect"} => program # "perf_event_test"
  /\ pc \notin {"idle", "lookup", "done"} /\ program # "perf_event_test" => index \in Queue
  /\ verdict # "none" => pc = "done"
  /\ verdict = "REDIRECT" => program # "perf_event_test"

(* A set queue entry had its socket first, and the redirect comes after    *)
(* the entry was seen set.                                                 *)
SocketFirst ==
  /\ \A q \in Queue : queues[q] = 1 => sockets[q] # "none"
  /\ program = "perf_event_test" => \A q \in Queue : sockets[q] = "none"
  /\ pc = "redirect" => queues[index] = 1
  /\ armed => index \in Queue /\ queues[index] = 1

IInv ==
  /\ TypeOK
  /\ InBounds
  /\ ParserPlace
  /\ ProgramPlace
  /\ SocketFirst
  /\ OnlyPortTaken
  /\ RegisteredDelivered
-----------------------------------------------------------------------------
(* The fields of a packet have the types the parsers rely on               *)
(* (tcp_syn_kern.h:125,185).                                               *)
LEMMA PacketFields ==
  ASSUME NEW p \in Packet \cup {NoPacket}
  PROVE  /\ p.len \in Nat /\ p.tags \in Nat /\ p.ihl \in Nat /\ p.doff \in Nat
         /\ p.l3 \in {"IP", "IPV6", "other"}
<1>1. CASE p \in Packet
  <2> DEFINE R == [len : Lengths, tags : 0 .. MaxTags, l3 : {"IP", "IPV6", "other"},
                   ihl : HeaderWords, tcp : BOOLEAN, doff : HeaderWords,
                   port : Ports \cup {FilterPort}]
  <2>1. p \in R
    BY <1>1 DEF Packet
  <2>2. /\ p.len \in Lengths /\ p.tags \in 0 .. MaxTags
        /\ p.ihl \in HeaderWords /\ p.doff \in HeaderWords
        /\ p.l3 \in {"IP", "IPV6", "other"}
    BY <2>1, Zenon
  <2>3. p.len \in Nat
    BY <2>2, PacketAssumption
  <2>4. p.tags \in Nat
    BY <2>2, PacketAssumption
  <2>5. p.ihl \in Nat /\ p.doff \in Nat
    BY <2>2, PacketAssumption
  <2> QED BY <2>2, <2>3, <2>4, <2>5
<1>2. CASE p = NoPacket
  BY <1>2 DEF NoPacket
<1> QED BY <1>1, <1>2

(* A 16-bit number is made of its two bytes, which ___bpf_mvb isolates     *)
(* (bpf_endian.h:13).                                                      *)
LEMMA Bytes ==
  ASSUME NEW x \in Nat, x < 65536
  PROVE  /\ x \div 256 \in 0 .. 255 /\ x % 256 \in 0 .. 255
         /\ x = 256 * (x \div 256) + (x % 256)
<1>1. x \div 256 \in 0 .. 255
  OBVIOUS
<1>2. x % 256 \in 0 .. 255
  OBVIOUS
<1>3. x = 256 * (x \div 256) + (x % 256)
  OBVIOUS
<1> QED BY <1>1, <1>2, <1>3

(* The number made of two bytes has these bytes (bpf_endian.h:15-17). *)
LEMMA BytesOf ==
  ASSUME NEW hi \in 0 .. 255, NEW lo \in 0 .. 255
  PROVE  (256 * hi + lo) \div 256 = hi /\ (256 * hi + lo) % 256 = lo
OBVIOUS

(* Exchanging the bytes twice (bpf_endian.h:15-17) gives the number back. *)
LEMMA SwapTwice ==
  ASSUME NEW x \in Nat, x < 65536
  PROVE  Swap16(Swap16(x)) = x
<1> DEFINE hi == x \div 256
           lo == x % 256
<1>1. hi \in 0 .. 255 /\ lo \in 0 .. 255 /\ x = 256 * hi + lo
  BY Bytes
<1>2. Swap16(x) = 256 * lo + hi
  BY DEF Swap16
<1> HIDE DEF hi, lo
<1>3. Swap16(256 * lo + hi) = 256 * hi + lo
  BY <1>1, BytesOf DEF Swap16
<1> QED BY <1>1, <1>2, <1>3

(* What the comparison sees is the port that was sent, in the builds for   *)
(* either byte order (bpf_endian.h:50-85).                                 *)
LEMMA PortAsSent ==
  ASSUME packet \in Packet
  PROVE  bpf_ntohs(Load16(packet.port)) = packet.port
<1> DEFINE port == packet.port
<1>1. port \in Ports \cup {FilterPort}
  BY DEF Packet
<1> HIDE DEF port
<1>2. port \in Nat /\ port < 65536
  BY <1>1, PortAssumption DEF FilterPort
<1>3. bpf_ntohs(Load16(port)) = port
  BY <1>2, SwapTwice DEF bpf_ntohs, Load16
<1> QED BY <1>3 DEF port

(* Empty maps and no packet (tcp_syn_kern.c:22-34, program.go:91-112). *)
LEMMA InitIInv == Init => IInv
<1> SUFFICES ASSUME Init PROVE IInv
  OBVIOUS
<1>1. TypeOK
  <2>1. queues \in [Queue -> {0, 1}] /\ sockets \in [Queue -> {"none", "open", "closed"}]
    BY DEF Init
  <2>2. index \in 0 .. MaxSocks /\ tag \in 0 .. VLAN_MAX_DEPTH /\ events \in 0 .. MaxEvents
    BY MapAssumption DEF Init, VLAN_MAX_DEPTH
  <2>3. armed \in BOOLEAN
    BY DEF Init
  <2> QED BY <2>1, <2>2, <2>3 DEF Init, TypeOK, Label
<1>2. InBounds
  BY DEF Init, InBounds, NoPacket
<1>3. ParserPlace /\ ProgramPlace
  BY DEF Init, ParserPlace, ProgramPlace
<1>4. SocketFirst
  BY DEF Init, SocketFirst
<1>5. OnlyPortTaken /\ RegisteredDelivered
  BY DEF Init, OnlyPortTaken, RegisteredDelivered
<1> QED BY <1>1, <1>2, <1>3, <1>4, <1>5 DEF IInv

(* A packet arrives (tcp_syn_kern.c:37-40). *)
LEMMA ArriveIInv ==
  ASSUME IInv, NEW p \in Packet, NEW i \in 0 .. MaxSocks, Arrive(p, i)
  PROVE  IInv'
<1> USE DEF Arrive, IInv
<1>1. TypeOK'
  BY DEF TypeOK, cursor, maps, Label
<1>2. pos = 0 /\ reach = 0 /\ verdict = "none"
  BY DEF ProgramPlace, ParserPlace, TypeOK
<1>3. InBounds' /\ ParserPlace'
  BY PacketFields, <1>2 DEF InBounds, ParserPlace, cursor
<1>4. ProgramPlace' /\ OnlyPortTaken' /\ RegisteredDelivered'
  BY <1>2 DEF ProgramPlace, OnlyPortTaken, RegisteredDelivered
<1>5. SocketFirst'
  BY DEF SocketFirst, maps
<1> QED BY <1>1, <1>3, <1>4, <1>5

(* The lookup of qidconf_map (tcp_syn_kern.c:44-46, program.go:125-130). *)
LEMMA LookupIInv ==
  ASSUME IInv, Lookup \/ LookupDefault
  PROVE  IInv'
<1> USE DEF Lookup, LookupDefault, Goto, Conclude, arrival, cursor, maps, IInv
<1>1. TypeOK' /\ InBounds'
  BY DEF TypeOK, InBounds, Label
<1>2. ParserPlace' /\ ProgramPlace'
  BY DEF ParserPlace, ProgramPlace, TypeOK
<1>3. SocketFirst' /\ OnlyPortTaken'
  BY DEF SocketFirst, OnlyPortTaken, ProgramPlace
<1>4. RegisteredDelivered'
  BY DEF RegisteredDelivered, ProgramPlace, SocketFirst
<1> QED BY <1>1, <1>2, <1>3, <1>4

(* The Ethernet header (tcp_syn_kern.h:67-82). *)
LEMMA ParseEthhdrIInv ==
  ASSUME IInv, ParseEthhdr
  PROVE  IInv'
<1> USE DEF ParseEthhdr, Goto, Conclude, arrival, cursor, maps, IInv
<1>1. packet \in Packet /\ pos = 0 /\ reach = 0
  BY DEF ParserPlace
<1>2. packet.len \in Nat /\ packet.tags \in Nat /\ packet.l3 \in {"IP", "IPV6", "other"}
  BY <1>1, PacketFields
<1>3. TypeOK'
  BY <1>1, <1>2 DEF TypeOK, Label, EthSize, EtherType, VLAN_MAX_DEPTH
<1>4. InBounds' /\ ParserPlace'
  BY <1>1, <1>2
     DEF InBounds, ParserPlace, AtTag, Fits, EthSize, VlanSize, EtherType
<1>5. ProgramPlace' /\ SocketFirst' /\ OnlyPortTaken'
  BY DEF ProgramPlace, SocketFirst, OnlyPortTaken
<1>6. RegisteredDelivered'
  BY <1>1, <1>2
     DEF RegisteredDelivered, ProgramPlace, Malformed, Fits, EthSize
<1> QED BY <1>3, <1>4, <1>5, <1>6

(* A turn of the loop over VLAN tags (tcp_syn_kern.h:88-103). *)
LEMMA ParseVlanIInv ==
  ASSUME IInv, ParseVlan
  PROVE  IInv'
<1> USE DEF ParseVlan, SkipTag, Goto, arrival, cursor, maps, IInv
<1>1. packet \in Packet /\ AtTag /\ tag \in Nat /\ pos \in Nat /\ reach \in Nat
  BY DEF ParserPlace, TypeOK, VLAN_MAX_DEPTH
<1>2. packet.len \in Nat /\ packet.tags \in Nat /\ packet.l3 \in {"IP", "IPV6", "other"}
  BY <1>1, PacketFields
<1>3. TypeOK'
  BY <1>1, <1>2 DEF TypeOK, Label, VlanSize, EtherType, VLAN_MAX_DEPTH
<1>4. InBounds'
  BY <1>1, <1>2 DEF InBounds, Fits, VlanSize
<1>5. ParserPlace'
  <2>1. CASE pc' = "vlan"
    <3>1. tag < packet.tags
      BY <1>1, <1>2, <2>1 DEF AtTag, EtherType
    <3>2. AtTag'
      BY <1>1, <1>2, <2>1, <3>1 DEF AtTag, EthSize, VlanSize, EtherType
    <3> QED BY <1>1, <2>1, <3>2 DEF ParserPlace
  <2>2. CASE pc' = "network"
    <3>1. tag = VLAN_MAX_DEPTH \/ proto # "VLAN" \/ ~Fits(VlanSize)
      BY <2>2 DEF TypeOK, VLAN_MAX_DEPTH
    <3>2. AtTag' /\ UNCHANGED <<tag, proto, pos, packet>>
      BY <1>1, <2>2 DEF AtTag, EtherType
    <3> QED BY <1>1, <2>2, <3>1, <3>2 DEF ParserPlace, Fits
  <2> QED BY <2>1, <2>2
<1>6. ProgramPlace' /\ SocketFirst' /\ OnlyPortTaken'
  BY DEF ProgramPlace, SocketFirst, OnlyPortTaken
<1>7. RegisteredDelivered'
  BY DEF RegisteredDelivered, ProgramPlace
<1> QED BY <1>3, <1>4, <1>5, <1>6, <1>7

(* What skipping a header of variable length does to the cursor            *)
(* (tcp_syn_kern.h:122-134,182-194).                                       *)
LEMMA SkipHeaderBounds ==
  ASSUME TypeOK, InBounds, UNCHANGED packet,
         NEW size \in Nat, NEW length \in Nat, SkipHeader(size, length)
  PROVE  pos' \in Nat /\ reach' \in Nat /\ InBounds'
<1>1. packet.len \in Nat /\ pos \in Nat /\ reach \in Nat
  BY PacketFields DEF TypeOK
<1> QED BY <1>1 DEF InBounds, SkipHeader, Skips, Fits

(* The network header (tcp_syn_kern.h:115-153, tcp_syn_kern.c:68-88): the  *)
(* parser gets past it exactly at the end the closed form gives.           *)
LEMMA ParseNetworkIInv ==
  ASSUME IInv, ParseIphdr \/ ParseIp6hdr \/ OtherProtocol
  PROVE  IInv'
<1> USE DEF ParseIphdr, ParseIp6hdr, OtherProtocol, Goto, Conclude, arrival, maps, IInv
<1>1. packet \in Packet /\ AtTag /\ tag \in 0 .. VLAN_MAX_DEPTH /\ pos \in Nat
  BY DEF ParserPlace, TypeOK
<1>2. /\ packet.len \in Nat /\ packet.tags \in Nat /\ packet.ihl \in Nat
      /\ packet.l3 \in {"IP", "IPV6", "other"}
  BY <1>1, PacketFields
<1>3. pos' \in Nat /\ reach' \in Nat /\ InBounds'
  <2>1. CASE ParseIphdr
    BY <1>2, <2>1, SkipHeaderBounds DEF IpSize
  <2>2. CASE ParseIp6hdr
    BY <2>2, SkipHeaderBounds DEF Ip6Size
  <2>3. CASE OtherProtocol
    BY <2>3 DEF InBounds, TypeOK, cursor
  <2> QED BY <2>1, <2>2, <2>3
<1>4. UNCHANGED <<proto, tag>>
  BY DEF SkipHeader, cursor
<1>5. TypeOK'
  BY <1>3, <1>4 DEF TypeOK, Label
<1>6. ParserPlace'
  <2>1. CASE pc' = "tcp"
    <3>1. proto = packet.l3 /\ tag = packet.tags /\ packet.l3 \in {"IP", "IPV6"}
      BY <1>1, <1>2, <2>1 DEF AtTag, EtherType, OtherProtocol, VLAN_MAX_DEPTH
    <3>2. packet.tcp
      BY <2>1
    <3>3. CASE ParseIphdr
      <4>1. packet.l3 = "IP" /\ Skips(IpSize, 4 * packet.ihl) /\ pos' = pos + 4 * packet.ihl
        BY <2>1, <3>1, <3>3 DEF SkipHeader
      <4> QED BY <1>1, <1>2, <2>1, <3>1, <3>2, <3>3, <4>1
          DEF ParserPlace, AtTag, IsTcp, NetworkEnd, Skips, Fits, IpSize, EthSize, VlanSize,
              VLAN_MAX_DEPTH
    <3>4. CASE ParseIp6hdr
      <4>1. packet.l3 = "IPV6" /\ Fits(Ip6Size) /\ pos' = pos + Ip6Size
        BY <1>1, <2>1, <3>1, <3>4 DEF SkipHeader, Skips, Ip6Size
      <4> QED BY <1>1, <1>2, <2>1, <3>1, <3>2, <3>4, <4>1
          DEF ParserPlace, AtTag, IsTcp, NetworkEnd, Fits, EthSize, VlanSize, Ip6Size,
              VLAN_MAX_DEPTH
    <3> QED BY <2>1, <3>3, <3>4
  <2>2. CASE pc' = "done"
    BY <2>2 DEF ParserPlace
  <2> QED BY <2>1, <2>2
<1>7. ProgramPlace' /\ SocketFirst' /\ OnlyPortTaken'
  BY DEF ProgramPlace, SocketFirst, OnlyPortTaken
<1>8. RegisteredDelivered'
  <2>1. CASE armed /\ verdict' = "PASS" /\ ForPort(packet)
    <3>1. IsTcp(packet)
      BY <2>1 DEF ForPort
    <3>2. tag = packet.tags /\ proto = packet.l3
      BY <1>1, <1>2, <3>1
         DEF ParserPlace, AtTag, EtherType, IsTcp, NetworkEnd, Fits, EthSize, VlanSize, IpSize,
             Ip6Size, VLAN_MAX_DEPTH
    <3>3. CASE ParseIphdr
      <4>1. Skips(IpSize, 4 * packet.ihl)
        BY <1>1, <1>2, <3>1, <3>2, <3>3
           DEF AtTag, IsTcp, NetworkEnd, Skips, Fits, EthSize, VlanSize, IpSize
      <4> QED BY <2>1, <3>1, <3>3, <4>1 DEF IsTcp, ProgramPlace
    <3>4. CASE ParseIp6hdr
      <4>1. Fits(Ip6Size)
        BY <1>1, <1>2, <3>1, <3>2, <3>4
           DEF AtTag, IsTcp, NetworkEnd, Fits, EthSize, VlanSize, Ip6Size
      <4> QED BY <2>1, <3>1, <3>4, <4>1 DEF IsTcp, ProgramPlace
    <3>5. CASE OtherProtocol
      BY <3>1, <3>2, <3>5 DEF IsTcp
    <3> QED BY <3>3, <3>4, <3>5
  <2>2. armed => program = "xdp_sock_prog"
    BY DEF SocketFirst, ProgramPlace, TypeOK
  <2> QED BY <2>1, <2>2 DEF RegisteredDelivered
<1> QED BY <1>3, <1>5, <1>6, <1>7, <1>8

(* The TCP header (tcp_syn_kern.h:175-198, tcp_syn_kern.c:90-93). *)
LEMMA ParseTcphdrIInv ==
  ASSUME IInv, ParseTcphdr
  PROVE  IInv'
<1> USE DEF ParseTcphdr, Goto, Conclude, arrival, maps, IInv
<1>1. packet \in Packet /\ IsTcp(packet) /\ pos = NetworkEnd(packet) /\ pos \in Nat
  BY DEF ParserPlace, TypeOK
<1>2. packet.len \in Nat /\ packet.doff \in Nat
  BY <1>1, PacketFields
<1>3. pos' \in Nat /\ reach' \in Nat /\ InBounds'
  BY <1>2, SkipHeaderBounds DEF TcpSize
<1>4. Skips(TcpSize, 4 * packet.doff) <=> WholeTcp(packet)
  BY <1>1, <1>2 DEF Skips, WholeTcp, Fits, TcpSize
<1>5. TypeOK'
  BY <1>3 DEF TypeOK, Label, SkipHeader
<1>6. ParserPlace'
  BY <1>1, <1>4 DEF ParserPlace
<1>7. ProgramPlace' /\ SocketFirst' /\ OnlyPortTaken' /\ RegisteredDelivered'
  BY DEF ProgramPlace, SocketFirst, OnlyPortTaken, RegisteredDelivered
<1> QED BY <1>3, <1>5, <1>6, <1>7

(* The port, the queue entry, the redirect and the event                   *)
(* (tcp_syn_kern.c:102-104, perf_event's tcp_syn_kern.c:69-78).            *)
LEMMA VerdictIInv ==
  ASSUME IInv, CheckPort \/ CheckQueue \/ Redirect \/ Output
  PROVE  IInv'
<1> USE DEF CheckPort, CheckQueue, Redirect, Output, Goto, Conclude, arrival, cursor, maps, IInv
<1>1. TypeOK' /\ InBounds'
  BY MapAssumption DEF TypeOK, InBounds, Label
<1>2. ParserPlace' /\ ProgramPlace'
  BY DEF ParserPlace, ProgramPlace, TypeOK
<1>3. SocketFirst'
  BY DEF SocketFirst, ProgramPlace, TypeOK
<1>p. pc = "port" => bpf_ntohs(Load16(packet.port)) = packet.port
  BY PortAsSent DEF ParserPlace
<1>4. OnlyPortTaken'
  BY <1>p DEF OnlyPortTaken, ParserPlace, ProgramPlace, ForPort
<1>5. RegisteredDelivered'
  BY <1>p DEF RegisteredDelivered, SocketFirst, ProgramPlace, TypeOK, ForPort
<1> QED BY <1>1, <1>2, <1>3, <1>4, <1>5

(* The verdict goes to the kernel (tcp_syn_kern.c:108-109). *)
LEMMA ReturnIInv ==
  ASSUME IInv, Return
  PROVE  IInv'
<1> USE DEF Return, maps, IInv
<1>1. TypeOK'
  <2>1. index' \in 0 .. MaxSocks /\ tag' \in 0 .. VLAN_MAX_DEPTH
    BY MapAssumption DEF VLAN_MAX_DEPTH
  <2>2. armed' \in BOOLEAN
    OBVIOUS
  <2> QED BY <2>1, <2>2 DEF TypeOK, Label
<1>2. InBounds' /\ ParserPlace' /\ ProgramPlace'
  BY DEF InBounds, ParserPlace, ProgramPlace, NoPacket
<1>3. SocketFirst' /\ OnlyPortTaken' /\ RegisteredDelivered'
  BY DEF SocketFirst, OnlyPortTaken, RegisteredDelivered
<1> QED BY <1>1, <1>2, <1>3

(* Register, the end of the socket and the event reader (program.go:35-44, *)
(* perf_event's dumpframes.go:70-78) leave a packet in flight alone.       *)
LEMMA UserIInv ==
  ASSUME IInv, UserNext
  PROVE  IInv'
<1> USE DEF arrival, cursor, IInv
<1>1. CASE Read
  <2>1. TypeOK'
    BY <1>1, MapAssumption DEF Read, TypeOK
  <2> QED BY <1>1, <2>1
      DEF Read, InBounds, ParserPlace, AtTag, EtherType, Fits, ProgramPlace, SocketFirst,
          OnlyPortTaken, RegisteredDelivered
<1>2. ASSUME NEW q \in Queue, RegisterSocket(q) \/ RegisterQueue(q) \/ SocketCloses(q)
      PROVE  IInv'
  <2> USE <1>2 DEF RegisterSocket, RegisterQueue, SocketCloses
  <2>1. TypeOK'
    BY DEF TypeOK
  <2>2. InBounds' /\ ParserPlace' /\ ProgramPlace' /\ OnlyPortTaken' /\ RegisteredDelivered'
    BY DEF InBounds, ParserPlace, AtTag, EtherType, Fits, ProgramPlace, OnlyPortTaken,
           RegisteredDelivered
  <2>3. SocketFirst'
    BY DEF SocketFirst, TypeOK, ProgramPlace
  <2> QED BY <2>1, <2>2, <2>3
<1> QED BY <1>1, <1>2 DEF UserNext

(* Every step of a program, of the Go program, or of neither keeps the     *)
(* invariant (tcp_syn_kern.c:37-110, program.go:35-44,121-139).            *)
LEMMA NextIInv == IInv /\ [Next]_vars => IInv'
<1> SUFFICES ASSUME IInv, [Next]_vars PROVE IInv'
  OBVIOUS
<1>1. CASE ProgramNext
  BY <1>1, LookupIInv, ParseEthhdrIInv, ParseVlanIInv, ParseNetworkIInv, ParseTcphdrIInv,
     VerdictIInv, ReturnIInv
     DEF ProgramNext
<1>2. CASE UserNext
  BY <1>2, UserIInv
<1>3. CASE \E p \in Packet, i \in 0 .. MaxSocks : Arrive(p, i)
  BY <1>3, ArriveIInv
<1>4. CASE UNCHANGED vars
  BY <1>4
     DEF vars, arrival, cursor, maps, IInv, TypeOK, InBounds, ParserPlace, AtTag, EtherType, Fits,
         ProgramPlace, SocketFirst, OnlyPortTaken, RegisteredDelivered
<1> QED BY <1>1, <1>2, <1>3, <1>4 DEF Next
-----------------------------------------------------------------------------
(* The inductive invariant holds of every run of the programs              *)
(* (tcp_syn_kern.c:37-110).                                                *)
LEMMA IInvAlways == Spec => []IInv
BY InitIInv, NextIInv, PTL DEF Spec

(* The maps, the cursor and the verdict keep their types                   *)
(* (tcp_syn_kern.c:37-110).                                                *)
THEOREM TypeCorrect == Spec => []TypeOK
<1>1. IInv => TypeOK
  BY DEF IInv
<1> QED BY <1>1, IInvAlways, PTL

(* No parser reads past data_end (tcp_syn_kern.h:76,92,122,131,146,182,    *)
(* 191), whatever the length fields of a packet of any length say.     *)
THEOREM InBoundsAlways == Spec => []InBounds
<1>1. IInv => InBounds
  BY DEF IInv
<1> QED BY <1>1, IInvAlways, PTL

(* Only whole TCP packets for the port are redirected or make an event     *)
(* (tcp_syn_kern.c:48,102-104).                                            *)
THEOREM OnlyPortTakenAlways == Spec => []OnlyPortTaken
<1>1. IInv => OnlyPortTaken
  BY DEF IInv
<1> QED BY <1>1, IInvAlways, PTL

(* Every step that aborts a packet (tcp_syn_kern.c:64,91,104, perf_event's *)
(* tcp_syn_kern.c:76-77, program.go:129-130) finds a cause.                *)
LEMMA AbortStep ==
  ASSUME IInv, Next, verdict # "ABORTED", verdict' = "ABORTED"
  PROVE  AbortCause
<1> USE DEF IInv, Goto, Conclude
<1>1. CASE LookupDefault
  BY <1>1 DEF LookupDefault, AbortCause
<1>2. CASE ParseEthhdr
  <2>1. packet \in Packet /\ pos = 0 /\ program # "xsk_ebpf" /\ ~Fits(EthSize)
    BY <1>2 DEF ParseEthhdr, ParserPlace, ProgramPlace
  <2>2. packet.len \in Nat
    BY <2>1, PacketFields
  <2> QED
    BY <2>1, <2>2 DEF AbortCause, Malformed, Fits, EthSize
<1>3. CASE ParseTcphdr
  <2>1. /\ packet \in Packet /\ IsTcp(packet) /\ pos = NetworkEnd(packet) /\ pos \in Nat
        /\ program # "xsk_ebpf" /\ ~Skips(TcpSize, 4 * packet.doff)
    BY <1>3 DEF ParseTcphdr, ParserPlace, ProgramPlace, TypeOK
  <2>2. packet.len \in Nat /\ packet.doff \in Nat
    BY <2>1, PacketFields
  <2>3. ~WholeTcp(packet)
    BY <2>1, <2>2 DEF Skips, WholeTcp, Fits, TcpSize
  <2> QED
    BY <2>1, <2>3 DEF AbortCause, Malformed
<1>4. CASE Redirect
  <2>1. /\ index \in Queue /\ sockets[index] # "open" /\ queues[index] = 1
        /\ program \in {"xdp_sock_prog", "xsk_ebpf"}
        /\ program = "xdp_sock_prog" => ForPort(packet)
    BY <1>4 DEF Redirect, ProgramPlace, SocketFirst, OnlyPortTaken, TypeOK
  <2>2. SocketGone
    BY <2>1 DEF SocketGone, SocketFirst, TypeOK
  <2> QED
    BY <2>1, <2>2 DEF AbortCause
<1>5. CASE Output
  <2>1. program = "perf_event_test" /\ ForPort(packet) /\ ~(events < MaxEvents)
    BY <1>5 DEF Output, ProgramPlace, OnlyPortTaken
  <2>2. events = MaxEvents
    BY <2>1, MapAssumption DEF TypeOK
  <2> QED
    BY <2>1, <2>2 DEF AbortCause
<1>6. CASE Lookup \/ ParseVlan \/ ParseIphdr \/ ParseIp6hdr \/ OtherProtocol \/ CheckPort
           \/ CheckQueue \/ Return
  BY <1>6 DEF Lookup, ParseVlan, SkipTag, ParseIphdr, ParseIp6hdr, OtherProtocol, CheckPort,
              CheckQueue, Return
<1>7. CASE UserNext \/ \E p \in Packet, i \in 0 .. MaxSocks : Arrive(p, i)
  BY <1>7 DEF UserNext, RegisterSocket, RegisterQueue, SocketCloses, Read, Arrive
<1> QED
  BY <1>1, <1>2, <1>3, <1>4, <1>5, <1>6, <1>7 DEF Next, ProgramNext

(* At the moment a packet is aborted its headers are malformed, its socket *)
(* is gone, the ring buffer is full or its queue is outside the map, and   *)
(* nothing else aborts one: not a Register in progress (program.go:36-40), *)
(* and not an event that did go into the ring buffer (perf_event's         *)
(* tcp_syn_kern.c:71-77).                                                  *)
THEOREM AbortsExplainedAlways == Spec => AbortsExplained
<1>1. IInv /\ [Next]_vars => [verdict # "ABORTED" /\ verdict' = "ABORTED" => AbortCause]_vars
  BY AbortStep
<1> QED BY <1>1, IInvAlways, PTL DEF Spec, AbortsExplained

(* After Register returned no packet for the port is passed on             *)
(* (program.go:35-44, tcp_syn_kern.c:102-104).                             *)
THEOREM RegisteredDeliveredAlways == Spec => []RegisteredDelivered
<1>1. IInv => RegisteredDelivered
  BY DEF IInv
<1> QED BY <1>1, IInvAlways, PTL
=============================================================================
