---------------------------- MODULE ClientProofs ----------------------------
(***************************************************************************)
(* What Client keeps, for any lengths of request and response, any chunks, *)
(* any initial sequence number and any width of the sequence numbers that  *)
(* has room for one conversation.                                          *)
(***************************************************************************)
EXTENDS Client, TLAPS

Syn  == Packet("S", 0, 0, 0)
Get  == Packet("A", 1, una + 1, GetLen)
Icmp == Packet("icmp", 0, 0, 0)

Synchronized == {"ESTABLISHED", "CLOSE_WAIT", "LAST_ACK"}

(* What each side sends, and what sr1 waits for an answer to. *)
PacketsSent ==
  /\ \A c \in toServer : /\ c.flags \in {"S", "A", "FA", "R"}
                         /\ c.flags = "S" => c.seq = 0
                         /\ c.flags = "R" => c.len = 0
  /\ \A r \in toClient : r.flags \in {"SA", "A", "FA", "R", "RA", "icmp"}
  /\ pc = "sr1 get" => sent.flags = "A"
  /\ pc = "syn" => seq = 0 /\ ack = 0

(* Before the server has heard of the connection. *)
Listening ==
  state = "LISTEN" =>
    /\ pc \in {"syn", "sr1 syn", "raised"} /\ rcv = 0 /\ una = nxt
    /\ toServer \subseteq {Syn} /\ toClient \subseteq {Icmp}
    /\ pc = "syn" => toServer = {}

(* Until the request arrives, all the client has to go by is the server's  *)
(* SYN-ACK, so that its request is in sequence.                            *)
Half ==
  state = "SYN_RCVD" =>
    /\ pc \in {"sr1 syn", "get", "sr1 get", "raised"} /\ rcv = 1 /\ nxt = Plus(una, 1)
    /\ pc = "get" => seq = 1 /\ ack = una + 1
    /\ \A c \in toServer : c.flags = "R" \/ c = Get
    /\ pc \in {"sr1 syn", "get"} => \A c \in toServer : c.flags = "R"
    /\ \A r \in toClient : r = Packet("SA", una, 1, 0) \/ r = Icmp

(* From then on the request is behind, and one FIN at most is ahead. *)
Heard ==
  state \in Synchronized =>
    /\ pc \in {"sr1 get", "fin", "sr1 fin", "last"} \cup Ended
    /\ \A c \in toServer : c.flags # "S" /\ c.len = 0
    /\ \A c, d \in toServer : c.flags = "FA" /\ d.flags = "FA" => c = d
    /\ pc \in {"sr1 get", "fin"} => \A c \in toServer : c.flags # "FA"
    /\ \/ rcv = GetLen + 1
       \/ /\ rcv = GetLen + 2
          /\ pc \notin {"sr1 get", "fin"} /\ \A c \in toServer : c.flags # "FA"

(* Nothing but a server that has had the request acknowledges anything,    *)
(* also when the connection is gone by the time the ACK arrives.           *)
AcksHeard ==
  /\ rcv <= GetLen + 2
  /\ \A r \in toClient : r.flags \in {"A", "FA"} => rcv > GetLen

IInv ==
  /\ TypeOK /\ PacketsSent /\ Listening /\ Half /\ Heard /\ AcksHeard
  /\ SuccessMeansRequestHeard
-----------------------------------------------------------------------------
(* A sequence number is a natural number that fits its field, and one      *)
(* conversation fits the sequence space.                                   *)
LEMMA NumberFacts ==
  /\ \A x : x \in Number <=> x \in Nat /\ x < Modulus
  /\ GetLen \in Nat /\ GetLen > 0 /\ Modulus \in Nat /\ GetLen + 2 < Modulus
  /\ 0 \in Number /\ 1 \in Number
  /\ \A x \in Nat : x <= GetLen + 2 => x \in Number
<1>1. GetLen \in Nat /\ GetLen > 0 /\ RespLen \in Nat /\ RespLen > 0
  BY LengthAssumption
<1>2. Modulus \in Nat /\ Modulus > 2 * (GetLen + RespLen + 2)
  BY ModulusAssumption
<1>3. \A x : x \in Number <=> x \in Nat /\ x < Modulus
  BY <1>2 DEF Number
<1>4. GetLen + 2 < Modulus
  BY <1>1, <1>2
<1> QED
  BY <1>1, <1>2, <1>3, <1>4

(* A sequence number stays one when the server moves it on. *)
LEMMA PlusType ==
  ASSUME NEW a \in Number, NEW n \in Nat
  PROVE  Plus(a, n) \in Number
<1>1. a + n \in Nat /\ Modulus \in Nat \ {0}
  BY NumberFacts
<1>2. \A x \in Nat, m \in Nat \ {0} : x % m \in Nat /\ x % m < m
  OBVIOUS
<1> QED
  BY <1>1, <1>2, NumberFacts DEF Plus

(* The acknowledgment of the server's SYN (main.py:20) is acceptable to    *)
(* it when it fits the field.                                              *)
LEMMA SynAcked ==
  ASSUME IInv, state = "SYN_RCVD", una + 1 < Modulus
  PROVE  Acceptable(una + 1)
<1>1. una \in Nat /\ Modulus \in Nat
  BY NumberFacts DEF IInv, TypeOK
<1>2. Plus(una, 1) = una + 1
  BY <1>1 DEF Plus
<1>3. nxt = una + 1
  BY <1>2 DEF IInv, Half
<1>4. (una + 1) - una = 1 /\ nxt - una = 1
  BY <1>1, <1>3
<1>5. 1 % Modulus = 1
  BY NumberFacts
<1>6. ((una + 1) - una) % Modulus = 1 /\ (nxt - una) % Modulus = 1
  BY <1>4, <1>5, Zenon
<1> QED
  BY <1>6 DEF Acceptable

(* Packets are what their fields say. *)
LEMMA PacketType ==
  ASSUME NEW flags \in {"S", "SA", "A", "FA", "R", "RA", "icmp"},
         NEW s \in Number, NEW a \in Number, NEW len \in {0, GetLen}
  PROVE  Packet(flags, s, a, len) \in Packets
BY DEF Packet, Packets

(* ... and their fields are what they were built from. *)
LEMMA PacketFields ==
  /\ \A flags, s, a, len :
       LET p == Packet(flags, s, a, len)
       IN  p.flags = flags /\ p.seq = s /\ p.ack = a /\ p.len = len
  /\ \A p \in Packets : p.seq \in Number /\ p.ack \in Number /\ p.len \in {0, GetLen}
BY DEF Packet, Packets

(* Neither end changes: packets are delivered in vain, lost, reported      *)
(* undeliverable, refused, dropped or repeated.                            *)
LEMMA NetworkIInv ==
  ASSUME IInv, UNCHANGED <<client, server, resets>>, lost' \in BOOLEAN,
         \A c \in toServer' \ toServer :
           c \in Packets /\ c.flags = "R" /\ c.len = 0 /\ state # "LISTEN",
         \A r \in toClient' \ toClient :
           /\ r \in Packets /\ r.flags \in {"SA", "A", "FA", "R", "RA", "icmp"}
           /\ state = "LISTEN" => r = Icmp
           /\ state = "SYN_RCVD" => r = Packet("SA", una, 1, 0) \/ r = Icmp
           /\ r.flags \in {"A", "FA"} => rcv > GetLen
  PROVE  IInv'
<1> USE DEF IInv, client, server
<1>1. TypeOK'
  <2>1. toServer' \subseteq Packets /\ toClient' \subseteq Packets
    BY DEF TypeOK
  <2>2. resets' \in BOOLEAN /\ lost' \in BOOLEAN
    BY Zenon DEF TypeOK
  <2> QED
    BY <2>1, <2>2, Zenon DEF TypeOK
<1>2. PacketsSent'
  BY DEF PacketsSent
<1>3. Listening'
  BY DEF Listening, Icmp, Syn
<1>4. Half'
  BY DEF Half, Get, Icmp
<1>5. Heard'
  BY DEF Heard, Synchronized
<1>6. AcksHeard' /\ SuccessMeansRequestHeard'
  BY DEF AcksHeard, SuccessMeansRequestHeard
<1> QED
  BY <1>1, <1>2, <1>3, <1>4, <1>5, <1>6

(* The client stops with an exception. *)
LEMMA RaisesIInv ==
  ASSUME IInv, pc' = "raised", pc # "syn",
         UNCHANGED <<seq, ack, sent, response, server, toServer, toClient, lost, resets>>
  PROVE  IInv'
<1> USE DEF IInv, server
<1>1. TypeOK'
  <2>1. lost' \in BOOLEAN /\ resets' \in BOOLEAN
    BY Zenon DEF TypeOK
  <2> QED
    BY <2>1 DEF TypeOK, Ended
<1>2. PacketsSent' /\ AcksHeard' /\ SuccessMeansRequestHeard'
  BY DEF PacketsSent, AcksHeard, SuccessMeansRequestHeard
<1>3. Listening' /\ Half'
  BY DEF Listening, Half, Get
<1>4. Heard'
  BY DEF Heard, Ended
<1> QED
  BY <1>1, <1>2, <1>3, <1>4

(* What the client builds from its numbers while they fit (main.py:16,41,  *)
(* 54,59).                                                                 *)
LEMMA SentPacket ==
  ASSUME TypeOK, ack < Modulus,
         NEW flags \in {"S", "SA", "A", "FA", "R", "RA", "icmp"}, NEW len \in {0, GetLen}
  PROVE  LET p == Packet(flags, seq, ack, len)
         IN  p \in Packets /\ p.flags = flags /\ p.seq = seq /\ p.ack = ack /\ p.len = len
<1>1. seq \in Number /\ ack \in 0 .. Modulus
  BY DEF TypeOK
<1>2. ack \in Number
  BY <1>1, NumberFacts
<1>3. Packet(flags, seq, ack, len) \in Packets
  BY <1>1, <1>2, PacketType
<1> QED
  BY <1>3, PacketFields

(* The four sends (main.py:17,42,55,60): each moves the client on, with a  *)
(* packet the server's phase allows.                                       *)
LEMMA SendIInv ==
  ASSUME IInv, NEW here, NEW flags, NEW len, NEW next, Send(here, flags, len, next),
         \/ here = "syn" /\ flags = "S" /\ len = 0 /\ next = "sr1 syn"
         \/ here = "get" /\ flags = "A" /\ len = GetLen /\ next = "sr1 get"
         \/ here = "fin" /\ flags = "FA" /\ len = 0 /\ next = "sr1 fin"
         \/ here = "last" /\ flags = "A" /\ len = 0 /\ next = "done"
  PROVE  IInv'
<1> USE DEF IInv
<1>1. CASE ack < Modulus
  <2> DEFINE p == Packet(flags, seq, ack, len)
  <2>1. flags \in {"S", "SA", "A", "FA", "R", "RA", "icmp"} /\ len \in {0, GetLen}
    BY Zenon
  <2>2. /\ pc = here /\ pc' = next /\ sent' = p /\ toServer' = toServer \cup {p}
        /\ UNCHANGED <<seq, ack, response, server, toClient, lost, resets>>
    BY <1>1 DEF Send
  <2>3. p \in Packets /\ p.flags = flags /\ p.seq = seq /\ p.ack = ack /\ p.len = len
    BY <1>1, <2>1, SentPacket, Zenon
  <2>4. p = Packet(flags, seq, ack, len)
    BY Zenon
  <2> HIDE DEF p
  <2> USE DEF server
  <2>5. TypeOK'
    <3>1. toServer' \subseteq Packets /\ sent' \in Packets
      BY <2>2, <2>3 DEF TypeOK
    <3>2. lost' \in BOOLEAN /\ resets' \in BOOLEAN
      BY <2>2, Zenon DEF TypeOK
    <3> QED
      BY <2>2, <3>1, <3>2 DEF TypeOK, Ended
  <2>6. PacketsSent'
    BY <2>2, <2>3 DEF PacketsSent
  <2>7. Listening'
    BY <2>2, <2>3, <2>4 DEF Listening, Icmp, Syn, PacketsSent
  <2>8. Half'
    BY <2>2, <2>3, <2>4 DEF Half, Get, Icmp
  <2>9. Heard'
    BY <2>2, <2>3 DEF Heard, Synchronized, Ended
  <2>10. AcksHeard' /\ SuccessMeansRequestHeard'
    BY <2>2 DEF AcksHeard, SuccessMeansRequestHeard
  <2> QED
    BY <2>5, <2>6, <2>7, <2>8, <2>9, <2>10
<1>2. CASE ~(ack < Modulus)
  <2>1. pc # "syn"
    BY <1>2, NumberFacts DEF PacketsSent
  <2> QED
    BY <1>2, <2>1, RaisesIInv DEF Send
<1> QED
  BY <1>1, <1>2

(* The client's own steps. *)
LEMMA ClientNextIInv ==
  ASSUME IInv, ClientNext
  PROVE  IInv'
BY SendIInv DEF ClientNext, SendSyn, SendGet, SendFin, SendLastAck

(* A packet that reaches the client's host leaves at most a reset of its   *)
(* kernel behind, and none before the server has answered.                 *)
LEMMA ArrivesFacts ==
  ASSUME IInv, NEW r, Arrives(r)
  PROVE  /\ r \in Packets /\ r \in toClient /\ toClient' \subseteq toClient
         /\ r.ack \in Number /\ r.seq + 1 \in 0 .. Modulus
         /\ r.flags \in {"SA", "A", "FA", "R", "RA", "icmp"}
         /\ state = "LISTEN" => r.flags = "icmp"
         /\ state = "SYN_RCVD" =>
              r.flags = "icmp" \/ (r.flags = "SA" /\ r.seq = una /\ r.ack = 1)
         /\ r.flags \in {"A", "FA"} => rcv > GetLen
         /\ \A c \in toServer' \ toServer :
              c \in Packets /\ c.flags = "R" /\ c.len = 0 /\ state # "LISTEN"
         /\ UNCHANGED <<server, lost, resets>>
<1>1. r \in toClient /\ toClient' \subseteq toClient /\ UNCHANGED <<server, lost, resets>>
  BY DEF Arrives
<1>2. r \in Packets /\ r.flags \in {"SA", "A", "FA", "R", "RA", "icmp"}
  BY <1>1 DEF IInv, TypeOK, PacketsSent
<1>3. state = "LISTEN" => r.flags = "icmp"
  <2>1. Icmp.flags = "icmp"
    BY PacketFields DEF Icmp
  <2> QED
    BY <1>1, <2>1 DEF IInv, Listening
<1>4. state = "SYN_RCVD" => r.flags = "icmp" \/ (r.flags = "SA" /\ r.seq = una /\ r.ack = 1)
  <2> DEFINE p == Packet("SA", una, 1, 0)
  <2>1. Icmp.flags = "icmp" /\ p.flags = "SA" /\ p.seq = una /\ p.ack = 1
    BY PacketFields DEF Icmp
  <2>2. state = "SYN_RCVD" => r = Icmp \/ r = p
    BY <1>1, Zenon DEF IInv, Half
  <2> HIDE DEF p
  <2> QED
    BY <2>1, <2>2
<1>5. r.flags \in {"A", "FA"} => rcv > GetLen
  BY <1>1 DEF IInv, AcksHeard
<1>6. ASSUME NEW c \in toServer' \ toServer
      PROVE  c \in Packets /\ c.flags = "R" /\ c.len = 0 /\ state # "LISTEN"
  <2>1. c = Packet("R", r.ack, 0, 0) /\ r.flags # "icmp"
    BY <1>6 DEF Arrives
  <2>2. r.ack \in Number /\ 0 \in Number
    BY <1>2, PacketFields, NumberFacts
  <2>3. c \in Packets
    BY <2>1, <2>2, PacketType
  <2>4. c.flags = "R" /\ c.len = 0
    BY <2>1, PacketFields
  <2> QED
    BY <1>3, <2>1, <2>3, <2>4
<1>7. r.ack \in Number /\ r.seq + 1 \in 0 .. Modulus
  BY <1>2, PacketFields, NumberFacts
<1> QED
  BY <1>1, <1>2, <1>3, <1>4, <1>5, <1>6, <1>7

(* A packet that sr1 does not take changes nothing at either end. *)
LEMMA NotAnAnswerIInv ==
  ASSUME IInv, NEW r, NotAnAnswer(r)
  PROVE  IInv'
<1>1. Arrives(r) /\ UNCHANGED client
  BY DEF NotAnAnswer
<1>2. lost' \in BOOLEAN
  BY <1>1, Zenon DEF Arrives, IInv, TypeOK
<1>3. /\ toClient' \subseteq toClient /\ UNCHANGED <<server, lost, resets>>
      /\ \A c \in toServer' \ toServer :
           c \in Packets /\ c.flags = "R" /\ c.len = 0 /\ state # "LISTEN"
  BY <1>1, ArrivesFacts
<1> QED
  BY <1>1, <1>2, <1>3, NetworkIInv

(* sr1 returns an answer (main.py:17-25,42-51,55-57): before the server    *)
(* has had the request that is its SYN-ACK, and nothing that answers the   *)
(* request; from then on it can be anything.                               *)
LEMMA ReturnsIInv ==
  ASSUME IInv, NEW r, NEW here, NEW next, Returns(r, here, next),
         \/ here = "sr1 syn" /\ next = "get" /\ response' = response
         \/ here = "sr1 get" /\ next = "fin" /\ response' = r.flags
         \/ here = "sr1 fin" /\ next = "last" /\ response' = response
  PROVE  IInv'
<1>1. Arrives(r) /\ Answers(r, sent) /\ pc = here /\ sent' = sent
  BY DEF Returns
<1>2. \/ r.flags = "icmp" /\ pc' = "raised" /\ seq' = seq /\ ack' = ack
      \/ r.flags # "icmp" /\ pc' = next /\ seq' = r.ack /\ ack' = r.seq + 1
  BY DEF Returns, Numbers
<1>3. /\ r \in Packets /\ r \in toClient /\ toClient' \subseteq toClient
      /\ r.flags \in {"SA", "A", "FA", "R", "RA", "icmp"}
      /\ r.flags \in {"A", "FA"} => rcv > GetLen
  BY <1>1, ArrivesFacts
<1>4. /\ state = "LISTEN" => r.flags = "icmp"
      /\ state = "SYN_RCVD" => r.flags = "icmp" \/ (r.flags = "SA" /\ r.seq = una /\ r.ack = 1)
  BY <1>1, ArrivesFacts
<1>5. \A c \in toServer' \ toServer :
        c \in Packets /\ c.flags = "R" /\ c.len = 0 /\ state # "LISTEN"
  BY <1>1, ArrivesFacts
<1>6. UNCHANGED <<state, una, nxt, rcv, written, lost, resets>>
  BY <1>1, ArrivesFacts DEF server
<1>7. here = "sr1 get" => r.flags # "SA"
  BY <1>1 DEF IInv, PacketsSent, Answers
<1> USE DEF IInv
<1>8. TypeOK'
  <2>1. seq' \in Number
    BY <1>2, <1>3, PacketFields DEF TypeOK
  <2>2. ack' \in 0 .. Modulus
    <3>1. r.seq + 1 \in 0 .. Modulus
      BY <1>1, ArrivesFacts
    <3>2. ack \in 0 .. Modulus
      BY DEF TypeOK
    <3> QED
      BY <1>2, <3>1, <3>2, Zenon
  <2>3. response' \in {"none", "A", "FA", "R", "RA", "icmp"}
    BY <1>3, <1>7 DEF TypeOK
  <2>4. toServer' \subseteq Packets /\ toClient' \subseteq Packets
    BY <1>3, <1>5 DEF TypeOK
  <2>5. lost' \in BOOLEAN /\ resets' \in BOOLEAN
    BY <1>6, Zenon DEF TypeOK
  <2>6. pc' \in {"syn", "sr1 syn", "get", "sr1 get", "fin", "sr1 fin", "last"} \cup Ended
    BY <1>2 DEF Ended
  <2> QED
    BY <1>1, <1>6, <2>1, <2>2, <2>3, <2>4, <2>5, <2>6 DEF TypeOK
<1>9. PacketsSent'
  BY <1>2, <1>3, <1>5 DEF PacketsSent
<1>10. Listening'
  BY <1>1, <1>2, <1>3, <1>4, <1>5, <1>6 DEF Listening
<1>11. Half'
  BY <1>1, <1>2, <1>3, <1>4, <1>5, <1>6, <1>7 DEF Half, Get
<1>12. Heard'
  BY <1>1, <1>2, <1>4, <1>5, <1>6 DEF Heard, Synchronized, Ended
<1>13. AcksHeard' /\ SuccessMeansRequestHeard'
  BY <1>3, <1>6 DEF AcksHeard, SuccessMeansRequestHeard
<1> QED
  BY <1>8, <1>9, <1>10, <1>11, <1>12, <1>13

(* What the client's host receives. *)
LEMMA ToClientIInv ==
  ASSUME IInv, ToClient
  PROVE  IInv'
<1>1. PICK r \in toClient : SynAnswered(r) \/ GetAnswered(r) \/ FinAnswered(r) \/ NotAnAnswer(r)
  BY DEF ToClient
<1> QED
  BY <1>1, ReturnsIInv, NotAnAnswerIInv DEF SynAnswered, GetAnswered, FinAnswered
-----------------------------------------------------------------------------
(* All that reaches a server in SYN_RCVD, apart from resets, is the        *)
(* request (main.py:41), in sequence and with the right acknowledgment.    *)
LEMMA RequestInSequence ==
  ASSUME IInv, state = "SYN_RCVD", NEW c \in toServer, c.flags # "R"
  PROVE  /\ c = Get /\ pc \in {"sr1 get", "raised"}
         /\ c.flags = "A" /\ c.seq = rcv /\ rcv = 1 /\ c.len = GetLen /\ Acceptable(c.ack)
<1>1. c = Get /\ pc \in {"sr1 get", "raised"} /\ rcv = 1
  BY DEF IInv, Half
<1>2. c.flags = "A" /\ c.seq = 1 /\ c.ack = una + 1 /\ c.len = GetLen
  <2>1. Get.flags = "A" /\ Get.seq = 1 /\ Get.ack = una + 1 /\ Get.len = GetLen
    BY PacketFields DEF Get
  <2> QED
    BY <1>1, <2>1
<1>3. c \in Packets
  BY DEF IInv, TypeOK
<1>4. una + 1 < Modulus
  BY <1>2, <1>3, PacketFields, NumberFacts
<1>5. Acceptable(una + 1)
  BY <1>4, SynAcked
<1> QED
  BY <1>1, <1>2, <1>5, Zenon

(* A server with nothing behind the packet is a closed one, and its reset  *)
(* changes neither end.                                                    *)
LEMMA RefuseIInv ==
  ASSUME IInv, NEW c \in toServer, toServer' = toServer \ {c}, Refuse(c),
         UNCHANGED <<client, lost, resets>>
  PROVE  IInv'
<1> DEFINE r == IF c.flags = "S" THEN Packet("RA", 0, c.seq + 1, 0) ELSE Packet("R", c.ack, 0, 0)
<1>1. c.flags # "R" /\ toClient' = toClient \cup {r} /\ UNCHANGED server
  BY DEF Refuse
<1>2. state = "CLOSED"
  <2>1. state = "LISTEN" => c.flags = "S"
    <3>1. Syn.flags = "S"
      BY PacketFields DEF Syn
    <3> QED
      BY <3>1 DEF IInv, Listening
  <2>2. state = "SYN_RCVD" => Acceptable(c.ack)
    BY <1>1, RequestInSequence
  <2> QED
    BY <2>1, <2>2 DEF Refuse
<1>3. r \in Packets /\ r.flags \in {"RA", "R"}
  <2>1. c.ack \in Number /\ 0 \in Number /\ 1 \in Number
    BY PacketFields, NumberFacts DEF IInv, TypeOK
  <2>2. c.flags = "S" => c.seq + 1 = 1
    <3>1. c.flags = "S" => c.seq = 0
      BY DEF IInv, PacketsSent
    <3>2. 0 + 1 = 1
      OBVIOUS
    <3> QED
      BY <3>1, <3>2, Zenon
  <2>3. CASE c.flags = "S"
    <3>1. r = Packet("RA", 0, 1, 0)
      BY <2>2, <2>3, Zenon
    <3> HIDE DEF r
    <3>2. r \in Packets /\ r.flags = "RA"
      BY <2>1, <3>1, PacketType, PacketFields
    <3> QED
      BY <3>2
  <2>4. CASE c.flags # "S"
    <3>1. r = Packet("R", c.ack, 0, 0)
      BY <2>4, Zenon
    <3> HIDE DEF r
    <3>2. r \in Packets /\ r.flags = "R"
      BY <2>1, <3>1, PacketType, PacketFields
    <3> QED
      BY <3>2
  <2> QED
    BY <2>3, <2>4
<1>4. lost' \in BOOLEAN
  BY Zenon DEF IInv, TypeOK
<1> HIDE DEF r
<1> QED
  BY <1>1, <1>2, <1>3, <1>4, NetworkIInv

(* The SYN arrives and the server answers. *)
LEMMA ListenIInv ==
  ASSUME IInv, NEW c \in toServer, toServer' = toServer \ {c}, Listen(c),
         UNCHANGED <<client, lost, resets>>
  PROVE  IInv'
<1> DEFINE p == Packet("SA", una, 1, 0)
<1> USE DEF IInv
<1>1. /\ state = "LISTEN" /\ c = Syn /\ toServer' = {}
      /\ pc \in {"sr1 syn", "raised"} /\ toClient \subseteq {Icmp}
  BY DEF Listen, Listening
<1>2. c.seq + 1 = 1
  <2>1. c.seq = 0
    BY DEF Listen, PacketsSent
  <2>2. 0 + 1 = 1
    OBVIOUS
  <2> QED
    BY <2>1, <2>2, Zenon
<1>3. /\ state' = "SYN_RCVD" /\ nxt' = Plus(una, 1) /\ rcv' = 1
      /\ toClient' = toClient \cup {p} /\ UNCHANGED <<una, written>>
  BY <1>2, Zenon DEF Listen
<1>4. p \in Packets /\ p.flags = "SA"
  <2>1. una \in Number /\ 1 \in Number
    BY NumberFacts DEF TypeOK
  <2> QED
    BY <2>1, PacketType, PacketFields
<1>5. p = Packet("SA", una, 1, 0)
  OBVIOUS
<1>6. UNCHANGED <<pc, seq, ack, sent, response, lost, resets>>
  BY DEF client
<1> HIDE DEF p
<1>7. TypeOK'
  <2>1. nxt' \in Number /\ rcv' \in Number
    BY <1>3, PlusType, NumberFacts DEF TypeOK
  <2>2. lost' \in BOOLEAN /\ resets' \in BOOLEAN
    BY <1>6, Zenon DEF TypeOK
  <2>3. toServer' \subseteq Packets /\ toClient' \subseteq Packets
    BY <1>1, <1>3, <1>4 DEF TypeOK
  <2> QED
    BY <1>3, <1>6, <2>1, <2>2, <2>3 DEF TypeOK
<1>8. PacketsSent'
  BY <1>1, <1>3, <1>4, <1>6 DEF PacketsSent
<1>9. Listening' /\ Heard'
  BY <1>3 DEF Listening, Heard, Synchronized
<1>10. Half'
  BY <1>1, <1>3, <1>5, <1>6 DEF Half, Icmp
<1>11. AcksHeard' /\ SuccessMeansRequestHeard'
  <2>1. rcv = 0 /\ 1 <= GetLen + 2 /\ ~(0 > GetLen)
    <3>1. rcv = 0
      BY <1>1 DEF Listening
    <3> HIDE DEF IInv
    <3>2. 1 <= GetLen + 2 /\ ~(0 > GetLen)
      BY LengthAssumption
    <3> QED
      BY <3>1, <3>2
  <2>2. \A r \in toClient : r.flags \notin {"A", "FA"}
    BY <2>1 DEF AcksHeard
  <2>3. response \notin {"A", "FA"}
    BY <2>1 DEF SuccessMeansRequestHeard
  <2> QED
    BY <1>3, <1>4, <1>6, <2>1, <2>2, <2>3 DEF AcksHeard, SuccessMeansRequestHeard
<1> QED
  BY <1>7, <1>8, <1>9, <1>10, <1>11

(* A reset ends the connection. *)
LEMMA ResetIInv ==
  ASSUME IInv, NEW c \in toServer, toServer' = toServer \ {c}, Reset(c),
         UNCHANGED <<client, lost, resets>>
  PROVE  IInv'
<1>1. lost' \in BOOLEAN /\ resets' \in BOOLEAN
  BY Zenon DEF IInv, TypeOK
<1>2. CASE state = "LISTEN"
  BY <1>1, <1>2, NetworkIInv DEF Reset, server
<1>3. CASE state # "LISTEN"
  <2>1. /\ state' = "CLOSED"
        /\ UNCHANGED <<pc, seq, ack, sent, response, una, nxt, rcv, written, toClient>>
    BY <1>3 DEF Reset, client
  <2> USE DEF IInv
  <2>2. TypeOK'
    BY <1>1, <2>1 DEF TypeOK
  <2>3. PacketsSent'
    BY <2>1 DEF PacketsSent
  <2>4. Listening' /\ Half' /\ Heard'
    BY <2>1 DEF Listening, Half, Heard, Synchronized
  <2>5. AcksHeard' /\ SuccessMeansRequestHeard'
    BY <2>1 DEF AcksHeard, SuccessMeansRequestHeard
  <2> QED
    BY <2>2, <2>3, <2>4, <2>5
<1> QED
  BY <1>2, <1>3

(* A step of a server that has had the request leaves it so. *)
LEMMA SynchronizedIInv ==
  ASSUME IInv, UNCHANGED <<client, lost, resets>>, toServer' \subseteq toServer,
         state' \in Synchronized \cup {"CLOSED"}, rcv' >= rcv, rcv' > GetLen, rcv' <= GetLen + 2,
         una' \in Number, nxt' \in Number, rcv' \in Number, written' \in 0 .. RespLen,
         \A r \in toClient' \ toClient : r \in Packets /\ r.flags \in {"A", "FA"},
         Heard'
  PROVE  IInv'
<1>1. UNCHANGED <<pc, seq, ack, sent, response, lost, resets>>
  BY DEF client
<1> USE DEF IInv
<1>2. TypeOK'
  <2>1. toServer' \subseteq Packets /\ toClient' \subseteq Packets
    BY DEF TypeOK
  <2>2. lost' \in BOOLEAN /\ resets' \in BOOLEAN
    BY <1>1, Zenon DEF TypeOK
  <2> QED
    BY <1>1, <2>1, <2>2 DEF TypeOK, Synchronized
<1>3. PacketsSent'
  BY <1>1 DEF PacketsSent
<1>4. Listening' /\ Half'
  BY DEF Listening, Half, Synchronized
<1>5. AcksHeard' /\ SuccessMeansRequestHeard'
  BY <1>1 DEF AcksHeard, SuccessMeansRequestHeard
<1> QED
  BY <1>2, <1>3, <1>4, <1>5

(* Every ACK of such a server is a packet whose numbers fit. *)
LEMMA ServerAck ==
  ASSUME NEW flags \in {"SA", "A", "FA"}, NEW s \in Number, NEW n \in Number
  PROVE  LET p == Packet(flags, s, n, 0) IN p \in Packets /\ p.flags = flags
<1>1. 0 \in Number
  BY NumberFacts
<1>2. Packet(flags, s, n, 0) \in Packets
  BY PacketType
<1> QED
  BY <1>2, PacketFields

(* The server's count of the bytes it has had, from the request on. *)
LEMMA SynchronizedHeard ==
  ASSUME IInv, state \in Synchronized
  PROVE  rcv \in Nat /\ rcv > GetLen /\ rcv <= GetLen + 2
<1>1. rcv = GetLen + 1 \/ rcv = GetLen + 2
  BY DEF IInv, Heard
<1>2. GetLen \in Nat
  BY LengthAssumption
<1> QED
  BY <1>1, <1>2

(* A packet out of order is dropped, with an ACK at most. *)
LEMMA DropIInv ==
  ASSUME IInv, NEW c \in toServer, toServer' = toServer \ {c}, Drop(c),
         UNCHANGED <<client, lost, resets>>
  PROVE  IInv'
<1> DEFINE p == Packet("A", nxt, rcv, 0)
<1>1. /\ state \in {"SYN_RCVD", "ESTABLISHED", "CLOSE_WAIT", "LAST_ACK"} /\ c.flags # "R"
      /\ c.seq # rcv \/ ~Acceptable(c.ack)
      /\ toClient' \in {toClient, toClient \cup {p}} /\ UNCHANGED server
  BY DEF Drop
<1>2. state \in Synchronized
  BY <1>1, RequestInSequence DEF Synchronized
<1>3. rcv > GetLen
  BY <1>2, SynchronizedHeard
<1>4. p \in Packets /\ p.flags = "A"
  BY ServerAck DEF IInv, TypeOK
<1>5. lost' \in BOOLEAN
  BY Zenon DEF IInv, TypeOK
<1> HIDE DEF p
<1> QED
  BY <1>1, <1>2, <1>3, <1>4, <1>5, NetworkIInv DEF Synchronized

(* A packet in sequence: the request first, then at most one FIN. *)
LEMMA TakeIInv ==
  ASSUME IInv, NEW c \in toServer, toServer' = toServer \ {c}, Take(c),
         UNCHANGED <<client, lost, resets>>
  PROVE  IInv'
<1> DEFINE p == Packet("A", nxt, rcv', 0)
<1>1. /\ state \in {"SYN_RCVD"} \cup Synchronized /\ c.flags \in {"A", "FA"}
      /\ c.seq = rcv /\ una' = c.ack /\ UNCHANGED <<nxt, written>>
      /\ toClient' \in {toClient, toClient \cup {p}}
  BY DEF Take, Synchronized
<1>2. /\ c.flags = "FA" => rcv' = rcv + c.len + 1 /\ state' = "CLOSE_WAIT"
      /\ c.flags # "FA" => rcv' = rcv + c.len + 0
      /\ c.flags # "FA" /\ state = "SYN_RCVD" => state' = "ESTABLISHED"
      /\ c.flags # "FA" /\ state # "SYN_RCVD" => state' \in {state, "CLOSED"}
  <2>1. c.flags = "FA" => rcv' = rcv + c.len + 1
    BY Zenon DEF Take
  <2>2. c.flags # "FA" => rcv' = rcv + c.len + 0
    BY Zenon DEF Take
  <2>3. c.flags = "FA" => state' = "CLOSE_WAIT"
    BY DEF Take
  <2>4. c.flags # "FA" /\ state = "SYN_RCVD" => state' = "ESTABLISHED"
    BY DEF Take
  <2>5. c.flags # "FA" /\ state # "SYN_RCVD" => state' \in {state, "CLOSED"}
    BY DEF Take
  <2> QED
    BY <2>1, <2>2, <2>3, <2>4, <2>5
<1>3. UNCHANGED <<pc, seq, ack, sent, response, lost, resets>>
  BY DEF client
<1>4. rcv \in Nat /\ GetLen \in Nat /\ GetLen > 0
  BY NumberFacts DEF IInv, TypeOK
<1>5. rcv' >= rcv /\ rcv' \in Nat /\ rcv' > GetLen /\ rcv' <= GetLen + 2 /\ Heard'
  <2>1. CASE state = "SYN_RCVD"
    <3>1. c = Get /\ c.flags = "A" /\ rcv = 1 /\ c.len = GetLen /\ pc \in {"sr1 get", "raised"}
      BY <1>1, <2>1, RequestInSequence
    <3>2. rcv' = GetLen + 1 /\ state' = "ESTABLISHED"
      <4>1. c.flags # "FA"
        BY <3>1
      <4>2. rcv' = 1 + GetLen + 0 /\ state' = "ESTABLISHED"
        BY <1>2, <2>1, <3>1, <4>1, Zenon
      <4>3. 1 + GetLen + 0 = GetLen + 1
        BY <1>4
      <4> QED
        BY <4>2, <4>3, Zenon
    <3>3. \A d \in toServer' : d.flags = "R" /\ d.len = 0
      BY <2>1, <3>1 DEF IInv, Half, PacketsSent
    <3>4. Heard'
      BY <1>3, <3>1, <3>2, <3>3 DEF Heard, Ended
    <3>5. GetLen + 1 >= 1 /\ GetLen + 1 \in Nat /\ GetLen + 1 > GetLen /\ GetLen + 1 <= GetLen + 2
      BY <1>4
    <3> QED
      BY <3>1, <3>2, <3>4, <3>5, Zenon
  <2>2. CASE state \in Synchronized /\ c.flags = "FA"
    <3>1. c.len = 0 /\ rcv = GetLen + 1 /\ pc \in {"sr1 fin", "last"} \cup Ended
      BY <2>2 DEF IInv, Heard
    <3>2. rcv' = GetLen + 2
      <4>1. rcv' = GetLen + 1 + 0 + 1
        BY <1>2, <2>2, <3>1, Zenon
      <4>2. GetLen + 1 + 0 + 1 = GetLen + 2
        BY <1>4
      <4> QED
        BY <4>1, <4>2, Zenon
    <3>3. \A d \in toServer' : d.flags # "S" /\ d.len = 0 /\ d.flags # "FA"
      BY <2>2 DEF IInv, Heard
    <3>4. Heard'
      BY <1>3, <3>1, <3>2, <3>3 DEF Heard, Ended
    <3>5. /\ GetLen + 2 >= GetLen + 1 /\ GetLen + 2 \in Nat
          /\ GetLen + 2 > GetLen /\ GetLen + 2 <= GetLen + 2
      BY <1>4
    <3> QED
      BY <3>1, <3>2, <3>4, <3>5, Zenon
  <2>3. CASE state \in Synchronized /\ c.flags # "FA"
    <3>1. c.len = 0 /\ rcv' = rcv
      <4>1. c.len = 0
        BY <2>3 DEF IInv, Heard
      <4> QED
        BY <1>2, <1>4, <2>3, <4>1
    <3>2. state' \in {state, "CLOSED"}
      BY <1>2, <2>3 DEF Synchronized
    <3>3. Heard'
      BY <1>3, <2>3, <3>1, <3>2 DEF IInv, Heard, Synchronized, Ended
    <3>4. rcv = GetLen + 1 \/ rcv = GetLen + 2
      BY <2>3 DEF IInv, Heard
    <3> QED
      BY <1>4, <3>1, <3>3, <3>4
  <2> QED
    BY <1>1, <2>1, <2>2, <2>3
<1>6. una' \in Number /\ nxt' \in Number /\ rcv' \in Number /\ written' \in 0 .. RespLen
  <2>1. una' \in Number
    BY <1>1, PacketFields DEF IInv, TypeOK
  <2>2. rcv' \in Number
    BY <1>5, NumberFacts
  <2> QED
    BY <1>1, <2>1, <2>2 DEF IInv, TypeOK
<1>7. p \in Packets /\ p.flags = "A"
  BY <1>6, ServerAck DEF IInv, TypeOK
<1>8. state' \in Synchronized \cup {"CLOSED"}
  BY <1>1, <1>2 DEF Synchronized
<1> HIDE DEF p
<1>9. \A r \in toClient' \ toClient : r \in Packets /\ r.flags \in {"A", "FA"}
  BY <1>1, <1>7
<1> QED
  BY <1>5, <1>6, <1>8, <1>9, SynchronizedIInv

(* What the server receives. *)
LEMMA ToServerIInv ==
  ASSUME IInv, ToServer
  PROVE  IInv'
<1>1. PICK c \in toServer : ServerReceives(c)
  BY DEF ToServer
<1>2. toServer' = toServer \ {c} /\ UNCHANGED <<client, lost, resets>>
  BY <1>1 DEF ServerReceives
<1>3. Refuse(c) \/ Listen(c) \/ Reset(c) \/ Drop(c) \/ Take(c)
  BY <1>1 DEF ServerReceives
<1> QED
  BY <1>2, <1>3, RefuseIInv, ListenIInv, ResetIInv, DropIInv, TakeIInv

(* The response and the server's FIN: the count of what it has had stays. *)
LEMMA ServerNextIInv ==
  ASSUME IInv, ServerNext
  PROVE  IInv'
<1>1. ASSUME NEW n \in Chunk, Respond(n)
      PROVE  IInv'
  <2> DEFINE p == Packet("A", nxt, rcv, 0)
  <2>1. /\ state \in Synchronized /\ toClient' = toClient \cup {p} /\ nxt' = Plus(nxt, n)
        /\ UNCHANGED <<client, state, una, rcv, toServer, lost, resets>>
    BY <1>1 DEF Respond, Synchronized
  <2>2. p \in Packets /\ p.flags = "A"
    BY ServerAck DEF IInv, TypeOK
  <2>3. n \in Nat /\ RespLen \in Nat
    BY LengthAssumption
  <2>4. nxt' \in Number /\ una' \in Number /\ rcv' \in Number
    BY <2>1, <2>3, PlusType DEF IInv, TypeOK
  <2>5. written' \in 0 .. RespLen
    <3>1. written \in 0 .. RespLen
      BY DEF IInv, TypeOK
    <3>2. written' = written + n /\ written + n <= RespLen
      BY <1>1 DEF Respond
    <3>3. written + n \in 0 .. RespLen
      BY <2>3, <3>1, <3>2
    <3> QED
      BY <3>2, <3>3, Zenon
  <2>6. rcv' >= rcv /\ rcv' > GetLen /\ rcv' <= GetLen + 2
    BY <2>1, SynchronizedHeard
  <2>7. Heard'
    BY <2>1 DEF IInv, Heard, client
  <2> HIDE DEF p
  <2> QED
    BY <2>1, <2>2, <2>4, <2>5, <2>6, <2>7, SynchronizedIInv
<1>2. ASSUME ServerCloses
      PROVE  IInv'
  <2> DEFINE p == Packet("FA", nxt, rcv, 0)
  <2>1. /\ state \in Synchronized /\ toClient' = toClient \cup {p} /\ nxt' = Plus(nxt, 1)
        /\ state' \in Synchronized
        /\ UNCHANGED <<client, una, rcv, written, toServer, lost, resets>>
    BY <1>2 DEF ServerCloses, Synchronized
  <2>2. p \in Packets /\ p.flags = "FA"
    BY ServerAck DEF IInv, TypeOK
  <2>3. nxt' \in Number /\ una' \in Number /\ rcv' \in Number /\ written' \in 0 .. RespLen
    BY <2>1, PlusType DEF IInv, TypeOK
  <2>4. rcv' >= rcv /\ rcv' > GetLen /\ rcv' <= GetLen + 2
    BY <2>1, SynchronizedHeard
  <2>5. Heard'
    BY <2>1 DEF IInv, Heard, client
  <2> HIDE DEF p
  <2> QED
    BY <2>1, <2>2, <2>3, <2>4, <2>5, SynchronizedIInv
<1> QED
  BY <1>1, <1>2 DEF ServerNext

(* A retransmission says no more than the packet it repeats. *)
LEMMA RetransmitIInv ==
  ASSUME IInv, Retransmit
  PROVE  IInv'
<1> DEFINE flags == CASE state = "SYN_RCVD" -> "SA"
                      [] state = "LAST_ACK" /\ Plus(una, 1) = nxt -> "FA"
                      [] OTHER -> "A"
           p == Packet(flags, una, rcv, 0)
<1>1. /\ state \in {"SYN_RCVD"} \cup Synchronized
      /\ toClient' = {p} /\ UNCHANGED <<client, server, toServer, lost, resets>>
  BY DEF Retransmit, Synchronized
<1>2. flags \in {"SA", "A", "FA"} /\ (state = "SYN_RCVD" => flags = "SA")
  OBVIOUS
<1>3. state = "SYN_RCVD" => rcv = 1
  BY DEF IInv, Half
<1> HIDE DEF flags
<1>4. p \in Packets /\ p.flags = flags
  BY <1>2, ServerAck DEF IInv, TypeOK
<1>5. state = "SYN_RCVD" => p = Packet("SA", una, 1, 0)
  BY <1>2, <1>3, Zenon
<1>6. state # "SYN_RCVD" => rcv > GetLen
  BY <1>1, SynchronizedHeard
<1>7. lost' \in BOOLEAN
  BY <1>1, Zenon DEF IInv, TypeOK
<1>8. p.flags \in {"A", "FA"} => rcv > GetLen
  BY <1>2, <1>4, <1>6
<1>9. state # "LISTEN"
  BY <1>1 DEF Synchronized
<1>10. p.flags \in {"SA", "A", "FA", "R", "RA", "icmp"}
  BY <1>2, <1>4
<1> HIDE DEF p
<1> QED
  BY <1>1, <1>4, <1>5, <1>7, <1>8, <1>9, <1>10, NetworkIInv

(* The network loses a packet or reports that it cannot deliver it. *)
LEMMA NetworkStepIInv ==
  ASSUME IInv, Lose \/ \E c \in toServer : Unreachable(c)
  PROVE  IInv'
<1>1. CASE Lose
  <2>1. /\ toServer' \subseteq toServer /\ toClient' \subseteq toClient
        /\ UNCHANGED <<client, server, resets>>
    BY <1>1 DEF Lose
  <2>2. lost' \in BOOLEAN
    BY <1>1 DEF Lose
  <2> QED
    BY <2>1, <2>2, NetworkIInv
<1>2. ASSUME NEW c \in toServer, Unreachable(c)
      PROVE  IInv'
  <2>1. /\ toServer' \subseteq toServer /\ toClient' = toClient \cup {Icmp}
        /\ UNCHANGED <<client, server, lost, resets>>
    BY <1>2 DEF Unreachable, Icmp
  <2>2. Icmp \in Packets /\ Icmp.flags = "icmp"
    <3>1. 0 \in Number
      BY NumberFacts
    <3>2. Icmp \in Packets
      BY <3>1, PacketType DEF Icmp
    <3>3. Icmp.flags = "icmp"
      BY PacketFields DEF Icmp
    <3> QED
      BY <3>2, <3>3
  <2>3. lost' \in BOOLEAN
    BY <2>1, Zenon DEF IInv, TypeOK
  <2> QED
    BY <2>1, <2>2, <2>3, NetworkIInv
<1> QED
  BY <1>1, <1>2

(* Nothing is under way before the client's first send (main.py:3-17). *)
LEMMA InitIInv == Init => IInv
<1> SUFFICES ASSUME Init PROVE IInv
  OBVIOUS
<1>1. TypeOK
  <2>1. 0 \in Number /\ 0 \in 0 .. Modulus /\ 0 \in 0 .. RespLen
    BY NumberFacts, LengthAssumption
  <2>2. una \in Number /\ nxt \in Number
    BY ModulusAssumption DEF Init, Number
  <2>3. sent \in Packets
    BY <2>1 DEF Init, Packet, Packets
  <2>4. lost \in BOOLEAN /\ resets \in BOOLEAN
    BY Zenon DEF Init
  <2> QED
    BY <2>1, <2>2, <2>3, <2>4 DEF Init, TypeOK
<1>2. PacketsSent /\ Listening /\ Half /\ Heard
  BY DEF Init, PacketsSent, Listening, Half, Heard, Synchronized
<1>3. AcksHeard /\ SuccessMeansRequestHeard
  BY NumberFacts DEF Init, AcksHeard, SuccessMeansRequestHeard
<1> QED
  BY <1>1, <1>2, <1>3 DEF IInv

(* One step per kind of step, and stuttering. *)
LEMMA NextIInv ==
  ASSUME IInv, [Next]_vars
  PROVE  IInv'
<1>1. CASE Next
  BY <1>1, ClientNextIInv, ToClientIInv, ToServerIInv, ServerNextIInv, RetransmitIInv,
     NetworkStepIInv DEF Next
<1>2. CASE UNCHANGED vars
  <2>1. UNCHANGED <<client, server, resets, lost, toServer, toClient>>
    BY <1>2 DEF vars
  <2>2. lost' \in BOOLEAN
    BY <2>1, Zenon DEF IInv, TypeOK
  <2> QED
    BY <2>1, <2>2, NetworkIInv
<1> QED
  BY <1>1, <1>2

(* The conversation stays within the four phases of IInv. *)
THEOREM Invariance == Spec => []IInv
<1>1. IInv /\ [Next]_vars => IInv'
  BY NextIInv
<1> QED
  BY <1>1, InitIInv, PTL DEF Spec

(* The numbers main.py sends and keeps (main.py:16-25,41-51,54-60) fit     *)
(* their fields, or the send raises: what is under way is always a packet. *)
THEOREM TypeCorrect == Spec => []TypeOK
<1>1. IInv => TypeOK
  BY DEF IInv
<1> QED
  BY <1>1, Invariance, PTL

(* "HTTP GET request successful!" (main.py:44-45) is printed for the first *)
(* packet that answers; unless that is a reset or an ICMP error, the       *)
(* server has had the request, whatever was lost, reset or retransmitted.  *)
THEOREM RequestHeard == Spec => []SuccessMeansRequestHeard
<1>1. IInv => SuccessMeansRequestHeard
  BY DEF IInv
<1> QED
  BY <1>1, Invariance, PTL
=============================================================================
