------------------------------- MODULE Client -------------------------------
(***************************************************************************)
(* client/main.py: a TCP conversation made by hand from raw packets, in    *)
(* four sends.  Three of them are sr1 calls, which send once and then wait *)
(* without a timeout for the first packet that answers.                    *)
(*                                                                         *)
(* The rest is external: how scapy matches an answer, the TCP of the HTTP  *)
(* server, the network between them, which loses and reorders, and the     *)
(* client's own kernel, which has no socket for the connection and resets  *)
(* it unless a firewall rule keeps its answers back.                       *)
(***************************************************************************)
EXTENDS Integers

CONSTANTS
  Modulus,  \* sequence numbers are taken modulo this, 2^32
  Iss,      \* initial sequence numbers the server may choose
  GetLen,   \* length of the HTTP request
  RespLen,  \* length of the response
  Chunk     \* bound: lengths of the packets it is sent in

ASSUME LengthAssumption ==
  GetLen \in Nat \ {0} /\ RespLen \in Nat \ {0} /\ Chunk \subseteq 1 .. RespLen
ASSUME ModulusAssumption ==
  Modulus \in Nat /\ Modulus > 2 * (GetLen + RespLen + 2) /\ Iss \subseteq 0 .. Modulus - 1

VARIABLES
  pc,        \* where the client is
  seq, ack,  \* sequence_number and acknowledgment_number
  sent,      \* the packet of the last sr1
  response,  \* what answered the request
  state,     \* the server's end of the connection
  una, nxt,  \* oldest byte not acknowledged to the server, next it sends
  rcv,       \* next byte it expects; kept when the connection ends
  written,   \* bytes of the response it has sent
  toServer, toClient,  \* packets under way
  lost,      \* whether one was lost
  resets     \* whether resets by the client's kernel leave its host

client == <<pc, seq, ack, sent, response>>
server == <<state, una, nxt, rcv, written>>
vars == <<client, server, toServer, toClient, lost, resets>>

(* len is the payload of the client's packets.  Of the server's the client *)
(* looks at the numbers only, so that data is like a bare ACK.             *)
Packet(flags, s, a, len) == [flags |-> flags, seq |-> s, ack |-> a, len |-> len]

Plus(a, n) == (a + n) % Modulus

Init ==
  /\ pc = "syn" /\ seq = 0 /\ ack = 0 /\ response = "none"
  /\ sent = Packet("none", 0, 0, 0)
  /\ state \in {"LISTEN", "CLOSED"}
  /\ una \in Iss /\ nxt = una
  /\ rcv = 0 /\ written = 0
  /\ toServer = {} /\ toClient = {}
  /\ lost = FALSE /\ resets \in BOOLEAN
-----------------------------------------------------------------------------
(* Mutant: a number that does not fit is sent as it is. *)
SendAny(here, flags, len, next) ==
  /\ pc = here
  /\ sent' = Packet(flags, seq, ack, len)
  /\ toServer' = toServer \cup {sent'}
  /\ pc' = next
  /\ UNCHANGED <<seq, ack, response, server, toClient, lost, resets>>

(* Build a packet and send it.  The field of 32 bits raises an exception   *)
(* for an acknowledgment_number that is not reduced.                       *)
Send(here, flags, len, next) ==
  /\ pc = here
  /\ IF ack < Modulus
     THEN /\ sent' = Packet(flags, seq, ack, len)
          /\ toServer' = toServer \cup {sent'}
          /\ pc' = next
     ELSE pc' = "raised" /\ UNCHANGED <<sent, toServer>>
  /\ UNCHANGED <<seq, ack, response, server, toClient, lost, resets>>

SendSyn == Send("syn", "S", 0, "sr1 syn")
SendGet == Send("get", "A", GetLen, "sr1 get")
SendFin == Send("fin", "FA", 0, "sr1 fin")
SendLastAck == Send("last", "A", 0, "done")

(* TCP.answers of scapy: the numbers may be off by two.  An ICMP error for *)
(* the packet answers too.                                                 *)
Near(a, b, n) == a - b \in -n .. n

Answers(r, s) ==
  \/ r.flags = "icmp"
  \/ /\ r.flags = "SA" => s.flags = "S"
     /\ s.flags # "S" => Near(s.ack, r.seq, 2)
     /\ r.flags = "R" \/ Near(s.seq, r.ack, 2 + s.len)

(* A packet reaches the client's host.  Its kernel answers with a reset.   *)
Arrives(r) ==
  /\ r \in toClient
  /\ toClient' = toClient \ {r}
  /\ toServer' = IF resets /\ r.flags \notin {"R", "RA", "icmp"}
                 THEN toServer \cup {Packet("R", r.ack, 0, 0)} ELSE toServer
  /\ UNCHANGED <<server, lost, resets>>

(* Mutants: the numbers are taken from the wrong fields; sequence_number   *)
(* stays what it was.                                                      *)
NumbersSwapped(r) == ack' = r.seq + 1 /\ seq' = r.seq

NumbersKept(r) == ack' = r.seq + 1 /\ seq' = IF pc = "sr1 syn" THEN r.ack ELSE seq

(* acknowledgment_number and sequence_number after each sr1 *)
Numbers(r) == ack' = r.seq + 1 /\ seq' = r.ack

(* sr1 returns r, and r[TCP] raises an exception when r is an ICMP error.  *)
Returns(r, here, next) ==
  /\ pc = here /\ Answers(r, sent)
  /\ Arrives(r)
  /\ IF r.flags = "icmp"
     THEN pc' = "raised" /\ UNCHANGED <<seq, ack>>
     ELSE pc' = next /\ Numbers(r)
  /\ UNCHANGED sent

SynAnswered(r) == Returns(r, "sr1 syn", "get") /\ UNCHANGED response
GetAnswered(r) == Returns(r, "sr1 get", "fin") /\ response' = r.flags
FinAnswered(r) == Returns(r, "sr1 fin", "last") /\ UNCHANGED response

NotAnAnswer(r) ==
  /\ pc \in {"sr1 syn", "sr1 get", "sr1 fin"} => ~Answers(r, sent)
  /\ Arrives(r)
  /\ UNCHANGED client
-----------------------------------------------------------------------------
(* The server.  A packet that has nothing to do with a connection is       *)
(* answered with a reset.                                                  *)
Acceptable(a) == (a - una) % Modulus <= (nxt - una) % Modulus

Refuse(c) ==
  /\ \/ state = "CLOSED"
     \/ state = "LISTEN" /\ c.flags # "S"
     \/ state = "SYN_RCVD" /\ ~Acceptable(c.ack)
  /\ c.flags # "R"
  /\ toClient' = toClient \cup
       {IF c.flags = "S" THEN Packet("RA", 0, c.seq + 1, 0) ELSE Packet("R", c.ack, 0, 0)}
  /\ UNCHANGED server

Listen(c) ==
  /\ state = "LISTEN" /\ c.flags = "S"
  /\ state' = "SYN_RCVD" /\ nxt' = Plus(una, 1) /\ rcv' = c.seq + 1
  /\ toClient' = toClient \cup {Packet("SA", una, rcv', 0)}
  /\ UNCHANGED <<una, written>>

Reset(c) ==
  /\ c.flags = "R"
  /\ state' = IF state = "LISTEN" THEN state ELSE "CLOSED"
  /\ UNCHANGED <<una, nxt, rcv, written, toClient>>

(* A packet out of sequence, or one that acknowledges what was never sent, *)
(* is dropped; an ACK may tell the sender.                                 *)
Drop(c) ==
  /\ state \in {"SYN_RCVD", "ESTABLISHED", "CLOSE_WAIT", "LAST_ACK"} /\ c.flags # "R"
  /\ state = "SYN_RCVD" => Acceptable(c.ack)
  /\ c.seq # rcv \/ ~Acceptable(c.ack)
  /\ toClient' \in {toClient, toClient \cup {Packet("A", nxt, rcv, 0)}}
  /\ UNCHANGED server

(* Anything else is taken.  An ACK answers a FIN at once and data now, or  *)
(* later with the response.                                                *)
Take(c) ==
  /\ state \in {"SYN_RCVD", "ESTABLISHED", "CLOSE_WAIT", "LAST_ACK"}
  /\ c.flags \in {"A", "FA"} /\ c.seq = rcv /\ Acceptable(c.ack)
  /\ una' = c.ack
  /\ rcv' = rcv + c.len + (IF c.flags = "FA" THEN 1 ELSE 0)
  /\ state' = IF c.flags = "FA" THEN "CLOSE_WAIT"
              ELSE CASE state = "SYN_RCVD" -> "ESTABLISHED"
                     [] state = "LAST_ACK" /\ c.ack = nxt -> "CLOSED"
                     [] OTHER -> state
  /\ LET answered == toClient \cup {Packet("A", nxt, rcv', 0)}
     IN  toClient' \in CASE c.flags = "FA" -> {answered}
                         [] c.flags = "A" /\ c.len > 0 -> {toClient, answered}
                         [] OTHER -> {toClient}
  /\ UNCHANGED <<nxt, written>>

ServerReceives(c) ==
  /\ c \in toServer
  /\ toServer' = toServer \ {c}
  /\ Refuse(c) \/ Listen(c) \/ Reset(c) \/ Drop(c) \/ Take(c)
  /\ UNCHANGED <<client, lost, resets>>

(* The function's output, in one or more packets. *)
Respond(n) ==
  /\ state \in {"ESTABLISHED", "CLOSE_WAIT"} /\ rcv > GetLen
  /\ written + n <= RespLen
  /\ written' = written + n /\ nxt' = Plus(nxt, n)
  /\ toClient' = toClient \cup {Packet("A", nxt, rcv, 0)}
  /\ UNCHANGED <<client, state, una, rcv, toServer, lost, resets>>

ServerCloses ==
  /\ state = "CLOSE_WAIT" /\ written = RespLen
  /\ state' = "LAST_ACK" /\ nxt' = Plus(nxt, 1)
  /\ toClient' = toClient \cup {Packet("FA", nxt, rcv, 0)}
  /\ UNCHANGED <<client, una, rcv, written, toServer, lost, resets>>

(* The timer is longer than a packet takes to the client. *)
Retransmit ==
  /\ state \in {"SYN_RCVD", "ESTABLISHED", "CLOSE_WAIT", "LAST_ACK"}
  /\ una # nxt /\ toClient = {}
  /\ LET flags == CASE state = "SYN_RCVD" -> "SA"
                    [] state = "LAST_ACK" /\ Plus(una, 1) = nxt -> "FA"
                    [] OTHER -> "A"
     IN  toClient' = {Packet(flags, una, rcv, 0)}
  /\ UNCHANGED <<client, server, toServer, lost, resets>>

(* The network loses a packet (bound: one), or reports that it cannot be   *)
(* delivered.                                                              *)
Lose ==
  /\ ~lost
  /\ \/ \E c \in toServer : toServer' = toServer \ {c} /\ UNCHANGED toClient
     \/ \E r \in toClient : toClient' = toClient \ {r} /\ UNCHANGED toServer
  /\ lost' = TRUE
  /\ UNCHANGED <<client, server, resets>>

Unreachable(c) ==
  /\ c \in toServer /\ c.flags # "R"
  /\ toServer' = toServer \ {c}
  /\ toClient' = toClient \cup {Packet("icmp", 0, 0, 0)}
  /\ UNCHANGED <<client, server, lost, resets>>
-----------------------------------------------------------------------------
ClientNext == SendSyn \/ SendGet \/ SendFin \/ SendLastAck

ToClient ==
  \E r \in toClient : SynAnswered(r) \/ GetAnswered(r) \/ FinAnswered(r) \/ NotAnAnswer(r)

ToServer == \E c \in toServer : ServerReceives(c)

ServerNext == (\E n \in Chunk : Respond(n)) \/ ServerCloses

Next ==
  \/ ClientNext \/ ToClient \/ ToServer \/ ServerNext \/ Retransmit
  \/ Lose \/ \E c \in toServer : Unreachable(c)

(* The client goes on unless it waits in sr1; packets that are not lost    *)
(* arrive; the server responds and retransmits.                            *)
Fairness ==
  /\ WF_vars(ClientNext)
  /\ WF_vars(ToClient) /\ WF_vars(ToServer)
  /\ WF_vars(ServerNext) /\ WF_vars(Retransmit)

Spec == Init /\ [][Next]_vars
FairSpec == Spec /\ Fairness
-----------------------------------------------------------------------------
Number == 0 .. Modulus - 1

Packets ==
  [flags : {"none", "S", "SA", "A", "FA", "R", "RA", "icmp"},
   seq : Number, ack : Number, len : {0, GetLen}]

Ended == {"done", "raised"}

(* The locals of main.py:3-60, and packets whose numbers fit their fields. *)
TypeOK ==
  /\ pc \in {"syn", "sr1 syn", "get", "sr1 get", "fin", "sr1 fin", "last"} \cup Ended
  /\ seq \in Number /\ ack \in 0 .. Modulus
  /\ sent \in Packets /\ response \in {"none", "A", "FA", "R", "RA", "icmp"}
  /\ state \in {"LISTEN", "SYN_RCVD", "ESTABLISHED", "CLOSE_WAIT", "LAST_ACK", "CLOSED"}
  /\ una \in Number /\ nxt \in Number /\ rcv \in Number /\ written \in 0 .. RespLen
  /\ toServer \subseteq Packets /\ toClient \subseteq Packets
  /\ lost \in BOOLEAN /\ resets \in BOOLEAN

(* "HTTP GET request successful!" (main.py:44-45) is printed for whatever  *)
(* answers first, a bare ACK or a reset too; but unless it was a reset, or *)
(* the ICMP error that ends the program, the server has had the request,   *)
(* however packets were lost, repeated or reordered.                       *)
SuccessMeansRequestHeard ==
  response \in {"A", "FA"} => rcv > GetLen

(* The client ends when no packet is lost and its own kernel is kept       *)
(* quiet, though it sends everything once (main.py:17,42,55): the server's *)
(* ACKs, data and retransmissions always hold one that answers.            *)
EndsUnlessLost == <>(pc \in Ended \/ lost \/ resets)

(* "Close TCP connection" (main.py:53): once the client is done and all it *)
(* sent has arrived, the server knows that the connection is closed.       *)
ClosesConnection == pc = "done" /\ ~lost /\ toServer = {} => state # "ESTABLISHED"
=============================================================================
