-------------------------- MODULE XdpProgramProofs --------------------------
(***************************************************************************)
(* What XdpProgram keeps, for any set of processes, whichever of them run  *)
(* perf_event and whichever are killed: the inductive invariant of      *)
(* attach, register and detach, and the safety properties it implies.      *)
(***************************************************************************)
EXTENDS XdpProgram, TLAPS

(* The instances a process can load. *)
Own(p) == {<<p, 0>>, <<p, 1>>}

(* Control points of main: from Attach's request to the deferred calls; up *)
(* to the request of Detach; with a socket bound.                          *)
Serving    == {"reader", "socket", "register", "register queue", "loop", "unregister"}
Attachable == Serving \cup {"detach: look", "detach: remove"}
Bound      == {"register", "register queue", "loop", "unregister"}

(* A process has a program from Load to its end, and it is one of its own. *)
ProgLoaded ==
  \A p \in Proc : IF pc[p] = "down" THEN prog[p] = None ELSE prog[p] \in Own(p)

(* Which of the two main functions a process is in. *)
MainKept ==
  \A p \in Proc :
    /\ pc[p] \in {"socket", "register", "register queue", "unregister"} => p \notin EventProc
    /\ pc[p] = "reader" => p \in EventProc

(* The queue is bound from NewSocket to the end of the process. *)
BoundKept ==
  \A p \in Proc \ EventProc : pc[p] \in Bound => bound = p

(* An entry of an xsks_map is the bound socket of the process that has the *)
(* map's instance loaded.                                                  *)
SocketsKept ==
  \A g \in Prog : sockets[g] # None => prog[sockets[g]] = g /\ bound = sockets[g]

(* Register's order: the socket is in before the flag, and stays while the *)
(* flag is set.                                                            *)
RegisterOrder ==
  \A p \in Proc :
    /\ pc[p] # "down" /\ queues[prog[p]] = 1 => sockets[prog[p]] = p
    /\ pc[p] \in {"register queue", "loop", "unregister"} /\ p \notin EventProc =>
         sockets[prog[p]] = p
    /\ pc[p] \in {"loop", "unregister"} /\ p \notin EventProc => queues[prog[p]] = 1

(* What is attached belongs to a process that has yet to detach it, unless *)
(* it was left behind.                                                     *)
AttachedKept ==
  \A p \in Proc :
    attached \in Own(p) /\ attached # left => prog[p] = attached /\ pc[p] \in Attachable

(* Nobody but the last to change the link takes a program away. *)
ServedKept ==
  \A p \in Proc : author = p /\ pc[p] \in Serving => attached = prog[p]

IInv ==
  /\ TypeOK /\ ProgLoaded /\ MainKept /\ BoundKept /\ SocketsKept /\ RegisterOrder
  /\ AttachedKept /\ ServedKept
-----------------------------------------------------------------------------
(* Instances are told apart by the process that loaded them (program.go's  *)
(* NewProgram gives each process its own).                                 *)
LEMMA OwnPrograms ==
  ASSUME NEW p \in Proc
  PROVE  /\ Own(p) \subseteq Prog /\ None \notin Own(p) /\ p # None
         /\ \A q \in Proc : q # p => \A g \in Own(p) : g \notin Own(q)
         /\ \A g \in Own(p) : g[1] = p
BY NoneAssumption DEF Own, Prog

(* ... and each has a process it belongs to. *)
LEMMA ProgramOwner ==
  ASSUME NEW g \in Prog
  PROVE  g[1] \in Proc /\ g \in Own(g[1]) /\ g # None
BY NoneAssumption DEF Own, Prog

(* An instance that is loaded keeps its maps, whatever is attached or      *)
(* removed (program.go:186,209-216).                                       *)
LEMMA MapsKept ==
  ASSUME IInv, FreeMaps
  PROVE  /\ queues' \in [Prog -> {0, 1}]
         /\ \A q \in Proc : prog'[q] \in Own(q) => queues'[prog'[q]] = queues[prog'[q]]
<1>1. \A g \in Prog : queues[g] \in {0, 1}
  BY DEF IInv, TypeOK
<1>2. queues' \in [Prog -> {0, 1}]
  BY <1>1 DEF FreeMaps
<1>3. ASSUME NEW q \in Proc, prog'[q] \in Own(q)
      PROVE  queues'[prog'[q]] = queues[prog'[q]]
  <2>1. prog'[q] \in Prog /\ prog'[q][1] = q
    BY <1>3, OwnPrograms
  <2> QED
    BY <2>1 DEF FreeMaps
<1> QED
  BY <1>2, <1>3

(* The calls of main that only move on (program.go:176-199 finding nothing *)
(* attached, NewReader, an error return, the start of the deferred calls)  *)
(* keep the invariant when they do not enter the part of main that Attach  *)
(* opens and do not leave it with the process's program attached.          *)
LEMMA MoveIInv ==
  ASSUME IInv, NEW p \in Proc, NEW to \in Label \ {"down"},
         pc[p] # "down", pc' = [pc EXCEPT ![p] = to],
         UNCHANGED <<prog, attached, author, bound, maps>>,
         left' = left \/ left' = attached,
         to \in Serving =>
           \/ pc[p] = "reader" /\ to = "loop"
           \/ pc[p] = "loop" /\ to = "unregister" /\ p \notin EventProc,
         pc[p] \in Attachable /\ to \notin Attachable /\ attached = prog[p] => left' = attached
  PROVE  IInv'
<1> USE DEF IInv, link, maps
<1>0. \A q \in Proc : q # p => pc'[q] = pc[q]
  BY DEF TypeOK
<1>1. pc'[p] = to
  BY DEF TypeOK
<1>2. TypeOK'
  BY DEF TypeOK
<1>3. ProgLoaded'
  BY <1>0, <1>1 DEF ProgLoaded
<1>4. MainKept'
  BY <1>0, <1>1 DEF MainKept, Serving
<1>5. BoundKept'
  BY <1>0, <1>1 DEF BoundKept, Serving, Bound, MainKept
<1>6. SocketsKept'
  BY DEF SocketsKept
<1>7. RegisterOrder'
  BY <1>0, <1>1 DEF RegisterOrder, Serving, MainKept
<1>8. AttachedKept'
  BY <1>0, <1>1, OwnPrograms DEF AttachedKept
<1>9. ServedKept'
  BY <1>0, <1>1 DEF ServedKept, Serving
<1> QED
  BY <1>2, <1>3, <1>4, <1>5, <1>6, <1>7, <1>8, <1>9

(* NewProgram (program.go:95-150) gives the process an instance with empty maps. *)
LEMMA LoadIInv ==
  ASSUME IInv, NEW p \in Proc, Load(p)
  PROVE  IInv'
<1> USE DEF IInv, link, maps
<1> DEFINE g == <<p, IF attached = <<p, 0>> THEN 1 ELSE 0>>
<1>g. g \in Own(p) /\ g # attached
  BY OwnPrograms DEF Own
<1>t. g \in Prog
  BY <1>g, OwnPrograms
<1>p. /\ pc[p] = "down" /\ pc'[p] = "attach: look"
      /\ \A q \in Proc : q # p => pc'[q] = pc[q]
  BY DEF Load, Goto, TypeOK
<1>l. prog' = [prog EXCEPT ![p] = g]
  BY DEF Load
<1>m. queues' = [queues EXCEPT ![g] = 0] /\ sockets' = [sockets EXCEPT ![g] = None]
  BY DEF Load
<1>u. attached' = attached /\ author' = author /\ left' = left /\ bound' = bound
  BY DEF Load
<1>y. pc' \in [Proc -> Label]
  BY DEF Load, Goto, TypeOK, Label
<1> HIDE DEF g
<1>q. prog'[p] = g /\ \A q \in Proc : q # p => prog'[q] = prog[q]
  BY <1>l DEF TypeOK
<1>n. prog[p] = None
  BY <1>p DEF ProgLoaded
<1>k. ASSUME NEW h \in Prog PROVE sockets[h] # p
  BY <1>n, OwnPrograms, ProgramOwner DEF SocketsKept
<1>s. sockets'[g] = None /\ queues'[g] = 0
      /\ \A h \in Prog : h # g => sockets'[h] = sockets[h] /\ queues'[h] = queues[h]
  BY <1>m, <1>t DEF TypeOK
<1>o. \A q \in Proc : q # p /\ pc[q] # "down" => prog[q] \in Prog /\ prog[q] # g
  BY <1>g, OwnPrograms DEF ProgLoaded
<1>1. TypeOK'
  BY <1>y, <1>l, <1>m, <1>u, <1>t DEF TypeOK
<1>2. ProgLoaded'
  BY <1>p, <1>q, <1>g DEF ProgLoaded
<1>3. MainKept'
  BY <1>p DEF MainKept
<1>4. BoundKept'
  BY <1>p, <1>u DEF BoundKept, Bound
<1>5. SocketsKept'
  BY <1>q, <1>s, <1>k, <1>u DEF SocketsKept, TypeOK
<1>6. RegisterOrder'
  <2> SUFFICES ASSUME NEW q \in Proc
               PROVE  /\ pc'[q] # "down" /\ queues'[prog'[q]] = 1 => sockets'[prog'[q]] = q
                      /\ pc'[q] \in {"register queue", "loop", "unregister"} /\ q \notin EventProc =>
                           sockets'[prog'[q]] = q
                      /\ pc'[q] \in {"loop", "unregister"} /\ q \notin EventProc =>
                           queues'[prog'[q]] = 1
    BY DEF RegisterOrder
  <2>1. CASE q = p
    <3>1. queues'[prog'[q]] # 1
      <4>1. queues'[prog'[q]] = 0
        BY <2>1, <1>q, <1>s
      <4> QED
        BY <4>1, SMT
    <3>2. pc'[q] = "attach: look"
      BY <2>1, <1>p
    <3> QED
      BY <3>1, <3>2, Zenon
  <2>2. CASE q # p
    <3>1. pc'[q] = pc[q] /\ prog'[q] = prog[q]
      BY <2>2, <1>p, <1>q
    <3>2. pc[q] # "down" => /\ sockets'[prog[q]] = sockets[prog[q]]
                            /\ queues'[prog[q]] = queues[prog[q]]
      BY <2>2, <1>o, <1>s
    <3> QED
      BY <3>1, <3>2 DEF RegisterOrder
  <2> QED
    BY <2>1, <2>2
<1>7. AttachedKept'
  BY <1>p, <1>q, <1>u, <1>n, OwnPrograms DEF AttachedKept, Attachable, Serving
<1>8. ServedKept'
  BY <1>p, <1>q, <1>u DEF ServedKept, Serving
<1> QED
  BY <1>1, <1>2, <1>3, <1>4, <1>5, <1>6, <1>7, <1>8

(* removeProgram's request (program.go:186) takes the link's program away, *)
(* whoever attached it.                                                    *)
LEMMA RemoveIInv ==
  ASSUME IInv, NEW p \in Proc, NEW here, NEW wait \in {"attach: wait", "detach: wait"},
         here # "down", Remove(p, here, wait)
  PROVE  IInv'
<1> USE DEF IInv, link, maps, Goto, Remove
<1>0. \A q \in Proc : q # p => pc'[q] = pc[q]
  BY DEF TypeOK
<1>m. /\ queues' \in [Prog -> {0, 1}]
      /\ \A q \in Proc : pc[q] # "down" => queues'[prog[q]] = queues[prog[q]]
  BY MapsKept DEF ProgLoaded
<1>1. TypeOK'
  BY <1>m, OwnPrograms DEF TypeOK, Label, ProgLoaded
<1>2. ProgLoaded'
  BY <1>0, OwnPrograms DEF TypeOK, ProgLoaded
<1>3. MainKept'
  BY <1>0 DEF TypeOK, MainKept
<1>4. BoundKept'
  BY <1>0 DEF TypeOK, BoundKept, Bound
<1>5. SocketsKept'
  BY <1>0, OwnPrograms DEF TypeOK, SocketsKept, ProgLoaded
<1>6. RegisterOrder'
  <2> SUFFICES ASSUME NEW q \in Proc
               PROVE  /\ pc'[q] # "down" /\ queues'[prog'[q]] = 1 => sockets'[prog'[q]] = q
                      /\ pc'[q] \in {"register queue", "loop", "unregister"} /\ q \notin EventProc =>
                           sockets'[prog'[q]] = q
                      /\ pc'[q] \in {"loop", "unregister"} /\ q \notin EventProc =>
                           queues'[prog'[q]] = 1
    BY DEF RegisterOrder
  <2>1. prog' = prog /\ sockets' = sockets /\ pc[p] # "down"
    BY DEF maps
  <2>2. pc[q] # "down" => queues'[prog[q]] = queues[prog[q]]
    BY <1>m
  <2>3. CASE q = p
    BY <2>1, <2>2, <2>3 DEF TypeOK, RegisterOrder, MainKept
  <2>4. CASE q # p
    BY <1>0, <2>1, <2>2, <2>4 DEF RegisterOrder
  <2> QED
    BY <2>3, <2>4
<1>7. AttachedKept'
  BY <1>0, OwnPrograms DEF TypeOK, AttachedKept, Attachable, Serving, ProgLoaded
<1>8. ServedKept'
  BY <1>0, OwnPrograms DEF TypeOK, ServedKept, Serving, ProgLoaded
<1> QED
  BY <1>1, <1>2, <1>3, <1>4, <1>5, <1>6, <1>7, <1>8

(* attachProgram (program.go:209-216). *)
LEMMA SetIInv ==
  ASSUME IInv, NEW p \in Proc, Set(p)
  PROVE  IInv'
<1> USE DEF IInv, link, maps, Goto, Set
<1>0. \A q \in Proc : q # p => pc'[q] = pc[q]
  BY DEF TypeOK
<1>m. /\ queues' \in [Prog -> {0, 1}]
      /\ \A q \in Proc : pc[q] # "down" => queues'[prog[q]] = queues[prog[q]]
  BY MapsKept DEF ProgLoaded
<1>1. TypeOK'
  BY <1>m, OwnPrograms DEF TypeOK, Label, ProgLoaded
<1>2. ProgLoaded'
  BY <1>0, OwnPrograms DEF TypeOK, ProgLoaded
<1>3. MainKept'
  BY <1>0 DEF TypeOK, MainKept
<1>4. BoundKept'
  BY <1>0 DEF TypeOK, BoundKept, Bound
<1>5. SocketsKept'
  BY <1>0, OwnPrograms DEF TypeOK, SocketsKept, ProgLoaded
<1>6. RegisterOrder'
  <2> SUFFICES ASSUME NEW q \in Proc
               PROVE  /\ pc'[q] # "down" /\ queues'[prog'[q]] = 1 => sockets'[prog'[q]] = q
                      /\ pc'[q] \in {"register queue", "loop", "unregister"} /\ q \notin EventProc =>
                           sockets'[prog'[q]] = q
                      /\ pc'[q] \in {"loop", "unregister"} /\ q \notin EventProc =>
                           queues'[prog'[q]] = 1
    BY DEF RegisterOrder
  <2>1. prog' = prog /\ sockets' = sockets /\ pc[p] # "down"
    BY DEF maps
  <2>2. pc[q] # "down" => queues'[prog[q]] = queues[prog[q]]
    BY <1>m
  <2>3. CASE q = p
    BY <2>1, <2>2, <2>3 DEF TypeOK, RegisterOrder, MainKept
  <2>4. CASE q # p
    BY <1>0, <2>1, <2>2, <2>4 DEF RegisterOrder
  <2> QED
    BY <2>3, <2>4
<1>7. AttachedKept'
  BY <1>0, OwnPrograms DEF TypeOK, AttachedKept, Attachable, Serving, ProgLoaded
<1>8. ServedKept'
  BY <1>0, OwnPrograms DEF TypeOK, ServedKept, Serving, ProgLoaded
<1> QED
  BY <1>1, <1>2, <1>3, <1>4, <1>5, <1>6, <1>7, <1>8

(* NewSocket's bind of the queue (xdp.go:378-381) *)
LEMMA NewSocketIInv ==
  ASSUME IInv, NEW p \in Proc, NewSocket(p)
  PROVE  IInv'
<1> USE DEF IInv
<1>0. /\ pc[p] = "socket" /\ UNCHANGED <<prog, link, maps>>
      /\ \/ bound = None /\ bound' = p /\ pc' = [pc EXCEPT ![p] = "register"]
         \/ bound # None /\ bound' = bound /\ pc' = [pc EXCEPT ![p] = "detach: look"]
  BY DEF NewSocket, Goto
<1>a. CASE bound # None
  BY <1>0, <1>a, MoveIInv DEF Label, Serving, Attachable, link
<1>b. CASE bound = None
  <2> USE DEF link, maps
  <2>p. pc'[p] = "register" /\ \A q \in Proc : q # p => pc'[q] = pc[q]
    BY <1>0, <1>b DEF TypeOK
  <2>u. bound' = p /\ prog' = prog /\ attached' = attached /\ author' = author /\ left' = left
        /\ queues' = queues /\ sockets' = sockets
    BY <1>0, <1>b
  <2>1. TypeOK'
    BY <1>0, <1>b, <2>u DEF TypeOK, Label
  <2>2. ProgLoaded'
    BY <1>0, <2>p, <2>u DEF ProgLoaded
  <2>3. MainKept'
    BY <1>0, <2>p DEF MainKept
  <2>4. BoundKept'
    BY <1>b, <2>p, <2>u, OwnPrograms DEF BoundKept
  <2>5. SocketsKept'
    BY <1>b, <2>u DEF SocketsKept
  <2>6. RegisterOrder'
    BY <1>0, <2>p, <2>u DEF RegisterOrder
  <2>7. AttachedKept'
    BY <1>0, <2>p, <2>u DEF AttachedKept, Attachable, Serving
  <2>8. ServedKept'
    BY <1>0, <2>p, <2>u DEF ServedKept, Serving
  <2> QED
    BY <2>1, <2>2, <2>3, <2>4, <2>5, <2>6, <2>7, <2>8
<1> QED
  BY <1>a, <1>b

(* Register's two updates (program.go:36-45) *)
LEMMA RegisterSocketIInv ==
  ASSUME IInv, NEW p \in Proc, RegisterSocket(p)
  PROVE  IInv'
<1> USE DEF IInv, link, maps
<1>0. /\ pc[p] = "register" /\ pc'[p] = "register queue"
      /\ \A q \in Proc : q # p => pc'[q] = pc[q]
  BY DEF RegisterSocket, Goto, TypeOK
<1>g. prog[p] \in Own(p) /\ prog[p] \in Prog
  BY <1>0, OwnPrograms DEF ProgLoaded
<1>s. /\ sockets'[prog[p]] = p
      /\ \A h \in Prog : h # prog[p] => sockets'[h] = sockets[h]
  BY <1>g DEF RegisterSocket, TypeOK
<1>u. prog' = prog /\ attached' = attached /\ author' = author /\ left' = left /\ bound' = bound
      /\ queues' = queues
  BY DEF RegisterSocket
<1>b. p \notin EventProc /\ bound = p
  BY <1>0 DEF MainKept, BoundKept, Bound
<1>o. \A q \in Proc : q # p /\ pc[q] # "down" => prog[q] \in Prog /\ prog[q] # prog[p]
  BY <1>g, OwnPrograms DEF ProgLoaded
<1>1. TypeOK'
  BY <1>u DEF RegisterSocket, Goto, TypeOK, Label
<1>2. ProgLoaded'
  BY <1>0, <1>u DEF ProgLoaded
<1>3. MainKept'
  BY <1>0 DEF MainKept
<1>4. BoundKept'
  BY <1>0, <1>u DEF BoundKept, Bound
<1>5. SocketsKept'
  BY <1>g, <1>s, <1>u, <1>b DEF SocketsKept
<1>6. RegisterOrder'
  BY <1>0, <1>g, <1>s, <1>u, <1>o DEF RegisterOrder
<1>7. AttachedKept'
  BY <1>0, <1>u DEF AttachedKept, Attachable, Serving
<1>8. ServedKept'
  BY <1>0, <1>u DEF ServedKept, Serving
<1> QED
  BY <1>1, <1>2, <1>3, <1>4, <1>5, <1>6, <1>7, <1>8

(* Register's second update (program.go:38-40): the flag follows the       *)
(* socket.                                                                 *)
LEMMA RegisterQueueIInv ==
  ASSUME IInv, NEW p \in Proc, RegisterQueue(p)
  PROVE  IInv'
<1> USE DEF IInv, link, maps, Goto, RegisterQueue
<1>0. \A q \in Proc : q # p => pc'[q] = pc[q]
  BY DEF TypeOK
<1>1. TypeOK'
  BY OwnPrograms DEF TypeOK, Label
<1>2. ProgLoaded'
  BY <1>0, OwnPrograms DEF TypeOK, ProgLoaded
<1>3. MainKept'
  BY <1>0 DEF TypeOK, MainKept
<1>4. BoundKept'
  BY <1>0 DEF TypeOK, BoundKept, Bound
<1>5. SocketsKept'
  BY <1>0, OwnPrograms DEF TypeOK, SocketsKept, ProgLoaded
<1>6. RegisterOrder'
  BY <1>0, OwnPrograms DEF TypeOK, RegisterOrder, ProgLoaded, MainKept
<1>7. AttachedKept'
  BY <1>0, OwnPrograms DEF TypeOK, AttachedKept, Attachable, Serving, ProgLoaded
<1>8. ServedKept'
  BY <1>0, OwnPrograms DEF TypeOK, ServedKept, Serving, ProgLoaded
<1> QED
  BY <1>1, <1>2, <1>3, <1>4, <1>5, <1>6, <1>7, <1>8

(* The end of a process, by its return or by a signal: it leaves the link  *)
(* alone, and when its program stays there it is left behind.              *)
LEMMA ExitIInv ==
  ASSUME IInv, NEW p \in Proc, CloseAndExit(p) \/ Killed(p)
  PROVE  IInv'
<1> USE DEF IInv, link, maps
<1>0. /\ pc' = [pc EXCEPT ![p] = "down"] /\ pc[p] # "down"
      /\ \/ pc[p] = "close" /\ left' = left
         \/ left' = IF attached = prog[p] THEN attached ELSE left
  BY DEF CloseAndExit, Killed, Goto, Leave
<1>e. Exit(p)
  BY DEF CloseAndExit, Killed
<1>p. pc'[p] = "down" /\ \A q \in Proc : q # p => pc'[q] = pc[q]
  BY <1>0 DEF TypeOK
<1>q. prog'[p] = None /\ \A q \in Proc : q # p => prog'[q] = prog[q]
  BY <1>e DEF Exit, TypeOK
<1>b. bound' = IF bound = p THEN None ELSE bound
  BY <1>e DEF Exit
<1>s. \A g \in Prog : sockets'[g] = IF sockets[g] = p THEN None ELSE sockets[g]
  BY <1>e DEF Exit
<1>u. attached' = attached /\ author' = author
  BY <1>e DEF Exit
<1>o. \A q \in Proc : pc[q] # "down" => prog[q] \in Prog
  BY OwnPrograms DEF ProgLoaded
<1>m. /\ queues' \in [Prog -> {0, 1}]
      /\ \A q \in Proc : q # p /\ pc[q] # "down" => queues'[prog[q]] = queues[prog[q]]
  BY <1>e, <1>q, MapsKept DEF Exit, ProgLoaded
<1>1. TypeOK'
  BY <1>0, <1>e, <1>m DEF Exit, TypeOK, Label
<1>2. ProgLoaded'
  BY <1>p, <1>q DEF ProgLoaded
<1>3. MainKept'
  BY <1>p DEF MainKept
<1>4. BoundKept'
  BY <1>p, <1>b DEF BoundKept, Bound
<1>5. SocketsKept'
  BY <1>q, <1>b, <1>s DEF SocketsKept, TypeOK
<1>6. RegisterOrder'
  <2> SUFFICES ASSUME NEW q \in Proc
               PROVE  /\ pc'[q] # "down" /\ queues'[prog'[q]] = 1 => sockets'[prog'[q]] = q
                      /\ pc'[q] \in {"register queue", "loop", "unregister"} /\ q \notin EventProc =>
                           sockets'[prog'[q]] = q
                      /\ pc'[q] \in {"loop", "unregister"} /\ q \notin EventProc =>
                           queues'[prog'[q]] = 1
    BY DEF RegisterOrder
  <2>1. CASE q = p
    BY <1>p, <2>1
  <2>2. CASE q # p
    <3>1. pc'[q] = pc[q] /\ prog'[q] = prog[q]
      BY <1>p, <1>q, <2>2
    <3>2. pc[q] # "down" => /\ queues'[prog[q]] = queues[prog[q]]
                            /\ sockets[prog[q]] = q => sockets'[prog[q]] = q
      BY <1>m, <1>o, <1>s, <2>2
    <3> QED
      BY <3>1, <3>2 DEF RegisterOrder
  <2> QED
    BY <2>1, <2>2
<1>7. AttachedKept'
  BY <1>0, <1>p, <1>q, <1>u, OwnPrograms DEF AttachedKept, Attachable, Serving
<1>8. ServedKept'
  BY <1>p, <1>q, <1>u DEF ServedKept, Serving
<1> QED
  BY <1>1, <1>2, <1>3, <1>4, <1>5, <1>6, <1>7, <1>8

(* Every step of a process, alone or among others, keeps the invariant. *)
LEMMA StepIInv ==
  ASSUME IInv, NEW p \in Proc, Step(p)
  PROVE  IInv'
<1> USE DEF Goto, Label, Serving, Attachable, link
<1>1. CASE Look(p, "attach: look", "attach: remove", "attach: set")
  BY <1>1, MoveIInv DEF Look
<1>2. CASE Remove(p, "attach: remove", "attach: wait")
  BY <1>2, RemoveIInv
<1>3. CASE Wait(p, "attach: wait", "attach: set")
  BY <1>3, MoveIInv DEF Wait
<1>4. CASE Set(p)
  BY <1>4, SetIInv
<1>5. CASE NewSocket(p)
  BY <1>5, NewSocketIInv
<1>6. CASE RegisterSocket(p)
  BY <1>6, RegisterSocketIInv
<1>7. CASE RegisterQueue(p)
  BY <1>7, RegisterQueueIInv
<1>8. CASE NewReader(p)
  BY <1>8, MoveIInv DEF NewReader
<1>9. CASE Unregister(p)
  BY <1>9, MoveIInv DEF Unregister
<1>10. CASE Look(p, "detach: look", "detach: remove", "close")
  <2>1. prog[p] # None
    BY <1>10, OwnPrograms DEF Look, IInv, ProgLoaded
  <2> QED
    BY <1>10, <2>1, MoveIInv DEF Look
<1>11. CASE Remove(p, "detach: remove", "detach: wait")
  BY <1>11, RemoveIInv
<1>12. CASE Wait(p, "detach: wait", "close")
  BY <1>12, MoveIInv DEF Wait
<1>13. CASE CloseAndExit(p)
  BY <1>13, ExitIInv
<1> QED
  BY <1>1, <1>2, <1>3, <1>4, <1>5, <1>6, <1>7, <1>8, <1>9, <1>10, <1>11, <1>12, <1>13 DEF Step

(* So does every error return, and a signal. *)
LEMMA FaultIInv ==
  ASSUME IInv, NEW p \in Proc, Fault(p)
  PROVE  IInv'
<1> USE DEF Goto, Label, Serving, Attachable, link
<1>1. CASE AttachFails(p)
  BY <1>1, MoveIInv DEF AttachFails
<1>2. CASE SetupFails(p)
  BY <1>2, MoveIInv DEF SetupFails
<1>3. CASE LoopReturns(p)
  <2>1. CASE p \in EventProc
    BY <1>3, <2>1, MoveIInv DEF LoopReturns
  <2>2. CASE p \notin EventProc
    BY <1>3, <2>2, MoveIInv DEF LoopReturns
  <2> QED
    BY <2>1, <2>2
<1>4. CASE DetachFails(p)
  BY <1>4, MoveIInv DEF DetachFails, Leave
<1>5. CASE DetachWaitFails(p)
  BY <1>5, MoveIInv DEF DetachWaitFails
<1>6. CASE Killed(p)
  BY <1>6, ExitIInv
<1> QED
  BY <1>1, <1>2, <1>3, <1>4, <1>5, <1>6 DEF Fault

(* No process runs and nothing is attached at first. *)
LEMMA InitIInv == Init => IInv
<1> SUFFICES ASSUME Init PROVE IInv
  OBVIOUS
<1>1. TypeOK
  BY DEF Init, TypeOK, Label
<1>2. ProgLoaded /\ MainKept /\ BoundKept
  BY DEF Init, ProgLoaded, MainKept, BoundKept, Bound
<1>3. SocketsKept /\ RegisterOrder
  BY DEF Init, SocketsKept, RegisterOrder
<1>4. AttachedKept /\ ServedKept
  BY OwnPrograms DEF Init, AttachedKept, ServedKept, Serving
<1> QED
  BY <1>1, <1>2, <1>3, <1>4 DEF IInv

(* One step per action of a process, and stuttering. *)
LEMMA NextIInv == IInv /\ [Next]_vars => IInv'
<1>1. ASSUME IInv, NEW p \in Proc, Load(p) \/ Step(p) \/ Fault(p)
      PROVE  IInv'
  BY <1>1, LoadIInv, StepIInv, FaultIInv
<1>2. ASSUME IInv, UNCHANGED vars
      PROVE  IInv'
  BY <1>2 DEF vars, link, maps, IInv, TypeOK, ProgLoaded, MainKept, BoundKept, SocketsKept,
              RegisterOrder, AttachedKept, ServedKept
<1> QED
  BY <1>1, <1>2 DEF Next

(* The invariant of attach, register and detach (program.go:22-46,175-216, *)
(* dumpframes.go:55-98) holds in every reachable state.                    *)
THEOREM Invariance == Spec => []IInv
BY InitIInv, NextIInv, PTL DEF Spec

(* The control points of main, the maps and the link keep their types.     *)
THEOREM TypeCorrect == Spec => []TypeOK
<1>1. IInv => TypeOK
  BY DEF IInv
<1> QED
  BY <1>1, Invariance, PTL

(* Register's order (program.go:36-45) makes the flag mean what the        *)
(* program reads from it (tcp_syn_kern.c:42-43,103-104), whoever attaches, *)
(* detaches, exits or is killed meanwhile.                                 *)
THEOREM FlagMeansSocket == Spec => []QidconfMeansSocket
<1>1. IInv => QidconfMeansSocket
  <2> SUFFICES ASSUME IInv, attached # None, queues[attached] = 1, ~Orphan
               PROVE  sockets[attached] # None /\ sockets[attached] = bound
    BY DEF QidconfMeansSocket
  <2>1. attached \in Prog
    BY DEF IInv, TypeOK
  <2> DEFINE p == attached[1]
  <2>2. p \in Proc /\ attached \in Own(p)
    BY <2>1, ProgramOwner
  <2> HIDE DEF p
  <2>3. prog[p] = attached
    <3>1. CASE attached = left
      BY <3>1 DEF Orphan, p
    <3>2. CASE attached # left
      BY <3>2, <2>2 DEF IInv, AttachedKept
    <3> QED
      BY <3>1, <3>2
  <2>4. pc[p] # "down"
    BY <2>2, <2>3 DEF IInv, ProgLoaded
  <2>5. sockets[attached] = p
    BY <2>2, <2>3, <2>4 DEF IInv, RegisterOrder
  <2> QED
    BY <2>1, <2>2, <2>5, OwnPrograms DEF IInv, SocketsKept
<1> QED
  BY <1>1, Invariance, PTL

(* A program is left attached by a process only when it is killed or when  *)
(* its Detach fails up to the request to remove (program.go:179-188), not  *)
(* by any other failure (dumpframes.go:62-82, program.go:190-193), and     *)
(* however the requests of processes interleave.                           *)
THEOREM NothingLeftAttached == Spec => []AttachedHasOwner
<1>1. IInv => AttachedHasOwner
  <2> SUFFICES ASSUME IInv, attached # None, attached # left
               PROVE  /\ prog[attached[1]] = attached
                      /\ pc[attached[1]] \notin {"detach: wait", "close"}
    BY DEF AttachedHasOwner
  <2>1. attached[1] \in Proc /\ attached \in Own(attached[1])
    BY ProgramOwner DEF IInv, TypeOK
  <2> QED
    BY <2>1 DEF IInv, AttachedKept, Attachable, Serving
<1> QED
  BY <1>1, Invariance, PTL

(* The receive loops (dumpframes.go:83, perf_event's dumpframes.go:70) are *)
(* served by their own program and socket until somebody else changes the  *)
(* link: no end of another process, by return or by signal, disturbs them. *)
THEOREM LoopServed == Spec => []LoopIsServed
<1>1. IInv => LoopIsServed
  <2> SUFFICES ASSUME IInv, NEW p \in Proc, pc[p] = "loop", author = p
               PROVE  /\ attached = prog[p]
                      /\ p \notin EventProc =>
                           queues[attached] = 1 /\ sockets[attached] = p /\ bound = p
    BY DEF LoopIsServed
  <2>1. attached = prog[p]
    BY DEF IInv, ServedKept, Serving
  <2>2. ASSUME p \notin EventProc
        PROVE  queues[attached] = 1 /\ sockets[attached] = p /\ bound = p
    BY <2>1, <2>2 DEF IInv, RegisterOrder, BoundKept, Bound
  <2> QED
    BY <2>1, <2>2
<1> QED
  BY <1>1, Invariance, PTL
=============================================================================
