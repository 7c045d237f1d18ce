----------------------------- MODULE XdpProgram -----------------------------
(***************************************************************************)
(* xdp.Program of program.go as the two main functions use it.  A process  *)
(* of dumpframes loads the eBPF program, attaches it to a network link,    *)
(* binds a socket to a queue of that link, registers it, and undoes all    *)
(* that in the deferred calls when the receive loop returns; a process of  *)
(* perf_event loads its own program, attaches it and reads its events.     *)
(* One link, one queue, any number of processes; no call holds a lock over *)
(* its netlink requests.                                                   *)
(***************************************************************************)
EXTENDS Naturals

CONSTANTS
  Proc,      \* processes
  EventProc, \* those that run perf_event; the others run dumpframes
  None

(* Loaded programs, each with maps of its own, by the process that loads   *)
(* them: the one of its life before the last may still be attached.        *)
Prog == Proc \X {0, 1}

ASSUME ProcAssumption == EventProc \subseteq Proc
ASSUME NoneAssumption == None \notin Proc \cup Prog

VARIABLES
  pc,        \* where each process is in main
  prog,      \* the instance each process has loaded
  attached,  \* the instance attached to the link
  author,    \* history: the process that last attached or removed something
  left,      \* history: the attached instance, once its process was killed or its
             \* Detach returned an error before it removed anything
  bound,     \* the process whose AF_XDP socket is bound to the queue
  queues,    \* qidconf_map of each instance, at the queue
  sockets    \* xsks_map of each instance, at the queue: whose socket

maps == <<queues, sockets>>
link == <<attached, author, left>>
vars == <<pc, prog, link, bound, maps>>

Init ==
  /\ pc = [p \in Proc |-> "down"]
  /\ prog = [p \in Proc |-> None]
  /\ attached = None /\ author = None /\ left = None /\ bound = None
  /\ queues = [g \in Prog |-> 0]
  /\ sockets = [g \in Prog |-> None]

Goto(p, from, to) == pc[p] = from /\ pc' = [pc EXCEPT ![p] = to]

(* The kernel keeps the maps of the instances that are attached or loaded. *)
FreeMaps ==
  queues' = [g \in Prog |-> IF attached' = g \/ prog'[g[1]] = g THEN queues[g] ELSE 0]
-----------------------------------------------------------------------------
(* NewTCPSynProgram: a new instance with empty maps. *)
Load(p) ==
  LET g == <<p, IF attached = <<p, 0>> THEN 1 ELSE 0>> IN
  /\ Goto(p, "down", "attach: look")
  /\ prog' = [prog EXCEPT ![p] = g]
  /\ queues' = [queues EXCEPT ![g] = 0]
  /\ sockets' = [sockets EXCEPT ![g] = None]
  /\ UNCHANGED <<link, bound>>

(* Mutant: the test of isXdpAttached is inverted. *)
LookInverted(p, here, remove, done) ==
  /\ Goto(p, here, IF attached = None THEN remove ELSE done)
  /\ UNCHANGED <<prog, link, bound, maps>>

(* removeProgram(Ifindex), called by Attach and by Detach: return when     *)
(* nothing is attached, else remove what is, whoever attached it...        *)
Look(p, here, remove, done) ==
  /\ Goto(p, here, IF attached = None THEN done ELSE remove)
  /\ UNCHANGED <<prog, link, bound, maps>>

(* Mutant: the request to remove is not made. *)
RemoveNothing(p, here, wait) ==
  /\ Goto(p, here, wait)
  /\ UNCHANGED <<prog, link, bound, maps>>

Remove(p, here, wait) ==
  /\ Goto(p, here, wait)
  /\ attached' = None /\ author' = p /\ left' = None
  /\ UNCHANGED <<prog, bound, sockets>>
  /\ FreeMaps

(* ...and look again, every second, until nothing is. *)
Wait(p, here, done) ==
  /\ attached = None
  /\ Goto(p, here, done)
  /\ UNCHANGED <<prog, link, bound, maps>>

(* attachProgram: DefaultXdpFlags is 0, so it replaces what is attached. *)
Set(p) ==
  /\ Goto(p, "attach: set", IF p \in EventProc THEN "reader" ELSE "socket")
  /\ attached' = prog[p] /\ author' = p /\ left' = None
  /\ UNCHANGED <<prog, bound, sockets>>
  /\ FreeMaps

(* A netlink request of Attach fails, and main returns: only Close is      *)
(* deferred so far.                                                        *)
AttachFails(p) ==
  /\ \E at \in {"attach: look", "attach: remove", "attach: wait", "attach: set"} :
       Goto(p, at, "close")
  /\ UNCHANGED <<prog, link, bound, maps>>

(* NewSocket binds to the queue, which takes one socket: it fails when     *)
(* another process has it, and main returns.                               *)
NewSocket(p) ==
  /\ IF bound = None
     THEN Goto(p, "socket", "register") /\ bound' = p
     ELSE Goto(p, "socket", "detach: look") /\ UNCHANGED bound
  /\ UNCHANGED <<prog, link, maps>>

(* ringbuf.NewReader of perf_event *)
NewReader(p) ==
  /\ Goto(p, "reader", "loop")
  /\ UNCHANGED <<prog, link, bound, maps>>

(* Mutants: Register puts the queue first; it puts no socket; it adds to   *)
(* the queue's entry instead of setting it.                                *)
RegisterQueueFirst(p) ==
  /\ Goto(p, "register", "register queue")
  /\ queues' = [queues EXCEPT ![prog[p]] = 1]
  /\ UNCHANGED <<prog, link, bound, sockets>>

RegisterNoSocket(p) ==
  /\ Goto(p, "register", "register queue")
  /\ UNCHANGED <<prog, link, bound, maps>>

RegisterTwice(p) ==
  /\ Goto(p, "register queue", "loop")
  /\ queues' = [queues EXCEPT ![prog[p]] = @ + 2]
  /\ UNCHANGED <<prog, link, bound, sockets>>

(* Register: first the socket, then the flag that says there is one. *)
RegisterSocket(p) ==
  /\ Goto(p, "register", "register queue")
  /\ sockets' = [sockets EXCEPT ![prog[p]] = p]
  /\ UNCHANGED <<prog, link, bound, queues>>

RegisterQueue(p) ==
  /\ Goto(p, "register queue", "loop")
  /\ queues' = [queues EXCEPT ![prog[p]] = 1]
  /\ UNCHANGED <<prog, link, bound, sockets>>

(* NewSocket, one of Register's updates or NewReader fails: main returns,  *)
(* or panics, and Detach is deferred in both.                              *)
SetupFails(p) ==
  /\ \E at \in {"socket", "register", "register queue", "reader"} : Goto(p, at, "detach: look")
  /\ UNCHANGED <<prog, link, bound, maps>>

(* Poll returned an error, or rd.Read did and main panics: the deferred    *)
(* calls run.                                                              *)
LoopReturns(p) ==
  /\ Goto(p, "loop", IF p \in EventProc THEN "detach: look" ELSE "unregister")
  /\ UNCHANGED <<prog, link, bound, maps>>

(* Unregister: qidconf_map is an array, whose elements cannot be deleted;  *)
(* the error comes first and xsks_map is not touched.                      *)
Unregister(p) ==
  /\ Goto(p, "unregister", "detach: look")
  /\ UNCHANGED <<prog, link, bound, maps>>

Leave(p) == left' = IF attached = prog[p] THEN attached ELSE left

(* A netlink request of Detach fails; the deferred call drops the error.   *)
(* Up to the request to remove, the program is still there.                *)
DetachFails(p) ==
  /\ \E at \in {"detach: look", "detach: remove"} : Goto(p, at, "close")
  /\ Leave(p)
  /\ UNCHANGED <<prog, attached, author, bound, maps>>

DetachWaitFails(p) ==
  /\ Goto(p, "detach: wait", "close")
  /\ UNCHANGED <<prog, link, bound, maps>>

(* The kernel closes what a process leaves open; a socket that goes leaves *)
(* every xsks_map.  A program that is attached stays, with its maps.       *)
Exit(p) ==
  /\ prog' = [prog EXCEPT ![p] = None]
  /\ bound' = IF bound = p THEN None ELSE bound
  /\ sockets' = [g \in Prog |-> IF sockets[g] = p THEN None ELSE sockets[g]]
  /\ UNCHANGED <<attached, author>>
  /\ FreeMaps

(* Program.Close, and main returns. *)
CloseAndExit(p) == Goto(p, "close", "down") /\ Exit(p) /\ UNCHANGED left

(* A signal: no handler runs the deferred calls. *)
Killed(p) ==
  /\ pc[p] # "down"
  /\ pc' = [pc EXCEPT ![p] = "down"]
  /\ Leave(p)
  /\ Exit(p)

(* What a process does by itself once it is started. *)
Step(p) ==
  \/ Look(p, "attach: look", "attach: remove", "attach: set")
  \/ Remove(p, "attach: remove", "attach: wait")
  \/ Wait(p, "attach: wait", "attach: set")
  \/ Set(p)
  \/ NewSocket(p) \/ RegisterSocket(p) \/ RegisterQueue(p)
  \/ NewReader(p)
  \/ Unregister(p)
  \/ Look(p, "detach: look", "detach: remove", "close")
  \/ Remove(p, "detach: remove", "detach: wait")
  \/ Wait(p, "detach: wait", "close")
  \/ CloseAndExit(p)

Fault(p) ==
  \/ AttachFails(p) \/ SetupFails(p) \/ LoopReturns(p)
  \/ DetachFails(p) \/ DetachWaitFails(p)
  \/ Killed(p)

Next ==
  \E p \in Proc : Load(p) \/ Step(p) \/ Fault(p)

(* A process that can take its next step does. *)
Fairness == \A p \in Proc : WF_vars(Step(p))

Spec == Init /\ [][Next]_vars
FairSpec == Spec /\ Fairness
-----------------------------------------------------------------------------
Label ==
  {"down", "attach: look", "attach: remove", "attach: wait", "attach: set", "reader", "socket",
   "register", "register queue", "loop", "unregister",
   "detach: look", "detach: remove", "detach: wait", "close"}

(* The control points of main (dumpframes.go:55-82) and the maps. *)
TypeOK ==
  /\ pc \in [Proc -> Label]
  /\ prog \in [Proc -> Prog \cup {None}]
  /\ attached \in Prog \cup {None} /\ author \in Proc \cup {None}
  /\ left \in Prog \cup {None}
  /\ bound \in Proc \cup {None}
  /\ queues \in [Prog -> {0, 1}] /\ sockets \in [Prog -> Proc \cup {None}]

(* The process of the attached program is gone, and it was killed or its   *)
(* Detach failed.                                                          *)
Orphan == attached = left /\ prog[attached[1]] # attached

(* "A set entry here means that the correspnding queue_id has an active    *)
(* AF_XDP socket bound to it" (tcp_syn_kern.c:42-43): whenever a packet    *)
(* arrives and the attached program finds its qidconf entry set, the       *)
(* redirect has a socket to go to (tcp_syn_kern.c:103-104), unless the     *)
(* program's process is gone because it was killed or after its Detach     *)
(* failed; without a socket bpf_redirect_map returns XDP_ABORTED and the   *)
(* packet is lost.                                                         *)
QidconfMeansSocket ==
  attached # None /\ queues[attached] = 1 /\ ~Orphan =>
    sockets[attached] # None /\ sockets[attached] = bound

(* What is attached belongs to a process that runs and has yet to detach   *)
(* it, with two exceptions: the process was killed, or its Detach returned *)
(* an error before or at the request to remove (program.go:179-188), which *)
(* the deferred call drops (dumpframes.go:67).  No other failure leaves a  *)
(* program behind: not one of Attach, when no Detach is deferred yet       *)
(* (:62-66), not one of the wait of Detach (program.go:190-193), whatever  *)
(* other processes attach and remove between the netlink requests.         *)
AttachedHasOwner ==
  attached # None /\ attached # left =>
    prog[attached[1]] = attached /\ pc[attached[1]] \notin {"detach: wait", "close"}

(* A process in its loop (dumpframes.go:83, perf_event's dumpframes.go:70) *)
(* is served by its own program, and that redirects to its own socket,     *)
(* until another process changes what is attached: Attach and Detach of    *)
(* others are the only things that can take it away, crashes are not.      *)
LoopIsServed ==
  \A p \in Proc :
    pc[p] = "loop" /\ author = p =>
      /\ attached = prog[p]
      /\ p \notin EventProc => queues[attached] = 1 /\ sockets[attached] = p /\ bound = p

(* A process that starts gets to its loop or returns, even when a killed   *)
(* one left its program attached: the wait of removeProgram                *)
(* (program.go:189-198) ends, unless another process attaches meanwhile.   *)
StartEnds ==
  \A p \in Proc :
    pc[p] = "attach: look" ~>
      \/ pc[p] \in {"loop", "down"}
      \/ pc[p] \in {"attach: wait", "detach: wait"} /\ author # p
=============================================================================
