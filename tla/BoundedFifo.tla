---------------------------- MODULE BoundedFifo ----------------------------
(***************************************************************************)
(* What a ring promises its two ends: a FIFO queue of bounded capacity.    *)
(* The producer adds a batch that fits, the consumer takes a prefix; no    *)
(* value is lost, duplicated, reordered or replaced by another one.        *)
(***************************************************************************)
EXTENDS Naturals, Sequences

CONSTANTS Capacity, Value

VARIABLES
  fifo,   \* the values put and not yet taken, oldest first
  taken   \* the batch the consumer took last

vars == <<fifo, taken>>

Init == fifo = << >> /\ taken = << >>

(* Put is stated by its effect, so that any batch that fits is allowed. *)
Put ==
  /\ Len(fifo') > Len(fifo)
  /\ Len(fifo') <= Capacity
  /\ SubSeq(fifo', 1, Len(fifo)) = fifo
  /\ \A i \in 1 .. Len(fifo') : fifo'[i] \in Value
  /\ UNCHANGED taken

Take ==
  /\ Len(taken') <= Len(fifo)
  /\ fifo = taken' \o fifo'

Spec == Init /\ [][Put \/ Take]_vars
=============================================================================
