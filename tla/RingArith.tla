----------------------------- MODULE RingArith -----------------------------
(***************************************************************************)
(* The uint32 arithmetic of the four AF_XDP rings of xdp.go.  Producer and *)
(* Consumer are free-running counters that wrap at Modulus (2^32 in the    *)
(* code); a counter selects a slot by masking with the ring size minus 1.  *)
(***************************************************************************)
EXTENDS Integers, Sequences

CONSTANTS
  Size,     \* FillRingNumDescs, RxRingNumDescs, ... of SocketOptions
  Modulus   \* 2^32 in the code, small in a model so that counters wrap

(* setsockopt accepts only powers of two, so the mask selects the counter  *)
(* modulo Size, and Size divides 2^32.                                     *)
ASSUME SizeAssumption == Size \in Nat \ {0}
ASSUME ModulusAssumption ==
  /\ Modulus \in Nat
  /\ Modulus % Size = 0
  /\ Modulus >= 2 * Size

Counter == 0 .. Modulus - 1
SlotIndex == 0 .. Size - 1

(* Mutant: the counter is used without the mask. *)
SlotUnmasked(counter) == counter

(* cons & uint32(NumDescs - 1) *)
Slot(counter) == counter % Size

(* counter++ on a uint32 *)
Succ(counter) == (counter + 1) % Modulus

(* prod - cons on uint32 *)
Distance(prod, cons) == (prod - cons) % Modulus

(* Mutant: one slot too many. *)
NumFreeSlotsPlusOne(prod, cons) == (Size + 1 - Distance(prod, cons)) % Modulus

(* NumFreeFillSlots and NumFreeTxSlots: what the producer may still add. *)
NumFreeSlots(prod, cons) ==
  LET n == (Size - Distance(prod, cons)) % Modulus
  IN  IF n > Size THEN Size ELSE n

(* Mutant: one entry too many. *)
NumAvailablePlusOne(prod, cons) ==
  LET n == Distance(prod, cons) + 1
  IN  IF n > Size THEN Size ELSE n

(* NumReceived and NumCompleted: what the consumer may still take. *)
NumAvailable(prod, cons) ==
  LET n == Distance(prod, cons)
  IN  IF n > Size THEN Size ELSE n

(* descs[:n] when it is shorter than descs *)
Truncate(descs, n) == SubSeq(descs, 1, IF n < Len(descs) THEN n ELSE Len(descs))

(* The values a ring with these slots holds between two counters. *)
Window(slots, cons, prod) ==
  [i \in 1 .. Distance(prod, cons) |-> slots[Slot((cons + i - 1) % Modulus)]]
=============================================================================
