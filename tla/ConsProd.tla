------------------------------ MODULE ConsProd ------------------------------
(***************************************************************************)
(* The index arithmetic of consprod_t, the byte ring that a thread and an  *)
(* interrupt handler share (lib/driver/consprod.c), and of the two free    *)
(* space computations that lib/driver/uart.c makes over it.                *)
(*                                                                         *)
(* An address of the ring is its offset 0 .. N - 1 from buffer_start, so   *)
(* that buffer_end is N.  prod is always one slot ahead of the next byte   *)
(* to be stored, and a ring whose prod follows its cons is empty.          *)
(***************************************************************************)
EXTENDS Integers

CONSTANT N    \* buffer_end - buffer_start (4096 in sumeru/constant.h)

ASSUME NAssumption == N \in Nat /\ N > 2

Slots == 0 .. N - 1

(***************************************************************************)
(* A fault variant, for testing the properties: the index is not turned    *)
(* back at the end of the buffer.                                          *)
(***************************************************************************)
WrapNever(p) == p

(***************************************************************************)
(* "if (p == buffer_end) p = buffer_start".                                *)
(***************************************************************************)
Wrap(p) == IF p = N THEN 0 ELSE p

NextSlot(p) == Wrap(p + 1)

PrevSlot(p) == IF p = 0 THEN N - 1 ELSE p - 1

(***************************************************************************)
(* How many steps of NextSlot lead from slot a to slot b.                  *)
(***************************************************************************)
Dist(a, b) == IF a <= b THEN b - a ELSE b - a + N

(***************************************************************************)
(* A fault variant, for testing the properties: the slot before b counts   *)
(* as free or filled.                                                      *)
(***************************************************************************)
StraightFull(a, b) == IF a > b THEN N - a ELSE b - a

(***************************************************************************)
(* The slots from a that a transfer may use without wrapping and without   *)
(* reaching the slot before b.  The receiver asks from prod to cons, the   *)
(* transmitter from cons to prod.  It is -1 when a = b.                    *)
(***************************************************************************)
Straight(a, b) ==
  IF a > b THEN N - a - (IF b = 0 THEN 1 ELSE 0) ELSE b - a - 1

AtMost(n, m) == IF n <= m THEN n ELSE m
=============================================================================
