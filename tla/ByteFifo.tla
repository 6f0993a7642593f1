------------------------------ MODULE ByteFifo ------------------------------
(***************************************************************************)
(* What one direction of a serial line promises to the two ends: bytes     *)
(* leave in the order in which they entered, each of them once, and at     *)
(* most Capacity of them are under way.                                    *)
(***************************************************************************)
EXTENDS Integers, Sequences

CONSTANT Capacity

VARIABLES in,    \* every byte that entered
          out    \* every byte that left

fifoVars == <<in, out>>

Prefix(s, t) == /\ Len(s) <= Len(t)
                /\ \A i \in 1 .. Len(s) : s[i] = t[i]

Init == in = <<>> /\ out = <<>>

Put == /\ Len(in') > Len(in)
       /\ Prefix(in, in')
       /\ Len(in') - Len(out) <= Capacity
       /\ out' = out

Get == /\ Len(out') = Len(out) + 1
       /\ Prefix(out', in)
       /\ Prefix(out, out')
       /\ in' = in

Next == Put \/ Get

Spec == Init /\ [][Next]_fifoVars
=============================================================================
