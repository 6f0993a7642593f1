---------------------------- MODULE MCInterrupts ----------------------------
(***************************************************************************)
(* Interrupts with two threads and one error number.                       *)
(***************************************************************************)
EXTENDS Interrupts

MCErrnos == {0, 2}

=============================================================================
