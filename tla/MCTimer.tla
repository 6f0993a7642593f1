------------------------------ MODULE MCTimer ------------------------------
(***************************************************************************)
(* Timer with two callbacks, one poller, and counts on both sides of the   *)
(* one tick that may interrupt a call.                                     *)
(***************************************************************************)
EXTENDS Timer

CONSTANTS c1, c2, uart_poll

MCCallbacks == {c1, c2}
MCPollers == {uart_poll}
MCTicks == 0 .. 3
=============================================================================
