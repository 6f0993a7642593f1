------------------------------ MODULE MCUartRx ------------------------------
(***************************************************************************)
(* UartRx on a ring of three cache lines of two bytes, which the line      *)
(* fills more than once with reads shorter and longer than a transfer.     *)
(***************************************************************************)
EXTENDS UartRx

=============================================================================
