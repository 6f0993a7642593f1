------------------------------ MODULE MCUartTx ------------------------------
(***************************************************************************)
(* UartTx on a ring of three cache lines of two bytes, which the writer    *)
(* goes round twice with calls shorter and longer than a transfer.         *)
(***************************************************************************)
EXTENDS UartTx

=============================================================================
