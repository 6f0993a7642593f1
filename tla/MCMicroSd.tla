----------------------------- MODULE MCMicroSd -----------------------------
(***************************************************************************)
(* MicroSd on a card of two sectors, with calls for one sector and for     *)
(* two, that run past the end of the card and not.                         *)
(***************************************************************************)
EXTENDS MicroSd

CONSTANTS v1, v2

MCValues == {v1, v2}
=============================================================================
