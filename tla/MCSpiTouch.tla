----------------------------- MODULE MCSpiTouch -----------------------------
(***************************************************************************)
(* SpiTouch has no bounds: its state space is finite.                      *)
(***************************************************************************)
EXTENDS SpiTouch

=============================================================================
