----------------------------- MODULE MCDevices -----------------------------
(***************************************************************************)
(* Devices with the constants of the sources and every configuration word. *)
(***************************************************************************)
EXTENDS Devices

=============================================================================
