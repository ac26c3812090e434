------------------------------- MODULE MCScan -------------------------------
(* Scan for TLC: two devices, three rounds. *)
EXTENDS Scan
=============================================================================
