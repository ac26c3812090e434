----------------------------- MODULE MCConnection ---------------------------
(* Connection for TLC: two attempts to connect, three to write. *)
EXTENDS Connection
=============================================================================
