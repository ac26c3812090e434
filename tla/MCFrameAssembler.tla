--------------------------- MODULE MCFrameAssembler -------------------------
(* FrameAssembler for TLC: every stream of a few bytes, with the header and
   the checksum of src/payload.rs. *)
EXTENDS FrameAssembler, Payload
=============================================================================
