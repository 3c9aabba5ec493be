-------------------------- MODULE MCFrameAssembler --------------------------
(* FrameAssembler with four byte values, of which 1 is SOF and 3 is LRC1. *)
EXTENDS FrameAssembler
=============================================================================
