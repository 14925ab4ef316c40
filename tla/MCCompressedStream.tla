------------------------- MODULE MCCompressedStream -------------------------
(* CompressedStream with the sizes of the configurations. *)
EXTENDS CompressedStream
=============================================================================
