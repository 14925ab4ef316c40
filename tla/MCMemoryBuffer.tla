--------------------------- MODULE MCMemoryBuffer ---------------------------
(* MemoryBuffer with a ring of four bytes, for TLC.                          *)
EXTENDS MemoryBuffer
=============================================================================
