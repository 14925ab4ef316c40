--------------------------- MODULE MCMemoryMapper ---------------------------
(* MemoryMapper on small files: slots and handles are interchangeable.       *)
EXTENDS MapperRefinement, TLC

Symmetry == Permutations(Slots) \cup Permutations(Handles)

=============================================================================
