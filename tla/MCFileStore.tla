---------------------------- MODULE MCFileStore ----------------------------
(* FileStore with a one-byte and a two-byte document.                        *)
EXTENDS StoreRefinement, TLC

CONSTANTS small, large

MCSize == small :> 1 @@ large :> 2

Symmetry == Permutations(Ids)

=============================================================================
