-------------------------- MODULE MapperRefinement --------------------------
(* MemoryMapper implements MappedFile for callers that keep FileStoreManager's *)
(* discipline: one virtual stream at a time, no seeking, transfers within      *)
(* the requested length.                                                       *)
EXTENDS MemoryMapper

Range == [kind : Kinds, offset : Nat, length : Nat, cursor : Int]

ASSUME RefinementAssumption == None \notin Range

(* The cursor of a stream is where its container's position really points. *)
RangeOf(h) ==
  [kind   |-> virtual[h].kind,
   offset |-> virtual[h].offset,
   length |-> virtual[h].length,
   cursor |-> IF virtual[h].kind = "stream" THEN Cursor(h) ELSE 0]

Ranges ==
  [h \in Handles |-> IF disposed \/ virtual[h] = None THEN None ELSE RangeOf(h)]

File == INSTANCE MappedFile WITH ranges <- Ranges

(* Every call is a step of MappedFile: transfers start at the caller's own   *)
(* cursor, end within the caller's range and move nobody else's cursor,      *)
(* although containers are shared, remapped by Grow and cleaned up.          *)
ImplementsMappedFile == File!Spec
=============================================================================
