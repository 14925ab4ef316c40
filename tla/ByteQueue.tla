----------------------------- MODULE ByteQueue -----------------------------
(***************************************************************************)
(* A bounded queue of bytes: what MemoryBuffer is to its callers.  A call    *)
(* moves its bytes in several steps: those of a Put leave what it was given  *)
(* from the front, those of a Take leave the queue and those of a Peek stay  *)
(* there.  A Take or Peek ends with all it was asked for, or with all there  *)
(* is.                                                                      *)
(***************************************************************************)
EXTENDS Naturals, Sequences

CONSTANTS Capacity, Bytes

VARIABLES
  contents,  \* the bytes in the queue, oldest first
  given,     \* the bytes of the current Put that are not in the queue yet
  wanted,    \* how many bytes the current Take or Peek still asks for
  peeking,   \* it is a Peek
  result     \* the bytes it has got so far

vars == <<contents, given, wanted, peeking, result>>

Init ==
  /\ contents = <<>> /\ given = <<>> /\ result = <<>>
  /\ wanted = 0 /\ peeking = FALSE

BeginPut ==
  /\ given = <<>>
  /\ given' \in Seq(Bytes)
  /\ Len(contents) + Len(given') <= Capacity
  /\ UNCHANGED <<contents, wanted, peeking, result>>

Put ==
  /\ \E n \in 0..Len(given) :
       /\ contents' = contents \o SubSeq(given, 1, n)
       /\ given' = SubSeq(given, n + 1, Len(given))
  /\ UNCHANGED <<wanted, peeking, result>>

BeginTake ==
  /\ wanted = 0
  /\ wanted' \in Nat /\ peeking' \in BOOLEAN
  /\ result' = <<>>
  /\ UNCHANGED <<contents, given>>

(* n more bytes are there; the call goes on, or ends if there are no others. *)
Gets(n, others) ==
  /\ n <= wanted
  /\ wanted' = wanted - n \/ (~others /\ wanted' = 0)

Take ==
  /\ ~peeking
  /\ \E n \in 0..Len(contents) :
       /\ result' = result \o SubSeq(contents, 1, n)
       /\ contents' = SubSeq(contents, n + 1, Len(contents))
       /\ Gets(n, n < Len(contents))
  /\ UNCHANGED <<given, peeking>>

Peek ==
  /\ peeking
  /\ \E n \in 0..(Len(contents) - Len(result)) :
       /\ result' = SubSeq(contents, 1, Len(result) + n)
       /\ Gets(n, Len(result) + n < Len(contents))
  /\ UNCHANGED <<contents, given, peeking>>

Next == BeginPut \/ Put \/ BeginTake \/ Take \/ Peek

Spec == Init /\ [][Next]_vars
=============================================================================
