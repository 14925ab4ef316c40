---------------------------- MODULE MemoryBuffer ----------------------------
(***************************************************************************)
(* SslStreamChat/ChatMessages/MemoryBuffer: a ring of bytes with a head     *)
(* and a tail that may both rest one past the last index, used as the       *)
(* buffer between the chat's threads.                                       *)
(*                                                                          *)
(* Bytes are numbered in the order they are written, modulo ByteValues, so  *)
(* that what comes out tells where it came from.  A call is a loop of        *)
(* chunks; each round moves an index first and copies the bytes after.       *)
(* Every user in the repository calls Write, Read and Peek with a SpinLock   *)
(* held, the tests from a single thread: a call excludes the others.  Push,  *)
(* which only Write calls, is a part of Write here; as a call of its own,    *)
(* waiting for a reader that holds no lock, it is not modelled.              *)
(***************************************************************************)
EXTENDS Integers, Sequences

CONSTANTS
  Length,      \* the constructor's argument
  ByteValues,  \* numbers of bytes told apart
  Counts,      \* the byte counts callers ask for
  EmptyReads   \* Read and Peek are also called on an empty buffer

ASSUME BufferAssumption ==
  /\ Length \in Nat \ {0}
  /\ ByteValues \in Nat \ {0}
  /\ Counts \subseteq Nat
  /\ EmptyReads \in BOOLEAN

Size == Length + 1  \* _length

VARIABLES
  buffer,  \* _buffer
  head,    \* _head
  tail,    \* _tail
  next,    \* the number of the next byte to be written
  writer,  \* the Write in progress and its current chunk
  reader   \* the Read or Peek in progress, its current chunk and its output

vars == <<buffer, head, tail, next, writer, reader>>

Phases == {"idle", "loop", "copy"}

Smaller(a, b) == IF a < b THEN a ELSE b

(* The Length property, for the head or for Peek's copy of it. *)
Stored(h) ==
  IF tail > h THEN tail - h ELSE IF h > tail THEN (Size - h) + tail ELSE 0

(* ChunkLength once the tail has been wrapped to t. *)
ChunkLength(t) ==
  IF t > head THEN Size - t ELSE IF head > t THEN head - t - 1 ELSE Size - t

-----------------------------------------------------------------------------
Call(n) == [phase |-> "loop", left |-> n, start |-> 0, length |-> 0]

(* Write checks the room once, then it pushes; Push itself checks nothing.   *)
Write(n) ==
  /\ writer.phase = "idle" /\ reader.phase = "idle"
  /\ n + Stored(head) <= Size
  /\ writer' = Call(n)
  /\ UNCHANGED <<buffer, head, tail, next, reader>>

(* Mutant: the tail wraps as soon as it can. *)
PushAdvanceWrapping ==
  /\ writer.phase = "loop"
  /\ LET start  == IF tail = Size THEN 0 ELSE tail
         length == Smaller(ChunkLength(start), writer.left)
     IN  /\ tail' = start + length
         /\ writer' = [phase |-> "copy", left |-> writer.left - length,
                       start |-> start, length |-> length]
  /\ UNCHANGED <<buffer, head, next, reader>>

(* Mutant: the chunk is what is left to write, not the room there is. *)
PushAdvanceAllLeft ==
  /\ writer.phase = "loop"
  /\ LET start == IF tail = Size /\ head > 0 THEN 0 ELSE tail
     IN  /\ tail' = start + writer.left
         /\ writer' = [phase |-> "copy", left |-> 0,
                       start |-> start, length |-> writer.left]
  /\ UNCHANGED <<buffer, head, next, reader>>

(* One round of Push; with no room at all the chunk is empty, the thread     *)
(* sleeps and tries again (for good: Write admits one byte more than there   *)
(* may be room for).                                                         *)
PushAdvance ==
  /\ writer.phase = "loop"
  /\ LET start  == IF tail = Size /\ head > 0 THEN 0 ELSE tail
         length == Smaller(ChunkLength(start), writer.left)
     IN  /\ tail' = start + length
         /\ writer' = [phase |-> "copy", left |-> writer.left - length,
                       start |-> start, length |-> length]
  /\ UNCHANGED <<buffer, head, next, reader>>

PushCopy ==
  /\ writer.phase = "copy"
  /\ buffer' = [i \in 0..(Size - 1) |->
                  IF writer.start <= i /\ i < writer.start + writer.length
                  THEN (next + (i - writer.start)) % ByteValues ELSE buffer[i]]
  /\ next' = (next + writer.length) % ByteValues
  /\ writer' = [phase |-> IF writer.left > 0 THEN "loop" ELSE "idle",
                left |-> writer.left, start |-> 0, length |-> 0]
  /\ UNCHANGED <<head, tail, reader>>

-----------------------------------------------------------------------------
(* Read and Peek: the same loop over _head and over a copy of it.           *)
BeginRead(n, peek) ==
  /\ reader.phase = "idle" /\ writer.phase = "idle"
  /\ ~EmptyReads => Stored(head) > 0
  /\ reader' = [phase |-> "loop", left |-> n, start |-> 0, length |-> 0,
                peek |-> peek, at |-> head, got |-> <<>>]
  /\ UNCHANGED <<buffer, head, tail, next, writer>>

Front == IF reader.peek THEN reader.at ELSE head

ReadAdvance ==
  /\ reader.phase = "loop"
  /\ LET start  == IF Front = Size /\ tail > 0 THEN 0 ELSE Front
         chunk  == IF tail < start THEN Size - start ELSE tail - start
         length == Smaller(chunk, reader.left)
     IN  /\ head' = IF reader.peek THEN head ELSE start + length
         /\ reader' = [phase |-> "copy", left |-> reader.left - length,
                       start |-> start, length |-> length, peek |-> reader.peek,
                       at |-> start + length, got |-> reader.got]
  /\ UNCHANGED <<buffer, tail, next, writer>>

Chunk(start, length) == [i \in 1..length |-> buffer[start + i - 1]]

Copied(phase) ==
  [phase |-> phase, left |-> reader.left, start |-> 0, length |-> 0,
   peek |-> reader.peek, at |-> reader.at,
   got |-> reader.got \o Chunk(reader.start, reader.length)]

ReadCopy ==
  /\ reader.phase = "copy"
  /\ reader' = Copied(IF Stored(Front) > 0 /\ reader.left > 0
                      THEN "loop" ELSE "idle")
  /\ UNCHANGED <<buffer, head, tail, next, writer>>

-----------------------------------------------------------------------------
Init ==
  /\ buffer = [i \in 0..(Size - 1) |-> 0]
  /\ head = 0 /\ tail = 0 /\ next = 0
  /\ writer = [phase |-> "idle", left |-> 0, start |-> 0, length |-> 0]
  /\ reader = [phase |-> "idle", left |-> 0, start |-> 0, length |-> 0,
               peek |-> FALSE, at |-> 0, got |-> <<>>]

Next ==
  \/ \E n \in Counts : Write(n)
  \/ PushAdvance \/ PushCopy
  \/ \E n \in Counts, peek \in BOOLEAN : BeginRead(n, peek)
  \/ ReadAdvance \/ ReadCopy

Spec == Init /\ [][Next]_vars

-----------------------------------------------------------------------------
TypeOK ==
  /\ buffer \in [0..(Size - 1) -> 0..(ByteValues - 1)]
  /\ head \in 0..Size /\ tail \in 0..Size
  /\ next \in 0..(ByteValues - 1)
  /\ writer \in [phase : Phases, left : Nat, start : Nat, length : Nat]
  /\ reader \in [phase : Phases, left : Nat, start : Nat, length : Nat,
                 peek : BOOLEAN, at : 0..Size, got : Seq(0..(ByteValues - 1))]

(* No chunk reaches past the end of the array, so that Array.Copy never      *)
(* throws, wherever the indices have come to rest and wrapped.               *)
ChunksInBounds ==
  /\ writer.start + writer.length <= Size
  /\ reader.start + reader.length <= Size

(* Where the i-th byte from index h is. *)
Place(h, i) == IF h + i - 1 < Size THEN h + i - 1 ELSE h + i - 1 - Size

(* What is in the ring, oldest first: the chunk being read has left it only  *)
(* once it is copied, the chunk being written is in it only then.            *)
Ring(h) == [i \in 1..(Stored(h) - writer.length) |-> buffer[Place(h, i)]]

Contents ==
  (IF reader.peek THEN <<>> ELSE Chunk(reader.start, reader.length)) \o Ring(head)

(* What the Write in progress has still to copy, and how many bytes the      *)
(* Read or Peek in progress has still to get.                                *)
Given ==
  [i \in 1..(writer.left + writer.length) |-> (next + (i - 1)) % ByteValues]

Wanted == IF reader.phase = "idle" THEN 0 ELSE reader.left + reader.length

Queue == INSTANCE ByteQueue
  WITH Capacity <- Size, Bytes <- 0..(ByteValues - 1), contents <- Contents,
       given <- Given, wanted <- Wanted, peeking <- reader.peek,
       result <- reader.got

(* Whatever the sequence of writes, partial reads, peeks and wraps, the      *)
(* bytes a Write was given come out once, in their order, a Read or Peek     *)
(* gives as many as it was asked for or as there are, and Peek shows what    *)
(* the next Read will take ("Input not equal output", "Peek not equal        *)
(* Read").                                                                   *)
ImplementsByteQueue == Queue!Spec
=============================================================================
