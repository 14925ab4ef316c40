----------------------------- MODULE MappedFile -----------------------------
(***************************************************************************)
(* What MemoryMapper promises to a caller: a file that only grows, and     *)
(* open ranges of it that do not know of each other.  A stream moves its   *)
(* own cursor, a view addresses its range directly, and nothing a caller   *)
(* does through one range moves the cursor of another.                     *)
(***************************************************************************)
EXTENDS Integers

CONSTANTS Handles, None

VARIABLES
  filesize,  \* length of the file
  ranges,    \* handle -> the open range, with the cursor of its stream
  io         \* the bytes the last transfer touched

vars == <<filesize, ranges, io>>

NoIO == [op |-> "none", offset |-> 0, length |-> 0, low |-> 0, high |-> 0]

Kinds == {"stream", "view"}

Opened(kind, offset, length) ==
  [kind |-> kind, offset |-> offset, length |-> length, cursor |-> 0]

Init ==
  /\ filesize \in Nat
  /\ ranges = [h \in Handles |-> None]
  /\ io = NoIO

(* Opening a range may grow the file, at least to the end of it.     *)
OpenRange(h) ==
  /\ ranges[h] = None
  /\ filesize' >= filesize
  /\ ranges'[h] # None
  /\ ranges'[h] = Opened(ranges'[h].kind, ranges'[h].offset, ranges'[h].length)
  /\ ranges'[h].kind \in Kinds
  /\ ranges'[h].offset + ranges'[h].length <= filesize'
  /\ ranges' = [ranges EXCEPT ![h] = ranges'[h]]
  /\ io' = NoIO

(* A request that cannot be met leaves the ranges alone; the file may have   *)
(* grown all the same.                                                       *)
Refuse ==
  /\ filesize' >= filesize
  /\ io' = NoIO
  /\ UNCHANGED ranges

Transfer(h) ==
  LET r == ranges[h]
  IN  /\ r # None
      /\ io'.op \in {"streamread", "streamwrite", "viewread", "viewwrite"}
      /\ io' = [op |-> io'.op, offset |-> r.offset, length |-> r.length,
                low |-> io'.low, high |-> io'.high]
      /\ r.offset <= io'.low
      /\ io'.low <= io'.high
      /\ io'.high <= r.offset + r.length
      /\ \/ /\ r.kind = "view"
            /\ UNCHANGED ranges
         \/ /\ r.kind = "stream"
            /\ io'.low = r.offset + r.cursor
            /\ ranges' = [ranges EXCEPT ![h] =
                            [kind   |-> "stream",
                             offset |-> r.offset,
                             length |-> r.length,
                             cursor |-> r.cursor + io'.high - io'.low]]
      /\ UNCHANGED filesize

CloseRange(h) ==
  /\ ranges[h] # None
  /\ ranges' = [ranges EXCEPT ![h] = None]
  /\ io' = NoIO
  /\ UNCHANGED filesize

CloseFile ==
  /\ ranges' = [h \in Handles |-> None]
  /\ io' = NoIO
  /\ UNCHANGED filesize

Next ==
  \/ \E h \in Handles : OpenRange(h) \/ Transfer(h) \/ CloseRange(h)
  \/ Refuse
  \/ CloseFile

Spec == Init /\ [][Next]_vars
=============================================================================
