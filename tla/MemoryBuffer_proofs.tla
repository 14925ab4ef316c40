------------------------ MODULE MemoryBuffer_proofs ------------------------
(***************************************************************************)
(* The indices of MemoryBuffer stay in the ring and no chunk it copies      *)
(* leaves the array, for every length and every count, while its callers     *)
(* exclude each other.  With readers that find bytes the ring is a queue.    *)
(***************************************************************************)
EXTENDS MemoryBuffer, SequenceTheorems, TLAPS

(* What a chunk of either loop needs: counts are natural, copies in bounds.  *)
IInv == TypeOK /\ ChunksInBounds

(* Arithmetic modulo ByteValues stays among the numbers of bytes.            *)
LEMMA Modulo ==
  ASSUME NEW a \in Int
  PROVE  a % ByteValues \in 0..(ByteValues - 1)
  BY BufferAssumption

(* The empty buffer.                                                         *)
LEMMA InitIInv == Init => IInv
  <1> SUFFICES ASSUME Init PROVE IInv
    OBVIOUS
  <1>1. 0 \in 0..(ByteValues - 1) /\ Size \in Nat /\ Size > 0
    BY BufferAssumption DEF Size
  <1>2. <<>> \in Seq(0..(ByteValues - 1))
    OBVIOUS
  <1> QED BY <1>1, <1>2 DEF Init, IInv, TypeOK, ChunksInBounds, Phases

(* A round of Push starts inside the array and ends at its end at most.      *)
LEMMA PushChunk ==
  ASSUME IInv, NEW start \in 0..Size,
         NEW left \in Nat
  PROVE  LET length == Smaller(ChunkLength(start), left)
         IN  /\ length \in Nat /\ length <= left
             /\ start + length <= Size
  <1>1. Size \in Nat /\ head \in 0..Size
    BY BufferAssumption DEF Size, IInv, TypeOK
  <1>2. ChunkLength(start) \in Nat /\ start + ChunkLength(start) <= Size
    BY <1>1 DEF ChunkLength
  <1> QED BY <1>1, <1>2 DEF Smaller

(* The rounds of Push.                                                       *)
LEMMA PushAdvanceKeeps ==
  ASSUME IInv, PushAdvance
  PROVE  IInv'
  <1> DEFINE start  == IF tail = Size /\ head > 0 THEN 0 ELSE tail
             length == Smaller(ChunkLength(start), writer.left)
  <1>1. Size \in Nat /\ start \in 0..Size /\ writer.left \in Nat
    BY BufferAssumption DEF Size, IInv, TypeOK
  <1>2. length \in Nat /\ length <= writer.left /\ start + length <= Size
    BY <1>1, PushChunk
  <1>3. /\ tail' = start + length
        /\ writer' = [phase |-> "copy", left |-> writer.left - length,
                      start |-> start, length |-> length]
        /\ UNCHANGED <<buffer, head, next, reader>>
    BY DEF PushAdvance
  <1> HIDE DEF start, length
  <1>4. start \in Nat /\ writer.left - length \in Nat /\ tail' \in 0..Size
    BY <1>1, <1>2, <1>3
  <1> QED BY <1>1, <1>2, <1>3, <1>4 DEF IInv, TypeOK, ChunksInBounds, Phases

(* The copy of a chunk into the ring.                                        *)
LEMMA PushCopyKeeps ==
  ASSUME IInv, PushCopy
  PROVE  IInv'
  <1>1. next' \in 0..(ByteValues - 1)
    BY Modulo, SMTT(30) DEF PushCopy, IInv, TypeOK
  <1>2. ASSUME NEW i \in 0..(Size - 1)
        PROVE  (next + (i - writer.start)) % ByteValues \in 0..(ByteValues - 1)
    <2>1. next + (i - writer.start) \in Int
      BY BufferAssumption, SMTT(30) DEF IInv, TypeOK, Size
    <2> QED BY <2>1, Modulo
  <1>3. buffer' \in [0..(Size - 1) -> 0..(ByteValues - 1)]
    BY <1>2 DEF PushCopy, IInv, TypeOK
  <1>4. writer' \in [phase : Phases, left : Nat, start : Nat, length : Nat]
    BY DEF PushCopy, IInv, TypeOK, Phases
  <1>5. writer'.start = 0 /\ writer'.length = 0
    BY DEF PushCopy
  <1>6. UNCHANGED <<head, tail, reader>>
    BY DEF PushCopy
  <1>7. Size \in Nat
    BY BufferAssumption DEF Size
  <1> QED BY <1>1, <1>3, <1>4, <1>5, <1>6, <1>7 DEF IInv, TypeOK, ChunksInBounds

(* The rounds of Read and Peek.                                              *)
LEMMA ReadAdvanceKeeps ==
  ASSUME IInv, ReadAdvance
  PROVE  IInv'
  <1> DEFINE start  == IF Front = Size /\ tail > 0 THEN 0 ELSE Front
             chunk  == IF tail < start THEN Size - start ELSE tail - start
             length == Smaller(chunk, reader.left)
  <1>1. Size \in Nat /\ start \in 0..Size /\ tail \in 0..Size /\ reader.left \in Nat
    BY BufferAssumption DEF Size, IInv, TypeOK, Front
  <1>2. length \in Nat /\ length <= reader.left /\ start + length <= Size
    BY <1>1 DEF Smaller
  <1>3. /\ head' = IF reader.peek THEN head ELSE start + length
        /\ reader' = [phase |-> "copy", left |-> reader.left - length,
                      start |-> start, length |-> length, peek |-> reader.peek,
                      at |-> start + length, got |-> reader.got]
        /\ UNCHANGED <<buffer, tail, next, writer>>
    BY DEF ReadAdvance
  <1> HIDE DEF start, chunk, length
  <1>4. /\ start \in Nat /\ reader.left - length \in Nat
        /\ start + length \in 0..Size
    BY <1>1, <1>2
  <1>5. head' \in 0..Size
    BY <1>3, <1>4 DEF IInv, TypeOK
  <1> QED BY <1>2, <1>3, <1>4, <1>5 DEF IInv, TypeOK, ChunksInBounds, Phases

(* The copy of a chunk out of the ring.                                      *)
LEMMA ReadCopyKeeps ==
  ASSUME IInv, ReadCopy
  PROVE  IInv'
  <1>1. Size \in Nat
    BY BufferAssumption DEF Size
  <1>2. Chunk(reader.start, reader.length) \in Seq(0..(ByteValues - 1))
    <2> DEFINE s == reader.start
               n == reader.length
    <2>1. s \in Nat /\ n \in Nat /\ s + n <= Size
      BY DEF IInv, TypeOK, ChunksInBounds
    <2>2. ASSUME NEW i \in 1..n PROVE s + i - 1 \in 0..(Size - 1)
      BY <2>1, <1>1
    <2>3. ASSUME NEW i \in 1..n PROVE buffer[s + i - 1] \in 0..(ByteValues - 1)
      BY <2>2 DEF IInv, TypeOK
    <2>4. [i \in 1..n |-> buffer[s + i - 1]] \in [1..n -> 0..(ByteValues - 1)]
      BY <2>3
    <2>5. [i \in 1..n |-> buffer[s + i - 1]] \in Seq(0..(ByteValues - 1))
      BY <2>1, <2>4, SeqDef, ZenonT(60)
    <2> QED BY <2>5 DEF Chunk
  <1>3. reader.got \o Chunk(reader.start, reader.length) \in Seq(0..(ByteValues - 1))
    BY <1>2 DEF IInv, TypeOK
  <1>4. PICK phase \in Phases : reader' = Copied(phase)
    BY DEF ReadCopy, Phases
  <1>5. UNCHANGED <<buffer, head, tail, next, writer>>
    BY DEF ReadCopy
  <1> QED BY <1>1, <1>3, <1>4, <1>5 DEF Copied, IInv, TypeOK, ChunksInBounds, Phases

(* Every step preserves the invariant: a case per action.                    *)
LEMMA NextIInv == IInv /\ [Next]_vars => IInv'
  <1> SUFFICES ASSUME IInv, [Next]_vars PROVE IInv'
    OBVIOUS
  <1>1. ASSUME NEW n \in Counts, Write(n) PROVE IInv'
    <2>1. n \in Nat
      BY BufferAssumption
    <2>2. writer' = Call(n) /\ UNCHANGED <<buffer, head, tail, next, reader>>
      BY <1>1 DEF Write
    <2>3. Size \in Nat
      BY BufferAssumption DEF Size
    <2> QED BY <2>1, <2>2, <2>3 DEF Call, IInv, TypeOK, ChunksInBounds, Phases
  <1>2. ASSUME NEW n \in Counts, NEW peek \in BOOLEAN, BeginRead(n, peek) PROVE IInv'
    <2>1. n \in Nat /\ Size \in Nat
      BY BufferAssumption DEF Size
    <2>2. reader' = [phase |-> "loop", left |-> n, start |-> 0, length |-> 0,
                     peek |-> peek, at |-> head, got |-> <<>>]
      BY <1>2 DEF BeginRead
    <2>3. UNCHANGED <<buffer, head, tail, next, writer>>
      BY <1>2 DEF BeginRead
    <2>4. <<>> \in Seq(0..(ByteValues - 1))
      OBVIOUS
    <2>5. reader' \in [phase : Phases, left : Nat, start : Nat, length : Nat,
                       peek : BOOLEAN, at : 0..Size, got : Seq(0..(ByteValues - 1))]
      BY <2>1, <2>2, <2>4 DEF IInv, TypeOK, Phases
    <2>6. reader'.start + reader'.length <= Size
      BY <2>1, <2>2
    <2> QED BY <2>1, <2>3, <2>5, <2>6 DEF IInv, TypeOK, ChunksInBounds
  <1>3. CASE UNCHANGED vars
    BY <1>3 DEF vars, IInv, TypeOK, ChunksInBounds
  <1> QED
    BY <1>1, <1>2, <1>3, PushAdvanceKeeps, PushCopyKeeps, ReadAdvanceKeeps,
       ReadCopyKeeps DEF Next

(* The inductive invariant holds throughout.                                 *)
LEMMA Invariance == Spec => []IInv
  BY InitIInv, NextIInv, PTL DEF Spec

(* The types of the buffer's fields: head and tail rest in 0.._length.       *)
THEOREM TypeCorrect == Spec => []TypeOK
  BY Invariance, PTL DEF IInv

(* Push, Read and Peek, called under one lock, never hand Array.Copy a chunk *)
(* past the array's end, on an empty buffer neither.                         *)
THEOREM CopiesInBounds == Spec => []ChunksInBounds
  BY Invariance, PTL DEF IInv

-----------------------------------------------------------------------------
(* The ring implements the queue.  The facts about its bytes are stated of   *)
(* the values of the variables, b for the array and h and t for its ends, so *)
(* that they speak of a state and of its successor alike.                    *)

Numbers == 0..(ByteValues - 1)
Arrays == [0..(Size - 1) -> Numbers]

Held(h, t) == IF t > h THEN t - h ELSE IF h > t THEN (Size - h) + t ELSE 0

RingOf(b, h, n) == [i \in 1..n |-> b[Place(h, i)]]
NumberedFrom(k, n) == [i \in 1..n |-> (k + (i - 1)) % ByteValues]
ChunkOf(b, s, n) == [i \in 1..n |-> b[s + i - 1]]

(* After m bytes from h there are n in one piece, from s on.                 *)
Lies(h, m, s, n) == \A i \in 1..n : Place(h, m + i) = s + i - 1

(* The m bytes from k are those after the n from h.                          *)
Continues(h, n, k, m) == \A i \in 1..m : Place(k, i) = Place(h, n + i)

(* None of the m bytes from h is among the n from s on.                      *)
Apart(h, m, s, n) == \A i \in 1..m : Place(h, i) < s \/ s + n <= Place(h, i)

(* Two arrays have the same m bytes from h on.                               *)
Agree(b, d, h, m) == \A i \in 1..m : d[Place(h, i)] = b[Place(h, i)]

(* A sequence is the bytes from h on.                                        *)
Shows(got, b, h) == \A i \in 1..Len(got) : got[i] = b[Place(h, i)]

(* Where a round of Read or Peek starts and what it takes, where one of Push *)
(* starts and what it fills.                                                 *)
TakeStart(h, t) == IF h = Size /\ t > 0 THEN 0 ELSE h
TakeCount(h, t, left) ==
  LET s == TakeStart(h, t)
  IN  Smaller(IF t < s THEN Size - s ELSE t - s, left)

PutStart(h, t) == IF t = Size /\ h > 0 THEN 0 ELSE t
PutCount(h, t, left) ==
  LET s == PutStart(h, t)
  IN  Smaller(IF s > h THEN Size - s ELSE IF h > s THEN h - s - 1 ELSE Size - s, left)

(* A function on 1..n is a sequence of length n.                             *)
LEMMA FunctionIsSeq ==
  ASSUME NEW S, NEW n \in Nat, NEW f \in [1..n -> S]
  PROVE  f \in Seq(S) /\ Len(f) = n
  <1>1. f \in Seq(S)
    BY SeqDef, ZenonT(60)
  <1>2. DOMAIN f = 1..Len(f) /\ Len(f) \in Nat
    BY <1>1, LenProperties
  <1>3. 1..n = 1..Len(f)
    BY <1>2
  <1> QED BY <1>1, <1>2, <1>3

(* A remainder may be taken before an addition as well.                     *)
LEMMA ModuloAdds ==
  ASSUME NEW a \in Nat, NEW b \in Nat, NEW m \in Nat, m > 0
  PROVE  ((a % m) + b) % m = (a + b) % m
  <1> DEFINE r == a % m
             q == a \div m
             s == (r + b) % m
             p == (r + b) \div m
  <1>1. a = m * q + r /\ r \in 0..(m - 1) /\ q \in Int
    OBVIOUS
  <1>2. r + b = m * p + s /\ s \in 0..(m - 1) /\ p \in Int
    BY <1>1
  <1> HIDE DEF r, q, s, p
  <1>3. a + b = m * (q + p) + s /\ q + p \in Int
    BY <1>1, <1>2
  <1>4. \A u \in Int : \A v \in 0..(m - 1) : (m * u + v) % m = v
    OBVIOUS
  <1>5. (m * (q + p) + s) % m = s
    BY <1>2, <1>3, <1>4
  <1>6. (a + b) % m = s
    BY <1>3, <1>5
  <1> QED BY <1>6 DEF s, r

(* There are at most Size bytes in the ring.                                 *)
LEMMA HeldBound ==
  ASSUME NEW h \in 0..Size, NEW t \in 0..Size
  PROVE  Size \in Nat \ {0} /\ Held(h, t) \in 0..Size
  <1>1. Size \in Nat \ {0}
    BY BufferAssumption DEF Size
  <1> QED BY <1>1 DEF Held

(* The places of the ring are in the array.                                  *)
LEMMA PlaceInside ==
  ASSUME NEW h \in 0..Size, NEW i \in 1..Size
  PROVE  Place(h, i) \in 0..(Size - 1)
  <1>1. Size \in Nat \ {0}
    BY BufferAssumption DEF Size
  <1> QED BY <1>1 DEF Place

(* What a round of Read or Peek takes is at the front of the ring, in one    *)
(* piece, and what is left is what was behind it.                            *)
LEMMA TakeArithmetic ==
  ASSUME NEW h \in 0..Size, NEW t \in 0..Size, Held(h, t) > 0, NEW left \in Nat
  PROVE  LET s == TakeStart(h, t)
             n == TakeCount(h, t, left)
         IN  /\ s \in Nat /\ n \in Nat /\ s + n \in 0..Size
             /\ Held(h, t) = n + Held(s + n, t)
             /\ Lies(h, 0, s, n)
             /\ Continues(h, n, s + n, Held(s + n, t))
  <1> SUFFICES ASSUME NEW s, s = TakeStart(h, t), NEW n, n = TakeCount(h, t, left)
               PROVE  /\ s \in Nat /\ n \in Nat /\ s + n \in 0..Size
                      /\ Held(h, t) = n + Held(s + n, t)
                      /\ Lies(h, 0, s, n)
                      /\ Continues(h, n, s + n, Held(s + n, t))
    OBVIOUS
  <1>0. PICK c : c = IF t < s THEN Size - s ELSE t - s
    OBVIOUS
  <1>1. Size \in Nat \ {0} /\ n = Smaller(c, left)
    BY <1>0, BufferAssumption DEF Size, TakeCount
  <1>2. s \in 0..(Size - 1) /\ (h = Size => s = 0 /\ t < Size) /\ (h < Size => s = h)
    BY <1>1 DEF Held, TakeStart
  <1>3. c \in Nat /\ s + c <= Size /\ n \in Nat /\ n <= c /\ n <= left
    BY <1>0, <1>1, <1>2 DEF Smaller
  <1>4. s + n \in 0..Size
    BY <1>1, <1>2, <1>3
  <1>5. Held(h, t) = n + Held(s + n, t)
    <2>1. CASE h = Size
      BY <1>0, <1>1, <1>2, <1>3, <1>4, <2>1 DEF Held
    <2>2. CASE h < Size
      BY <1>0, <1>1, <1>2, <1>3, <1>4, <2>2 DEF Held
    <2> QED BY <1>1, <2>1, <2>2
  <1>6. Lies(h, 0, s, n)
    BY <1>1, <1>2, <1>3 DEF Place, Lies
  <1>7. ASSUME NEW i \in 1..Held(s + n, t)
        PROVE  Place(s + n, i) = Place(h, n + i)
    <2>1. Held(s + n, t) \in 0..Size
      BY <1>4, HeldBound
    <2>2. i \in Nat /\ i >= 1 /\ i <= Held(s + n, t)
      BY <2>1
    <2>3. CASE h = Size
      <3>1. s = 0 /\ t < Size /\ c = t /\ n <= t
        BY <1>0, <1>1, <1>2, <1>3, <2>3
      <3>2. n + i - 1 < Size
        BY <1>1, <1>3, <2>2, <3>1 DEF Held
      <3> QED BY <1>1, <1>3, <2>2, <2>3, <3>1, <3>2 DEF Place
    <2>4. CASE h < Size
      BY <1>1, <1>2, <1>3, <2>2, <2>4 DEF Place
    <2> QED BY <1>1, <2>3, <2>4
  <1> QED BY <1>2, <1>3, <1>4, <1>5, <1>6, <1>7 DEF Continues

(* What a round of Push fills is behind the bytes in the ring, in one piece  *)
(* that none of them is in.                                                  *)
LEMMA PutArithmetic ==
  ASSUME NEW h \in 0..Size, NEW t \in 0..Size, NEW left \in Nat
  PROVE  LET s == PutStart(h, t)
             n == PutCount(h, t, left)
         IN  /\ s \in Nat /\ n \in Nat /\ s + n \in 0..Size
             /\ Held(h, s + n) = Held(h, t) + n
             /\ Lies(h, Held(h, t), s, n)
             /\ Apart(h, Held(h, t), s, n)
  <1> SUFFICES ASSUME NEW s, s = PutStart(h, t), NEW n, n = PutCount(h, t, left)
               PROVE  /\ s \in Nat /\ n \in Nat /\ s + n \in 0..Size
                      /\ Held(h, s + n) = Held(h, t) + n
                      /\ Lies(h, Held(h, t), s, n)
                      /\ Apart(h, Held(h, t), s, n)
    OBVIOUS
  <1>0. PICK c : c = IF s > h THEN Size - s ELSE IF h > s THEN h - s - 1 ELSE Size - s
    OBVIOUS
  <1>1. Size \in Nat \ {0} /\ n = Smaller(c, left)
    BY <1>0, BufferAssumption DEF Size, PutCount
  <1>2. s \in 0..Size /\ (s = t \/ (s = 0 /\ t = Size /\ h > 0))
    BY <1>1 DEF PutStart
  <1>3. c \in Nat /\ s + c <= Size /\ n \in Nat /\ n <= c /\ n <= left
    BY <1>0, <1>1, <1>2 DEF Smaller
  <1>4. s + n \in 0..Size
    BY <1>1, <1>2, <1>3
  <1>5. Held(h, t) \in 0..Size
    BY HeldBound
  <1>6. CASE s = 0 /\ t = Size /\ h > 0
    <2>1. c = h - 1 /\ n <= h - 1
      BY <1>0, <1>1, <1>3, <1>6
    <2>2. Held(h, t) = Size - h
      BY <1>1, <1>6 DEF Held
    <2>3. Held(h, s + n) = Held(h, t) + n
      BY <1>1, <1>3, <1>6, <2>1, <2>2 DEF Held
    <2>4. Lies(h, Held(h, t), s, n)
      BY <1>1, <1>3, <1>6, <2>1, <2>2 DEF Place, Lies
    <2>5. Apart(h, Held(h, t), s, n)
      BY <1>1, <1>3, <1>6, <2>1, <2>2 DEF Place, Apart
    <2> QED BY <1>2, <1>3, <1>4, <2>3, <2>4, <2>5
  <1>7. CASE s = t /\ t >= h
    <2>1. c = Size - t /\ n <= Size - t /\ Held(h, t) = t - h
      BY <1>0, <1>1, <1>3, <1>7 DEF Held
    <2>2. Held(h, s + n) = Held(h, t) + n
      BY <1>1, <1>3, <1>7, <2>1 DEF Held
    <2>3. Lies(h, Held(h, t), s, n)
      BY <1>1, <1>3, <1>7, <2>1 DEF Place, Lies
    <2>4. Apart(h, Held(h, t), s, n)
      BY <1>1, <1>3, <1>7, <2>1 DEF Place, Apart
    <2> QED BY <1>2, <1>3, <1>4, <2>2, <2>3, <2>4
  <1>8. CASE s = t /\ t < h
    <2>1. c = h - t - 1 /\ n <= h - t - 1 /\ Held(h, t) = (Size - h) + t
      BY <1>0, <1>1, <1>3, <1>8 DEF Held
    <2>2. Held(h, s + n) = Held(h, t) + n
      BY <1>1, <1>3, <1>8, <2>1 DEF Held
    <2>3. Lies(h, Held(h, t), s, n)
      BY <1>1, <1>3, <1>8, <2>1 DEF Place, Lies
    <2>4. Apart(h, Held(h, t), s, n)
      BY <1>1, <1>3, <1>8, <2>1 DEF Place, Apart
    <2> QED BY <1>2, <1>3, <1>4, <2>2, <2>3, <2>4
  <1> QED BY <1>2, <1>6, <1>7, <1>8

(* The bytes of the ring are a sequence.                                     *)
LEMMA RingIsSeq ==
  ASSUME NEW b \in Arrays, NEW h \in 0..Size, NEW n \in 0..Size
  PROVE  /\ RingOf(b, h, n) \in Seq(Numbers) /\ Len(RingOf(b, h, n)) = n
         /\ \A i \in 1..n : RingOf(b, h, n)[i] = b[Place(h, i)]
  <1>1. Size \in Nat \ {0}
    BY BufferAssumption DEF Size
  <1>2. ASSUME NEW i \in 1..n PROVE b[Place(h, i)] \in Numbers
    <2>1. i \in 1..Size
      BY <1>1
    <2>2. Place(h, i) \in 0..(Size - 1)
      BY <2>1, PlaceInside
    <2> QED BY <2>2 DEF Arrays
  <1>3. RingOf(b, h, n) \in [1..n -> Numbers]
    BY <1>2 DEF RingOf
  <1>4. RingOf(b, h, n) \in Seq(Numbers) /\ Len(RingOf(b, h, n)) = n
    BY <1>1, <1>3, FunctionIsSeq
  <1> QED BY <1>4 DEF RingOf

(* So are the bytes of a chunk.                                              *)
LEMMA ChunkIsSeq ==
  ASSUME NEW b \in Arrays, NEW s \in Nat, NEW n \in Nat, s + n <= Size
  PROVE  /\ ChunkOf(b, s, n) \in Seq(Numbers) /\ Len(ChunkOf(b, s, n)) = n
         /\ \A i \in 1..n : ChunkOf(b, s, n)[i] = b[s + i - 1]
  <1>1. Size \in Nat \ {0}
    BY BufferAssumption DEF Size
  <1>2. ASSUME NEW i \in 1..n PROVE b[s + i - 1] \in Numbers
    <2>1. s + i - 1 \in 0..(Size - 1)
      BY <1>1
    <2> QED BY <2>1 DEF Arrays
  <1>3. ChunkOf(b, s, n) \in [1..n -> Numbers]
    BY <1>2 DEF ChunkOf
  <1>4. ChunkOf(b, s, n) \in Seq(Numbers) /\ Len(ChunkOf(b, s, n)) = n
    BY <1>3, FunctionIsSeq
  <1> QED BY <1>4 DEF ChunkOf

(* A chunk at the front of the ring and the rest of the ring are the ring.   *)
LEMMA RingSplits ==
  ASSUME NEW b \in Arrays, NEW h \in 0..Size, NEW k \in 0..Size,
         NEW s \in Nat, NEW n \in Nat, NEW m \in Nat,
         s + n <= Size, n + m <= Size,
         Lies(h, 0, s, n), Continues(h, n, k, m)
  PROVE  RingOf(b, h, n + m) = ChunkOf(b, s, n) \o RingOf(b, k, m)
  <1> DEFINE c == ChunkOf(b, s, n)
             r == RingOf(b, k, m)
             all == RingOf(b, h, n + m)
  <1>1. Size \in Nat \ {0} /\ m \in 0..Size /\ n + m \in 0..Size
    BY BufferAssumption DEF Size
  <1>2. /\ c \in Seq(Numbers) /\ Len(c) = n
        /\ \A i \in 1..n : c[i] = b[s + i - 1]
    BY ChunkIsSeq
  <1>3. /\ r \in Seq(Numbers) /\ Len(r) = m
        /\ \A i \in 1..m : r[i] = b[Place(k, i)]
    BY <1>1, RingIsSeq
  <1>4. /\ all \in Seq(Numbers) /\ Len(all) = n + m
        /\ \A i \in 1..(n + m) : all[i] = b[Place(h, i)]
    BY <1>1, RingIsSeq
  <1> HIDE DEF c, r, all
  <1>5. /\ c \o r \in Seq(Numbers) /\ Len(c \o r) = n + m
        /\ \A i \in 1..(n + m) : (c \o r)[i] = IF i <= n THEN c[i] ELSE r[i - n]
    BY <1>2, <1>3, ConcatProperties
  <1>6. ASSUME NEW i \in 1..(n + m) PROVE all[i] = (c \o r)[i]
    <2>1. CASE i <= n
      <3>1. i \in 1..n /\ 0 + i = i
        BY <2>1
      <3>2. Place(h, i) = s + i - 1
        BY <3>1 DEF Lies
      <3> QED BY <1>2, <1>4, <1>5, <2>1, <3>1, <3>2
    <2>2. CASE i > n
      <3>1. i - n \in 1..m /\ n + (i - n) = i /\ ~(i <= n)
        BY <2>2
      <3>2. Place(k, i - n) = Place(h, i)
        BY <3>1 DEF Continues
      <3>3. (c \o r)[i] = r[i - n]
        BY <1>5, <3>1
      <3>4. r[i - n] = b[Place(k, i - n)] /\ all[i] = b[Place(h, i)]
        BY <1>3, <1>4, <3>1
      <3> QED BY <3>2, <3>3, <3>4
    <2>3. i <= n \/ i > n
      BY <1>1
    <2> QED BY <2>1, <2>2, <2>3, Zenon
  <1>7. all = c \o r
    BY <1>4, <1>5, <1>6, SeqEqual
  <1> QED BY <1>7 DEF c, r, all

(* What is taken from the front of a sequence, and what is left.             *)
LEMMA TakeFront ==
  ASSUME NEW S, NEW c \in Seq(S), NEW r \in Seq(S)
  PROVE  /\ Len(c) \in 0..Len(c \o r)
         /\ SubSeq(c \o r, 1, Len(c)) = c
         /\ SubSeq(c \o r, Len(c) + 1, Len(c \o r)) = r
  <1>1. /\ c \o r \in Seq(S) /\ Len(c \o r) = Len(c) + Len(r)
        /\ \A i \in 1..(Len(c) + Len(r)) :
             (c \o r)[i] = IF i <= Len(c) THEN c[i] ELSE r[i - Len(c)]
    BY ConcatProperties
  <1>2. Len(c) \in Nat /\ Len(r) \in Nat
    BY LenProperties
  <1>3. \A i \in 1..(Len(c) + Len(r)) : (c \o r)[i] \in S
    BY <1>1, ElementOfSeq
  <1>4. SubSeq(c \o r, 1, Len(c)) = c
    <2>1. \A i \in 1..Len(c) : (c \o r)[i] \in S
      BY <1>2, <1>3
    <2>2. /\ SubSeq(c \o r, 1, Len(c)) \in Seq(S)
          /\ Len(SubSeq(c \o r, 1, Len(c))) = IF 1 <= Len(c) THEN Len(c) - 1 + 1 ELSE 0
          /\ \A i \in 1..(Len(c) - 1 + 1) : SubSeq(c \o r, 1, Len(c))[i] = (c \o r)[1 + i - 1]
      BY <1>2, <2>1, SubSeqProperties
    <2>3. Len(SubSeq(c \o r, 1, Len(c))) = Len(c)
      BY <1>2, <2>2
    <2>4. ASSUME NEW i \in 1..Len(c) PROVE SubSeq(c \o r, 1, Len(c))[i] = c[i]
      <3>1. 1 + i - 1 = i /\ i <= Len(c) /\ i \in 1..(Len(c) - 1 + 1)
            /\ i \in 1..(Len(c) + Len(r))
        BY <1>2
      <3> QED BY <1>1, <2>2, <3>1
    <2> QED BY <2>2, <2>3, <2>4, SeqEqual
  <1>5. SubSeq(c \o r, Len(c) + 1, Len(c \o r)) = r
    <2> DEFINE rest == SubSeq(c \o r, Len(c) + 1, Len(c) + Len(r))
    <2>1. \A i \in (Len(c) + 1)..(Len(c) + Len(r)) : (c \o r)[i] \in S
      BY <1>2, <1>3
    <2>2. /\ rest \in Seq(S)
          /\ Len(rest) = IF Len(c) + 1 <= Len(c) + Len(r)
                         THEN Len(c) + Len(r) - (Len(c) + 1) + 1 ELSE 0
          /\ \A i \in 1..(Len(c) + Len(r) - (Len(c) + 1) + 1) :
               rest[i] = (c \o r)[Len(c) + 1 + i - 1]
      <3>1. Len(c) + 1 \in Int /\ Len(c) + Len(r) \in Int
        BY <1>2
      <3> QED BY <2>1, <3>1, SubSeqProperties
    <2> HIDE DEF rest
    <2>3. Len(rest) = Len(r)
      BY <1>2, <2>2
    <2>4. ASSUME NEW i \in 1..Len(r) PROVE rest[i] = r[i]
      <3>1. /\ Len(c) + 1 + i - 1 = Len(c) + i /\ ~(Len(c) + i <= Len(c))
            /\ Len(c) + i - Len(c) = i
            /\ i \in 1..(Len(c) + Len(r) - (Len(c) + 1) + 1)
            /\ Len(c) + i \in 1..(Len(c) + Len(r))
        BY <1>2
      <3> QED BY <1>1, <2>2, <3>1
    <2>5. rest = r
      BY <2>2, <2>3, <2>4, SeqEqual
    <2> QED BY <1>1, <2>5 DEF rest
  <1> QED BY <1>1, <1>2, <1>4, <1>5

(* The bytes of a chunk that is copied behind those of the ring.             *)
LEMMA RingGrows ==
  ASSUME NEW b \in Arrays, NEW d \in Arrays, NEW h \in 0..Size,
         NEW s \in Nat, NEW n \in Nat, NEW m \in Nat,
         s + n <= Size, m + n <= Size,
         Lies(h, m, s, n), Agree(b, d, h, m)
  PROVE  RingOf(d, h, m + n) = RingOf(b, h, m) \o ChunkOf(d, s, n)
  <1> DEFINE c == ChunkOf(d, s, n)
             r == RingOf(b, h, m)
             all == RingOf(d, h, m + n)
  <1>1. Size \in Nat \ {0} /\ m \in 0..Size /\ m + n \in 0..Size
    BY BufferAssumption DEF Size
  <1>2. /\ c \in Seq(Numbers) /\ Len(c) = n
        /\ \A i \in 1..n : c[i] = d[s + i - 1]
    BY ChunkIsSeq
  <1>3. /\ r \in Seq(Numbers) /\ Len(r) = m
        /\ \A i \in 1..m : r[i] = b[Place(h, i)]
    BY <1>1, RingIsSeq
  <1>4. /\ all \in Seq(Numbers) /\ Len(all) = m + n
        /\ \A i \in 1..(m + n) : all[i] = d[Place(h, i)]
    BY <1>1, RingIsSeq
  <1> HIDE DEF c, r, all
  <1>5. /\ r \o c \in Seq(Numbers) /\ Len(r \o c) = m + n
        /\ \A i \in 1..(m + n) : (r \o c)[i] = IF i <= m THEN r[i] ELSE c[i - m]
    BY <1>2, <1>3, ConcatProperties
  <1>6. ASSUME NEW i \in 1..(m + n) PROVE all[i] = (r \o c)[i]
    <2>1. CASE i <= m
      <3>1. i \in 1..m
        BY <2>1
      <3> QED BY <1>3, <1>4, <1>5, <2>1, <3>1 DEF Agree
    <2>2. CASE i > m
      <3>1. i - m \in 1..n /\ m + (i - m) = i /\ ~(i <= m)
        BY <2>2
      <3>2. Place(h, i) = s + (i - m) - 1
        BY <3>1 DEF Lies
      <3>3. (r \o c)[i] = c[i - m]
        BY <1>5, <3>1
      <3>4. c[i - m] = d[s + (i - m) - 1] /\ all[i] = d[Place(h, i)]
        BY <1>2, <1>4, <3>1
      <3> QED BY <3>2, <3>3, <3>4
    <2>3. i <= m \/ i > m
      BY <1>1
    <2> QED BY <2>1, <2>2, <2>3, Zenon
  <1>7. all = r \o c
    BY <1>4, <1>5, <1>6, SeqEqual
  <1> QED BY <1>7 DEF c, r, all

(* What Peek has got, with a chunk more, is the front of the ring.           *)
LEMMA PeekGrows ==
  ASSUME NEW b \in Arrays, NEW h \in 0..Size, NEW got \in Seq(Numbers),
         NEW s \in Nat, NEW n \in Nat, NEW m \in 0..Size,
         s + n <= Size, Len(got) + n <= m,
         Shows(got, b, h), Lies(h, Len(got), s, n)
  PROVE  /\ got \o ChunkOf(b, s, n) = SubSeq(RingOf(b, h, m), 1, Len(got) + n)
         /\ Len(got \o ChunkOf(b, s, n)) = Len(got) + n
         /\ Shows(got \o ChunkOf(b, s, n), b, h)
  <1> DEFINE c == ChunkOf(b, s, n)
             r == RingOf(b, h, m)
             front == SubSeq(r, 1, Len(got) + n)
  <1>1. Size \in Nat \ {0} /\ Len(got) \in Nat /\ Len(got) + n \in Nat
    BY BufferAssumption, LenProperties DEF Size
  <1>2. /\ c \in Seq(Numbers) /\ Len(c) = n
        /\ \A i \in 1..n : c[i] = b[s + i - 1]
    BY ChunkIsSeq
  <1>3. /\ r \in Seq(Numbers) /\ Len(r) = m
        /\ \A i \in 1..m : r[i] = b[Place(h, i)]
    BY <1>1, RingIsSeq
  <1>4. /\ front \in Seq(Numbers) /\ Len(front) = Len(got) + n
        /\ \A i \in 1..(Len(got) + n) : front[i] = r[i]
    <2> HIDE DEF r
    <2>1. \A i \in 1..(Len(got) + n) : i \in 1..m
      BY <1>1
    <2>2. \A i \in 1..(Len(got) + n) : r[i] \in Numbers
      BY <1>3, <2>1, ElementOfSeq
    <2>3. /\ front \in Seq(Numbers)
          /\ Len(front) = IF 1 <= Len(got) + n THEN Len(got) + n - 1 + 1 ELSE 0
          /\ \A i \in 1..(Len(got) + n - 1 + 1) : front[i] = r[1 + i - 1]
      BY <1>1, <2>2, SubSeqProperties
    <2> HIDE DEF front
    <2> QED BY <1>1, <2>3
  <1> HIDE DEF c, r, front
  <1>5. /\ got \o c \in Seq(Numbers) /\ Len(got \o c) = Len(got) + n
        /\ \A i \in 1..(Len(got) + n) :
             (got \o c)[i] = IF i <= Len(got) THEN got[i] ELSE c[i - Len(got)]
    BY <1>2, ConcatProperties
  <1>6. ASSUME NEW i \in 1..(Len(got) + n) PROVE (got \o c)[i] = b[Place(h, i)]
    <2>1. CASE i <= Len(got)
      <3>1. i \in 1..Len(got)
        BY <1>1, <2>1
      <3> QED BY <1>5, <2>1, <3>1 DEF Shows
    <2>2. CASE i > Len(got)
      <3>1. /\ i - Len(got) \in 1..n /\ Len(got) + (i - Len(got)) = i
            /\ ~(i <= Len(got))
        BY <1>1, <2>2
      <3>2. Place(h, i) = s + (i - Len(got)) - 1
        BY <3>1 DEF Lies
      <3>3. (got \o c)[i] = c[i - Len(got)]
        BY <1>5, <3>1
      <3>4. c[i - Len(got)] = b[s + (i - Len(got)) - 1]
        BY <1>2, <3>1
      <3> QED BY <3>2, <3>3, <3>4
    <2>3. i <= Len(got) \/ i > Len(got)
      BY <1>1
    <2> QED BY <2>1, <2>2, <2>3, Zenon
  <1>7. \A i \in 1..(Len(got) + n) : front[i] = b[Place(h, i)]
    BY <1>1, <1>3, <1>4
  <1>8. got \o c = front
    BY <1>4, <1>5, <1>6, <1>7, SeqEqual
  <1>9. Shows(got \o c, b, h)
    BY <1>5, <1>6 DEF Shows
  <1> QED BY <1>5, <1>8, <1>9 DEF c, r, front

(* A chunk of no bytes in front of the ring.                                 *)
LEMMA NoChunk ==
  ASSUME NEW b \in Arrays, NEW h \in 0..Size, NEW n \in 0..Size, NEW p
  PROVE  (IF p THEN <<>> ELSE ChunkOf(b, 0, 0)) \o RingOf(b, h, n) = RingOf(b, h, n)
  <1>1. 0 + 0 <= Size
    BY BufferAssumption DEF Size
  <1>2. ChunkOf(b, 0, 0) \in Seq(Numbers) /\ Len(ChunkOf(b, 0, 0)) = 0
    BY <1>1, ChunkIsSeq
  <1>3. ChunkOf(b, 0, 0) = <<>>
    BY <1>2, EmptySeq
  <1>4. RingOf(b, h, n) \in Seq(Numbers)
    BY RingIsSeq
  <1>5. <<>> \o RingOf(b, h, n) = RingOf(b, h, n)
    BY <1>4, ConcatEmptySeq
  <1> QED BY <1>3, <1>5

-----------------------------------------------------------------------------
(* What makes the ring a queue while its callers exclude each other: a Write *)
(* ends with nothing left, a call has a chunk between the move of its index  *)
(* and the copy only,                                                        *)
Exclusive == writer.phase = "idle" \/ reader.phase = "idle"

WriterDone == writer.phase = "idle" => writer.left = 0

NoChunkYet ==
  /\ writer.phase # "copy" => writer.start = 0 /\ writer.length = 0
  /\ reader.phase # "copy" => reader.start = 0 /\ reader.length = 0

(* a round of Read or Peek finds bytes,                                      *)
ReaderHasBytes == reader.phase = "loop" => Stored(Front) > 0

(* the chunk that is being written comes after the bytes in the ring and     *)
(* overwrites none of them,                                                  *)
Pushed ==
  writer.phase = "copy" =>
    LET old == Stored(head) - writer.length
    IN  /\ old \in Nat
        /\ Lies(head, old, writer.start, writer.length)
        /\ Apart(head, old, writer.start, writer.length)

(* and Peek has got the front of the ring, and goes on where that ends.      *)
Peeked ==
  reader.peek /\ reader.phase # "idle" =>
    LET seen == Len(reader.got)
    IN  /\ seen + reader.length + Stored(reader.at) = Stored(head)
        /\ Shows(reader.got, buffer, head)
        /\ Lies(head, seen, reader.start, reader.length)
        /\ Continues(head, seen + reader.length, reader.at, Stored(reader.at))

QueueInv ==
  /\ IInv /\ Exclusive /\ WriterDone /\ NoChunkYet
  /\ ReaderHasBytes /\ Pushed /\ Peeked

QueueStep == [Queue!Next]_(Queue!vars)

(* The types the steps need.                                                 *)
LEMMA RingTypes ==
  ASSUME IInv
  PROVE  /\ buffer \in Arrays /\ head \in 0..Size /\ tail \in 0..Size
         /\ writer.left \in Nat /\ writer.start \in Nat /\ writer.length \in Nat
         /\ reader.left \in Nat /\ reader.start \in Nat /\ reader.length \in Nat
         /\ reader.at \in 0..Size /\ reader.got \in Seq(Numbers)
         /\ reader.peek \in BOOLEAN /\ next \in Nat
         /\ writer.start + writer.length <= Size
         /\ reader.start + reader.length <= Size
  BY BufferAssumption DEF IInv, TypeOK, ChunksInBounds, Arrays, Numbers

(* The contents in terms of the values of the variables.                     *)
LEMMA ContentsValue ==
  Contents = (IF reader.peek THEN <<>>
              ELSE ChunkOf(buffer, reader.start, reader.length))
             \o RingOf(buffer, head, Held(head, tail) - writer.length)
  BY DEF Contents, Chunk, ChunkOf, Ring, RingOf, Stored, Held

LEMMA ContentsNext ==
  Contents' = (IF reader'.peek THEN <<>>
               ELSE ChunkOf(buffer', reader'.start, reader'.length))
              \o RingOf(buffer', head', Held(head', tail') - writer'.length)
  BY DEF Contents, Chunk, ChunkOf, Ring, RingOf, Stored, Held

LEMMA GivenValue == Given = NumberedFrom(next, writer.left + writer.length)
  BY DEF Given, NumberedFrom

LEMMA GivenNext == Given' = NumberedFrom(next', writer'.left + writer'.length)
  BY DEF Given, NumberedFrom

(* Bytes numbered one after the other.                                       *)
LEMMA NumberedIsSeq ==
  ASSUME NEW k \in Nat, NEW n \in Nat
  PROVE  /\ NumberedFrom(k, n) \in Seq(Numbers) /\ Len(NumberedFrom(k, n)) = n
         /\ \A i \in 1..n : NumberedFrom(k, n)[i] = (k + (i - 1)) % ByteValues
  <1>1. ASSUME NEW i \in 1..n PROVE (k + (i - 1)) % ByteValues \in Numbers
    <2>1. k + (i - 1) \in Int
      OBVIOUS
    <2> QED BY <2>1, Modulo DEF Numbers
  <1>2. NumberedFrom(k, n) \in [1..n -> Numbers]
    BY <1>1 DEF NumberedFrom
  <1>3. NumberedFrom(k, n) \in Seq(Numbers) /\ Len(NumberedFrom(k, n)) = n
    BY <1>2, FunctionIsSeq
  <1> QED BY <1>3 DEF NumberedFrom

(* The first n of them are followed by those from the next number on.        *)
LEMMA NumberedSplits ==
  ASSUME NEW k \in Nat, NEW n \in Nat, NEW m \in Nat
  PROVE  NumberedFrom(k, n + m)
           = NumberedFrom(k, n) \o NumberedFrom((k + n) % ByteValues, m)
  <1> DEFINE all == NumberedFrom(k, n + m)
             c   == NumberedFrom(k, n)
             l   == (k + n) % ByteValues
             r   == NumberedFrom(l, m)
  <1>1. l \in Nat /\ n + m \in Nat /\ ByteValues \in Nat /\ ByteValues > 0
    BY BufferAssumption, Modulo
  <1>2. /\ c \in Seq(Numbers) /\ Len(c) = n
        /\ \A i \in 1..n : c[i] = (k + (i - 1)) % ByteValues
    BY NumberedIsSeq
  <1>3. /\ r \in Seq(Numbers) /\ Len(r) = m
        /\ \A i \in 1..m : r[i] = (l + (i - 1)) % ByteValues
    BY <1>1, NumberedIsSeq
  <1>4. /\ all \in Seq(Numbers) /\ Len(all) = n + m
        /\ \A i \in 1..(n + m) : all[i] = (k + (i - 1)) % ByteValues
    BY <1>1, NumberedIsSeq
  <1>5. ASSUME NEW j \in Nat PROVE (l + j) % ByteValues = (k + n + j) % ByteValues
    <2>1. k + n \in Nat
      OBVIOUS
    <2>2. (((k + n) % ByteValues) + j) % ByteValues = (k + n + j) % ByteValues
      BY <1>1, <2>1, ModuloAdds
    <2> QED BY <2>2
  <1> HIDE DEF all, c, l, r
  <1>6. /\ c \o r \in Seq(Numbers) /\ Len(c \o r) = n + m
        /\ \A i \in 1..(n + m) : (c \o r)[i] = IF i <= n THEN c[i] ELSE r[i - n]
    BY <1>2, <1>3, ConcatProperties
  <1>7. ASSUME NEW i \in 1..(n + m) PROVE all[i] = (c \o r)[i]
    <2>1. CASE i <= n
      <3>1. i \in 1..n
        BY <2>1
      <3> QED BY <1>2, <1>4, <1>6, <2>1, <3>1
    <2>2. CASE i > n
      <3>1. i - n \in 1..m /\ ~(i <= n) /\ i - n - 1 \in Nat
            /\ k + n + (i - n - 1) = k + (i - 1)
        BY <2>2
      <3>2. r[i - n] = (k + n + (i - n - 1)) % ByteValues
        BY <1>3, <1>5, <3>1
      <3> QED BY <1>4, <1>6, <3>1, <3>2
    <2>3. i <= n \/ i > n
      OBVIOUS
    <2> QED BY <2>1, <2>2, <2>3, Zenon
  <1>8. all = c \o r
    BY <1>4, <1>6, <1>7, SeqEqual
  <1> QED BY <1>8 DEF all, c, l, r

(* With no chunk in flight the contents are the ring.                        *)
LEMMA ContentsAtRest ==
  ASSUME QueueInv, reader.phase # "copy", writer.phase # "copy"
  PROVE  Contents = RingOf(buffer, head, Held(head, tail))
  <1>1. buffer \in Arrays /\ head \in 0..Size /\ tail \in 0..Size
    BY RingTypes DEF QueueInv
  <1>2. Held(head, tail) \in 0..Size
    BY <1>1, HeldBound
  <1>3. Held(head, tail) - 0 = Held(head, tail)
    BY <1>2, HeldBound, BufferAssumption DEF Size
  <1>4. reader.start = 0 /\ reader.length = 0 /\ writer.length = 0
    BY DEF QueueInv, NoChunkYet
  <1>5. Contents = (IF reader.peek THEN <<>> ELSE ChunkOf(buffer, 0, 0))
                   \o RingOf(buffer, head, Held(head, tail))
    BY <1>3, <1>4, ContentsValue
  <1> QED BY <1>1, <1>2, <1>5, NoChunk

(* The queue is empty at the start.                                          *)
LEMMA InitQueue == Init => QueueInv /\ Queue!Init
  <1> SUFFICES ASSUME Init PROVE QueueInv /\ Queue!Init
    OBVIOUS
  <1>1. IInv
    BY InitIInv
  <1>2. QueueInv
    BY <1>1 DEF QueueInv, Init, Exclusive, WriterDone, NoChunkYet, ReaderHasBytes,
                Pushed, Peeked
  <1>3. reader.phase # "copy" /\ writer.phase # "copy" /\ reader.got = <<>>
    BY DEF Init
  <1>4. Held(head, tail) = 0
    BY DEF Init, Held
  <1>5. buffer \in Arrays /\ head \in 0..Size /\ 0 \in 0..Size
    BY <1>1, RingTypes, BufferAssumption DEF Size
  <1>6. RingOf(buffer, head, 0) \in Seq(Numbers) /\ Len(RingOf(buffer, head, 0)) = 0
    BY <1>5, RingIsSeq
  <1>7. RingOf(buffer, head, 0) = <<>>
    BY <1>6, EmptySeq
  <1>8. Contents = <<>>
    BY <1>2, <1>3, <1>4, <1>7, ContentsAtRest
  <1>9. Given = <<>>
    <2>1. next = 0 /\ writer.left + writer.length = 0
      BY DEF Init
    <2>2. Given = NumberedFrom(0, 0)
      BY <2>1, GivenValue
    <2> QED BY <2>2, NumberedIsSeq, EmptySeq
  <1>10. Wanted = 0 /\ reader.peek = FALSE
    BY DEF Init, Wanted
  <1> QED BY <1>2, <1>3, <1>8, <1>9, <1>10 DEF Queue!Init

(* A call of Write begins.                                                   *)
LEMMA WriteQueues ==
  ASSUME QueueInv, IInv', NEW n \in Counts, Write(n)
  PROVE  QueueInv' /\ QueueStep
  <1>1. /\ writer.phase = "idle" /\ reader.phase = "idle"
        /\ n + Stored(head) <= Size
        /\ UNCHANGED <<buffer, head, tail, next, reader>>
        /\ writer'.phase = "loop" /\ writer'.left = n
        /\ writer'.start = 0 /\ writer'.length = 0
    BY DEF Write, Call
  <1>2. writer.length = 0 /\ writer.left = 0
    BY <1>1 DEF QueueInv, NoChunkYet, WriterDone
  <1>3. Exclusive' /\ WriterDone' /\ ReaderHasBytes' /\ Pushed' /\ Peeked'
    BY <1>1 DEF Exclusive, WriterDone, ReaderHasBytes, Pushed, Peeked
  <1>4. NoChunkYet'
    BY <1>1 DEF QueueInv, NoChunkYet
  <1>5. Contents' = Contents
    BY <1>1, <1>2, ContentsValue, ContentsNext
  <1>6. n \in Nat /\ next \in Nat
    BY BufferAssumption, RingTypes DEF QueueInv
  <1>7. Given = <<>>
    <2>1. Given = NumberedFrom(next, 0)
      BY <1>2, GivenValue
    <2> QED BY <1>6, <2>1, NumberedIsSeq, EmptySeq
  <1>8. Given' \in Seq(Numbers) /\ Len(Given') = n
    <2>1. n + 0 = n
      BY <1>6
    <2>2. Given' = NumberedFrom(next, n)
      BY <1>1, <2>1, GivenNext
    <2> QED BY <1>6, <2>2, NumberedIsSeq
  <1>9. Len(Contents) + Len(Given') <= Size
    <2>1. buffer \in Arrays /\ head \in 0..Size /\ tail \in 0..Size
      BY RingTypes DEF QueueInv
    <2>2. Held(head, tail) \in 0..Size /\ Size \in Nat
      BY <2>1, HeldBound
    <2>3. Contents = RingOf(buffer, head, Held(head, tail))
      BY <1>1, ContentsAtRest
    <2>4. Len(Contents) = Held(head, tail)
      BY <2>1, <2>2, <2>3, RingIsSeq
    <2>5. Stored(head) = Held(head, tail)
      BY DEF Stored, Held
    <2> QED BY <1>1, <1>6, <1>8, <2>2, <2>4, <2>5
  <1>10. Wanted' = Wanted
    BY <1>1 DEF Wanted
  <1>11. Queue!BeginPut
    BY <1>1, <1>5, <1>7, <1>8, <1>9, <1>10 DEF Queue!BeginPut, Numbers
  <1> QED BY <1>3, <1>4, <1>11 DEF QueueInv, QueueStep, Queue!Next

(* A call of Read or Peek begins.                                            *)
LEMMA BeginReadQueues ==
  ASSUME ~EmptyReads, QueueInv, IInv',
         NEW n \in Counts, NEW peek \in BOOLEAN, BeginRead(n, peek)
  PROVE  QueueInv' /\ QueueStep
  <1>1. /\ writer.phase = "idle" /\ reader.phase = "idle" /\ Stored(head) > 0
        /\ UNCHANGED <<buffer, head, tail, next, writer>>
        /\ reader'.phase = "loop" /\ reader'.start = 0 /\ reader'.length = 0
        /\ reader'.peek = peek /\ reader'.at = head /\ reader'.got = <<>>
        /\ reader'.left = n
    BY DEF BeginRead
  <1>2. /\ reader.start = 0 /\ reader.length = 0 /\ writer.length = 0
        /\ writer.start = 0
    BY <1>1 DEF QueueInv, NoChunkYet
  <1>3. WriterDone'
    BY <1>1 DEF QueueInv, WriterDone
  <1>4. Exclusive' /\ Pushed' /\ NoChunkYet'
    BY <1>1, <1>2 DEF Exclusive, Pushed, NoChunkYet
  <1>5. ReaderHasBytes'
    BY <1>1 DEF ReaderHasBytes, Front, Stored
  <1>6. Peeked'
    <2>1. Len(reader'.got) = 0
      BY <1>1
    <2>2. head \in 0..Size /\ tail \in 0..Size
      BY RingTypes DEF QueueInv
    <2>3. Held(head, tail) \in Nat
      BY <2>2, HeldBound
    <2>4. 0 + 0 + Held(head, tail) = Held(head, tail)
      BY <2>3
    <2>5. Continues(head, 0 + 0, head, Held(head, tail))
      BY <2>3 DEF Continues
    <2>6. Lies(head, 0, 0, 0) /\ Shows(reader'.got, buffer, head)
      BY <2>1 DEF Lies, Shows
    <2>7. Stored(head)' = Held(head, tail) /\ Stored(reader.at)' = Held(head, tail)
      BY <1>1 DEF Stored, Held
    <2> QED BY <1>1, <2>1, <2>4, <2>5, <2>6, <2>7 DEF Peeked
  <1>7. buffer \in Arrays /\ head \in 0..Size /\ tail \in 0..Size
    BY RingTypes DEF QueueInv
  <1>8. Held(head, tail) - 0 \in 0..Size
    <2>1. Held(head, tail) \in 0..Size /\ Size \in Nat
      BY <1>7, HeldBound
    <2> QED BY <2>1
  <1>9. Contents' = RingOf(buffer, head, Held(head, tail) - 0)
    <2>1. Contents' = (IF reader'.peek THEN <<>> ELSE ChunkOf(buffer, 0, 0))
                      \o RingOf(buffer, head, Held(head, tail) - 0)
      BY <1>1, <1>2, ContentsNext
    <2> QED BY <1>7, <1>8, <2>1, NoChunk
  <1>10. Contents = RingOf(buffer, head, Held(head, tail) - 0)
    <2>1. Contents = (IF reader.peek THEN <<>> ELSE ChunkOf(buffer, 0, 0))
                     \o RingOf(buffer, head, Held(head, tail) - 0)
      BY <1>2, ContentsValue
    <2> QED BY <1>7, <1>8, <2>1, NoChunk
  <1>11. Given' = Given
    BY <1>1, GivenValue, GivenNext
  <1>12. Wanted = 0 /\ Wanted' \in Nat
    BY <1>1, BufferAssumption DEF Wanted
  <1>13. Queue!BeginTake
    BY <1>1, <1>9, <1>10, <1>11, <1>12 DEF Queue!BeginTake
  <1>14. QueueStep
    BY <1>13 DEF QueueStep, Queue!Next
  <1> QED BY <1>3, <1>4, <1>5, <1>6, <1>14 DEF QueueInv

(* A round of Push moves the tail: the queue does not change.                *)
LEMMA PushAdvanceQueues ==
  ASSUME QueueInv, IInv', PushAdvance
  PROVE  QueueInv' /\ QueueStep
  <1> DEFINE start  == IF tail = Size /\ head > 0 THEN 0 ELSE tail
             length == Smaller(ChunkLength(start), writer.left)
  <1>1. /\ head \in 0..Size /\ tail \in 0..Size /\ writer.left \in Nat
        /\ buffer \in Arrays
    BY RingTypes DEF QueueInv
  <1>2. /\ writer.phase = "loop" /\ tail' = start + length
        /\ writer' = [phase |-> "copy", left |-> writer.left - length,
                      start |-> start, length |-> length]
        /\ UNCHANGED <<buffer, head, next, reader>>
    BY DEF PushAdvance
  <1>3. writer.length = 0 /\ reader.phase = "idle"
    BY <1>2 DEF QueueInv, NoChunkYet, Exclusive
  <1>4. reader.start = 0 /\ reader.length = 0
    BY <1>3 DEF QueueInv, NoChunkYet
  <1>5. PICK s : s = start
    OBVIOUS
  <1>6. PICK n : n = length
    OBVIOUS
  <1>7. PICK held : held = Held(head, tail)
    OBVIOUS
  <1>8. /\ s \in Nat /\ n \in Nat /\ Held(head, s + n) = held + n
        /\ Lies(head, held, s, n) /\ Apart(head, held, s, n)
    <2>1. s = PutStart(head, tail)
      BY <1>5 DEF PutStart
    <2>2. n = PutCount(head, tail, writer.left)
      BY <1>5, <1>6 DEF PutCount, PutStart, ChunkLength
    <2> HIDE DEF start, length
    <2> QED BY <1>1, <1>7, <2>1, <2>2, PutArithmetic
  <1>9. /\ tail' = s + n /\ writer'.phase = "copy"
        /\ writer'.start = s /\ writer'.length = n /\ writer'.left = writer.left - n
    BY <1>2, <1>5, <1>6
  <1> HIDE DEF start, length
  <1>10. held \in 0..Size /\ Size \in Nat
    BY <1>1, <1>7, HeldBound
  <1>11. held + n - n = held /\ held - 0 = held /\ held \in Nat
    BY <1>8, <1>10
  <1>12. Held(head', tail') - writer'.length = held
    BY <1>2, <1>8, <1>9, <1>11
  <1>13. Pushed'
    <2>1. Stored(head)' - writer'.length = held
      BY <1>12 DEF Stored, Held
    <2> QED BY <1>2, <1>8, <1>9, <1>11, <2>1 DEF Pushed
  <1>14. Exclusive' /\ WriterDone' /\ NoChunkYet' /\ ReaderHasBytes' /\ Peeked'
    BY <1>2, <1>3, <1>4, <1>9 DEF Exclusive, WriterDone, NoChunkYet, ReaderHasBytes,
                                  Peeked
  <1>15. Contents' = Contents
    <2>1. Contents' = (IF reader.peek THEN <<>>
                       ELSE ChunkOf(buffer, reader.start, reader.length))
                      \o RingOf(buffer, head, held)
      BY <1>2, <1>12, ContentsNext
    <2>2. Held(head, tail) - writer.length = held
      BY <1>3, <1>7, <1>11
    <2> QED BY <2>1, <2>2, ContentsValue
  <1>16. Given' = Given
    <2>1. writer.left + 0 = writer.left /\ (writer.left - n) + n = writer.left
      BY <1>1, <1>8
    <2> QED BY <1>2, <1>3, <1>9, <2>1, GivenValue, GivenNext
  <1>17. Wanted' = Wanted
    BY <1>2 DEF Wanted
  <1>18. QueueStep
    BY <1>2, <1>15, <1>16, <1>17 DEF QueueStep, Queue!vars
  <1> QED BY <1>13, <1>14, <1>18 DEF QueueInv

(* The copy of a chunk puts it into the queue.                               *)
LEMMA PushCopyQueues ==
  ASSUME QueueInv, IInv', PushCopy
  PROVE  QueueInv' /\ QueueStep
  <1>1. /\ buffer \in Arrays /\ buffer' \in Arrays
        /\ head \in 0..Size /\ tail \in 0..Size
        /\ writer.start \in Nat /\ writer.length \in Nat
        /\ writer.start + writer.length <= Size
    BY RingTypes DEF QueueInv, IInv, TypeOK, Arrays, Numbers
  <1>2. /\ writer.phase = "copy" /\ UNCHANGED <<head, tail, reader>>
        /\ writer'.phase # "copy" /\ writer'.start = 0 /\ writer'.length = 0
    BY DEF PushCopy
  <1>3. reader.phase = "idle" /\ reader.start = 0 /\ reader.length = 0
    BY <1>2 DEF QueueInv, Exclusive, NoChunkYet
  <1>4. PICK s, n, b, d, h, old :
          /\ s = writer.start /\ n = writer.length /\ b = buffer /\ d = buffer'
          /\ h = head /\ old = Held(head, tail) - writer.length
    OBVIOUS
  <1>5. /\ b \in Arrays /\ d \in Arrays /\ h \in 0..Size
        /\ s \in Nat /\ n \in Nat /\ s + n <= Size
    BY <1>1, <1>4
  <1>6. Size \in Nat /\ Held(head, tail) \in 0..Size
    BY <1>1, HeldBound
  <1>7. /\ old \in Nat
        /\ Lies(h, old, s, n) /\ Apart(h, old, s, n)
    <2>1. Stored(head) - writer.length = old
      BY <1>4 DEF Stored, Held
    <2> QED BY <1>2, <1>4, <2>1 DEF QueueInv, Pushed
  <1>8. old + n = Held(head, tail) /\ old + n <= Size /\ old \in 0..Size
        /\ Held(head, tail) - 0 = old + n
    BY <1>4, <1>5, <1>6, <1>7
  <1>9. ASSUME NEW i \in 1..old PROVE d[Place(h, i)] = b[Place(h, i)]
    <2>1. i \in 1..Size
      BY <1>6, <1>8
    <2>2. Place(h, i) \in 0..(Size - 1)
      BY <1>5, <2>1, PlaceInside
    <2>3. ~(s <= Place(h, i) /\ Place(h, i) < s + n)
      BY <1>5, <1>6, <1>7, <2>2 DEF Apart
    <2>4. \A j \in 0..(Size - 1) : ~(s <= j /\ j < s + n) => d[j] = b[j]
      BY <1>4 DEF PushCopy
    <2> QED BY <2>2, <2>3, <2>4
  <1>10. RingOf(d, h, old + n) = RingOf(b, h, old) \o ChunkOf(d, s, n)
    <2>1. Agree(b, d, h, old)
      BY <1>9 DEF Agree
    <2> QED BY <1>5, <1>7, <1>8, <2>1, RingGrows, SMTT(40)
  <1>11. Contents = RingOf(b, h, old)
    <2>1. Contents = (IF reader.peek THEN <<>> ELSE ChunkOf(b, 0, 0)) \o RingOf(b, h, old)
      BY <1>3, <1>4, ContentsValue
    <2> QED BY <1>5, <1>8, <2>1, NoChunk
  <1>12. Contents' = RingOf(d, h, old + n)
    <2>1. old + n \in 0..Size
      BY <1>6, <1>8
    <2>2. Contents' = (IF reader.peek THEN <<>> ELSE ChunkOf(d, 0, 0)) \o RingOf(d, h, old + n)
      BY <1>2, <1>3, <1>4, <1>8, ContentsNext
    <2> QED BY <1>5, <2>1, <2>2, NoChunk
  <1>13. PICK k, m : k = next /\ m = writer.left
    OBVIOUS
  <1>14. k \in Nat /\ m \in Nat
    BY <1>13, RingTypes DEF QueueInv
  <1>15. ChunkOf(d, s, n) = NumberedFrom(k, n)
    <2>1. /\ ChunkOf(d, s, n) \in Seq(Numbers) /\ Len(ChunkOf(d, s, n)) = n
          /\ \A i \in 1..n : ChunkOf(d, s, n)[i] = d[s + i - 1]
      BY <1>5, ChunkIsSeq
    <2>2. /\ NumberedFrom(k, n) \in Seq(Numbers) /\ Len(NumberedFrom(k, n)) = n
          /\ \A i \in 1..n : NumberedFrom(k, n)[i] = (k + (i - 1)) % ByteValues
      BY <1>5, <1>14, NumberedIsSeq
    <2>3. \A j \in 0..(Size - 1) :
            s <= j /\ j < s + n => d[j] = (k + (j - s)) % ByteValues
      BY <1>4, <1>13 DEF PushCopy
    <2>4. ASSUME NEW i \in 1..n PROVE ChunkOf(d, s, n)[i] = NumberedFrom(k, n)[i]
      <3>1. /\ s + i - 1 \in 0..(Size - 1) /\ s <= s + i - 1 /\ s + i - 1 < s + n
            /\ (s + i - 1) - s = i - 1
        BY <1>5, <1>6
      <3>2. d[s + i - 1] = (k + (i - 1)) % ByteValues
        BY <2>3, <3>1
      <3> QED BY <2>1, <2>2, <3>2
    <2> QED BY <2>1, <2>2, <2>4, SeqEqual
  <1>16. Given = NumberedFrom(k, n + m)
    BY <1>4, <1>5, <1>13, <1>14, GivenValue
  <1>17. Given' = NumberedFrom((k + n) % ByteValues, m)
    <2>1. next' = (k + n) % ByteValues /\ writer'.left = m
      BY <1>4, <1>13 DEF PushCopy
    <2>2. m + 0 = m
      BY <1>14
    <2> QED BY <1>2, <2>1, <2>2, GivenNext
  <1>18. Given = ChunkOf(d, s, n) \o Given'
    <2>1. NumberedFrom(k, n + m)
            = NumberedFrom(k, n) \o NumberedFrom((k + n) % ByteValues, m)
      BY <1>5, <1>14, NumberedSplits
    <2> QED BY <1>15, <1>16, <1>17, <2>1
  <1>19. /\ n \in 0..Len(Given) /\ SubSeq(Given, 1, n) = ChunkOf(d, s, n)
         /\ SubSeq(Given, n + 1, Len(Given)) = Given'
    <2>1. ChunkOf(d, s, n) \in Seq(Numbers) /\ Len(ChunkOf(d, s, n)) = n
      BY <1>5, ChunkIsSeq
    <2>2. (k + n) % ByteValues \in Nat
      BY <1>5, <1>14, Modulo, BufferAssumption
    <2>3. Given' \in Seq(Numbers)
      BY <1>14, <1>17, <2>2, NumberedIsSeq
    <2> QED BY <1>18, <2>1, <2>3, TakeFront
  <1>20. Wanted' = Wanted
    BY <1>2 DEF Wanted
  <1>21. Queue!Put
    BY <1>2, <1>10, <1>11, <1>12, <1>19, <1>20 DEF Queue!Put
  <1>22. Exclusive' /\ NoChunkYet' /\ ReaderHasBytes' /\ Pushed' /\ Peeked'
    BY <1>2, <1>3 DEF Exclusive, NoChunkYet, ReaderHasBytes, Pushed, Peeked
  <1>23. WriterDone'
    <2>1. writer'.phase = (IF writer.left > 0 THEN "loop" ELSE "idle")
          /\ writer'.left = writer.left
      BY DEF PushCopy
    <2> QED BY <1>13, <1>14, <2>1 DEF WriterDone
  <1> QED BY <1>21, <1>22, <1>23 DEF QueueInv, QueueStep, Queue!Next

(* A round of Read or Peek moves its index: the queue does not change.       *)
LEMMA ReadAdvanceQueues ==
  ASSUME QueueInv, IInv', ReadAdvance
  PROVE  QueueInv' /\ QueueStep
  <1> DEFINE start  == IF Front = Size /\ tail > 0 THEN 0 ELSE Front
             chunk  == IF tail < start THEN Size - start ELSE tail - start
             length == Smaller(chunk, reader.left)
  <1>1. /\ head \in 0..Size /\ tail \in 0..Size /\ reader.left \in Nat
        /\ reader.at \in 0..Size /\ reader.peek \in BOOLEAN
        /\ buffer \in Arrays /\ reader.got \in Seq(Numbers)
    BY RingTypes DEF QueueInv
  <1>2. /\ reader.phase = "loop"
        /\ head' = IF reader.peek THEN head ELSE start + length
        /\ reader' = [phase |-> "copy", left |-> reader.left - length,
                      start |-> start, length |-> length, peek |-> reader.peek,
                      at |-> start + length, got |-> reader.got]
        /\ UNCHANGED <<buffer, tail, next, writer>>
    BY DEF ReadAdvance
  <1>3. /\ reader.start = 0 /\ reader.length = 0
        /\ writer.phase = "idle" /\ writer.length = 0
    BY <1>2 DEF QueueInv, NoChunkYet, Exclusive
  <1>4. Stored(Front) > 0
    BY <1>2 DEF QueueInv, ReaderHasBytes
  <1>5. PICK f, s, n : f = Front /\ s = start /\ n = length
    OBVIOUS
  <1>6. /\ head' = IF reader.peek THEN head ELSE s + n
        /\ reader'.phase = "copy" /\ reader'.start = s /\ reader'.length = n
        /\ reader'.peek = reader.peek /\ reader'.at = s + n
        /\ reader'.got = reader.got /\ reader'.left = reader.left - n
    BY <1>2, <1>5
  <1>7. /\ f \in 0..Size /\ Held(f, tail) > 0
        /\ s = TakeStart(f, tail) /\ n = TakeCount(f, tail, reader.left)
    <2>1. f \in 0..Size
      BY <1>1, <1>5 DEF Front
    <2>2. Held(f, tail) > 0
      BY <1>4, <1>5 DEF Stored, Held
    <2> QED BY <1>5, <2>1, <2>2 DEF TakeStart, TakeCount
  <1> HIDE DEF start, chunk, length
  <1>8. /\ s \in Nat /\ n \in Nat /\ s + n \in 0..Size
        /\ Held(f, tail) = n + Held(s + n, tail)
        /\ Lies(f, 0, s, n) /\ Continues(f, n, s + n, Held(s + n, tail))
    <2> DEFINE from == TakeStart(f, tail)
               count == TakeCount(f, tail, reader.left)
    <2>1. /\ from \in Nat /\ count \in Nat /\ from + count \in 0..Size
          /\ Held(f, tail) = count + Held(from + count, tail)
          /\ Lies(f, 0, from, count) /\ Continues(f, count, from + count, Held(from + count, tail))
      <3>1. f \in 0..Size /\ tail \in 0..Size /\ Held(f, tail) > 0 /\ reader.left \in Nat
        BY <1>1, <1>7
      <3> QED BY <3>1, TakeArithmetic
    <2>2. from = s /\ count = n
      BY <1>7
    <2> HIDE DEF from, count
    <2> QED BY <2>1, <2>2
  <1>9. /\ Size \in Nat /\ Held(f, tail) \in 0..Size
        /\ Held(s + n, tail) \in 0..Size /\ Held(head, tail) \in 0..Size
    BY <1>1, <1>7, <1>8, HeldBound
  <1>10. Exclusive' /\ WriterDone' /\ NoChunkYet' /\ ReaderHasBytes' /\ Pushed'
    <2>1. writer.phase # "copy" /\ writer.start = 0
      BY <1>3 DEF QueueInv, NoChunkYet
    <2>2. WriterDone'
      BY <1>2 DEF QueueInv, WriterDone
    <2> QED BY <1>2, <1>3, <1>6, <2>1, <2>2 DEF Exclusive, NoChunkYet, ReaderHasBytes,
                                                Pushed
  <1>11. Wanted' = Wanted
    <2>1. (reader.left - n) + n = reader.left + 0
      BY <1>1, <1>8
    <2> QED BY <1>2, <1>3, <1>6, <2>1 DEF Wanted
  <1>12. Given' = Given
    BY <1>2, GivenValue, GivenNext
  <1>13. CASE reader.peek
    <2>1. head' = head /\ f = reader.at
      BY <1>5, <1>6, <1>13 DEF Front
    <2>2. Contents' = Contents
      BY <1>2, <1>6, <1>13, <2>1, ContentsValue, ContentsNext
    <2>3. PICK seen : seen = Len(reader.got)
      OBVIOUS
    <2>4. seen \in Nat
      BY <1>1, <2>3, LenProperties
    <2>5. /\ seen + 0 + Held(f, tail) = Held(head, tail)
          /\ Shows(reader.got, buffer, head)
          /\ Continues(head, seen + 0, f, Held(f, tail))
      <3>1. Stored(reader.at) = Held(f, tail) /\ Stored(head) = Held(head, tail)
        BY <2>1 DEF Stored, Held
      <3> QED BY <1>2, <1>3, <1>13, <2>1, <2>3, <3>1 DEF QueueInv, Peeked
    <2>6. seen + n + Held(s + n, tail) = Held(head, tail)
      BY <1>8, <1>9, <2>4, <2>5
    <2>7. Lies(head, seen, s, n)
      <3>1. ASSUME NEW i \in 1..n PROVE Place(head, seen + i) = s + i - 1
        <4>1. i \in 1..Held(f, tail) /\ seen + 0 + i = seen + i /\ 0 + i = i
          BY <1>8, <1>9, <2>4
        <4>2. Place(f, i) = Place(head, seen + i)
          BY <2>5, <4>1 DEF Continues
        <4>3. Place(f, i) = s + i - 1
          BY <1>8, <4>1 DEF Lies
        <4> QED BY <4>2, <4>3
      <3> QED BY <3>1 DEF Lies
    <2>8. Continues(head, seen + n, s + n, Held(s + n, tail))
      <3>1. ASSUME NEW i \in 1..Held(s + n, tail)
            PROVE  Place(s + n, i) = Place(head, seen + n + i)
        <4>1. n + i \in 1..Held(f, tail) /\ seen + 0 + (n + i) = seen + n + i
          BY <1>8, <1>9, <2>4
        <4>2. Place(f, n + i) = Place(head, seen + 0 + (n + i))
          BY <2>5, <4>1 DEF Continues
        <4>3. Place(s + n, i) = Place(f, n + i)
          BY <1>8 DEF Continues
        <4> QED BY <4>1, <4>2, <4>3
      <3> QED BY <3>1 DEF Continues
    <2>9. Stored(reader.at)' = Held(s + n, tail) /\ Stored(head)' = Held(head, tail)
      BY <1>2, <1>6, <2>1 DEF Stored, Held
    <2>10. Peeked'
      BY <1>2, <1>6, <2>1, <2>3, <2>5, <2>6, <2>7, <2>8, <2>9 DEF Peeked
    <2> QED BY <1>6, <1>10, <1>11, <1>12, <2>2, <2>10
            DEF QueueInv, QueueStep, Queue!vars
  <1>14. CASE ~reader.peek
    <2>1. head' = s + n /\ f = head
      BY <1>5, <1>6, <1>14 DEF Front
    <2>2. PICK m : m = Held(s + n, tail)
      OBVIOUS
    <2>3. /\ m \in Nat /\ n + m = Held(head, tail) /\ n + m <= Size
          /\ m - 0 = m /\ n + m - 0 = n + m /\ n + m \in 0..Size
      BY <1>8, <1>9, <2>1, <2>2
    <2>4. Contents = RingOf(buffer, head, n + m)
      <3>1. Held(head, tail) - writer.length = n + m
        BY <1>3, <2>3
      <3>2. Contents = (IF reader.peek THEN <<>> ELSE ChunkOf(buffer, 0, 0))
                       \o RingOf(buffer, head, n + m)
        BY <1>3, <3>1, ContentsValue
      <3> QED BY <1>1, <2>3, <3>2, NoChunk
    <2>5. Contents' = ChunkOf(buffer, s, n) \o RingOf(buffer, s + n, m)
      BY <1>2, <1>3, <1>6, <1>14, <2>1, <2>2, <2>3, ContentsNext
    <2>6. RingOf(buffer, head, n + m) = ChunkOf(buffer, s, n) \o RingOf(buffer, s + n, m)
      <3>1. Lies(head, 0, s, n) /\ Continues(head, n, s + n, m)
        BY <1>8, <2>1, <2>2
      <3>2. s + n <= Size
        BY <1>8, <1>9
      <3>3. PICK k : k = s + n
        OBVIOUS
      <3>4. k \in 0..Size /\ Continues(head, n, k, m)
        BY <1>8, <3>1, <3>3
      <3>5. RingOf(buffer, head, n + m) = ChunkOf(buffer, s, n) \o RingOf(buffer, k, m)
        BY <1>1, <1>8, <2>3, <3>1, <3>2, <3>4, RingSplits, SMTT(40)
      <3> QED BY <3>3, <3>5
    <2>7. Peeked'
      BY <1>6, <1>14 DEF Peeked
    <2> QED BY <1>6, <1>10, <1>11, <1>12, <2>4, <2>5, <2>6, <2>7
            DEF QueueInv, QueueStep, Queue!vars
  <1> QED BY <1>13, <1>14

(* The copy of a chunk out of the ring takes it from the queue; that of Peek *)
(* shows it.                                                                 *)
LEMMA ReadCopyQueues ==
  ASSUME QueueInv, IInv', ReadCopy
  PROVE  QueueInv' /\ QueueStep
  <1>1. /\ head \in 0..Size /\ tail \in 0..Size /\ reader.at \in 0..Size
        /\ reader.start \in Nat /\ reader.length \in Nat
        /\ reader.start + reader.length <= Size
        /\ reader.peek \in BOOLEAN
        /\ buffer \in Arrays /\ reader.got \in Seq(Numbers)
    BY RingTypes DEF QueueInv
  <1>2. PICK phase :
          /\ phase = IF Stored(Front) > 0 /\ reader.left > 0 THEN "loop" ELSE "idle"
          /\ reader' = Copied(phase)
    BY DEF ReadCopy
  <1>3. /\ reader.phase = "copy" /\ UNCHANGED <<buffer, head, tail, next, writer>>
    BY DEF ReadCopy
  <1>4. PICK s, n, b, h, got :
          /\ s = reader.start /\ n = reader.length /\ b = buffer /\ h = head
          /\ got = reader.got
    OBVIOUS
  <1>5. /\ reader'.phase = phase /\ phase # "copy"
        /\ reader'.start = 0 /\ reader'.length = 0
        /\ reader'.peek = reader.peek /\ reader'.at = reader.at
        /\ reader'.got = got \o ChunkOf(b, s, n) /\ reader'.left = reader.left
    BY <1>2, <1>4 DEF Copied, Chunk, ChunkOf
  <1>6. writer.phase = "idle" /\ writer.length = 0
    BY <1>3 DEF QueueInv, Exclusive, NoChunkYet
  <1>7. PICK m : m = Held(head, tail)
    OBVIOUS
  <1>8. Size \in Nat /\ m \in 0..Size /\ m - 0 = m
    <2>1. Size \in Nat /\ m \in 0..Size
      BY <1>1, <1>7, HeldBound
    <2> QED BY <2>1
  <1>9. /\ b \in Arrays /\ h \in 0..Size /\ got \in Seq(Numbers)
        /\ s \in Nat /\ n \in Nat /\ s + n <= Size
    BY <1>1, <1>4
  <1>10. /\ ChunkOf(b, s, n) \in Seq(Numbers) /\ Len(ChunkOf(b, s, n)) = n
         /\ RingOf(b, h, m) \in Seq(Numbers) /\ Len(RingOf(b, h, m)) = m
    BY <1>8, <1>9, ChunkIsSeq, RingIsSeq
  <1>11. Exclusive' /\ WriterDone' /\ NoChunkYet' /\ ReaderHasBytes' /\ Pushed'
    <2>1. Front' = Front /\ Stored(Front)' = Stored(Front)
      BY <1>3, <1>5 DEF Front, Stored
    <2>2. ReaderHasBytes'
      BY <1>2, <1>5, <2>1 DEF ReaderHasBytes
    <2>3. writer.start = 0
      BY <1>6 DEF QueueInv, NoChunkYet
    <2>4. WriterDone'
      BY <1>3 DEF QueueInv, WriterDone
    <2> QED BY <1>3, <1>5, <1>6, <2>2, <2>3, <2>4 DEF Exclusive, NoChunkYet, Pushed
  <1>12. Contents' = RingOf(b, h, m)
    <2>1. Contents' = (IF reader'.peek THEN <<>> ELSE ChunkOf(b, 0, 0)) \o RingOf(b, h, m)
      BY <1>3, <1>4, <1>5, <1>6, <1>7, <1>8, ContentsNext
    <2> QED BY <1>8, <1>9, <2>1, NoChunk
  <1>13. Contents = (IF reader.peek THEN <<>> ELSE ChunkOf(b, s, n)) \o RingOf(b, h, m)
    BY <1>4, <1>6, <1>7, <1>8, ContentsValue
  <1>14. Given' = Given
    BY <1>3, GivenValue, GivenNext
  <1>15. PICK left : left = reader.left
    OBVIOUS
  <1>16. /\ left \in Nat /\ Wanted = left + n
         /\ Wanted' = (IF phase = "idle" THEN 0 ELSE left)
    <2>1. left \in Nat /\ left + 0 = left
      BY <1>15, RingTypes DEF QueueInv
    <2>2. Wanted = left + n
      BY <1>3, <1>4, <1>15 DEF Wanted
    <2> QED BY <1>5, <1>15, <2>1, <2>2 DEF Wanted
  <1>17. ASSUME NEW rest \in Nat, rest = Held(Front, tail)
         PROVE  Queue!Gets(n, rest > 0)
    <2>1. phase = "idle" => left = 0 \/ ~(rest > 0)
      BY <1>2, <1>15, <1>16, <1>17 DEF Stored, Held
    <2>2. left + n - n = left /\ n <= left + n
      BY <1>9, <1>16
    <2>3. n <= Wanted /\ Wanted - n = left
      BY <1>9, <1>16, <2>2
    <2>4. Wanted' = left \/ (~(rest > 0) /\ Wanted' = 0)
      BY <1>16, <2>1
    <2> QED BY <2>3, <2>4 DEF Queue!Gets
  <1>18. CASE reader.peek
    <2>1. Contents = RingOf(b, h, m)
      BY <1>10, <1>13, <1>18, ConcatEmptySeq
    <2>2. PICK seen, rest : seen = Len(got) /\ rest = Held(reader.at, tail)
      OBVIOUS
    <2>3. seen \in Nat /\ rest \in Nat
      <3>1. Len(got) \in Nat
        BY <1>9, LenProperties
      <3>2. Held(reader.at, tail) \in 0..Size
        BY <1>1, HeldBound
      <3> QED BY <1>8, <2>2, <3>1, <3>2
    <2>4. /\ seen + n + rest = m
          /\ Shows(got, b, h) /\ Lies(h, seen, s, n)
          /\ Continues(h, seen + n, reader.at, rest)
      <3>1. Stored(reader.at) = rest /\ Stored(head) = m
        BY <1>7, <2>2 DEF Stored, Held
      <3> QED BY <1>3, <1>4, <1>18, <2>2, <3>1 DEF QueueInv, Peeked
    <2>5. seen + n <= m /\ seen <= seen + n /\ seen + n \in 0..m
          /\ seen + n + 0 = seen + n
      BY <1>8, <1>9, <2>3, <2>4
    <2>6. /\ got \o ChunkOf(b, s, n) = SubSeq(RingOf(b, h, m), 1, seen + n)
          /\ Len(got \o ChunkOf(b, s, n)) = seen + n
          /\ Shows(got \o ChunkOf(b, s, n), b, h)
      BY <1>8, <1>9, <2>2, <2>4, <2>5, PeekGrows
    <2>7. Peeked'
      <3>1. Stored(reader.at)' = rest /\ Stored(head)' = m
        BY <1>3, <1>5, <1>7, <2>2 DEF Stored, Held
      <3>2. Len(reader'.got) = seen + n
        BY <1>5, <2>6
      <3>3. Shows(reader'.got, buffer', head')
        BY <1>3, <1>4, <1>5, <2>6
      <3>4. Continues(head', seen + n + 0, reader'.at, rest)
        BY <1>3, <1>4, <1>5, <2>4, <2>5
      <3>5. seen + n + 0 + rest = m
        BY <2>4, <2>5
      <3>6. Lies(head', seen + n, 0, 0)
        BY DEF Lies
      <3> QED BY <1>5, <3>1, <3>2, <3>3, <3>4, <3>5, <3>6 DEF Peeked
    <2>8. Queue!Peek
      <3>1. Len(Contents) = m
        BY <1>10, <2>1
      <3>2. Front = reader.at
        BY <1>18 DEF Front
      <3>3. Queue!Gets(n, rest > 0)
        BY <1>17, <2>2, <2>3, <3>2
      <3>4. (seen + n < Len(Contents)) = (rest > 0) /\ n \in 0..(Len(Contents) - seen)
        BY <1>8, <1>9, <2>3, <2>4, <3>1
      <3>5. Queue!Gets(n, seen + n < Len(Contents))
        BY <3>3, <3>4
      <3>6. reader'.got = SubSeq(Contents, 1, seen + n)
        BY <1>5, <2>1, <2>6
      <3>7. Contents' = Contents
        BY <1>12, <2>1
      <3> QED BY <1>4, <1>5, <1>18, <1>14, <2>2, <3>4, <3>5, <3>6, <3>7 DEF Queue!Peek
    <2> QED BY <1>11, <2>7, <2>8 DEF QueueInv, QueueStep, Queue!Next
  <1>19. CASE ~reader.peek
    <2>1. Contents = ChunkOf(b, s, n) \o RingOf(b, h, m)
      BY <1>13, <1>19
    <2>2. /\ n \in 0..Len(Contents)
          /\ SubSeq(Contents, 1, n) = ChunkOf(b, s, n)
          /\ SubSeq(Contents, n + 1, Len(Contents)) = RingOf(b, h, m)
      BY <1>10, <2>1, TakeFront
    <2>3. Queue!Take
      <3>1. Front = head /\ m \in Nat
        BY <1>8, <1>19 DEF Front
      <3>2. Queue!Gets(n, m > 0)
        BY <1>7, <1>17, <3>1
      <3>3. Len(Contents) = n + m
        BY <1>10, <2>1, ConcatProperties
      <3>4. (n < Len(Contents)) = (m > 0)
        BY <1>9, <3>1, <3>3
      <3>5. Queue!Gets(n, n < Len(Contents))
        BY <3>2, <3>4
      <3> QED BY <1>4, <1>5, <1>12, <1>19, <1>14, <2>2, <3>5 DEF Queue!Take
    <2>4. Peeked'
      BY <1>5, <1>19 DEF Peeked
    <2> QED BY <1>11, <2>3, <2>4 DEF QueueInv, QueueStep, Queue!Next
  <1> QED BY <1>18, <1>19

(* Every step keeps the invariant and is one of the queue or leaves it.      *)
LEMMA NextQueues ==
  ASSUME ~EmptyReads, QueueInv, [Next]_vars
  PROVE  QueueInv' /\ QueueStep
  <1>1. IInv'
    BY NextIInv DEF QueueInv
  <1>2. CASE UNCHANGED vars
    <2>1. QueueInv'
      BY <1>1, <1>2 DEF vars, QueueInv, Exclusive, WriterDone, NoChunkYet,
                        ReaderHasBytes, Pushed, Peeked, Stored, Front
    <2>2. Contents' = Contents /\ Given' = Given /\ Wanted' = Wanted
      BY <1>2, ContentsValue, ContentsNext, GivenValue, GivenNext DEF vars, Wanted
    <2> QED BY <1>2, <2>1, <2>2 DEF vars, QueueStep, Queue!vars
  <1> QED
    BY <1>1, <1>2, WriteQueues, BeginReadQueues, PushAdvanceQueues, PushCopyQueues,
       ReadAdvanceQueues, ReadCopyQueues DEF Next

(* Whatever the sequence of writes, partial reads, peeks and wraps, the      *)
(* bytes each Write was given come out of Read once and in order, a Read or  *)
(* Peek gives all it was asked for or all there is, and Peek shows what the  *)
(* next Read takes: with callers that exclude each other and find bytes, as  *)
(* the chat's do, the ring of any length is a queue.                         *)
THEOREM BufferImplementsQueue ==
  ASSUME ~EmptyReads
  PROVE  Spec => ImplementsByteQueue
  <1>1. Init => QueueInv /\ Queue!Init
    BY InitQueue
  <1>2. QueueInv /\ [Next]_vars => QueueInv' /\ [Queue!Next]_(Queue!vars)
    BY NextQueues DEF QueueStep
  <1> QED BY <1>1, <1>2, PTL DEF Spec, ImplementsByteQueue, Queue!Spec
=============================================================================
