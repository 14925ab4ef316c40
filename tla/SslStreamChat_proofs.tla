------------------------- MODULE SslStreamChat_proofs -------------------------
(***************************************************************************)
(* The compressed stream: for any capacities, chunk and counts, what is      *)
(* under way is what was written last, in order; and a writer that keeps to  *)
(* what fits never leaves a lock held for good.                              *)
(* The chat: for any clients and sizes, every ping and every pong is under   *)
(* way once, and messages are cut where they begin.                          *)
(***************************************************************************)
EXTENDS CompressedStream, Chat, SequenceTheorems, FiniteSetTheorems, TLAPS

(* A remainder may be taken before an addition as well.                     *)
LEMMA ModuloAdds ==
  ASSUME NEW a \in Nat, NEW b \in Nat, NEW m \in Nat, m > 0
  PROVE  ((a % m) + b) % m = (a + b) % m
  <1> DEFINE r == a % m
             q == a \div m
             s == (r + b) % m
             p == (r + b) \div m
  <1>1. a = m * q + r /\ r \in 0..(m - 1) /\ q \in Int
    OBVIOUS
  <1>2. r + b = m * p + s /\ s \in 0..(m - 1) /\ p \in Int
    BY <1>1
  <1> HIDE DEF r, q, s, p
  <1>3. a + b = m * (q + p) + s /\ q + p \in Int
    BY <1>1, <1>2
  <1>4. \A u \in Int : \A v \in 0..(m - 1) : (m * u + v) % m = v
    OBVIOUS
  <1>5. (m * (q + p) + s) % m = s
    BY <1>2, <1>3, <1>4
  <1>6. (a + b) % m = s
    BY <1>3, <1>5
  <1> QED BY <1>6 DEF s, r

(* What First takes and what Rest leaves.                                   *)
LEMMA CutAtFirst ==
  ASSUME NEW S, NEW n \in Nat, NEW s \in Seq(S)
  PROVE  /\ First(n, s) \in Seq(S) /\ Rest(n, s) \in Seq(S)
         /\ First(n, s) \o Rest(n, s) = s
         /\ Len(First(n, s)) = IF n < Len(s) THEN n ELSE Len(s)
         /\ Len(Rest(n, s)) = IF n < Len(s) THEN Len(s) - n ELSE 0
  <1>1. Len(s) \in Nat /\ \A i \in 1..Len(s) : s[i] \in S
    BY ElementOfSeq
  <1>2. CASE n < Len(s)
    <2>1. First(n, s) = SubSeq(s, 1, n) /\ Rest(n, s) = SubSeq(s, n + 1, Len(s))
      BY <1>2 DEF First, Rest
    <2>2. SubSeq(s, 1, n) \in Seq(S) /\ Len(SubSeq(s, 1, n)) = n
      BY <1>1, <1>2, SubSeqProperties
    <2>3. SubSeq(s, n + 1, Len(s)) \in Seq(S) /\ Len(SubSeq(s, n + 1, Len(s))) = Len(s) - n
      BY <1>1, <1>2, SubSeqProperties
    <2>4. 1 \in 1..(Len(s) + 1) /\ n \in (1 - 1)..Len(s) /\ Len(s) \in n..Len(s)
      BY <1>1, <1>2
    <2>5. SubSeq(s, 1, n) \o SubSeq(s, n + 1, Len(s)) = SubSeq(s, 1, Len(s))
      BY <2>4, ConcatAdjacentSubSeq
    <2> QED BY <2>1, <2>2, <2>3, <2>5, <1>2, SubSeqFull
  <1>3. CASE ~(n < Len(s))
    <2>1. First(n, s) = s
      BY <1>3, SubSeqFull DEF First
    <2>2. Rest(n, s) = <<>>
      BY <1>1, <1>3, SubSeqEmpty DEF Rest
    <2> QED BY <2>1, <2>2, <1>1, <1>3, ConcatEmptySeq, EmptySeq
  <1> QED BY <1>2, <1>3

(* The two pieces of a sequence of bytes, the second the first's rest.       *)
LEMMA CutInTwo ==
  ASSUME NEW n \in Nat, NEW s \in Seq(Numbers)
  PROVE  \E x \in Seq(Numbers), y \in Seq(Numbers) :
           /\ x = First(n, s) /\ y = Rest(n, s)
           /\ x \o y = s
           /\ Len(x) <= Len(s) /\ Len(y) <= Len(s)
           /\ n > 0 /\ x = <<>> => s = <<>>
  <1>1. /\ First(n, s) \in Seq(Numbers) /\ Rest(n, s) \in Seq(Numbers)
        /\ First(n, s) \o Rest(n, s) = s
        /\ Len(First(n, s)) = IF n < Len(s) THEN n ELSE Len(s)
        /\ Len(Rest(n, s)) = IF n < Len(s) THEN Len(s) - n ELSE 0
    BY CutAtFirst
  <1>2. Len(First(n, s)) <= Len(s) /\ Len(Rest(n, s)) <= Len(s)
    BY <1>1
  <1>3. n > 0 /\ First(n, s) = <<>> => s = <<>>
    <2> SUFFICES ASSUME n > 0, First(n, s) = <<>> PROVE s = <<>>
      OBVIOUS
    <2>1. Len(s) = 0
      BY <1>1
    <2> QED BY <2>1, EmptySeq
  <1> QED BY <1>1, <1>2, <1>3

-----------------------------------------------------------------------------
(* A sequence whose last byte has the number before m, and so on backwards. *)
NumberedUpTo(s, m) ==
  \A i \in 1..Len(s) : (s[i] + Len(s) - i + 1) % ByteValues = m

(* Reading takes from the front and leaves the rest numbered.               *)
LEMMA NumberedRest ==
  ASSUME NEW x \in Seq(Numbers), NEW y \in Seq(Numbers), NEW m,
         NumberedUpTo(x \o y, m)
  PROVE  NumberedUpTo(y, m)
  <1> SUFFICES ASSUME NEW i \in 1..Len(y)
               PROVE  (y[i] + Len(y) - i + 1) % ByteValues = m
    BY DEF NumberedUpTo
  <1>1. Len(x) \in Nat /\ Len(y) \in Nat /\ y[i] \in Nat
    BY CompressedStreamAssumption, ElementOfSeq DEF Numbers
  <1> DEFINE j == Len(x) + i
  <1>2. /\ j \in 1..(Len(x) + Len(y)) /\ Len(x \o y) = Len(x) + Len(y)
        /\ (x \o y)[j] = y[i]
    <2>1. j \in 1..(Len(x) + Len(y)) /\ ~(j <= Len(x)) /\ j - Len(x) = i
      BY <1>1
    <2> QED BY <2>1, ConcatProperties
  <1>3. ((x \o y)[j] + Len(x \o y) - j + 1) % ByteValues = m
    BY <1>2 DEF NumberedUpTo
  <1>4. y[i] + (Len(x) + Len(y)) - j + 1 = y[i] + Len(y) - i + 1
    BY <1>1
  <1> QED BY <1>2, <1>3, <1>4

(* Writing goes on with the numbers.                                        *)
LEMMA NumberedWrite ==
  ASSUME NEW s \in Seq(Numbers), NEW m \in Numbers, NEW n \in Nat,
         NumberedUpTo(s, m)
  PROVE  LET w == [i \in 1..n |-> (m + i - 1) % ByteValues]
         IN  /\ w \in Seq(Numbers) /\ Len(w) = n
             /\ NumberedUpTo(s \o w, (m + n) % ByteValues)
  <1> DEFINE w == [i \in 1..n |-> (m + i - 1) % ByteValues]
  <1>1. ByteValues \in Nat /\ ByteValues > 0 /\ m \in Nat
    BY CompressedStreamAssumption DEF Numbers
  <1>2. ASSUME NEW i \in 1..n
        PROVE  (m + i - 1) \in Nat /\ (m + i - 1) % ByteValues \in Numbers
    <2>1. (m + i - 1) \in Nat
      BY <1>1
    <2> QED BY <2>1, <1>1 DEF Numbers
  <1>3. w \in [1..n -> Numbers]
    BY <1>2
  <1>4. w \in Seq(Numbers) /\ Len(w) = n /\ \A i \in 1..n : w[i] = (m + i - 1) % ByteValues
    BY <1>3
  <1> HIDE DEF w
  <1>5. ASSUME NEW i \in 1..Len(s \o w)
        PROVE  ((s \o w)[i] + Len(s \o w) - i + 1) % ByteValues = (m + n) % ByteValues
    <2>1. /\ Len(s) \in Nat /\ Len(s \o w) = Len(s) + n
          /\ (s \o w)[i] = IF i <= Len(s) THEN s[i] ELSE w[i - Len(s)]
      <3>1. /\ Len(s \o w) = Len(s) + n
            /\ \A j \in 1..(Len(s) + n) :
                 (s \o w)[j] = IF j <= Len(s) THEN s[j] ELSE w[j - Len(s)]
        BY <1>4, ConcatProperties
      <3>2. Len(s) \in Nat
        OBVIOUS
      <3> QED BY <3>1, <3>2
    <2>2. CASE i <= Len(s)
      <3>1. i \in 1..Len(s) /\ s[i] \in Nat
        BY <2>1, <2>2, ElementOfSeq, <1>1 DEF Numbers
      <3>2. PICK k \in Nat : k = s[i] + Len(s) - i + 1
        BY <2>1, <3>1
      <3>3. k % ByteValues = m
        BY <3>1, <3>2 DEF NumberedUpTo
      <3>4. ((k % ByteValues) + n) % ByteValues = (k + n) % ByteValues
        BY <1>1, ModuloAdds
      <3>5. s[i] + (Len(s) + n) - i + 1 = k + n
        BY <2>1, <3>1, <3>2
      <3> QED BY <2>1, <2>2, <3>3, <3>4, <3>5
    <2>3. CASE ~(i <= Len(s))
      <3>1. PICK j \in 1..n : j = i - Len(s)
        BY <2>1, <2>3
      <3>2. PICK a \in Nat : a = m + j - 1
        BY <1>2
      <3>3. PICK b \in Nat : b = n - j + 1
        BY <3>1
      <3>4. (s \o w)[i] = a % ByteValues /\ a % ByteValues \in Nat
        BY <1>1, <1>4, <2>1, <2>3, <3>1, <3>2
      <3>5. (a % ByteValues) + (Len(s) + n) - i + 1 = (a % ByteValues) + b
        BY <2>1, <3>1, <3>3, <3>4
      <3>6. ((a % ByteValues) + b) % ByteValues = (a + b) % ByteValues
        BY <1>1, ModuloAdds
      <3>7. a + b = m + n
        BY <1>1, <3>1, <3>2, <3>3
      <3> QED BY <2>1, <3>4, <3>5, <3>6, <3>7
    <2> QED BY <2>2, <2>3
  <1>6. NumberedUpTo(s \o w, (m + n) % ByteValues)
    BY <1>5 DEF NumberedUpTo
  <1> QED BY <1>4, <1>6 DEF w

-----------------------------------------------------------------------------
(* Joining two parts; the provers take it as an operator of its own.        *)
Cat(s, t) == s \o t

Joined(a, b, c, d, e) == Cat(Cat(Cat(Cat(a, b), c), d), e)

(* Joining bytes is associative and closed.                                 *)
LEMMA Associative ==
  ASSUME NEW s \in Seq(Numbers), NEW t \in Seq(Numbers), NEW u \in Seq(Numbers)
  PROVE  Cat(Cat(s, t), u) = Cat(s, Cat(t, u))
  BY ConcatAssociative DEF Cat

LEMMA Closed ==
  ASSUME NEW s \in Seq(Numbers), NEW t \in Seq(Numbers)
  PROVE  /\ Cat(s, t) \in Seq(Numbers)
         /\ Len(Cat(s, t)) = Len(s) + Len(t)
  BY ConcatProperties DEF Cat

AreBytes(a, b, c, d, e) ==
  /\ a \in Seq(Numbers) /\ b \in Seq(Numbers) /\ c \in Seq(Numbers)
  /\ d \in Seq(Numbers) /\ e \in Seq(Numbers)

(* Five parts joined are a sequence as long as the parts together.          *)
LEMMA JoinedParts ==
  ASSUME NEW a \in Seq(Numbers), NEW b \in Seq(Numbers), NEW c \in Seq(Numbers),
         NEW d \in Seq(Numbers), NEW e \in Seq(Numbers)
  PROVE  /\ Joined(a, b, c, d, e) \in Seq(Numbers)
         /\ Len(Joined(a, b, c, d, e)) = Len(a) + Len(b) + Len(c) + Len(d) + Len(e)
  <1>1. PICK p \in Seq(Numbers) : p = Cat(a, b) /\ Len(p) = Len(a) + Len(b)
    BY Closed
  <1>2. PICK q \in Seq(Numbers) : q = Cat(p, c) /\ Len(q) = Len(p) + Len(c)
    BY Closed
  <1>3. PICK r \in Seq(Numbers) : r = Cat(q, d) /\ Len(r) = Len(q) + Len(d)
    BY Closed
  <1>4. Joined(a, b, c, d, e) = Cat(r, e)
    BY <1>1, <1>2, <1>3 DEF Joined
  <1>5. Cat(r, e) \in Seq(Numbers) /\ Len(Cat(r, e)) = Len(r) + Len(e)
    BY Closed
  <1> QED BY <1>1, <1>2, <1>3, <1>4, <1>5

(* What is left of the parts is as well joined from the other end.          *)
LEMMA JoinedToFirst ==
  ASSUME NEW a, NEW b, NEW c, NEW d, NEW e, AreBytes(a, b, c, d, e)
  PROVE  \E z \in Seq(Numbers) :
           \A s \in Seq(Numbers) : Joined(s, b, c, d, e) = Cat(s, z)
  <1> USE DEF AreBytes
  <1>1. PICK x \in Seq(Numbers) : x = Cat(d, e)
    BY Closed
  <1>2. PICK y \in Seq(Numbers) : y = Cat(c, x)
    BY Closed
  <1>3. PICK z \in Seq(Numbers) : z = Cat(b, y)
    BY Closed
  <1>4. ASSUME NEW s \in Seq(Numbers)
        PROVE  Joined(s, b, c, d, e) = Cat(s, z)
    <2>1. PICK p \in Seq(Numbers) : p = Cat(s, b)
      BY Closed
    <2>2. PICK q \in Seq(Numbers) : q = Cat(p, c)
      BY Closed
    <2>3. Cat(Cat(q, d), e) = Cat(q, Cat(d, e))
      BY Associative
    <2>4. Cat(Cat(p, c), x) = Cat(p, Cat(c, x))
      BY Associative
    <2>5. Cat(Cat(s, b), y) = Cat(s, Cat(b, y))
      BY Associative
    <2> QED BY <1>1, <1>2, <1>3, <2>1, <2>2, <2>3, <2>4, <2>5 DEF Joined
  <1> QED BY <1>4

(* Bytes that move from the front of one part to the end of the part before *)
(* it stay where they are under way: Push, Receive, Send and Drain.         *)
LEMMA PushMoves ==
  ASSUME NEW a, NEW y, NEW c, NEW d, NEW e, AreBytes(a, y, c, d, e), NEW x \in Seq(Numbers)
  PROVE  Joined(Cat(a, x), y, c, d, e) = Joined(a, Cat(x, y), c, d, e)
  <1> USE DEF AreBytes
  <1>1. Cat(Cat(a, x), y) = Cat(a, Cat(x, y))
    BY Associative
  <1> QED BY <1>1 DEF Joined

LEMMA ReceiveMoves ==
  ASSUME NEW a, NEW b, NEW y, NEW d, NEW e, AreBytes(a, b, y, d, e), NEW x \in Seq(Numbers)
  PROVE  Joined(a, Cat(b, x), y, d, e) = Joined(a, b, Cat(x, y), d, e)
  <1> USE DEF AreBytes
  <1>1. PICK p \in Seq(Numbers) : p = Cat(a, b)
    BY Closed
  <1>2. Cat(Cat(a, b), x) = Cat(a, Cat(b, x))
    BY Associative
  <1>3. Cat(Cat(p, x), y) = Cat(p, Cat(x, y))
    BY Associative
  <1> QED BY <1>1, <1>2, <1>3 DEF Joined

LEMMA SendMoves ==
  ASSUME NEW a, NEW b, NEW c, NEW d, NEW e, AreBytes(a, b, c, d, e)
  PROVE  Joined(a, b, Cat(c, d), <<>>, e) = Joined(a, b, c, d, e)
  <1> USE DEF AreBytes
  <1>1. PICK p \in Seq(Numbers) : p = Cat(a, b)
    BY Closed
  <1>2. PICK q \in Seq(Numbers) : q = Cat(Cat(p, c), d)
    BY Closed
  <1>3. Cat(Cat(p, c), d) = Cat(p, Cat(c, d))
    BY Associative
  <1>4. Cat(q, <<>>) = q
    BY ConcatEmptySeq DEF Cat
  <1> QED BY <1>1, <1>2, <1>3, <1>4 DEF Joined

LEMMA DrainMoves ==
  ASSUME NEW a, NEW b, NEW c, NEW d, NEW y, AreBytes(a, b, c, d, y), NEW x \in Seq(Numbers)
  PROVE  Joined(a, b, c, Cat(d, x), y) = Joined(a, b, c, d, Cat(x, y))
  <1> USE DEF AreBytes
  <1>1. PICK p \in Seq(Numbers) : p = Cat(Cat(a, b), c)
    BY Closed
  <1>2. PICK q \in Seq(Numbers) : q = Cat(p, d)
    BY Closed
  <1>3. Cat(Cat(p, d), x) = Cat(p, Cat(d, x))
    BY Associative
  <1>4. Cat(Cat(q, x), y) = Cat(q, Cat(x, y))
    BY Associative
  <1> QED BY <1>1, <1>2, <1>3, <1>4 DEF Joined

(* What is written comes last of all.                                       *)
LEMMA WriteAppends ==
  ASSUME NEW a, NEW b, NEW c, NEW d, NEW e, AreBytes(a, b, c, d, e), NEW w \in Seq(Numbers)
  PROVE  Joined(a, b, c, d, Cat(e, w)) = Cat(Joined(a, b, c, d, e), w)
  <1> USE DEF AreBytes
  <1>1. PICK p \in Seq(Numbers) : p = Cat(Cat(a, b), c)
    BY Closed
  <1>2. PICK q \in Seq(Numbers) : q = Cat(p, d)
    BY Closed
  <1>3. Cat(q, Cat(e, w)) = Cat(Cat(q, e), w)
    BY Associative
  <1> QED BY <1>1, <1>2, <1>3 DEF Joined

-----------------------------------------------------------------------------
(* Whoever keeps to what fits has no more under way than the reading end    *)
(* holds.                                                                   *)
Fits == heeded => Len(UnderWay) <= ReadCapacity

(* WriteThread has a block only from the first round of its loop on.        *)
BlocksWhenDrained == sender.at \in {"test", "clear", "lock"} => sender.block = <<>>

IInv ==
  /\ TypeOK
  /\ NumberedUpTo(UnderWay, next)
  /\ Fits
  /\ BlocksWhenDrained
  /\ NobodyStuck

(* Types of the parts and of what they make up.                             *)
LEMMA Parts ==
  ASSUME TypeOK
  PROVE  /\ readbuffer \in Seq(Numbers) /\ receiver.block \in Seq(Numbers)
         /\ network \in Seq(Numbers) /\ sender.block \in Seq(Numbers)
         /\ writebuffer \in Seq(Numbers)
         /\ UnderWay = Joined(readbuffer, receiver.block, network, sender.block, writebuffer)
         /\ UnderWay \in Seq(Numbers)
         /\ Len(UnderWay) = Len(readbuffer) + Len(receiver.block) + Len(network)
                              + Len(sender.block) + Len(writebuffer)
  <1>1. /\ readbuffer \in Seq(Numbers) /\ receiver.block \in Seq(Numbers)
        /\ network \in Seq(Numbers) /\ sender.block \in Seq(Numbers)
        /\ writebuffer \in Seq(Numbers)
    BY DEF TypeOK
  <1>2. UnderWay = Joined(readbuffer, receiver.block, network, sender.block, writebuffer)
    BY DEF UnderWay, Joined, Cat
  <1>3. /\ Joined(readbuffer, receiver.block, network, sender.block, writebuffer) \in Seq(Numbers)
        /\ Len(Joined(readbuffer, receiver.block, network, sender.block, writebuffer)) =
             Len(readbuffer) + Len(receiver.block) + Len(network)
               + Len(sender.block) + Len(writebuffer)
    <2>1. PICK b \in Seq(Numbers), d \in Seq(Numbers) : b = receiver.block /\ d = sender.block
      BY <1>1
    <2>2. /\ Joined(readbuffer, b, network, d, writebuffer) \in Seq(Numbers)
          /\ Len(Joined(readbuffer, b, network, d, writebuffer)) =
               Len(readbuffer) + Len(b) + Len(network) + Len(d) + Len(writebuffer)
      BY <1>1, JoinedParts
    <2> QED BY <2>1, <2>2
  <1> QED BY <1>1, <1>2, <1>3

(* Lengths are natural, and the buffers keep to their capacities.           *)
LEMMA Sizes ==
  ASSUME TypeOK
  PROVE  /\ WriteCapacity \in Nat /\ ReadCapacity \in Nat
         /\ Len(writebuffer) <= WriteCapacity /\ Len(readbuffer) <= ReadCapacity
         /\ \A s \in Seq(Numbers) : Len(s) \in Nat
  <1>1. WriteCapacity \in Nat /\ ReadCapacity \in Nat
    BY CompressedStreamAssumption
  <1>2. \A s \in Seq(Numbers) : Len(s) \in Nat
    OBVIOUS
  <1> QED BY <1>1, <1>2 DEF TypeOK

(* A step that moves bytes without adding or taking any keeps the invariant. *)
LEMMA MoveKeeps ==
  ASSUME IInv, TypeOK', BlocksWhenDrained', NobodyStuck',
         UnderWay' = UnderWay, UNCHANGED <<next, heeded>>
  PROVE  IInv'
  <1>1. NumberedUpTo(UnderWay, next)'
    BY DEF IInv, NumberedUpTo
  <1>2. Fits'
    BY DEF IInv, Fits
  <1> QED BY <1>1, <1>2 DEF IInv

(* Nothing written yet.                                                     *)
LEMMA InitIInv == Init => IInv
  <1> SUFFICES ASSUME Init PROVE IInv
    OBVIOUS
  <1>1. /\ sender.block = <<>> /\ sender.at = "test"
        /\ receiver.block = <<>> /\ receiver.at = "receive"
    BY DEF Init, Thread
  <1>2. <<>> \in Seq(Numbers) /\ <<>> \in Seq(Nat) /\ Len(<<>>) = 0
    OBVIOUS
  <1>3. 0 \in Numbers /\ WriteCapacity \in Nat /\ ReadCapacity \in Nat
    BY CompressedStreamAssumption DEF Numbers
  <1>4. /\ {sender.block, receiver.block, network} \subseteq Seq(Numbers)
        /\ writebuffer \in Seq(Numbers) /\ readbuffer \in Seq(Numbers) /\ headers \in Seq(Nat)
        /\ Len(writebuffer) <= WriteCapacity /\ Len(readbuffer) <= ReadCapacity
        /\ next \in Numbers /\ marked \in Nat
    <2>1. writebuffer = <<>> /\ readbuffer = <<>> /\ headers = <<>> /\ network = <<>>
          /\ next = 0 /\ marked = 0
      BY DEF Init
    <2>2. {sender.block, receiver.block, network} \subseteq Seq(Numbers)
      BY <1>1, <1>2, <2>1
    <2>3. writebuffer \in Seq(Numbers) /\ readbuffer \in Seq(Numbers) /\ headers \in Seq(Nat)
      BY <1>2, <2>1
    <2> QED BY <1>2, <1>3, <2>1, <2>2, <2>3
  <1>5. TypeOK
    BY <1>1, <1>4 DEF Init, TypeOK
  <1>6. Len(UnderWay) = 0
    <2>1. Len(UnderWay) = Len(readbuffer) + Len(receiver.block) + Len(network)
                            + Len(sender.block) + Len(writebuffer)
      BY <1>5, Parts
    <2> QED BY <1>1, <1>2, <2>1 DEF Init
  <1>7. NumberedUpTo(UnderWay, next)
    BY <1>6 DEF NumberedUpTo
  <1> QED BY <1>1, <1>3, <1>5, <1>6, <1>7 DEF Init, IInv, Fits, BlocksWhenDrained, NobodyStuck

-----------------------------------------------------------------------------
(* The application writes what fits, numbered on; or its Write throws.      *)
LEMMA WriteKeeps ==
  ASSUME IInv, NEW n \in Counts, Write(n)
  PROVE  IInv'
  <1>1. n \in Nat /\ ByteValues \in Nat /\ ByteValues > 0 /\ WriteCapacity \in Nat
    BY CompressedStreamAssumption
  <1>2. TypeOK /\ NumberedUpTo(UnderWay, next) /\ Fits /\ BlocksWhenDrained /\ NobodyStuck
    BY DEF IInv
  <1>3. /\ UNCHANGED <<flush, sender, network, headers, receiver, marked>>
        /\ UNCHANGED <<readbuffer, readlock>>
        /\ writelock = "free"
    BY DEF Write, readVars
  <1>4. CASE Len(writebuffer) + n <= WriteCapacity
    <2> DEFINE w == [i \in 1..n |-> (next + i - 1) % ByteValues]
    <2>1. /\ writebuffer' = writebuffer \o w
          /\ next' = (next + n) % ByteValues
          /\ heeded' = (heeded /\ Len(UnderWay) + n <= ReadCapacity)
          /\ writelock' = writelock
      BY <1>4, <1>2, <1>1 DEF Write, TypeOK
    <2>2. next \in Numbers /\ next \in Nat /\ UnderWay \in Seq(Numbers)
      <3>1. next \in Numbers
        BY <1>2 DEF TypeOK
      <3>2. next \in Nat
        BY <1>1, <3>1 DEF Numbers
      <3> QED BY <1>2, <3>1, <3>2, Parts
    <2>3. /\ w \in Seq(Numbers) /\ Len(w) = n
          /\ NumberedUpTo(UnderWay \o w, (next + n) % ByteValues)
      BY <1>1, <1>2, <2>2, NumberedWrite
    <2> HIDE DEF w
    <2>4. writebuffer' \in Seq(Numbers) /\ Len(writebuffer') = Len(writebuffer) + n
      BY <1>2, <2>1, <2>3, Parts, Closed DEF Cat
    <2>5. next' \in Numbers
      BY <1>1, <2>1, <2>2 DEF Numbers
    <2>6. TypeOK'
      BY <1>2, <1>3, <1>4, <2>1, <2>4, <2>5 DEF TypeOK
    <2>7. UnderWay' = UnderWay \o w
      <3>1. PICK b \in Seq(Numbers), d \in Seq(Numbers) : b = receiver.block /\ d = sender.block
        BY <1>2, Parts
      <3>2. /\ readbuffer \in Seq(Numbers) /\ network \in Seq(Numbers)
            /\ writebuffer \in Seq(Numbers)
        BY <1>2, Parts
      <3>3. Joined(readbuffer, b, network, d, Cat(writebuffer, w))
              = Cat(Joined(readbuffer, b, network, d, writebuffer), w)
        <4>1. AreBytes(readbuffer, b, network, d, writebuffer)
          BY <3>1, <3>2 DEF AreBytes
        <4> QED BY <4>1, <2>3, WriteAppends
      <3> QED BY <1>3, <2>1, <3>1, <3>3 DEF UnderWay, Joined, Cat
    <2>8. NumberedUpTo(UnderWay, next)'
      BY <2>1, <2>3, <2>7 DEF NumberedUpTo
    <2>9. Len(UnderWay') = Len(UnderWay) + n
      BY <2>2, <2>3, <2>7, Closed DEF Cat
    <2>10. Fits'
      BY <2>1, <2>9 DEF Fits
    <2>11. BlocksWhenDrained' /\ NobodyStuck'
      BY <1>2, <1>3, <2>1 DEF BlocksWhenDrained, NobodyStuck
    <2> QED BY <2>6, <2>8, <2>10, <2>11 DEF IInv
  <1>5. CASE ~(Len(writebuffer) + n <= WriteCapacity)
    <2>1. writelock' = "stuck" /\ heeded' = FALSE /\ UNCHANGED <<writebuffer, next>>
      BY <1>5 DEF Write
    <2>2. TypeOK'
      BY <1>2, <1>3, <2>1 DEF TypeOK
    <2>3. UnderWay' = UnderWay
      BY <1>3, <2>1 DEF UnderWay
    <2> QED BY <1>2, <1>3, <2>1, <2>2, <2>3
            DEF IInv, NumberedUpTo, Fits, BlocksWhenDrained, NobodyStuck
  <1> QED BY <1>4, <1>5

(* The application reads from the front; the rest stays numbered.           *)
LEMMA ReadKeeps ==
  ASSUME IInv, NEW n \in Counts, Read(n)
  PROVE  IInv'
  <1>1. n \in Nat
    BY CompressedStreamAssumption
  <1>2. TypeOK /\ NumberedUpTo(UnderWay, next) /\ Fits /\ BlocksWhenDrained /\ NobodyStuck
    BY DEF IInv
  <1>3. /\ UNCHANGED <<next, writebuffer, writelock, flush>>
        /\ UNCHANGED <<sender, network, headers, receiver, readlock, heeded>>
        /\ readbuffer' = Rest(n, readbuffer)
    BY DEF Read, writeVars
  <1>4. /\ readbuffer \in Seq(Numbers) /\ network \in Seq(Numbers)
        /\ writebuffer \in Seq(Numbers)
    BY <1>2, Parts
  <1>5. PICK b \in Seq(Numbers), d \in Seq(Numbers) : b = receiver.block /\ d = sender.block
    BY <1>2, Parts
  <1>6. PICK x \in Seq(Numbers), y \in Seq(Numbers) :
          /\ x = First(n, readbuffer) /\ y = Rest(n, readbuffer)
          /\ x \o y = readbuffer /\ Len(y) <= Len(readbuffer)
    BY <1>1, <1>4, CutInTwo
  <1>7. PICK z \in Seq(Numbers) :
          \A s \in Seq(Numbers) : Joined(s, b, network, d, writebuffer) = Cat(s, z)
    <2>1. AreBytes(readbuffer, b, network, d, writebuffer)
      BY <1>4, <1>5 DEF AreBytes
    <2> QED BY <2>1, JoinedToFirst
  <1>8. UnderWay = Cat(readbuffer, z)
    BY <1>4, <1>5, <1>7 DEF UnderWay, Joined, Cat
  <1>9. UnderWay' = Cat(y, z)
    BY <1>3, <1>5, <1>6, <1>7 DEF UnderWay, Joined, Cat
  <1>10. Cat(readbuffer, z) = Cat(x, Cat(y, z))
    <2>1. Cat(Cat(x, y), z) = Cat(x, Cat(y, z))
      BY Associative
    <2> QED BY <1>6, <2>1 DEF Cat
  <1>11. PICK u \in Seq(Numbers) : u = Cat(y, z) /\ Len(u) = Len(y) + Len(z)
    BY Closed
  <1>12. NumberedUpTo(UnderWay, next)'
    <2>1. UnderWay = x \o u /\ UnderWay' = u
      BY <1>8, <1>9, <1>10, <1>11 DEF Cat
    <2>2. NumberedUpTo(x \o u, next)
      BY <1>2, <2>1
    <2>3. NumberedUpTo(u, next)
      BY <2>2, NumberedRest
    <2> QED BY <2>1, <2>3, <1>3 DEF NumberedUpTo
  <1>13. Len(UnderWay') <= Len(UnderWay)
    <2>1. Len(Cat(readbuffer, z)) = Len(readbuffer) + Len(z)
      BY <1>4, Closed
    <2> QED BY <2>1, <1>4, <1>6, <1>8, <1>9, <1>11
  <1>14. marked' \in Nat
    <2>1. Len(readbuffer) - Len(readbuffer') \in Nat /\ marked \in Nat
      BY <1>2, <1>3, <1>4, <1>6 DEF TypeOK
    <2> QED BY <2>1 DEF Read
  <1>15. TypeOK'
    <2>1. readbuffer' \in Seq(Numbers) /\ Len(readbuffer') <= ReadCapacity
      BY <1>2, <1>3, <1>4, <1>6, CompressedStreamAssumption DEF TypeOK
    <2> QED BY <1>2, <1>3, <1>14, <2>1 DEF TypeOK
  <1>16. Fits'
    <2>1. Len(UnderWay) \in Nat /\ Len(UnderWay') \in Nat /\ ReadCapacity \in Nat
      BY <1>2, <1>9, <1>11, Parts, CompressedStreamAssumption
    <2> QED BY <1>2, <1>3, <1>13, <2>1 DEF Fits
  <1>17. BlocksWhenDrained' /\ NobodyStuck'
    BY <1>2, <1>3 DEF BlocksWhenDrained, NobodyStuck
  <1> QED BY <1>12, <1>15, <1>16, <1>17 DEF IInv

-----------------------------------------------------------------------------
(* Flush, and the steps of the threads that move no bytes.                  *)
LEMMA PlainStepKeeps ==
  ASSUME IInv, Flush \/ StartBlock \/ ClearFlush \/ TakeWriteLock \/ TakeReadLock
  PROVE  IInv'
  <1>1. TypeOK /\ BlocksWhenDrained /\ NobodyStuck
    BY DEF IInv
  <1>2. /\ UNCHANGED <<next, writebuffer, network, headers, readbuffer, heeded>>
        /\ sender'.block = sender.block
        /\ receiver'.block = receiver.block
        /\ sender'.block \in Seq(Numbers) /\ receiver'.block \in Seq(Numbers)
    <2>1. Thread("clear", <<>>).block = <<>> /\ Thread("lock", <<>>).block = <<>>
          /\ Thread("drain", <<>>).block = <<>>
          /\ Thread("push", receiver.block).block = receiver.block
      BY DEF Thread
    <2>2. receiver.block \in Seq(Numbers) /\ sender.block \in Seq(Numbers)
      BY <1>1, Parts
    <2> QED BY <1>1, <2>1, <2>2
            DEF Flush, StartBlock, ClearFlush, TakeWriteLock, TakeReadLock, BlocksWhenDrained,
                writeVars, readVars
  <1>3. /\ sender'.at \in {"test", "clear", "lock", "drain", "send"}
        /\ receiver'.at \in {"receive", "lock", "push", "gone"}
        /\ writelock' \in {"free", "thread", "stuck"} /\ readlock' \in {"free", "thread", "stuck"}
        /\ writelock' = "thread" <=> sender'.at = "drain"
        /\ readlock' = "thread" <=> receiver'.at = "push"
        /\ flush' \in BOOLEAN
        /\ writelock' = "stuck" => writelock = "stuck"
        /\ readlock' = "stuck" => readlock = "stuck"
    <2>1. Thread("clear", <<>>).at = "clear" /\ Thread("lock", <<>>).at = "lock"
          /\ Thread("drain", <<>>).at = "drain"
          /\ Thread("push", receiver.block).at = "push"
      BY DEF Thread
    <2> QED BY <1>1, <2>1
            DEF TypeOK, Flush, StartBlock, ClearFlush, TakeWriteLock, TakeReadLock,
                writeVars, readVars
  <1>4. marked' \in Nat
    <2>1. Len(UnderWay) \in Nat
      BY <1>1, Parts
    <2> QED BY <1>1, <2>1
            DEF TypeOK, Flush, StartBlock, ClearFlush, TakeWriteLock, TakeReadLock
  <1>5. TypeOK'
    BY <1>1, <1>2, <1>3, <1>4 DEF TypeOK
  <1>6. UnderWay' = UnderWay
    BY <1>2 DEF UnderWay
  <1>7. NobodyStuck'
    BY <1>1, <1>2, <1>3 DEF NobodyStuck
  <1>8. BlocksWhenDrained'
    <2>1. sender'.at \in {"test", "clear", "lock"} => sender.at \in {"test", "clear", "lock"}
      BY DEF Flush, StartBlock, ClearFlush, TakeWriteLock, TakeReadLock, Thread
    <2> QED BY <1>1, <1>2, <2>1 DEF BlocksWhenDrained
  <1> QED BY <1>2, <1>5, <1>6, <1>7, <1>8, MoveKeeps

(* A round of the loop that empties the buffer.                             *)
LEMMA DrainKeeps ==
  ASSUME IInv, Drain
  PROVE  IInv'
  <1>1. TypeOK /\ BlocksWhenDrained /\ NobodyStuck
    BY DEF IInv
  <1>2. /\ UNCHANGED <<next, flush, network, headers, receiver, marked, heeded>>
        /\ UNCHANGED <<readbuffer, readlock>>
        /\ sender.at = "drain" /\ writelock = "thread"
    BY <1>1 DEF Drain, readVars, TypeOK
  <1>3. PICK b \in Seq(Numbers), d \in Seq(Numbers) : b = receiver.block /\ d = sender.block
    BY <1>1, Parts
  <1>4. readbuffer \in Seq(Numbers) /\ network \in Seq(Numbers) /\ writebuffer \in Seq(Numbers)
    BY <1>1, Parts
  <1>5. PICK x \in Seq(Numbers), y \in Seq(Numbers) :
          /\ x = First(Chunk, writebuffer) /\ y = Rest(Chunk, writebuffer)
          /\ x \o y = writebuffer /\ Len(y) <= Len(writebuffer)
    BY <1>4, CutInTwo, CompressedStreamAssumption
  <1>6. CASE writebuffer # <<>>
    <2>1. /\ sender' = Thread("drain", d \o x) /\ writebuffer' = y
          /\ writelock' = writelock
      BY <1>3, <1>5, <1>6 DEF Drain
    <2>2. sender'.at = "drain" /\ sender'.block = Cat(d, x)
      BY <2>1 DEF Thread, Cat
    <2>3. Cat(d, x) \in Seq(Numbers)
      BY Closed
    <2>4. TypeOK'
      <3>1. writebuffer' \in Seq(Numbers) /\ Len(writebuffer') <= WriteCapacity
        <4>1. /\ Len(writebuffer) <= WriteCapacity /\ Len(writebuffer) \in Nat
              /\ Len(y) \in Nat /\ WriteCapacity \in Nat
          BY <1>1, <1>4, Sizes
        <4> QED BY <1>5, <2>1, <4>1
      <3>2. {sender'.block, receiver'.block, network'} \subseteq Seq(Numbers)
        BY <1>2, <1>3, <1>4, <2>2, <2>3
      <3> QED BY <1>1, <1>2, <2>1, <2>2, <3>1, <3>2 DEF TypeOK
    <2>5. UnderWay' = UnderWay
      <3>1. AreBytes(readbuffer, b, network, d, y)
        BY <1>4 DEF AreBytes
      <3>2. Joined(readbuffer, b, network, Cat(d, x), y)
              = Joined(readbuffer, b, network, d, Cat(x, y))
        BY <3>1, DrainMoves
      <3> QED BY <1>2, <1>3, <1>5, <2>1, <2>2, <3>2 DEF UnderWay, Joined, Cat
    <2>6. BlocksWhenDrained' /\ NobodyStuck'
      BY <1>1, <1>2, <2>1, <2>2 DEF BlocksWhenDrained, NobodyStuck
    <2> QED BY <1>2, <2>4, <2>5, <2>6, MoveKeeps
  <1>7. CASE writebuffer = <<>>
    <2>1. sender' = Thread("send", d) /\ writelock' = "free" /\ writebuffer' = writebuffer
      BY <1>3, <1>7 DEF Drain
    <2>2. sender'.at = "send" /\ sender'.block = d
      BY <2>1 DEF Thread
    <2>3. TypeOK'
      BY <1>1, <1>2, <2>1, <2>2 DEF TypeOK
    <2>4. UnderWay' = UnderWay
      BY <1>2, <1>3, <2>1, <2>2 DEF UnderWay
    <2>5. BlocksWhenDrained' /\ NobodyStuck'
      BY <1>1, <1>2, <2>1, <2>2 DEF BlocksWhenDrained, NobodyStuck
    <2> QED BY <1>2, <2>3, <2>4, <2>5, MoveKeeps
  <1> QED BY <1>6, <1>7

(* The block goes on its way.                                               *)
LEMMA SendKeeps ==
  ASSUME IInv, Send
  PROVE  IInv'
  <1>1. TypeOK /\ BlocksWhenDrained /\ NobodyStuck
    BY DEF IInv
  <1>2. /\ UNCHANGED <<next, writebuffer, writelock, flush, receiver, marked, heeded>>
        /\ UNCHANGED <<readbuffer, readlock>>
        /\ sender.at = "send" /\ sender' = Thread("test", <<>>)
        /\ network' = network \o sender.block
        /\ headers' = Append(headers, Len(sender.block))
    BY DEF Send, readVars, writeVars
  <1>3. PICK b \in Seq(Numbers), d \in Seq(Numbers) : b = receiver.block /\ d = sender.block
    BY <1>1, Parts
  <1>4. readbuffer \in Seq(Numbers) /\ network \in Seq(Numbers) /\ writebuffer \in Seq(Numbers)
    BY <1>1, Parts
  <1>5. sender'.at = "test" /\ sender'.block = <<>> /\ <<>> \in Seq(Numbers)
    BY <1>2 DEF Thread
  <1>6. network' = Cat(network, d) /\ Cat(network, d) \in Seq(Numbers)
    BY <1>2, <1>3, <1>4, Closed DEF Cat
  <1>7. headers' \in Seq(Nat)
    BY <1>1, <1>2, <1>3, AppendProperties DEF TypeOK
  <1>8. TypeOK'
    BY <1>1, <1>2, <1>5, <1>6, <1>7 DEF TypeOK
  <1>9. UnderWay' = UnderWay
    <2>1. AreBytes(readbuffer, b, network, d, writebuffer)
      BY <1>4 DEF AreBytes
    <2>2. Joined(readbuffer, b, Cat(network, d), <<>>, writebuffer)
            = Joined(readbuffer, b, network, d, writebuffer)
      BY <2>1, SendMoves
    <2> QED BY <1>2, <1>3, <1>5, <1>6, <2>2 DEF UnderWay, Joined, Cat
  <1>10. BlocksWhenDrained' /\ NobodyStuck'
    BY <1>1, <1>2, <1>5 DEF BlocksWhenDrained, NobodyStuck
  <1> QED BY <1>2, <1>8, <1>9, <1>10, MoveKeeps

(* The next bytes of a block arrive.                                        *)
LEMMA ReceiveKeeps ==
  ASSUME IInv, NEW n \in 1..WriteCapacity, Receive(n)
  PROVE  IInv'
  <1>1. TypeOK /\ BlocksWhenDrained /\ NobodyStuck
    BY DEF IInv
  <1>2. /\ UNCHANGED <<next, writebuffer, writelock, flush, sender, marked, heeded>>
        /\ UNCHANGED <<readbuffer, readlock>>
        /\ receiver.at = "receive" /\ headers # <<>>
        /\ network' = Rest(n, network)
        /\ n \in Nat
    BY CompressedStreamAssumption DEF Receive, readVars, writeVars
  <1>3. PICK b \in Seq(Numbers), d \in Seq(Numbers) : b = receiver.block /\ d = sender.block
    BY <1>1, Parts
  <1>4. readbuffer \in Seq(Numbers) /\ network \in Seq(Numbers) /\ writebuffer \in Seq(Numbers)
    BY <1>1, Parts
  <1>5. PICK x \in Seq(Numbers), y \in Seq(Numbers) :
          /\ x = First(n, network) /\ y = Rest(n, network)
          /\ x \o y = network /\ Len(y) <= Len(network)
    BY <1>2, <1>4, CutInTwo
  <1>6. headers \in Seq(Nat) /\ Head(headers) \in Nat /\ Tail(headers) \in Seq(Nat)
    BY <1>1, <1>2, HeadTailProperties DEF TypeOK
  <1>7. PICK left \in Nat : left = Head(headers) - n
    <2>1. n <= Len(First(Head(headers), network))
      BY DEF Receive
    <2>2. Len(First(Head(headers), network)) =
            IF Head(headers) < Len(network) THEN Head(headers) ELSE Len(network)
      BY <1>4, <1>6, CutAtFirst
    <2>3. Len(network) \in Nat
      BY <1>1, <1>4, Sizes
    <2>4. n <= Head(headers)
      BY <1>2, <1>6, <2>1, <2>2, <2>3
    <2>5. Head(headers) - n \in Nat
      BY <1>2, <1>6, <2>4
    <2> QED BY <2>5
  <1>8. /\ \/ receiver' = Thread("lock", b \o x) /\ headers' = Tail(headers)
           \/ receiver' = Thread("receive", b \o x) /\ headers' = [headers EXCEPT ![1] = left]
    BY <1>3, <1>5, <1>7 DEF Receive
  <1>9. receiver'.at \in {"lock", "receive"} /\ receiver'.block = Cat(b, x)
    BY <1>8 DEF Thread, Cat
  <1>10. headers' \in Seq(Nat)
    <2>1. 1 \in 1..Len(headers)
      BY <1>2, <1>6
    <2>2. [headers EXCEPT ![1] = left] \in Seq(Nat)
      BY <1>6, <2>1, ExceptSeq
    <2> QED BY <1>6, <1>8, <2>2
  <1>11. Cat(b, x) \in Seq(Numbers)
    BY Closed
  <1>12. readlock # "thread"
    BY <1>1, <1>2 DEF TypeOK
  <1>13. TypeOK'
    BY <1>1, <1>2, <1>5, <1>9, <1>10, <1>11, <1>12 DEF TypeOK
  <1>14. UnderWay' = UnderWay
    <2>1. AreBytes(readbuffer, b, y, d, writebuffer)
      BY <1>4 DEF AreBytes
    <2>2. Joined(readbuffer, Cat(b, x), y, d, writebuffer)
            = Joined(readbuffer, b, Cat(x, y), d, writebuffer)
      BY <2>1, ReceiveMoves
    <2> QED BY <1>2, <1>3, <1>5, <1>9, <2>2 DEF UnderWay, Joined, Cat
  <1>15. BlocksWhenDrained' /\ NobodyStuck'
    BY <1>1, <1>2 DEF BlocksWhenDrained, NobodyStuck
  <1> QED BY <1>2, <1>13, <1>14, <1>15, MoveKeeps

(* A chunk of the block goes into the buffer.  It has room there as long as *)
(* no more is under way than the buffer holds.                              *)
LEMMA PushKeeps ==
  ASSUME IInv, Push
  PROVE  IInv'
  <1>1. TypeOK /\ Fits /\ BlocksWhenDrained /\ NobodyStuck
    BY DEF IInv
  <1>2. /\ UNCHANGED <<next, writebuffer, writelock, flush, sender, network, headers>>
        /\ UNCHANGED <<marked, heeded>>
        /\ receiver.at = "push" /\ readlock = "thread"
    BY <1>1 DEF Push, writeVars, TypeOK
  <1>3. PICK b \in Seq(Numbers), d \in Seq(Numbers) : b = receiver.block /\ d = sender.block
    BY <1>1, Parts
  <1>4. readbuffer \in Seq(Numbers) /\ network \in Seq(Numbers) /\ writebuffer \in Seq(Numbers)
    BY <1>1, Parts
  <1>5. PICK x \in Seq(Numbers), y \in Seq(Numbers) :
          /\ x = First(Chunk, b) /\ y = Rest(Chunk, b)
          /\ x \o y = b /\ (x = <<>> => b = <<>>) /\ Len(x) <= Len(b)
    <2>1. Chunk \in Nat /\ Chunk > 0
      BY CompressedStreamAssumption
    <2> QED BY <2>1, CutInTwo
  <1>6. CASE x = <<>>
    <2>1. receiver' = Thread("receive", <<>>) /\ readlock' = "free" /\ readbuffer' = readbuffer
      BY <1>3, <1>5, <1>6 DEF Push
    <2>2. receiver'.at = "receive" /\ receiver'.block = b
      BY <1>5, <1>6, <2>1 DEF Thread
    <2>3. TypeOK'
      BY <1>1, <1>2, <2>1, <2>2 DEF TypeOK
    <2>4. UnderWay' = UnderWay
      BY <1>2, <1>3, <2>1, <2>2 DEF UnderWay
    <2>5. BlocksWhenDrained' /\ NobodyStuck'
      BY <1>1, <1>2, <2>1 DEF BlocksWhenDrained, NobodyStuck
    <2> QED BY <1>2, <2>3, <2>4, <2>5, MoveKeeps
  <1>7. CASE x # <<>> /\ Len(readbuffer) + Len(x) <= ReadCapacity
    <2>1. receiver' = Thread("push", y) /\ readlock' = readlock /\ readbuffer' = readbuffer \o x
      BY <1>3, <1>5, <1>7 DEF Push
    <2>2. receiver'.at = "push" /\ receiver'.block = y /\ readbuffer' = Cat(readbuffer, x)
      BY <2>1 DEF Thread, Cat
    <2>3. Cat(readbuffer, x) \in Seq(Numbers)
          /\ Len(Cat(readbuffer, x)) = Len(readbuffer) + Len(x)
      BY <1>4, Closed
    <2>4. TypeOK'
      BY <1>1, <1>2, <1>7, <2>1, <2>2, <2>3 DEF TypeOK
    <2>5. UnderWay' = UnderWay
      <3>1. AreBytes(readbuffer, y, network, d, writebuffer)
        BY <1>4 DEF AreBytes
      <3>2. Joined(Cat(readbuffer, x), y, network, d, writebuffer)
              = Joined(readbuffer, Cat(x, y), network, d, writebuffer)
        BY <3>1, PushMoves
      <3> QED BY <1>2, <1>3, <1>5, <2>2, <3>2 DEF UnderWay, Joined, Cat
    <2>6. BlocksWhenDrained' /\ NobodyStuck'
      BY <1>1, <1>2, <2>1 DEF BlocksWhenDrained, NobodyStuck
    <2> QED BY <1>2, <2>4, <2>5, <2>6, MoveKeeps
  <1>8. CASE x # <<>> /\ ~(Len(readbuffer) + Len(x) <= ReadCapacity)
    <2>1. receiver' = Thread("gone", b) /\ readlock' = "stuck" /\ readbuffer' = readbuffer
      BY <1>3, <1>5, <1>8 DEF Push
    <2>2. receiver'.at = "gone" /\ receiver'.block = b
      BY <2>1 DEF Thread
    <2>3. TypeOK'
      BY <1>1, <1>2, <2>1, <2>2 DEF TypeOK
    <2>4. UnderWay' = UnderWay
      BY <1>2, <1>3, <2>1, <2>2 DEF UnderWay
    <2>5. ~heeded
      <3>1. Len(UnderWay) = Len(readbuffer) + Len(b) + Len(network) + Len(d) + Len(writebuffer)
        BY <1>1, <1>3, Parts
      <3>2. Len(x) <= Len(b)
        BY <1>5
      <3>3. /\ Len(readbuffer) \in Nat /\ Len(b) \in Nat /\ Len(network) \in Nat
            /\ Len(d) \in Nat /\ Len(writebuffer) \in Nat /\ Len(x) \in Nat
            /\ ReadCapacity \in Nat
        BY <1>1, <1>4, Sizes
      <3>4. ~(Len(UnderWay) <= ReadCapacity)
        BY <1>8, <3>1, <3>2, <3>3
      <3> QED BY <1>1, <3>4 DEF Fits
    <2>6. BlocksWhenDrained' /\ NobodyStuck'
      BY <1>1, <1>2, <2>5 DEF BlocksWhenDrained, NobodyStuck, TypeOK
    <2> QED BY <1>2, <2>3, <2>4, <2>6, MoveKeeps
  <1> QED BY <1>6, <1>7, <1>8

-----------------------------------------------------------------------------
(* The invariant is inductive.                                              *)
THEOREM Invariance == Spec => []IInv
  <1>1. IInv /\ [Next]_vars => IInv'
    <2> SUFFICES ASSUME IInv, [Next]_vars PROVE IInv'
      OBVIOUS
    <2>1. CASE Next
      BY <2>1, WriteKeeps, ReadKeeps, PlainStepKeeps, DrainKeeps, SendKeeps,
         ReceiveKeeps, PushKeeps
      DEF Next, SenderStep, ReceiverStep
    <2>2. CASE UNCHANGED vars
      BY <2>2 DEF vars, writeVars, readVars, IInv, TypeOK, UnderWay, NumberedUpTo, Fits,
                  BlocksWhenDrained, NobodyStuck
    <2> QED BY <2>1, <2>2
  <1> QED BY <1>1, InitIInv, PTL DEF Spec

(* Types, the capacities of both buffers, and who holds which lock.         *)
THEOREM TypeCorrect == Spec => []TypeOK
  <1>1. IInv => TypeOK
    BY DEF IInv
  <1> QED BY <1>1, Invariance, PTL

(* Whatever threads, blocks and chunks have cut the bytes into, they are    *)
(* under way each once and in the order they were written.                  *)
THEOREM BytesInOrder == Spec => []NothingLost
  <1>1. IInv => NothingLost
    BY Parts DEF IInv, NumberedUpTo, NothingLost
  <1> QED BY <1>1, Invariance, PTL

(* A writer that keeps to what fits leaves both locks to be taken again.    *)
THEOREM LocksComeFree == Spec => []NobodyStuck
  <1>1. IInv => NobodyStuck
    BY DEF IInv
  <1> QED BY <1>1, Invariance, PTL

-----------------------------------------------------------------------------
(* The chat.  Sequences of cells, of any number of messages.                *)
Cells == [kind : {"text", "ping", "pong"}, part : Nat]

(* Cells that are whole messages, the first one's first cell in front.      *)
Framed(s) ==
  /\ Len(s) % MessageCells = 0
  /\ \A i \in 1..Len(s) : s[i].part = ((i - 1) % MessageCells) + 1

Begins(kind, s) == {i \in 1..Len(s) : s[i] = Cell(kind, 1)}

(* What is m times something has no remainder, and no more of these lie      *)
(* below n times m than n.                                                   *)
LEMMA Multiples ==
  ASSUME NEW m \in Nat, m > 0
  PROVE  /\ \A q \in Int : \A r \in 0..(m - 1) : (m * q + r) % m = r
         /\ \A a \in Int : \A b \in Int : m * a < m * b => a < b
         /\ \A a \in Int : \A b \in Int : m * a = m * b => a = b
         /\ \A n \in Nat : n * m \in Nat /\ m * n = n * m
         /\ \A a \in Nat : a % m = 0 => \E q \in Nat : a = m * q
  <1>1. \A q \in Int : \A r \in 0..(m - 1) : (m * q + r) % m = r
    OBVIOUS
  <1>2. ASSUME NEW a \in Int, NEW b \in Int, m * a < m * b
        PROVE  a < b
    <2> SUFFICES ASSUME a >= b PROVE FALSE
      OBVIOUS
    <2>1. PICK d \in Nat : a = b + d
      OBVIOUS
    <2>2. m * a = m * b + m * d /\ m * d >= 0
      BY <2>1
    <2> QED BY <2>2, <1>2
  <1>3. \A n \in Nat : n * m \in Nat /\ m * n = n * m
    OBVIOUS
  <1>4. ASSUME NEW a \in Nat, a % m = 0
        PROVE  \E q \in Nat : a = m * q
    <2>1. a = m * (a \div m) + (a % m) /\ (a \div m) \in Int
      OBVIOUS
    <2>2. (a \div m) >= 0
      OBVIOUS
    <2> QED BY <2>1, <2>2, <1>4
  <1>5. ASSUME NEW a \in Int, NEW b \in Int, m * a = m * b
        PROVE  a = b
    <2>1. \A d \in Nat : d > 0 => m * d > 0
      OBVIOUS
    <2>2. \A c \in Int : \A d \in Nat : m * (c + d) = m * c + m * d /\ m * c \in Int
      OBVIOUS
    <2>3. CASE a < b
      <3>1. b - a \in Nat /\ b - a > 0 /\ a + (b - a) = b
        BY <2>3
      <3>2. PICK d \in Nat : d > 0 /\ a + d = b
        BY <3>1
      <3>3. m * b = m * a + m * d /\ m * d > 0 /\ m * a \in Int
        BY <2>1, <2>2, <3>2
      <3> QED BY <1>5, <3>3
    <2>4. CASE b < a
      <3>1. a - b \in Nat /\ a - b > 0 /\ b + (a - b) = a
        BY <2>4
      <3>2. PICK d \in Nat : d > 0 /\ b + d = a
        BY <3>1
      <3>3. m * a = m * b + m * d /\ m * d > 0 /\ m * b \in Int
        BY <2>1, <2>2, <3>2
      <3> QED BY <1>5, <3>3
    <2> QED BY <2>3, <2>4
  <1> QED BY <1>1, <1>2, <1>3, <1>4, <1>5

(* The same of remainders of sums.                                          *)
LEMMA WholeMessages ==
  ASSUME NEW a \in Nat, NEW b \in Nat, a % MessageCells = 0
  PROVE  /\ (a + b) % MessageCells = b % MessageCells
         /\ MessageCells % MessageCells = 0
         /\ b < MessageCells => b % MessageCells = b
  <1>1. MessageCells \in Nat /\ MessageCells > 0
    BY ChatAssumption
  <1>2. ((a % MessageCells) + b) % MessageCells = (a + b) % MessageCells
    BY <1>1, ModuloAdds
  <1>3. \A q \in Int : \A r \in 0..(MessageCells - 1) :
          (MessageCells * q + r) % MessageCells = r
    BY <1>1, Multiples
  <1>4. MessageCells * 1 + 0 = MessageCells /\ 0 \in 0..(MessageCells - 1)
    BY <1>1
  <1>5. MessageCells % MessageCells = 0
    BY <1>3, <1>4
  <1>6. b < MessageCells => MessageCells * 0 + b = b /\ b \in 0..(MessageCells - 1)
    BY <1>1
  <1> QED BY <1>2, <1>3, <1>5, <1>6

(* Messages after messages are messages.                                    *)
LEMMA FramedConcat ==
  ASSUME NEW s \in Seq(Cells), NEW t \in Seq(Cells), Framed(s), Framed(t)
  PROVE  Framed(s \o t)
  <1>1. /\ Len(s \o t) = Len(s) + Len(t)
        /\ \A i \in 1..(Len(s) + Len(t)) :
             (s \o t)[i] = IF i <= Len(s) THEN s[i] ELSE t[i - Len(s)]
    BY ConcatProperties
  <1>2. Len(s) \in Nat /\ Len(t) \in Nat /\ Len(s) % MessageCells = 0
    BY DEF Framed
  <1>3. Len(s \o t) % MessageCells = 0
    BY <1>1, <1>2, WholeMessages DEF Framed
  <1>4. ASSUME NEW i \in 1..Len(s \o t)
        PROVE  (s \o t)[i].part = ((i - 1) % MessageCells) + 1
    <2>1. CASE i <= Len(s)
      BY <1>1, <1>2, <2>1 DEF Framed
    <2>2. CASE ~(i <= Len(s))
      <3>1. PICK b \in Nat : i = Len(s) + b + 1 /\ b + 1 \in 1..Len(t)
        <4>1. i \in 1..(Len(s) + Len(t))
          BY <1>1
        <4>2. (i - Len(s)) - 1 \in Nat /\ ((i - Len(s)) - 1) + 1 \in 1..Len(t)
          BY <1>2, <2>2, <4>1
        <4>3. i = Len(s) + ((i - Len(s)) - 1) + 1
          BY <1>2, <4>1
        <4> QED BY <4>2, <4>3
      <3>2. (s \o t)[i] = t[b + 1]
        BY <1>1, <1>2, <2>2, <3>1
      <3>3. t[b + 1].part = (b % MessageCells) + 1
        <4>1. t[b + 1].part = (((b + 1) - 1) % MessageCells) + 1
          BY <3>1 DEF Framed
        <4> QED BY <4>1
      <3>4. (Len(s) + b) % MessageCells = b % MessageCells
        BY <1>2, WholeMessages
      <3>5. i - 1 = Len(s) + b
        BY <1>2, <3>1
      <3> QED BY <3>2, <3>3, <3>4, <3>5
    <2> QED BY <2>1, <2>2
  <1> QED BY <1>3, <1>4 DEF Framed

(* Without the first message the rest are messages.                         *)
LEMMA FramedRest ==
  ASSUME NEW x \in Seq(Cells), NEW y \in Seq(Cells),
         Len(x) = MessageCells, Framed(x \o y)
  PROVE  Framed(y)
  <1>1. MessageCells \in Nat /\ MessageCells > 0 /\ Len(y) \in Nat
    BY ChatAssumption
  <1>2. /\ Len(x \o y) = MessageCells + Len(y)
        /\ \A i \in 1..(MessageCells + Len(y)) :
             (x \o y)[i] = IF i <= MessageCells THEN x[i] ELSE y[i - MessageCells]
    BY ConcatProperties
  <1>3. MessageCells % MessageCells = 0
    BY <1>1, WholeMessages
  <1>4. Len(y) % MessageCells = 0
    <2>1. (MessageCells + Len(y)) % MessageCells = Len(y) % MessageCells
      BY <1>1, <1>3, WholeMessages
    <2> QED BY <1>2, <2>1 DEF Framed
  <1>5. ASSUME NEW i \in 1..Len(y)
        PROVE  y[i].part = ((i - 1) % MessageCells) + 1
    <2>1. PICK b \in Nat : i = b + 1
      <3>1. i - 1 \in Nat /\ i = (i - 1) + 1
        BY <1>1
      <3> QED BY <3>1
    <2>2. /\ MessageCells + i \in 1..Len(x \o y) /\ (MessageCells + i) - 1 = MessageCells + b
          /\ ~(MessageCells + i <= MessageCells) /\ (MessageCells + i) - MessageCells = i
      BY <1>1, <1>2, <2>1
    <2>3. (x \o y)[MessageCells + i].part = ((MessageCells + b) % MessageCells) + 1
      BY <2>2 DEF Framed
    <2>4. (MessageCells + b) % MessageCells = b % MessageCells
      BY <1>1, <1>3, WholeMessages
    <2>5. (x \o y)[MessageCells + i] = y[i]
      BY <1>2, <2>2
    <2>6. i - 1 = b
      BY <2>1
    <2> QED BY <2>3, <2>4, <2>5, <2>6
  <1> QED BY <1>4, <1>5 DEF Framed

(* The beginnings of messages are finitely many, and Number counts them.    *)
LEMMA BeginsFinite ==
  ASSUME NEW s \in Seq(Cells), NEW kind
  PROVE  /\ IsFiniteSet(Begins(kind, s))
         /\ Number(kind, s) = Cardinality(Begins(kind, s)) /\ Number(kind, s) \in Nat
  <1>1. IsFiniteSet(1..Len(s))
    BY FS_Interval
  <1>2. Begins(kind, s) \in SUBSET (1..Len(s))
    BY DEF Begins
  <1>3. IsFiniteSet(Begins(kind, s))
    BY <1>1, <1>2, FS_Subset
  <1> QED BY <1>3, FS_CardinalityType DEF Number, Begins

LEMMA NumberConcat ==
  ASSUME NEW s \in Seq(Cells), NEW t \in Seq(Cells), NEW kind
  PROVE  Number(kind, s \o t) = Number(kind, s) + Number(kind, t)
  <1> DEFINE moved == {i \in 1..(Len(s) + Len(t)) : i > Len(s) /\ t[i - Len(s)] = Cell(kind, 1)}
             f == [i \in Begins(kind, t) |-> i + Len(s)]
  <1>1. /\ s \o t \in Seq(Cells) /\ Len(s \o t) = Len(s) + Len(t)
        /\ \A i \in 1..(Len(s) + Len(t)) :
             (s \o t)[i] = IF i <= Len(s) THEN s[i] ELSE t[i - Len(s)]
    BY ConcatProperties
  <1>2. Len(s) \in Nat /\ Len(t) \in Nat
    OBVIOUS
  <1>3. Begins(kind, s \o t) = Begins(kind, s) \cup moved
    <2>1. \A i \in 1..(Len(s) + Len(t)) :
            i \in Begins(kind, s \o t) <=> i \in Begins(kind, s) \/ i \in moved
      BY <1>1, <1>2 DEF Begins
    <2>2. /\ Begins(kind, s \o t) \subseteq 1..(Len(s) + Len(t))
          /\ Begins(kind, s) \subseteq 1..(Len(s) + Len(t))
          /\ moved \subseteq 1..(Len(s) + Len(t))
      BY <1>1, <1>2 DEF Begins
    <2> QED BY <2>1, <2>2
  <1>4. Begins(kind, s) \cap moved = {}
    BY <1>2 DEF Begins
  <1>5. f \in Bijection(Begins(kind, t), moved)
    <2>1. f \in [Begins(kind, t) -> moved]
      BY <1>2 DEF Begins
    <2>2. \A i, j \in Begins(kind, t) : f[i] = f[j] => i = j
      BY <1>2 DEF Begins
    <2>3. \A k \in moved : \E i \in Begins(kind, t) : f[i] = k
      <3> TAKE k \in moved
      <3>1. k - Len(s) \in Begins(kind, t) /\ (k - Len(s)) + Len(s) = k
        BY <1>2 DEF Begins
      <3> QED BY <3>1
    <2> QED BY <2>1, <2>2, <2>3 DEF Bijection, Injection, Surjection, IsInjective
  <1>6. IsFiniteSet(moved) /\ Cardinality(moved) = Cardinality(Begins(kind, t))
    BY <1>5, BeginsFinite, FS_Bijection DEF ExistsBijection
  <1> HIDE DEF moved, f
  <1>7. Cardinality(Begins(kind, s) \cup moved) =
          Cardinality(Begins(kind, s)) + Cardinality(moved)
    <2>1. Cardinality(Begins(kind, s) \cup moved) =
            Cardinality(Begins(kind, s)) + Cardinality(moved)
              - Cardinality(Begins(kind, s) \cap moved)
      BY <1>6, BeginsFinite, FS_Union
    <2>2. Cardinality(Begins(kind, s) \cap moved) = 0
      BY <1>4, FS_EmptySet
    <2>3. Cardinality(Begins(kind, s)) \in Nat /\ Cardinality(moved) \in Nat
      BY <1>6, BeginsFinite
    <2> QED BY <2>1, <2>2, <2>3
  <1> QED BY <1>1, <1>3, <1>6, <1>7, BeginsFinite

(* The first of some messages counts for its kind and no other.             *)
LEMMA NumberFirst ==
  ASSUME NEW x \in Seq(Cells), NEW y \in Seq(Cells), NEW kind,
         Len(x) = MessageCells, Framed(x \o y)
  PROVE  Number(kind, x \o y) = (IF x[1].kind = kind THEN 1 ELSE 0) + Number(kind, y)
  <1>1. MessageCells \in Nat /\ MessageCells > 0 /\ Len(y) \in Nat
    BY ChatAssumption
  <1>2. \A i \in 1..MessageCells : x[i] \in Cells
    BY ElementOfSeq
  <1>3. /\ Len(x \o y) = MessageCells + Len(y)
        /\ \A i \in 1..(MessageCells + Len(y)) :
             (x \o y)[i] = IF i <= MessageCells THEN x[i] ELSE y[i - MessageCells]
    BY ConcatProperties
  <1>4. \A i \in 1..MessageCells : x[i].part = i
    <2> TAKE i \in 1..MessageCells
    <2>1. PICK b \in Nat : i = b + 1 /\ b < MessageCells
      <3>1. i - 1 \in Nat /\ i = (i - 1) + 1 /\ i - 1 < MessageCells
        BY <1>1
      <3> QED BY <3>1
    <2>2. b % MessageCells = b
      <3>1. Len(x \o y) \in Nat /\ Len(x \o y) % MessageCells = 0
        BY <1>1, <1>3 DEF Framed
      <3> QED BY <2>1, <3>1, WholeMessages
    <2>3. i \in 1..Len(x \o y) /\ i - 1 = b /\ (x \o y)[i] = x[i]
      BY <1>1, <1>3, <2>1
    <2>4. (x \o y)[i].part = (b % MessageCells) + 1
      BY <2>3 DEF Framed
    <2> QED BY <2>1, <2>2, <2>3, <2>4
  <1>5. Number(kind, x) = IF x[1].kind = kind THEN 1 ELSE 0
    <2>1. \A i \in 1..MessageCells : x[i] = Cell(kind, 1) => i = 1
      BY <1>4 DEF Cell
    <2>2. x[1] = Cell(kind, 1) <=> x[1].kind = kind
      BY <1>1, <1>2, <1>4 DEF Cells, Cell
    <2>3. Begins(kind, x) = IF x[1].kind = kind THEN {1} ELSE {}
      BY <1>1, <2>1, <2>2 DEF Begins
    <2>4. Number(kind, x) = Cardinality(Begins(kind, x))
      BY BeginsFinite
    <2>5. CASE x[1].kind = kind
      BY <2>3, <2>4, <2>5, FS_Singleton
    <2>6. CASE x[1].kind # kind
      BY <2>3, <2>4, <2>6, FS_EmptySet
    <2> QED BY <2>5, <2>6
  <1>6. Number(kind, x \o y) = Number(kind, x) + Number(kind, y)
    BY NumberConcat
  <1> QED BY <1>5, <1>6

(* n messages of a kind.                                                    *)
LEMMA ManyMessages ==
  ASSUME NEW n \in Nat, NEW kind \in {"text", "ping", "pong"}
  PROVE  /\ Many(n, kind) \in Seq(Cells) /\ Framed(Many(n, kind))
         /\ Number(kind, Many(n, kind)) = n
         /\ \A k : k # kind => Number(k, Many(n, kind)) = 0
  <1> DEFINE m == MessageCells
             s == Many(n, kind)
             f == [j \in 1..n |-> m * (j - 1) + 1]
  <1>1. m \in Nat /\ m > 0 /\ n * m \in Nat /\ m * n = n * m
    BY ChatAssumption, Multiples
  <1>2. /\ \A q \in Int : \A r \in 0..(m - 1) : (m * q + r) % m = r
        /\ \A a \in Int : \A b \in Int : m * a < m * b => a < b
        /\ \A a \in Int : \A b \in Int : m * a = m * b => a = b
        /\ \A a \in Nat : a % m = 0 => \E q \in Nat : a = m * q
    BY <1>1, Multiples
  <1>3. \A i \in 1..(n * m) : (i - 1) % m \in Nat /\ Cell(kind, ((i - 1) % m) + 1) \in Cells
    BY <1>1 DEF Cell, Cells
  <1>4. /\ s \in Seq(Cells) /\ Len(s) = n * m
        /\ \A i \in 1..(n * m) : s[i] = Cell(kind, ((i - 1) % m) + 1)
    <2>1. s = [i \in 1..(n * m) |-> Cell(kind, ((i - 1) % m) + 1)]
      BY DEF Many
    <2>2. s \in [1..(n * m) -> Cells]
      BY <1>3, <2>1
    <2> QED BY <1>1, <2>1, <2>2
  <1> HIDE DEF s, m
  <1>5. Framed(s)
    <2>1. Len(s) % m = 0
      <3>1. m * n + 0 = n * m /\ 0 \in 0..(m - 1)
        BY <1>1
      <3> QED BY <1>2, <1>4, <3>1
    <2>2. \A i \in 1..(n * m) : s[i].part = ((i - 1) % m) + 1
      BY <1>4 DEF Cell
    <2> QED BY <1>4, <2>1, <2>2 DEF Framed, m
  <1>6. Begins(kind, s) = {i \in 1..(n * m) : (i - 1) % m = 0}
    BY <1>3, <1>4 DEF Begins, Cell
  <1>7. ASSUME NEW j \in 1..n
        PROVE  f[j] \in Begins(kind, s)
    <2>1. PICK b \in Nat : j = b + 1 /\ b < n
      OBVIOUS
    <2>2. m * b \in Nat /\ m * b + m <= m * n
      <3>1. PICK d \in Nat : n = b + 1 + d
        BY <2>1
      <3>2. m * n = m * b + m + m * d /\ m * d \in Nat /\ m * b \in Nat
        BY <1>1, <3>1
      <3> QED BY <1>1, <3>2
    <2>3. (m * b + 0) % m = 0
      BY <1>1, <1>2
    <2>4. f[j] = m * b + 1
      BY <2>1
    <2>5. m * b + 1 \in 1..(n * m) /\ (m * b + 1) - 1 = m * b + 0
      BY <1>1, <2>2
    <2> QED BY <1>6, <2>3, <2>4, <2>5
  <1>8. ASSUME NEW i \in Begins(kind, s)
        PROVE  \E j \in 1..n : f[j] = i
    <2>1. i \in 1..(n * m) /\ (i - 1) % m = 0 /\ i - 1 \in Nat
      BY <1>1, <1>6
    <2>2. PICK q \in Nat : i - 1 = m * q
      BY <1>2, <2>1
    <2>3. m * q < m * n
      BY <1>1, <2>1, <2>2
    <2>4. q < n
      BY <1>2, <2>3
    <2>5. q + 1 \in 1..n /\ (q + 1) - 1 = q
      BY <2>4
    <2>6. f[q + 1] = m * q + 1
      BY <2>5
    <2>7. m * q + 1 = i
      BY <1>1, <2>1, <2>2
    <2> QED BY <2>5, <2>6, <2>7
  <1>9. ASSUME NEW i \in 1..n, NEW j \in 1..n, f[i] = f[j]
        PROVE  i = j
    <2>1. f[i] = m * (i - 1) + 1 /\ f[j] = m * (j - 1) + 1
      OBVIOUS
    <2>2. m * (i - 1) \in Int /\ m * (j - 1) \in Int
      BY <1>1
    <2>3. m * (i - 1) = m * (j - 1)
      BY <2>1, <2>2, <1>9
    <2>4. i - 1 \in Int /\ j - 1 \in Int
      OBVIOUS
    <2>5. i - 1 = j - 1
      BY <1>2, <2>3, <2>4
    <2> QED BY <2>5
  <1>10. f \in Bijection(1..n, Begins(kind, s))
    <2>1. f \in [1..n -> Begins(kind, s)]
      BY <1>7
    <2> QED BY <2>1, <1>8, <1>9 DEF Bijection, Injection, Surjection, IsInjective
  <1>11. Number(kind, s) = n
    <2>1. Cardinality(Begins(kind, s)) = Cardinality(1..n)
      BY <1>10, FS_Interval, FS_Bijection DEF ExistsBijection
    <2>2. Cardinality(1..n) = n
      BY FS_Interval
    <2> QED BY <1>4, <2>1, <2>2, BeginsFinite
  <1>12. ASSUME NEW k, k # kind
         PROVE  Number(k, s) = 0
    <2>1. Begins(k, s) = {}
      BY <1>4, <1>12 DEF Begins, Cell
    <2> QED BY <1>4, <2>1, BeginsFinite, FS_EmptySet
  <1> QED BY <1>4, <1>5, <1>11, <1>12 DEF s

-----------------------------------------------------------------------------
(* The cells under way on each link, and how many pings each awaits: every  *)
(* link has whole messages, and every ping is there or its pong comes back. *)
Balanced(paths, awaited) ==
  \A l \in Links :
    /\ Framed(paths[l])
    /\ awaited[l] = Number("ping", paths[l]) + Number("pong", paths[Reverse(l)])

LEMMA LinksReverse ==
  ASSUME NEW l \in Links
  PROVE  Reverse(l) \in Links /\ Reverse(l) # l /\ Reverse(Reverse(l)) = l
  BY ChatAssumption DEF Links, Reverse

UnderWayAre(p, o) ==
  p \in [Links -> Seq(Cells)] /\ o \in [Links -> Nat] /\ Balanced(p, o)

(* Messages without pongs, so many of them pings.                           *)
Typed(sent, number) ==
  /\ sent \in Seq(Cells) /\ Framed(sent) /\ number \in Nat
  /\ Number("ping", sent) = number /\ Number("pong", sent) = 0

SentTo(to, sent, number, p, o, q, w) ==
  \A l \in Links : /\ q[l] = IF l \in to THEN p[l] \o sent ELSE p[l]
                   /\ w[l] = o[l] + IF l \in to THEN number ELSE 0

(* They are sent along some links.                                          *)
LEMMA SendBalanced ==
  ASSUME NEW to, NEW sent, NEW number, NEW p, NEW o, NEW q, NEW w,
         UnderWayAre(p, o), Typed(sent, number), SentTo(to, sent, number, p, o, q, w)
  PROVE  Balanced(q, w)
  <1> USE DEF UnderWayAre, Typed, SentTo
  <1>1. ASSUME NEW l \in Links
        PROVE  /\ Framed(q[l])
               /\ Number("ping", q[l]) = Number("ping", p[l]) + (IF l \in to THEN number ELSE 0)
               /\ Number("pong", q[l]) = Number("pong", p[l])
    <2>1. p[l] \in Seq(Cells) /\ Framed(p[l])
      BY DEF Balanced
    <2>2. Number("ping", p[l]) \in Nat /\ Number("pong", p[l]) \in Nat
      BY <2>1, BeginsFinite
    <2>3. CASE l \in to
      <3>1. q[l] = p[l] \o sent
        BY <2>3
      <3>2. Framed(p[l] \o sent)
        BY <2>1, FramedConcat
      <3>3. /\ Number("ping", p[l] \o sent) = Number("ping", p[l]) + number
            /\ Number("pong", p[l] \o sent) = Number("pong", p[l]) + 0
        BY <2>1, NumberConcat
      <3> QED BY <2>2, <2>3, <3>1, <3>2, <3>3
    <2>4. CASE l \notin to
      BY <2>1, <2>2, <2>4
    <2> QED BY <2>3, <2>4
  <1>2. ASSUME NEW l \in Links
        PROVE  w[l] = Number("ping", q[l]) + Number("pong", q[Reverse(l)])
    <2>1. Reverse(l) \in Links
      BY LinksReverse
    <2>2. o[l] = Number("ping", p[l]) + Number("pong", p[Reverse(l)])
      BY DEF Balanced
    <2>3. Number("ping", p[l]) \in Nat /\ Number("pong", p[Reverse(l)]) \in Nat
      BY <2>1, BeginsFinite
    <2>4. w[l] = o[l] + (IF l \in to THEN number ELSE 0)
      OBVIOUS
    <2>5. /\ Number("ping", q[l]) = Number("ping", p[l]) + (IF l \in to THEN number ELSE 0)
          /\ Number("pong", q[Reverse(l)]) = Number("pong", p[Reverse(l)])
      BY <1>1, <2>1
    <2>6. CASE l \in to
      BY <2>2, <2>3, <2>4, <2>5, <2>6
    <2>7. CASE l \notin to
      BY <2>2, <2>3, <2>4, <2>5, <2>7
    <2> QED BY <2>6, <2>7
  <1> QED BY <1>1, <1>2 DEF Balanced

Arrives(l, x, y, p, o, q, w) ==
  /\ Len(x) = MessageCells /\ p[l] = x \o y
  /\ q[l] = y
  /\ q[Reverse(l)] = IF x[1].kind = "ping" THEN p[Reverse(l)] \o Message("pong")
                     ELSE p[Reverse(l)]
  /\ w[Reverse(l)] = IF x[1].kind = "pong" THEN o[Reverse(l)] - 1 ELSE o[Reverse(l)]
  /\ \A k \in Links \ {l, Reverse(l)} : q[k] = p[k]
  /\ \A k \in Links \ {Reverse(l)} : w[k] = o[k]

(* A message arrives: a ping's pong is sent back, a pong's ping is answered. *)
LEMMA ArriveBalanced ==
  ASSUME NEW l \in Links, NEW x \in Seq(Cells), NEW y \in Seq(Cells),
         NEW p, NEW o, NEW q, NEW w,
         UnderWayAre(p, o), Arrives(l, x, y, p, o, q, w)
  PROVE  Balanced(q, w) /\ \A k \in Links : w[k] \in Nat
  <1> USE DEF UnderWayAre, Arrives
  <1> DEFINE r == Reverse(l)
             kind == x[1].kind
  <1>1. r \in Links /\ r # l /\ Reverse(r) = l
    BY LinksReverse
  <1>2. Framed(p[l]) /\ Framed(p[r]) /\ p[l] \in Seq(Cells) /\ p[r] \in Seq(Cells)
    BY <1>1 DEF Balanced
  <1>3. Framed(y)
    BY <1>2, FramedRest
  <1>4. /\ Number("ping", p[l]) = (IF kind = "ping" THEN 1 ELSE 0) + Number("ping", y)
        /\ Number("pong", p[l]) = (IF kind = "pong" THEN 1 ELSE 0) + Number("pong", y)
    BY <1>2, NumberFirst
  <1>5. \A z \in Seq(Cells) : Number("ping", z) \in Nat /\ Number("pong", z) \in Nat
    BY BeginsFinite
  <1>6. /\ Framed(q[r])
        /\ Number("ping", q[r]) = Number("ping", p[r])
        /\ Number("pong", q[r]) = Number("pong", p[r]) + (IF kind = "ping" THEN 1 ELSE 0)
    <2>1. CASE kind = "ping"
      <3>1. /\ Message("pong") \in Seq(Cells) /\ Framed(Message("pong"))
            /\ Number("pong", Message("pong")) = 1 /\ Number("ping", Message("pong")) = 0
        BY ManyMessages DEF Message
      <3>2. /\ Number("ping", p[r] \o Message("pong")) = Number("ping", p[r]) + 0
            /\ Number("pong", p[r] \o Message("pong")) = Number("pong", p[r]) + 1
        BY <1>2, <3>1, NumberConcat
      <3>3. Framed(p[r] \o Message("pong"))
        BY <1>2, <3>1, FramedConcat
      <3>4. q[r] = p[r] \o Message("pong")
        BY <2>1
      <3>5. Number("ping", p[r]) \in Nat
        BY <1>2, <1>5
      <3> QED BY <2>1, <3>2, <3>3, <3>4, <3>5
    <2>2. CASE kind # "ping"
      <3>1. q[r] = p[r]
        BY <2>2
      <3>2. Number("pong", p[r]) \in Nat
        BY <1>2, <1>5
      <3> QED BY <2>2, <3>1, <3>2, <1>2
    <2> QED BY <2>1, <2>2
  <1>7. /\ o[l] = Number("ping", p[l]) + Number("pong", p[r])
        /\ o[r] = Number("ping", p[r]) + Number("pong", p[l])
    <2>1. o[l] = Number("ping", p[l]) + Number("pong", p[Reverse(l)])
      BY DEF Balanced
    <2>2. o[r] = Number("ping", p[r]) + Number("pong", p[Reverse(r)])
      BY <1>1 DEF Balanced
    <2> QED BY <1>1, <2>1, <2>2
  <1>8. /\ Number("ping", p[l]) \in Nat /\ Number("pong", p[l]) \in Nat
        /\ Number("ping", p[r]) \in Nat /\ Number("pong", p[r]) \in Nat
        /\ Number("ping", y) \in Nat /\ Number("pong", y) \in Nat
    BY <1>2, <1>5
  <1>9. w[l] = Number("ping", q[l]) + Number("pong", q[r]) /\ w[l] \in Nat
    <2>1. w[l] = o[l] /\ q[l] = y
      BY <1>1
    <2> HIDE DEF UnderWayAre, Arrives, r, kind
    <2>2. CASE kind = "ping"
      BY <2>1, <2>2, <1>4, <1>6, <1>7, <1>8
    <2>3. CASE kind # "ping"
      BY <2>1, <2>3, <1>4, <1>6, <1>7, <1>8
    <2> QED BY <2>2, <2>3
  <1>10. w[r] = Number("ping", q[r]) + Number("pong", q[l]) /\ w[r] \in Nat
    <2>1. q[l] = y /\ o[r] \in Nat
      BY <1>1
    <2>2. CASE kind = "pong"
      <3>1. w[r] = o[r] - 1
        BY <2>2
      <3> HIDE DEF UnderWayAre, Arrives, r, kind
      <3> QED BY <2>1, <2>2, <3>1, <1>4, <1>6, <1>7, <1>8
    <2>3. CASE kind # "pong"
      <3>1. w[r] = o[r]
        BY <2>3
      <3> HIDE DEF UnderWayAre, Arrives, r, kind
      <3> QED BY <2>1, <2>3, <3>1, <1>4, <1>6, <1>7, <1>8
    <2> QED BY <2>2, <2>3
  <1>11. ASSUME NEW k \in Links, k # l, k # r
         PROVE  Framed(q[k]) /\ w[k] = Number("ping", q[k]) + Number("pong", q[Reverse(k)]) /\ w[k] \in Nat
    <2>1. Reverse(k) \in Links /\ Reverse(Reverse(k)) = k
      BY LinksReverse
    <2>2. Reverse(k) # l /\ Reverse(k) # r
      BY <1>1, <1>11, <2>1
    <2>3. q[k] = p[k] /\ q[Reverse(k)] = p[Reverse(k)] /\ w[k] = o[k]
      BY <1>11, <2>1, <2>2
    <2> QED BY <2>3 DEF Balanced
  <1>12. Framed(q[l]) /\ Framed(q[r])
    BY <1>3, <1>6
  <1> QED
    <2>1. ASSUME NEW k \in Links
          PROVE  Framed(q[k]) /\ w[k] = Number("ping", q[k]) + Number("pong", q[Reverse(k)]) /\ w[k] \in Nat
      <3>1. CASE k = l
        BY <1>9, <1>12, <3>1
      <3>2. CASE k = r
        BY <1>1, <1>10, <1>12, <3>2
      <3> QED BY <3>1, <3>2, <1>11
    <2> QED BY <2>1 DEF Balanced

-----------------------------------------------------------------------------
(* Where a main loop can be: it visits peers it is connected with.          *)
PeersOf(n) == IF n = Server THEN Clients ELSE {Server}

LoopAt(n, v) ==
  /\ v \in [at : {"start", "top", "copy", "cut"}, peers : Seq(Nodes)]
  /\ v.peers \in Seq(PeersOf(n))
  /\ v.at \in {"copy", "cut"} => v.peers # <<>>

ChatTypes ==
  /\ clients \in Seq(Clients)
  /\ wire \in [Links -> Seq(Cells)]
  /\ readbuffers \in [Links -> Seq(Cells)]
  /\ buffer \in [Links -> Seq(Cells)]
  /\ outstanding \in [Links -> Nat]
  /\ DOMAIN loop = Nodes
  /\ \A n \in Nodes : LoopAt(n, loop[n])
  /\ \A l \in Links :
       Len(readbuffers[l]) <= StreamCapacity /\ Len(buffer[l]) <= BufferCapacity

Paths == [l \in Links |-> Path(l)]

ChatIInv ==
  /\ ChatTypes
  /\ ~overflow => Balanced(Paths, outstanding)

PathsTyped ==
  /\ \A l \in Links : /\ buffer[l] \in Seq(Cells) /\ readbuffers[l] \in Seq(Cells)
                      /\ wire[l] \in Seq(Cells) /\ Path(l) \in Seq(Cells)
                      /\ Paths[l] = Path(l)
                      /\ Path(l) = (buffer[l] \o readbuffers[l]) \o wire[l]
  /\ Paths \in [Links -> Seq(Cells)]

(* What is under way on a link is its three places' cells.                  *)
LEMMA PathParts == ChatTypes => PathsTyped
  <1> SUFFICES ASSUME ChatTypes PROVE PathsTyped
    OBVIOUS
  <1>1. ASSUME NEW l \in Links
        PROVE  /\ buffer[l] \in Seq(Cells) /\ readbuffers[l] \in Seq(Cells)
               /\ wire[l] \in Seq(Cells) /\ Path(l) \in Seq(Cells)
               /\ Paths[l] = Path(l)
               /\ Path(l) = (buffer[l] \o readbuffers[l]) \o wire[l]
    <2>1. buffer[l] \in Seq(Cells) /\ readbuffers[l] \in Seq(Cells) /\ wire[l] \in Seq(Cells)
      BY DEF ChatTypes
    <2>2. Path(l) = (buffer[l] \o readbuffers[l]) \o wire[l]
      BY DEF Path
    <2>3. (buffer[l] \o readbuffers[l]) \o wire[l] \in Seq(Cells)
      BY <2>1, ConcatProperties
    <2>4. Paths[l] = Path(l)
      BY DEF Paths
    <2> QED BY <2>1, <2>2, <2>3, <2>4
  <1>2. Paths \in [Links -> Seq(Cells)]
    BY <1>1 DEF Paths
  <1> QED BY <1>1, <1>2 DEF PathsTyped

LEMMA PathPartsNext == ChatTypes' => PathsTyped'
  BY PathParts, PTL

(* Loops and the peers they visit.                                          *)
LEMMA VisitingPeers ==
  ASSUME NEW n \in Nodes
  PROVE  /\ \A at \in {"copy", "cut"} : \A peers \in Seq(PeersOf(n)) : LoopAt(n, Visiting(at, peers))
         /\ LoopAt(n, Top)
  <1>1. PeersOf(n) \subseteq Nodes
    BY DEF PeersOf, Nodes
  <1>2. Seq(PeersOf(n)) \subseteq Seq(Nodes)
    BY <1>1
  <1>3. <<>> \in Seq(PeersOf(n))
    OBVIOUS
  <1> QED BY <1>2, <1>3 DEF LoopAt, Visiting, Top

LEMMA AcceptedPeers ==
  ASSUME ChatTypes, NEW n \in Nodes
  PROVE  Connected(n) \in Seq(PeersOf(n)) /\ \A peers \in Accepted(n) : peers \in Seq(PeersOf(n))
  <1>1. clients \in Seq(Clients) /\ <<Server>> \in Seq({Server})
    BY DEF ChatTypes
  <1>2. Connected(n) \in Seq(PeersOf(n))
    BY <1>1 DEF Connected, PeersOf
  <1>3. ASSUME NEW peers \in Accepted(n)
        PROVE  peers \in Seq(PeersOf(n))
    <2>1. peers = Connected(n) \/ (n = Server /\ \E c \in Clients : peers = Append(clients, c))
      BY DEF Accepted
    <2>2. \A c \in Clients : Append(clients, c) \in Seq(Clients)
      BY <1>1
    <2> QED BY <1>2, <2>1, <2>2 DEF PeersOf
  <1> QED BY <1>2, <1>3

LEMMA VisitedLink ==
  ASSUME ChatTypes, NEW n \in Nodes, loop[n].at \in {"copy", "cut"}
  PROVE  <<Peer(n), n>> \in Links /\ Tail(loop[n].peers) \in Seq(PeersOf(n))
  <1>1. loop[n].peers \in Seq(PeersOf(n)) /\ loop[n].peers # <<>>
    BY DEF ChatTypes, LoopAt
  <1>2. Peer(n) \in PeersOf(n) /\ Tail(loop[n].peers) \in Seq(PeersOf(n))
    BY <1>1, HeadTailProperties DEF Peer
  <1>3. <<Peer(n), n>> \in Links
    BY <1>2 DEF PeersOf, Links, Nodes
  <1> QED BY <1>2, <1>3

LoopsAt == DOMAIN loop = Nodes /\ \A n \in Nodes : LoopAt(n, loop[n])

LEMMA LoopMoves ==
  ASSUME ChatTypes, NEW n \in Nodes, NEW v, LoopAt(n, v), loop' = [loop EXCEPT ![n] = v]
  PROVE  LoopsAt'
  <1>1. DOMAIN loop' = Nodes
    BY DEF ChatTypes
  <1>2. ASSUME NEW m \in Nodes
        PROVE  LoopAt(m, loop[m])'
    <2>1. LoopAt(m, loop[m])
      BY DEF ChatTypes
    <2>2. loop'[m] = IF m = n THEN v ELSE loop[m]
      BY DEF ChatTypes
    <2> QED BY <2>1, <2>2 DEF LoopAt
  <1> QED BY <1>1, <1>2 DEF LoopsAt

-----------------------------------------------------------------------------
(* Nothing under way yet.                                                   *)
LEMMA InitChat == ChatInit => ChatIInv
  <1> SUFFICES ASSUME ChatInit PROVE ChatIInv
    OBVIOUS
  <1>1. <<>> \in Seq(Cells) /\ <<>> \in Seq(Clients) /\ Len(<<>>) = 0
    OBVIOUS
  <1>2. ASSUME NEW n \in Nodes
        PROVE  LoopAt(n, loop[n])
    <2>1. loop[n] = [at |-> IF n = Server THEN "top" ELSE "start", peers |-> <<>>]
      BY DEF ChatInit
    <2>2. <<>> \in Seq(Nodes) /\ <<>> \in Seq(PeersOf(n))
      OBVIOUS
    <2> QED BY <2>1, <2>2 DEF LoopAt
  <1>3. ChatTypes
    <2>1. /\ clients = <<>> /\ DOMAIN loop = Nodes
          /\ wire = [l \in Links |-> <<>>] /\ readbuffers = [l \in Links |-> <<>>]
          /\ buffer = [l \in Links |-> <<>>] /\ outstanding = [l \in Links |-> 0]
      BY DEF ChatInit
    <2>2. \A l \in Links : Len(readbuffers[l]) <= StreamCapacity /\ Len(buffer[l]) <= BufferCapacity
      BY <1>1, <2>1, ChatAssumption
    <2> QED BY <1>1, <1>2, <2>1, <2>2 DEF ChatTypes
  <1>4. ASSUME NEW l \in Links
        PROVE  Paths[l] = <<>>
    <2>1. wire[l] = <<>> /\ readbuffers[l] = <<>> /\ buffer[l] = <<>>
      BY DEF ChatInit
    <2>2. Path(l) = (<<>> \o <<>>) \o <<>>
      BY <2>1 DEF Path
    <2>3. <<>> \o <<>> = <<>>
      BY <1>1, ConcatEmptySeq
    <2> QED BY <2>2, <2>3 DEF Paths
  <1>5. Framed(<<>>) /\ Number("ping", <<>>) = 0 /\ Number("pong", <<>>) = 0
    <2>1. MessageCells \in Nat /\ MessageCells > 0
      BY ChatAssumption
    <2>2. 0 % MessageCells = 0
      BY <2>1
    <2>3. \A k : Begins(k, <<>>) = {}
      BY DEF Begins
    <2>4. Framed(<<>>)
      BY <2>2 DEF Framed
    <2>5. \A k : Number(k, <<>>) = 0
      BY <1>1, <2>3, BeginsFinite, FS_EmptySet
    <2> QED BY <2>4, <2>5
  <1>6. Balanced(Paths, outstanding)
    <2>1. \A l \in Links : outstanding[l] = 0
      BY DEF ChatInit
    <2> QED BY <1>4, <1>5, <2>1, LinksReverse DEF Balanced
  <1> QED BY <1>3, <1>6 DEF ChatIInv

(* A step that leaves what is under way where it is.                        *)
LEMMA NothingMoves ==
  ASSUME ChatIInv, clients' \in Seq(Clients), LoopsAt',
         UNCHANGED <<wire, readbuffers, buffer, outstanding, overflow>>
  PROVE  ChatIInv'
  <1>1. ChatTypes'
    BY DEF ChatIInv, ChatTypes, LoopsAt
  <1>2. Paths' = Paths
    BY DEF Paths, Path
  <1>3. (~overflow => Balanced(Paths, outstanding))'
    BY <1>2 DEF ChatIInv, Balanced
  <1> QED BY <1>1, <1>3 DEF ChatIInv

LEMMA ConnectKeeps ==
  ASSUME ChatIInv, NEW c \in Clients, Connect(c)
  PROVE  ChatIInv'
  <1>1. ChatTypes /\ c \in Nodes
    BY DEF ChatIInv, Nodes
  <1>2. LoopsAt'
    BY <1>1, VisitingPeers, LoopMoves DEF Connect
  <1>3. clients' \in Seq(Clients)
    BY <1>1 DEF Connect, ChatTypes
  <1>4. UNCHANGED <<wire, readbuffers, buffer, outstanding, overflow>>
    BY DEF Connect, streamVars, pingVars
  <1> QED BY <1>2, <1>3, <1>4, NothingMoves

(* A loop goes over to reading, the server perhaps with one more client.    *)
LEMMA ReadsKeep ==
  ASSUME ChatTypes, NEW n \in Nodes, NEW peers \in Accepted(n), Reads(n, peers)
  PROVE  LoopsAt' /\ clients' \in Seq(Clients)
  <1>1. peers \in Seq(PeersOf(n))
    BY AcceptedPeers
  <1>2. LoopsAt'
    BY <1>1, VisitingPeers, LoopMoves DEF Reads
  <1>3. clients' \in Seq(Clients)
    BY <1>1 DEF Reads, ChatTypes, PeersOf
  <1> QED BY <1>2, <1>3

LEMMA QuietKeeps ==
  ASSUME ChatIInv, NEW n \in Nodes, Quiet(n)
  PROVE  ChatIInv'
  <1>1. ChatTypes
    BY DEF ChatIInv
  <1>2. PICK peers \in Accepted(n) : Reads(n, peers)
    BY DEF Quiet
  <1>3. LoopsAt' /\ clients' \in Seq(Clients)
    BY <1>1, <1>2, ReadsKeep
  <1>4. UNCHANGED <<wire, readbuffers, buffer, outstanding, overflow>>
    BY DEF Quiet, streamVars, pingVars
  <1> QED BY <1>3, <1>4, NothingMoves

LEMMA CopyNoMoreKeeps ==
  ASSUME ChatIInv, NEW n \in Nodes, CopyNoMore(n)
  PROVE  ChatIInv'
  <1>1. ChatTypes
    BY DEF ChatIInv
  <1>2. PICK peers : peers = Tail(loop[n].peers)
    OBVIOUS
  <1>3. peers \in Seq(PeersOf(n)) /\ Connected(n) \in Seq(PeersOf(n))
    BY <1>1, <1>2, VisitedLink, AcceptedPeers DEF CopyNoMore, At
  <1>4. PICK v : /\ v = IF peers # <<>> THEN Visiting("copy", peers) ELSE Visiting("cut", Connected(n))
                 /\ loop' = [loop EXCEPT ![n] = v]
    BY <1>2 DEF CopyNoMore
  <1>5. LoopAt(n, v)
    BY <1>3, <1>4, VisitingPeers
  <1>6. LoopsAt'
    BY <1>1, <1>4, <1>5, LoopMoves
  <1>7. clients' \in Seq(Clients) /\ UNCHANGED <<wire, readbuffers, buffer, outstanding, overflow>>
    BY <1>1 DEF CopyNoMore, pingVars, ChatTypes
  <1> QED BY <1>6, <1>7, NothingMoves

LEMMA CutNoMoreKeeps ==
  ASSUME ChatIInv, NEW n \in Nodes, CutNoMore(n)
  PROVE  ChatIInv'
  <1>1. ChatTypes
    BY DEF ChatIInv
  <1>2. Tail(loop[n].peers) \in Seq(PeersOf(n))
    BY <1>1, VisitedLink DEF CutNoMore, At
  <1>3. PICK v : v = Visiting("cut", Tail(loop[n].peers)) /\ loop' = [loop EXCEPT ![n] = v]
    BY DEF CutNoMore
  <1>4. LoopAt(n, v)
    BY <1>2, <1>3, VisitingPeers
  <1>5. LoopsAt'
    BY <1>1, <1>3, <1>4, LoopMoves
  <1>6. clients' \in Seq(Clients) /\ UNCHANGED <<wire, readbuffers, buffer, outstanding, overflow>>
    BY <1>1 DEF CutNoMore, streamVars, pingVars, ChatTypes
  <1> QED BY <1>5, <1>6, NothingMoves

-----------------------------------------------------------------------------
(* Cells that move on from one place to the next.                           *)
LEMMA CellsCut ==
  ASSUME NEW s \in Seq(Cells), NEW n \in 0..Len(s)
  PROVE  \E x \in Seq(Cells), y \in Seq(Cells) :
           /\ x = SubSeq(s, 1, n) /\ y = SubSeq(s, n + 1, Len(s))
           /\ x \o y = s /\ Len(x) = n
           /\ n > 0 => x[1] = s[1]
  <1> DEFINE x == SubSeq(s, 1, n)
             y == SubSeq(s, n + 1, Len(s))
  <1>1. Len(s) \in Nat /\ n \in Int /\ \A i \in 1..Len(s) : s[i] \in Cells
    BY ElementOfSeq
  <1>2. x \in Seq(Cells) /\ Len(x) = n /\ (n > 0 => x[1] = s[1])
    <2>1. \A i \in 1..n : s[i] \in Cells
      BY <1>1
    <2>2. /\ x \in Seq(Cells) /\ Len(x) = IF 1 <= n THEN n - 1 + 1 ELSE 0
          /\ \A i \in 1..(n - 1 + 1) : x[i] = s[1 + i - 1]
      BY <1>1, <2>1, SubSeqProperties
    <2> HIDE DEF x
    <2>3. Len(x) = n
      BY <1>1, <2>2
    <2>4. n > 0 => 1 \in 1..(n - 1 + 1) /\ 1 + 1 - 1 = 1
      BY <1>1
    <2>5. n > 0 => x[1] = s[1]
      BY <2>2, <2>4
    <2> QED BY <2>2, <2>3, <2>5
  <1>3. y \in Seq(Cells)
    <2>1. \A i \in (n + 1)..Len(s) : s[i] \in Cells
      BY <1>1
    <2> QED BY <1>1, <2>1, SubSeqProperties
  <1>4. x \o y = s
    <2>1. 1 \in 1..(Len(s) + 1) /\ n \in (1 - 1)..Len(s) /\ Len(s) \in n..Len(s)
      BY <1>1
    <2>2. x \o y = SubSeq(s, 1, Len(s))
      BY <2>1, ConcatAdjacentSubSeq
    <2> QED BY <2>2, SubSeqFull
  <1> QED BY <1>2, <1>3, <1>4

LEMMA CellsAssociative ==
  ASSUME NEW s \in Seq(Cells), NEW t \in Seq(Cells), NEW u \in Seq(Cells)
  PROVE  Cat(Cat(s, t), u) = Cat(s, Cat(t, u))
  BY ConcatAssociative DEF Cat

LEMMA CellsClosed ==
  ASSUME NEW s \in Seq(Cells), NEW t \in Seq(Cells)
  PROVE  Cat(s, t) \in Seq(Cells) /\ Len(Cat(s, t)) = Len(s) + Len(t)
  BY ConcatProperties DEF Cat

LEMMA MovedBack ==
  ASSUME NEW b \in Seq(Cells), NEW r \in Seq(Cells), NEW x \in Seq(Cells), NEW y \in Seq(Cells)
  PROVE  Cat(Cat(b, Cat(r, x)), y) = Cat(Cat(b, r), Cat(x, y))
  <1>1. Cat(Cat(b, r), x) = Cat(b, Cat(r, x))
    BY CellsAssociative
  <1>2. Cat(b, r) \in Seq(Cells)
    BY CellsClosed
  <1>3. Cat(Cat(Cat(b, r), x), y) = Cat(Cat(b, r), Cat(x, y))
    BY <1>2, CellsAssociative
  <1> QED BY <1>1, <1>3

LEMMA MovedFirst ==
  ASSUME NEW x \in Seq(Cells), NEW b \in Seq(Cells), NEW r \in Seq(Cells), NEW y \in Seq(Cells)
  PROVE  Cat(Cat(Cat(x, b), r), y) = Cat(x, Cat(Cat(b, r), y))
  <1>1. Cat(Cat(x, b), r) = Cat(x, Cat(b, r))
    BY CellsAssociative
  <1>2. Cat(b, r) \in Seq(Cells)
    BY CellsClosed
  <1>3. Cat(Cat(x, Cat(b, r)), y) = Cat(x, Cat(Cat(b, r), y))
    BY <1>2, CellsAssociative
  <1> QED BY <1>1, <1>3

LEMMA SamePaths ==
  ASSUME ChatIInv, ChatTypes', UNCHANGED <<overflow, outstanding>>,
         \A l \in Links : Path(l)' = Path(l)
  PROVE  ChatIInv'
  <1>1. Paths' = Paths
    BY DEF Paths
  <1>2. (~overflow => Balanced(Paths, outstanding))'
    BY <1>1 DEF ChatIInv, Balanced
  <1> QED BY <1>2 DEF ChatIInv

(* Cells come into a link's _readbuffer, if they fit.                       *)
LEMMA ReadThreadKeeps ==
  ASSUME ChatIInv, NEW l \in Links, ReadThread(l)
  PROVE  ChatIInv'
  <1>1. ChatTypes /\ PathsTyped
    BY PathParts DEF ChatIInv
  <1>2. PICK n \in 1..ReadLength :
          /\ n <= Len(wire[l])
          /\ wire' = [wire EXCEPT ![l] = SubSeq(@, n + 1, Len(@))]
          /\ IF Len(readbuffers[l]) + n <= StreamCapacity
             THEN /\ readbuffers' = [readbuffers EXCEPT ![l] = @ \o SubSeq(wire[l], 1, n)]
                  /\ UNCHANGED overflow
             ELSE overflow' = TRUE /\ UNCHANGED readbuffers
    BY DEF ReadThread
  <1>3. UNCHANGED <<clients, buffer, loop, outstanding>>
    BY DEF ReadThread, pingVars
  <1>4. buffer[l] \in Seq(Cells) /\ readbuffers[l] \in Seq(Cells) /\ wire[l] \in Seq(Cells)
    BY <1>1 DEF PathsTyped
  <1>5. PICK x \in Seq(Cells), y \in Seq(Cells) :
          /\ x = SubSeq(wire[l], 1, n) /\ y = SubSeq(wire[l], n + 1, Len(wire[l]))
          /\ x \o y = wire[l] /\ Len(x) = n
    <2>1. n \in 0..Len(wire[l])
      BY <1>2, <1>4, ChatAssumption
    <2> QED BY <1>4, <2>1, CellsCut
  <1>6. wire' = [wire EXCEPT ![l] = y] /\ wire' \in [Links -> Seq(Cells)]
    <2>1. wire' = [wire EXCEPT ![l] = y]
      BY <1>2, <1>5
    <2> QED BY <1>1, <2>1 DEF ChatTypes
  <1>7. CASE Len(readbuffers[l]) + n <= StreamCapacity
    <2>1. readbuffers' = [readbuffers EXCEPT ![l] = readbuffers[l] \o x] /\ UNCHANGED overflow
      BY <1>2, <1>5, <1>7
    <2>2. /\ readbuffers[l] \o x \in Seq(Cells)
          /\ Len(readbuffers[l] \o x) = Len(readbuffers[l]) + n
      BY <1>4, <1>5, ConcatProperties
    <2>3. readbuffers' \in [Links -> Seq(Cells)]
      BY <1>1, <2>1, <2>2 DEF ChatTypes
    <2>4. \A k \in Links : Len(readbuffers'[k]) <= StreamCapacity
      BY <1>1, <1>7, <2>1, <2>2 DEF ChatTypes
    <2>5. ChatTypes'
      BY <1>1, <1>3, <1>6, <2>3, <2>4 DEF ChatTypes
    <2>6. ASSUME NEW k \in Links
          PROVE  Path(k)' = Path(k)
      <3>1. CASE k = l
        <4>1. /\ buffer'[k] = buffer[l] /\ readbuffers'[k] = readbuffers[l] \o x /\ wire'[k] = y
          BY <1>1, <1>3, <1>6, <2>1, <3>1 DEF ChatTypes
        <4>2. (buffer[l] \o (readbuffers[l] \o x)) \o y = (buffer[l] \o readbuffers[l]) \o wire[l]
          <5>1. PICK b \in Seq(Cells), r \in Seq(Cells) : b = buffer[l] /\ r = readbuffers[l]
            BY <1>4
          <5>2. Cat(Cat(b, Cat(r, x)), y) = Cat(Cat(b, r), Cat(x, y))
            BY MovedBack
          <5>3. (b \o (r \o x)) \o y = (b \o r) \o (x \o y)
            BY <5>2 DEF Cat
          <5> QED BY <1>5, <5>1, <5>3
        <4> QED BY <3>1, <4>1, <4>2 DEF Path
      <3>2. CASE k # l
        <4>1. /\ buffer'[k] = buffer[k] /\ readbuffers'[k] = readbuffers[k] /\ wire'[k] = wire[k]
          BY <1>1, <1>3, <1>6, <2>1, <3>2 DEF ChatTypes
        <4> QED BY <4>1 DEF Path
      <3> QED BY <3>1, <3>2
    <2> QED BY <1>3, <2>1, <2>5, <2>6, SamePaths
  <1>8. CASE ~(Len(readbuffers[l]) + n <= StreamCapacity)
    <2>1. overflow' /\ UNCHANGED readbuffers
      BY <1>2, <1>8
    <2>2. ChatTypes'
      BY <1>1, <1>3, <1>6, <2>1 DEF ChatTypes
    <2> QED BY <2>1, <2>2 DEF ChatIInv
  <1> QED BY <1>7, <1>8

(* And on into the loop's buffer.                                           *)
LEMMA CopySomeKeeps ==
  ASSUME ChatIInv, NEW n \in Nodes, CopySome(n)
  PROVE  ChatIInv'
  <1>1. ChatTypes /\ PathsTyped
    BY PathParts DEF ChatIInv
  <1>2. PICK l \in Links : l = <<Peer(n), n>>
    BY <1>1, VisitedLink DEF CopySome, At
  <1>3. /\ readbuffers' = [readbuffers EXCEPT ![l] = <<>>]
        /\ IF Len(buffer[l]) + Len(readbuffers[l]) <= BufferCapacity
           THEN buffer' = [buffer EXCEPT ![l] = @ \o readbuffers[l]] /\ UNCHANGED overflow
           ELSE overflow' = TRUE /\ UNCHANGED buffer
        /\ UNCHANGED <<clients, wire, loop, outstanding>>
    BY <1>2 DEF CopySome, pingVars
  <1>4. buffer[l] \in Seq(Cells) /\ readbuffers[l] \in Seq(Cells) /\ wire[l] \in Seq(Cells)
    BY <1>1 DEF PathsTyped
  <1>5. /\ readbuffers' \in [Links -> Seq(Cells)]
        /\ \A k \in Links : Len(readbuffers'[k]) <= StreamCapacity
    <2>1. <<>> \in Seq(Cells) /\ Len(<<>>) <= StreamCapacity
      BY ChatAssumption
    <2>2. readbuffers' \in [Links -> Seq(Cells)]
      BY <1>1, <1>3, <2>1 DEF ChatTypes
    <2>3. \A k \in Links : readbuffers'[k] = IF k = l THEN <<>> ELSE readbuffers[k]
      BY <1>1, <1>3 DEF ChatTypes
    <2> QED BY <1>1, <2>1, <2>2, <2>3 DEF ChatTypes
  <1>6. CASE Len(buffer[l]) + Len(readbuffers[l]) <= BufferCapacity
    <2>1. buffer' = [buffer EXCEPT ![l] = buffer[l] \o readbuffers[l]] /\ UNCHANGED overflow
      BY <1>3, <1>6
    <2>2. /\ buffer[l] \o readbuffers[l] \in Seq(Cells)
          /\ Len(buffer[l] \o readbuffers[l]) = Len(buffer[l]) + Len(readbuffers[l])
      BY <1>4, ConcatProperties
    <2>3. buffer' \in [Links -> Seq(Cells)]
      BY <1>1, <2>1, <2>2 DEF ChatTypes
    <2>4. \A k \in Links : Len(buffer'[k]) <= BufferCapacity
      BY <1>1, <1>6, <2>1, <2>2 DEF ChatTypes
    <2>5. ChatTypes'
      BY <1>1, <1>3, <1>5, <2>3, <2>4 DEF ChatTypes
    <2>6. ASSUME NEW k \in Links
          PROVE  Path(k)' = Path(k)
      <3>1. CASE k = l
        <4>1. /\ buffer'[k] = buffer[l] \o readbuffers[l] /\ readbuffers'[k] = <<>>
              /\ wire'[k] = wire[l]
          BY <1>1, <1>3, <2>1, <3>1 DEF ChatTypes
        <4>2. ((buffer[l] \o readbuffers[l]) \o <<>>) \o wire[l]
                = (buffer[l] \o readbuffers[l]) \o wire[l]
          <5>1. buffer[l] \o readbuffers[l] \in Seq(Cells)
            BY <1>4, ConcatProperties
          <5> QED BY <5>1, ConcatEmptySeq
        <4> QED BY <3>1, <4>1, <4>2 DEF Path
      <3>2. CASE k # l
        <4>1. /\ buffer'[k] = buffer[k] /\ readbuffers'[k] = readbuffers[k] /\ wire'[k] = wire[k]
          BY <1>1, <1>3, <2>1, <3>2 DEF ChatTypes
        <4> QED BY <4>1 DEF Path
      <3> QED BY <3>1, <3>2
    <2> QED BY <1>3, <2>1, <2>5, <2>6, SamePaths
  <1>7. CASE ~(Len(buffer[l]) + Len(readbuffers[l]) <= BufferCapacity)
    <2>1. overflow' /\ UNCHANGED buffer
      BY <1>3, <1>7
    <2>2. ChatTypes'
      BY <1>1, <1>3, <1>5, <2>1 DEF ChatTypes
    <2> QED BY <2>1, <2>2 DEF ChatIInv
  <1> QED BY <1>6, <1>7

(* What is typed goes to every peer.                                        *)
LEMMA SayKeeps ==
  ASSUME ChatIInv, NEW n \in Nodes, NEW kind \in {"text", "ping", "multiping"}, Say(n, kind)
  PROVE  ChatIInv'
  <1> DEFINE number == IF kind = "multiping" THEN Pings ELSE IF kind = "ping" THEN 1 ELSE 0
             tail == IF kind = "ping" THEN <<>> ELSE Message("text")
             sent == Many(number, "ping") \o tail
  <1>1. ChatTypes /\ PathsTyped /\ Balanced(Paths, outstanding)
    BY PathParts DEF ChatIInv, Say, At
  <1>2. PICK peers \in Accepted(n) :
          LET to == {<<n, peers[i]>> : i \in 1..Len(peers)}
          IN  /\ Reads(n, peers)
              /\ wire' = [l \in Links |-> IF l \in to THEN wire[l] \o sent ELSE wire[l]]
              /\ outstanding' = [l \in Links |-> outstanding[l] + IF l \in to THEN number ELSE 0]
    BY DEF Say
  <1>3. PICK to : /\ to = {<<n, peers[i]>> : i \in 1..Len(peers)}
                  /\ wire' = [l \in Links |-> IF l \in to THEN wire[l] \o sent ELSE wire[l]]
                  /\ outstanding' = [l \in Links |-> outstanding[l] + IF l \in to THEN number ELSE 0]
    BY <1>2
  <1>4. UNCHANGED <<readbuffers, buffer, overflow>>
    BY DEF Say
  <1>5. LoopsAt' /\ clients' \in Seq(Clients)
    BY <1>1, <1>2, ReadsKeep
  <1>6. number \in Nat
    BY ChatAssumption
  <1>7. /\ tail \in Seq(Cells) /\ Framed(tail)
        /\ Number("ping", tail) = 0 /\ Number("pong", tail) = 0
    <2>1. CASE kind = "ping"
      <3>1. MessageCells \in Nat /\ MessageCells > 0 /\ 0 % MessageCells = 0
        BY ChatAssumption
      <3>2. <<>> \in Seq(Cells) /\ Len(<<>>) = 0
        OBVIOUS
      <3>3. Framed(<<>>)
        BY <3>1, <3>2 DEF Framed
      <3>4. \A k : Begins(k, <<>>) = {}
        BY DEF Begins
      <3>5. \A k : Number(k, <<>>) = 0
        BY <3>2, <3>4, BeginsFinite, FS_EmptySet
      <3> QED BY <2>1, <3>2, <3>3, <3>5
    <2>2. CASE kind # "ping"
      BY <2>2, ManyMessages DEF Message
    <2> QED BY <2>1, <2>2
  <1> HIDE DEF number, tail
  <1>8. /\ Many(number, "ping") \in Seq(Cells) /\ Framed(Many(number, "ping"))
        /\ Number("ping", Many(number, "ping")) = number
        /\ Number("pong", Many(number, "ping")) = 0
    BY <1>6, ManyMessages
  <1>9. sent \in Seq(Cells) /\ Framed(sent)
    BY <1>7, <1>8, ConcatProperties, FramedConcat
  <1>10. Number("ping", sent) = number /\ Number("pong", sent) = 0
    <2>1. /\ Number("ping", sent) = Number("ping", Many(number, "ping")) + Number("ping", tail)
          /\ Number("pong", sent) = Number("pong", Many(number, "ping")) + Number("pong", tail)
      BY <1>7, <1>8, NumberConcat
    <2> QED BY <1>6, <1>7, <1>8, <2>1
  <1> HIDE DEF sent
  <1>11. ASSUME NEW l \in Links
         PROVE  /\ wire[l] \in Seq(Cells) /\ wire[l] \o sent \in Seq(Cells)
                /\ Path(l)' = IF l \in to THEN Paths[l] \o sent ELSE Paths[l]
    <2>1. /\ buffer[l] \in Seq(Cells) /\ readbuffers[l] \in Seq(Cells) /\ wire[l] \in Seq(Cells)
          /\ Paths[l] = (buffer[l] \o readbuffers[l]) \o wire[l]
      BY <1>1 DEF PathsTyped
    <2>2. wire[l] \o sent \in Seq(Cells)
      BY <1>9, <2>1, ConcatProperties
    <2>3. PICK br \in Seq(Cells) : br = buffer[l] \o readbuffers[l]
      BY <2>1, ConcatProperties
    <2>4. br \o (wire[l] \o sent) = (br \o wire[l]) \o sent
      <3>1. Cat(Cat(br, wire[l]), sent) = Cat(br, Cat(wire[l], sent))
        BY <1>9, <2>1, CellsAssociative
      <3> QED BY <3>1 DEF Cat
    <2>5. Path(l)' = br \o wire'[l]
      BY <1>4, <2>3 DEF Path
    <2>6. wire'[l] = IF l \in to THEN wire[l] \o sent ELSE wire[l]
      BY <1>3
    <2> QED BY <2>1, <2>2, <2>3, <2>4, <2>5, <2>6
  <1>12. Paths' = [l \in Links |-> IF l \in to THEN Paths[l] \o sent ELSE Paths[l]]
    BY <1>11 DEF Paths
  <1>13. Paths \in [Links -> Seq(Cells)] /\ outstanding \in [Links -> Nat]
    BY <1>1 DEF PathsTyped, ChatTypes
  <1>14. Balanced(Paths', outstanding')
    <2>1. UnderWayAre(Paths, outstanding)
      BY <1>1, <1>13 DEF UnderWayAre
    <2>2. Typed(sent, number)
      BY <1>6, <1>9, <1>10 DEF Typed
    <2>3. SentTo(to, sent, number, Paths, outstanding, Paths', outstanding')
      BY <1>3, <1>12 DEF SentTo
    <2> QED BY <2>1, <2>2, <2>3, SendBalanced
  <1>15. Balanced(Paths, outstanding)'
    BY <1>14 DEF Balanced
  <1>16. wire' \in [Links -> Seq(Cells)] /\ outstanding' \in [Links -> Nat]
    BY <1>3, <1>6, <1>11, <1>13
  <1>17. ChatTypes'
    BY <1>1, <1>4, <1>5, <1>16 DEF ChatTypes, LoopsAt
  <1> QED BY <1>15, <1>17 DEF ChatIInv

(* The first message of a buffer is cut off and, if a ping, answered.       *)
LEMMA CutKeeps ==
  ASSUME ChatIInv, NEW n \in Nodes, Cut(n)
  PROVE  ChatIInv'
  <1>1. ChatTypes /\ PathsTyped /\ Balanced(Paths, outstanding)
    BY PathParts DEF ChatIInv, Cut, At
  <1>2. PICK l \in Links : l = <<Peer(n), n>>
    BY <1>1, VisitedLink DEF Cut, At
  <1>3. PICK r \in Links : r = Reverse(l) /\ r # l
    BY LinksReverse
  <1>4. PICK b \in Seq(Cells) : b = buffer[l] /\ Len(b) >= MessageCells
    BY <1>1, <1>2 DEF Cut, IsWhole, PathsTyped
  <1>5. MessageCells \in Nat /\ MessageCells > 0 /\ MessageCells \in 0..Len(b)
    BY <1>4, ChatAssumption
  <1>6. PICK x \in Seq(Cells), y \in Seq(Cells) :
          /\ y = SubSeq(b, MessageCells + 1, Len(b))
          /\ x \o y = b /\ Len(x) = MessageCells /\ x[1] = b[1]
    BY <1>5, CellsCut
  <1>7. /\ buffer' = [buffer EXCEPT ![l] = y]
        /\ wire' = IF x[1].kind = "ping"
                   THEN [wire EXCEPT ![r] = @ \o Message("pong")] ELSE wire
        /\ outstanding' = IF x[1].kind = "pong"
                          THEN [outstanding EXCEPT ![r] = @ - 1] ELSE outstanding
    BY <1>2, <1>3, <1>4, <1>6 DEF Cut
  <1>8. UNCHANGED <<clients, readbuffers, loop, overflow>>
    BY DEF Cut
  <1>9. /\ \A k \in Links : buffer'[k] = IF k = l THEN y ELSE buffer[k]
        /\ \A k \in Links : wire'[k] = IF k = r /\ x[1].kind = "ping"
                                       THEN wire[k] \o Message("pong") ELSE wire[k]
        /\ \A k \in Links : outstanding'[k] = IF k = r /\ x[1].kind = "pong"
                                              THEN outstanding[k] - 1 ELSE outstanding[k]
        /\ DOMAIN buffer' = Links /\ DOMAIN wire' = Links /\ DOMAIN outstanding' = Links
    <2>1. \A k \in Links : buffer'[k] = IF k = l THEN y ELSE buffer[k]
      BY <1>1, <1>7 DEF ChatTypes
    <2>2. \A k \in Links : wire'[k] = IF k = r /\ x[1].kind = "ping"
                                       THEN wire[k] \o Message("pong") ELSE wire[k]
      BY <1>1, <1>7 DEF ChatTypes
    <2>3. \A k \in Links : outstanding'[k] = IF k = r /\ x[1].kind = "pong"
                                              THEN outstanding[k] - 1 ELSE outstanding[k]
      BY <1>1, <1>7 DEF ChatTypes
    <2>4. DOMAIN buffer' = Links /\ DOMAIN wire' = Links /\ DOMAIN outstanding' = Links
      BY <1>1, <1>7 DEF ChatTypes
    <2> QED BY <2>1, <2>2, <2>3, <2>4
  <1>10. Message("pong") \in Seq(Cells)
    BY ManyMessages DEF Message
  <1>11. wire' \in [Links -> Seq(Cells)] /\ buffer' \in [Links -> Seq(Cells)]
    <2>1. ASSUME NEW k \in Links
          PROVE  wire'[k] \in Seq(Cells) /\ buffer'[k] \in Seq(Cells)
      <3>1. wire[k] \in Seq(Cells) /\ buffer[k] \in Seq(Cells)
        BY <1>1 DEF PathsTyped
      <3>2. wire[k] \o Message("pong") \in Seq(Cells)
        BY <1>10, <3>1, ConcatProperties
      <3> QED BY <1>9, <3>1, <3>2
    <2>2. wire' = [k \in Links |-> wire'[k]] /\ buffer' = [k \in Links |-> buffer'[k]]
      BY <1>1, <1>7 DEF ChatTypes
    <2> QED BY <2>1, <2>2
  <1>12. \A k \in Links : Path(k)' \in Seq(Cells)
    <2>1. ASSUME NEW k \in Links
          PROVE  (buffer'[k] \o readbuffers'[k]) \o wire'[k] \in Seq(Cells)
      <3>1. buffer'[k] \in Seq(Cells) /\ readbuffers'[k] \in Seq(Cells) /\ wire'[k] \in Seq(Cells)
        BY <1>1, <1>8, <1>11 DEF PathsTyped
      <3> QED BY <3>1, ConcatProperties
    <2> QED BY <2>1 DEF Path
  <1>13. PICK z \in Seq(Cells) : z = Path(l)' /\ Paths[l] = x \o z
    <2>1. PICK s \in Seq(Cells), w \in Seq(Cells) : s = readbuffers[l] /\ w = wire[l]
      BY <1>1 DEF PathsTyped
    <2>2. Path(l)' = (y \o s) \o w
      BY <1>3, <1>8, <1>9, <2>1 DEF Path
    <2>3. Paths[l] = ((x \o y) \o s) \o w
      BY <1>1, <1>4, <1>6, <2>1 DEF PathsTyped
    <2>4. Cat(Cat(Cat(x, y), s), w) = Cat(x, Cat(Cat(y, s), w))
      BY MovedFirst
    <2>5. ((x \o y) \o s) \o w = x \o ((y \o s) \o w)
      BY <2>4 DEF Cat
    <2>6. Path(l)' \in Seq(Cells) /\ Paths[l] = x \o Path(l)'
      BY <1>12, <2>2, <2>3, <2>5
    <2> QED BY <2>6
  <1>14. Path(r)' = IF x[1].kind = "ping" THEN Paths[r] \o Message("pong") ELSE Paths[r]
    <2>1. PICK s \in Seq(Cells), w \in Seq(Cells) : s = Cat(buffer[r], readbuffers[r]) /\ w = wire[r]
      <3>1. buffer[r] \in Seq(Cells) /\ readbuffers[r] \in Seq(Cells) /\ wire[r] \in Seq(Cells)
        BY <1>1 DEF PathsTyped
      <3>2. Cat(buffer[r], readbuffers[r]) \in Seq(Cells)
        BY <3>1, CellsClosed
      <3> QED BY <3>1, <3>2
    <2>2. Paths[r] = Cat(s, w)
      BY <1>1, <2>1 DEF PathsTyped, Cat
    <2>3. Path(r)' = Cat(s, wire'[r])
      <3>1. buffer'[r] = buffer[r] /\ readbuffers'[r] = readbuffers[r]
        BY <1>3, <1>8, <1>9
      <3> QED BY <2>1, <3>1 DEF Path, Cat
    <2>4. CASE x[1].kind = "ping"
      <3>1. wire'[r] = Cat(w, Message("pong"))
        BY <1>9, <2>1, <2>4 DEF Cat
      <3>2. Cat(Cat(s, w), Message("pong")) = Cat(s, Cat(w, Message("pong")))
        BY <1>10, CellsAssociative
      <3>3. Path(r)' = Cat(Paths[r], Message("pong"))
        BY <2>2, <2>3, <3>1, <3>2
      <3> QED BY <2>4, <3>3 DEF Cat
    <2>5. CASE x[1].kind # "ping"
      BY <1>9, <2>1, <2>2, <2>3, <2>5
    <2> QED BY <2>4, <2>5
  <1>15. \A k \in Links \ {l, r} : Path(k)' = Paths[k]
    <2>1. ASSUME NEW k \in Links, k # l, k # r
          PROVE  Path(k)' = Paths[k]
      <3>1. buffer'[k] = buffer[k] /\ readbuffers'[k] = readbuffers[k] /\ wire'[k] = wire[k]
        BY <1>8, <1>9, <2>1
      <3>2. Path(k)' = (buffer[k] \o readbuffers[k]) \o wire[k]
        BY <3>1 DEF Path
      <3> QED BY <1>1, <3>2 DEF PathsTyped
    <2> QED BY <2>1
  <1>16. \A k \in Links : Paths'[k] = Path(k)'
    BY DEF Paths
  <1>17. UnderWayAre(Paths, outstanding)
    BY <1>1 DEF UnderWayAre, PathsTyped, ChatTypes
  <1>18. Arrives(l, x, z, Paths, outstanding, Paths', outstanding')
    <2>1. Len(x) = MessageCells /\ Paths[l] = x \o z /\ Paths'[l] = z
      BY <1>6, <1>13, <1>16
    <2>2. Paths'[r] = IF x[1].kind = "ping" THEN Paths[r] \o Message("pong") ELSE Paths[r]
      BY <1>14, <1>16
    <2>3. outstanding'[r] = IF x[1].kind = "pong" THEN outstanding[r] - 1 ELSE outstanding[r]
      BY <1>9
    <2>4. \A k \in Links \ {l, r} : Paths'[k] = Paths[k]
      BY <1>15, <1>16
    <2>5. \A k \in Links \ {r} : outstanding'[k] = outstanding[k]
      BY <1>9
    <2> QED BY <1>3, <2>1, <2>2, <2>3, <2>4, <2>5 DEF Arrives
  <1>19. Balanced(Paths', outstanding') /\ \A k \in Links : outstanding'[k] \in Nat
    BY <1>17, <1>18, ArriveBalanced
  <1>20. outstanding' \in [Links -> Nat]
    <2>1. outstanding' = [k \in Links |-> outstanding'[k]]
      BY <1>1, <1>7 DEF ChatTypes
    <2> QED BY <1>19, <2>1
  <1>21. \A k \in Links : Len(readbuffers'[k]) <= StreamCapacity /\ Len(buffer'[k]) <= BufferCapacity
    <2>1. Len(b) = MessageCells + Len(y) /\ Len(b) <= BufferCapacity
      <3>1. Len(x \o y) = Len(x) + Len(y)
        BY ConcatProperties
      <3>2. Len(buffer[l]) <= BufferCapacity
        BY <1>1 DEF ChatTypes
      <3> QED BY <1>4, <1>6, <3>1, <3>2
    <2>2. Len(y) <= BufferCapacity
      BY <1>5, <2>1, ChatAssumption
    <2> QED BY <1>1, <1>8, <1>9, <2>2 DEF ChatTypes
  <1>22. ChatTypes'
    BY <1>1, <1>8, <1>11, <1>20, <1>21 DEF ChatTypes
  <1> QED BY <1>19, <1>22 DEF ChatIInv, Balanced

-----------------------------------------------------------------------------
LEMMA ChatStepKeeps == ChatIInv /\ [ChatNext]_chatVars => ChatIInv'
  <1> SUFFICES ASSUME ChatIInv, [ChatNext]_chatVars PROVE ChatIInv'
    OBVIOUS
  <1>1. ASSUME NEW c \in Clients, Connect(c) PROVE ChatIInv'
    BY <1>1, ConnectKeeps
  <1>2. ASSUME NEW n \in Nodes, MainLoop(n) PROVE ChatIInv'
    BY <1>2, QuietKeeps, CopySomeKeeps, CopyNoMoreKeeps, CutKeeps, CutNoMoreKeeps DEF MainLoop
  <1>3. ASSUME NEW n \in Nodes, NEW kind \in {"text", "ping", "multiping"}, Say(n, kind)
        PROVE  ChatIInv'
    BY <1>3, SayKeeps
  <1>4. ASSUME NEW l \in Links, ReadThread(l) PROVE ChatIInv'
    BY <1>4, ReadThreadKeeps
  <1>5. CASE UNCHANGED chatVars
    <2>1. /\ UNCHANGED <<clients, wire, readbuffers, buffer, loop, outstanding, overflow>>
      BY <1>5 DEF chatVars, streamVars, pingVars
    <2>2. ChatTypes
      BY DEF ChatIInv
    <2>3. clients' \in Seq(Clients)
      BY <2>1, <2>2 DEF ChatTypes
    <2>4. LoopsAt'
      <3>1. LoopsAt
        BY <2>2 DEF ChatTypes, LoopsAt
      <3> QED BY <2>1, <3>1 DEF LoopsAt
    <2> QED BY <2>1, <2>3, <2>4, NothingMoves
  <1> QED BY <1>1, <1>2, <1>3, <1>4, <1>5 DEF ChatNext

(* The invariant holds throughout.                                          *)
THEOREM ChatInvariance == ChatSpec => []ChatIInv
  <1> QED BY InitChat, ChatStepKeeps, PTL DEF ChatSpec

(* Where the loops of the chat are, and that no buffer holds more than its  *)
(* size (Program.cs:71-188, MemoryBuffer.cs:277).                           *)
THEOREM ChatTypeCorrect == ChatSpec => []ChatTypeOK
  <1>1. ChatIInv => ChatTypeOK
    BY DEF ChatIInv, ChatTypes, LoopAt, ChatTypeOK
  <1> QED BY <1>1, ChatInvariance, PTL

(* For any number of clients, sizes of messages and buffers and typed       *)
(* lines, every ping and every pong is under way once or dealt with, and    *)
(* messages are cut where they begin, as long as no buffer overflowed       *)
(* (Program.cs:140-183, StreamReadAsync.cs:79-126).                         *)
THEOREM EveryPingAccounted == ChatSpec => []PingsAccounted
  <1>1. ChatIInv => PingsAccounted
    <2> SUFFICES ASSUME ChatIInv, ~overflow, NEW l \in Links
                 PROVE  /\ outstanding[l] = Number("ping", Path(l)) + Number("pong", Path(Reverse(l)))
                        /\ \A i \in 1..Len(Path(l)) : Path(l)[i].part = ((i - 1) % MessageCells) + 1
      BY DEF PingsAccounted
    <2>1. Reverse(l) \in Links /\ Balanced(Paths, outstanding)
      BY LinksReverse DEF ChatIInv
    <2>2. Paths[l] = Path(l) /\ Paths[Reverse(l)] = Path(Reverse(l))
      BY <2>1 DEF Paths
    <2> QED BY <2>1, <2>2 DEF Balanced, Framed
  <1> QED BY <1>1, ChatInvariance, PTL
===============================================================================
