--------------------------- MODULE CompressedStream ---------------------------
(***************************************************************************)
(* ChatMessages/CompressedNetworkStream, one direction of a connection: the *)
(* application writes into _writebuffer and flushes; WriteThread sends the  *)
(* whole buffer as a block once it is full or flushed; at the other end     *)
(* ReadThread puts the block into _readbuffer, which the application reads. *)
(*                                                                          *)
(* Bytes are numbered in the order they are written, modulo ByteValues.     *)
(* Compression is left out: a block carries its bytes.  Both buffers are    *)
(* the bounded queues ByteQueue describes, and a queue that a Write does    *)
(* not fit into throws.  Nothing releases a lock when an exception passes   *)
(* it: the lock is "stuck".  ReadThread has no handler either, so that its  *)
(* exception ends the process; for the two applications that is the same.   *)
(***************************************************************************)
EXTENDS Naturals, Sequences

CONSTANTS
  ByteValues,     \* numbers of bytes told apart, more than are ever under way
  WriteCapacity,  \* _maxbuffersize of the writing end
  ReadCapacity,   \* _maxbuffersize of the reading end
  Chunk,          \* _tempbuffersize
  Counts,         \* how many bytes the application writes or asks for
  MaxUnderWay     \* bound of the exploration: bytes under way

ASSUME CompressedStreamAssumption ==
  /\ {ByteValues, WriteCapacity, ReadCapacity, Chunk} \subseteq Nat \ {0}
  /\ Counts \subseteq Nat /\ MaxUnderWay \in 0..(ByteValues - 1)

VARIABLES
  next,         \* the number of the next byte written
  writebuffer,  \* _writebuffer
  writelock,    \* _writebufferlock: "free", "thread" or "stuck"
  flush,        \* _flush
  sender,       \* WriteThread's place and the block it has drained
  network,      \* the bytes of blocks under way in _basestream
  headers,      \* the lengths of these blocks; of the first, what is left to receive
  receiver,     \* ReadThread's place and its block
  readbuffer,   \* _readbuffer
  readlock,     \* _readbufferlock
  marked,       \* history: how many bytes are to arrive up to one chosen Flush
  heeded        \* history: every Write found room in both buffers

writeVars == <<next, writebuffer, writelock, flush>>
readVars == <<readbuffer, readlock>>
vars == <<writeVars, sender, network, headers, receiver, readVars, marked, heeded>>

Thread(at, block) == [at |-> at, block |-> block]

(* All the bytes under way, the first to arrive first. *)
UnderWay ==
  readbuffer \o receiver.block \o network \o sender.block \o writebuffer

First(n, s) == SubSeq(s, 1, IF n < Len(s) THEN n ELSE Len(s))
Rest(n, s)  == SubSeq(s, n + 1, Len(s))

Init ==
  /\ next = 0
  /\ writebuffer = <<>> /\ writelock = "free" /\ flush = FALSE
  /\ sender = Thread("test", <<>>)
  /\ network = <<>> /\ headers = <<>>
  /\ receiver = Thread("receive", <<>>)
  /\ readbuffer = <<>> /\ readlock = "free"
  /\ marked = 0 /\ heeded = TRUE

-----------------------------------------------------------------------------
(* The application at the writing end: what does not fit throws. *)
Write(n) ==
  /\ writelock = "free"
  /\ Len(UnderWay) + n <= MaxUnderWay
  /\ \/ /\ Len(writebuffer) + n <= WriteCapacity
        /\ writebuffer' = writebuffer \o [i \in 1..n |-> (next + i - 1) % ByteValues]
        /\ next' = (next + n) % ByteValues
        /\ heeded' = (heeded /\ Len(UnderWay) + n <= ReadCapacity)
        /\ UNCHANGED writelock
     \/ /\ Len(writebuffer) + n > WriteCapacity
        /\ writelock' = "stuck"
        /\ heeded' = FALSE
        /\ UNCHANGED <<writebuffer, next>>
  /\ UNCHANGED <<flush, sender, network, headers, receiver, readVars, marked>>

(* One Flush with nothing marked yet may be the one that is followed. *)
Flush ==
  /\ flush' = TRUE
  /\ \/ UNCHANGED marked
     \/ marked = 0 /\ marked' = Len(UnderWay)
  /\ UNCHANGED <<next, writebuffer, writelock, sender, network, headers, receiver, readVars, heeded>>

-----------------------------------------------------------------------------
(* Mutant: the buffer counts as full when it holds more. *)
StartBlockLate ==
  /\ sender.at = "test"
  /\ Len(writebuffer) > WriteCapacity \/ flush
  /\ writebuffer # <<>>
  /\ sender' = Thread("clear", <<>>)
  /\ UNCHANGED <<writeVars, network, headers, receiver, readVars, marked, heeded>>

(* WriteThread: the buffer is full or flushed, and has something in it. *)
StartBlock ==
  /\ sender.at = "test"
  /\ Len(writebuffer) >= WriteCapacity \/ flush
  /\ writebuffer # <<>>
  /\ sender' = Thread("clear", <<>>)
  /\ UNCHANGED <<writeVars, network, headers, receiver, readVars, marked, heeded>>

ClearFlush ==
  /\ sender.at = "clear"
  /\ flush' = FALSE
  /\ sender' = Thread("lock", <<>>)
  /\ UNCHANGED <<next, writebuffer, writelock, network, headers, receiver, readVars, marked, heeded>>

TakeWriteLock ==
  /\ sender.at = "lock" /\ writelock = "free"
  /\ writelock' = "thread"
  /\ sender' = Thread("drain", <<>>)
  /\ UNCHANGED <<next, writebuffer, flush, network, headers, receiver, readVars, marked, heeded>>

(* One round of the loop that empties the buffer; a round that reads nothing *)
(* ends it.                                                                  *)
Drain ==
  /\ sender.at = "drain"
  /\ IF writebuffer # <<>>
     THEN /\ sender' = Thread("drain", sender.block \o First(Chunk, writebuffer))
          /\ writebuffer' = Rest(Chunk, writebuffer)
          /\ UNCHANGED writelock
     ELSE /\ sender' = Thread("send", sender.block)
          /\ writelock' = "free"
          /\ UNCHANGED writebuffer
  /\ UNCHANGED <<next, flush, network, headers, receiver, readVars, marked, heeded>>

(* Mutant: the flag is cleared once the block is sent. *)
SendClearing ==
  /\ sender.at = "send"
  /\ network' = network \o sender.block
  /\ headers' = Append(headers, Len(sender.block))
  /\ sender' = Thread("test", <<>>)
  /\ flush' = FALSE
  /\ UNCHANGED <<next, writebuffer, writelock, receiver, readVars, marked, heeded>>

(* Length, kind and content of the block. *)
Send ==
  /\ sender.at = "send"
  /\ network' = network \o sender.block
  /\ headers' = Append(headers, Len(sender.block))
  /\ sender' = Thread("test", <<>>)
  /\ UNCHANGED <<writeVars, receiver, readVars, marked, heeded>>

-----------------------------------------------------------------------------
(* Mutant: the loop takes what one Read returns for the block. *)
ReceivePart(n) ==
  /\ receiver.at = "receive" /\ headers # <<>>
  /\ n \in 1..Len(First(Head(headers), network))
  /\ receiver' = Thread("lock", First(n, network))
  /\ network' = Rest(Head(headers), network)
  /\ headers' = Tail(headers)
  /\ UNCHANGED <<writeVars, sender, readVars, marked, heeded>>

(* ReadThread: the next n bytes of a block; the last of them completes it.   *)
Receive(n) ==
  /\ receiver.at = "receive" /\ headers # <<>>
  /\ n \in 1..Len(First(Head(headers), network))
  /\ network' = Rest(n, network)
  /\ LET block == receiver.block \o First(n, network)
         left  == Head(headers) - n
     IN  IF left = 0
         THEN receiver' = Thread("lock", block) /\ headers' = Tail(headers)
         ELSE receiver' = Thread("receive", block) /\ headers' = [headers EXCEPT ![1] = left]
  /\ UNCHANGED <<writeVars, sender, readVars, marked, heeded>>

TakeReadLock ==
  /\ receiver.at = "lock" /\ readlock = "free"
  /\ readlock' = "thread"
  /\ receiver' = Thread("push", receiver.block)
  /\ UNCHANGED <<writeVars, sender, network, headers, readbuffer, marked, heeded>>

(* Mutant: the whole temporary buffer is written, not what was read into it. *)
PushWhole ==
  /\ receiver.at = "push"
  /\ LET chunk == First(Chunk, receiver.block)
         whole == chunk \o [i \in 1..(Chunk - Len(chunk)) |-> 0]
     IN  IF chunk = <<>>
         THEN /\ receiver' = Thread("receive", <<>>)
              /\ readlock' = "free"
              /\ UNCHANGED readbuffer
         ELSE IF Len(readbuffer) + Len(whole) <= ReadCapacity
         THEN /\ readbuffer' = readbuffer \o whole
              /\ receiver' = Thread("push", Rest(Chunk, receiver.block))
              /\ UNCHANGED readlock
         ELSE /\ receiver' = Thread("gone", receiver.block)
              /\ readlock' = "stuck"
              /\ UNCHANGED readbuffer
  /\ UNCHANGED <<writeVars, sender, network, headers, marked, heeded>>

(* One chunk of the block goes into the buffer, or the Write throws and the  *)
(* thread is gone; after the last chunk the lock is free again.              *)
Push ==
  /\ receiver.at = "push"
  /\ LET chunk == First(Chunk, receiver.block)
     IN  IF chunk = <<>>
         THEN /\ receiver' = Thread("receive", <<>>)
              /\ readlock' = "free"
              /\ UNCHANGED readbuffer
         ELSE IF Len(readbuffer) + Len(chunk) <= ReadCapacity
         THEN /\ readbuffer' = readbuffer \o chunk
              /\ receiver' = Thread("push", Rest(Chunk, receiver.block))
              /\ UNCHANGED readlock
         ELSE /\ receiver' = Thread("gone", receiver.block)
              /\ readlock' = "stuck"
              /\ UNCHANGED readbuffer
  /\ UNCHANGED <<writeVars, sender, network, headers, marked, heeded>>

(* The application at the reading end. *)
Read(n) ==
  /\ readlock = "free"
  /\ readbuffer' = Rest(n, readbuffer)
  /\ LET got == Len(readbuffer) - Len(readbuffer')
     IN  marked' = IF got < marked THEN marked - got ELSE 0
  /\ UNCHANGED <<writeVars, sender, network, headers, receiver, readlock, heeded>>

-----------------------------------------------------------------------------
SenderStep == StartBlock \/ ClearFlush \/ TakeWriteLock \/ Drain \/ Send
ReceiverStep ==
  \/ \E n \in 1..WriteCapacity : Receive(n)
  \/ TakeReadLock \/ Push

Next ==
  \/ \E n \in Counts : Write(n) \/ Read(n)
  \/ Flush
  \/ SenderStep \/ ReceiverStep

Spec == Init /\ [][Next]_vars

(* Both threads run, a lock that comes free again and again is taken, and    *)
(* the reading application goes on reading.  Writing and flushing are free.  *)
FairSpec ==
  /\ Spec
  /\ WF_vars(SenderStep) /\ WF_vars(ReceiverStep)
  /\ SF_vars(TakeWriteLock) /\ SF_vars(TakeReadLock)
  /\ SF_vars(\E n \in Counts \ {0} : Read(n))

-----------------------------------------------------------------------------
Numbers == 0..(ByteValues - 1)

TypeOK ==
  /\ next \in Numbers
  /\ writebuffer \in Seq(Numbers) /\ Len(writebuffer) <= WriteCapacity
  /\ readbuffer \in Seq(Numbers) /\ Len(readbuffer) <= ReadCapacity
  /\ {sender.block, receiver.block, network} \subseteq Seq(Numbers)
  /\ headers \in Seq(Nat)
  /\ writelock \in {"free", "thread", "stuck"} /\ readlock \in {"free", "thread", "stuck"}
  /\ writelock = "thread" <=> sender.at = "drain"
  /\ readlock = "thread" <=> receiver.at = "push"
  /\ sender.at \in {"test", "clear", "lock", "drain", "send"}
  /\ receiver.at \in {"receive", "lock", "push", "gone"}
  /\ flush \in BOOLEAN /\ heeded \in BOOLEAN /\ marked \in Nat

(* What is under way is exactly the last bytes written, each once and in      *)
(* order, wherever threads, blocks and chunks have cut them.                  *)
NothingLost ==
  LET n == Len(UnderWay)
  IN  \A i \in 1..n : (UnderWay[i] + n - i + 1) % ByteValues = next

(* An application that keeps to what fits never leaves a lock held for good, *)
(* however its threads and its bytes come to stand.                          *)
NobodyStuck == heeded => writelock # "stuck" /\ readlock # "stuck"

IsStuck == writelock = "stuck" \/ readlock = "stuck"

(* What was written before a Flush arrives, also when the Flush comes while  *)
(* WriteThread is busy with the block before; unless a Write threw, in the   *)
(* application or in ReadThread, and kept its lock.                          *)
FlushedArrives == marked > 0 ~> marked = 0 \/ IsStuck

(* A full buffer is sent without a Flush, with the same exception.           *)
FullBufferSent ==
  Len(writebuffer) = WriteCapacity ~> writebuffer = <<>> \/ IsStuck
=============================================================================
