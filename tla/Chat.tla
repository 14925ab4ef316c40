-------------------------------- MODULE Chat --------------------------------
(***************************************************************************)
(* SslStreamChat, a server and its clients without compression: the main    *)
(* loops of ChatServer and ChatClient, the messages of Common, and between  *)
(* the network and a loop a StreamReadAsync with its reading thread.        *)
(*                                                                          *)
(* A serialized message is MessageCells cells, the first of which has its   *)
(* length; a cell is any share of its bytes.  The buffers are the bounded   *)
(* queues that MemoryBuffer implements (ByteQueue); one that overflows      *)
(* throws, in a thread where nothing catches it: the process ends, and the  *)
(* model with it.                                                           *)
(* Sockets take everything that is written to them.                         *)
(***************************************************************************)
EXTENDS Naturals, Sequences, FiniteSets, Functions

CONSTANTS
  Server, Clients,
  MessageCells,   \* cells of a message
  ReadLength,     \* cells a Read of the network returns at most
  StreamCapacity,   \* length of StreamReadAsync's _readbuffer
  BufferCapacity, \* ConfigBufferSize
  Pings,          \* multiping_iterations
  MaxSays         \* bound of the exploration: lines typed at all the consoles

ASSUME ChatAssumption ==
  /\ Server \notin Clients
  /\ MessageCells \in Nat \ {0, 1} /\ ReadLength \in Nat \ {0}
  /\ StreamCapacity \in Nat /\ BufferCapacity \in Nat
  /\ Pings \in Nat \ {0} /\ MaxSays \in Nat

Nodes == {Server} \cup Clients

(* A link is a direction of a connection: from, to. *)
Links == ({Server} \X Clients) \cup (Clients \X {Server})
Reverse(l) == <<l[2], l[1]>>

VARIABLES
  clients,     \* the server's list of connections
  wire,        \* per link, the cells under way
  reading,     \* per link, whether its receiver's read thread has been started
  readbuffers,  \* per link, its receiver's _readbuffer
  buffer,      \* per link, its receiver's Buffer or clientbuffer
  loop,        \* per node, where its main loop is and the peers still to visit
  multiping,   \* multipingsent of each node
  pongs,       \* multiping_iterations_received of each node
  says,        \* lines typed so far
  overflow,    \* a Write found no room and threw, or waits for ever
  outstanding  \* history: per link, pings sent along it less pongs come back

streamVars == <<wire, reading, readbuffers>>
pingVars == <<multiping, pongs, outstanding>>
chatVars == <<clients, streamVars, buffer, loop, pingVars, says, overflow>>

Cell(kind, part) == [kind |-> kind, part |-> part]
Many(n, kind) ==
  [i \in 1..(n * MessageCells) |-> Cell(kind, ((i - 1) % MessageCells) + 1)]
Message(kind) == Many(1, kind)

At(n, place) == ~overflow /\ loop[n].at = place
Visiting(at, peers) == IF peers = <<>> THEN [at |-> "top", peers |-> <<>>]
                       ELSE [at |-> at, peers |-> peers]
Top == Visiting("top", <<>>)
Peer(n) == Head(loop[n].peers)

ChatInit ==
  /\ clients = <<>>
  /\ wire = [l \in Links |-> <<>>]
  /\ reading = [l \in Links |-> FALSE]
  /\ readbuffers = [l \in Links |-> <<>>]
  /\ buffer = [l \in Links |-> <<>>]
  /\ loop = [n \in Nodes |-> [at |-> IF n = Server THEN "top" ELSE "start", peers |-> <<>>]]
  /\ multiping = [n \in Nodes |-> FALSE]
  /\ pongs = [n \in Nodes |-> 0]
  /\ says = 0 /\ overflow = FALSE
  /\ outstanding = [l \in Links |-> 0]

-----------------------------------------------------------------------------
Connect(c) ==
  /\ At(c, "start")
  /\ loop' = [loop EXCEPT ![c] = Top]
  /\ UNCHANGED <<clients, streamVars, buffer, pingVars, says, overflow>>

Connected(n) == IF n = Server THEN clients ELSE <<Server>>

(* The server accepts a connection if one is pending.  A client has one. *)
Accepted(n) ==
  LET pending == {c \in Clients : loop[c].at # "start"} \ {clients[i] : i \in 1..Len(clients)}
  IN  IF n = Server /\ pending # {} THEN {Append(clients, c) : c \in pending}
      ELSE {Connected(n)}

Reads(n, peers) ==
  /\ clients' = IF n = Server THEN peers ELSE clients
  /\ loop' = [loop EXCEPT ![n] = Visiting("copy", peers)]

(* No line was typed. *)
Quiet(n) ==
  /\ At(n, "top")
  /\ \E peers \in Accepted(n) : Reads(n, peers)
  /\ UNCHANGED <<streamVars, buffer, pingVars, says, overflow>>

(* Mutant: the counter of pongs is not reset. *)
SayOnTop(n, kind) ==
  /\ At(n, "top") /\ says < MaxSays
  /\ \E peers \in Accepted(n) :
       LET number == IF kind = "multiping" THEN Pings ELSE IF kind = "ping" THEN 1 ELSE 0
           sent   == Many(number, "ping") \o (IF kind = "ping" THEN <<>> ELSE Message("text"))
           to     == {<<n, peers[i]>> : i \in 1..Len(peers)}
       IN  /\ Reads(n, peers)
           /\ wire' = [l \in Links |-> IF l \in to THEN wire[l] \o sent ELSE wire[l]]
           /\ outstanding' = [l \in Links |-> outstanding[l] + IF l \in to THEN number ELSE 0]
  /\ multiping' = [multiping EXCEPT ![n] = @ \/ kind = "multiping"]
  /\ says' = says + 1
  /\ UNCHANGED <<reading, readbuffers, buffer, overflow, pongs>>

(* A line was typed: it is sent to every peer, "multiping" after its pings.  *)
(* The whole of it is one step, since nobody can see the end of it missing.  *)
(* A typed "pong", which would be counted at the other end, is left out.     *)
Say(n, kind) ==
  /\ At(n, "top") /\ says < MaxSays
  /\ \E peers \in Accepted(n) :
       LET number == IF kind = "multiping" THEN Pings ELSE IF kind = "ping" THEN 1 ELSE 0
           sent   == Many(number, "ping") \o (IF kind = "ping" THEN <<>> ELSE Message("text"))
           to     == {<<n, peers[i]>> : i \in 1..Len(peers)}
       IN  /\ Reads(n, peers)
           /\ wire' = [l \in Links |-> IF l \in to THEN wire[l] \o sent ELSE wire[l]]
           /\ outstanding' = [l \in Links |-> outstanding[l] + IF l \in to THEN number ELSE 0]
  /\ multiping' = [multiping EXCEPT ![n] = @ \/ kind = "multiping"]
  /\ pongs' = [pongs EXCEPT ![n] = IF kind = "multiping" THEN 0 ELSE @]
  /\ says' = says + 1
  /\ UNCHANGED <<reading, readbuffers, buffer, overflow>>

-----------------------------------------------------------------------------
(* The read thread of a link: some bytes arrive and go into _readbuffer, or  *)
(* the Write throws.                                                         *)
ReadThread(l) ==
  /\ reading[l] /\ ~overflow
  /\ \E n \in 1..ReadLength :
       /\ n <= Len(wire[l])
       /\ wire' = [wire EXCEPT ![l] = SubSeq(@, n + 1, Len(@))]
       /\ IF Len(readbuffers[l]) + n <= StreamCapacity
          THEN /\ readbuffers' = [readbuffers EXCEPT ![l] = @ \o SubSeq(wire[l], 1, n)]
               /\ UNCHANGED overflow
          ELSE overflow' = TRUE /\ UNCHANGED readbuffers
  /\ UNCHANGED <<clients, reading, buffer, loop, pingVars, says>>

(* CopyTo: Read and Write until Read returns nothing.  The first Read starts *)
(* the thread.                                                               *)
CopySome(n) ==
  /\ At(n, "copy")
  /\ LET l == <<Peer(n), n>>
     IN  /\ readbuffers[l] # <<>>
         /\ readbuffers' = [readbuffers EXCEPT ![l] = <<>>]
         /\ IF Len(buffer[l]) + Len(readbuffers[l]) <= BufferCapacity
            THEN buffer' = [buffer EXCEPT ![l] = @ \o readbuffers[l]] /\ UNCHANGED overflow
            ELSE overflow' = TRUE /\ UNCHANGED buffer
  /\ UNCHANGED <<clients, wire, reading, loop, pingVars, says>>

(* Then the next peer, and after the last one the messages in the buffers. *)
CopyNoMore(n) ==
  /\ At(n, "copy")
  /\ LET peers == Tail(loop[n].peers)
     IN  /\ readbuffers[<<Peer(n), n>>] = <<>>
         /\ reading' = [reading EXCEPT ![<<Peer(n), n>>] = TRUE]
         /\ loop' = [loop EXCEPT ![n] =
              IF peers # <<>> THEN Visiting("copy", peers) ELSE Visiting("cut", Connected(n))]
  /\ UNCHANGED <<clients, wire, readbuffers, buffer, pingVars, says, overflow>>

(* Mutant: the length is there, so the message must be. *)
IsBegun(cells) == Len(cells) >= 1

(* ReadStreamToMessageStream takes a message when all of it is there. *)
IsWhole(cells) == Len(cells) >= MessageCells

(* Mutant: a ping that comes while pongs are awaited is not answered. *)
CutQuietly(n) ==
  /\ At(n, "cut")
  /\ LET l    == <<Peer(n), n>>
         kind == buffer[l][1].kind
         rest == SubSeq(buffer[l], MessageCells + 1, Len(buffer[l]))
     IN  /\ IsWhole(buffer[l])
         /\ buffer' = [buffer EXCEPT ![l] = rest]
         /\ wire' = IF kind = "ping" /\ ~multiping[n]
                    THEN [wire EXCEPT ![Reverse(l)] = @ \o Message("pong")] ELSE wire
         /\ pongs' = IF kind = "pong" THEN [pongs EXCEPT ![n] = @ + 1] ELSE pongs
         /\ multiping' = [multiping EXCEPT ![n] = @ /\ ~(kind = "pong" /\ pongs'[n] = Pings)]
         /\ outstanding' = IF kind = "pong"
                           THEN [outstanding EXCEPT ![Reverse(l)] = @ - 1] ELSE outstanding
  /\ UNCHANGED <<clients, reading, readbuffers, loop, says, overflow>>

(* A whole message is read and dealt with.  The beginning of one is not      *)
(* taken, and the loop, which stays while its buffer has bytes, spins here   *)
(* for ever.                                                                 *)
Cut(n) ==
  /\ At(n, "cut")
  /\ LET l    == <<Peer(n), n>>
         kind == buffer[l][1].kind
         rest == SubSeq(buffer[l], MessageCells + 1, Len(buffer[l]))
     IN  /\ IsWhole(buffer[l])
         /\ buffer' = [buffer EXCEPT ![l] = rest]
         /\ wire' = IF kind = "ping"
                    THEN [wire EXCEPT ![Reverse(l)] = @ \o Message("pong")] ELSE wire
         /\ pongs' = IF kind = "pong" THEN [pongs EXCEPT ![n] = @ + 1] ELSE pongs
         /\ multiping' = [multiping EXCEPT ![n] = @ /\ ~(kind = "pong" /\ pongs'[n] = Pings)]
         /\ outstanding' = IF kind = "pong"
                           THEN [outstanding EXCEPT ![Reverse(l)] = @ - 1] ELSE outstanding
  /\ UNCHANGED <<clients, reading, readbuffers, loop, says, overflow>>

(* No bytes: the loop goes on to the next peer.                              *)
CutNoMore(n) ==
  /\ At(n, "cut") /\ buffer[<<Peer(n), n>>] = <<>>
  /\ loop' = [loop EXCEPT ![n] = Visiting("cut", Tail(@.peers))]
  /\ UNCHANGED <<clients, streamVars, buffer, pingVars, says, overflow>>

MainLoop(n) == Quiet(n) \/ CopySome(n) \/ CopyNoMore(n) \/ Cut(n) \/ CutNoMore(n)

ChatNext ==
  \/ \E c \in Clients : Connect(c)
  \/ \E n \in Nodes :
       \/ MainLoop(n)
       \/ \E kind \in {"text", "ping", "multiping"} : Say(n, kind)
  \/ \E l \in Links : ReadThread(l)

ChatSpec == ChatInit /\ [][ChatNext]_chatVars

(* The threads are scheduled; nobody has to start a client or to type. *)
FairChatSpec ==
  /\ ChatSpec
  /\ \A n \in Nodes : WF_chatVars(MainLoop(n))
  /\ \A l \in Links : WF_chatVars(ReadThread(l))

-----------------------------------------------------------------------------
(* What has been sent along a link and not been cut yet. *)
Path(l) == buffer[l] \o readbuffers[l] \o wire[l]
Number(kind, cells) == Cardinality({i \in 1..Len(cells) : cells[i] = Cell(kind, 1)})

(* A loop that has part of a message and waits for the rest where it cannot  *)
(* come: only CopyTo, outside the loop, fills the buffer.                    *)
Spins(n) ==
  At(n, "cut") /\ Len(buffer[<<Peer(n), n>>]) \in 1..(MessageCells - 1)

ChatTypeOK ==
  /\ \A n \in Nodes : loop[n].at \in {"start", "top", "copy", "cut"}
  /\ \A l \in Links :
       /\ Len(readbuffers[l]) <= StreamCapacity /\ Len(buffer[l]) <= BufferCapacity
       /\ outstanding[l] \in Nat

(* Every ping, and every pong, is somewhere: a ping whose pong has not come  *)
(* is one message under way, there or back, whatever pieces the network,     *)
(* the read thread and CopyTo make of the messages -- as long as no buffer   *)
(* overflowed (Program.cs:140-183, StreamReadAsync.cs:79-126).               *)
PingsAccounted ==
  ~overflow =>
    \A l \in Links :
      /\ outstanding[l] = Number("ping", Path(l)) + Number("pong", Path(Reverse(l)))
      /\ \A i \in 1..Len(Path(l)) : Path(l)[i].part = ((i - 1) % MessageCells) + 1

(* Every ping is answered in the end, unless a buffer overflowed or one of   *)
(* the loops spins on a part of a message.                                   *)
PingAnswered ==
  \A l \in Links :
    outstanding[l] > 0 ~> outstanding[l] = 0 \/ overflow \/ \E n \in Nodes : Spins(n)

(* The same of the loop as its comment has it: "while we have messages in    *)
(* the buffer, continue showing messages" (Program.cs:182) -- messages, not  *)
(* bytes.                                                                    *)
PingAnsweredInPieces ==
  \A l \in Links : outstanding[l] > 0 ~> outstanding[l] = 0 \/ overflow

PongsToCome(n) == SumFunctionOnSet(outstanding, {l \in Links : l[1] = n})

(* A multiping that has pongs to come ends, also with other pings, earlier   *)
(* or later, under way (Program.cs:115-126, 171-179).                        *)
MultipingEnds ==
  \A n \in Nodes :
    multiping[n] /\ pongs[n] + PongsToCome(n) >= Pings
      ~> ~multiping[n] \/ overflow \/ \E p \in Nodes : Spins(p)
=============================================================================
