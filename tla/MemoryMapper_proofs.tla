------------------------ MODULE MemoryMapper_proofs ------------------------
(***************************************************************************)
(* For every file size, growth step, set of slots and set of handles:      *)
(* mappings stay inside the file and callers inside their mappings; and    *)
(* for callers with FileStoreManager's discipline the mapper implements    *)
(* MappedFile.                                                             *)
(***************************************************************************)
EXTENDS MapperRefinement, TLAPS

(* What a call keeps true of the mappings it passes through: they are        *)
(* typed, the lists hold containers that exist, and these lie in the file.   *)
WellFormed(m, size) ==
  /\ m = [containers |-> m.containers, listed |-> m.listed, before |-> m.before]
  /\ m.containers \in [Slots -> Container \cup {None}]
  /\ m.listed \in [Kinds -> SUBSET Slots]
  /\ m.before \subseteq Slots \X Slots
  /\ \A s \in Members(m.listed) : m.containers[s] # None
  /\ \A s \in Slots : m.containers[s] # None =>
       /\ m.containers[s].min <= m.containers[s].max
       /\ m.containers[s].max <= size

(* The containers of S exist in n with the ranges they have in m. *)
SameRanges(m, n, S) ==
  \A s \in S :
    /\ n.containers[s] # None
    /\ n.containers[s].min = m.containers[s].min
    /\ n.containers[s].max = m.containers[s].max

(* The inductive invariant: a handle's container exists whatever happens to  *)
(* the lists, and the range of a container never changes.                    *)
IInv ==
  /\ TypeOK
  /\ RangesWithinFile
  /\ HandlesInsideContainers

-----------------------------------------------------------------------------
(* Unmapping a container changes nothing but its mapping.                    *)
LEMMA UnmapType ==
  ASSUME NEW c \in Container
  PROVE  /\ Unmap(c) \in Container
         /\ Unmap(c).min = c.min
         /\ Unmap(c).max = c.max
  BY DEF Unmap, Container

(* ClearUnusedMappings keeps the containers in use and the one held.         *)
LEMMA ClearKeeps ==
  ASSUME NEW m, NEW size \in Nat, NEW held \in SUBSET Slots,
         InUse \subseteq Slots,
         WellFormed(m, size),
         \A s \in InUse \cup held : m.containers[s] # None
  PROVE  /\ WellFormed(ClearUnusedMappings(m, held), size)
         /\ SameRanges(m, ClearUnusedMappings(m, held), InUse \cup held)
  <1> DEFINE n == ClearUnusedMappings(m, held)
  <1>1. /\ n.containers = [s \in Slots |-> IF s \in InUse \cup held
                                          THEN m.containers[s] ELSE None]
        /\ n.listed = [k \in Kinds |-> m.listed[k] \cap InUse]
        /\ n.before = m.before \cap (InUse \X InUse)
        /\ n = [containers |-> n.containers, listed |-> n.listed, before |-> n.before]
    BY DEF ClearUnusedMappings, OnlyInUse
  <1>2. n.containers \in [Slots -> Container \cup {None}]
    BY <1>1 DEF WellFormed
  <1>3. n.listed \in [Kinds -> SUBSET Slots] /\ n.before \subseteq Slots \X Slots
    BY <1>1 DEF WellFormed
  <1>4. \A s \in Members(n.listed) : n.containers[s] # None
    BY <1>1 DEF WellFormed, Members
  <1>5. \A s \in Slots : n.containers[s] # None =>
          n.containers[s].min <= n.containers[s].max /\ n.containers[s].max <= size
    BY <1>1 DEF WellFormed
  <1>6. SameRanges(m, n, InUse \cup held)
    BY <1>1 DEF SameRanges
  <1> QED BY <1>1, <1>2, <1>3, <1>4, <1>5, <1>6 DEF WellFormed

(* Grow keeps every container in use with its range.                         *)
LEMMA GrowKeeps ==
  ASSUME NEW m, NEW size \in Nat,
         InUse \subseteq Slots,
         WellFormed(m, size),
         \A s \in InUse : m.containers[s] # None
  PROVE  WellFormed(Grow(m), size) /\ SameRanges(m, Grow(m), InUse)
  <1> DEFINE n == Grow(m)
  <1>1. /\ n.containers = [s \in Slots |->
                             IF s \notin Members(m.listed) THEN m.containers[s]
                             ELSE IF s \in InUse THEN Unmap(m.containers[s])
                             ELSE None]
        /\ n.listed = [k \in Kinds |-> m.listed[k] \cap InUse]
        /\ n.before = m.before \cap (InUse \X InUse)
        /\ n = [containers |-> n.containers, listed |-> n.listed, before |-> n.before]
    BY DEF Grow, OnlyInUse
  <1>2. \A s \in InUse : m.containers[s] \in Container
    BY DEF WellFormed
  <1>3. \A s \in InUse :
          /\ Unmap(m.containers[s]) \in Container
          /\ Unmap(m.containers[s]).min = m.containers[s].min
          /\ Unmap(m.containers[s]).max = m.containers[s].max
    BY <1>2, UnmapType
  <1>4. n.containers \in [Slots -> Container \cup {None}]
    BY <1>1, <1>3 DEF WellFormed
  <1>5. n.listed \in [Kinds -> SUBSET Slots] /\ n.before \subseteq Slots \X Slots
    BY <1>1 DEF WellFormed
  <1>6. SameRanges(m, n, InUse)
    BY <1>1, <1>2, <1>3, MapperAssumption DEF SameRanges
  <1>7. \A s \in Members(n.listed) : n.containers[s] # None
    <2>1. Members(n.listed) \subseteq InUse
      BY <1>1 DEF Members
    <2> QED BY <2>1, <1>6 DEF SameRanges
  <1>8. \A s \in Slots : n.containers[s] # None =>
          n.containers[s].min <= n.containers[s].max /\ n.containers[s].max <= size
    BY <1>1, <1>3 DEF WellFormed
  <1> QED BY <1>1, <1>4, <1>5, <1>6, <1>7, <1>8 DEF WellFormed

(* Replacing a container by one with its range changes no range.             *)
LEMMA ReplaceKeeps ==
  ASSUME NEW m, NEW size \in Nat, NEW S \in SUBSET Slots,
         NEW s \in Slots, NEW c \in Container,
         WellFormed(m, size),
         \A t \in S : m.containers[t] # None,
         m.containers[s] # None,
         c.min = m.containers[s].min, c.max = m.containers[s].max
  PROVE  WellFormed(Replace(m, s, c), size) /\ SameRanges(m, Replace(m, s, c), S)
  <1> DEFINE n == Replace(m, s, c)
  <1>1. /\ n.containers = [m.containers EXCEPT ![s] = c]
        /\ n.listed = m.listed
        /\ n.before = m.before
        /\ n = [containers |-> n.containers, listed |-> n.listed, before |-> n.before]
    BY DEF Replace
  <1>2. c # None
    BY MapperAssumption
  <1>3. \A t \in Slots : n.containers[t] = IF t = s THEN c ELSE m.containers[t]
    BY <1>1 DEF WellFormed
  <1>4. n.containers \in [Slots -> Container \cup {None}]
    BY <1>1 DEF WellFormed
  <1>5. \A t \in Members(n.listed) : n.containers[t] # None
    BY <1>1, <1>2, <1>3 DEF WellFormed, Members
  <1>6. SameRanges(m, n, S)
    BY <1>2, <1>3 DEF SameRanges
  <1> QED BY <1>1, <1>2, <1>3, <1>4, <1>5, <1>6 DEF WellFormed

(* Opening the lazy mapping of s, with the cleanup of its failed attempts.   *)
LEMMA TouchKeeps ==
  ASSUME NEW m, NEW size \in Nat, NEW s \in Slots, NEW attempt,
         InUse \subseteq Slots,
         WellFormed(m, size),
         \A t \in InUse \cup {s} : m.containers[t] # None
  PROVE  /\ WellFormed(Touch(m, s, attempt), size)
         /\ SameRanges(m, Touch(m, s, attempt), InUse \cup {s})
  <1> DEFINE cleared == IF attempt = "first" THEN m ELSE ClearUnusedMappings(m, {s})
             c == Map(cleared.containers[s])
  <1>1. WellFormed(cleared, size) /\ SameRanges(m, cleared, InUse \cup {s})
    BY ClearKeeps DEF SameRanges
  <1>2. cleared.containers[s] \in Container
    BY <1>1 DEF WellFormed, SameRanges
  <1>3. c \in Container /\ c.min = cleared.containers[s].min
                        /\ c.max = cleared.containers[s].max
    BY <1>2 DEF Map, Container
  <1>4. /\ WellFormed(Replace(cleared, s, c), size)
        /\ SameRanges(cleared, Replace(cleared, s, c), InUse \cup {s})
    <2>1. \A t \in InUse \cup {s} : cleared.containers[t] # None
      BY <1>1 DEF SameRanges
    <2> QED BY <1>1, <1>3, <2>1, ReplaceKeeps
  <1>5. SameRanges(m, Replace(cleared, s, c), InUse \cup {s})
    BY <1>1, <1>4 DEF SameRanges
  <1> QED BY <1>1, <1>4, <1>5 DEF Touch

(* GetMaximizedRange: the widened range lies in the file and holds what was  *)
(* asked for.                                                                *)
LEMMA MaximizedRangeFits ==
  ASSUME NEW offset \in Nat, NEW length \in Nat, NEW size \in Nat,
         offset + length < size
  PROVE  LET c == MaximizedRange(offset, length, size)
         IN  /\ c \in Container
             /\ c.min <= c.max /\ c.max <= size
             /\ Contains(c, offset, length)
  BY MapperAssumption DEF MaximizedRange, Container, Contains

(* Adding a fresh container moves no other.                                  *)
LEMMA AddKeeps ==
  ASSUME NEW m, NEW size \in Nat, NEW S \in SUBSET Slots,
         NEW k \in Kinds, NEW s \in Slots, NEW c \in Container,
         WellFormed(m, size),
         m.containers[s] = None,
         \A t \in S : m.containers[t] # None,
         c.min <= c.max, c.max <= size
  PROVE  /\ WellFormed(Add(m, k, s, c), size)
         /\ SameRanges(m, Add(m, k, s, c), S)
         /\ Add(m, k, s, c).containers[s] = c
  <1> DEFINE n == Add(m, k, s, c)
  <1>1. /\ n.containers = [m.containers EXCEPT ![s] = c]
        /\ n.listed = [m.listed EXCEPT ![k] = m.listed[k] \cup {s}]
        /\ n.before = m.before \cup (m.listed[k] \X {s})
        /\ n = [containers |-> n.containers, listed |-> n.listed, before |-> n.before]
    BY DEF Add
  <1>2. c # None
    BY MapperAssumption
  <1>3. \A t \in Slots : n.containers[t] = IF t = s THEN c ELSE m.containers[t]
    BY <1>1 DEF WellFormed
  <1>4. n.containers \in [Slots -> Container \cup {None}]
    BY <1>1 DEF WellFormed
  <1>5. n.listed \in [Kinds -> SUBSET Slots] /\ n.before \subseteq Slots \X Slots
    BY <1>1 DEF WellFormed
  <1>6. Members(n.listed) \subseteq Members(m.listed) \cup {s}
    BY <1>1 DEF WellFormed, Members
  <1>7. \A t \in Members(n.listed) : n.containers[t] # None
    <2>1. Members(n.listed) \subseteq Slots
      BY <1>5 DEF Members
    <2> QED BY <1>2, <1>3, <1>6, <2>1 DEF WellFormed
  <1>8. SameRanges(m, n, S)
    BY <1>2, <1>3 DEF SameRanges
  <1> QED BY <1>1, <1>3, <1>4, <1>5, <1>7, <1>8 DEF WellFormed

-----------------------------------------------------------------------------
(* What the invariant says of the mappings a call starts from.               *)
LEMMA CurrentMappings ==
  ASSUME IInv
  PROVE  /\ WellFormed(Mappings, filesize)
         /\ InUse \subseteq Slots
         /\ Mappings.containers = containers
         /\ Mappings.listed = listed
         /\ \A s \in InUse : containers[s] # None
         /\ \A h \in Open : virtual[h] \in Virtual /\ virtual[h].container \in InUse
  <1>1. \A h \in Open : virtual[h] \in Virtual /\ virtual[h].container \in InUse
    BY DEF IInv, TypeOK, Open, InUse
  <1>2. InUse \subseteq Slots
    BY <1>1 DEF InUse, Virtual
  <1>3. WellFormed(Mappings, filesize)
    BY DEF IInv, TypeOK, RangesWithinFile, WellFormed, Mappings
  <1> QED BY <1>1, <1>2, <1>3 DEF IInv, TypeOK, Mappings

(* A larger file holds the same mappings.                                    *)
LEMMA LargerFile ==
  ASSUME NEW m, NEW size \in Nat, NEW larger \in Nat, size <= larger,
         WellFormed(m, size)
  PROVE  WellFormed(m, larger)
  <1>1. \A s \in Slots : m.containers[s] # None => m.containers[s] \in Container
    BY DEF WellFormed
  <1>2. \A s \in Slots : m.containers[s] # None => m.containers[s].max \in Nat
    BY <1>1 DEF Container
  <1> QED BY <1>2 DEF WellFormed

(* A call that passes the mappings through m and leaves the handles alone.   *)
LEMMA BecomeKeeps ==
  ASSUME IInv, NEW m,
         filesize' \in Nat, disposed' \in BOOLEAN, UNCHANGED virtual,
         WellFormed(m, filesize'), SameRanges(Mappings, m, InUse), Become(m)
  PROVE  IInv'
  <1> USE CurrentMappings
  <1>1. Open' = Open /\ InUse' = InUse
    BY DEF Open, InUse
  <1>2. /\ containers' \in [Slots -> Container \cup {None}]
        /\ listed' \in [Kinds -> SUBSET Slots]
        /\ before' \subseteq Slots \X Slots
        /\ \A s \in Members(listed') : containers'[s] # None
    BY DEF WellFormed, Become
  <1>3. \A s \in InUse : /\ containers'[s] # None
                         /\ containers'[s].min = containers[s].min
                         /\ containers'[s].max = containers[s].max
    BY DEF SameRanges, Become
  <1>4. TypeOK'
    BY <1>1, <1>2, <1>3 DEF IInv, TypeOK, Members
  <1>5. RangesWithinFile'
    BY DEF RangesWithinFile, WellFormed, Become
  <1>6. HandlesInsideContainers'
    BY <1>1, <1>3 DEF IInv, HandlesInsideContainers, Contains
  <1> QED BY <1>4, <1>5, <1>6 DEF IInv

(* A new handle on container s, once its mappings are those of m.            *)
LEMMA NewHandleKeeps ==
  ASSUME IInv, NEW m, NEW k \in Kinds, NEW h \in Handles, NEW s \in Slots,
         NEW offset \in Nat, NEW length \in Nat,
         filesize' \in Nat, disposed' \in BOOLEAN,
         virtual' = [virtual EXCEPT ![h] = Handle(k, s, offset, length)],
         WellFormed(m, filesize'), SameRanges(Mappings, m, InUse), Become(m),
         m.containers[s] # None, Contains(m.containers[s], offset, length)
  PROVE  IInv'
  <1> USE CurrentMappings
  <1>1. Handle(k, s, offset, length) \in Virtual
    BY DEF Handle, Virtual
  <1>2. virtual' \in [Handles -> Virtual \cup {None}]
    BY <1>1 DEF IInv, TypeOK
  <1>3. /\ virtual'[h] = Handle(k, s, offset, length)
        /\ \A g \in Handles \ {h} : virtual'[g] = virtual[g]
    BY DEF IInv, TypeOK
  <1>4. /\ containers' \in [Slots -> Container \cup {None}]
        /\ listed' \in [Kinds -> SUBSET Slots]
        /\ before' \subseteq Slots \X Slots
        /\ \A t \in Members(listed') : containers'[t] # None
    BY DEF WellFormed, Become
  <1>5. \A t \in InUse : /\ containers'[t] # None
                         /\ containers'[t].min = containers[t].min
                         /\ containers'[t].max = containers[t].max
    BY DEF SameRanges, Become
  <1>6. \A g \in Open' : \/ g = h /\ virtual'[g].container = s
                         \/ g \in Open /\ virtual'[g] = virtual[g]
    BY <1>3 DEF Open, Handle
  <1>7. InUse' \subseteq InUse \cup {s}
    BY <1>6 DEF InUse
  <1>8. TypeOK'
    BY <1>2, <1>4, <1>5, <1>7 DEF TypeOK, Members, Become
  <1>9. RangesWithinFile'
    BY DEF RangesWithinFile, WellFormed, Become
  <1>10. HandlesInsideContainers'
    <2> SUFFICES ASSUME NEW g \in Open'
                 PROVE  Contains(containers'[virtual'[g].container],
                                 virtual'[g].offset, virtual'[g].length)
      BY DEF HandlesInsideContainers, Contains
    <2>1. CASE g = h
      BY <2>1, <1>3 DEF Become, Handle
    <2>2. CASE g \in Open /\ virtual'[g] = virtual[g]
      BY <2>2, <1>5 DEF IInv, HandlesInsideContainers, Contains
    <2> QED BY <1>6, <2>1, <2>2
  <1> QED BY <1>8, <1>9, <1>10 DEF IInv

(* CreateStream and CreateView from the container they found or added.       *)
LEMMA AttachKeeps ==
  ASSUME IInv, NEW m, NEW k \in Kinds, NEW h \in Handles, NEW s \in Slots,
         NEW offset \in Nat, NEW length \in Nat,
         filesize' \in Nat, disposed' \in BOOLEAN,
         WellFormed(m, filesize'), SameRanges(Mappings, m, InUse),
         m.containers[s] # None, Contains(m.containers[s], offset, length),
         Attach(k, h, s, offset, length, m)
  PROVE  IInv'
  <1> USE CurrentMappings
  <1>1. \A t \in InUse \cup {s} : m.containers[t] # None
    BY DEF SameRanges
  <1>2. CASE /\ Become(m)
             /\ virtual' = [virtual EXCEPT ![h] = Handle(k, s, offset, length)]
    BY <1>2, NewHandleKeeps
  <1>3. ASSUME NEW attempt,
               Become(Replace(Touch(m, s, attempt), s,
                        Positioned(Touch(m, s, attempt).containers[s],
                          StartPosition(Touch(m, s, attempt).containers[s], offset)))),
               virtual' = [virtual EXCEPT ![h] = Handle(k, s, offset, length)]
        PROVE  IInv'
    <2> DEFINE t == Touch(m, s, attempt)
               c == Positioned(t.containers[s], StartPosition(t.containers[s], offset))
    <2>1. WellFormed(t, filesize') /\ SameRanges(m, t, InUse \cup {s})
      BY <1>1, TouchKeeps
    <2>2. t.containers[s] \in Container
      BY <2>1 DEF WellFormed, SameRanges
    <2>3. c \in Container /\ c.min = t.containers[s].min /\ c.max = t.containers[s].max
      BY <2>2 DEF Positioned, StartPosition, Container
    <2>4. \A u \in InUse \cup {s} : t.containers[u] # None
      BY <2>1 DEF SameRanges
    <2>5. /\ WellFormed(Replace(t, s, c), filesize')
          /\ SameRanges(t, Replace(t, s, c), InUse \cup {s})
      BY <2>1, <2>3, <2>4, ReplaceKeeps
    <2>6. SameRanges(Mappings, Replace(t, s, c), InUse)
      BY <2>1, <2>5 DEF SameRanges
    <2>7. /\ Replace(t, s, c).containers[s] # None
          /\ Contains(Replace(t, s, c).containers[s], offset, length)
      BY <2>1, <2>5 DEF SameRanges, Contains
    <2>8. Become(Replace(t, s, c))
      BY <1>3
    <2> QED BY <1>3, <2>5, <2>6, <2>7, <2>8, NewHandleKeeps
  <1>4. CASE Become(ClearUnusedMappings(m, {})) /\ UNCHANGED virtual
    <2>1. /\ WellFormed(ClearUnusedMappings(m, {}), filesize')
          /\ SameRanges(m, ClearUnusedMappings(m, {}), InUse)
      BY <1>1, ClearKeeps
    <2>2. SameRanges(Mappings, ClearUnusedMappings(m, {}), InUse)
      BY <2>1 DEF SameRanges
    <2> QED BY <1>4, <2>1, <2>2, BecomeKeeps
  <1> QED BY <1>2, <1>3, <1>4 DEF Attach

(* Transfers: the lazy mapping is opened and the position may move.          *)
LEMMA TransferKeeps ==
  ASSUME IInv, NEW h \in Open, NEW attempt, NEW p \in Int,
         UNCHANGED <<filesize, virtual, disposed>>,
         LET s == virtual[h].container
             t == Touch(Mappings, s, attempt)
         IN  \/ Become(t)
             \/ Become(Replace(t, s, Positioned(t.containers[s], p)))
  PROVE  IInv'
  <1> USE CurrentMappings
  <1> DEFINE s == virtual[h].container
             t == Touch(Mappings, s, attempt)
             c == Positioned(t.containers[s], p)
  <1>1. s \in InUse /\ s \in Slots
    OBVIOUS
  <1>2. filesize' = filesize /\ filesize \in Nat /\ disposed' \in BOOLEAN
    BY DEF IInv, TypeOK
  <1>3. WellFormed(t, filesize) /\ SameRanges(Mappings, t, InUse)
    BY <1>1, <1>2, TouchKeeps DEF SameRanges
  <1>4. t.containers[s] \in Container
    BY <1>1, <1>3 DEF WellFormed, SameRanges
  <1>5. c \in Container /\ c.min = t.containers[s].min /\ c.max = t.containers[s].max
    BY <1>4 DEF Positioned, Container
  <1>6. \A u \in InUse : t.containers[u] # None
    BY <1>3 DEF SameRanges
  <1>7. /\ WellFormed(Replace(t, s, c), filesize)
        /\ SameRanges(t, Replace(t, s, c), InUse)
    BY <1>1, <1>2, <1>3, <1>5, <1>6, ReplaceKeeps
  <1>8. SameRanges(Mappings, Replace(t, s, c), InUse)
    BY <1>3, <1>7 DEF SameRanges
  <1>9. CASE Become(t)
    BY <1>2, <1>3, <1>9, BecomeKeeps
  <1>10. CASE Become(Replace(t, s, c))
    BY <1>2, <1>7, <1>8, <1>10, BecomeKeeps
  <1> QED BY <1>9, <1>10

(* Positions of streams in use are integers.                                 *)
LEMMA PositionType ==
  ASSUME IInv, NEW h \in Open
  PROVE  /\ containers[virtual[h].container] \in Container
         /\ virtual[h] \in Virtual
  BY CurrentMappings DEF IInv, TypeOK

(* VirtualStream.Write moves the position of its container, or nothing.      *)
LEMMA StreamWriteKeeps ==
  ASSUME IInv, NEW h \in Open, NEW count \in Counts, StreamWrite(h, count)
  PROVE  IInv'
  <1> DEFINE s == virtual[h].container
             p == containers[s].position + count
  <1>1. p \in Int
    BY PositionType, MapperAssumption DEF Container
  <1>2. PICK attempt : LET t == Touch(Mappings, s, attempt)
                       IN  \/ Become(t)
                           \/ Become(Replace(t, s, Positioned(t.containers[s], p)))
    BY DEF StreamWrite
  <1>u. UNCHANGED <<filesize, virtual, disposed>>
    BY DEF StreamWrite
  <1> QED BY <1>1, <1>2, <1>u, TransferKeeps

(* VirtualStream.Read advances by what the container has left at most.       *)
LEMMA StreamReadKeeps ==
  ASSUME IInv, NEW h \in Open, NEW count \in Counts, StreamRead(h, count)
  PROVE  IInv'
  <1> DEFINE s     == virtual[h].container
             c     == containers[s]
             left  == virtual[h].length - PositionOf(h, c.position)
             asked == IF count > left THEN left ELSE count
             room  == IF c.position > c.max - c.min THEN 0 ELSE c.max - c.min - c.position
             got   == IF asked > room THEN room ELSE asked
             p     == c.position + got
  <1>1. c \in Container /\ virtual[h] \in Virtual /\ count \in Int
    BY PositionType, MapperAssumption
  <1>2. left \in Int
    BY <1>1 DEF PositionOf, Container, Virtual
  <1>3. room \in Int
    BY <1>1 DEF Container
  <1>4. got \in Int
    BY <1>1, <1>2, <1>3
  <1>5. p \in Int
    BY <1>1, <1>4 DEF Container
  <1>6. PICK attempt : LET t == Touch(Mappings, s, attempt)
                       IN  \/ Become(t)
                           \/ Become(Replace(t, s, Positioned(t.containers[s], p)))
    BY DEF StreamRead
  <1>u. UNCHANGED <<filesize, virtual, disposed>>
    BY DEF StreamRead
  <1> QED BY <1>5, <1>6, <1>u, TransferKeeps

(* VirtualStream.Seek places the position anywhere, inside or not.           *)
LEMMA SeekKeeps ==
  ASSUME IInv, NEW h \in Open, NEW origin \in Origins, NEW count \in Counts,
         Seek(h, origin, count)
  PROVE  IInv'
  <1> DEFINE s == virtual[h].container
             c == containers[s]
             p == SeekTarget(h, origin, count) + virtual[h].offset + c.min
  <1>1. c \in Container /\ virtual[h] \in Virtual /\ count \in Int
    BY PositionType, MapperAssumption
  <1>2. SeekTarget(h, origin, count) \in Int
    BY <1>1 DEF SeekTarget, PositionOf, Container, Virtual, Origins
  <1>3. p \in Int
    BY <1>1, <1>2 DEF Container, Virtual
  <1>4. PICK attempt : LET t == Touch(Mappings, s, attempt)
                       IN  \/ Become(t)
                           \/ Become(Replace(t, s, Positioned(t.containers[s], p)))
    BY DEF Seek
  <1>u. UNCHANGED <<filesize, virtual, disposed>>
    BY DEF Seek
  <1> QED BY <1>3, <1>4, <1>u, TransferKeeps

(* VirtualView.Read and Write only open the lazy mapping.                    *)
LEMMA ViewTransferKeeps ==
  ASSUME IInv, NEW h \in Open, NEW op, NEW position, NEW size, NEW checked,
         ViewTransfer(op, h, position, size, checked)
  PROVE  IInv'
  <1>1. PICK attempt : Become(Touch(Mappings, virtual[h].container, attempt))
    BY DEF ViewTransfer
  <1>u. UNCHANGED <<filesize, virtual, disposed>>
    BY DEF ViewTransfer
  <1> QED BY <1>1, <1>u, TransferKeeps

(* CreateStream and CreateView from a container that holds the range.        *)
LEMMA CreateReusingKeeps ==
  ASSUME IInv, NEW k \in Kinds, NEW h \in Handles,
         NEW offset \in Nat, NEW length \in Nat,
         CreateReusing(k, h, offset, length)
  PROVE  IInv'
  <1> USE CurrentMappings
  <1>1. PICK s \in listed[k] : /\ IsFirstByRange(k, s, offset, length)
                              /\ Attach(k, h, s, offset, length, Mappings)
    BY DEF CreateReusing
  <1>2. s \in Slots /\ containers[s] # None
    BY <1>1 DEF IInv, TypeOK, Members
  <1>3. SameRanges(Mappings, Mappings, InUse)
    BY DEF SameRanges
  <1>4. filesize' = filesize /\ filesize \in Nat /\ disposed' \in BOOLEAN
    BY DEF CreateReusing, IInv, TypeOK
  <1>5. Contains(Mappings.containers[s], offset, length)
    BY <1>1 DEF IsFirstByRange
  <1> QED BY <1>1, <1>2, <1>3, <1>4, <1>5, AttachKeeps

(* CreateStream and CreateView with a new container, the file grown first.   *)
LEMMA CreateAddingKeeps ==
  ASSUME IInv, NEW k \in Kinds, NEW h \in Handles,
         NEW offset \in Nat, NEW length \in Nat,
         CreateAdding(k, h, offset, length)
  PROVE  IInv'
  <1> USE CurrentMappings
  <1> DEFINE c == MaximizedRange(offset, length, filesize')
             Grown(n) == IF n = 0 THEN Mappings ELSE Grow(Mappings)
  <1>1. PICK n \in 0..MaxFileSize :
          /\ GrowsNeeded(offset + length, n)
          /\ filesize' = filesize + n * GrowBy
          /\ \E s \in {t \in Slots : Grown(n).containers[t] = None} :
               Attach(k, h, s, offset, length, Add(Grown(n), k, s, c))
    BY DEF CreateAdding
  <1>2. PICK s \in Slots : /\ Grown(n).containers[s] = None
                          /\ Attach(k, h, s, offset, length, Add(Grown(n), k, s, c))
    BY <1>1
  <1>3. filesize' \in Nat /\ filesize <= filesize' /\ offset + length < filesize'
    <2>1. n * GrowBy \in Nat
      BY MapperAssumption
    <2> QED BY <1>1, <2>1 DEF GrowsNeeded, IInv, TypeOK
  <1>4. disposed' \in BOOLEAN
    BY DEF CreateAdding, IInv, TypeOK
  <1>5. WellFormed(Grown(n), filesize) /\ SameRanges(Mappings, Grown(n), InUse)
    <2>1. SameRanges(Mappings, Mappings, InUse)
      BY DEF SameRanges
    <2> QED BY <2>1, GrowKeeps DEF IInv, TypeOK
  <1>6. WellFormed(Grown(n), filesize')
    BY <1>3, <1>5, LargerFile DEF IInv, TypeOK
  <1>7. c \in Container /\ c.min <= c.max /\ c.max <= filesize'
                       /\ Contains(c, offset, length)
    BY <1>3, MaximizedRangeFits
  <1>8. \A t \in InUse : Grown(n).containers[t] # None
    BY <1>5 DEF SameRanges
  <1>9. /\ WellFormed(Add(Grown(n), k, s, c), filesize')
        /\ SameRanges(Grown(n), Add(Grown(n), k, s, c), InUse)
        /\ Add(Grown(n), k, s, c).containers[s] = c
    BY <1>2, <1>3, <1>6, <1>7, <1>8, AddKeeps
  <1>10. SameRanges(Mappings, Add(Grown(n), k, s, c), InUse)
    BY <1>5, <1>9 DEF SameRanges
  <1>11. c # None
    BY <1>7, MapperAssumption
  <1> QED BY <1>2, <1>3, <1>4, <1>7, <1>9, <1>10, <1>11, AttachKeeps

(* A released handle leaves the containers of the others alone.              *)
LEMMA ReleaseKeeps ==
  ASSUME IInv, NEW h \in Open, Release(h)
  PROVE  IInv'
  <1> USE CurrentMappings
  <1> DEFINE rest == {virtual[g].container : g \in Open \ {h}}
  <1>1. virtual' \in [Handles -> Virtual \cup {None}]
    BY DEF Release, IInv, TypeOK
  <1>2. \A g \in Open' : g \in Open \ {h} /\ virtual'[g] = virtual[g]
    BY DEF Release, Open, IInv, TypeOK
  <1>3. InUse' \subseteq rest /\ rest \subseteq InUse
    BY <1>2 DEF InUse
  <1>4. /\ containers' \in [Slots -> Container \cup {None}]
        /\ \A s \in rest \cup Members(listed) : containers'[s] = containers[s]
        /\ \A s \in Slots : containers'[s] # None => containers'[s] = containers[s]
    BY DEF Release, IInv, TypeOK, Members
  <1>5. TypeOK'
    BY <1>1, <1>3, <1>4 DEF Release, IInv, TypeOK, Members
  <1>6. RangesWithinFile'
    BY <1>4 DEF Release, IInv, RangesWithinFile
  <1>7. HandlesInsideContainers'
    BY <1>2, <1>4 DEF IInv, HandlesInsideContainers, Contains
  <1> QED BY <1>5, <1>6, <1>7 DEF IInv

(* A walk of Flush or Dispose changes what is mapped, never a range.         *)
LEMMA VisitKeeps ==
  ASSUME IInv, NEW visited \in SUBSET Walked, NEW c,
         \A s \in visited : /\ c[s] \in Container
                            /\ c[s].min = containers[s].min
                            /\ c[s].max = containers[s].max
  PROVE  /\ WellFormed(Visit(visited, c), filesize)
         /\ SameRanges(Mappings, Visit(visited, c), InUse)
  <1> USE CurrentMappings
  <1> DEFINE n == Visit(visited, c)
  <1>1. /\ n.containers = [s \in Slots |-> IF s \in visited THEN c[s] ELSE containers[s]]
        /\ n.listed = listed /\ n.before = before
        /\ n = [containers |-> n.containers, listed |-> n.listed, before |-> n.before]
    BY DEF Visit
  <1>2. \A s \in visited : s \in Slots /\ containers[s] # None
    BY DEF Walked, Members, IInv, TypeOK
  <1>3. n.containers \in [Slots -> Container \cup {None}]
    BY <1>1 DEF IInv, TypeOK
  <1>4. \A s \in visited : c[s] # None
    BY MapperAssumption
  <1>5. SameRanges(Mappings, n, InUse)
    BY <1>1, <1>4 DEF SameRanges
  <1>6. \A s \in Members(n.listed) : n.containers[s] # None
    BY <1>1, <1>4 DEF IInv, TypeOK, Members
  <1>7. \A s \in Slots : n.containers[s] # None =>
          n.containers[s].min <= n.containers[s].max /\ n.containers[s].max <= filesize
    BY <1>1, <1>2 DEF IInv, RangesWithinFile
  <1> QED BY <1>1, <1>3, <1>5, <1>6, <1>7 DEF WellFormed, IInv, TypeOK

(* The walk of Flush, or one cut short, ends with the cleanup.               *)
LEMMA CleanedVisitKeeps ==
  ASSUME IInv, NEW m,
         UNCHANGED <<filesize, virtual>>, disposed' \in BOOLEAN,
         WellFormed(m, filesize), SameRanges(Mappings, m, InUse),
         Become(ClearUnusedMappings(m, {}))
  PROVE  IInv'
  <1> USE CurrentMappings
  <1>1. \A s \in InUse : m.containers[s] # None
    BY DEF SameRanges
  <1>2. /\ WellFormed(ClearUnusedMappings(m, {}), filesize)
        /\ SameRanges(m, ClearUnusedMappings(m, {}), InUse)
    BY <1>1, ClearKeeps, SMTT(30) DEF IInv, TypeOK
  <1>3. SameRanges(Mappings, ClearUnusedMappings(m, {}), InUse)
    BY <1>2 DEF SameRanges
  <1> QED BY <1>2, <1>3, BecomeKeeps DEF IInv, TypeOK

(* Flush, complete or cut short.                                             *)
LEMMA FlushKeeps ==
  ASSUME IInv, Flush
  PROVE  IInv'
  <1> USE CurrentMappings
  <1>1. PICK visited \in SUBSET Walked :
          Become(ClearUnusedMappings(
            Visit(visited, [s \in visited |-> Map(containers[s])]), {}))
    BY DEF Flush
  <1> DEFINE c == [s \in visited |-> Map(containers[s])]
  <1>2. \A s \in visited : containers[s] \in Container
    BY DEF Walked, Members, IInv, TypeOK
  <1>3. \A s \in visited : /\ c[s] \in Container
                           /\ c[s].min = containers[s].min
                           /\ c[s].max = containers[s].max
    BY <1>2 DEF Map, Container
  <1>4. /\ WellFormed(Visit(visited, c), filesize)
        /\ SameRanges(Mappings, Visit(visited, c), InUse)
    BY <1>3, VisitKeeps
  <1> QED BY <1>1, <1>4, CleanedVisitKeeps DEF Flush, IInv, TypeOK

(* Dispose, complete or cut short.                                           *)
LEMMA DisposeKeeps ==
  ASSUME IInv, Dispose
  PROVE  IInv'
  <1> USE CurrentMappings
  <1>1. PICK visited \in SUBSET Walked :
          LET m == Visit(visited, [s \in visited |-> Unmap(containers[s])])
          IN  Become(IF visited = Walked THEN m ELSE ClearUnusedMappings(m, {}))
    BY DEF Dispose
  <1> DEFINE c == [s \in visited |-> Unmap(containers[s])]
  <1>2. \A s \in visited : containers[s] \in Container
    BY DEF Walked, Members, IInv, TypeOK
  <1>3. \A s \in visited : /\ c[s] \in Container
                           /\ c[s].min = containers[s].min
                           /\ c[s].max = containers[s].max
    BY <1>2, UnmapType
  <1>4. /\ WellFormed(Visit(visited, c), filesize)
        /\ SameRanges(Mappings, Visit(visited, c), InUse)
    BY <1>3, VisitKeeps
  <1>5. CASE Become(Visit(visited, c))
    BY <1>4, <1>5, BecomeKeeps DEF Dispose, IInv, TypeOK
  <1>6. CASE Become(ClearUnusedMappings(Visit(visited, c), {}))
    BY <1>4, <1>6, CleanedVisitKeeps DEF Dispose
  <1> QED BY <1>1, <1>5, <1>6

(* A new mapper starts with no container.                                    *)
LEMMA ReopenKeeps ==
  ASSUME IInv, Reopen
  PROVE  IInv'
  <1>1. Open' = {} /\ InUse' = {}
    BY DEF Reopen, Open, InUse
  <1>2. Members(listed') = {}
    BY DEF Reopen, Members
  <1>3. TypeOK'
    BY <1>1, <1>2 DEF Reopen, IInv, TypeOK, Members
  <1> QED BY <1>1, <1>3 DEF Reopen, IInv, RangesWithinFile, HandlesInsideContainers

-----------------------------------------------------------------------------
(* The initial state: no container, no handle.                               *)
LEMMA InitIInv == Init => IInv
  <1> SUFFICES ASSUME Init PROVE IInv
    OBVIOUS
  <1>1. Open = {} /\ InUse = {} /\ Members(listed) = {}
    BY DEF Init, Open, InUse, Members
  <1>2. filesize \in Nat
    BY MapperAssumption DEF Init
  <1> QED BY <1>1, <1>2
          DEF Init, IInv, TypeOK, RangesWithinFile, HandlesInsideContainers, Members

(* Every step preserves the invariant: one case per operation.               *)
LEMMA NextIInv == IInv /\ [Next]_vars => IInv'
  <1> SUFFICES ASSUME IInv, [Next]_vars PROVE IInv'
    OBVIOUS
  <1>1. ASSUME NEW k \in Kinds, NEW h \in Handles, NEW offset \in Offsets,
               NEW length \in Lengths, CreateReusing(k, h, offset, length)
        PROVE  IInv'
    BY <1>1, CreateReusingKeeps, MapperAssumption
  <1>2. ASSUME NEW k \in Kinds, NEW h \in Handles, NEW offset \in Offsets,
               NEW length \in Lengths, CreateAdding(k, h, offset, length)
        PROVE  IInv'
    BY <1>2, CreateAddingKeeps, MapperAssumption
  <1>3. ASSUME NEW h \in Open, NEW count \in Counts,
               \/ StreamWrite(h, count)
               \/ StreamRead(h, count)
               \/ \E origin \in Origins : Seek(h, origin, count)
        PROVE  IInv'
    BY <1>3, StreamWriteKeeps, StreamReadKeeps, SeekKeeps
  <1>4. ASSUME NEW h \in Open, NEW position \in Counts, NEW size \in Counts,
               \/ \E checked \in BOOLEAN : ViewRead(h, position, size, checked)
               \/ ViewWrite(h, position, size)
        PROVE  IInv'
    BY <1>4, ViewTransferKeeps DEF ViewRead, ViewWrite
  <1>5. ASSUME NEW h \in Open, Release(h)
        PROVE  IInv'
    BY <1>5, ReleaseKeeps
  <1>6. CASE Flush
    BY <1>6, FlushKeeps
  <1>7. CASE Dispose
    BY <1>7, DisposeKeeps
  <1>8. CASE Reopen
    BY <1>8, ReopenKeeps
  <1>9. CASE UNCHANGED vars
    <2>1. Open' = Open /\ InUse' = InUse /\ Members(listed)' = Members(listed)
      BY <1>9 DEF vars, Open, InUse, Members
    <2> QED BY <1>9, <2>1
            DEF vars, IInv, TypeOK, RangesWithinFile, HandlesInsideContainers,
                Contains, Members
  <1> QED BY <1>1, <1>2, <1>3, <1>4, <1>5, <1>6, <1>7, <1>8, <1>9 DEF Next

(* The inductive invariant holds throughout.                                 *)
LEMMA Invariance == Spec => []IInv
  BY InitIInv, NextIInv, PTL DEF Spec

(* The types of the mapper's variables, and that a caller's container is     *)
(* never collected while the caller holds it.                                *)
THEOREM TypeCorrect == Spec => []TypeOK
  BY Invariance, PTL DEF IInv

(* GetMaximizedRange and Grow: no mapping reaches past the end of the file,  *)
(* for every growth step, widening and sequence of calls.                    *)
THEOREM MappingsWithinFile == Spec => []RangesWithinFile
  BY Invariance, PTL DEF IInv

(* CreateStream and CreateView: the container behind a handle covers the     *)
(* handle's range from creation to release, across Grow and every cleanup.   *)
THEOREM HandlesCovered == Spec => []HandlesInsideContainers
  BY Invariance, PTL DEF IInv

-----------------------------------------------------------------------------
(* What is mapped in m and used stays mapped in n. *)
StillMapped(m, n) ==
  \A s \in InUse : m.containers[s].mapped =>
    n.containers[s] # None /\ n.containers[s].mapped

(* The part of OnlyGrowthUnmapsUsed that each step has to show. *)
UsedStay ==
  \A s \in InUse :
    (containers[s].mapped /\ ~disposed') =>
      \/ containers'[s] # None /\ containers'[s].mapped
      \/ s \notin InUse'
      \/ filesize' > filesize

(* ClearUnusedMappings removes only what nobody uses.                        *)
LEMMA ClearStays ==
  ASSUME NEW m, NEW held, InUse \subseteq Slots,
         \A s \in InUse : m.containers[s] # None
  PROVE  StillMapped(m, ClearUnusedMappings(m, held))
  BY DEF StillMapped, ClearUnusedMappings

(* A container may be replaced by one that is mapped if it was.              *)
LEMMA ReplaceStays ==
  ASSUME NEW m, NEW s, NEW c \in Container,
         InUse \subseteq Slots,
         m.containers \in [Slots -> Container \cup {None}],
         \A t \in InUse : m.containers[t] # None,
         m.containers[s].mapped => c.mapped
  PROVE  StillMapped(m, Replace(m, s, c))
  <1>1. c # None
    BY MapperAssumption
  <1> QED BY <1>1 DEF StillMapped, Replace

(* Opening a lazy mapping takes no other away, retries included.             *)
LEMMA TouchStays ==
  ASSUME NEW m, NEW size \in Nat, NEW s \in Slots, NEW attempt,
         InUse \subseteq Slots,
         WellFormed(m, size),
         \A t \in InUse \cup {s} : m.containers[t] # None
  PROVE  StillMapped(m, Touch(m, s, attempt))
  <1> DEFINE cleared == IF attempt = "first" THEN m ELSE ClearUnusedMappings(m, {s})
             c == Map(cleared.containers[s])
  <1>1. WellFormed(cleared, size) /\ SameRanges(m, cleared, InUse \cup {s})
    BY ClearKeeps DEF SameRanges
  <1>2. StillMapped(m, cleared)
    BY ClearStays DEF StillMapped
  <1>3. cleared.containers[s] \in Container
    BY <1>1 DEF WellFormed, SameRanges
  <1>4. c \in Container /\ c.mapped
    BY <1>3 DEF Map, Container
  <1>5. StillMapped(cleared, Replace(cleared, s, c))
    BY <1>1, <1>4, ReplaceStays DEF WellFormed, SameRanges
  <1> QED BY <1>2, <1>5 DEF Touch, StillMapped

(* Opening the mapping of s and then moving its position.                    *)
LEMMA TouchMoveStays ==
  ASSUME NEW m, NEW size \in Nat, NEW s \in Slots, NEW attempt, NEW p \in Int,
         InUse \subseteq Slots,
         WellFormed(m, size),
         \A t \in InUse \cup {s} : m.containers[t] # None
  PROVE  LET t == Touch(m, s, attempt)
         IN  StillMapped(m, Replace(t, s, Positioned(t.containers[s], p)))
  <1> DEFINE t == Touch(m, s, attempt)
             c == Positioned(t.containers[s], p)
  <1>1. WellFormed(t, size) /\ SameRanges(m, t, InUse \cup {s}) /\ StillMapped(m, t)
    BY TouchKeeps, TouchStays
  <1>2. t.containers[s] \in Container
    BY <1>1 DEF WellFormed, SameRanges
  <1>3. c \in Container /\ c.mapped = t.containers[s].mapped
    BY <1>2 DEF Positioned, Container
  <1>4. \A u \in InUse : t.containers[u] # None
    BY <1>1 DEF SameRanges
  <1>5. t.containers \in [Slots -> Container \cup {None}]
    BY <1>1 DEF WellFormed
  <1>6. StillMapped(t, Replace(t, s, c))
    BY <1>3, <1>4, <1>5, ReplaceStays
  <1> QED BY <1>1, <1>6 DEF StillMapped

(* A step that ends with the mappings m of a call.                           *)
LEMMA BecomeStays ==
  ASSUME IInv, NEW m, Become(m), StillMapped(Mappings, m)
  PROVE  UsedStay
  BY CurrentMappings DEF UsedStay, Become, StillMapped

(* Every transfer and Seek: the container's mapping is opened, and perhaps   *)
(* its position moved.                                                       *)
LEMMA TransferStays ==
  ASSUME IInv, NEW h \in Open, NEW attempt, NEW p \in Int,
         LET t == Touch(Mappings, virtual[h].container, attempt)
             s == virtual[h].container
         IN  \/ Become(t)
             \/ Become(Replace(t, s, Positioned(t.containers[s], p)))
  PROVE  UsedStay
  <1> USE CurrentMappings
  <1> DEFINE s == virtual[h].container
             t == Touch(Mappings, s, attempt)
  <1>1. s \in InUse /\ s \in Slots
    OBVIOUS
  <1>2. \A u \in InUse \cup {s} : Mappings.containers[u] # None
    BY <1>1
  <1>3. filesize \in Nat
    BY DEF IInv, TypeOK
  <1>4. StillMapped(Mappings, t)
    BY <1>1, <1>2, <1>3, TouchStays
  <1>5. StillMapped(Mappings, Replace(t, s, Positioned(t.containers[s], p)))
    BY <1>1, <1>2, <1>3, TouchMoveStays
  <1> QED BY <1>4, <1>5, BecomeStays

(* CreateStream and CreateView attach a handle to a container of m.          *)
LEMMA AttachStays ==
  ASSUME IInv, NEW m, NEW size \in Nat, NEW k \in Kinds, NEW h \in Handles,
         NEW s \in Slots, NEW offset \in Nat, NEW length \in Nat,
         WellFormed(m, size),
         \A t \in InUse \cup {s} : m.containers[t] # None,
         StillMapped(Mappings, m),
         Attach(k, h, s, offset, length, m)
  PROVE  UsedStay
  <1> USE CurrentMappings
  <1>1. CASE Become(m)
    BY <1>1, BecomeStays
  <1>2. CASE Become(ClearUnusedMappings(m, {}))
    <2>1. StillMapped(m, ClearUnusedMappings(m, {}))
      BY ClearStays
    <2> QED BY <1>2, <2>1, BecomeStays DEF StillMapped
  <1>3. ASSUME NEW attempt,
               Become(Replace(Touch(m, s, attempt), s,
                        Positioned(Touch(m, s, attempt).containers[s],
                          StartPosition(Touch(m, s, attempt).containers[s], offset))))
        PROVE  UsedStay
    <2> DEFINE t == Touch(m, s, attempt)
               p == StartPosition(t.containers[s], offset)
    <2>1. WellFormed(t, size) /\ SameRanges(m, t, InUse \cup {s})
      BY TouchKeeps
    <2>2. t.containers[s] \in Container
      BY <2>1 DEF WellFormed, SameRanges
    <2>3. p \in Int
      BY <2>2 DEF StartPosition, Container
    <2>4. StillMapped(m, Replace(t, s, Positioned(t.containers[s], p)))
      BY <2>3, TouchMoveStays
    <2> QED BY <1>3, <2>4, BecomeStays DEF StillMapped
  <1> QED BY <1>1, <1>2, <1>3 DEF Attach

(* CreateStream and CreateView from a container that holds the range.        *)
LEMMA CreateReusingStays ==
  ASSUME IInv, NEW k \in Kinds, NEW h \in Handles,
         NEW offset \in Nat, NEW length \in Nat,
         CreateReusing(k, h, offset, length)
  PROVE  UsedStay
  <1> USE CurrentMappings
  <1>1. PICK s \in listed[k] : Attach(k, h, s, offset, length, Mappings)
    BY DEF CreateReusing
  <1>2. s \in Slots /\ containers[s] # None
    BY <1>1 DEF IInv, TypeOK, Members
  <1>3. StillMapped(Mappings, Mappings)
    BY DEF StillMapped
  <1>4. filesize \in Nat
    BY DEF IInv, TypeOK
  <1> QED BY <1>1, <1>2, <1>3, <1>4, AttachStays

(* A new container: without growth nothing else changes, and growth is what  *)
(* the property excuses.                                                     *)
LEMMA CreateAddingStays ==
  ASSUME IInv, NEW k \in Kinds, NEW h \in Handles,
         NEW offset \in Nat, NEW length \in Nat,
         CreateAdding(k, h, offset, length)
  PROVE  UsedStay
  <1> USE CurrentMappings
  <1> DEFINE c == MaximizedRange(offset, length, filesize')
             Grown(n) == IF n = 0 THEN Mappings ELSE Grow(Mappings)
  <1>1. PICK n \in 0..MaxFileSize :
          /\ GrowsNeeded(offset + length, n)
          /\ filesize' = filesize + n * GrowBy
          /\ \E s \in {t \in Slots : Grown(n).containers[t] = None} :
               Attach(k, h, s, offset, length, Add(Grown(n), k, s, c))
    BY DEF CreateAdding
  <1>2. filesize \in Nat
    BY DEF IInv, TypeOK
  <1>3. CASE n # 0
    <2>1. n * GrowBy \in Nat \ {0}
      BY <1>3, MapperAssumption
    <2>2. filesize' > filesize
      BY <1>1, <1>2, <2>1
    <2> QED BY <2>2 DEF UsedStay
  <1>4. CASE n = 0
    <2>1. PICK s \in Slots : /\ containers[s] = None
                             /\ Attach(k, h, s, offset, length, Add(Mappings, k, s, c))
      BY <1>1, <1>4
    <2>2. filesize' = filesize /\ offset + length < filesize
      BY <1>1, <1>2, <1>4, MapperAssumption DEF GrowsNeeded
    <2>3. c \in Container /\ c.min <= c.max /\ c.max <= filesize
      BY <1>2, <2>2, MaximizedRangeFits
    <2>4. /\ WellFormed(Add(Mappings, k, s, c), filesize)
          /\ SameRanges(Mappings, Add(Mappings, k, s, c), InUse)
          /\ Add(Mappings, k, s, c).containers[s] = c
      BY <1>2, <2>1, <2>3, AddKeeps, SMTT(30)
    <2>5. c # None
      BY <2>3, MapperAssumption
    <2>6. \A t \in InUse \cup {s} : Add(Mappings, k, s, c).containers[t] # None
      BY <2>4, <2>5 DEF SameRanges
    <2>7. StillMapped(Mappings, Add(Mappings, k, s, c))
      <3>1. \A t \in InUse : t # s /\ Add(Mappings, k, s, c).containers[t] = containers[t]
        BY <2>1 DEF Add, IInv, TypeOK
      <3> QED BY <3>1 DEF StillMapped
    <2> QED BY <1>2, <2>1, <2>4, <2>6, <2>7, AttachStays
  <1> QED BY <1>3, <1>4

(* VirtualStream.Write.                                                      *)
LEMMA StreamWriteStays ==
  ASSUME IInv, NEW h \in Open, NEW count \in Counts, StreamWrite(h, count)
  PROVE  UsedStay
  <1> DEFINE s == virtual[h].container
             p == containers[s].position + count
  <1>1. p \in Int
    BY PositionType, MapperAssumption DEF Container
  <1>2. PICK attempt : LET t == Touch(Mappings, s, attempt)
                       IN  \/ Become(t)
                           \/ Become(Replace(t, s, Positioned(t.containers[s], p)))
    BY DEF StreamWrite
  <1> QED BY <1>1, <1>2, TransferStays

(* VirtualStream.Read.                                                       *)
LEMMA StreamReadStays ==
  ASSUME IInv, NEW h \in Open, NEW count \in Counts, StreamRead(h, count)
  PROVE  UsedStay
  <1> DEFINE s     == virtual[h].container
             c     == containers[s]
             left  == virtual[h].length - PositionOf(h, c.position)
             asked == IF count > left THEN left ELSE count
             room  == IF c.position > c.max - c.min THEN 0 ELSE c.max - c.min - c.position
             got   == IF asked > room THEN room ELSE asked
             p     == c.position + got
  <1>1. c \in Container /\ virtual[h] \in Virtual /\ count \in Int
    BY PositionType, MapperAssumption
  <1>2. left \in Int
    BY <1>1 DEF PositionOf, Container, Virtual
  <1>3. room \in Int
    BY <1>1 DEF Container
  <1>4. got \in Int
    BY <1>1, <1>2, <1>3
  <1>5. p \in Int
    BY <1>1, <1>4 DEF Container
  <1>6. PICK attempt : LET t == Touch(Mappings, s, attempt)
                       IN  \/ Become(t)
                           \/ Become(Replace(t, s, Positioned(t.containers[s], p)))
    BY DEF StreamRead
  <1> QED BY <1>5, <1>6, TransferStays

(* VirtualStream.Seek.                                                       *)
LEMMA SeekStays ==
  ASSUME IInv, NEW h \in Open, NEW origin \in Origins, NEW count \in Counts,
         Seek(h, origin, count)
  PROVE  UsedStay
  <1> DEFINE s == virtual[h].container
             c == containers[s]
             p == SeekTarget(h, origin, count) + virtual[h].offset + c.min
  <1>1. c \in Container /\ virtual[h] \in Virtual /\ count \in Int
    BY PositionType, MapperAssumption
  <1>2. SeekTarget(h, origin, count) \in Int
    BY <1>1 DEF SeekTarget, PositionOf, Container, Virtual, Origins
  <1>3. p \in Int
    BY <1>1, <1>2 DEF Container, Virtual
  <1>4. PICK attempt : LET t == Touch(Mappings, s, attempt)
                       IN  \/ Become(t)
                           \/ Become(Replace(t, s, Positioned(t.containers[s], p)))
    BY DEF Seek
  <1> QED BY <1>3, <1>4, TransferStays

(* A released handle takes only its own container out of use.                *)
LEMMA ReleaseStays ==
  ASSUME IInv, NEW h \in Open, Release(h)
  PROVE  UsedStay
  <1> USE CurrentMappings
  <1> DEFINE rest == {virtual[g].container : g \in Open \ {h}}
  <1>1. \A g \in Open' : g \in Open \ {h} /\ virtual'[g] = virtual[g]
    BY DEF Release, Open, IInv, TypeOK
  <1>2. InUse' \subseteq rest
    BY <1>1 DEF InUse
  <1>3. \A s \in InUse : s \in rest => containers'[s] = containers[s]
    BY DEF Release
  <1> QED BY <1>2, <1>3 DEF UsedStay

(* Flush opens mappings and clears what nobody uses.                         *)
LEMMA FlushStays ==
  ASSUME IInv, Flush
  PROVE  UsedStay
  <1> USE CurrentMappings
  <1>1. PICK visited \in SUBSET Walked :
          Become(ClearUnusedMappings(
            Visit(visited, [s \in visited |-> Map(containers[s])]), {}))
    BY DEF Flush
  <1> DEFINE m == Visit(visited, [s \in visited |-> Map(containers[s])])
  <1>2. \A s \in visited : Map(containers[s]) \in Container /\ Map(containers[s]).mapped
    BY DEF Walked, Members, Map, Container, IInv, TypeOK
  <1>3. \A s \in InUse : m.containers[s] = IF s \in visited THEN Map(containers[s])
                                           ELSE containers[s]
    BY DEF Visit
  <1>4. StillMapped(Mappings, m) /\ \A s \in InUse : m.containers[s] # None
    BY <1>2, <1>3, MapperAssumption DEF StillMapped
  <1>5. StillMapped(m, ClearUnusedMappings(m, {}))
    BY <1>4, ClearStays
  <1> QED BY <1>1, <1>4, <1>5, BecomeStays DEF StillMapped

(* No step but growth and Dispose unmaps a container in use.                 *)
LEMMA NextStays == IInv /\ [Next]_vars => UsedStay
  <1> SUFFICES ASSUME IInv, [Next]_vars PROVE UsedStay
    OBVIOUS
  <1>1. ASSUME NEW k \in Kinds, NEW h \in Handles, NEW offset \in Offsets,
               NEW length \in Lengths,
               CreateReusing(k, h, offset, length) \/ CreateAdding(k, h, offset, length)
        PROVE  UsedStay
    BY <1>1, CreateReusingStays, CreateAddingStays, MapperAssumption
  <1>2. ASSUME NEW h \in Open, NEW count \in Counts,
               \/ StreamWrite(h, count)
               \/ StreamRead(h, count)
               \/ \E origin \in Origins : Seek(h, origin, count)
        PROVE  UsedStay
    BY <1>2, StreamWriteStays, StreamReadStays, SeekStays
  <1>3. ASSUME NEW h \in Open, NEW op, NEW position, NEW size, NEW checked,
               ViewTransfer(op, h, position, size, checked)
        PROVE  UsedStay
    <2>1. PICK attempt : Become(Touch(Mappings, virtual[h].container, attempt))
      BY <1>3 DEF ViewTransfer
    <2> QED BY <2>1, TransferStays
  <1>4. ASSUME NEW h \in Open, Release(h)
        PROVE  UsedStay
    BY <1>4, ReleaseStays
  <1>5. CASE Flush
    BY <1>5, FlushStays
  <1>6. CASE Dispose
    BY <1>6 DEF Dispose, UsedStay
  <1>7. CASE Reopen
    <2>1. InUse' = {}
      BY <1>7 DEF Reopen, Open, InUse
    <2> QED BY <2>1 DEF UsedStay
  <1>8. CASE UNCHANGED vars
    BY <1>8, CurrentMappings DEF vars, UsedStay
  <1> QED BY <1>1, <1>2, <1>3, <1>4, <1>5, <1>6, <1>7, <1>8
          DEF Next, ViewRead, ViewWrite

(* ClearUnusedMappings, Flush and the retries of a failed allocation: none   *)
(* takes the mapping from a container in use; only Grow does.                *)
THEOREM UsedStayMapped == Spec => OnlyGrowthUnmapsUsed
  BY Invariance, NextStays, PTL DEF Spec, OnlyGrowthUnmapsUsed, UsedStay

-----------------------------------------------------------------------------
(* Callers that keep FileStoreManager's discipline.                         *)

(* One virtual stream at most is live, and its container never stands before *)
(* the range it was made for; after Dispose nothing is transferred.          *)
Cursors ==
  /\ \A g, h \in LiveStreams : g = h
  /\ ~disposed => \A h \in LiveStreams : Cursor(h) >= 0

(* A transfer of a virtual stream stays inside the range the caller asked    *)
(* for.                                                                      *)
StreamsStayInside ==
  io.op \in {"streamread", "streamwrite"} =>
    io.offset <= io.low /\ io.high <= io.offset + io.length

(* The invariant behind ImplementsMappedFile. *)
DisciplineInv == IInv /\ Cursors /\ StreamsStayInside

(* The containers in use stand in n where they stand in m. *)
SamePlaces(m, n) ==
  \A s \in InUse :
    /\ n.containers[s] # None
    /\ n.containers[s].min = m.containers[s].min
    /\ n.containers[s].position = m.containers[s].position

(* ClearUnusedMappings moves nobody.                                         *)
LEMMA ClearMoves ==
  ASSUME NEW m, NEW held, InUse \subseteq Slots,
         \A s \in InUse : m.containers[s] # None
  PROVE  SamePlaces(m, ClearUnusedMappings(m, held))
  BY DEF SamePlaces, ClearUnusedMappings

(* Opening a lazy mapping moves nobody: it is created where it stood.        *)
LEMMA TouchMoves ==
  ASSUME NEW m, NEW size \in Nat, NEW s \in Slots, NEW attempt,
         InUse \subseteq Slots,
         WellFormed(m, size),
         \A t \in InUse \cup {s} : m.containers[t] # None
  PROVE  SamePlaces(m, Touch(m, s, attempt))
  <1> DEFINE cleared == IF attempt = "first" THEN m ELSE ClearUnusedMappings(m, {s})
             c == Map(cleared.containers[s])
             n == Replace(cleared, s, c)
  <1>1. WellFormed(cleared, size) /\ SameRanges(m, cleared, InUse \cup {s})
    BY ClearKeeps DEF SameRanges
  <1>2. SamePlaces(m, cleared)
    BY ClearMoves DEF SamePlaces
  <1>3. cleared.containers[s] \in Container
    BY <1>1 DEF WellFormed, SameRanges
  <1>4. /\ c \in Container
        /\ c.min = cleared.containers[s].min
        /\ c.position = cleared.containers[s].position
    BY <1>3 DEF Map, Container
  <1>5. c # None
    BY <1>4, MapperAssumption
  <1>6. \A t \in InUse : n.containers[t] = IF t = s THEN c ELSE cleared.containers[t]
    BY <1>1 DEF Replace, WellFormed
  <1>7. SamePlaces(m, n)
    BY <1>2, <1>4, <1>5, <1>6 DEF SamePlaces
  <1> QED BY <1>2, <1>7 DEF Touch

(* Handles that stay, on containers that stand still, keep their cursors.    *)
LEMMA StandingStill ==
  ASSUME IInv, Cursors, UNCHANGED disposed,
         \A g \in LiveStreams' :
           /\ g \in LiveStreams
           /\ virtual'[g] = virtual[g]
           /\ containers'[virtual[g].container].min
                = containers[virtual[g].container].min
           /\ containers'[virtual[g].container].position
                = containers[virtual[g].container].position
  PROVE  Cursors'
  <1>1. \A g \in LiveStreams' : g \in LiveStreams /\ Cursor(g)' = Cursor(g)
    BY DEF Cursor
  <1> QED BY <1>1 DEF Cursors

(* A call that leaves the handles alone and moves no container in use.       *)
LEMMA BecomeStill ==
  ASSUME IInv, Cursors, NEW m, UNCHANGED <<virtual, disposed>>,
         Become(m), SamePlaces(Mappings, m)
  PROVE  Cursors'
  <1> USE CurrentMappings
  <1>1. LiveStreams' = LiveStreams
    BY DEF LiveStreams, Open
  <1>2. \A g \in LiveStreams : virtual[g].container \in InUse
    BY DEF LiveStreams
  <1>3. \A s \in InUse : /\ containers'[s].min = containers[s].min
                         /\ containers'[s].position = containers[s].position
    BY DEF Become, SamePlaces
  <1> QED BY <1>1, <1>2, <1>3, StandingStill

(* A transfer moves the one live stream, forward.                            *)
LEMMA TransferAdvances ==
  ASSUME IInv, Cursors, NEW h \in LiveStreams, NEW attempt, NEW p \in Int,
         p >= containers[virtual[h].container].position,
         UNCHANGED <<virtual, disposed>>,
         LET t == Touch(Mappings, virtual[h].container, attempt)
             s == virtual[h].container
         IN  \/ Become(t)
             \/ Become(Replace(t, s, Positioned(t.containers[s], p)))
  PROVE  Cursors'
  <1> USE CurrentMappings
  <1> DEFINE s == virtual[h].container
             t == Touch(Mappings, s, attempt)
             c == Positioned(t.containers[s], p)
  <1>1. /\ h \in Open /\ s \in InUse /\ s \in Slots
        /\ \A u \in InUse \cup {s} : Mappings.containers[u] # None
    BY DEF LiveStreams
  <1>2. filesize \in Nat
    BY DEF IInv, TypeOK
  <1>3. SamePlaces(Mappings, t)
    BY <1>1, <1>2, TouchMoves
  <1>4. WellFormed(t, filesize) /\ SameRanges(Mappings, t, InUse \cup {s})
    BY <1>1, <1>2, TouchKeeps
  <1>5. CASE Become(t)
    BY <1>3, <1>5, BecomeStill
  <1>6. CASE Become(Replace(t, s, c))
    <2>1. t.containers[s] \in Container /\ containers[s] \in Container
      BY <1>1, <1>4 DEF WellFormed, SameRanges, IInv, TypeOK
    <2>2. containers'[s] = c
      BY <1>1, <1>4, <1>6 DEF Become, Replace, WellFormed
    <2>3. c.min = containers[s].min /\ c.position = p
      BY <1>1, <1>3 DEF SamePlaces, Positioned
    <2>4. virtual[h] \in Virtual /\ virtual' = virtual /\ disposed' = disposed
      BY <1>1
    <2>5. LiveStreams' = LiveStreams
      BY <2>4 DEF LiveStreams, Open
    <2>6. Cursor(h)' = containers[s].min + p - virtual[h].offset
      BY <2>2, <2>3, <2>4 DEF Cursor
    <2>7. Cursor(h)' >= Cursor(h) /\ Cursor(h)' \in Int /\ Cursor(h) \in Int
      BY <2>1, <2>4, <2>6 DEF Cursor, Container, Virtual
    <2>8. ~disposed => Cursor(h)' >= 0
      BY <2>7 DEF Cursors
    <2>9. \A g \in LiveStreams : g = h
      BY DEF Cursors
    <2> QED BY <2>4, <2>5, <2>8, <2>9 DEF Cursors
  <1> QED BY <1>5, <1>6

(* A new virtual stream starts at its range, a new view has no cursor.       *)
LEMMA AttachStarts ==
  ASSUME IInv, Cursors, LiveStreams = {}, UNCHANGED disposed,
         NEW m, NEW size \in Nat, NEW k \in Kinds, NEW h \in Handles,
         NEW s \in Slots, NEW offset \in Nat, NEW length \in Nat,
         WellFormed(m, size),
         \A t \in InUse \cup {s} : m.containers[t] # None,
         Attach(k, h, s, offset, length, m)
  PROVE  Cursors'
  <1> USE CurrentMappings
  <1>1. CASE UNCHANGED virtual
    <2>1. LiveStreams' = {}
      BY <1>1 DEF LiveStreams, Open
    <2> QED BY <2>1 DEF Cursors
  <1>2. CASE virtual' = [virtual EXCEPT ![h] = Handle(k, s, offset, length)]
    <2>1. /\ virtual'[h] = Handle(k, s, offset, length)
          /\ \A g \in Handles \ {h} : virtual'[g] = virtual[g]
      BY <1>2 DEF IInv, TypeOK
    <2>2. \A g \in LiveStreams' : g = h /\ k = "stream"
      BY <2>1 DEF LiveStreams, Open, Handle
    <2>3. CASE k = "view"
      BY <2>2, <2>3 DEF Cursors
    <2>4. CASE k = "stream"
      <3>1. PICK attempt :
              Become(Replace(Touch(m, s, attempt), s,
                       Positioned(Touch(m, s, attempt).containers[s],
                         StartPosition(Touch(m, s, attempt).containers[s], offset))))
              \/ UNCHANGED virtual
        BY <2>4 DEF Attach
      <3> DEFINE t == Touch(m, s, attempt)
                 p == StartPosition(t.containers[s], offset)
                 c == Positioned(t.containers[s], p)
      <3>2. WellFormed(t, size) /\ SameRanges(m, t, InUse \cup {s})
        BY TouchKeeps
      <3>3. t.containers[s] \in Container
        BY <3>2 DEF WellFormed, SameRanges
      <3>4. c.min + c.position - offset = 0
        BY <3>3 DEF Positioned, StartPosition, Container
      <3>5. CASE Become(Replace(t, s, c))
        <4>1. containers'[s] = c
          BY <3>2, <3>5 DEF Become, Replace, WellFormed
        <4>2. Cursor(h)' = c.min + c.position - offset
          BY <2>1, <4>1 DEF Cursor, Handle
        <4> QED BY <2>2, <3>4, <4>2 DEF Cursors
      <3>6. CASE UNCHANGED virtual
        BY <1>1, <3>6
      <3> QED BY <3>1, <3>5, <3>6
    <2> QED BY <2>3, <2>4 DEF Kinds
  <1> QED BY <1>1, <1>2 DEF Attach

(* CreateStream and CreateView.                                              *)
LEMMA CreateStarts ==
  ASSUME StoreDiscipline, DisciplineInv, NEW k \in Kinds, NEW h \in Handles,
         NEW offset \in Nat, NEW length \in Nat,
         CreateReusing(k, h, offset, length) \/ CreateAdding(k, h, offset, length)
  PROVE  Cursors' /\ StreamsStayInside'
  <1> USE CurrentMappings DEF DisciplineInv
  <1>1. /\ LiveStreams = {} /\ disposed' = disposed
        /\ io' = NoIO /\ filesize \in Nat
    BY DEF CreateReusing, CreateAdding, MayCreate, IInv, TypeOK
  <1>2. StreamsStayInside'
    BY <1>1 DEF StreamsStayInside, NoIO
  <1>3. CASE CreateReusing(k, h, offset, length)
    <2>1. PICK s \in listed[k] : Attach(k, h, s, offset, length, Mappings)
      BY <1>3 DEF CreateReusing
    <2>2. s \in Slots /\ containers[s] # None
      BY <2>1 DEF IInv, TypeOK, Members
    <2> QED BY <1>1, <1>2, <2>1, <2>2, AttachStarts
  <1>4. CASE CreateAdding(k, h, offset, length)
    <2> DEFINE c == MaximizedRange(offset, length, filesize')
               Grown(n) == IF n = 0 THEN Mappings ELSE Grow(Mappings)
    <2>1. PICK n \in 0..MaxFileSize :
            /\ GrowsNeeded(offset + length, n)
            /\ filesize' = filesize + n * GrowBy
            /\ \E s \in {t \in Slots : Grown(n).containers[t] = None} :
                 Attach(k, h, s, offset, length, Add(Grown(n), k, s, c))
      BY <1>4 DEF CreateAdding
    <2>2. PICK s \in Slots : /\ Grown(n).containers[s] = None
                             /\ Attach(k, h, s, offset, length, Add(Grown(n), k, s, c))
      BY <2>1
    <2>3. n * GrowBy \in Nat
      BY MapperAssumption
    <2>4. filesize' \in Nat /\ filesize <= filesize' /\ offset + length < filesize'
      BY <1>1, <2>1, <2>3 DEF GrowsNeeded
    <2>5. WellFormed(Grown(n), filesize) /\ SameRanges(Mappings, Grown(n), InUse)
      <3>1. SameRanges(Mappings, Mappings, InUse)
        BY DEF SameRanges
      <3> QED BY <1>1, <3>1, GrowKeeps
    <2>6. WellFormed(Grown(n), filesize')
      BY <1>1, <2>4, <2>5, LargerFile
    <2>7. c \in Container /\ c.min <= c.max /\ c.max <= filesize'
      BY <2>4, MaximizedRangeFits
    <2>8. \A t \in InUse : Grown(n).containers[t] # None
      BY <2>5 DEF SameRanges
    <2>9. /\ WellFormed(Add(Grown(n), k, s, c), filesize')
          /\ SameRanges(Grown(n), Add(Grown(n), k, s, c), InUse)
          /\ Add(Grown(n), k, s, c).containers[s] = c
      BY <2>2, <2>4, <2>6, <2>7, <2>8, AddKeeps
    <2>10. c # None
      BY <2>7, MapperAssumption
    <2>11. \A t \in InUse \cup {s} : Add(Grown(n), k, s, c).containers[t] # None
      BY <2>9, <2>10 DEF SameRanges
    <2> QED BY <1>1, <1>2, <2>2, <2>4, <2>9, <2>11, AttachStarts
  <1> QED BY <1>3, <1>4

(* VirtualStream.Write within the caller's range.                            *)
LEMMA StreamWriteInside ==
  ASSUME StoreDiscipline, DisciplineInv, NEW h \in Open, NEW count \in Counts,
         StreamWrite(h, count)
  PROVE  Cursors' /\ StreamsStayInside'
  <1> USE DEF DisciplineInv
  <1> DEFINE s == virtual[h].container
             c == containers[s]
             p == c.position + count
  <1>1. /\ h \in LiveStreams /\ ~disposed /\ count <= Remaining(h)
        /\ UNCHANGED <<virtual, disposed>>
    BY DEF StreamWrite
  <1>2. c \in Container /\ virtual[h] \in Virtual /\ count \in Nat
    BY PositionType, MapperAssumption
  <1>3. p \in Int /\ p >= c.position
    BY <1>2 DEF Container
  <1>4. PICK attempt : LET t == Touch(Mappings, s, attempt)
                       IN  \/ Become(t)
                           \/ Become(Replace(t, s, Positioned(t.containers[s], p)))
    BY DEF StreamWrite
  <1>5. Cursors'
    BY <1>1, <1>3, <1>4, TransferAdvances
  <1>6. Cursor(h) >= 0 /\ Cursor(h) = c.min + c.position - virtual[h].offset
    BY <1>1 DEF Cursors, Cursor
  <1>7. io' = NoIO \/ Record("streamwrite", h, c.min + c.position, count)
    BY DEF StreamWrite
  <1>8. StreamsStayInside'
    <2>1. CASE io' = NoIO
      BY <2>1 DEF NoIO, StreamsStayInside
    <2>2. CASE Record("streamwrite", h, c.min + c.position, count)
      <3>1. /\ io'.offset = virtual[h].offset /\ io'.length = virtual[h].length
            /\ io'.low = c.min + c.position /\ io'.high = c.min + c.position + count
        BY <2>2 DEF Record
      <3>2. /\ virtual[h].offset <= c.min + c.position
            /\ c.min + c.position + count <= virtual[h].offset + virtual[h].length
        BY <1>1, <1>2, <1>6 DEF Remaining, Container, Virtual
      <3> QED BY <3>1, <3>2 DEF StreamsStayInside
    <2> QED BY <1>7, <2>1, <2>2
  <1> QED BY <1>5, <1>8

(* VirtualStream.Read within the caller's range.                             *)
LEMMA StreamReadInside ==
  ASSUME StoreDiscipline, DisciplineInv, NEW h \in Open, NEW count \in Counts,
         StreamRead(h, count)
  PROVE  Cursors' /\ StreamsStayInside'
  <1> USE DEF DisciplineInv
  <1> DEFINE s     == virtual[h].container
             c     == containers[s]
             left  == virtual[h].length - PositionOf(h, c.position)
             asked == IF count > left THEN left ELSE count
             room  == IF c.position > c.max - c.min THEN 0 ELSE c.max - c.min - c.position
             got   == IF asked > room THEN room ELSE asked
             p     == c.position + got
  <1>1. /\ h \in LiveStreams /\ ~disposed /\ count <= Remaining(h)
        /\ UNCHANGED <<virtual, disposed>>
    BY DEF StreamRead
  <1>2. c \in Container /\ virtual[h] \in Virtual /\ count \in Nat
    BY PositionType, MapperAssumption
  <1>3. left \in Int /\ room \in Nat
    BY <1>2 DEF PositionOf, Container, Virtual
  <1>4. asked \in Int /\ asked <= count
    BY <1>2, <1>3
  <1>5. got \in Int /\ got <= count /\ (asked >= 0 => got >= 0)
    BY <1>2, <1>3, <1>4
  <1>6. p \in Int /\ (asked >= 0 => p >= c.position)
    BY <1>2, <1>5 DEF Container
  <1>7. PICK attempt :
          LET t == Touch(Mappings, s, attempt)
          IN  \/ /\ asked >= 0
                 /\ Become(Replace(t, s, Positioned(t.containers[s], p)))
                 /\ Record("streamread", h, c.min + c.position, got)
              \/ Become(t) /\ io' = NoIO
    BY DEF StreamRead
  <1>8. Cursor(h) >= 0 /\ Cursor(h) = c.min + c.position - virtual[h].offset
    BY <1>1 DEF Cursors, Cursor
  <1>9. CASE Become(Touch(Mappings, s, attempt)) /\ io' = NoIO
    <2>1. c.position \in Int /\ c.position >= c.position
      BY <1>2 DEF Container
    <2>2. Cursors'
      BY <1>1, <1>9, <2>1, TransferAdvances
    <2> QED BY <1>9, <2>2 DEF NoIO, StreamsStayInside
  <1>10. CASE /\ asked >= 0
              /\ Become(Replace(Touch(Mappings, s, attempt), s,
                          Positioned(Touch(Mappings, s, attempt).containers[s], p)))
              /\ Record("streamread", h, c.min + c.position, got)
    <2>1. Cursors'
      BY <1>1, <1>6, <1>10, TransferAdvances
    <2>2. /\ io'.offset = virtual[h].offset /\ io'.length = virtual[h].length
          /\ io'.low = c.min + c.position /\ io'.high = c.min + c.position + got
      BY <1>10 DEF Record
    <2>3. /\ virtual[h].offset <= c.min + c.position
          /\ c.min + c.position + got <= virtual[h].offset + virtual[h].length
      <3>1. /\ virtual[h].offset \in Nat /\ virtual[h].length \in Nat
            /\ c.min \in Nat /\ c.position \in Int
        BY <1>2 DEF Container, Virtual
      <3>2. got \in Int /\ got <= count /\ count \in Nat
        BY <1>2, <1>5
      <3>3. count <= virtual[h].length - Cursor(h)
        BY <1>1 DEF Remaining
      <3> HIDE DEF c, got
      <3> QED BY <1>8, <3>1, <3>2, <3>3, SMT
    <2> QED BY <2>1, <2>2, <2>3 DEF StreamsStayInside
  <1> QED BY <1>7, <1>9, <1>10

(* VirtualView.Read and Write move no stream.                                *)
LEMMA ViewTransferStill ==
  ASSUME StoreDiscipline, DisciplineInv, NEW h \in Open,
         NEW op \in {"viewread", "viewwrite"}, NEW position, NEW size, NEW checked,
         ViewTransfer(op, h, position, size, checked)
  PROVE  Cursors' /\ StreamsStayInside'
  <1> USE CurrentMappings DEF DisciplineInv
  <1>1. PICK attempt : Become(Touch(Mappings, virtual[h].container, attempt))
    BY DEF ViewTransfer
  <1>2. UNCHANGED <<virtual, disposed>> /\ filesize \in Nat
    BY DEF ViewTransfer, IInv, TypeOK
  <1>3. SamePlaces(Mappings, Touch(Mappings, virtual[h].container, attempt))
    BY <1>2, TouchMoves
  <1>4. io'.op \notin {"streamread", "streamwrite"}
    BY DEF ViewTransfer, Record, NoIO
  <1> QED BY <1>1, <1>2, <1>3, <1>4, BecomeStill DEF StreamsStayInside

(* VirtualStream.Dispose and VirtualView.Dispose move no other stream.       *)
LEMMA ReleaseStill ==
  ASSUME StoreDiscipline, DisciplineInv, NEW h \in Open, Release(h)
  PROVE  Cursors' /\ StreamsStayInside'
  <1> USE CurrentMappings DEF DisciplineInv
  <1> DEFINE rest == {virtual[g].container : g \in Open \ {h}}
  <1>1. \A g \in Open' : g \in Open \ {h} /\ virtual'[g] = virtual[g]
    BY DEF Release, Open, IInv, TypeOK
  <1>2. \A g \in LiveStreams' : /\ g \in LiveStreams /\ virtual'[g] = virtual[g]
                                /\ virtual[g].container \in rest
    BY <1>1 DEF LiveStreams
  <1>3. \A s \in rest : s \in Slots /\ containers'[s] = containers[s]
    BY DEF Release
  <1>4. Cursors'
    BY <1>2, <1>3, StandingStill DEF Release
  <1> QED BY <1>4 DEF Release, StreamsStayInside, NoIO

(* Flush opens mappings where they stood.                                    *)
LEMMA FlushMoves ==
  ASSUME IInv, NEW visited \in SUBSET Walked
  PROVE  SamePlaces(Mappings, ClearUnusedMappings(
           Visit(visited, [s \in visited |-> Map(containers[s])]), {}))
  <1> USE CurrentMappings
  <1> DEFINE m == Visit(visited, [s \in visited |-> Map(containers[s])])
  <1>1. \A s \in visited : /\ Map(containers[s]) \in Container
                           /\ Map(containers[s]).min = containers[s].min
                           /\ Map(containers[s]).position = containers[s].position
    BY DEF Walked, Members, Map, Container, IInv, TypeOK
  <1>2. \A s \in InUse : m.containers[s] = IF s \in visited THEN Map(containers[s])
                                           ELSE containers[s]
    BY DEF Visit
  <1>3. SamePlaces(Mappings, m)
    BY <1>1, <1>2, MapperAssumption DEF SamePlaces
  <1>4. SamePlaces(m, ClearUnusedMappings(m, {}))
    BY <1>3, ClearMoves DEF SamePlaces
  <1> QED BY <1>3, <1>4 DEF SamePlaces

(* Flush, complete or cut short.                                             *)
LEMMA FlushStill ==
  ASSUME StoreDiscipline, DisciplineInv, Flush
  PROVE  Cursors' /\ StreamsStayInside'
  <1> USE DEF DisciplineInv
  <1>1. PICK visited \in SUBSET Walked :
          Become(ClearUnusedMappings(
            Visit(visited, [s \in visited |-> Map(containers[s])]), {}))
    BY DEF Flush
  <1>2. Cursors'
    BY <1>1, FlushMoves, BecomeStill DEF Flush
  <1> QED BY <1>2 DEF Flush, StreamsStayInside, NoIO

(* Dispose and a new mapper: no stream is used, or there is none.            *)
LEMMA ClosingStill ==
  ASSUME StoreDiscipline, DisciplineInv, Dispose \/ Reopen
  PROVE  Cursors' /\ StreamsStayInside'
  <1> USE DEF DisciplineInv
  <1>1. CASE Dispose
    <2>1. disposed' /\ LiveStreams' = LiveStreams
      BY <1>1 DEF Dispose, LiveStreams, Open
    <2> QED BY <1>1, <2>1 DEF Dispose, Cursors, StreamsStayInside, NoIO
  <1>2. CASE Reopen
    <2>1. LiveStreams' = {}
      BY <1>2 DEF Reopen, LiveStreams, Open
    <2> QED BY <1>2, <2>1 DEF Reopen, Cursors, StreamsStayInside, NoIO
  <1> QED BY <1>1, <1>2

(* Every step keeps the one live stream where it may stand.                  *)
LEMMA NextDiscipline ==
  ASSUME StoreDiscipline
  PROVE  DisciplineInv /\ [Next]_vars => DisciplineInv'
  <1> SUFFICES ASSUME DisciplineInv, [Next]_vars
               PROVE  Cursors' /\ StreamsStayInside'
    BY NextIInv DEF DisciplineInv
  <1>1. ASSUME NEW k \in Kinds, NEW h \in Handles, NEW offset \in Offsets,
               NEW length \in Lengths,
               CreateReusing(k, h, offset, length) \/ CreateAdding(k, h, offset, length)
        PROVE  Cursors' /\ StreamsStayInside'
    BY <1>1, CreateStarts, MapperAssumption
  <1>2. ASSUME NEW h \in Open, NEW count \in Counts,
               \/ StreamWrite(h, count)
               \/ StreamRead(h, count)
               \/ \E origin \in Origins : Seek(h, origin, count)
        PROVE  Cursors' /\ StreamsStayInside'
    BY <1>2, StreamWriteInside, StreamReadInside DEF Seek
  <1>3. ASSUME NEW h \in Open, NEW position \in Counts, NEW size \in Counts,
               \/ \E checked \in BOOLEAN : ViewRead(h, position, size, checked)
               \/ ViewWrite(h, position, size)
        PROVE  Cursors' /\ StreamsStayInside'
    BY <1>3, ViewTransferStill DEF ViewRead, ViewWrite
  <1>4. ASSUME NEW h \in Open, Release(h)
        PROVE  Cursors' /\ StreamsStayInside'
    BY <1>4, ReleaseStill
  <1>5. CASE Flush
    BY <1>5, FlushStill
  <1>6. CASE Dispose \/ Reopen
    BY <1>6, ClosingStill
  <1>7. CASE UNCHANGED vars
    <2>1. LiveStreams' = LiveStreams /\ \A g \in LiveStreams : Cursor(g)' = Cursor(g)
      BY <1>7 DEF vars, LiveStreams, Open, Cursor
    <2> QED BY <1>7, <2>1 DEF vars, DisciplineInv, Cursors, StreamsStayInside
  <1> QED BY <1>1, <1>2, <1>3, <1>4, <1>5, <1>6, <1>7 DEF Next

(* At first there is no stream.                                              *)
LEMMA InitDiscipline == Init => DisciplineInv
  <1> SUFFICES ASSUME Init PROVE DisciplineInv
    OBVIOUS
  <1>1. LiveStreams = {}
    BY DEF Init, LiveStreams, Open
  <1> QED BY <1>1, InitIInv DEF Init, DisciplineInv, Cursors, StreamsStayInside, NoIO

-----------------------------------------------------------------------------
(* The mapper implements MappedFile.                                        *)

(* A step of the file that MappedFile describes. *)
FileStep == [File!Next]_(File!vars)

(* An open range of an open mapper, spelled out. *)
LEMMA RangesAre ==
  ASSUME IInv
  PROVE  /\ \A h \in Open : RangeOf(h) \in Range /\ RangeOf(h) # None
         /\ \A h \in Handles \ Open : Ranges[h] = None
         /\ disposed => Ranges = [h \in Handles |-> None]
         /\ ~disposed => \A h \in Open : Ranges[h] = RangeOf(h)
  <1>1. \A h \in Open : /\ virtual[h] \in Virtual
                        /\ containers[virtual[h].container] \in Container
    BY DEF Open, InUse, IInv, TypeOK, Virtual
  <1>2. \A h \in Open : Cursor(h) \in Int
    BY <1>1 DEF Cursor, Container, Virtual
  <1>3. \A h \in Open : RangeOf(h) \in Range
    BY <1>1, <1>2 DEF RangeOf, Range, Virtual
  <1> QED BY <1>3, RefinementAssumption DEF Ranges, Open

(* A call that moves no container in use leaves the ranges alone.            *)
LEMMA RangesStay ==
  ASSUME IInv, NEW m, UNCHANGED <<virtual, disposed>>,
         Become(m), SamePlaces(Mappings, m)
  PROVE  Ranges' = Ranges
  <1> USE CurrentMappings
  <1>1. \A h \in Open : RangeOf(h)' = RangeOf(h)
    BY DEF RangeOf, Cursor, Become, SamePlaces
  <1> QED BY <1>1 DEF Ranges, Open

(* Such a call is refused as far as the file is concerned.                   *)
LEMMA RefusedStep ==
  ASSUME IInv, NEW m, UNCHANGED <<virtual, disposed, filesize>>,
         Become(m), SamePlaces(Mappings, m), io' = NoIO
  PROVE  FileStep
  <1>1. Ranges' = Ranges
    BY RangesStay
  <1>2. filesize' >= filesize
    BY DEF IInv, TypeOK
  <1>3. File!Refuse
    BY <1>1, <1>2 DEF File!Refuse, NoIO, File!NoIO
  <1> QED BY <1>3 DEF FileStep, File!Next

(* Where a transfer leaves the container of its stream.                      *)
LEMMA MovedTo ==
  ASSUME IInv, NEW h \in Open, NEW attempt, NEW p \in Int,
         LET t == Touch(Mappings, virtual[h].container, attempt)
             s == virtual[h].container
         IN  Become(Replace(t, s, Positioned(t.containers[s], p)))
  PROVE  /\ containers'[virtual[h].container].min
              = containers[virtual[h].container].min
         /\ containers'[virtual[h].container].position = p
  <1> USE CurrentMappings
  <1> DEFINE s == virtual[h].container
             t == Touch(Mappings, s, attempt)
             c == Positioned(t.containers[s], p)
  <1>1. s \in InUse /\ s \in Slots /\ filesize \in Nat
    BY DEF IInv, TypeOK
  <1>2. \A u \in InUse \cup {s} : Mappings.containers[u] # None
    BY <1>1
  <1>3. SamePlaces(Mappings, t) /\ WellFormed(t, filesize)
    BY <1>1, <1>2, TouchMoves, TouchKeeps
  <1>4. containers'[s] = c
    BY <1>1, <1>3 DEF Become, Replace, WellFormed
  <1>5. c.min = containers[s].min /\ c.position = p
    BY <1>1, <1>3 DEF SamePlaces, Positioned
  <1> QED BY <1>4, <1>5

(* A transfer of k bytes through the one live stream.                        *)
LEMMA StreamTransferStep ==
  ASSUME DisciplineInv, NEW h \in LiveStreams, ~disposed,
         UNCHANGED <<filesize, virtual, disposed>>,
         NEW op \in {"streamread", "streamwrite"}, NEW k \in Nat, k <= Remaining(h),
         LET s == virtual[h].container
         IN  /\ containers'[s].min = containers[s].min
             /\ containers'[s].position = containers[s].position + k
             /\ Record(op, h, containers[s].min + containers[s].position, k)
  PROVE  FileStep
  <1> USE CurrentMappings DEF DisciplineInv
  <1> DEFINE s == virtual[h].container
             c == containers[s]
             r == Ranges[h]
  <1>1. /\ h \in Open /\ h \in Handles /\ virtual[h].kind = "stream"
        /\ virtual[h] \in Virtual /\ c \in Container
    BY DEF LiveStreams, Open, IInv, TypeOK
  <1>2. /\ r = RangeOf(h) /\ r # None
        /\ r = [kind   |-> "stream",
                offset |-> virtual[h].offset,
                length |-> virtual[h].length,
                cursor |-> Cursor(h)]
    BY <1>1, RangesAre DEF RangeOf
  <1>3. /\ Cursor(h) = c.min + c.position - virtual[h].offset
        /\ Cursor(h) \in Int /\ Cursor(h) >= 0
    BY <1>1 DEF Cursor, Cursors, Container, Virtual
  <1>4. Cursor(h)' = Cursor(h) + k
    BY <1>1, <1>3 DEF Cursor, Container, Virtual
  <1>5. io' = [op |-> op, offset |-> virtual[h].offset, length |-> virtual[h].length,
               low |-> c.min + c.position, high |-> c.min + c.position + k]
    BY DEF Record
  <1>6. /\ io'.op = op /\ io'.offset = r.offset /\ io'.length = r.length
        /\ io'.low = r.offset + r.cursor /\ io'.high = r.offset + r.cursor + k
        /\ io' = [op |-> io'.op, offset |-> r.offset, length |-> r.length,
                  low |-> io'.low, high |-> io'.high]
    BY <1>1, <1>2, <1>3, <1>5 DEF Container, Virtual
  <1>7. /\ r.offset \in Nat /\ r.length \in Nat /\ r.cursor \in Nat
        /\ r.cursor + k <= r.length
    BY <1>1, <1>2, <1>3 DEF Remaining, Virtual
  <1>8. /\ r.offset <= io'.low /\ io'.low <= io'.high
        /\ io'.high <= r.offset + r.length
        /\ r.cursor + io'.high - io'.low = r.cursor + k
    BY <1>6, <1>7
  <1> DEFINE q == [kind |-> "stream", offset |-> r.offset, length |-> r.length,
                   cursor |-> r.cursor + io'.high - io'.low]
  <1>9. Ranges'[h] = q
    <2>1. Ranges'[h] = RangeOf(h)'
      BY <1>1 DEF Ranges, Open
    <2>2. RangeOf(h)' = [kind   |-> "stream",
                         offset |-> virtual[h].offset,
                         length |-> virtual[h].length,
                         cursor |-> Cursor(h)']
      BY <1>1 DEF RangeOf
    <2> QED BY <1>2, <1>4, <1>8, <2>1, <2>2
  <1>10. \A g \in Handles : g # h => Ranges'[g] = Ranges[g]
    <2>1. \A g \in Open : g # h => virtual[g].kind # "stream"
      BY DEF Cursors, LiveStreams
    <2>2. \A g \in Open : g # h => RangeOf(g)' = RangeOf(g)
      BY <2>1 DEF RangeOf
    <2> QED BY <2>2 DEF Ranges, Open
  <1>11. Ranges' = [Ranges EXCEPT ![h] = q]
    BY <1>9, <1>10 DEF Ranges
  <1>12. r.kind = "stream"
    BY <1>2
  <1>13. File!Transfer(h)
    BY <1>2, <1>6, <1>8, <1>11, <1>12 DEF File!Transfer
  <1> QED BY <1>1, <1>13 DEF FileStep, File!Next

(* VirtualStream.Write.                                                      *)
LEMMA StreamWriteStep ==
  ASSUME StoreDiscipline, DisciplineInv, NEW h \in Open, NEW count \in Counts,
         StreamWrite(h, count)
  PROVE  FileStep
  <1> USE CurrentMappings DEF DisciplineInv
  <1> DEFINE s == virtual[h].container
             c == containers[s]
             p == c.position + count
  <1>1. /\ h \in LiveStreams /\ ~disposed /\ count <= Remaining(h)
        /\ UNCHANGED <<filesize, virtual, disposed>>
    BY DEF StreamWrite
  <1>2. c \in Container /\ count \in Nat /\ filesize \in Nat
    BY PositionType, MapperAssumption DEF IInv, TypeOK
  <1>3. p \in Int
    BY <1>2 DEF Container
  <1>4. PICK attempt :
          LET t == Touch(Mappings, s, attempt)
          IN  \/ /\ Become(Replace(t, s, Positioned(t.containers[s], p)))
                 /\ Record("streamwrite", h, c.min + c.position, count)
              \/ Become(t) /\ io' = NoIO
    BY DEF StreamWrite
  <1>5. CASE Become(Touch(Mappings, s, attempt)) /\ io' = NoIO
    <2>1. SamePlaces(Mappings, Touch(Mappings, s, attempt))
      BY <1>2, TouchMoves
    <2> QED BY <1>1, <1>5, <2>1, RefusedStep
  <1>6. CASE /\ Become(Replace(Touch(Mappings, s, attempt), s,
                         Positioned(Touch(Mappings, s, attempt).containers[s], p)))
             /\ Record("streamwrite", h, c.min + c.position, count)
    <2>1. containers'[s].min = c.min /\ containers'[s].position = p
      BY <1>3, <1>6, MovedTo
    <2> QED BY <1>1, <1>2, <1>6, <2>1, StreamTransferStep
  <1> QED BY <1>4, <1>5, <1>6

(* VirtualStream.Read.                                                       *)
LEMMA StreamReadStep ==
  ASSUME StoreDiscipline, DisciplineInv, NEW h \in Open, NEW count \in Counts,
         StreamRead(h, count)
  PROVE  FileStep
  <1> USE CurrentMappings DEF DisciplineInv
  <1> DEFINE s     == virtual[h].container
             c     == containers[s]
             left  == virtual[h].length - PositionOf(h, c.position)
             asked == IF count > left THEN left ELSE count
             room  == IF c.position > c.max - c.min THEN 0 ELSE c.max - c.min - c.position
             got   == IF asked > room THEN room ELSE asked
             p     == c.position + got
  <1>1. /\ h \in LiveStreams /\ ~disposed /\ count <= Remaining(h)
        /\ UNCHANGED <<filesize, virtual, disposed>>
    BY DEF StreamRead
  <1>2. /\ c \in Container /\ virtual[h] \in Virtual /\ count \in Nat
        /\ filesize \in Nat
    BY PositionType, MapperAssumption DEF IInv, TypeOK
  <1>3. left \in Int /\ room \in Nat
    BY <1>2 DEF PositionOf, Container, Virtual
  <1>4. asked \in Int /\ asked <= count
    BY <1>2, <1>3
  <1>5. got \in Int /\ got <= count /\ (asked >= 0 => got \in Nat)
    BY <1>2, <1>3, <1>4
  <1>6. p \in Int /\ Remaining(h) \in Int
    BY <1>2, <1>5, SMTT(30) DEF Remaining, Cursor, Container, Virtual
  <1>7. PICK attempt :
          LET t == Touch(Mappings, s, attempt)
          IN  \/ /\ asked >= 0
                 /\ Become(Replace(t, s, Positioned(t.containers[s], p)))
                 /\ Record("streamread", h, c.min + c.position, got)
              \/ Become(t) /\ io' = NoIO
    BY DEF StreamRead
  <1>8. CASE Become(Touch(Mappings, s, attempt)) /\ io' = NoIO
    <2>1. SamePlaces(Mappings, Touch(Mappings, s, attempt))
      BY <1>2, TouchMoves
    <2> QED BY <1>1, <1>8, <2>1, RefusedStep
  <1>9. CASE /\ asked >= 0
             /\ Become(Replace(Touch(Mappings, s, attempt), s,
                         Positioned(Touch(Mappings, s, attempt).containers[s], p)))
             /\ Record("streamread", h, c.min + c.position, got)
    <2>1. containers'[s].min = c.min /\ containers'[s].position = p
      <3>1. p \in Int
        BY <1>6
      <3>2. Become(Replace(Touch(Mappings, s, attempt), s,
                     Positioned(Touch(Mappings, s, attempt).containers[s], p)))
        BY <1>9
      <3> HIDE DEF p
      <3> QED BY <3>1, <3>2, MovedTo
    <2>2. got \in Nat
      <3>1. asked >= 0
        BY <1>9
      <3> HIDE DEF asked, got
      <3> QED BY <1>5, <3>1
    <2>3. got <= Remaining(h)
      <3> HIDE DEF got
      <3> QED BY <1>1, <1>2, <1>5, <1>6
    <2> QED BY <1>1, <1>9, <2>1, <2>2, <2>3, StreamTransferStep
  <1> QED BY <1>7, <1>8, <1>9

(* VirtualView.Read and Write address their range.                           *)
LEMMA ViewTransferStep ==
  ASSUME StoreDiscipline, DisciplineInv, NEW h \in Open,
         NEW op \in {"viewread", "viewwrite"},
         NEW position \in Counts, NEW size \in Counts, NEW checked,
         ViewTransfer(op, h, position, size, checked)
  PROVE  FileStep
  <1> USE CurrentMappings DEF DisciplineInv
  <1> DEFINE s == virtual[h].container
             c == containers[s]
             relative == virtual[h].offset - c.min + position
             r == Ranges[h]
  <1>1. PICK attempt : Become(Touch(Mappings, s, attempt))
    BY DEF ViewTransfer
  <1>2. /\ UNCHANGED <<filesize, virtual, disposed>> /\ ~disposed
        /\ filesize \in Nat /\ position + size <= virtual[h].length
        /\ h \notin LiveStreams /\ h \in Handles
    BY DEF ViewTransfer, IInv, TypeOK, Open
  <1>3. SamePlaces(Mappings, Touch(Mappings, s, attempt))
    BY <1>2, TouchMoves
  <1>4. CASE io' = NoIO
    BY <1>1, <1>2, <1>3, <1>4, RefusedStep
  <1>5. CASE Record(op, h, c.min + relative, size)
    <2>1. Ranges' = Ranges
      BY <1>1, <1>2, <1>3, RangesStay
    <2>2. /\ virtual[h] \in Virtual /\ c \in Container
          /\ position \in Nat /\ size \in Nat
      BY PositionType, MapperAssumption
    <2>3. r = RangeOf(h) /\ r # None
      BY <1>2, RangesAre
    <2>4. virtual[h].kind = "view"
      BY <1>2, <2>2 DEF LiveStreams, Virtual, Kinds
    <2>5. /\ r.kind = "view" /\ r.offset = virtual[h].offset
          /\ r.length = virtual[h].length
      BY <2>3, <2>4 DEF RangeOf
    <2>6. io' = [op |-> op, offset |-> virtual[h].offset,
                 length |-> virtual[h].length,
                 low |-> c.min + relative, high |-> c.min + relative + size]
      BY <1>5 DEF Record
    <2>7. /\ io'.op \in {"streamread", "streamwrite", "viewread", "viewwrite"}
          /\ io'.low = c.min + relative /\ io'.high = c.min + relative + size
          /\ io' = [op |-> io'.op, offset |-> r.offset, length |-> r.length,
                    low |-> io'.low, high |-> io'.high]
      BY <2>5, <2>6
    <2>8. /\ r.offset <= io'.low /\ io'.low <= io'.high
          /\ io'.high <= r.offset + r.length
      BY <1>2, <2>2, <2>5, <2>7 DEF Container, Virtual
    <2>9. File!Transfer(h)
      BY <1>2, <2>1, <2>3, <2>5, <2>7, <2>8 DEF File!Transfer
    <2> QED BY <1>2, <2>9 DEF FileStep, File!Next
  <1> QED BY <1>4, <1>5 DEF ViewTransfer

(* A new handle opens a range at its start; other handles are views, which   *)
(* have no cursor to lose.                                                   *)
LEMMA AttachStep ==
  ASSUME StoreDiscipline, DisciplineInv, IInv', ~disposed, LiveStreams = {},
         NEW m, NEW size \in Nat, NEW k \in Kinds, NEW h \in Handles,
         NEW s \in Slots, NEW offset \in Nat, NEW length \in Nat,
         WellFormed(m, size),
         \A t \in InUse \cup {s} : m.containers[t] # None,
         virtual[h] = None, UNCHANGED disposed, io' = NoIO,
         filesize' >= filesize,
         Attach(k, h, s, offset, length, m)
  PROVE  FileStep
  <1> USE CurrentMappings DEF DisciplineInv
  <1>1. \A g \in Open : virtual[g].kind # "stream"
    BY DEF LiveStreams
  <1>2. CASE UNCHANGED virtual
    <2>1. \A g \in Open : RangeOf(g)' = RangeOf(g)
      BY <1>1, <1>2 DEF RangeOf
    <2>2. Ranges' = Ranges
      BY <1>2, <2>1 DEF Ranges, Open
    <2>3. File!Refuse
      BY <2>2 DEF File!Refuse, NoIO, File!NoIO
    <2> QED BY <2>3 DEF FileStep, File!Next
  <1>3. CASE virtual' = [virtual EXCEPT ![h] = Handle(k, s, offset, length)]
    <2>1. /\ virtual'[h] = Handle(k, s, offset, length)
          /\ \A g \in Handles \ {h} : virtual'[g] = virtual[g]
      BY <1>3 DEF IInv, TypeOK
    <2>2. Handle(k, s, offset, length) # None
      BY MapperAssumption DEF Handle, Virtual
    <2>3. h \in Open' /\ virtual[h] = None
      BY <2>1, <2>2 DEF Open
    <2>4. k = "stream" => Cursor(h)' = 0
      <3> SUFFICES ASSUME k = "stream" PROVE Cursor(h)' = 0
        OBVIOUS
      <3>1. PICK attempt :
              Become(Replace(Touch(m, s, attempt), s,
                       Positioned(Touch(m, s, attempt).containers[s],
                         StartPosition(Touch(m, s, attempt).containers[s], offset))))
        <4>1. virtual' # virtual
          BY <2>1, <2>2, <2>3
        <4> QED BY <4>1 DEF Attach
      <3> DEFINE t == Touch(m, s, attempt)
                 c == Positioned(t.containers[s],
                        StartPosition(t.containers[s], offset))
      <3>2. WellFormed(t, size) /\ SameRanges(m, t, InUse \cup {s})
        BY TouchKeeps
      <3>3. t.containers[s] \in Container
        BY <3>2 DEF WellFormed, SameRanges
      <3>4. c.min + c.position - offset = 0
        BY <3>3 DEF Positioned, StartPosition, Container
      <3>5. containers'[s] = c
        BY <3>1, <3>2 DEF Become, Replace, WellFormed
      <3>6. Cursor(h)' = c.min + c.position - offset
        BY <2>1, <3>5 DEF Cursor, Handle
      <3> QED BY <3>4, <3>6
    <2> DEFINE q == [kind |-> k, offset |-> offset, length |-> length, cursor |-> 0]
    <2>5. Ranges'[h] = q
      <3>1. Ranges'[h] = RangeOf(h)'
        BY <2>1, <2>2 DEF Ranges
      <3>2. RangeOf(h)' = q
        BY <2>1, <2>4 DEF RangeOf, Handle, Kinds
      <3> QED BY <3>1, <3>2
    <2>6. Ranges[h] = None
      BY <2>3 DEF Ranges
    <2>7. \A g \in Handles : g # h => Ranges'[g] = Ranges[g]
      <3>1. \A g \in Open : g # h => RangeOf(g)' = RangeOf(g)
        BY <1>1, <2>1 DEF RangeOf, Open
      <3> QED BY <2>1, <3>1 DEF Ranges, Open
    <2>8. Ranges' = [Ranges EXCEPT ![h] = Ranges'[h]]
      BY <2>7 DEF Ranges
    <2>9. offset + length <= filesize'
      <3>1. Contains(containers'[s], offset, length)
        BY <2>1, <2>3 DEF HandlesInsideContainers, IInv, Contains, Handle
      <3>2. containers'[s] \in Container /\ containers'[s].max <= filesize'
        <4>1. s \in InUse'
          BY <2>1, <2>3 DEF InUse, Handle
        <4> QED BY <4>1 DEF IInv, TypeOK, RangesWithinFile
      <3>3. filesize' \in Nat
        BY DEF IInv, TypeOK
      <3> QED BY <3>1, <3>2, <3>3 DEF Contains, Container
    <2>10. Ranges'[h] # None
      BY <2>5, RefinementAssumption DEF Range
    <2>11. /\ Ranges'[h] = File!Opened(Ranges'[h].kind, Ranges'[h].offset,
                                       Ranges'[h].length)
           /\ Ranges'[h].kind \in File!Kinds
           /\ Ranges'[h].offset + Ranges'[h].length <= filesize'
      BY <2>5, <2>9 DEF File!Opened, File!Kinds, Kinds
    <2>12. File!OpenRange(h)
      BY <2>6, <2>8, <2>10, <2>11 DEF File!OpenRange, NoIO, File!NoIO
    <2> QED BY <2>12 DEF FileStep, File!Next
  <1> QED BY <1>2, <1>3 DEF Attach

(* CreateStream and CreateView.                                              *)
LEMMA CreateStep ==
  ASSUME StoreDiscipline, DisciplineInv, IInv', NEW k \in Kinds, NEW h \in Handles,
         NEW offset \in Nat, NEW length \in Nat,
         CreateReusing(k, h, offset, length) \/ CreateAdding(k, h, offset, length)
  PROVE  FileStep
  <1> USE CurrentMappings DEF DisciplineInv
  <1>1. /\ LiveStreams = {} /\ disposed' = disposed /\ ~disposed
        /\ virtual[h] = None /\ io' = NoIO /\ filesize \in Nat
    BY DEF CreateReusing, CreateAdding, MayCreate, IInv, TypeOK
  <1>2. CASE CreateReusing(k, h, offset, length)
    <2>1. PICK s \in listed[k] : Attach(k, h, s, offset, length, Mappings)
      BY <1>2 DEF CreateReusing
    <2>2. s \in Slots /\ containers[s] # None
      BY <2>1 DEF IInv, TypeOK, Members
    <2>3. filesize' >= filesize
      BY <1>1, <1>2 DEF CreateReusing
    <2> QED BY <1>1, <2>1, <2>2, <2>3, AttachStep
  <1>3. CASE CreateAdding(k, h, offset, length)
    <2> DEFINE c == MaximizedRange(offset, length, filesize')
               Grown(n) == IF n = 0 THEN Mappings ELSE Grow(Mappings)
    <2>1. PICK n \in 0..MaxFileSize :
            /\ GrowsNeeded(offset + length, n)
            /\ filesize' = filesize + n * GrowBy
            /\ \E s \in {t \in Slots : Grown(n).containers[t] = None} :
                 Attach(k, h, s, offset, length, Add(Grown(n), k, s, c))
      BY <1>3 DEF CreateAdding
    <2>2. PICK s \in Slots : /\ Grown(n).containers[s] = None
                             /\ Attach(k, h, s, offset, length, Add(Grown(n), k, s, c))
      BY <2>1
    <2>3. n * GrowBy \in Nat
      BY MapperAssumption
    <2>4. /\ filesize' \in Nat /\ filesize <= filesize' /\ filesize' >= filesize
          /\ offset + length < filesize'
      BY <1>1, <2>1, <2>3 DEF GrowsNeeded
    <2>5. WellFormed(Grown(n), filesize) /\ SameRanges(Mappings, Grown(n), InUse)
      <3>1. SameRanges(Mappings, Mappings, InUse)
        BY DEF SameRanges
      <3> QED BY <1>1, <3>1, GrowKeeps
    <2>6. WellFormed(Grown(n), filesize')
      BY <1>1, <2>4, <2>5, LargerFile
    <2>7. c \in Container /\ c.min <= c.max /\ c.max <= filesize'
      BY <2>4, MaximizedRangeFits
    <2>8. \A t \in InUse : Grown(n).containers[t] # None
      BY <2>5 DEF SameRanges
    <2>9. /\ WellFormed(Add(Grown(n), k, s, c), filesize')
          /\ SameRanges(Grown(n), Add(Grown(n), k, s, c), InUse)
          /\ Add(Grown(n), k, s, c).containers[s] = c
      BY <2>2, <2>4, <2>6, <2>7, <2>8, AddKeeps
    <2>10. c # None
      BY <2>7, MapperAssumption
    <2>11. \A t \in InUse \cup {s} : Add(Grown(n), k, s, c).containers[t] # None
      BY <2>9, <2>10 DEF SameRanges
    <2> QED BY <1>1, <2>2, <2>4, <2>9, <2>11, AttachStep
  <1> QED BY <1>2, <1>3

(* VirtualStream.Dispose and VirtualView.Dispose close one range.            *)
LEMMA ReleaseStep ==
  ASSUME DisciplineInv, NEW h \in Open, Release(h)
  PROVE  FileStep
  <1> USE CurrentMappings DEF DisciplineInv
  <1> DEFINE rest == {virtual[g].container : g \in Open \ {h}}
  <1>1. /\ h \in Handles /\ virtual'[h] = None
        /\ \A g \in Handles : g # h => virtual'[g] = virtual[g]
        /\ UNCHANGED <<filesize, disposed>> /\ io' = NoIO
    BY DEF Release, Open, IInv, TypeOK
  <1>2. \A g \in Open : g # h => containers'[virtual[g].container]
                                   = containers[virtual[g].container]
    BY DEF Release
  <1>3. \A g \in Open : g # h => RangeOf(g)' = RangeOf(g)
    BY <1>1, <1>2 DEF RangeOf, Cursor, Open
  <1>4. \A g \in Handles : g # h => Ranges'[g] = Ranges[g]
    BY <1>1, <1>3 DEF Ranges, Open
  <1>5. Ranges'[h] = None
    BY <1>1 DEF Ranges
  <1>6. CASE disposed
    <2>1. Ranges' = Ranges
      BY <1>1, <1>6 DEF Ranges
    <2>2. filesize' >= filesize
      BY <1>1 DEF IInv, TypeOK
    <2>3. File!Refuse
      BY <1>1, <2>1, <2>2 DEF File!Refuse, NoIO, File!NoIO
    <2> QED BY <2>3 DEF FileStep, File!Next
  <1>7. CASE ~disposed
    <2>1. Ranges[h] # None
      BY <1>7, RangesAre
    <2>2. Ranges' = [Ranges EXCEPT ![h] = None]
      BY <1>4, <1>5 DEF Ranges
    <2>3. File!CloseRange(h)
      BY <1>1, <2>1, <2>2 DEF File!CloseRange, NoIO, File!NoIO
    <2> QED BY <1>1, <2>3 DEF FileStep, File!Next
  <1> QED BY <1>6, <1>7

(* Dispose closes every range; a new mapper has none open.                   *)
LEMMA ClosingStep ==
  ASSUME DisciplineInv, Dispose \/ Reopen
  PROVE  FileStep
  <1>1. io' = NoIO /\ filesize' = filesize
    BY DEF Dispose, Reopen
  <1>2. Ranges' = [h \in Handles |-> None]
    BY DEF Dispose, Reopen, Ranges
  <1>3. File!CloseFile
    BY <1>1, <1>2 DEF File!CloseFile, NoIO, File!NoIO
  <1> QED BY <1>3 DEF FileStep, File!Next

(* Every step of the mapper is one of the file, or leaves the file alone.    *)
LEMMA NextStep ==
  ASSUME StoreDiscipline
  PROVE  DisciplineInv /\ DisciplineInv' /\ [Next]_vars => [File!Next]_(File!vars)
  <1> SUFFICES ASSUME DisciplineInv, DisciplineInv', [Next]_vars PROVE FileStep
    BY DEF FileStep
  <1> USE CurrentMappings
  <1>i. IInv /\ IInv'
    BY DEF DisciplineInv
  <1>1. ASSUME NEW k \in Kinds, NEW h \in Handles, NEW offset \in Offsets,
               NEW length \in Lengths,
               CreateReusing(k, h, offset, length) \/ CreateAdding(k, h, offset, length)
        PROVE  FileStep
    BY <1>1, <1>i, CreateStep, MapperAssumption
  <1>2. ASSUME NEW h \in Open, NEW count \in Counts,
               \/ StreamWrite(h, count)
               \/ StreamRead(h, count)
               \/ \E origin \in Origins : Seek(h, origin, count)
        PROVE  FileStep
    BY <1>2, StreamWriteStep, StreamReadStep DEF Seek
  <1>3. ASSUME NEW h \in Open, NEW position \in Counts, NEW size \in Counts,
               \/ \E checked \in BOOLEAN : ViewRead(h, position, size, checked)
               \/ ViewWrite(h, position, size)
        PROVE  FileStep
    BY <1>3, ViewTransferStep DEF ViewRead, ViewWrite
  <1>4. ASSUME NEW h \in Open, Release(h)
        PROVE  FileStep
    BY <1>4, ReleaseStep
  <1>5. CASE Flush
    <2>1. PICK visited \in SUBSET Walked :
            Become(ClearUnusedMappings(
              Visit(visited, [s \in visited |-> Map(containers[s])]), {}))
      BY <1>5 DEF Flush
    <2>2. SamePlaces(Mappings, ClearUnusedMappings(
            Visit(visited, [s \in visited |-> Map(containers[s])]), {}))
      BY <1>i, FlushMoves
    <2> QED BY <1>5, <1>i, <2>1, <2>2, RefusedStep DEF Flush
  <1>6. CASE Dispose \/ Reopen
    BY <1>6, ClosingStep
  <1>7. CASE UNCHANGED vars
    <2>1. \A h \in Open : RangeOf(h)' = RangeOf(h)
      BY <1>7 DEF vars, RangeOf, Cursor
    <2>2. Ranges' = Ranges
      BY <1>7, <2>1 DEF vars, Ranges, Open
    <2> QED BY <1>7, <2>2 DEF vars, FileStep, File!vars
  <1> QED BY <1>1, <1>2, <1>3, <1>4, <1>5, <1>6, <1>7 DEF Next

(* MemoryMapper used as FileStoreManager uses it is a growing file with      *)
(* independent open ranges, for every size, growth, widening and failure.    *)
THEOREM MapperImplementsMappedFile ==
  ASSUME StoreDiscipline
  PROVE  Spec => ImplementsMappedFile
  <1>1. Init => File!Init
    <2> SUFFICES ASSUME Init PROVE File!Init
      OBVIOUS
    <2>1. filesize \in Nat
      BY MapperAssumption DEF Init
    <2>2. Ranges = [h \in Handles |-> None]
      BY DEF Init, Ranges
    <2> QED BY <2>1, <2>2 DEF Init, File!Init, NoIO, File!NoIO
  <1>2. Init => DisciplineInv
    BY InitDiscipline
  <1>3. DisciplineInv /\ [Next]_vars => DisciplineInv'
    BY NextDiscipline
  <1>4. DisciplineInv /\ DisciplineInv' /\ [Next]_vars => [File!Next]_(File!vars)
    BY NextStep
  <1> QED BY <1>1, <1>2, <1>3, <1>4, PTL DEF Spec, ImplementsMappedFile, File!Spec
=============================================================================
