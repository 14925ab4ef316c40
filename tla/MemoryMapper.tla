---------------------------- MODULE MemoryMapper ----------------------------
(***************************************************************************)
(* MemoryMappedFileDemo/FileStore/Mapper: a file that grows on demand, the *)
(* mappings (containers) that cover ranges of it, and the VirtualStreams   *)
(* and VirtualViews handed to callers, which share the containers.         *)
(*                                                                         *)
(* MemoryMapper has no locks and no threads: each public call is one       *)
(* action.  What makes it hard is the state the objects share behind the   *)
(* caller's back: the stream position of a container, the lazily created   *)
(* mappings, and Grow and ClearUnusedMappings running inside other calls.  *)
(***************************************************************************)
EXTENDS Integers, FiniteSets

CONSTANTS
  Slots,           \* identities of container objects; bounds how many coexist
  Handles,         \* identities of VirtualStream / VirtualView objects
  None,            \* an unused slot or handle
  InitialSize,     \* length of the file the mapper opens
  GrowBy,          \* m_grow_by
  MaximizeRange,   \* m_maximize_range
  MaxFileSize,     \* bound on filesize
  Offsets,         \* offsets and lengths callers ask for
  Lengths,
  Counts,          \* byte counts of one transfer, and seek distances
  AllocMayFail,    \* CreateViewStream / CreateViewAccessor may throw IOException
  StoreDiscipline  \* callers use the mapper the way FileStoreManager does

Kinds == {"stream", "view"}

(* MemoryMappedStreamContainer and MemoryMappedViewContainer: the range they *)
(* cover, whether the lazy Stream/View exists, and the Position of the       *)
(* underlying stream, relative to min (views have none: it stays 0).         *)
Container == [min : Nat, max : Nat, mapped : BOOLEAN, position : Int]

Virtual == [kind : Kinds, container : Slots, offset : Nat, length : Nat]

ASSUME MapperAssumption ==
  /\ MaximizeRange \in Nat /\ MaxFileSize \in Nat
  /\ InitialSize \in Nat \ {0} /\ GrowBy \in Nat \ {0}
  /\ Offsets \subseteq Nat /\ Lengths \subseteq Nat /\ Counts \subseteq Nat
  /\ AllocMayFail \in BOOLEAN /\ StoreDiscipline \in BOOLEAN
  /\ None \notin Container \cup Virtual

Origins == {"begin", "current", "end"}

VARIABLES
  filesize,    \* m_filesize
  containers,  \* slot -> the container object in it
  listed,      \* the containers in m_streams and in m_views
  before,      \* their list order: <<s, t>> when s stands before t
  virtual,     \* handle -> the VirtualStream or VirtualView a caller holds
  disposed,    \* MemoryMapper.Dispose was called
  io           \* the bytes of the file the last transfer touched

vars == <<filesize, containers, listed, before, virtual, disposed, io>>

NoIO == [op |-> "none", offset |-> 0, length |-> 0, low |-> 0, high |-> 0]

-----------------------------------------------------------------------------
(* The mappings of the mapper, as a value that calls pass through.          *)

Mappings ==
  [containers |-> containers, listed |-> listed, before |-> before]

Members(lists) == UNION {lists[k] : k \in Kinds}

Open == {h \in Handles : virtual[h] # None}

LiveStreams == {h \in Open : virtual[h].kind = "stream"}

(* Containers whose MappedStreams or MappedViews is not empty. *)
InUse == {virtual[h].container : h \in Open}

Unmap(c) == [min |-> c.min, max |-> c.max, mapped |-> FALSE, position |-> 0]

Map(c) == [min |-> c.min, max |-> c.max, mapped |-> TRUE, position |-> c.position]

Positioned(c, p) == [min |-> c.min, max |-> c.max, mapped |-> c.mapped, position |-> p]

Replace(m, s, c) ==
  [containers |-> [m.containers EXCEPT ![s] = c],
   listed     |-> m.listed,
   before     |-> m.before]

OnlyInUse(lists) == [k \in Kinds |-> lists[k] \cap InUse]

(* Mutant: cleanup also unmaps containers in use. *)
ClearAllMappings(m, held) ==
  [containers |-> [s \in Slots |-> IF s \in InUse \cup held
                                   THEN Unmap(m.containers[s]) ELSE None],
   listed     |-> OnlyInUse(m.listed),
   before     |-> m.before \cap (InUse \X InUse)]

(* Containers without users are unmapped and leave the lists.  held: the     *)
(* container the caller is working on, alive even when nothing lists it.     *)
ClearUnusedMappings(m, held) ==
  [containers |-> [s \in Slots |-> IF s \in InUse \cup held
                                   THEN m.containers[s] ELSE None],
   listed     |-> OnlyInUse(m.listed),
   before     |-> m.before \cap (InUse \X InUse)]

(* Grow unmaps every container in the lists, used or not, and drops the      *)
(* unused ones.  A container in no list keeps its mapping.  Growth succeeds. *)
Grow(m) ==
  [containers |-> [s \in Slots |->
                     IF s \notin Members(m.listed) THEN m.containers[s]
                     ELSE IF s \in InUse THEN Unmap(m.containers[s])
                     ELSE None],
   listed     |-> OnlyInUse(m.listed),
   before     |-> m.before \cap (InUse \X InUse)]

(* m_streams.Add, m_views.Add *)
Add(m, k, s, container) ==
  [containers |-> [m.containers EXCEPT ![s] = container],
   listed     |-> [m.listed EXCEPT ![k] = m.listed[k] \cup {s}],
   before     |-> m.before \cup (m.listed[k] \X {s})]

(* GetMaximizedRange: grow until the range ends strictly before the end of   *)
(* the file, then widen it by MaximizeRange within the file.                 *)
GrowsNeeded(end, n) ==
  /\ end < filesize + n * GrowBy
  /\ n > 0 => end >= filesize + (n - 1) * GrowBy

(* Mutant: the range is cut at the end of the file before it is widened. *)
MaximizedRangeUncut(offset, length, size) ==
  [min      |-> IF offset < MaximizeRange THEN 0 ELSE offset - MaximizeRange,
   max      |-> IF offset + length > size
                THEN size ELSE offset + length + MaximizeRange,
   mapped   |-> FALSE,
   position |-> 0]

MaximizedRange(offset, length, size) ==
  [min      |-> IF offset < MaximizeRange THEN 0 ELSE offset - MaximizeRange,
   max      |-> IF offset + length + MaximizeRange > size
                THEN size ELSE offset + length + MaximizeRange,
   mapped   |-> FALSE,
   position |-> 0]

Contains(c, offset, length) == c.min <= offset /\ offset + length <= c.max

(* Mutant: only the start of the range is looked up. *)
IsFirstByStart(k, s, offset, length) ==
  /\ Contains(containers[s], offset, 0)
  /\ \A t \in listed[k] : <<t, s>> \in before => ~Contains(containers[t], offset, 0)

IsFirstByRange(k, s, offset, length) ==
  /\ Contains(containers[s], offset, length)
  /\ \A t \in listed[k] : <<t, s>> \in before => ~Contains(containers[t], offset, length)

(* The lazy Stream and View getters: up to four attempts, the unused         *)
(* mappings cleared after each failure but the last, which throws.           *)
Attempts(m, s) ==
  IF m.containers[s].mapped \/ ~AllocMayFail
  THEN {"first"} ELSE {"first", "later", "throws"}

Touch(m, s, attempt) ==
  LET cleared == IF attempt = "first" THEN m ELSE ClearUnusedMappings(m, {s})
  IN  IF attempt = "throws" THEN cleared
      ELSE Replace(cleared, s, Map(cleared.containers[s]))

Become(m) ==
  /\ containers' = m.containers
  /\ listed' = m.listed
  /\ before' = m.before

-----------------------------------------------------------------------------
(* CreateStream and CreateView.                                             *)

MayCreate(h) ==
  /\ ~disposed
  /\ virtual[h] = None
  /\ StoreDiscipline => LiveStreams = {}

Handle(k, s, offset, length) ==
  [kind |-> k, container |-> s, offset |-> offset, length |-> length]

(* Mutant: an absolute position for the underlying stream. *)
StartPositionAbsolute(c, offset) == offset

StartPosition(c, offset) == offset - c.min

(* new VirtualView(..) only records its arguments.  new VirtualStream(..)    *)
(* positions the underlying stream, hence creates it, before the caller adds *)
(* itself to MappedStreams: until then the container counts as unused.       *)
Attach(k, h, s, offset, length, m) ==
  \/ /\ k = "view"
     /\ Become(m)
     /\ virtual' = [virtual EXCEPT ![h] = Handle(k, s, offset, length)]
  \/ /\ k = "stream"
     /\ \E attempt \in Attempts(m, s) \ {"throws"} :
          LET t == Touch(m, s, attempt)
          IN  Become(Replace(t, s, Positioned(t.containers[s],
                                               StartPosition(t.containers[s], offset))))
     /\ virtual' = [virtual EXCEPT ![h] = Handle(k, s, offset, length)]
  \/ /\ k = "stream"
     /\ "throws" \in Attempts(m, s)
     /\ Become(ClearUnusedMappings(m, {}))
     /\ UNCHANGED virtual

CreateReusing(k, h, offset, length) ==
  /\ MayCreate(h)
  /\ \E s \in listed[k] :
       /\ IsFirstByRange(k, s, offset, length)
       /\ Attach(k, h, s, offset, length, Mappings)
  /\ io' = NoIO
  /\ UNCHANGED <<filesize, disposed>>

CreateAdding(k, h, offset, length) ==
  /\ MayCreate(h)
  /\ \A s \in listed[k] : ~IsFirstByRange(k, s, offset, length)
  /\ \E n \in 0..MaxFileSize :
       /\ GrowsNeeded(offset + length, n)
       /\ filesize + n * GrowBy <= MaxFileSize
       /\ filesize' = filesize + n * GrowBy
       /\ LET m == IF n = 0 THEN Mappings ELSE Grow(Mappings)
          IN  \E s \in {t \in Slots : m.containers[t] = None} :
                Attach(k, h, s, offset, length,
                  Add(m, k, s, MaximizedRange(offset, length, filesize')))
  /\ io' = NoIO
  /\ UNCHANGED disposed

-----------------------------------------------------------------------------
(* Calls on VirtualStream.                                                  *)

(* The Position getter: VirtualStream subtracts the start of its container   *)
(* where the address of the byte would add it.                               *)
PositionOf(h, position) ==
  position - virtual[h].offset - containers[virtual[h].container].min

(* Where the next transfer really starts, relative to the virtual stream. *)
Cursor(h) ==
  LET c == containers[virtual[h].container]
  IN  c.min + c.position - virtual[h].offset

Remaining(h) == virtual[h].length - Cursor(h)

Record(op, h, low, count) ==
  io' = [op |-> op, offset |-> virtual[h].offset,
         length |-> virtual[h].length, low |-> low, high |-> low + count]

StreamWrite(h, count) ==
  LET s == virtual[h].container
      c == containers[s]
  IN  /\ ~disposed /\ h \in LiveStreams
      /\ StoreDiscipline => count <= Remaining(h)
      /\ \E attempt \in Attempts(Mappings, s) :
           LET t      == Touch(Mappings, s, attempt)
               writes == /\ attempt # "throws"
                         /\ PositionOf(h, c.position) + count <= virtual[h].length
                         /\ c.position + count <= c.max - c.min
           IN  \/ /\ writes
                  /\ Become(Replace(t, s, Positioned(t.containers[s], c.position + count)))
                  /\ Record("streamwrite", h, c.min + c.position, count)
               \/ /\ ~writes
                  /\ Become(t)
                  /\ io' = NoIO
      /\ UNCHANGED <<filesize, virtual, disposed>>

(* Read shortens count to the end of the virtual stream as it sees it; the   *)
(* underlying stream rejects a negative count and stops at its own end.      *)
StreamRead(h, count) ==
  LET s     == virtual[h].container
      c     == containers[s]
      left  == virtual[h].length - PositionOf(h, c.position)
      asked == IF count > left THEN left ELSE count
      room  == IF c.position > c.max - c.min THEN 0 ELSE c.max - c.min - c.position
      got   == IF asked > room THEN room ELSE asked
  IN  /\ ~disposed /\ h \in LiveStreams
      /\ StoreDiscipline => count <= Remaining(h)
      /\ \E attempt \in Attempts(Mappings, s) :
           LET t     == Touch(Mappings, s, attempt)
               reads == attempt # "throws" /\ asked >= 0
           IN  \/ /\ reads
                  /\ Become(Replace(t, s, Positioned(t.containers[s], c.position + got)))
                  /\ Record("streamread", h, c.min + c.position, got)
               \/ /\ ~reads
                  /\ Become(t)
                  /\ io' = NoIO
      /\ UNCHANGED <<filesize, virtual, disposed>>

SeekTarget(h, origin, distance) ==
  CASE origin = "begin"   -> distance
    [] origin = "current" -> PositionOf(h, containers[virtual[h].container].position)
                               + distance
    [] origin = "end"     -> virtual[h].length - distance

(* Seek and the Position setter.  The underlying stream rejects a negative   *)
(* position and accepts one past its end.                                    *)
Seek(h, origin, distance) ==
  LET s      == virtual[h].container
      c      == containers[s]
      value  == SeekTarget(h, origin, distance)
      target == value + virtual[h].offset + c.min
  IN  /\ ~disposed /\ h \in LiveStreams /\ ~StoreDiscipline
      /\ \E attempt \in Attempts(Mappings, s) :
           LET t     == Touch(Mappings, s, attempt)
               moves == /\ attempt # "throws"
                        /\ value - c.min <= virtual[h].length
                        /\ target >= 0
           IN  \/ /\ moves
                  /\ Become(Replace(t, s, Positioned(t.containers[s], target)))
                  /\ Record("seek", h, c.min + target, 0)
               \/ /\ ~moves
                  /\ Become(t)
                  /\ io' = NoIO
      /\ UNCHANGED <<filesize, virtual, disposed>>

-----------------------------------------------------------------------------
(* Calls on VirtualView.  Read<T> and ReadStruct check the capacity of the   *)
(* view; ReadByte and its like and every Write do not.  The accessor under   *)
(* them checks the end of the container.                                     *)

ViewTransfer(op, h, position, size, checked) ==
  LET s        == virtual[h].container
      c        == containers[s]
      relative == virtual[h].offset - c.min + position
  IN  /\ ~disposed /\ h \in Open \ LiveStreams
      /\ StoreDiscipline => position + size <= virtual[h].length
      /\ \E attempt \in Attempts(Mappings, s) :
           LET t         == Touch(Mappings, s, attempt)
               transfers == /\ attempt # "throws"
                            /\ checked => position + size <= virtual[h].length
                            /\ relative + size <= c.max - c.min
           IN  /\ Become(t)
               /\ \/ transfers  /\ Record(op, h, c.min + relative, size)
                  \/ ~transfers /\ io' = NoIO
      /\ UNCHANGED <<filesize, virtual, disposed>>

ViewRead(h, position, size, checked) ==
  ViewTransfer("viewread", h, position, size, checked)

ViewWrite(h, position, size) ==
  ViewTransfer("viewwrite", h, position, size, FALSE)

-----------------------------------------------------------------------------
(* VirtualStream.Dispose, VirtualView.Dispose: leave the container's users.  *)
(* The container stays mapped and listed; one in no list becomes garbage.    *)
Release(h) ==
  LET rest == {virtual[g].container : g \in Open \ {h}}
  IN  /\ h \in Open
      /\ virtual' = [virtual EXCEPT ![h] = None]
      /\ containers' = [s \in Slots |-> IF s \in rest \cup Members(listed)
                                        THEN containers[s] ELSE None]
      /\ io' = NoIO
      /\ UNCHANGED <<filesize, listed, before, disposed>>

(* Flush and Dispose walk m_streams, then m_views, and touch the lazy        *)
(* mapping of each container.  A walk visits a prefix of the lists; it stops *)
(* early when the next mapping cannot be created, or when a retry removed    *)
(* unused containers from the list being enumerated ("Collection modified"). *)
Walked == Members(listed)

IsVisited(visited) ==
  /\ \A s \in visited, t \in Slots : <<t, s>> \in before => t \in visited
  /\ visited \cap listed["view"] # {} => listed["stream"] \subseteq visited

Unmapped(s) == ~containers[s].mapped

Loses(s) == \E k \in Kinds : s \in listed[k] /\ ~(listed[k] \subseteq InUse)

StopsAfter(visited) ==
  \/ visited = Walked
  \/ /\ AllocMayFail
     /\ \/ \E s \in Walked \ visited : IsVisited(visited \cup {s}) /\ Unmapped(s)
        \/ \E s \in visited : IsVisited(visited \ {s}) /\ Unmapped(s) /\ Loses(s)

Visit(visited, c) ==
  [containers |-> [s \in Slots |-> IF s \in visited THEN c[s] ELSE containers[s]],
   listed     |-> listed,
   before     |-> before]

Flush ==
  /\ ~disposed
  /\ \E visited \in SUBSET Walked :
       /\ IsVisited(visited) /\ StopsAfter(visited)
       /\ Become(ClearUnusedMappings(
            Visit(visited, [s \in visited |-> Map(containers[s])]), {}))
  /\ io' = NoIO
  /\ UNCHANGED <<filesize, virtual, disposed>>

(* A walk cut short has cleared the unused mappings first. *)
Dispose ==
  /\ ~disposed
  /\ disposed' = TRUE
  /\ \E visited \in SUBSET Walked :
       /\ IsVisited(visited) /\ StopsAfter(visited)
       /\ LET m == Visit(visited, [s \in visited |-> Unmap(containers[s])])
          IN  Become(IF visited = Walked THEN m ELSE ClearUnusedMappings(m, {}))
  /\ io' = NoIO
  /\ UNCHANGED <<filesize, virtual>>

(* A later MemoryMapper on the same file; the old handles are forgotten. *)
Reopen ==
  /\ disposed
  /\ containers' = [s \in Slots |-> None]
  /\ listed' = [k \in Kinds |-> {}]
  /\ before' = {}
  /\ virtual' = [h \in Handles |-> None]
  /\ disposed' = FALSE
  /\ io' = NoIO
  /\ UNCHANGED filesize

-----------------------------------------------------------------------------
(* ReadFileSize: an existing file has some length, a missing one is created  *)
(* with length GrowBy.                                                       *)
Init ==
  /\ filesize \in {InitialSize, GrowBy}
  /\ containers = [s \in Slots |-> None]
  /\ listed = [k \in Kinds |-> {}]
  /\ before = {}
  /\ virtual = [h \in Handles |-> None]
  /\ disposed = FALSE
  /\ io = NoIO

Next ==
  \/ \E k \in Kinds, h \in Handles, offset \in Offsets, length \in Lengths :
       \/ CreateReusing(k, h, offset, length)
       \/ CreateAdding(k, h, offset, length)
  \/ \E h \in Open :
       \/ \E count \in Counts :
            \/ StreamWrite(h, count)
            \/ StreamRead(h, count)
            \/ \E origin \in Origins : Seek(h, origin, count)
       \/ \E position \in Counts, size \in Counts :
            \/ \E checked \in BOOLEAN : ViewRead(h, position, size, checked)
            \/ ViewWrite(h, position, size)
       \/ Release(h)
  \/ Flush
  \/ Dispose
  \/ Reopen

Spec == Init /\ [][Next]_vars

-----------------------------------------------------------------------------
(* Types of the variables; every handle's container exists.                 *)
TypeOK ==
  /\ filesize \in Nat
  /\ containers \in [Slots -> Container \cup {None}]
  /\ listed \in [Kinds -> SUBSET Slots]
  /\ before \subseteq Slots \X Slots
  /\ virtual \in [Handles -> Virtual \cup {None}]
  /\ disposed \in BOOLEAN
  /\ \A s \in InUse \cup Members(listed) : containers[s] # None

(* Every mapping lies inside the file, so that CreateViewStream and          *)
(* CreateViewAccessor are never asked for bytes past its end, whatever the   *)
(* order of growth, cleanup and reuse (GetMaximizedRange, Grow).             *)
RangesWithinFile ==
  \A s \in Slots : containers[s] # None =>
    /\ containers[s].min <= containers[s].max
    /\ containers[s].max <= filesize

(* A caller's range lies inside the container it was given, for as long as   *)
(* it holds it: containers are shared and survive Grow, ranges never move.   *)
HandlesInsideContainers ==
  \A h \in Open :
    Contains(containers[virtual[h].container], virtual[h].offset, virtual[h].length)

(* Only growing the file may take the mapping away from under a container    *)
(* in use: cleanup after a failed allocation and Flush must not.             *)
OnlyGrowthUnmapsUsed ==
  [][\A s \in InUse :
       (containers[s].mapped /\ ~disposed') =>
         \/ containers'[s] # None /\ containers'[s].mapped
         \/ s \notin InUse'
         \/ filesize' > filesize]_vars
=============================================================================
