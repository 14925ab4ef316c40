----------------------------- MODULE FileStore -----------------------------
(***************************************************************************)
(* MemoryMappedFileDemo/FileStore/FileStoreManager: documents in a data    *)
(* file, one fixed-size entry per document in a table file, and a header   *)
(* in each file that says where its last byte is.                          *)
(*                                                                         *)
(* Both files are memory mapped: what was written survives the death of    *)
(* the process (not of the machine), what was only in memory does not.     *)
(* PushEntry is one step per write that survives, so that a crash or an    *)
(* exception can come between any two of them.  The mapper below is the    *)
(* MappedFile that MapperRefinement shows MemoryMapper to be.              *)
(***************************************************************************)
EXTENDS Integers, Sequences, FiniteSets

CONSTANTS
  Ids,            \* Guids
  Values,         \* documents
  Size,           \* Size[v]: bytes of the serialized document v
  None,
  HeaderLength,   \* FileStructure.StructureLength
  EntryLength,    \* LogicalEntry.StructureLength
  MaxData,        \* bound on the data file
  MaxEntries,     \* bound on the entries of the table file
  FreshIds,       \* callers never push an id the store already knows
  MayFail         \* a mapping cannot be created: PushEntry throws midway

Entry == [id : Ids, offset : Nat, length : Nat]

ASSUME StoreAssumption ==
  /\ Size \in [Values -> Nat \ {0}]
  /\ HeaderLength \in Nat \ {0} /\ EntryLength \in Nat \ {0}
  /\ HeaderLength <= EntryLength
  /\ MaxData \in Nat /\ MaxEntries \in Nat
  /\ FreshIds \in BOOLEAN /\ MayFail \in BOOLEAN
  /\ None \notin Values /\ None \notin Nat /\ None \notin Entry

VARIABLES
  data,         \* data file: offset -> <<document, index of the byte in it>>
  dataHeader,   \* LastByte in the header of the data file, None before it is set
  table,        \* table file: offset -> the LogicalEntry that starts there
  tableHeader,  \* LastByte in the header of the table file
  session,      \* "closed", "open", "failed": the constructor threw
  dataLast,     \* m_datafilestructure.LastByte
  tableLast,    \* m_datatablefilestructure.LastByte
  entries,      \* m_allentries
  index,        \* m_allentriesDictionary
  step,         \* the next write of the PushEntry or Delete in progress;
                \* "idle" or "threw" when there is none
  pending       \* the LogicalEntry of that PushEntry

files == <<data, dataHeader, table, tableHeader>>

memory == <<session, dataLast, tableLast, entries, index, step, pending>>

vars == <<files, memory>>

DataBytes == 0..(MaxData - 1)

TableBytes == 0..(HeaderLength + MaxEntries * EntryLength)

Blank == [b \in DataBytes |-> None]

NoEntries == [b \in TableBytes |-> None]

NoIndex == [id \in Ids |-> None]

(* MaintainHeaders: a header without the signature starts after itself. *)
LastByte(header) == IF header = None THEN HeaderLength ELSE header

(* GetEntries reads at location, counted from the end of the header, while   *)
(* location + EntryLength < LastByte.                                        *)
Locations(last) ==
  {k \in 1..MaxEntries : (k - 1) * EntryLength + EntryLength < last}

EntriesUpTo(last) ==
  [k \in 1..Cardinality(Locations(last)) |->
     table[HeaderLength + (k - 1) * EntryLength]]

DistinctIds(s) ==
  \A i, j \in DOMAIN s : i # j => s[i].id # s[j].id

(* ToDictionary over the entries read. *)
IndexOf(s) ==
  [id \in Ids |-> IF \E i \in DOMAIN s : s[i].id = id
                  THEN s[CHOOSE i \in DOMAIN s : s[i].id = id] ELSE None]

(* The bytes v takes at offset, the first n of them. *)
Written(v, offset, n) ==
  [b \in DataBytes |-> IF b \in offset..(offset + n - 1)
                       THEN <<v, b - offset>> ELSE data[b]]

Forget ==
  /\ dataLast' = 0 /\ tableLast' = 0
  /\ entries' = <<>> /\ index' = NoIndex
  /\ step' = "idle" /\ pending' = None

(* No call is in progress. *)
Ready == session = "open" /\ step \in {"idle", "threw"}

-----------------------------------------------------------------------------
(* The constructor: both headers are read, set if they were not, and written *)
(* back (the same bytes, or the initial ones), then the entries are read.    *)
Open ==
  /\ session # "open"
  /\ dataHeader' = LastByte(dataHeader)
  /\ tableHeader' = LastByte(tableHeader)
  /\ LET read == EntriesUpTo(tableHeader')
     IN  \/ /\ DistinctIds(read)
            /\ session' = "open"
            /\ dataLast' = dataHeader' /\ tableLast' = tableHeader'
            /\ entries' = read /\ index' = IndexOf(read)
            /\ step' = "idle" /\ pending' = None
         \/ /\ ~DistinctIds(read)
            /\ session' = "failed"
            /\ Forget
  /\ UNCHANGED <<data, table>>

(* PushEntry, the four writes in their order. *)

(* Mutant: LastByte of the data file is not advanced. *)
WriteDataInPlace(id, v) ==
  /\ Ready
  /\ FreshIds => index[id] = None
  /\ dataLast + Size[v] <= MaxData
  /\ data' = Written(v, dataLast, Size[v])
  /\ pending' = [id |-> id, offset |-> dataLast, length |-> Size[v]]
  /\ step' = "entry"
  /\ UNCHANGED <<dataHeader, table, tableHeader, session, dataLast, tableLast, entries, index>>

WriteData(id, v) ==
  /\ Ready
  /\ FreshIds => index[id] = None
  /\ dataLast + Size[v] <= MaxData
  /\ data' = Written(v, dataLast, Size[v])
  /\ dataLast' = dataLast + Size[v]
  /\ pending' = [id |-> id, offset |-> dataLast, length |-> Size[v]]
  /\ step' = "entry"
  /\ UNCHANGED <<dataHeader, table, tableHeader, session, tableLast, entries, index>>

(* Mutant: LastByte of the table file is not advanced. *)
WriteEntryInPlace ==
  /\ step = "entry"
  /\ tableLast + EntryLength <= HeaderLength + MaxEntries * EntryLength
  /\ table' = [table EXCEPT ![tableLast] = pending]
  /\ entries' = Append(entries, pending)
  /\ index' = [index EXCEPT ![pending.id] = pending]
  /\ step' = "dataHeader"
  /\ UNCHANGED <<data, dataHeader, tableHeader, session, dataLast, tableLast, pending>>

(* Mutant: the dictionary is not told. *)
WriteEntryUnindexed ==
  /\ step = "entry"
  /\ tableLast + EntryLength <= HeaderLength + MaxEntries * EntryLength
  /\ table' = [table EXCEPT ![tableLast] = pending]
  /\ tableLast' = tableLast + EntryLength
  /\ entries' = Append(entries, pending)
  /\ step' = "dataHeader"
  /\ UNCHANGED <<data, dataHeader, tableHeader, session, dataLast, index, pending>>

WriteEntry ==
  /\ step = "entry"
  /\ tableLast + EntryLength <= HeaderLength + MaxEntries * EntryLength
  /\ table' = [table EXCEPT ![tableLast] = pending]
  /\ tableLast' = tableLast + EntryLength
  /\ entries' = Append(entries, pending)
  /\ index' = [index EXCEPT ![pending.id] = pending]
  /\ step' = "dataHeader"
  /\ UNCHANGED <<data, dataHeader, tableHeader, session, dataLast, pending>>

(* Mutant: the data file's header is not written back. *)
SkipDataHeader ==
  /\ step = "dataHeader"
  /\ step' = "tableHeader"
  /\ UNCHANGED <<files, session, dataLast, tableLast, entries, index, pending>>

WriteDataHeader ==
  /\ step = "dataHeader"
  /\ dataHeader' = dataLast
  /\ step' = "tableHeader"
  /\ UNCHANGED <<data, table, tableHeader, session, dataLast, tableLast,
                 entries, index, pending>>

(* Mutant: the table file's header is not written back. *)
SkipTableHeader ==
  /\ step = "tableHeader"
  /\ step' = "idle"
  /\ pending' = None
  /\ UNCHANGED <<files, session, dataLast, tableLast, entries, index>>

WriteTableHeader ==
  /\ step = "tableHeader"
  /\ tableHeader' = tableLast
  /\ step' = "idle"
  /\ pending' = None
  /\ UNCHANGED <<data, dataHeader, table, session, dataLast, tableLast,
                 entries, index>>

(* The write the push is at fails: PushEntry throws, what was done stays. *)
PushThrows ==
  /\ MayFail
  /\ step \in {"entry", "dataHeader", "tableHeader"}
  /\ step' = "threw"
  /\ pending' = None
  /\ UNCHANGED <<files, session, dataLast, tableLast, entries, index>>

(* Dispose writes nothing: it only lets go of the files. *)
Dispose ==
  /\ Ready
  /\ session' = "closed"
  /\ Forget
  /\ UNCHANGED files

(* The process dies between two writes, of a push: a Delete that is cut      *)
(* short is left out.                                                        *)
Crash ==
  /\ session = "open"
  /\ step # "deleting"
  /\ session' = "closed"
  /\ Forget
  /\ UNCHANGED files

(* CopyTo got n bytes of the document across when the process died ... *)
CrashInCopy(v, n) ==
  /\ Ready
  /\ n < Size[v] /\ dataLast + n <= MaxData
  /\ data' = Written(v, dataLast, n)
  /\ session' = "closed"
  /\ Forget
  /\ UNCHANGED <<dataHeader, table, tableHeader>>

(* ... or when it threw. *)
CopyThrows(v, n) ==
  /\ MayFail
  /\ Ready
  /\ n < Size[v] /\ dataLast + n <= MaxData
  /\ data' = Written(v, dataLast, n)
  /\ step' = "threw"
  /\ UNCHANGED <<dataHeader, table, tableHeader, session, dataLast, tableLast,
                 entries, index, pending>>

(* Delete: the data file first, then the table file. *)
DeleteData ==
  /\ Ready
  /\ data' = Blank
  /\ dataHeader' = None
  /\ step' = "deleting"
  /\ UNCHANGED <<table, tableHeader, session, dataLast, tableLast, entries,
                 index, pending>>

DeleteTable ==
  /\ step = "deleting"
  /\ table' = NoEntries
  /\ tableHeader' = None
  /\ session' = "closed"
  /\ Forget
  /\ UNCHANGED <<data, dataHeader>>

Init ==
  /\ data = Blank /\ dataHeader = None
  /\ table = NoEntries /\ tableHeader = None
  /\ session = "closed"
  /\ dataLast = 0 /\ tableLast = 0
  /\ entries = <<>> /\ index = NoIndex
  /\ step = "idle" /\ pending = None

Next ==
  \/ Open
  \/ \E id \in Ids, v \in Values : WriteData(id, v)
  \/ WriteEntry
  \/ WriteDataHeader
  \/ WriteTableHeader
  \/ PushThrows
  \/ Dispose
  \/ Crash
  \/ \E v \in Values : \E n \in 0..Size[v] : CrashInCopy(v, n) \/ CopyThrows(v, n)
  \/ DeleteData
  \/ DeleteTable

Spec == Init /\ [][Next]_vars

-----------------------------------------------------------------------------
(* GetEntry of entry e: the document whose bytes the data file holds there, *)
(* or None when Deserialize would not find one.                             *)
Holds(e, v) ==
  /\ e.length = Size[v]
  /\ \A i \in 0..(e.length - 1) : data[e.offset + i] = <<v, i>>

Document(e) ==
  IF e # None /\ \E v \in Values : Holds(e, v)
  THEN CHOOSE v \in Values : Holds(e, v) ELSE None

(* The entries the next session would find. *)
Persisted == EntriesUpTo(LastByte(tableHeader))

TypeOK ==
  /\ data \in [DataBytes -> (Values \X Nat) \cup {None}]
  /\ table \in [TableBytes -> Entry \cup {None}]
  /\ dataHeader \in Nat \cup {None} /\ tableHeader \in Nat \cup {None}
  /\ session \in {"closed", "open", "failed"}
  /\ dataLast \in Nat /\ tableLast \in Nat
  /\ entries \in Seq(Entry)
  /\ index \in [Ids -> Entry \cup {None}]
  /\ step \in {"idle", "threw", "entry", "dataHeader", "tableHeader", "deleting"}
  /\ pending \in Entry \cup {None}

(* Every entry of a session names the bytes of a whole document, and no two  *)
(* name the same bytes: pushes that threw, crashed or were cut short never   *)
(* let a later push write over a document.                                   *)
EntriesIntact ==
  (session = "open" /\ step # "deleting") =>
    /\ \A i \in DOMAIN entries : Document(entries[i]) # None
    /\ \A i, j \in DOMAIN entries : i < j =>
         entries[i].offset + entries[i].length <= entries[j].offset

(* Should the process die now, every entry the next session reads names a    *)
(* whole document that lies below the data header, where the next push will  *)
(* start: the header of the data file is never behind the table's.           *)
CrashSafe ==
  step # "deleting" =>
    \A k \in DOMAIN Persisted :
      /\ Persisted[k] # None
      /\ Document(Persisted[k]) # None
      /\ Persisted[k].offset + Persisted[k].length <= LastByte(dataHeader)

(* GetEntries finds as many entries as PushEntry counted, no more and no     *)
(* fewer: its loop compares a location counted from the end of the header    *)
(* with a LastByte counted from the start of the file.                       *)
AllEntriesRead ==
  session = "open" => HeaderLength + Len(entries) * EntryLength = tableLast

(* The constructor refuses two entries with one id.  Callers that ask the    *)
(* session whether it knows an id never bring that about: no push that threw *)
(* or crashed leaves an entry in the table that the session forgets.  (A     *)
(* push that is repeated with the same id does.)                             *)
CanReopen == session # "failed"
=============================================================================
