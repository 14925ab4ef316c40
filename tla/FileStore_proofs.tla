--------------------------- MODULE FileStore_proofs ---------------------------
(* Proofs about FileStore, for any documents, sizes and lengths.              *)
EXTENDS StoreRefinement, FiniteSetTheorems, TLAPS

(* Where the entry after the first k starts in the table file. *)
Loc(k) == HeaderLength + k * EntryLength

Row(k) == table[Loc(k - 1)]

End(e) == e.offset + e.length

Whole(e) == e \in Entry /\ End(e) <= MaxData /\ \E v \in Values : Holds(e, v)

(* The files alone: n entries, all of whole documents, one after the other   *)
(* and below the data header.                                                *)
Saved(n) ==
  /\ LastByte(tableHeader) = Loc(n)
  /\ \A k \in 1..n : Whole(Row(k)) /\ End(Row(k)) <= LastByte(dataHeader)
  /\ \A j, k \in 1..n : j < k => End(Row(j)) <= Row(k).offset

(* The session: its entries are what is in the table file, saved or not yet, *)
(* below where it writes next.                                               *)
InMemory ==
  /\ Len(entries) <= MaxEntries
  /\ LastByte(dataHeader) <= dataLast
  /\ \A k \in 1..Len(entries) :
       entries[k] = Row(k) /\ Whole(entries[k]) /\ End(entries[k]) <= dataLast
  /\ \A j, k \in 1..Len(entries) : j < k => End(entries[j]) <= entries[k].offset

AtEntry ==
  step = "entry" =>
    /\ Whole(pending) /\ End(pending) <= dataLast
    /\ \A k \in 1..Len(entries) : End(entries[k]) <= pending.offset

AtTableHeader == step = "tableHeader" => dataHeader = dataLast

Session(n) == n <= Len(entries) /\ InMemory /\ AtEntry /\ AtTableHeader

Safe == \E n \in 0..MaxEntries : Saved(n) /\ (session = "open" => Session(n))

Calls ==
  /\ step \notin {"idle", "threw"} => session = "open"
  /\ session = "open" => tableLast = Loc(Len(entries))

IInv == TypeOK /\ Calls /\ (step # "deleting" => Safe)

LEMMA LocFacts ==
  /\ Loc(0) = HeaderLength
  /\ \A k \in Nat : /\ Loc(k) \in Nat
                    /\ Loc(k + 1) = Loc(k) + EntryLength
                    /\ Loc(k) >= HeaderLength
  /\ \A j, k \in Nat : j < k => Loc(j) + EntryLength <= Loc(k)
<1> USE StoreAssumption DEF Loc
<1>1. \A k \in Nat : k * EntryLength \in Nat
  OBVIOUS
<1>2. Loc(0) = HeaderLength
  OBVIOUS
<1>3. \A k \in Nat : (k + 1) * EntryLength = k * EntryLength + EntryLength
  OBVIOUS
<1>4. \A j, k \in Nat : j < k => Loc(j) + EntryLength <= Loc(k)
  <2> SUFFICES ASSUME NEW j \in Nat, NEW k \in Nat, j < k
               PROVE  Loc(j) + EntryLength <= Loc(k)
    OBVIOUS
  <2> DEFINE m == k - (j + 1)
  <2>1. m \in Nat /\ k = (j + 1) + m
    OBVIOUS
  <2>2. k * EntryLength = (j + 1) * EntryLength + m * EntryLength
    BY <2>1
  <2> QED
    BY <1>1, <1>3, <2>1, <2>2
<1> QED
  BY <1>1, <1>2, <1>3, <1>4

LEMMA LocationsOf ==
  ASSUME NEW n \in 0..MaxEntries
  PROVE  /\ Cardinality(Locations(Loc(n))) = n
         /\ \A k \in 1..n : EntriesUpTo(Loc(n))[k] = table[Loc(k - 1)]
         /\ DOMAIN EntriesUpTo(Loc(n)) = 1..n
<1>0. n \in Nat /\ n <= MaxEntries /\ MaxEntries \in Nat
  BY StoreAssumption
<1>1. \A k \in 1..MaxEntries : (k - 1) * EntryLength + EntryLength < Loc(n) <=> k <= n
  <2> SUFFICES ASSUME NEW k \in 1..MaxEntries
               PROVE  (k - 1) * EntryLength + EntryLength < Loc(n) <=> k <= n
    OBVIOUS
  <2>1. k - 1 \in Nat /\ k \in Nat
    BY <1>0
  <2>2. (k - 1) * EntryLength + HeaderLength = Loc(k - 1)
    BY <2>1, StoreAssumption DEF Loc
  <2>3. (k - 1) * EntryLength \in Nat
    BY <2>1, StoreAssumption
  <2>4. CASE k <= n
    <3>1. Loc(k - 1) + EntryLength <= Loc(n)
      BY <1>0, <2>1, <2>4, LocFacts
    <3> QED
      BY <1>0, <2>1, <2>2, <2>3, <2>4, <3>1, LocFacts, StoreAssumption
  <2>5. CASE n = k - 1
    BY <2>2, <2>3, <2>5, StoreAssumption
  <2>6. CASE n < k - 1
    <3>1. Loc(n) + EntryLength <= Loc(k - 1)
      BY <1>0, <2>1, <2>6, LocFacts
    <3> QED
      BY <1>0, <2>1, <2>2, <2>3, <2>6, <3>1, LocFacts, StoreAssumption
  <2> QED
    BY <1>0, <2>1, <2>4, <2>5, <2>6
<1>2. Locations(Loc(n)) = 1..n
  BY <1>0, <1>1 DEF Locations
<1>3. Cardinality(1..n) = n
  BY <1>0, FS_Interval
<1>4. \A k \in 1..n : HeaderLength + (k - 1) * EntryLength = Loc(k - 1)
  BY <1>0 DEF Loc
<1> QED
  BY <1>2, <1>3, <1>4 DEF EntriesUpTo

(* A write at the end of the data leaves every document below it whole. *)
LEMMA WrittenKeeps ==
  ASSUME NEW v, NEW offset \in Nat, NEW n \in Nat, data' = Written(v, offset, n),
         NEW e, Whole(e), End(e) <= offset
  PROVE  Whole(e)'
<1>1. e.offset \in Nat /\ e.length \in Nat /\ MaxData \in Nat
  BY StoreAssumption DEF Whole, Entry
<1>2. \A i \in 0..(e.length - 1) : data'[e.offset + i] = data[e.offset + i]
  <2> SUFFICES ASSUME NEW i \in 0..(e.length - 1)
               PROVE  data'[e.offset + i] = data[e.offset + i]
    OBVIOUS
  <2>1. e.offset + i \in DataBytes /\ e.offset + i \notin offset..(offset + n - 1)
    BY <1>1 DEF Whole, End, DataBytes
  <2> QED
    BY <2>1 DEF Written
<1>3. PICK u \in Values : Holds(e, u)
  BY DEF Whole
<1>4. Holds(e, u)'
  BY <1>2, <1>3 DEF Holds
<1> QED
  BY <1>4 DEF Whole

(* The document that is written is whole. *)
LEMMA WrittenWhole ==
  ASSUME NEW id \in Ids, NEW v \in Values, NEW offset \in Nat, offset + Size[v] <= MaxData,
         data' = Written(v, offset, Size[v]),
         NEW e, e = [id |-> id, offset |-> offset, length |-> Size[v]]
  PROVE  Whole(e)' /\ End(e) = offset + Size[v]
<1>1. Size[v] \in Nat /\ MaxData \in Nat
  BY StoreAssumption
<1>2. \A i \in 0..(Size[v] - 1) : data'[offset + i] = <<v, i>>
  <2> SUFFICES ASSUME NEW i \in 0..(Size[v] - 1) PROVE data'[offset + i] = <<v, i>>
    OBVIOUS
  <2>1. offset + i \in DataBytes /\ offset + i \in offset..(offset + Size[v] - 1)
        /\ (offset + i) - offset = i
    BY <1>1 DEF DataBytes
  <2> QED
    BY <2>1 DEF Written
<1>3. Holds(e, v)'
  BY <1>2 DEF Holds
<1> QED
  BY <1>1, <1>3 DEF Whole, Entry, End

(* Steps that leave the files alone, or the documents in them. *)
LEMMA SavedKeeps ==
  ASSUME NEW n \in Nat, Saved(n), UNCHANGED <<table, tableHeader>>,
         LastByte(dataHeader) <= LastByte(dataHeader'),
         LastByte(dataHeader) \in Nat, LastByte(dataHeader') \in Nat,
         \A e : Whole(e) /\ End(e) <= LastByte(dataHeader) => Whole(e)'
  PROVE  Saved(n)'
<1>1. \A k \in 1..n : Row(k)' = Row(k)
  BY DEF Row
<1>2. LastByte(tableHeader)' = LastByte(tableHeader)
  BY DEF LastByte
<1>3. \A k \in 1..n : Whole(Row(k))' /\ End(Row(k)) <= LastByte(dataHeader')
  <2> SUFFICES ASSUME NEW k \in 1..n
               PROVE  Whole(Row(k))' /\ End(Row(k)) <= LastByte(dataHeader')
    OBVIOUS
  <2>1. Whole(Row(k)) /\ End(Row(k)) <= LastByte(dataHeader)
    BY DEF Saved
  <2>2. PICK e : e = Row(k)
    OBVIOUS
  <2>3. Whole(e)'
    BY <2>1, <2>2
  <2>4. Row(k)' = e
    BY <1>1, <2>2
  <2>5. Whole(Row(k))'
    BY <2>3, <2>4 DEF Whole, Holds, End
  <2>6. End(Row(k)) \in Nat
    BY <2>1 DEF Whole, End, Entry
  <2> QED
    BY <2>1, <2>5, <2>6
<1>4. \A k \in 1..n : End(Row(k))' = End(Row(k))
  BY <1>1 DEF End
<1> QED
  BY <1>1, <1>2, <1>3, <1>4 DEF Saved, LastByte

-----------------------------------------------------------------------------
(* Types. *)

LEMMA WrittenType ==
  ASSUME data \in [DataBytes -> (Values \X Nat) \cup {None}],
         NEW v \in Values, NEW offset \in Nat, NEW n \in Nat
  PROVE  Written(v, offset, n) \in [DataBytes -> (Values \X Nat) \cup {None}]
<1>1. ASSUME NEW b \in DataBytes
      PROVE  (IF b \in offset..(offset + n - 1) THEN <<v, b - offset>> ELSE data[b])
               \in (Values \X Nat) \cup {None}
  <2>1. CASE b \in offset..(offset + n - 1)
    <3>1. b - offset \in Nat
      BY <2>1 DEF DataBytes
    <3> QED
      BY <2>1, <3>1
  <2>2. CASE b \notin offset..(offset + n - 1)
    BY <2>2
  <2> QED
    BY <2>1, <2>2
<1> QED
  BY <1>1 DEF Written

ForgetType ==
  /\ dataLast \in Nat /\ tableLast \in Nat
  /\ entries \in Seq(Entry)
  /\ index \in [Ids -> Entry \cup {None}]
  /\ step = "idle"
  /\ pending \in Entry \cup {None}

LEMMA Forgotten == Forget => ForgetType'
BY DEF Forget, ForgetType, NoIndex

LEMMA TypeInit == Init => TypeOK
BY DEF Init, TypeOK, Blank, NoEntries, NoIndex

(* What a session reads when it opens. *)
LEMMA OpenReads ==
  ASSUME TypeOK, NEW n \in 0..MaxEntries, Saved(n), Open
  PROVE  /\ tableHeader' = Loc(n)
         /\ dataHeader' = LastByte(dataHeader) /\ dataHeader' \in Nat
         /\ LastByte(dataHeader') = LastByte(dataHeader)
         /\ LastByte(tableHeader') = LastByte(tableHeader)
         /\ session' \in {"open", "failed"}
         /\ session' = "failed" => Forget
         /\ session' = "open" =>
              /\ entries' \in Seq(Entry) /\ Len(entries') = n
              /\ \A k \in 1..n : entries'[k] = Row(k)
              /\ index' = IndexOf(entries')
              /\ dataLast' = dataHeader' /\ tableLast' = tableHeader'
              /\ step' = "idle" /\ pending' = None
<1>1. tableHeader' = Loc(n)
  BY DEF Open, Saved
<1>2. /\ dataHeader' = LastByte(dataHeader) /\ dataHeader' \in Nat
      /\ LastByte(dataHeader') = LastByte(dataHeader)
  BY StoreAssumption DEF Open, LastByte, TypeOK
<1>3. LastByte(tableHeader') = LastByte(tableHeader)
  BY StoreAssumption DEF Open, LastByte, TypeOK
<1> DEFINE read == EntriesUpTo(Loc(n))
<1>4. /\ DOMAIN read = 1..n
      /\ \A k \in 1..n : read[k] = Row(k)
  BY LocationsOf DEF Row
<1>5. \A k \in 1..n : Row(k) \in Entry
  BY DEF Saved, Whole
<1>6. n \in Nat
  BY StoreAssumption
<1>7. read = [k \in 1..Cardinality(Locations(Loc(n))) |->
                table[HeaderLength + (k - 1) * EntryLength]]
  BY DEF EntriesUpTo
<1>8. read = [k \in 1..n |-> read[k]]
  BY <1>4, <1>7
<1> HIDE DEF read
<1>9. read \in Seq(Entry) /\ Len(read) = n
  BY <1>4, <1>5, <1>6, <1>8
<1>10. \/ /\ session' = "open"
          /\ dataLast' = dataHeader' /\ tableLast' = tableHeader'
          /\ entries' = read /\ index' = IndexOf(read)
          /\ step' = "idle" /\ pending' = None
       \/ session' = "failed" /\ Forget
  BY <1>1 DEF Open, read
<1> QED
  BY <1>1, <1>2, <1>3, <1>4, <1>9, <1>10

LEMMA IndexType ==
  ASSUME NEW s \in Seq(Entry)
  PROVE  IndexOf(s) \in [Ids -> Entry \cup {None}]
<1>1. ASSUME NEW id \in Ids
      PROVE  (IF \E i \in DOMAIN s : s[i].id = id
              THEN s[CHOOSE i \in DOMAIN s : s[i].id = id] ELSE None) \in Entry \cup {None}
  <2>1. CASE \E i \in DOMAIN s : s[i].id = id
    <3>1. (CHOOSE i \in DOMAIN s : s[i].id = id) \in DOMAIN s
      BY <2>1
    <3>2. \A i \in DOMAIN s : s[i] \in Entry
      OBVIOUS
    <3> QED
      BY <2>1, <3>1, <3>2
  <2>2. CASE ~ \E i \in DOMAIN s : s[i].id = id
    BY <2>2
  <2> QED
    BY <2>1, <2>2
<1> QED
  BY <1>1 DEF IndexOf

LEMMA TypeStep == IInv /\ Next => TypeOK'
<1> SUFFICES ASSUME IInv, Next PROVE TypeOK'
  OBVIOUS
<1>0. TypeOK /\ Calls
  BY DEF IInv
<1>1. CASE Open
  <2>1. PICK n \in 0..MaxEntries : Saved(n)
    BY <1>1 DEF IInv, Calls, Safe, Open
  <2>2. CASE session' = "failed"
    BY <1>0, <1>1, <2>1, <2>2, OpenReads, Forgotten, StoreAssumption
       DEF TypeOK, ForgetType, Open, LastByte
  <2>3. CASE session' = "open"
    <3>1. index' \in [Ids -> Entry \cup {None}]
      BY <1>0, <1>1, <2>1, <2>3, OpenReads, IndexType
    <3>2. tableHeader' \in Nat /\ dataHeader' \in Nat
      BY <1>0, <1>1, <2>1, <2>3, OpenReads, StoreAssumption DEF TypeOK, Open, LastByte
    <3>3. entries' \in Seq(Entry)
      BY <1>0, <1>1, <2>1, <2>3, OpenReads
    <3>4. /\ dataLast' = dataHeader' /\ tableLast' = tableHeader'
          /\ step' = "idle" /\ pending' = None
      BY <1>0, <1>1, <2>1, <2>3, OpenReads
    <3>5. data' = data /\ table' = table
      BY <1>1 DEF Open
    <3> QED
      BY <1>0, <2>3, <3>1, <3>2, <3>3, <3>4, <3>5 DEF TypeOK
  <2> QED
    BY <1>0, <1>1, <2>1, <2>2, <2>3, OpenReads
<1>2. ASSUME NEW id \in Ids, NEW v \in Values, WriteData(id, v) PROVE TypeOK'
  <2>1. Size[v] \in Nat /\ dataLast \in Nat
    BY <1>0, StoreAssumption DEF TypeOK
  <2>2. data' \in [DataBytes -> (Values \X Nat) \cup {None}]
    BY <1>0, <1>2, <2>1, WrittenType DEF TypeOK, WriteData
  <2>3. pending' \in Entry /\ dataLast' \in Nat
    BY <1>2, <2>1 DEF WriteData, Entry
  <2> QED
    BY <1>0, <1>2, <2>2, <2>3 DEF TypeOK, WriteData
<1>3. CASE WriteEntry
  <2>1. pending \in Entry
    BY <1>3 DEF IInv, Safe, Calls, WriteEntry, Session, AtEntry, Whole
  <2>2. /\ table' \in [TableBytes -> Entry \cup {None}]
        /\ index' \in [Ids -> Entry \cup {None}]
    BY <1>0, <1>3, <2>1 DEF TypeOK, WriteEntry
  <2>3. tableLast' \in Nat /\ entries' \in Seq(Entry)
    BY <1>0, <1>3, <2>1, StoreAssumption DEF TypeOK, WriteEntry
  <2> QED
    BY <1>0, <1>3, <2>2, <2>3 DEF TypeOK, WriteEntry
<1>4. CASE WriteDataHeader
  BY <1>0, <1>4 DEF TypeOK, WriteDataHeader
<1>5. CASE WriteTableHeader
  BY <1>0, <1>5 DEF TypeOK, WriteTableHeader
<1>6. CASE PushThrows
  BY <1>0, <1>6 DEF TypeOK, PushThrows, files
<1>7. CASE Dispose \/ Crash
  BY <1>0, <1>7, Forgotten DEF TypeOK, Dispose, Crash, files, ForgetType
<1>8. ASSUME NEW v \in Values, NEW n \in 0..Size[v], CrashInCopy(v, n) \/ CopyThrows(v, n)
      PROVE  TypeOK'
  <2>1. n \in Nat /\ dataLast \in Nat
    BY <1>0, StoreAssumption DEF TypeOK
  <2>2. data' \in [DataBytes -> (Values \X Nat) \cup {None}]
    BY <1>0, <1>8, <2>1, WrittenType DEF TypeOK, CrashInCopy, CopyThrows
  <2>3. CASE CrashInCopy(v, n)
    BY <1>0, <2>2, <2>3, Forgotten DEF TypeOK, CrashInCopy, ForgetType
  <2>4. CASE CopyThrows(v, n)
    BY <1>0, <2>2, <2>4 DEF TypeOK, CopyThrows
  <2> QED
    BY <1>8, <2>3, <2>4
<1>9. CASE DeleteData
  BY <1>0, <1>9 DEF TypeOK, DeleteData, Blank
<1>10. CASE DeleteTable
  BY <1>0, <1>10, Forgotten DEF TypeOK, DeleteTable, ForgetType, NoEntries
<1> QED
  BY <1>1, <1>2, <1>3, <1>4, <1>5, <1>6, <1>7, <1>8, <1>9, <1>10 DEF Next

-----------------------------------------------------------------------------
(* The four writes, one lemma each, and what ends a session. *)

(* A write of document bytes at the end of the data. *)
LEMMA DataKeeps ==
  ASSUME TypeOK, NEW n \in 0..MaxEntries, Saved(n), session = "open", InMemory,
         NEW v \in Values, NEW m \in Nat, data' = Written(v, dataLast, m),
         UNCHANGED <<dataHeader, table, tableHeader>>
  PROVE  /\ Saved(n)'
         /\ \A e : Whole(e) /\ End(e) <= dataLast => Whole(e)'
<1>1. n \in Nat /\ dataLast \in Nat
  BY StoreAssumption DEF TypeOK
<1>2. LastByte(dataHeader) \in Nat /\ LastByte(dataHeader) <= dataLast
      /\ LastByte(dataHeader') = LastByte(dataHeader)
  BY StoreAssumption DEF TypeOK, LastByte, InMemory
<1>3. ASSUME NEW e, Whole(e), End(e) <= dataLast PROVE Whole(e)'
  BY <1>1, <1>3, WrittenKeeps
<1>4. \A e : Whole(e) => End(e) \in Nat
  BY DEF Whole, End, Entry
<1>5. Saved(n)'
  <2>1. \A e : Whole(e) /\ End(e) <= LastByte(dataHeader) => Whole(e)'
    BY <1>1, <1>2, <1>3, <1>4
  <2>2. LastByte(dataHeader) <= LastByte(dataHeader')
    BY <1>2
  <2>3. UNCHANGED <<table, tableHeader>>
    OBVIOUS
  <2>4. LastByte(dataHeader') \in Nat
    BY <1>2
  <2> QED
    BY <1>1, <1>2, <2>1, <2>2, <2>3, <2>4, SavedKeeps
<1> QED
  BY <1>3, <1>5

LEMMA OpenSafe ==
  ASSUME IInv, Open
  PROVE  Safe' /\ Calls'
<1>0. TypeOK
  BY DEF IInv
<1>1. PICK n \in 0..MaxEntries : Saved(n)
  BY DEF IInv, Calls, Safe, Open
<1>2. n \in Nat
  BY StoreAssumption
<1>3. Saved(n)'
  <2>1. LastByte(dataHeader') = LastByte(dataHeader) /\ LastByte(dataHeader) \in Nat
    BY <1>0, <1>1, OpenReads
  <2>2. LastByte(tableHeader') = LastByte(tableHeader)
    BY <1>0, <1>1, OpenReads
  <2>3. data' = data /\ table' = table
    BY DEF Open
  <2> QED
    BY <1>1, <2>1, <2>2, <2>3 DEF Saved, LastByte, Row, Whole, Holds, End
<1>4. CASE session' = "failed"
  <2>1. step' = "idle"
    BY <1>0, <1>1, <1>4, OpenReads DEF Forget
  <2> QED
    BY <1>3, <1>4, <2>1 DEF Safe, Calls
<1>5. CASE session' = "open"
  <2>1. /\ entries' \in Seq(Entry) /\ Len(entries') = n
        /\ \A k \in 1..n : entries'[k] = Row(k)
        /\ dataLast' = dataHeader' /\ tableLast' = tableHeader'
        /\ step' = "idle" /\ tableHeader' = Loc(n)
        /\ LastByte(dataHeader') = dataHeader' /\ dataHeader' \in Nat
    BY <1>0, <1>1, <1>5, OpenReads
  <2>2. \A k \in 1..n : Row(k)' = Row(k)
    BY DEF Row, Open
  <2>3. \A k \in 1..n : Whole(Row(k)') /\ End(Row(k)') <= LastByte(dataHeader')
    BY <1>1, <1>0, <2>2, OpenReads DEF Saved
  <2>4. \A k \in 1..n : Whole(Row(k))' /\ End(Row(k))' <= LastByte(dataHeader')
    BY <1>3 DEF Saved, LastByte
  <2>5. \A k \in 1..n : entries'[k] = Row(k)'
    BY <2>1, <2>2
  <2>6. \A k \in 1..Len(entries') :
          /\ (entries[k] = Row(k))' /\ Whole(entries[k])'
          /\ End(entries[k])' <= dataLast'
    BY <2>1, <2>4, <2>5, SMTT(30) DEF Whole, Holds, End
  <2>7. \A j, k \in 1..Len(entries') : j < k => End(entries'[j]) <= entries'[k].offset
    BY <1>3, <2>1, <2>5 DEF Saved, End
  <2>8. InMemory'
    BY <1>2, <2>1, <2>6, <2>7 DEF InMemory, LastByte, End
  <2>9. AtEntry' /\ AtTableHeader'
    BY <2>1 DEF AtEntry, AtTableHeader
  <2>10. Calls'
    BY <2>1 DEF Calls
  <2> QED
    BY <1>2, <1>3, <2>1, <2>8, <2>9, <2>10 DEF Safe, Session
<1> QED
  BY <1>0, <1>1, <1>4, <1>5, OpenReads

LEMMA WriteDataSafe ==
  ASSUME IInv, NEW id \in Ids, NEW v \in Values, WriteData(id, v)
  PROVE  Safe' /\ Calls'
<1>0. TypeOK /\ session = "open" /\ session' = "open"
  BY DEF IInv, WriteData, Ready
<1>1. PICK n \in 0..MaxEntries : Saved(n) /\ Session(n)
  BY <1>0 DEF IInv, Safe, WriteData, Ready
<1>2. Size[v] \in Nat /\ dataLast \in Nat /\ LastByte(dataHeader) \in Nat
  BY <1>0, StoreAssumption DEF TypeOK, LastByte
<1>3. /\ Saved(n)'
      /\ \A k \in 1..Len(entries) : Whole(entries[k])'
  <2>1. Saved(n)' /\ \A e : Whole(e) /\ End(e) <= dataLast => Whole(e)'
    BY <1>0, <1>1, <1>2, DataKeeps DEF Session, WriteData
  <2>2. ASSUME NEW k \in 1..Len(entries) PROVE Whole(entries[k])'
    <3>1. PICK e : e = entries[k]
      OBVIOUS
    <3>2. Whole(e)' /\ entries'[k] = e
      BY <1>1, <2>1, <3>1 DEF Session, InMemory, WriteData
    <3> QED
      BY <3>2 DEF Whole, Holds, End
  <2> QED
    BY <2>1, <2>2
<1>4. /\ entries' = entries /\ table' = table /\ dataHeader' = dataHeader
      /\ dataLast' = dataLast + Size[v] /\ step' = "entry"
      /\ pending' = [id |-> id, offset |-> dataLast, length |-> Size[v]]
      /\ tableLast' = tableLast
  BY DEF WriteData
<1>5. \A k \in 1..Len(entries) : End(entries[k]) \in Nat /\ End(entries[k]) <= dataLast
  BY <1>1 DEF Session, InMemory, Whole, Entry, End
<1>6. InMemory'
  <2>1. \A k \in 1..Len(entries') : (entries[k] = Row(k))' /\ Whole(entries[k])'
    BY <1>1, <1>3, <1>4 DEF Session, InMemory, Row, Whole, Holds, End
  <2>2. \A k \in 1..Len(entries') : End(entries[k])' <= dataLast'
    BY <1>2, <1>4, <1>5 DEF End
  <2>3. LastByte(dataHeader') <= dataLast'
    BY <1>1, <1>2, <1>4 DEF Session, InMemory
  <2> QED
    BY <1>1, <1>4, <2>1, <2>2, <2>3 DEF Session, InMemory, LastByte, End
<1>7. AtEntry'
  <2>1. PICK e : e = [id |-> id, offset |-> dataLast, length |-> Size[v]]
    OBVIOUS
  <2>2. Whole(e)' /\ End(e) = dataLast + Size[v]
    BY <1>2, <2>1, WrittenWhole DEF WriteData
  <2>3. Whole(pending)' /\ End(pending)' <= dataLast'
    BY <1>2, <1>4, <2>1, <2>2 DEF Whole, Holds, End
  <2> QED
    BY <1>4, <1>5, <2>3 DEF AtEntry, End
<1>8. AtTableHeader' /\ Calls'
  BY <1>0, <1>4 DEF AtTableHeader, Calls, IInv
<1> QED
  BY <1>1, <1>3, <1>4, <1>6, <1>7, <1>8 DEF Safe, Session

LEMMA WriteEntrySafe ==
  ASSUME IInv, WriteEntry
  PROVE  Safe' /\ Calls'
<1>0. TypeOK /\ session = "open" /\ session' = "open"
  BY DEF IInv, Calls, WriteEntry
<1>1. PICK n \in 0..MaxEntries : Saved(n) /\ Session(n)
  BY <1>0 DEF IInv, Safe, WriteEntry
<1>l. PICK l \in Nat : l = Len(entries)
  BY <1>0 DEF TypeOK
<1>2. /\ l \in Nat /\ n \in Nat /\ n <= l /\ l <= MaxEntries /\ MaxEntries \in Nat
      /\ entries \in Seq(Entry) /\ pending \in Entry
  BY <1>0, <1>1, <1>l, StoreAssumption DEF Session, InMemory, TypeOK, AtEntry, WriteEntry, Whole
<1>3. tableLast = Loc(l)
  BY <1>0, <1>l DEF IInv, Calls
<1>4. l # MaxEntries
  <2>1. Loc(l) + EntryLength <= Loc(MaxEntries)
    BY <1>3 DEF WriteEntry, Loc
  <2>2. Loc(MaxEntries) \in Nat
    BY <1>2, LocFacts
  <2> QED
    BY <2>1, <2>2, StoreAssumption
<1>5. /\ Len(entries') = l + 1 /\ entries'[l + 1] = pending
      /\ \A k \in 1..l : entries'[k] = entries[k]
  BY <1>2, <1>l DEF WriteEntry
<1>6. Loc(l) \in TableBytes
  <2>1. Loc(l) \in Nat /\ Loc(l) <= HeaderLength + MaxEntries * EntryLength
        /\ HeaderLength + MaxEntries * EntryLength \in Nat
    <3>0. l < MaxEntries
      BY <1>2, <1>4
    <3>1. Loc(l) + EntryLength <= Loc(MaxEntries) /\ Loc(l) \in Nat /\ Loc(MaxEntries) \in Nat
      BY <1>2, <3>0, LocFacts
    <3> QED
      BY <3>1, StoreAssumption DEF Loc
  <2> QED
    BY <2>1 DEF TableBytes
<1>7. \A k \in 1..l : Loc(k - 1) # Loc(l) /\ Loc(k - 1) \in TableBytes
  <2> SUFFICES ASSUME NEW k \in 1..l PROVE Loc(k - 1) # Loc(l) /\ Loc(k - 1) \in TableBytes
    OBVIOUS
  <2>1. k - 1 \in Nat /\ k - 1 < l
    BY <1>2
  <2>2. Loc(k - 1) + EntryLength <= Loc(l) /\ Loc(k - 1) \in Nat
    BY <1>2, <2>1, LocFacts
  <2> QED
    BY <1>6, <2>2, StoreAssumption DEF TableBytes
<1>8. /\ \A k \in 1..l : Row(k)' = Row(k)
      /\ Row(l + 1)' = pending
  <2>1. table' = [table EXCEPT ![Loc(l)] = pending]
    BY <1>3 DEF WriteEntry
  <2>2. table \in [TableBytes -> Entry \cup {None}]
    BY <1>0 DEF TypeOK
  <2>3. (l + 1) - 1 = l
    BY <1>2
  <2>4. \A k \in 1..l : table'[Loc(k - 1)] = table[Loc(k - 1)]
    BY <1>7, <2>1, <2>2
  <2>5. table'[Loc(l)] = pending
    BY <1>6, <2>1, <2>2
  <2>6. Row(l + 1)' = table'[Loc((l + 1) - 1)]
    BY DEF Row
  <2>7. Loc((l + 1) - 1) = Loc(l)
    BY <2>3
  <2> QED
    BY <2>4, <2>5, <2>6, <2>7 DEF Row
<1>9. /\ data' = data /\ dataHeader' = dataHeader /\ tableHeader' = tableHeader
      /\ dataLast' = dataLast /\ step' = "dataHeader"
      /\ tableLast' = tableLast + EntryLength
  BY DEF WriteEntry
<1>10. \A e : Whole(e)' <=> Whole(e)
  BY <1>9 DEF Whole, Holds
<1>11. Saved(n)'
  <2>1. \A k \in 1..n : k \in 1..l
    BY <1>2
  <2>2. \A k \in 1..n : Row(k)' = Row(k)
    BY <1>8, <2>1
  <2>3. \A k \in 1..n : Whole(Row(k))'
    <3> SUFFICES ASSUME NEW k \in 1..n PROVE Whole(Row(k))'
      OBVIOUS
    <3>1. Whole(Row(k))
      BY <1>1 DEF Saved
    <3> QED
      BY <1>9, <2>2, <3>1 DEF Whole, Holds, End
  <2>4. LastByte(tableHeader)' = LastByte(tableHeader) /\ LastByte(dataHeader)' = LastByte(dataHeader)
    BY <1>9 DEF LastByte
  <2>5. \A k \in 1..n : End(Row(k))' = End(Row(k)) /\ Row(k).offset' = Row(k).offset
    BY <2>2 DEF End
  <2> QED
    BY <1>1, <2>3, <2>4, <2>5 DEF Saved
<1>12. InMemory'
  <2>1. 1..(l + 1) = 1..l \cup {l + 1} /\ l + 1 <= MaxEntries
    BY <1>2, <1>4
  <2>2. Whole(pending) /\ End(pending) <= dataLast /\ (\A k \in 1..l : End(entries[k]) <= pending.offset)
    BY <1>1, <1>l DEF Session, AtEntry, WriteEntry
  <2>3. \A k \in 1..l : entries[k] = Row(k) /\ Whole(entries[k]) /\ End(entries[k]) <= dataLast
    BY <1>1, <1>l DEF Session, InMemory
  <2>4. \A k \in 1..(l + 1) : (entries[k] = Row(k))'
    <3> SUFFICES ASSUME NEW k \in 1..(l + 1) PROVE entries'[k] = Row(k)'
      OBVIOUS
    <3>1. CASE k \in 1..l
      BY <1>5, <1>8, <2>3, <3>1
    <3>2. CASE k = l + 1
      BY <1>5, <1>8, <3>2
    <3> QED
      BY <2>1, <3>1, <3>2
  <2>5. \A k \in 1..(l + 1) : Whole(entries'[k]) /\ End(entries'[k]) <= dataLast
    BY <1>5, <2>1, <2>2, <2>3
  <2>6. \A k \in 1..(l + 1) : Whole(entries[k])' /\ End(entries[k])' <= dataLast'
    BY <1>9, <2>5 DEF Whole, Holds, End
  <2>7. \A j, k \in 1..l : j < k => End(entries[j]) <= entries[k].offset
    BY <1>1, <1>l DEF Session, InMemory
  <2>8. \A j, k \in 1..(l + 1) : j < k => End(entries'[j]) <= entries'[k].offset
    BY <1>2, <1>5, <2>1, <2>2, <2>7
  <2>9. LastByte(dataHeader)' <= dataLast'
    BY <1>1, <1>9 DEF Session, InMemory, LastByte
  <2> QED
    BY <1>5, <2>1, <2>4, <2>6, <2>8, <2>9 DEF InMemory, End
<1>13. AtEntry' /\ AtTableHeader'
  BY <1>9 DEF AtEntry, AtTableHeader
<1>14. Calls'
  BY <1>0, <1>2, <1>3, <1>5, <1>9, LocFacts DEF Calls
<1>15. n <= Len(entries')
  BY <1>2, <1>5
<1> QED
  BY <1>11, <1>12, <1>13, <1>14, <1>15 DEF Safe, Session

LEMMA WriteDataHeaderSafe ==
  ASSUME IInv, WriteDataHeader
  PROVE  Safe' /\ Calls'
<1>0. TypeOK /\ session = "open"
  BY DEF IInv, Calls, WriteDataHeader
<1>1. PICK n \in 0..MaxEntries : Saved(n) /\ Session(n)
  BY <1>0 DEF IInv, Safe, WriteDataHeader
<1>2. /\ n \in Nat /\ dataLast \in Nat /\ LastByte(dataHeader) \in Nat
      /\ dataHeader' = dataLast /\ LastByte(dataHeader') = dataLast
      /\ LastByte(dataHeader) <= LastByte(dataHeader')
  <2>1. n \in Nat /\ HeaderLength \in Nat /\ None \notin Nat
    BY StoreAssumption
  <2>2. dataLast \in Nat /\ dataHeader \in Nat \cup {None}
    BY <1>0 DEF TypeOK
  <2>3. dataHeader' = dataLast
    BY DEF WriteDataHeader
  <2>4. LastByte(dataHeader) \in Nat
    BY <2>1, <2>2 DEF LastByte
  <2>5. LastByte(dataHeader') = dataLast
    BY <2>1, <2>2, <2>3 DEF LastByte
  <2>6. LastByte(dataHeader) <= dataLast
    BY <1>1 DEF Session, InMemory
  <2> QED BY <2>1, <2>2, <2>3, <2>4, <2>5, <2>6
<1>3. /\ UNCHANGED <<table, tableHeader>>
      /\ data' = data /\ session' = session /\ entries' = entries
      /\ dataLast' = dataLast /\ tableLast' = tableLast /\ step' = "tableHeader"
  BY DEF WriteDataHeader
<1>4. \A e : Whole(e) => Whole(e)'
  BY <1>3 DEF Whole, Holds
<1>5. Saved(n)'
  BY <1>1, <1>2, <1>3, <1>4, SavedKeeps
<1>6. InMemory'
  BY <1>1, <1>2, <1>3 DEF Session, InMemory, LastByte, Row, Whole, Holds, End
<1>7. AtEntry' /\ AtTableHeader' /\ Calls'
  BY <1>0, <1>2, <1>3 DEF AtEntry, AtTableHeader, Calls, IInv
<1> QED
  BY <1>1, <1>3, <1>5, <1>6, <1>7 DEF Safe, Session

LEMMA WriteTableHeaderSafe ==
  ASSUME IInv, WriteTableHeader
  PROVE  Safe' /\ Calls'
<1>0. TypeOK /\ session = "open"
  BY DEF IInv, Calls, WriteTableHeader
<1>1. PICK n \in 0..MaxEntries : Saved(n) /\ Session(n)
  BY <1>0 DEF IInv, Safe, WriteTableHeader
<1>2. PICK l \in Nat : l = Len(entries)
  BY <1>0 DEF TypeOK
<1>3. /\ UNCHANGED <<data, dataHeader, table, session, dataLast, tableLast, entries>>
      /\ step' = "idle" /\ tableHeader' = tableLast /\ tableLast = Loc(l)
  BY <1>0, <1>2 DEF WriteTableHeader, IInv, Calls
<1>4. LastByte(tableHeader)' = Loc(l)
  BY <1>2, <1>3, LocFacts, StoreAssumption DEF LastByte
<1>5. dataHeader = dataLast /\ LastByte(dataHeader)' = dataLast
  BY <1>0, <1>1, <1>3, StoreAssumption
     DEF Session, AtTableHeader, WriteTableHeader, LastByte, TypeOK
<1>6. Saved(l)'
  <2>1. \A k \in 1..l : entries[k] = Row(k) /\ Whole(entries[k]) /\ End(entries[k]) <= dataLast
    BY <1>1, <1>2 DEF Session, InMemory
  <2>2. \A k \in 1..l : Whole(Row(k))' /\ End(Row(k))' <= LastByte(dataHeader)'
    <3> SUFFICES ASSUME NEW k \in 1..l
                 PROVE  Whole(Row(k))' /\ End(Row(k))' <= LastByte(dataHeader)'
      OBVIOUS
    <3>1. PICK e : e = Row(k)
      OBVIOUS
    <3>2. Whole(e) /\ End(e) <= dataLast
      BY <2>1, <3>1
    <3>3. Row(k)' = e
      BY <1>3, <3>1 DEF Row
    <3>4. Whole(Row(k))'
      BY <1>3, <3>2, <3>3 DEF Whole, Holds, End
    <3>5. End(Row(k))' = End(e)
      BY <3>3 DEF End
    <3> QED BY <1>5, <3>2, <3>4, <3>5
  <2>3. \A j, k \in 1..l : j < k => End(entries[j]) <= entries[k].offset
    BY <1>1, <1>2 DEF Session, InMemory
  <2>4. \A j, k \in 1..l : j < k => (End(Row(j)) <= Row(k).offset)'
    BY <1>3, <2>1, <2>3 DEF Row, End
  <2> QED
    BY <1>4, <2>2, <2>4 DEF Saved
<1>7. InMemory'
  BY <1>1, <1>3 DEF Session, InMemory, LastByte, Row, Whole, Holds, End
<1>8. AtEntry' /\ AtTableHeader' /\ Calls'
  BY <1>0, <1>3 DEF AtEntry, AtTableHeader, Calls, IInv
<1>9. l \in 0..MaxEntries /\ l <= Len(entries')
  BY <1>1, <1>2, <1>3, StoreAssumption DEF Session, InMemory
<1> QED
  BY <1>6, <1>7, <1>8, <1>9 DEF Safe, Session

(* What ends a call or a session without a further write. *)
LEMMA EndsSafe ==
  ASSUME IInv, PushThrows \/ Dispose \/ Crash
  PROVE  Safe' /\ Calls'
<1>0. TypeOK /\ step # "deleting" /\ session = "open"
  BY DEF IInv, Calls, PushThrows, Dispose, Crash, Ready
<1>1. PICK n \in 0..MaxEntries : Saved(n) /\ Session(n)
  BY <1>0 DEF IInv, Safe
<1>2. UNCHANGED files
  BY DEF PushThrows, Dispose, Crash
<1>3. Saved(n)'
  BY <1>1, <1>2 DEF files, Saved, LastByte, Row, Whole, Holds, End
<1>4. CASE PushThrows
  <2>1. /\ UNCHANGED <<session, dataLast, tableLast, entries>>
        /\ step' = "threw"
    BY <1>4 DEF PushThrows
  <2>2. InMemory'
    BY <1>1, <1>2, <2>1 DEF files, Session, InMemory, LastByte, Row, Whole, Holds, End
  <2>3. AtEntry' /\ AtTableHeader' /\ Calls'
    BY <1>0, <2>1 DEF AtEntry, AtTableHeader, Calls, IInv
  <2> QED
    BY <1>1, <1>3, <2>1, <2>2, <2>3 DEF Safe, Session
<1>5. CASE Dispose \/ Crash
  <2>1. session' = "closed" /\ step' = "idle"
    BY <1>5 DEF Dispose, Crash, Forget
  <2> QED
    BY <1>3, <2>1 DEF Safe, Calls
<1> QED
  BY <1>4, <1>5

(* A copy that is cut short. *)
LEMMA PartialCopySafe ==
  ASSUME IInv, NEW v \in Values, NEW m \in 0..Size[v], CrashInCopy(v, m) \/ CopyThrows(v, m)
  PROVE  Safe' /\ Calls'
<1>0. TypeOK /\ step # "deleting" /\ session = "open" /\ m \in Nat /\ dataLast \in Nat
  BY StoreAssumption DEF IInv, CrashInCopy, CopyThrows, Ready, TypeOK
<1>1. PICK n \in 0..MaxEntries : Saved(n) /\ Session(n)
  BY <1>0 DEF IInv, Safe
<1>2. /\ Saved(n)'
      /\ \A e : Whole(e) /\ End(e) <= dataLast => Whole(e)'
  BY <1>0, <1>1, DataKeeps DEF Session, CrashInCopy, CopyThrows
<1>3. CASE CrashInCopy(v, m)
  <2>1. session' = "closed" /\ step' = "idle"
    BY <1>3 DEF CrashInCopy, Forget
  <2> QED
    BY <1>2, <2>1 DEF Safe, Calls
<1>4. CASE CopyThrows(v, m)
  <2>1. /\ UNCHANGED <<dataHeader, table, tableHeader, session, dataLast, tableLast, entries>>
        /\ step' = "threw"
    BY <1>4 DEF CopyThrows
  <2>2. ASSUME NEW k \in 1..Len(entries) PROVE Whole(entries[k])'
    <3>1. PICK e : e = entries[k]
      OBVIOUS
    <3>2. Whole(e)' /\ entries'[k] = e
      BY <1>1, <1>2, <2>1, <3>1 DEF Session, InMemory
    <3> QED
      BY <3>2 DEF Whole, Holds, End
  <2>3. InMemory'
    BY <1>1, <2>1, <2>2 DEF Session, InMemory, LastByte, Row, End
  <2>4. AtEntry' /\ AtTableHeader' /\ Calls'
    BY <1>0, <2>1 DEF AtEntry, AtTableHeader, Calls, IInv
  <2> QED
    BY <1>1, <1>2, <2>1, <2>3, <2>4 DEF Safe, Session
<1> QED
  BY <1>3, <1>4

LEMMA DeleteTableSafe ==
  ASSUME IInv, DeleteTable
  PROVE  Safe' /\ Calls'
<1>1. session' = "closed" /\ step' = "idle" /\ tableHeader' = None
  BY DEF DeleteTable, Forget
<1>2. Saved(0)'
  BY <1>1, LocFacts DEF Saved, LastByte
<1>3. 0 \in 0..MaxEntries
  BY StoreAssumption
<1> QED
  BY <1>1, <1>2, <1>3 DEF Safe, Calls

LEMMA Inductive == Spec => []IInv
<1>1. Init => IInv
  <2> SUFFICES ASSUME Init PROVE IInv
    OBVIOUS
  <2>1. session = "closed" /\ step = "idle" /\ tableHeader = None
    BY DEF Init
  <2>2. Saved(0)
    BY <2>1, LocFacts DEF Saved, LastByte
  <2>3. 0 \in 0..MaxEntries
    BY StoreAssumption
  <2> QED
    BY <2>1, <2>2, <2>3, TypeInit DEF IInv, Safe, Calls
<1>2. IInv /\ [Next]_vars => IInv'
  <2> SUFFICES ASSUME IInv, [Next]_vars PROVE IInv'
    OBVIOUS
  <2>1. CASE Next
    <3>1. TypeOK'
      BY <2>1, TypeStep
    <3>2. CASE DeleteData
      <4>1. step' = "deleting" /\ session' = "open" /\ UNCHANGED <<tableLast, entries>>
        BY <3>2 DEF DeleteData, Ready
      <4> QED
        BY <3>1, <3>2, <4>1 DEF IInv, Calls, DeleteData, Ready
    <3>3. CASE ~DeleteData
      <4>1. Safe' /\ Calls'
        BY <2>1, <3>3, OpenSafe, WriteDataSafe, WriteEntrySafe, WriteDataHeaderSafe,
           WriteTableHeaderSafe, EndsSafe, PartialCopySafe, DeleteTableSafe DEF Next
      <4> QED
        BY <3>1, <4>1 DEF IInv
    <3> QED
      BY <3>2, <3>3
  <2>2. CASE UNCHANGED vars
    <3>1. UNCHANGED <<data, dataHeader, table, tableHeader, session, dataLast, tableLast,
                      entries, index, step, pending>>
      BY <2>2 DEF vars, files, memory
    <3>2. TypeOK' /\ Calls'
      BY <3>1 DEF IInv, TypeOK, Calls
    <3>3. ASSUME NEW n \in 0..MaxEntries, Saved(n) PROVE Saved(n)'
      BY <3>1, <3>3 DEF Saved, LastByte, Row, Whole, Holds, End
    <3>4. ASSUME NEW n \in 0..MaxEntries, Session(n) PROVE Session(n)'
      <4>1. InMemory'
        BY <3>1, <3>4 DEF Session, InMemory, LastByte, Row, Whole, Holds, End
      <4>2. AtEntry' /\ AtTableHeader'
        BY <3>1, <3>4 DEF Session, AtEntry, AtTableHeader, Whole, Holds, End
      <4> QED
        BY <3>1, <3>4, <4>1, <4>2 DEF Session
    <3> QED
      BY <3>1, <3>2, <3>3, <3>4 DEF IInv, Safe
  <2> QED
    BY <2>1, <2>2
<1> QED
  BY <1>1, <1>2, PTL DEF Spec

-----------------------------------------------------------------------------
LEMMA WholeDocument == ASSUME NEW e, Whole(e) PROVE Document(e) # None
<1>1. PICK v \in Values : Holds(e, v)
  BY DEF Whole
<1>2. e # None
  BY StoreAssumption DEF Whole
<1>3. (CHOOSE u \in Values : Holds(e, u)) \in Values
  BY <1>1
<1> QED
  BY <1>1, <1>2, <1>3, StoreAssumption DEF Document

(* The types of the store's files and memory. *)
THEOREM TypeCorrect == Spec => []TypeOK
<1>1. IInv => TypeOK
  BY DEF IInv
<1> QED
  BY <1>1, Inductive, PTL

(* No entry of a session ever names bytes that are not its document, for any *)
(* sizes of documents and whatever threw, crashed or was cut short before.   *)
THEOREM DocumentsIntact == Spec => []EntriesIntact
<1>1. IInv => EntriesIntact
  <2> SUFFICES ASSUME IInv, session = "open", step # "deleting"
               PROVE  /\ \A i \in DOMAIN entries : Document(entries[i]) # None
                      /\ \A i, j \in DOMAIN entries : i < j =>
                           entries[i].offset + entries[i].length <= entries[j].offset
    BY DEF EntriesIntact
  <2>1. InMemory /\ DOMAIN entries = 1..Len(entries)
    BY DEF IInv, Safe, Session, TypeOK
  <2> QED
    BY <2>1, WholeDocument DEF InMemory, End
<1> QED
  BY <1>1, Inductive, PTL

(* Whenever the process dies, what the next session will read is whole, and  *)
(* below where it will write.                                                *)
THEOREM CrashesLoseNothing == Spec => []CrashSafe
<1>1. IInv => CrashSafe
  <2> SUFFICES ASSUME IInv, step # "deleting"
               PROVE  \A k \in DOMAIN Persisted :
                        /\ Persisted[k] # None
                        /\ Document(Persisted[k]) # None
                        /\ Persisted[k].offset + Persisted[k].length <= LastByte(dataHeader)
    BY DEF CrashSafe
  <2>1. PICK n \in 0..MaxEntries : Saved(n)
    BY DEF IInv, Safe
  <2>2. Persisted = EntriesUpTo(Loc(n))
    BY <2>1 DEF Persisted, Saved
  <2>3. DOMAIN Persisted = 1..n /\ \A k \in 1..n : Persisted[k] = Row(k)
    BY <2>2, LocationsOf DEF Row
  <2>4. \A k \in 1..n : Whole(Row(k)) /\ End(Row(k)) <= LastByte(dataHeader)
    BY <2>1 DEF Saved
  <2>5. \A k \in 1..n : Row(k) # None
    BY <2>4, StoreAssumption DEF Whole
  <2> QED
    BY <2>3, <2>4, <2>5, WholeDocument DEF End
<1> QED
  BY <1>1, Inductive, PTL

(* The session counts as many entries as its table file holds, for every     *)
(* length of entry that is no shorter than the header.                       *)
THEOREM EntriesCounted == Spec => []AllEntriesRead
<1>1. IInv => AllEntriesRead
  BY DEF IInv, Calls, AllEntriesRead, Loc
<1> QED
  BY <1>1, Inductive, PTL

-----------------------------------------------------------------------------
(* Callers that push fresh ids only. *)

(* f finds each entry of s by its id, and nothing else. *)
IsIndex(s, f) ==
  /\ \A k \in DOMAIN s : f[s[k].id] = s[k]
  /\ \A id \in Ids : f[id] = None \/ \E k \in DOMAIN s : s[k].id = id /\ f[id] = s[k]

(* Neither the files nor the session know an id twice. *)
FreshInv ==
  /\ session # "failed"
  /\ step # "deleting" => DistinctIds(Persisted)
  /\ (session = "open" /\ step # "deleting") =>
       /\ DistinctIds(entries)
       /\ IsIndex(entries, index)
       /\ step = "entry" => \A k \in DOMAIN entries : entries[k].id # pending.id

StoreInv == IInv /\ FreshInv

(* What the next session would read are the rows that are saved. *)
LEMMA PersistedRows ==
  ASSUME IInv, step # "deleting"
  PROVE  \E n \in 0..MaxEntries :
           /\ Saved(n) /\ (session = "open" => Session(n))
           /\ Persisted = EntriesUpTo(Loc(n))
           /\ Persisted \in Seq(Entry) /\ DOMAIN Persisted = 1..n
           /\ \A k \in 1..n : Persisted[k] = Row(k)
<1>1. PICK n \in 0..MaxEntries : Saved(n) /\ (session = "open" => Session(n))
  BY DEF IInv, Safe
<1>2. Persisted = EntriesUpTo(Loc(n))
  BY <1>1 DEF Persisted, Saved
<1>3. /\ DOMAIN Persisted = 1..n
      /\ \A k \in 1..n : Persisted[k] = Row(k)
  BY <1>2, LocationsOf DEF Row
<1>4. n \in Nat /\ \A k \in 1..n : Row(k) \in Entry
  BY <1>1, StoreAssumption DEF Saved, Whole
<1>5. Persisted = [k \in 1..n |-> Persisted[k]]
  BY <1>2, <1>3 DEF EntriesUpTo
<1>6. Persisted \in Seq(Entry)
  BY <1>3, <1>4, <1>5
<1> QED
  BY <1>1, <1>2, <1>3, <1>6

LEMMA IdsOfEntries ==
  ASSUME NEW s \in Seq(Entry)
  PROVE  \A k \in DOMAIN s : s[k] \in Entry /\ s[k].id \in Ids
<1>1. \A k \in DOMAIN s : s[k] \in Entry
  OBVIOUS
<1>2. \A e \in Entry : e.id \in Ids
  BY DEF Entry
<1> QED
  BY <1>1, <1>2

LEMMA IndexOfIs ==
  ASSUME NEW s \in Seq(Entry), DistinctIds(s)
  PROVE  IsIndex(s, IndexOf(s))
<1>0. \A k \in DOMAIN s : s[k] \in Entry /\ s[k].id \in Ids
  BY IdsOfEntries
<1>1. ASSUME NEW k \in DOMAIN s PROVE IndexOf(s)[s[k].id] = s[k]
  <2>1. PICK j : j = CHOOSE i \in DOMAIN s : s[i].id = s[k].id
    OBVIOUS
  <2>2. j \in DOMAIN s /\ s[j].id = s[k].id
    BY <2>1
  <2>3. j = k
    BY <2>2 DEF DistinctIds
  <2>4. IndexOf(s)[s[k].id] = s[j]
    BY <1>0, <2>1 DEF IndexOf
  <2> QED
    BY <2>3, <2>4
<1>2. ASSUME NEW id \in Ids, \A k \in DOMAIN s : s[k].id # id
      PROVE  IndexOf(s)[id] = None
  BY <1>2 DEF IndexOf
<1> QED
  BY <1>0, <1>1, <1>2 DEF IsIndex

LEMMA OneIndex ==
  ASSUME NEW s \in Seq(Entry), NEW f, NEW g, IsIndex(s, f), IsIndex(s, g)
  PROVE  \A id \in Ids : f[id] = g[id]
<1>1. \A k \in DOMAIN s : s[k] # None /\ s[k].id \in Ids
  BY IdsOfEntries, StoreAssumption
<1> QED
  BY <1>1 DEF IsIndex

(* The table file without a write to it, or to its header. *)
LEMMA PersistedStays ==
  ASSUME UNCHANGED table, LastByte(tableHeader') = LastByte(tableHeader)
  PROVE  Persisted' = Persisted
BY DEF Persisted, EntriesUpTo, Locations, LastByte

(* A new entry stands behind everything that is saved. *)
LEMMA PersistedBehind ==
  ASSUME IInv, WriteEntry
  PROVE  Persisted' = Persisted
<1>1. TypeOK /\ session = "open" /\ step # "deleting"
  BY DEF IInv, Calls, WriteEntry
<1>2. PICK n \in 0..MaxEntries : /\ Saved(n) /\ Session(n)
                                 /\ Persisted = EntriesUpTo(Loc(n))
  BY <1>1, PersistedRows
<1>3. PICK l \in Nat : l = Len(entries)
  BY <1>1 DEF TypeOK
<1>4. n \in Nat /\ n <= l /\ tableLast = Loc(l)
  BY <1>1, <1>2, <1>3, StoreAssumption DEF Session, IInv, Calls
<1>5. \A k \in 1..n : Loc(k - 1) # Loc(l)
  <2> SUFFICES ASSUME NEW k \in 1..n PROVE Loc(k - 1) # Loc(l)
    OBVIOUS
  <2>1. k - 1 \in Nat /\ k - 1 < l
    BY <1>4
  <2> QED
    BY <1>3, <2>1, LocFacts, StoreAssumption, SMTT(30)
<1>6. table' = [table EXCEPT ![Loc(l)] = pending]
  BY <1>4 DEF WriteEntry
<1>7. \A k \in 1..n : table'[Loc(k - 1)] = table[Loc(k - 1)]
  BY <1>1, <1>5, <1>6 DEF TypeOK
<1>8. \A k \in 1..n : HeaderLength + (k - 1) * EntryLength = Loc(k - 1)
  BY <1>4 DEF Loc
<1>9. Cardinality(Locations(Loc(n))) = n
  BY LocationsOf
<1>10. EntriesUpTo(Loc(n))' = EntriesUpTo(Loc(n))
  <2>1. EntriesUpTo(Loc(n)) = [k \in 1..n |-> table[HeaderLength + (k - 1) * EntryLength]]
    BY <1>9 DEF EntriesUpTo
  <2>2. EntriesUpTo(Loc(n))' = [k \in 1..n |-> table'[HeaderLength + (k - 1) * EntryLength]]
    BY <1>9 DEF EntriesUpTo
  <2> QED
    BY <1>7, <1>8, <2>1, <2>2
<1>11. LastByte(tableHeader)' = Loc(n)
  BY <1>2 DEF Saved, LastByte, WriteEntry
<1>12. Persisted' = EntriesUpTo(Loc(n))'
  BY <1>11 DEF Persisted, EntriesUpTo, Locations
<1> QED
  BY <1>2, <1>10, <1>12

(* After the last write the files have what the session has. *)
LEMMA PersistedCatchesUp ==
  ASSUME IInv, WriteTableHeader
  PROVE  Persisted' = entries
<1>1. TypeOK /\ session = "open" /\ step # "deleting"
  BY DEF IInv, Calls, WriteTableHeader
<1>2. PICK n \in 0..MaxEntries : Session(n)
  BY <1>1 DEF IInv, Safe
<1>3. PICK l \in 0..MaxEntries : l = Len(entries)
  BY <1>1, <1>2, StoreAssumption DEF TypeOK, Session, InMemory
<1>4. l \in Nat /\ tableLast = Loc(l) /\ entries \in Seq(Entry)
  BY <1>1, <1>3, StoreAssumption DEF IInv, Calls, TypeOK
<1>5. LastByte(tableHeader)' = Loc(l) /\ table' = table
  BY <1>3, <1>4, LocFacts, StoreAssumption DEF LastByte, WriteTableHeader
<1>6. Persisted' = EntriesUpTo(Loc(l))
  BY <1>5 DEF Persisted, EntriesUpTo, Locations
<1>7. \A k \in 1..l : EntriesUpTo(Loc(l))[k] = entries[k]
  BY <1>2, <1>3, LocationsOf DEF Session, InMemory, Row
<1>8. EntriesUpTo(Loc(l)) = [k \in 1..l |-> EntriesUpTo(Loc(l))[k]]
  BY LocationsOf DEF EntriesUpTo
<1>9. entries = [k \in 1..l |-> entries[k]]
  BY <1>3, <1>4
<1> QED
  BY <1>6, <1>7, <1>8, <1>9

(* The constructor accepts what is saved. *)
LEMMA OpenFresh ==
  ASSUME StoreInv, Open
  PROVE  /\ session' = "open" /\ step' = "idle"
         /\ entries' = Persisted /\ index' = IndexOf(Persisted)
         /\ Persisted' = Persisted
<1>1. TypeOK /\ step # "deleting" /\ DistinctIds(Persisted)
  BY DEF StoreInv, IInv, Calls, Open, FreshInv
<1>2. PICK n \in 0..MaxEntries : Saved(n) /\ Persisted = EntriesUpTo(Loc(n))
  BY <1>1, PersistedRows DEF StoreInv
<1>3. tableHeader' = Loc(n) /\ LastByte(tableHeader') = LastByte(tableHeader)
  BY <1>1, <1>2, OpenReads
<1>4. EntriesUpTo(tableHeader') = Persisted
  BY <1>2, <1>3
<1>5. /\ session' = "open" /\ step' = "idle"
      /\ entries' = Persisted /\ index' = IndexOf(Persisted)
  BY <1>1, <1>4 DEF Open
<1>6. Persisted' = Persisted
  BY <1>3, PersistedStays DEF Open
<1> QED
  BY <1>5, <1>6

(* After Delete the table file has nothing in it. *)
LEMMA BlankTable == ASSUME tableHeader' = None PROVE DOMAIN Persisted' = {}
<1>1. LastByte(tableHeader)' = Loc(0)
  BY LocFacts DEF LastByte
<1>2. 0 \in 0..MaxEntries
  BY StoreAssumption
<1>3. Cardinality(Locations(Loc(0))) = 0
  BY <1>2, LocationsOf
<1>4. Persisted' = [k \in 1..Cardinality(Locations(Loc(0))) |->
                      table'[HeaderLength + (k - 1) * EntryLength]]
  BY <1>1 DEF Persisted, EntriesUpTo, Locations
<1> QED
  BY <1>3, <1>4

(* No step makes an id known twice. *)
LEMMA FreshStep ==
  ASSUME FreshIds, StoreInv, [Next]_vars
  PROVE  FreshInv'
<1>0. TypeOK /\ IInv /\ FreshInv
  BY DEF StoreInv, IInv
<1>1. CASE Open
  <2>1. PICK n \in 0..MaxEntries : Persisted \in Seq(Entry)
    BY <1>0, <1>1, PersistedRows DEF IInv, Calls, Open
  <2>2. DistinctIds(Persisted)
    BY <1>0, <1>1 DEF IInv, Calls, Open, FreshInv
  <2>3. IsIndex(Persisted, IndexOf(Persisted))
    BY <2>1, <2>2, IndexOfIs
  <2> QED
    BY <1>1, <2>2, <2>3, OpenFresh DEF FreshInv
<1>2. ASSUME NEW id \in Ids, NEW v \in Values, WriteData(id, v) PROVE FreshInv'
  <2>1. session = "open" /\ step # "deleting" /\ index[id] = None
    BY <1>2 DEF WriteData, Ready
  <2>2. /\ DistinctIds(entries) /\ IsIndex(entries, index) /\ DistinctIds(Persisted)
    BY <1>0, <2>1 DEF FreshInv
  <2>3. \A k \in DOMAIN entries : entries[k].id # id
    <3>1. \A k \in DOMAIN entries : entries[k] # None
      BY <1>0, StoreAssumption DEF TypeOK
    <3> QED
      BY <2>1, <2>2, <3>1 DEF IsIndex
  <2>4. Persisted' = Persisted
    BY <1>2, PersistedStays DEF WriteData
  <2>5. /\ session' = "open" /\ step' = "entry" /\ entries' = entries /\ index' = index
        /\ pending'.id = id
    BY <1>2, <2>1 DEF WriteData
  <2> QED
    BY <2>2, <2>3, <2>4, <2>5 DEF FreshInv
<1>3. CASE WriteEntry
  <2>1. session = "open" /\ step = "entry"
    BY <1>0, <1>3 DEF IInv, Calls, WriteEntry
  <2>2. /\ DistinctIds(entries) /\ IsIndex(entries, index) /\ DistinctIds(Persisted)
        /\ \A k \in DOMAIN entries : entries[k].id # pending.id
    BY <1>0, <2>1 DEF FreshInv
  <2>3. pending \in Entry /\ pending.id \in Ids
    BY <1>0, <2>1 DEF IInv, Safe, Session, AtEntry, Whole, Entry
  <2>4. PICK l \in Nat : l = Len(entries)
    BY <1>0 DEF TypeOK
  <2>5. /\ entries \in Seq(Entry) /\ DOMAIN entries = 1..l
        /\ DOMAIN entries' = 1..(l + 1) /\ entries'[l + 1] = pending
        /\ \A k \in 1..l : entries'[k] = entries[k]
    BY <1>0, <1>3, <2>3, <2>4 DEF TypeOK, WriteEntry
  <2>6. 1..(l + 1) = 1..l \cup {l + 1} /\ l + 1 \notin 1..l
    BY <2>4
  <2>7. DistinctIds(entries')
    BY <2>2, <2>5, <2>6 DEF DistinctIds
  <2>8. /\ index'[pending.id] = pending
        /\ \A id \in Ids : id # pending.id => index'[id] = index[id]
    BY <1>0, <1>3, <2>3 DEF TypeOK, WriteEntry
  <2>9. IsIndex(entries', index')
    <3>1. \A k \in 1..l : entries[k].id \in Ids
      BY <1>0, <2>4, IdsOfEntries DEF TypeOK
    <3>2. \A k \in 1..(l + 1) : index'[entries'[k].id] = entries'[k]
      BY <2>2, <2>5, <2>6, <2>8, <3>1 DEF IsIndex
    <3>3. ASSUME NEW id \in Ids
          PROVE  index'[id] = None
                   \/ \E k \in 1..(l + 1) : entries'[k].id = id /\ index'[id] = entries'[k]
      <4>1. CASE id = pending.id
        BY <2>5, <2>6, <2>8, <4>1
      <4>2. CASE id # pending.id
        <5>1. index'[id] = index[id]
          BY <2>8, <4>2
        <5>2. index[id] = None \/ \E k \in 1..l : entries[k].id = id /\ index[id] = entries[k]
          BY <2>2, <2>5 DEF IsIndex
        <5> QED
          BY <2>5, <2>6, <5>1, <5>2
      <4> QED
        BY <4>1, <4>2
    <3> QED
      BY <2>5, <3>2, <3>3 DEF IsIndex
  <2>10. Persisted' = Persisted
    BY <1>0, <1>3, PersistedBehind
  <2>11. session' = "open" /\ step' = "dataHeader"
    BY <1>3, <2>1 DEF WriteEntry
  <2> QED
    BY <2>2, <2>7, <2>9, <2>10, <2>11 DEF FreshInv
<1>4. CASE WriteDataHeader
  <2>1. Persisted' = Persisted
    BY <1>4, PersistedStays DEF WriteDataHeader
  <2>2. /\ UNCHANGED <<session, entries, index>>
        /\ step = "dataHeader" /\ step' = "tableHeader"
    BY <1>4 DEF WriteDataHeader
  <2> QED
    BY <1>0, <2>1, <2>2 DEF FreshInv
<1>5. CASE WriteTableHeader
  <2>1. Persisted' = entries
    BY <1>0, <1>5, PersistedCatchesUp
  <2>2. /\ UNCHANGED <<session, entries, index>>
        /\ step = "tableHeader" /\ step' = "idle" /\ session = "open"
    BY <1>0, <1>5 DEF WriteTableHeader, IInv, Calls
  <2> QED
    BY <1>0, <2>1, <2>2 DEF FreshInv
<1>6. CASE PushThrows
  <2>1. Persisted' = Persisted
    BY <1>6, PersistedStays DEF PushThrows, files
  <2>2. /\ UNCHANGED <<session, entries, index>>
        /\ step # "deleting" /\ step' = "threw"
    BY <1>6 DEF PushThrows
  <2> QED
    BY <1>0, <2>1, <2>2 DEF FreshInv
<1>7. CASE Dispose \/ Crash
  <2>1. Persisted' = Persisted
    BY <1>7, PersistedStays DEF Dispose, Crash, files
  <2>2. session' = "closed" /\ step' = "idle" /\ step # "deleting"
    BY <1>7 DEF Dispose, Crash, Forget, Ready
  <2> QED
    BY <1>0, <2>1, <2>2 DEF FreshInv
<1>8. ASSUME NEW v \in Values, NEW n \in 0..Size[v], CrashInCopy(v, n) \/ CopyThrows(v, n)
      PROVE  FreshInv'
  <2>1. Persisted' = Persisted
    BY <1>8, PersistedStays DEF CrashInCopy, CopyThrows
  <2>2. step # "deleting" /\ session = "open"
    BY <1>8 DEF CrashInCopy, CopyThrows, Ready
  <2>3. \/ session' = "closed" /\ step' = "idle"
        \/ step' = "threw" /\ UNCHANGED <<session, entries, index>>
    BY <1>8 DEF CrashInCopy, CopyThrows, Forget
  <2> QED
    BY <1>0, <2>1, <2>2, <2>3 DEF FreshInv
<1>9. CASE DeleteData
  <2>1. step' = "deleting" /\ session' = session
    BY <1>9 DEF DeleteData
  <2> QED
    BY <1>0, <2>1 DEF FreshInv
<1>10. CASE DeleteTable
  <2>1. /\ session' = "closed" /\ step' = "idle" /\ tableHeader' = None
    BY <1>10 DEF DeleteTable, Forget
  <2>2. DOMAIN Persisted' = {}
    BY <2>1, BlankTable
  <2> QED
    BY <2>1, <2>2 DEF FreshInv, DistinctIds
<1>11. CASE UNCHANGED vars
  <2>1. UNCHANGED <<table, tableHeader, session, entries, index, step, pending>>
    BY <1>11 DEF vars, files, memory
  <2>2. Persisted' = Persisted
    BY <2>1, PersistedStays
  <2> QED
    BY <1>0, <2>1, <2>2 DEF FreshInv
<1> QED
  BY <1>1, <1>2, <1>3, <1>4, <1>5, <1>6, <1>7, <1>8, <1>9, <1>10, <1>11 DEF Next

LEMMA FreshInit == Init => FreshInv
<1> SUFFICES ASSUME Init PROVE FreshInv
  OBVIOUS
<1>1. session = "closed" /\ tableHeader = None
  BY DEF Init
<1>2. LastByte(tableHeader) = Loc(0) /\ 0 \in 0..MaxEntries
  BY <1>1, LocFacts, StoreAssumption DEF LastByte
<1>3. DOMAIN Persisted = {}
  BY <1>2, LocationsOf DEF Persisted
<1> QED
  BY <1>1, <1>3 DEF FreshInv, DistinctIds

LEMMA StoreInductive == ASSUME FreshIds PROVE Spec => []StoreInv
<1>1. Init => FreshInv
  BY FreshInit
<1>2. StoreInv /\ IInv' /\ [Next]_vars => StoreInv'
  BY FreshStep DEF StoreInv
<1>3. IInv /\ FreshInv => StoreInv
  BY DEF StoreInv
<1> QED
  BY <1>1, <1>2, <1>3, Inductive, PTL DEF Spec

-----------------------------------------------------------------------------
(* What the documents of the files and of the session do in each step.       *)

(* Holds and Document, of any data file. *)
HoldsIn(d, e, v) ==
  /\ e.length = Size[v]
  /\ \A i \in 0..(e.length - 1) : d[e.offset + i] = <<v, i>>

DocumentIn(d, e) ==
  IF e # None /\ \E v \in Values : HoldsIn(d, e, v)
  THEN CHOOSE v \in Values : HoldsIn(d, e, v) ELSE None

LEMMA DocumentsAre ==
  /\ IsOpen =>
       /\ SessionDocs = [id \in Ids |-> DocumentIn(data, index[id])]
  /\ ~IsOpen => SessionDocs = SavedDocs
  /\ step # "deleting" =>
       SavedDocs = [id \in Ids |-> DocumentIn(data, IndexOf(Persisted)[id])]
  /\ step = "deleting" => SavedDocs = [id \in Ids |-> None]
BY DEF SessionDocs, SavedDocs, Document, DocumentIn, Holds, HoldsIn

LEMMA DocumentsWillBe ==
  /\ IsOpen' =>
       /\ SessionDocs' = [id \in Ids |-> DocumentIn(data', index'[id])]
  /\ ~IsOpen' => SessionDocs' = SavedDocs'
  /\ step' # "deleting" =>
       SavedDocs' = [id \in Ids |-> DocumentIn(data', IndexOf(Persisted')[id])]
  /\ step' = "deleting" => SavedDocs' = [id \in Ids |-> None]
BY DEF SessionDocs, SavedDocs, Document, DocumentIn, Holds, HoldsIn

LEMMA OneDocument ==
  ASSUME NEW d, NEW e, e # None, NEW v \in Values, HoldsIn(d, e, v)
  PROVE  DocumentIn(d, e) = v
<1>1. ASSUME NEW u \in Values, HoldsIn(d, e, u) PROVE u = v
  <2>1. e.length = Size[v] /\ Size[v] \in Nat \ {0}
    BY StoreAssumption DEF HoldsIn
  <2>2. 0 \in 0..(e.length - 1)
    BY <2>1
  <2>3. d[e.offset + 0] = <<u, 0>> /\ d[e.offset + 0] = <<v, 0>>
    BY <1>1, <2>2 DEF HoldsIn
  <2> QED
    BY <2>3
<1> QED
  BY <1>1 DEF DocumentIn

LEMMA NoDocument == ASSUME NEW d PROVE DocumentIn(d, None) = None
BY DEF DocumentIn

(* A document is what it was as long as it is nowhere or below the write. *)
LEMMA DocumentKept ==
  ASSUME NEW v, NEW offset \in Nat, NEW n \in Nat, data' = Written(v, offset, n),
         NEW e, e = None \/ (Whole(e) /\ End(e) <= offset)
  PROVE  DocumentIn(data', e) = DocumentIn(data, e)
<1>1. CASE e = None
  BY <1>1, NoDocument
<1>2. CASE Whole(e) /\ End(e) <= offset
  <2>1. PICK u \in Values : Holds(e, u)
    BY <1>2 DEF Whole
  <2>2. e.offset \in Nat /\ e.length \in Nat /\ MaxData \in Nat
    BY <1>2, StoreAssumption DEF Whole, Entry
  <2>3. \A i \in 0..(e.length - 1) : data'[e.offset + i] = data[e.offset + i]
    <3> SUFFICES ASSUME NEW i \in 0..(e.length - 1)
                 PROVE  data'[e.offset + i] = data[e.offset + i]
      OBVIOUS
    <3>1. e.offset + i \in DataBytes /\ e.offset + i \notin offset..(offset + n - 1)
      BY <1>2, <2>2 DEF Whole, End, DataBytes
    <3> QED
      BY <3>1 DEF Written
  <2>4. HoldsIn(data, e, u) /\ HoldsIn(data', e, u)
    BY <2>1, <2>3 DEF Holds, HoldsIn
  <2>5. e # None
    BY <1>2, StoreAssumption DEF Whole
  <2> QED
    BY <2>4, <2>5, OneDocument
<1> QED
  BY <1>1, <1>2

(* Whatever an id names, saved or in the session, is a whole document. *)
LEMMA SavedWhole ==
  ASSUME StoreInv, step # "deleting"
  PROVE  /\ IsIndex(Persisted, IndexOf(Persisted))
         /\ Persisted \in Seq(Entry)
         /\ \A id \in Ids : LET e == IndexOf(Persisted)[id]
                            IN  e = None \/ (Whole(e) /\ End(e) <= LastByte(dataHeader))
<1>1. PICK n \in 0..MaxEntries :
        /\ Saved(n) /\ Persisted \in Seq(Entry) /\ DOMAIN Persisted = 1..n
        /\ \A k \in 1..n : Persisted[k] = Row(k)
  BY PersistedRows DEF StoreInv
<1>2. IsIndex(Persisted, IndexOf(Persisted))
  BY <1>1, IndexOfIs DEF StoreInv, FreshInv
<1>3. \A k \in 1..n : Whole(Persisted[k]) /\ End(Persisted[k]) <= LastByte(dataHeader)
  BY <1>1 DEF Saved
<1> QED
  BY <1>1, <1>2, <1>3 DEF IsIndex

LEMMA SessionWhole ==
  ASSUME StoreInv, IsOpen
  PROVE  /\ IsIndex(entries, index)
         /\ LastByte(dataHeader) \in Nat /\ dataLast \in Nat
         /\ LastByte(dataHeader) <= dataLast
         /\ \A id \in Ids : index[id] = None
                              \/ (Whole(index[id]) /\ End(index[id]) <= dataLast)
<1>1. TypeOK /\ session = "open" /\ step # "deleting"
  BY DEF StoreInv, IInv, IsOpen
<1>2. PICK n \in 0..MaxEntries : Session(n)
  BY <1>1 DEF StoreInv, IInv, Safe
<1>3. IsIndex(entries, index)
  BY <1>1 DEF StoreInv, FreshInv
<1>4. \A k \in DOMAIN entries : Whole(entries[k]) /\ End(entries[k]) <= dataLast
  BY <1>1, <1>2 DEF Session, InMemory, TypeOK
<1>5. LastByte(dataHeader) \in Nat /\ dataLast \in Nat
  BY <1>1, StoreAssumption DEF TypeOK, LastByte
<1> QED
  BY <1>2, <1>3, <1>4, <1>5 DEF IsIndex, Session, InMemory

(* Nothing that an id names is written over, nor forgotten by the files. *)
LEMMA SavedStays ==
  ASSUME StoreInv, step # "deleting", step' # "deleting", Persisted' = Persisted,
         \A e : e = None \/ (Whole(e) /\ End(e) <= LastByte(dataHeader))
                  => DocumentIn(data', e) = DocumentIn(data, e)
  PROVE  SavedDocs' = SavedDocs
<1>1. \A id \in Ids : DocumentIn(data', IndexOf(Persisted)[id])
                        = DocumentIn(data, IndexOf(Persisted)[id])
  BY SavedWhole
<1>2. SavedDocs' = [id \in Ids |-> DocumentIn(data', IndexOf(Persisted)[id])]
  BY DocumentsWillBe
<1>3. SavedDocs = [id \in Ids |-> DocumentIn(data, IndexOf(Persisted)[id])]
  BY DocumentsAre
<1> QED
  BY <1>1, <1>2, <1>3

LEMMA SessionStays ==
  ASSUME StoreInv, IsOpen, IsOpen', index' = index,
         \A e : e = None \/ (Whole(e) /\ End(e) <= dataLast)
                  => DocumentIn(data', e) = DocumentIn(data, e)
  PROVE  SessionDocs' = SessionDocs
<1>1. \A id \in Ids : DocumentIn(data', index[id]) = DocumentIn(data, index[id])
  BY SessionWhole
<1>2. SessionDocs' = [id \in Ids |-> DocumentIn(data', index[id])]
  BY DocumentsWillBe
<1>3. SessionDocs = [id \in Ids |-> DocumentIn(data, index[id])]
  BY DocumentsAre
<1> QED
  BY <1>1, <1>2, <1>3

(* A write of document bytes keeps all the documents there are. *)
LEMMA WriteKeepsDocuments ==
  ASSUME StoreInv, IsOpen, step' # "deleting", NEW v, NEW n \in Nat,
         data' = Written(v, dataLast, n), UNCHANGED <<table, tableHeader>>
  PROVE  /\ SavedDocs' = SavedDocs
         /\ IsOpen' /\ index' = index => SessionDocs' = SessionDocs
<1>1. /\ dataLast \in Nat /\ LastByte(dataHeader) \in Nat
      /\ LastByte(dataHeader) <= dataLast
  BY SessionWhole
<1>2. \A e : e = None \/ (Whole(e) /\ End(e) <= dataLast)
               => DocumentIn(data', e) = DocumentIn(data, e)
  BY <1>1, DocumentKept
<1>3. \A e : Whole(e) => End(e) \in Nat
  BY DEF Whole, End, Entry
<1>4. \A e : e = None \/ (Whole(e) /\ End(e) <= LastByte(dataHeader))
               => DocumentIn(data', e) = DocumentIn(data, e)
  BY <1>1, <1>2, <1>3
<1>5. Persisted' = Persisted
  BY PersistedStays
<1>6. SavedDocs' = SavedDocs
  BY <1>4, <1>5, SavedStays DEF IsOpen
<1> QED
  BY <1>2, <1>6, SessionStays

(* Nothing changes for a session that only writes headers, or throws. *)
LEMMA DocumentsStay ==
  ASSUME StoreInv, step # "deleting", step' # "deleting",
         UNCHANGED data, Persisted' = Persisted
  PROVE  /\ SavedDocs' = SavedDocs
         /\ IsOpen /\ IsOpen' /\ index' = index => SessionDocs' = SessionDocs
BY SavedStays, SessionStays

LEMMA OpenImplements == StoreInv /\ Open => Store!OpenSession
<1> SUFFICES ASSUME StoreInv, Open PROVE Store!OpenSession
  OBVIOUS
<1>1. ~IsOpen /\ step # "deleting"
  BY DEF Open, IsOpen, StoreInv, IInv, Calls
<1>2. /\ session' = "open" /\ step' = "idle"
      /\ index' = IndexOf(Persisted) /\ Persisted' = Persisted /\ data' = data
  BY OpenFresh DEF Open
<1>3. IsOpen' /\ Call' = "idle" /\ Call = "idle"
  <2>1. IsOpen'
    BY <1>2 DEF IsOpen
  <2>2. Call' = "idle"
    BY <1>2 DEF Call
  <2>3. Call = "idle"
    BY <1>1 DEF Call
  <2> QED
    BY <2>1, <2>2, <2>3
<1>4. SavedDocs' = SavedDocs
  BY <1>1, <1>2, DocumentsStay
<1>5. SessionDocs' = [id \in Ids |-> DocumentIn(data, IndexOf(Persisted)[id])]
  BY <1>2, <1>3, DocumentsWillBe
<1>6. SessionDocs' = SavedDocs
  BY <1>1, <1>5, DocumentsAre
<1> QED
  BY <1>1, <1>3, <1>4, <1>6 DEF Store!OpenSession

LEMMA WriteDataImplements ==
  ASSUME StoreInv, NEW id \in Ids, NEW v \in Values, WriteData(id, v)
  PROVE  Store!BeginPush
<1>1. /\ session = "open" /\ session' = "open" /\ step \in {"idle", "threw"}
      /\ step' = "entry" /\ index' = index
  BY DEF WriteData, Ready
<1>2. IsOpen /\ IsOpen' /\ Call # "pushing" /\ Call' = "pushing"
  BY <1>1 DEF IsOpen, Call
<1>3. data' = Written(v, dataLast, Size[v]) /\ Size[v] \in Nat
      /\ UNCHANGED <<table, tableHeader>>
  BY StoreAssumption DEF WriteData
<1>4. SavedDocs' = SavedDocs /\ SessionDocs' = SessionDocs
  BY <1>1, <1>2, <1>3, WriteKeepsDocuments
<1> QED
  BY <1>2, <1>4 DEF Store!BeginPush

LEMMA WriteEntryImplements ==
  ASSUME StoreInv, WriteEntry
  PROVE  \E id \in Ids, v \in Values : Store!PushDoc(id, v)
<1>1. /\ session = "open" /\ session' = "open" /\ step = "entry"
      /\ step' = "dataHeader" /\ data' = data
      /\ index' = [index EXCEPT ![pending.id] = pending] /\ TypeOK
  BY DEF WriteEntry, StoreInv, IInv, Calls
<1>2. IsOpen /\ IsOpen' /\ Call = "pushing" /\ Call' = "pushing"
  BY <1>1 DEF IsOpen, Call
<1>3. Whole(pending)
  BY <1>1 DEF StoreInv, IInv, Safe, Session, AtEntry
<1>4. PICK v \in Values : Holds(pending, v)
  BY <1>3 DEF Whole
<1>5. PICK id \in Ids : id = pending.id
  BY <1>3 DEF Whole, Entry
<1>6. DocumentIn(data, pending) = v
  <2>1. HoldsIn(data, pending, v)
    BY <1>4 DEF Holds, HoldsIn
  <2>2. pending # None
    BY <1>3, StoreAssumption DEF Whole
  <2> QED
    BY <2>1, <2>2, OneDocument
<1>7. SavedDocs' = SavedDocs
  BY <1>1, DocumentsStay, PersistedBehind DEF StoreInv
<1>8. SessionDocs' = [SessionDocs EXCEPT ![id] = v]
  <2>1. SessionDocs = [i \in Ids |-> DocumentIn(data, index[i])]
    BY <1>2, DocumentsAre
  <2>2. SessionDocs' = [i \in Ids |-> DocumentIn(data, index'[i])]
    BY <1>1, <1>2, DocumentsWillBe
  <2>3. \A i \in Ids : index'[i] = IF i = id THEN pending ELSE index[i]
    BY <1>1, <1>5 DEF TypeOK
  <2> QED
    BY <1>6, <2>1, <2>2, <2>3
<1>9. Store!PushDoc(id, v)
  BY <1>2, <1>7, <1>8 DEF Store!PushDoc
<1> QED
  BY <1>9

LEMMA WriteDataHeaderImplements ==
  StoreInv /\ WriteDataHeader => UNCHANGED Store!vars
<1> SUFFICES ASSUME StoreInv, WriteDataHeader PROVE UNCHANGED Store!vars
  OBVIOUS
<1>1. /\ session = "open" /\ session' = session /\ step = "dataHeader"
      /\ step' = "tableHeader" /\ data' = data /\ index' = index
  BY DEF WriteDataHeader, StoreInv, IInv, Calls
<1>2. IsOpen /\ IsOpen' /\ Call = "pushing" /\ Call' = "pushing"
  BY <1>1 DEF IsOpen, Call
<1>3. Persisted' = Persisted
  BY PersistedStays DEF WriteDataHeader
<1>4. SavedDocs' = SavedDocs /\ SessionDocs' = SessionDocs
  BY <1>1, <1>2, <1>3, DocumentsStay
<1> QED
  BY <1>2, <1>4 DEF Store!vars

LEMMA WriteTableHeaderImplements ==
  StoreInv /\ WriteTableHeader => Store!ReturnFromPush
<1> SUFFICES ASSUME StoreInv, WriteTableHeader PROVE Store!ReturnFromPush
  OBVIOUS
<1>1. /\ session = "open" /\ session' = session /\ step = "tableHeader"
      /\ step' = "idle" /\ data' = data /\ index' = index /\ TypeOK
  BY DEF WriteTableHeader, StoreInv, IInv, Calls
<1>2. IsOpen /\ IsOpen' /\ Call = "pushing" /\ Call' = "idle"
  BY <1>1 DEF IsOpen, Call
<1>3. SessionDocs = [id \in Ids |-> DocumentIn(data, index[id])]
      /\ SessionDocs' = [id \in Ids |-> DocumentIn(data, index[id])]
  BY <1>1, <1>2, DocumentsAre, DocumentsWillBe
<1>4. \A id \in Ids : IndexOf(entries)[id] = index[id]
  <2>1. entries \in Seq(Entry) /\ DistinctIds(entries) /\ IsIndex(entries, index)
    BY <1>1 DEF TypeOK, StoreInv, FreshInv
  <2> QED
    BY <2>1, IndexOfIs, OneIndex
<1>5. SavedDocs' = [id \in Ids |-> DocumentIn(data, IndexOf(entries)[id])]
  <2>1. Persisted' = entries
    BY PersistedCatchesUp DEF StoreInv
  <2> QED
    BY <1>1, <2>1, DocumentsWillBe
<1> QED
  BY <1>2, <1>3, <1>4, <1>5 DEF Store!ReturnFromPush

LEMMA PushThrowsImplements == StoreInv /\ PushThrows => Store!PushThrows
<1> SUFFICES ASSUME StoreInv, PushThrows PROVE Store!PushThrows
  OBVIOUS
<1>1. /\ session = "open" /\ session' = session /\ step # "deleting"
      /\ step' = "threw" /\ data' = data /\ index' = index
  BY DEF PushThrows, StoreInv, IInv, Calls, files
<1>2. IsOpen /\ IsOpen' /\ Call' = "threw"
  BY <1>1 DEF IsOpen, Call
<1>3. Persisted' = Persisted
  BY PersistedStays DEF PushThrows, files
<1>4. SavedDocs' = SavedDocs /\ SessionDocs' = SessionDocs
  BY <1>1, <1>2, <1>3, DocumentsStay
<1> QED
  BY <1>2, <1>4 DEF Store!PushThrows

LEMMA EndsImplement == StoreInv /\ (Dispose \/ Crash) => Store!EndSession
<1> SUFFICES ASSUME StoreInv, Dispose \/ Crash PROVE Store!EndSession
  OBVIOUS
<1>1. /\ session = "open" /\ session' = "closed" /\ step # "deleting"
      /\ step' = "idle" /\ data' = data
  BY DEF Dispose, Crash, Ready, Forget, files
<1>2. IsOpen /\ ~IsOpen' /\ Call' = "idle"
  BY <1>1 DEF IsOpen, Call
<1>3. Persisted' = Persisted
  BY PersistedStays DEF Dispose, Crash, files
<1>4. SavedDocs' = SavedDocs
  BY <1>1, <1>3, DocumentsStay
<1> QED
  BY <1>2, <1>4, DocumentsWillBe DEF Store!EndSession

LEMMA CopiesImplement ==
  ASSUME StoreInv, NEW v \in Values, NEW n \in 0..Size[v],
         CrashInCopy(v, n) \/ CopyThrows(v, n)
  PROVE  Store!EndSession \/ Store!PushThrows
<1>1. session = "open" /\ step # "deleting" /\ n \in Nat
  BY StoreAssumption DEF CrashInCopy, CopyThrows, Ready
<1>2. IsOpen /\ step' # "deleting"
  BY <1>1 DEF IsOpen, CrashInCopy, CopyThrows, Forget
<1>3. data' = Written(v, dataLast, n) /\ UNCHANGED <<table, tableHeader>>
  BY DEF CrashInCopy, CopyThrows
<1>4. SavedDocs' = SavedDocs
  BY <1>1, <1>2, <1>3, WriteKeepsDocuments
<1>5. CASE CrashInCopy(v, n)
  <2>1. ~IsOpen' /\ Call' = "idle"
    BY <1>5 DEF CrashInCopy, Forget, IsOpen, Call
  <2> QED
    BY <1>2, <1>4, <2>1, DocumentsWillBe DEF Store!EndSession
<1>6. CASE CopyThrows(v, n)
  <2>1. session' = "open" /\ step' = "threw" /\ index' = index
    BY <1>1, <1>6 DEF CopyThrows
  <2>2. IsOpen' /\ Call' = "threw"
    BY <2>1 DEF IsOpen, Call
  <2>3. SessionDocs' = SessionDocs
    BY <1>1, <1>2, <1>3, <2>1, <2>2, WriteKeepsDocuments
  <2> QED
    BY <1>2, <1>4, <2>2, <2>3 DEF Store!PushThrows
<1> QED
  BY <1>5, <1>6

LEMMA DeleteDataImplements == StoreInv /\ DeleteData => Store!DeleteAll
<1> SUFFICES ASSUME StoreInv, DeleteData PROVE Store!DeleteAll
  OBVIOUS
<1>1. session = "open" /\ step \in {"idle", "threw"} /\ step' = "deleting"
  BY DEF DeleteData, Ready
<1>2. IsOpen /\ ~IsOpen' /\ Call # "pushing" /\ Call' = "idle"
  BY <1>1 DEF IsOpen, Call
<1>3. SavedDocs' = [id \in Ids |-> None] /\ SessionDocs' = [id \in Ids |-> None]
  BY <1>1, <1>2, DocumentsWillBe
<1> QED
  BY <1>2, <1>3 DEF Store!DeleteAll, Store!Empty

(* An empty table file names no document. *)
LEMMA EmptySaved ==
  ASSUME NEW d, NEW s, DOMAIN s = {}
  PROVE  [id \in Ids |-> DocumentIn(d, IndexOf(s)[id])] = [id \in Ids |-> None]
<1>1. \A id \in Ids : IndexOf(s)[id] = None
  BY DEF IndexOf
<1> QED
  BY <1>1, NoDocument

LEMMA DeleteTableImplements == StoreInv /\ DeleteTable => UNCHANGED Store!vars
<1> SUFFICES ASSUME StoreInv, DeleteTable PROVE UNCHANGED Store!vars
  OBVIOUS
<1>1. step = "deleting" /\ step' = "idle" /\ session' = "closed" /\ tableHeader' = None
  BY DEF DeleteTable, Forget
<1>2. ~IsOpen /\ IsOpen' = IsOpen /\ Call = "idle" /\ Call' = "idle"
  BY <1>1 DEF IsOpen, Call
<1>3. DOMAIN Persisted' = {}
  BY <1>1, BlankTable
<1>4. SavedDocs' = [id \in Ids |-> None]
  BY <1>1, <1>3, EmptySaved, DocumentsWillBe
<1>5. SavedDocs = [id \in Ids |-> None]
  BY <1>1, DocumentsAre
<1>6. SessionDocs' = SavedDocs' /\ SessionDocs = SavedDocs
  BY <1>2, DocumentsAre, DocumentsWillBe
<1> QED
  BY <1>2, <1>4, <1>5, <1>6 DEF Store!vars

(* Every step of the store is a step of DocumentStore, or none. *)
LEMMA StepImplements == StoreInv /\ [Next]_vars => [Store!Next]_(Store!vars)
<1> SUFFICES ASSUME StoreInv, [Next]_vars PROVE [Store!Next]_(Store!vars)
  OBVIOUS
<1>1. CASE Open
  BY <1>1, OpenImplements DEF Store!Next
<1>2. ASSUME NEW id \in Ids, NEW v \in Values, WriteData(id, v)
      PROVE  Store!Next
  BY <1>2, WriteDataImplements DEF Store!Next
<1>3. CASE WriteEntry
  BY <1>3, WriteEntryImplements DEF Store!Next
<1>4. CASE WriteDataHeader
  BY <1>4, WriteDataHeaderImplements
<1>5. CASE WriteTableHeader
  BY <1>5, WriteTableHeaderImplements DEF Store!Next
<1>6. CASE PushThrows
  BY <1>6, PushThrowsImplements DEF Store!Next
<1>7. CASE Dispose \/ Crash
  BY <1>7, EndsImplement DEF Store!Next
<1>8. ASSUME NEW v \in Values, NEW n \in 0..Size[v], CrashInCopy(v, n) \/ CopyThrows(v, n)
      PROVE  Store!Next
  BY <1>8, CopiesImplement DEF Store!Next
<1>9. CASE DeleteData
  BY <1>9, DeleteDataImplements DEF Store!Next
<1>10. CASE DeleteTable
  BY <1>10, DeleteTableImplements
<1>11. CASE UNCHANGED vars
  <2>1. UNCHANGED <<data, table, tableHeader, session, index, step>>
    BY <1>11 DEF vars, files, memory
  <2>2. IsOpen' = IsOpen /\ Call' = Call
    BY <2>1 DEF IsOpen, Call
  <2>3. Persisted' = Persisted
    BY <2>1, PersistedStays
  <2>4. SavedDocs' = SavedDocs
    BY <2>1, <2>3, DocumentsAre, DocumentsWillBe
  <2>5. SessionDocs' = SessionDocs
    BY <2>1, <2>2, <2>4, DocumentsAre, DocumentsWillBe
  <2> QED
    BY <2>2, <2>4, <2>5 DEF Store!vars
<1> QED
  BY <1>1, <1>2, <1>3, <1>4, <1>5, <1>6, <1>7, <1>8, <1>9, <1>10, <1>11 DEF Next

LEMMA InitImplements == Init => Store!Init
<1> SUFFICES ASSUME Init PROVE Store!Init
  OBVIOUS
<1>1. session = "closed" /\ step = "idle" /\ tableHeader = None
  BY DEF Init
<1>2. ~IsOpen /\ Call = "idle"
  BY <1>1 DEF IsOpen, Call
<1>3. LastByte(tableHeader) = Loc(0) /\ 0 \in 0..MaxEntries
  BY <1>1, LocFacts, StoreAssumption DEF LastByte
<1>4. DOMAIN Persisted = {}
  BY <1>3, LocationsOf DEF Persisted
<1>5. SavedDocs = [id \in Ids |-> None]
  BY <1>1, <1>4, EmptySaved, DocumentsAre
<1>6. SessionDocs = SavedDocs
  BY <1>2, DocumentsAre
<1> QED
  BY <1>2, <1>5, <1>6 DEF Store!Init, Store!Empty

(* The store is the document store it promises to be as long as callers push *)
(* fresh ids: PushEntry's four writes, crashes, exceptions and all, look     *)
(* like one change to the session and one to what the next session finds.    *)
THEOREM StoreImplementsDocuments == ASSUME FreshIds PROVE Spec => ImplementsDocumentStore
<1>1. Init => Store!Init
  BY InitImplements
<1>2. StoreInv /\ [Next]_vars => [Store!Next]_(Store!vars)
  BY StepImplements
<1> QED
  BY <1>1, <1>2, StoreInductive, PTL DEF Spec, Store!Spec, ImplementsDocumentStore
=============================================================================
