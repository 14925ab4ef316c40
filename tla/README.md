# Verification of ForBlog

ForBlog is one solution folder per blog article: some thirty small .NET
programs that share nothing but the repository.  Most of them call a library
once and keep no state.  A handful contain machinery of their own that is hard
to get right: a memory-mapped document store, the buffers and threads of a chat
over a compressed stream, a rate limiter, file access by many threads through
locks and queues, and a time sheet that calculates while it is written.  This project models those, checks the models with
TLC and proves what matters most about them with TLAPS.

Paths below are relative to `src/`.  `PROJECT.json` maps every definition to
the lines it stands for.

## 1. The system

| Component | State | Operations | Acts on | What is hard |
|---|---|---|---|---|
| **MemoryMapper** (`MemoryMappedFileDemo/FileStore/Mapper`) | file size, lists of containers (mappings), a stream position per container, the callers' VirtualStreams and VirtualViews | CreateStream, CreateView, transfers, Seek, Flush, Dispose; Grow and cleanup inside other calls | the file | containers are shared behind the callers' backs, mappings are lazy, creation fails |
| **FileStoreManager** (`MemoryMappedFileDemo/FileStore`) | data file and table file, each with a header; the entries in memory | constructor, PushEntry, GetEntry, Delete, Dispose | two MemoryMappers | four writes per push, process death or exception between any two |
| **MemoryBuffer** (`SslStreamChat/ChatMessages`) | ring, head, tail | Write, Push, Read, Peek | – | wrap-around, full against empty |
| **CompressedNetworkStream** | two MemoryBuffers, two spin locks, `_flush`, two threads | Write, Flush, Read, WriteThread, ReadThread | the peer, through a base stream | a flag cleared outside the lock, partial receipt, exceptions with a lock held |
| **StreamReadAsync** | a MemoryBuffer and a thread that the first Read starts | Read, the thread | a base stream | an overflow where nothing catches it |
| **Chat message loop** (`ChatServer`, `ChatClient`, `ChatMessages/Common`) | connections, a MemoryBuffer each, the counters of multiping | accept, type a line, receive, cut messages, ping and pong | StreamReadAsync, the network | messages in pieces, loops that serve everybody |
| **Limiter** (`GoogleAnalyticsData`) | window, two counters | Enter, Exit | – | test and increment by many threads, end of a window |
| **DictionaryLock** (`FileCollisionTests`) | a reader/writer lock per key, made when first used | EnterReader/Writer, ExitReader/Writer | – | double-checked creation |
| **CollisionAvoidanceFileAccess, LockingFileSystem** | files, open handles | SaveStream, LoadStream, with lock or retries | DictionaryLock, file system | sharing violations, half-written files, failing copies |
| **QueuedExecution** | queue, worker threads, an event per item | Execute, Dispose | a subclass's ProcessQueue | requeueing, stopping |
| **QueuedFileSystem, QueuedStreamFileSystem** | as QueuedExecution | SaveStream, LoadStream, Dispose | DictionaryLock, LockingFileSystem | a lock tested before it is taken, workers aborted anywhere |
| **Timesheet** | the log in memory and on file, its statistics, a flag, the guard of the calculation | append, calculate, load; the clock | – | user interface and thread pool share no lock |
| **LockingTests, DictionaryBenchmarks** | a flag or a lock; a dictionary behind one | enter, exit; get, add, remove | – | *planned* |
| **DomainParser** | cached suffix lists | load, GetDomain | download, file | *planned* |
| **WCFPermissions** | nearly all in WCF | authorize a call | – | *planned*, as a decision function |
| the rest | none between calls | conversions, queries, request handlers, scripts, timing drivers | libraries | not modelled |

How they interact: FileStoreManager calls MemoryMapper, one mapper per file;
CompressedNetworkStream owns two MemoryBuffers and takes a lock around every
call on them; the two ends of a connection meet in an ordered byte stream; the
chat's loops read a StreamReadAsync into a MemoryBuffer and cut messages out of
it; the file access classes share one DictionaryLock and call LockingFileSystem;
QueuedFileSystem is a QueuedExecution whose workers do the same.  Everything
else stands alone.

What makes each correct, in a line:

* MemoryMapper: every mapping stays inside the file and every caller inside its
  mapping; callers do not notice each other; cleanup takes nothing in use.
* FileStoreManager: what PushEntry returned from is found after any restart, and
  no entry ever names bytes that are not its document.
* MemoryBuffer: a bounded FIFO that never indexes outside its array.
* CompressedNetworkStream: bytes arrive once, in order, and after a Flush they
  do arrive.
* Limiter: never too many inside, never too many per window, never shut for good.
* DictionaryLock: a writer is alone on its key even while its lock is made.
* File access: saves and loads are atomic; behind the lock a failure spoils
  nothing, without it a save that fails midway leaves part of its document.
* QueuedExecution: an item is processed to an end once and its caller gets that
  end; a worker that is not aborted stops between items.
* QueuedFileSystem: to the callers, saves and loads are as atomic as if they had
  been made one after the other.
* Chat: every ping has one pong, wherever the pieces of messages are cut, and
  the pong comes.
* Timesheet: a result loses no line it counted, and no line stays uncounted (the
  code keeps this only as long as appends and calculations do not overlap).

## 2. The modules

| Module | Models | State ↔ code | Actions ↔ code |
|---|---|---|---|
| `MemoryMapper` | Mapper/* | `filesize` m_filesize; `containers` the container objects, their range, lazy mapping and Position; `listed`, `before` m_streams and m_views and their order; `virtual` the handles; `io` the bytes of the last transfer | `CreateReusing`/`CreateAdding` CreateStream and CreateView with the cleanup and the growth inside; `StreamWrite`, `StreamRead`, `Seek`, `ViewRead`, `ViewWrite`, `Release` on handles; `Flush`, `Dispose`, `Reopen` |
| `MappedFile` | *abstract*: independent open ranges of a file that only grows | | |
| `MapperRefinement` | the refinement mapping of the two | the cursor of a range is where its container's position really points | |
| `FileStore` | FileStoreManager | `data`, `table`, two headers: what survives; `dataLast`, `tableLast`, `entries`, `index`: the session's memory; `step`, `pending`: the push in progress | `Open` constructor; `WriteData`, `WriteEntry`, `WriteDataHeader`, `WriteTableHeader` the four writes of PushEntry in order; `PushThrows`, `CopyThrows` exceptions; `Crash`, `CrashInCopy` the death of the process; `DeleteData`, `DeleteTable`; `Dispose` |
| `DocumentStore`, `StoreRefinement` | *abstract*: documents by id, sessions that may end at any moment | | |
| `MemoryBuffer` | MemoryBuffer | `buffer`, `head`, `tail`; `writer`, `reader` the call in progress with its chunk | `Write` the check and the call; `PushAdvance`, `PushCopy` a round of Push (index first, bytes after); `BeginRead`, `ReadAdvance`, `ReadCopy` Read and Peek |
| `ByteQueue` | *abstract*: a bounded queue of bytes | | |
| `CompressedStream` | one direction of a connection | `writebuffer`, `flush`, `writelock`; `sender` WriteThread; `network`, `headers` the bytes and the lengths of the blocks under way; `receiver` ReadThread; `readbuffer`, `readlock` | `Write`, `Flush`, `Read` the applications; `StartBlock`, `ClearFlush`, `TakeWriteLock`, `Drain`, `Send` WriteThread; `Receive`, `TakeReadLock`, `Push` ReadThread |
| `Limiter` | Limiter | `elapsed` now − start of window; two counters; `place` of each caller; history `ages` of the last calls | `Call`; `Admit`, `Refuse` a pass of Enter's loop; `Exit`; `Tick` the clock |
| `DictionaryLock` | DictionaryLock | `locks`, `operationlock`; `step` each thread's place in GetLock | `Enter`, `Lookup`, `TakeOperationLock`, `Recheck`, `CreateLock`, `EnterLock`, `Exit` |
| `FileAccess` (extends `DictionaryLock`) | CollisionAvoidanceFileAccess and LockingFileSystem | `content` of the files; `op` each thread's call | `Begin`, `TakeLock`, `OpenToSave`, `OpenToLoad`, `LoadMissing`, `SharingViolation`, `CopySaved`, `CopyLoaded`, `CopyFails`, `Close`, `Return` |
| `AtomicFiles` | *abstract*: saves and loads that each take effect at one moment | | |
| `QueuedExecution` | QueuedExecution | `queue`, `item`, `worker`, `aborted` _threadaborted; `dispose` how far Dispose is: it waits, has waited for all threads, left without aborting any, or aborts | `Execute`, `Return`; `Dequeue`, `FindEmpty`, `Requeue`, `Finish`, `SetEvent`, `Check`; `Dispose` up to the first look at the threads, `DisposeEnds`, `DisposeGivesUp` the ends of its wait; `Abort` |
| `QueuedFiles` (extends `QueuedExecution`, instantiates `FileAccess`) | QueuedFileSystem, QueuedStreamFileSystem, and any other subclass of QueuedExecution | `system` which of the three; `request`, `output` of each caller; `content`, `op`, `step`, `locks` as in FileAccess with the workers for threads | `Call`, `Back` SaveStream and LoadStream; `Start` ProcessQueue up to the lock, with `IsLocked` the queries; `TakeLock`, `OnDisk`, `Processed`; `DisposeQueue`, `DisposeWaits`, `DisposeStreams` the two kinds of Dispose; `Stop` an abort that meets a worker at its file |
| `Chat` | the main loops of server and clients, Common, StreamReadAsync | `wire`, `readbuffers`, `buffer` the places of a link's bytes; `loop` where a main loop is and the peers still to visit; `multiping`, `pongs` | `Connect`; `Quiet`, `Say` the console and the accept; `ReadThread` StreamReadAsync's thread; `CopySome`, `CopyNoMore` CopyTo; `Cut` a message and its answer, `CutNoMore` a buffer that is empty |
| `Timesheet` | Timesheet and the threads frmMain gives it | `file`, `lines`, `changed` LogLinesChanged, `stats` a date's lines, `calculating`; `phase`, `all`, `subset` a calculation in progress; `ui` AppendToLog | `AddLine`, `FlagLine`, `WriteLine` AppendToLog; `Begin`, `ReadFlag`, `Snapshot`, `Store`, `ClearFlag`, `Release` CalculateStatisticsResults; `Restart`, `Midnight` |
| `MC…` | the instances TLC runs: sizes of documents, symmetry sets | | |
| `…_proofs` | the proofs, see section 5 | | |

Operators marked *Mutant* in a module are plausible bugs of the definition that
follows them.  Nothing in a specification uses them: they show, for each
property, a change of the code that breaks it.

Where an atomic step stands for several statements: the passes of
`Limiter.Enter` and the calls of MemoryBuffer's users run under one lock from
first to last access (each of MemoryBuffer's calls is still a step per index and
per chunk); MemoryMapper has neither threads nor locks; `File.Exists`
with the `File.Open` after it is one step because nothing deletes files while
threads use them; putting a stream's position and moving its bytes are one step
because only one thread can be there; a typed line of the chat is sent in one
step because its receiver cannot see the end of it missing from a stream; the
second reading of LogLinesChanged and the storing of results are one step
because nobody else stores.

`Chat` and `CompressedStream` take their buffers to be `ByteQueue`s, which
MemoryBuffer is (run `buffer`, theorem `BufferImplementsQueue`); `QueuedFiles` uses `FileAccess` itself, not
its abstraction, since an aborted worker stops between two of its steps.

External behaviour, modelled from how the code uses it: what a
ReaderWriterLockSlim lets in (`MayEnter`: writers alone; the order in which it
serves waiters is left open), and the sharing rules of the operating system for
`FileShare.None` and `FileShare.ReadWrite` (`MayOpen`).

## 3. The runs

All "pass" runs explore the whole state space of their instance.

| Run | Instance | What it shows |
|---|---|---|
| `mapper` (83,736 states) | file of 4 growing by 4 to 8, widening 2, three containers, two handles | mappings stay inside the file (`RangesWithinFile`), callers inside their mappings (`HandlesInsideContainers`), cleanup and Flush unmap nothing in use (`OnlyGrowthUnmapsUsed`), with allocations that fail at any point |
| `mapper_store` (17,938) | the same, under FileStoreManager's discipline | the mapper implements `MappedFile` (`ImplementsMappedFile`): a transfer moves the bytes of its own range and no others, whoever shares the container, grows the file or fails |
| `store` (24,493) | three ids, documents of one and two bytes, three entries, data file of five | `EntriesIntact`, `CrashSafe`, `AllEntriesRead`, `CanReopen`, and the store implements `DocumentStore` |
| `buffer` (8,990) | ring of four bytes, calls of 0 to 4 bytes | `ChunksInBounds`, and the buffer implements `ByteQueue`, whose bytes are those each Write was given |
| `buffer_empty` | reads of an empty buffer too | **violation** of `ImplementsByteQueue`: finding 1 |
| `stream` (113,262) | buffers of 3 and 4, chunks of 2, at most 5 bytes under way | `NothingLost`, `NobodyStuck`, `FlushedArrives`, `FullBufferSent` |
| `limiter` (1,383) | three callers, both limits 2, window of 2 ticks | `CountsThoseInside`, `AtMostTwicePerInterval`, `KeepsAdmitting` |
| `files` (182,074) | two threads, a file behind a lock and one with a retry, two documents of two chunks, copies that fail on both | `WritersAlone`, `LockForGood`, `NoSharingViolation`, `WholeDocuments`, `SomebodyReturns`, and the accesses implement `AtomicFiles` |
| `queued_files` (85,361) | two callers, two workers, one file, one document of two chunks; the three kinds of queue, all results, every form and end of Dispose | `InOnePlace`, `AnswersOwnItem`, `DisposeLeavesNothingHalf`, `DisposeLeavesFilesWhole`, `ExecuteReturns`, and the calls implement `AtomicFiles` (`QueuedFilesAreAtomic`) |
| `chat` (242,248) | server and one client, two cells a message, multipings of two, two typed lines | `PingsAccounted`, `PingAnswered`, `MultipingEnds` |
| `chat_partial` | the same, one typed line | **violation** of `PingAnsweredInPieces`: finding 2 |
| `timesheet` (25,188) | two threads of the pool, three lines, two days | `CompleteWhenQuiet`, `TotalsOnlyGrow`, `AppendedCounted`, `TodayUpdated`; what overlaps cost is in the properties' own words |

The type invariants (`TypeOK`, `LockTypeOK`, `ChatTypeOK`) are in no run: they
are theorems of section 5.

### Bounds, and why they are enough

* *mapper*: three containers are the least that let a container be reused,
  added and cleaned up side by side; two handles, that callers share one.  The
  file can grow once, the ranges asked for lie on both sides of the end before
  growth, and widening (2) reaches the start of the file, its end, and neither.
  A request that would need a fourth container, or a file larger than
  `MaxFileSize`, is not made.
* *store*: HeaderLength ≤ EntryLength is the relation the two structures have
  (19 and 32 bytes); `AllEntriesRead` depends on it, and on nothing finer.
  The longer document makes partial copies possible.  Three entries let a push
  follow one that threw that follows one that returned.
* *buffer*: bytes are numbered modulo 6, more than the ring holds (4), so two
  bytes in it never look alike; calls longer than the room and than the content
  occur at every position of head and tail, over endless wraps.
* *stream*: numbers modulo 6 with at most 5 bytes under way (`MaxUnderWay`).
  One write fills the write buffer (3), so the full and the flushed case both
  occur; a block takes two chunks and arrives in any parts; 5 > 4, so the read
  buffer can overflow.
* *limiter*: time stops counting past the end of a window, since the code only
  asks whether the window has run out; a window of two ticks has a start, a
  middle and an end; three callers exceed both limits.
* *files*: two threads race for a lock that does not exist yet; a document of
  two chunks has a part.  The locked and the retrying file never share a
  handle, as in the program.
* *queued_files*: two callers give two workers an item each, on one file, so that
  a save meets a load, a save meets a save, and a worker waits for the other's
  lock; a caller calls again, with an item of its own in the queue behind the
  other's.  A document of two chunks has a part, which an abort can leave.  There
  is one document: mixtures of two are looked for in `files`, and the theorems
  hold for any number.
* *chat*: a message of two cells has a part; the read thread takes one or two, so
  messages are cut and joined in every way; the read buffer (6) and the message
  buffer (8) hold what one multiping sends, and overflow when more is typed
  while a loop is held up.  Two clients with one ping each and one typed line
  (310,042 states) show the same; they are not a run because two clients and
  two lines are too many for one.
* *timesheet*: three lines on two days let a line of today and one of yesterday be
  missing on their own; two threads contend for the calculation, which a third
  would add nothing to, since one is inside.

`CHECK_DEADLOCK FALSE` is set where the program really stops: a queue whose
workers have ended, threads that wait for a lock held by one that threw or was
aborted, and a chat whose process ended or whose users have nothing to type.

### Fairness

* *stream*: both threads run; a spin lock that comes free again and again is
  taken in the end (strong fairness of the two acquisitions: the threads poll it
  and its holders leave it quickly), and the reading application goes on
  reading.  Nothing obliges anyone to write or flush.
* *limiter*: the clock ticks, a caller let in leaves, and of the threads that
  spin in Enter *some* one is scheduled.  Nothing makes a given one win, so
  `KeepsAdmitting` speaks of some caller, not of each.
* *files*: a thread in a call that can proceed does.  ReaderWriterLockSlim is
  not taken to be fair, hence `SomebodyReturns` and not everybody.
* *queued_files*: worker and caller threads are scheduled.  A request of any other
  subclass that is tried again and again ends (strong fairness of `Finish`);
  ConcurrentQueue being FIFO, that is all `ExecuteReturns` needs there.  A worker
  that waits for the lock of its file gets it (strong fairness of `TakeLock`):
  a ReaderWriterLockSlim lets no new reader pass a waiting writer, and no lock is
  kept by a worker that is not aborted.
* *chat*: main loops and read threads are scheduled.  Nobody has to connect or to
  type.
* *timesheet*: the timer goes on asking for a calculation, which runs to its end,
  and so does an append.  Nobody has to append, and midnight need not come.

No fairness is put on failures, crashes or Dispose.

## 4. Findings, and known departures

The two violation runs:

1. *buffer_empty*: a Read or Peek of an empty buffer whose indices rest past the
   last index finds the old ring once more (MemoryBuffer.cs:201, 162): a Peek or a
   Read then hands out bytes that were read before, which `ByteQueue` does not
   have.  Two callers do read an empty buffer: WriteThread's drain loop
   (CompressedNetworkStream.cs:135-139) ends on a read of nothing, and
   StreamReadAsync.Read.  `CompressedStream` and `Chat` take their buffers to be
   the `ByteQueue` they are otherwise: with the real constants the indices rest
   there only when a block ends exactly at the end of the ring.
2. *chat_partial*: the loop that cuts messages runs while its buffer has bytes
   (ChatServer/Program.cs:183, ChatClient/Program.cs:169), and only CopyTo, outside
   of it, adds any.  When CopyTo got part of a message the loop spins there for
   good and serves nobody.

Two more that a changed constant shows (3, 4), and one that no property can state (5):

3. Two VirtualStreams on one container move one Position (VirtualStream.cs:50,
   against the comment at 56), and a growth asked for by one moves the other's
   (MemoryMapper.cs:170), so one writes into the other's range: in
   `MCMapperStore.cfg` set `StoreDiscipline = FALSE`, and `ImplementsMappedFile`
   fails; the shortest behaviour opens a stream, then one behind the end of the
   file.  FileStoreManager never holds two, which is why `mapper_store` passes.
4. Pushing an id a second time, as in a retry of a push that threw after its entry
   was recorded (FileStoreManager.cs:254), makes every later constructor throw
   (330): in `MCFileStore.cfg` set `FreshIds = FALSE`, and `CanReopen` fails, as
   does `ImplementsDocumentStore`.
5. Dispose(true, wait) compares `DateTime.Now + wait` with `DateTime.Now`
   (QueuedExecution.cs:155, against the comments at 154 and 173), so its timeout
   counts from the latest look at the clock and not from the call.  It comes only
   when `wait` is not positive, at once and then without aborting anything (151), or
   when `wait` passes between the two readings of the clock.  Otherwise Dispose waits as
   long as a request hangs.  The model has all of this: `Dispose` may leave at
   once, `DisposeGivesUp` may come at any look and is never owed, and nothing
   says that Dispose returns.

Behaviour of the code that differs from its comments and that the models contain
without a run of its own (the hazards that name this section):

* The Position setter checks and places with the container's start on the wrong
  side (VirtualStream.cs:102-105): on a container that does not start at 0 a Seek
  lands elsewhere.
* Grow gives a live VirtualStream a new stream at position 0
  (MemoryMapper.cs:170).
* A stream's lazy mapping is made before the stream is listed, so a failed first
  attempt drops its own container from m_streams (MemoryMapper.cs:295); Grow and
  Dispose then miss it.
* Dispose opens mappings to dispose of them and stops at the first that cannot be
  opened (MemoryMapper.cs:380).
* MemoryBuffer holds length + 1 bytes while its head is at 0 and lets a Write of
  length + 1 through when it is not (line 277); that Write then waits for a reader
  that the caller's lock keeps out (line 264).  Without a lock, Push moves the tail
  before the bytes are there (line 259).
* CompressedNetworkStream.Write (line 329) and ReadThread (line 253) leave their
  spin lock held when the bytes do not fit; ReadThread's exception then ends the
  process, since nothing catches it, and so does that of StreamReadAsync's thread
  (StreamReadAsync.cs:89).  A multiping of 10000 can do that to a reader that is
  slow: its buffer holds 65536 bytes.  The model has both (`writelock`,
  `readlock` = "stuck"); `NobodyStuck` says that nothing else does it, and
  `FlushedArrives` and `FullBufferSent` make an exception for it.
* Limiter admits up to twice the maximum within one interval, around the end of a
  window (line 109); `AtMostTwicePerInterval` is what it does keep.
* DictionaryLock.IsReaderLocked and IsWriterLocked answer for the calling thread
  only (line 82).
  A worker of QueuedFileSystem holds no lock when it asks, so its requeueing
  (QueuedFileSystem.cs:57, QueuedStreamFileSystem.cs:51, 63) is never reached.
* Dispose(false) aborts no thread (QueuedExecution.cs:151), nor does Dispose(true,
  wait) with a wait that is not positive.
* Whoever waits in Execute for an item that is still queued when the workers have
  stopped, or that an aborted worker had, waits for ever (QueuedExecution.cs:134);
  `ExecuteReturns` speaks of the time before Dispose.
* A save without a lock that throws in the middle of its copy leaves the file
  emptied or half written for everybody (LockingFileSystem.cs:57, 36-38), retries or
  not: only a sharing violation is tried again before the file is opened.
  `WholeDocuments` and `AtomicFiles` say so: of a file without a lock a load may
  return the first chunks of a document.
* QueuedStreamFileSystem.Dispose aborts workers that may be in the middle of a file
  (line 135), and so does a Dispose of QueuedFileSystem that gives up waiting: they
  can leave half a document and a lock held for good, which is why
  `DisposeLeavesFilesWhole` speaks of workers that are not aborted.
* LogLinesChanged is cleared at the end of a calculation without a look at what
  came in between (Timesheet.cs:285), so an append that overlaps with one may lose its
  flag.  `overlapped` marks it in the model.  A line whose flag was lost is counted
  by the calculations of today, if today has a result, and otherwise left out
  until the next append or restart: a line of a day that is over, and the first
  lines of a day, whose every calculation throws on a null in between (267-269).
  `TodayUpdated` names the second case.
* A calculation of today alone that finds the flag up when it stores replaces the
  results of all days by its own (Timesheet.cs:263-276).  The other days are back
  after the next calculation of all days, which may be after the next append
  only.  `TotalsOnlyGrow` says that this is the one way to lose what was counted.
* The server counts the pongs of all clients in one counter (ChatServer/
  Program.cs:170), as its comment says: with several clients a multiping ends at
  the first Pings pongs, whoever sent them.

## 5. What is proved

TLAPS checks every step of the eight `_proofs` modules.  The theorems hold for
every value of the constants that satisfies the modules' ASSUMEs (sizes are
natural numbers, the null values differ from the rest, documents included;
Limiter needs finitely many threads, since it counts them; the bounds of the
exploration, `MaxUnderWay` and `MaxSays`, may be any numbers, given enough `ByteValues` to
tell what is under way apart).

| Theorem | Says |
|---|---|
| `MemoryMapper_proofs` `TypeCorrect`, `MappingsWithinFile`, `HandlesCovered` | `TypeOK`, `RangesWithinFile`, `HandlesInsideContainers` for any file, offsets, number of handles and failures |
| … `UsedStayMapped` | nothing but growth and Dispose unmaps what a caller uses |
| … `MapperImplementsMappedFile` | under `StoreDiscipline` the mapper implements `MappedFile` |
| `FileStore_proofs` `TypeCorrect`, `DocumentsIntact`, `CrashesLoseNothing`, `EntriesCounted` | `EntriesIntact`, `CrashSafe`, `AllEntriesRead` for any documents, sizes, numbers of entries, crashes and exceptions, repeated ids included |
| … `StoreImplementsDocuments` | with `FreshIds` the store implements `DocumentStore` |
| `MemoryBuffer_proofs` `TypeCorrect`, `CopiesInBounds` | no copy leaves the array, for any length and counts, on an empty buffer too |
| … `BufferImplementsQueue` | with readers that find bytes, a ring of any length implements `ByteQueue`: what each Write was given comes out once and in order |
| `SslStreamChat_proofs` `TypeCorrect`, `BytesInOrder` | types of `CompressedStream`; `NothingLost`: what was written last is under way, in order, for any capacities, chunk and counts |
| … `LocksComeFree` | `NobodyStuck`: only bytes that do not fit leave a spin lock held |
| … `ChatTypeCorrect`, `EveryPingAccounted` | types of `Chat`; `PingsAccounted`: every ping and every pong is in one place, for any clients, sizes, shares of messages that arrive, and numbers of pings |
| `Limiter_proofs` `TypeCorrect`, `ConcurrencyLimited` | the counter counts those inside and never passes its limit |
| … `CallsLimited` | `AtMostTwicePerInterval`, for any limits and any length of the interval |
| `FileAccess_proofs` `LockTypeCorrect`, `MutualExclusion`, `LocksStay` | of `DictionaryLock` alone: types, a writer is alone, a key keeps its lock, for any threads and keys |
| … `AccessIsLocked`, `FileMutualExclusion`, `FileLocksStay`, `FileLockTypes` | file access uses the locks as DictionaryLock's specification allows, failing copies included, so the three results hold of the files |
| … `LockedOpensSucceed` | no open of a locked file meets a sharing violation |
| … `LoadsAreWhole`, `AccessImplementsAtomicFiles` | `WholeDocuments`, and saves and loads implement `AtomicFiles`, for any threads, files, documents and retries: behind a lock nothing but whole documents, without one also what a failed save left |
| `QueuedFiles_proofs` `NeverLostNorDoubled`, `AnsweredOnce`, `NothingLeftHalf` | of `QueuedExecution` alone: `InOnePlace`, `AnswersOwnItem`, `DisposeLeavesNothingHalf` for any callers, workers and results |
| … `ItemsInOnePlace`, `CallersAnswered`, `DisposeLeavesNoItemHalf` | the same three of the queues of files, with the locks, failing requests and aborted workers |
| … `FilesWholeAfterDispose` | `DisposeLeavesFilesWhole`: workers that are not aborted stop outside of files and locks, and after a Dispose that waited for all every file is a whole document |
| … `QueueImplementsAtomicFiles` | `QueuedFilesAreAtomic`: saves and loads through the queue implement `AtomicFiles`, workers aborted at any step included, for any callers, workers, files and documents |
| `Timesheet_proofs` `TypeCorrect`, `StatisticsComplete`, `ResultsGrow` | `CompleteWhenQuiet`, `TotalsOnlyGrow` for any lines, days and threads |

The arguments:

* *MemoryMapper.*  A call passes a value (containers, lists, order) through
  cleanup, growth, adding and mapping.  The invariant says of the state what the
  lemmas carry along that value: types, ranges within the file, handles within
  containers, and that containers in use exist.  The last is what neither
  property contains and both need: cleanup removes by use, not by range.  One
  lemma per helper (`ClearKeeps`, `GrowKeeps`, `AddKeeps`, `TouchKeeps`,
  `ReplaceKeeps`), then one per action.  `UsedStay` follows the same value for
  what is in use.  Under the discipline `Cursors` is added, that at most one
  stream lives and its cursor is not negative; with `StreamsStayInside` it is
  inductive, and the refinement maps each call to the step of `MappedFile` with
  the same range, a failed one to `Refuse`.
* *FileStore.*  `EntriesIntact` and `CrashSafe` speak of two files and a memory.
  The invariant `Safe` names the number n of entries the files have: the first n
  rows of the table are whole documents, in order, below the data header
  (`Saved`), and in a session n is at most the number in memory, whose entries are
  the table's rows, saved or not, below where it writes next (`Session`).  The two
  writes in between need what they are about to rely on: the pending entry is
  whole and behind all others (`AtEntry`), and the data header is up to date
  before the table's is written (`AtTableHeader`).  One lemma per write.
  `FreshInv` adds that neither the rows nor the entries have an id twice and that
  the dictionary is the index of the entries.  For the refinement each write is
  mapped to what it changes of two dictionaries, the session's and the next
  session's: only WriteEntry changes the first, only the table header the second
  (`PersistedBehind`, `PersistedCatchesUp`), and a copy, whole or cut short,
  neither (`WriteKeepsDocuments`).
* *MemoryBuffer.*  `TypeOK` and `ChunksInBounds` are inductive together: a chunk is
  cut to the room after its start (`PushChunk`), whichever of the two indices is
  ahead.  The refinement needs that calls exclude each other and that readers
  find bytes (finding 1 is why).  Its invariant `QueueInv` says what a call has
  between the move of an index and the copy: the chunk being written lies behind
  the bytes in the ring and touches none of them (`Pushed`), and what Peek has got
  is the front of the ring, with its own index where that ends (`Peeked`); the
  bytes in the ring and those still to be written continue each other's numbers
  (`ContentsAtRest`, `NumberedSplits`), which is what makes the queue's bytes those
  that Write was given.  The cases of the
  wrap are in two lemmas about places alone (`TakeArithmetic`, `PutArithmetic`),
  what they mean for the bytes in three (`RingSplits`, `RingGrows`, `PeekGrows`).
* *CompressedStream.*  The bytes under way are five sequences joined: read buffer,
  received block, network, drained block, write buffer.  Every step but Write and
  Read moves bytes over one of the joints and leaves the whole as it is
  (`NothingLost` is then about one sequence that only the two ends change); the
  lengths in `headers` keep blocks apart.  `NobodyStuck` needs two more: as long
  as every Write found room, all of what is under way fits into the read buffer
  (`Fits`), and a thread that has not started to drain holds no block
  (`BlocksWhenDrained`).
* *Chat.*  A link's path is its three places joined.  Joined they are a
  sequence of whole messages (`Framed`), whatever part of one is in which place, and
  the pings that begin in a path with the pongs that begin in the opposite one are
  those outstanding (`Balanced`).  A step either moves cells along a path or changes what begins in
  it: a line typed adds to several paths (`SendBalanced`), a cut message leaves one
  and may add to the opposite one (`ArriveBalanced`).  What Framed gives is that a
  loop which has a whole message's length of cells has a whole message.  The rest
  is counting beginnings: of joined sequences (`NumberConcat`), of the first
  message (`NumberFirst`), of a multiping (`ManyMessages`).
* *Limiter.*  `TypeOK` and `CountsThoseInside` together; the step is the
  cardinality of `Inside` when one caller comes or goes.  For
  `AtMostTwicePerInterval`, `Windows`: the calls before those the window counts are
  as old as the window, and the calls before the last MaxCalls of these are older
  than an interval.  Ages grow with the window and a renewed window counts from 0,
  so the call before last times MaxCalls is always out of the interval.
* *DictionaryLock.*  Mutual exclusion per *key* is not inductive.  The invariant
  adds that a thread past GetLock has the lock the dictionary has
  (`LocksFromDictionary`), that whoever is between the second lookup and the
  creation holds `_operationlock` and, when creating, that there is none yet
  (`CreatesAlone`), and exclusion per *lock* (`HoldersAgree`).
* *FileAccess.*  Each action maps to an action of the lock or leaves it alone.
  `Linked` ties the two halves of a call together, the file it opens and the lock
  it holds; mutual exclusion then says that who is opening finds no one who
  shares less.  For whole documents `FilesInv` adds that who writes a file is its
  only user (`HandlesApart`), that a save which failed under a lock still holds it
  (`FailedHolds`), that every other file holds a document, or without a lock the
  first chunks of one (`Settled`), and what a call knows of its file (`CallFits`): a
  load copies chunks that nobody changes.  `FailedAlone` is where the two ways of
  using files meet: a failed save closed its file, so only the lock it never
  exits keeps readers out.  The refinement gives a file that is being written, or
  was left half-written behind its lock, the value it had before; there is one
  such writer (`OneWriter`) and nobody who reads (`ReadersApart`), so the last chunk
  of a save, or a failure without a lock, is the one step at which a value changes.
* *QueuedExecution.*  The places of an item: `Apart` (never twice in the queue, with
  two workers, or in both) and `Life` (what a caller's state says of where its
  item is: queued, with a worker, given up by one that was aborted, or answered).
  Neither holds without the other: an item could be requeued by a worker that
  does not have it.  `StoppedEmpty` and `AllStopped` follow Dispose: who stops by
  itself has no item, and a wait that ended by the threads' end saw all stopped.
* *QueuedFiles.*  Three invariants side by side (`SystemInv`): that of the queue,
  that of FileAccess, taken from its proofs by INSTANCE with the workers for
  threads, and what ties them (`Served`): a worker at a file is in a call for the
  item it holds, as its caller asked.  A step of a worker at its file is FileAccess's own step, so its
  lemmas apply as they are.  An abort stops a worker where it is, with item, open
  file and lock; it comes only from a Dispose that aborts, so that a worker which
  stopped by itself, and every worker after a Dispose that waited for all, is out
  of the files (`AllStopped`).  For the
  refinement a caller's call is the one its item's worker is in: a worker's step is
  AtomicFiles' step with the thread renamed to the caller, queueing and answering
  leave it alone, and after an abort the file's value and the caller's call are what
  they were.
* *Timesheet.*  `OneCalculates` (the exchange of IsCalculatingResults lets one in)
  and `Progress`, what a calculation knows at each of its places as long as no
  append overlaps.  For `ResultsGrow`, `GrowInv`: what is about to be stored has for
  each of its dates all that is stored, and has all dates, or today's (`Newer`),
  which needs that no line is of a day to come (`NoneOfTomorrow`); and a
  calculation that began with the flag down finds it up only after an overlap
  (`Flagged`).

Only model-checked: the liveness properties (`FlushedArrives`, `FullBufferSent`,
`KeepsAdmitting`, `SomebodyReturns`, `ExecuteReturns`,
`AppendedCounted`, `TodayUpdated`, `PingAnswered`, `MultipingEnds`), which are beyond
the prover.  Every invariant, action property and refinement that a run checks is
a theorem above but `CanReopen`; three have a hypothesis that names when the code
keeps them, and the runs make the same choice: `StoreDiscipline` for the mapper
under the store, `FreshIds` for the store, readers that find bytes
(`EmptyReads = FALSE`) for the buffer.

## 6. Not modelled, and why

* Machine crashes: the memory-mapped files are taken to survive the process, not
  a power failure; the code claims no more.
* `Thread.Abort` in Dispose of the streams: no call is meant to follow it.
* SetLength, statistics and array overloads of the mapper.  A failure inside Grow,
  in the middle of the disposing or in GrowFile (MemoryMapper.cs:171-191), which
  leaves the mapper without a MemoryMappedFile: growth succeeds in the model.
* A Delete of the store cut short, which leaves a table without its data.
* MemoryBuffer without a lock around its calls: both indices are then read several
  times in a call that others are in (MemoryBuffer.cs:201-205, 226-233), and a chunk
  can come out negative.  No caller does that; a call that excludes the others is
  a precondition of everything said about it.
* The position of a Stream that several threads save at once, as the benchmark
  does with its one MemoryStream (FileCollisionTests/Program.cs:180): a save brings a
  document of its own.
* A thread's calls after one that was left with a lock: it stays where it is (a
  thread holds one lock in the model).  After any other exception it goes on.
* A line of the time sheet's file that cannot be parsed, or only part of one:
  LoadFromLog stops there (Timesheet.cs:167-170), and what follows is lost to the
  session.  `Restart` reads a file of whole lines.
* A typed line of the chat that is itself `pong` (ChatServer/Program.cs:171,
  ChatClient/Program.cs:156): the other end would count it for a multiping.
* Compression, encoding, serialization and TLS: a document, a block and a message
  are values.  The chat runs without compression; its sockets take whatever is
  written to them, and connections do not break.
* A Write of one byte more than a buffer holds waits inside Push
  (MemoryBuffer.cs:277, 266) instead of throwing; `Chat` has both as `overflow`.
* Timesheet's hours: a date's result stands for the lines it was calculated from.
* The stateless programs listed under "the rest": request handlers, conversions,
  timing drivers, scripts.  Third-party code under `3rd parties` and `packages`.
  Most of the repository's lines are of this kind (script libraries of the web
  demos, benchmarks, generated code), so the modules cover a small part of them.

## 7. Plan

Done, in this order: MemoryMapper with its abstraction and proofs; FileStore on
it, with its abstraction and proofs; MemoryBuffer and CompressedStream; Limiter;
DictionaryLock, FileAccess; QueuedExecution and QueuedFiles on both; Timesheet;
Chat.

Next:

1. DomainParser: the cache of suffix lists (memory, file, a download that fails)
   and the longest-suffix rule against a reference definition.
2. The locks of LockingTests and the dictionaries of DictionaryBenchmarks as far
   as they add state; WCFPermissions' decision.
3. A theorem that composes the parts where a module takes another's abstraction:
   the store on the mapper's `MappedFile`, the streams on `ByteQueue`.
