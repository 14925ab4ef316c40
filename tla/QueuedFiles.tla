----------------------------- MODULE QueuedFiles -----------------------------
(***************************************************************************)
(* FileCollisionTests, a queue in front of the files.  QueuedFileSystem is  *)
(* the QueuedExecution whose ProcessQueue saves or loads a file under its   *)
(* lock of DictionaryLock; QueuedStreamFileSystem is the same with a queue  *)
(* of its own, whose Dispose aborts the workers.  "any" is any other        *)
(* subclass of QueuedExecution, with any results.                           *)
(*                                                                          *)
(* What a worker does to a file is FileAccess with the workers for threads. *)
(* An exception there would end the program: nothing catches it.            *)
(***************************************************************************)
EXTENDS QueuedExecution

CONSTANTS
  Files,       \* the files
  Values,      \* the documents
  DocLength    \* chunks in a document

VARIABLES
  system,   \* which of the three
  request,  \* what each caller's last call asks for
  output,   \* what that call got, for a load
  locks, operationlock, step,  \* the DictionaryLock
  content, op                  \* the files, the workers' calls of FileAccess

Access == INSTANCE FileAccess WITH
  Threads <- Workers, Keys <- Files, LockedFiles <- Files, RetryCount <- 0

ASSUME QueuedFilesAssumption ==
  Access!DictionaryLockAssumption /\ Access!FileAccessAssumption

accessVars == <<locks, operationlock, step, content, op>>
callVars == <<request, output>>
allVars == <<vars, system, callVars, accessVars>>

Request(mode, file, value) == [mode |-> mode, file |-> file, value |-> value]
Requests ==
  {Request("write", f, v) : f \in Files, v \in Values} \cup
  {Request("read", f, None) : f \in Files}

OnFiles == system # "any"
NoCall == Access!Op("idle", None, None, None, 0, <<>>)

SystemInit ==
  /\ Init
  /\ Access!AccessInit
  /\ system \in {"any", "QueuedFileSystem", "QueuedStreamFileSystem"}
  /\ request = [c \in Callers |-> Request(None, None, None)]
  /\ output = [c \in Callers |-> None]

-----------------------------------------------------------------------------
(* SaveStream and LoadStream up to the wait. *)
Call(c) ==
  /\ Execute(c)
  /\ \E r \in IF OnFiles THEN Requests ELSE {Request(None, None, None)} :
       request' = [request EXCEPT ![c] = r]
  /\ output' = [output EXCEPT ![c] = None]
  /\ UNCHANGED <<system, accessVars>>

(* IsReaderLocked and IsWriterLocked ask for the locks of the calling thread. *)
IsLocked(w, file, mode) ==
  /\ locks[file] # None
  /\ w \in (IF mode = "read" THEN Access!ReadersOf(locks[file])
                             ELSE Access!WritersOf(locks[file]))

(* Mutant: a document is saved under the lock of a reader. *)
StartReading(w) ==
  /\ OnFiles
  /\ worker[w].at = "process" /\ op[w].at = "idle"
  /\ LET r == request[worker[w].item]
     IN  /\ op' = [op EXCEPT ![w] = Access!Op("open", r.file, r.mode, r.value, 0, <<>>)]
         /\ Access!Enter(w, r.file, "read")
  /\ UNCHANGED <<vars, system, callVars, content>>

(* ProcessQueue up to EnterReader or EnterWriter.  A worker holds no lock    *)
(* between two items, so the branch that requeues an item is not reached.    *)
(* QueuedFileSystem asks IsReaderLocked only, QueuedStreamFileSystem asks    *)
(* IsWriterLocked as well.                                                   *)
Start(w) ==
  /\ OnFiles
  /\ worker[w].at = "process" /\ op[w].at = "idle"
  /\ LET r == request[worker[w].item]
     IN  /\ r.mode = "read" \/ system = "QueuedStreamFileSystem"
              => ~IsLocked(w, r.file, r.mode)
         /\ Access!Begin(w, r.file, r.mode, r.value)
  /\ UNCHANGED <<vars, system, callVars>>

(* The worker's way through FileAccess; under the lock of its file no open   *)
(* finds the file in use.                                                    *)
TakeLock(w) == Access!TakeLock(w) /\ UNCHANGED <<vars, system, callVars>>
OpenToSave(w) == Access!OpenToSave(w) /\ UNCHANGED <<vars, system, callVars>>
OpenToLoad(w) == Access!OpenToLoad(w) /\ UNCHANGED <<vars, system, callVars>>
LoadMissing(w) == Access!LoadMissing(w) /\ UNCHANGED <<vars, system, callVars>>
CopySaved(w) == Access!CopySaved(w) /\ UNCHANGED <<vars, system, callVars>>
CopyLoaded(w) == Access!CopyLoaded(w) /\ UNCHANGED <<vars, system, callVars>>
Close(w) == Access!Close(w) /\ UNCHANGED <<vars, system, callVars>>

OnDisk(w) ==
  /\ worker[w].at = "process"
  /\ \/ OpenToSave(w) \/ OpenToLoad(w) \/ LoadMissing(w)
     \/ CopySaved(w) \/ CopyLoaded(w) \/ Close(w)

(* ExitReader or ExitWriter, and ProcessQueue returns Success. *)
Processed(w) ==
  /\ OnFiles
  /\ op[w].at = "exit"
  /\ Access!Exit(w)
  /\ op' = [op EXCEPT ![w] = NoCall]
  /\ Finish(w) /\ item'[worker[w].item].result = "Success"
  /\ output' = [output EXCEPT ![worker[w].item] =
                  IF op[w].mode = "read" THEN op[w].got ELSE None]
  /\ UNCHANGED <<system, request, content>>

(* Another subclass: any result. *)
AnyResult(w) ==
  /\ ~OnFiles
  /\ Finish(w) \/ Requeue(w)
  /\ UNCHANGED <<system, callVars, accessVars>>

Polls(w) ==
  /\ Dequeue(w) \/ FindEmpty(w) \/ SetEvent(w) \/ Check(w)
  /\ UNCHANGED <<system, callVars, accessVars>>

Back(c) == Return(c) /\ UNCHANGED <<system, callVars, accessVars>>

(* QueuedExecution's Dispose, which QueuedFileSystem passes on. *)
DisposeQueue(waitForFinish) ==
  /\ system # "QueuedStreamFileSystem"
  /\ Dispose(waitForFinish)
  /\ UNCHANGED <<system, callVars, accessVars>>

DisposeWaits ==
  /\ DisposeEnds \/ DisposeGivesUp
  /\ UNCHANGED <<system, callVars, accessVars>>

(* QueuedStreamFileSystem's Dispose calls Abort on every worker and leaves;  *)
(* its workers have no flag to look at.                                      *)
DisposeStreams ==
  /\ system = "QueuedStreamFileSystem"
  /\ dispose = "none"
  /\ dispose' = "aborted"
  /\ UNCHANGED <<queue, caller, item, worker, aborted, done, system, callVars, accessVars>>

(* A worker stops where the abort meets it: an open file is closed, whole or *)
(* not, and a lock that is held stays held.                                  *)
Stop(w) ==
  /\ Abort(w)
  /\ op' = [op EXCEPT ![w].at = CASE @ = "copy"  -> "failed"
                                  [] @ = "close" -> "exit"
                                  [] OTHER       -> @]
  /\ UNCHANGED <<system, callVars, locks, operationlock, step, content>>

SystemNext ==
  \/ \E c \in Callers : Call(c) \/ Back(c)
  \/ \E w \in Workers :
       \/ Polls(w) \/ AnyResult(w)
       \/ Start(w) \/ (worker[w].at = "process" /\ TakeLock(w)) \/ OnDisk(w)
       \/ Processed(w) \/ Stop(w)
  \/ \E waitForFinish \in BOOLEAN : DisposeQueue(waitForFinish)
  \/ DisposeWaits
  \/ DisposeStreams

SystemSpec == SystemInit /\ [][SystemNext]_allVars

(* As for QueuedExecution; what is done to a file goes on, and a worker that *)
(* waits for the lock of its file gets it: ReaderWriterLockSlim lets no new  *)
(* reader pass a waiting writer.                                             *)
FairSystemSpec ==
  /\ SystemSpec
  /\ \A w \in Workers :
       /\ WF_allVars(Polls(w) \/ Start(w) \/ OnDisk(w) \/ Processed(w))
       /\ SF_allVars(worker[w].at = "process" /\ TakeLock(w))
  /\ \A c \in Callers :
       /\ WF_allVars(Back(c))
       /\ SF_allVars(~OnFiles /\ FinishItem(c) /\ UNCHANGED <<system, callVars, accessVars>>)

-----------------------------------------------------------------------------
(* The worker at a caller's file, and the call as AtomicFiles sees it: what   *)
(* was aborted before its last chunk never takes effect, and never returns.  *)
At(c) == {w \in Workers : worker[w].item = c /\ op[w].at \notin {"idle", "failed"}}

Answer(c) ==
  IF request[c].mode = "write" THEN request[c].value ELSE output[c]

CallerCall(c) ==
  IF At(c) # {} THEN Access!CallOf(CHOOSE w \in At(c) : TRUE)
  ELSE [at |-> IF caller[c] # "waiting" THEN caller[c]
               ELSE IF done[c] = 1 THEN "done" ELSE "called",
        file |-> request[c].file, mode |-> request[c].mode,
        value |-> IF done[c] = 1 THEN Answer(c) ELSE request[c].value]

Atomic == INSTANCE AtomicFiles WITH
  Threads <- Callers, Keys <- Files, LockedFiles <- Files,
  value <- [f \in Files |-> Access!ValueOf(f)],
  call  <- [c \in Callers |-> IF OnFiles THEN CallerCall(c)
                          ELSE [at |-> "idle", file |-> None, mode |-> None, value |-> None]]

(* To their callers SaveStream and LoadStream are atomic, in spite of the    *)
(* queue, the test of a lock before it is taken, two workers, and of an      *)
(* abort in the middle of a file (QueuedFileSystem.cs:51-73,                 *)
(* QueuedStreamFileSystem.cs:41-79).                                         *)
QueuedFilesAreAtomic == Atomic!Spec

(* A worker that stops by itself is at no file and holds no lock, and when   *)
(* Dispose has waited for all of them, no file is half written.  An abort    *)
(* can leave both.                                                           *)
DisposeLeavesFilesWhole ==
  /\ \A w \in Workers :
       worker[w].at = "stopped" /\ dispose # "aborted" => op[w].at = "idle" /\ step[w].at = "idle"
  /\ dispose = "waited" =>
       \A f \in Files : content[f] # None => \E v \in Values : content[f] = Access!Document(v)
=============================================================================
