----------------------------- MODULE FileAccess -----------------------------
(***************************************************************************)
(* FileCollisionTests: SaveStream and LoadStream of LockingFileSystem, on   *)
(* files that are opened, copied in chunks and closed, used in two ways:    *)
(* CollisionAvoidanceFileAccess takes the file's lock of DictionaryLock     *)
(* around a call, the overloads with a retryCount try again when File.Open  *)
(* reports a sharing violation.  A file is used in one of these ways.       *)
(*                                                                          *)
(* A document is DocLength chunks of one value, so that a mixture or a part *)
(* of documents shows.  Nothing deletes files while threads use them, so    *)
(* File.Exists and the File.Open after it are one step.  A copy may also    *)
(* fail for another reason.  A thread whose call threw goes on with others, *)
(* unless it was left with a lock: a thread has one lock at a time here.    *)
(***************************************************************************)
EXTENDS DictionaryLock, Sequences

CONSTANTS
  Values,      \* the documents
  DocLength,   \* chunks in a document
  LockedFiles, \* those used through CollisionAvoidanceFileAccess
  RetryCount   \* retryCount of the calls on the other files

ASSUME FileAccessAssumption ==
  /\ DocLength \in Nat \ {0} /\ RetryCount \in Nat
  /\ LockedFiles \subseteq Keys
  /\ None \notin Values /\ None \notin Keys /\ None \notin Modes
  /\ \A n \in 0..DocLength : None \notin [1..n -> Values]

VARIABLES
  content,  \* the chunks of each file, None while it does not exist
  op        \* the call of each thread: where it is, its file and its data;
            \* got is what a load has read, and for a save the content that
            \* its open emptied, which is history

fileVars == <<content, op>>
accessVars == <<lockVars, fileVars>>

Op(at, f, mode, v, tries, got) ==
  [at |-> at, file |-> f, mode |-> mode, value |-> v, tries |-> tries, got |-> got]

OpAt(t, place) == op[t].at = place
Moved(t, at) == op' = [op EXCEPT ![t].at = at]

AccessInit ==
  /\ LockInit
  /\ content = [f \in Keys |-> None]
  /\ op = [t \in Threads |-> Op("idle", None, None, None, 0, <<>>)]

(* The threads that have the file open for the given use. *)
HandlesOn(f, mode) ==
  {t \in Threads : (OpAt(t, "copy") \/ OpAt(t, "close")) /\ op[t].file = f /\ op[t].mode = mode}

(* The thread's call takes the file's lock, and has it. *)
TakesLock(t) == op[t].file \in LockedFiles
HasLock(t) == TakesLock(t) => At(t, "inside")

-----------------------------------------------------------------------------
(* A call, also after one that threw, by a thread that holds no lock.        *)
Begin(t, f, mode, v) ==
  /\ op[t].at \in {"idle", "returned", "threw", "failed"} /\ At(t, "idle")
  /\ op' = [op EXCEPT ![t] = Op("open", f, mode, v, 0, <<>>)]
  /\ IF f \in LockedFiles THEN Enter(t, f, mode) ELSE UNCHANGED lockVars
  /\ UNCHANGED content

TakeLock(t) ==
  /\ OpAt(t, "open") /\ TakesLock(t)
  /\ Acquire(t)
  /\ UNCHANGED fileVars

(* Mutant: SaveStream opens with FileShare.Read. *)
MayOpenShared(t) == op[t].mode = "write" => HandlesOn(op[t].file, "write") = {}

(* Whether File.Open succeeds: a writer shares with nobody. *)
MayOpen(t) ==
  /\ HandlesOn(op[t].file, "write") = {}
  /\ op[t].mode = "write" => HandlesOn(op[t].file, "read") = {}

(* FileMode.Create empties the file.  Once it is open, tries counts no more. *)
OpenToSave(t) ==
  /\ OpAt(t, "open") /\ op[t].mode = "write" /\ HasLock(t)
  /\ MayOpen(t)
  /\ content' = [content EXCEPT ![op[t].file] = <<>>]
  /\ op' = [op EXCEPT ![t] = Op("copy", @.file, @.mode, @.value, 0, content[@.file])]
  /\ UNCHANGED lockVars

OpenToLoad(t) ==
  /\ OpAt(t, "open") /\ op[t].mode = "read" /\ HasLock(t)
  /\ content[op[t].file] # None
  /\ MayOpen(t)
  /\ op' = [op EXCEPT ![t] = Op("copy", @.file, @.mode, @.value, 0, @.got)]
  /\ UNCHANGED <<content, lockVars>>

(* No such file: null. *)
LoadMissing(t) ==
  /\ OpAt(t, "open") /\ op[t].mode = "read" /\ HasLock(t)
  /\ content[op[t].file] = None
  /\ op' = [op EXCEPT ![t] = Op("exit", @.file, @.mode, @.value, 0, None)]
  /\ UNCHANGED <<content, lockVars>>

(* A sharing violation: tried again, or thrown when that is one too many.    *)
SharingViolation(t) ==
  /\ OpAt(t, "open") /\ HasLock(t)
  /\ op[t].mode = "read" => content[op[t].file] # None
  /\ ~MayOpen(t)
  /\ LET tries == IF TakesLock(t) THEN op[t].tries ELSE op[t].tries + 1
         at == IF TakesLock(t) \/ tries > RetryCount THEN "threw" ELSE "open"
     IN  op' = [op EXCEPT ![t] = Op(at, @.file, @.mode, @.value, tries, @.got)]
  /\ UNCHANGED <<content, lockVars>>

(* Stream.CopyTo, a chunk at a time *)
CopySaved(t) ==
  /\ OpAt(t, "copy") /\ op[t].mode = "write"
  /\ LET f == op[t].file
     IN  /\ content' = [content EXCEPT ![f] = Append(@, op[t].value)]
         /\ IF Len(content'[f]) >= DocLength
            THEN op' = [op EXCEPT ![t] = Op("close", @.file, @.mode, @.value, @.tries, <<>>)]
            ELSE UNCHANGED op
  /\ UNCHANGED lockVars

(* Mutant: a read that returns nothing does not end the copy. *)
CopyLoadedOn(t) ==
  /\ OpAt(t, "copy") /\ op[t].mode = "read"
  /\ LET file == content[op[t].file]
         n    == Len(op[t].got)
     IN  op' = [op EXCEPT ![t].got = IF n < Len(file) THEN Append(@, file[n + 1]) ELSE @,
                          ![t].at  = IF n <= Len(file) THEN "copy" ELSE "close"]
  /\ UNCHANGED <<content, lockVars>>

CopyLoaded(t) ==
  /\ OpAt(t, "copy") /\ op[t].mode = "read"
  /\ LET file == content[op[t].file]
         n    == Len(op[t].got)
         got  == IF n < Len(file) THEN Append(op[t].got, file[n + 1]) ELSE op[t].got
         at   == IF n + 1 < Len(file) THEN "copy" ELSE "close"
     IN  op' = [op EXCEPT ![t] = Op(at, @.file, @.mode, @.value, @.tries, got)]
  /\ UNCHANGED <<content, lockVars>>

(* Mutant: the lock is exited in a finally block. *)
CopyFailsUnlocking(t) ==
  /\ OpAt(t, "copy")
  /\ Moved(t, "failed")
  /\ IF TakesLock(t) THEN Exit(t) ELSE UNCHANGED lockVars
  /\ UNCHANGED content

(* The copy throws, and the call with it: the using statement closes the     *)
(* file, what a save has copied stays in it, and nothing exits the lock.     *)
CopyFails(t) ==
  /\ OpAt(t, "copy")
  /\ op' = [op EXCEPT ![t] = Op("failed", @.file, @.mode, @.value, @.tries,
                               IF TakesLock(t) THEN @.got ELSE <<>>)]
  /\ UNCHANGED <<content, lockVars>>

Close(t) ==
  /\ OpAt(t, "close")
  /\ Moved(t, "exit")
  /\ UNCHANGED <<content, lockVars>>

(* ExitWriter or ExitReader, and the return. *)
Return(t) ==
  /\ OpAt(t, "exit")
  /\ Moved(t, "returned")
  /\ IF TakesLock(t) THEN Exit(t) ELSE UNCHANGED lockVars
  /\ UNCHANGED content

(* Everything a thread does in a call. *)
Proceed(t) ==
  \/ TakeLock(t)
  \/ OpenToSave(t) \/ OpenToLoad(t) \/ LoadMissing(t) \/ SharingViolation(t)
  \/ CopySaved(t) \/ CopyLoaded(t) \/ Close(t) \/ Return(t)

AccessNext ==
  \E t \in Threads :
    \/ \E f \in Keys, v \in Values : Begin(t, f, "write", v)
    \/ \E f \in Keys : Begin(t, f, "read", None)
    \/ Proceed(t)
    \/ CopyFails(t)

AccessSpec == AccessInit /\ [][AccessNext]_accessVars

(* A thread in a call is scheduled; a failure is never owed. *)
FairAccessSpec == AccessSpec /\ \A t \in Threads : WF_accessVars(Proceed(t))

-----------------------------------------------------------------------------
Part(v, n) == [i \in 1..n |-> v]
Document(v) == Part(v, DocLength)

(* What a file may hold while nobody writes it: a document, and without a    *)
(* lock a part of one.                                                       *)
Saved(f, chunks) ==
  \E v \in Values, n \in 0..DocLength :
    chunks = Part(v, n) /\ (f \in LockedFiles => n = DocLength)

TypeOK ==
  /\ LockTypeOK
  /\ \A f \in Keys : content[f] # None =>
       \A i \in 1..Len(content[f]) : content[f][i] \in Values
  /\ \A t \in Threads :
       /\ op[t].at \in {"idle", "open", "copy", "close", "exit", "returned", "threw", "failed"}
       /\ op[t].tries \in 0..(RetryCount + 1)
       /\ op[t].mode = "read" /\ op[t].got # None => Len(op[t].got) <= DocLength

(* Under its lock a file is never found open: the lock per name is as strict *)
(* as the file system, also while the locks of new names are made.           *)
NoSharingViolation ==
  \A t \in Threads : OpAt(t, "open") /\ TakesLock(t) /\ HasLock(t) => MayOpen(t)

(* A load returns null or chunks of one document, never a mixture.  Of a     *)
(* file used under its lock it returns the whole document, also after a save *)
(* that failed midway, whose lock is never exited; of a file without a lock  *)
(* it may return the part that such a save left.                             *)
WholeDocuments ==
  \A t \in Threads :
    op[t].mode = "read" /\ (OpAt(t, "exit") \/ OpAt(t, "returned")) /\ op[t].got # None
      => Saved(op[t].file, op[t].got)

(* Threads that use a file get done with it, one or the other of them: they  *)
(* do not all wait on each other, on the lock of a name or on the one under  *)
(* which locks are made.                                                     *)
SomebodyReturns ==
  \A f \in Keys :
    (\E t \in Threads : op[t].file = f /\ ~OpAt(t, "returned"))
      ~> (\E t \in Threads : op[t].file = f /\ op[t].at \in {"returned", "threw", "failed"})

-----------------------------------------------------------------------------
(* Refinement: a save takes effect with its last chunk, and until then the   *)
(* file counts as what it was, since nobody can look into it: not while it   *)
(* is open, and under a lock not after a copy that failed either.  A load    *)
(* takes effect with its last chunk, or when it finds no file.               *)
SavesOf(f) ==
  {t \in Threads : /\ OpAt(t, "copy") \/ (OpAt(t, "failed") /\ TakesLock(t))
                   /\ op[t].file = f /\ op[t].mode = "write"}

ValueOf(f) ==
  IF SavesOf(f) # {} THEN op[CHOOSE t \in SavesOf(f) : TRUE].got ELSE content[f]

CallOf(t) ==
  [at    |-> CASE op[t].at \in {"open", "copy"} -> "called"
               [] op[t].at \in {"close", "exit"} -> "done"
               [] OpAt(t, "failed") -> "threw"
               [] OTHER -> op[t].at,
   file  |-> op[t].file,
   mode  |-> op[t].mode,
   value |-> IF OpAt(t, "threw") \/ OpAt(t, "failed") THEN None
             ELSE IF op[t].mode # "read" THEN op[t].value
             ELSE IF OpAt(t, "open") \/ OpAt(t, "copy") THEN None ELSE op[t].got]

Atomic == INSTANCE AtomicFiles WITH
  value <- [f \in Keys |-> ValueOf(f)],
  call  <- [t \in Threads |-> CallOf(t)]

(* Saves and loads are atomic, the ones that throw included: they change     *)
(* nothing, but for a save without a lock, which may leave a part.           *)
ImplementsAtomicFiles == Atomic!Spec
=============================================================================
