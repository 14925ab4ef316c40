--------------------------- MODULE DictionaryLock ---------------------------
(***************************************************************************)
(* FileCollisionTests/DictionaryLock: a reader/writer lock per key, created *)
(* when the key is first asked for.  The dictionary is read without a lock, *)
(* and once more under _operationlock before a lock is added.               *)
(*                                                                          *)
(* A lock is known by its key and by the thread that creates it.  What a    *)
(* ReaderWriterLockSlim holds is read off the threads that are inside; it   *)
(* grants in any order that keeps writers alone.                            *)
(***************************************************************************)
EXTENDS Integers, FiniteSets

CONSTANTS
  Threads,  \* the callers
  Keys,     \* TKey
  None      \* no lock, no thread

Locks == Keys \X Threads
Modes == {"read", "write"}

ASSUME DictionaryLockAssumption == None \notin Locks /\ None \notin Threads

VARIABLES
  locks,          \* _locks: the lock of each key, None before there is one
  operationlock,  \* the thread that holds _operationlock, or None
  step            \* the call each thread is in: where, key, mode, localock

lockVars == <<locks, operationlock, step>>

Call(at, key, mode, lock) == [at |-> at, key |-> key, mode |-> mode, lock |-> lock]

At(t, place) == step[t].at = place

(* The threads a lock counts as its readers and as its writer. *)
ReadersOf(lock) ==
  {t \in Threads : At(t, "inside") /\ step[t].lock = lock /\ step[t].mode = "read"}
WritersOf(lock) ==
  {t \in Threads : At(t, "inside") /\ step[t].lock = lock /\ step[t].mode = "write"}

(* The key of a thread that is in no call is the last it used, if any. *)
LockInit ==
  /\ locks = [k \in Keys |-> None]
  /\ operationlock = None
  /\ step \in [Threads -> {Call("idle", k, "read", None) : k \in Keys}]

-----------------------------------------------------------------------------
(* EnterReader and EnterWriter up to the lookup in GetLock. *)
Enter(t, k, mode) ==
  /\ At(t, "idle")
  /\ step' = [step EXCEPT ![t] = Call("lookup", k, mode, None)]
  /\ UNCHANGED <<locks, operationlock>>

(* TryGetValue without a lock. *)
Lookup(t) ==
  /\ At(t, "lookup")
  /\ LET k == step[t].key
     IN  step' = [step EXCEPT ![t] =
           Call(IF locks[k] = None THEN "spin" ELSE "enter", k, step[t].mode, locks[k])]
  /\ UNCHANGED <<locks, operationlock>>

(* Mutant: the lock is made without _operationlock. *)
TakeNoOperationLock(t) ==
  /\ At(t, "spin")
  /\ step' = [step EXCEPT ![t] = Call("recheck", step[t].key, step[t].mode, None)]
  /\ UNCHANGED <<locks, operationlock>>

(* _operationlock.Enter *)
TakeOperationLock(t) ==
  /\ At(t, "spin")
  /\ operationlock = None
  /\ operationlock' = t
  /\ step' = [step EXCEPT ![t] = Call("recheck", step[t].key, step[t].mode, None)]
  /\ UNCHANGED locks

(* Mutant: whoever comes second makes another lock. *)
RecheckSkipped(t) ==
  /\ At(t, "recheck")
  /\ step' = [step EXCEPT ![t] = Call("create", step[t].key, step[t].mode, None)]
  /\ UNCHANGED <<locks, operationlock>>

(* TryGetValue once more, now under _operationlock. *)
Recheck(t) ==
  /\ At(t, "recheck")
  /\ LET k == step[t].key
     IN  /\ step' = [step EXCEPT ![t] =
              Call(IF locks[k] = None THEN "create" ELSE "enter", k, step[t].mode, locks[k])]
         /\ operationlock' = IF locks[k] = None THEN operationlock ELSE None
  /\ UNCHANGED locks

(* The new lock and _operationlock.Exit *)
CreateLock(t) ==
  /\ At(t, "create")
  /\ LET k == step[t].key
     IN  /\ locks' = [locks EXCEPT ![k] = <<k, t>>]
         /\ step' = [step EXCEPT ![t] = Call("enter", k, step[t].mode, <<k, t>>)]
  /\ operationlock' = None

(* When a ReaderWriterLockSlim lets a thread in. *)
MayEnter(t) ==
  /\ WritersOf(step[t].lock) = {}
  /\ step[t].mode = "write" => ReadersOf(step[t].lock) = {}

(* EnterReadLock and EnterWriteLock *)
EnterLock(t) ==
  /\ At(t, "enter")
  /\ MayEnter(t)
  /\ step' = [step EXCEPT ![t] = Call("inside", step[t].key, step[t].mode, step[t].lock)]
  /\ UNCHANGED <<locks, operationlock>>

(* ExitReader and ExitWriter look the lock up again; exiting a lock that the *)
(* thread does not hold throws.                                              *)
Exit(t) ==
  /\ At(t, "inside")
  /\ step' = [step EXCEPT ![t] =
       IF locks[step[t].key] = step[t].lock
       THEN Call("idle", step[t].key, "read", None)
       ELSE Call("threw", step[t].key, step[t].mode, step[t].lock)]
  /\ UNCHANGED <<locks, operationlock>>

(* The steps a thread takes between asking for a lock and having it. *)
Acquire(t) ==
  \/ Lookup(t) \/ TakeOperationLock(t) \/ Recheck(t) \/ CreateLock(t)
  \/ EnterLock(t)

LockNext ==
  \E t \in Threads :
    \/ \E k \in Keys, mode \in Modes : Enter(t, k, mode)
    \/ Acquire(t)
    \/ Exit(t)

LockSpec == LockInit /\ [][LockNext]_lockVars

-----------------------------------------------------------------------------
(* The threads between Enter and Exit of a key. *)
InsideOf(k, mode) ==
  {t \in Threads : At(t, "inside") /\ step[t].key = k /\ step[t].mode = mode}

(* Types; GetLock never returns null. *)
LockTypeOK ==
  /\ locks \in [Keys -> Locks \cup {None}]
  /\ operationlock \in Threads \cup {None}
  /\ step \in [Threads ->
       [at : {"idle", "lookup", "spin", "recheck", "create", "enter", "inside", "threw"},
        key : Keys, mode : Modes, lock : Locks \cup {None}]]
  /\ \A t \in Threads : At(t, "enter") \/ At(t, "inside") => step[t].lock # None

(* A writer is alone on its key: two threads that ask for a new key at the   *)
(* same time must come to wait on one lock, whichever of them makes it.      *)
WritersAlone ==
  \A k \in Keys : \A w \in InsideOf(k, "write") :
    InsideOf(k, "write") \cup InsideOf(k, "read") = {w}

(* A key keeps its lock: what a thread exits is what it entered.             *)
LockForGood == [][\A k \in Keys : locks[k] # None => locks'[k] = locks[k]]_lockVars
=============================================================================
