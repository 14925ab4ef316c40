-------------------------- MODULE FileAccess_proofs --------------------------
(***************************************************************************)
(* First the locks by themselves: for any threads and any keys a writer is   *)
(* alone on its key and a key keeps the lock it was given first.  Then the  *)
(* file access, which uses DictionaryLock as its specification says it may  *)
(* be used, failing copies included: what is proved of the locks holds of   *)
(* the locked files.  From it, and from the sharing of the file system for  *)
(* files without a lock, documents stay whole, and the calls implement      *)
(* AtomicFiles.                                                             *)
(***************************************************************************)
EXTENDS FileAccess, TLAPS

(* A thread that is past GetLock has the lock the dictionary has.           *)
LocksFromDictionary ==
  \A t \in Threads : At(t, "enter") \/ At(t, "inside") =>
    locks[step[t].key] = step[t].lock

(* What a thread knows while it holds _operationlock.                       *)
CreatesAlone ==
  \A t \in Threads :
    /\ At(t, "recheck") \/ At(t, "create") => operationlock = t
    /\ At(t, "create") => locks[step[t].key] = None

(* A lock is held by one writer or by readers.                              *)
HoldersAgree ==
  \A t, u \in Threads :
    /\ t # u
    /\ At(t, "inside") /\ At(u, "inside")
    /\ step[t].lock = step[u].lock
    => step[t].mode = "read" /\ step[u].mode = "read"

IInv == LockTypeOK /\ LocksFromDictionary /\ CreatesAlone /\ HoldersAgree

(* Nobody in a call, no locks.                                              *)
LEMMA InitIInv == LockInit => IInv
  BY DictionaryLockAssumption
  DEF LockInit, IInv, LockTypeOK, LocksFromDictionary, CreatesAlone,
      HoldersAgree, At, Call, Modes

(* A thread goes on to a place outside of the lock, with a lock when it is    *)
(* about to enter it, and the dictionary stays as it is.                    *)
MovesTo(t, at, k, mode, lock) ==
  /\ k \in Keys /\ mode \in Modes /\ lock \in Locks \cup {None}
  /\ at \in {"idle", "lookup", "spin", "recheck", "create", "enter"}
  /\ at = "enter" => lock # None /\ locks[k] = lock
  /\ at \in {"recheck", "create"} => operationlock' = t
  /\ at = "create" => locks[k] = None
  /\ operationlock' \in Threads \cup {None}
  /\ \A u \in Threads \ {t} : At(u, "recheck") \/ At(u, "create") => operationlock' = u
  /\ step' = [step EXCEPT ![t] = Call(at, k, mode, lock)]
  /\ UNCHANGED locks

(* Such a step keeps the invariant.                                         *)
LEMMA MovesOutside ==
  ASSUME IInv, NEW t \in Threads, NEW at, NEW k, NEW mode, NEW lock,
         MovesTo(t, at, k, mode, lock)
  PROVE  IInv'
  <1> USE DEF MovesTo
  <1>1. step'[t] = Call(at, k, mode, lock) /\ \A u \in Threads : u # t => step'[u] = step[u]
    BY DEF IInv, LockTypeOK
  <1>2. Call(at, k, mode, lock) \in
          [at : {"idle", "lookup", "spin", "recheck", "create", "enter", "inside", "threw"},
           key : Keys, mode : Modes, lock : Locks \cup {None}]
    BY DEF Call
  <1>3. Call(at, k, mode, lock).at = at /\ Call(at, k, mode, lock).key = k
        /\ Call(at, k, mode, lock).lock = lock
    BY DEF Call
  <1>4. LockTypeOK'
    BY <1>1, <1>2, <1>3 DEF IInv, LockTypeOK, At
  <1>5. LocksFromDictionary'
    BY <1>1, <1>3 DEF IInv, LocksFromDictionary, At
  <1>6. CreatesAlone'
    BY <1>1, <1>3 DEF IInv, CreatesAlone, At
  <1>7. HoldersAgree'
    BY <1>1, <1>3 DEF IInv, HoldersAgree, At
  <1> QED BY <1>4, <1>5, <1>6, <1>7 DEF IInv

(* The new lock of a key: nobody is past GetLock on that key yet.           *)
LEMMA CreateLockKeeps ==
  ASSUME IInv, NEW t \in Threads, CreateLock(t)
  PROVE  IInv'
  <1> DEFINE k == step[t].key
             new == Call("enter", k, step[t].mode, <<k, t>>)
  <1>1. /\ At(t, "create") /\ k \in Keys /\ step[t].mode \in Modes
        /\ <<k, t>> \in Locks /\ <<k, t>> # None
        /\ operationlock = t /\ locks[k] = None
    BY DictionaryLockAssumption DEF CreateLock, IInv, LockTypeOK, CreatesAlone, Locks
  <1>2. /\ locks' = [locks EXCEPT ![k] = <<k, t>>]
        /\ step' = [step EXCEPT ![t] = new]
        /\ operationlock' = None
    BY DEF CreateLock
  <1>3. new.at = "enter" /\ new.key = k /\ new.lock = <<k, t>>
    BY DEF Call
  <1>4. new \in [at : {"idle", "lookup", "spin", "recheck", "create", "enter", "inside", "threw"},
                 key : Keys, mode : Modes, lock : Locks \cup {None}]
    BY <1>1 DEF Call
  <1> HIDE DEF new
  <1>5. step'[t] = new /\ \A u \in Threads : u # t => step'[u] = step[u]
    BY <1>2 DEF IInv, LockTypeOK
  <1>6. locks'[k] = <<k, t>> /\ \A j \in Keys : j # k => locks'[j] = locks[j]
    BY <1>1, <1>2 DEF IInv, LockTypeOK
  <1>7. LockTypeOK'
    BY <1>1, <1>2, <1>3, <1>4, <1>5 DEF IInv, LockTypeOK, At
  <1>8. LocksFromDictionary'
    <2> SUFFICES ASSUME NEW u \in Threads, (At(u, "enter") \/ At(u, "inside"))'
                 PROVE  (locks[step[u].key] = step[u].lock)'
      BY DEF LocksFromDictionary
    <2>1. CASE u = t
      BY <2>1, <1>3, <1>5, <1>6
    <2>2. CASE u # t
      <3>1. locks[step[u].key] = step[u].lock /\ step[u].lock # None /\ step[u].key \in Keys
        BY <2>2, <1>5 DEF IInv, LocksFromDictionary, LockTypeOK, At
      <3>2. step[u].key # k
        BY <3>1, <1>1
      <3> QED BY <3>1, <3>2, <2>2, <1>5, <1>6
    <2> QED BY <2>1, <2>2
  <1>9. CreatesAlone'
    <2>1. \A u \in Threads : u # t => ~At(u, "recheck") /\ ~At(u, "create")
      BY <1>1 DEF IInv, CreatesAlone
    <2> QED BY <2>1, <1>3, <1>5 DEF CreatesAlone, At
  <1>10. HoldersAgree'
    BY <1>3, <1>5 DEF IInv, HoldersAgree, At
  <1> QED BY <1>7, <1>8, <1>9, <1>10 DEF IInv

(* The thread let in agrees with those that hold the lock already.          *)
LEMMA EnterLockKeeps ==
  ASSUME IInv, NEW t \in Threads, EnterLock(t)
  PROVE  IInv'
  <1> DEFINE new == Call("inside", step[t].key, step[t].mode, step[t].lock)
  <1>1. /\ At(t, "enter") /\ step[t].key \in Keys /\ step[t].mode \in Modes
        /\ step[t].lock \in Locks \cup {None} /\ step[t].lock # None
        /\ locks[step[t].key] = step[t].lock
    BY DEF EnterLock, IInv, LockTypeOK, LocksFromDictionary
  <1>2. step' = [step EXCEPT ![t] = new] /\ UNCHANGED <<locks, operationlock>>
    BY DEF EnterLock
  <1>3. /\ new.at = "inside" /\ new.key = step[t].key
        /\ new.mode = step[t].mode /\ new.lock = step[t].lock
    BY DEF Call
  <1>4. new \in [at : {"idle", "lookup", "spin", "recheck", "create", "enter", "inside", "threw"},
                 key : Keys, mode : Modes, lock : Locks \cup {None}]
    BY <1>1 DEF Call
  <1> HIDE DEF new
  <1>5. step'[t] = new /\ \A u \in Threads : u # t => step'[u] = step[u]
    BY <1>2 DEF IInv, LockTypeOK
  <1>6. LockTypeOK'
    BY <1>1, <1>2, <1>3, <1>4, <1>5 DEF IInv, LockTypeOK, At
  <1>7. LocksFromDictionary'
    BY <1>1, <1>2, <1>3, <1>5 DEF IInv, LocksFromDictionary, At
  <1>8. CreatesAlone'
    BY <1>2, <1>3, <1>5 DEF IInv, CreatesAlone, At
  <1>9. HoldersAgree'
    <2>1. \A u \in Threads : At(u, "inside") /\ step[u].lock = step[t].lock =>
            step[u].mode = "read" /\ step[t].mode = "read"
      <3> SUFFICES ASSUME NEW u \in Threads, At(u, "inside"), step[u].lock = step[t].lock
                   PROVE  step[u].mode = "read" /\ step[t].mode = "read"
        OBVIOUS
      <3>1. step[u].mode \in Modes
        BY DEF IInv, LockTypeOK
      <3>2. step[u].mode # "write"
        BY DEF EnterLock, MayEnter, WritersOf
      <3>3. step[u].mode = "read"
        BY <3>1, <3>2 DEF Modes
      <3>4. u \in ReadersOf(step[t].lock)
        BY <3>3 DEF ReadersOf
      <3> QED BY <3>3, <3>4, <1>1 DEF EnterLock, MayEnter, Modes
    <2> QED BY <2>1, <1>3, <1>5 DEF IInv, HoldersAgree, At
  <1> QED BY <1>6, <1>7, <1>8, <1>9 DEF IInv

(* Every step of a thread keeps the invariant.                              *)
LEMMA StepKeeps ==
  ASSUME IInv, NEW t \in Threads,
         \/ \E k \in Keys, mode \in Modes : Enter(t, k, mode)
         \/ Acquire(t)
         \/ Exit(t)
  PROVE  IInv'
  <1> DEFINE k == step[t].key
  <1>1. k \in Keys /\ step[t].mode \in Modes /\ locks[k] \in Locks \cup {None}
        /\ operationlock \in Threads \cup {None}
    BY DEF IInv, LockTypeOK
  <1>2. \A u \in Threads : At(u, "recheck") \/ At(u, "create") => operationlock = u
    BY DEF IInv, CreatesAlone
  <1>3. ASSUME NEW j \in Keys, NEW mode \in Modes, Enter(t, j, mode) PROVE IInv'
    <2>1. MovesTo(t, "lookup", j, mode, None)
      BY <1>1, <1>2, <1>3 DEF Enter, MovesTo
    <2> QED BY <2>1, MovesOutside
  <1>4. ASSUME Lookup(t) PROVE IInv'
    <2>1. locks[k] = None => MovesTo(t, "spin", k, step[t].mode, None)
      BY <1>1, <1>2, <1>4 DEF Lookup, MovesTo
    <2>2. locks[k] # None => MovesTo(t, "enter", k, step[t].mode, locks[k])
      BY <1>1, <1>2, <1>4 DEF Lookup, MovesTo
    <2> QED BY <2>1, <2>2, MovesOutside
  <1>5. ASSUME TakeOperationLock(t) PROVE IInv'
    <2>1. \A u \in Threads : ~At(u, "recheck") /\ ~At(u, "create")
      BY <1>5, <1>2, DictionaryLockAssumption DEF TakeOperationLock
    <2>2. MovesTo(t, "recheck", k, step[t].mode, None)
      BY <1>1, <1>5, <2>1 DEF TakeOperationLock, MovesTo
    <2> QED BY <2>2, MovesOutside
  <1>6. ASSUME Recheck(t) PROVE IInv'
    <2>1. operationlock = t
      BY <1>6, <1>2 DEF Recheck
    <2>2. \A u \in Threads \ {t} : ~At(u, "recheck") /\ ~At(u, "create")
      BY <2>1, <1>2
    <2>3. locks[k] = None => MovesTo(t, "create", k, step[t].mode, None)
      BY <1>1, <1>6, <2>1, <2>2 DEF Recheck, MovesTo
    <2>4. locks[k] # None => MovesTo(t, "enter", k, step[t].mode, locks[k])
      BY <1>1, <1>6, <2>2 DEF Recheck, MovesTo
    <2> QED BY <2>3, <2>4, MovesOutside
  <1>7. ASSUME CreateLock(t) PROVE IInv'
    BY <1>7, CreateLockKeeps
  <1>8. ASSUME EnterLock(t) PROVE IInv'
    BY <1>8, EnterLockKeeps
  <1>9. ASSUME Exit(t) PROVE IInv'
    <2>1. locks[k] = step[t].lock
      BY <1>9 DEF Exit, IInv, LocksFromDictionary
    <2>2. MovesTo(t, "idle", k, "read", None)
      BY <1>1, <1>2, <1>9, <2>1 DEF Exit, MovesTo, Modes
    <2> QED BY <2>2, MovesOutside
  <1> QED BY <1>3, <1>4, <1>5, <1>6, <1>7, <1>8, <1>9 DEF Acquire

(* The invariant is inductive.                                              *)
LEMMA LockStepKeeps == IInv /\ [LockNext]_lockVars => IInv'
  <1> SUFFICES ASSUME IInv, [LockNext]_lockVars PROVE IInv'
    OBVIOUS
  <1>1. CASE LockNext
    BY <1>1, StepKeeps DEF LockNext
  <1>2. CASE UNCHANGED lockVars
    BY <1>2 DEF lockVars, IInv, LockTypeOK, LocksFromDictionary, CreatesAlone, HoldersAgree, At
  <1> QED BY <1>1, <1>2

THEOREM Invariance == LockSpec => []IInv
  BY LockStepKeeps, InitIInv, PTL DEF LockSpec

(* Types, and GetLock returns a lock.                                       *)
THEOREM LockTypeCorrect == LockSpec => []LockTypeOK
  <1>1. IInv => LockTypeOK
    BY DEF IInv
  <1> QED BY <1>1, Invariance, PTL

(* Threads that hold one lock agree, and a key has one lock.                *)
LEMMA InsideAlone == IInv => WritersAlone
  <1> SUFFICES ASSUME IInv, NEW k \in Keys, NEW w \in InsideOf(k, "write"),
                      NEW mode \in Modes, NEW u \in InsideOf(k, mode)
               PROVE  u = w
    BY DEF WritersAlone, InsideOf, Modes
  <1>1. step[u].lock = step[w].lock /\ step[w].mode = "write"
        /\ u \in Threads /\ w \in Threads /\ At(u, "inside") /\ At(w, "inside")
    BY DEF IInv, LocksFromDictionary, InsideOf
  <1> QED BY <1>1 DEF IInv, HoldersAgree

(* Mutual exclusion per key, also for the threads that race to make its lock. *)
THEOREM MutualExclusion == LockSpec => []WritersAlone
  BY InsideAlone, Invariance, PTL

(* No step replaces the lock of a key.                                      *)
THEOREM LocksStay == LockSpec => LockForGood
  <1> DEFINE Stays == \A k \in Keys : locks[k] # None => locks'[k] = locks[k]
  <1>1. IInv /\ [LockNext]_lockVars => [Stays]_lockVars
    <2> SUFFICES ASSUME IInv, LockNext PROVE Stays
      OBVIOUS
    <2>1. PICK t \in Threads : \/ \E k \in Keys, mode \in Modes : Enter(t, k, mode)
                               \/ Acquire(t)
                               \/ Exit(t)
      BY DEF LockNext
    <2>2. CASE CreateLock(t)
      <3>1. locks[step[t].key] = None
        BY <2>2 DEF CreateLock, IInv, CreatesAlone
      <3> QED BY <2>2, <3>1 DEF CreateLock, IInv, LockTypeOK
    <2>3. CASE ~CreateLock(t)
      BY <2>1, <2>3 DEF Enter, Acquire, Lookup, TakeOperationLock, Recheck, EnterLock, Exit
    <2> QED BY <2>2, <2>3
  <1> QED BY <1>1, Invariance, PTL DEF LockSpec, LockForGood
-----------------------------------------------------------------------------
(* The files, and their locks.                                               *)

(* A step of SaveStream or LoadStream is a step of the lock or none.         *)
LEMMA StepIsLockStep ==
  ASSUME AccessNext
  PROVE  [LockNext]_lockVars
  <1>1. PICK t \in Threads :
          \/ \E f \in Keys, v \in Values : Begin(t, f, "write", v)
          \/ \E f \in Keys : Begin(t, f, "read", None)
          \/ Proceed(t)
          \/ CopyFails(t)
    BY DEF AccessNext
  <1>2. ASSUME NEW f \in Keys, NEW mode \in Modes, NEW v, Begin(t, f, mode, v)
        PROVE  [LockNext]_lockVars
    BY <1>2 DEF Begin, LockNext
  <1>3. ASSUME TakeLock(t)
        PROVE  [LockNext]_lockVars
    BY <1>3 DEF TakeLock, LockNext
  <1>4. ASSUME Return(t)
        PROVE  [LockNext]_lockVars
    BY <1>4 DEF Return, LockNext
  <1>5. ASSUME \/ OpenToSave(t) \/ OpenToLoad(t) \/ LoadMissing(t) \/ SharingViolation(t)
               \/ CopySaved(t) \/ CopyLoaded(t) \/ CopyFails(t) \/ Close(t)
        PROVE  [LockNext]_lockVars
    BY <1>5 DEF OpenToSave, OpenToLoad, LoadMissing, SharingViolation,
                CopySaved, CopyLoaded, CopyFails, Close
  <1>6. "read" \in Modes /\ "write" \in Modes
    BY DEF Modes
  <1> QED BY <1>1, <1>2, <1>3, <1>4, <1>5, <1>6 DEF Proceed

(* The file access implements the specification of the locks.                *)
THEOREM AccessIsLocked == AccessSpec => LockSpec
  <1>1. AccessInit => LockInit
    BY DEF AccessInit
  <1>2. [AccessNext]_accessVars => [LockNext]_lockVars
    BY StepIsLockStep DEF accessVars
  <1> QED BY <1>1, <1>2, PTL DEF AccessSpec, LockSpec

(* A thread that saves a locked file is alone with it until it returns, and  *)
(* for ever when its copy fails.                                             *)
THEOREM FileMutualExclusion == AccessSpec => []WritersAlone
  BY AccessIsLocked, MutualExclusion, PTL

(* The lock of a name stays the same, whoever makes it.                      *)
THEOREM FileLocksStay == AccessSpec => LockForGood
  BY AccessIsLocked, LocksStay, PTL

(* Types of the lock's state while files are accessed.                       *)
THEOREM FileLockTypes == AccessSpec => []LockTypeOK
  BY AccessIsLocked, LockTypeCorrect, PTL

-----------------------------------------------------------------------------
(* The lock of a name is as strict as the file system.                       *)

OpShape ==
  op = [t \in Threads |-> Op(op[t].at, op[t].file, op[t].mode, op[t].value,
                             op[t].tries, op[t].got)]

(* A call on a locked file asks for the lock of its file, and holds it from  *)
(* opening the file to the exit.                                             *)
Linked ==
  \A t \in Threads : TakesLock(t) =>
    /\ op[t].at \in {"open", "copy", "close", "exit"} =>
         step[t].key = op[t].file /\ step[t].mode = op[t].mode
    /\ op[t].at \in {"copy", "close", "exit"} => At(t, "inside")

LEMMA LinkedInit == AccessInit => OpShape /\ Linked
<1> SUFFICES ASSUME AccessInit PROVE OpShape /\ Linked
  OBVIOUS
<1>1. op = [t \in Threads |-> Op("idle", None, None, None, 0, <<>>)]
  BY DEF AccessInit
<1>2. \A t \in Threads : op[t].at = "idle"
  BY <1>1 DEF Op
<1> QED
  BY <1>1, <1>2 DEF OpShape, Linked, Op

(* One thread's step: the others keep their calls and their locks.           *)
LEMMA OneThread ==
  ASSUME Linked, NEW t \in Threads,
         \A u \in Threads \ {t} : op'[u] = op[u] /\ step'[u] = step[u],
         op'[t].file \in LockedFiles =>
           /\ op'[t].at \in {"open", "copy", "close", "exit"} =>
                step'[t].key = op'[t].file /\ step'[t].mode = op'[t].mode
           /\ op'[t].at \in {"copy", "close", "exit"} => step'[t].at = "inside"
  PROVE  Linked'
BY DEF Linked, TakesLock, At

(* A step that only moves the call on, under the lock that it needs.         *)
LEMMA CallMoves ==
  ASSUME OpShape, Linked, NEW t \in Threads, NEW at, NEW value, NEW tries, NEW got,
         UNCHANGED lockVars,
         op' = [op EXCEPT ![t] = Op(at, op[t].file, op[t].mode, value, tries, got)],
         op[t].at \in {"open", "copy", "close", "exit"},
         TakesLock(t) /\ at \in {"copy", "close", "exit"} => At(t, "inside")
  PROVE  OpShape' /\ Linked'
<1>1. /\ \A u \in Threads \ {t} : op'[u] = op[u]
      /\ op'[t] = Op(at, op[t].file, op[t].mode, value, tries, got)
  BY DEF OpShape
<1>2. OpShape'
  BY <1>1 DEF OpShape, Op
<1>3. /\ op'[t].at = at /\ op'[t].file = op[t].file /\ op'[t].mode = op[t].mode
      /\ step' = step
  BY <1>1 DEF Op, lockVars
<1>4. Linked'
  BY <1>1, <1>3, OneThread DEF Linked, TakesLock, At
<1> QED
  BY <1>2, <1>4

LEMMA Shape ==
  ASSUME OpShape, NEW t \in Threads, NEW at
  PROVE  [op EXCEPT ![t].at = at] =
         [op EXCEPT ![t] = Op(at, op[t].file, op[t].mode, op[t].value, op[t].tries, op[t].got)]
<1>1. op[t] = Op(op[t].at, op[t].file, op[t].mode, op[t].value, op[t].tries, op[t].got)
  BY DEF OpShape
<1>2. [op[t] EXCEPT !.at = at] =
      Op(at, op[t].file, op[t].mode, op[t].value, op[t].tries, op[t].got)
  BY <1>1 DEF Op
<1> QED
  BY <1>2

LEMMA CallMoved ==
  ASSUME OpShape, Linked, NEW t \in Threads, NEW at, Moved(t, at), lockVars' = lockVars,
         op[t].at \in {"open", "copy", "close", "exit"},
         TakesLock(t) /\ at \in {"copy", "close", "exit"} => At(t, "inside")
  PROVE  OpShape' /\ Linked'
<1>1. op' = [op EXCEPT ![t] = Op(at, op[t].file, op[t].mode, op[t].value,
                                 op[t].tries, op[t].got)]
  BY Shape DEF Moved
<1> QED
  BY <1>1, CallMoves

(* GetLock goes its way for the key and the mode that were asked for.        *)
LEMMA AcquireKeeps ==
  ASSUME LockTypeOK, NEW t \in Threads, Acquire(t)
  PROVE  /\ \A u \in Threads \ {t} : step'[u] = step[u]
         /\ step'[t].key = step[t].key /\ step'[t].mode = step[t].mode
<1>1. step = [u \in Threads |-> step[u]]
  BY DEF LockTypeOK
<1>2. ASSUME NEW at, NEW lock,
             step' = [step EXCEPT ![t] = Call(at, step[t].key, step[t].mode, lock)]
      PROVE  /\ \A u \in Threads \ {t} : step'[u] = step[u]
             /\ step'[t].key = step[t].key /\ step'[t].mode = step[t].mode
  BY <1>1, <1>2 DEF Call
<1> QED
  BY <1>2 DEF Acquire, Lookup, TakeOperationLock, Recheck, CreateLock, EnterLock

LEMMA LinkedStep ==
  ASSUME LockTypeOK, OpShape, Linked, [AccessNext]_accessVars
  PROVE  OpShape' /\ Linked'
<1>0. step = [u \in Threads |-> step[u]]
  BY DEF LockTypeOK
<1>1. ASSUME NEW t \in Threads, NEW f \in Keys, NEW mode, NEW v, Begin(t, f, mode, v)
      PROVE  OpShape' /\ Linked'
  <2>1. /\ \A u \in Threads \ {t} : op'[u] = op[u]
        /\ op'[t] = Op("open", f, mode, v, 0, <<>>)
    BY <1>1 DEF OpShape, Begin
  <2>2. OpShape'
    <3>1. op' = [u \in Threads |-> op'[u]]
      BY <1>1 DEF OpShape, Begin
    <3>2. \A u \in Threads :
            op'[u] = Op(op'[u].at, op'[u].file, op'[u].mode, op'[u].value,
                        op'[u].tries, op'[u].got)
      BY <2>1 DEF OpShape, Op
    <3> QED
      BY <3>1, <3>2 DEF OpShape
  <2>3. op'[t].at = "open" /\ op'[t].file = f /\ op'[t].mode = mode
    BY <2>1 DEF Op
  <2>4. CASE f \in LockedFiles
    <3>1. step' = [step EXCEPT ![t] = Call("lookup", f, mode, None)]
      BY <1>1, <2>4 DEF Begin, Enter
    <3>2. /\ \A u \in Threads \ {t} : step'[u] = step[u]
          /\ step'[t].key = f /\ step'[t].mode = mode
      BY <1>0, <3>1 DEF Call
    <3> QED
      BY <2>1, <2>2, <2>3, <3>2, OneThread
  <2>5. CASE f \notin LockedFiles
    <3>1. step' = step
      BY <1>1, <2>5 DEF Begin, lockVars
    <3> QED
      BY <2>1, <2>2, <2>3, <2>5, <3>1, OneThread
  <2> QED
    BY <2>4, <2>5
<1>2. ASSUME NEW t \in Threads, TakeLock(t) PROVE OpShape' /\ Linked'
  <2>1. op' = op
    BY <1>2 DEF TakeLock, fileVars
  <2>2. OpShape'
    BY <2>1 DEF OpShape
  <2>3. /\ \A u \in Threads \ {t} : step'[u] = step[u]
        /\ step'[t].key = step[t].key /\ step'[t].mode = step[t].mode
        /\ op[t].at = "open"
    BY <1>2, AcquireKeeps DEF TakeLock, OpAt
  <2> QED
    BY <2>1, <2>2, <2>3, OneThread DEF Linked, TakesLock, At
<1>3. ASSUME NEW t \in Threads, OpenToSave(t) \/ OpenToLoad(t) PROVE OpShape' /\ Linked'
  <2>1. /\ lockVars' = lockVars /\ op[t].at = "open"
        /\ TakesLock(t) => At(t, "inside")
    BY <1>3 DEF OpenToSave, OpenToLoad, OpAt, HasLock
  <2>2. PICK got : op' = [op EXCEPT ![t] = Op("copy", op[t].file, op[t].mode, op[t].value,
                                              0, got)]
    BY <1>3 DEF OpenToSave, OpenToLoad
  <2> QED
    BY <2>1, <2>2, CallMoves
<1>4. ASSUME NEW t \in Threads, LoadMissing(t) PROVE OpShape' /\ Linked'
  <2>1. op' = [op EXCEPT ![t] = Op("exit", op[t].file, op[t].mode, op[t].value, 0, None)]
    BY <1>4 DEF LoadMissing
  <2>2. /\ lockVars' = lockVars /\ op[t].at = "open"
        /\ TakesLock(t) => At(t, "inside")
    BY <1>4 DEF LoadMissing, OpAt, HasLock
  <2> QED
    BY <2>1, <2>2, CallMoves
<1>5. ASSUME NEW t \in Threads, SharingViolation(t) PROVE OpShape' /\ Linked'
  <2> DEFINE tries == IF TakesLock(t) THEN op[t].tries ELSE op[t].tries + 1
             at == IF TakesLock(t) \/ tries > RetryCount THEN "threw" ELSE "open"
  <2>1. /\ op' = [op EXCEPT ![t] = Op(at, op[t].file, op[t].mode, op[t].value,
                                      tries, op[t].got)]
        /\ UNCHANGED lockVars /\ op[t].at = "open"
    BY <1>5 DEF SharingViolation, OpAt
  <2>2. at \in {"threw", "open"}
    OBVIOUS
  <2> HIDE DEF at, tries
  <2> QED
    BY <2>1, <2>2, CallMoves
<1>6. ASSUME NEW t \in Threads, CopySaved(t) PROVE OpShape' /\ Linked'
  <2> DEFINE Closes == op' = [op EXCEPT ![t] = Op("close", op[t].file, op[t].mode,
                                                  op[t].value, op[t].tries, <<>>)]
  <2>1. UNCHANGED lockVars /\ op[t].at = "copy" /\ (Closes \/ op' = op)
    BY <1>6 DEF CopySaved, OpAt
  <2>2. CASE Closes
    <3>1. TakesLock(t) => At(t, "inside")
      BY <2>1 DEF Linked
    <3> QED
      BY <2>1, <2>2, <3>1, CallMoves
  <2>3. CASE op' = op
    BY <2>1, <2>3 DEF OpShape, Linked, TakesLock, At, lockVars
  <2> QED
    BY <2>1, <2>2, <2>3
<1>7. ASSUME NEW t \in Threads, CopyLoaded(t) PROVE OpShape' /\ Linked'
  <2> DEFINE file == content[op[t].file]
             n == Len(op[t].got)
             got == IF n < Len(file) THEN Append(op[t].got, file[n + 1]) ELSE op[t].got
             at == IF n + 1 < Len(file) THEN "copy" ELSE "close"
  <2>1. /\ op' = [op EXCEPT ![t] = Op(at, op[t].file, op[t].mode, op[t].value,
                                      op[t].tries, got)]
        /\ UNCHANGED lockVars /\ op[t].at = "copy"
    BY <1>7 DEF CopyLoaded, OpAt
  <2> HIDE DEF got, at
  <2> QED
    BY <2>1, CallMoves DEF Linked
<1>8. ASSUME NEW t \in Threads, Close(t) PROVE OpShape' /\ Linked'
  <2>1. lockVars' = lockVars /\ op[t].at = "close" /\ Moved(t, "exit")
    BY <1>8 DEF Close, OpAt
  <2>2. TakesLock(t) => At(t, "inside")
    BY <2>1 DEF Linked
  <2> QED
    BY <2>1, <2>2, CallMoved
<1>9. ASSUME NEW t \in Threads, CopyFails(t) PROVE OpShape' /\ Linked'
  <2>1. lockVars' = lockVars /\ op[t].at = "copy"
    BY <1>9 DEF CopyFails, OpAt
  <2>2. PICK got : op' = [op EXCEPT ![t] = Op("failed", op[t].file, op[t].mode, op[t].value,
                                              op[t].tries, got)]
    BY <1>9 DEF CopyFails
  <2>3. TakesLock(t) => At(t, "inside")
    BY <2>1 DEF Linked
  <2> QED
    BY <2>1, <2>2, <2>3, CallMoves
<1>10. ASSUME NEW t \in Threads, Return(t) PROVE OpShape' /\ Linked'
  <2>1. op' = [op EXCEPT ![t] = Op("returned", op[t].file, op[t].mode, op[t].value,
                                   op[t].tries, op[t].got)]
    BY <1>10, Shape DEF Return, Moved
  <2>2. /\ \A u \in Threads \ {t} : op'[u] = op[u]
        /\ op'[t] = Op("returned", op[t].file, op[t].mode, op[t].value,
                       op[t].tries, op[t].got)
    BY <2>1 DEF OpShape
  <2>3. OpShape'
    BY <2>1, <2>2 DEF OpShape, Op
  <2>4. op'[t].at = "returned"
    BY <2>2 DEF Op
  <2>5. \A u \in Threads \ {t} : step'[u] = step[u]
    BY <1>0, <1>10 DEF Return, Exit, lockVars
  <2> QED
    BY <2>2, <2>3, <2>4, <2>5, OneThread
<1>11. CASE UNCHANGED accessVars
  BY <1>11 DEF accessVars, lockVars, fileVars, OpShape, Linked, TakesLock, At
<1> QED
  BY <1>1, <1>2, <1>3, <1>4, <1>5, <1>6, <1>7, <1>8, <1>10, <1>11, <1>9
     DEF AccessNext, Proceed

(* Under its lock a call never finds its file open: writers are alone on a   *)
(* name, whoever has the file open holds the lock of its name, and a copy    *)
(* that fails keeps it.                                                      *)
THEOREM LockedOpensSucceed == AccessSpec => []NoSharingViolation
<1>1. AccessInit => OpShape /\ Linked
  BY LinkedInit
<1>2. LockTypeOK /\ OpShape /\ Linked /\ [AccessNext]_accessVars => (OpShape /\ Linked)'
  BY LinkedStep
<1>3. OpShape /\ Linked /\ WritersAlone /\ LockTypeOK => NoSharingViolation
  <2> SUFFICES ASSUME Linked, WritersAlone, LockTypeOK, NEW t \in Threads,
                      OpAt(t, "open"), TakesLock(t), HasLock(t)
               PROVE  MayOpen(t)
    BY DEF NoSharingViolation
  <2> DEFINE f == op[t].file
  <2>1. t \in InsideOf(f, op[t].mode) /\ f \in Keys
    BY FileAccessAssumption DEF Linked, OpAt, HasLock, InsideOf, TakesLock
  <2>2. ASSUME NEW mode, NEW u \in HandlesOn(f, mode)
        PROVE  u \in InsideOf(f, mode) /\ u # t
    BY <2>2 DEF HandlesOn, Linked, OpAt, InsideOf, TakesLock
  <2>3. HandlesOn(f, "write") = {}
    <3> SUFFICES ASSUME NEW u \in HandlesOn(f, "write") PROVE FALSE
      OBVIOUS
    <3>1. u \in InsideOf(f, "write") /\ u # t
      BY <2>2
    <3>2. op[t].mode \in {"read", "write"}
      BY DEF Linked, OpAt, LockTypeOK, Modes, TakesLock
    <3> QED
      BY <2>1, <3>1, <3>2 DEF WritersAlone
  <2>4. op[t].mode = "write" => HandlesOn(f, "read") = {}
    BY <2>1, <2>2 DEF WritersAlone
  <2> QED
    BY <2>3, <2>4 DEF MayOpen
<1> QED
  BY <1>1, <1>2, <1>3, FileLockTypes, FileMutualExclusion, PTL DEF AccessSpec

-----------------------------------------------------------------------------
(* Documents are whole.                                                      *)

Handle(o) == o.at \in {"copy", "close"}
Unfinished(o) ==
  o.mode = "write" /\ (o.at = "copy" \/ (o.at = "failed" /\ o.file \in LockedFiles))
Writing(o, f) == Unfinished(o) /\ o.file = f

(* The calls that depend on what their file contains.                        *)
Uses(o) == Handle(o) \/ Unfinished(o)

(* A load has read the first k of the n chunks that its file has.            *)
Copied(f, chunks, got) ==
  \E v \in Values, n \in 0..DocLength, k \in 0..DocLength :
    /\ chunks = Part(v, n) /\ (f \in LockedFiles => n = DocLength)
    /\ got = Part(v, k) /\ (k < n \/ (n = 0 /\ k = 0))

(* What a call knows of its file: a save what it has copied, a load that it  *)
(* copies chunks of one document.                                            *)
CallFits(o, c) ==
  /\ o.at \in {"idle", "open", "copy", "close", "exit", "returned", "threw", "failed"}
  /\ o.at = "idle" => o = Op("idle", None, None, None, 0, <<>>)
  /\ o.at # "idle" => /\ o.file \in Keys /\ o.mode \in Modes
                      /\ o.mode = "write" => o.value \in Values
  /\ o.mode = "write" =>
       /\ o.at = "copy" =>
            \E k \in 0..(DocLength - 1) : c[o.file] = Part(o.value, k)
       /\ o.at = "failed" /\ o.file \in LockedFiles => c[o.file] # None
       /\ o.at = "close" => c[o.file] = Document(o.value)
  /\ o.mode = "read" =>
       /\ o.at = "open" => o.got = <<>>
       /\ o.at = "copy" => Copied(o.file, c[o.file], o.got)
       /\ o.at = "close" => c[o.file] = o.got /\ Saved(o.file, o.got)
       /\ o.at \in {"exit", "returned"} => o.got = None \/ Saved(o.file, o.got)

CallsFit == \A t \in Threads : CallFits(op[t], content)

(* A file is what a save may leave unless somebody is writing it, or has     *)
(* left it under a lock.                                                     *)
Settled ==
  \A f \in Keys :
    content[f] = None \/ Saved(f, content[f]) \/ \E t \in Threads : Writing(op[t], f)

(* Who has a file open to write has it alone, with a lock or without.        *)
HandlesApart ==
  \A t, u \in Threads :
    t # u /\ Handle(op[t]) /\ Handle(op[u]) /\ op[t].file = op[u].file
      => op[t].mode = "read" /\ op[u].mode = "read"

(* A save under a lock that failed keeps others away from what it left.      *)
Barred(o, l) ==
  o.at = "failed" /\ o.mode = "write" /\ o.file \in LockedFiles =>
    l.at = "inside" /\ l.key = o.file /\ l.mode = "write"

FailedHolds == \A t \in Threads : Barred(op[t], step[t])

Contents == content = [f \in Keys |-> content[f]]

FilesInv == CallsFit /\ Settled /\ HandlesApart /\ FailedHolds /\ Contents

LocksInv == OpShape /\ Linked /\ LockTypeOK /\ WritersAlone

(* Parts of documents, and None is none of them.                             *)
LEMMA Parts ==
  ASSUME NEW v \in Values, NEW k \in 0..DocLength
  PROVE  /\ Part(v, k) \in Seq(Values) /\ Len(Part(v, k)) = k
         /\ Part(v, k) # None
         /\ \A i \in 1..k : Part(v, k)[i] = v
         /\ k < DocLength => Append(Part(v, k), v) = Part(v, k + 1)
         /\ Part(v, 0) = <<>> /\ Part(v, DocLength) = Document(v)
  <1>1. DocLength \in Nat \ {0} /\ k \in Nat
    BY FileAccessAssumption
  <1>2. Part(v, k) \in [1..k -> Values]
    BY DEF Part
  <1>3. Part(v, k) # None
    BY <1>2, FileAccessAssumption
  <1>4. Part(v, k) \in Seq(Values) /\ Len(Part(v, k)) = k
    BY <1>1, <1>2 DEF Part
  <1>5. \A i \in 1..k : Part(v, k)[i] = v
    BY DEF Part
  <1>6. Append(Part(v, k), v) = Part(v, k + 1)
    BY <1>1, <1>4 DEF Part
  <1>7. Part(v, 0) = <<>>
    BY DEF Part
  <1>8. Part(v, DocLength) = Document(v)
    BY DEF Document
  <1> QED BY <1>3, <1>4, <1>5, <1>6, <1>7, <1>8

(* A call fits as long as nobody changes the file that it depends on.        *)
LEMMA FitsKept ==
  ASSUME NEW o, NEW c, NEW d, CallFits(o, c), Uses(o) => d[o.file] = c[o.file]
  PROVE  CallFits(o, d)
  <1>1. CASE Uses(o)
    BY <1>1 DEF CallFits
  <1>2. CASE ~Uses(o)
    <2>1. o.mode = "write" => /\ o.at \notin {"copy", "close"}
                               /\ ~(o.at = "failed" /\ o.file \in LockedFiles)
      BY <1>2 DEF Uses, Handle, Unfinished
    <2>2. o.mode = "read" => o.at \notin {"copy", "close"}
      BY <1>2 DEF Uses, Handle
    <2> QED BY <2>1, <2>2 DEF CallFits
  <1> QED BY <1>1, <1>2

(* What a thread's step has to show: its own call fits, nobody else's file   *)
(* changes, its handle shares, and a file it is done with is whole.          *)
LEMMA FilesStep ==
  ASSUME FilesInv, NEW t \in Threads,
         \A u \in Threads \ {t} : op'[u] = op[u] /\ step'[u] = step[u],
         \A u \in Threads \ {t} :
           Uses(op[u]) => content'[op[u].file] = content[op[u].file],
         content' = [f \in Keys |-> content'[f]],
         CallFits(op'[t], content'),
         \A f \in Keys : content'[f] # content[f] \/ Writing(op[t], f) =>
           Writing(op'[t], f) \/ Saved(f, content'[f]),
         Handle(op'[t]) =>
           \A u \in Threads \ {t} : Handle(op[u]) /\ op[u].file = op'[t].file =>
             op'[t].mode = "read" /\ op[u].mode = "read",
         Barred(op'[t], step'[t])
  PROVE  FilesInv'
  <1>1. CallsFit'
    <2>1. ASSUME NEW u \in Threads \ {t} PROVE CallFits(op'[u], content')
      <3>1. CallFits(op[u], content)
        BY DEF FilesInv, CallsFit
      <3>2. CallFits(op[u], content')
        BY <3>1, FitsKept
      <3> QED BY <3>2
    <2> QED BY <2>1 DEF CallsFit
  <1>2. Settled'
    <2> SUFFICES ASSUME NEW f \in Keys
                 PROVE  \/ content'[f] = None
                        \/ Saved(f, content'[f])
                        \/ \E u \in Threads : Writing(op'[u], f)
      BY DEF Settled, Saved
    <2>1. CASE content'[f] # content[f] \/ Writing(op[t], f)
      BY <2>1
    <2>2. CASE content'[f] = content[f] /\ ~Writing(op[t], f)
      <3>1. \/ content[f] = None
            \/ Saved(f, content[f])
            \/ \E u \in Threads : Writing(op[u], f)
        BY DEF FilesInv, Settled
      <3>2. ASSUME NEW u \in Threads, Writing(op[u], f)
            PROVE  Writing(op'[u], f)
        BY <2>2, <3>2
      <3> QED BY <2>2, <3>1, <3>2
    <2> QED BY <2>1, <2>2
  <1>3. HandlesApart'
    <2> SUFFICES ASSUME NEW v \in Threads, NEW u \in Threads, v # u,
                        Handle(op'[v]), Handle(op'[u]), op'[v].file = op'[u].file
                 PROVE  op'[v].mode = "read" /\ op'[u].mode = "read"
      BY DEF HandlesApart
    <2>1. CASE v = t
      <3>1. op'[u] = op[u] /\ u \in Threads \ {t}
        BY <2>1
      <3> QED BY <2>1, <3>1
    <2>2. CASE u = t
      <3>1. op'[v] = op[v] /\ v \in Threads \ {t}
        BY <2>2
      <3> QED BY <2>2, <3>1
    <2>3. CASE v # t /\ u # t
      <3>1. op'[v] = op[v] /\ op'[u] = op[u]
        BY <2>3
      <3> QED BY <3>1 DEF FilesInv, HandlesApart
    <2> QED BY <2>1, <2>2, <2>3
  <1>4. FailedHolds'
    <2>1. ASSUME NEW u \in Threads \ {t} PROVE Barred(op'[u], step'[u])
      BY DEF FilesInv, FailedHolds
    <2> QED BY <2>1 DEF FailedHolds, Barred
  <1>5. Contents'
    BY DEF Contents
  <1> QED BY <1>1, <1>2, <1>3, <1>4, <1>5 DEF FilesInv

(* Nobody gets to a file whose save failed.                                  *)
LEMMA FailedAlone ==
  ASSUME FilesInv, LocksInv, NEW t \in Threads, NEW u \in Threads, t # u,
         op[u].at = "failed", op[u].mode = "write", op[u].file \in LockedFiles,
         op[t].file = op[u].file, op[t].at \in {"open", "copy", "close", "exit"}, HasLock(t)
  PROVE  FALSE
  <1>1. /\ step[u].at = "inside"
        /\ step[u].key = op[u].file /\ step[u].mode = "write"
    BY DEF FilesInv, FailedHolds, Barred
  <1>2. /\ step[t].at = "inside" /\ step[t].key = op[u].file
        /\ step[t].mode \in Modes
    BY <1>1 DEF LocksInv, Linked, TakesLock, HasLock, At, LockTypeOK
  <1>3. op[u].file \in Keys
    BY <1>1, FileAccessAssumption
  <1>4. u \in InsideOf(op[u].file, "write")
    BY <1>1 DEF InsideOf, At
  <1>5. t \in InsideOf(op[u].file, "write") \cup InsideOf(op[u].file, "read")
    BY <1>2 DEF InsideOf, At, Modes
  <1> QED BY <1>3, <1>4, <1>5 DEF LocksInv, WritersAlone

(* Whoever has a file open to write is its only user.                        *)
LEMMA WriterOnlyUser ==
  ASSUME FilesInv, LocksInv, NEW t \in Threads, NEW u \in Threads, t # u,
         Handle(op[t]), op[t].mode = "write", Uses(op[u])
  PROVE  op[u].file # op[t].file
  <1> SUFFICES ASSUME op[u].file = op[t].file PROVE FALSE
    OBVIOUS
  <1>1. CASE Handle(op[u])
    BY <1>1 DEF FilesInv, HandlesApart
  <1>2. CASE ~Handle(op[u])
    <2>1. op[u].at = "failed" /\ op[u].mode = "write" /\ op[u].file \in LockedFiles
      BY <1>2 DEF Uses, Unfinished, Handle
    <2>2. HasLock(t) /\ op[t].at \in {"copy", "close"}
      BY DEF HasLock, Handle, LocksInv, Linked
    <2> QED BY <2>1, <2>2, FailedAlone
  <1> QED BY <1>1, <1>2

(* Whoever may open a file finds nobody writing it, and to write it nobody   *)
(* using it.                                                                 *)
LEMMA OpenerApart ==
  ASSUME FilesInv, LocksInv, NEW t \in Threads, NEW u \in Threads, t # u,
         op[t].at = "open", HasLock(t), MayOpen(t), op[u].file = op[t].file,
         op[t].file \in Keys, op[t].mode \in Modes
  PROVE  /\ ~Unfinished(op[u])
         /\ Handle(op[u]) => op[t].mode = "read" /\ op[u].mode = "read"
  <1>1. ~(op[u].at = "failed" /\ op[u].mode = "write" /\ op[u].file \in LockedFiles)
    BY FailedAlone
  <1>2. Handle(op[u]) => u \in HandlesOn(op[t].file, op[u].mode)
    BY DEF Handle, HandlesOn, OpAt
  <1>3. Handle(op[u]) => op[u].mode # "write"
    BY <1>2 DEF MayOpen
  <1>4. Handle(op[u]) => op[u].mode \in Modes
    BY DEF FilesInv, CallsFit, CallFits, Handle
  <1>5. Handle(op[u]) => op[u].mode = "read" /\ op[t].mode # "write"
    BY <1>2, <1>3, <1>4 DEF Modes, MayOpen
  <1> QED BY <1>1, <1>3, <1>5 DEF Unfinished, Handle, Modes

(* The fields of a call that moved on.                                       *)
LEMMA MovedCall ==
  ASSUME OpShape, NEW t \in Threads, NEW a, Moved(t, a)
  PROVE  /\ \A u \in Threads \ {t} : op'[u] = op[u]
         /\ op'[t].at = a /\ op'[t].file = op[t].file /\ op'[t].mode = op[t].mode
         /\ op'[t].value = op[t].value /\ op'[t].got = op[t].got
  <1>1. op' = [op EXCEPT ![t] = Op(a, op[t].file, op[t].mode, op[t].value,
                                   op[t].tries, op[t].got)]
    BY Shape DEF Moved
  <1>2. /\ \A u \in Threads \ {t} : op'[u] = op[u]
        /\ op'[t] = Op(a, op[t].file, op[t].mode, op[t].value, op[t].tries, op[t].got)
    BY <1>1 DEF OpShape
  <1> QED BY <1>2 DEF Op

(* A step of a call that changes no file and opens none.                     *)
LEMMA QuietStep ==
  ASSUME FilesInv, NEW t \in Threads,
         \A u \in Threads \ {t} : op'[u] = op[u] /\ step'[u] = step[u],
         content' = content,
         CallFits(op'[t], content),
         Handle(op'[t]) =>
           Handle(op[t]) /\ op'[t].file = op[t].file /\ op'[t].mode = op[t].mode,
         Unfinished(op[t]) => Unfinished(op'[t]) /\ op'[t].file = op[t].file,
         Barred(op'[t], step'[t])
  PROVE  FilesInv'
  <1>1. content' = [f \in Keys |-> content'[f]]
    BY DEF FilesInv, Contents
  <1>2. \A f \in Keys : content'[f] # content[f] \/ Writing(op[t], f) =>
           Writing(op'[t], f) \/ Saved(f, content'[f])
    BY DEF Writing
  <1>3. Handle(op'[t]) =>
           \A u \in Threads \ {t} : Handle(op[u]) /\ op[u].file = op'[t].file =>
             op'[t].mode = "read" /\ op[u].mode = "read"
    BY DEF FilesInv, HandlesApart
  <1> QED BY <1>1, <1>2, <1>3, FilesStep

(* A call begins.                                                            *)
LEMMA BeginFiles ==
  ASSUME FilesInv, LocksInv, NEW t \in Threads, NEW f \in Keys, NEW m \in Modes,
         NEW v, m = "write" => v \in Values, Begin(t, f, m, v)
  PROVE  FilesInv'
  <1>1. /\ op' = [op EXCEPT ![t] = Op("open", f, m, v, 0, <<>>)]
        /\ content' = content /\ op[t].at # "copy" /\ step[t].at = "idle"
    BY DEF Begin, At
  <1>2. /\ \A u \in Threads \ {t} : op'[u] = op[u]
        /\ op'[t].at = "open" /\ op'[t].file = f /\ op'[t].mode = m
        /\ op'[t].value = v /\ op'[t].got = <<>>
    <2>1. /\ \A u \in Threads \ {t} : op'[u] = op[u]
          /\ op'[t] = Op("open", f, m, v, 0, <<>>)
      BY <1>1 DEF LocksInv, OpShape
    <2> QED BY <2>1 DEF Op
  <1>3. \A u \in Threads \ {t} : step'[u] = step[u]
    BY DEF Begin, Enter, lockVars, LocksInv, LockTypeOK
  <1>4. CallFits(op'[t], content)
    BY <1>2 DEF CallFits
  <1>5. ~Handle(op'[t]) /\ ~Unfinished(op[t]) /\ Barred(op'[t], step'[t])
    BY <1>1, <1>2 DEF Handle, Unfinished, FilesInv, FailedHolds, Barred
  <1> QED BY <1>1, <1>2, <1>3, <1>4, <1>5, QuietStep

(* On the way to the lock.                                                   *)
LEMMA TakeLockFiles ==
  ASSUME FilesInv, LocksInv, NEW t \in Threads, TakeLock(t)
  PROVE  FilesInv'
  <1>1. op' = op /\ content' = content /\ op[t].at = "open"
    BY DEF TakeLock, fileVars, OpAt
  <1>2. \A u \in Threads \ {t} : step'[u] = step[u]
    BY AcquireKeeps DEF TakeLock, LocksInv
  <1>3. CallFits(op'[t], content)
    BY <1>1 DEF FilesInv, CallsFit
  <1>4. ~Handle(op'[t]) /\ ~Unfinished(op[t]) /\ Barred(op'[t], step'[t])
    BY <1>1 DEF Handle, Unfinished, Barred
  <1> QED BY <1>1, <1>2, <1>3, <1>4, QuietStep

(* A save opens its file, and empties it.                                    *)
LEMMA OpenToSaveFiles ==
  ASSUME FilesInv, LocksInv, NEW t \in Threads, OpenToSave(t)
  PROVE  FilesInv'
  <1>1. /\ op[t].at = "open" /\ op[t].mode = "write" /\ HasLock(t) /\ MayOpen(t)
        /\ content' = [content EXCEPT ![op[t].file] = <<>>]
        /\ op' = [op EXCEPT ![t] = Op("copy", op[t].file, op[t].mode, op[t].value,
                                      0, content[op[t].file])]
        /\ step' = step
    BY DEF OpenToSave, OpAt, lockVars
  <1>2. op[t].file \in Keys /\ op[t].value \in Values /\ op[t].mode \in Modes
    BY <1>1 DEF FilesInv, CallsFit, CallFits
  <1>3. /\ \A u \in Threads \ {t} : op'[u] = op[u]
        /\ op'[t].at = "copy" /\ op'[t].file = op[t].file /\ op'[t].mode = op[t].mode
        /\ op'[t].value = op[t].value
    <2>1. /\ \A u \in Threads \ {t} : op'[u] = op[u]
          /\ op'[t] = Op("copy", op[t].file, op[t].mode, op[t].value,
                         0, content[op[t].file])
      BY <1>1 DEF LocksInv, OpShape
    <2> QED BY <2>1 DEF Op
  <1>4. /\ content'[op[t].file] = <<>>
        /\ \A f \in Keys : f # op[t].file => content'[f] = content[f]
        /\ content' = [f \in Keys |-> content'[f]]
    BY <1>1, <1>2 DEF FilesInv, Contents
  <1>5. ASSUME NEW u \in Threads \ {t}, op[u].file = op[t].file
        PROVE  ~Handle(op[u]) /\ ~Uses(op[u])
    BY <1>1, <1>2, <1>5, OpenerApart DEF Uses
  <1>6. \A u \in Threads \ {t} : Uses(op[u]) => content'[op[u].file] = content[op[u].file]
    <2>1. \A u \in Threads : Uses(op[u]) => op[u].file \in Keys
      BY DEF FilesInv, CallsFit, CallFits, Uses, Handle, Unfinished
    <2> QED BY <1>4, <1>5, <2>1
  <1>7. CallFits(op'[t], content')
    <2>1. 0 \in 0..(DocLength - 1) /\ 0 \in 0..DocLength
      BY FileAccessAssumption
    <2>2. content'[op'[t].file] = Part(op'[t].value, 0)
      BY <1>2, <1>3, <1>4, <2>1, Parts
    <2> QED BY <1>1, <1>2, <1>3, <2>1, <2>2 DEF CallFits, Modes
  <1>8. \A f \in Keys : content'[f] # content[f] \/ Writing(op[t], f) => Writing(op'[t], f)
    BY <1>1, <1>3, <1>4 DEF Writing, Unfinished
  <1>9. Barred(op'[t], step'[t])
    BY <1>3 DEF Barred
  <1> QED BY <1>1, <1>3, <1>4, <1>5, <1>6, <1>7, <1>8, <1>9, FilesStep

(* A load opens a file that is there, and that nobody is writing.            *)
LEMMA LoadFindsSaved ==
  ASSUME FilesInv, LocksInv, NEW t \in Threads,
         op[t].at = "open", op[t].mode = "read", HasLock(t), MayOpen(t),
         content[op[t].file] # None
  PROVE  op[t].file \in Keys /\ Saved(op[t].file, content[op[t].file])
  <1>1. op[t].file \in Keys /\ op[t].mode \in Modes
    BY DEF FilesInv, CallsFit, CallFits
  <1>2. ~Unfinished(op[t])
    BY DEF Unfinished
  <1>3. \A u \in Threads : ~Writing(op[u], op[t].file)
    BY <1>1, <1>2, OpenerApart DEF Writing
  <1> QED BY <1>1, <1>3 DEF FilesInv, Settled

LEMMA OpenToLoadFiles ==
  ASSUME FilesInv, LocksInv, NEW t \in Threads, OpenToLoad(t)
  PROVE  FilesInv'
  <1>1. /\ op[t].at = "open" /\ op[t].mode = "read" /\ HasLock(t) /\ MayOpen(t)
        /\ content[op[t].file] # None
        /\ op' = [op EXCEPT ![t] = Op("copy", op[t].file, op[t].mode, op[t].value,
                                      0, op[t].got)]
        /\ content' = content /\ step' = step
    BY DEF OpenToLoad, OpAt, lockVars
  <1>2. /\ \A u \in Threads \ {t} : op'[u] = op[u]
        /\ op'[t].at = "copy" /\ op'[t].file = op[t].file /\ op'[t].mode = op[t].mode
        /\ op'[t].value = op[t].value /\ op'[t].got = op[t].got
    <2>1. /\ \A u \in Threads \ {t} : op'[u] = op[u]
          /\ op'[t] = Op("copy", op[t].file, op[t].mode, op[t].value, 0, op[t].got)
      BY <1>1 DEF LocksInv, OpShape
    <2> QED BY <2>1 DEF Op
  <1>3. op[t].file \in Keys /\ Saved(op[t].file, content[op[t].file])
    BY <1>1, LoadFindsSaved
  <1>4. op[t].got = <<>>
    BY <1>1 DEF FilesInv, CallsFit, CallFits
  <1>5. CallFits(op'[t], content')
    <2>1. PICK v \in Values, n \in 0..DocLength :
            content[op[t].file] = Part(v, n) /\ (op[t].file \in LockedFiles => n = DocLength)
      BY <1>3 DEF Saved
    <2>2. 0 \in 0..DocLength /\ Part(v, 0) = <<>> /\ (0 < n \/ n = 0)
      BY FileAccessAssumption, Parts
    <2>3. Copied(op[t].file, content[op[t].file], op[t].got)
      BY <1>4, <2>1, <2>2 DEF Copied
    <2>4. op'[t].mode = "read" /\ "read" # "write" /\ "read" \in Modes
      BY <1>1, <1>2 DEF Modes
    <2> QED BY <1>1, <1>2, <1>3, <2>3, <2>4 DEF CallFits
  <1>6. ~Unfinished(op[t]) /\ Barred(op'[t], step'[t])
    BY <1>1, <1>2 DEF Unfinished, Barred
  <1>7. \A u \in Threads \ {t} : Handle(op[u]) /\ op[u].file = op'[t].file =>
             op'[t].mode = "read" /\ op[u].mode = "read"
    <2>1. "read" \in Modes
      BY DEF Modes
    <2> QED BY <1>1, <1>2, <1>3, <2>1, OpenerApart
  <1>8. content' = [f \in Keys |-> content'[f]]
    BY <1>1 DEF FilesInv, Contents
  <1> QED BY <1>1, <1>2, <1>5, <1>6, <1>7, <1>8, FilesStep DEF Writing

(* There is no file to load, or it is in use.                                *)
LEMMA LoadMissingFiles ==
  ASSUME FilesInv, LocksInv, NEW t \in Threads, LoadMissing(t)
  PROVE  FilesInv'
  <1>1. /\ op[t].at = "open" /\ op[t].mode = "read"
        /\ op' = [op EXCEPT ![t] = Op("exit", op[t].file, op[t].mode, op[t].value,
                                      0, None)]
        /\ content' = content /\ step' = step
    BY DEF LoadMissing, OpAt, lockVars
  <1>2. /\ \A u \in Threads \ {t} : op'[u] = op[u]
        /\ op'[t].at = "exit" /\ op'[t].file = op[t].file /\ op'[t].mode = op[t].mode
        /\ op'[t].value = op[t].value /\ op'[t].got = None
    <2>1. /\ \A u \in Threads \ {t} : op'[u] = op[u]
          /\ op'[t] = Op("exit", op[t].file, op[t].mode, op[t].value, 0, None)
      BY <1>1 DEF LocksInv, OpShape
    <2> QED BY <2>1 DEF Op
  <1>3. op[t].file \in Keys /\ op[t].mode \in Modes
    BY <1>1 DEF FilesInv, CallsFit, CallFits
  <1>4. CallFits(op'[t], content)
    BY <1>1, <1>2, <1>3 DEF CallFits
  <1>5. ~Handle(op'[t]) /\ ~Unfinished(op[t]) /\ Barred(op'[t], step'[t])
    BY <1>1, <1>2 DEF Handle, Unfinished, Barred
  <1> QED BY <1>1, <1>2, <1>4, <1>5, QuietStep

LEMMA SharingViolationFiles ==
  ASSUME FilesInv, LocksInv, NEW t \in Threads, SharingViolation(t)
  PROVE  FilesInv'
  <1> DEFINE tries == IF TakesLock(t) THEN op[t].tries ELSE op[t].tries + 1
             at == IF TakesLock(t) \/ tries > RetryCount THEN "threw" ELSE "open"
  <1>1. /\ op[t].at = "open"
        /\ op' = [op EXCEPT ![t] = Op(at, op[t].file, op[t].mode, op[t].value,
                                      tries, op[t].got)]
        /\ content' = content /\ step' = step
    BY DEF SharingViolation, OpAt, lockVars
  <1>2. at \in {"threw", "open"}
    OBVIOUS
  <1> HIDE DEF at, tries
  <1>3. /\ \A u \in Threads \ {t} : op'[u] = op[u]
        /\ op'[t].at = at /\ op'[t].file = op[t].file /\ op'[t].mode = op[t].mode
        /\ op'[t].value = op[t].value /\ op'[t].got = op[t].got
    <2>1. /\ \A u \in Threads \ {t} : op'[u] = op[u]
          /\ op'[t] = Op(at, op[t].file, op[t].mode, op[t].value, tries, op[t].got)
      BY <1>1 DEF LocksInv, OpShape
    <2> QED BY <2>1 DEF Op
  <1>4. CallFits(op[t], content)
    BY DEF FilesInv, CallsFit
  <1>5. CallFits(op'[t], content)
    BY <1>1, <1>2, <1>3, <1>4 DEF CallFits
  <1>6. ~Handle(op'[t]) /\ ~Unfinished(op[t]) /\ Barred(op'[t], step'[t])
    BY <1>1, <1>2, <1>3 DEF Handle, Unfinished, Barred
  <1> QED BY <1>1, <1>3, <1>5, <1>6, QuietStep

(* A save copies a chunk: what its file has stays a part of its document.    *)
LEMMA CopySavedFiles ==
  ASSUME FilesInv, LocksInv, NEW t \in Threads, CopySaved(t)
  PROVE  FilesInv'
  <1>1. /\ op[t].at = "copy" /\ op[t].mode = "write" /\ step' = step
        /\ content' = [content EXCEPT ![op[t].file] = Append(@, op[t].value)]
        /\ IF Len(content'[op[t].file]) >= DocLength
           THEN op' = [op EXCEPT ![t] = Op("close", op[t].file, op[t].mode, op[t].value,
                                           op[t].tries, <<>>)]
           ELSE op' = op
    BY DEF CopySaved, OpAt, lockVars
  <1>2. op[t].file \in Keys /\ op[t].value \in Values /\ op[t].mode \in Modes
    BY <1>1 DEF FilesInv, CallsFit, CallFits
  <1>3. PICK k \in 0..(DocLength - 1) : content[op[t].file] = Part(op[t].value, k)
    BY <1>1 DEF FilesInv, CallsFit, CallFits
  <1>4. DocLength \in Nat \ {0} /\ k \in 0..DocLength /\ k < DocLength /\ k + 1 \in 0..DocLength
    BY <1>3, FileAccessAssumption
  <1>5. /\ content'[op[t].file] = Append(content[op[t].file], op[t].value)
        /\ \A f \in Keys : f # op[t].file => content'[f] = content[f]
        /\ content' = [f \in Keys |-> content'[f]]
    BY <1>1, <1>2 DEF FilesInv, Contents
  <1>6. /\ content'[op[t].file] = Part(op[t].value, k + 1)
        /\ Len(content'[op[t].file]) = k + 1
    <2>1. Append(Part(op[t].value, k), op[t].value) = Part(op[t].value, k + 1)
      BY <1>2, <1>4, Parts
    <2>2. Len(Part(op[t].value, k + 1)) = k + 1
      BY <1>2, <1>4, Parts
    <2> QED BY <1>3, <1>5, <2>1, <2>2
  <1>7. \A u \in Threads \ {t} : Uses(op[u]) => content'[op[u].file] = content[op[u].file]
    <2>1. \A u \in Threads : Uses(op[u]) => op[u].file \in Keys
      BY DEF FilesInv, CallsFit, CallFits, Uses, Handle, Unfinished
    <2>2. Handle(op[t])
      BY <1>1 DEF Handle
    <2>3. \A u \in Threads \ {t} : Uses(op[u]) => op[u].file # op[t].file
      BY <1>1, <2>2, WriterOnlyUser
    <2> QED BY <1>5, <2>1, <2>3
  <1>8. CASE k + 1 >= DocLength
    <2>1. /\ \A u \in Threads \ {t} : op'[u] = op[u]
          /\ op'[t].at = "close" /\ op'[t].file = op[t].file /\ op'[t].mode = op[t].mode
          /\ op'[t].value = op[t].value
      <3>1. /\ \A u \in Threads \ {t} : op'[u] = op[u]
            /\ op'[t] = Op("close", op[t].file, op[t].mode, op[t].value, op[t].tries, <<>>)
        BY <1>1, <1>6, <1>8 DEF LocksInv, OpShape
      <3> QED BY <3>1 DEF Op
    <2>2. content'[op[t].file] = Document(op[t].value)
      <3>1. k + 1 = DocLength
        BY <1>4, <1>8
      <3> QED BY <1>6, <3>1 DEF Document
    <2>3. CallFits(op'[t], content')
      BY <1>1, <1>2, <2>1, <2>2 DEF CallFits
    <2>4. \A f \in Keys : content'[f] # content[f] \/ Writing(op[t], f) =>
             Saved(f, content'[f])
      <3>1. DocLength \in 0..DocLength
        BY <1>4
      <3>2. Saved(op[t].file, content'[op[t].file])
        BY <1>2, <2>2, <3>1 DEF Saved, Document
      <3> QED BY <1>2, <1>5, <3>2 DEF Writing
    <2>5. \A u \in Threads \ {t} : ~(Handle(op[u]) /\ op[u].file = op'[t].file)
      BY <1>1, <2>1, WriterOnlyUser DEF Uses, Handle
    <2>6. Barred(op'[t], step'[t])
      BY <1>1, <2>1 DEF Barred
    <2> QED BY <1>1, <1>5, <1>7, <2>1, <2>3, <2>4, <2>5, <2>6, FilesStep
  <1>9. CASE ~(k + 1 >= DocLength)
    <2>1. op' = op
      BY <1>1, <1>6, <1>9
    <2>2. k + 1 \in 0..(DocLength - 1)
      BY <1>4, <1>9
    <2>3. CallFits(op'[t], content')
      BY <1>1, <1>2, <1>6, <2>1, <2>2 DEF CallFits
    <2>4. \A f \in Keys : content'[f] # content[f] \/ Writing(op[t], f) => Writing(op'[t], f)
      BY <1>1, <1>5, <2>1 DEF Writing, Unfinished
    <2>5. \A u \in Threads \ {t} : ~(Handle(op[u]) /\ op[u].file = op'[t].file)
      BY <1>1, <2>1, WriterOnlyUser DEF Uses, Handle
    <2>6. Barred(op'[t], step'[t])
      BY <1>1, <2>1 DEF Barred
    <2> QED BY <1>1, <1>5, <1>7, <2>1, <2>3, <2>4, <2>5, <2>6, FilesStep
  <1> QED BY <1>8, <1>9

(* A load copies a chunk of what its file has, or has it all.                *)
LEMMA ChunkLoaded ==
  ASSUME FilesInv, NEW t \in Threads, CopyLoaded(t)
  PROVE  \E at, got :
           /\ op' = [op EXCEPT ![t] = Op(at, op[t].file, op[t].mode, op[t].value,
                                         op[t].tries, got)]
           /\ \/ at = "copy" /\ Copied(op[t].file, content[op[t].file], got)
              \/ /\ at = "close" /\ got = content[op[t].file]
                 /\ Saved(op[t].file, got)
  <1> DEFINE file == content[op[t].file]
             n == Len(op[t].got)
             got == IF n < Len(file) THEN Append(op[t].got, file[n + 1]) ELSE op[t].got
             at == IF n + 1 < Len(file) THEN "copy" ELSE "close"
  <1>1. /\ op' = [op EXCEPT ![t] = Op(at, op[t].file, op[t].mode, op[t].value,
                                      op[t].tries, got)]
        /\ op[t].at = "copy" /\ op[t].mode = "read"
    BY DEF CopyLoaded, OpAt
  <1>2. PICK v \in Values, m \in 0..DocLength, k \in 0..DocLength :
          /\ file = Part(v, m) /\ (op[t].file \in LockedFiles => m = DocLength)
          /\ op[t].got = Part(v, k) /\ (k < m \/ (m = 0 /\ k = 0))
    BY <1>1 DEF FilesInv, CallsFit, CallFits, Copied
  <1>3. DocLength \in Nat \ {0} /\ m \in Nat /\ k \in Nat
    BY FileAccessAssumption
  <1>4. n = k /\ Len(file) = m
    BY <1>2, Parts
  <1>5. Saved(op[t].file, file)
    BY <1>2 DEF Saved
  <1>6. CASE m = 0
    <2>1. got = file /\ at = "close"
      BY <1>2, <1>3, <1>4, <1>6
    <2> HIDE DEF at, got, file
    <2> QED BY <1>1, <1>5, <2>1 DEF file
  <1>7. CASE k < m
    <2>1. file[k + 1] = v /\ k < DocLength
      BY <1>2, <1>3, <1>7 DEF Part
    <2>2. k + 1 \in 0..DocLength
      BY <1>3, <2>1
    <2>3. got = Part(v, k + 1)
      BY <1>2, <1>3, <1>4, <1>7, <2>1, Parts
    <2>4. \/ at = "copy" /\ k + 1 < m
          \/ at = "close" /\ k + 1 = m
      BY <1>3, <1>4, <1>7
    <2> HIDE DEF at, got, file
    <2>5. CASE at = "copy" /\ k + 1 < m
      <3>1. PICK j \in 0..DocLength : j = k + 1
        BY <2>2
      <3>2. got = Part(v, j) /\ j < m
        BY <2>3, <2>5, <3>1
      <3>3. Copied(op[t].file, file, got)
        BY <1>2, <3>2 DEF Copied
      <3> QED BY <1>1, <2>5, <3>3 DEF file
    <2>6. CASE at = "close" /\ k + 1 = m
      <3>1. got = file
        BY <1>2, <2>3, <2>6
      <3> QED BY <1>1, <1>5, <2>6, <3>1 DEF file
    <2> QED BY <2>4, <2>5, <2>6
  <1> QED BY <1>2, <1>6, <1>7

LEMMA CopyLoadedFiles ==
  ASSUME FilesInv, LocksInv, NEW t \in Threads, CopyLoaded(t)
  PROVE  FilesInv'
  <1>1. /\ op[t].at = "copy" /\ op[t].mode = "read"
        /\ content' = content /\ step' = step
    BY DEF CopyLoaded, OpAt, lockVars
  <1>2. op[t].file \in Keys /\ op[t].mode \in Modes
    BY <1>1 DEF FilesInv, CallsFit, CallFits
  <1>3. PICK at, got :
          /\ op' = [op EXCEPT ![t] = Op(at, op[t].file, op[t].mode, op[t].value,
                                        op[t].tries, got)]
          /\ \/ at = "copy" /\ Copied(op[t].file, content[op[t].file], got)
             \/ /\ at = "close" /\ got = content[op[t].file]
                /\ Saved(op[t].file, got)
    BY ChunkLoaded
  <1>4. /\ \A u \in Threads \ {t} : op'[u] = op[u]
        /\ op'[t].at = at /\ op'[t].file = op[t].file /\ op'[t].mode = op[t].mode
        /\ op'[t].value = op[t].value /\ op'[t].got = got
    <2>1. /\ \A u \in Threads \ {t} : op'[u] = op[u]
          /\ op'[t] = Op(at, op[t].file, op[t].mode, op[t].value, op[t].tries, got)
      BY <1>3 DEF LocksInv, OpShape
    <2> QED BY <2>1 DEF Op
  <1>5. CallFits(op'[t], content)
    BY <1>1, <1>2, <1>3, <1>4 DEF CallFits
  <1>6. Handle(op[t]) /\ ~Unfinished(op[t]) /\ Barred(op'[t], step'[t])
    BY <1>1, <1>3, <1>4 DEF Handle, Unfinished, Barred
  <1> QED BY <1>1, <1>4, <1>5, <1>6, QuietStep

(* A copy fails: a save leaves a part of its document, and keeps its lock if *)
(* it has one.                                                               *)
LEMMA CopyFailsFiles ==
  ASSUME FilesInv, LocksInv, NEW t \in Threads, CopyFails(t)
  PROVE  FilesInv'
  <1>1. op[t].at = "copy" /\ content' = content /\ step' = step
    BY DEF CopyFails, OpAt, lockVars
  <1>2. PICK got : op' = [op EXCEPT ![t] = Op("failed", op[t].file, op[t].mode, op[t].value,
                                              op[t].tries, got)]
    BY DEF CopyFails
  <1>3. CallFits(op[t], content)
    BY DEF FilesInv, CallsFit
  <1>4. op[t].file \in Keys /\ op[t].mode \in Modes
    BY <1>1, <1>3 DEF CallFits
  <1>5. /\ \A u \in Threads \ {t} : op'[u] = op[u]
        /\ op'[t].at = "failed" /\ op'[t].file = op[t].file /\ op'[t].mode = op[t].mode
        /\ op'[t].value = op[t].value
    <2>1. /\ \A u \in Threads \ {t} : op'[u] = op[u]
          /\ op'[t] = Op("failed", op[t].file, op[t].mode, op[t].value, op[t].tries, got)
      BY <1>2 DEF LocksInv, OpShape
    <2> QED BY <2>1 DEF Op
  <1>6. op[t].mode = "write" =>
          \E k \in 0..DocLength : /\ content[op[t].file] = Part(op[t].value, k)
                                  /\ op[t].value \in Values
    <2>1. \A k \in 0..(DocLength - 1) : k \in 0..DocLength
      BY FileAccessAssumption
    <2> QED BY <1>1, <1>3, <2>1 DEF CallFits
  <1>7. CallFits(op'[t], content')
    <2>1. op[t].mode = "write" => content[op[t].file] # None
      BY <1>6, Parts
    <2> QED BY <1>1, <1>3, <1>4, <1>5, <2>1 DEF CallFits
  <1>8. \A f \in Keys : content'[f] # content[f] \/ Writing(op[t], f) =>
           Writing(op'[t], f) \/ Saved(f, content'[f])
    <2>1. CASE op[t].file \in LockedFiles
      BY <1>1, <1>5, <2>1 DEF Writing, Unfinished
    <2>2. CASE op[t].file \notin LockedFiles
      <3>1. op[t].mode = "write" => Saved(op[t].file, content[op[t].file])
        BY <1>6, <2>2 DEF Saved
      <3> QED BY <1>1, <3>1 DEF Writing, Unfinished
    <2> QED BY <2>1, <2>2
  <1>9. Barred(op'[t], step'[t])
    BY <1>1, <1>5 DEF Barred, TakesLock, LocksInv, Linked, At
  <1>10. content' = [f \in Keys |-> content'[f]]
    BY <1>1 DEF FilesInv, Contents
  <1>11. ~Handle(op'[t])
    BY <1>5 DEF Handle
  <1> QED BY <1>1, <1>5, <1>7, <1>8, <1>9, <1>10, <1>11, FilesStep

(* The file is closed, whole.                                                *)
LEMMA CloseFiles ==
  ASSUME FilesInv, LocksInv, NEW t \in Threads, Close(t)
  PROVE  FilesInv'
  <1>1. /\ op[t].at = "close" /\ Moved(t, "exit") /\ content' = content /\ step' = step
    BY DEF Close, OpAt, lockVars
  <1>2. CallFits(op[t], content)
    BY DEF FilesInv, CallsFit
  <1>3. /\ \A u \in Threads \ {t} : op'[u] = op[u]
        /\ op'[t].at = "exit" /\ op'[t].file = op[t].file /\ op'[t].mode = op[t].mode
        /\ op'[t].value = op[t].value /\ op'[t].got = op[t].got
    BY <1>1, MovedCall DEF LocksInv
  <1>4. CallFits(op'[t], content)
    BY <1>1, <1>2, <1>3 DEF CallFits
  <1>5. ~Handle(op'[t]) /\ ~Unfinished(op[t]) /\ Barred(op'[t], step'[t])
    BY <1>1, <1>3 DEF Handle, Unfinished, Barred
  <1> QED BY <1>1, <1>3, <1>4, <1>5, QuietStep

(* The call returns.                                                         *)
LEMMA ReturnFiles ==
  ASSUME FilesInv, LocksInv, NEW t \in Threads, Return(t)
  PROVE  FilesInv'
  <1>1. /\ op[t].at = "exit" /\ Moved(t, "returned") /\ content' = content
        /\ IF TakesLock(t) THEN Exit(t) ELSE step' = step
    BY DEF Return, OpAt, lockVars
  <1>2. CallFits(op[t], content)
    BY DEF FilesInv, CallsFit
  <1>3. /\ \A u \in Threads \ {t} : op'[u] = op[u]
        /\ op'[t].at = "returned" /\ op'[t].file = op[t].file /\ op'[t].mode = op[t].mode
        /\ op'[t].value = op[t].value /\ op'[t].got = op[t].got
    BY <1>1, MovedCall DEF LocksInv
  <1>4. \A u \in Threads \ {t} : step'[u] = step[u]
    <2>1. step = [u \in Threads |-> step[u]]
      BY DEF LocksInv, LockTypeOK
    <2> QED BY <1>1, <2>1 DEF Exit
  <1>5. CallFits(op'[t], content)
    BY <1>1, <1>2, <1>3 DEF CallFits
  <1>6. ~Handle(op'[t]) /\ ~Unfinished(op[t]) /\ Barred(op'[t], step'[t])
    BY <1>1, <1>3 DEF Handle, Unfinished, Barred
  <1> QED BY <1>1, <1>3, <1>4, <1>5, <1>6, QuietStep

LEMMA NextFiles ==
  ASSUME FilesInv, LocksInv, [AccessNext]_accessVars
  PROVE  FilesInv'
  <1>1. ASSUME NEW t \in Threads, NEW f \in Keys, NEW v \in Values, Begin(t, f, "write", v)
        PROVE  FilesInv'
    BY <1>1, BeginFiles DEF Modes
  <1>2. ASSUME NEW t \in Threads, NEW f \in Keys, Begin(t, f, "read", None)
        PROVE  FilesInv'
    BY <1>2, BeginFiles DEF Modes
  <1>3. ASSUME NEW t \in Threads, Proceed(t)
        PROVE  FilesInv'
    BY <1>3, TakeLockFiles, OpenToSaveFiles, OpenToLoadFiles, LoadMissingFiles,
       SharingViolationFiles, CopySavedFiles, CopyLoadedFiles, CloseFiles, ReturnFiles
       DEF Proceed
  <1>4. ASSUME NEW t \in Threads, CopyFails(t)
        PROVE  FilesInv'
    BY <1>4, CopyFailsFiles
  <1>5. CASE UNCHANGED accessVars
    <2>1. op' = op /\ content' = content /\ step' = step
      BY <1>5 DEF accessVars, lockVars, fileVars
    <2> QED BY <2>1 DEF FilesInv, CallsFit, Settled, HandlesApart, FailedHolds, Contents
  <1> QED BY <1>1, <1>2, <1>3, <1>4, <1>5 DEF AccessNext

LEMMA InitFiles == AccessInit => FilesInv
  <1> SUFFICES ASSUME AccessInit PROVE FilesInv
    OBVIOUS
  <1>1. /\ content = [f \in Keys |-> None]
        /\ \A t \in Threads : op[t] = Op("idle", None, None, None, 0, <<>>)
    BY DEF AccessInit
  <1>2. Op("idle", None, None, None, 0, <<>>).at = "idle"
        /\ Op("idle", None, None, None, 0, <<>>).mode = None
    BY DEF Op
  <1>3. \A t \in Threads : op[t].at = "idle" /\ op[t].mode = None
    BY <1>1, <1>2
  <1>4. CallsFit
    BY <1>1, <1>3, FileAccessAssumption DEF CallsFit, CallFits
  <1> QED BY <1>1, <1>3, <1>4
      DEF FilesInv, Settled, HandlesApart, Handle, FailedHolds, Barred, Contents

(* All of it together is an invariant.                                       *)
LEMMA FilesAlways == AccessSpec => [](FilesInv /\ LocksInv)
  <1>1. AccessInit => FilesInv /\ OpShape /\ Linked
    BY InitFiles, LinkedInit
  <1>2. LockTypeOK /\ WritersAlone /\ FilesInv /\ OpShape /\ Linked
          /\ [AccessNext]_accessVars => (FilesInv /\ OpShape /\ Linked)'
    BY LinkedStep, NextFiles DEF LocksInv
  <1>3. FilesInv /\ OpShape /\ Linked /\ LockTypeOK /\ WritersAlone => FilesInv /\ LocksInv
    BY DEF LocksInv
  <1> QED
    BY <1>1, <1>2, <1>3, FileLockTypes, FileMutualExclusion, PTL DEF AccessSpec

(* A load returns null or chunks of one document, and the whole of it when   *)
(* the file is used under its lock, whatever other calls do and whichever of *)
(* them fail: who writes a file is its only user, and a save that failed     *)
(* under the lock keeps it.                                                  *)
THEOREM LoadsAreWhole == AccessSpec => []WholeDocuments
  <1>1. FilesInv => WholeDocuments
    BY DEF FilesInv, CallsFit, CallFits, WholeDocuments, OpAt
  <1> QED BY <1>1, FilesAlways, PTL

-----------------------------------------------------------------------------
(* Saves and loads are atomic: a step of a call is one of AtomicFiles, or    *)
(* none.                                                                     *)

OneWriter ==
  \A t, u \in Threads :
    t # u /\ Unfinished(op[t]) /\ Unfinished(op[u]) => op[t].file # op[u].file

ReadersApart ==
  \A t, u \in Threads :
    Handle(op[t]) /\ op[t].mode = "read" /\ Unfinished(op[u]) => op[u].file # op[t].file

AtomicInv == FilesInv /\ LocksInv /\ OneWriter /\ ReadersApart

AtomicStep == [Atomic!Next]_(Atomic!vars)

(* ValueOf and CallOf of any contents and calls.                             *)
Writers(o, f) == {t \in Threads : Writing(o[t], f)}
Some(S) == CHOOSE t \in S : TRUE

ValueIn(c, o, f) == IF Writers(o, f) # {} THEN o[Some(Writers(o, f))].got ELSE c[f]

PlaceOf(r) ==
  CASE r.at \in {"open", "copy"} -> "called"
    [] r.at \in {"close", "exit"} -> "done"
    [] r.at = "failed" -> "threw"
    [] OTHER -> r.at

DataOf(r) ==
  IF r.at = "threw" \/ r.at = "failed" THEN None
  ELSE IF r.mode # "read" THEN r.value
  ELSE IF r.at = "open" \/ r.at = "copy" THEN None ELSE r.got

CallIn(r) == [at |-> PlaceOf(r), file |-> r.file, mode |-> r.mode, value |-> DataOf(r)]

LEMMA OneWriterHolds == FilesInv /\ LocksInv => AtomicInv
  <1> SUFFICES ASSUME FilesInv, LocksInv PROVE OneWriter /\ ReadersApart
    BY DEF AtomicInv
  <1>1. ASSUME NEW t \in Threads, NEW u \in Threads, t # u,
               Handle(op[t]), Unfinished(op[u]), op[t].file = op[u].file
        PROVE  FALSE
    <2>1. op[t].mode \in Modes
      BY <1>1 DEF FilesInv, CallsFit, CallFits, Handle
    <2>2. CASE op[u].at = "copy"
      <3>1. Handle(op[u]) /\ op[u].mode = "write"
        BY <1>1, <2>2 DEF Handle, Unfinished
      <3> QED BY <1>1, <3>1 DEF FilesInv, HandlesApart
    <2>3. CASE op[u].at = "failed"
      <3>1. /\ op[u].mode = "write" /\ op[u].file \in LockedFiles
            /\ HasLock(t) /\ op[t].at \in {"copy", "close"}
        BY <1>1, <2>3 DEF HasLock, Handle, LocksInv, Linked, Unfinished
      <3> QED BY <1>1, <2>3, <3>1, FailedAlone
    <2> QED BY <1>1, <2>2, <2>3 DEF Unfinished
  <1>2. ASSUME NEW t \in Threads, NEW u \in Threads, t # u,
               op[t].at = "failed", Unfinished(op[t]),
               op[u].at = "failed", Unfinished(op[u]), op[t].file = op[u].file
        PROVE  FALSE
    <2>1. op[t].file \in Keys
      BY <1>2, FileAccessAssumption DEF Unfinished
    <2>2. t \in InsideOf(op[t].file, "write") /\ u \in InsideOf(op[t].file, "write")
      BY <1>2 DEF FilesInv, FailedHolds, Barred, Unfinished, InsideOf, At
    <2> QED BY <1>2, <2>1, <2>2 DEF LocksInv, WritersAlone
  <1>3. OneWriter
    BY <1>1, <1>2 DEF OneWriter, Unfinished, Handle
  <1>4. ReadersApart
    <2>1. ASSUME NEW t \in Threads, Handle(op[t]), op[t].mode = "read"
          PROVE  ~Unfinished(op[t])
      BY <2>1 DEF Unfinished
    <2> QED BY <1>1, <2>1 DEF ReadersApart
  <1> QED BY <1>3, <1>4

(* A file has the value its writer found in it, or what it contains.         *)
LEMMA ValueWritten ==
  ASSUME NEW c, NEW o, NEW f, NEW t \in Threads, Writing(o[t], f),
         \A u \in Threads : Writing(o[u], f) => u = t
  PROVE  ValueIn(c, o, f) = o[t].got
  <1>1. Writers(o, f) = {t}
    BY DEF Writers
  <1>2. Some({t}) = t
    BY DEF Some
  <1> QED BY <1>1, <1>2 DEF ValueIn

LEMMA ValueContent ==
  ASSUME NEW c, NEW o, NEW f, \A u \in Threads : ~Writing(o[u], f)
  PROVE  ValueIn(c, o, f) = c[f]
  BY DEF ValueIn, Writers

LEMMA ValueKept ==
  ASSUME NEW c, NEW d, NEW o, NEW p, NEW f, d[f] = c[f],
         \A u \in Threads : Writing(p[u], f) <=> Writing(o[u], f),
         \A u \in Threads : Writing(o[u], f) => p[u].got = o[u].got
  PROVE  ValueIn(d, p, f) = ValueIn(c, o, f)
  <1>1. Writers(p, f) = Writers(o, f)
    BY DEF Writers
  <1>2. CASE Writers(o, f) = {}
    BY <1>1, <1>2 DEF ValueIn
  <1>3. CASE Writers(o, f) # {}
    <2>1. Some(Writers(o, f)) \in Writers(o, f)
      BY <1>3 DEF Some
    <2>2. PICK s : s = Some(Writers(o, f))
      OBVIOUS
    <2>3. s \in Threads /\ Writing(o[s], f)
      BY <2>1, <2>2 DEF Writers
    <2>4. p[s].got = o[s].got
      BY <2>3
    <2> QED BY <1>1, <1>3, <2>2, <2>4 DEF ValueIn
  <1> QED BY <1>2, <1>3

(* What AtomicFiles sees, before and after a step.                           *)
LEMMA Seen ==
  /\ \A f \in Keys : ValueOf(f) = ValueIn(content, op, f)
  /\ \A t \in Threads : CallOf(t) = CallIn(op[t])
  <1>1. ASSUME NEW f PROVE ValueOf(f) = ValueIn(content, op, f)
    <2>1. SavesOf(f) = Writers(op, f)
      BY DEF SavesOf, Writers, Writing, Unfinished, OpAt, TakesLock
    <2> QED BY <2>1 DEF ValueOf, ValueIn, Some
  <1> QED BY <1>1 DEF CallOf, CallIn, PlaceOf, DataOf, OpAt

LEMMA SeenNext ==
  /\ \A f \in Keys : ValueOf(f)' = ValueIn(content', op', f)
  /\ \A t \in Threads : CallOf(t)' = CallIn(op'[t])
  <1>1. ASSUME NEW f PROVE ValueOf(f)' = ValueIn(content', op', f)
    <2>1. SavesOf(f)' = Writers(op', f)
      BY DEF SavesOf, Writers, Writing, Unfinished, OpAt, TakesLock
    <2> QED BY <2>1 DEF ValueOf, ValueIn, Some
  <1> QED BY <1>1 DEF CallOf, CallIn, PlaceOf, DataOf, OpAt

(* A step that writes no file and begins or ends no save keeps the files'    *)
(* values.                                                                   *)
LEMMA ValuesStay ==
  ASSUME NEW t \in Threads, \A u \in Threads \ {t} : op'[u] = op[u],
         content' = content,
         Unfinished(op'[t]) <=> Unfinished(op[t]),
         Unfinished(op[t]) => op'[t].file = op[t].file /\ op'[t].got = op[t].got
  PROVE  \A f : ValueIn(content', op', f) = ValueIn(content, op, f)
  <1> SUFFICES ASSUME NEW f PROVE ValueIn(content', op', f) = ValueIn(content, op, f)
    OBVIOUS
  <1>1. \A u \in Threads : Writing(op'[u], f) <=> Writing(op[u], f)
    BY DEF Writing
  <1>2. \A u \in Threads : Writing(op[u], f) => op'[u].got = op[u].got
    BY DEF Writing
  <1> QED BY <1>1, <1>2, ValueKept

(* What a step of a save does to the file it has to itself.                  *)
LEMMA ValuesOfOthers ==
  ASSUME AtomicInv, NEW t \in Threads, \A u \in Threads \ {t} : op'[u] = op[u],
         op'[t].file = op[t].file,
         \A f \in Keys : f # op[t].file => content'[f] = content[f]
  PROVE  \A f \in Keys : f # op[t].file =>
           ValueIn(content', op', f) = ValueIn(content, op, f)
  <1> SUFFICES ASSUME NEW f \in Keys, f # op[t].file
               PROVE  ValueIn(content', op', f) = ValueIn(content, op, f)
    OBVIOUS
  <1>1. \A u \in Threads : Writing(op'[u], f) <=> Writing(op[u], f)
    BY DEF Writing
  <1>2. \A u \in Threads : Writing(op[u], f) => op'[u].got = op[u].got
    BY DEF Writing
  <1>3. content'[f] = content[f]
    OBVIOUS
  <1> QED BY <1>1, <1>2, <1>3, ValueKept

(* A step that AtomicFiles does not see.                                     *)
LEMMA Unseen ==
  ASSUME NEW t \in Threads, \A u \in Threads \ {t} : op'[u] = op[u],
         \A f \in Keys : ValueIn(content', op', f) = ValueIn(content, op, f),
         CallIn(op'[t]) = CallIn(op[t])
  PROVE  UNCHANGED Atomic!vars
  <1>1. \A f \in Keys : ValueOf(f)' = ValueOf(f)
    BY Seen, SeenNext
  <1>2. \A u \in Threads : CallOf(u)' = CallOf(u)
    BY Seen, SeenNext
  <1> QED BY <1>1, <1>2 DEF Atomic!vars

(* What AtomicFiles sees of a step: of the calls one changes.                *)
LEMMA SeenOfOne ==
  ASSUME NEW t \in Threads, \A u \in Threads \ {t} : op'[u] = op[u],
         NEW r, CallIn(op'[t]) = r
  PROVE  /\ [u \in Threads |-> CallOf(u)]' = [[u \in Threads |-> CallOf(u)] EXCEPT ![t] = r]
         /\ [u \in Threads |-> CallOf(u)][t] = CallIn(op[t])
  <1>1. \A u \in Threads \ {t} : CallOf(u)' = CallOf(u)
    BY Seen, SeenNext
  <1>2. CallOf(t)' = r /\ CallOf(t) = CallIn(op[t])
    BY Seen, SeenNext
  <1> QED BY <1>1, <1>2

(* Of the files none, or one.                                                *)
LEMMA SeenOfNone ==
  ASSUME \A f \in Keys : ValueIn(content', op', f) = ValueIn(content, op, f)
  PROVE  [f \in Keys |-> ValueOf(f)]' = [f \in Keys |-> ValueOf(f)]
  <1>1. \A f \in Keys : ValueOf(f)' = ValueOf(f)
    BY Seen, SeenNext
  <1> QED BY <1>1

LEMMA SeenOfFile ==
  ASSUME NEW g \in Keys, NEW v, ValueIn(content', op', g) = v,
         \A f \in Keys : f # g => ValueIn(content', op', f) = ValueIn(content, op, f)
  PROVE  [f \in Keys |-> ValueOf(f)]' = [[f \in Keys |-> ValueOf(f)] EXCEPT ![g] = v]
  <1>1. /\ \A f \in Keys : f # g => ValueOf(f)' = ValueOf(f)
        /\ ValueOf(g)' = v
    BY Seen, SeenNext
  <1> QED BY <1>1

LEMMA BeginAtomic ==
  ASSUME AtomicInv, NEW t \in Threads, NEW f \in Keys, NEW m \in Modes, NEW v,
         m = "read" => v = None, m = "write" => v \in Values, Begin(t, f, m, v)
  PROVE  Atomic!Invoke(t, f, m, v)
  <1>1. /\ op' = [op EXCEPT ![t] = Op("open", f, m, v, 0, <<>>)]
        /\ content' = content /\ op[t].at \in {"idle", "returned", "threw", "failed"}
        /\ step[t].at = "idle"
    BY DEF Begin, At
  <1>2. /\ \A u \in Threads \ {t} : op'[u] = op[u]
        /\ op'[t].at = "open" /\ op'[t].file = f /\ op'[t].mode = m
        /\ op'[t].value = v /\ op'[t].got = <<>>
    <2>1. /\ \A u \in Threads \ {t} : op'[u] = op[u]
          /\ op'[t] = Op("open", f, m, v, 0, <<>>)
      BY <1>1 DEF AtomicInv, LocksInv, OpShape
    <2> QED BY <2>1 DEF Op
  <1>3. ~Unfinished(op[t]) /\ ~Unfinished(op'[t])
    BY <1>1, <1>2 DEF Unfinished, AtomicInv, FilesInv, FailedHolds, Barred
  <1>4. \A g : ValueIn(content', op', g) = ValueIn(content, op, g)
    BY <1>1, <1>2, <1>3, ValuesStay
  <1>5. CallIn(op'[t]) = Atomic!Call("called", f, m, v)
    <2>1. PlaceOf(op'[t]) = "called" /\ DataOf(op'[t]) = v
      BY <1>2 DEF PlaceOf, DataOf, Modes
    <2> QED BY <1>2, <2>1 DEF CallIn, Atomic!Call
  <1>6. CallIn(op[t]).at \in {"idle", "returned", "threw"}
    BY <1>1 DEF PlaceOf, CallIn
  <1>7. [g \in Keys |-> ValueOf(g)]' = [g \in Keys |-> ValueOf(g)]
    BY <1>4, SeenOfNone
  <1> QED BY <1>2, <1>5, <1>6, <1>7, SeenOfOne DEF Atomic!Invoke

(* A save that opens its file puts away what it found.                       *)
LEMMA OpenToSaveAtomic ==
  ASSUME AtomicInv, AtomicInv', NEW t \in Threads, OpenToSave(t)
  PROVE  UNCHANGED Atomic!vars
  <1> DEFINE f == op[t].file
  <1>1. /\ op[t].at = "open" /\ op[t].mode = "write"
        /\ content' = [content EXCEPT ![f] = <<>>]
        /\ op' = [op EXCEPT ![t] = Op("copy", f, op[t].mode, op[t].value, 0, content[f])]
    BY DEF OpenToSave, OpAt
  <1>2. /\ \A u \in Threads \ {t} : op'[u] = op[u]
        /\ op'[t].at = "copy" /\ op'[t].file = f /\ op'[t].mode = "write"
        /\ op'[t].value = op[t].value /\ op'[t].got = content[f]
    <2>1. /\ \A u \in Threads \ {t} : op'[u] = op[u]
          /\ op'[t] = Op("copy", f, op[t].mode, op[t].value, 0, content[f])
      BY <1>1 DEF AtomicInv, LocksInv, OpShape
    <2> HIDE DEF f
    <2> QED BY <1>1, <2>1 DEF Op
  <1>3. Writing(op'[t], f) /\ \A u \in Threads : Writing(op'[u], f) => u = t
    BY <1>2 DEF AtomicInv, OneWriter, Writing, Unfinished
  <1>4. \A u \in Threads : ~Writing(op[u], f)
    BY <1>1, <1>2, <1>3 DEF Writing, Unfinished
  <1>5. ValueIn(content', op', f) = ValueIn(content, op, f)
    BY <1>2, <1>3, <1>4, ValueWritten, ValueContent
  <1>6. \A g \in Keys : g # f => ValueIn(content', op', g) = ValueIn(content, op, g)
    <2>1. \A g \in Keys : g # f => content'[g] = content[g]
      BY <1>1 DEF AtomicInv, FilesInv, Contents
    <2> QED BY <1>2, <2>1, ValuesOfOthers
  <1>7. CallIn(op'[t]) = CallIn(op[t])
    <2>1. PlaceOf(op'[t]) = PlaceOf(op[t]) /\ DataOf(op'[t]) = DataOf(op[t])
      BY <1>1, <1>2 DEF PlaceOf, DataOf
    <2> QED BY <1>1, <1>2, <2>1 DEF CallIn
  <1> QED BY <1>2, <1>5, <1>6, <1>7, Unseen

LEMMA OpenToLoadAtomic ==
  ASSUME AtomicInv, NEW t \in Threads, OpenToLoad(t)
  PROVE  UNCHANGED Atomic!vars
  <1>1. /\ op[t].at = "open" /\ op[t].mode = "read" /\ content' = content
        /\ op' = [op EXCEPT ![t] = Op("copy", op[t].file, op[t].mode, op[t].value,
                                      0, op[t].got)]
    BY DEF OpenToLoad, OpAt
  <1>2. /\ \A u \in Threads \ {t} : op'[u] = op[u]
        /\ op'[t].at = "copy" /\ op'[t].file = op[t].file /\ op'[t].mode = "read"
        /\ op'[t].value = op[t].value
    <2>1. /\ \A u \in Threads \ {t} : op'[u] = op[u]
          /\ op'[t] = Op("copy", op[t].file, op[t].mode, op[t].value, 0, op[t].got)
      BY <1>1 DEF AtomicInv, LocksInv, OpShape
    <2> QED BY <1>1, <2>1 DEF Op
  <1>3. ~Unfinished(op[t]) /\ ~Unfinished(op'[t])
    BY <1>1, <1>2 DEF Unfinished
  <1>4. \A g : ValueIn(content', op', g) = ValueIn(content, op, g)
    BY <1>1, <1>2, <1>3, ValuesStay
  <1>5. CallIn(op'[t]) = CallIn(op[t])
    <2>1. PlaceOf(op'[t]) = PlaceOf(op[t]) /\ DataOf(op'[t]) = DataOf(op[t])
      BY <1>1, <1>2 DEF PlaceOf, DataOf
    <2> QED BY <1>1, <1>2, <2>1 DEF CallIn
  <1> QED BY <1>2, <1>4, <1>5, Unseen

(* A load has what its file contains, when nobody writes it.                 *)
LEMMA LoadsValue ==
  ASSUME AtomicInv, NEW t \in Threads, op[t].mode = "read",
         op[t].at \in {"open", "copy"}, content' = content,
         \A u \in Threads : ~Writing(op[u], op[t].file),
         \A u \in Threads \ {t} : op'[u] = op[u],
         op'[t].at \in {"close", "exit"},
         op'[t].file = op[t].file, op'[t].mode = op[t].mode,
         op'[t].got = content[op[t].file]
  PROVE  Atomic!Load(t)
  <1> DEFINE f == op[t].file
  <1>1. f \in Keys
    BY DEF AtomicInv, FilesInv, CallsFit, CallFits
  <1>2. ValueOf(f) = content[f]
    BY <1>1, Seen, ValueContent
  <1>3. ~Unfinished(op[t]) /\ ~Unfinished(op'[t])
    BY DEF Unfinished
  <1>4. \A g : ValueIn(content', op', g) = ValueIn(content, op, g)
    BY <1>3, ValuesStay
  <1>5. [g \in Keys |-> ValueOf(g)]' = [g \in Keys |-> ValueOf(g)]
    BY <1>4, SeenOfNone
  <1> HIDE DEF f
  <1>6. CallIn(op'[t]) = Atomic!Call("done", f, "read", content[f])
    <2>1. PlaceOf(op'[t]) = "done" /\ DataOf(op'[t]) = content[f]
      BY DEF PlaceOf, DataOf, f
    <2> QED BY <2>1 DEF CallIn, Atomic!Call, f
  <1>7. [u \in Threads |-> CallOf(u)]' =
          [[u \in Threads |-> CallOf(u)] EXCEPT ![t] = Atomic!Call("done", f, "read", content[f])]
    BY <1>6, SeenOfOne
  <1>8. CallOf(t).at = "called" /\ CallOf(t).mode = "read" /\ CallOf(t).file = f
    <2>1. PlaceOf(op[t]) = "called"
      BY DEF PlaceOf
    <2> QED BY <2>1, Seen DEF CallIn, f
  <1> QED BY <1>1, <1>2, <1>5, <1>7, <1>8 DEF Atomic!Load

(* There is no file to load, hence nobody writing it.                        *)
LEMMA LoadMissingAtomic ==
  ASSUME AtomicInv, NEW t \in Threads, LoadMissing(t)
  PROVE  Atomic!Load(t)
  <1>1. /\ op[t].at = "open" /\ op[t].mode = "read" /\ content' = content
        /\ content[op[t].file] = None
        /\ op' = [op EXCEPT ![t] = Op("exit", op[t].file, op[t].mode, op[t].value, 0, None)]
    BY DEF LoadMissing, OpAt
  <1>2. /\ \A u \in Threads \ {t} : op'[u] = op[u]
        /\ op'[t].at = "exit" /\ op'[t].file = op[t].file /\ op'[t].mode = op[t].mode
        /\ op'[t].got = None
    <2>1. /\ \A u \in Threads \ {t} : op'[u] = op[u]
          /\ op'[t] = Op("exit", op[t].file, op[t].mode, op[t].value, 0, None)
      BY <1>1 DEF AtomicInv, LocksInv, OpShape
    <2> QED BY <2>1 DEF Op
  <1>3. ASSUME NEW u \in Threads, Writing(op[u], op[t].file) PROVE FALSE
    <2>1. CallFits(op[u], content) /\ op[u].mode = "write" /\ op[u].file = op[t].file
      BY <1>3 DEF AtomicInv, FilesInv, CallsFit, Writing, Unfinished
    <2>2. CASE op[u].at = "copy"
      <3>1. PICK k \in 0..(DocLength - 1) : content[op[u].file] = Part(op[u].value, k)
        BY <2>1, <2>2 DEF CallFits
      <3>2. k \in 0..DocLength /\ op[u].value \in Values
        BY <2>1, <2>2, FileAccessAssumption DEF CallFits
      <3> QED BY <1>1, <2>1, <3>1, <3>2, Parts
    <2>3. CASE op[u].at = "failed" /\ op[u].file \in LockedFiles
      BY <1>1, <2>1, <2>3 DEF CallFits
    <2> QED BY <1>3, <2>2, <2>3 DEF Writing, Unfinished
  <1> QED BY <1>1, <1>2, <1>3, LoadsValue

(* A load takes effect with its last chunk.                                  *)
LEMMA CopyLoadedAtomic ==
  ASSUME AtomicInv, NEW t \in Threads, CopyLoaded(t)
  PROVE  UNCHANGED Atomic!vars \/ Atomic!Load(t)
  <1>1. op[t].at = "copy" /\ op[t].mode = "read" /\ content' = content
    BY DEF CopyLoaded, OpAt
  <1>2. PICK at, got :
          /\ op' = [op EXCEPT ![t] = Op(at, op[t].file, op[t].mode, op[t].value,
                                        op[t].tries, got)]
          /\ \/ at = "copy"
             \/ at = "close" /\ got = content[op[t].file]
    BY ChunkLoaded DEF AtomicInv
  <1>3. /\ \A u \in Threads \ {t} : op'[u] = op[u]
        /\ op'[t].at = at /\ op'[t].file = op[t].file /\ op'[t].mode = op[t].mode
        /\ op'[t].value = op[t].value /\ op'[t].got = got
    <2>1. /\ \A u \in Threads \ {t} : op'[u] = op[u]
          /\ op'[t] = Op(at, op[t].file, op[t].mode, op[t].value, op[t].tries, got)
      BY <1>2 DEF AtomicInv, LocksInv, OpShape
    <2> QED BY <2>1 DEF Op
  <1>4. CASE at = "copy"
    <2>1. ~Unfinished(op[t]) /\ ~Unfinished(op'[t])
      BY <1>1, <1>3 DEF Unfinished
    <2>2. \A g : ValueIn(content', op', g) = ValueIn(content, op, g)
      BY <1>1, <1>3, <2>1, ValuesStay
    <2>3. PlaceOf(op'[t]) = PlaceOf(op[t]) /\ DataOf(op'[t]) = DataOf(op[t])
      BY <1>1, <1>3, <1>4 DEF PlaceOf, DataOf
    <2>4. CallIn(op'[t]) = CallIn(op[t])
      BY <1>3, <2>3 DEF CallIn
    <2> QED BY <1>3, <2>2, <2>4, Unseen
  <1>5. CASE at = "close" /\ got = content[op[t].file]
    <2>1. \A u \in Threads : ~Writing(op[u], op[t].file)
      BY <1>1 DEF AtomicInv, ReadersApart, Writing, Handle
    <2> QED BY <1>1, <1>3, <1>5, <2>1, LoadsValue
  <1> QED BY <1>2, <1>4, <1>5

(* A save takes effect with its last chunk.                                  *)
LEMMA CopySavedAtomic ==
  ASSUME AtomicInv, AtomicInv', NEW t \in Threads, CopySaved(t)
  PROVE  UNCHANGED Atomic!vars \/ Atomic!Save(t)
  <1> DEFINE f == op[t].file
  <1>1. /\ op[t].at = "copy" /\ op[t].mode = "write"
        /\ content' = [content EXCEPT ![f] = Append(@, op[t].value)]
        /\ \/ op' = [op EXCEPT ![t] = Op("close", op[t].file, op[t].mode, op[t].value,
                                         op[t].tries, <<>>)]
           \/ op' = op
    BY DEF CopySaved, OpAt
  <1>2. f \in Keys
    BY <1>1 DEF AtomicInv, FilesInv, CallsFit, CallFits
  <1>3. Writing(op[t], f) /\ \A u \in Threads : Writing(op[u], f) => u = t
    BY <1>1 DEF AtomicInv, OneWriter, Writing, Unfinished
  <1>4. \A g \in Keys : g # f => content'[g] = content[g]
    BY <1>1 DEF AtomicInv, FilesInv, Contents
  <1>5. CASE op' = op
    <2>1. ValueIn(content', op', f) = ValueIn(content, op, f)
      BY <1>3, <1>5, ValueWritten
    <2>2. \A g \in Keys : g # f => ValueIn(content', op', g) = ValueIn(content, op, g)
      BY <1>4, <1>5, ValuesOfOthers
    <2> QED BY <1>5, <2>1, <2>2, Unseen
  <1>6. CASE op' = [op EXCEPT ![t] = Op("close", op[t].file, op[t].mode, op[t].value,
                                        op[t].tries, <<>>)]
    <2>1. /\ \A u \in Threads \ {t} : op'[u] = op[u]
          /\ op'[t].at = "close" /\ op'[t].file = op[t].file /\ op'[t].mode = "write"
          /\ op'[t].value = op[t].value
      <3>1. /\ \A u \in Threads \ {t} : op'[u] = op[u]
            /\ op'[t] = Op("close", op[t].file, op[t].mode, op[t].value, op[t].tries, <<>>)
        BY <1>6 DEF AtomicInv, LocksInv, OpShape
      <3> QED BY <1>1, <3>1 DEF Op
    <2>2. content'[f] = Atomic!Chunks(op[t].value, DocLength)
      <3>1. CallFits(op'[t], content')
        BY DEF AtomicInv, FilesInv, CallsFit
      <3>2. content'[f] = Document(op[t].value)
        BY <2>1, <3>1 DEF CallFits
      <3> QED BY <3>2 DEF Document, Part, Atomic!Chunks
    <2>3. \A u \in Threads : ~Writing(op'[u], f)
      BY <1>3, <2>1 DEF Writing, Unfinished
    <2>4. ValueIn(content', op', f) = Atomic!Chunks(op[t].value, DocLength)
      BY <2>2, <2>3, ValueContent
    <2>5. \A g \in Keys : g # f => ValueIn(content', op', g) = ValueIn(content, op, g)
      BY <1>4, <2>1, ValuesOfOthers
    <2> HIDE DEF f
    <2>6. [g \in Keys |-> ValueOf(g)]' =
            [[g \in Keys |-> ValueOf(g)] EXCEPT ![f] = Atomic!Chunks(op[t].value, DocLength)]
      BY <1>2, <2>4, <2>5, SeenOfFile
    <2>7. CallOf(t) = Atomic!Call("called", f, "write", op[t].value)
      <3>1. PlaceOf(op[t]) = "called" /\ DataOf(op[t]) = op[t].value
        BY <1>1 DEF PlaceOf, DataOf
      <3> QED BY <1>1, <3>1, Seen DEF CallIn, Atomic!Call, f
    <2>8. CallIn(op'[t]) = Atomic!Call("done", f, "write", op[t].value)
      <3>1. PlaceOf(op'[t]) = "done" /\ DataOf(op'[t]) = op[t].value
        BY <2>1 DEF PlaceOf, DataOf
      <3> QED BY <2>1, <3>1 DEF CallIn, Atomic!Call, f
    <2>9. [u \in Threads |-> CallOf(u)]' =
            [[u \in Threads |-> CallOf(u)] EXCEPT ![t].at = "done"]
      <3>1. [CallOf(t) EXCEPT !.at = "done"] = Atomic!Call("done", f, "write", op[t].value)
        BY <2>7 DEF Atomic!Call
      <3>2. [u \in Threads |-> CallOf(u)]' =
              [[u \in Threads |-> CallOf(u)] EXCEPT
                 ![t] = Atomic!Call("done", f, "write", op[t].value)]
        BY <2>1, <2>8, SeenOfOne
      <3> QED BY <3>1, <3>2
    <2>10. /\ CallOf(t).at = "called" /\ CallOf(t).mode = "write"
           /\ CallOf(t).file = f /\ CallOf(t).value = op[t].value
      BY <2>7 DEF Atomic!Call
    <2> QED BY <2>6, <2>9, <2>10 DEF Atomic!Save
  <1> QED BY <1>1, <1>5, <1>6

(* A call that throws: what AtomicFiles sees of it, besides the files.       *)
LEMMA GivesUp ==
  ASSUME AtomicInv, NEW t \in Threads, op[t].at \in {"open", "copy"},
         \A u \in Threads \ {t} : op'[u] = op[u],
         op'[t].at = "threw" \/ op'[t].at = "failed",
         op'[t].file = op[t].file, op'[t].mode = op[t].mode
  PROVE  Atomic!Threw(t)
  <1>1. CallIn(op'[t]) = Atomic!Call("threw", op[t].file, op[t].mode, None)
    <2>1. PlaceOf(op'[t]) = "threw" /\ DataOf(op'[t]) = None
      BY DEF PlaceOf, DataOf
    <2> QED BY <2>1 DEF CallIn, Atomic!Call
  <1>2. CallOf(t).at = "called" /\ CallOf(t).file = op[t].file /\ CallOf(t).mode = op[t].mode
    <2>1. PlaceOf(op[t]) = "called"
      BY DEF PlaceOf
    <2> QED BY <2>1, Seen DEF CallIn
  <1>3. [u \in Threads |-> CallOf(u)]' =
          [[u \in Threads |-> CallOf(u)] EXCEPT
             ![t] = Atomic!Call("threw", op[t].file, op[t].mode, None)]
    BY <1>1, SeenOfOne
  <1> QED BY <1>2, <1>3 DEF Atomic!Threw

LEMMA SharingViolationAtomic ==
  ASSUME AtomicInv, NEW t \in Threads, SharingViolation(t)
  PROVE  AtomicStep
  <1> DEFINE tries == IF TakesLock(t) THEN op[t].tries ELSE op[t].tries + 1
             at == IF TakesLock(t) \/ tries > RetryCount THEN "threw" ELSE "open"
  <1>1. /\ op[t].at = "open" /\ content' = content
        /\ op' = [op EXCEPT ![t] = Op(at, op[t].file, op[t].mode, op[t].value,
                                      tries, op[t].got)]
    BY DEF SharingViolation, OpAt
  <1>2. at \in {"threw", "open"}
    OBVIOUS
  <1> HIDE DEF at, tries
  <1>3. /\ \A u \in Threads \ {t} : op'[u] = op[u]
        /\ op'[t].at = at /\ op'[t].file = op[t].file /\ op'[t].mode = op[t].mode
        /\ op'[t].value = op[t].value /\ op'[t].got = op[t].got
    <2>1. /\ \A u \in Threads \ {t} : op'[u] = op[u]
          /\ op'[t] = Op(at, op[t].file, op[t].mode, op[t].value, tries, op[t].got)
      BY <1>1 DEF AtomicInv, LocksInv, OpShape
    <2> QED BY <2>1 DEF Op
  <1>4. ~Unfinished(op[t]) /\ ~Unfinished(op'[t])
    BY <1>1, <1>2, <1>3 DEF Unfinished
  <1>5. \A g : ValueIn(content', op', g) = ValueIn(content, op, g)
    BY <1>1, <1>3, <1>4, ValuesStay
  <1>6. CASE at = "threw"
    <2>1. Atomic!Threw(t)
      BY <1>1, <1>3, <1>6, GivesUp
    <2>2. [f \in Keys |-> ValueOf(f)]' = [f \in Keys |-> ValueOf(f)]
      BY <1>5, SeenOfNone
    <2> QED BY <2>1, <2>2 DEF AtomicStep, Atomic!Next, Atomic!Throw
  <1>7. CASE at = "open"
    <2>1. PlaceOf(op'[t]) = PlaceOf(op[t]) /\ DataOf(op'[t]) = DataOf(op[t])
      BY <1>1, <1>3, <1>7 DEF PlaceOf, DataOf
    <2>2. CallIn(op'[t]) = CallIn(op[t])
      BY <1>3, <2>1 DEF CallIn
    <2> QED BY <1>3, <1>5, <2>2, Unseen DEF AtomicStep
  <1> QED BY <1>2, <1>6, <1>7

(* A copy that fails changes nothing, or leaves a part without a lock.       *)
LEMMA CopyFailsAtomic ==
  ASSUME AtomicInv, NEW t \in Threads, CopyFails(t)
  PROVE  Atomic!Throw(t) \/ Atomic!SaveFails(t)
  <1> DEFINE f == op[t].file
             got == IF TakesLock(t) THEN op[t].got ELSE <<>>
  <1>1. /\ op[t].at = "copy" /\ content' = content
        /\ op' = [op EXCEPT ![t] = Op("failed", f, op[t].mode, op[t].value,
                                      op[t].tries, got)]
    BY DEF CopyFails, OpAt
  <1>2. f \in LockedFiles => got = op[t].got
    BY DEF TakesLock
  <1> HIDE DEF got
  <1>3. /\ \A u \in Threads \ {t} : op'[u] = op[u]
        /\ op'[t].at = "failed" /\ op'[t].file = f /\ op'[t].mode = op[t].mode
        /\ op'[t].got = got
    <2>1. /\ \A u \in Threads \ {t} : op'[u] = op[u]
          /\ op'[t] = Op("failed", f, op[t].mode, op[t].value, op[t].tries, got)
      BY <1>1 DEF AtomicInv, LocksInv, OpShape
    <2> QED BY <2>1 DEF Op
  <1>4. Atomic!Threw(t)
    BY <1>1, <1>3, GivesUp
  <1>5. CASE op[t].mode # "write" \/ f \in LockedFiles
    <2>1. /\ Unfinished(op'[t]) <=> Unfinished(op[t])
          /\ Unfinished(op[t]) => op'[t].file = f /\ op'[t].got = op[t].got
      BY <1>1, <1>2, <1>3, <1>5 DEF Unfinished
    <2>2. \A g : ValueIn(content', op', g) = ValueIn(content, op, g)
      BY <1>1, <1>3, <2>1, ValuesStay
    <2>3. [g \in Keys |-> ValueOf(g)]' = [g \in Keys |-> ValueOf(g)]
      BY <2>2, SeenOfNone
    <2> QED BY <1>4, <2>3 DEF Atomic!Throw
  <1>6. CASE op[t].mode = "write" /\ f \notin LockedFiles
    <2>1. f \in Keys /\ \E k \in 0..(DocLength - 1) : content[f] = Part(op[t].value, k)
      BY <1>1, <1>6 DEF AtomicInv, FilesInv, CallsFit, CallFits
    <2>2. PICK k \in 0..(DocLength - 1) : content[f] = Atomic!Chunks(op[t].value, k)
      BY <2>1 DEF Part, Atomic!Chunks
    <2>3. Writing(op[t], f) /\ \A u \in Threads : Writing(op[u], f) => u = t
      BY <1>1, <1>6 DEF AtomicInv, OneWriter, Writing, Unfinished
    <2>4. \A u \in Threads : ~Writing(op'[u], f)
      BY <1>3, <1>6, <2>3 DEF Writing, Unfinished
    <2>5. ValueIn(content', op', f) = Atomic!Chunks(op[t].value, k)
      BY <1>1, <2>2, <2>4, ValueContent
    <2>6. \A g \in Keys : g # f => ValueIn(content', op', g) = ValueIn(content, op, g)
      BY <1>1, <1>3, ValuesOfOthers
    <2> HIDE DEF f
    <2>7. [g \in Keys |-> ValueOf(g)]' =
            [[g \in Keys |-> ValueOf(g)] EXCEPT ![f] = Atomic!Chunks(op[t].value, k)]
      BY <2>1, <2>5, <2>6, SeenOfFile
    <2>8. CallOf(t).mode = "write" /\ CallOf(t).file = f /\ CallOf(t).value = op[t].value
      <3>1. DataOf(op[t]) = op[t].value
        BY <1>1, <1>6 DEF DataOf
      <3> QED BY <1>6, <3>1, Seen DEF CallIn, f
    <2> QED BY <1>4, <1>6, <2>7, <2>8 DEF Atomic!SaveFails
  <1> QED BY <1>5, <1>6

LEMMA CloseAtomic ==
  ASSUME AtomicInv, NEW t \in Threads, Close(t)
  PROVE  UNCHANGED Atomic!vars
  <1>1. op[t].at = "close" /\ content' = content /\ Moved(t, "exit")
    BY DEF Close, OpAt
  <1>2. /\ \A u \in Threads \ {t} : op'[u] = op[u]
        /\ op'[t].at = "exit" /\ op'[t].file = op[t].file /\ op'[t].mode = op[t].mode
        /\ op'[t].value = op[t].value /\ op'[t].got = op[t].got
    BY <1>1, MovedCall DEF AtomicInv, LocksInv
  <1>3. ~Unfinished(op[t]) /\ ~Unfinished(op'[t])
    BY <1>1, <1>2 DEF Unfinished
  <1>4. \A g : ValueIn(content', op', g) = ValueIn(content, op, g)
    BY <1>1, <1>2, <1>3, ValuesStay
  <1>5. PlaceOf(op'[t]) = PlaceOf(op[t]) /\ DataOf(op'[t]) = DataOf(op[t])
    BY <1>1, <1>2 DEF PlaceOf, DataOf
  <1>6. CallIn(op'[t]) = CallIn(op[t])
    BY <1>2, <1>5 DEF CallIn
  <1> QED BY <1>2, <1>4, <1>6, Unseen

LEMMA ReturnAtomic ==
  ASSUME AtomicInv, NEW t \in Threads, Return(t)
  PROVE  Atomic!Return(t)
  <1>1. op[t].at = "exit" /\ content' = content /\ Moved(t, "returned")
    BY DEF Return, OpAt
  <1>2. /\ \A u \in Threads \ {t} : op'[u] = op[u]
        /\ op'[t].at = "returned" /\ op'[t].file = op[t].file /\ op'[t].mode = op[t].mode
        /\ op'[t].value = op[t].value /\ op'[t].got = op[t].got
    BY <1>1, MovedCall DEF AtomicInv, LocksInv
  <1>3. ~Unfinished(op[t]) /\ ~Unfinished(op'[t])
    BY <1>1, <1>2 DEF Unfinished
  <1>4. \A g : ValueIn(content', op', g) = ValueIn(content, op, g)
    BY <1>1, <1>2, <1>3, ValuesStay
  <1>5. [f \in Keys |-> ValueOf(f)]' = [f \in Keys |-> ValueOf(f)]
    BY <1>4, SeenOfNone
  <1>6. PlaceOf(op[t]) = "done" /\ PlaceOf(op'[t]) = "returned" /\ DataOf(op'[t]) = DataOf(op[t])
    BY <1>1, <1>2 DEF PlaceOf, DataOf
  <1>7. CallIn(op'[t]) = [CallIn(op[t]) EXCEPT !.at = "returned"]
    BY <1>2, <1>6 DEF CallIn
  <1>8. /\ [u \in Threads |-> CallOf(u)]' =
             [[u \in Threads |-> CallOf(u)] EXCEPT ![t] = CallIn(op'[t])]
        /\ [u \in Threads |-> CallOf(u)][t] = CallIn(op[t])
    BY <1>2, SeenOfOne
  <1>9. [u \in Threads |-> CallOf(u)]' =
          [[u \in Threads |-> CallOf(u)] EXCEPT ![t].at = "returned"]
    BY <1>7, <1>8
  <1>10. CallIn(op[t]).at = "done"
    BY <1>6 DEF CallIn
  <1> QED BY <1>5, <1>8, <1>9, <1>10 DEF Atomic!Return

LEMMA NextAtomic ==
  ASSUME AtomicInv, AtomicInv', [AccessNext]_accessVars
  PROVE  AtomicStep
  <1>1. ASSUME NEW t \in Threads, NEW f \in Keys, NEW v \in Values, Begin(t, f, "write", v)
        PROVE  AtomicStep
    <2>1. Atomic!Invoke(t, f, "write", v)
      BY <1>1, BeginAtomic DEF Modes
    <2> QED BY <2>1 DEF AtomicStep, Atomic!Next
  <1>2. ASSUME NEW t \in Threads, NEW f \in Keys, Begin(t, f, "read", None)
        PROVE  AtomicStep
    <2>1. Atomic!Invoke(t, f, "read", None)
      BY <1>2, BeginAtomic DEF Modes
    <2> QED BY <2>1 DEF AtomicStep, Atomic!Next
  <1>3. ASSUME NEW t \in Threads, TakeLock(t) PROVE AtomicStep
    <2>1. op' = op /\ content' = content
      BY <1>3 DEF TakeLock, fileVars
    <2> QED BY <2>1, Unseen DEF AtomicStep
  <1>4. ASSUME NEW t \in Threads,
               LoadMissing(t) \/ CopySaved(t) \/ CopyLoaded(t) \/ Return(t) \/ CopyFails(t)
        PROVE  AtomicStep
    <2>1. \/ Atomic!Save(t) \/ Atomic!Load(t) \/ Atomic!Return(t)
          \/ Atomic!Throw(t) \/ Atomic!SaveFails(t) \/ UNCHANGED Atomic!vars
      BY <1>4, LoadMissingAtomic, CopySavedAtomic, CopyLoadedAtomic, ReturnAtomic,
         CopyFailsAtomic
    <2> QED BY <2>1 DEF AtomicStep, Atomic!Next
  <1>5. ASSUME NEW t \in Threads,
               SharingViolation(t) \/ OpenToSave(t) \/ OpenToLoad(t) \/ Close(t)
        PROVE  AtomicStep
    BY <1>5, SharingViolationAtomic, OpenToSaveAtomic, OpenToLoadAtomic, CloseAtomic
       DEF AtomicStep
  <1>6. CASE UNCHANGED accessVars
    <2>1. op' = op /\ content' = content
      BY <1>6 DEF accessVars, fileVars
    <2>2. \A f \in Keys : ValueOf(f)' = ValueOf(f)
      BY <2>1, Seen, SeenNext
    <2>3. \A t \in Threads : CallOf(t)' = CallOf(t)
      BY <2>1, Seen, SeenNext
    <2> QED BY <2>2, <2>3 DEF AtomicStep, Atomic!vars
  <1> QED BY <1>1, <1>2, <1>3, <1>4, <1>5, <1>6 DEF AccessNext, Proceed

LEMMA InitAtomic == AccessInit => Atomic!Init
  <1> SUFFICES ASSUME AccessInit PROVE Atomic!Init
    OBVIOUS
  <1>1. /\ \A f \in Keys : content[f] = None
        /\ \A t \in Threads : op[t] = Op("idle", None, None, None, 0, <<>>)
    BY DEF AccessInit
  <1>2. \A t \in Threads : /\ op[t].at = "idle" /\ op[t].file = None
                           /\ op[t].mode = None /\ op[t].value = None /\ op[t].got = <<>>
    BY <1>1 DEF Op
  <1>3. \A f \in Keys : ValueOf(f) = None
    <2>1. \A t \in Threads : \A f : ~Writing(op[t], f)
      BY <1>2 DEF Writing, Unfinished
    <2> QED BY <1>1, <2>1, Seen, ValueContent
  <1>4. \A t \in Threads : CallOf(t) = Atomic!Call("idle", None, None, None)
    <2> SUFFICES ASSUME NEW t \in Threads
                 PROVE  CallOf(t) = Atomic!Call("idle", None, None, None)
      OBVIOUS
    <2>1. PlaceOf(op[t]) = "idle" /\ DataOf(op[t]) = None
      BY <1>2, FileAccessAssumption DEF PlaceOf, DataOf, Modes
    <2> QED BY <1>2, <2>1, Seen DEF CallIn, Atomic!Call
  <1> QED BY <1>3, <1>4 DEF Atomic!Init

(* Saves and loads are atomic, for any threads, files and documents: a call  *)
(* takes effect with its last chunk, although the copies of several threads, *)
(* their locks and their failures interleave, and one that throws has none,  *)
(* but for a save without a lock, which may leave a part of its document.    *)
THEOREM AccessImplementsAtomicFiles == AccessSpec => ImplementsAtomicFiles
  <1>1. AccessInit => Atomic!Init
    BY InitAtomic
  <1>2. FilesInv /\ LocksInv => AtomicInv
    BY OneWriterHolds
  <1>3. AtomicInv /\ AtomicInv' /\ [AccessNext]_accessVars => [Atomic!Next]_(Atomic!vars)
    BY NextAtomic DEF AtomicStep
  <1> QED
    BY <1>1, <1>2, <1>3, FilesAlways, PTL DEF AccessSpec, ImplementsAtomicFiles, Atomic!Spec
=============================================================================
