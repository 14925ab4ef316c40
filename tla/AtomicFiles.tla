---------------------------- MODULE AtomicFiles -----------------------------
(***************************************************************************)
(* What the users of the file helpers rely on: a save replaces a file's     *)
(* content by its document and a load returns the content, each at one      *)
(* moment between call and return, whatever other threads do.  A call that  *)
(* throws has done nothing, except that a save of a file that is used       *)
(* without a lock may have left a part of its document.                     *)
(***************************************************************************)
EXTENDS Naturals

CONSTANTS Threads, Keys, Values, None,
  DocLength,   \* chunks in a document
  LockedFiles  \* the files used under a lock

VARIABLES
  value,  \* the chunks of each file, None while there is no file
  call    \* the call of each thread: where it is, what it is, and what it
          \* saves or has loaded

vars == <<value, call>>

Call(at, file, mode, v) == [at |-> at, file |-> file, mode |-> mode, value |-> v]
Chunks(v, n) == [i \in 1..n |-> v]

Init ==
  /\ value = [f \in Keys |-> None]
  /\ call = [t \in Threads |-> Call("idle", None, None, None)]

Invoke(t, f, mode, v) ==
  /\ call[t].at \in {"idle", "returned", "threw"}
  /\ call' = [call EXCEPT ![t] = Call("called", f, mode, v)]
  /\ UNCHANGED value

Save(t) ==
  /\ call[t].at = "called" /\ call[t].mode = "write"
  /\ value' = [value EXCEPT ![call[t].file] = Chunks(call[t].value, DocLength)]
  /\ call' = [call EXCEPT ![t].at = "done"]

Load(t) ==
  /\ call[t].at = "called" /\ call[t].mode = "read"
  /\ call' = [call EXCEPT ![t] = Call("done", @.file, @.mode, value[@.file])]
  /\ UNCHANGED value

Return(t) ==
  /\ call[t].at = "done"
  /\ call' = [call EXCEPT ![t].at = "returned"]
  /\ UNCHANGED value

Threw(t) ==
  /\ call[t].at = "called"
  /\ call' = [call EXCEPT ![t] = Call("threw", @.file, @.mode, None)]

(* A call that throws has done nothing. *)
Throw(t) == Threw(t) /\ UNCHANGED value

(* A save that has lost the old content and not written all of the new. *)
SaveFails(t) ==
  /\ Threw(t)
  /\ call[t].mode = "write" /\ call[t].file \notin LockedFiles
  /\ \E n \in 0..(DocLength - 1) :
       value' = [value EXCEPT ![call[t].file] = Chunks(call[t].value, n)]

Next ==
  \E t \in Threads :
    \/ \E f \in Keys, v \in Values : Invoke(t, f, "write", v)
    \/ \E f \in Keys : Invoke(t, f, "read", None)
    \/ Save(t) \/ Load(t) \/ Return(t) \/ Throw(t) \/ SaveFails(t)

Spec == Init /\ [][Next]_vars
=============================================================================
