--------------------------- MODULE QueuedExecution ---------------------------
(***************************************************************************)
(* FileCollisionTests/QueuedExecution: callers put items into a queue and   *)
(* wait for the item's event; a fixed number of worker threads takes items  *)
(* out, processes them and sets the event, or puts them back; Dispose stops *)
(* the workers.                                                             *)
(*                                                                          *)
(* A caller waits for one item at a time, so an item is known by its caller. *)
(* ProcessQueue is the subclass's: any of Outcomes, after any time.         *)
(***************************************************************************)
EXTENDS Naturals, Sequences, FiniteSets

CONSTANTS
  Callers,
  Workers,
  None,           \* no item
  Outcomes        \* what ProcessQueue may return

ASSUME QueuedExecutionAssumption ==
  /\ None \notin Callers
  /\ Outcomes \subseteq {"Success", "FailThrow", "FailRequeue"}

VARIABLES
  queue,    \* _queue
  caller,   \* each caller: "idle", "waiting", "returned" or "threw"
  item,     \* the QueueItem of each caller's last call
  worker,   \* each worker's place in its loop, and the item it has taken
  aborted,  \* _threadaborted
  dispose,  \* Dispose: "none", in its loop ("waiting"), has "waited" till all
            \* had stopped, "left" without aborting any, or "aborted" them
  done      \* history: how often each caller's last call was processed to an end

vars == <<queue, caller, item, worker, aborted, dispose, done>>

Doing(at, c) == [at |-> at, item |-> c]
NewItem == [result |-> "Success", set |-> FALSE]

Init ==
  /\ queue = <<>>
  /\ caller = [c \in Callers |-> "idle"]
  /\ item = [c \in Callers |-> NewItem]
  /\ worker = [w \in Workers |-> Doing("poll", None)]
  /\ aborted = FALSE
  /\ dispose = "none"
  /\ done = [c \in Callers |-> 0]

-----------------------------------------------------------------------------
(* Execute up to resetevent.Wait; the item's result starts as the enum's     *)
(* first value, Success.                                                     *)
Execute(c) ==
  /\ caller[c] # "waiting"
  /\ caller' = [caller EXCEPT ![c] = "waiting"]
  /\ item' = [item EXCEPT ![c] = NewItem]
  /\ queue' = Append(queue, c)
  /\ done' = [done EXCEPT ![c] = 0]
  /\ UNCHANGED <<worker, aborted, dispose>>

(* Mutant: TryPeek, and the item is taken out when it is done. *)
DequeueLate(w) ==
  /\ worker[w].at = "poll" /\ queue # <<>>
  /\ worker' = [worker EXCEPT ![w] = Doing("process", Head(queue))]
  /\ UNCHANGED <<queue, caller, item, aborted, dispose, done>>

(* TryDequeue finds an item. *)
Dequeue(w) ==
  /\ worker[w].at = "poll" /\ queue # <<>>
  /\ worker' = [worker EXCEPT ![w] = Doing("process", Head(queue))]
  /\ queue' = Tail(queue)
  /\ UNCHANGED <<caller, item, aborted, dispose, done>>

(* TryDequeue finds none. *)
FindEmpty(w) ==
  /\ worker[w].at = "poll" /\ queue = <<>>
  /\ worker' = [worker EXCEPT ![w] = Doing("check", None)]
  /\ UNCHANGED <<queue, caller, item, aborted, dispose, done>>

(* Mutant: an item to be requeued stays with the worker that forgets it. *)
RequeueForgotten(w) ==
  /\ "FailRequeue" \in Outcomes
  /\ worker[w].at = "process"
  /\ worker' = [worker EXCEPT ![w] = Doing("check", None)]
  /\ item' = [item EXCEPT ![worker[w].item].result = "FailRequeue"]
  /\ UNCHANGED <<queue, caller, aborted, dispose, done>>

(* ProcessQueue returns FailRequeue: back into the queue. *)
Requeue(w) ==
  /\ "FailRequeue" \in Outcomes
  /\ worker[w].at = "process"
  /\ LET c == worker[w].item
     IN  /\ item' = [item EXCEPT ![c].result = "FailRequeue"]
         /\ queue' = Append(queue, c)
         /\ worker' = [worker EXCEPT ![w] = Doing("check", None)]
  /\ UNCHANGED <<caller, aborted, dispose, done>>

(* Mutant: the event of an item is set before it is processed. *)
FinishAfterSet(w) ==
  /\ worker[w].at = "process"
  /\ LET c == worker[w].item
     IN  IF item[c].set
         THEN /\ \E r \in Outcomes \ {"FailRequeue"} : item' = [item EXCEPT ![c].result = r]
              /\ worker' = [worker EXCEPT ![w] = Doing("check", None)]
              /\ done' = [done EXCEPT ![c] = @ + 1]
         ELSE /\ item' = [item EXCEPT ![c].set = TRUE]
              /\ UNCHANGED <<worker, done>>
  /\ UNCHANGED <<queue, caller, aborted, dispose>>

(* ProcessQueue returns one of the other results. *)
Finish(w) ==
  /\ worker[w].at = "process"
  /\ LET c == worker[w].item
     IN  /\ \E r \in Outcomes \ {"FailRequeue"} : item' = [item EXCEPT ![c].result = r]
         /\ worker' = [worker EXCEPT ![w] = Doing("set", c)]
         /\ done' = [done EXCEPT ![c] = @ + 1]
  /\ UNCHANGED <<queue, caller, aborted, dispose>>

(* item.resetEvent.Set *)
SetEvent(w) ==
  /\ worker[w].at = "set"
  /\ item' = [item EXCEPT ![worker[w].item].set = TRUE]
  /\ worker' = [worker EXCEPT ![w] = Doing("check", None)]
  /\ UNCHANGED <<queue, caller, aborted, dispose, done>>

(* while (!_threadaborted) *)
Check(w) ==
  /\ worker[w].at = "check"
  /\ worker' = [worker EXCEPT ![w] = Doing(IF aborted THEN "stopped" ELSE "poll", None)]
  /\ UNCHANGED <<queue, caller, item, aborted, dispose, done>>

(* resetevent.Wait is over: Execute returns or throws. *)
Return(c) ==
  /\ caller[c] = "waiting" /\ item[c].set
  /\ caller' = [caller EXCEPT ![c] =
       IF item[c].result = "FailThrow" THEN "threw" ELSE "returned"]
  /\ UNCHANGED <<queue, item, worker, aborted, dispose, done>>

(* Dispose, with the first look at the threads, which finds them alive.      *)
(* Without waitForFinish, or when (DateTime.Now + wait) > DateTime.Now is    *)
(* false at once, no thread is looked at; then none is aborted either, since *)
(* allaborted is still true.                                                 *)
Dispose(waitForFinish) ==
  /\ dispose = "none"
  /\ aborted' = TRUE
  /\ dispose' \in IF waitForFinish THEN {"waiting", "left"} ELSE {"left"}
  /\ UNCHANGED <<queue, caller, item, worker, done>>

(* Mutant: one stopped thread is enough. *)
DisposeEndsEarly ==
  /\ dispose = "waiting"
  /\ \E w \in Workers : worker[w].at = "stopped"
  /\ dispose' = "waited"
  /\ UNCHANGED <<queue, caller, item, worker, aborted, done>>

(* A look at all threads finds none alive. *)
DisposeEnds ==
  /\ dispose = "waiting"
  /\ \A w \in Workers : worker[w].at = "stopped"
  /\ dispose' = "waited"
  /\ UNCHANGED <<queue, caller, item, worker, aborted, done>>

(* The condition of the loop turns out false later: wait passes between the  *)
(* two readings of the clock.  Then the threads that are alive are aborted.  *)
DisposeGivesUp ==
  /\ dispose = "waiting"
  /\ dispose' = "aborted"
  /\ UNCHANGED <<queue, caller, item, worker, aborted, done>>

(* The abort meets a worker anywhere, and it keeps the item it has taken.    *)
Abort(w) ==
  /\ dispose = "aborted" /\ worker[w].at # "stopped"
  /\ worker' = [worker EXCEPT ![w].at = "stopped"]
  /\ UNCHANGED <<queue, caller, item, aborted, dispose, done>>

Next ==
  \/ \E c \in Callers : Execute(c) \/ Return(c)
  \/ \E w \in Workers :
       \/ Dequeue(w) \/ FindEmpty(w) \/ Requeue(w) \/ Finish(w)
       \/ SetEvent(w) \/ Check(w) \/ Abort(w)
  \/ \E waitForFinish \in BOOLEAN : Dispose(waitForFinish)
  \/ DisposeEnds \/ DisposeGivesUp

Spec == Init /\ [][Next]_vars

(* An item is processed to an end. *)
FinishItem(c) == \E w \in Workers : worker[w].item = c /\ Finish(w)

-----------------------------------------------------------------------------
TypeOK ==
  /\ queue \in Seq(Callers)
  /\ caller \in [Callers -> {"idle", "waiting", "returned", "threw"}]
  /\ item \in [Callers -> [result : Outcomes \cup {"Success"}, set : BOOLEAN]]
  /\ worker \in [Workers -> [at : {"poll", "process", "set", "check", "stopped"},
                             item : Callers \cup {None}]]
  /\ aborted \in BOOLEAN
  /\ dispose \in {"none", "waiting", "waited", "left", "aborted"}
  /\ done \in [Callers -> Nat]

(* The places where the item of a caller can be. *)
Queued(c)  == {i \in 1..Len(queue) : queue[i] = c}
Holding(c) == {w \in Workers : worker[w].item = c}

(* An item that is waited for is in one place: in the queue once, with one   *)
(* worker, or answered.  It is neither lost nor with two workers, whatever   *)
(* requeues and stops come in between.                                       *)
InOnePlace ==
  \A c \in Callers :
    caller[c] = "waiting" =>
      Cardinality(Queued(c)) + Cardinality(Holding(c)) + (IF item[c].set THEN 1 ELSE 0) = 1

(* Execute returns when its item was processed to an end once, and throws    *)
(* exactly when that end was FailThrow.                                      *)
AnswersOwnItem ==
  \A c \in Callers :
    caller[c] \in {"returned", "threw"} =>
      done[c] = 1 /\ (caller[c] = "threw" <=> item[c].result = "FailThrow")

(* Unless Dispose aborts them, workers stop with no item in hand; and when   *)
(* it has waited for all of them, every item is either answered or still in  *)
(* the queue: none was given up halfway.                                     *)
DisposeLeavesNothingHalf ==
  /\ \A w \in Workers :
       worker[w].at = "stopped" /\ worker[w].item # None => dispose = "aborted"
  /\ dispose = "waited" =>
       \A c \in Callers : Holding(c) = {} /\ (done[c] = 1 => item[c].set)

(* Every call of Execute ends, as its summary promises, as long as nobody    *)
(* calls Dispose; after that an item may stay in the queue for good.         *)
ExecuteReturns ==
  \A c \in Callers : caller[c] = "waiting" ~> caller[c] # "waiting" \/ dispose # "none"
=============================================================================
