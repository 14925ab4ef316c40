---------------------------- MODULE QueuedFiles_proofs ----------------------------
(***************************************************************************)
(* The queue and its files, for any callers, workers, files and documents. *)
(* First the queue by itself, whatever its items are and also when workers *)
(* are aborted.  Then the workers at their files, by what FileAccess_proofs *)
(* shows of threads: a worker there is a thread in a call for its item.     *)
(* Last, what callers see of the files is AtomicFiles.                      *)
(***************************************************************************)
EXTENDS QueuedFiles, FiniteSetTheorems, TLAPS

IsQueued(c) == \E i \in 1..Len(queue) : queue[i] = c
IsHeld(c) == \E w \in Workers : worker[w].item = c
IsFinished(c) == \E w \in Workers : worker[w] = Doing("set", c)

(* No item is in the queue twice, with two workers, or in both places. *)
Apart ==
  /\ \A i, j \in 1..Len(queue) : queue[i] = queue[j] => i = j
  /\ \A v, w \in Workers : worker[v].item = worker[w].item /\ worker[w].item # None => v = w
  /\ \A i \in 1..Len(queue), w \in Workers : worker[w].item # queue[i]

(* A worker that was aborted keeps the item it had. *)
HoldsItem ==
  \A w \in Workers :
    /\ worker[w].at \in {"process", "set"} => worker[w].item # None
    /\ worker[w].item # None => worker[w].at \in {"process", "set", "stopped"}

IsGivenUp(c) == \E w \in Workers : worker[w] = Doing("stopped", c)

(* The life of a caller's item: queued, held, finished, answered. *)
Life(c) ==
  /\ IsQueued(c) \/ IsHeld(c) => caller[c] = "waiting" /\ ~item[c].set
  /\ caller[c] = "waiting" => IsQueued(c) \/ IsHeld(c) \/ item[c].set
  /\ item[c].set \/ IsFinished(c) => done[c] = 1
  /\ done[c] = 0 \/ item[c].set \/ IsFinished(c) \/ (done[c] = 1 /\ IsGivenUp(c))
  /\ caller[c] \in {"returned", "threw"} =>
       done[c] = 1 /\ (caller[c] = "threw" <=> item[c].result = "FailThrow")

Items == TypeOK /\ Apart /\ HoldsItem /\ \A c \in Callers : Life(c)

(* Without an abort no worker stops with an item. *)
StoppedEmpty ==
  dispose # "aborted" =>
    \A w \in Workers : worker[w].at = "stopped" => worker[w].item = None

AllStopped == dispose = "waited" => \A w \in Workers : worker[w].at = "stopped"

-----------------------------------------------------------------------------
TypeInv == TypeOK /\ HoldsItem

LEMMA TypeInit == Init => TypeInv
<1> SUFFICES ASSUME Init PROVE TypeInv
  OBVIOUS
<1>1. queue \in Seq(Callers)
  BY DEF Init
<1>1a. aborted \in BOOLEAN
  BY DEF Init
<1>2. caller \in [Callers -> {"idle", "waiting", "returned", "threw"}]
  BY DEF Init
<1>3. item \in [Callers -> [result : Outcomes \cup {"Success"}, set : BOOLEAN]]
  BY DEF Init, NewItem
<1>4. \A w \in Workers : worker[w] = Doing("poll", None)
  BY DEF Init
<1>5. HoldsItem
  BY <1>4 DEF HoldsItem, Doing
<1>6. worker \in [Workers -> [at : {"poll", "process", "set", "check", "stopped"},
                             item : Callers \cup {None}]]
  BY DEF Init, Doing
<1> QED
  BY <1>1, <1>1a, <1>2, <1>3, <1>5, <1>6 DEF Init, TypeInv, TypeOK

LEMMA TypeStep == TypeInv /\ [Next]_vars => TypeInv'
<1> SUFFICES ASSUME TypeInv, [Next]_vars PROVE TypeInv'
  OBVIOUS
<1> USE QueuedExecutionAssumption DEF TypeInv, TypeOK, HoldsItem, Doing, NewItem
<1>1. ASSUME NEW c \in Callers, Execute(c) PROVE TypeInv'
  BY <1>1 DEF Execute
<1>2. ASSUME NEW c \in Callers, Return(c) PROVE TypeInv'
  BY <1>2 DEF Return
<1>3. ASSUME NEW w \in Workers, Dequeue(w) PROVE TypeInv'
  BY <1>3 DEF Dequeue
<1>4. ASSUME NEW w \in Workers, FindEmpty(w) PROVE TypeInv'
  BY <1>4 DEF FindEmpty
<1>5. ASSUME NEW w \in Workers, Requeue(w) PROVE TypeInv'
  <2>1. worker[w].item \in Callers
    BY <1>5, QueuedExecutionAssumption DEF Requeue
  <2>2. queue' \in Seq(Callers)
    BY <1>5, <2>1 DEF Requeue
  <2>3. item' \in [Callers -> [result : Outcomes \cup {"Success"}, set : BOOLEAN]]
    BY <1>5, <2>1, ZenonT(60) DEF Requeue
  <2> QED
    BY <1>5, <2>2, <2>3 DEF Requeue
<1>6. ASSUME NEW w \in Workers, Finish(w) PROVE TypeInv'
  <2>1. worker[w].item \in Callers
    BY <1>6 DEF Finish
  <2>2. item' \in [Callers -> [result : Outcomes \cup {"Success"}, set : BOOLEAN]]
    <3>1. PICK r \in Outcomes \ {"FailRequeue"} :
            item' = [item EXCEPT ![worker[w].item].result = r]
      BY <1>6 DEF Finish
    <3> QED
      BY <2>1, <3>1, ZenonT(60)
  <2>3. done' \in [Callers -> Nat]
    BY <1>6, <2>1 DEF Finish
  <2>4. /\ worker' \in [Workers -> [at : {"poll", "process", "set", "check", "stopped"},
                                    item : Callers \cup {None}]]
        /\ HoldsItem'
    BY <1>6, <2>1 DEF Finish
  <2> QED
    BY <1>6, <2>2, <2>3, <2>4 DEF Finish
<1>7. ASSUME NEW w \in Workers, SetEvent(w) PROVE TypeInv'
  BY <1>7, ZenonT(60) DEF SetEvent
<1>8. ASSUME NEW w \in Workers, Check(w) PROVE TypeInv'
  BY <1>8 DEF Check
<1>9. ASSUME NEW b \in BOOLEAN, Dispose(b) PROVE TypeInv'
  BY <1>9 DEF Dispose
<1>10. CASE DisposeEnds \/ DisposeGivesUp
  BY <1>10 DEF DisposeEnds, DisposeGivesUp
<1>11. ASSUME NEW w \in Workers, Abort(w) PROVE TypeInv'
  BY <1>11 DEF Abort
<1>12. CASE UNCHANGED vars
  BY <1>12 DEF vars
<1> QED
  BY <1>1, <1>2, <1>3, <1>4, <1>5, <1>6, <1>7, <1>8, <1>9, <1>10, <1>11, <1>12 DEF Next

-----------------------------------------------------------------------------
(* What each action does to the places of the items. *)

PlacesKept ==
  \A d \in Callers : /\ IsQueued(d)' <=> IsQueued(d)
                     /\ IsHeld(d)' <=> IsHeld(d)
                     /\ IsFinished(d)' <=> IsFinished(d)

LEMMA ExecutePlaces ==
  ASSUME TypeInv, Apart, NEW c \in Callers, Life(c), Execute(c)
  PROVE  /\ Apart'
         /\ \A d \in Callers : /\ IsQueued(d)' <=> IsQueued(d) \/ d = c
                               /\ IsHeld(d)' <=> IsHeld(d)
                               /\ IsFinished(d)' <=> IsFinished(d)
<1>1. ~IsQueued(c) /\ ~IsHeld(c)
  BY DEF Life, Execute
<1>2. /\ queue \in Seq(Callers) /\ queue' = Append(queue, c) /\ worker' = worker
  BY DEF Execute, TypeInv, TypeOK
<1>3. /\ Len(queue') = Len(queue) + 1 /\ queue'[Len(queue) + 1] = c
      /\ \A i \in 1..Len(queue) : queue'[i] = queue[i]
      /\ Len(queue) \in Nat
  BY <1>2
<1>4. 1..Len(queue') = 1..Len(queue) \cup {Len(queue) + 1}
  BY <1>3
<1>5. \A d \in Callers : IsQueued(d)' <=> IsQueued(d) \/ d = c
  BY <1>3, <1>4 DEF IsQueued
<1>6. \A d \in Callers : (IsHeld(d)' <=> IsHeld(d)) /\ (IsFinished(d)' <=> IsFinished(d))
  BY <1>2 DEF IsHeld, IsFinished
<1>7. \A i, j \in 1..Len(queue') : queue'[i] = queue'[j] => i = j
  BY <1>1, <1>3, <1>4 DEF Apart, IsQueued
<1>8. \A i \in 1..Len(queue'), w \in Workers : worker'[w].item # queue'[i]
  BY <1>1, <1>2, <1>3, <1>4 DEF Apart, IsHeld
<1>9. \A v, w \in Workers :
        worker'[v].item = worker'[w].item /\ worker'[w].item # None => v = w
  BY <1>2 DEF Apart
<1> QED
  BY <1>5, <1>6, <1>7, <1>8, <1>9 DEF Apart

LEMMA DequeuePlaces ==
  ASSUME TypeInv, Apart, NEW w \in Workers, Dequeue(w)
  PROVE  /\ Apart'
         /\ Head(queue) \in Callers /\ IsQueued(Head(queue))
         /\ \A d \in Callers : /\ IsQueued(d)' <=> IsQueued(d) /\ d # Head(queue)
                               /\ IsHeld(d)' <=> IsHeld(d) \/ d = Head(queue)
                               /\ IsFinished(d)' <=> IsFinished(d)
<1> DEFINE h == Head(queue)
<1>1. /\ queue \in Seq(Callers) /\ queue # <<>> /\ queue' = Tail(queue)
  BY DEF Dequeue, TypeInv, TypeOK
<1>2. /\ Len(queue) \in Nat \ {0} /\ Len(queue') = Len(queue) - 1
      /\ h = queue[1] /\ h \in Callers
      /\ \A i \in 1..Len(queue') : queue'[i] = queue[i + 1]
  BY <1>1
<1>3. /\ worker \in [Workers -> [at : {"poll", "process", "set", "check", "stopped"},
                                 item : Callers \cup {None}]]
      /\ worker[w].at = "poll" /\ worker[w].item = None
      /\ worker' = [worker EXCEPT ![w] = Doing("process", h)]
  BY DEF Dequeue, TypeInv, TypeOK, HoldsItem
<1>4. /\ worker'[w].item = h /\ worker'[w].at = "process"
      /\ \A v \in Workers : v # w => worker'[v] = worker[v]
  BY <1>3 DEF Doing
<1>5. \A i, j \in 1..Len(queue) : queue[i] = queue[j] => i = j
  BY DEF Apart
<1>6. \A i \in 1..Len(queue), v \in Workers : worker[v].item # queue[i]
  BY DEF Apart
<1>7. \A i \in 1..Len(queue') : i + 1 \in 1..Len(queue) /\ i + 1 # 1
  BY <1>2
<1>8. \A i \in 1..Len(queue') : queue'[i] # h
  BY <1>2, <1>5, <1>7
<1>9. \A d \in Callers : IsQueued(d)' <=> IsQueued(d) /\ d # h
  <2> SUFFICES ASSUME NEW d \in Callers PROVE IsQueued(d)' <=> IsQueued(d) /\ d # h
    OBVIOUS
  <2>1. IsQueued(d)' => IsQueued(d) /\ d # h
    BY <1>2, <1>7, <1>8 DEF IsQueued
  <2>2. ASSUME IsQueued(d), d # h PROVE IsQueued(d)'
    <3>1. PICK i \in 1..Len(queue) : queue[i] = d
      BY <2>2 DEF IsQueued
    <3>2. i # 1 /\ i - 1 \in 1..Len(queue') /\ queue'[i - 1] = queue[i]
      BY <1>2, <2>2, <3>1
    <3> QED
      BY <3>1, <3>2 DEF IsQueued
  <2> QED
    BY <2>1, <2>2
<1>10. \A d \in Callers : IsHeld(d)' <=> IsHeld(d) \/ d = h
  BY <1>3, <1>4, QueuedExecutionAssumption DEF IsHeld
<1>11. \A d \in Callers : IsFinished(d)' <=> IsFinished(d)
  BY <1>3, <1>4 DEF IsFinished, Doing
<1>12. \A i, j \in 1..Len(queue') : queue'[i] = queue'[j] => i = j
  BY <1>2, <1>5, <1>7
<1>13. \A v, u \in Workers :
         worker'[v].item = worker'[u].item /\ worker'[u].item # None => v = u
  <2>1. \A v \in Workers : worker[v].item # h
    BY <1>2, <1>6
  <2> QED
    BY <1>4, <2>1 DEF Apart
<1>14. \A i \in 1..Len(queue'), v \in Workers : worker'[v].item # queue'[i]
  BY <1>2, <1>4, <1>6, <1>7, <1>8
<1>15. IsQueued(h)
  BY <1>2 DEF IsQueued
<1> QED
  BY <1>2, <1>9, <1>10, <1>11, <1>12, <1>13, <1>14, <1>15 DEF Apart

(* A worker that has let go of its item, or only gone on with it. *)
LEMMA RequeuePlaces ==
  ASSUME TypeInv, Apart, NEW w \in Workers, Requeue(w)
  PROVE  /\ Apart'
         /\ worker[w].item \in Callers /\ IsHeld(worker[w].item)
         /\ \A d \in Callers : /\ IsQueued(d)' <=> IsQueued(d) \/ d = worker[w].item
                               /\ IsHeld(d)' <=> IsHeld(d) /\ d # worker[w].item
                               /\ IsFinished(d)' <=> IsFinished(d)
<1> DEFINE c == worker[w].item
<1>1. /\ worker \in [Workers -> [at : {"poll", "process", "set", "check", "stopped"},
                                 item : Callers \cup {None}]]
      /\ worker[w].at = "process" /\ c \in Callers /\ c # None
      /\ worker' = [worker EXCEPT ![w] = Doing("check", None)]
  BY QueuedExecutionAssumption DEF Requeue, TypeInv, TypeOK, HoldsItem
<1>2. queue \in Seq(Callers) /\ queue' = Append(queue, c)
  BY DEF Requeue, TypeInv, TypeOK
<1> HIDE DEF c
<1>3. /\ Len(queue') = Len(queue) + 1 /\ queue'[Len(queue) + 1] = c
      /\ \A i \in 1..Len(queue) : queue'[i] = queue[i]
      /\ Len(queue) \in Nat
  BY <1>1, <1>2
<1>4. 1..Len(queue') = 1..Len(queue) \cup {Len(queue) + 1}
  BY <1>3
<1>5. /\ worker'[w] = Doing("check", None)
      /\ worker'[w].item = None
      /\ \A v \in Workers : v # w => worker'[v] = worker[v]
  BY <1>1 DEF Doing
<1>6. /\ \A i \in 1..Len(queue) : queue[i] # c
      /\ \A v \in Workers : worker[v].item = c => v = w
  BY <1>1 DEF Apart, c
<1>7. \A d \in Callers : IsQueued(d)' <=> IsQueued(d) \/ d = c
  BY <1>3, <1>4 DEF IsQueued
<1>8. \A d \in Callers : IsHeld(d)' <=> IsHeld(d) /\ d # c
  BY <1>5, <1>6, QueuedExecutionAssumption DEF IsHeld, c
<1>9. \A d \in Callers : IsFinished(d)' <=> IsFinished(d)
  BY <1>1, <1>5 DEF IsFinished, Doing
<1>10. \A i, j \in 1..Len(queue') : queue'[i] = queue'[j] => i = j
  BY <1>3, <1>4, <1>6 DEF Apart
<1>11. \A v, u \in Workers :
         worker'[v].item = worker'[u].item /\ worker'[u].item # None => v = u
  BY <1>5 DEF Apart
<1>12. \A i \in 1..Len(queue'), v \in Workers : worker'[v].item # queue'[i]
  <2> SUFFICES ASSUME NEW i \in 1..Len(queue'), NEW v \in Workers
               PROVE  worker'[v].item # queue'[i]
    OBVIOUS
  <2>1. queue'[i] # None
    BY <1>1, <1>2, <1>3, QueuedExecutionAssumption
  <2>2. CASE v = w
    BY <1>5, <2>1, <2>2
  <2>3. CASE v # w /\ i \in 1..Len(queue)
    BY <1>3, <1>5, <2>3 DEF Apart
  <2>4. CASE v # w /\ i = Len(queue) + 1
    BY <1>3, <1>5, <1>6, <2>4
  <2> QED
    BY <1>4, <2>2, <2>3, <2>4
<1>13. IsHeld(c)
  BY DEF IsHeld, c
<1> QED
  BY <1>1, <1>7, <1>8, <1>9, <1>10, <1>11, <1>12, <1>13 DEF Apart, c

LEMMA FinishPlaces ==
  ASSUME TypeInv, Apart, NEW w \in Workers, Finish(w)
  PROVE  /\ Apart'
         /\ worker[w].item \in Callers /\ IsHeld(worker[w].item)
         /\ ~IsFinished(worker[w].item) /\ ~IsGivenUp(worker[w].item)
         /\ \A d \in Callers : /\ IsQueued(d)' <=> IsQueued(d)
                               /\ IsHeld(d)' <=> IsHeld(d)
                               /\ IsFinished(d)' <=> IsFinished(d) \/ d = worker[w].item
<1> DEFINE c == worker[w].item
<1>1. /\ worker \in [Workers -> [at : {"poll", "process", "set", "check", "stopped"},
                                 item : Callers \cup {None}]]
      /\ worker[w].at = "process" /\ c \in Callers /\ c # None
      /\ worker' = [worker EXCEPT ![w] = Doing("set", c)]
  BY QueuedExecutionAssumption DEF Finish, TypeInv, TypeOK, HoldsItem
<1>2. queue' = queue
  BY DEF Finish
<1>3. /\ worker'[w] = Doing("set", c) /\ worker'[w].item = c
      /\ \A v \in Workers : v # w => worker'[v] = worker[v]
      /\ \A v \in Workers : worker'[v].item = worker[v].item
  BY <1>1 DEF Doing
<1>4. Apart'
  BY <1>2, <1>3 DEF Apart
<1>5. \A d \in Callers : IsQueued(d)' <=> IsQueued(d)
  BY <1>2 DEF IsQueued
<1>6. \A d \in Callers : IsHeld(d)' <=> IsHeld(d)
  BY <1>3 DEF IsHeld
<1>7. \A d \in Callers : IsFinished(d)' <=> IsFinished(d) \/ d = c
  BY <1>1, <1>3 DEF IsFinished, Doing
<1>8. ~IsFinished(c) /\ ~IsGivenUp(c)
  BY <1>1 DEF IsFinished, IsGivenUp, Apart, Doing
<1>9. IsHeld(c)
  BY DEF IsHeld
<1> QED
  BY <1>1, <1>4, <1>5, <1>6, <1>7, <1>8, <1>9

LEMMA SetEventPlaces ==
  ASSUME TypeInv, Apart, NEW w \in Workers, SetEvent(w)
  PROVE  /\ Apart'
         /\ worker[w].item \in Callers /\ IsHeld(worker[w].item) /\ IsFinished(worker[w].item)
         /\ ~IsQueued(worker[w].item)
         /\ \A d \in Callers : /\ IsQueued(d)' <=> IsQueued(d)
                               /\ IsHeld(d)' <=> IsHeld(d) /\ d # worker[w].item
                               /\ IsFinished(d)' <=> IsFinished(d) /\ d # worker[w].item
<1> DEFINE c == worker[w].item
<1>1. /\ worker \in [Workers -> [at : {"poll", "process", "set", "check", "stopped"},
                                 item : Callers \cup {None}]]
      /\ worker[w].at = "set" /\ c \in Callers /\ c # None
      /\ worker' = [worker EXCEPT ![w] = Doing("check", None)]
  BY QueuedExecutionAssumption DEF SetEvent, TypeInv, TypeOK, HoldsItem
<1>2. queue' = queue
  BY DEF SetEvent
<1>3. /\ worker'[w] = Doing("check", None) /\ worker'[w].item = None
      /\ \A v \in Workers : v # w => worker'[v] = worker[v]
  BY <1>1 DEF Doing
<1>4. \A v \in Workers : worker[v].item = c => v = w
  BY <1>1 DEF Apart
<1>5. \A i \in 1..Len(queue) : queue[i] # None
  BY QueuedExecutionAssumption DEF TypeInv, TypeOK
<1>6. Apart'
  BY <1>2, <1>3, <1>5 DEF Apart
<1>7. \A d \in Callers : IsQueued(d)' <=> IsQueued(d)
  BY <1>2 DEF IsQueued
<1>8. \A d \in Callers : IsHeld(d)' <=> IsHeld(d) /\ d # c
  BY <1>3, <1>4, QueuedExecutionAssumption DEF IsHeld
<1>9. \A d \in Callers : IsFinished(d)' <=> IsFinished(d) /\ d # c
  BY <1>1, <1>3, <1>4 DEF IsFinished, Doing
<1>10. IsHeld(c) /\ ~IsQueued(c)
  BY DEF IsHeld, IsQueued, Apart
<1>11. worker[w] = Doing("set", c)
  BY <1>1 DEF Doing
<1>12. IsFinished(c)
  BY <1>11 DEF IsFinished
<1> QED
  BY <1>1, <1>6, <1>7, <1>8, <1>9, <1>10, <1>12

(* The steps that move no item. *)
LEMMA OtherPlaces ==
  ASSUME TypeInv, Apart, queue' = queue,
         \A v \in Workers : \/ worker'[v] = worker[v]
                            \/ worker[v].item = None /\ worker'[v].item = None
                               /\ worker[v].at # "set" /\ worker'[v].at # "set"
  PROVE  Apart' /\ PlacesKept
<1>1. \A v \in Workers : worker'[v].item = worker[v].item
  OBVIOUS
<1>2. Apart'
  BY <1>1 DEF Apart
<1>3. \A d \in Callers : (IsQueued(d)' <=> IsQueued(d)) /\ (IsHeld(d)' <=> IsHeld(d))
  BY <1>1 DEF IsQueued, IsHeld
<1>4. \A d \in Callers : IsFinished(d)' <=> IsFinished(d)
  BY DEF IsFinished, Doing
<1> QED
  BY <1>2, <1>3, <1>4 DEF PlacesKept

(* Every step but the abort of a worker. *)
Undisturbed ==
  \/ \E c \in Callers : Execute(c) \/ Return(c)
  \/ \E w \in Workers :
       \/ Dequeue(w) \/ FindEmpty(w) \/ Requeue(w) \/ Finish(w)
       \/ SetEvent(w) \/ Check(w)
  \/ \E waitForFinish \in BOOLEAN : Dispose(waitForFinish)
  \/ DisposeEnds \/ DisposeGivesUp

(* No step of the loop gives an item up. *)
LEMMA GivenUpStay ==
  ASSUME TypeInv, Undisturbed
  PROVE  \A d \in Callers : IsGivenUp(d)' <=> IsGivenUp(d)
<1> USE DEF IsGivenUp
<1>1. worker \in [Workers -> [at : {"poll", "process", "set", "check", "stopped"},
                             item : Callers \cup {None}]]
  BY DEF TypeInv, TypeOK
<1>2. ASSUME worker' = worker
      PROVE  \A d \in Callers : IsGivenUp(d)' <=> IsGivenUp(d)
  BY <1>2
<1>3. ASSUME NEW w \in Workers, worker[w].at # "stopped", NEW at, NEW c,
             worker' = [worker EXCEPT ![w] = Doing(at, c)], at # "stopped" \/ c = None
      PROVE  \A d \in Callers : IsGivenUp(d)' <=> IsGivenUp(d)
  <2>1. \A v \in Workers : v # w => worker'[v] = worker[v]
    BY <1>1, <1>3
  <2>2. worker'[w] = Doing(at, c)
    BY <1>1, <1>3
  <2>3. \A d \in Callers : worker[w] # Doing("stopped", d) /\ worker'[w] # Doing("stopped", d)
    BY <1>3, <2>2, QueuedExecutionAssumption DEF Doing
  <2> QED
    BY <2>1, <2>3
<1> HIDE DEF IsGivenUp
<1>4. ASSUME NEW w \in Workers,
             \/ Dequeue(w) \/ FindEmpty(w) \/ Requeue(w)
             \/ Finish(w) \/ SetEvent(w) \/ Check(w)
      PROVE  \A d \in Callers : IsGivenUp(d)' <=> IsGivenUp(d)
  <2>1. CASE Dequeue(w)
    BY <1>3, <2>1 DEF Dequeue
  <2>2. CASE FindEmpty(w)
    BY <1>3, <2>2 DEF FindEmpty
  <2>3. CASE Requeue(w)
    BY <1>3, <2>3 DEF Requeue
  <2>4. CASE Finish(w)
    BY <1>3, <2>4 DEF Finish
  <2>5. CASE SetEvent(w)
    BY <1>3, <2>5 DEF SetEvent
  <2>6. CASE Check(w)
    BY <1>3, <2>6 DEF Check
  <2> QED
    BY <1>4, <2>1, <2>2, <2>3, <2>4, <2>5, <2>6
<1> QED
  BY <1>2, <1>4 DEF Undisturbed, Execute, Return, Dispose, DisposeEnds, DisposeGivesUp

-----------------------------------------------------------------------------
(* The life of each item through each action, from its places. *)

LEMMA LifeStep ==
  ASSUME TypeInv, TypeInv', Apart, \A c \in Callers : Life(c), Undisturbed
  PROVE  Apart' /\ \A c \in Callers : Life(c)'
<1>t. /\ item \in [Callers -> [result : Outcomes \cup {"Success"}, set : BOOLEAN]]
      /\ caller \in [Callers -> {"idle", "waiting", "returned", "threw"}]
      /\ done \in [Callers -> Nat]
  BY DEF TypeInv, TypeOK
<1>g. \A d \in Callers : IsGivenUp(d)' <=> IsGivenUp(d)
  BY GivenUpStay
<1>1. ASSUME NEW c \in Callers, Execute(c)
      PROVE  Apart' /\ \A d \in Callers : Life(d)'
  <2>1. /\ Apart'
        /\ \A d \in Callers : /\ IsQueued(d)' <=> IsQueued(d) \/ d = c
                              /\ IsHeld(d)' <=> IsHeld(d)
                              /\ IsFinished(d)' <=> IsFinished(d)
    BY <1>1, ExecutePlaces
  <2>2. /\ caller'[c] = "waiting" /\ item'[c] = NewItem /\ done'[c] = 0
        /\ \A d \in Callers : d # c =>
             caller'[d] = caller[d] /\ item'[d] = item[d] /\ done'[d] = done[d]
    BY <1>1, <1>t DEF Execute
  <2>3. ~IsFinished(c)
    BY <1>1 DEF Execute, Life, IsFinished, IsHeld, Doing
  <2>4. Life(c)'
    BY <2>1, <2>2, <2>3, <1>g DEF Life, NewItem
  <2>5. ASSUME NEW d \in Callers, d # c PROVE Life(d)'
    BY <2>1, <2>2, <2>5, <1>g DEF Life
  <2> QED
    BY <2>1, <2>4, <2>5
<1>2. ASSUME NEW c \in Callers, Return(c)
      PROVE  Apart' /\ \A d \in Callers : Life(d)'
  <2>1. Apart' /\ PlacesKept
    BY <1>2, OtherPlaces DEF Return
  <2>2. /\ caller'[c] = IF item[c].result = "FailThrow" THEN "threw" ELSE "returned"
        /\ \A d \in Callers : d # c => caller'[d] = caller[d]
        /\ item' = item /\ done' = done /\ item[c].set
    BY <1>2, <1>t DEF Return
  <2>3. Life(c)'
    BY <2>1, <2>2, <1>g DEF Life, PlacesKept
  <2>4. ASSUME NEW d \in Callers, d # c PROVE Life(d)'
    BY <2>1, <2>2, <2>4, <1>g DEF Life, PlacesKept
  <2> QED
    BY <2>1, <2>3, <2>4
<1>3. ASSUME NEW w \in Workers, Dequeue(w)
      PROVE  Apart' /\ \A d \in Callers : Life(d)'
  BY <1>3, DequeuePlaces, <1>g DEF Dequeue, Life
<1>4. ASSUME NEW w \in Workers, Requeue(w)
      PROVE  Apart' /\ \A d \in Callers : Life(d)'
  <2>0. PICK c \in Callers : c = worker[w].item
    BY <1>4, RequeuePlaces
  <2>1. /\ Apart' /\ IsHeld(c)
        /\ \A d \in Callers : /\ IsQueued(d)' <=> IsQueued(d) \/ d = c
                              /\ IsHeld(d)' <=> IsHeld(d) /\ d # c
                              /\ IsFinished(d)' <=> IsFinished(d)
    BY <1>4, <2>0, RequeuePlaces
  <2>2. /\ item'[c].set = item[c].set
        /\ \A d \in Callers : d # c => item'[d] = item[d]
        /\ caller' = caller /\ done' = done
    BY <1>4, <1>t, <2>0 DEF Requeue
  <2>3. Life(c)'
    BY <2>1, <2>2, <1>g DEF Life
  <2>4. ASSUME NEW d \in Callers, d # c PROVE Life(d)'
    BY <2>1, <2>2, <2>4, <1>g DEF Life
  <2> QED
    BY <2>1, <2>3, <2>4
<1>5. ASSUME NEW w \in Workers, Finish(w)
      PROVE  Apart' /\ \A d \in Callers : Life(d)'
  <2>0. PICK c \in Callers : c = worker[w].item
    BY <1>5, FinishPlaces
  <2>1. /\ Apart' /\ IsHeld(c) /\ ~IsFinished(c) /\ ~IsGivenUp(c)
        /\ \A d \in Callers : /\ IsQueued(d)' <=> IsQueued(d)
                              /\ IsHeld(d)' <=> IsHeld(d)
                              /\ IsFinished(d)' <=> IsFinished(d) \/ d = c
    BY <1>5, <2>0, FinishPlaces
  <2>2. /\ item'[c].set = item[c].set /\ done'[c] = done[c] + 1
        /\ \A d \in Callers : d # c => item'[d] = item[d] /\ done'[d] = done[d]
        /\ caller' = caller
    BY <1>5, <1>t, <2>0 DEF Finish
  <2>3. done[c] = 0 /\ caller[c] = "waiting" /\ ~item[c].set
    BY <2>1 DEF Life
  <2>4. Life(c)'
    BY <2>1, <2>2, <2>3, <1>g DEF Life
  <2>5. ASSUME NEW d \in Callers, d # c PROVE Life(d)'
    BY <2>1, <2>2, <2>5, <1>g DEF Life
  <2> QED
    BY <2>1, <2>4, <2>5
<1>6. ASSUME NEW w \in Workers, SetEvent(w)
      PROVE  Apart' /\ \A d \in Callers : Life(d)'
  <2>0. PICK c \in Callers : c = worker[w].item
    BY <1>6, SetEventPlaces
  <2>1. /\ Apart' /\ IsHeld(c) /\ IsFinished(c) /\ ~IsQueued(c)
        /\ \A d \in Callers : /\ IsQueued(d)' <=> IsQueued(d)
                              /\ IsHeld(d)' <=> IsHeld(d) /\ d # c
                              /\ IsFinished(d)' <=> IsFinished(d) /\ d # c
    BY <1>6, <2>0, SetEventPlaces
  <2>2. /\ item'[c].set /\ item'[c].result = item[c].result
        /\ \A d \in Callers : d # c => item'[d] = item[d]
        /\ caller' = caller /\ done' = done
    BY <1>6, <1>t, <2>0 DEF SetEvent
  <2>3. Life(c)'
    BY <2>1, <2>2, <1>g DEF Life
  <2>4. ASSUME NEW d \in Callers, d # c PROVE Life(d)'
    BY <2>1, <2>2, <2>4, <1>g DEF Life
  <2> QED
    BY <2>1, <2>3, <2>4
<1>7. ASSUME queue' = queue, caller' = caller, item' = item, done' = done,
             \A v \in Workers : \/ worker'[v] = worker[v]
                                \/ worker[v].item = None /\ worker'[v].item = None
                                   /\ worker[v].at # "set" /\ worker'[v].at # "set"
      PROVE  Apart' /\ \A d \in Callers : Life(d)'
  <2>1. Apart' /\ PlacesKept
    BY <1>7, OtherPlaces
  <2> QED
    BY <1>7, <2>1, <1>g DEF Life, PlacesKept
<1>8. ASSUME NEW w \in Workers, FindEmpty(w) \/ Check(w)
      PROVE  Apart' /\ \A d \in Callers : Life(d)'
  <2>1. \A v \in Workers : \/ worker'[v] = worker[v]
                           \/ worker[v].item = None /\ worker'[v].item = None
                              /\ worker[v].at # "set" /\ worker'[v].at # "set"
    BY <1>8 DEF FindEmpty, Check, TypeInv, TypeOK, HoldsItem, Doing
  <2> QED
    BY <1>7, <1>8, <2>1 DEF FindEmpty, Check
<1>9. ASSUME (\E b \in BOOLEAN : Dispose(b)) \/ DisposeEnds \/ DisposeGivesUp
      PROVE  Apart' /\ \A d \in Callers : Life(d)'
  BY <1>7, <1>9 DEF Dispose, DisposeEnds, DisposeGivesUp
<1> QED
  BY <1>1, <1>2, <1>3, <1>4, <1>5, <1>6, <1>8, <1>9 DEF Undisturbed

(* A worker is aborted wherever it is. *)
LEMMA ItemsStopped ==
  ASSUME Items, NEW w \in Workers, Abort(w)
  PROVE  Items'
<1>1. worker \in [Workers -> [at : {"poll", "process", "set", "check", "stopped"},
                             item : Callers \cup {None}]]
  BY DEF Items, TypeOK
<1>2. /\ worker'[w] = Doing("stopped", worker[w].item)
      /\ \A v \in Workers : v # w => worker'[v] = worker[v]
      /\ worker' \in [Workers -> [at : {"poll", "process", "set", "check", "stopped"},
                                  item : Callers \cup {None}]]
  <2>1. worker[w] = Doing(worker[w].at, worker[w].item)
    BY <1>1 DEF Doing
  <2>2. [worker[w] EXCEPT !.at = "stopped"] = Doing("stopped", worker[w].item)
    BY <2>1 DEF Doing
  <2>3. worker' = [worker EXCEPT ![w] = Doing("stopped", worker[w].item)]
    BY <2>2 DEF Abort
  <2>4. Doing("stopped", worker[w].item) \in
          [at : {"poll", "process", "set", "check", "stopped"}, item : Callers \cup {None}]
    BY <1>1 DEF Doing
  <2> QED
    BY <1>1, <2>3, <2>4
<1>3. \A v \in Workers : worker'[v].item = worker[v].item
  BY <1>2 DEF Doing
<1>4. queue' = queue /\ caller' = caller /\ item' = item /\ done' = done
  BY DEF Abort
<1>5. TypeOK'
  BY <1>2 DEF Items, TypeOK, Abort
<1>6. Apart'
  BY <1>3, <1>4 DEF Items, Apart
<1>7. HoldsItem'
  BY <1>2 DEF Items, HoldsItem, Doing
<1>8. ASSUME NEW c \in Callers PROVE Life(c)'
  <2>1. (IsQueued(c)' <=> IsQueued(c)) /\ (IsHeld(c)' <=> IsHeld(c))
    BY <1>3, <1>4 DEF IsQueued, IsHeld
  <2>2. IsFinished(c)' => IsFinished(c)
    BY <1>2 DEF IsFinished, Doing
  <2>3. IsFinished(c) => IsFinished(c)' \/ IsGivenUp(c)'
    BY <1>2 DEF IsFinished, IsGivenUp, Doing
  <2>4. IsGivenUp(c) => IsGivenUp(c)'
    BY <1>2 DEF IsGivenUp, Doing
  <2>5. Life(c)
    BY DEF Items
  <2> QED
    BY <1>4, <2>1, <2>2, <2>3, <2>4, <2>5 DEF Life
<1> QED
  BY <1>5, <1>6, <1>7, <1>8 DEF Items

LEMMA ItemsStep == Items /\ [Next]_vars => Items'
<1> SUFFICES ASSUME Items, [Next]_vars PROVE Items'
  OBVIOUS
<1>1. TypeInv /\ TypeInv'
  BY TypeStep DEF Items, TypeInv
<1>2. CASE Next
  <2>1. Undisturbed \/ \E w \in Workers : Abort(w)
    BY <1>2 DEF Next, Undisturbed
  <2>2. CASE Undisturbed
    BY <1>1, <2>2, LifeStep DEF Items, TypeInv
  <2> QED
    BY <2>1, <2>2, ItemsStopped
<1>3. CASE UNCHANGED vars
  <2>1. Apart'
    BY <1>3 DEF Items, vars, Apart
  <2>2. \A c \in Callers : Life(c)'
    BY <1>3 DEF Items, vars, Life, IsQueued, IsHeld, IsFinished, IsGivenUp
  <2> QED
    BY <1>1, <2>1, <2>2 DEF Items, TypeInv
<1> QED
  BY <1>2, <1>3

LEMMA ItemsInit == Init => Items /\ StoppedEmpty /\ AllStopped
<1> SUFFICES ASSUME Init PROVE Items /\ StoppedEmpty /\ AllStopped
  OBVIOUS
<1>1. TypeInv
  BY TypeInit
<1>2. /\ queue = <<>> /\ \A w \in Workers : worker[w] = Doing("poll", None)
      /\ \A c \in Callers : caller[c] = "idle" /\ item[c] = NewItem /\ done[c] = 0
      /\ dispose = "none"
  BY DEF Init
<1>3. \A c \in Callers : ~IsQueued(c) /\ ~IsHeld(c) /\ ~IsFinished(c)
  BY <1>2, QueuedExecutionAssumption DEF IsQueued, IsHeld, IsFinished, Doing
<1>4. Apart /\ AllStopped /\ StoppedEmpty
  BY <1>2 DEF Apart, AllStopped, StoppedEmpty, Doing
<1>5. \A c \in Callers : Life(c)
  BY <1>2, <1>3 DEF Life, NewItem
<1> QED
  BY <1>1, <1>4, <1>5 DEF Items, TypeInv

(* The loop of a worker stops between two items, and Dispose waits for it; an *)
(* abort comes from a Dispose that has not waited and never will.            *)
LEMMA StoppedStep ==
  ASSUME Items, StoppedEmpty, AllStopped, [Next]_vars
  PROVE  StoppedEmpty' /\ AllStopped'
<1>0. worker \in [Workers -> [at : {"poll", "process", "set", "check", "stopped"},
                             item : Callers \cup {None}]]
  BY DEF Items, TypeOK
<1> USE DEF AllStopped, StoppedEmpty
<1>1. ASSUME NEW c \in Callers, Execute(c) \/ Return(c)
      PROVE  StoppedEmpty' /\ AllStopped'
  BY <1>1 DEF Execute, Return
<1>2. ASSUME NEW w \in Workers,
             \/ Dequeue(w) \/ FindEmpty(w) \/ Requeue(w)
             \/ Finish(w) \/ SetEvent(w) \/ Check(w)
      PROVE  StoppedEmpty' /\ AllStopped'
  <2>1. worker[w].at # "stopped" /\ dispose' = dispose
    BY <1>2 DEF Dequeue, FindEmpty, Requeue, Finish, SetEvent, Check
  <2>2. \E at, c : /\ worker' = [worker EXCEPT ![w] = Doing(at, c)]
                   /\ at # "stopped" \/ c = None
    BY <1>2 DEF Dequeue, FindEmpty, Requeue, Finish, SetEvent, Check
  <2> QED
    BY <1>0, <2>1, <2>2 DEF Doing
<1>3. ASSUME NEW b \in BOOLEAN, Dispose(b) PROVE StoppedEmpty' /\ AllStopped'
  BY <1>3 DEF Dispose
<1>4. CASE DisposeEnds \/ DisposeGivesUp
  BY <1>4 DEF DisposeEnds, DisposeGivesUp
<1>5. ASSUME NEW w \in Workers, Abort(w) PROVE StoppedEmpty' /\ AllStopped'
  BY <1>5 DEF Abort
<1>6. CASE UNCHANGED vars
  BY <1>6 DEF vars
<1> QED
  BY <1>1, <1>2, <1>3, <1>4, <1>5, <1>6 DEF Next

LEMMA ItemsAlways == Spec => [](Items /\ StoppedEmpty /\ AllStopped)
<1>1. (Items /\ StoppedEmpty /\ AllStopped) /\ [Next]_vars
        => (Items /\ StoppedEmpty /\ AllStopped)'
  BY ItemsStep, StoppedStep
<1> QED
  BY <1>1, ItemsInit, PTL DEF Spec

-----------------------------------------------------------------------------
(* What the invariant says. *)

LEMMA ItemsApart == Items => InOnePlace
<1> SUFFICES ASSUME Items, NEW c \in Callers, caller[c] = "waiting"
             PROVE  Cardinality(Queued(c)) + Cardinality(Holding(c))
                      + (IF item[c].set THEN 1 ELSE 0) = 1
  BY DEF InOnePlace
<1>1. Apart /\ Life(c) /\ c # None
  BY QueuedExecutionAssumption DEF Items
<1>2. /\ ~IsQueued(c) => Queued(c) = {}
      /\ ~IsHeld(c) => Holding(c) = {}
  BY DEF IsQueued, IsHeld, Queued, Holding
<1>3. IsQueued(c) => \E i : Queued(c) = {i}
  <2> SUFFICES ASSUME NEW i \in 1..Len(queue), queue[i] = c PROVE Queued(c) = {i}
    BY DEF IsQueued
  <2> QED
    BY <1>1 DEF Queued, Apart
<1>4. IsHeld(c) => \E w : Holding(c) = {w}
  BY <1>1 DEF IsHeld, Holding, Apart
<1>5. ~(IsQueued(c) /\ IsHeld(c))
  BY <1>1 DEF IsQueued, IsHeld, Apart
<1>6. /\ Cardinality({}) = 0
      /\ \A x : Cardinality({x}) = 1
  BY FS_EmptySet, FS_Singleton
<1>7. CASE IsQueued(c)
  <2>1. Cardinality(Queued(c)) = 1 /\ Cardinality(Holding(c)) = 0 /\ ~item[c].set
    BY <1>1, <1>2, <1>3, <1>5, <1>6, <1>7 DEF Life
  <2> QED
    BY <2>1
<1>8. CASE IsHeld(c)
  <2>1. Cardinality(Queued(c)) = 0 /\ Cardinality(Holding(c)) = 1 /\ ~item[c].set
    BY <1>1, <1>2, <1>4, <1>5, <1>6, <1>8 DEF Life
  <2> QED
    BY <2>1
<1>9. CASE ~IsQueued(c) /\ ~IsHeld(c)
  <2>1. Cardinality(Queued(c)) = 0 /\ Cardinality(Holding(c)) = 0 /\ item[c].set
    BY <1>1, <1>2, <1>6, <1>9 DEF Life
  <2> QED
    BY <2>1
<1> QED
  BY <1>7, <1>8, <1>9

LEMMA ItemsAnswered == Items => AnswersOwnItem
BY DEF Items, Life, AnswersOwnItem

LEMMA NothingHalf == Items /\ StoppedEmpty /\ AllStopped => DisposeLeavesNothingHalf
<1> SUFFICES ASSUME Items, StoppedEmpty, AllStopped PROVE DisposeLeavesNothingHalf
  OBVIOUS
<1>1. ASSUME dispose = "waited", NEW c \in Callers
      PROVE  Holding(c) = {} /\ (done[c] = 1 => item[c].set)
  <2>1. \A w \in Workers : worker[w].at = "stopped" /\ worker[w].item = None
    BY <1>1 DEF StoppedEmpty, AllStopped
  <2>2. ~IsHeld(c) /\ ~IsFinished(c) /\ ~IsGivenUp(c)
    BY <2>1, QueuedExecutionAssumption DEF IsHeld, IsFinished, IsGivenUp, Doing
  <2> QED
    BY <2>2 DEF Items, Life, Holding, IsHeld
<1> QED
  BY <1>1 DEF DisposeLeavesNothingHalf, StoppedEmpty

(* A waiting caller's item is in one place: the worker loop, whatever it     *)
(* requeues and wherever it stops, neither loses nor doubles an item.        *)
THEOREM NeverLostNorDoubled == Spec => []InOnePlace
BY ItemsAlways, ItemsApart, PTL

(* A caller comes back when its own item was processed to an end, exactly    *)
(* once, and throws exactly when that end was FailThrow.                     *)
THEOREM AnsweredOnce == Spec => []AnswersOwnItem
BY ItemsAlways, ItemsAnswered, PTL

(* Workers stop with an item in hand only when Dispose aborts them, and when *)
(* it has waited for all of them no item was given up halfway.               *)
THEOREM NothingLeftHalf == Spec => []DisposeLeavesNothingHalf
BY ItemsAlways, NothingHalf, PTL

-----------------------------------------------------------------------------
(* The workers at the files.                                                 *)
F == INSTANCE FileAccess_proofs WITH
  Threads <- Workers, Keys <- Files, LockedFiles <- Files, RetryCount <- 0

LEMMA FilesAssumed == F!DictionaryLockAssumption /\ F!FileAccessAssumption
BY QueuedFilesAssumption
   DEF Access!DictionaryLockAssumption, Access!FileAccessAssumption, Access!Locks,
       F!DictionaryLockAssumption, F!FileAccessAssumption, F!Locks, Access!Modes, F!Modes

(* A worker and the call it makes for its item.                              *)
Asks(w, c) ==
  /\ op[w].file = request[c].file
  /\ op[w].mode = request[c].mode
  /\ op[w].value = request[c].value

Served(w) ==
  /\ op[w].at = "idle" => step[w].at = "idle"
  /\ op[w].at # "idle" =>
       /\ OnFiles
       /\ worker[w].at \in {"process", "stopped"} /\ worker[w].item \in Callers
       /\ done[worker[w].item] = 0
       /\ op[w].at \in {"open", "copy", "close", "exit", "failed"}
       /\ Asks(w, worker[w].item)
  /\ op[w].at = "failed" => worker[w].at = "stopped"

(* On files every result is Success.                                         *)
Asked(c) ==
  OnFiles => /\ caller[c] # "threw" /\ item[c].result = "Success"
             /\ caller[c] # "idle" => request[c] \in Requests

FilesOK == F!IInv /\ F!OpShape /\ F!Linked /\ F!FilesInv

ItemsOK == Items /\ StoppedEmpty /\ AllStopped

CallsOK ==
  /\ request = [c \in Callers |-> request[c]]
  /\ output = [c \in Callers |-> output[c]]
  /\ \A c \in Callers : Asked(c)

SystemInv ==
  /\ ItemsOK /\ FilesOK /\ CallsOK
  /\ \A w \in Workers : Served(w)

LEMMA SystemInitInv == SystemInit => SystemInv
<1> SUFFICES ASSUME SystemInit PROVE SystemInv
  OBVIOUS
<1>1. F!AccessInit
  BY DEF SystemInit, Access!AccessInit, F!AccessInit, Access!LockInit, F!LockInit,
         Access!Op, F!Op, Access!Call, F!Call
<1>2. FilesOK
  BY <1>1, FilesAssumed, F!InitIInv, F!LinkedInit, F!InitFiles DEF FilesOK, F!AccessInit
<1>3. ItemsOK
  BY ItemsInit DEF SystemInit, ItemsOK
<1>4. \A w \in Workers : op[w].at = "idle" /\ step[w].at = "idle"
  <2>1. /\ op = [w \in Workers |-> F!Op("idle", None, None, None, 0, <<>>)]
        /\ step \in [Workers -> {F!Call("idle", k, "read", None) : k \in Files}]
    BY <1>1 DEF F!AccessInit, F!LockInit
  <2> QED
    BY <2>1 DEF F!Op, F!Call
<1>5. \A w \in Workers : Served(w)
  BY <1>4 DEF Served
<1>6. CallsOK
  BY DEF SystemInit, Init, CallsOK, Asked, NewItem
<1> QED
  BY <1>2, <1>3, <1>5, <1>6 DEF SystemInv

-----------------------------------------------------------------------------
(* The steps of the system: of the queue, of a worker at its file, of one    *)
(* that is done with it, and the abort of a worker.                          *)

LEMMA SameAccess ==
  ASSUME NEW w \in Workers
  PROVE  /\ Access!TakeLock(w) <=> F!TakeLock(w)
         /\ Access!OpenToSave(w) <=> F!OpenToSave(w)
         /\ Access!OpenToLoad(w) <=> F!OpenToLoad(w)
         /\ Access!LoadMissing(w) <=> F!LoadMissing(w)
         /\ Access!CopySaved(w) <=> F!CopySaved(w)
         /\ Access!CopyLoaded(w) <=> F!CopyLoaded(w)
         /\ Access!Close(w) <=> F!Close(w)
         /\ Access!Exit(w) <=> F!Exit(w)
         /\ \A f, m, v : Access!Begin(w, f, m, v) <=> F!Begin(w, f, m, v)
<1> USE DEF Access!OpAt, F!OpAt, Access!Moved, F!Moved, Access!lockVars, F!lockVars,
            Access!fileVars, F!fileVars, Access!At, F!At, Access!Call, F!Call,
            Access!Op, F!Op, Access!TakesLock, F!TakesLock
<1>1. Access!Acquire(w) <=> F!Acquire(w)
  <2>1. Access!MayEnter(w) <=> F!MayEnter(w)
    BY DEF Access!MayEnter, F!MayEnter, Access!WritersOf, F!WritersOf,
           Access!ReadersOf, F!ReadersOf
  <2> QED
    BY <2>1 DEF Access!Acquire, F!Acquire, Access!Lookup, F!Lookup,
                Access!TakeOperationLock, F!TakeOperationLock, Access!Recheck, F!Recheck,
                Access!CreateLock, F!CreateLock, Access!EnterLock, F!EnterLock
<1>2. Access!TakeLock(w) <=> F!TakeLock(w)
  BY <1>1 DEF Access!TakeLock, F!TakeLock
<1>3. (Access!MayOpen(w) <=> F!MayOpen(w)) /\ (Access!HasLock(w) <=> F!HasLock(w))
  BY DEF Access!MayOpen, F!MayOpen, Access!HandlesOn, F!HandlesOn, Access!HasLock, F!HasLock
<1>4. Access!OpenToSave(w) <=> F!OpenToSave(w)
  BY <1>3 DEF Access!OpenToSave, F!OpenToSave
<1>5. Access!OpenToLoad(w) <=> F!OpenToLoad(w)
  BY <1>3 DEF Access!OpenToLoad, F!OpenToLoad
<1>6. Access!LoadMissing(w) <=> F!LoadMissing(w)
  BY <1>3 DEF Access!LoadMissing, F!LoadMissing
<1>7. Access!CopySaved(w) <=> F!CopySaved(w)
  BY DEF Access!CopySaved, F!CopySaved
<1>8. Access!CopyLoaded(w) <=> F!CopyLoaded(w)
  BY DEF Access!CopyLoaded, F!CopyLoaded
<1>9. Access!Close(w) <=> F!Close(w)
  BY DEF Access!Close, F!Close
<1>10. Access!Exit(w) <=> F!Exit(w)
  BY DEF Access!Exit, F!Exit
<1>11. \A f, m, v : Access!Begin(w, f, m, v) <=> F!Begin(w, f, m, v)
  BY DEF Access!Begin, F!Begin, Access!Enter, F!Enter
<1> QED
  BY <1>2, <1>4, <1>5, <1>6, <1>7, <1>8, <1>9, <1>10, <1>11

(* What a worker does at its file once it has asked for the lock.            *)
AtWork(w) ==
  \/ F!TakeLock(w) \/ F!OpenToSave(w) \/ F!OpenToLoad(w) \/ F!LoadMissing(w)
  \/ F!CopySaved(w) \/ F!CopyLoaded(w) \/ F!Close(w)

(* A step of the queue, and of its callers.                                  *)
QueueStep ==
  \/ \E c \in Callers : Call(c) \/ Back(c)
  \/ \E w \in Workers : Polls(w) \/ AnyResult(w)
  \/ \E waitForFinish \in BOOLEAN : DisposeQueue(waitForFinish)
  \/ DisposeWaits
  \/ DisposeStreams

LEMMA SystemSteps ==
  ASSUME SystemNext
  PROVE  \/ QueueStep
         \/ \E w \in Workers : Start(w)
         \/ \E w \in Workers :
              worker[w].at = "process" /\ AtWork(w) /\ UNCHANGED <<vars, system, callVars>>
         \/ \E w \in Workers : Processed(w)
         \/ \E w \in Workers : Stop(w)
<1>1. ASSUME NEW w \in Workers, (worker[w].at = "process" /\ TakeLock(w)) \/ OnDisk(w)
      PROVE  worker[w].at = "process" /\ AtWork(w) /\ UNCHANGED <<vars, system, callVars>>
  BY <1>1, SameAccess DEF OnDisk, AtWork, TakeLock, OpenToSave, OpenToLoad, LoadMissing,
                      CopySaved, CopyLoaded, Close
<1> QED
  BY <1>1 DEF SystemNext, QueueStep

-----------------------------------------------------------------------------
(* Steps of the queue: they leave the files alone, and the items of workers  *)
(* that are at a file.                                                       *)

LEMMA QueueIsQueue ==
  ASSUME QueueStep
  PROVE  /\ Next \/ DisposeStreams
         /\ UNCHANGED <<system, accessVars>>
<1>1. ASSUME NEW c \in Callers, Call(c) \/ Back(c)
      PROVE  Next /\ UNCHANGED <<system, accessVars>>
  BY <1>1 DEF Call, Back, Next
<1>2. ASSUME NEW w \in Workers, Polls(w) \/ AnyResult(w)
      PROVE  Next /\ UNCHANGED <<system, accessVars>>
  BY <1>2 DEF Polls, AnyResult, Next
<1>3. ASSUME NEW b \in BOOLEAN, DisposeQueue(b)
      PROVE  Next /\ UNCHANGED <<system, accessVars>>
  BY <1>3 DEF DisposeQueue, Next
<1>4. DisposeWaits => Next /\ UNCHANGED <<system, accessVars>>
  BY DEF DisposeWaits, Next
<1>5. DisposeStreams => UNCHANGED <<system, accessVars>>
  BY DEF DisposeStreams, accessVars
<1> QED
  BY <1>1, <1>2, <1>3, <1>4, <1>5 DEF QueueStep

LEMMA FilesUnchanged ==
  ASSUME FilesOK, UNCHANGED accessVars
  PROVE  FilesOK'
<1>1. UNCHANGED F!accessVars /\ UNCHANGED F!lockVars
  BY DEF accessVars, F!accessVars, F!lockVars, F!fileVars
<1>2. F!IInv'
  BY <1>1, FilesAssumed, F!LockStepKeeps DEF FilesOK
<1>3. F!LocksInv
  BY FilesAssumed, F!InsideAlone DEF FilesOK, F!IInv, F!LocksInv
<1>4. (F!OpShape /\ F!Linked)'
  BY <1>1, <1>3, FilesAssumed, F!LinkedStep DEF F!LocksInv
<1>5. F!FilesInv'
  BY <1>1, <1>3, FilesAssumed, F!NextFiles DEF FilesOK
<1> QED
  BY <1>2, <1>4, <1>5 DEF FilesOK

(* The items of workers at a file stay, and what was asked for with them.    *)
LEMMA ServedKept ==
  ASSUME \A w \in Workers : Served(w), UNCHANGED <<system, accessVars>>,
         \A w \in Workers : op[w].at # "idle" =>
           /\ worker'[w] = worker[w]
           /\ request'[worker[w].item] = request[worker[w].item]
           /\ done'[worker[w].item] = done[worker[w].item]
  PROVE  \A w \in Workers : Served(w)'
<1> SUFFICES ASSUME NEW w \in Workers PROVE Served(w)'
  OBVIOUS
<1>1. op' = op /\ step' = step /\ system' = system
  BY DEF accessVars
<1>2. CASE op[w].at = "idle"
  BY <1>1, <1>2 DEF Served
<1>3. CASE op[w].at # "idle"
  BY <1>1, <1>3 DEF Served, Asks, OnFiles
<1> QED
  BY <1>2, <1>3

LEMMA QueueServed ==
  ASSUME SystemInv, QueueStep
  PROVE  \A w \in Workers : Served(w)'
<1>1. UNCHANGED <<system, accessVars>>
  BY QueueIsQueue
<1>2. worker \in [Workers -> [at : {"poll", "process", "set", "check", "stopped"},
                             item : Callers \cup {None}]]
  BY DEF SystemInv, ItemsOK, Items, TypeOK
<1>3. ASSUME NEW c \in Callers, Call(c)
      PROVE  \A w \in Workers : Served(w)'
  <2>1. worker' = worker /\ caller[c] # "waiting"
    BY <1>3 DEF Call, Execute
  <2>2. \A d \in Callers : d # c => request'[d] = request[d] /\ done'[d] = done[d]
    BY <1>3 DEF Call, Execute, SystemInv, CallsOK, ItemsOK, Items, TypeOK
  <2>3. ~IsHeld(c)
    BY <2>1 DEF SystemInv, ItemsOK, Items, Life
  <2>4. \A w \in Workers : op[w].at # "idle" =>
          worker[w].item \in Callers /\ worker[w].item # c
    BY <2>3 DEF SystemInv, Served, IsHeld
  <2> QED
    BY <1>1, <2>1, <2>2, <2>4, ServedKept DEF SystemInv
<1>4. ASSUME UNCHANGED <<worker, request, done>>
      PROVE  \A w \in Workers : Served(w)'
  BY <1>1, <1>4, ServedKept DEF SystemInv
<1>5. ASSUME NEW w \in Workers, Polls(w)
      PROVE  \A v \in Workers : Served(v)'
  <2>1. /\ worker[w].at \in {"poll", "set", "check"} /\ request' = request /\ done' = done
        /\ \A v \in Workers : v # w => worker'[v] = worker[v]
    BY <1>2, <1>5 DEF Polls, Dequeue, FindEmpty, SetEvent, Check, callVars
  <2>2. op[w].at = "idle"
    BY <2>1 DEF SystemInv, Served
  <2> QED
    BY <1>1, <2>1, <2>2, ServedKept DEF SystemInv
<1>6. ASSUME NEW w \in Workers, AnyResult(w)
      PROVE  \A v \in Workers : Served(v)'
  <2>1. \A v \in Workers : op[v].at = "idle"
    BY <1>6 DEF AnyResult, SystemInv, Served
  <2> QED
    BY <1>1, <2>1, ServedKept DEF SystemInv
<1>7. ASSUME \/ \E c \in Callers : Back(c)
             \/ \E b \in BOOLEAN : DisposeQueue(b)
             \/ DisposeWaits \/ DisposeStreams
      PROVE  UNCHANGED <<worker, request, done>>
  BY <1>7 DEF Back, Return, DisposeQueue, Dispose, DisposeWaits, DisposeEnds, DisposeGivesUp,
              DisposeStreams, callVars
<1> QED
  BY <1>3, <1>4, <1>5, <1>6, <1>7 DEF QueueStep

LEMMA QueueCalls ==
  ASSUME SystemInv, QueueStep
  PROVE  CallsOK'
<1>1. /\ caller \in [Callers -> {"idle", "waiting", "returned", "threw"}]
      /\ item \in [Callers -> [result : Outcomes \cup {"Success"}, set : BOOLEAN]]
      /\ worker \in [Workers -> [at : {"poll", "process", "set", "check", "stopped"},
                                 item : Callers \cup {None}]]
  BY DEF SystemInv, ItemsOK, Items, TypeOK
<1>2. system' = system
  BY QueueIsQueue
<1>3. ASSUME NEW c \in Callers, Call(c)
      PROVE  CallsOK'
  <2>1. PICK r \in IF OnFiles THEN Requests ELSE {Request(None, None, None)} :
          request' = [request EXCEPT ![c] = r]
    BY <1>3 DEF Call
  <2>2. /\ output' = [output EXCEPT ![c] = None]
        /\ caller' = [caller EXCEPT ![c] = "waiting"]
        /\ item' = [item EXCEPT ![c] = NewItem]
    BY <1>3 DEF Call, Execute
  <2>3. /\ request' = [d \in Callers |-> request'[d]]
        /\ output' = [d \in Callers |-> output'[d]]
    BY <2>1, <2>2 DEF SystemInv, CallsOK
  <2>4. request'[c] = r /\ \A d \in Callers : d # c => request'[d] = request[d]
    BY <2>1 DEF SystemInv, CallsOK
  <2>5. /\ caller'[c] = "waiting" /\ item'[c].result = "Success"
        /\ \A d \in Callers : d # c => caller'[d] = caller[d] /\ item'[d] = item[d]
    BY <1>1, <2>2 DEF NewItem
  <2>6. \A d \in Callers : Asked(d)'
    BY <1>2, <2>1, <2>4, <2>5 DEF SystemInv, CallsOK, Asked, OnFiles, Requests
  <2> QED
    BY <2>3, <2>6 DEF CallsOK
<1>4. ASSUME UNCHANGED callVars,
             \A d \in Callers : OnFiles => item'[d].result = item[d].result,
             \A d \in Callers : OnFiles => \/ caller'[d] = caller[d]
                                           \/ caller'[d] = "returned" /\ caller[d] # "idle"
      PROVE  CallsOK'
  <2>1. request' = request /\ output' = output
    BY <1>4 DEF callVars
  <2> QED
    BY <1>2, <1>4, <2>1 DEF SystemInv, CallsOK, Asked, OnFiles, Requests
<1>5. ASSUME NEW c \in Callers, Back(c)
      PROVE  CallsOK'
  <2>1. /\ item' = item /\ UNCHANGED callVars /\ caller[c] = "waiting"
        /\ \A d \in Callers : d # c => caller'[d] = caller[d]
        /\ caller'[c] = IF item[c].result = "FailThrow" THEN "threw" ELSE "returned"
    BY <1>1, <1>5 DEF Back, Return
  <2>2. OnFiles => item[c].result = "Success"
    BY DEF SystemInv, CallsOK, Asked
  <2> QED
    BY <1>4, <2>1, <2>2
<1>6. ASSUME NEW w \in Workers, Polls(w)
      PROVE  CallsOK'
  <2>1. UNCHANGED callVars /\ caller' = caller
    BY <1>6 DEF Polls, Dequeue, FindEmpty, SetEvent, Check
  <2>2. \A d \in Callers : item'[d].result = item[d].result
    BY <1>1, <1>6 DEF Polls, Dequeue, FindEmpty, SetEvent, Check
  <2> QED
    BY <1>4, <2>1, <2>2
<1>7. ASSUME NEW w \in Workers, AnyResult(w)
      PROVE  CallsOK'
  BY <1>4, <1>7 DEF AnyResult
<1>8. ASSUME \/ \E b \in BOOLEAN : DisposeQueue(b)
             \/ DisposeWaits \/ DisposeStreams
      PROVE  CallsOK'
  <2>1. UNCHANGED <<item, caller>> /\ UNCHANGED callVars
    BY <1>8 DEF DisposeQueue, Dispose, DisposeWaits, DisposeEnds, DisposeGivesUp, DisposeStreams
  <2> QED
    BY <1>4, <2>1
<1> QED
  BY <1>3, <1>5, <1>6, <1>7, <1>8 DEF QueueStep

LEMMA QueueItems ==
  ASSUME ItemsOK, QueueStep
  PROVE  ItemsOK'
<1>1. CASE Next
  BY <1>1, ItemsStep, StoppedStep DEF ItemsOK
<1>2. CASE DisposeStreams
  <2>1. UNCHANGED <<queue, caller, item, worker, aborted, done>> /\ dispose' = "aborted"
    BY <1>2 DEF DisposeStreams
  <2>2. TypeOK' /\ Apart' /\ HoldsItem'
    BY <2>1 DEF ItemsOK, Items, TypeOK, Apart, HoldsItem
  <2>3. \A c \in Callers : Life(c)'
    BY <2>1 DEF ItemsOK, Items, Life, IsQueued, IsHeld, IsFinished, IsGivenUp
  <2> QED
    BY <2>1, <2>2, <2>3 DEF ItemsOK, Items, StoppedEmpty, AllStopped
<1> QED
  BY <1>1, <1>2, QueueIsQueue

LEMMA QueueKeeps ==
  ASSUME SystemInv, QueueStep
  PROVE  SystemInv'
<1>1. FilesOK'
  BY QueueIsQueue, FilesUnchanged DEF SystemInv
<1> QED
  BY <1>1, QueueItems, QueueServed, QueueCalls DEF SystemInv

-----------------------------------------------------------------------------
(* Steps of one worker at its file.                                          *)

LEMMA LocksOK == FilesOK => F!LocksInv
BY FilesAssumed, F!InsideAlone DEF FilesOK, F!IInv, F!LocksInv

LEMMA AccessKeeps ==
  ASSUME FilesOK, F!AccessNext
  PROVE  FilesOK'
<1>1. F!LocksInv
  BY LocksOK
<1>2. F!IInv'
  BY FilesAssumed, F!StepIsLockStep, F!LockStepKeeps DEF FilesOK
<1>3. (F!OpShape /\ F!Linked)'
  BY <1>1, FilesAssumed, F!LinkedStep DEF F!LocksInv
<1>4. F!FilesInv'
  BY <1>1, FilesAssumed, F!NextFiles DEF FilesOK
<1> QED
  BY <1>2, <1>3, <1>4 DEF FilesOK

LEMMA ItemsUntouched ==
  ASSUME ItemsOK, UNCHANGED vars
  PROVE  ItemsOK'
BY ItemsStep, StoppedStep DEF ItemsOK

LEMMA CallsUntouched ==
  ASSUME CallsOK, UNCHANGED <<vars, system, callVars>>
  PROVE  CallsOK'
BY DEF CallsOK, Asked, OnFiles, Requests, vars, callVars

(* The other workers' calls and locks are left alone.                        *)
LEMMA OthersServed ==
  ASSUME \A v \in Workers : Served(v), NEW w \in Workers, UNCHANGED <<worker, system, request, done>>,
         \A v \in Workers : v # w => op'[v] = op[v] /\ step'[v] = step[v]
  PROVE  \A v \in Workers : v # w => Served(v)'
BY DEF Served, Asks, OnFiles

(* The way through a file: the call of the worker moves on, for the same     *)
(* file and document.                                                        *)
LEMMA WorkMoves ==
  ASSUME FilesOK, NEW w \in Workers, AtWork(w)
  PROVE  /\ \A v \in Workers \ {w} : op'[v] = op[v] /\ step'[v] = step[v]
         /\ op[w].at \in {"open", "copy", "close"}
         /\ op'[w].at \in {"open", "copy", "close", "exit"}
         /\ op'[w].file = op[w].file /\ op'[w].mode = op[w].mode /\ op'[w].value = op[w].value
<1> DEFINE Goal == /\ \A v \in Workers \ {w} : op'[v] = op[v] /\ step'[v] = step[v]
                   /\ op[w].at \in {"open", "copy", "close"}
                   /\ op'[w].at \in {"open", "copy", "close", "exit"}
                   /\ op'[w].file = op[w].file /\ op'[w].mode = op[w].mode
                   /\ op'[w].value = op[w].value
<1>0. F!OpShape /\ F!LockTypeOK
  BY LocksOK DEF F!LocksInv
<1>1. ASSUME F!TakeLock(w) PROVE Goal
  <2>1. op' = op /\ op[w].at = "open"
    BY <1>1 DEF F!TakeLock, F!fileVars, F!OpAt
  <2>2. \A v \in Workers \ {w} : step'[v] = step[v]
    BY <1>0, <1>1, FilesAssumed, F!AcquireKeeps DEF F!TakeLock
  <2> QED
    BY <2>1, <2>2
<1>2. ASSUME NEW a, F!Moved(w, a), step' = step, op[w].at \in {"open", "copy", "close"},
             a \in {"copy", "close", "exit"}
      PROVE  Goal
  BY <1>0, <1>2, FilesAssumed, F!MovedCall
<1>3. ASSUME F!Close(w) PROVE Goal
  <2>1. F!Moved(w, "exit") /\ step' = step /\ op[w].at = "close"
    BY <1>3 DEF F!Close, F!OpAt, F!lockVars
  <2> QED
    BY <1>2, <2>1
<1>4. ASSUME NEW a, NEW tries, NEW got, step' = step,
             op[w].at \in {"open", "copy", "close"}, a \in {"copy", "close", "exit"},
             op' = [op EXCEPT ![w] = F!Op(a, op[w].file, op[w].mode, op[w].value, tries, got)]
      PROVE  Goal
  <2>1. /\ \A v \in Workers \ {w} : op'[v] = op[v]
        /\ op'[w] = F!Op(a, op[w].file, op[w].mode, op[w].value, tries, got)
    BY <1>0, <1>4 DEF F!OpShape
  <2> QED
    BY <1>4, <2>1 DEF F!Op
<1>5. ASSUME F!OpenToSave(w) PROVE Goal
  <2>1. /\ step' = step /\ op[w].at = "open"
        /\ op' = [op EXCEPT ![w] = F!Op("copy", op[w].file, op[w].mode, op[w].value,
                                        0, content[op[w].file])]
    BY <1>5 DEF F!OpenToSave, F!OpAt, F!lockVars
  <2> QED
    BY <1>4, <2>1
<1>6. ASSUME F!OpenToLoad(w) PROVE Goal
  <2>1. /\ step' = step /\ op[w].at = "open"
        /\ op' = [op EXCEPT ![w] = F!Op("copy", op[w].file, op[w].mode, op[w].value,
                                        0, op[w].got)]
    BY <1>6 DEF F!OpenToLoad, F!OpAt, F!lockVars
  <2> QED
    BY <1>4, <2>1
<1>7. ASSUME F!LoadMissing(w) PROVE Goal
  <2>1. /\ step' = step /\ op[w].at = "open"
        /\ op' = [op EXCEPT ![w] = F!Op("exit", op[w].file, op[w].mode, op[w].value,
                                        0, None)]
    BY <1>7 DEF F!LoadMissing, F!OpAt, F!lockVars
  <2> QED
    BY <1>4, <2>1
<1>8. ASSUME F!CopySaved(w) PROVE Goal
  <2>1. /\ step' = step /\ op[w].at = "copy"
        /\ \/ op' = op
           \/ op' = [op EXCEPT ![w] = F!Op("close", op[w].file, op[w].mode, op[w].value,
                                           op[w].tries, <<>>)]
    BY <1>8 DEF F!CopySaved, F!OpAt, F!lockVars
  <2>2. CASE op' = op
    BY <2>1, <2>2
  <2> QED
    BY <1>4, <2>1, <2>2
<1>9. ASSUME F!CopyLoaded(w) PROVE Goal
  <2>1. PICK at, got :
          /\ op' = [op EXCEPT ![w] = F!Op(at, op[w].file, op[w].mode, op[w].value,
                                          op[w].tries, got)]
          /\ at \in {"copy", "close"}
    BY <1>9, FilesAssumed, F!ChunkLoaded DEF FilesOK
  <2>2. step' = step /\ op[w].at = "copy"
    BY <1>9 DEF F!CopyLoaded, F!OpAt, F!lockVars
  <2> QED
    BY <1>4, <2>1, <2>2
<1> QED
  BY <1>1, <1>3, <1>5, <1>6, <1>7, <1>8, <1>9 DEF AtWork

LEMMA WorkIsAccess ==
  ASSUME NEW w \in Workers, AtWork(w)
  PROVE  F!AccessNext
BY DEF AtWork, F!AccessNext, F!Proceed

LEMMA WorkKeeps ==
  ASSUME SystemInv, NEW w \in Workers, AtWork(w), UNCHANGED <<vars, system, callVars>>
  PROVE  SystemInv'
<1>1. FilesOK' /\ ItemsOK' /\ CallsOK'
  BY WorkIsAccess, AccessKeeps, ItemsUntouched, CallsUntouched DEF SystemInv
<1>2. worker' = worker /\ system' = system /\ request' = request /\ done' = done
  BY DEF vars, callVars
<1>3. /\ \A v \in Workers \ {w} : op'[v] = op[v] /\ step'[v] = step[v]
      /\ op[w].at \in {"open", "copy", "close"}
      /\ op'[w].at \in {"open", "copy", "close", "exit"}
      /\ op'[w].file = op[w].file /\ op'[w].mode = op[w].mode /\ op'[w].value = op[w].value
  BY WorkMoves DEF SystemInv
<1>4. \A v \in Workers : v # w => Served(v)'
  BY <1>2, <1>3, OthersServed DEF SystemInv
<1>5. Served(w)'
  BY <1>2, <1>3 DEF SystemInv, Served, Asks, OnFiles
<1> QED
  BY <1>1, <1>4, <1>5 DEF SystemInv

(* A worker that takes an item to a file has nothing else to do.             *)
LEMMA Starts ==
  ASSUME SystemInv, NEW w \in Workers, Start(w)
  PROVE  \E c \in Callers :
           /\ worker[w] = Doing("process", c) /\ caller[c] = "waiting" /\ done[c] = 0
           /\ request[c] \in Requests
           /\ F!Begin(w, request[c].file, request[c].mode, request[c].value)
           /\ OnFiles /\ op[w].at = "idle" /\ UNCHANGED <<vars, system, callVars>>
<1>1. worker[w].at = "process" /\ worker[w].item \in Callers
  BY DEF Start, SystemInv, ItemsOK, Items, TypeOK, HoldsItem
<1>2. PICK c \in Callers : c = worker[w].item
  BY <1>1
<1>3. worker[w] = Doing("process", c)
  BY <1>1, <1>2 DEF SystemInv, ItemsOK, Items, TypeOK, Doing
<1>4. IsHeld(c) /\ ~IsFinished(c) /\ ~IsGivenUp(c)
  BY <1>1, <1>2, QueuedExecutionAssumption
     DEF IsHeld, IsFinished, IsGivenUp, SystemInv, ItemsOK, Items, Apart, Doing
<1>5. caller[c] = "waiting" /\ done[c] = 0
  BY <1>4 DEF SystemInv, ItemsOK, Items, Life
<1>6. request[c] \in Requests
  BY <1>5 DEF Start, SystemInv, CallsOK, Asked
<1>7. F!Begin(w, request[c].file, request[c].mode, request[c].value)
  BY <1>2, SameAccess DEF Start
<1> QED
  BY <1>3, <1>5, <1>6, <1>7 DEF Start

LEMMA StartKeeps ==
  ASSUME SystemInv, NEW w \in Workers, Start(w)
  PROVE  SystemInv'
<1>1. PICK c \in Callers :
        /\ worker[w] = Doing("process", c) /\ caller[c] = "waiting" /\ done[c] = 0
        /\ request[c] \in Requests
        /\ F!Begin(w, request[c].file, request[c].mode, request[c].value)
        /\ OnFiles /\ op[w].at = "idle" /\ UNCHANGED <<vars, system, callVars>>
  BY Starts
<1>2. F!AccessNext
  BY <1>1 DEF Requests, Request, F!AccessNext
<1>3. FilesOK' /\ ItemsOK' /\ CallsOK'
  BY <1>1, <1>2, AccessKeeps, ItemsUntouched, CallsUntouched DEF SystemInv
<1>4. worker' = worker /\ system' = system /\ request' = request /\ done' = done
  BY <1>1 DEF vars, callVars
<1>5. /\ \A v \in Workers \ {w} : op'[v] = op[v]
      /\ op'[w] = F!Op("open", request[c].file, request[c].mode, request[c].value, 0, <<>>)
  BY <1>1 DEF F!Begin, SystemInv, FilesOK, F!OpShape
<1>6. \A v \in Workers \ {w} : step'[v] = step[v]
  BY <1>1, LocksOK DEF F!Begin, F!Enter, F!lockVars, F!LocksInv, F!LockTypeOK, SystemInv
<1>7. \A v \in Workers : v # w => Served(v)'
  BY <1>4, <1>5, <1>6, OthersServed DEF SystemInv
<1>8. Served(w)'
  BY <1>1, <1>4, <1>5 DEF Served, Asks, OnFiles, Doing, F!Op
<1> QED
  BY <1>3, <1>7, <1>8 DEF SystemInv

(* The exit of the lock finds the lock that was entered.                     *)
LEMMA ExitIsIdle ==
  ASSUME FilesOK, NEW w \in Workers, F!Exit(w)
  PROVE  /\ step'[w].at = "idle"
         /\ \A v \in Workers \ {w} : step'[v] = step[v]
         /\ F!IInv'
<1>1. /\ step = [v \in Workers |-> step[v]]
      /\ locks[step[w].key] = step[w].lock
  BY DEF FilesOK, F!IInv, F!LockTypeOK, F!LocksFromDictionary, F!Exit
<1>2. /\ step' = [step EXCEPT ![w] = F!Call("idle", step[w].key, "read", None)]
  BY <1>1 DEF F!Exit
<1>3. F!IInv'
  BY FilesAssumed, F!StepKeeps DEF FilesOK
<1> QED
  BY <1>1, <1>2, <1>3 DEF F!Call

(* A worker that is done with its file, and with its item.                   *)
LEMMA Processes ==
  ASSUME SystemInv, NEW w \in Workers, Processed(w)
  PROVE  \E c \in Callers :
           /\ worker[w] = Doing("process", c) /\ worker' = [worker EXCEPT ![w] = Doing("set", c)]
           /\ caller[c] = "waiting" /\ caller' = caller /\ done[c] = 0
           /\ done' = [done EXCEPT ![c] = 1]
           /\ item' = [item EXCEPT ![c].result = "Success"]
           /\ output' = [output EXCEPT ![c] = IF op[w].mode = "read" THEN op[w].got ELSE None]
           /\ op[w].at = "exit" /\ Asks(w, c) /\ request[c] \in Requests
           /\ op' = [op EXCEPT ![w] = NoCall] /\ F!Exit(w)
           /\ OnFiles /\ UNCHANGED <<system, request, content>>
           /\ dispose' = dispose
<1>1. worker[w].at = "process" /\ worker[w].item \in Callers
  BY DEF Processed, Finish, SystemInv, ItemsOK, Items, TypeOK, HoldsItem
<1>2. PICK c \in Callers : c = worker[w].item
  BY <1>1
<1>3. worker[w] = Doing("process", c)
  BY <1>1, <1>2 DEF SystemInv, ItemsOK, Items, TypeOK, Doing
<1>4. IsHeld(c) /\ ~IsFinished(c) /\ ~IsGivenUp(c)
  BY <1>1, <1>2, QueuedExecutionAssumption
     DEF IsHeld, IsFinished, IsGivenUp, SystemInv, ItemsOK, Items, Apart, Doing
<1>5. caller[c] = "waiting" /\ done[c] = 0
  BY <1>4 DEF SystemInv, ItemsOK, Items, Life
<1>6. request[c] \in Requests /\ OnFiles
  BY <1>5 DEF Processed, SystemInv, CallsOK, Asked
<1>7. op[w].at = "exit" /\ Asks(w, c)
  BY <1>2 DEF Processed, Served, SystemInv
<1>8. F!Exit(w)
  BY SameAccess DEF Processed
<1>9. item' = [item EXCEPT ![c].result = "Success"]
  <2>1. PICK r \in Outcomes \ {"FailRequeue"} : item' = [item EXCEPT ![c].result = r]
    BY <1>2 DEF Processed, Finish
  <2>2. item \in [Callers -> [result : Outcomes \cup {"Success"}, set : BOOLEAN]]
    BY DEF SystemInv, ItemsOK, Items, TypeOK
  <2>3. item'[c].result = r
    BY <2>1, <2>2
  <2>4. item'[c].result = "Success"
    BY <1>2 DEF Processed
  <2> QED
    BY <2>1, <2>3, <2>4
<1>10. done' = [done EXCEPT ![c] = 1]
  BY <1>2, <1>5 DEF Processed, Finish
<1> QED
  BY <1>2, <1>3, <1>5, <1>6, <1>7, <1>8, <1>9, <1>10 DEF Processed, Finish

LEMMA ProcessedKeeps ==
  ASSUME SystemInv, NEW w \in Workers, Processed(w)
  PROVE  SystemInv'
<1>1. PICK c \in Callers :
           /\ worker[w] = Doing("process", c) /\ worker' = [worker EXCEPT ![w] = Doing("set", c)]
           /\ caller[c] = "waiting" /\ caller' = caller /\ done[c] = 0
           /\ done' = [done EXCEPT ![c] = 1]
           /\ item' = [item EXCEPT ![c].result = "Success"]
           /\ output' = [output EXCEPT ![c] = IF op[w].mode = "read" THEN op[w].got ELSE None]
           /\ op[w].at = "exit" /\ Asks(w, c) /\ request[c] \in Requests
           /\ op' = [op EXCEPT ![w] = NoCall] /\ F!Exit(w)
           /\ OnFiles /\ UNCHANGED <<system, request, content>>
           /\ dispose' = dispose
  BY Processes
<1>2. /\ step'[w].at = "idle" /\ F!IInv'
      /\ \A v \in Workers \ {w} : step'[v] = step[v]
  BY <1>1, ExitIsIdle DEF SystemInv
<1>3. /\ \A v \in Workers \ {w} : op'[v] = op[v]
      /\ op'[w] = F!Op("idle", None, None, None, 0, <<>>)
  BY <1>1 DEF SystemInv, FilesOK, F!OpShape, NoCall, Access!Op, F!Op
<1>4. op'[w].at = "idle" /\ op'[w].mode = None
  BY <1>3 DEF F!Op
<1>5. F!OpShape'
  <2>1. \A v \in Workers :
          op'[v] = F!Op(op'[v].at, op'[v].file, op'[v].mode, op'[v].value,
                        op'[v].tries, op'[v].got)
    BY <1>3 DEF SystemInv, FilesOK, F!OpShape, F!Op
  <2>2. op' = [v \in Workers |-> op'[v]]
    BY <1>1 DEF SystemInv, FilesOK, F!OpShape
  <2> QED
    BY <2>1, <2>2 DEF F!OpShape
<1>6. F!Linked'
  BY <1>2, <1>3, <1>4, FilesAssumed, F!OneThread DEF SystemInv, FilesOK
<1>7. F!FilesInv'
  <2>1. F!CallFits(op'[w], content)
    BY <1>3, <1>4 DEF F!CallFits
  <2>2. ~F!Handle(op'[w]) /\ ~F!Unfinished(op[w]) /\ F!Barred(op'[w], step'[w])
    BY <1>1, <1>4 DEF F!Handle, F!Unfinished, F!Barred
  <2>3. content' = content
    BY <1>1
  <2> QED
    BY <1>2, <1>3, <2>1, <2>2, <2>3, FilesAssumed, F!QuietStep DEF SystemInv, FilesOK
<1>8. FilesOK'
  BY <1>2, <1>5, <1>6, <1>7 DEF FilesOK
<1>9. ItemsOK'
  <2>1. Next
    BY DEF Processed, Next
  <2> QED
    BY <2>1, ItemsStep, StoppedStep DEF SystemInv, ItemsOK
<1>10. CallsOK'
  <2>1. \A d \in Callers : item'[d].result = item[d].result \/ item'[d].result = "Success"
    BY <1>1 DEF SystemInv, ItemsOK, Items, TypeOK
  <2>2. \A d \in Callers : Asked(d)'
    BY <1>1, <2>1 DEF SystemInv, CallsOK, Asked, OnFiles, Requests
  <2> QED
    BY <1>1, <2>2 DEF SystemInv, CallsOK
<1>11. \A v \in Workers : v # w => Served(v)'
  <2>1. \A v \in Workers : v # w => worker'[v] = worker[v]
    BY <1>1 DEF SystemInv, ItemsOK, Items, TypeOK
  <2>2. ASSUME NEW v \in Workers, v # w PROVE Served(v)'
    <3>1. op'[v] = op[v] /\ step'[v] = step[v] /\ worker'[v] = worker[v]
      BY <1>2, <1>3, <2>1, <2>2
    <3>2. worker[v].item # c
      BY <1>1, <2>2, QueuedExecutionAssumption DEF SystemInv, ItemsOK, Items, Apart, Doing
    <3>3. \A d \in Callers : d # c => done'[d] = done[d]
      BY <1>1 DEF SystemInv, ItemsOK, Items, TypeOK
    <3> QED
      BY <1>1, <3>1, <3>2, <3>3 DEF SystemInv, Served, Asks, OnFiles
  <2> QED
    BY <2>2
<1>12. Served(w)'
  BY <1>2, <1>4 DEF Served
<1> QED
  BY <1>8, <1>9, <1>10, <1>11, <1>12 DEF SystemInv

-----------------------------------------------------------------------------
(* The abort of a worker: an open file is closed as it is, its lock stays.   *)
LEMMA Aborted ==
  ASSUME SystemInv, NEW w \in Workers, Stop(w)
  PROVE  /\ Abort(w) /\ UNCHANGED <<system, callVars, step, content>>
         /\ \A v \in Workers \ {w} : op'[v] = op[v]
         /\ op'[w].file = op[w].file /\ op'[w].mode = op[w].mode /\ op'[w].value = op[w].value
         /\ op'[w].got = op[w].got
         /\ op'[w].at = CASE op[w].at = "copy"  -> "failed"
                          [] op[w].at = "close" -> "exit"
                          [] OTHER              -> op[w].at
         /\ op[w].at \notin {"copy", "close"} => op'[w] = op[w]
         /\ F!OpShape' /\ UNCHANGED F!lockVars
<1> DEFINE a == CASE op[w].at = "copy"  -> "failed"
                  [] op[w].at = "close" -> "exit"
                  [] OTHER              -> op[w].at
<1>1. op' = [op EXCEPT ![w].at = a]
  BY DEF Stop
<1>2. F!OpShape
  BY DEF SystemInv, FilesOK
<1>3. op[w].at \notin {"copy", "close"} => a = op[w].at
  OBVIOUS
<1>4. Abort(w) /\ UNCHANGED <<system, callVars, step, content>> /\ UNCHANGED F!lockVars
  BY DEF Stop, F!lockVars
<1> HIDE DEF a
<1>5. F!Moved(w, a)
  BY <1>1 DEF F!Moved
<1>6. op' = [op EXCEPT ![w] = F!Op(a, op[w].file, op[w].mode, op[w].value,
                                   op[w].tries, op[w].got)]
  BY <1>1, <1>2, FilesAssumed, F!Shape
<1>7. F!OpShape'
  BY <1>2, <1>6 DEF F!OpShape, F!Op
<1>8. op[w].at \notin {"copy", "close"} => op'[w] = op[w]
  BY <1>2, <1>3, <1>6 DEF F!OpShape
<1>9. /\ \A v \in Workers \ {w} : op'[v] = op[v]
      /\ op'[w].at = a /\ op'[w].file = op[w].file /\ op'[w].mode = op[w].mode
      /\ op'[w].value = op[w].value /\ op'[w].got = op[w].got
  BY <1>2, <1>5, FilesAssumed, F!MovedCall
<1> QED
  BY <1>4, <1>7, <1>8, <1>9 DEF a

LEMMA AbortKeeps ==
  ASSUME SystemInv, NEW w \in Workers, Stop(w)
  PROVE  SystemInv'
<1>1. /\ Abort(w) /\ UNCHANGED <<system, callVars, step, content>>
      /\ \A v \in Workers \ {w} : op'[v] = op[v]
      /\ op'[w].file = op[w].file /\ op'[w].mode = op[w].mode /\ op'[w].value = op[w].value
      /\ op'[w].got = op[w].got
      /\ op'[w].at = CASE op[w].at = "copy"  -> "failed"
                       [] op[w].at = "close" -> "exit"
                       [] OTHER              -> op[w].at
      /\ op[w].at \notin {"copy", "close"} => op'[w] = op[w]
      /\ F!OpShape' /\ UNCHANGED F!lockVars
  BY Aborted
<1>2. ItemsOK'
  BY <1>1, ItemsStep, StoppedStep DEF SystemInv, ItemsOK, Next
<1>3. /\ worker'[w].at = "stopped" /\ worker'[w].item = worker[w].item
      /\ \A v \in Workers : v # w => worker'[v] = worker[v]
      /\ UNCHANGED <<caller, item, done, request, output, system, step, content>>
  BY <1>1 DEF Abort, SystemInv, ItemsOK, Items, TypeOK, callVars
<1>4. CallsOK'
  BY <1>3 DEF SystemInv, CallsOK, Asked, OnFiles, Requests
<1>5. \A v \in Workers : v # w => Served(v)'
  <2>1. ASSUME NEW v \in Workers, v # w PROVE Served(v)'
    <3>1. op'[v] = op[v] /\ worker'[v] = worker[v]
      BY <1>1, <1>3, <2>1
    <3> QED
      BY <1>3, <3>1 DEF SystemInv, Served, Asks, OnFiles
  <2> QED
    BY <2>1
<1>6. Served(w)'
  BY <1>1, <1>3 DEF SystemInv, Served, Asks, OnFiles
<1>7. F!IInv'
  BY <1>1, FilesAssumed, F!LockStepKeeps DEF SystemInv, FilesOK
<1>8. op[w].at \in {"copy", "close"} =>
        /\ step[w].key = op[w].file /\ step[w].mode = op[w].mode /\ step[w].at = "inside"
        /\ op[w].file \in Files
  BY DEF SystemInv, FilesOK, F!Linked, F!TakesLock, F!At, F!FilesInv, F!CallsFit, F!CallFits
<1>9. F!Linked'
  <2>1. CASE op[w].at \in {"copy", "close"}
    BY <1>1, <1>8, <2>1, FilesAssumed, F!OneThread DEF SystemInv, FilesOK
  <2>2. CASE op[w].at \notin {"copy", "close"}
    <3>1. op'[w] = op[w] /\ step' = step
      BY <1>1, <2>2
    <3> QED
      BY <1>1, <3>1 DEF SystemInv, FilesOK, F!Linked, F!TakesLock, F!At
  <2> QED
    BY <2>1, <2>2
<1>10. F!FilesInv'
  <2>0. F!CallFits(op[w], content) /\ F!Barred(op[w], step[w]) /\ F!FilesInv
    BY DEF SystemInv, FilesOK, F!FilesInv, F!CallsFit, F!FailedHolds
  <2>1. (\A v \in Workers \ {w} : op'[v] = op[v] /\ step'[v] = step[v]) /\ content' = content
    BY <1>1
  <2>2. ASSUME F!CallFits(op'[w], content), F!Barred(op'[w], step'[w]),
               F!Handle(op'[w]) => op'[w] = op[w],
               F!Unfinished(op[w]) => F!Unfinished(op'[w])
        PROVE  F!FilesInv'
    BY <1>1, <2>0, <2>1, <2>2, FilesAssumed, F!QuietStep
  <2>3. CASE op[w].at = "copy"
    <3>1. op'[w].at = "failed" /\ op[w].file \in Files
      BY <1>1, <1>8, <2>3
    <3>2. op[w].mode = "write" => content[op[w].file] # None
      <4> SUFFICES ASSUME op[w].mode = "write" PROVE content[op[w].file] # None
        OBVIOUS
      <4>1. PICK k \in 0..(DocLength - 1) : content[op[w].file] = F!Part(op[w].value, k)
        BY <2>0, <2>3 DEF F!CallFits
      <4>2. k \in 0..DocLength /\ op[w].value \in Values
        BY <2>0, <2>3, FilesAssumed DEF F!CallFits, F!FileAccessAssumption
      <4>3. \A v \in Values, n \in 0..DocLength : F!Part(v, n) # None
        BY FilesAssumed, F!Parts
      <4> QED
        BY <4>1, <4>2, <4>3
    <3>3. F!CallFits(op'[w], content)
      BY <1>1, <2>0, <2>3, <3>1, <3>2 DEF F!CallFits
    <3>4. F!Barred(op'[w], step'[w])
      BY <1>1, <1>3, <1>8, <2>3 DEF F!Barred
    <3> QED
      BY <1>1, <2>2, <3>1, <3>3, <3>4 DEF F!Handle, F!Unfinished
  <2>4. CASE op[w].at = "close"
    <3>1. op'[w].at = "exit"
      BY <1>1, <2>4
    <3>2. F!CallFits(op'[w], content)
      BY <1>1, <2>0, <2>4, <3>1 DEF F!CallFits
    <3> QED
      BY <2>2, <2>4, <3>1, <3>2 DEF F!Handle, F!Unfinished, F!Barred
  <2>5. CASE op[w].at \notin {"copy", "close"}
    BY <1>1, <1>3, <2>0, <2>2, <2>5
  <2> QED
    BY <2>3, <2>4, <2>5
<1> QED
  BY <1>1, <1>2, <1>4, <1>5, <1>6, <1>7, <1>9, <1>10 DEF SystemInv, FilesOK

-----------------------------------------------------------------------------
LEMMA SystemKeeps == SystemInv /\ [SystemNext]_allVars => SystemInv'
<1> SUFFICES ASSUME SystemInv, [SystemNext]_allVars PROVE SystemInv'
  OBVIOUS
<1>1. CASE SystemNext
  BY <1>1, SystemSteps, QueueKeeps, WorkKeeps, StartKeeps, ProcessedKeeps, AbortKeeps
<1>2. CASE UNCHANGED allVars
  <2>1. UNCHANGED <<vars, system, callVars>> /\ UNCHANGED accessVars
    BY <1>2 DEF allVars
  <2>2. FilesOK' /\ ItemsOK' /\ CallsOK'
    BY <2>1, FilesUnchanged, ItemsUntouched, CallsUntouched DEF SystemInv
  <2>3. \A w \in Workers : Served(w)'
    BY <2>1, ServedKept DEF SystemInv, vars, callVars
  <2> QED
    BY <2>2, <2>3 DEF SystemInv
<1> QED
  BY <1>1, <1>2

LEMMA SystemAlways == SystemSpec => []SystemInv
BY SystemInitInv, SystemKeeps, PTL DEF SystemSpec

(* An item that is waited for is in one place, also when workers are aborted *)
(* in the middle of a file: an aborted worker keeps what it has.             *)
THEOREM ItemsInOnePlace == SystemSpec => []InOnePlace
<1>1. SystemInv => InOnePlace
  BY ItemsApart DEF SystemInv, ItemsOK
<1> QED
  BY <1>1, SystemAlways, PTL

(* SaveStream and LoadStream come back when their own item was processed.    *)
THEOREM CallersAnswered == SystemSpec => []AnswersOwnItem
<1>1. SystemInv => AnswersOwnItem
  BY ItemsAnswered DEF SystemInv, ItemsOK
<1> QED
  BY <1>1, SystemAlways, PTL

(* Also at the files no item is given up halfway unless Dispose aborts.      *)
THEOREM DisposeLeavesNoItemHalf == SystemSpec => []DisposeLeavesNothingHalf
<1>1. SystemInv => DisposeLeavesNothingHalf
  BY NothingHalf DEF SystemInv, ItemsOK
<1> QED
  BY <1>1, SystemAlways, PTL

(* A worker that stops by itself is between two items: it is at no file and  *)
(* holds no lock; and when Dispose has waited for all of them, no file is    *)
(* half written.                                                             *)
THEOREM FilesWholeAfterDispose == SystemSpec => []DisposeLeavesFilesWhole
<1>1. SystemInv => DisposeLeavesFilesWhole
  <2> SUFFICES ASSUME SystemInv PROVE DisposeLeavesFilesWhole
    OBVIOUS
  <2>1. ASSUME NEW w \in Workers, worker[w].at = "stopped", dispose # "aborted"
        PROVE  op[w].at = "idle" /\ step[w].at = "idle"
    <3>1. worker[w].item \notin Callers
      BY <2>1, QueuedExecutionAssumption DEF SystemInv, ItemsOK, StoppedEmpty
    <3> QED
      BY <3>1 DEF SystemInv, Served
  <2>2. ASSUME dispose = "waited", NEW f \in Files, content[f] # None
        PROVE  \E v \in Values : content[f] = Access!Document(v)
    <3>1. \A w \in Workers : op[w].at = "idle"
      BY <2>1, <2>2 DEF SystemInv, ItemsOK, AllStopped
    <3>2. \A w \in Workers : ~F!Writing(op[w], f)
      BY <3>1 DEF F!Writing, F!Unfinished
    <3>3. F!Saved(f, content[f])
      BY <2>2, <3>2 DEF SystemInv, FilesOK, F!FilesInv, F!Settled
    <3> QED
      BY <2>2, <3>3 DEF F!Saved, F!Part, Access!Document, Access!Part
  <2> QED
    BY <2>1, <2>2 DEF DisposeLeavesFilesWhole
<1> QED
  BY <1>1, SystemAlways, PTL

-----------------------------------------------------------------------------
(* Saves and loads through the queue are atomic to their callers: a caller's *)
(* call is that of the worker at its file, as FileAccess shows it, or the    *)
(* request that waits for one or was aborted with one, or its answer.        *)

AnswerIn(r, out) == IF r.mode = "write" THEN r.value ELSE out

CallOff(place, n, r, out) ==
  [at |-> IF place # "waiting" THEN place ELSE IF n = 1 THEN "done" ELSE "called",
   file |-> r.file, mode |-> r.mode,
   value |-> IF n = 1 THEN AnswerIn(r, out) ELSE r.value]

LEMMA ValueSeen ==
  /\ \A f : Access!ValueOf(f) = F!ValueIn(content, op, f)
  /\ \A f : Access!ValueOf(f)' = F!ValueIn(content', op', f)
<1>1. ASSUME NEW f PROVE Access!ValueOf(f) = F!ValueIn(content, op, f)
  <2>1. Access!SavesOf(f) = F!Writers(op, f)
    BY DEF F!Writers, F!Writing, F!Unfinished, Access!SavesOf, Access!OpAt, Access!TakesLock
  <2> QED
    BY <2>1 DEF F!ValueIn, F!Some, Access!ValueOf
<1>2. ASSUME NEW f PROVE Access!ValueOf(f)' = F!ValueIn(content', op', f)
  <2>1. Access!SavesOf(f)' = F!Writers(op', f)
    BY DEF F!Writers, F!Writing, F!Unfinished, Access!SavesOf, Access!OpAt, Access!TakesLock
  <2> QED
    BY <2>1 DEF F!ValueIn, F!Some, Access!ValueOf
<1> QED
  BY <1>1, <1>2

(* The worker that is at the file of a caller, or none is.                   *)
Busy(o) == o.at \notin {"idle", "failed"}

Only(w, c) ==
  worker[w].item = c /\ Busy(op[w]) /\ \A v \in Workers : worker[v].item = c => v = w

OffFile(c) == \A w \in Workers : worker[w].item = c => ~Busy(op[w])

SeenAt ==
  \A c \in Callers, w \in Workers : Only(w, c) => CallerCall(c) = F!CallIn(op[w])

LEMMA SeenAtNow == SeenAt
<1> SUFFICES ASSUME NEW c \in Callers, NEW w \in Workers, Only(w, c)
             PROVE  CallerCall(c) = F!CallIn(op[w])
  BY DEF SeenAt
<1>1. (CHOOSE v \in {w} : TRUE) = w
  OBVIOUS
<1>2. At(c) = {w}
  BY DEF At, Only, Busy
<1>3. CallerCall(c) = Access!CallOf(w)
  BY <1>1, <1>2 DEF CallerCall
<1> QED
  BY <1>3 DEF Access!CallOf, F!CallIn, F!PlaceOf, F!DataOf, Access!OpAt

LEMMA SeenAtNext == SeenAt'
BY SeenAtNow, PTL

LEMMA SeenAtFile ==
  ASSUME NEW c \in Callers, NEW w \in Workers
  PROVE  /\ Only(w, c) => CallerCall(c) = F!CallIn(op[w])
         /\ Only(w, c)' => CallerCall(c)' = F!CallIn(op'[w])
BY SeenAtNow, SeenAtNext DEF SeenAt

LEMMA SeenOffFile ==
  ASSUME NEW c
  PROVE  /\ OffFile(c) =>
              CallerCall(c) = CallOff(caller[c], done[c], request[c], output[c])
         /\ OffFile(c)' =>
              CallerCall(c)' = CallOff(caller'[c], done'[c], request'[c], output'[c])
<1>1. OffFile(c) => At(c) = {}
  BY DEF OffFile, At, Busy
<1>2. OffFile(c)' => At(c)' = {}
  BY DEF OffFile, At, Busy
<1> QED
  BY <1>1, <1>2 DEF CallerCall, CallOff, Answer, AnswerIn

LEMMA AtOrOff ==
  ASSUME SystemInv, NEW c \in Callers
  PROVE  OffFile(c) \/ \E w \in Workers : Only(w, c)
BY QueuedExecutionAssumption DEF OffFile, Only, SystemInv, ItemsOK, Items, Apart

(* A caller that sees nothing of a step.                                     *)
LEMMA CallerSame ==
  ASSUME SystemInv, SystemInv', NEW c \in Callers,
         \A v \in Workers : (worker[v].item = c /\ Busy(op[v]))
                              <=> (worker'[v].item = c /\ Busy(op'[v])),
         \A v \in Workers : worker[v].item = c /\ Busy(op[v]) =>
           F!CallIn(op'[v]) = F!CallIn(op[v]),
         /\ caller'[c] = caller[c] /\ done'[c] = done[c]
         /\ request'[c] = request[c] /\ output'[c] = output[c]
  PROVE  CallerCall(c)' = CallerCall(c)
<1>1. CASE OffFile(c)
  <2>1. OffFile(c)'
    BY <1>1 DEF OffFile
  <2> QED
    BY <1>1, <2>1, SeenOffFile
<1>2. ASSUME NEW w \in Workers, Only(w, c) PROVE CallerCall(c)' = CallerCall(c)
  <2>1. worker'[w].item = c /\ Busy(op'[w])
    BY <1>2 DEF Only
  <2>2. \A v \in Workers : worker'[v].item = c => v = w
    BY <2>1, QueuedExecutionAssumption DEF SystemInv, ItemsOK, Items, Apart
  <2>3. Only(w, c)'
    BY <2>1, <2>2 DEF Only
  <2>4. F!CallIn(op'[w]) = F!CallIn(op[w])
    BY <1>2 DEF Only
  <2> QED
    BY <1>2, <2>3, <2>4, SeenAtFile
<1> QED
  BY <1>1, <1>2, AtOrOff

(* What AtomicFiles sees.                                                    *)
NoAtomicCall == [at |-> "idle", file |-> None, mode |-> None, value |-> None]
FileValues == [f \in Files |-> Access!ValueOf(f)]
Calls == [c \in Callers |-> IF OnFiles THEN CallerCall(c) ELSE NoAtomicCall]

ValuesSame == \A f \in Files : F!ValueIn(content', op', f) = F!ValueIn(content, op, f)

LEMMA ValuesSeen ==
  /\ ValuesSame => FileValues' = FileValues
  /\ \A f \in Files : FileValues[f] = F!ValueIn(content, op, f)
BY ValueSeen DEF ValuesSame, FileValues

LEMMA SeenByNone ==
  ASSUME ValuesSame, system' = system,
         \A c \in Callers : OnFiles => CallerCall(c)' = CallerCall(c)
  PROVE  UNCHANGED Atomic!vars
<1>1. FileValues' = FileValues
  BY ValuesSeen
<1>2. Calls' = Calls
  BY DEF Calls, OnFiles
<1> QED
  BY <1>1, <1>2 DEF Atomic!vars, FileValues, Calls, NoAtomicCall

LEMMA SeenByOne ==
  ASSUME NEW c \in Callers, system' = system, OnFiles,
         \A d \in Callers : d # c => CallerCall(d)' = CallerCall(d)
  PROVE  /\ Calls' = [Calls EXCEPT ![c] = CallerCall(c)']
         /\ Calls[c] = CallerCall(c)
<1>1. \A d \in Callers : Calls[d] = CallerCall(d)
  BY DEF Calls
<1>2. Calls' = [d \in Callers |-> CallerCall(d)']
  BY DEF Calls, OnFiles
<1> QED
  BY <1>1, <1>2 DEF Calls


AtFiles == \A w \in Workers : op[w].at # "idle" => op[w].file \in Files

LEMMA AtomicFacts == SystemInv => F!AtomicInv /\ AtFiles
BY FilesAssumed, LocksOK, F!OneWriterHolds
   DEF SystemInv, FilesOK, F!FilesInv, F!CallsFit, F!CallFits, AtFiles

LEMMA AtomicFactsNext == SystemInv' => F!AtomicInv' /\ AtFiles'
BY AtomicFacts, PTL

(* A step of one worker is nothing to the callers of the others.             *)
LEMMA OtherCallers ==
  ASSUME SystemInv, SystemInv', NEW w \in Workers, NEW c, worker[w].item = c,
         \A v \in Workers \ {w} : op'[v] = op[v] /\ worker'[v].item = worker[v].item,
         worker'[w].item = c,
         \A d \in Callers : d # c =>
           /\ caller'[d] = caller[d] /\ done'[d] = done[d]
           /\ request'[d] = request[d] /\ output'[d] = output[d]
  PROVE  \A d \in Callers : d # c => CallerCall(d)' = CallerCall(d)
<1> SUFFICES ASSUME NEW d \in Callers, d # c PROVE CallerCall(d)' = CallerCall(d)
  OBVIOUS
<1>1. ASSUME NEW v \in Workers, worker[v].item = d \/ worker'[v].item = d
      PROVE  op'[v] = op[v] /\ worker'[v].item = worker[v].item
  BY <1>1
<1> QED
  BY <1>1, CallerSame

(* The caller of a worker at a file.                                         *)
LEMMA AtOnly ==
  ASSUME SystemInv, NEW w \in Workers, Busy(op[w])
  PROVE  worker[w].item \in Callers /\ Only(w, worker[w].item)
BY QueuedExecutionAssumption DEF SystemInv, Served, Only, Busy, ItemsOK, Items, Apart

LEMMA AtOnlyNext ==
  ASSUME SystemInv', NEW w \in Workers, Busy(op'[w]), NEW c, worker'[w].item = c
  PROVE  Only(w, c)'
BY QueuedExecutionAssumption DEF SystemInv, Served, Only, Busy, ItemsOK, Items, Apart

LEMMA WorkerSeen ==
  ASSUME NEW w \in Workers, NEW c \in Callers
  PROVE  /\ Only(w, c) => CallerCall(c) = F!CallOf(w)
         /\ Only(w, c)' => CallerCall(c)' = F!CallOf(w)'
<1>1. F!CallOf(w) = F!CallIn(op[w]) /\ F!CallOf(w)' = F!CallIn(op'[w])
  BY FilesAssumed, F!Seen, F!SeenNext
<1> QED
  BY <1>1, SeenAtFile

LEMMA FileValuesSeen ==
  /\ FileValues = [f \in Files |-> F!ValueOf(f)]
  /\ FileValues' = [f \in Files |-> F!ValueOf(f)]'
BY ValueSeen, FilesAssumed, F!Seen, F!SeenNext DEF FileValues

-----------------------------------------------------------------------------
(* A step of a worker at its file is what AtomicFiles sees of it there.      *)
LEMMA WorkAtomic ==
  ASSUME SystemInv, SystemInv', NEW w \in Workers, AtWork(w),
         UNCHANGED <<vars, system, callVars>>
  PROVE  [Atomic!Next]_(Atomic!vars)
<1>1. /\ \A v \in Workers \ {w} : op'[v] = op[v] /\ step'[v] = step[v]
      /\ op[w].at \in {"open", "copy", "close"}
      /\ op'[w].at \in {"open", "copy", "close", "exit"}
      /\ op'[w].file = op[w].file /\ op'[w].mode = op[w].mode /\ op'[w].value = op[w].value
  BY WorkMoves DEF SystemInv
<1>2. /\ worker' = worker /\ caller' = caller /\ done' = done /\ request' = request
      /\ output' = output /\ system' = system
  BY DEF vars, callVars
<1>3. PICK c \in Callers : c = worker[w].item /\ Only(w, c)
  BY <1>1, AtOnly DEF Busy
<1>4. OnFiles
  BY <1>1 DEF SystemInv, Served
<1>5. F!AtomicInv /\ F!AtomicInv'
  BY AtomicFacts, AtomicFactsNext
<1>6. CallerCall(c) = F!CallOf(w) /\ CallerCall(c)' = F!CallOf(w)'
  <2>1. Only(w, c)'
    BY <1>1, <1>2, <1>3, AtOnlyNext DEF Busy
  <2> QED
    BY <1>3, <2>1, WorkerSeen
<1>7. \A d \in Callers : d # c => CallerCall(d)' = CallerCall(d)
  BY <1>1, <1>2, <1>3, OtherCallers
<1>8. Calls' = [Calls EXCEPT ![c] = F!CallOf(w)'] /\ Calls[c] = F!CallOf(w)
  BY <1>2, <1>4, <1>6, <1>7, SeenByOne
<1>9. ASSUME UNCHANGED F!Atomic!vars PROVE UNCHANGED Atomic!vars
  <2>1. /\ [f \in Files |-> F!ValueOf(f)]' = [f \in Files |-> F!ValueOf(f)]
        /\ [v \in Workers |-> F!CallOf(v)]' = [v \in Workers |-> F!CallOf(v)]
    BY <1>9 DEF F!Atomic!vars
  <2>2. \A f \in Files : F!ValueOf(f)' = F!ValueOf(f)
    BY <2>1
  <2>3. F!CallOf(w)' = F!CallOf(w)
    BY <2>1
  <2>4. ValuesSame
    BY <2>2, FilesAssumed, F!Seen, F!SeenNext DEF ValuesSame
  <2> QED
    BY <1>2, <1>6, <1>7, <2>3, <2>4, SeenByNone
<1>10. ASSUME F!TakeLock(w) PROVE UNCHANGED F!Atomic!vars
  <2>1. op' = op /\ content' = content
    BY <1>10 DEF F!TakeLock, F!fileVars
  <2>2. /\ \A f \in Files : F!ValueIn(content', op', f) = F!ValueIn(content, op, f)
        /\ F!CallIn(op'[w]) = F!CallIn(op[w])
    BY <2>1
  <2> QED
    BY <1>1, <2>2, FilesAssumed, F!Unseen
<1>11. ASSUME F!Atomic!Load(w) PROVE Atomic!Load(c)
  <2>1. /\ F!CallOf(w).at = "called" /\ F!CallOf(w).mode = "read"
        /\ [v \in Workers |-> F!CallOf(v)]' =
             [[v \in Workers |-> F!CallOf(v)] EXCEPT
                ![w] = F!Atomic!Call("done", F!CallOf(w).file, F!CallOf(w).mode,
                                     [f \in Files |-> F!ValueOf(f)][F!CallOf(w).file])]
        /\ [f \in Files |-> F!ValueOf(f)]' = [f \in Files |-> F!ValueOf(f)]
    BY <1>11 DEF F!Atomic!Load
  <2>2. FileValues' = FileValues
    BY <2>1, FileValuesSeen
  <2>3. F!CallOf(w)' = F!Atomic!Call("done", F!CallOf(w).file, F!CallOf(w).mode,
                                     FileValues[F!CallOf(w).file])
    BY <2>1, FileValuesSeen
  <2> QED
    BY <1>8, <2>1, <2>2, <2>3 DEF Atomic!Load, Atomic!Call, F!Atomic!Call, FileValues, Calls,
                                 NoAtomicCall
<1>12. ASSUME F!Atomic!Save(w) PROVE Atomic!Save(c)
  <2>1. /\ F!CallOf(w).at = "called" /\ F!CallOf(w).mode = "write"
        /\ [v \in Workers |-> F!CallOf(v)]' =
             [[v \in Workers |-> F!CallOf(v)] EXCEPT ![w] = [F!CallOf(w) EXCEPT !.at = "done"]]
        /\ [f \in Files |-> F!ValueOf(f)]' =
             [[f \in Files |-> F!ValueOf(f)] EXCEPT
                ![F!CallOf(w).file] = F!Atomic!Chunks(F!CallOf(w).value, DocLength)]
    BY <1>12 DEF F!Atomic!Save
  <2>2. FileValues' = [FileValues EXCEPT
                         ![F!CallOf(w).file] = Atomic!Chunks(F!CallOf(w).value, DocLength)]
    <3>1. F!Atomic!Chunks(F!CallOf(w).value, DocLength) =
            Atomic!Chunks(F!CallOf(w).value, DocLength)
      BY DEF F!Atomic!Chunks, Atomic!Chunks
    <3> QED
      BY <2>1, <3>1, FileValuesSeen
  <2>3. F!CallOf(w)' = [F!CallOf(w) EXCEPT !.at = "done"]
    BY <2>1
  <2> QED
    BY <1>8, <2>1, <2>2, <2>3 DEF Atomic!Save, FileValues, Calls, NoAtomicCall
<1>13. \/ UNCHANGED F!Atomic!vars
       \/ F!Atomic!Load(w)
       \/ F!Atomic!Save(w)
  BY <1>5, <1>10, FilesAssumed, F!OpenToSaveAtomic, F!OpenToLoadAtomic, F!LoadMissingAtomic,
     F!CopySavedAtomic, F!CopyLoadedAtomic, F!CloseAtomic DEF AtWork
<1>14. Atomic!Load(c) \/ Atomic!Save(c) => Atomic!Next
  BY DEF Atomic!Next
<1> QED
  BY <1>9, <1>11, <1>12, <1>13, <1>14

(* The call is seen when a caller makes it, not when a worker takes it.      *)
LEMMA StartAtomic ==
  ASSUME SystemInv, SystemInv', NEW w \in Workers, Start(w)
  PROVE  UNCHANGED Atomic!vars
<1>1. PICK c \in Callers :
        /\ worker[w] = Doing("process", c) /\ caller[c] = "waiting" /\ done[c] = 0
        /\ request[c] \in Requests
        /\ F!Begin(w, request[c].file, request[c].mode, request[c].value)
        /\ OnFiles /\ op[w].at = "idle" /\ UNCHANGED <<vars, system, callVars>>
  BY Starts
<1>2. /\ worker' = worker /\ caller' = caller /\ done' = done /\ request' = request
      /\ output' = output /\ system' = system
  BY <1>1 DEF vars, callVars
<1>3. worker[w].item = c
  BY <1>1 DEF Doing
<1>4. /\ \A v \in Workers \ {w} : op'[v] = op[v]
      /\ op'[w] = F!Op("open", request[c].file, request[c].mode, request[c].value, 0, <<>>)
      /\ content' = content
  <2>1. /\ op' = [op EXCEPT ![w] = F!Op("open", request[c].file, request[c].mode,
                                       request[c].value, 0, <<>>)]
        /\ content' = content
    BY <1>1 DEF F!Begin
  <2>2. op = [v \in Workers |-> op[v]]
    BY DEF SystemInv, FilesOK, F!OpShape
  <2> QED
    BY <2>1, <2>2
<1>5. /\ op'[w].at = "open" /\ op'[w].file = request[c].file
      /\ op'[w].mode = request[c].mode /\ op'[w].value = request[c].value /\ op'[w].got = <<>>
  BY <1>4 DEF F!Op
<1>6. \A f : F!ValueIn(content', op', f) = F!ValueIn(content, op, f)
  <2>1. ~F!Unfinished(op[w]) /\ ~F!Unfinished(op'[w])
    BY <1>1, <1>5 DEF F!Unfinished
  <2> QED
    BY <1>4, <2>1, FilesAssumed, F!ValuesStay
<1>7. \A d \in Callers : d # c => CallerCall(d)' = CallerCall(d)
  BY <1>2, <1>3, <1>4, OtherCallers
<1>8. CallerCall(c)' = CallerCall(c)
  <2>1. OffFile(c)
    BY <1>1, <1>3, QueuedExecutionAssumption
       DEF OffFile, Busy, SystemInv, ItemsOK, Items, Apart
  <2>2. CallerCall(c) = [at |-> "called", file |-> request[c].file, mode |-> request[c].mode,
                         value |-> request[c].value]
    BY <1>1, <2>1, SeenOffFile DEF CallOff
  <2>3. Only(w, c)'
    BY <1>2, <1>3, <1>5, AtOnlyNext DEF Busy
  <2>4. CallerCall(c)' = F!CallIn(op'[w])
    BY <2>3, SeenAtFile
  <2>5. request[c].mode \in {"read", "write"}
        /\ (request[c].mode = "read" => request[c].value = None)
    BY <1>1 DEF Requests, Request
  <2>6. F!PlaceOf(op'[w]) = "called" /\ F!DataOf(op'[w]) = request[c].value
    BY <1>5, <2>5 DEF F!PlaceOf, F!DataOf
  <2> QED
    BY <1>5, <2>2, <2>4, <2>6 DEF F!CallIn
<1> QED
  BY <1>2, <1>6, <1>7, <1>8, SeenByNone DEF ValuesSame

(* The answer of a caller is what its worker got.                            *)
LEMMA ProcessedAtomic ==
  ASSUME SystemInv, SystemInv', NEW w \in Workers, Processed(w)
  PROVE  UNCHANGED Atomic!vars
<1>1. PICK c \in Callers :
           /\ worker[w] = Doing("process", c) /\ worker' = [worker EXCEPT ![w] = Doing("set", c)]
           /\ caller[c] = "waiting" /\ caller' = caller /\ done[c] = 0
           /\ done' = [done EXCEPT ![c] = 1]
           /\ item' = [item EXCEPT ![c].result = "Success"]
           /\ output' = [output EXCEPT ![c] = IF op[w].mode = "read" THEN op[w].got ELSE None]
           /\ op[w].at = "exit" /\ Asks(w, c) /\ request[c] \in Requests
           /\ op' = [op EXCEPT ![w] = NoCall] /\ F!Exit(w)
           /\ OnFiles /\ UNCHANGED <<system, request, content>>
           /\ dispose' = dispose
  BY Processes
<1>2. /\ \A v \in Workers \ {w} : op'[v] = op[v]
      /\ op'[w].at = "idle"
  <2>1. op' = [op EXCEPT ![w] = NoCall]
    BY <1>1
  <2>2. op = [v \in Workers |-> op[v]]
    BY DEF SystemInv, FilesOK, F!OpShape
  <2>3. NoCall.at = "idle"
    BY DEF NoCall, Access!Op
  <2> QED
    BY <2>1, <2>2, <2>3
<1>3. /\ worker[w].item = c /\ worker'[w].item = c
      /\ \A v \in Workers \ {w} : worker'[v] = worker[v]
  BY <1>1 DEF SystemInv, ItemsOK, Items, TypeOK, Doing
<1>4. /\ done'[c] = 1 /\ \A d \in Callers : d # c => done'[d] = done[d]
      /\ output'[c] = IF op[w].mode = "read" THEN op[w].got ELSE None
      /\ \A d \in Callers : d # c => output'[d] = output[d]
  BY <1>1 DEF SystemInv, ItemsOK, Items, TypeOK, CallsOK
<1>5. \A f : F!ValueIn(content', op', f) = F!ValueIn(content, op, f)
  <2>1. ~F!Unfinished(op[w]) /\ ~F!Unfinished(op'[w])
    BY <1>1, <1>2 DEF F!Unfinished
  <2> QED
    BY <1>1, <1>2, <2>1, FilesAssumed, F!ValuesStay
<1>6. \A d \in Callers : d # c => CallerCall(d)' = CallerCall(d)
  <2>1. caller' = caller /\ request' = request
    BY <1>1
  <2> QED
    BY <1>2, <1>3, <1>4, <2>1, OtherCallers
<1>7. CallerCall(c)' = CallerCall(c)
  <2>1. Only(w, c)
    BY <1>1, <1>3, AtOnly DEF Busy
  <2>2. CallerCall(c) = F!CallIn(op[w])
    BY <2>1, SeenAtFile
  <2>3. OffFile(c)'
    BY <1>2, <1>3, QueuedExecutionAssumption
       DEF OffFile, Busy, SystemInv, ItemsOK, Items, Apart
  <2>4. CallerCall(c)' = CallOff("waiting", 1, request[c], output'[c])
    BY <1>1, <1>4, <2>3, SeenOffFile
  <2>5. /\ op[w].file = request[c].file /\ op[w].mode = request[c].mode
        /\ op[w].value = request[c].value /\ request[c].mode \in {"read", "write"}
    BY <1>1 DEF Asks, Requests, Request
  <2>6. F!PlaceOf(op[w]) = "done"
    BY <1>1 DEF F!PlaceOf
  <2>7. F!DataOf(op[w]) = AnswerIn(request[c], output'[c])
    <3>1. CASE request[c].mode = "write"
      BY <1>1, <2>5, <3>1 DEF F!DataOf, AnswerIn
    <3>2. CASE request[c].mode = "read"
      BY <1>1, <1>4, <2>5, <3>2 DEF F!DataOf, AnswerIn
    <3> QED
      BY <2>5, <3>1, <3>2
  <2> QED
    BY <1>1, <2>2, <2>4, <2>5, <2>6, <2>7 DEF F!CallIn, CallOff
<1> QED
  BY <1>1, <1>5, <1>6, <1>7, SeenByNone DEF ValuesSame

(* A worker aborted in its copy leaves the call as one that waits, and that  *)
(* nobody will answer: it has not taken effect.                              *)
LEMMA AbortAtomic ==
  ASSUME SystemInv, SystemInv', NEW w \in Workers, Stop(w)
  PROVE  UNCHANGED Atomic!vars
<1>1. /\ Abort(w) /\ UNCHANGED <<system, callVars, step, content>>
      /\ \A v \in Workers \ {w} : op'[v] = op[v]
      /\ op'[w].file = op[w].file /\ op'[w].mode = op[w].mode /\ op'[w].value = op[w].value
      /\ op'[w].got = op[w].got
      /\ op'[w].at = CASE op[w].at = "copy"  -> "failed"
                       [] op[w].at = "close" -> "exit"
                       [] OTHER              -> op[w].at
      /\ op[w].at \notin {"copy", "close"} => op'[w] = op[w]
  BY Aborted
<1>2. /\ \A v \in Workers : worker'[v].item = worker[v].item
      /\ caller' = caller /\ done' = done /\ request' = request /\ output' = output
      /\ system' = system /\ content' = content
  BY <1>1 DEF Abort, SystemInv, ItemsOK, Items, TypeOK, callVars
<1>3. ValuesSame
  <2>1. op[w].at = "copy" => op[w].file \in Files
    BY AtomicFacts DEF AtFiles
  <2>2. F!Unfinished(op'[w]) <=> F!Unfinished(op[w])
    BY <1>1, <2>1 DEF F!Unfinished
  <2> QED
    BY <1>1, <1>2, <2>2, FilesAssumed, F!ValuesStay DEF ValuesSame
<1>4. ASSUME NEW c \in Callers, ~(worker[w].item = c /\ op[w].at = "copy")
      PROVE  CallerCall(c)' = CallerCall(c)
  <2>1. op[w].at # "copy" => /\ Busy(op'[w]) <=> Busy(op[w])
                            /\ F!CallIn(op'[w]) = F!CallIn(op[w])
    BY <1>1 DEF Busy, F!CallIn, F!PlaceOf, F!DataOf
  <2>2. ASSUME NEW v \in Workers, worker[v].item = c
        PROVE  (Busy(op'[v]) <=> Busy(op[v])) /\ F!CallIn(op'[v]) = F!CallIn(op[v])
    BY <1>1, <1>4, <2>1, <2>2
  <2> QED
    BY <1>2, <2>2, CallerSame
<1>5. ASSUME NEW c \in Callers, worker[w].item = c, op[w].at = "copy"
      PROVE  CallerCall(c)' = CallerCall(c)
  <2>1. Only(w, c)
    BY <1>5, AtOnly DEF Busy
  <2>2. CallerCall(c) = F!CallIn(op[w])
    BY <2>1, SeenAtFile
  <2>3. OffFile(c)'
    BY <1>1, <1>2, <1>5, <2>1 DEF OffFile, Only, Busy
  <2>4. OnFiles /\ done[c] = 0 /\ Asks(w, c)
    BY <1>5 DEF SystemInv, Served
  <2>5. caller[c] = "waiting"
    BY <1>5 DEF SystemInv, ItemsOK, Items, Life, IsHeld
  <2>6. CallerCall(c)' = [at |-> "called", file |-> request[c].file, mode |-> request[c].mode,
                          value |-> request[c].value]
    BY <1>2, <2>3, <2>4, <2>5, SeenOffFile DEF CallOff
  <2>7. request[c] \in Requests
    BY <2>4, <2>5 DEF SystemInv, CallsOK, Asked
  <2>8. request[c].mode = "read" => request[c].value = None
    BY <2>7 DEF Requests, Request
  <2>9. F!PlaceOf(op[w]) = "called" /\ F!DataOf(op[w]) = request[c].value
    BY <1>5, <2>4, <2>8 DEF F!PlaceOf, F!DataOf, Asks
  <2> QED
    BY <2>2, <2>4, <2>6, <2>9 DEF F!CallIn, Asks
<1> QED
  BY <1>2, <1>3, <1>4, <1>5, SeenByNone

-----------------------------------------------------------------------------
(* Steps of the queue: a call begins and returns.                            *)
LEMMA QueueAtomic ==
  ASSUME SystemInv, SystemInv', QueueStep
  PROVE  [Atomic!Next]_(Atomic!vars)
<1>1. op' = op /\ content' = content /\ system' = system
  BY QueueIsQueue DEF accessVars
<1>2. ValuesSame /\ FileValues' = FileValues
  BY <1>1, ValuesSeen DEF ValuesSame
<1>3. ASSUME NEW d \in Callers, \A v \in Workers : op[v].at # "idle" => worker'[v] = worker[v],
             caller'[d] = caller[d], done'[d] = done[d],
             request'[d] = request[d], output'[d] = output[d]
      PROVE  CallerCall(d)' = CallerCall(d)
  <2>1. \A v \in Workers :
          (worker[v].item = d /\ Busy(op[v])) <=> (worker'[v].item = d /\ Busy(op'[v]))
    BY <1>1, <1>3 DEF Busy
  <2> QED
    BY <1>1, <1>3, <2>1, CallerSame
<1>4. ASSUME NEW c \in Callers, Call(c), OnFiles PROVE Atomic!Next
  <2>1. PICK r \in Requests : request' = [request EXCEPT ![c] = r]
    BY <1>4 DEF Call
  <2>2. /\ worker' = worker /\ caller[c] # "waiting" /\ caller'[c] = "waiting"
        /\ done'[c] = 0 /\ request'[c] = r
        /\ \A d \in Callers : d # c =>
             /\ caller'[d] = caller[d] /\ done'[d] = done[d]
             /\ request'[d] = request[d] /\ output'[d] = output[d]
    BY <1>4, <2>1 DEF Call, Execute, SystemInv, ItemsOK, Items, TypeOK, CallsOK
  <2>3. OffFile(c) /\ OffFile(c)'
    <3>1. ~IsHeld(c)
      BY <2>2 DEF SystemInv, ItemsOK, Items, Life
    <3> QED
      BY <2>2, <3>1 DEF IsHeld, OffFile
  <2>4. caller[c] \in {"idle", "returned"}
    BY <1>4, <2>2 DEF SystemInv, ItemsOK, Items, TypeOK, CallsOK, Asked
  <2>5. CallerCall(c).at \in {"idle", "returned"}
    BY <2>2, <2>3, <2>4, SeenOffFile DEF CallOff
  <2>6. CallerCall(c)' = Atomic!Call("called", r.file, r.mode, r.value)
    BY <2>2, <2>3, SeenOffFile DEF CallOff, Atomic!Call
  <2>7. \A d \in Callers : d # c => CallerCall(d)' = CallerCall(d)
    BY <1>3, <2>2
  <2>8. Calls' = [Calls EXCEPT ![c] = CallerCall(c)'] /\ Calls[c] = CallerCall(c)
    BY <1>1, <1>4, <2>7, SeenByOne
  <2>9. Atomic!Invoke(c, r.file, r.mode, r.value)
    BY <1>2, <2>5, <2>6, <2>8 DEF Atomic!Invoke, FileValues, Calls, NoAtomicCall
  <2> QED
    BY <2>9 DEF Atomic!Next, Requests, Request
<1>5. ASSUME NEW c \in Callers, Back(c), OnFiles PROVE Atomic!Next
  <2>1. /\ worker' = worker /\ caller[c] = "waiting" /\ item[c].set
        /\ caller'[c] = "returned" /\ done' = done /\ request' = request /\ output' = output
        /\ \A d \in Callers : d # c => caller'[d] = caller[d]
    <3>1. item[c].result # "FailThrow"
      BY <1>5 DEF SystemInv, CallsOK, Asked
    <3> QED
      BY <1>5, <3>1 DEF Back, Return, callVars, SystemInv, ItemsOK, Items, TypeOK
  <2>2. done[c] = 1 /\ ~IsHeld(c)
    BY <2>1 DEF SystemInv, ItemsOK, Items, Life
  <2>3. OffFile(c) /\ OffFile(c)'
    BY <2>1, <2>2 DEF IsHeld, OffFile
  <2>4. CallerCall(c).at = "done" /\ CallerCall(c)' = [CallerCall(c) EXCEPT !.at = "returned"]
    BY <2>1, <2>2, <2>3, SeenOffFile DEF CallOff
  <2>5. \A d \in Callers : d # c => CallerCall(d)' = CallerCall(d)
    BY <1>3, <2>1
  <2>6. Calls' = [Calls EXCEPT ![c] = CallerCall(c)'] /\ Calls[c] = CallerCall(c)
    BY <1>1, <1>5, <2>5, SeenByOne
  <2>7. Atomic!Return(c)
    BY <1>2, <2>4, <2>6 DEF Atomic!Return, FileValues, Calls, NoAtomicCall
  <2> QED
    BY <2>7 DEF Atomic!Next
<1>6. ASSUME ~OnFiles PROVE UNCHANGED Atomic!vars
  BY <1>1, <1>2, <1>6, SeenByNone
<1>7. ASSUME UNCHANGED <<caller, done, request, output>>,
             \A v \in Workers : op[v].at # "idle" => worker'[v] = worker[v]
      PROVE  UNCHANGED Atomic!vars
  BY <1>1, <1>2, <1>3, <1>7, SeenByNone
<1>8. ASSUME NEW w \in Workers, Polls(w) PROVE UNCHANGED Atomic!vars
  <2>1. /\ worker[w].at \in {"poll", "set", "check"}
        /\ UNCHANGED <<caller, done, request, output>>
        /\ \A v \in Workers : v # w => worker'[v] = worker[v]
    BY <1>8 DEF Polls, Dequeue, FindEmpty, SetEvent, Check, callVars,
                SystemInv, ItemsOK, Items, TypeOK
  <2>2. op[w].at = "idle"
    BY <2>1 DEF SystemInv, Served
  <2> QED
    BY <1>7, <2>1, <2>2
<1>9. ASSUME \/ \E b \in BOOLEAN : DisposeQueue(b)
             \/ DisposeWaits \/ DisposeStreams
      PROVE  UNCHANGED Atomic!vars
  <2>1. UNCHANGED <<caller, done, request, output, worker>>
    BY <1>9 DEF DisposeQueue, Dispose, DisposeWaits, DisposeEnds, DisposeGivesUp,
                DisposeStreams, callVars
  <2> QED
    BY <1>7, <2>1
<1>10. ASSUME NEW w \in Workers, AnyResult(w) PROVE ~OnFiles
  BY <1>10 DEF AnyResult
<1> QED
  BY <1>4, <1>5, <1>6, <1>8, <1>9, <1>10 DEF QueueStep

LEMMA SystemAtomic ==
  ASSUME SystemInv, SystemInv', [SystemNext]_allVars
  PROVE  [Atomic!Next]_(Atomic!vars)
<1>1. CASE SystemNext
  BY <1>1, SystemSteps, QueueAtomic, WorkAtomic, StartAtomic, ProcessedAtomic, AbortAtomic
<1>2. CASE UNCHANGED allVars
  <2>1. /\ op' = op /\ content' = content /\ system' = system /\ worker' = worker
        /\ caller' = caller /\ done' = done /\ request' = request /\ output' = output
    BY <1>2 DEF allVars, vars, callVars, accessVars
  <2>2. \A c \in Callers : CallerCall(c)' = CallerCall(c)
    BY <2>1, CallerSame
  <2> QED
    BY <2>1, <2>2, SeenByNone DEF ValuesSame
<1> QED
  BY <1>1, <1>2

LEMMA InitAtomic == SystemInit => Atomic!Init
<1> SUFFICES ASSUME SystemInit PROVE Atomic!Init
  OBVIOUS
<1>1. /\ content = [f \in Files |-> None]
      /\ op = [w \in Workers |-> Access!Op("idle", None, None, None, 0, <<>>)]
  BY DEF SystemInit, Access!AccessInit
<1>2. \A w \in Workers : op[w].at = "idle"
  BY <1>1 DEF Access!Op
<1>3. \A f \in Files : Access!ValueOf(f) = None
  BY <1>1 DEF Access!ValueOf, Access!SavesOf, Access!OpAt, Access!Op
<1>4. ASSUME NEW c \in Callers PROVE CallerCall(c) = NoAtomicCall
  <2>1. OffFile(c)
    BY <1>2 DEF OffFile, Busy
  <2>2. /\ caller[c] = "idle" /\ request[c] = Request(None, None, None) /\ done[c] = 0
    BY DEF SystemInit, Init
  <2> QED
    BY <2>1, <2>2, SeenOffFile DEF CallOff, Request, NoAtomicCall
<1>5. Calls = [c \in Callers |-> NoAtomicCall]
  BY <1>4 DEF Calls
<1>6. FileValues = [f \in Files |-> None]
  BY <1>3 DEF FileValues
<1> QED
  BY <1>5, <1>6 DEF Atomic!Init, Atomic!Call, Calls, FileValues, NoAtomicCall

(* To their callers the files' saves and loads are atomic, for any number of *)
(* callers, workers, files and documents, also when the workers are aborted. *)
THEOREM QueueImplementsAtomicFiles == SystemSpec => QueuedFilesAreAtomic
<1>1. SystemInv /\ SystemInv' /\ [SystemNext]_allVars => [Atomic!Next]_(Atomic!vars)
  BY SystemAtomic
<1> QED
  BY <1>1, InitAtomic, SystemAlways, PTL DEF SystemSpec, QueuedFilesAreAtomic, Atomic!Spec
=============================================================================
