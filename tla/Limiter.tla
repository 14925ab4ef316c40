------------------------------- MODULE Limiter -------------------------------
(***************************************************************************)
(* GoogleAnalyticsDemo/Limiter: admits at most MaxConcurrent callers at a   *)
(* time and at most MaxCalls callers per window.  A window starts with the  *)
(* first attempt made after the one before has run out (_last), whatever    *)
(* comes of that attempt.                                                   *)
(*                                                                          *)
(* Each pass through Enter's loop, and Exit, holds _callslock from its      *)
(* first to its last access of the fields, so each is one action.  Time is  *)
(* counted in ticks; past an interval it no longer matters how long ago    *)
(* something was, which bounds elapsed and the ages of calls.               *)
(***************************************************************************)
EXTENDS Integers, FiniteSets

CONSTANTS
  Threads,       \* the callers
  Interval,      \* _interval, in ticks
  MaxCalls,      \* _maxcallsperinterval
  MaxConcurrent  \* _maxconcurrentcalls

ASSUME LimiterAssumption ==
  /\ IsFiniteSet(Threads)
  /\ Interval \in Nat /\ MaxCalls \in Nat /\ MaxConcurrent \in Nat

VARIABLES
  place,            \* where each caller is: "outside", "waiting" in Enter, "inside"
  elapsed,          \* DateTime.Now - (_last - _interval)
  callsperinterval, \* _callsperinterval
  concurrentcalls,  \* _concurrentcalls
  ages              \* history: how long ago the last calls were admitted, latest first

vars == <<place, elapsed, callsperinterval, concurrentcalls, ages>>

(* The calls remembered: one more than an interval may see. *)
Remembered == 2 * MaxCalls + 1
Older(age) == IF age > Interval THEN age ELSE age + 1

Waiting == {t \in Threads : place[t] = "waiting"}
Inside  == {t \in Threads : place[t] = "inside"}

Init ==
  /\ place = [t \in Threads |-> "outside"]
  /\ elapsed = 0
  /\ callsperinterval = 0
  /\ concurrentcalls = 0
  /\ ages = [i \in 1..Remembered |-> Interval + 1]

-----------------------------------------------------------------------------
Call(t) ==
  /\ place[t] = "outside"
  /\ place' = [place EXCEPT ![t] = "waiting"]
  /\ UNCHANGED <<elapsed, callsperinterval, concurrentcalls, ages>>

(* The window has run out: _last < DateTime.Now. *)
Expired == elapsed > Interval

(* Mutant: the window is renewed, its calls are not cleared. *)
CallsNotCleared == callsperinterval

(* The calls the window has admitted, once Enter has renewed it. *)
CallsSoFar == IF Expired THEN 0 ELSE callsperinterval

(* Mutant: the calls are cleared, _last is left where it is. *)
ElapsedNotRenewed == elapsed

(* The ticks of the window once Enter has renewed it. *)
ElapsedSoFar == IF Expired THEN 0 ELSE elapsed

(* Mutant: one caller more than the limit. *)
OneMoreFree == concurrentcalls <= MaxConcurrent /\ CallsSoFar < MaxCalls

Free == concurrentcalls < MaxConcurrent /\ CallsSoFar < MaxCalls

(* The pass of Enter that gets through. *)
Admit(t) ==
  /\ place[t] = "waiting"
  /\ Free
  /\ place' = [place EXCEPT ![t] = "inside"]
  /\ elapsed' = ElapsedSoFar
  /\ callsperinterval' = CallsSoFar + 1
  /\ concurrentcalls' = concurrentcalls + 1
  /\ ages' = [i \in 1..Remembered |-> IF i = 1 THEN 0 ELSE ages[i - 1]]

(* A pass that does not get through renews the window all the same. *)
Refuse(t) ==
  /\ place[t] = "waiting"
  /\ ~Free
  /\ elapsed' = ElapsedSoFar
  /\ callsperinterval' = CallsSoFar
  /\ UNCHANGED <<place, concurrentcalls, ages>>

Exit(t) ==
  /\ place[t] = "inside"
  /\ place' = [place EXCEPT ![t] = "outside"]
  /\ concurrentcalls' = concurrentcalls - 1
  /\ UNCHANGED <<elapsed, callsperinterval, ages>>

Tick ==
  /\ elapsed' = Older(elapsed)
  /\ ages' = [i \in 1..Remembered |-> Older(ages[i])]
  /\ UNCHANGED <<place, callsperinterval, concurrentcalls>>

Next ==
  \/ \E t \in Threads : Call(t) \/ Admit(t) \/ Refuse(t) \/ Exit(t)
  \/ Tick

Spec == Init /\ [][Next]_vars

(* Time passes, a caller that was let in leaves, and of the threads that     *)
(* spin in Enter one at least is scheduled: nothing makes a given one win.   *)
FairSpec ==
  /\ Spec
  /\ WF_vars(Tick)
  /\ WF_vars(\E t \in Threads : Admit(t) \/ Refuse(t))
  /\ \A t \in Threads : WF_vars(Exit(t))

-----------------------------------------------------------------------------
(* Types; a window never counts more calls than it may admit. *)
TypeOK ==
  /\ place \in [Threads -> {"outside", "waiting", "inside"}]
  /\ elapsed \in 0..(Interval + 1)
  /\ callsperinterval \in 0..MaxCalls
  /\ concurrentcalls \in Int
  /\ ages \in [1..Remembered -> 0..(Interval + 1)]

(* The counter is the number of callers between Enter and Exit, and never    *)
(* more than MaxConcurrent are: Enter's test and increment with Exit's       *)
(* decrement, in any order of any threads.                                   *)
CountsThoseInside ==
  /\ concurrentcalls = Cardinality(Inside)
  /\ concurrentcalls <= MaxConcurrent

(* What windows can promise: a span as long as the interval meets two of     *)
(* them at most, however late each is renewed, and so has 2 * MaxCalls calls *)
(* at most: the call before those is older.  MaxCalls alone, the "maximum    *)
(* calls per interval" of the constructor's comment, is not kept.            *)
AtMostTwicePerInterval == ages[Remembered] > Interval

(* While callers wait, callers are let in: neither limit, once reached, is   *)
(* reached for good.                                                         *)
KeepsAdmitting ==
  []<>(Waiting # {}) => []<><<\E t \in Threads : Admit(t)>>_vars
=============================================================================
