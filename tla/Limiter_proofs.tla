--------------------------- MODULE Limiter_proofs ---------------------------
(***************************************************************************)
(* For every number of callers, every interval and every pair of limits,    *)
(* Limiter never has more than MaxConcurrent callers inside, its counter is *)
(* their number, and no interval sees more than 2 * MaxCalls calls.         *)
(***************************************************************************)
EXTENDS Limiter, FiniteSetTheorems, TLAPS

(* The counter and the threads inside change together, and the limit is     *)
(* tested on the counter: the invariant needs both.                         *)
IInv == TypeOK /\ CountsThoseInside

(* The set of callers inside is finite, so that it can be counted.          *)
LEMMA InsideFinite == IsFiniteSet(Inside)
  BY LimiterAssumption, FS_Subset DEF Inside

(* A new Limiter has nobody inside.                                         *)
LEMMA InitIInv == Init => IInv
  <1> SUFFICES ASSUME Init PROVE IInv
    OBVIOUS
  <1>1. Inside = {}
    BY DEF Init, Inside
  <1>2. Cardinality(Inside) = 0
    BY <1>1, FS_EmptySet
  <1> QED BY <1>2, LimiterAssumption DEF Init, IInv, TypeOK, CountsThoseInside

(* A caller that only arrives changes neither the counter nor who is inside. *)
LEMMA CallKeeps ==
  ASSUME IInv, NEW t \in Threads, Call(t)
  PROVE  IInv'
  <1>1. Inside' = Inside
    BY DEF Call, Inside, IInv, TypeOK
  <1>2. CountsThoseInside'
    BY <1>1 DEF Call, IInv, CountsThoseInside
  <1> QED BY <1>2 DEF Call, IInv, TypeOK

(* The renewal of a window keeps the ranges of both of its fields.          *)
LEMMA RenewalInRange ==
  ASSUME TypeOK
  PROVE  CallsSoFar \in 0..MaxCalls /\ ElapsedSoFar \in 0..(Interval + 1)
  BY LimiterAssumption DEF TypeOK, CallsSoFar, ElapsedSoFar

(* The calls remembered, after one more.                                    *)
LEMMA ShiftInRange ==
  ASSUME TypeOK
  PROVE  [i \in 1..Remembered |-> IF i = 1 THEN 0 ELSE ages[i - 1]]
           \in [1..Remembered -> 0..(Interval + 1)]
  <1>1. Remembered \in Nat
    BY LimiterAssumption DEF Remembered
  <1>2. \A i \in 1..Remembered : i # 1 => i - 1 \in 1..Remembered
    BY <1>1
  <1>3. 0 \in 0..(Interval + 1)
    BY LimiterAssumption
  <1> QED BY <1>2, <1>3 DEF TypeOK

(* The caller Enter lets in is a new member of those inside.                *)
LEMMA AdmitKeeps ==
  ASSUME IInv, NEW t \in Threads, Admit(t)
  PROVE  IInv'
  <1>1. Inside' = Inside \cup {t} /\ t \notin Inside
    BY DEF Admit, Inside, IInv, TypeOK
  <1>2. Cardinality(Inside') = Cardinality(Inside) + 1
    BY <1>1, InsideFinite, FS_AddElement
  <1>3. CountsThoseInside'
    <2>1. concurrentcalls < MaxConcurrent /\ concurrentcalls' = concurrentcalls + 1
      BY DEF Admit, Free
    <2> QED BY <1>2, <2>1, LimiterAssumption DEF IInv, TypeOK, CountsThoseInside
  <1>4. TypeOK'
    <2>1. CallsSoFar + 1 \in 0..MaxCalls
      BY RenewalInRange, LimiterAssumption DEF IInv, Admit, Free
    <2>2. ages' \in [1..Remembered -> 0..(Interval + 1)]
      BY ShiftInRange DEF IInv, Admit
    <2>3. /\ callsperinterval' = CallsSoFar + 1 /\ elapsed' = ElapsedSoFar
          /\ place' = [place EXCEPT ![t] = "inside"]
          /\ concurrentcalls' = concurrentcalls + 1
      BY DEF Admit
    <2>4. elapsed' \in 0..(Interval + 1)
      BY <2>3, RenewalInRange DEF IInv
    <2>5. place' \in [Threads -> {"outside", "waiting", "inside"}]
          /\ concurrentcalls' \in Int
      BY <2>3 DEF IInv, TypeOK
    <2> QED BY <2>1, <2>2, <2>3, <2>4, <2>5 DEF TypeOK
  <1> QED BY <1>3, <1>4 DEF IInv

(* A caller that is refused may renew the window and nothing else.          *)
LEMMA RefuseKeeps ==
  ASSUME IInv, NEW t \in Threads, Refuse(t)
  PROVE  IInv'
  <1>1. CountsThoseInside'
    BY DEF Refuse, IInv, CountsThoseInside, Inside
  <1>2. TypeOK'
    BY RenewalInRange DEF Refuse, IInv, TypeOK
  <1> QED BY <1>1, <1>2 DEF IInv

(* A caller that leaves was counted, and is no longer.                      *)
LEMMA ExitKeeps ==
  ASSUME IInv, NEW t \in Threads, Exit(t)
  PROVE  IInv'
  <1>1. Inside' = Inside \ {t} /\ t \in Inside
    BY DEF Exit, Inside, IInv, TypeOK
  <1>2. Cardinality(Inside') = Cardinality(Inside) - 1
    BY <1>1, InsideFinite, FS_RemoveElement
  <1>3. CountsThoseInside'
    BY <1>2, LimiterAssumption DEF Exit, IInv, TypeOK, CountsThoseInside
  <1>4. TypeOK'
    BY DEF Exit, IInv, TypeOK
  <1> QED BY <1>3, <1>4 DEF IInv

(* Time alone admits nobody.                                                *)
LEMMA TickKeeps ==
  ASSUME IInv, Tick
  PROVE  IInv'
  <1>1. CountsThoseInside'
    BY DEF Tick, IInv, CountsThoseInside, Inside
  <1>2. \A age \in 0..(Interval + 1) : Older(age) \in 0..(Interval + 1)
    BY LimiterAssumption DEF Older
  <1>3. /\ elapsed' \in 0..(Interval + 1)
        /\ ages' \in [1..Remembered -> 0..(Interval + 1)]
    BY <1>2 DEF Tick, IInv, TypeOK
  <1>4. TypeOK'
    BY <1>3 DEF Tick, IInv, TypeOK
  <1> QED BY <1>1, <1>4 DEF IInv

(* The invariant is inductive.                                              *)
THEOREM Invariance == Spec => []IInv
  <1>1. Init => IInv
    BY InitIInv
  <1>2. IInv /\ [Next]_vars => IInv'
    <2> SUFFICES ASSUME IInv, [Next]_vars PROVE IInv'
      OBVIOUS
    <2>1. ASSUME NEW t \in Threads, Call(t) PROVE IInv'
      BY <2>1, CallKeeps
    <2>2. ASSUME NEW t \in Threads, Admit(t) PROVE IInv'
      BY <2>2, AdmitKeeps
    <2>3. ASSUME NEW t \in Threads, Refuse(t) PROVE IInv'
      BY <2>3, RefuseKeeps
    <2>4. ASSUME NEW t \in Threads, Exit(t) PROVE IInv'
      BY <2>4, ExitKeeps
    <2>5. CASE Tick
      BY <2>5, TickKeeps
    <2>6. CASE UNCHANGED vars
      BY <2>6 DEF vars, IInv, TypeOK, CountsThoseInside, Inside
    <2> QED BY <2>1, <2>2, <2>3, <2>4, <2>5, <2>6 DEF Next
  <1> QED BY <1>1, <1>2, PTL DEF Spec

(* Every field keeps its range; in particular a window counts at most        *)
(* MaxCalls calls.                                                          *)
THEOREM TypeCorrect == Spec => []TypeOK
  <1>1. IInv => TypeOK
    BY DEF IInv
  <1> QED BY <1>1, Invariance, PTL

(* The number of callers inside is the counter's and never passes the limit. *)
THEOREM ConcurrencyLimited == Spec => []CountsThoseInside
  <1>1. IInv => CountsThoseInside
    BY DEF IInv
  <1> QED BY <1>1, Invariance, PTL

-----------------------------------------------------------------------------
(* At most two windows meet an interval.                                     *)

(* Calls from before the window are as old as it is, and those from before   *)
(* the window before it are out of the interval.                             *)
Windows ==
  \A i \in 1..Remembered :
    /\ i > callsperinterval => ages[i] >= elapsed
    /\ i > callsperinterval + MaxCalls => ages[i] > Interval

(* The same once the window has been renewed, or need not be.                *)
LEMMA RenewalKeeps ==
  ASSUME TypeOK, Windows, NEW i \in 1..Remembered
  PROVE  /\ i > CallsSoFar => ages[i] >= ElapsedSoFar
         /\ i > CallsSoFar + MaxCalls => ages[i] > Interval
  <1>1. /\ ages[i] \in 0..(Interval + 1) /\ elapsed \in 0..(Interval + 1)
        /\ callsperinterval \in 0..MaxCalls
        /\ Interval \in Nat /\ MaxCalls \in Nat /\ i \in Nat
    BY LimiterAssumption DEF TypeOK, Remembered
  <1>2. CASE Expired
    BY <1>1, <1>2 DEF Windows, Expired, CallsSoFar, ElapsedSoFar
  <1>3. CASE ~Expired
    BY <1>3 DEF Windows, CallsSoFar, ElapsedSoFar
  <1> QED BY <1>2, <1>3

LEMMA WindowsStep ==
  ASSUME TypeOK, Windows, [Next]_vars
  PROVE  Windows'
  <1>0. Interval \in Nat /\ MaxCalls \in Nat /\ Remembered \in Nat
    BY LimiterAssumption DEF Remembered
  <1>1. ASSUME NEW t \in Threads, Admit(t) PROVE Windows'
    <2> SUFFICES ASSUME NEW i \in 1..Remembered
                 PROVE  /\ i > callsperinterval' => ages'[i] >= elapsed'
                        /\ i > callsperinterval' + MaxCalls => ages'[i] > Interval
      BY DEF Windows
    <2>1. CallsSoFar \in 0..MaxCalls /\ callsperinterval' = CallsSoFar + 1
          /\ elapsed' = ElapsedSoFar
      BY <1>1, RenewalInRange DEF Admit
    <2>2. CASE i = 1
      BY <1>0, <2>1, <2>2
    <2>3. CASE i # 1
      <3>1. i - 1 \in 1..Remembered /\ ages'[i] = ages[i - 1]
        BY <1>0, <1>1, <2>3 DEF Admit
      <3>2. PICK j \in 1..Remembered : j = i - 1
        BY <3>1
      <3>3. /\ j > CallsSoFar => ages[j] >= ElapsedSoFar
            /\ j > CallsSoFar + MaxCalls => ages[j] > Interval
        BY RenewalKeeps
      <3>4. /\ i > callsperinterval' => j > CallsSoFar
            /\ i > callsperinterval' + MaxCalls => j > CallsSoFar + MaxCalls
        BY <1>0, <2>1, <3>2
      <3> QED BY <2>1, <3>1, <3>2, <3>3, <3>4
    <2> QED BY <2>2, <2>3
  <1>2. ASSUME NEW t \in Threads, Refuse(t) PROVE Windows'
    BY <1>2, RenewalKeeps DEF Refuse, Windows
  <1>3. CASE Tick
    <2> SUFFICES ASSUME NEW i \in 1..Remembered
                 PROVE  /\ i > callsperinterval => ages'[i] >= elapsed'
                        /\ i > callsperinterval + MaxCalls => ages'[i] > Interval
      BY <1>3 DEF Windows, Tick
    <2>1. ages[i] \in 0..(Interval + 1) /\ elapsed \in 0..(Interval + 1)
      BY DEF TypeOK
    <2>2. ages'[i] = Older(ages[i]) /\ elapsed' = Older(elapsed)
      BY <1>3 DEF Tick
    <2>3. /\ i > callsperinterval => ages[i] >= elapsed
          /\ i > callsperinterval + MaxCalls => ages[i] > Interval
      BY DEF Windows
    <2>4. /\ ages[i] >= elapsed => Older(ages[i]) >= Older(elapsed)
          /\ ages[i] > Interval => Older(ages[i]) > Interval
      BY <1>0, <2>1 DEF Older
    <2> QED BY <2>2, <2>3, <2>4
  <1>4. ASSUME NEW t \in Threads, Call(t) \/ Exit(t) PROVE Windows'
    BY <1>4 DEF Call, Exit, Windows
  <1>5. CASE UNCHANGED vars
    BY <1>5 DEF vars, Windows
  <1> QED BY <1>1, <1>2, <1>3, <1>4, <1>5 DEF Next

(* However attempts, admissions and ticks interleave, no span as long as the *)
(* interval has more than 2 * MaxCalls admissions: the calls it has belong to *)
(* the present window and the one before.                                    *)
THEOREM CallsLimited == Spec => []AtMostTwicePerInterval
  <1>1. Init => Windows
    <2> SUFFICES ASSUME Init, NEW i \in 1..Remembered
                 PROVE  ages[i] >= elapsed /\ ages[i] > Interval
      BY DEF Windows
    <2> QED BY LimiterAssumption DEF Init
  <1>2. TypeOK /\ Windows /\ [Next]_vars => Windows'
    BY WindowsStep
  <1>3. TypeOK /\ Windows => AtMostTwicePerInterval
    <2> SUFFICES ASSUME TypeOK, Windows PROVE ages[Remembered] > Interval
      BY DEF AtMostTwicePerInterval
    <2>1. /\ Remembered \in 1..Remembered
          /\ callsperinterval \in 0..MaxCalls
          /\ Remembered > callsperinterval + MaxCalls
      BY LimiterAssumption DEF TypeOK, Remembered
    <2> QED BY <2>1 DEF Windows
  <1> QED BY <1>1, <1>2, <1>3, TypeCorrect, PTL DEF Spec
=============================================================================
