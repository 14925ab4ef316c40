--------------------------- MODULE Timesheet_proofs ---------------------------
(* Proofs about Timesheet, for any threads and any bounds. *)
EXTENDS Timesheet, TLAPS

Busy(w) == phase[w] # "idle"
Complete == stats = Totals(lines)

(* CompareExchange: a calculation is under way exactly while one worker is   *)
(* in it, and no second one is.                                              *)
OneCalculates ==
  /\ \A w \in Workers : Busy(w) => calculating
  /\ \A v, w \in Workers : Busy(v) /\ Busy(w) => v = w

(* What the calculation of a worker knows at each place, as long as no       *)
(* append overlaps with it.                                                  *)
Progress(w) ==
  /\ phase[w] = "begun" => (~changed => Complete)
  /\ phase[w] = "snapshot" => all[w] = changed /\ (~changed => Complete)
  /\ phase[w] = "store" =>
       /\ changed => subset[w] = lines
       /\ ~changed => Complete /\ \E d : subset[w] = OfDate(lines, d)
  /\ phase[w] = "finally" => Complete
  /\ phase[w] = "release" => Complete /\ ~changed

CompleteInv ==
  /\ TypeOK
  /\ OneCalculates
  /\ ~overlapped /\ calculating => ui # "flag"
  /\ ~overlapped => \A w \in Workers : Progress(w)
  /\ CompleteWhenQuiet

(* No line is of a day to come, and what a full calculation does not begin   *)
(* with cannot make the flag rise before it stores, but for an overlap.      *)
NoneOfTomorrow == \A l \in file \cup lines \cup {appended} : l.date \in 0..today

Flagged(w) ==
  phase[w] \in {"snapshot", "store"} /\ changed => all[w] \/ overlapped

(* What a worker is about to store counts for each of its dates at least     *)
(* what is stored, and has all the dates there are, or today.                *)
Newer(w) ==
  phase[w] = "store" =>
    /\ subset[w] \subseteq lines
    /\ \A d \in DOMAIN stats :
         /\ d \in {l.date : l \in subset[w]} => stats[d] \subseteq OfDate(subset[w], d)
         /\ all[w] \/ d = today => d \in {l.date : l \in subset[w]}

(* No result is empty or counts a line that is not in the log.               *)
Counted ==
  \A d \in DOMAIN stats : stats[d] # {} /\ stats[d] \subseteq OfDate(lines, d)

GrowInv ==
  /\ TypeOK
  /\ OneCalculates
  /\ NoneOfTomorrow
  /\ Counted
  /\ \A w \in Workers : Flagged(w) /\ Newer(w)

(* A step loses no result, or only as TotalsOnlyGrow says. *)
Kept ==
  \A d \in DOMAIN stats :
    \/ d \in DOMAIN stats' /\ stats[d] \subseteq stats'[d]
    \/ d \notin DOMAIN stats' /\ d # today /\ overlapped

-----------------------------------------------------------------------------
LEMMA TotalsOf ==
  ASSUME NEW s
  PROVE  /\ DOMAIN Totals(s) = {l.date : l \in s}
         /\ \A d \in {l.date : l \in s} : Totals(s)[d] = OfDate(s, d)
BY DEF Totals

(* The lines of one date have that date only. *)
LEMMA TotalsOfDate ==
  ASSUME NEW s, NEW d, NEW e \in DOMAIN Totals(OfDate(s, d))
  PROVE  /\ e = d /\ e \in DOMAIN Totals(s)
         /\ Totals(OfDate(s, d))[e] = Totals(s)[e]
<1>0. e \in {l.date : l \in OfDate(s, d)}
  BY DEF Totals
<1>1. PICK l \in OfDate(s, d) : e = l.date
  BY <1>0
<1>2. e = d /\ l \in s
  BY <1>1 DEF OfDate
<1>3. OfDate(OfDate(s, d), e) = OfDate(s, e)
  BY <1>2 DEF OfDate
<1>4. Totals(OfDate(s, d))[e] = OfDate(OfDate(s, d), e)
  BY <1>0 DEF Totals
<1>5. e \in DOMAIN Totals(s) /\ Totals(s)[e] = OfDate(s, e)
  BY <1>1, <1>2 DEF Totals
<1> QED
  BY <1>2, <1>3, <1>4, <1>5

(* Replacing the result of a date by the same changes nothing. *)
LEMMA SameExcept ==
  ASSUME NEW s, NEW d, NEW x, s = [e \in DOMAIN s |-> s[e]],
         d \in DOMAIN s, x = s[d]
  PROVE  [s EXCEPT ![d] = x] = s
OBVIOUS

LEMMA TypeInit == Init => TypeOK
<1> SUFFICES ASSUME Init PROVE TypeOK
  OBVIOUS
<1>1. today \in Nat
  BY DEF Init
<1>2. calculating \in BOOLEAN /\ changed \in BOOLEAN /\ overlapped \in BOOLEAN
  BY DEF Init
<1>3. /\ phase \in [Workers -> {"idle", "begun", "snapshot", "store", "finally", "release"}]
      /\ all \in [Workers -> BOOLEAN]
      /\ DOMAIN subset = Workers
  BY DEF Init
<1> QED
  BY <1>1, <1>2, <1>3 DEF Init, TypeOK

LEMMA TypeStep == TypeOK /\ [Next]_vars => TypeOK'
<1> SUFFICES ASSUME TypeOK, [Next]_vars PROVE TypeOK'
  OBVIOUS
<1> USE DEF TypeOK
<1>1. CASE Restart
  BY <1>1 DEF Restart
<1>2. CASE Midnight
  BY <1>2 DEF Midnight, logVars, calcVars
<1>3. CASE AddLine
  BY <1>3 DEF AddLine, calcVars
<1>4. CASE FlagLine
  BY <1>4 DEF FlagLine, calcVars
<1>5. CASE WriteLine
  BY <1>5 DEF WriteLine, calcVars
<1>6. ASSUME NEW w \in Workers, Begin(w) PROVE TypeOK'
  BY <1>6 DEF Begin, logVars
<1>7. ASSUME NEW w \in Workers, Calculate(w) PROVE TypeOK'
  BY <1>7 DEF Calculate, ReadFlag, Snapshot, Store, ClearFlag, Release, logVars
<1>8. CASE UNCHANGED vars
  BY <1>8 DEF vars, logVars, calcVars
<1> QED
  BY <1>1, <1>2, <1>3, <1>4, <1>5, <1>6, <1>7, <1>8 DEF Next

(* Types of the program's state, and a worker's place for every worker. *)
THEOREM TypeCorrect == Spec => []TypeOK
  BY TypeInit, TypeStep, PTL DEF Spec

-----------------------------------------------------------------------------
LEMMA CompleteInit == Init => CompleteInv
<1> SUFFICES ASSUME Init PROVE CompleteInv
  OBVIOUS
<1>1. \A w \in Workers : phase[w] = "idle"
  BY DEF Init
<1>2. stats = Totals(lines)
  BY DEF Init
<1> QED
  BY <1>1, <1>2, TypeInit DEF Init, CompleteInv, OneCalculates, Progress, Busy, CompleteWhenQuiet

(* The flag goes up outside of a calculation, or the two overlap. *)
LEMMA CompleteLog ==
  ASSUME CompleteInv, TypeOK', AddLine \/ FlagLine \/ WriteLine
  PROVE  CompleteInv'
<1> USE DEF CompleteInv, OneCalculates, Busy
<1>1. OneCalculates'
  BY DEF AddLine, FlagLine, WriteLine, calcVars
<1>2. CASE AddLine
  BY <1>1, <1>2 DEF AddLine, calcVars, CompleteWhenQuiet, Progress
<1>3. CASE FlagLine
  BY <1>1, <1>3 DEF FlagLine, calcVars, CompleteWhenQuiet, Progress
<1>4. CASE WriteLine
  BY <1>1, <1>4 DEF WriteLine, calcVars, CompleteWhenQuiet, Progress, Complete
<1> QED
  BY <1>2, <1>3, <1>4

(* A calculation begins with the flag up, or with complete results. *)
LEMMA CompleteBegin ==
  ASSUME CompleteInv, TypeOK', NEW w \in Workers, Begin(w)
  PROVE  CompleteInv'
<1> USE DEF CompleteInv, OneCalculates, Busy, Begin, logVars, TypeOK
<1>1. OneCalculates'
  OBVIOUS
<1>2. \A v \in Workers : v # w => phase'[v] = "idle"
  OBVIOUS
<1>3. ~overlapped' => ui # "flag" /\ Progress(w)'
  BY DEF Progress, Complete, CompleteWhenQuiet
<1>4. ~overlapped' => \A v \in Workers : Progress(v)'
  BY <1>2, <1>3 DEF Progress
<1> QED
  BY <1>1, <1>3, <1>4 DEF CompleteWhenQuiet

(* Storing the totals of today's lines over complete results changes nothing. *)
LEMMA StoreCompletes ==
  ASSUME NEW w \in Workers, Store(w), Progress(w)
  PROVE  Complete'
<1> USE DEF Store, Progress, Complete, logVars
<1>1. CASE changed
  BY <1>1
<1>2. CASE ~changed
  <2>1. PICK d : subset[w] = OfDate(lines, d)
    BY <1>2
  <2>2. CASE today \in DOMAIN stats /\ today \in DOMAIN Totals(subset[w])
    <3>1. Totals(subset[w])[today] = stats[today]
      BY <1>2, <2>1, <2>2, TotalsOfDate
    <3>2. stats = [e \in DOMAIN stats |-> stats[e]]
      BY <1>2 DEF Totals
    <3>3. stats' = stats
      BY <1>2, <2>2, <3>1, <3>2, SameExcept
    <3> QED
      BY <1>2, <3>3
  <2>3. CASE ~(today \in DOMAIN stats /\ today \in DOMAIN Totals(subset[w]))
    BY <1>2, <2>3
  <2> QED
    BY <2>2, <2>3
<1> QED
  BY <1>1, <1>2

LEMMA CompleteCalculate ==
  ASSUME CompleteInv, TypeOK', NEW w \in Workers, Calculate(w)
  PROVE  CompleteInv'
<1> USE DEF CompleteInv, OneCalculates, Busy, logVars, TypeOK
<1>1. OneCalculates' /\ calculating
  BY DEF Calculate, ReadFlag, Snapshot, Store, ClearFlag, Release
<1>2. \A v \in Workers : v # w => phase'[v] = "idle"
  BY DEF Calculate, ReadFlag, Snapshot, Store, ClearFlag, Release
<1>3. ASSUME ~overlapped PROVE Progress(w)' /\ CompleteWhenQuiet'
  <2>1. CASE ReadFlag(w)
    BY <1>3, <2>1 DEF ReadFlag, Progress, Complete, CompleteWhenQuiet
  <2>2. CASE Snapshot(w)
    BY <1>3, <2>2 DEF Snapshot, Progress, Complete, CompleteWhenQuiet
  <2>3. CASE Store(w)
    <3>1. Complete'
      BY <1>3, <2>3, StoreCompletes
    <3> QED
      BY <1>3, <2>3, <3>1 DEF Store, Progress, CompleteWhenQuiet
  <2>4. CASE ClearFlag(w)
    BY <1>3, <2>4 DEF ClearFlag, Progress, Complete, CompleteWhenQuiet
  <2>5. CASE Release(w)
    BY <1>3, <2>5 DEF Release, Progress, Complete, CompleteWhenQuiet
  <2> QED
    BY <2>1, <2>2, <2>3, <2>4, <2>5 DEF Calculate
<1>4. overlapped' = overlapped /\ ui' = ui
  BY DEF Calculate, ReadFlag, Snapshot, Store, ClearFlag, Release
<1>5. ~overlapped => \A v \in Workers : Progress(v)'
  BY <1>2, <1>3 DEF Progress
<1>6. CompleteWhenQuiet'
  BY <1>3, <1>4 DEF CompleteWhenQuiet
<1> QED
  BY <1>1, <1>4, <1>5, <1>6

LEMMA CompleteStep == CompleteInv /\ [Next]_vars => CompleteInv'
<1> SUFFICES ASSUME CompleteInv, [Next]_vars PROVE CompleteInv'
  OBVIOUS
<1>0. TypeOK'
  BY TypeStep DEF CompleteInv
<1>1. CASE Restart
  BY <1>0, <1>1 DEF Restart, CompleteInv, OneCalculates, Busy, Progress, CompleteWhenQuiet
<1>2. CASE Midnight
  BY <1>0, <1>2 DEF Midnight, logVars, calcVars, CompleteInv, OneCalculates, Busy,
                    Progress, Complete, CompleteWhenQuiet
<1>3. CASE AddLine \/ FlagLine \/ WriteLine
  BY <1>0, <1>3, CompleteLog
<1>4. ASSUME NEW w \in Workers, Begin(w) PROVE CompleteInv'
  BY <1>0, <1>4, CompleteBegin
<1>5. ASSUME NEW w \in Workers, Calculate(w) PROVE CompleteInv'
  BY <1>0, <1>5, CompleteCalculate
<1>6. CASE UNCHANGED vars
  BY <1>0, <1>6 DEF vars, logVars, calcVars, CompleteInv, OneCalculates, Busy,
                    Progress, Complete, CompleteWhenQuiet
<1> QED
  BY <1>1, <1>2, <1>3, <1>4, <1>5, <1>6 DEF Next

(* For any threads, days and lines: with no calculation and no append in the *)
(* middle, and the flag down, the statistics count every line, unless an     *)
(* append overlapped with a calculation.                                     *)
THEOREM StatisticsComplete == Spec => []CompleteWhenQuiet
<1>1. CompleteInv => CompleteWhenQuiet
  BY DEF CompleteInv
<1> QED
  BY CompleteInit, CompleteStep, <1>1, PTL DEF Spec

-----------------------------------------------------------------------------
LEMMA GrowInit == Init => GrowInv
<1> SUFFICES ASSUME Init PROVE GrowInv
  OBVIOUS
<1>1. DOMAIN stats = {}
  BY DEF Init, Totals
<1>2. NoneOfTomorrow
  BY DEF Init, NoneOfTomorrow, Line
<1> QED
  BY <1>1, <1>2, TypeInit DEF Init, GrowInv, OneCalculates, Busy, Counted, Flagged, Newer

(* Only the worker at "store" changes the results. *)
LEMMA GrowStore ==
  ASSUME GrowInv, TypeOK', NEW w \in Workers, Store(w)
  PROVE  GrowInv' /\ Kept
<1> USE DEF GrowInv, Store, logVars, TypeOK
<1> DEFINE new == Totals(subset[w])
<1>1. /\ DOMAIN new = {l.date : l \in subset[w]}
      /\ \A d \in DOMAIN new : new[d] = OfDate(subset[w], d)
  BY DEF Totals
<1>2. \A d \in DOMAIN new : new[d] # {} /\ new[d] \subseteq OfDate(lines, d)
  BY <1>1 DEF OfDate, Newer
<1>3. \A d \in DOMAIN stats \cap DOMAIN new : stats[d] \subseteq new[d]
  BY <1>1 DEF Newer
<1>4. \A d \in DOMAIN stats : all[w] \/ d = today => d \in DOMAIN new
  BY <1>1 DEF Newer
<1>5. changed => all[w] \/ overlapped
  BY DEF Flagged
<1> HIDE DEF new
<1>6. \/ changed /\ stats' = new
      \/ ~changed /\ today \in DOMAIN stats /\ today \in DOMAIN new
         /\ stats' = [stats EXCEPT ![today] = new[today]]
      \/ ~changed /\ stats' = stats
  BY DEF new
<1>7. \A d \in DOMAIN stats' :
        \/ d \in DOMAIN new /\ stats'[d] = new[d]
        \/ d \in DOMAIN stats /\ stats'[d] = stats[d]
  BY <1>6
<1>8. Counted'
  BY <1>2, <1>7 DEF Counted
<1>9. Kept
  <2>1. CASE changed /\ stats' = new
    BY <1>3, <1>4, <1>5, <2>1 DEF Kept
  <2>2. CASE ~changed
    BY <1>3, <1>6, <1>7, <2>2 DEF Kept
  <2> QED
    BY <1>6, <2>1, <2>2
<1>10. OneCalculates' /\ \A v \in Workers : phase'[v] \notin {"snapshot", "store"}
  BY DEF OneCalculates, Busy
<1>11. NoneOfTomorrow'
  BY DEF NoneOfTomorrow
<1> QED
  BY <1>8, <1>9, <1>10, <1>11 DEF Flagged, Newer

LEMMA GrowSnapshot ==
  ASSUME GrowInv, TypeOK', NEW w \in Workers, Snapshot(w)
  PROVE  GrowInv'
<1> USE DEF GrowInv, Snapshot, logVars, TypeOK
<1>1. OneCalculates' /\ \A v \in Workers : v # w => phase'[v] \notin {"snapshot", "store"}
  BY DEF OneCalculates, Busy
<1>2. \/ subset'[w] = lines
      \/ ~all[w] /\ subset'[w] = OfDate(lines, today)
  OBVIOUS
<1>3. subset'[w] \subseteq lines
  BY <1>2 DEF OfDate
<1>4. \A d \in {l.date : l \in subset'[w]} : OfDate(subset'[w], d) = OfDate(lines, d)
  BY <1>2 DEF OfDate
<1>5. \A d \in DOMAIN stats : all[w] \/ d = today => d \in {l.date : l \in subset'[w]}
  BY <1>2 DEF Counted, OfDate
<1>6. Newer(w)'
  BY <1>3, <1>4, <1>5 DEF Newer, Counted
<1>7. Flagged(w)'
  BY DEF Flagged
<1>8. Counted' /\ NoneOfTomorrow'
  BY DEF Counted, NoneOfTomorrow
<1> QED
  BY <1>1, <1>6, <1>7, <1>8 DEF Newer, Flagged

(* Steps outside of a calculation. *)
LEMMA GrowMidnight ==
  ASSUME GrowInv, TypeOK', Midnight
  PROVE  GrowInv'
<1> USE DEF GrowInv, Midnight, logVars, calcVars, TypeOK
<1>1. OneCalculates' /\ Counted' /\ \A w \in Workers : Flagged(w)'
  BY DEF OneCalculates, Busy, Counted, Flagged
<1>2. NoneOfTomorrow'
  BY DEF NoneOfTomorrow
<1>3. \A d \in DOMAIN stats : d # today'
  <2> TAKE d \in DOMAIN stats
  <2>1. PICK l \in lines : l.date = d
    BY DEF Counted, OfDate
  <2> QED
    BY <2>1 DEF NoneOfTomorrow
<1>4. \A w \in Workers : Newer(w)'
  BY <1>3 DEF Newer
<1> QED
  BY <1>1, <1>2, <1>4

LEMMA GrowLog ==
  ASSUME GrowInv, TypeOK', AddLine \/ FlagLine \/ WriteLine
  PROVE  GrowInv' /\ stats' = stats
<1> USE DEF GrowInv, TypeOK
<1>1. /\ stats' = stats /\ today' = today /\ calculating' = calculating
      /\ phase' = phase /\ all' = all /\ subset' = subset
  BY DEF AddLine, FlagLine, WriteLine, calcVars
<1>2. lines \subseteq lines'
  BY DEF AddLine, FlagLine, WriteLine
<1>3. NoneOfTomorrow'
  BY DEF NoneOfTomorrow, AddLine, FlagLine, WriteLine, Line
<1>4. \A d : OfDate(lines, d) \subseteq OfDate(lines', d)
  BY <1>2 DEF OfDate
<1>5. OneCalculates' /\ Counted'
  BY <1>1, <1>4 DEF OneCalculates, Busy, Counted
<1>6. \A w \in Workers : Newer(w)'
  BY <1>1, <1>2 DEF Newer
<1>7. (overlapped => overlapped') /\ (changed' => changed \/ (calculating => overlapped'))
  BY DEF AddLine, FlagLine, WriteLine
<1>8. \A w \in Workers : Flagged(w)'
  BY <1>1, <1>7 DEF Flagged, OneCalculates, Busy
<1> QED
  BY <1>1, <1>3, <1>5, <1>6, <1>8

LEMMA GrowRestart ==
  ASSUME GrowInv, TypeOK', Restart
  PROVE  GrowInv' /\ (lines \subseteq lines' => Kept)
<1> USE DEF GrowInv, Restart, TypeOK
<1>1. /\ DOMAIN stats' = {l.date : l \in lines'}
      /\ \A d \in DOMAIN stats' : stats'[d] = OfDate(lines', d)
  BY DEF Totals
<1>2. Counted'
  BY <1>1 DEF Counted, OfDate
<1>3. lines \subseteq lines' =>
        \A d \in DOMAIN stats : d \in DOMAIN stats' /\ stats[d] \subseteq stats'[d]
  BY <1>1 DEF Counted, OfDate
<1>4. NoneOfTomorrow'
  BY DEF NoneOfTomorrow, Line
<1> QED
  BY <1>2, <1>3, <1>4 DEF OneCalculates, Busy, Flagged, Newer, Kept

LEMMA GrowStep ==
  ASSUME GrowInv, [Next]_vars
  PROVE  GrowInv' /\ (lines \subseteq lines' => Kept)
<1>0. TypeOK'
  BY TypeStep DEF GrowInv
<1>1. stats' = stats => Kept
  BY DEF Kept
<1>2. CASE Restart
  BY <1>0, <1>2, GrowRestart
<1>3. CASE Midnight
  BY <1>0, <1>1, <1>3, GrowMidnight DEF Midnight
<1>4. CASE AddLine \/ FlagLine \/ WriteLine
  BY <1>0, <1>1, <1>4, GrowLog
<1>5. ASSUME NEW w \in Workers, Begin(w) \/ ReadFlag(w) \/ ClearFlag(w) \/ Release(w)
      PROVE  GrowInv' /\ stats' = stats
  <2> USE DEF GrowInv, OneCalculates, Busy, TypeOK, logVars
  <2>1. /\ OneCalculates'
        /\ \A v \in Workers : phase'[v] = "store" => v # w /\ phase[v] = "store"
    BY <1>5, ZenonT(60) DEF Begin, ReadFlag, ClearFlag, Release
  <2>2. /\ stats' = stats /\ lines' = lines /\ file' = file /\ appended' = appended
        /\ today' = today
        /\ \A v \in Workers : v # w => subset'[v] = subset[v] /\ all'[v] = all[v]
    BY <1>5 DEF Begin, ReadFlag, ClearFlag, Release
  <2>3. \A v \in Workers : Newer(v)'
    BY <2>1, <2>2 DEF Newer
  <2>4. \A v \in Workers : v # w => phase'[v] = "idle"
    BY <1>5 DEF Begin, ReadFlag, ClearFlag, Release
  <2>5. Flagged(w)'
    BY <1>5 DEF Begin, ReadFlag, ClearFlag, Release, Flagged
  <2>6. \A v \in Workers : Flagged(v)'
    BY <2>4, <2>5 DEF Flagged
  <2> QED
    BY <1>0, <2>1, <2>2, <2>3, <2>6 DEF Counted, NoneOfTomorrow
<1>6. ASSUME NEW w \in Workers, Snapshot(w)
      PROVE  GrowInv' /\ stats' = stats
  BY <1>0, <1>6, GrowSnapshot DEF Snapshot
<1>7. ASSUME NEW w \in Workers, Store(w)
      PROVE  GrowInv' /\ Kept
  BY <1>0, <1>7, GrowStore
<1>8. CASE UNCHANGED vars
  BY <1>0, <1>1, <1>8 DEF vars, logVars, calcVars, GrowInv, OneCalculates, Busy,
                          NoneOfTomorrow, Counted, Flagged, Newer
<1> QED
  BY <1>1, <1>2, <1>3, <1>4, <1>5, <1>6, <1>7, <1>8 DEF Next, Calculate

(* For any threads, days and lines: while the program runs no result loses a *)
(* line it has counted, but for the whole results of other days than today   *)
(* that an append in the middle of a calculation makes it throw away.        *)
THEOREM ResultsGrow == Spec => TotalsOnlyGrow
<1>1. GrowInv /\ [Next]_vars => GrowInv'
  BY GrowStep
<1>2. GrowInv /\ [Next]_vars =>
        [lines \subseteq lines' =>
           \A d \in DOMAIN stats :
             \/ d \in DOMAIN stats' /\ stats[d] \subseteq stats'[d]
             \/ d \notin DOMAIN stats' /\ d # today /\ overlapped]_vars
  BY GrowStep DEF Kept
<1> QED
  BY GrowInit, <1>1, <1>2, PTL DEF Spec, TotalsOnlyGrow
=============================================================================
