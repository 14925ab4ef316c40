------------------------------ MODULE Timesheet ------------------------------
(***************************************************************************)
(* Timesheet/Timesheet.cs and the threads frmMain gives it: the user        *)
(* interface appends lines to the log, in memory and in a file; every       *)
(* second a thread of the pool calculates the statistics, of all days when  *)
(* LogLinesChanged, of today otherwise.  The two share no lock.             *)
(*                                                                          *)
(* The statistic of a date stands for the lines it was calculated from.  A  *)
(* line is known by its number and its date.                                *)
(***************************************************************************)
EXTENDS Integers, FiniteSets

CONSTANTS
  Workers,   \* threads of the pool
  MaxRecord, \* bound of the exploration: numbers of lines
  MaxDay     \* bound of the exploration: dates

ASSUME TimesheetAssumption == MaxRecord \in Nat /\ MaxDay \in Nat

VARIABLES
  file,        \* the lines in LogFilename
  today,       \* DateTime.Now.Date
  record,      \* RecordNumber
  lines,       \* LogLines
  changed,     \* LogLinesChanged
  stats,       \* StatisticsResults: per date the lines it counts
  calculating, \* IsCalculatingResults
  phase,       \* each worker's place in CalculateStatisticsResults
  all,         \* each worker's first reading of LogLinesChanged
  subset,      \* each worker's subset
  ui,          \* where AppendToLog is: "idle", "flag" or "write"
  appended,    \* the line it is appending
  overlapped   \* history: an append and a calculation overlapped since the
               \* last calculation of all days that started outside an append

logVars == <<file, record, lines, ui, appended>>
calcVars == <<phase, all, subset>>
vars == <<logVars, today, changed, stats, calculating, calcVars, overlapped>>

Line(number, date) == [number |-> number, date |-> date]
Lines == {Line(n, d) : n \in 1..MaxRecord, d \in 1..MaxDay}

OfDate(s, d) == {l \in s : l.date = d}

(* The query of CalculateStatisticsResults: a group for every date there is. *)
Totals(s) == [d \in {l.date : l \in s} |-> OfDate(s, d)]

NextRecord(s) == IF s = {} THEN 1 ELSE 1 + CHOOSE n \in {l.number : l \in s} :
                                             \A l \in s : l.number <= n

Init ==
  /\ today = 1
  /\ file = {} /\ lines = {} /\ record = 1
  /\ changed = FALSE /\ stats = Totals({}) /\ calculating = FALSE
  /\ phase = [w \in Workers |-> "idle"]
  /\ all = [w \in Workers |-> FALSE]
  /\ subset = [w \in Workers |-> {}]
  /\ ui = "idle" /\ appended = Line(0, 0)
  /\ overlapped = FALSE

-----------------------------------------------------------------------------
(* The program ends, wherever it is, and is started again: LoadFromLog reads *)
(* the file and calculates all of it before the form is up.  The file has    *)
(* whole lines only: one that cannot be parsed is not modelled.              *)
Restart ==
  /\ lines' = file /\ record' = NextRecord(file)
  /\ changed' = FALSE /\ stats' = Totals(file) /\ calculating' = FALSE
  /\ phase' = [w \in Workers |-> "idle"]
  /\ all' = [w \in Workers |-> FALSE]
  /\ subset' = [w \in Workers |-> {}]
  /\ ui' = "idle" /\ appended' = Line(0, 0)
  /\ overlapped' = FALSE
  /\ UNCHANGED <<file, today>>

Midnight ==
  /\ today < MaxDay
  /\ today' = today + 1
  /\ UNCHANGED <<logVars, changed, stats, calculating, calcVars, overlapped>>

(* AppendToLog: the line goes into LogLines ... *)
AddLine ==
  /\ ui = "idle" /\ record <= MaxRecord
  /\ appended' = Line(record, today)
  /\ lines' = lines \cup {Line(record, today)}
  /\ record' = record + 1
  /\ ui' = "flag"
  /\ overlapped' = (overlapped \/ calculating)
  /\ UNCHANGED <<file, today, changed, stats, calculating, calcVars>>

(* ... LogLinesChanged is set ... *)
FlagLine ==
  /\ ui = "flag"
  /\ changed' = TRUE
  /\ ui' = "write"
  /\ overlapped' = (overlapped \/ calculating)
  /\ UNCHANGED <<file, record, lines, appended, today, stats, calculating, calcVars>>

(* ... and the line is written to the file, or that throws. *)
WriteLine ==
  /\ ui = "write"
  /\ file' \in {file, file \cup {appended}}
  /\ ui' = "idle" /\ appended' = Line(0, 0)
  /\ UNCHANGED <<record, lines, today, changed, stats, calculating, calcVars, overlapped>>

-----------------------------------------------------------------------------
(* Mutant: IsCalculatingResults is not looked at. *)
BeginAnyway(w) ==
  /\ phase[w] = "idle"
  /\ calculating' = TRUE
  /\ phase' = [phase EXCEPT ![w] = "begun"]
  /\ overlapped' = (IF changed /\ ui # "flag" THEN FALSE ELSE overlapped \/ ui = "flag")
  /\ UNCHANGED <<logVars, today, changed, stats, all, subset>>

(* CompareExchange lets one in; the others return at once, changing nothing. *)
Begin(w) ==
  /\ phase[w] = "idle"
  /\ ~calculating
  /\ calculating' = TRUE
  /\ phase' = [phase EXCEPT ![w] = "begun"]
  /\ overlapped' = (IF changed /\ ui # "flag" THEN FALSE ELSE overlapped \/ ui = "flag")
  /\ UNCHANGED <<logVars, today, changed, stats, all, subset>>

(* LogLinesChanged is read ... *)
ReadFlag(w) ==
  /\ phase[w] = "begun"
  /\ all' = [all EXCEPT ![w] = changed]
  /\ phase' = [phase EXCEPT ![w] = "snapshot"]
  /\ UNCHANGED <<logVars, today, changed, stats, calculating, subset, overlapped>>

(* Mutant: every calculation takes the lines of today. *)
SnapshotToday(w) ==
  /\ phase[w] = "snapshot"
  /\ subset' = [subset EXCEPT ![w] = OfDate(lines, today)]
  /\ phase' = [phase EXCEPT ![w] = "store"]
  /\ UNCHANGED <<logVars, today, changed, stats, calculating, all, overlapped>>

(* ... and all lines, or those of today, are taken. *)
Snapshot(w) ==
  /\ phase[w] = "snapshot"
  /\ subset' = [subset EXCEPT ![w] = IF all[w] THEN lines ELSE OfDate(lines, today)]
  /\ phase' = [phase EXCEPT ![w] = "store"]
  /\ UNCHANGED <<logVars, today, changed, stats, calculating, all, overlapped>>

(* Mutant: the results are replaced only when there are none of today. *)
StoreNewDate(w) ==
  /\ phase[w] = "store"
  /\ LET new == Totals(subset[w])
     IN  stats' = IF today \notin DOMAIN stats THEN new ELSE stats
  /\ phase' = [phase EXCEPT ![w] = "finally"]
  /\ UNCHANGED <<logVars, today, changed, calculating, all, subset, overlapped>>

(* LogLinesChanged is read again: everything is replaced, or the result of   *)
(* today.  If there is no result of today, old or new, the reference is null *)
(* and the exception is caught.  Nobody else stores, so the second reading   *)
(* and the storing are one step.                                             *)
Store(w) ==
  /\ phase[w] = "store"
  /\ LET new == Totals(subset[w])
     IN  stats' = IF changed THEN new
                  ELSE IF today \in DOMAIN stats /\ today \in DOMAIN new
                  THEN [stats EXCEPT ![today] = new[today]]
                  ELSE stats
  /\ phase' = [phase EXCEPT ![w] = "finally"]
  /\ UNCHANGED <<logVars, today, changed, calculating, all, subset, overlapped>>

(* The finally block: LogLinesChanged, then IsCalculatingResults. *)
ClearFlag(w) ==
  /\ phase[w] = "finally"
  /\ changed' = FALSE
  /\ phase' = [phase EXCEPT ![w] = "release"]
  /\ UNCHANGED <<logVars, today, stats, calculating, all, subset, overlapped>>

(* ... and the locals of the call are gone. *)
Release(w) ==
  /\ phase[w] = "release"
  /\ calculating' = FALSE
  /\ phase' = [phase EXCEPT ![w] = "idle"]
  /\ all' = [all EXCEPT ![w] = FALSE]
  /\ subset' = [subset EXCEPT ![w] = {}]
  /\ UNCHANGED <<logVars, today, changed, stats, overlapped>>

Calculate(w) ==
  ReadFlag(w) \/ Snapshot(w) \/ Store(w) \/ ClearFlag(w) \/ Release(w)

Next ==
  \/ Restart \/ Midnight
  \/ AddLine \/ FlagLine \/ WriteLine
  \/ \E w \in Workers : Begin(w) \/ Calculate(w)

Spec == Init /\ [][Next]_vars

(* The timer goes on asking for calculations, and one that has begun runs to *)
(* its end; so does an append.  Nothing obliges anyone to append.            *)
FairSpec ==
  /\ Spec
  /\ WF_vars(FlagLine) /\ WF_vars(WriteLine)
  /\ WF_vars(\E w \in Workers : Begin(w))
  /\ \A w \in Workers : WF_vars(Calculate(w))

-----------------------------------------------------------------------------
TypeOK ==
  /\ today \in Nat
  /\ calculating \in BOOLEAN /\ changed \in BOOLEAN /\ overlapped \in BOOLEAN
  /\ phase \in [Workers -> {"idle", "begun", "snapshot", "store", "finally", "release"}]
  /\ all \in [Workers -> BOOLEAN]
  /\ DOMAIN subset = Workers
  /\ ui \in {"idle", "flag", "write"}

(* Between calculations, with the flag down and no append in the middle, the *)
(* statistics count every line of every day -- unless an append came in the  *)
(* middle of a calculation (Timesheet.cs:105-120 against 225-285).           *)
CompleteWhenQuiet ==
  ~calculating /\ ~changed /\ ~overlapped /\ ui # "flag" => stats = Totals(lines)

(* Within a run of the program a result never loses a line it has counted:   *)
(* no late calculation stores over a newer one.  What the code does lose is  *)
(* whole results, and only of other days than today: an append in the middle *)
(* of a calculation of today makes it replace the results of all days by its *)
(* own (Timesheet.cs:234-236 against 263-276).                               *)
TotalsOnlyGrow ==
  [][lines \subseteq lines' =>
       \A d \in DOMAIN stats :
         \/ d \in DOMAIN stats' /\ stats[d] \subseteq stats'[d]
         \/ d \notin DOMAIN stats' /\ d # today /\ overlapped]_vars

(* A line is counted in the end when its append met no calculation. *)
AppendedCounted == changed /\ ~overlapped ~> stats = Totals(lines) \/ overlapped

(* "we still want today updated" (line 226): every line of today is counted  *)
(* in the end, also one whose flag was lost to a calculation -- unless today *)
(* has no result that could be updated.  Then the line is not counted at     *)
(* all: line 267 finds no result, 269 throws on the null, at every tick.     *)
(* That is the fate of the first lines of a day when the flag they set is    *)
(* lost (285), hence only after an append and a calculation overlapped.      *)
TodayUpdated ==
  \A l \in Lines :
    l \in lines /\ l.date = today
      ~> \/ l.date \in DOMAIN stats /\ l \in stats[l.date]
         \/ l.date # today \/ l \notin lines
         \/ overlapped /\ today \notin DOMAIN stats
=============================================================================
