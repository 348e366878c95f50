------------------------------- MODULE DayBook -------------------------------
(***************************************************************************)
(* The observer's accounts of itself: equity and drawdown of every cycle,  *)
(* the cycle counter of the learning session, and one row per day.  The    *)
(* safety_scores table is what its queries return of it: the best equity,  *)
(* the last row, the rows of each day.                                     *)
(***************************************************************************)
EXTENDS ObserverProcess, FiniteSetsExt

CONSTANTS
    Equities,       \* equity a cycle may find
    StartingCash,   \* paper.starting_cash
    DayLength,      \* ticks of a day
    SessionAge,     \* ticks since the learning session started, at clock 0
    TargetDays,     \* --days
    DayCycles,      \* cycles expected of a day
    MaxCount        \* bound: counters stop here

ASSUME DayAssumption ==
    /\ Equities \subseteq Nat
    /\ {StartingCash, DayLength, TargetDays, DayCycles} \subseteq Nat \ {0}
    /\ {SessionAge, MaxCount} \subseteq Nat

VARIABLES
    cycle,          \* _cycle
    peak,           \* _peak_equity
    lastDay,        \* _last_day, NoDay
    safety,         \* safety_scores: MAX(equity), and of the last row the
                    \* equity and the peak its drawdown was measured from
    cyclesOn,       \* safety_scores: rows of each day
    errorsOn,       \* days with a row in errors
    counter,        \* cycles_completed of the learning session
    daily,          \* daily_metrics: day -> row, NoRow
    begun,          \* history: cycles begun since the session started
    ownDays,        \* history: days this process has worked on
    failedDays      \* history: days whose rollover left an error

memory == <<cycle, peak, lastDay, ownDays>>
tables == <<safety, cyclesOn, errorsOn, counter, daily, begun, failedDays>>
dayVars == <<process, memory, tables>>

NoDay == -1
NoRow == [number |-> 0, cycles |-> 0, status |-> "none"]

Day(tick) == tick \div DayLength
Days == 0..Day(MaxClock)
Counted(n) == IF n < MaxCount THEN n + 1 ELSE n
Higher(a, b) == IF a > b THEN a ELSE b

\* Mutant: not held to the length of the window.
DayNumberUnbounded(tick) == (tick + SessionAge) \div DayLength + 1

\* LearningSession.day_number: days since the session's start, from 1.
DayNumber(tick) == Max({1, Min({TargetDays, (tick + SessionAge) \div DayLength + 1})})

DayInit ==
    /\ ProcessInit
    /\ cycle = 0 /\ peak = StartingCash /\ lastDay = NoDay /\ ownDays = {}
    /\ safety = [best |-> 0, equity |-> 0, peak |-> 0]
    /\ cyclesOn = [d \in Days |-> 0] /\ errorsOn = {}
    /\ counter = 0 /\ daily = [d \in Days |-> NoRow]
    /\ begun = 0 /\ failedDays = {}

DayTick == Elapse /\ UNCHANGED <<memory, tables>>

\* Mutant: each start begins with the starting cash.
PeakForgotten == StartingCash

\* Observer.__init__: historical_peak_equity, over the starting cash.
RestoredPeak == Higher(StartingCash, safety.best)

BookOpens ==
    /\ Up
    /\ peak' = RestoredPeak
    /\ UNCHANGED <<cycle, lastDay, ownDays, tables>>

\* The memory is lost with the process.
BookDies ==
    /\ Down
    /\ cycle' = 0 /\ peak' = StartingCash /\ lastDay' = NoDay /\ ownDays' = {}
    /\ UNCHANGED tables

BookWakes ==
    /\ Wake("record")
    /\ cycle' = Counted(cycle) /\ begun' = Counted(begun)
    /\ UNCHANGED <<peak, lastDay, ownDays, safety, cyclesOn, errorsOn, counter, daily,
                   failedDays>>

\* What run_once does with the equity: the peak, then a row with the drawdown.
Record ==
    /\ At("record") /\ Go("learn")
    /\ \E equity \in Equities :
          /\ peak' = Higher(peak, equity)
          /\ safety' = [best |-> Higher(safety.best, equity),
                        equity |-> equity, peak |-> peak']
    /\ cyclesOn' = [cyclesOn EXCEPT ![Day(now)] = Counted(@)]
    /\ UNCHANGED <<cycle, lastDay, ownDays, errorsOn, counter, daily, begun, failedDays>>

\* The row is not written: the peak has moved, the cycle ends with an error row.
RecordFails ==
    /\ At("record") /\ Raise
    /\ \E equity \in Equities : peak' = Higher(peak, equity)
    /\ errorsOn' = errorsOn \cup {Day(clock)}
    /\ UNCHANGED <<cycle, lastDay, ownDays, safety, cyclesOn, counter, daily, begun,
                   failedDays>>

\* Mutant: the cycles of every process are added up, each time anew.
CounterSummed == counter + cycle

\* _learning_cycle: update_learning_session with this process's cycle number.
CounterWritten == cycle

Learn ==
    /\ At("learn") /\ Go("rollover")
    /\ counter' = CounterWritten
    /\ UNCHANGED <<memory, safety, cyclesOn, errorsOn, daily, begun, failedDays>>

LearnFails ==
    /\ At("learn") /\ Raise
    /\ errorsOn' = errorsOn \cup {Day(clock)}
    /\ UNCHANGED <<memory, safety, cyclesOn, counter, daily, begun, failedDays>>

\* roll_up_day.
RolledUp(day) ==
    LET uptime == Min({100, (100 * cyclesOn[day]) \div DayCycles})
    IN  [number |-> Higher(1, DayNumber(now) - 1),
         cycles |-> cyclesOn[day],
         status |-> IF day \in errorsOn \/ uptime < 50 THEN "red"
                    ELSE IF uptime < 85 THEN "yellow" ELSE "green"]

\* Mutant: the day that has just begun is rolled up.
DayBegun == Day(now)

\* The day _day_rollover is called with.
DayEnded == lastDay

DayChanged == lastDay # NoDay /\ lastDay # Day(now)

\* The end of _learning_cycle.
DayNoted == lastDay' = Day(now) /\ ownDays' = ownDays \cup {Day(now)}

SameDay ==
    /\ At("rollover") /\ Go("idle") /\ ~DayChanged
    /\ DayNoted
    /\ UNCHANGED <<cycle, peak, tables>>

Rollover ==
    /\ At("rollover") /\ Go("idle") /\ DayChanged
    /\ daily' = [daily EXCEPT ![DayEnded] = RolledUp(DayEnded)]
    /\ DayNoted
    /\ UNCHANGED <<cycle, peak, safety, cyclesOn, errorsOn, counter, begun, failedDays>>

\* The rollover raises, before or after it has written the daily row: an error
\* row, and the day is not tried again.
RolloverFails ==
    /\ At("rollover") /\ Swallow("idle") /\ DayChanged
    /\ \/ daily' = [daily EXCEPT ![DayEnded] = RolledUp(DayEnded)]
       \/ UNCHANGED daily
    /\ errorsOn' = errorsOn \cup {Day(clock)}
    /\ failedDays' = failedDays \cup {lastDay}
    /\ DayNoted
    /\ UNCHANGED <<cycle, peak, safety, cyclesOn, counter, begun>>

\* The error row cannot be written either: the cycle fails, and its successor
\* tries the day again.
RolloverRaises ==
    /\ At("rollover") /\ Raise /\ DayChanged
    /\ errorsOn' = errorsOn \cup {Day(clock)}
    /\ UNCHANGED <<memory, safety, cyclesOn, counter, daily, begun, failedDays>>

DayNext ==
    \/ DayTick \/ BookOpens \/ BookDies \/ BookWakes
    \/ Record \/ RecordFails \/ Learn \/ LearnFails
    \/ SameDay \/ Rollover \/ RolloverFails \/ RolloverRaises

DaySpec == DayInit /\ [][DayNext]_dayVars

-----------------------------------------------------------------------------
(* Properties *)

DayTypeOK ==
    /\ ProcessOK
    /\ {cycle, counter, begun} \subseteq 0..MaxCount
    /\ peak \in Nat /\ lastDay \in Days \cup {NoDay}
    /\ safety \in [best : Nat, equity : Nat, peak : Nat]
    /\ cyclesOn \in [Days -> 0..MaxCount]
    /\ errorsOn \cup ownDays \cup failedDays \subseteq Days
    /\ \A d \in Days : daily[d] # NoRow => daily[d].number \in 1..TargetDays

\* A restart does not lower the mark that the drawdown is measured from: no
\* row is written against less than the best equity on record.
DrawdownFromBestOnRecord == safety.peak >= safety.best

\* A day that a process worked on and outlived has its daily row, with every
\* recorded cycle of the day, or its rollover left an error.  (A process that
\* dies over midnight leaves the day without a row.)
NoDayLostSilently ==
    \A d \in ownDays \ {lastDay} :
        \/ daily[d] # NoRow /\ daily[d].cycles = cyclesOn[d]
        \/ d \in failedDays

\* The session's counter, and so its uptime, never says more than the cycles
\* that were begun since the session started.  (It may say less: a restart
\* overwrites it with the new process's count.)
UptimeNotOverstated == counter <= begun
=============================================================================
