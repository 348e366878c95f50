---------------------------- MODULE DayBookProofs ----------------------------
(***************************************************************************)
(* Proofs about the observer's accounts of itself, for every length of a   *)
(* day, any equity and any number of deaths and failing writes.  Days only *)
(* grow within the life of a process: that is why a rolled-up day stays as *)
(* it was rolled up.                                                       *)
(***************************************************************************)
EXTENDS DayBook, TLAPS

\* The constants, one by one.
LEMMA Bounds ==
    /\ MaxClock \in Nat /\ MaxFaults \in Nat /\ MaxCrashes \in Nat /\ MaxCount \in Nat
    /\ StartingCash \in Nat /\ DayLength \in Nat \ {0} /\ Equities \subseteq Nat
  BY ProcessAssumption, DayAssumption

------------------------------------------------------------------------------
(* Days *)

\* A later tick is not on an earlier day.
LEMMA DaysGrow ==
    ASSUME NEW a \in Nat, NEW b \in Nat, a <= b
    PROVE  Day(a) \in Nat /\ Day(b) \in Nat /\ Day(a) <= Day(b)
  <1>1. \A n \in Nat : /\ Day(n) \in Nat
                       /\ DayLength * Day(n) <= n
                       /\ n < DayLength * Day(n) + DayLength
    BY Bounds DEF Day
  <1>2. ASSUME Day(a) > Day(b) PROVE FALSE
    <2> DEFINE k == Day(a) - Day(b) - 1
    <2>1. k \in Nat /\ Day(a) = Day(b) + 1 + k
      BY <1>1, <1>2
    <2> HIDE DEF k
    <2>2. DayLength * Day(a) = DayLength * Day(b) + DayLength + DayLength * k
      BY <1>1, <2>1, Bounds
    <2>3. DayLength * k \in Nat /\ DayLength * Day(b) \in Nat /\ DayLength \in Nat
      BY <1>1, <2>1, Bounds
    <2>4. DayLength * Day(a) >= DayLength * Day(b) + DayLength
      BY <1>1, <2>2, <2>3
    <2>5. DayLength * Day(a) <= a /\ b < DayLength * Day(b) + DayLength
      BY <1>1
    <2>6. DayLength * Day(a) \in Int /\ DayLength * Day(b) \in Int /\ DayLength \in Int
      BY <1>1, Bounds
    <2> QED
      BY <2>4, <2>5, <2>6
  <1> QED
    BY <1>1, <1>2

------------------------------------------------------------------------------
(* The inductive invariant *)

\* The part of the types the proofs need.
Typed ==
    /\ ProcessOK
    /\ step \in {"idle", "record", "learn", "rollover"}
    /\ {cycle, counter, begun} \subseteq 0..MaxCount
    /\ peak \in Nat
    /\ safety \in [best : Nat, equity : Nat, peak : Nat]
    /\ cyclesOn = [d \in Days |-> cyclesOn[d]] /\ daily = [d \in Days |-> daily[d]]

\* A process that is alive measures from the best equity on record.
MarkKept ==
    /\ up => peak >= safety.best
    /\ safety.peak >= safety.best

\* The number of a process's cycle is one of those begun since the session
\* started, and so is the counter it writes.
CyclesBegun == cycle <= begun /\ counter <= begun

\* A process works on days one after the other, up to the day of its cycle.
DaysInOrder ==
    /\ ~up => ownDays = {} /\ step = "idle"
    /\ step # "idle" => now \in Nat
    /\ ownDays # {} => now \in Nat /\ lastDay \in Nat /\ lastDay <= Day(now)
    /\ lastDay # NoDay => lastDay \in ownDays
    /\ \A d \in ownDays : d \in Days /\ d <= lastDay

DayInv == Typed /\ MarkKept /\ CyclesBegun /\ DaysInOrder /\ NoDayLostSilently

LEMMA DayInvInit == DayInit => DayInv
  <1> SUFFICES ASSUME DayInit PROVE DayInv
    OBVIOUS
  <1>1. Typed
    <2>1. ProcessOK
      <3>1. clock = 0 /\ up = FALSE /\ now = -1 /\ faults = 0 /\ crashes = 0
        BY DEF DayInit, ProcessInit, NoTime
      <3>2. up \in BOOLEAN
        BY <3>1
      <3>3. /\ clock \in 0..MaxClock /\ now \in -1..clock
            /\ faults \in 0..MaxFaults /\ crashes \in 0..MaxCrashes
        BY <3>1, Bounds
      <3> QED
        BY <3>2, <3>3 DEF ProcessOK
    <2>2. safety \in [best : Nat, equity : Nat, peak : Nat]
      BY DEF DayInit
    <2>3. cyclesOn = [d \in Days |-> cyclesOn[d]] /\ daily = [d \in Days |-> daily[d]]
      BY DEF DayInit
    <2> QED
      BY Bounds, <2>1, <2>2, <2>3 DEF DayInit, ProcessInit, Typed
  <1> QED
    BY <1>1 DEF DayInit, ProcessInit, DayInv, MarkKept, CyclesBegun, DaysInOrder,
                NoDayLostSilently, NoDay

\* The day of a cycle is a day.
LEMMA CycleDay ==
    ASSUME DayInv, step # "idle"
    PROVE  Day(now) \in Days /\ Day(now) \in Nat
  <1>1. now \in Nat /\ clock \in 0..MaxClock /\ now <= clock
    BY DEF DayInv, DaysInOrder, Typed, ProcessOK
  <1>2. Day(now) \in Nat /\ Day(MaxClock) \in Nat /\ Day(now) <= Day(MaxClock)
    BY <1>1, Bounds, DaysGrow
  <1> QED
    BY <1>2 DEF Days

\* Counters stop at their bound.
LEMMA Counting ==
    ASSUME NEW n \in 0..MaxCount, NEW m \in 0..MaxCount, n <= m
    PROVE  Counted(n) \in 0..MaxCount /\ Counted(n) <= Counted(m)
  BY Bounds DEF Counted

\* Record, or its failure: the mark is raised before the row is written.
LEMMA MarkRaised ==
    ASSUME DayInv, NEW equity \in Nat
    PROVE  /\ Higher(peak, equity) \in Nat /\ Higher(safety.best, equity) \in Nat
           /\ Higher(peak, equity) >= peak
           /\ up => Higher(peak, equity) >= Higher(safety.best, equity)
  BY DEF DayInv, MarkKept, Typed, Higher

LEMMA InvRecord ==
    ASSUME DayInv, Record
    PROVE  DayInv'
  <1>1. /\ up /\ step = "record" /\ step' = "learn"
        /\ UNCHANGED <<clock, up, now, faults, crashes>>
        /\ UNCHANGED <<cycle, lastDay, ownDays, errorsOn, counter, daily, begun, failedDays>>
    BY DEF Record, At, Go
  <1>2. PICK equity \in Equities :
           /\ peak' = Higher(peak, equity)
           /\ safety' = [best |-> Higher(safety.best, equity),
                         equity |-> equity, peak |-> peak']
    BY DEF Record
  <1>3. cyclesOn' = [cyclesOn EXCEPT ![Day(now)] = Counted(@)]
    BY DEF Record
  <1>4. equity \in Nat
    BY Bounds
  <1>5. Day(now) \in Days /\ Day(now) \in Nat
    BY <1>1, CycleDay
  <1>6. /\ peak' \in Nat /\ safety'.best \in Nat /\ safety'.peak = peak'
        /\ peak' >= safety'.best
        /\ safety' \in [best : Nat, equity : Nat, peak : Nat]
    BY <1>1, <1>2, <1>4, MarkRaised
  <1>7. Typed'
    BY <1>1, <1>3, <1>5, <1>6 DEF DayInv, Typed, ProcessOK, Days
  <1>8. MarkKept' /\ CyclesBegun' /\ DaysInOrder'
    BY <1>1, <1>6 DEF DayInv, MarkKept, CyclesBegun, DaysInOrder, Days
  <1>9. NoDayLostSilently'
    <2>1. ASSUME NEW d \in ownDays, d # lastDay PROVE cyclesOn'[d] = cyclesOn[d]
      <3>1. d \in Nat /\ d <= lastDay /\ lastDay <= Day(now) /\ lastDay \in Nat
        BY <2>1 DEF DayInv, DaysInOrder, Days
      <3>2. d # Day(now)
        BY <1>5, <2>1, <3>1
      <3> QED
        BY <1>3, <2>1, <3>2 DEF DayInv, Typed, DaysInOrder
    <2> QED
      BY <1>1, <2>1 DEF DayInv, NoDayLostSilently
  <1> QED
    BY <1>7, <1>8, <1>9 DEF DayInv

LEMMA InvRecordFails ==
    ASSUME DayInv, RecordFails
    PROVE  DayInv'
  <1>1. /\ up /\ step' = "idle" /\ faults < MaxFaults /\ faults' = faults + 1
        /\ UNCHANGED <<clock, up, now, crashes>>
        /\ UNCHANGED <<cycle, lastDay, ownDays, safety, cyclesOn, counter, daily, begun,
                       failedDays>>
    BY DEF RecordFails, At, Raise, Swallow
  <1>2. PICK equity \in Equities : peak' = Higher(peak, equity)
    BY DEF RecordFails
  <1>3. equity \in Nat
    BY Bounds
  <1>4. peak' \in Nat /\ peak' >= peak
    BY <1>2, <1>3, MarkRaised
  <1>5. Typed'
    <2>1. ProcessOK'
      BY <1>1, Bounds DEF DayInv, Typed, ProcessOK
    <2> QED
      BY <1>1, <1>4, <2>1 DEF DayInv, Typed
  <1>6. MarkKept'
    BY <1>1, <1>4 DEF DayInv, Typed, MarkKept
  <1>7. CyclesBegun' /\ DaysInOrder' /\ NoDayLostSilently'
    BY <1>1 DEF DayInv, CyclesBegun, DaysInOrder, NoDayLostSilently
  <1> QED
    BY <1>5, <1>6, <1>7 DEF DayInv

\* The session's counter is overwritten with the cycle of this process.
LEMMA InvLearn ==
    ASSUME DayInv, Learn
    PROVE  DayInv'
  <1>1. /\ up /\ step' = "rollover" /\ counter' = cycle
        /\ UNCHANGED <<clock, up, now, faults, crashes>>
        /\ UNCHANGED <<memory, safety, cyclesOn, errorsOn, daily, begun, failedDays>>
        /\ step = "learn"
    BY DEF Learn, At, Go, CounterWritten
  <1>2. Typed'
    <2>1. ProcessOK'
      BY <1>1, Bounds DEF DayInv, Typed, ProcessOK
    <2> QED
      BY <1>1, <2>1 DEF DayInv, Typed, memory
  <1>3. MarkKept' /\ CyclesBegun' /\ DaysInOrder' /\ NoDayLostSilently'
    BY <1>1 DEF DayInv, MarkKept, CyclesBegun, DaysInOrder, NoDayLostSilently, memory, Days
  <1> QED
    BY <1>2, <1>3 DEF DayInv

\* A step that fails, and leaves an error row at most.
LEMMA InvFails ==
    ASSUME DayInv, LearnFails \/ RolloverRaises
    PROVE  DayInv'
  <1>1. /\ up /\ step' = "idle" /\ faults < MaxFaults /\ faults' = faults + 1
        /\ UNCHANGED <<clock, up, now, crashes>>
        /\ UNCHANGED <<memory, safety, cyclesOn, counter, daily, begun, failedDays>>
    BY DEF LearnFails, RolloverRaises, At, Raise, Swallow
  <1>2. Typed'
    <2>1. ProcessOK'
      BY <1>1, Bounds DEF DayInv, Typed, ProcessOK
    <2> QED
      BY <1>1, <2>1 DEF DayInv, Typed, memory
  <1>3. MarkKept' /\ CyclesBegun' /\ DaysInOrder' /\ NoDayLostSilently'
    BY <1>1 DEF DayInv, MarkKept, CyclesBegun, DaysInOrder, NoDayLostSilently, memory, Days
  <1> QED
    BY <1>2, <1>3 DEF DayInv

\* The end of a cycle: the day that was left is rolled up, or its failure is
\* on record, before the day of this cycle takes its place.
LEMMA InvDayNoted ==
    ASSUME DayInv, up, step = "rollover", step' = "idle", DayNoted,
           UNCHANGED <<clock, up, now, crashes, cycle, peak, safety, cyclesOn, counter, begun>>,
           faults' \in 0..MaxFaults,
           \/ daily' = [daily EXCEPT ![lastDay] = RolledUp(lastDay)]
           \/ UNCHANGED daily,
           failedDays \subseteq failedDays',
           \/ lastDay = NoDay \/ lastDay = Day(now)
           \/ lastDay \in failedDays'
           \/ daily' = [daily EXCEPT ![lastDay] = RolledUp(lastDay)]
    PROVE  DayInv'
  <1>1. Day(now) \in Days /\ Day(now) \in Nat /\ now \in Nat
    BY CycleDay DEF DayInv, DaysInOrder
  <1>2. lastDay' = Day(now) /\ ownDays' = ownDays \cup {Day(now)}
    BY DEF DayNoted
  <1>3. Typed'
    BY DEF DayInv, Typed, ProcessOK, Days
  <1>4. MarkKept' /\ CyclesBegun'
    BY DEF DayInv, MarkKept, CyclesBegun
  <1>5. ownDays # {} => lastDay \in Nat /\ lastDay <= Day(now)
    BY DEF DayInv, DaysInOrder
  <1>6. \A d \in ownDays : d \in Days /\ d \in Nat /\ d <= lastDay
    BY DEF DayInv, DaysInOrder, Days
  <1>7. \A d \in ownDays : d <= Day(now)
    BY <1>1, <1>5, <1>6
  <1>8. Day(now') = Day(now) /\ Day(now) <= Day(now)
    BY <1>1
  <1>9. Day(now) # NoDay
    BY <1>1 DEF NoDay
  <1>10. DaysInOrder'
    BY <1>1, <1>2, <1>6, <1>7, <1>8, <1>9 DEF DayInv, DaysInOrder, Days
  <1>11. NoDayLostSilently'
    <2> SUFFICES ASSUME NEW d \in ownDays, d # Day(now)
                 PROVE  \/ daily'[d] # NoRow /\ daily'[d].cycles = cyclesOn[d]
                        \/ d \in failedDays'
      BY <1>2 DEF NoDayLostSilently
    <2>1. d \in DOMAIN daily
      BY <1>6 DEF DayInv, Typed
    <2>2. /\ RolledUp(lastDay).cycles = cyclesOn[lastDay]
          /\ RolledUp(lastDay).status \in {"red", "yellow", "green"}
      BY DEF RolledUp
    <2>3. RolledUp(lastDay) # NoRow
      BY <2>2 DEF NoRow
    <2>4. CASE d = lastDay
      <3>1. d # NoDay
        BY <1>6 DEF NoDay
      <3>2. CASE daily' = [daily EXCEPT ![lastDay] = RolledUp(lastDay)]
        <4>1. daily'[d] = RolledUp(lastDay)
          BY <2>1, <2>4, <3>2
        <4> QED
          BY <2>2, <2>3, <2>4, <4>1
      <3> QED
        BY <2>4, <3>1, <3>2
    <2>5. CASE d # lastDay
      <3>1. \/ daily[d] # NoRow /\ daily[d].cycles = cyclesOn[d]
            \/ d \in failedDays
        BY <2>5 DEF DayInv, NoDayLostSilently
      <3>2. daily'[d] = daily[d]
        BY <2>1, <2>5
      <3> QED
        BY <3>1, <3>2
    <2> QED
      BY <2>4, <2>5
  <1> QED
    BY <1>3, <1>4, <1>10, <1>11 DEF DayInv

LEMMA InvRollover ==
    ASSUME DayInv, SameDay \/ Rollover \/ RolloverFails
    PROVE  DayInv'
  <1>1. /\ up /\ step = "rollover" /\ step' = "idle" /\ DayNoted
        /\ UNCHANGED <<clock, up, now, crashes, cycle, peak, safety, cyclesOn, counter, begun>>
    BY DEF SameDay, Rollover, RolloverFails, At, Go, Swallow, tables
  <1>2. faults' \in 0..MaxFaults
    BY Bounds DEF DayInv, Typed, ProcessOK, SameDay, Rollover, RolloverFails, Go, Swallow
  <1>3. CASE SameDay
    <2>1. UNCHANGED <<daily, failedDays>> /\ (lastDay = NoDay \/ lastDay = Day(now))
      BY <1>3 DEF SameDay, DayChanged, tables
    <2> QED
      BY <1>1, <1>2, <2>1, InvDayNoted
  <1>4. CASE Rollover
    <2>1. UNCHANGED failedDays /\ daily' = [daily EXCEPT ![lastDay] = RolledUp(lastDay)]
      BY <1>4 DEF Rollover, DayEnded
    <2> QED
      BY <1>1, <1>2, <2>1, InvDayNoted
  <1>5. CASE RolloverFails
    <2>1. /\ failedDays' = failedDays \cup {lastDay}
          /\ \/ daily' = [daily EXCEPT ![lastDay] = RolledUp(lastDay)]
             \/ UNCHANGED daily
      BY <1>5 DEF RolloverFails, DayEnded
    <2> QED
      BY <1>1, <1>2, <2>1, InvDayNoted
  <1> QED
    BY <1>3, <1>4, <1>5

\* Time passes between cycles; a process wakes up to a cycle of its own.
LEMMA InvTick ==
    ASSUME DayInv, DayTick
    PROVE  DayInv'
  <1>1. /\ clock < MaxClock /\ clock' = clock + 1
        /\ UNCHANGED <<up, step, now, faults, crashes>> /\ UNCHANGED <<memory, tables>>
    BY DEF DayTick, Elapse
  <1>2. Typed'
    <2>1. ProcessOK'
      BY <1>1, Bounds DEF DayInv, Typed, ProcessOK
    <2> QED
      BY <1>1, <2>1 DEF DayInv, Typed, memory, tables
  <1>3. MarkKept' /\ CyclesBegun' /\ DaysInOrder' /\ NoDayLostSilently'
    BY <1>1 DEF DayInv, MarkKept, CyclesBegun, DaysInOrder, NoDayLostSilently, memory, tables
  <1> QED
    BY <1>2, <1>3 DEF DayInv

LEMMA InvWakes ==
    ASSUME DayInv, BookWakes
    PROVE  DayInv'
  <1>1. /\ up /\ step = "idle" /\ now' = clock /\ step' = "record"
        /\ cycle' = Counted(cycle) /\ begun' = Counted(begun)
        /\ UNCHANGED <<clock, up, faults, crashes>>
        /\ UNCHANGED <<peak, lastDay, ownDays, safety, cyclesOn, errorsOn, counter, daily,
                       failedDays>>
    BY DEF BookWakes, Wake, At
  <1>2. /\ cycle \in 0..MaxCount /\ begun \in 0..MaxCount /\ cycle <= begun
        /\ counter \in 0..MaxCount /\ counter <= begun
    BY DEF DayInv, Typed, CyclesBegun
  <1>3. /\ Counted(cycle) \in 0..MaxCount /\ Counted(begun) \in 0..MaxCount
        /\ Counted(cycle) <= Counted(begun) /\ begun <= Counted(begun)
    <2>1. /\ Counted(cycle) \in 0..MaxCount /\ Counted(begun) \in 0..MaxCount
          /\ Counted(cycle) <= Counted(begun)
      BY <1>2, Counting
    <2>2. begun <= Counted(begun)
      BY <1>2, Bounds DEF Counted
    <2> QED
      BY <2>1, <2>2
  <1>4. Typed'
    <2>1. ProcessOK'
      BY <1>1, Bounds DEF DayInv, Typed, ProcessOK
    <2> QED
      BY <1>1, <1>3, <2>1 DEF DayInv, Typed
  <1>5. CyclesBegun'
    <2>1. counter <= Counted(begun)
      BY <1>2, <1>3, Bounds
    <2> QED
      BY <1>1, <1>3, <2>1 DEF CyclesBegun
  <1>6. MarkKept' /\ NoDayLostSilently'
    BY <1>1 DEF DayInv, MarkKept, NoDayLostSilently
  <1>7. DaysInOrder'
    <2>1. clock \in Nat /\ (now \in Nat => now <= clock)
      BY Bounds DEF DayInv, Typed, ProcessOK
    <2>2. ASSUME ownDays # {} PROVE lastDay <= Day(clock) /\ lastDay \in Nat
      <3>1. now \in Nat /\ lastDay \in Nat /\ lastDay <= Day(now)
        BY <2>2 DEF DayInv, DaysInOrder
      <3>2. Day(now) \in Nat /\ Day(clock) \in Nat /\ Day(now) <= Day(clock)
        BY <2>1, <3>1, DaysGrow
      <3> QED
        BY <3>1, <3>2
    <2> QED
      BY <1>1, <2>1, <2>2 DEF DayInv, DaysInOrder
  <1> QED
    BY <1>4, <1>5, <1>6, <1>7 DEF DayInv

\* A start restores the mark; a death loses the memory and nothing else.
LEMMA InvOpens ==
    ASSUME DayInv, BookOpens
    PROVE  DayInv'
  <1>1. /\ ~up /\ up' = TRUE /\ UNCHANGED <<clock, step, now, faults, crashes>>
        /\ peak' = RestoredPeak /\ UNCHANGED <<cycle, lastDay, ownDays, tables>>
    BY DEF BookOpens, Up
  <1>2. peak' \in Nat /\ peak' >= safety.best
    BY <1>1, Bounds DEF DayInv, Typed, RestoredPeak, Higher
  <1>3. Typed'
    <2>1. ProcessOK'
      BY <1>1 DEF DayInv, Typed, ProcessOK
    <2> QED
      BY <1>1, <1>2, <2>1 DEF DayInv, Typed, tables
  <1>4. MarkKept' /\ CyclesBegun' /\ DaysInOrder' /\ NoDayLostSilently'
    BY <1>1, <1>2 DEF DayInv, MarkKept, CyclesBegun, DaysInOrder, NoDayLostSilently, tables
  <1> QED
    BY <1>3, <1>4 DEF DayInv

LEMMA InvDies ==
    ASSUME DayInv, BookDies
    PROVE  DayInv'
  <1>1. /\ up' = FALSE /\ step' = "idle" /\ now' = NoTime
        /\ crashes < MaxCrashes /\ crashes' = crashes + 1 /\ UNCHANGED <<clock, faults>>
        /\ cycle' = 0 /\ peak' = StartingCash /\ lastDay' = NoDay /\ ownDays' = {}
        /\ UNCHANGED tables
    BY DEF BookDies, Down
  <1>2. Typed'
    <2>1. ProcessOK'
      <3>1. clock' \in 0..MaxClock /\ faults' \in 0..MaxFaults
        BY <1>1 DEF DayInv, Typed, ProcessOK
      <3>2. crashes' \in 0..MaxCrashes
        BY <1>1, Bounds DEF DayInv, Typed, ProcessOK
      <3>3. now' = -1
        BY <1>1 DEF NoTime
      <3>4. up' \in BOOLEAN
        BY <1>1
      <3>5. now' \in -1..clock'
        BY <3>1, <3>3
      <3> QED
        BY <3>1, <3>2, <3>4, <3>5 DEF ProcessOK
    <2> QED
      BY <1>1, <2>1, Bounds DEF DayInv, Typed, tables
  <1>3. CyclesBegun'
    BY <1>1 DEF DayInv, Typed, CyclesBegun, tables
  <1>4. MarkKept' /\ DaysInOrder' /\ NoDayLostSilently'
    BY <1>1 DEF DayInv, MarkKept, DaysInOrder, NoDayLostSilently, tables
  <1> QED
    BY <1>2, <1>3, <1>4 DEF DayInv

LEMMA DayInvStep == DayInv /\ [DayNext]_dayVars => DayInv'
  <1> SUFFICES ASSUME DayInv, [DayNext]_dayVars PROVE DayInv'
    OBVIOUS
  <1>1. CASE UNCHANGED dayVars
    <2>1. Typed' /\ MarkKept' /\ CyclesBegun'
      BY <1>1 DEF DayInv, Typed, ProcessOK, MarkKept, CyclesBegun, dayVars, process, memory, tables
    <2>2. DaysInOrder' /\ NoDayLostSilently'
      BY <1>1 DEF DayInv, DaysInOrder, NoDayLostSilently, dayVars, process, memory, tables
    <2> QED
      BY <2>1, <2>2 DEF DayInv
  <1> QED
    BY <1>1, InvTick, InvOpens, InvDies, InvWakes, InvRecord, InvRecordFails, InvLearn, InvFails,
       InvRollover DEF DayNext

------------------------------------------------------------------------------
(* Theorems *)

\* The strengthened invariant of the accounts.
THEOREM DayBookSafe == DaySpec => []DayInv
  BY DayInvInit, DayInvStep, PTL DEF DaySpec

\* No restart lowers the mark that the drawdown is measured from.
THEOREM MarkIsBest == DaySpec => []DrawdownFromBestOnRecord
  <1>1. DayInv => DrawdownFromBestOnRecord
    BY DEF DayInv, MarkKept, DrawdownFromBestOnRecord
  <1> QED
    BY <1>1, DayBookSafe, PTL

\* A day that a process worked on and outlived has its row or left an error.
THEOREM DaysAccountedFor == DaySpec => []NoDayLostSilently
  <1>1. DayInv => NoDayLostSilently
    BY DEF DayInv
  <1> QED
    BY <1>1, DayBookSafe, PTL

\* The session never claims cycles that were not begun.
THEOREM UptimeHonest == DaySpec => []UptimeNotOverstated
  <1>1. DayInv => UptimeNotOverstated
    BY DEF DayInv, CyclesBegun, UptimeNotOverstated
  <1> QED
    BY <1>1, DayBookSafe, PTL
=============================================================================
