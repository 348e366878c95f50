---------------------------- MODULE ObserverProofs ----------------------------
(***************************************************************************)
(* Proofs about the observer.  First what an insert, a close and a reload  *)
(* do to a table, then the type invariant, then the inductive invariant    *)
(* that relates the table to the positions in memory, then the refinement: *)
(* the observer implements the paper ledger, for every set of symbols and  *)
(* every order of failing writes, rollbacks, crashes and restarts.         *)
(***************************************************************************)
EXTENDS Observer, FiniteSetTheorems, SequenceTheorems, TLAPS

USE DBAssumption, ObserverAssumption

------------------------------------------------------------------------------
(* Tables *)

\* insert_paper_trade appends one open row of the symbol and changes no other.
LEMMA InsertedRow ==
    ASSUME NEW table \in Seq(Row), NEW s \in Symbols,
           NEW new, new = WithInserted(table, s)
    PROVE  /\ new \in Seq(Row)
           /\ Len(table) + 1 \notin DOMAIN table
           /\ \A i \in DOMAIN table : new[i] = table[i]
           /\ new[Len(table) + 1].symbol = s
           /\ OpenIds(new) = OpenIds(table) \cup {Len(table) + 1}
  <1> DEFINE row == [symbol |-> s, status |-> "open", pnl |-> "none"]
  <1>1. row \in Row
    BY DEF Row
  <1>2. /\ new \in Seq(Row)
        /\ Len(new) = Len(table) + 1
        /\ \A i \in 1..Len(table) : new[i] = table[i]
        /\ new[Len(table) + 1] = row
    BY <1>1 DEF WithInserted
  <1>3. DOMAIN table = 1..Len(table) /\ DOMAIN new = 1..(Len(table) + 1)
    BY <1>2
  <1>4. Len(table) \in Nat
    OBVIOUS
  <1>5. DOMAIN new = DOMAIN table \cup {Len(table) + 1} /\ Len(table) + 1 \notin DOMAIN table
    BY <1>3, <1>4
  <1> QED
    BY <1>2, <1>3, <1>5 DEF OpenIds

\* close_paper_trade takes one id out of the open ones and changes no symbol.
LEMMA ClosedRow ==
    ASSUME NEW table \in Seq(Row), NEW id, NEW p \in PnL,
           NEW new, new = WithClosed(table, id, p)
    PROVE  /\ new \in Seq(Row)
           /\ DOMAIN new = DOMAIN table
           /\ \A i \in DOMAIN table : new[i].symbol = table[i].symbol
           /\ \A i \in DOMAIN table \ {id} : new[i] = table[i]
           /\ OpenIds(new) = OpenIds(table) \ {id}
  <1>1. CASE id \notin DOMAIN table
    BY <1>1 DEF WithClosed, OpenIds
  <1>2. CASE id \in DOMAIN table
    <2> DEFINE row == [table[id] EXCEPT !.status = "closed", !.pnl = p]
    <2>1. new = [table EXCEPT ![id] = row]
      BY <1>2 DEF WithClosed
    <2>2. table[id] \in Row
      BY <1>2
    <2>3. row \in Row /\ row.symbol = table[id].symbol /\ row.status = "closed"
      BY <2>2 DEF Row
    <2>4. new \in Seq(Row) /\ DOMAIN new = DOMAIN table
      BY <1>2, <2>1, <2>3, ExceptSeq
    <2>5. \A i \in DOMAIN table : new[i] = IF i = id THEN row ELSE table[i]
      BY <2>1
    <2> QED
      BY <2>3, <2>4, <2>5 DEF OpenIds
  <1> QED
    BY <1>1, <1>2

\* When no symbol has two open rows, _reload_open_positions adopts each open
\* row under its own id.
LEMMA ReloadedRows ==
    ASSUME NEW table \in Seq(Row), Unique(table)
    PROVE  /\ DOMAIN Reloaded(table) = OpenSymbols(table)
           /\ OpenSymbols(table) \subseteq Symbols
           /\ \A s \in OpenSymbols(table) : Reloaded(table)[s] \in Position
           /\ \A s \in OpenSymbols(table) :
                /\ Reloaded(table)[s].id \in OpenIds(table)
                /\ table[Reloaded(table)[s].id].symbol = s
           /\ \A i \in OpenIds(table) : Reloaded(table)[table[i].symbol].id = i
  <1>1. OpenIds(table) \subseteq Nat \ {0}
    BY DEF OpenIds
  <1>2. \A i \in OpenIds(table) : table[i] \in Row
    BY DEF OpenIds
  <1>3. OpenSymbols(table) \subseteq Symbols
    BY <1>2 DEF OpenSymbols, Row
  <1> DEFINE Latest(s, i) == /\ table[i].symbol = s
                             /\ \A j \in OpenIds(table) : table[j].symbol = s => j <= i
             Last(s) == CHOOSE i \in OpenIds(table) : Latest(s, i)
  <1>4. ASSUME NEW s \in OpenSymbols(table)
        PROVE  Last(s) \in OpenIds(table) /\ table[Last(s)].symbol = s
    <2>1. PICK i \in OpenIds(table) : table[i].symbol = s
      BY DEF OpenSymbols
    <2>2. \A j \in OpenIds(table) : table[j].symbol = s => j = i
      BY <2>1 DEF Unique
    <2>3. Latest(s, i)
      BY <1>1, <2>1, <2>2
    <2> QED
      BY <2>3
  <1>5. \A s \in OpenSymbols(table) : Reloaded(table)[s] = [id |-> Last(s), age |-> NoAge]
    BY DEF Reloaded
  <1>6. ASSUME NEW s \in OpenSymbols(table)
        PROVE  /\ Reloaded(table)[s].id \in OpenIds(table)
               /\ table[Reloaded(table)[s].id].symbol = s
               /\ Reloaded(table)[s] \in Position
    <2>1. PICK k \in OpenIds(table) : table[k].symbol = s /\ Reloaded(table)[s] = [id |-> k, age |-> NoAge]
      BY <1>4, <1>5
    <2> QED
      BY <1>1, <2>1 DEF Position
  <1>8. \A i \in OpenIds(table) : Reloaded(table)[table[i].symbol].id = i
    <2> TAKE i \in OpenIds(table)
    <2>1. table[i].symbol \in OpenSymbols(table)
      BY DEF OpenSymbols
    <2> QED
      BY <1>6, <2>1 DEF Unique
  <1>9. DOMAIN Reloaded(table) = OpenSymbols(table)
    BY DEF Reloaded
  <1> QED
    BY <1>3, <1>6, <1>8, <1>9

------------------------------------------------------------------------------
(* Types and the life of the process *)

\* A process that is down has no memory and no open transaction, only the
\* failure that ends a run reaches the abort threshold, and _manage_positions
\* visits positions that are still tracked.
LifeCycle ==
    /\ pc = "down" => open = Empty /\ conn = disk /\ failures = 0
    /\ pc # "exiting" => failures < AbortThreshold
    /\ pc = "manage" => todo \subseteq Tracked

\* Entering, dropping and ageing a position keep `_open` such a function.
LEMMA OpenUpdates ==
    ASSUME OpenOK(open)
    PROVE  /\ OpenOK(Empty) /\ DOMAIN Empty = {}
           /\ \A s \in Symbols, pos \in Position :
                 /\ OpenOK(Track(s, pos))
                 /\ DOMAIN Track(s, pos) = Tracked \cup {s}
                 /\ \A t \in Tracked \cup {s} :
                       Track(s, pos)[t] = IF t = s THEN pos ELSE open[t]
           /\ \A s \in Symbols :
                 /\ OpenOK(Untrack(s))
                 /\ DOMAIN Untrack(s) = Tracked \ {s}
                 /\ \A t \in Tracked \ {s} : Untrack(s)[t] = open[t]
  <1>1. OpenOK(Empty) /\ DOMAIN Empty = {}
    BY DEF OpenOK, Empty
  <1>2. ASSUME NEW s \in Symbols, NEW pos \in Position
        PROVE  /\ OpenOK(Track(s, pos))
               /\ DOMAIN Track(s, pos) = Tracked \cup {s}
               /\ \A t \in Tracked \cup {s} :
                     Track(s, pos)[t] = IF t = s THEN pos ELSE open[t]
    BY DEF OpenOK, Track, Tracked
  <1>3. ASSUME NEW s \in Symbols
        PROVE  /\ OpenOK(Untrack(s))
               /\ DOMAIN Untrack(s) = Tracked \ {s}
               /\ \A t \in Tracked \ {s} : Untrack(s)[t] = open[t]
    BY DEF OpenOK, Untrack, Tracked
  <1> QED
    BY <1>1, <1>2, <1>3

\* `_cycle += 1` changes the ages, and nothing else, of the same positions.
LEMMA TickAges ==
    ASSUME OpenOK(open), cooldown \in 0..LossCooldown, Tick
    PROVE  /\ OpenOK(open') /\ Tracked' = Tracked
           /\ \A s \in Tracked : open'[s].id = open[s].id
           /\ cooldown' \in 0..LossCooldown
  <1>1. cooldown' \in 0..LossCooldown
    BY DEF Tick
  <1>2. ASSUME NEW s \in Tracked
        PROVE  /\ open'[s] = [open[s] EXCEPT !.age = Older(open[s].age)]
               /\ open'[s] \in Position
    <2>1. open[s] \in Position
      BY DEF OpenOK, Tracked
    <2>2. Older(open[s].age) \in {NoAge} \cup 0..MaxHold
      BY <2>1 DEF Position, Older, NoAge
    <2>3. open'[s] = [open[s] EXCEPT !.age = Older(open[s].age)]
      BY DEF Tick
    <2> QED
      BY <2>1, <2>2, <2>3 DEF Position
  <1>3. Tracked' = Tracked
    BY DEF Tick, Tracked
  <1>4. OpenOK(open')
    <2>1. open' = [s \in DOMAIN open' |-> open'[s]]
      BY DEF Tick
    <2> QED
      BY <1>2, <1>3, <2>1 DEF OpenOK, Tracked
  <1>5. \A s \in Tracked : open'[s].id = open[s].id
    <2> TAKE s \in Tracked
    <2>1. open[s] \in Position
      BY DEF OpenOK, Tracked
    <2> QED
      BY <1>2, <2>1 DEF Position
  <1> QED
    BY <1>1, <1>3, <1>4, <1>5

------------------------------------------------------------------------------
(* What a step does to the database *)

\* A step of the connection that writes no paper trade: what either view holds
\* afterwards, one of the two held before.
Quiet == /\ disk' \in {disk, conn}
         /\ conn' \in {disk, conn}
         /\ pending' \in BOOLEAN
         /\ dbFaults' \in 0..MaxDbFaults

\* Commits, rollbacks, failures and writes of other tables are quiet.
LEMMA QuietSteps ==
    ASSUME DBTypeOK
    PROVE  /\ UNCHANGED dbVars \/ Deferred(conn) \/ Saved(conn) => Quiet
           /\ BestEffort(conn) \/ RaisedMidway \/ BatchAborted \/ Disconnected => Quiet
           /\ Outage /\ RolledBack => Quiet
           /\ RolledBack /\ UNCHANGED dbFaults => Quiet
  <1>1. Outage => dbFaults' \in 0..MaxDbFaults
    BY DEF DBTypeOK, Outage
  <1> QED
    BY <1>1 DEF DBTypeOK, dbVars, Deferred, Saved, BestEffort, Raised, RaisedMidway,
               BatchAborted, Disconnected, RolledBack, Quiet

\* A quiet step keeps the types of the database.
LEMMA QuietTypes ==
    ASSUME DBTypeOK, Quiet
    PROVE  DBTypeOK'
  <1>1. disk' \in Seq(Row) /\ conn' \in Seq(Row)
    BY DEF DBTypeOK, Quiet
  <1> QED
    BY <1>1 DEF DBTypeOK, Quiet

------------------------------------------------------------------------------
(* The inductive invariant *)

SafeInv == /\ TypeOK
           /\ LifeCycle
           /\ OneOpenRowPerSymbol
           /\ OpenRowsManaged
           /\ PositionLimit

\* Rows that are all tracked belong to tracked symbols, so the limit on the
\* positions in memory carries over to the table.
LEMMA LimitOnTable ==
    ASSUME NEW table \in Seq(Row), Tracked \subseteq Symbols, TrackedIn(table),
           Cardinality(Tracked) <= MaxOpen
    PROVE  Cardinality(OpenSymbols(table)) <= MaxOpen
  <1>1. OpenSymbols(table) \subseteq Tracked
    BY DEF OpenSymbols, TrackedIn
  <1>2. IsFiniteSet(Tracked)
    BY FS_Subset
  <1>3. Cardinality(OpenSymbols(table)) <= Cardinality(Tracked)
    BY <1>1, <1>2, FS_Subset
  <1>4. Cardinality(OpenSymbols(table)) \in Nat /\ Cardinality(Tracked) \in Nat
    BY <1>1, <1>2, FS_Subset, FS_CardinalityType
  <1> QED
    BY <1>3, <1>4

\* The facts about the tables survive a quiet step of a process that stays up
\* and keeps its positions under the same ids.
LEMMA QuietKeepsTables ==
    ASSUME SafeInv, Up, Up', Quiet, OpenOK(open'), Tracked' = Tracked,
           \A s \in Tracked : open'[s].id = open[s].id
    PROVE  (OneOpenRowPerSymbol /\ OpenRowsManaged /\ PositionLimit)'
  <1>1. \A table \in {disk, conn} :
           Unique(table) /\ TrackedIn(table) /\ table \in Seq(Row)
    BY DEF SafeInv, TypeOK, DBTypeOK, OneOpenRowPerSymbol, OpenRowsManaged
  <1>2. disk' \in {disk, conn} /\ conn' \in {disk, conn}
    BY DEF Quiet
  <1>3. ASSUME NEW table \in {disk, conn}
        PROVE  \A i \in OpenIds(table) :
                  /\ table[i].symbol \in Tracked'
                  /\ open'[table[i].symbol].id = i
    BY <1>1 DEF TrackedIn
  <1>4. OneOpenRowPerSymbol'
    BY <1>1, <1>2 DEF OneOpenRowPerSymbol, Unique, OpenIds
  <1>5. OpenRowsManaged'
    BY <1>2, <1>3 DEF OpenRowsManaged, TrackedIn, OpenIds
  <1>6. PositionLimit'
    <2>1. Cardinality(Tracked) <= MaxOpen /\ Tracked \subseteq Symbols
      BY DEF SafeInv, PositionLimit, TypeOK, OpenOK, Tracked
    <2>2. \A table \in {disk, conn} : Cardinality(OpenSymbols(table)) <= MaxOpen
      BY <1>1, <2>1, LimitOnTable
    <2>3. OpenSymbols(disk') \in {OpenSymbols(disk), OpenSymbols(conn)}
      BY <1>2
    <2>4. OpenSymbols(disk)' = OpenSymbols(disk')
      BY DEF OpenSymbols, OpenIds
    <2> QED
      BY <2>1, <2>2, <2>3, <2>4 DEF PositionLimit
  <1> QED
    BY <1>4, <1>5, <1>6

\* They survive the end of a process, whether what was pending got committed or
\* was dropped.
LEMMA GoneKeepsTables ==
    ASSUME SafeInv, Up, Quiet, ProcessGone, conn' = disk'
    PROVE  SafeInv'
  <1>1. \A table \in {disk, conn} :
           Unique(table) /\ TrackedIn(table) /\ table \in Seq(Row)
    BY DEF SafeInv, TypeOK, DBTypeOK, OneOpenRowPerSymbol, OpenRowsManaged
  <1>2. disk' \in {disk, conn}
    BY DEF Quiet
  <1>3. open' = Empty /\ OpenOK(open') /\ Tracked' = {}
    <2>1. open' = Empty
      BY DEF ProcessGone
    <2> QED
      BY <2>1 DEF OpenOK, Empty, Tracked
  <1>4. TypeOK'
    <2>1. DBTypeOK'
      BY QuietTypes DEF SafeInv, TypeOK
    <2>2. OpenOK(open)'
      BY <1>3 DEF OpenOK
    <2>3. cooldown' \in 0..LossCooldown /\ failures' \in 0..AbortThreshold
      BY DEF ProcessGone
    <2>4. pc' \in Phases /\ todo' \subseteq Symbols /\ stopping' \in BOOLEAN
      BY DEF ProcessGone, Phases
    <2> QED
      BY <2>1, <2>2, <2>3, <2>4, Zenon DEF TypeOK
  <1>5. LifeCycle'
    BY DEF LifeCycle, ProcessGone
  <1>6. OneOpenRowPerSymbol' /\ OpenRowsManaged'
    BY <1>1, <1>2 DEF OneOpenRowPerSymbol, Unique, OpenIds, OpenRowsManaged, Up, ProcessGone
  <1>7. PositionLimit'
    <2>1. Cardinality(Tracked) <= MaxOpen /\ Tracked \subseteq Symbols
      BY DEF SafeInv, PositionLimit, TypeOK, OpenOK, Tracked
    <2>2. \A table \in {disk, conn} : Cardinality(OpenSymbols(table)) <= MaxOpen
      BY <1>1, <2>1, LimitOnTable
    <2>3. OpenSymbols(disk') \in {OpenSymbols(disk), OpenSymbols(conn)}
      BY <1>2
    <2>4. OpenSymbols(disk)' = OpenSymbols(disk')
      BY DEF OpenSymbols, OpenIds
    <2>5. Cardinality(Tracked') <= MaxOpen
      BY <1>3, FS_EmptySet
    <2> QED
      BY <2>2, <2>3, <2>4, <2>5 DEF PositionLimit
  <1> QED
    BY <1>4, <1>5, <1>6, <1>7 DEF SafeInv

------------------------------------------------------------------------------
(* One lemma per kind of step *)

\* Every step is one of: a start, the end of the process, a step that writes no
\* paper trade and drops no position, an entry, an exit, a failed exit.
LEMMA QuietActions ==
    ASSUME SafeInv,
           \/ RequestStop \/ LeaveLoop \/ BeginCycle
           \/ \E s \in Symbols : ObserveOnly(s) \/ NoPrice(s) \/ Hold(s)
           \/ CommitBatch \/ AbortBatch \/ RetrainMeta \/ EvaluatePredictions
           \/ EndManage \/ RecordCycle \/ HandleFailure
    PROVE  SafeInv'
  <1> USE DEF SafeInv
  <1>1. DBTypeOK /\ OpenOK(open) /\ cooldown \in 0..LossCooldown
        /\ failures \in 0..AbortThreshold /\ todo \subseteq Symbols
        /\ Tracked \subseteq Symbols
    BY DEF TypeOK, OpenOK, Tracked
  <1>2. Up /\ Up'
    BY DEF Up, RequestStop, LeaveLoop, BeginCycle, ObserveOnly, NoPrice, Hold, CommitBatch,
           AbortBatch, RetrainMeta, EvaluatePredictions, EndManage, RecordCycle,
           HandleFailure
  <1>3. Quiet
    BY <1>1, QuietSteps DEF RequestStop, LeaveLoop, BeginCycle, ObserveOnly, NoPrice, Hold,
           CommitBatch, AbortBatch, RetrainMeta, EvaluatePredictions, EndManage,
           RecordCycle, HandleFailure
  <1>4. UNCHANGED <<open, cooldown>> \/ Tick
    BY DEF RequestStop, LeaveLoop, BeginCycle, ObserveOnly, NoPrice, Hold, CommitBatch,
           AbortBatch, RetrainMeta, EvaluatePredictions, EndManage, RecordCycle,
           HandleFailure
  <1>5. /\ OpenOK(open') /\ Tracked' = Tracked
        /\ \A s \in Tracked : open'[s].id = open[s].id
        /\ cooldown' \in 0..LossCooldown
    <2>1. CASE UNCHANGED <<open, cooldown>>
      BY <1>1, <2>1 DEF Tracked
    <2>2. CASE Tick
      BY <1>1, <2>2, TickAges
    <2> QED
      BY <1>4, <2>1, <2>2
  <1>6. pc' \in Phases /\ todo' \subseteq Symbols
    BY <1>1 DEF TypeOK, Phases, RequestStop, LeaveLoop, BeginCycle, ObserveOnly, NoPrice,
           Hold, CommitBatch, AbortBatch, RetrainMeta, EvaluatePredictions, EndManage,
           RecordCycle, HandleFailure, Tracked, OpenOK
  <1>7. stopping' \in BOOLEAN
    BY DEF TypeOK, RequestStop, LeaveLoop, BeginCycle, ObserveOnly, NoPrice,
           Hold, CommitBatch, AbortBatch, RetrainMeta, EvaluatePredictions, EndManage,
           RecordCycle, HandleFailure
  <1>8. failures' \in 0..AbortThreshold /\ (pc' # "exiting" => failures' < AbortThreshold)
    BY <1>1 DEF LifeCycle, RequestStop, LeaveLoop, BeginCycle, ObserveOnly, NoPrice,
           Hold, CommitBatch, AbortBatch, RetrainMeta, EvaluatePredictions, EndManage,
           RecordCycle, HandleFailure
  <1>9. TypeOK'
    <2>1. DBTypeOK' /\ OpenOK(open)'
      BY <1>1, <1>3, <1>5, QuietTypes DEF OpenOK
    <2> QED
      BY <1>5, <1>6, <1>7, <1>8, <2>1, Zenon DEF TypeOK
  <1>10. pc' = "manage" => todo' \subseteq Tracked'
    <2>1. pc = "manage" => todo \subseteq Tracked
      BY DEF LifeCycle
    <2> QED
      BY <1>5, <2>1 DEF RequestStop, LeaveLoop, BeginCycle, ObserveOnly, NoPrice, Hold,
           CommitBatch, AbortBatch, RetrainMeta, EvaluatePredictions, EndManage,
           RecordCycle, HandleFailure
  <1>11. LifeCycle'
    BY <1>2, <1>8, <1>10 DEF LifeCycle, Up
  <1> QED
    BY <1>2, <1>3, <1>5, <1>9, <1>11, QuietKeepsTables

\* A crash or an exit leaves the committed rows and no memory of them.
LEMMA EndOfProcess ==
    ASSUME SafeInv, Crash \/ Exit
    PROVE  SafeInv'
  <1>1. Up /\ ProcessGone
    BY DEF Crash, Exit, Up
  <1>2. DBTypeOK
    BY DEF SafeInv, TypeOK
  <1>3. Quiet /\ conn' = disk'
    BY <1>2, QuietSteps DEF Crash, Exit, Disconnected, RolledBack, Saved
  <1> QED
    BY <1>1, <1>3, GoneKeepsTables

\* The reload finds every open row again, because no symbol has two.
LEMMA Restart ==
    ASSUME SafeInv, Start
    PROVE  SafeInv'
  <1> USE DEF SafeInv
  <1>1. /\ disk \in Seq(Row) /\ Unique(disk) /\ conn = disk
        /\ disk' = disk /\ conn' = conn
        /\ open' = Reloaded(disk)
        /\ Cardinality(OpenSymbols(disk)) <= MaxOpen
    BY DEF TypeOK, DBTypeOK, OneOpenRowPerSymbol, LifeCycle, PositionLimit, Start, dbVars
  <1>2. /\ Tracked' = OpenSymbols(disk)
        /\ OpenSymbols(disk) \subseteq Symbols
        /\ \A s \in OpenSymbols(disk) : open'[s] \in Position
        /\ \A i \in OpenIds(disk) : open'[disk[i].symbol].id = i
    BY <1>1, ReloadedRows DEF Tracked
  <1>3. OpenOK(open)'
    BY <1>1, <1>2 DEF OpenOK, Tracked, Reloaded
  <1>4. TypeOK'
    <2>1. DBTypeOK'
      BY DEF TypeOK, DBTypeOK, Start, dbVars
    <2>2. pc' \in Phases /\ UNCHANGED <<todo, cooldown, failures, stopping>>
      BY DEF Start, Phases
    <2> QED
      BY <1>3, <2>1, <2>2 DEF TypeOK
  <1>5. LifeCycle'
    BY DEF LifeCycle, Start
  <1>6. OneOpenRowPerSymbol'
    BY <1>1 DEF OneOpenRowPerSymbol, Unique, OpenIds
  <1>7. OpenRowsManaged'
    <2>1. \A i \in OpenIds(disk) : disk[i].symbol \in Tracked'
      BY <1>2 DEF OpenSymbols
    <2> QED
      BY <1>1, <1>2, <2>1 DEF OpenRowsManaged, TrackedIn, OpenIds
  <1>8. PositionLimit'
    <2>1. OpenSymbols(disk)' = OpenSymbols(disk)
      BY <1>1 DEF OpenSymbols, OpenIds
    <2> QED
      BY <1>1, <1>2, <2>1 DEF PositionLimit
  <1> QED
    BY <1>4, <1>5, <1>6, <1>7, <1>8

\* An entry: the symbol was not tracked, so neither view had an open row of it.
LEMMA Entry ==
    ASSUME SafeInv, NEW s \in Symbols, OpenPosition(s)
    PROVE  SafeInv'
  <1> USE DEF SafeInv
  <1> DEFINE id == Len(conn) + 1
             pos == [id |-> id, age |-> 0]
  <1>1. /\ pc = "scan" /\ pc' = "scan" /\ s \notin Tracked
        /\ Cardinality(Tracked) < MaxOpen
        /\ conn' = WithInserted(conn, s) /\ disk' = disk /\ pending' = TRUE
        /\ dbFaults' = dbFaults
        /\ open' = Track(s, pos) /\ todo' = todo \ {s}
        /\ UNCHANGED <<cooldown, failures, stopping>>
    BY DEF OpenPosition, Deferred
  <1>2. /\ disk \in Seq(Row) /\ conn \in Seq(Row) /\ OpenOK(open)
        /\ Tracked \subseteq Symbols
        /\ Unique(disk) /\ Unique(conn) /\ TrackedIn(disk) /\ TrackedIn(conn)
    BY <1>1 DEF TypeOK, DBTypeOK, OpenOK, Tracked, OneOpenRowPerSymbol, OpenRowsManaged, Up
  <1>3. id \in Nat \ {0} /\ pos \in Position
    BY <1>2 DEF Position
  <1>4. /\ OpenOK(open') /\ Tracked' = Tracked \cup {s}
        /\ \A t \in Tracked' : open'[t] = IF t = s THEN pos ELSE open[t]
    <2>1. /\ OpenOK(Track(s, pos)) /\ DOMAIN Track(s, pos) = Tracked \cup {s}
          /\ \A t \in Tracked \cup {s} :
                Track(s, pos)[t] = IF t = s THEN pos ELSE open[t]
      BY <1>2, <1>3, OpenUpdates
    <2> QED
      BY <1>1, <2>1 DEF Tracked
  <1>5. /\ conn' \in Seq(Row)
        /\ \A i \in DOMAIN conn : conn'[i] = conn[i]
        /\ conn'[id].symbol = s
        /\ OpenIds(conn') = OpenIds(conn) \cup {id}
        /\ id \notin DOMAIN conn
    <2>1. conn \in Seq(Row) /\ conn' = WithInserted(conn, s)
      BY <1>1, <1>2
    <2> QED
      BY <2>1, InsertedRow, SMTT(30)
  <1>6. TypeOK'
    <2>1. DBTypeOK'
      BY <1>1, <1>5 DEF TypeOK, DBTypeOK
    <2>2. OpenOK(open)'
      BY <1>4 DEF OpenOK
    <2> QED
      BY <1>1, <2>1, <2>2 DEF TypeOK
  <1>7. LifeCycle'
    BY <1>1 DEF LifeCycle
  <1>8. \A table \in {disk, conn} : \A i \in OpenIds(table) : table[i].symbol # s
    BY <1>1, <1>2 DEF TrackedIn
  <1>9. OpenIds(conn) \subseteq DOMAIN conn
    BY DEF OpenIds
  <1>10. TrackedIn(disk)' /\ Unique(disk)'
    BY <1>1, <1>2, <1>4, <1>8 DEF TrackedIn, Unique, OpenIds
  <1>11. /\ \A i \in OpenIds(conn') : /\ conn'[i].symbol \in Tracked'
                                     /\ open'[conn'[i].symbol].id = i
         /\ \A i, j \in OpenIds(conn') : conn'[i].symbol = conn'[j].symbol => i = j
    <2>1. \A i \in OpenIds(conn) : conn'[i].symbol = conn[i].symbol /\ conn[i].symbol # s
      BY <1>5, <1>8, <1>9
    <2>2. \A i \in OpenIds(conn') : i = id \/ i \in OpenIds(conn)
      BY <1>5
    <2>3. /\ conn'[id].symbol = s /\ s \in Tracked' /\ open'[s].id = id
      BY <1>4, <1>5
    <2>4. \A i \in OpenIds(conn) : /\ conn'[i].symbol \in Tracked'
                                 /\ open'[conn'[i].symbol].id = i
      BY <1>2, <1>4, <2>1 DEF TrackedIn
    <2>5. \A i, j \in OpenIds(conn) : conn'[i].symbol = conn'[j].symbol => i = j
      BY <1>2, <2>1 DEF Unique
    <2> HIDE DEF id, pos, SafeInv
    <2>6. \A i \in OpenIds(conn') : /\ conn'[i].symbol \in Tracked'
                                  /\ open'[conn'[i].symbol].id = i
      BY <2>2, <2>3, <2>4
    <2>7. \A i, j \in OpenIds(conn') : conn'[i].symbol = conn'[j].symbol => i = j
      BY <2>1, <2>2, <2>3, <2>5
    <2> QED
      BY <2>6, <2>7
  <1>12. OneOpenRowPerSymbol' /\ OpenRowsManaged'
    BY <1>10, <1>11 DEF OneOpenRowPerSymbol, OpenRowsManaged, TrackedIn, Unique, OpenIds
  <1>13. PositionLimit'
    <2>1. IsFiniteSet(Tracked)
      BY <1>2, FS_Subset
    <2>2. Cardinality(Tracked') = Cardinality(Tracked) + 1 /\ Cardinality(Tracked) \in Nat
      BY <1>1, <1>4, <2>1, FS_AddElement, FS_CardinalityType
    <2>3. OpenSymbols(disk)' = OpenSymbols(disk)
      BY <1>1 DEF OpenSymbols, OpenIds
    <2> QED
      BY <1>1, <2>2, <2>3 DEF PositionLimit
  <1> QED
    BY <1>6, <1>7, <1>12, <1>13

\* An exit that the caller sees succeed: the id was the tracked one, so the
\* symbol has no open row left in the committed table.
LEMMA SuccessfulExit ==
    ASSUME SafeInv, NEW s \in Symbols, NEW p \in PnL, s \in Tracked, ClosePosition(s, p)
    PROVE  SafeInv'
  <1> USE DEF SafeInv
  <1> DEFINE id == open[s].id
  <1>1. /\ pc = "manage" /\ pc' = "manage"
        /\ conn' = WithClosed(conn, id, p) /\ disk' = conn' /\ pending' = FALSE
        /\ dbFaults' = dbFaults
        /\ open' = Untrack(s) /\ todo' = todo \ {s}
        /\ cooldown' \in {LossCooldown, cooldown}
        /\ UNCHANGED <<failures, stopping>>
    BY DEF ClosePosition, Saved
  <1>2. /\ conn \in Seq(Row) /\ OpenOK(open) /\ Tracked \subseteq Symbols
        /\ Unique(conn) /\ TrackedIn(conn) /\ PositionLimit
    BY <1>1 DEF TypeOK, DBTypeOK, OpenOK, Tracked, OneOpenRowPerSymbol, OpenRowsManaged, Up
  <1>3. /\ OpenOK(open') /\ Tracked' = Tracked \ {s}
        /\ \A t \in Tracked \ {s} : open'[t] = open[t]
    BY <1>1, <1>2, OpenUpdates DEF Tracked
  <1>4. /\ conn' \in Seq(Row)
        /\ \A i \in DOMAIN conn : conn'[i].symbol = conn[i].symbol
        /\ OpenIds(conn') = OpenIds(conn) \ {id}
    BY <1>1, <1>2, ClosedRow
  <1>5. TypeOK'
    <2>1. DBTypeOK'
      BY <1>1, <1>4 DEF TypeOK, DBTypeOK
    <2>2. OpenOK(open)'
      BY <1>3 DEF OpenOK
    <2>3. cooldown' \in 0..LossCooldown
      BY <1>1 DEF TypeOK
    <2> QED
      BY <1>1, <2>1, <2>2, <2>3 DEF TypeOK
  <1>6. LifeCycle'
    BY <1>1, <1>3 DEF LifeCycle
  <1>7. /\ \A i \in OpenIds(conn') : /\ conn'[i].symbol \in Tracked'
                                    /\ open'[conn'[i].symbol].id = i
        /\ \A i, j \in OpenIds(conn') : conn'[i].symbol = conn'[j].symbol => i = j
    <2>1. \A i \in OpenIds(conn') :
             i \in OpenIds(conn) /\ i # id /\ conn'[i].symbol = conn[i].symbol
      BY <1>4 DEF OpenIds
    <2> QED
      BY <1>2, <1>3, <2>1 DEF TrackedIn, Unique
  <1>8. OneOpenRowPerSymbol' /\ OpenRowsManaged'
    BY <1>1, <1>7, SMTT(30) DEF OneOpenRowPerSymbol, OpenRowsManaged, TrackedIn, Unique, OpenIds
  <1>9. PositionLimit'
    <2>1. IsFiniteSet(Tracked)
      BY <1>2, FS_Subset
    <2>2. Cardinality(Tracked') <= MaxOpen
      <3>1. Cardinality(Tracked') <= Cardinality(Tracked) /\ IsFiniteSet(Tracked')
        BY <1>3, <2>1, FS_Subset
      <3> QED
        BY <1>2, <2>1, <3>1, FS_CardinalityType DEF PositionLimit
    <2>3. OpenSymbols(conn') \subseteq OpenSymbols(conn)
      BY <1>4 DEF OpenSymbols, OpenIds
    <2>4. OpenSymbols(conn) \subseteq Tracked
      BY <1>2 DEF OpenSymbols, TrackedIn
    <2>5. /\ Cardinality(OpenSymbols(conn')) <= Cardinality(Tracked)
          /\ IsFiniteSet(OpenSymbols(conn'))
      BY <2>1, <2>3, <2>4, FS_Subset
    <2>6. Cardinality(OpenSymbols(conn')) <= MaxOpen
      BY <1>2, <2>1, <2>5, FS_CardinalityType DEF PositionLimit
    <2>7. OpenSymbols(disk)' = OpenSymbols(conn')
      BY <1>1 DEF OpenSymbols, OpenIds
    <2> QED
      BY <2>2, <2>6, <2>7 DEF PositionLimit
  <1> QED
    BY <1>5, <1>6, <1>8, <1>9

\* An exit that raises keeps the position, whichever of its writes took effect:
\* both views have at most the open rows they had.
LEMMA FailedExit ==
    ASSUME SafeInv, NEW s \in Symbols, NEW p \in PnL, CloseFails(s, p)
    PROVE  SafeInv'
  <1> USE DEF SafeInv
  <1>1. /\ pc = "manage" /\ pc' = "manage" /\ todo' = todo \ {s}
        /\ UNCHANGED <<open, cooldown, failures, stopping>>
        /\ conn' \in {conn, WithClosed(conn, open[s].id, p)}
        /\ disk' \in {disk, conn'} /\ pending' \in BOOLEAN
        /\ dbFaults' \in 0..MaxDbFaults
    <2>1. dbFaults' \in 0..MaxDbFaults
      BY DEF CloseFails, Outage, TypeOK, DBTypeOK
    <2>2. pending \in BOOLEAN
      BY DEF TypeOK, DBTypeOK
    <2>3. pending' \in BOOLEAN
      BY <2>2 DEF CloseFails
    <2> QED
      BY <2>1, <2>3 DEF CloseFails
  <1>2. /\ conn \in Seq(Row) /\ disk \in Seq(Row)
        /\ Unique(conn) /\ TrackedIn(conn) /\ Unique(disk) /\ TrackedIn(disk)
        /\ PositionLimit /\ OpenOK(open) /\ Tracked \subseteq Symbols
    BY <1>1 DEF TypeOK, DBTypeOK, OpenOK, Tracked, OneOpenRowPerSymbol, OpenRowsManaged, Up
  <1>3. /\ conn' \in Seq(Row)
        /\ \A i \in DOMAIN conn : conn'[i].symbol = conn[i].symbol
        /\ OpenIds(conn') \subseteq OpenIds(conn)
    <2>1. CASE conn' = conn
      BY <1>2, <2>1
    <2>2. CASE conn' = WithClosed(conn, open[s].id, p)
      BY <1>2, <2>2, ClosedRow
    <2> QED
      BY <1>1, <2>1, <2>2
  <1>4. \A i \in OpenIds(conn') : i \in OpenIds(conn) /\ conn'[i].symbol = conn[i].symbol
    BY <1>3 DEF OpenIds
  <1>5. ASSUME NEW table \in {disk, conn'}
        PROVE  /\ table \in Seq(Row)
               /\ \A i \in OpenIds(table) :
                     table[i].symbol \in Tracked /\ open[table[i].symbol].id = i
               /\ \A i, j \in OpenIds(table) : table[i].symbol = table[j].symbol => i = j
    BY <1>2, <1>3, <1>4, SMTT(30) DEF TrackedIn, Unique
  <1>6. TypeOK'
    <2>1. DBTypeOK'
      BY <1>1, <1>2, <1>3 DEF DBTypeOK
    <2>2. OpenOK(open)'
      BY <1>1, <1>2 DEF OpenOK
    <2> QED
      BY <1>1, <2>1, <2>2 DEF TypeOK
  <1>7. LifeCycle'
    BY <1>1 DEF LifeCycle, Tracked
  <1>8. OneOpenRowPerSymbol'
    BY <1>1, <1>5 DEF OneOpenRowPerSymbol, Unique, OpenIds
  <1>9. OpenRowsManaged'
    BY <1>1, <1>5 DEF OpenRowsManaged, TrackedIn, OpenIds, Tracked
  <1>10. PositionLimit'
    <2>1. Cardinality(Tracked) <= MaxOpen
      BY <1>2 DEF PositionLimit
    <2>2. \A table \in {disk, conn'} : TrackedIn(table) /\ table \in Seq(Row)
      BY <1>5 DEF TrackedIn
    <2>3. \A table \in {disk, conn'} : Cardinality(OpenSymbols(table)) <= MaxOpen
      BY <1>2, <2>1, <2>2, LimitOnTable
    <2>4. Cardinality(OpenSymbols(disk')) <= MaxOpen
      BY <1>1, <2>3
    <2>5. OpenSymbols(disk)' = OpenSymbols(disk') /\ Tracked' = Tracked
      BY <1>1 DEF OpenSymbols, OpenIds, Tracked
    <2> QED
      BY <2>1, <2>4, <2>5 DEF PositionLimit
  <1> QED
    BY <1>6, <1>7, <1>8, <1>9, <1>10

------------------------------------------------------------------------------
(* The theorems *)

\* An empty table and no process satisfy the invariant.
LEMMA InitSafe == Init => SafeInv
  <1> SUFFICES ASSUME Init PROVE SafeInv
    OBVIOUS
  <1>1. disk = << >> /\ conn = << >> /\ open = Empty
    BY DEF Init, DBInit
  <1>2. OpenIds(disk) = {} /\ OpenIds(conn) = {} /\ OpenSymbols(disk) = {} /\ Tracked = {}
    BY <1>1 DEF OpenIds, OpenSymbols, Tracked, Empty
  <1>3. TypeOK
    <2>1. DBTypeOK
      <3>1. << >> \in Seq(Row) /\ 0 \in 0..MaxDbFaults
        OBVIOUS
      <3> QED
        BY <3>1 DEF Init, DBInit, DBTypeOK
    <2>2. OpenOK(open)
      BY <1>1 DEF OpenOK, Empty
    <2>3. pc \in Phases /\ todo \subseteq Symbols /\ stopping \in BOOLEAN
      BY DEF Init, Phases
    <2>4. cooldown \in 0..LossCooldown /\ failures \in 0..AbortThreshold
      BY DEF Init
    <2> QED
      BY <2>1, <2>2, <2>3, <2>4 DEF TypeOK
  <1>4. LifeCycle
    BY <1>1 DEF Init, LifeCycle
  <1>5. OneOpenRowPerSymbol /\ OpenRowsManaged
    BY <1>2 DEF OneOpenRowPerSymbol, Unique, OpenRowsManaged, TrackedIn
  <1>6. PositionLimit
    BY <1>2, FS_EmptySet DEF PositionLimit
  <1> QED
    BY <1>3, <1>4, <1>5, <1>6 DEF SafeInv

\* Every step keeps the invariant.
LEMMA NextSafe == SafeInv /\ [Next]_vars => SafeInv'
  <1> SUFFICES ASSUME SafeInv, [Next]_vars PROVE SafeInv'
    OBVIOUS
  <1>1. CASE Start
    BY <1>1, Restart
  <1>2. CASE Crash \/ Exit
    BY <1>2, EndOfProcess
  <1>3. CASE \/ RequestStop \/ LeaveLoop \/ BeginCycle
             \/ \E s \in Symbols : ObserveOnly(s) \/ NoPrice(s) \/ Hold(s)
             \/ CommitBatch \/ AbortBatch \/ RetrainMeta \/ EvaluatePredictions
             \/ EndManage \/ RecordCycle \/ HandleFailure
    BY <1>3, QuietActions
  <1>4. CASE \E s \in Symbols : OpenPosition(s)
    BY <1>4, Entry
  <1>5. ASSUME NEW s \in Symbols, NEW p \in PnL, ClosePosition(s, p)
        PROVE  SafeInv'
    <2>1. s \in Tracked
      BY <1>5 DEF ClosePosition, SafeInv, LifeCycle
    <2> QED
      BY <1>5, <2>1, SuccessfulExit
  <1>6. CASE \E s \in Symbols, p \in PnL : CloseFails(s, p)
    BY <1>6, FailedExit
  <1>7. CASE UNCHANGED vars
    BY <1>7 DEF vars, dbVars, procVars, SafeInv, TypeOK, DBTypeOK, OpenOK, LifeCycle,
                OneOpenRowPerSymbol, OpenRowsManaged, PositionLimit, Unique, TrackedIn,
                OpenIds, OpenSymbols, Tracked, Up
  <1> QED
    BY <1>1, <1>2, <1>3, <1>4, <1>5, <1>6, <1>7
    DEF Next, CycleStep, Scan, Manage, Priced

\* The observer keeps the inductive invariant, hence its parts.
THEOREM ObserverSafe == Spec => []SafeInv
  BY InitSafe, NextSafe, PTL DEF Spec

\* Every reachable state of the observer has the types its code relies on.
THEOREM TypeCorrect == Spec => []TypeOK
  <1>1. SafeInv => TypeOK
    BY DEF SafeInv
  <1> QED
    BY <1>1, ObserverSafe, PTL

\* paper_trades never holds two open rows of one symbol, for any number of
\* symbols, positions and outages and any order of crashes and failed writes.
THEOREM NoDuplicateRows == Spec => []OneOpenRowPerSymbol
  <1>1. SafeInv => OneOpenRowPerSymbol
    BY DEF SafeInv
  <1> QED
    BY <1>1, ObserverSafe, PTL

\* No open row is ever left out of `_open` while a process runs.
THEOREM NoUnmanagedRow == Spec => []OpenRowsManaged
  <1>1. SafeInv => OpenRowsManaged
    BY DEF SafeInv
  <1> QED
    BY <1>1, ObserverSafe, PTL

\* max_open_positions holds for memory and table across restarts.
THEOREM LimitHolds == Spec => []PositionLimit
  <1>1. SafeInv => PositionLimit
    BY DEF SafeInv
  <1> QED
    BY <1>1, ObserverSafe, PTL

------------------------------------------------------------------------------
(* Without outages *)

\* Without an outage memory and table agree, only a scan has writes pending,
\* and the connection sees every closed row of the disk as it is.
FaultFree ==
    dbFaults = 0 =>
        /\ Backed(conn)
        /\ pc # "scan" => conn = disk /\ ~pending
        /\ \A i \in DOMAIN disk \ OpenIds(disk) : i \in DOMAIN conn /\ conn[i] = disk[i]

\* Outages are never forgotten, so a behaviour without one had none before.
LEMMA FaultsOnlyGrow ==
    ASSUME SafeInv, [Next]_vars, dbFaults' = 0
    PROVE  dbFaults = 0
  <1>1. dbFaults \in Nat
    BY DEF SafeInv, TypeOK, DBTypeOK
  <1>2. dbFaults' = dbFaults \/ dbFaults' = dbFaults + 1
    BY DEF Next, CycleStep, Scan, Manage, Priced, Start, Crash, RequestStop, BeginCycle,
           ObserveOnly, OpenPosition, CommitBatch, AbortBatch, RetrainMeta,
           EvaluatePredictions, NoPrice, Hold, ClosePosition, CloseFails, EndManage,
           RecordCycle, HandleFailure, LeaveLoop, Exit, vars, dbVars, Deferred, Saved,
           Raised, BestEffort, RaisedMidway, BatchAborted, Disconnected, Outage
  <1> QED
    BY <1>1, <1>2

\* Without an outage, a step that neither starts, ends, enters nor exits leaves
\* what the connection sees alone.
LEMMA CleanQuiet ==
    ASSUME SafeInv, FaultFree, dbFaults = 0, dbFaults' = 0,
           \/ RequestStop \/ LeaveLoop \/ BeginCycle
           \/ \E s \in Symbols : ObserveOnly(s) \/ NoPrice(s) \/ Hold(s)
           \/ CommitBatch \/ AbortBatch \/ RetrainMeta \/ EvaluatePredictions
           \/ EndManage \/ RecordCycle \/ HandleFailure
    PROVE  /\ conn' = conn /\ disk' \in {disk, conn}
           /\ pc' # "scan" => conn' = disk' /\ ~pending'
           /\ Tracked' = Tracked
           /\ \A s \in Tracked : open'[s].id = open[s].id
  <1>1. ~Outage
    BY DEF Outage
  <1>2. pc # "scan" => conn = disk /\ ~pending
    BY DEF FaultFree
  <1>3. /\ conn' = conn /\ disk' \in {disk, conn}
        /\ pc' # "scan" => conn' = disk' /\ ~pending'
    BY <1>1, <1>2 DEF RequestStop, LeaveLoop, BeginCycle, ObserveOnly, NoPrice, Hold,
           CommitBatch, AbortBatch, RetrainMeta, EvaluatePredictions, EndManage,
           RecordCycle, HandleFailure, dbVars, Deferred, Saved, Raised, BestEffort,
           RaisedMidway, BatchAborted, RolledBack
  <1>4. UNCHANGED <<open, cooldown>> \/ Tick
    BY DEF RequestStop, LeaveLoop, BeginCycle, ObserveOnly, NoPrice, Hold, CommitBatch,
           AbortBatch, RetrainMeta, EvaluatePredictions, EndManage, RecordCycle,
           HandleFailure
  <1>5. Tracked' = Tracked /\ \A s \in Tracked : open'[s].id = open[s].id
    <2>1. OpenOK(open) /\ cooldown \in 0..LossCooldown
      BY DEF SafeInv, TypeOK
    <2> QED
      BY <1>4, <2>1, TickAges DEF Tracked
  <1> QED
    BY <1>3, <1>5

\* The closed rows of `table` that are in `other` too, and the same there.
KeptIn(table, other) ==
    \A i \in DOMAIN table \ OpenIds(table) : i \in DOMAIN other /\ other[i] = table[i]

\* A step without an outage keeps FaultFree and the closed rows of the disk.
LEMMA CleanStep ==
    ASSUME SafeInv, FaultFree, [Next]_vars, dbFaults' = 0
    PROVE  FaultFree' /\ KeptIn(disk, disk')
  <1> DEFINE Goal == FaultFree' /\ KeptIn(disk, disk')
  <1>1. dbFaults = 0 /\ ~Outage
    BY FaultsOnlyGrow DEF Outage
  <1>2. /\ Backed(conn) /\ KeptIn(disk, conn)
        /\ pc # "scan" => conn = disk /\ ~pending
    BY <1>1 DEF FaultFree, KeptIn
  <1>3. /\ disk \in Seq(Row) /\ conn \in Seq(Row) /\ OpenOK(open)
        /\ Unique(disk) /\ Unique(conn)
    BY DEF SafeInv, TypeOK, DBTypeOK, OneOpenRowPerSymbol
  <1>4. ASSUME Quiet, conn' = disk', Tracked' = {}, pending' = FALSE
        PROVE  Goal
    <2>1. disk' \in {disk, conn}
      BY <1>4 DEF Quiet
    <2>2. KeptIn(disk, disk') /\ KeptIn(disk', disk')
      BY <1>2, <2>1 DEF KeptIn
    <2> QED
      BY <1>4, <2>2 DEF FaultFree, Backed, KeptIn, OpenIds
  <1>5. CASE Start
    <2>1. /\ disk' = disk /\ conn' = disk /\ ~pending' /\ pc' = "idle"
          /\ open' = Reloaded(disk)
      BY <1>2, <1>5 DEF Start, dbVars
    <2>2. \A s \in DOMAIN open' : /\ open'[s].id \in OpenIds(disk)
                                 /\ disk[open'[s].id].symbol = s
      BY <1>3, <2>1, ReloadedRows
    <2> QED
      BY <2>1, <2>2 DEF FaultFree, KeptIn, Backed, Tracked, OpenIds
  <1>6. CASE Crash \/ Exit
    <2>1. Quiet /\ conn' = disk' /\ pending' = FALSE
      BY <1>1, <1>6, QuietSteps
      DEF SafeInv, TypeOK, Crash, Exit, Disconnected, RolledBack, Saved
    <2>2. Tracked' = {}
      BY <1>6 DEF Crash, Exit, ProcessGone, Tracked, Empty
    <2> QED
      BY <1>4, <2>1, <2>2
  <1>7. CASE \/ RequestStop \/ LeaveLoop \/ BeginCycle
             \/ \E s \in Symbols : ObserveOnly(s) \/ NoPrice(s) \/ Hold(s)
             \/ CommitBatch \/ AbortBatch \/ RetrainMeta \/ EvaluatePredictions
             \/ EndManage \/ RecordCycle \/ HandleFailure
    <2>1. /\ conn' = conn /\ disk' \in {disk, conn}
          /\ pc' # "scan" => conn' = disk' /\ ~pending'
          /\ Tracked' = Tracked
          /\ \A s \in Tracked : open'[s].id = open[s].id
      BY <1>1, <1>7, CleanQuiet
    <2>2. Backed(conn)'
      BY <1>2, <2>1 DEF Backed, OpenIds
    <2>3. KeptIn(disk, disk') /\ KeptIn(disk', conn')
      BY <1>2, <2>1 DEF KeptIn
    <2> QED
      BY <2>1, <2>2, <2>3 DEF FaultFree, KeptIn, OpenIds
  <1>8. ASSUME NEW s \in Symbols, OpenPosition(s)
        PROVE  Goal
    <2> DEFINE id == Len(conn) + 1
               pos == [id |-> id, age |-> 0]
    <2>1. /\ pc' = "scan" /\ disk' = disk /\ conn' = WithInserted(conn, s)
          /\ open' = Track(s, pos)
      BY <1>8 DEF OpenPosition, Deferred
    <2>2. pos \in Position
      BY <1>3 DEF Position
    <2>3. /\ Tracked' = Tracked \cup {s}
          /\ \A t \in Tracked' : open'[t] = IF t = s THEN pos ELSE open[t]
      <3>1. /\ DOMAIN Track(s, pos) = Tracked \cup {s}
            /\ \A t \in Tracked \cup {s} :
                  Track(s, pos)[t] = IF t = s THEN pos ELSE open[t]
        BY <1>3, <2>2, OpenUpdates
      <3> QED
        BY <2>1, <3>1 DEF Tracked
    <2>4. /\ \A i \in DOMAIN conn : conn'[i] = conn[i] /\ i \in DOMAIN conn'
          /\ conn'[id].symbol = s
          /\ OpenIds(conn') = OpenIds(conn) \cup {id}
      <3>1. /\ \A i \in DOMAIN conn : conn'[i] = conn[i]
            /\ conn'[id].symbol = s
            /\ OpenIds(conn') = OpenIds(conn) \cup {id}
        <4>1. conn \in Seq(Row) /\ conn' = WithInserted(conn, s)
          BY <1>3, <2>1
        <4> QED
          BY <4>1, InsertedRow
      <3>2. DOMAIN conn \subseteq DOMAIN conn'
        BY <1>3, <2>1 DEF WithInserted
      <3> QED
        BY <3>1, <3>2
    <2>5. Backed(conn)'
      <3>1. \A t \in Tracked : open[t].id \in OpenIds(conn) /\ conn[open[t].id].symbol = t
        BY <1>2 DEF Backed
      <3>2. OpenIds(conn) \subseteq DOMAIN conn
        BY DEF OpenIds
      <3>3. \A t \in Tracked' : open'[t].id \in OpenIds(conn') /\ conn'[open'[t].id].symbol = t
        BY <2>3, <2>4, <3>1, <3>2
      <3> QED
        BY <3>3 DEF Backed, OpenIds
    <2>6. KeptIn(disk, conn')
      BY <1>2, <2>4 DEF KeptIn
    <2> QED
      BY <2>1, <2>5, <2>6 DEF FaultFree, KeptIn, OpenIds
  <1>9. ASSUME NEW s \in Symbols, NEW p \in PnL, ClosePosition(s, p)
        PROVE  Goal
    <2> DEFINE id == open[s].id
    <2>1. /\ pc = "manage" /\ pc' = "manage" /\ s \in Tracked /\ s \in todo
          /\ conn' = WithClosed(conn, id, p) /\ disk' = conn' /\ ~pending'
          /\ open' = Untrack(s)
      BY <1>9 DEF ClosePosition, Saved, SafeInv, LifeCycle
    <2>2. /\ Tracked' = Tracked \ {s}
          /\ \A t \in Tracked \ {s} : open'[t] = open[t]
      BY <1>3, <2>1, OpenUpdates DEF Tracked
    <2>3. /\ DOMAIN conn' = DOMAIN conn
          /\ \A i \in DOMAIN conn \ {id} : conn'[i] = conn[i]
          /\ OpenIds(conn') = OpenIds(conn) \ {id}
      BY <1>3, <2>1, ClosedRow
    <2>4. \A t \in Tracked : open[t].id \in OpenIds(conn) /\ conn[open[t].id].symbol = t
      BY <1>2 DEF Backed
    <2>5. OpenIds(conn) \subseteq DOMAIN conn /\ id \in OpenIds(conn)
      BY <2>1, <2>4 DEF OpenIds
    <2>6. Backed(conn)'
      <3>1. \A t \in Tracked' : open'[t].id \in OpenIds(conn') /\ conn'[open'[t].id].symbol = t
        <4> TAKE t \in Tracked'
        <4>1. t \in Tracked /\ t # s /\ open'[t].id = open[t].id
          BY <2>2
        <4>2. open[t].id # id
          BY <2>1, <2>4, <4>1
        <4> QED
          BY <2>3, <2>4, <2>5, <4>1, <4>2
      <3> QED
        BY <3>1 DEF Backed, OpenIds
    <2>7. conn = disk
      BY <1>2, <2>1
    <2>8. KeptIn(disk, disk')
      BY <2>1, <2>3, <2>5, <2>7 DEF KeptIn
    <2> QED
      BY <2>1, <2>6, <2>8 DEF FaultFree, KeptIn, OpenIds
  <1>10. ~ \E s \in Symbols, p \in PnL : CloseFails(s, p)
    BY <1>1 DEF CloseFails
  <1>11. CASE UNCHANGED vars
    <2>1. /\ disk' = disk /\ conn' = conn /\ open' = open /\ pc' = pc /\ pending' = pending
      BY <1>11 DEF vars, dbVars, procVars
    <2> QED
      BY <1>2, <2>1 DEF FaultFree, KeptIn, Backed, OpenIds, Tracked
  <1> QED
    BY <1>5, <1>6, <1>7, <1>8, <1>9, <1>10, <1>11
    DEF Next, CycleStep, Scan, Manage, Priced

\* Initially nothing is tracked and nothing is booked.
LEMMA InitFaultFree == Init => FaultFree
  BY DEF Init, DBInit, FaultFree, Backed, Tracked, Empty, OpenIds

\* Every tracked position is backed by its own open row, and closed rows stay as
\* they are, in every behaviour without outages, whatever crashes happen in it.
THEOREM FaultFreeHolds == Spec => []FaultFree
  <1>1. SafeInv /\ FaultFree /\ [Next]_vars => FaultFree'
    <2> SUFFICES ASSUME SafeInv, FaultFree, [Next]_vars, dbFaults' = 0 PROVE FaultFree'
      BY DEF FaultFree
    <2> QED
      BY CleanStep
  <1> QED
    BY <1>1, InitFaultFree, ObserverSafe, PTL DEF Spec

\* No phantom positions: memory tracks only what the table holds open.
THEOREM NoPhantom == Spec => []NoPhantomPosition
  <1>1. FaultFree => NoPhantomPosition
    BY DEF FaultFree, NoPhantomPosition
  <1> QED
    BY <1>1, FaultFreeHolds, PTL

\* A trade is closed once: its row never changes again.
THEOREM ClosedOnce == Spec => ClosedRowsFinal
  <1> DEFINE Final == dbFaults' = 0 =>
                        \A i \in DOMAIN disk \ OpenIds(disk) :
                           i \in DOMAIN disk' /\ disk'[i] = disk[i]
  <1>1. SafeInv /\ FaultFree /\ [Next]_vars => [Final]_vars
    <2> SUFFICES ASSUME SafeInv, FaultFree, [Next]_vars, dbFaults' = 0
                 PROVE  Final
      OBVIOUS
    <2> QED
      BY CleanStep DEF KeptIn
  <1> QED
    BY <1>1, ObserverSafe, FaultFreeHolds, PTL DEF Spec, ClosedRowsFinal

------------------------------------------------------------------------------
(* The paper ledger: what the connection sees always continues what is on *)
(* disk, so that whatever is committed continues what was committed.     *)

\* Rows keep place and symbol, and a row that is not open does not become it.
Grown(old, new) ==
    /\ Len(old) <= Len(new)
    /\ \A i \in DOMAIN old : /\ new[i].symbol = old[i].symbol
                             /\ old[i].status # "open" => new[i].status # "open"

LEMMA GrownOrder ==
    ASSUME NEW a \in Seq(Row), NEW b \in Seq(Row), NEW c \in Seq(Row)
    PROVE  /\ Grown(a, a)
           /\ Grown(a, b) /\ Grown(b, c) => Grown(a, c)
  <1>1. Len(a) \in Nat /\ Len(b) \in Nat /\ Len(c) \in Nat
    OBVIOUS
  <1>2. DOMAIN a = 1..Len(a) /\ DOMAIN b = 1..Len(b)
    OBVIOUS
  <1>3. Len(a) <= Len(b) => DOMAIN a \subseteq DOMAIN b
    BY <1>1, <1>2
  <1> QED
    BY <1>1, <1>3 DEF Grown

\* insert_paper_trade and close_paper_trade continue a table.
LEMMA InsertGrows ==
    ASSUME NEW table \in Seq(Row), NEW s \in Symbols
    PROVE  WithInserted(table, s) \in Seq(Row) /\ Grown(table, WithInserted(table, s))
  <1> DEFINE new == WithInserted(table, s)
  <1>1. /\ new \in Seq(Row)
        /\ \A i \in DOMAIN table : new[i] = table[i]
    BY InsertedRow
  <1>2. Len(new) = Len(table) + 1 /\ Len(table) \in Nat
    BY DEF WithInserted
  <1> HIDE DEF new
  <1>3. Grown(table, new)
    BY <1>1, <1>2 DEF Grown
  <1> QED
    BY <1>1, <1>3 DEF new

LEMMA CloseGrows ==
    ASSUME NEW table \in Seq(Row), NEW id, NEW p \in PnL
    PROVE  WithClosed(table, id, p) \in Seq(Row) /\ Grown(table, WithClosed(table, id, p))
  <1> DEFINE new == WithClosed(table, id, p)
  <1>1. /\ new \in Seq(Row) /\ DOMAIN new = DOMAIN table
        /\ \A i \in DOMAIN table : new[i].symbol = table[i].symbol
        /\ OpenIds(new) = OpenIds(table) \ {id}
    BY ClosedRow
  <1> HIDE DEF new
  <1>2. Len(new) = Len(table) /\ Len(table) \in Nat
    BY <1>1
  <1>3. \A i \in DOMAIN table : table[i].status # "open" => new[i].status # "open"
    BY <1>1 DEF OpenIds
  <1>4. Grown(table, new)
    BY <1>1, <1>2, <1>3 DEF Grown
  <1> QED
    BY <1>1, <1>4 DEF new

------------------------------------------------------------------------------
(* Steps *)

\* What a step writes: a table that continues what the connection saw, seen by
\* the connection and perhaps committed; or a rollback.
Writes(table) ==
    \/ conn' = table /\ disk' \in {disk, table}
    \/ conn' = disk /\ disk' = disk

LEMMA StepWrites ==
    ASSUME SafeInv, [Next]_vars
    PROVE  \E table \in Seq(Row) : Grown(conn, table) /\ Writes(table)
  <1>1. conn \in Seq(Row) /\ disk \in Seq(Row)
    BY DEF SafeInv, TypeOK, DBTypeOK
  <1>2. Grown(conn, conn)
    BY <1>1, GrownOrder
  <1>3. ASSUME Writes(conn) PROVE \E table \in Seq(Row) : Grown(conn, table) /\ Writes(table)
    BY <1>1, <1>2, <1>3
  <1>4. /\ UNCHANGED dbVars \/ Deferred(conn) \/ Saved(conn) => Writes(conn)
        /\ BestEffort(conn) \/ RaisedMidway \/ BatchAborted \/ Disconnected => Writes(conn)
        /\ RolledBack => Writes(conn)
    BY DEF dbVars, Deferred, Saved, BestEffort, Raised, RaisedMidway, BatchAborted,
           Disconnected, RolledBack, Writes
  <1>5. CASE Start \/ Crash \/ Exit \/ UNCHANGED vars
    BY <1>3, <1>4, <1>5 DEF Start, Crash, Exit, vars
  <1>6. CASE \/ RequestStop \/ LeaveLoop \/ BeginCycle
             \/ \E s \in Symbols : ObserveOnly(s) \/ NoPrice(s) \/ Hold(s)
             \/ CommitBatch \/ AbortBatch \/ RetrainMeta \/ EvaluatePredictions
             \/ EndManage \/ RecordCycle \/ HandleFailure
    BY <1>3, <1>4, <1>6
    DEF RequestStop, LeaveLoop, BeginCycle, ObserveOnly, NoPrice, Hold, CommitBatch,
        AbortBatch, RetrainMeta, EvaluatePredictions, EndManage, RecordCycle, HandleFailure
  <1>7. ASSUME NEW s \in Symbols, OpenPosition(s)
        PROVE  \E table \in Seq(Row) : Grown(conn, table) /\ Writes(table)
    BY <1>1, <1>7, InsertGrows DEF OpenPosition, Deferred, Writes
  <1>8. ASSUME NEW s \in Symbols, NEW p \in PnL, ClosePosition(s, p)
        PROVE  \E table \in Seq(Row) : Grown(conn, table) /\ Writes(table)
    BY <1>1, <1>8, CloseGrows DEF ClosePosition, Saved, Writes
  <1>9. ASSUME NEW s \in Symbols, NEW p \in PnL, CloseFails(s, p)
        PROVE  \E table \in Seq(Row) : Grown(conn, table) /\ Writes(table)
    <2>1. PICK table \in {conn, WithClosed(conn, open[s].id, p)} :
             conn' = table /\ disk' \in {disk, table}
      BY <1>9 DEF CloseFails
    <2>2. table \in Seq(Row) /\ Grown(conn, table)
      BY <1>1, <1>2, CloseGrows
    <2> QED
      BY <2>1, <2>2 DEF Writes
  <1> QED
    BY <1>5, <1>6, <1>7, <1>8, <1>9 DEF Next, CycleStep, Scan, Manage, Priced

\* The connection sees a continuation of the disk.
ConnContinues == Grown(disk, conn)

LEMMA StepContinues ==
    ASSUME SafeInv, SafeInv', ConnContinues, [Next]_vars
    PROVE  ConnContinues' /\ Grown(disk, disk')
  <1>1. /\ disk \in Seq(Row) /\ conn \in Seq(Row)
        /\ disk' \in Seq(Row) /\ conn' \in Seq(Row)
    BY DEF SafeInv, TypeOK, DBTypeOK
  <1>2. PICK table \in Seq(Row) : Grown(conn, table) /\ Writes(table)
    BY StepWrites
  <1>3. Grown(disk, disk) /\ Grown(table, table) /\ Grown(disk, table)
    BY <1>1, <1>2, GrownOrder DEF ConnContinues
  <1>4. Grown(disk', conn') /\ Grown(disk, disk')
    BY <1>2, <1>3 DEF Writes
  <1> QED
    BY <1>4 DEF ConnContinues, Grown

------------------------------------------------------------------------------
(* The refinement *)

\* The book of a table, as the ledger of a state is that of its disk.
BookOf(table) ==
    [i \in DOMAIN table |-> [symbol |-> table[i].symbol,
                             settled |-> table[i].status # "open"]]

LEMMA BookIsSound ==
    ASSUME NEW table \in Seq(Row), Unique(table), Cardinality(OpenSymbols(table)) <= MaxOpen
    PROVE  BookOf(table) \in Seq(Ledger!Trade) /\ Ledger!Sound(BookOf(table))
  <1>1. ASSUME NEW i \in DOMAIN table PROVE BookOf(table)[i] \in Ledger!Trade
    <2>1. table[i] \in Row
      OBVIOUS
    <2>2. (table[i].status # "open") \in BOOLEAN
      OBVIOUS
    <2> QED
      BY <2>1, <2>2 DEF BookOf, Row, Ledger!Trade
  <1>2. /\ DOMAIN BookOf(table) = 1..Len(table) /\ Len(table) \in Nat
        /\ DOMAIN table = 1..Len(table)
    BY DEF BookOf
  <1>3. BookOf(table) = [i \in 1..Len(table) |-> BookOf(table)[i]]
    BY <1>2 DEF BookOf
  <1>4. BookOf(table) \in [1..Len(table) -> Ledger!Trade]
    BY <1>1, <1>2, <1>3
  <1>5. BookOf(table) \in Seq(Ledger!Trade)
    BY <1>2, <1>4
  <1>6. Ledger!Unsettled(BookOf(table)) = OpenIds(table)
    BY DEF Ledger!Unsettled, OpenIds, BookOf
  <1>7. \A i \in OpenIds(table) : BookOf(table)[i].symbol = table[i].symbol
    BY DEF BookOf, OpenIds
  <1>8. {BookOf(table)[i].symbol : i \in OpenIds(table)} = OpenSymbols(table)
    BY <1>7 DEF OpenSymbols
  <1>9. \A i, j \in OpenIds(table) :
           BookOf(table)[i].symbol = BookOf(table)[j].symbol => i = j
    BY <1>7 DEF Unique
  <1>10. Ledger!Sound(BookOf(table))
    <2>1. Ledger!Cardinality(OpenSymbols(table)) = Cardinality(OpenSymbols(table))
      BY DEF Ledger!Cardinality, Cardinality
    <2> QED
      BY <1>6, <1>8, <1>9, <2>1 DEF Ledger!Sound
  <1> QED
    BY <1>5, <1>10

LEMMA BookContinues ==
    ASSUME NEW old \in Seq(Row), NEW new \in Seq(Row), Grown(old, new)
    PROVE  Ledger!Continues(BookOf(old), BookOf(new))
  <1>1. /\ Len(old) \in Nat /\ Len(new) \in Nat
        /\ DOMAIN BookOf(old) = 1..Len(old) /\ DOMAIN BookOf(new) = 1..Len(new)
        /\ DOMAIN old = 1..Len(old) /\ DOMAIN new = 1..Len(new)
    BY DEF BookOf
  <1>2. Len(BookOf(old)) = Len(old) /\ Len(BookOf(new)) = Len(new)
    BY <1>1
  <1>3. ASSUME NEW i \in DOMAIN old
        PROVE  /\ BookOf(new)[i].symbol = BookOf(old)[i].symbol
               /\ BookOf(old)[i].settled => BookOf(new)[i].settled
    <2>1. i \in DOMAIN new
      BY <1>1 DEF Grown
    <2>2. BookOf(old)[i] = [symbol |-> old[i].symbol, settled |-> old[i].status # "open"]
      BY DEF BookOf
    <2>3. BookOf(new)[i] = [symbol |-> new[i].symbol, settled |-> new[i].status # "open"]
      BY <2>1 DEF BookOf
    <2>4. /\ BookOf(new)[i].symbol = new[i].symbol /\ BookOf(old)[i].symbol = old[i].symbol
          /\ BookOf(new)[i].settled = (new[i].status # "open")
          /\ BookOf(old)[i].settled = (old[i].status # "open")
      BY <2>2, <2>3
    <2>5. /\ new[i].symbol = old[i].symbol
          /\ old[i].status # "open" => new[i].status # "open"
      BY DEF Grown
    <2> QED
      BY <2>4, <2>5, Zenon
  <1> QED
    BY <1>1, <1>2, <1>3 DEF Ledger!Continues, Grown

LEMMA LedgerInit == Init => ConnContinues /\ Ledger!Init
  <1> SUFFICES ASSUME Init PROVE ConnContinues /\ Ledger!Init
    OBVIOUS
  <1>1. disk = << >> /\ conn = << >>
    BY DEF Init, DBInit
  <1> QED
    BY <1>1 DEF ConnContinues, Grown, Ledger!Init

LEMMA LedgerStep ==
    ASSUME SafeInv, SafeInv', ConnContinues, [Next]_vars
    PROVE  Ledger!Transact \/ UNCHANGED BookOf(disk)
  <1>1. /\ disk \in Seq(Row) /\ disk' \in Seq(Row)
        /\ Unique(disk') /\ Cardinality(OpenSymbols(disk')) <= MaxOpen
    <2>1. disk \in Seq(Row) /\ disk' \in Seq(Row)
      BY DEF SafeInv, TypeOK, DBTypeOK
    <2>2. Unique(disk')
      BY DEF SafeInv, OneOpenRowPerSymbol, Unique, OpenIds
    <2>3. Cardinality(OpenSymbols(disk')) <= MaxOpen
      BY DEF SafeInv, PositionLimit, OpenSymbols, OpenIds
    <2> QED
      BY <2>1, <2>2, <2>3
  <1>2. Grown(disk, disk')
    BY StepContinues
  <1>3. BookOf(disk') \in Seq(Ledger!Trade) /\ Ledger!Sound(BookOf(disk'))
    BY <1>1, BookIsSound
  <1>4. Ledger!Continues(BookOf(disk), BookOf(disk'))
    BY <1>1, <1>2, BookContinues
  <1>5. BookOf(disk)' = BookOf(disk')
    BY DEF BookOf
  <1> QED
    BY <1>3, <1>4, <1>5 DEF Ledger!Transact, BookOf

\* The committed rows are a paper ledger: rows are only added and closed, never
\* lost, reordered or reopened, and the open ones keep to the limits.
THEOREM LedgerImplemented == Spec => ImplementsLedger
  <1>1. SafeInv /\ SafeInv' /\ ConnContinues /\ [Next]_vars => ConnContinues'
    BY StepContinues
  <1>2. SafeInv /\ SafeInv' /\ ConnContinues /\ [Next]_vars
           => [Ledger!Transact]_(BookOf(disk))
    BY LedgerStep
  <1>3. BookOf(disk) = [i \in DOMAIN disk |-> [symbol |-> disk[i].symbol,
                                               settled |-> disk[i].status # "open"]]
    BY DEF BookOf
  <1> QED
    BY <1>1, <1>2, LedgerInit, ObserverSafe, PTL
    DEF Spec, ImplementsLedger, Ledger!Spec, BookOf
=============================================================================
