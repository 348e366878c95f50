----------------------------- MODULE SharedTable -----------------------------
(***************************************************************************)
(* `daytrade learn` and `daytrade observe` run an Observer each.  They     *)
(* take locks of different names and open the same database file, so both  *)
(* manage one paper_trades table.  Each write is committed by itself here: *)
(* batches and failing writes are the subject of Observer.                 *)
(***************************************************************************)
EXTENDS InstanceLock, ObservatoryDB

CONSTANT MaxRows    \* bound: rows of paper_trades

VARIABLE held       \* _open of each observer: symbol -> row id

sharedVars == <<lockVars, dbVars, held>>

None == [s \in {} |-> 0]

\* run_forever is at work.
Observing(p) == at[p] = "holding" /\ held[p].started

SharedInit ==
    /\ LockInit /\ DBInit
    /\ held = [p \in Procs |-> [started |-> FALSE, positions |-> None]]

\* A process that is gone has no positions in memory.
LockMoves ==
    /\ LockNext
    /\ held' = [p \in Procs |-> IF at'[p] = "down"
                                THEN [started |-> FALSE, positions |-> None]
                                ELSE held[p]]
    /\ UNCHANGED dbVars

\* Observer.start: whatever is open in the table is re-adopted.
Adopt(p) ==
    /\ at[p] = "holding" /\ ~held[p].started
    /\ held' = [held EXCEPT ![p] =
          [started |-> TRUE,
           positions |-> [s \in OpenSymbols(disk) |->
                             CHOOSE i \in OpenIds(disk) :
                                /\ disk[i].symbol = s
                                /\ \A j \in OpenIds(disk) : disk[j].symbol = s => j <= i]]]
    /\ UNCHANGED <<lockVars, dbVars>>

\* _maybe_open_position: only this process's own positions are looked at.
Enter(p, s) ==
    LET mine == held[p].positions
    IN  /\ Observing(p) /\ s \notin DOMAIN mine
        /\ Len(disk) < MaxRows
        /\ Saved(WithInserted(disk, s))
        /\ held' = [held EXCEPT ![p].positions =
              [t \in DOMAIN mine \cup {s} |-> IF t = s THEN Len(disk) + 1 ELSE mine[t]]]
        /\ UNCHANGED lockVars

\* _manage_positions: the row is closed by its id, whatever its status.
Leave(p, s) ==
    LET mine == held[p].positions
    IN  /\ Observing(p) /\ s \in DOMAIN mine
        /\ \E gain \in PnL : Saved(WithClosed(disk, mine[s], gain))
        /\ held' = [held EXCEPT ![p].positions = [t \in DOMAIN mine \ {s} |-> mine[t]]]
        /\ UNCHANGED lockVars

SharedNext ==
    \/ LockMoves
    \/ \E p \in Procs : Adopt(p) \/ \E s \in Symbols : Enter(p, s) \/ Leave(p, s)

SharedSpec == SharedInit /\ [][SharedNext]_sharedVars

-----------------------------------------------------------------------------
\* instance_lock.py on "two bot processes sharing one SQLite file": conflicting
\* state, double orders, and "this lock makes that impossible".  A trade that is
\* closed is not sold a second time, with another result.
SoldOnce ==
    [][\A i \in DOMAIN disk :
          disk[i].status = "closed" => disk'[i] = disk[i]]_sharedVars
=============================================================================
