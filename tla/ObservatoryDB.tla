---------------------------- MODULE ObservatoryDB ----------------------------
(***************************************************************************)
(* The `paper_trades` table of the observatory database, seen through the  *)
(* one sqlite3 connection a bot process holds.                             *)
(*                                                                         *)
(* `disk` is what a new process would read; `conn` is what this process    *)
(* reads, its uncommitted writes included; `pending` says that the         *)
(* connection has a transaction open.  A table is the sequence of its      *)
(* rows: the row id is the position, so an id is handed out again when the *)
(* insert that took it is rolled back, as sqlite's AUTOINCREMENT counter   *)
(* (itself a table of the same transaction) does.                          *)
(*                                                                         *)
(* A write outside `with db.batch()` is a statement and a commit.  Either  *)
(* can raise once `_RetryingConnection` has used up its retries; a commit  *)
(* that raises leaves the statement pending.  `dbFaults` counts the        *)
(* outages, at most MaxDbFaults of them.                                   *)
(***************************************************************************)
EXTENDS Naturals, Sequences, FiniteSets

CONSTANTS
    Symbols,        \* the traded symbols
    MaxDbFaults     \* bound: outages of the database in one behaviour

ASSUME DBAssumption == /\ IsFiniteSet(Symbols)
                       /\ MaxDbFaults \in Nat

VARIABLES
    disk,       \* the committed rows
    conn,       \* the rows as the connection sees them
    pending,    \* a transaction is open on the connection
    dbFaults    \* outages so far

dbVars == <<disk, conn, pending, dbFaults>>

------------------------------------------------------------------------------
(* Rows and tables *)

PnL == {"loss", "gain"}

Row == [symbol : Symbols, status : {"open", "closed"}, pnl : PnL \cup {"none"}]

\* Mutant: INSERT OR REPLACE keyed by the symbol.
WithUpserted(table, s) ==
    Append(SelectSeq(table, LAMBDA row : row.symbol # s),
           [symbol |-> s, status |-> "open", pnl |-> "none"])

\* insert_paper_trade: the row that is appended, status 'open', pnl 0.
WithInserted(table, s) ==
    Append(table, [symbol |-> s, status |-> "open", pnl |-> "none"])

\* close_paper_trade: UPDATE ... WHERE id=?.  The status is not looked at, and
\* an id that no row has updates nothing and raises nothing.
WithClosed(table, id, p) ==
    IF id \in DOMAIN table
    THEN [table EXCEPT ![id].status = "closed", ![id].pnl = p]
    ELSE table

\* open_paper_trades: SELECT ... WHERE status='open'.
OpenIds(table) == {i \in DOMAIN table : table[i].status = "open"}

OpenSymbols(table) == {table[i].symbol : i \in OpenIds(table)}

------------------------------------------------------------------------------
(* What the connection does *)

DBTypeOK ==
    /\ disk \in Seq(Row)
    /\ conn \in Seq(Row)
    /\ pending \in BOOLEAN
    /\ dbFaults \in 0..MaxDbFaults

DBInit ==
    /\ disk = << >>
    /\ conn = << >>
    /\ pending = FALSE
    /\ dbFaults = 0

Outage == /\ dbFaults < MaxDbFaults
          /\ dbFaults' = dbFaults + 1

\* A statement inside a batch: it stays pending until the batch ends.
Deferred(table) ==
    /\ conn' = table
    /\ pending' = TRUE
    /\ UNCHANGED <<disk, dbFaults>>

\* A statement and its commit.  The commit takes along whatever an earlier
\* failed commit left pending.
Saved(table) ==
    /\ conn' = table
    /\ disk' = table
    /\ pending' = FALSE
    /\ UNCHANGED dbFaults

\* A write that raises: the statement did nothing, or it stays pending.
Raised(table) ==
    /\ Outage
    /\ UNCHANGED disk
    /\ \/ UNCHANGED <<conn, pending>>
       \/ conn' = table /\ pending' = TRUE

\* A write whose exception the caller swallows.
BestEffort(table) == Saved(table) \/ Raised(table)

\* Several writes of other tables of which one raises: what was pending may
\* have been committed by one that went before.
RaisedMidway ==
    \/ Raised(conn)
    \/ Outage /\ disk' = conn /\ UNCHANGED conn /\ pending' = FALSE

\* rollback(): the connection forgets what was pending.
RolledBack ==
    /\ conn' = disk
    /\ pending' = FALSE
    /\ UNCHANGED disk

\* batch() on an exception, a failing commit included: one rollback, whose own
\* failure is swallowed and leaves the transaction as it is.
BatchAborted ==
    /\ Outage
    /\ RolledBack \/ UNCHANGED <<disk, conn, pending>>

\* The process is gone, or db.close() was called: sqlite discards the open
\* transaction, and the next connection sees the disk.
Disconnected ==
    /\ RolledBack
    /\ UNCHANGED dbFaults
=============================================================================
