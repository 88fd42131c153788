---------------------------- MODULE Transactions ----------------------------
(***************************************************************************)
(* The commit mode and the transaction of one connection: TransactionState,*)
(* TrinoConnection::ensure_transaction, the statement paths that run inside*)
(* the transaction (exec_direct, fetch, close_cursor, the catalog and      *)
(* describe round trips) and the calls that end it (end_tran,              *)
(* set_autocommit, disconnect), against a coordinator that aborts a        *)
(* transaction on any statement error.                                     *)
(*                                                                         *)
(* Every ODBC call is split where it crosses the wire or shared state, and *)
(* each statement handle and the connection handle is an actor with one    *)
(* call in flight at most.  Serialised says whether the layer above the    *)
(* driver (stackable_odbc_core and the Driver Manager) runs the calls of   *)
(* one connection one at a time.  SQLCancel is never serialised.           *)
(***************************************************************************)
EXTENDS Naturals

CONSTANTS
  Stmts,       \* statement handles of the connection
  Txns,        \* transaction ids the coordinator can hand out (a bound)
  NoTxn,       \* TransactionId::NoTransaction: no id held
  MaxEpoch,    \* how often end_tran reaches the wire (a bound)
  Serialised,  \* whether calls on the connection run one at a time
  Faults       \* whether a request or its response can be lost

ASSUME NoTxnAssumption == NoTxn \notin Txns
ASSUME MaxEpochAssumption == MaxEpoch \in Nat
ASSUME ModeAssumption == Serialised \in BOOLEAN /\ Faults \in BOOLEAN

VARIABLES
  autocommit, aborted, epoch,   \* TransactionState
  clientTxn,                    \* the id the HTTP client sends on every request
  coord,                        \* [Txns -> TxnStatus], the coordinator's view
  pc,                           \* [Stmts -> StmtSteps], the call in flight on a handle
  cursor,                       \* [Stmts -> {"closed", "open"}], next_uri present
  cancelled,                    \* [Stmts -> BOOLEAN], CancelState::cancelled
  query,                        \* [Stmts -> QueryStatus], the query behind the handle
  stmtTxn,                      \* [Stmts -> Txns \union {NoTxn}], the transaction it runs in
  stmtEpoch,                    \* [Stmts -> Nat], TrinoStatement::txn_epoch
  connPc,                       \* the call in flight on the connection handle
  ending,                       \* the locals of end_tran: who called it, and `aborted` as read
  told,                         \* [Txns -> Reports], observer: what SQLEndTran answered
  verdict,                      \* [Txns -> Verdicts], observer: how the driver met the abort
  noted                         \* observer: an error was noted while the open transaction was open

state   == <<autocommit, aborted, epoch>>
server  == <<coord, verdict>>
resultSet == <<cursor, cancelled, query, stmtTxn, stmtEpoch>>
handles == <<pc, resultSet>>
conn    == <<connPc, ending>>
vars    == <<state, clientTxn, server, handles, conn, told, noted>>

TxnStatus   == {"unused", "active", "failed", "committed", "rolledback", "expired"}
Ended       == {"committed", "rolledback", "expired"}
QueryStatus == {"none", "running", "failed"}
StmtSteps   == {"idle", "begin", "begun", "submit", "register", "page", "drain", "note"}
ConnSteps   == {"idle", "prepare", "describe", "describeNote", "deallocate", "note",
                "read", "wire", "mode", "closed"}
Enders      == {"none", "commit", "rollback", "autocommitOn", "disconnect"}
Reports     == {"nothing", "committed", "rolledback", "25S03", "error"}
\* "unseen": failed on the coordinator, no response has said so yet.  "seen": a
\* response said so on a path that calls note_statement_error, which records it;
\* "inAutocommit": the same, where note_statement_error does nothing.  "drained":
\* close_cursor's drain read the response.  "cancelled", "prepare", "deallocate":
\* failed by that request.  "endFailed": an attempt to end it failed.
\* "forgotten": one failed after the abort was seen.
Verdicts    == {"none", "unseen", "seen", "inAutocommit", "drained", "cancelled", "prepare",
                "deallocate", "endFailed", "forgotten"}

MaybeTxn == Txns \union {NoTxn}

TypeOK ==
  /\ autocommit \in BOOLEAN /\ aborted \in BOOLEAN /\ epoch \in Nat
  /\ clientTxn \in MaybeTxn
  /\ coord \in [Txns -> TxnStatus]
  /\ pc \in [Stmts -> StmtSteps]
  /\ cursor \in [Stmts -> {"closed", "open"}]
  /\ cancelled \in [Stmts -> BOOLEAN]
  /\ query \in [Stmts -> QueryStatus]
  /\ stmtTxn \in [Stmts -> MaybeTxn]
  /\ stmtEpoch \in [Stmts -> Nat]
  /\ connPc \in ConnSteps
  /\ ending \in [by : Enders, saw : BOOLEAN]
  /\ told \in [Txns -> Reports]
  /\ verdict \in [Txns -> Verdicts]
  /\ noted \in BOOLEAN

NotEnding == [by |-> "none", saw |-> FALSE]

Init ==
  /\ autocommit = TRUE /\ aborted = FALSE /\ epoch = 0
  /\ clientTxn = NoTxn
  /\ coord = [t \in Txns |-> "unused"]
  /\ pc = [s \in Stmts |-> "idle"]
  /\ cursor = [s \in Stmts |-> "closed"]
  /\ cancelled = [s \in Stmts |-> FALSE]
  /\ query = [s \in Stmts |-> "none"]
  /\ stmtTxn = [s \in Stmts |-> NoTxn]
  /\ stmtEpoch = [s \in Stmts |-> 0]
  /\ connPc = "idle"
  /\ ending = NotEnding
  /\ told = [t \in Txns |-> "nothing"]
  /\ verdict = [t \in Txns |-> "none"]
  /\ noted = FALSE
-----------------------------------------------------------------------------
(* The layer above: which call may start.                                   *)

Quiet == connPc = "idle" /\ \A s \in Stmts : pc[s] = "idle"

\* Calls on a statement exclude each other (`&mut TrinoStatement`), calls on
\* the connection handle too; Serialised extends that to the whole connection.
StmtMayStart(s) ==
  /\ pc[s] = "idle"
  /\ connPc # "closed"
  /\ Serialised => Quiet

ConnMayStart ==
  /\ connPc = "idle"
  /\ Serialised => Quiet
-----------------------------------------------------------------------------
(* TransactionState.                                                        *)

in_transaction == clientTxn # NoTxn

note_statement_error == aborted' = (aborted \/ ~ autocommit)

\* A failed call notes its error.
NoteStatementError ==
  /\ note_statement_error
  /\ noted' = (noted \/ in_transaction)
  /\ UNCHANGED <<autocommit, epoch>>

Outlived(s) == epoch # stmtEpoch[s]
-----------------------------------------------------------------------------
(* The coordinator.                                                         *)

\* Whether a request that carries id t is served rather than refused.
Serves(t) == t # NoTxn => coord[t] = "active"

\* The statement error that aborts transaction t, if one is open, and how the
\* driver meets it: `why`, unless it has seen one since the last try to end t.
Aborts(t, why) ==
  /\ coord' = [u \in Txns |-> IF u = t /\ coord[u] = "active" THEN "failed" ELSE coord[u]]
  /\ verdict' = [u \in Txns |-> IF u = t /\ coord[u] \in {"active", "failed"}
                                   /\ verdict[u] # "seen"
                                THEN why ELSE verdict[u]]

\* How an error is met that goes through note_statement_error.
Heard == IF autocommit THEN "inAutocommit" ELSE "seen"

\* A request lost on the way there (nothing happened) or on the way back (it
\* ran, and may have aborted its transaction).
LostRequest(t, why) ==
  /\ Faults
  /\ UNCHANGED server \/ Aborts(t, why)

\* A query that was delivering rows fails, unasked.
QueryFails(s) ==
  /\ query[s] = "running"
  /\ query' = [query EXCEPT ![s] = "failed"]
  /\ IF stmtTxn[s] # NoTxn /\ coord[stmtTxn[s]] = "active"
     THEN Aborts(stmtTxn[s], "unseen")
     ELSE UNCHANGED server
  /\ UNCHANGED <<state, clientTxn, pc, cursor, cancelled, stmtTxn, stmtEpoch, conn, told, noted>>

\* The coordinator's idle timeout takes an abandoned transaction.
IdleTimeout(t) ==
  /\ Faults
  /\ coord[t] \in {"active", "failed"}
  /\ coord' = [coord EXCEPT ![t] = "expired"]
  /\ UNCHANGED <<state, clientTxn, verdict, handles, conn, told, noted>>
-----------------------------------------------------------------------------
(* exec_direct, with ensure_transaction in front.                           *)

ExecDirect(s) ==
  /\ StmtMayStart(s)
  /\ cursor[s] = "closed"
  /\ pc' = [pc EXCEPT ![s] = IF autocommit \/ in_transaction THEN "submit" ELSE "begin"]
  /\ UNCHANGED <<state, clientTxn, server, resultSet, conn, told, noted>>

\* client.begin_transaction: the id arrives in the response header.
BeginTransaction(s) ==
  /\ pc[s] = "begin"
  /\ ~ in_transaction
  /\ \E t \in Txns :
       /\ coord[t] = "unused"
       /\ coord' = [coord EXCEPT ![t] = "active"]
       /\ clientTxn' = t
  /\ pc' = [pc EXCEPT ![s] = "begun"]
  /\ noted' = FALSE
  /\ UNCHANGED <<state, verdict, resultSet, conn, told>>

\* It fails: the client refuses to nest, or the request or its response is
\* lost, which leaves a transaction nobody holds.  No note_statement_error.
BeginTransactionFails(s) ==
  /\ pc[s] = "begin"
  /\ \/ (in_transaction \/ Faults) /\ UNCHANGED coord
     \/ /\ ~ in_transaction /\ Faults
        /\ \E t \in Txns : /\ coord[t] = "unused"
                           /\ coord' = [coord EXCEPT ![t] = "active"]
  /\ pc' = [pc EXCEPT ![s] = "idle"]
  /\ UNCHANGED <<state, clientTxn, verdict, resultSet, conn, told, noted>>

\* A likely mistake in Begun: the abort flag survives into the new transaction.
BegunKeepsFlag(s) ==
  /\ pc[s] = "begun"
  /\ pc' = [pc EXCEPT ![s] = "submit"]
  /\ UNCHANGED <<state, clientTxn, server, resultSet, conn, told, noted>>

\* TransactionState::begun.
Begun(s) ==
  /\ pc[s] = "begun"
  /\ aborted' = FALSE
  /\ pc' = [pc EXCEPT ![s] = "submit"]
  /\ UNCHANGED <<autocommit, epoch, clientTxn, server, resultSet, conn, told, noted>>

\* The query is accepted and its column metadata has arrived; it goes on
\* running in the transaction the session header named.
Submit(s) ==
  /\ pc[s] = "submit"
  /\ Serves(clientTxn)
  /\ query' = [query EXCEPT ![s] = "running"]
  /\ stmtTxn' = [stmtTxn EXCEPT ![s] = clientTxn]
  /\ cancelled' = [cancelled EXCEPT ![s] = FALSE]
  /\ pc' = [pc EXCEPT ![s] = "register"]
  /\ UNCHANGED <<state, clientTxn, server, cursor, stmtEpoch, conn, told, noted>>

\* The submit, a metadata page or its decoding fails, through statement_error.
SubmitFails(s) ==
  /\ pc[s] = "submit"
  /\ Aborts(clientTxn, Heard) \/ LostRequest(clientTxn, Heard)
  /\ pc' = [pc EXCEPT ![s] = "note"]
  /\ UNCHANGED <<state, clientTxn, resultSet, conn, told, noted>>

\* The statement is built: its epoch is the one read now.
Register(s) ==
  /\ pc[s] = "register"
  /\ stmtEpoch' = [stmtEpoch EXCEPT ![s] = epoch]
  /\ cursor' = [cursor EXCEPT ![s] = "open"]
  /\ pc' = [pc EXCEPT ![s] = "idle"]
  /\ UNCHANGED <<state, clientTxn, server, cancelled, query, stmtTxn, conn, told, noted>>

\* A response without columns and without a next page, which no coordinator
\* should send: General, not noted.
SubmitYieldsNothing(s) ==
  /\ pc[s] = "submit" /\ Faults
  /\ Serves(clientTxn)
  /\ pc' = [pc EXCEPT ![s] = "idle"]
  /\ UNCHANGED <<state, clientTxn, server, resultSet, conn, told, noted>>

\* The way out of a failed exec_direct, fetch or drain.
NoteError(s) ==
  /\ pc[s] = "note"
  /\ NoteStatementError
  /\ pc' = [pc EXCEPT ![s] = "idle"]
  /\ UNCHANGED <<clientTxn, server, resultSet, conn, told>>
-----------------------------------------------------------------------------
(* fetch, SQLCancel and close_cursor.                                       *)

\* Whether the coordinator still has the result set of s.
Holds(s) == query[s] = "running" /\ (stmtTxn[s] # NoTxn => coord[stmtTxn[s]] \notin Ended)

\* The handle lets go of its result set: next_uri is None, and the epoch and
\* the CancelState that went with it are not looked at again.
Release(s) ==
  /\ cursor' = [cursor EXCEPT ![s] = "closed"]
  /\ cancelled' = [cancelled EXCEPT ![s] = FALSE]
  /\ query' = [query EXCEPT ![s] = "none"]
  /\ stmtTxn' = [stmtTxn EXCEPT ![s] = NoTxn]
  /\ stmtEpoch' = [stmtEpoch EXCEPT ![s] = 0]

\* The top of fetch's loop finds the flag: HY008, nothing requested or noted.
FetchCancelled(s) ==
  /\ StmtMayStart(s) /\ cursor[s] = "open" /\ cancelled[s]
  /\ Release(s)
  /\ UNCHANGED <<state, clientTxn, server, pc, conn, told, noted>>

\* The buffer is used up: the next page is requested.
Fetch(s) ==
  /\ StmtMayStart(s) /\ cursor[s] = "open" /\ ~ cancelled[s]
  /\ pc' = [pc EXCEPT ![s] = "page"]
  /\ UNCHANGED <<state, clientTxn, server, resultSet, conn, told, noted>>

\* A page with rows: more follow, or it was the last.
PageArrives(s) ==
  /\ pc[s] = "page" /\ Holds(s)
  /\ pc' = [pc EXCEPT ![s] = "idle"]
  /\ Release(s) \/ UNCHANGED resultSet
  /\ UNCHANGED <<state, clientTxn, server, conn, told, noted>>

\* The response is an error, or none comes.
ResponseFails(s) ==
  \/ ~ Holds(s) /\ Aborts(stmtTxn[s], Heard)
  \/ LostRequest(stmtTxn[s], Heard)

\* A likely mistake in PageFails: the error is mapped without note_statement_error.
PageFailsUnnoted(s) ==
  /\ pc[s] = "page" /\ ResponseFails(s)
  /\ pc' = [pc EXCEPT ![s] = "idle"]
  /\ Release(s)
  /\ UNCHANGED <<state, clientTxn, conn, told, noted>>

\* map_client_error, then end_page_fetch.
PageFails(s) ==
  /\ pc[s] = "page" /\ ResponseFails(s)
  /\ pc' = [pc EXCEPT ![s] = "note"]
  /\ Release(s)
  /\ UNCHANGED <<state, clientTxn, conn, told, noted>>

\* SQLCancel from another thread: the flag first, then the DELETE, whose effect
\* is that of a failed query; it may be lost.
Cancel(s) ==
  /\ cursor[s] = "open" \/ pc[s] = "register"
  /\ ~ cancelled[s]
  /\ cancelled' = [cancelled EXCEPT ![s] = TRUE]
  /\ IF Holds(s)
     THEN \/ /\ query' = [query EXCEPT ![s] = "failed"]
             /\ Aborts(stmtTxn[s], "cancelled")
          \/ Faults /\ UNCHANGED <<query, server>>
     ELSE UNCHANGED <<query, server>>
  /\ UNCHANGED <<state, clientTxn, pc, cursor, stmtTxn, stmtEpoch, conn, told, noted>>

\* close_cursor: what was cancelled or has outlived its transaction is let go,
\* anything else is drained.
CloseCursor(s) ==
  /\ StmtMayStart(s) /\ cursor[s] = "open"
  /\ IF cancelled[s] \/ Outlived(s)
     THEN Release(s) /\ UNCHANGED pc
     ELSE pc' = [pc EXCEPT ![s] = "drain"] /\ UNCHANGED resultSet
  /\ UNCHANGED <<state, clientTxn, server, conn, told, noted>>

\* The drain reads pages to the last one and looks at their next_uri alone, so
\* a page that carries the query's error ends it too.
DrainEnds(s) ==
  /\ pc[s] = "drain"
  /\ IF Holds(s) THEN UNCHANGED server ELSE Aborts(stmtTxn[s], "drained")
  /\ pc' = [pc EXCEPT ![s] = "idle"]
  /\ Release(s)
  /\ UNCHANGED <<state, clientTxn, conn, told, noted>>

\* A request of the drain fails outright, through map_client_error.
DrainFails(s) ==
  /\ pc[s] = "drain" /\ ResponseFails(s)
  /\ pc' = [pc EXCEPT ![s] = "note"]
  /\ Release(s)
  /\ UNCHANGED <<state, clientTxn, conn, told, noted>>
-----------------------------------------------------------------------------
(* The round trips of the catalog functions and of describe_param, which    *)
(* join whatever transaction the session header names.                      *)

\* query_all_rows fails, through statement_error.
CatalogFails ==
  /\ ConnMayStart
  /\ Aborts(clientTxn, Heard) \/ LostRequest(clientTxn, Heard)
  /\ connPc' = "note"
  /\ UNCHANGED <<state, clientTxn, handles, ending, told, noted>>

ConnNoteError ==
  /\ connPc \in {"note", "describeNote"}
  /\ NoteStatementError
  /\ connPc' = IF connPc = "note" THEN "idle" ELSE "deallocate"
  /\ UNCHANGED <<clientTxn, server, handles, ending, told>>

DescribeParam ==
  /\ ConnMayStart
  /\ connPc' = "prepare"
  /\ UNCHANGED <<state, clientTxn, server, handles, ending, told, noted>>

\* execute_statement: an error is mapped and returned, not noted.
Prepare ==
  /\ connPc = "prepare"
  /\ \/ Serves(clientTxn) /\ connPc' = "describe" /\ UNCHANGED server
     \/ /\ Aborts(clientTxn, "prepare") \/ LostRequest(clientTxn, "prepare")
        /\ connPc' = "idle"
  /\ UNCHANGED <<state, clientTxn, handles, ending, told, noted>>

DescribeInput ==
  /\ connPc = "describe"
  /\ \/ Serves(clientTxn) /\ connPc' = "deallocate" /\ UNCHANGED server
     \/ /\ Aborts(clientTxn, Heard) \/ LostRequest(clientTxn, Heard)
        /\ connPc' = "describeNote"
  /\ UNCHANGED <<state, clientTxn, handles, ending, told, noted>>

\* Sent either way; its own failure is only logged.
Deallocate ==
  /\ connPc = "deallocate"
  /\ UNCHANGED server \/ Aborts(clientTxn, "deallocate")
  /\ connPc' = "idle"
  /\ UNCHANGED <<state, clientTxn, handles, ending, told, noted>>
-----------------------------------------------------------------------------
(* end_tran and its callers.                                                *)

\* A call that ends the open transaction.  The flag is read before ended()
\* clears it.
EndTran(by) ==
  /\ ConnMayStart
  /\ in_transaction
  /\ epoch < MaxEpoch
  /\ by = "disconnect" => \A s \in Stmts : pc[s] = "idle" /\ cursor[s] = "closed"
  /\ ending' = [by |-> by, saw |-> aborted]
  /\ connPc' = "read"
  /\ UNCHANGED <<state, clientTxn, server, handles, told, noted>>

\* With nothing open SQLEndTran succeeds without a request, through begun().
EndNothing ==
  /\ ConnMayStart
  /\ ~ in_transaction
  /\ aborted' = FALSE
  /\ UNCHANGED <<autocommit, epoch, clientTxn, server, handles, conn, told, noted>>

AsksCommit == ending.by \in {"commit", "autocommitOn"}

\* disconnect only logs what end_tran returned.
Tell(report) ==
  told' = IF ending.by = "disconnect" THEN told ELSE [told EXCEPT ![clientTxn] = report]

\* Where the call goes on: set_autocommit still records the mode.
AfterEnd == [commit |-> "idle", rollback |-> "idle", autocommitOn |-> "mode",
             disconnect |-> "closed", none |-> "idle"]

\* Likely mistakes in Ends: the epoch counts down; it does not move; a COMMIT of an
\* aborted transaction is answered without the ROLLBACK.
EndsCountingDown ==
  /\ connPc = "read"
  /\ epoch' = epoch - 1
  /\ aborted' = FALSE
  /\ connPc' = "wire"
  /\ UNCHANGED <<autocommit, clientTxn, server, handles, ending, told, noted>>
EndsKeepingEpoch ==
  /\ connPc = "read"
  /\ aborted' = FALSE
  /\ connPc' = "wire"
  /\ UNCHANGED <<autocommit, epoch, clientTxn, server, handles, ending, told, noted>>
EndsWithoutRollback ==
  /\ connPc = "read"
  /\ epoch' = epoch + 1
  /\ aborted' = FALSE
  /\ IF AsksCommit /\ ending.saw
     THEN Tell("25S03") /\ connPc' = AfterEnd[ending.by] /\ ending' = NotEnding
     ELSE UNCHANGED <<told, ending>> /\ connPc' = "wire"
  /\ UNCHANGED <<autocommit, clientTxn, server, handles, noted>>

\* TransactionState::ended, before the COMMIT or ROLLBACK goes out.
Ends ==
  /\ connPc = "read"
  /\ epoch' = epoch + 1
  /\ aborted' = FALSE
  /\ connPc' = "wire"
  /\ UNCHANGED <<autocommit, clientTxn, server, handles, ending, told, noted>>

\* A likely mistake in SendsCommit: the flag is not consulted.
SendsCommitRegardless == AsksCommit
SendsCommit == AsksCommit /\ ~ ending.saw

\* What the coordinator makes of the request when it serves it.
Result == IF SendsCommit THEN "committed" ELSE "rolledback"

EndServed ==
  /\ in_transaction
  /\ coord[clientTxn] \in (IF SendsCommit THEN {"active"} ELSE {"active", "failed"})

EndSucceeds ==
  /\ connPc = "wire" /\ EndServed
  /\ coord' = [coord EXCEPT ![clientTxn] = Result]
  /\ clientTxn' = NoTxn
  /\ Tell(IF AsksCommit /\ ending.saw THEN "25S03" ELSE Result)
  /\ connPc' = AfterEnd[ending.by]
  /\ ending' = NotEnding
  /\ verdict' = [verdict EXCEPT ![clientTxn] = "none"]
  /\ UNCHANGED <<state, handles, noted>>

\* The request is refused, lost, or its response is, or the COMMIT itself
\* fails, which rolls back.  The id is kept, except that an answer to the end
\* of a transaction the coordinator no longer has may clear it.
EndFails ==
  /\ connPc = "wire"
  /\ \/ ~ EndServed /\ UNCHANGED coord
     \/ Faults /\ UNCHANGED coord
     \/ /\ Faults /\ EndServed
        /\ \E result \in {Result, "rolledback"} : coord' = [coord EXCEPT ![clientTxn] = result]
  /\ \/ UNCHANGED clientTxn
     \/ coord'[clientTxn] \in Ended /\ clientTxn' = NoTxn
  /\ verdict' = [verdict EXCEPT ![clientTxn] =
                   IF @ \in {"seen", "forgotten"} THEN "forgotten" ELSE "endFailed"]
  /\ Tell("error")
  /\ connPc' = AfterEnd[ending.by]
  /\ ending' = NotEnding
  /\ UNCHANGED <<state, handles, noted>>

\* set_autocommit, after end_tran whatever it returned.
RecordMode ==
  /\ connPc = "mode"
  /\ autocommit' = TRUE
  /\ connPc' = "idle"
  /\ UNCHANGED <<aborted, epoch, clientTxn, server, handles, ending, told, noted>>

\* set_autocommit with nothing to end first.
SetAutocommit(enabled) ==
  /\ ConnMayStart
  /\ enabled => ~ in_transaction
  /\ autocommit' = enabled
  /\ UNCHANGED <<aborted, epoch, clientTxn, server, handles, conn, told, noted>>

\* A likely mistake in Disconnect: the connection is dropped as it is.
DisconnectDrops ==
  /\ ConnMayStart
  /\ \A s \in Stmts : pc[s] = "idle" /\ cursor[s] = "closed"
  /\ connPc' = "closed"
  /\ UNCHANGED <<state, clientTxn, server, handles, ending, told, noted>>

\* disconnect with nothing open.
Disconnect ==
  /\ ConnMayStart
  /\ ~ in_transaction
  /\ \A s \in Stmts : pc[s] = "idle" /\ cursor[s] = "closed"
  /\ connPc' = "closed"
  /\ UNCHANGED <<state, clientTxn, server, handles, ending, told, noted>>
-----------------------------------------------------------------------------
StmtStep(s) ==
  \/ ExecDirect(s) \/ BeginTransaction(s) \/ BeginTransactionFails(s) \/ Begun(s)
  \/ Submit(s) \/ SubmitFails(s) \/ Register(s) \/ NoteError(s)
  \/ QueryFails(s) \/ Fetch(s) \/ PageArrives(s) \/ PageFails(s)
  \/ CloseCursor(s) \/ DrainEnds(s) \/ DrainFails(s)
  \/ Cancel(s) \/ FetchCancelled(s) \/ SubmitYieldsNothing(s)

ConnStep ==
  \/ CatalogFails \/ ConnNoteError
  \/ DescribeParam \/ Prepare \/ DescribeInput \/ Deallocate
  \/ \E by \in Enders \ {"none"} : EndTran(by)
  \/ EndNothing \/ Ends \/ EndSucceeds \/ EndFails \/ RecordMode
  \/ \E enabled \in BOOLEAN : SetAutocommit(enabled)
  \/ Disconnect

Next ==
  \/ \E s \in Stmts : StmtStep(s)
  \/ ConnStep
  \/ \E t \in Txns : IdleTimeout(t)

Spec == Init /\ [][Next]_vars
-----------------------------------------------------------------------------
(* Properties.                                                              *)

\* What an application is told by SQLEndTran is true, and what settles the
\* matter is final: the connection implements the contract, with the
\* coordinator's idle timeout as a rollback (end_tran, set_autocommit).
Outcome(t) ==
  CASE coord[t] \in {"active", "failed"} -> "open"
    [] coord[t] = "expired" -> "rolledback"
    [] OTHER -> coord[t]

Contract == INSTANCE TxnContract WITH outcome <- [t \in Txns |-> Outcome(t)]

ImplementsContract == Contract!Spec

\* An end the application was told of, whether by SQL_SUCCESS or by 25S03,
\* frees the session: the client no longer sends that id (end_tran's reason
\* for sending a ROLLBACK for a transaction known to be aborted).
SettledFreesSession ==
  in_transaction => told[clientTxn] \in {"nothing", "error"}

\* When the next call comes, the open transaction is known to be aborted if it
\* was met in one of these ways.
AbortKnownWhen(ways) ==
  /\ Quiet /\ in_transaction
  /\ coord[clientTxn] = "failed" /\ verdict[clientTxn] \in ways
  => aborted

\* A transaction the coordinator aborted, and whose failure a response told
\* the driver of on a path that notes it (statement_error, map_client_error),
\* is known to be aborted when the next call comes, so that SQLEndTran sends
\* the ROLLBACK that frees the session and not a COMMIT Trino refuses. It holds
\* again after an end that failed, once a response tells of the abort anew. Not
\* covered, and refuted below: an abort known before an end that failed, and one
\* met in autocommit mode under an id such an end left behind.
AbortKnown == AbortKnownWhen({"seen"})

\* The abort flag is about the open transaction: a transaction is only ever
\* marked aborted by an error noted while it was the one open, never by one
\* that predates it (TransactionState::begun, ended).
NoInheritedVerdict ==
  /\ aborted /\ in_transaction /\ \A s \in Stmts : pc[s] # "begun"
  => noted

\* A result set the driver would still drain is not one a COMMIT or ROLLBACK
\* of this driver has discarded (TransactionState::epoch, close_cursor).
EpochCoversTransaction ==
  \A s \in Stmts :
    /\ Quiet /\ cursor[s] = "open" /\ ~ Outlived(s) /\ stmtTxn[s] # NoTxn
    => coord[stmtTxn[s]] \notin {"committed", "rolledback"}

\* Disconnecting leaves no transaction open on the coordinator (disconnect).
DisconnectLeavesNothing ==
  connPc = "closed" => \A t \in Txns : coord[t] \notin {"active", "failed"}
-----------------------------------------------------------------------------
(* What the source's comments claim and the code does not do.               *)

\* describe_param, close_cursor: an abort a response told the driver of is known,
\* also when it declined a PREPARE or came on a page read by the drain.
UnnotedAbortKnown == AbortKnownWhen({"prepare", "drained"})

\* end_tran, note_statement_error: what the flag says of the open transaction is
\* true at every point, also of one that a lost or refused COMMIT or ROLLBACK has
\* left open, in manual mode or under the autocommit that set_autocommit recorded.
ForgottenAbortKnown == AbortKnownWhen({"forgotten", "inAutocommit"})

\* end_tran: 25S03 says that Trino aborted the transaction.
RollbackReportIsTrue ==
  [][\A t \in Txns :
       told'[t] = "25S03" /\ told[t] # "25S03" => coord[t] = "failed"]_vars
=============================================================================
