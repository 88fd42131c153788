---------------------------- MODULE ResultStream ----------------------------
(***************************************************************************)
(* One statement handle and the result set it streams: exec_direct's wait  *)
(* for column metadata, fetch's page loop, close_cursor's drain, and       *)
(* SQLCancel (or core's query timer) reaching all three from another       *)
(* thread through the CancelState.                                         *)
(*                                                                         *)
(* Rows are numbered in the order the coordinator produced them, so a page *)
(* is the number of rows on it: the buffered page holds the rows           *)
(* sent - batch_len + 1 .. sent, and its cursor is a position in it.       *)
(***************************************************************************)
EXTENDS Naturals

CONSTANTS
  MaxRows,        \* rows on a page, at most (a bound)
  MaxSent,        \* rows of the whole result set, at most (a bound)
  Faults          \* whether requests fail on the way

ASSUME BoundAssumption == MaxRows \in Nat /\ MaxSent \in Nat
ASSUME FaultsAssumption == Faults \in BOOLEAN

VARIABLES
  pc,             \* where the call in flight on the statement handle is
  next_uri,       \* whether there is a next page to ask for
  batch_len,      \* rows of the buffered page
  batch_cursor,   \* position in it; 0 before its first row
  fetch_failed,   \* the result set was abandoned
  outlived,       \* its transaction has ended: the epoch has moved
  slot,           \* CancelState::query_id, whether an id is in it
  cancelled,      \* CancelState::cancelled
  canceller,      \* where the cancelling thread is
  server,         \* the query on the coordinator
  sent,           \* rows that reached the driver
  delivered,      \* observer: rows fetch returned
  reply           \* observer: what the last call on the handle returned

stmt   == <<next_uri, batch_len, batch_cursor, fetch_failed>>
token  == <<slot, cancelled, canceller>>
vars   == <<pc, stmt, outlived, token, server, sent, delivered, reply>>

Steps   == {"idle", "submit", "poll", "metadata", "open", "loop", "page", "drain", "drainPage"}
Alive   == {"queued", "running"}
\* "killed" by this driver's DELETE, "foreign" by somebody else's.
Failing == {"failed", "killed", "foreign", "gone"}
Servers == {"none", "finished"} \union Alive \union Failing
Replies == {"none", "Ok", "Row", "NoData", "HY008", "24000", "error"}

TypeOK ==
  /\ pc \in Steps
  /\ next_uri \in BOOLEAN /\ fetch_failed \in BOOLEAN /\ outlived \in BOOLEAN
  /\ batch_len \in Nat
  /\ batch_cursor \in 0..batch_len   \* get_data indexes the page with it
  /\ slot \in BOOLEAN /\ cancelled \in BOOLEAN
  /\ canceller \in {"idle", "taken", "flagged"}
  /\ server \in Servers
  /\ sent \in Nat /\ delivered \in Nat
  /\ reply \in Replies

Init ==
  /\ pc = "idle"
  /\ next_uri = FALSE /\ batch_len = 0 /\ batch_cursor = 0 /\ fetch_failed = FALSE
  /\ outlived = FALSE
  /\ slot = FALSE /\ cancelled = FALSE /\ canceller = "idle"
  /\ server = "none"
  /\ sent = 0 /\ delivered = 0
  /\ reply = "none"
-----------------------------------------------------------------------------
(* exec_direct.                                                             *)

\* Core mints a token for the call; a canceller still at work has the old one.
ExecDirect ==
  /\ pc = "idle"
  /\ pc' = "submit"
  /\ slot' = FALSE /\ cancelled' = FALSE /\ canceller' = "idle"
  /\ server' = "none" /\ sent' = 0 /\ delivered' = 0
  /\ reply' = "none" /\ outlived' = FALSE
  /\ UNCHANGED stmt

\* The page with the column metadata: the statement is built around it.
Build(rows, more) ==
  /\ sent + rows <= MaxSent
  /\ sent' = sent + rows
  /\ batch_len' = rows /\ batch_cursor' = 0 /\ fetch_failed' = FALSE
  /\ next_uri' = more
  /\ server' = IF more THEN "running" ELSE "finished"
  /\ pc' = "open"
  /\ reply' = "Ok"

ReturnError(result) ==
  /\ pc' = "idle"
  /\ reply' = result

\* The coordinator accepts the query and names it: begin_query.
SubmitAccepted ==
  /\ pc = "submit"
  /\ slot' = TRUE /\ cancelled' = FALSE
  /\ \/ pc' = "poll" /\ server' = "queued" /\ UNCHANGED <<stmt, sent, reply>>
     \/ \E rows \in 0..MaxRows, more \in BOOLEAN : Build(rows, more)
  /\ UNCHANGED <<outlived, canceller, delivered>>

SubmitFails ==
  /\ pc = "submit"
  /\ ReturnError("error")
  /\ UNCHANGED <<stmt, outlived, token, server, sent, delivered>>

\* The loop asks for the next page, without a look at the flag.
PollRequest ==
  /\ pc = "poll"
  /\ pc' = "metadata"
  /\ UNCHANGED <<stmt, outlived, token, server, sent, delivered, reply>>

\* A page without columns, as a queued query sends, goes round the loop.
PollAnswered ==
  /\ pc = "metadata" /\ server = "queued"
  /\ \/ pc' = "poll" /\ UNCHANGED <<stmt, server, sent, reply>>
     \/ \E rows \in 0..MaxRows, more \in BOOLEAN : Build(rows, more)
  /\ UNCHANGED <<outlived, token, delivered>>

\* What map_trino_error makes of a request that brings no page: a cancelled
\* query is HY008, everything else an error, and so is a response that is lost
\* or cannot be decoded, whatever became of the query.
FailsAs(result) ==
  \/ server \in {"killed", "foreign"} /\ result = "HY008"
  \/ (server \in {"failed", "gone"} \/ Faults) /\ result = "error"

PollFails ==
  /\ pc = "metadata"
  /\ \E result \in {"HY008", "error"} : FailsAs(result) /\ ReturnError(result)
  /\ UNCHANGED <<stmt, outlived, token, server, sent, delivered>>
-----------------------------------------------------------------------------
(* fetch.                                                                   *)

Fetch ==
  /\ pc = "open" /\ ~ fetch_failed
  /\ pc' = "loop"
  /\ UNCHANGED <<stmt, outlived, token, server, sent, delivered, reply>>

FetchAbandoned ==
  /\ pc = "open" /\ fetch_failed
  /\ reply' = "24000"
  /\ UNCHANGED <<pc, stmt, outlived, token, server, sent, delivered>>

\* Likely mistakes in Discard: the page is emptied under its cursor; the page stays.
DiscardForgetsCursor == batch_len' = 0 /\ next_uri' = FALSE /\ UNCHANGED batch_cursor
DiscardKeepsPage     == next_uri' = FALSE /\ UNCHANGED <<batch_len, batch_cursor>>

\* The buffered rows and the rest of the result set are let go.
Discard == batch_len' = 0 /\ batch_cursor' = 0 /\ next_uri' = FALSE

\* The top of the loop: cancelled_between_requests, through end_page_fetch.
FetchCancelled ==
  /\ pc = "loop" /\ cancelled
  /\ Discard
  /\ reply' = "HY008" /\ pc' = "open"
  /\ UNCHANGED <<fetch_failed, outlived, token, server, sent, delivered>>

FetchRow ==
  /\ pc = "loop" /\ ~ cancelled
  /\ batch_cursor < batch_len
  /\ batch_cursor' = batch_cursor + 1
  /\ delivered' = delivered + 1
  /\ reply' = "Row" /\ pc' = "open"
  /\ UNCHANGED <<next_uri, batch_len, fetch_failed, outlived, token, server, sent>>

FetchNoData ==
  /\ pc = "loop" /\ ~ cancelled
  /\ batch_cursor >= batch_len /\ ~ next_uri
  /\ reply' = "NoData" /\ pc' = "open"
  /\ UNCHANGED <<stmt, outlived, token, server, sent, delivered>>

\* A likely mistake in FetchPage: the flag is not looked at before a request.
FetchPageUnchecked ==
  /\ pc = "loop"
  /\ batch_cursor >= batch_len /\ next_uri
  /\ next_uri' = FALSE
  /\ pc' = "page"
  /\ UNCHANGED <<batch_len, batch_cursor, fetch_failed, outlived, token, server, sent, delivered, reply>>

\* A likely mistake: the last row of a page is taken for the end of it.
FetchPageEarly ==
  /\ pc = "loop" /\ ~ cancelled
  /\ batch_cursor + 1 >= batch_len /\ next_uri
  /\ next_uri' = FALSE
  /\ pc' = "page"
  /\ UNCHANGED <<batch_len, batch_cursor, fetch_failed, outlived, token, server, sent, delivered, reply>>

\* next_uri.take(), and the request goes out.
FetchPage ==
  /\ pc = "loop" /\ ~ cancelled
  /\ batch_cursor >= batch_len /\ next_uri
  /\ next_uri' = FALSE
  /\ pc' = "page"
  /\ UNCHANGED <<batch_len, batch_cursor, fetch_failed, outlived, token, server, sent, delivered, reply>>

\* A likely mistake in PageArrives: the cursor of an exhausted page survives a new one.
PageArrivesKeepsCursor ==
  /\ pc = "page" /\ server = "running"
  /\ \E rows \in 0..MaxRows, more \in BOOLEAN :
       /\ sent + rows <= MaxSent
       /\ sent' = sent + rows
       /\ batch_len' = rows /\ UNCHANGED batch_cursor
       /\ next_uri' = more
       /\ server' = IF more THEN server ELSE "finished"
  /\ pc' = "loop"
  /\ UNCHANGED <<fetch_failed, outlived, token, delivered, reply>>

\* A page replaces the buffered one, possibly an empty one.
PageArrives ==
  /\ pc = "page" /\ server = "running"
  /\ \E rows \in 0..MaxRows, more \in BOOLEAN :
       /\ sent + rows <= MaxSent
       /\ sent' = sent + rows
       /\ batch_len' = rows /\ batch_cursor' = 0
       /\ next_uri' = more
       /\ server' = IF more THEN server ELSE "finished"
  /\ pc' = "loop"
  /\ UNCHANGED <<fetch_failed, outlived, token, delivered, reply>>

\* A likely mistake in PageFails: an error ends the result set without abandoning it.
PageFailsUnmarked ==
  /\ pc = "page"
  /\ \E result \in {"HY008", "error"} :
       /\ FailsAs(result)
       /\ reply' = result
  /\ Discard
  /\ pc' = "open"
  /\ UNCHANGED <<fetch_failed, outlived, token, server, sent, delivered>>

\* end_page_fetch: a cancellation ends the result set, anything else abandons it.
PageFails ==
  /\ pc = "page"
  /\ \E result \in {"HY008", "error"} :
       /\ FailsAs(result)
       /\ fetch_failed' = (fetch_failed \/ result = "error")
       /\ reply' = result
  /\ Discard
  /\ pc' = "open"
  /\ UNCHANGED <<outlived, token, server, sent, delivered>>
-----------------------------------------------------------------------------
(* close_cursor, also run by Drop.                                          *)

CloseCursor ==
  /\ pc = "open"
  /\ IF next_uri /\ ~ cancelled /\ ~ outlived
     THEN pc' = "drain" /\ UNCHANGED <<stmt, reply>>
     ELSE pc' = "idle" /\ Discard /\ fetch_failed' = FALSE /\ reply' = "Ok"
  /\ UNCHANGED <<outlived, token, server, sent, delivered>>

\* The drain's loop asks for the next page.
DrainRequest ==
  /\ pc = "drain"
  /\ pc' = "drainPage"
  /\ UNCHANGED <<stmt, outlived, token, server, sent, delivered, reply>>

DrainContinues ==
  /\ pc = "drainPage" /\ server = "running"
  /\ pc' = "drain"
  /\ UNCHANGED <<stmt, outlived, token, server, sent, delivered, reply>>

CloseWith(result) ==
  /\ pc' = "idle" /\ Discard /\ fetch_failed' = FALSE
  /\ reply' = result

\* The last page, or one that carries an error and so no next_uri: the drain
\* looks at next_uri alone.
DrainEnds ==
  /\ pc = "drainPage"
  /\ \/ server = "running" /\ server' = "finished"
     \/ server \in Failing /\ UNCHANGED server
  /\ CloseWith("Ok")
  /\ UNCHANGED <<outlived, token, sent, delivered>>

DrainFails ==
  /\ pc = "drainPage"
  /\ server \in Failing \/ Faults
  /\ CloseWith("error")
  /\ UNCHANGED <<outlived, token, server, sent, delivered>>
-----------------------------------------------------------------------------
(* cancel, on another thread.                                               *)

\* The id is taken out of the slot, so a second SQLCancel finds nothing.
CancelTakes ==
  /\ canceller = "idle" /\ slot
  /\ slot' = FALSE /\ canceller' = "taken"
  /\ UNCHANGED <<pc, stmt, outlived, cancelled, server, sent, delivered, reply>>

\* The cancellation is published before the DELETE.
CancelPublishes ==
  /\ canceller = "taken"
  /\ cancelled' = TRUE /\ canceller' = "flagged"
  /\ UNCHANGED <<pc, stmt, outlived, slot, server, sent, delivered, reply>>

\* The DELETE, which may fail.
CancelDeletes ==
  /\ canceller = "flagged"
  /\ canceller' = "idle"
  /\ \/ server' = IF server \in Alive THEN "killed" ELSE server
     \/ Faults /\ UNCHANGED server
  /\ UNCHANGED <<pc, stmt, outlived, slot, cancelled, sent, delivered, reply>>
-----------------------------------------------------------------------------
(* The coordinator.                                                         *)

QueryFails ==
  /\ server \in Alive
  /\ server' = "failed"
  /\ UNCHANGED <<pc, stmt, outlived, token, sent, delivered, reply>>

\* Somebody else's DELETE.
QueryCancelled ==
  /\ server \in Alive
  /\ server' = "foreign"
  /\ UNCHANGED <<pc, stmt, outlived, token, sent, delivered, reply>>

\* end_tran on the connection: the epoch moves, and the result set is discarded.
TransactionEnds ==
  /\ pc \in {"open", "loop", "page", "drain", "drainPage"}
  /\ ~ outlived
  /\ outlived' = TRUE
  /\ server' = IF server \in Alive THEN "gone" ELSE server
  /\ UNCHANGED <<pc, stmt, token, sent, delivered, reply>>
-----------------------------------------------------------------------------
Submitting == SubmitAccepted \/ SubmitFails
Polling    == PollRequest \/ PollAnswered \/ PollFails
Looping    == FetchCancelled \/ FetchRow \/ FetchNoData \/ FetchPage
Paging     == PageArrives \/ PageFails
Draining   == DrainRequest \/ DrainContinues \/ DrainEnds \/ DrainFails

Next ==
  \/ ExecDirect \/ Submitting \/ Polling
  \/ Fetch \/ FetchAbandoned \/ Looping \/ Paging
  \/ CloseCursor \/ Draining
  \/ CancelTakes \/ CancelPublishes \/ CancelDeletes
  \/ QueryFails \/ QueryCancelled \/ TransactionEnds

\* A call in progress goes on, every request is answered or times out, and a
\* cancelling thread finishes.  Nobody has to call anything.
Fairness ==
  /\ WF_vars(Submitting) /\ WF_vars(Polling)
  /\ WF_vars(Looping) /\ WF_vars(Paging) /\ WF_vars(Draining)
  /\ WF_vars(CancelPublishes) /\ WF_vars(CancelDeletes)

Spec == Init /\ [][Next]_vars /\ Fairness
-----------------------------------------------------------------------------
(* Properties.                                                              *)

\* Rows reach the application in the coordinator's order, none lost and none
\* twice, over empty pages and page boundaries: the row under the cursor is
\* the one fetch returned last (fetch, get_data).
RowsInOrder ==
  batch_cursor > 0 => delivered + batch_len = sent + batch_cursor

\* SQL_NO_DATA is the end of a complete result set: the query finished and
\* every row it sent was returned.  A result set that failed, was cancelled by
\* this driver or was discarded never ends like that (end_page_fetch, fetch).
\* Left out: a query cancelled by somebody else, which does after one HY008.
NoDataMeansComplete ==
  pc = "open" /\ reply = "NoData" /\ server # "foreign"
  => server = "finished" /\ delivered = sent

\* After a fetch that reported an error no row can be read, and the error is
\* not followed by a row (abandon_result_set, get_data).
NoRowAfterError ==
  pc \in {"open", "loop", "page"} /\ reply \in {"error", "HY008", "24000"}
  => batch_len = 0 /\ ~ next_uri

\* The statement handle as a stream of rows: one that asked for its next page
\* is still streaming, and one with nothing buffered and nothing to ask for has
\* ended, or has lost what it did not deliver.
Holding == pc \in {"open", "loop", "page", "drain", "drainPage"}
Phase ==
  IF ~ Holding THEN "closed"
  ELSE IF server = "finished" /\ delivered = sent THEN "ended"
  ELSE IF pc = "page" \/ next_uri \/ batch_cursor < batch_len THEN "streaming"
  ELSE "dead"

Stream == INSTANCE RowStream WITH
  phase <- Phase,
  produced <- IF Holding THEN sent ELSE 0,
  delivered <- IF Holding THEN delivered ELSE 0

\* Over pages, empty ones and failures, cancellation from another thread, drains
\* and the end of the transaction, a statement handle is such a stream: no row is
\* skipped when a page is replaced, and nothing revives a stream that has ended
\* or died (fetch, end_page_fetch, abandon_result_set, close_cursor).
ImplementsRowStream == Stream!Spec

\* A published cancellation ends the fetch that is running, DELETE or no
\* DELETE, however many empty pages the coordinator keeps answering (cancel).
CancelStopsFetch ==
  (cancelled /\ pc \in {"loop", "page"}) ~> pc \notin {"loop", "page"}
-----------------------------------------------------------------------------
(* What the source's comments claim and the code does not do.               *)

\* exec_direct publishes the query id before the metadata wait so that the
\* wait can be cancelled.
CancelStopsExec ==
  (cancelled /\ pc \in {"poll", "metadata"}) ~> pc \notin {"poll", "metadata"}
=============================================================================
