# The Trino ODBC driver in TLA+

This directory models the driver in `src/`: a Rust `cdylib` that implements the
`Backend` traits of `stackable_odbc_core` over the HTTP client `trino_rust_client`.
The modules say what the driver's handles, shared flags and round trips do; TLC
checks them on small instances and TLAPS proves what holds for every instance.
Line numbers are those of `src/src/*.rs`; "external" is what lies outside this
repository and is modelled from how the code uses it.

## 1. The system

An application calls ODBC functions. The Driver Manager and `stackable_odbc_core`
(not in this repository, *external* below) turn each into a call of the `Backend`
trait. The backend turns calls into HTTP requests to a Trino coordinator, which
answers a query page by page. All requests of one connection go through one client
that carries the session in headers, the transaction id among them.

| Component | State | Operations | Talks to |
|---|---|---|---|
| Transaction state (`backend.rs` 827-1014, 1830-1949) | `autocommit`, `aborted`, `epoch`, atomics behind one `Arc`; the transaction id lives in the client | `ensure_transaction`, `begun`, `ended`, `note_statement_error`, `outlived`, `end_tran`, `set_autocommit`, `disconnect` | every statement holds the `Arc`; requests to the coordinator |
| Statements and streaming (`backend/execute.rs`) | `batch`, `batch_cursor`, `next_uri`, `fetch_failed`, `txn_epoch`, `cancel_state` | `exec_direct`, `prepare`, `execute`, `fetch`, `get_data`, `close_cursor`, `Drop` | transaction state, cancel state, coordinator |
| Cancellation (`backend.rs` 1016-1090, `execute.rs` 425-481) | query-id slot (mutex), `cancelled` (atomic), both in `CancelState` | `cancel_token`, `begin_query`, `cancel`, `is_cancelled` | another thread than the statement's; `DELETE` of the query; core's query timer uses the same token |
| Parameter description (`describe_param.rs`) | a cache of one SQL text under a mutex | `PREPARE`, `DESCRIBE INPUT`, `DEALLOCATE` | joins the open transaction |
| Error mapping, liveness (`backend.rs` 170-452) | sticky `dead` flag | `map_trino_error`, `map_trino_error_on`, `connection_dead` | called on every failure |
| Connect (`backend.rs` 60-160, 540-720, 1400-1828, `prompt.rs`) | process-wide login cache under a mutex | `resolve_auth`, `oauth2_auth`, `validate_connection`, `probe_session` | client builder, coordinator, browser |
| Connection parameters (`types/connect_params.rs`), DSN dialog (`setup.rs`) | none after parsing | parse and validate keywords | `connect` |
| Catalog functions (`metadata.rs`) | none | queries on `information_schema`, `system.jdbc` | joins the open transaction |
| Parameter interpolation (`params.rs`), escapes (`escape_dialect.rs`), type conversion (`type_conversion.rs`) | none, pure | render literals, rewrite `{fn}` calls, decode values | statements |
| Driver information (`info.rs`) | none | constant answers | core |
| FFI, fuzzing, packaging, Power Query connector | none | generated or outside the driver | - |

### What is hard

* **Failures are remote and late.** Trino sends column metadata before it has
  evaluated a row, so a statement succeeds and its failure shows in `fetch`. Any
  statement error aborts the whole transaction; from then on Trino refuses
  everything but `ROLLBACK`. The driver must remember that, per transaction.
* **Every request of the connection joins the transaction**, those the application
  did not make (catalog queries, `DESCRIBE INPUT`) included.
* **Responses are lost.** The answer to `COMMIT` may never come.
* **Handles outlive transactions.** A result set may be open when its transaction
  ends; draining it then fails. The epoch comparison decides.
* **Two threads on one statement.** `SQLCancel`, or core's query timer, acts while
  another thread is inside `exec_direct`, `fetch` or `close_cursor`.
* **Pages.** Empty pages, page boundaries, a page that replaces the one the cursor
  points into, an error on a page that carries no rows.

### What makes each component correct

* Transaction state: what `SQLEndTran` answers is true and final; a settled end
  frees the session; the abort flag is about the open transaction and knows every
  abort the driver was told of; a result set the driver drains has not been
  discarded by its own `COMMIT` or `ROLLBACK`; disconnecting leaves nothing open.
* Statements: rows in order, none lost or twice; `SQL_NO_DATA` only at the end of a
  complete result set; nothing readable after an error; the cursor inside the page.
* Cancellation: a published cancellation ends the call in progress; it is never
  reported as the end of data.
* Parameter description: the cached answer is that of the text asked for; a failure
  inside a transaction is reported; the prepared statement does not stay behind.
* Connect: one browser per identity, and no session under somebody else's login;
  credentials over TLS only; a deadline that binds where nobody is asked; every
  failure with its SQLSTATE.
* Error mapping: a SQLSTATE of the function that failed and the coordinator's code;
  a connection is marked dead by a link that was not reached, and by nothing else.
* Catalog functions: filters select what the ODBC pattern selects; an absent
  catalog is an empty result only outside a transaction.
* Parameters and values: a bound value never ends the literal it is in, changes
  nothing around it and reads back as itself; a delivered time is read as the same
  instant; digits are not lost in silence.
* Types: three descriptions of one column agree, and a buffer of their size suffices.
* Escapes and information: what is advertised can be called, on this coordinator.
* DSN dialog: two processes and two pipes never wait on each other; a crash is
  neither an acceptance nor a cancellation.

`PROJECT.json` lists the components and, under `hazards`, the places where these can
go wrong, with the properties that watch them.

## 2. Plan

| # | Module | Content | State |
|---|---|---|---|
| 1 | `TxnContract` | what `SQLEndTran` promises, without driver or coordinator | done |
| 2 | `Transactions` | transaction state, every path that touches it, the coordinator; implements 1 | done |
| 3 | `TransactionsProofs` | its types and six properties for all constants | done |
| 4 | `ResultStream` | one handle: metadata wait, page loop, drain, cancel; implements 6 | done |
| 5 | `ResultStreamProofs` | its types, safety properties and refinement for all page sizes | done |
| 6 | `RowStream` | abstract stream: rows in order, then one end or one failure | done |
| 7 | `DescribeParam` | cache and mutex, three round trips, descriptors by position | done |
| 8 | `ConnectParams`, `ErrorMapping`, `Connect` | keywords, causes to SQLSTATEs, login cache, browser, deadline, validation, probe | done |
| 9 | `Interpolation`, `Temporal`, `Values`, `TypeNames`, `EscapeDialect`, `DriverInfo` | pure algorithms | done |
| 10 | `TextCalls`, `LocalCalls` | 9 composed: each pure call from its arguments to its answer | done |
| 11 | `CatalogFunctions`, `SetupDialog` | catalog functions with the transaction moving; the dialog process | done |
| 12 | `DescribeParamProofs`, `ConnectProofs` | cache coherence and aborts; the login cache, credentials and failures for all constants | done |
| 13 | `SetupProofs`, `CatalogProofs` | the dialog's outcome, its pipes and its end; catalog lookups that abort | done |
| 14 | `TemporalProofs` | values with a zone, for every zone and every instant | done |
| 15 | `InfoCalls` | capabilities over the life of a connection; no claim is newer than the coordinator, for every version (in `CatalogProofs`) | done |
| 16 | `TextProofs` | what the coordinator reads of a statement with bound values and of an escape's arguments, for text of any length | done |
| 17 | `Session` | 2, 4 and 7 composed: statements that stream inside the transactions of one connection | later |

## 3. Modules

### TxnContract

Each unit of work has an `outcome` (unused, open, committed, rolled back) and what the
application was `told`. `Open`, `Resolve` (it ends and nobody says so) and `Answer`
(the application asks for an end). An answer that settles the matter (`committed`,
`rolledback`, `25S03`) must be true (`Honest`) and is the last; `error` leaves the
outcome open.

### Transactions

| TLA+ | Code |
|---|---|
| `autocommit`, `aborted`, `epoch` | the three atomics of `TransactionState` |
| `clientTxn`, `in_transaction` | `client.transaction_id()` |
| `coord` | the coordinator's view of each transaction (external) |
| `pc[s]`, `connPc` | where the call in flight on a statement / on the connection is; actions are split at round trips and shared accesses |
| `cursor`, `cancelled`, `query`, `stmtTxn`, `stmtEpoch` | `next_uri`, `CancelState::cancelled`, the query behind it and the transaction it runs in, `txn_epoch` |
| `ending` | `end_tran`'s caller and its local `aborted` |
| `told`, `verdict`, `noted` | observers: no action's guard reads them; `verdict` says how the driver last met a transaction's abort, which `Aborts` overwrites unless a response the driver noted since the last try to end it told of it |

`ExecDirect`, `BeginTransaction(Fails)`, `Begun`, `Submit(Fails)`, `Register` follow
`ensure_transaction` and `exec_direct`: the id is read, the transaction opened and the
flag cleared in three steps, and the epoch is read only when the statement is built.
`Fetch`, `PageArrives`, `PageFails`, `FetchCancelled`, `CloseCursor`, `DrainEnds`,
`DrainFails` follow `fetch` and `close_cursor`; `NoteError` is `note_statement_error`
on the way out. `EndTran` reads the flag, `Ends` moves the epoch, `EndSucceeds` and
`EndFails` are the answer. `set_autocommit` is `EndTran("autocommitOn")` then
`RecordMode`, or `SetAutocommit` if nothing is open. `disconnect` is
`EndTran("disconnect")` or `Disconnect`.

External, modelled from how the code uses it: the coordinator (`Serves`, `Aborts`,
`QueryFails`, `IdleTimeout`, `EndServed`), lost requests, and the layer above
(`StmtMayStart`, `ConnMayStart`): calls on one handle exclude each other because the
trait takes `&mut TrinoStatement`; with `Serialised` all calls of the connection do.

### ResultStream

| TLA+ | Code |
|---|---|
| `batch_len`, `batch_cursor`, `next_uri`, `fetch_failed` | the fields of `TrinoStatement`; rows are numbered, so a page is its length |
| `slot`, `cancelled` | `CancelState::query_id` holding an id, `CancelState::cancelled` |
| `canceller` | `cancel` on another thread: id taken, flag published, `DELETE` sent |
| `outlived` | `result_set_died_with_a_transaction` |
| `server`, `sent` | the query on the coordinator and the rows it delivered |
| `delivered`, `reply` | observers: rows returned and the last return value |

Requests and responses are separate actions (`FetchPage`/`PageArrives`,
`PollRequest`/`PollAnswered`, `DrainRequest`/`DrainContinues`) so that a cancellation,
a failure or the end of the transaction can come between. `FailsAs` is the branch of
`map_trino_error` the stream depends on: cancelled on the server is `HY008`, anything
else an error. `QueryCancelled` is somebody else's `DELETE`.

### RowStream

What the application may rely on, without pages: `Open`, `Produce` (more rows, once
the earlier ones were delivered), `Deliver`, `Die`, `Close`, and `ended` only when
everything was delivered. `ResultStream!Stream` maps `phase` from the step, the
failure and the cancel flag of the handle, `produced` to the rows sent, `delivered`
to the rows returned.

### DescribeParam

| TLA+ | Code |
|---|---|
| `holder`, `cache` | `describe_param_cache`, a mutex around one `CachedParams` |
| `call`, `inTransaction`, `described` | the arguments and locals of `describe_param` and `fetch_input_params` |
| `registered` | the text under the one fixed statement name in the client's session |
| `txn` | the session's transaction on the coordinator (external) |
| `aborts`, `opened`, `reply` | observers |

A parameter's type is the pair of its statement and its position, so an answer shows
which question it answers. Rows come in any order. `OtherStatement` moves the
transaction at any point of a description.

### ConnectParams, ErrorMapping, Connect

`ConnectParams` is `TryFrom<&ConnectParams>`: which keywords are refused, in groups
that follow the order of the code, and the record a good string becomes. Values are
words where only a word matters, numbers with their text where a bound matters, and
sequences of parts where a separator is looked for. `ErrorMapping` has `query_cause`,
`map_trino_error`, `Liveness::note`, `connection_failed` and the SQLSTATE and native
code of each error.

| TLA+ | Code |
|---|---|
| `pc[t]`, `attempt[t]`, `error[t]` | where a thread is in `connect`, what it was asked, what it returned |
| `auths`, `logins` | every `Auth` made, and `OAUTH2_LOGINS`, the cache of them by `OAuth2Key` |
| `auth[t]` | the `Auth` a thread's client was built with |
| `conn[t]` | what the connection keeps of the connect: `dead`, the user's name, whether the probe told it |
| `revocations` | bound on tokens taken back |

`ChooseAuth` puts a login in the cache before anybody has logged in, `Build` and
`BuildFails` come after it. The login itself is the client's (external): it runs inside
the first request that finds no token, one at a time per `Auth`. `Validated`,
`ValidationFails` and `DeadlineExpires` are the validation query, `Probed` and
`ProbeFails` the probe, which never fails a connect.

### LocalCalls and the modules below it

`Interpolation` (`params.rs`), `Temporal`, `Values` and `TypeNames`
(`type_conversion.rs`, and what `execute.rs`, `info.rs` and `metadata.rs` say of
columns), `EscapeDialect` (`escape_dialect.rs`) and `DriverInfo` (`info.rs` and the
capability methods of `backend.rs`) are operators. Text is a sequence over a small
alphabet where an algorithm walks characters, of SQL tokens where it walks tokens, and
a record of its fields where only the fields matter. A zone is an offset or one change
between two offsets.

A pure call is one step from its arguments to its answer. `TextCalls` has the two that
make SQL text: `SQLExecute` of a prepared statement, with `interpolate_params` on one side
and on the other the coordinator's lexer (`Lexed`) and its reading of temporal literals;
and `SQLNativeSql` of an escape, with `split_args` on one side and on the other what the
coordinator's lexer is inside of at each character (`LeftOpen`). It uses `Temporal` and
`EscapeDialect`, no recursive operator, so that `TextProofs` can reason about it.
`LocalCalls` extends it with `SQLGetData` and `SQLDescribeCol`.

The coordinator's lexer (`LexStep`) knows strings, quoted names, comments to the end of
a line and comments in brackets; a bracket, a `--` and a line's end are one character
each. It gives every character outside a string a token of its own, whatever hides it,
so that a name or a comment that changed would show.

### CatalogFunctions

| TLA+ | Code |
|---|---|
| `search` | the call in flight: `TablesQuery`, `ColumnsQuery` and their like |
| `read` | `in_transaction`, the local read before the query is sent (`query_information_schema`) |
| `txn` | the session's transaction on the coordinator (external) |
| `moved` | observer: a transaction was opened or ended since that read |
| `found` | the rows or the error the application gets, with what happened on the way |

`AskCatalog` reads whether a transaction is open, the answer comes later, and
`Elsewhere` lets another thread move the transaction between. A small `World` of
catalogs answers the WHERE clauses the driver writes, by the coordinator's rules of
`LIKE`; `MCCatalog` gives it.

### SetupDialog

| TLA+ | Code |
|---|---|
| `setup` | where `configure_dsn` and `run_dialog` are: the write, `wait_with_output`, the verdict |
| `dialog` | where the script is (`packaging/windows/configure-dsn.ps1` with `-Emit`) |
| `sent`, `stdin` | units the driver has written; units in the pipe to the script, and whether the driver's end is open |
| `stdout`, `written`, `collected` | units in the pipe from the script, written by it, read by the driver |
| `person`, `code`, `outcome` | what the person did, the exit code, what `configure_dsn` makes of it |

The driver and the script are two processes with two bounded pipes between them; the
script may crash at any point before it has exited.

### InfoCalls

| TLA+ | Code |
|---|---|
| `connection` | the `TrinoConnection` behind a handle: what the probe told, the session's catalog |
| `before`, `now` | every answer of `SQLGetInfo` the application got without a connection, and from this one |

`SQLGetInfoBefore` is what the Windows Driver Manager asks before a connect; `Connected`
ends with the probe, which may have failed; `Use` moves the catalog; a handle may be
connected again, to another coordinator. An application asks for every type at once,
with the answers of `DriverInfo`.

None of `LocalCalls`, `InfoCalls`, `CatalogFunctions` and `SetupDialog` shares state with
another. `MCLocalCalls` puts the four side by side: a behaviour is one of one of them
while the others rest.

## 4. What is checked

| Run | Instance | Shows |
|---|---|---|
| `transactions_serial` | 2 statements, 2 transactions, 2 ends, serialised, lost requests and idle timeouts; 1.9 M states | `TypeOK`; `AbortKnown`: an abort the driver heard of on a noting path, in manual-commit mode, is known at the next call; `EpochCoversTransaction`; `ImplementsContract` with lost responses |
| `transactions_contract` | 2 statements, 2 transactions, 1 end, free interleaving, no lost requests; 0.6 M states | `ImplementsContract`, `SettledFreesSession`, `NoInheritedVerdict`, `DisconnectLeavesNothing` |
| `result_stream` | pages of 0..3 rows, up to 6 rows, faults | `TypeOK` (the cursor stays on its page), `RowsInOrder`, `NoDataMeansComplete`, `NoRowAfterError`, and the liveness property `CancelStopsFetch` |
| `describe_param` | 2 threads, statements of one and two parameters, every order of rows, requests that fail, other calls at any point; 280 000 states | `TypeOK`, `AnswerFitsQuestion`, `AbortIsReported`, and the liveness property `LockIsReleased` |
| `connect` | 2 threads, 11 connection strings and every contradiction the parser knows, one client error for each arm of the mapping, one token taken back; 250 000 states | `OneBrowserPerIdentity`, `LoginIsOwn`, `CredentialsNeedTLS`, `FailureIsReported`, `ZeroIsNoTimeout`, and the liveness property `LoginDeadlineBinds` |
| `local_calls` | the inputs of `MCLocalCalls`; the searches of `MCCatalog` while the transaction moves; the dialog with pipes of 2, a request of 5, an answer of 4 and a crash at any point; connections to several releases, probed or not; 113 000 states | one property per hazard of the calls that stand alone, below |
| six violation runs | as above | section 6 |

What `local_calls` shows, against references written apart from the code:

* `LiteralsStayWhole`, `BoundValueReadsBack`: the coordinator reads the text of a
  statement, its quoted names and comments included, as the application's text with one
  literal per marker outside its strings, and each literal as the value that was bound,
  or the call was refused. The statements have every character the lexer tells apart;
  those with a quote or a question mark in a name or a comment are left out, because
  there the driver disagrees (`hidden_placeholders`).
* `ZonedValuesKeepTheirInstant`, `LossIsReported`, `ValueFitsReportedType`: a time with
  an offset or a zone is delivered as a wall time that the coordinator, which takes the
  later of two instants (`latest`), reads as the same instant, across changes of clocks
  but for the first pass through a repeated hour (`FirstPass`);
  `01S07` exactly when digits were lost; a value of the column's type or its full text,
  and a time of day after any shift.
* `PathsAgree`, `SizesFit`: the result's metadata, `SQLColumns` and `SQLGetTypeInfo`
  agree on each type, and the size is enough for the longest text.
* `ArgumentsSurvive`, `AdvertisedFunctionsRun`, `ClaimsAreHonoured`: escape arguments
  are split where Trino would split them, every advertised function becomes a call
  Trino has, no predicate or join is claimed that is newer than the coordinator, and what
  was said before a connect is empty or stands after it.
* `SelectsWhatIsAsked`, `AbortHiddenOnlyByARace`: catalog functions return what the
  patterns mean; a lookup that aborts the transaction is an error, unless the
  transaction was opened after the driver looked.
* `OutcomeIsThePersons`, `NobodyWaitsInACircle`, `SetupReturns`: keywords are
  configured only as a person accepted them; while no person is asked one of the two
  processes can move, and in the end `ConfigDSN` returns or the form is shown.

The exceptions these properties make (an hour that exists twice, markers that touch a
literal or a minus, quotes and question marks in names and comments, leap seconds, the year -32768, catalog patterns with other escapes) are named
in the properties or left out of the inputs, and listed in section 6.

**Bounds.** `MaxEpoch` is how often `end_tran` may reach the wire, `Txns` how many
transactions can be opened, `MaxRows` and `MaxSent` bound pages and result sets. Two
statements are needed for one to fail under another, two transactions for a verdict or
an epoch to be carried over. Two ends let the second meet an epoch that has moved
before. With free interleaving one end is enough for each call to overlap it, and the
proofs of section 5 need no bound. Pages of 0, 1 and more rows and a result set longer
than a page cover boundaries and empty pages. For `describe_param` two threads are
what it takes to meet a mutex, two statements to meet a cached answer for another
text, and two parameters to be put in the wrong order. For `connect`, two threads
share a login or do not, a third waits like the second; one revocation makes a cached
login start again. `MCLocalCalls` takes all short sequences of the characters a
scanner tells apart (five for SQL text of quotes and markers, four of those and of what
begins and ends a name or a comment, and longer ones around a string), the ends of each
numeric range, both sides of a change of clocks and of midnight, every type, every
scalar function, and versions below, at and above each gate. `MCCatalog` has a name
that is a wildcard, one it matches, and one with a quote, in catalogs, tables and
columns. For the dialog both texts are longer than a pipe, which is what it takes for
either process to wait for the other; section 5 lifts the sizes.

**Deadlock** is not checked for `Transactions`: a connection may be closed, and the
bounds stop the rest. It is checked everywhere else. **Symmetry** over statements
and transactions is used in the two passing `Transactions` runs; no action names one,
and both runs check safety only.

**Fairness.** `ResultStream`: weak fairness on the steps of a call in progress
and of a cancelling thread. A thread in a call runs on; each request is answered or
ends with the client's per-request timeout, which the driver always sets; `cancel`
holds no lock while it waits. Nobody is assumed to call anything, and nothing is
assumed about the coordinator beyond that a request ends: it may answer empty pages
for ever. `CancelStopsFetch` holds all the same, because the loop reads the flag
before every request. `DescribeParam`: the same of a thread that holds the mutex; who
gets it next is open, so a thread may wait for ever. `Connect`: the deadline's timer
fires while a thread waits for the coordinator, and nothing else is assumed: neither of
a coordinator, nor a person, nor the thread that runs the login another one waits for;
nor of the timer while a browser is started, because `open::that` (`prompt.rs` 33)
blocks the one thread that would poll it. `SetupDialog`: the driver's and the script's
processes run on, the person does not have to.

## 5. What is proved

All theorems hold for any threads, statements, transactions, zones and bounds, under
the modules' named assumptions, which TLC evaluates in every run: a mark such as
`NoTxn` or `None` is not one of what it stands beside; bounds are naturals and flags
Boolean; a pipe and the texts through it have at least one unit; seconds are a number
or unset, and a keyword that is named has a text (`AttemptsAssumption`); the client
reports its own deadline only if one was set (`AnswersAssumption`); a row of a catalog
relation has that relation's columns (`WorldAssumption`).

| Theorem | Property | Needs | Argument |
|---|---|---|---|
| `TransactionsProofs!TypeCorrect` | `TypeOK` | - | inductive as it stands |
| `SettledSessionIsFree` | `SettledFreesSession` | - | `SessionInv`: an id nobody was given has no report, the id the client holds was given out, `end_tran` past its early return holds one |
| `TransactionsImplementContract` | `ImplementsContract` | - | each step moves `outcome` as `Open`, `Resolve`, `Answer` or not at all; `SessionInv` shows that an answer is asked for only while nothing is settled |
| `VerdictIsNotInherited` | `NoInheritedVerdict` | - | inductive; `Begun` is the step that needs the reset |
| `DisconnectIsClean` | `DisconnectLeavesNothing` | `Faults = FALSE` | `TeardownInv`: what is open on the coordinator is what the client holds, and a closing connection opens nothing |
| `EpochIsSufficient` | `EpochCoversTransaction` | `Serialised` | `EpochInv` on top of `Exclusive` (one call at a time): while `COMMIT` or `ROLLBACK` is out every open result set is already behind |
| `AbortIsKnown` | `AbortKnown` | `Serialised` | `AbortInv`: an abort that was told is in the flag or on its way to it (`Noting`); nothing was heard of a transaction that is unused or alive; in autocommit mode nothing is heard |
| `ResultStreamProofs!TypeCorrect` | `TypeOK` | - | `StreamInv` |
| `RowsComeInOrder` | `RowsInOrder` | - | `StreamInv`: rows returned, rows buffered and rows sent add up |
| `ErrorsLeaveNoRow` | `NoRowAfterError` | - | `StreamInv` |
| `StreamRefinement` | `ImplementsRowStream` | - | `StreamInv` and `CompleteInv` make each step a step of `RowStream` or none; `LastPageStep` carries that a page without `next_uri` was the last |
| `NoDataIsTheEnd` | `NoDataMeansComplete` | - | `CompleteInv`: an exhausted `next_uri` is the last page, a failure, a cancellation of ours or somebody else's, which the property excludes |
| `DescribeParamProofs!TypeCorrect` | `TypeOK` | - | `DescribeInv` |
| `AnswersFitQuestions` | `AnswerFitsQuestion` | - | `DescribeInv`: the cache holds a text with that text's parameters, and while a thread holds the mutex what is registered and described is its own statement; `ParamsInOrder` shows that descriptors come out in order from rows in any order |
| `AbortsReported` | `AbortIsReported` | - | `DescribeInv`: between its requests a description that found no transaction, and opened none, has aborted none |
| `ConnectProofs!TypeCorrect` | `TypeOK` | - | `ConnectInv` |
| `OneBrowser` | `OneBrowserPerIdentity` | - | `CacheIsExact` (every login is in the cache, one per key) and `FlowHasOwner` (a browser belongs to one thread's request) |
| `LoginsAreOwn` | `LoginIsOwn` | - | `LoginFits`: a thread's `Auth` has the key of what it was asked, and `OAuth2Key` keeps coordinators and users apart |
| `CredentialsOverTLS` | `CredentialsNeedTLS` | - | a thread past `ChooseAuth` has a string that the parser took; what the parser refuses follows by cases on the keywords |
| `FailuresReported`, `ZeroNeverTimesOut` | `FailureIsReported`, `ZeroIsNoTimeout` | - | `OutcomeFits`, and a lemma for each cause that `connection_failed` and `map_trino_error` tell apart |
| `UserNamesKnown` (no run) | `UserNameIsKnown` | - | `OutcomeFits` |
| `SetupProofs!TypeCorrect` (no run), `OutcomesAreThePersons` | `SetupTypeOK`, `OutcomeIsThePersons` | - | `SetupInv`: an exit code comes with what the person did and, if it is that of an acceptance, after the whole answer was written |
| `NoCircularWait` | `NobodyWaitsInACircle` | - | `PipesFit`: what is in a pipe is what was put in and not taken out; so a full pipe has a reader that can read, and an empty open one a writer |
| `DialogsEnd` (no run) | `EveryStepIsProgress` | - | each step leaves less to do: `SetupInv` bounds the measure `Remaining` from below; one case per action |
| `CatalogProofs!TypeCorrect` (no run) | `CatalogTypeOK` | - | `CatalogInv` |
| `AbortsAreHiddenOnlyByARace` | `AbortHiddenOnlyByARace` | - | `ReadIsCurrent`: what was read of the transaction is true until it is moved |
| `TemporalProofs!WallTimeReadsBack` | - | - | `LaterAddsUp` and `LaterKeepsOrder`: moving on the clock adds up and keeps order across days, months and leap years; so another reading of a wall time lies on the other side of the change of clocks, which only the repeated hour allows, and is the later one only in its first pass |
| `InstantIsKept`, `TimeOfDayIsKept` | - | - | the above, and `HoursAndMinutes`; `ZonedValuesKeepTheirInstant` is the checked form |
| `BoundDateReadsBack`, `OffsetReadsBack` | - | - | arithmetic; what `TextProofs` needs of dates and offsets |
| `TextProofs!BoundValuesReadBack` | `BoundValueReadsBack` | - | `TextInv`; `RenderedIsChecked`: a literal exists only for fields in range; `FractionReadsBack`: nine digits, each a quotient and a remainder, add up again; a time stamp with a zone comes back by `InstantIsKept`'s arithmetic of days |
| `BoundLiteralsStayWhole` | `LiteralsStayWhole` | - | `TextInv`, then the four steps below |
| `EscapeArgumentsSurvive` | `ArgumentsSurvive` | - | `TextInv`, then the three steps below |
| `CatalogProofs!ClaimsHold` | `ClaimsAreHonoured` | - | `NowFits` in `InfoInv`: what was told is of the release that runs, though the catalog may have moved since; `PredicatesAreKnown` and `JoinsAreKnown`: each gate lies at or above the release that brought the grammar, and an unknown version below all of them; `AnswersStand`: before the connect only places are asked that answer the same after it |

`ConnectionsAssumption` (`InfoCalls`) says of the probe that it learns the major version
that runs or none, which is what `probe_session` does with a coordinator that reports
its own version.

`TextProofs` is about text of any length, which takes an induction the prover does
not offer: the library's induction theorems have an operator parameter. `LeastElement`
takes the well-founded order of the naturals instead and says of each *set* of naturals
that it has a least element; `SetInduction` follows, and `Recursion`: a function that
goes from each value to the next exists, because its step is a function. The recursive
functions of the model (`LexFrom`, `Marks`, `Scan`, `Walk`, `LeftOpen`, the fold in
`FlattenSeq`) unfold by it. `BoundLiteralsStayWhole` is then put together from

1. the coordinator's lexer: it reads two texts one after the other (`LexConcat`), what it
   has cut before changes nothing of what it cuts next (`LexShift`), and a quoted text
   with its quotes doubled is one string, whatever it holds (`QuotedBody`); a quoted
   name or a comment it reads as it is (`HiddenCharacters`: no quote and no marker is
   in one, by assumption);
2. the literals: each is read as `Meaning` says and leaves no string open
   (`LiteralLexes`);
3. `Agree`, an invariant along the text: the driver's scan is in a string exactly where
   the coordinator's lexer is, outside names and comments as inside them, and has numbered the placeholders the lexer has cut
   (`ScanAgrees`), so that a refusal is about the right count (`PlaceholdersCounted`);
4. `InStep`, an invariant along the text: what was sent for the first characters of the
   statement is read as the statement's tokens with the values in place
   (`StatementStaysWhole`). A literal that ends in a quote leaves the coordinator
   waiting for a second one, and a negative number makes a comment with a minus before
   it, which is why `Separated` is assumed of the statement.

`EscapeArgumentsSurvive` is put together from

1. `Alike`, an invariant along the text: `split_args` steps over the second of two quotes
   where the coordinator closes a string and opens it again; in between, and nowhere
   else, the two differ (`WalkAgrees`), and no comma stands there (`CutsAreSeparators`);
2. `Holds`: the places cut up to a character are the separators up to it, in order and
   none twice, the k-th separator in the k-th place (`CutsInOrder`);
3. `FirstArguments`, by induction on their number: the first arguments with commas
   between them are the text up to the next cut, because trimming loses blanks only
   (`SolidTrim`) and what is not blank in a text is what is not blank in its parts
   (`SolidConcat`).

`Letters` and `Texts` are all strings with the characters the model names, because the
provers do not know that `"0"` is a string. `ExecutionsAssumption` says that a statement
is a text and what is bound are column values, with the widths of their fields;
`EscapesAssumption` that a function's name and its arguments are text. The three theorems
are about `TextSpec`; the other calls of `LocalCalls`, whose run checks the properties,
answer under another `op`, of which they say nothing.

The theorems of `TemporalProofs` are about operators and have no run of their own:
`LocalCalls`, which checks the same of whole calls, reaches recursive operators. A zone
there (`ZoneTypes`) has offsets of up to a day and one change of its clocks by up to a
day; what a coordinator may send (`StampTexts`) is any date, time and fraction, checked
or not, with an offset of up to a day or a name that stands for a zone or for none.

The invariants are needed because the properties speak of the moment a call returns
and the steps that could break them lie inside a call. `StepsOfSession` reduces the
actions to the few that change the session or the coordinator, so that the invariance
proofs above it have one case each.

`Serialised` is an assumption about the layer above. Without it `EpochCoversTransaction`
and `AbortKnown` do not hold: `exec_direct` reads the epoch after its last response
(`execute.rs` 309), and `begun` may clear the flag after another statement's failure
inside the same transaction (`backend.rs` 989).

Only model-checked: the liveness properties `CancelStopsFetch`, `LockIsReleased`,
`LoginDeadlineBinds` and `SetupReturns` (beyond the prover; for the last,
`NoCircularWait` and `DialogsEnd` prove the two halves that safety can say);
`SelectsWhatIsAsked`, which for every pattern is true only of those the application
formed well, a condition the checked searches meet; the six invariants stated in
`LocalCalls` itself, from `ZonedValuesKeepTheirInstant` to `AdvertisedFunctionsRun`,
because `Values`, `TypeNames` or `LocalCalls` use recursive operators, which the prover
cannot read; and the disagreements of section 6.

## 6. Where the code and its comments disagree

Each of these has a run that finds it and an entry under `findings`.

* `unnoted_abort`: a `PREPARE` refused inside a transaction is mapped without
  `note_statement_error`; the next `COMMIT` goes out and is refused. The same property
  counts the error of a query that fails while `close_cursor` drains it: the drain reads
  the page, looks at `next_uri` alone (`execute.rs` 792), and the abort stays unknown.
* `rollback_report`: `note_statement_error` asks for the commit mode, so the late
  failure of a result set opened in autocommit mode condemns the transaction opened
  since; it is rolled back and `25S03` says Trino had aborted it. The contract still
  holds: what the application is told (rolled back) is true, the reason is not.
* `cancel_exec`: the metadata wait never reads the cancel flag, so a `SQLCancel` whose
  `DELETE` fails does not end it.
* `forgotten_abort`: `end_tran` clears the abort flag before its request goes out. When
  the `ROLLBACK` of an aborted transaction is lost, the client keeps the id with the
  flag clear, and the next `COMMIT` goes out and is refused. The same property
  counts an abort in autocommit mode: after a switch whose `COMMIT` failed the id is kept
  (`backend.rs` 1947), though the comment at 1936 says the transaction is gone; the next
  statements run in it, and a failure that aborts it is not noted in that mode.
* `browser_login`: the login deadline ends a connect whose person is in the browser,
  although `connect_params.rs` 174 and the warning at `backend.rs` 1614 say it does not
  bound that wait.
* `hidden_placeholders`: the driver takes every apostrophe for a string's, also one in a
  quoted name or a comment: `select "it's", ?` is sent with its placeholder and without a
  value. A question mark in a name or a comment counts as a placeholder.

Seen while modelling, without a run of their own. Statements and transactions:

* a `fetch` that finds the cancel flag between requests (`execute.rs` 617) does not
  note the abort its own `DELETE` caused;
* a query cancelled by somebody else gives `HY008` once and then `SQL_NO_DATA`, because
  only this driver's own flag is remembered (`execute.rs` 629, against the comment at 562);
  `NoDataMeansComplete` leaves it out;
* a result set opened in autocommit mode counts as outlived once any later
  transaction ends (`execute.rs` 495), so its drain is skipped;
* a drain reads the cancel flag once, before its loop (`execute.rs` 786);
* a `DEALLOCATE` that fails is logged only, although it aborts the transaction
  (`describe_param.rs` 195; `AbortIsReported` does not count it); refused after a failed
  `DESCRIBE INPUT` it leaves the statement registered until the next `PREPARE`; the describe cache, keyed by SQL text alone,
  is stale after `USE` or a DDL;
* whether a transaction is open is read before a catalog query (`metadata.rs` 127) and
  before a description (`describe_param.rs` 120), so one that another thread opens
  meanwhile can be killed without a report.

Connect:

* the probe after the validation has only the request timeout, and a link lost there gives a connection that is already marked dead;
* a cached login keeps the browser budget and prompter of the connect that made it;
* `connection_failed` drops the native code of a cancelled validation query;
* a `SessionUser` left blank in a data source counts as a name, so after a failed probe
  `SQL_USER_NAME` is empty although `User` names somebody, where `backend.rs` 116 says
  that takes a connection that named no user (`UserNameIsKnown` makes the exception);
* a blank `QueryTimeout` hides `LoginTimeout`, and a malformed `LoginTimeout` is not
  looked at when `QueryTimeout` is given (`connect_params.rs` 838-854).

Values, types, escapes:

* `discards_fractional_seconds` warns also when the value was unreadable and kept as
  full text (`type_conversion.rs` 713); both passes of an hour that exists twice are delivered as one wall time, which the
  coordinator reads as the second (`src/README.md` 328); a named zone on a `TIME WITH TIME ZONE` is read as UTC;
  an unreadable `time_zone_id` falls through to the next source;
* the year -32768 renders and does not read back; a fraction above 999999999 is held
  at that; a marker next to a quoted string, or to another marker, joins two literals;
* a negative number is rendered bare (`params.rs` 86), so `x-?` with -5 becomes `x--5`, a
  comment;
* `{fn TRUNCATE(x + y, 1)}` becomes `(truncate(x + y * 10) / 10)`, because
  `rewrite_truncate` writes no parentheses around the value (`escape_dialect.rs` 389);
* the precision radix of `REAL` and `DOUBLE` is 10 in `SQLColumns` (`metadata.rs` 529)
  and 2 in `SQLGetTypeInfo` (`info.rs` 254, 262);
* `SOUNDEX` is claimed of every release, though those before 356 lack it (`info.rs` 811,
  which says so); it is outside `ClaimsAreHonoured`;
* `split_args` trims the newline that ends a `--` comment, so the rest of a rewritten
  call can fall into the comment; `CONVERT` is rewritten though only `CAST` is
  advertised;
* a catalog argument with a doubled backslash, or a backslash before an ordinary
  character, is not read by ODBC's rules, and `MCCatalog` searches for none (`has_odbc_wildcards` looks
  one character back; Trino's `LIKE` refuses an escaped ordinary character), and a catalog with a
  wildcard searches the session's catalog only.

## 7. Not modelled

* Application SQL that is itself `START TRANSACTION`, `COMMIT` or `ROLLBACK`.
* A poisoned lock or a panic: every handler of one only gives up an optional service.
* Core's own state machine: which ODBC function is legal when, diagnostics, the
  relabelling of `HY008` to `HYT00`.
* Log lines and profiling counters, the texts of errors, the spelling of URLs and
  HTTP headers, TLS beyond how strictly a certificate is checked.
* Pass-through columns of the catalog functions' rows, the list of reserved words and
  the list behind `SQLGetFunctions`: constants no property could disagree with.
* The `{d}`, `{t}`, `{ts}` and `{guid}` templates and the scanner that finds an escape:
  core fills and runs them.
* Redaction of secrets in logs: core's, from a list of keywords this driver hands it.
* The time zone database and calendar arithmetic: a zone has one change of its clocks.
* The dialog's form, its connection test and its stand-alone mode; and its stderr, a third
  pipe (`setup.rs` 291) that nobody reads while the driver writes: `NobodyWaitsInACircle`
  is about the other two.
* `lib.rs`, `build.rs`, the fuzz targets, packaging and the Power Query connector:
  generated exports, build steps, test drivers and a separate client.

## 8. Running

    tlc -config TransactionsSerial.cfg MCTransactions.tla
    tlc -config ResultStream.cfg ResultStream.tla
    tlc -config DescribeParam.cfg MCDescribeParam.tla
    tlc -config Connect.cfg MCConnect.tla
    tlc -config LocalCalls.cfg MCLocalCalls.tla
    tlapm TransactionsProofs.tla

and so on for the other `.cfg` files, whose module `PROJECT.json` names, and for
`ResultStreamProofs`, `ConnectProofs`, `DescribeParamProofs`, `SetupProofs`,
`CatalogProofs`, `TemporalProofs` and `TextProofs`.

The operators whose comment starts with "A likely mistake" are wrong versions of an
operator near them. Substituting one for it breaks the property `PROJECT.json` pairs
it with; no specification refers to them.
