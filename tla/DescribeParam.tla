---------------------------- MODULE DescribeParam ----------------------------
(***************************************************************************)
(* SQLDescribeParam: one cached answer per connection behind a mutex that  *)
(* is held across three round trips, PREPARE, DESCRIBE INPUT and           *)
(* DEALLOCATE PREPARE, all under one fixed statement name and all inside   *)
(* whatever transaction the application has open.                          *)
(*                                                                         *)
(* A parameter's type is the pair of the statement it belongs to and its   *)
(* position there, so an answer shows which question it answers.           *)
(***************************************************************************)
EXTENDS Naturals, Sequences, FiniteSets, Functions

CONSTANTS
  Threads,        \* application threads calling SQLDescribeParam
  Sqls,           \* statement texts
  NumParams,      \* the parameters each of them has
  MaxNumber,      \* the largest parameter number asked for (a bound)
  NoSql, NoThread

ASSUME NamesAssumption == NoSql \notin Sqls /\ NoThread \notin Threads
ASSUME ParamsAssumption == NumParams \in [Sqls -> Nat] /\ MaxNumber \in Nat

VARIABLES
  pc,             \* where the call of each thread is
  call,           \* its arguments
  inTransaction,  \* its local in_transaction
  described,      \* its local described: whether it is Ok, and the params
  holder,         \* who holds the mutex of describe_param_cache
  cache,          \* the sql and the params of CachedParams
  registered,     \* the text under the fixed name in the client's session
  txn,            \* the transaction of the session, as the coordinator has it
  aborts,         \* observer: PREPARE or DESCRIBE of this call aborted it
  opened,         \* observer: this call found none, and another opened it since
  reply           \* observer: what the thread's last call returned

locals == <<inTransaction, described>>
vars   == <<pc, call, locals, holder, cache, registered, txn, aborts, opened, reply>>

Failed == [ok |-> FALSE, params |-> <<>>]
Described(params) == [ok |-> TRUE, params |-> params]
Nothing == [sql |-> NoSql, params |-> <<>>]

\* The type Trino gives a parameter, at Position p of DESCRIBE INPUT (0-based).
TypeOf(sql, p) == <<sql, p>>

\* DESCRIBE INPUT's answer: a row per parameter, in any order.
Rows(sql) ==
  LET n == NumParams[sql] IN
  {[i \in 1..n |-> [position |-> order[i], type |-> TypeOf(sql, order[i])]] :
      order \in Bijection(1..n, 0..(n - 1))}

\* Indexed by position: as many rows lie before a row as have a smaller position.
describe_input_rows_to_params(rows) ==
  [i \in DOMAIN rows |->
     rows[CHOOSE k \in DOMAIN rows :
            Cardinality({j \in DOMAIN rows : rows[j].position < rows[k].position}) = i - 1].type]

ParamsOf(sql) == {describe_input_rows_to_params(rows) : rows \in Rows(sql)}
Answers == {<<"none">>, <<"error">>} \union (Sqls \X Nat)

TypeOK ==
  /\ pc \in [Threads -> {"idle", "wait", "prepare", "describe", "deallocate", "answer"}]
  /\ call \in [Threads -> [sql : Sqls \union {NoSql}, number : Nat]]
  /\ inTransaction \in [Threads -> BOOLEAN]
  /\ described \in [Threads -> {Failed} \union
                               UNION {{Described(p) : p \in ParamsOf(sql)} : sql \in Sqls}]
  /\ holder \in Threads \union {NoThread}
  /\ cache \in {Nothing} \union UNION {[sql : {sql}, params : ParamsOf(sql)] : sql \in Sqls}
  /\ registered \in Sqls \union {NoSql}
  /\ txn \in {"none", "open", "aborted"}
  /\ aborts \in [Threads -> BOOLEAN] /\ opened \in [Threads -> BOOLEAN]
  /\ reply \in [Threads -> Answers]

Init ==
  /\ pc = [t \in Threads |-> "idle"]
  /\ call = [t \in Threads |-> [sql |-> NoSql, number |-> 0]]
  /\ inTransaction = [t \in Threads |-> FALSE]
  /\ described = [t \in Threads |-> Failed]
  /\ holder = NoThread /\ cache = Nothing /\ registered = NoSql
  /\ txn = "none"
  /\ aborts = [t \in Threads |-> FALSE] /\ opened = [t \in Threads |-> FALSE]
  /\ reply = [t \in Threads |-> <<"none">>]
-----------------------------------------------------------------------------
Sql(t) == call[t].sql

\* A likely mistake: an early return that forgets the mutex (a leaked guard).
ReturnLocked(t, answer) ==
  /\ pc' = [pc EXCEPT ![t] = "idle"]
  /\ reply' = [reply EXCEPT ![t] = answer]
  /\ inTransaction' = [inTransaction EXCEPT ![t] = FALSE]
  /\ described' = [described EXCEPT ![t] = Failed]
  /\ holder' = holder

\* The call returns: its locals and its guard on the mutex go.
Return(t, answer) ==
  /\ pc' = [pc EXCEPT ![t] = "idle"]
  /\ reply' = [reply EXCEPT ![t] = answer]
  /\ inTransaction' = [inTransaction EXCEPT ![t] = FALSE]
  /\ described' = [described EXCEPT ![t] = Failed]
  /\ holder' = IF holder = t THEN NoThread ELSE holder

Goto(t, step) == pc' = [pc EXCEPT ![t] = step]

\* Parameter numbers count from 1; number 0 is answered before the mutex.
Describe(t, sql, number) ==
  /\ pc[t] = "idle"
  /\ call' = [call EXCEPT ![t] = [sql |-> sql, number |-> number]]
  /\ aborts' = [aborts EXCEPT ![t] = FALSE]
  /\ \/ number = 0 /\ Return(t, <<"none">>)
     \/ number > 0 /\ Goto(t, "wait") /\ UNCHANGED <<holder, reply, locals>>
  /\ UNCHANGED <<cache, registered, txn, opened>>

\* The mutex is taken. A cached answer for another text is no answer, and then
\* whether a transaction is open is read before the round trips.
Lock(t) ==
  /\ pc[t] = "wait" /\ holder = NoThread
  /\ holder' = t
  /\ \/ cache.sql = Sql(t) /\ Goto(t, "answer") /\ UNCHANGED inTransaction
     \/ /\ cache.sql # Sql(t) /\ Goto(t, "prepare")
        /\ inTransaction' = [inTransaction EXCEPT ![t] = txn # "none"]
  /\ opened' = [opened EXCEPT ![t] = FALSE]
  /\ UNCHANGED <<call, described, cache, registered, txn, aborts, reply>>

\* A request fails: refused, which aborts an open transaction, or lost.
RequestFails == txn' \in IF txn = "open" THEN {"open", "aborted"} ELSE {txn}

NoteAbort(t) == aborts' = [aborts EXCEPT ![t] = @ \/ txn # txn']

\* A likely mistake: every failure is left to core's guess.
FetchFailsQuietly(t) == Return(t, <<"none">>)

\* fetch_input_params failed: outside a transaction core guesses, inside one
\* the application has to know.
FetchFails(t) == Return(t, IF inTransaction[t] THEN <<"error">> ELSE <<"none">>)

Prepare(t) ==
  /\ pc[t] = "prepare" /\ txn # "aborted"
  /\ registered' = Sql(t)
  /\ Goto(t, "describe")
  /\ UNCHANGED <<call, locals, holder, cache, txn, aborts, opened, reply>>

\* A likely mistake: the question mark is missing, and DESCRIBE INPUT is
\* sent although nothing was prepared.
PrepareFailsOn(t) ==
  /\ pc[t] = "prepare"
  /\ RequestFails /\ NoteAbort(t)
  /\ Goto(t, IF registered = NoSql THEN "deallocate" ELSE "describe")
  /\ described' = [described EXCEPT ![t] = Failed]
  /\ UNCHANGED <<call, inTransaction, holder, cache, registered, opened, reply>>

\* The question mark after PREPARE: nothing else is sent.
PrepareFails(t) ==
  /\ pc[t] = "prepare"
  /\ RequestFails /\ NoteAbort(t)
  /\ FetchFails(t)
  /\ UNCHANGED <<call, cache, registered, opened>>

\* The coordinator describes what the session header carries under the name.
DescribeInput(t) ==
  /\ pc[t] = "describe" /\ txn # "aborted"
  /\ \E rows \in Rows(registered) :
       described' = [described EXCEPT ![t] = Described(describe_input_rows_to_params(rows))]
  /\ Goto(t, "deallocate")
  /\ UNCHANGED <<call, inTransaction, holder, cache, registered, txn, aborts, opened,
                 reply>>

DescribeInputFails(t) ==
  /\ pc[t] = "describe"
  /\ RequestFails /\ NoteAbort(t)
  /\ described' = [described EXCEPT ![t] = Failed]
  /\ Goto(t, "deallocate")
  /\ UNCHANGED <<call, inTransaction, holder, cache, registered, opened, reply>>

\* A likely mistake: the result is cached before it is looked at.
ConcludeRegardless(t) ==
  /\ cache' = [sql |-> Sql(t), params |-> described[t].params]
  /\ Goto(t, "answer") /\ UNCHANGED <<holder, reply, locals>>

\* After DEALLOCATE, whatever it answered: the describe's own result decides.
Conclude(t) ==
  \/ ~described[t].ok /\ FetchFails(t) /\ UNCHANGED cache
  \/ /\ described[t].ok
     /\ cache' = [sql |-> Sql(t), params |-> described[t].params]
     /\ Goto(t, "answer") /\ UNCHANGED <<holder, reply, inTransaction>>
     /\ described' = [described EXCEPT ![t] = Failed]

Deallocate(t) ==
  /\ pc[t] = "deallocate" /\ txn # "aborted"
  /\ registered' = NoSql
  /\ Conclude(t)
  /\ UNCHANGED <<call, txn, aborts, opened>>

\* Only logged, although a refused DEALLOCATE aborts the transaction too.
DeallocateFails(t) ==
  /\ pc[t] = "deallocate"
  /\ RequestFails
  /\ Conclude(t)
  /\ UNCHANGED <<call, registered, aborts, opened>>

\* The cached descriptor at the index, or none past the end.
Answer(t) ==
  /\ pc[t] = "answer"
  /\ LET n == call[t].number IN
       Return(t, IF n \in DOMAIN cache.params THEN cache.params[n] ELSE <<"none">>)
  /\ UNCHANGED <<call, cache, registered, txn, aborts, opened>>

\* Other calls on the connection, at any point of a description: one opens a
\* transaction, fails in it, or SQLEndTran ends it.
OtherStatement ==
  /\ \/ txn = "none" /\ txn' = "open"
     \/ txn = "open" /\ txn' \in {"none", "aborted"}
     \/ txn = "aborted" /\ txn' = "none"
  /\ opened' = [t \in Threads |->
                  opened[t] \/ (holder = t /\ ~inTransaction[t] /\ txn = "none")]
  /\ UNCHANGED <<pc, call, locals, holder, cache, registered, aborts, reply>>

Step(t) ==
  \/ Prepare(t) \/ PrepareFails(t)
  \/ DescribeInput(t) \/ DescribeInputFails(t)
  \/ Deallocate(t) \/ DeallocateFails(t)
  \/ Answer(t)

Next ==
  \/ \E t \in Threads, sql \in Sqls, number \in 0..MaxNumber : Describe(t, sql, number)
  \/ \E t \in Threads : Lock(t) \/ Step(t)
  \/ OtherStatement

\* A thread that holds the mutex runs on: each request ends with an answer or
\* with the client's timeout. Nothing is assumed about who gets the mutex next.
Fairness == \A t \in Threads : WF_vars(Step(t))

Spec == Init /\ [][Next]_vars /\ Fairness
-----------------------------------------------------------------------------
(* Properties.                                                              *)

\* Whoever asks about parameter n of a statement is told the type of that
\* parameter of that statement, whatever order the rows came in, whatever other
\* threads describe, and whatever an earlier call left registered under the
\* name (describe_param and describe_input_rows_to_params).
AnswerFitsQuestion ==
  \A t \in Threads :
    pc[t] = "idle" /\ reply[t] \notin {<<"none">>, <<"error">>} =>
      reply[t] = TypeOf(call[t].sql, call[t].number - 1)

\* A description whose own PREPARE or DESCRIBE INPUT aborted the application's
\* transaction is never reported as a success or a shrug, also when the
\* transaction it found was replaced meanwhile; only one opened after the call
\* looked, where there was none, may die unreported (describe_param's two error
\* arms).
AbortIsReported ==
  \A t \in Threads :
    pc[t] = "idle" /\ aborts[t] /\ ~opened[t] => reply[t] = <<"error">>

\* The mutex is given back on every path, those of the failures included.
LockIsReleased == \A t \in Threads : holder = t ~> holder # t
=============================================================================
