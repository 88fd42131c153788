------------------------- MODULE DescribeParamProofs -------------------------
(***************************************************************************)
(* What holds of DescribeParam for any threads and statements: an answer   *)
(* belongs to the question, and an abort the description caused is told.   *)
(***************************************************************************)
EXTENDS DescribeParam, FiniteSetTheorems, TLAPS

(* What DESCRIBE INPUT's answer is read as.                                  *)

\* As many rows lie before a row as its position says, whatever the order.
LEMMA RowsBefore ==
  ASSUME NEW n \in Nat, NEW order \in Bijection(1..n, 0..(n - 1)), NEW k \in 1..n
  PROVE  Cardinality({j \in 1..n : order[j] < order[k]}) = order[k]
<1> DEFINE before == {j \in 1..n : order[j] < order[k]}
           positions == 0..(order[k] - 1)
           row == [p \in positions |-> CHOOSE j \in 1..n : order[j] = p]
<1>1. /\ order \in [1..n -> 0..(n - 1)]
      /\ \A i, j \in 1..n : order[i] = order[j] => i = j
      /\ \A p \in 0..(n - 1) : \E j \in 1..n : order[j] = p
  BY DEF Bijection, Injection, Surjection, IsInjective
<1>2. order[k] \in 0..(n - 1)
  BY <1>1
<1>3. \A p \in positions : row[p] \in 1..n /\ order[row[p]] = p
  <2> SUFFICES ASSUME NEW p \in positions PROVE row[p] \in 1..n /\ order[row[p]] = p
    OBVIOUS
  <2>1. \E j \in 1..n : order[j] = p
    <3>1. p \in 0..(n - 1)
      BY <1>2
    <3> QED
      BY <1>1, <3>1
  <2>2. row[p] = CHOOSE j \in 1..n : order[j] = p
    OBVIOUS
  <2> HIDE DEF row
  <2> QED
    BY <2>1, <2>2
<1>4. row \in Bijection(positions, before)
  <2> HIDE DEF row
  <2>1. row \in [positions -> before]
    <3>1. row = [p \in positions |-> row[p]]
      BY DEF row
    <3>2. \A p \in positions : row[p] \in before
      BY <1>2, <1>3
    <3> HIDE DEF positions, before
    <3> QED
      BY <3>1, <3>2
  <2>2. \A p, q \in positions : row[p] = row[q] => p = q
    BY <1>3
  <2>3. \A j \in before : \E p \in positions : row[p] = j
    <3> SUFFICES ASSUME NEW j \in before PROVE \E p \in positions : row[p] = j
      OBVIOUS
    <3>1. order[j] \in positions /\ j \in 1..n
      BY <1>1, <1>2
    <3>2. row[order[j]] = j
      <4>1. row[order[j]] \in 1..n /\ order[row[order[j]]] = order[j]
        BY <1>3, <3>1
      <4> HIDE DEF positions, before
      <4> QED
        BY <1>1, <3>1, <4>1
    <3> QED
      BY <3>1, <3>2
  <2> HIDE DEF positions, before
  <2> QED
    BY <2>1, <2>2, <2>3 DEF Bijection, Injection, Surjection, IsInjective
<1>5. IsFiniteSet(positions) /\ Cardinality(positions) = order[k]
  <2>1. order[k] \in Nat
    BY <1>2
  <2> DEFINE last == order[k] - 1
  <2>2. last \in Int /\ 0 \in Int
    BY <2>1
  <2> HIDE DEF last
  <2>3. IsFiniteSet(0..last) /\ Cardinality(0..last) = IF 0 > last THEN 0 ELSE last - 0 + 1
    BY ONLY <2>2, FS_Interval
  <2> QED
    BY <2>1, <2>3 DEF last
<1> HIDE DEF positions, before, row
<1>6. Cardinality(before) = Cardinality(positions)
  BY <1>4, <1>5, FS_Bijection DEF ExistsBijection
<1> QED
  BY <1>5, <1>6 DEF before

\* The parameters of a statement, in the order it has them.
Types(sql) == [i \in 1..NumParams[sql] |-> TypeOf(sql, i - 1)]

\* Whatever order the rows come in, the parameters come out in theirs.
LEMMA ParamsInOrder ==
  ASSUME NEW sql \in Sqls, NEW params \in ParamsOf(sql)
  PROVE  params = Types(sql)
<1> DEFINE n == NumParams[sql]
<1>1. n \in Nat
  BY ParamsAssumption
<1>2. PICK order \in Bijection(1..n, 0..(n - 1)) :
        params = describe_input_rows_to_params(
                   [i \in 1..n |-> [position |-> order[i], type |-> TypeOf(sql, order[i])]])
  BY DEF ParamsOf, Rows
<1> DEFINE rows == [i \in 1..n |-> [position |-> order[i], type |-> TypeOf(sql, order[i])]]
<1>3. /\ DOMAIN rows = 1..n
      /\ \A i \in 1..n : rows[i].position = order[i] /\ rows[i].type = TypeOf(sql, order[i])
  OBVIOUS
<1>4. params = describe_input_rows_to_params(rows)
  BY <1>2
<1> HIDE DEF n, rows
<1>5. params = [i \in 1..n |->
         rows[CHOOSE k \in 1..n :
                Cardinality({j \in 1..n : rows[j].position < rows[k].position}) = i - 1].type]
  BY <1>3, <1>4 DEF describe_input_rows_to_params
<1>6. \A k \in 1..n : Cardinality({j \in 1..n : rows[j].position < rows[k].position}) = order[k]
  <2> SUFFICES ASSUME NEW k \in 1..n
               PROVE  Cardinality({j \in 1..n : rows[j].position < rows[k].position}) = order[k]
    OBVIOUS
  <2>1. {j \in 1..n : rows[j].position < rows[k].position} = {j \in 1..n : order[j] < order[k]}
    BY <1>3
  <2> QED
    BY <1>1, <2>1, RowsBefore
<1>7. \A p \in 0..(n - 1) : \E k \in 1..n : order[k] = p
  BY DEF Bijection, Surjection
<1>8. \A i \in 1..n : params[i] = TypeOf(sql, i - 1)
  <2> SUFFICES ASSUME NEW i \in 1..n PROVE params[i] = TypeOf(sql, i - 1)
    OBVIOUS
  <2> DEFINE Nth(k) == Cardinality({j \in 1..n : rows[j].position < rows[k].position}) = i - 1
  <2>1. \E k \in 1..n : Nth(k)
    <3>1. i - 1 \in 0..(n - 1)
      BY <1>1
    <3>2. PICK k \in 1..n : order[k] = i - 1
      BY <1>7, <3>1
    <3> QED
      BY <1>6, <3>2
  <2> DEFINE k == CHOOSE k \in 1..n : Nth(k)
  <2>2. params[i] = rows[k].type
    BY <1>5
  <2> HIDE DEF Nth
  <2>3. k \in 1..n /\ Nth(k)
    BY <2>1
  <2> HIDE DEF k
  <2>4. order[k] = i - 1
    BY <1>6, <2>3 DEF Nth
  <2> QED
    BY <1>3, <2>2, <2>3, <2>4
<1>9. params = [i \in 1..n |-> params[i]]
  BY <1>5
<1> QED
  BY <1>8, <1>9 DEF Types, n
-----------------------------------------------------------------------------
(* The inductive invariant.                                                 *)

Locked(t) == pc[t] \in {"prepare", "describe", "deallocate", "answer"}
Fetching(t) == pc[t] \in {"prepare", "describe", "deallocate"}

Results == {Failed} \union UNION {{Described(p) : p \in ParamsOf(sql)} : sql \in Sqls}

Shape ==
  /\ pc \in [Threads -> {"idle", "wait", "prepare", "describe", "deallocate", "answer"}]
  /\ call \in [Threads -> [sql : Sqls \union {NoSql}, number : Nat]]
  /\ inTransaction \in [Threads -> BOOLEAN]
  /\ described \in [Threads -> Results]
  /\ holder \in Threads \union {NoThread}
  /\ registered \in Sqls \union {NoSql}
  /\ txn \in {"none", "open", "aborted"}
  /\ aborts \in [Threads -> BOOLEAN] /\ opened \in [Threads -> BOOLEAN]
  /\ reply \in [Threads -> Answers]

\* The cache holds nothing, or the parameters of the statement it names.
CacheFits ==
  \/ cache = Nothing
  \/ \E sql \in Sqls : \E params \in ParamsOf(sql) : cache = [sql |-> sql, params |-> params]

\* What the call of a thread has done: the mutex is its own from the lock to the
\* return, and under it the name, the result and the cache belong to its statement.
CallFits(t) ==
  /\ Locked(t) <=> holder = t
  /\ pc[t] # "idle" => Sql(t) \in Sqls
  /\ pc[t] = "describe" => registered = Sql(t)
  /\ pc[t] = "answer" => cache.sql = Sql(t)
  /\ \/ described[t] = Failed
     \/ pc[t] = "deallocate" /\ \E params \in ParamsOf(Sql(t)) : described[t] = Described(params)

\* An answer is of the question last asked.
ReplyFits(t) ==
  pc[t] = "idle" =>
    \/ reply[t] \in {<<"none">>, <<"error">>}
    \/ reply[t] = TypeOf(call[t].sql, call[t].number - 1)

\* An abort is the failure of the fetch, and while the fetch goes on there is no
\* transaction it did not find or see opened.
AbortFits(t) ==
  /\ pc[t] \in {"wait", "prepare", "describe", "answer"} => ~aborts[t]
  /\ Fetching(t) /\ ~inTransaction[t] /\ ~opened[t] => txn = "none" /\ ~aborts[t]
  /\ pc[t] = "deallocate" /\ aborts[t] => described[t] = Failed
  /\ pc[t] = "idle" /\ aborts[t] /\ ~opened[t] => reply[t] = <<"error">>

Fits(t) == CallFits(t) /\ ReplyFits(t) /\ AbortFits(t)

DescribeInv == Shape /\ CacheFits /\ \A t \in Threads : Fits(t)

LEMMA DescribeInvInit == Init => DescribeInv
<1> SUFFICES ASSUME Init PROVE DescribeInv
  OBVIOUS
<1>1. Shape
  BY DEF Init, Shape, Answers, Results
<1>2. CacheFits
  BY DEF Init, CacheFits
<1>3. ASSUME NEW t \in Threads PROVE Fits(t)
  BY NamesAssumption DEF Init, Fits, CallFits, ReplyFits, AbortFits, Locked, Fetching
<1> QED
  BY <1>1, <1>2, <1>3 DEF DescribeInv
-----------------------------------------------------------------------------
(* Every step keeps the invariant.                                          *)

\* What a step of one thread leaves alone of another.
Untouched(u) ==
  /\ pc'[u] = pc[u] /\ call'[u] = call[u] /\ inTransaction'[u] = inTransaction[u]
  /\ described'[u] = described[u] /\ aborts'[u] = aborts[u] /\ opened'[u] = opened[u]
  /\ reply'[u] = reply[u]

\* The mutex keeps the others out of the name, the cache and the transaction.
LEMMA OthersKept ==
  ASSUME DescribeInv, NEW t \in Threads, NEW u \in Threads \ {t}, Untouched(u),
         \/ holder = t /\ holder' \in {t, NoThread}
         \/ (holder' = u <=> holder = u) /\ UNCHANGED <<cache, registered, txn>>
  PROVE  Fits(u)'
<1>1. Fits(u) /\ u # NoThread
  BY NamesAssumption DEF DescribeInv
<1>2. CASE holder = t /\ holder' \in {t, NoThread}
  <2>1. ~Locked(u) /\ holder' # u
    BY <1>1, <1>2 DEF Fits, CallFits
  <2> QED
    BY <1>1, <2>1 DEF Untouched, Fits, CallFits, ReplyFits, AbortFits, Locked, Fetching, Sql
<1>3. CASE (holder' = u <=> holder = u) /\ UNCHANGED <<cache, registered, txn>>
  BY <1>1, <1>3 DEF Untouched, Fits, CallFits, ReplyFits, AbortFits, Locked, Fetching, Sql
<1> QED
  BY <1>2, <1>3

\* A call returns: with what it may say, and with the mutex given back.
LEMMA ReturnKeeps ==
  ASSUME DescribeInv, NEW t \in Threads, NEW answer \in Answers, Return(t, answer),
         call' \in [Threads -> [sql : Sqls \union {NoSql}, number : Nat]],
         aborts' \in [Threads -> BOOLEAN],
         \A u \in Threads \ {t} : call'[u] = call[u] /\ aborts'[u] = aborts[u],
         registered' \in Sqls \union {NoSql}, txn' \in {"none", "open", "aborted"},
         CacheFits', UNCHANGED opened,
         holder = t \/ UNCHANGED <<cache, registered, txn>>,
         \/ answer \in {<<"none">>, <<"error">>}
         \/ answer = TypeOf(call'[t].sql, call'[t].number - 1),
         aborts'[t] /\ ~opened[t] => answer = <<"error">>
  PROVE  DescribeInv'
<1> USE DEF DescribeInv
<1>1. /\ pc' = [pc EXCEPT ![t] = "idle"] /\ reply' = [reply EXCEPT ![t] = answer]
      /\ inTransaction' = [inTransaction EXCEPT ![t] = FALSE]
      /\ described' = [described EXCEPT ![t] = Failed]
      /\ holder' = IF holder = t THEN NoThread ELSE holder
  BY DEF Return
<1>2. Shape'
  <2>1. Failed \in Results
    BY DEF Results
  <2> QED
    BY <1>1, <2>1 DEF Shape
<1>3. ASSUME NEW u \in Threads, u # t PROVE Fits(u)'
  <2>1. Untouched(u)
    BY <1>1, <1>3 DEF Shape, Untouched
  <2>2. \/ holder = t /\ holder' \in {t, NoThread}
        \/ (holder' = u <=> holder = u) /\ UNCHANGED <<cache, registered, txn>>
    BY <1>1
  <2> QED
    BY <1>3, <2>1, <2>2, OthersKept
<1>4. Fits(t)'
  <2>1. pc'[t] = "idle" /\ reply'[t] = answer /\ described'[t] = Failed
    BY <1>1 DEF Shape
  <2>2. holder' # t
    BY <1>1, NamesAssumption
  <2> QED
    BY <2>1, <2>2 DEF Fits, CallFits, ReplyFits, AbortFits, Locked, Fetching
<1> QED
  BY <1>2, <1>3, <1>4

\* A call is made; number 0 is answered at once.
LEMMA DescribeKeeps ==
  ASSUME DescribeInv, NEW t \in Threads, NEW sql \in Sqls, NEW number \in 0..MaxNumber,
         Describe(t, sql, number)
  PROVE  DescribeInv'
<1> USE DEF DescribeInv
<1>1. /\ pc[t] = "idle"
      /\ call' = [call EXCEPT ![t] = [sql |-> sql, number |-> number]]
      /\ aborts' = [aborts EXCEPT ![t] = FALSE]
      /\ UNCHANGED <<cache, registered, txn, opened>>
  BY DEF Describe
<1>2. /\ call' \in [Threads -> [sql : Sqls \union {NoSql}, number : Nat]]
      /\ aborts' \in [Threads -> BOOLEAN]
      /\ call'[t].sql = sql /\ ~aborts'[t]
      /\ \A u \in Threads \ {t} : call'[u] = call[u] /\ aborts'[u] = aborts[u]
  BY <1>1, ParamsAssumption DEF Shape
<1>3. CacheFits'
  BY <1>1 DEF CacheFits
<1>4. CASE Return(t, <<"none">>)
  <2>1. <<"none">> \in Answers
    BY DEF Answers
  <2> QED
    BY <1>1, <1>2, <1>3, <1>4, <2>1, ReturnKeeps DEF Shape
<1>5. CASE Goto(t, "wait") /\ UNCHANGED <<holder, reply, locals>>
  <2>1. /\ pc' = [pc EXCEPT ![t] = "wait"]
        /\ UNCHANGED <<holder, reply, inTransaction, described>>
    BY <1>5 DEF Goto, locals
  <2>2. Shape'
    BY <1>1, <1>2, <2>1 DEF Shape
  <2>3. ASSUME NEW u \in Threads, u # t PROVE Fits(u)'
    <3>1. Untouched(u)
      BY <1>1, <1>2, <2>1, <2>3 DEF Shape, Untouched
    <3> QED
      BY <1>1, <2>1, <2>3, <3>1, OthersKept
  <2>4. Fits(t)'
    <3>1. pc'[t] = "wait" /\ described'[t] = described[t]
      BY <2>1 DEF Shape
    <3>2. holder # t /\ described[t] = Failed
      BY <1>1 DEF Fits, CallFits, Locked
    <3> QED
      BY <1>2, <2>1, <3>1, <3>2 DEF Fits, CallFits, ReplyFits, AbortFits, Locked, Fetching, Sql
  <2> QED
    BY <1>3, <2>2, <2>3, <2>4
<1> QED
  BY <1>4, <1>5 DEF Describe

\* The mutex is taken, and the transaction looked at.
LEMMA LockKeeps ==
  ASSUME DescribeInv, NEW t \in Threads, Lock(t)
  PROVE  DescribeInv'
<1> USE DEF DescribeInv
<1>1. /\ pc[t] = "wait" /\ holder = NoThread /\ holder' = t
      /\ opened' = [opened EXCEPT ![t] = FALSE]
      /\ UNCHANGED <<call, described, cache, registered, txn, aborts, reply>>
      /\ \/ /\ cache.sql = Sql(t) /\ pc' = [pc EXCEPT ![t] = "answer"]
            /\ UNCHANGED inTransaction
         \/ /\ pc' = [pc EXCEPT ![t] = "prepare"]
            /\ inTransaction' = [inTransaction EXCEPT ![t] = txn # "none"]
  BY DEF Lock, Goto
<1>2. (txn # "none") \in BOOLEAN
  OBVIOUS
<1>3. Shape'
  BY <1>1, <1>2 DEF Shape
<1>4. CacheFits'
  BY <1>1 DEF CacheFits
<1>5. ASSUME NEW u \in Threads, u # t PROVE Fits(u)'
  <2>1. Untouched(u)
    BY <1>1, <1>5 DEF Shape, Untouched
  <2>2. holder' = u <=> holder = u
    BY <1>1, <1>5, NamesAssumption
  <2> QED
    BY <1>1, <1>5, <2>1, <2>2, OthersKept
<1>6. Fits(t)'
  <2>1. Sql(t) \in Sqls /\ described[t] = Failed /\ ~aborts[t]
    BY <1>1 DEF Fits, CallFits, AbortFits
  <2>2. CASE cache.sql = Sql(t) /\ pc' = [pc EXCEPT ![t] = "answer"]
    <3>1. pc'[t] = "answer"
      BY <2>2 DEF Shape
    <3> QED
      BY <1>1, <2>1, <2>2, <3>1 DEF Fits, CallFits, ReplyFits, AbortFits, Locked, Fetching, Sql
  <2>3. CASE /\ pc' = [pc EXCEPT ![t] = "prepare"]
             /\ inTransaction' = [inTransaction EXCEPT ![t] = txn # "none"]
    <3>1. pc'[t] = "prepare" /\ (inTransaction'[t] <=> txn # "none")
      BY <2>3 DEF Shape
    <3> QED
      BY <1>1, <2>1, <3>1 DEF Fits, CallFits, ReplyFits, AbortFits, Locked, Fetching, Sql
  <2> QED
    BY <1>1, <2>2, <2>3
<1> QED
  BY <1>3, <1>4, <1>5, <1>6

\* What a failed request may do to the transaction, and what is noted of it.
LEMMA RequestFailed ==
  ASSUME Shape, RequestFails
  PROVE  /\ txn' \in {"none", "open", "aborted"}
         /\ txn # txn' => txn = "open"
  BY DEF Shape, RequestFails

LEMMA AbortNoted ==
  ASSUME DescribeInv, NEW t \in Threads, RequestFails, NoteAbort(t),
         Fetching(t), ~aborts[t]
  PROVE  /\ aborts' \in [Threads -> BOOLEAN]
         /\ \A u \in Threads \ {t} : aborts'[u] = aborts[u]
         /\ ~inTransaction[t] /\ ~opened[t] => txn' = "none" /\ ~aborts'[t]
<1> USE DEF DescribeInv
<1>1. (aborts[t] \/ txn # txn') \in BOOLEAN
  OBVIOUS
<1>2. aborts' = [aborts EXCEPT ![t] = aborts[t] \/ txn # txn']
  BY DEF NoteAbort
<1>3. /\ aborts' \in [Threads -> BOOLEAN]
      /\ \A u \in Threads \ {t} : aborts'[u] = aborts[u]
      /\ aborts'[t] <=> txn # txn'
  BY <1>1, <1>2 DEF Shape
<1>4. ~inTransaction[t] /\ ~opened[t] => txn = "none"
  BY DEF Fits, AbortFits
<1>5. txn # txn' => txn = "open"
  BY RequestFailed
<1> QED
  BY <1>3, <1>4, <1>5

\* The fetch failed: an abort is told, but for a transaction it never saw.
LEMMA FetchFailsKeeps ==
  ASSUME DescribeInv, NEW t \in Threads, Fetching(t), FetchFails(t),
         aborts' \in [Threads -> BOOLEAN],
         \A u \in Threads \ {t} : aborts'[u] = aborts[u],
         ~inTransaction[t] /\ ~opened[t] => ~aborts'[t],
         registered' \in Sqls \union {NoSql}, txn' \in {"none", "open", "aborted"},
         UNCHANGED <<call, cache, opened>>
  PROVE  DescribeInv'
<1> USE DEF DescribeInv
<1> DEFINE answer == IF inTransaction[t] THEN <<"error">> ELSE <<"none">>
<1>1. Return(t, answer)
  BY DEF FetchFails
<1>2. answer \in Answers /\ answer \in {<<"none">>, <<"error">>}
  BY DEF Answers
<1>3. holder = t
  BY DEF Fits, CallFits, Locked, Fetching
<1>4. CacheFits'
  BY DEF CacheFits
<1>5. aborts'[t] /\ ~opened[t] => answer = <<"error">>
  OBVIOUS
<1> HIDE DEF answer
<1> QED
  BY <1>1, <1>2, <1>3, <1>4, <1>5, ReturnKeeps DEF Shape

LEMMA PrepareKeeps ==
  ASSUME DescribeInv, NEW t \in Threads, Prepare(t) \/ PrepareFails(t)
  PROVE  DescribeInv'
<1> USE DEF DescribeInv
<1>1. pc[t] = "prepare" /\ holder = t /\ Sql(t) \in Sqls /\ ~aborts[t] /\ Fetching(t)
      /\ described[t] = Failed
  BY DEF Prepare, PrepareFails, Fits, CallFits, AbortFits, Locked, Fetching
<1>2. CASE Prepare(t)
  <2>1. /\ registered' = Sql(t) /\ pc' = [pc EXCEPT ![t] = "describe"]
        /\ UNCHANGED <<call, inTransaction, described, holder, cache, txn, aborts, opened, reply>>
    BY <1>2 DEF Prepare, Goto, locals
  <2>2. Shape' /\ CacheFits'
    BY <1>1, <2>1 DEF Shape, CacheFits
  <2>3. ASSUME NEW u \in Threads, u # t PROVE Fits(u)'
    <3>1. Untouched(u)
      BY <2>1, <2>3 DEF Shape, Untouched
    <3> QED
      BY <1>1, <2>1, <2>3, <3>1, OthersKept
  <2>4. Fits(t)'
    <3>1. pc'[t] = "describe"
      BY <2>1 DEF Shape
    <3> QED
      BY <1>1, <2>1, <3>1 DEF Fits, CallFits, ReplyFits, AbortFits, Locked, Fetching, Sql
  <2> QED
    BY <2>2, <2>3, <2>4
<1>3. CASE PrepareFails(t)
  <2>1. /\ RequestFails /\ NoteAbort(t) /\ FetchFails(t)
        /\ UNCHANGED <<call, cache, registered, opened>>
    BY <1>3 DEF PrepareFails
  <2>2. /\ aborts' \in [Threads -> BOOLEAN]
        /\ \A u \in Threads \ {t} : aborts'[u] = aborts[u]
        /\ ~inTransaction[t] /\ ~opened[t] => txn' = "none" /\ ~aborts'[t]
    BY <1>1, <2>1, AbortNoted
  <2>3. txn' \in {"none", "open", "aborted"} /\ registered' \in Sqls \union {NoSql}
    BY <2>1, RequestFailed DEF Shape
  <2> QED
    BY <1>1, <2>1, <2>2, <2>3, FetchFailsKeeps
<1> QED
  BY <1>2, <1>3

LEMMA DescribeInputKeeps ==
  ASSUME DescribeInv, NEW t \in Threads, DescribeInput(t) \/ DescribeInputFails(t)
  PROVE  DescribeInv'
<1> USE DEF DescribeInv
<1>1. /\ pc[t] = "describe" /\ holder = t /\ Sql(t) \in Sqls /\ ~aborts[t] /\ Fetching(t)
      /\ registered = Sql(t)
  BY DEF DescribeInput, DescribeInputFails, Fits, CallFits, AbortFits, Locked, Fetching
<1>2. /\ pc' = [pc EXCEPT ![t] = "deallocate"]
      /\ UNCHANGED <<call, inTransaction, holder, cache, registered, opened, reply>>
  BY DEF DescribeInput, DescribeInputFails, Goto
<1>3. /\ described' \in [Threads -> Results]
      /\ \A u \in Threads \ {t} : described'[u] = described[u]
      /\ \/ described'[t] = Failed
         \/ ~aborts'[t] /\ \E params \in ParamsOf(Sql(t)) : described'[t] = Described(params)
  <2>1. CASE DescribeInput(t)
    <3>1. PICK rows \in Rows(registered) :
            described' = [described EXCEPT ![t] = Described(describe_input_rows_to_params(rows))]
      BY <2>1 DEF DescribeInput
    <3>2. describe_input_rows_to_params(rows) \in ParamsOf(Sql(t))
      BY <1>1 DEF ParamsOf
    <3>3. ~aborts'[t]
      BY <1>1, <2>1 DEF DescribeInput
    <3>4. Described(describe_input_rows_to_params(rows)) \in Results
      BY <1>1, <3>2 DEF Results
    <3> QED
      BY <3>1, <3>2, <3>3, <3>4 DEF Shape
  <2>2. CASE DescribeInputFails(t)
    <3>1. Failed \in Results
      BY DEF Results
    <3> QED
      BY <2>2, <3>1 DEF DescribeInputFails, Shape
  <2> QED
    BY <2>1, <2>2
<1>4. /\ aborts' \in [Threads -> BOOLEAN] /\ txn' \in {"none", "open", "aborted"}
      /\ \A u \in Threads \ {t} : aborts'[u] = aborts[u]
      /\ ~inTransaction[t] /\ ~opened[t] => txn' = "none" /\ ~aborts'[t]
  <2>1. CASE DescribeInput(t)
    BY <1>1, <2>1 DEF DescribeInput, Shape, Fits, AbortFits
  <2>2. CASE DescribeInputFails(t)
    <3>1. RequestFails /\ NoteAbort(t)
      BY <2>2 DEF DescribeInputFails
    <3> QED
      BY <1>1, <3>1, AbortNoted, RequestFailed
  <2> QED
    BY <2>1, <2>2
<1>5. Shape' /\ CacheFits'
  BY <1>2, <1>3, <1>4 DEF Shape, CacheFits
<1>6. ASSUME NEW u \in Threads, u # t PROVE Fits(u)'
  <2>1. Untouched(u)
    BY <1>2, <1>3, <1>4, <1>6 DEF Shape, Untouched
  <2> QED
    BY <1>1, <1>2, <1>6, <2>1, OthersKept
<1>7. Fits(t)'
  <2>1. pc'[t] = "deallocate" /\ Sql(t)' = Sql(t)
    BY <1>2 DEF Shape, Sql
  <2>2. CallFits(t)'
    BY <1>1, <1>2, <1>3, <2>1 DEF CallFits, Locked
  <2>3. ReplyFits(t)' /\ AbortFits(t)'
    BY <1>2, <1>3, <1>4, <2>1 DEF ReplyFits, AbortFits, Fetching, Failed, Described
  <2> QED
    BY <2>2, <2>3 DEF Fits
<1> QED
  BY <1>5, <1>6, <1>7

\* DEALLOCATE was answered one way or the other: the describe's own result decides.
LEMMA DeallocateKeeps ==
  ASSUME DescribeInv, NEW t \in Threads, Deallocate(t) \/ DeallocateFails(t)
  PROVE  DescribeInv'
<1> USE DEF DescribeInv
<1>1. /\ pc[t] = "deallocate" /\ holder = t /\ Sql(t) \in Sqls /\ Fetching(t)
      /\ ~inTransaction[t] /\ ~opened[t] => txn = "none" /\ ~aborts[t]
  BY DEF Deallocate, DeallocateFails, Fits, CallFits, AbortFits, Locked, Fetching
<1>2. Conclude(t) /\ UNCHANGED <<call, aborts, opened>>
  BY DEF Deallocate, DeallocateFails
<1>3. registered' \in Sqls \union {NoSql} /\ txn' \in {"none", "open", "aborted"}
  BY RequestFailed DEF Deallocate, DeallocateFails, Shape
<1>4. CASE ~described[t].ok /\ FetchFails(t) /\ UNCHANGED cache
  BY <1>1, <1>2, <1>3, <1>4, FetchFailsKeeps DEF Shape
<1>5. CASE /\ described[t].ok
           /\ cache' = [sql |-> Sql(t), params |-> described[t].params]
           /\ Goto(t, "answer") /\ UNCHANGED <<holder, reply, inTransaction>>
           /\ described' = [described EXCEPT ![t] = Failed]
  <2>1. described[t] # Failed
    BY <1>5 DEF Failed
  <2>2. PICK params \in ParamsOf(Sql(t)) : described[t] = Described(params)
    BY <2>1 DEF Fits, CallFits
  <2>3. CacheFits'
    <3>1. cache' = [sql |-> Sql(t), params |-> params]
      BY <1>5, <2>2 DEF Described
    <3> QED
      BY <1>1, <3>1 DEF CacheFits
  <2>4. ~aborts[t]
    BY <1>1, <2>1 DEF Fits, AbortFits
  <2>5. pc' = [pc EXCEPT ![t] = "answer"]
    BY <1>5 DEF Goto
  <2>6. Shape'
    <3>1. Failed \in Results
      BY DEF Results
    <3> QED
      BY <1>2, <1>3, <1>5, <2>5, <3>1 DEF Shape
  <2>7. ASSUME NEW u \in Threads, u # t PROVE Fits(u)'
    <3>1. Untouched(u)
      BY <1>2, <1>5, <2>5, <2>7 DEF Shape, Untouched
    <3> QED
      BY <1>1, <1>5, <2>7, <3>1, OthersKept
  <2>8. Fits(t)'
    <3>1. pc'[t] = "answer" /\ described'[t] = Failed /\ cache'.sql = Sql(t)
      BY <1>5, <2>5 DEF Shape
    <3> QED
      BY <1>1, <1>2, <1>5, <2>4, <3>1
         DEF Fits, CallFits, ReplyFits, AbortFits, Locked, Fetching, Sql
  <2> QED
    BY <2>3, <2>6, <2>7, <2>8
<1> QED
  BY <1>2, <1>4, <1>5 DEF Conclude

\* The answer is read from the cache, which is of the statement asked about.
LEMMA AnswerKeeps ==
  ASSUME DescribeInv, NEW t \in Threads, Answer(t)
  PROVE  DescribeInv'
<1> USE DEF DescribeInv
<1> DEFINE n == call[t].number
           answer == IF n \in DOMAIN cache.params THEN cache.params[n] ELSE <<"none">>
<1>1. /\ pc[t] = "answer" /\ Return(t, answer)
      /\ UNCHANGED <<call, cache, registered, txn, aborts, opened>>
  BY DEF Answer
<1>2. cache.sql = Sql(t) /\ Sql(t) \in Sqls /\ ~aborts[t] /\ holder = t
  BY <1>1 DEF Fits, CallFits, AbortFits, Locked
<1>3. cache.params \in ParamsOf(Sql(t))
  <2>1. cache # Nothing
    BY <1>2, NamesAssumption DEF Nothing
  <2> QED
    BY <1>2, <2>1 DEF CacheFits
<1>4. cache.params = Types(Sql(t)) /\ NumParams[Sql(t)] \in Nat
  BY <1>2, <1>3, ParamsInOrder, ParamsAssumption
<1>5. answer = <<"none">> \/ (n \in 1..NumParams[Sql(t)] /\ answer = TypeOf(Sql(t), n - 1))
  BY <1>4 DEF Types
<1>6. answer \in Answers
  <2> HIDE DEF n, answer
  <2>1. CASE answer = <<"none">>
    BY <2>1 DEF Answers
  <2>2. CASE n \in 1..NumParams[Sql(t)] /\ answer = TypeOf(Sql(t), n - 1)
    <3>1. n - 1 \in Nat
      BY <1>4, <2>2
    <3>2. TypeOf(Sql(t), n - 1) \in Sqls \X Nat
      BY <1>2, <3>1 DEF TypeOf
    <3> QED
      BY <2>2, <3>2 DEF Answers
  <2> QED
    BY <1>5, <2>1, <2>2
<1>7. CacheFits'
  BY <1>1 DEF CacheFits
<1>8. answer \in {<<"none">>, <<"error">>} \/ answer = TypeOf(call'[t].sql, call'[t].number - 1)
  BY <1>1, <1>5 DEF Sql
<1>9. /\ call' = call /\ opened' = opened /\ aborts' = aborts /\ registered' = registered
      /\ txn' = txn
  BY <1>1
<1> HIDE DEF n, answer
<1> QED
  BY <1>1, <1>2, <1>6, <1>7, <1>8, <1>9, ReturnKeeps DEF Shape

\* Whatever else runs on the connection, a call that found no transaction sees
\* the first one opened.
LEMMA OtherStatementKeeps ==
  ASSUME DescribeInv, OtherStatement
  PROVE  DescribeInv'
<1> USE DEF DescribeInv
<1>1. /\ opened' = [t \in Threads |->
                      opened[t] \/ (holder = t /\ ~inTransaction[t] /\ txn = "none")]
      /\ txn' \in {"none", "open", "aborted"}
      /\ UNCHANGED <<pc, call, inTransaction, described, holder, cache, registered, aborts, reply>>
  BY DEF OtherStatement, locals
<1>2. \A t \in Threads : (opened[t] \/ (holder = t /\ ~inTransaction[t] /\ txn = "none")) \in BOOLEAN
  OBVIOUS
<1>3. Shape'
  BY <1>1, <1>2 DEF Shape
<1>4. CacheFits'
  BY <1>1 DEF CacheFits
<1>5. ASSUME NEW t \in Threads PROVE Fits(t)'
  <2>1. CallFits(t)' /\ ReplyFits(t)'
    BY <1>1, <1>5 DEF Fits, CallFits, ReplyFits, Locked, Sql
  <2>2. opened'[t] <=> opened[t] \/ (holder = t /\ ~inTransaction[t] /\ txn = "none")
    BY <1>1
  <2>3. AbortFits(t)'
    <3>1. Fetching(t) => holder = t
      BY DEF Fits, CallFits, Locked, Fetching
    <3>2. Fetching(t) /\ ~inTransaction[t] => opened'[t]
      BY <2>2, <3>1 DEF Fits, AbortFits
    <3>3. /\ pc[t] \in {"wait", "prepare", "describe", "answer"} => ~aborts[t]
          /\ pc[t] = "deallocate" /\ aborts[t] => described[t] = Failed
          /\ pc[t] = "idle" /\ aborts[t] /\ ~opened[t] => reply[t] = <<"error">>
      BY DEF Fits, AbortFits
    <3> QED
      BY <1>1, <2>2, <3>2, <3>3 DEF AbortFits, Fetching
  <2> QED
    BY <2>1, <2>3 DEF Fits
<1> QED
  BY <1>3, <1>4, <1>5

LEMMA DescribeInvStep == DescribeInv /\ [Next]_vars => DescribeInv'
<1> SUFFICES ASSUME DescribeInv, [Next]_vars PROVE DescribeInv'
  OBVIOUS
<1>1. ASSUME NEW t \in Threads, NEW sql \in Sqls, NEW number \in 0..MaxNumber,
             Describe(t, sql, number)
      PROVE  DescribeInv'
  BY <1>1, DescribeKeeps
<1>2. ASSUME NEW t \in Threads, Lock(t) PROVE DescribeInv'
  BY <1>2, LockKeeps
<1>3. ASSUME NEW t \in Threads, Step(t) PROVE DescribeInv'
  BY <1>3, PrepareKeeps, DescribeInputKeeps, DeallocateKeeps, AnswerKeeps DEF Step
<1>4. CASE OtherStatement
  BY <1>4, OtherStatementKeeps
<1>5. CASE UNCHANGED vars
  BY <1>5 DEF vars, locals, DescribeInv, Shape, CacheFits, Fits, CallFits, ReplyFits, AbortFits,
              Locked, Fetching, Sql
<1> QED
  BY <1>1, <1>2, <1>3, <1>4, <1>5 DEF Next

LEMMA DescribeInvHolds == Spec => []DescribeInv
BY DescribeInvInit, DescribeInvStep, PTL DEF Spec
-----------------------------------------------------------------------------
(* The theorems.                                                            *)

\* For any threads and statements, what is cached and what is answered are the
\* types of a statement's own parameters (CachedParams, describe_param).
THEOREM TypeCorrect == Spec => []TypeOK
<1>1. DescribeInv => TypeOK
  <2> SUFFICES ASSUME DescribeInv PROVE TypeOK
    OBVIOUS
  <2> USE DEF DescribeInv
  <2>1. described \in [Threads -> {Failed} \union
                                  UNION {{Described(p) : p \in ParamsOf(sql)} : sql \in Sqls}]
    BY DEF Shape, Results
  <2>2. cache \in {Nothing} \union UNION {[sql : {sql}, params : ParamsOf(sql)] : sql \in Sqls}
    <3>1. CASE cache = Nothing
      BY <3>1
    <3>2. CASE \E sql \in Sqls : \E params \in ParamsOf(sql) : cache = [sql |-> sql, params |-> params]
      <4>1. PICK sql \in Sqls : \E params \in ParamsOf(sql) : cache = [sql |-> sql, params |-> params]
        BY <3>2
      <4>2. cache \in [sql : {sql}, params : ParamsOf(sql)]
        BY <4>1
      <4> QED
        BY <4>2
    <3> QED
      BY <3>1, <3>2 DEF CacheFits
  <2> QED
    BY <2>1, <2>2 DEF TypeOK, Shape
<1> QED
  BY <1>1, DescribeInvHolds, PTL

\* Whoever asks about a parameter is told that parameter's type: for any number of
\* threads, any statements, any order of the rows of DESCRIBE INPUT and any
\* leftover under the name (describe_param, describe_input_rows_to_params).
THEOREM AnswersFitQuestions == Spec => []AnswerFitsQuestion
<1>1. DescribeInv => AnswerFitsQuestion
  BY DEF DescribeInv, Fits, ReplyFits, AnswerFitsQuestion
<1> QED
  BY <1>1, DescribeInvHolds, PTL

\* Whatever other calls do to the transaction, a description that aborted one it
\* found says so (describe_param's two error arms).
THEOREM AbortsReported == Spec => []AbortIsReported
<1>1. DescribeInv => AbortIsReported
  BY DEF DescribeInv, Fits, AbortFits, AbortIsReported
<1> QED
  BY <1>1, DescribeInvHolds, PTL
=============================================================================
