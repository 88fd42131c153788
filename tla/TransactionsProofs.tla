------------------------- MODULE TransactionsProofs -------------------------
(***************************************************************************)
(* What holds of Transactions for any set of statement handles, any number *)
(* of transactions, serialised or not, with and without lost requests: its *)
(* types, that a settled transaction frees the session, that the abort     *)
(* flag never carries a verdict from before the transaction, and that the  *)
(* connection implements TxnContract.                                      *)
(***************************************************************************)
EXTENDS Transactions, TLAPS

LEMMA NotEndingType == NotEnding \in [by : Enders, saw : BOOLEAN]
  BY DEF NotEnding, Enders

LEMMA AfterEndType == \A by \in Enders : AfterEnd[by] \in ConnSteps
  BY DEF AfterEnd, Enders, ConnSteps

\* What is known of the fields Release resets.
ResultSetType ==
  /\ cursor \in [Stmts -> {"closed", "open"}]
  /\ cancelled \in [Stmts -> BOOLEAN]
  /\ query \in [Stmts -> QueryStatus]
  /\ stmtTxn \in [Stmts -> MaybeTxn]
  /\ stmtEpoch \in [Stmts -> Nat]

LEMMA ReleaseType ==
  ASSUME TypeOK, NEW s \in Stmts, Release(s)
  PROVE  ResultSetType'
BY DEF TypeOK, Release, ResultSetType, QueryStatus, MaybeTxn

\* The variables keep their types: Spec implies TypeOK at every step, whatever
\* the interleaving of the handles and the coordinator (TransactionState,
\* TrinoStatement and the coordinator's view).
THEOREM TypeCorrect == Spec => []TypeOK
<1>1. Init => TypeOK
  <2> SUFFICES ASSUME Init PROVE TypeOK
    OBVIOUS
  <2>1. ending \in [by : Enders, saw : BOOLEAN]
    BY NotEndingType DEF Init
  <2>2. /\ autocommit \in BOOLEAN /\ aborted \in BOOLEAN /\ epoch \in Nat
        /\ noted \in BOOLEAN
    BY DEF Init
  <2>3. /\ coord \in [Txns -> TxnStatus]
        /\ told \in [Txns -> Reports] /\ verdict \in [Txns -> Verdicts]
        /\ pc \in [Stmts -> StmtSteps] /\ connPc \in ConnSteps
    BY DEF Init, TxnStatus, Reports, Verdicts, StmtSteps, ConnSteps
  <2>4. ResultSetType /\ clientTxn \in MaybeTxn
    BY DEF Init, ResultSetType, QueryStatus, MaybeTxn
  <2> QED
    BY <2>1, <2>2, <2>3, <2>4 DEF TypeOK, ResultSetType
<1>2. TypeOK /\ [Next]_vars => TypeOK'
  <2> SUFFICES ASSUME TypeOK, [Next]_vars
               PROVE  TypeOK'
    OBVIOUS
  <2> USE DEF TypeOK, state, server, resultSet, handles, conn
  <2>1. ASSUME NEW s \in Stmts, ExecDirect(s) PROVE TypeOK'
    BY <2>1 DEF ExecDirect, StmtSteps
  <2>2. ASSUME NEW s \in Stmts, BeginTransaction(s) PROVE TypeOK'
    BY <2>2 DEF BeginTransaction, StmtSteps, TxnStatus, MaybeTxn
  <2>3. ASSUME NEW s \in Stmts, BeginTransactionFails(s) PROVE TypeOK'
    BY <2>3 DEF BeginTransactionFails, StmtSteps, TxnStatus
  <2>4. ASSUME NEW s \in Stmts, Begun(s) PROVE TypeOK'
    BY <2>4 DEF Begun, StmtSteps
  <2>5. ASSUME NEW s \in Stmts, Submit(s) PROVE TypeOK'
    BY <2>5 DEF Submit, StmtSteps, QueryStatus
  <2>6. ASSUME NEW s \in Stmts, SubmitFails(s) PROVE TypeOK'
    BY <2>6 DEF SubmitFails, LostRequest, Aborts, Heard, StmtSteps, TxnStatus, Verdicts
  <2>7. ASSUME NEW s \in Stmts, Register(s) PROVE TypeOK'
    BY <2>7 DEF Register, StmtSteps
  <2>8. ASSUME NEW s \in Stmts, NoteError(s) PROVE TypeOK'
    BY <2>8 DEF NoteError, NoteStatementError, note_statement_error, in_transaction, StmtSteps
  <2>9. ASSUME NEW s \in Stmts, QueryFails(s) PROVE TypeOK'
    BY <2>9 DEF QueryFails, Aborts, QueryStatus, TxnStatus, Verdicts
  <2>10. ASSUME NEW s \in Stmts, Fetch(s) PROVE TypeOK'
    BY <2>10 DEF Fetch, StmtSteps
  <2>11. ASSUME NEW s \in Stmts, PageArrives(s) PROVE TypeOK'
    <3>1. pc' \in [Stmts -> StmtSteps]
      BY <2>11 DEF PageArrives, StmtSteps
    <3>2. ResultSetType'
      <4>1. CASE Release(s)
        BY <4>1, ReleaseType
      <4>2. CASE UNCHANGED resultSet
        BY <4>2 DEF ResultSetType
      <4> QED
        BY <2>11, <4>1, <4>2 DEF PageArrives
    <3> QED
      BY <2>11, <3>1, <3>2 DEF PageArrives, ResultSetType
  <2>12. ASSUME NEW s \in Stmts, PageFails(s) PROVE TypeOK'
    BY <2>12 DEF PageFails, ResponseFails, LostRequest, Aborts, Heard, Release,
                 StmtSteps, QueryStatus, MaybeTxn, TxnStatus, Verdicts
  <2>13. ASSUME NEW s \in Stmts, CloseCursor(s) PROVE TypeOK'
    <3>1. pc' \in [Stmts -> StmtSteps]
      BY <2>13 DEF CloseCursor, StmtSteps
    <3>2. ResultSetType'
      <4>1. CASE Release(s)
        BY <4>1, ReleaseType
      <4>2. CASE UNCHANGED resultSet
        BY <4>2 DEF ResultSetType
      <4> QED
        BY <2>13, <4>1, <4>2 DEF CloseCursor
    <3> QED
      BY <2>13, <3>1, <3>2 DEF CloseCursor, ResultSetType
  <2>14. ASSUME NEW s \in Stmts, DrainEnds(s) PROVE TypeOK'
    BY <2>14 DEF DrainEnds, Aborts, Release,
                 StmtSteps, QueryStatus, MaybeTxn, TxnStatus, Verdicts
  <2>15. ASSUME NEW s \in Stmts, DrainFails(s) PROVE TypeOK'
    BY <2>15 DEF DrainFails, ResponseFails, LostRequest, Aborts, Heard, Release,
                 StmtSteps, QueryStatus, MaybeTxn, TxnStatus, Verdicts
  <2>16. ASSUME NEW s \in Stmts, Cancel(s) PROVE TypeOK'
    BY <2>16 DEF Cancel, Aborts, QueryStatus, TxnStatus, Verdicts
  <2>17. ASSUME NEW s \in Stmts, FetchCancelled(s) PROVE TypeOK'
    BY <2>17 DEF FetchCancelled, Release, QueryStatus, MaybeTxn
  <2>18. ASSUME NEW s \in Stmts, SubmitYieldsNothing(s) PROVE TypeOK'
    BY <2>18 DEF SubmitYieldsNothing, StmtSteps
  <2>19. CASE CatalogFails
    BY <2>19 DEF CatalogFails, LostRequest, Aborts, Heard, ConnSteps, TxnStatus, Verdicts
  <2>20. CASE ConnNoteError
    BY <2>20 DEF ConnNoteError, NoteStatementError, note_statement_error, in_transaction, ConnSteps
  <2>21. CASE DescribeParam
    BY <2>21 DEF DescribeParam, ConnSteps
  <2>22. CASE Prepare
    BY <2>22 DEF Prepare, LostRequest, Aborts, ConnSteps, TxnStatus, Verdicts
  <2>23. CASE DescribeInput
    BY <2>23 DEF DescribeInput, LostRequest, Aborts, Heard, ConnSteps, TxnStatus, Verdicts
  <2>24. CASE Deallocate
    BY <2>24 DEF Deallocate, Aborts, ConnSteps, TxnStatus, Verdicts
  <2>25. ASSUME NEW by \in Enders \ {"none"}, EndTran(by) PROVE TypeOK'
    BY <2>25 DEF EndTran, ConnSteps
  <2>26. CASE EndNothing
    BY <2>26 DEF EndNothing
  <2>27. CASE Ends
    <3>1. epoch' \in Nat
      BY <2>27 DEF Ends
    <3>2. connPc' \in ConnSteps
      BY <2>27 DEF Ends, ConnSteps
    <3> QED
      BY <2>27, <3>1, <3>2, Zenon DEF Ends
  <2>28. CASE EndSucceeds
    <3>1. ending' \in [by : Enders, saw : BOOLEAN] /\ connPc' \in ConnSteps
      BY <2>28, NotEndingType, AfterEndType DEF EndSucceeds
    <3>2. coord' \in [Txns -> TxnStatus] /\ clientTxn' \in MaybeTxn
      BY <2>28 DEF EndSucceeds, Result, TxnStatus, MaybeTxn
    <3>3. told' \in [Txns -> Reports] /\ verdict' \in [Txns -> Verdicts]
      BY <2>28 DEF EndSucceeds, Tell, Result, Reports, Verdicts
    <3> QED
      BY <2>28, <3>1, <3>2, <3>3 DEF EndSucceeds
  <2>29. CASE EndFails
    <3>1. ending' \in [by : Enders, saw : BOOLEAN] /\ connPc' \in ConnSteps
      BY <2>29, NotEndingType, AfterEndType DEF EndFails
    <3>2. coord' \in [Txns -> TxnStatus] /\ clientTxn' \in MaybeTxn
      BY <2>29 DEF EndFails, Result, TxnStatus, MaybeTxn
    <3>3. told' \in [Txns -> Reports] /\ verdict' \in [Txns -> Verdicts]
      BY <2>29 DEF EndFails, Tell, Result, Reports, Verdicts
    <3> QED
      BY <2>29, <3>1, <3>2, <3>3 DEF EndFails
  <2>30. CASE RecordMode
    BY <2>30 DEF RecordMode, ConnSteps
  <2>31. ASSUME NEW enabled \in BOOLEAN, SetAutocommit(enabled) PROVE TypeOK'
    BY <2>31 DEF SetAutocommit
  <2>32. CASE Disconnect
    BY <2>32 DEF Disconnect, ConnSteps
  <2>33. ASSUME NEW t \in Txns, IdleTimeout(t) PROVE TypeOK'
    BY <2>33 DEF IdleTimeout, TxnStatus
  <2>34. CASE UNCHANGED vars
    BY <2>34 DEF vars
  <2> QED
    BY <2>1, <2>2, <2>3, <2>4, <2>5, <2>6, <2>7, <2>8, <2>9, <2>10, <2>11, <2>12,
       <2>13, <2>14, <2>15, <2>16, <2>17, <2>18, <2>19, <2>20, <2>21, <2>22, <2>23,
       <2>24, <2>25, <2>26, <2>27, <2>28, <2>29, <2>30, <2>31, <2>32, <2>33, <2>34
    DEF Next, StmtStep, ConnStep
<1> QED
  BY <1>1, <1>2, PTL DEF Spec
-----------------------------------------------------------------------------
(* The steps seen from the session: most leave it alone but for a failure   *)
(* of a transaction that was active.                                        *)

OnlyFails ==
  \A t \in Txns : \/ coord'[t] = coord[t]
                  \/ coord[t] = "active" /\ coord'[t] = "failed"

InternalStep ==
  /\ UNCHANGED <<told, clientTxn>>
  /\ OnlyFails
  /\ connPc' \in {"read", "wire"} => connPc \in {"read", "wire"} \/ in_transaction

SessionStep ==
  \/ InternalStep
  \/ \E s \in Stmts : BeginTransaction(s) \/ BeginTransactionFails(s)
  \/ \E t \in Txns : IdleTimeout(t)
  \/ EndSucceeds \/ EndFails

LEMMA AbortsOnlyFails ==
  ASSUME TypeOK, NEW t, NEW why, Aborts(t, why)
  PROVE  OnlyFails
BY DEF TypeOK, Aborts, OnlyFails

LEMMA LostOnlyFails ==
  ASSUME TypeOK, NEW t, NEW why, LostRequest(t, why)
  PROVE  OnlyFails
BY AbortsOnlyFails DEF LostRequest, server, OnlyFails

LEMMA StepsOfSession ==
  ASSUME TypeOK, [Next]_vars
  PROVE  SessionStep
<1> USE DEF state, server, resultSet, handles, conn
<1>1. ASSUME UNCHANGED <<told, clientTxn, coord>>,
             connPc' \notin {"read", "wire"} \/ connPc' = connPc \/ in_transaction
                \/ connPc = "read"
      PROVE  SessionStep
  BY <1>1, Zenon DEF SessionStep, InternalStep, OnlyFails
<1>2. ASSUME UNCHANGED <<told, clientTxn>>, OnlyFails,
             connPc' \notin {"read", "wire"} \/ connPc' = connPc
      PROVE  SessionStep
  BY <1>2, Zenon DEF SessionStep, InternalStep
<1>3. ASSUME NEW s \in Stmts, StmtStep(s)
      PROVE  SessionStep
  <2>1. CASE ExecDirect(s) \/ Begun(s) \/ Submit(s) \/ Register(s) \/ NoteError(s)
             \/ Fetch(s) \/ PageArrives(s) \/ CloseCursor(s) \/ FetchCancelled(s)
             \/ SubmitYieldsNothing(s)
    BY <2>1, <1>1 DEF ExecDirect, Begun, Submit, Register, NoteError, Fetch, PageArrives,
                      CloseCursor, FetchCancelled, SubmitYieldsNothing
  <2>2. CASE BeginTransaction(s) \/ BeginTransactionFails(s)
    BY <2>2 DEF SessionStep
  <2>3. CASE SubmitFails(s)
    BY <2>3, <1>2, AbortsOnlyFails, LostOnlyFails DEF SubmitFails
  <2>4. CASE QueryFails(s) \/ Cancel(s)
    <3>1. OnlyFails
      BY <2>4, AbortsOnlyFails DEF QueryFails, Cancel, OnlyFails
    <3> QED
      BY <2>4, <3>1, <1>2 DEF QueryFails, Cancel
  <2>5. CASE PageFails(s) \/ DrainFails(s)
    <3>1. OnlyFails
      BY <2>5, AbortsOnlyFails, LostOnlyFails DEF PageFails, DrainFails, ResponseFails
    <3> QED
      BY <2>5, <3>1, <1>2 DEF PageFails, DrainFails
  <2>6. CASE DrainEnds(s)
    <3>1. OnlyFails
      BY <2>6, AbortsOnlyFails DEF DrainEnds, OnlyFails
    <3> QED
      BY <2>6, <3>1, <1>2 DEF DrainEnds
  <2> QED
    BY <1>3, <2>1, <2>2, <2>3, <2>4, <2>5, <2>6 DEF StmtStep
<1>4. CASE ConnStep
  <2>1. CASE CatalogFails
    BY <2>1, <1>2, AbortsOnlyFails, LostOnlyFails DEF CatalogFails
  <2>2. CASE ConnNoteError \/ DescribeParam \/ EndNothing \/ Ends \/ RecordMode \/ Disconnect
    BY <2>2, <1>1 DEF ConnNoteError, DescribeParam, EndNothing, Ends, RecordMode, Disconnect
  <2>3. CASE Prepare \/ DescribeInput \/ Deallocate
    <3>1. OnlyFails
      BY <2>3, AbortsOnlyFails, LostOnlyFails DEF Prepare, DescribeInput, Deallocate, OnlyFails
    <3> QED
      BY <2>3, <3>1, <1>2 DEF Prepare, DescribeInput, Deallocate
  <2>4. CASE \E by \in Enders \ {"none"} : EndTran(by)
    BY <2>4, <1>1 DEF EndTran
  <2>5. CASE \E enabled \in BOOLEAN : SetAutocommit(enabled)
    BY <2>5, <1>1 DEF SetAutocommit
  <2>6. CASE EndSucceeds \/ EndFails
    BY <2>6 DEF SessionStep
  <2> QED
    BY <1>4, <2>1, <2>2, <2>3, <2>4, <2>5, <2>6 DEF ConnStep
<1>5. CASE \E t \in Txns : IdleTimeout(t)
  BY <1>5 DEF SessionStep
<1>6. CASE UNCHANGED vars
  BY <1>6, <1>1 DEF vars
<1> QED
  BY <1>3, <1>4, <1>5, <1>6 DEF Next
-----------------------------------------------------------------------------
(* The session invariant.                                                   *)

\* SettledFreesSession, and what carries it from step to step: an id nobody
\* was given has no report, the id the client holds was given out, and only a
\* session that holds one is inside end_tran.
SessionInv ==
  /\ SettledFreesSession
  /\ \A t \in Txns : coord[t] = "unused" => told[t] = "nothing"
  /\ in_transaction => coord[clientTxn] # "unused"
  /\ connPc \in {"read", "wire"} => in_transaction

LEMMA SessionInvStep ==
  ASSUME TypeOK, SessionInv, [Next]_vars
  PROVE  SessionInv'
<1> USE DEF TypeOK, MaybeTxn, SessionInv, SettledFreesSession, in_transaction
<1> SessionStep
  BY StepsOfSession
<1>1. CASE InternalStep
  BY <1>1 DEF InternalStep, OnlyFails
<1>2. ASSUME NEW s \in Stmts, BeginTransaction(s) PROVE SessionInv'
  BY <1>2, NoTxnAssumption DEF BeginTransaction, conn
<1>3. ASSUME NEW s \in Stmts, BeginTransactionFails(s) PROVE SessionInv'
  BY <1>3 DEF BeginTransactionFails, conn
<1>4. ASSUME NEW t \in Txns, IdleTimeout(t) PROVE SessionInv'
  BY <1>4 DEF IdleTimeout, conn
<1>5. CASE EndSucceeds
  <2>1. connPc' \notin {"read", "wire"} /\ clientTxn' = NoTxn
    BY <1>5 DEF EndSucceeds, AfterEnd, Enders
  <2>2. \A t \in Txns : coord'[t] = "unused" => told'[t] = "nothing"
    BY <1>5 DEF EndSucceeds, Tell, Result
  <2> QED
    BY <2>1, <2>2
<1>6. CASE EndFails
  <2>1. connPc' \notin {"read", "wire"}
    BY <1>6 DEF EndFails, AfterEnd, Enders
  <2>2. coord[clientTxn] # "unused" /\ clientTxn \in Txns
    BY <1>6 DEF EndFails
  <2>3. \A t \in Txns : coord'[t] = "unused" => coord[t] = "unused" /\ t # clientTxn
    BY <1>6, <2>2 DEF EndFails, Result
  <2>4. \A t \in Txns : coord'[t] = "unused" => told'[t] = "nothing"
    BY <1>6, <2>3 DEF EndFails, Tell
  <2>5. clientTxn' # NoTxn => clientTxn' = clientTxn /\ told'[clientTxn] \in {"nothing", "error"}
    BY <1>6, <2>2 DEF EndFails, Tell
  <2> QED
    BY <2>1, <2>2, <2>3, <2>4, <2>5
<1> QED
  BY <1>1, <1>2, <1>3, <1>4, <1>5, <1>6 DEF SessionStep

THEOREM SessionInvariant == Spec => []SessionInv
<1>1. Init => SessionInv
  BY DEF Init, SessionInv, SettledFreesSession, in_transaction
<1>2. TypeOK /\ SessionInv /\ [Next]_vars => SessionInv'
  BY SessionInvStep
<1> QED
  BY <1>1, <1>2, TypeCorrect, PTL DEF Spec

\* An end the application was told of frees the session, for any number of
\* handles and transactions (end_tran).
THEOREM SettledSessionIsFree == Spec => []SettledFreesSession
<1>1. SessionInv => SettledFreesSession
  BY DEF SessionInv
<1> QED
  BY <1>1, SessionInvariant, PTL
-----------------------------------------------------------------------------
(* The connection implements TxnContract.                                   *)

outcome == [t \in Txns |-> Outcome(t)]

\* Outcome, by cases, now and after a step.
LEMMA OutcomeCases ==
  ASSUME TypeOK, TypeOK', NEW t \in Txns
  PROVE  /\ outcome[t] \in {"unused", "open", "committed", "rolledback"}
         /\ outcome[t] = "unused" <=> coord[t] = "unused"
         /\ outcome[t] = "open" <=> coord[t] \in {"active", "failed"}
         /\ coord[t] \in {"committed", "rolledback"} => outcome[t] = coord[t]
         /\ coord[t] = "expired" => outcome[t] = "rolledback"
         /\ coord'[t] = coord[t] => outcome'[t] = outcome[t]
         /\ coord'[t] \in {"active", "failed"} => outcome'[t] = "open"
         /\ coord'[t] \in {"committed", "rolledback"} => outcome'[t] = coord'[t]
         /\ coord'[t] = "expired" => outcome'[t] = "rolledback"
BY DEF TypeOK, TxnStatus, outcome, Outcome

LEMMA OutcomeStays ==
  ASSUME TypeOK, TypeOK', OnlyFails
  PROVE  UNCHANGED outcome
<1>1. \A t \in Txns : outcome'[t] = outcome[t]
  BY OutcomeCases DEF OnlyFails
<1> QED
  BY <1>1 DEF outcome

\* A step that changes one entry of coord changes one entry of the outcome.
LEMMA OutcomeMoves ==
  ASSUME TypeOK, TypeOK', NEW u \in Txns, NEW status,
         coord' = [coord EXCEPT ![u] = status]
  PROVE  outcome' = [outcome EXCEPT ![u] = outcome'[u]]
<1>1. \A t \in Txns : t # u => outcome'[t] = outcome[t]
  BY OutcomeCases DEF TypeOK
<1> QED
  BY <1>1 DEF outcome

LEMMA ContractInit == Init => Contract!Init
BY DEF Init, Contract!Init, Outcome

LEMMA ContractStep ==
  ASSUME TypeOK, TypeOK', SessionInv, [Next]_vars
  PROVE  [Contract!Next]_(Contract!vars)
<1> SUFFICES ASSUME ~ UNCHANGED <<outcome, told>>
             PROVE  \E t \in Txns : Contract!Open(t) \/ Contract!Resolve(t) \/ Contract!Answer(t)
  BY DEF Contract!Next, Contract!vars, outcome
<1> SessionStep
  BY StepsOfSession
<1> USE DEF TypeOK, MaybeTxn
<1>1. CASE InternalStep
  BY <1>1, OutcomeStays DEF InternalStep
<1>2. ASSUME NEW s \in Stmts, BeginTransaction(s) \/ BeginTransactionFails(s)
      PROVE  \E t \in Txns : Contract!Open(t)
  <2>1. coord' # coord /\ UNCHANGED told
    BY <1>2 DEF BeginTransaction, BeginTransactionFails, outcome, Outcome
  <2>2. PICK t \in Txns : coord[t] = "unused" /\ coord' = [coord EXCEPT ![t] = "active"]
    BY <1>2, <2>1 DEF BeginTransaction, BeginTransactionFails
  <2>3. outcome[t] = "unused" /\ outcome' = [outcome EXCEPT ![t] = "open"]
    <3>1. outcome[t] = "unused" /\ outcome'[t] = "open"
      BY <2>2, OutcomeCases
    <3>2. outcome' = [outcome EXCEPT ![t] = outcome'[t]]
      BY <2>2, OutcomeMoves
    <3> QED
      BY <3>1, <3>2
  <2> QED
    BY <2>1, <2>3 DEF Contract!Open, outcome
<1>3. ASSUME NEW t \in Txns, IdleTimeout(t)
      PROVE  Contract!Resolve(t)
  <2>1. coord[t] \in {"active", "failed"} /\ coord' = [coord EXCEPT ![t] = "expired"]
    BY <1>3 DEF IdleTimeout
  <2>2. outcome[t] = "open" /\ outcome' = [outcome EXCEPT ![t] = "rolledback"]
    <3>1. outcome[t] = "open" /\ outcome'[t] = "rolledback"
      BY <2>1, OutcomeCases
    <3>2. outcome' = [outcome EXCEPT ![t] = outcome'[t]]
      BY <2>1, OutcomeMoves
    <3> QED
      BY <3>1, <3>2
  <2> QED
    BY <1>3, <2>2 DEF Contract!Resolve, outcome, IdleTimeout
<1>4. CASE EndSucceeds \/ EndFails
  <2>1. /\ clientTxn \in Txns /\ told[clientTxn] \in {"nothing", "error"}
        /\ outcome[clientTxn] # "unused"
    BY <1>4, OutcomeCases DEF EndSucceeds, EndFails, SessionInv, SettledFreesSession, in_transaction
  <2>2. /\ outcome' = [outcome EXCEPT ![clientTxn] = outcome'[clientTxn]]
        /\ \/ outcome'[clientTxn] = outcome[clientTxn]
           \/ outcome[clientTxn] = "open" /\ outcome'[clientTxn] \in {"committed", "rolledback"}
    <3>1. CASE UNCHANGED coord
      BY <3>1, <2>1 DEF outcome, Outcome
    <3>2. ASSUME NEW result \in {"committed", "rolledback"}, EndServed,
                 coord' = [coord EXCEPT ![clientTxn] = result]
          PROVE  /\ outcome' = [outcome EXCEPT ![clientTxn] = outcome'[clientTxn]]
                 /\ outcome[clientTxn] = "open" /\ outcome'[clientTxn] \in {"committed", "rolledback"}
      <4>1. outcome[clientTxn] = "open" /\ outcome'[clientTxn] = result
        BY <3>2, <2>1, OutcomeCases DEF EndServed
      <4> QED
        BY <3>2, <4>1, <2>1, OutcomeMoves
    <3> QED
      BY <1>4, <3>1, <3>2 DEF EndSucceeds, EndFails, Result
  <2>3. PICK report \in Reports \ {"nothing"} :
          /\ Tell(report)
          /\ ending.by = "disconnect" \/ Contract!Honest(report, outcome'[clientTxn])
    <3>1. CASE EndSucceeds
      <4>1. outcome'[clientTxn] = Result
        BY <3>1, <2>1, OutcomeCases DEF EndSucceeds, Result
      <4> DEFINE report == IF AsksCommit /\ ending.saw THEN "25S03" ELSE Result
      <4>2. Contract!Honest(report, Result) /\ report \in Reports \ {"nothing"}
        BY DEF Contract!Honest, Result, SendsCommit, Reports
      <4> QED
        BY <3>1, <4>1, <4>2 DEF EndSucceeds
    <3>2. CASE EndFails
      BY <3>2 DEF EndFails, Contract!Honest, Reports
    <3> QED
      BY <1>4, <3>1, <3>2
  <2>4. CASE ending.by = "disconnect"
    <3>1. UNCHANGED told /\ outcome' # outcome
      BY <2>3, <2>4 DEF Tell
    <3>2. outcome[clientTxn] = "open"
      BY <2>1, <2>2, <3>1 DEF outcome
    <3> QED
      BY <2>1, <2>2, <3>1, <3>2 DEF Contract!Resolve, outcome
  <2>5. CASE ending.by # "disconnect"
    <3>1. told' = [told EXCEPT ![clientTxn] = report]
      BY <2>3, <2>5 DEF Tell
    <3>2. Contract!Honest(report, outcome'[clientTxn])
      BY <2>3, <2>5
    <3>3. Contract!Answer(clientTxn)
      BY <2>1, <2>2, <3>1, <3>2 DEF Contract!Answer, Contract!Settles, Contract!Reports, Reports, outcome
    <3> QED
      BY <2>1, <3>3
  <2> QED
    BY <2>4, <2>5
<1> QED
  BY <1>1, <1>2, <1>3, <1>4 DEF SessionStep

\* Whatever SQLEndTran answers is true and is never taken back: the connection
\* implements the contract, serialised or not (end_tran, set_autocommit).
THEOREM TransactionsImplementContract == Spec => ImplementsContract
<1>1. Init => Contract!Init
  BY ContractInit
<1>2. TypeOK /\ TypeOK' /\ SessionInv /\ [Next]_vars => [Contract!Next]_(Contract!vars)
  BY ContractStep
<1> QED
  BY <1>1, <1>2, TypeCorrect, SessionInvariant, PTL DEF Spec, ImplementsContract, Contract!Spec
-----------------------------------------------------------------------------
(* The abort flag is about the open transaction.                            *)

LEMMA VerdictStep ==
  ASSUME TypeOK, NoInheritedVerdict, [Next]_vars
  PROVE  NoInheritedVerdict'
<1> USE DEF TypeOK, NoInheritedVerdict, in_transaction, state, server, resultSet, handles, conn
<1>1. ASSUME UNCHANGED <<clientTxn, noted, aborted>>,
             \A s \in Stmts : pc[s] = "begun" => pc'[s] = "begun"
      PROVE  NoInheritedVerdict'
  BY <1>1
<1>2. ASSUME NEW s \in Stmts, StmtStep(s) PROVE NoInheritedVerdict'
  <2>1. CASE ExecDirect(s) \/ BeginTransactionFails(s) \/ Submit(s) \/ SubmitFails(s)
             \/ Register(s) \/ QueryFails(s) \/ Fetch(s) \/ PageArrives(s) \/ PageFails(s)
             \/ CloseCursor(s) \/ DrainEnds(s) \/ DrainFails(s) \/ Cancel(s)
             \/ FetchCancelled(s) \/ SubmitYieldsNothing(s)
    BY <2>1, <1>1 DEF ExecDirect, BeginTransactionFails, Submit, SubmitFails, Register,
         QueryFails, Fetch, PageArrives, PageFails, CloseCursor, DrainEnds, DrainFails,
         Cancel, FetchCancelled, SubmitYieldsNothing, StmtMayStart
  <2>2. CASE BeginTransaction(s)
    BY <2>2 DEF BeginTransaction
  <2>3. CASE Begun(s)
    BY <2>3 DEF Begun
  <2>4. CASE NoteError(s)
    BY <2>4 DEF NoteError, NoteStatementError, note_statement_error
  <2> QED
    BY <1>2, <2>1, <2>2, <2>3, <2>4 DEF StmtStep
<1>3. CASE ConnStep
  <2>1. CASE CatalogFails \/ DescribeParam \/ Prepare \/ DescribeInput \/ Deallocate
             \/ RecordMode \/ Disconnect \/ (\E by \in Enders \ {"none"} : EndTran(by))
             \/ (\E enabled \in BOOLEAN : SetAutocommit(enabled))
    BY <2>1, <1>1 DEF CatalogFails, DescribeParam, Prepare, DescribeInput, Deallocate,
         RecordMode, Disconnect, EndTran, SetAutocommit
  <2>2. CASE ConnNoteError
    BY <2>2 DEF ConnNoteError, NoteStatementError, note_statement_error
  <2>3. CASE EndNothing \/ Ends
    BY <2>3 DEF EndNothing, Ends
  <2>4. CASE EndSucceeds \/ EndFails
    BY <2>4 DEF EndSucceeds, EndFails
  <2> QED
    BY <1>3, <2>1, <2>2, <2>3, <2>4 DEF ConnStep
<1>4. CASE \E t \in Txns : IdleTimeout(t)
  BY <1>4, <1>1 DEF IdleTimeout
<1>5. CASE UNCHANGED vars
  BY <1>5, <1>1 DEF vars
<1> QED
  BY <1>2, <1>3, <1>4, <1>5 DEF Next

\* The open transaction is marked aborted only by an error noted while it was
\* the open one, whatever runs concurrently (TransactionState::begun).
THEOREM VerdictIsNotInherited == Spec => []NoInheritedVerdict
<1>1. Init => NoInheritedVerdict
  BY DEF Init, NoInheritedVerdict
<1>2. TypeOK /\ NoInheritedVerdict /\ [Next]_vars => NoInheritedVerdict'
  BY VerdictStep
<1> QED
  BY <1>1, <1>2, TypeCorrect, PTL DEF Spec
-----------------------------------------------------------------------------
(* Disconnecting, when no request is lost.                                  *)

\* What is open on the coordinator is what the client holds, and a connection
\* that is closing or closed opens nothing more.
TeardownInv ==
  /\ \A t \in Txns : coord[t] \in {"active", "failed"} => clientTxn = t
  /\ connPc = "closed" \/ (connPc \in {"read", "wire"} /\ ending.by = "disconnect")
     => \A s \in Stmts : pc[s] # "begin"
  /\ DisconnectLeavesNothing

LEMMA TeardownInvStep ==
  ASSUME Faults = FALSE, TypeOK, SessionInv, TeardownInv, [Next]_vars
  PROVE  TeardownInv'
<1> USE DEF TypeOK, MaybeTxn, TeardownInv, DisconnectLeavesNothing, in_transaction,
        state, server, resultSet, handles, conn
<1>1. ASSUME UNCHANGED <<clientTxn, connPc, ending>>, OnlyFails,
             \A s \in Stmts : pc'[s] = "begin" => pc[s] = "begin"
      PROVE  TeardownInv'
  BY <1>1 DEF OnlyFails
<1>2. ASSUME UNCHANGED <<clientTxn, pc, ending>>, OnlyFails,
             connPc' \notin {"read", "wire", "closed"}
      PROVE  TeardownInv'
  BY <1>2 DEF OnlyFails
<1>3. ASSUME NEW s \in Stmts, StmtStep(s) PROVE TeardownInv'
  <2>1. CASE ExecDirect(s)
    BY <2>1 DEF ExecDirect, StmtMayStart, SessionInv
  <2>2. CASE BeginTransaction(s)
    BY <2>2, NoTxnAssumption DEF BeginTransaction
  <2>3. CASE BeginTransactionFails(s)
    BY <2>3 DEF BeginTransactionFails
  <2>4. CASE Begun(s) \/ Submit(s) \/ Register(s) \/ NoteError(s) \/ Fetch(s)
             \/ PageArrives(s) \/ CloseCursor(s) \/ FetchCancelled(s) \/ SubmitYieldsNothing(s)
    <3>1. OnlyFails
      BY <2>4 DEF OnlyFails, Begun, Submit, Register, NoteError, Fetch, PageArrives,
           CloseCursor, FetchCancelled, SubmitYieldsNothing
    <3> QED
      BY <2>4, <3>1, <1>1 DEF Begun, Submit, Register, NoteError, Fetch, PageArrives,
         CloseCursor, FetchCancelled, SubmitYieldsNothing
  <2>5. CASE SubmitFails(s) \/ QueryFails(s) \/ PageFails(s) \/ DrainEnds(s) \/ DrainFails(s)
             \/ Cancel(s)
    <3>1. OnlyFails
      BY <2>5, AbortsOnlyFails, LostOnlyFails
      DEF OnlyFails, SubmitFails, QueryFails, PageFails, DrainEnds, DrainFails,
          ResponseFails, Cancel
    <3> QED
      BY <2>5, <3>1, <1>1 DEF SubmitFails, QueryFails, PageFails, DrainEnds, DrainFails, Cancel
  <2> QED
    BY <1>3, <2>1, <2>2, <2>3, <2>4, <2>5 DEF StmtStep
<1>4. CASE ConnStep
  <2>1. CASE CatalogFails \/ Prepare \/ DescribeInput \/ Deallocate
             \/ ConnNoteError \/ DescribeParam \/ RecordMode
    <3>1. OnlyFails
      BY <2>1, AbortsOnlyFails, LostOnlyFails
      DEF OnlyFails, CatalogFails, Prepare, DescribeInput, Deallocate, ConnNoteError,
          DescribeParam, RecordMode
    <3> QED
      BY <2>1, <3>1, <1>2
      DEF CatalogFails, Prepare, DescribeInput, Deallocate, ConnNoteError, DescribeParam, RecordMode
  <2>2. ASSUME NEW by \in Enders \ {"none"}, EndTran(by) PROVE TeardownInv'
    BY <2>2 DEF EndTran
  <2>3. CASE EndNothing \/ (\E enabled \in BOOLEAN : SetAutocommit(enabled))
    BY <2>3 DEF EndNothing, SetAutocommit
  <2>4. CASE Ends
    BY <2>4 DEF Ends
  <2>5. CASE EndSucceeds
    BY <2>5 DEF EndSucceeds, EndServed, Result, AfterEnd, Enders
  <2>6. CASE EndFails
    <3>1. UNCHANGED <<coord, pc>> /\ ~ EndServed /\ in_transaction
      BY <2>6 DEF EndFails, SessionInv
    <3>2. \A t \in Txns : coord'[t] \in {"active", "failed"} => clientTxn' = t
      BY <2>6, <3>1 DEF EndFails, Ended
    <3>3. CASE ending.by = "disconnect"
      <4>1. coord[clientTxn] \notin {"active", "failed"}
        BY <3>1, <3>3 DEF EndServed, SendsCommit, AsksCommit
      <4>2. \A s \in Stmts : pc'[s] # "begin"
        BY <2>6, <3>1, <3>3 DEF EndFails
      <4>3. \A t \in Txns : coord'[t] \notin {"active", "failed"}
        BY <3>1, <4>1
      <4> QED
        BY <3>2, <4>2, <4>3
    <3>4. CASE ending.by # "disconnect"
      <4>1. connPc' \notin {"read", "wire", "closed"}
        BY <2>6, <3>4 DEF EndFails, AfterEnd, Enders
      <4> QED
        BY <3>2, <4>1
    <3> QED
      BY <3>3, <3>4
  <2>7. CASE Disconnect
    BY <2>7, NoTxnAssumption DEF Disconnect
  <2> QED
    BY <1>4, <2>1, <2>2, <2>3, <2>4, <2>5, <2>6, <2>7 DEF ConnStep
<1>5. CASE \E t \in Txns : IdleTimeout(t)
  BY <1>5 DEF IdleTimeout
<1>6. CASE UNCHANGED vars
  BY <1>6, <1>1 DEF vars, OnlyFails
<1> QED
  BY <1>3, <1>4, <1>5, <1>6 DEF Next

\* When no request is lost, SQLDisconnect leaves nothing open on the
\* coordinator, for any interleaving (disconnect).
THEOREM DisconnectIsClean ==
  ASSUME Faults = FALSE
  PROVE  Spec => []DisconnectLeavesNothing
<1>1. Init => TeardownInv
  BY DEF Init, TeardownInv, DisconnectLeavesNothing
<1>2. TypeOK /\ SessionInv /\ TeardownInv /\ [Next]_vars => TeardownInv'
  BY TeardownInvStep
<1>3. TeardownInv => DisconnectLeavesNothing
  BY DEF TeardownInv
<1> QED
  BY <1>1, <1>2, <1>3, TypeCorrect, SessionInvariant, PTL DEF Spec
-----------------------------------------------------------------------------
(* One call of the connection at a time.                                    *)

Exclusive ==
  /\ \A s \in Stmts : pc[s] # "idle" => connPc = "idle"
  /\ \A s, u \in Stmts : pc[s] # "idle" /\ pc[u] # "idle" => s = u

LEMMA ExclusiveStep ==
  ASSUME Serialised = TRUE, TypeOK, Exclusive, [Next]_vars
  PROVE  Exclusive'
<1> USE DEF TypeOK, Exclusive, Quiet, state, server, resultSet, handles, conn
<1>1. ASSUME UNCHANGED connPc, \A s \in Stmts : pc'[s] # "idle" => pc[s] # "idle"
      PROVE  Exclusive'
  BY <1>1
<1>2. ASSUME NEW s \in Stmts, StmtStep(s) PROVE Exclusive'
  <2>1. CASE ExecDirect(s) \/ Fetch(s) \/ CloseCursor(s)
    BY <2>1 DEF ExecDirect, Fetch, CloseCursor, StmtMayStart
  <2>2. CASE ~ (ExecDirect(s) \/ Fetch(s) \/ CloseCursor(s))
    <3>1. UNCHANGED connPc
      BY <1>2, <2>2 DEF StmtStep, BeginTransaction, BeginTransactionFails, Begun, Submit,
         SubmitFails, Register, NoteError, QueryFails, PageArrives, PageFails, DrainEnds,
         DrainFails, Cancel, FetchCancelled, SubmitYieldsNothing
    <3>2. \A u \in Stmts : pc'[u] # "idle" => pc[u] # "idle"
      BY <1>2, <2>2 DEF StmtStep, BeginTransaction, BeginTransactionFails, Begun, Submit,
         SubmitFails, Register, NoteError, QueryFails, PageArrives, PageFails, DrainEnds,
         DrainFails, Cancel, FetchCancelled, SubmitYieldsNothing
    <3> QED
      BY <3>1, <3>2, <1>1
  <2> QED
    BY <2>1, <2>2
<1>3. CASE ConnStep
  <2>1. UNCHANGED pc
    BY <1>3 DEF ConnStep, CatalogFails, ConnNoteError, DescribeParam, Prepare, DescribeInput,
       Deallocate, EndTran, EndNothing, Ends, EndSucceeds, EndFails, RecordMode,
       SetAutocommit, Disconnect
  <2>2. Quiet \/ connPc # "idle" \/ UNCHANGED connPc
    BY <1>3 DEF ConnStep, CatalogFails, ConnNoteError, DescribeParam, Prepare, DescribeInput,
       Deallocate, EndTran, EndNothing, Ends, EndSucceeds, EndFails, RecordMode,
       SetAutocommit, Disconnect, ConnMayStart
  <2> QED
    BY <2>1, <2>2
<1>4. CASE \E t \in Txns : IdleTimeout(t)
  BY <1>4, <1>1 DEF IdleTimeout
<1>5. CASE UNCHANGED vars
  BY <1>5, <1>1 DEF vars
<1> QED
  BY <1>2, <1>3, <1>4, <1>5 DEF Next

THEOREM CallsAreExclusive ==
  ASSUME Serialised = TRUE
  PROVE  Spec => []Exclusive
<1>1. Init => Exclusive
  BY DEF Init, Exclusive
<1>2. TypeOK /\ Exclusive /\ [Next]_vars => Exclusive'
  BY ExclusiveStep
<1> QED
  BY <1>1, <1>2, TypeCorrect, PTL DEF Spec
-----------------------------------------------------------------------------
(* The epoch.                                                               *)

\* A result set whose epoch is current has not been committed or rolled back
\* under, and no epoch is ahead of the connection's: while the COMMIT or
\* ROLLBACK is out, every open result set is behind already.
EpochInv ==
  /\ \A s \in Stmts : stmtEpoch[s] <= epoch
  /\ connPc = "wire" => \A s \in Stmts : cursor[s] = "open" => stmtEpoch[s] # epoch
  /\ \A s \in Stmts :
       /\ stmtTxn[s] # NoTxn
       /\ (cursor[s] = "open" /\ stmtEpoch[s] = epoch) \/ pc[s] = "register"
       => coord[stmtTxn[s]] \notin {"unused", "committed", "rolledback"}

\* What a step may do without touching EpochInv: coord only fails or expires,
\* a result set is kept or let go.
KeepsEpochs ==
  /\ UNCHANGED epoch
  /\ connPc' = "wire" => connPc = "wire"
  /\ \A t \in Txns : coord'[t] = coord[t] \/ coord'[t] \in {"active", "failed", "expired"}
  /\ \A s \in Stmts : pc'[s] = "register" => pc[s] = "register"
  /\ \A s \in Stmts :
       \/ cursor'[s] = "closed" /\ stmtEpoch'[s] = 0 /\ pc'[s] # "register"
       \/ cursor'[s] = cursor[s] /\ stmtEpoch'[s] = stmtEpoch[s] /\ stmtTxn'[s] = stmtTxn[s]

LEMMA KeepsEpochInv ==
  ASSUME TypeOK, TypeOK', EpochInv, KeepsEpochs
  PROVE  EpochInv'
BY DEF TypeOK, MaybeTxn, EpochInv, KeepsEpochs

LEMMA EpochInvStep ==
  ASSUME Serialised = TRUE, TypeOK, TypeOK', Exclusive, SessionInv, EpochInv, [Next]_vars
  PROVE  EpochInv'
<1> USE DEF TypeOK, MaybeTxn, state, server, resultSet, handles, conn
<1>1. ASSUME OnlyFails
      PROVE  \A t \in Txns : coord'[t] = coord[t] \/ coord'[t] \in {"active", "failed", "expired"}
  BY <1>1 DEF OnlyFails
<1>2. ASSUME NEW s \in Stmts, StmtStep(s) PROVE EpochInv'
  <2>1. CASE ExecDirect(s) \/ BeginTransaction(s) \/ BeginTransactionFails(s) \/ Begun(s)
             \/ NoteError(s) \/ Fetch(s) \/ SubmitYieldsNothing(s)
    <3>1. KeepsEpochs
      BY <2>1 DEF KeepsEpochs, ExecDirect, BeginTransaction, BeginTransactionFails, Begun,
         NoteError, NoteStatementError, Fetch, SubmitYieldsNothing
    <3> QED
      BY <3>1, KeepsEpochInv
  <2>2. CASE SubmitFails(s) \/ QueryFails(s) \/ Cancel(s)
    <3>1. OnlyFails
      BY <2>2, AbortsOnlyFails, LostOnlyFails DEF OnlyFails, SubmitFails, QueryFails, Cancel
    <3>2. KeepsEpochs
      BY <2>2, <3>1, <1>1 DEF KeepsEpochs, SubmitFails, QueryFails, Cancel
    <3> QED
      BY <3>2, KeepsEpochInv
  <2>3. CASE PageArrives(s) \/ PageFails(s) \/ CloseCursor(s) \/ DrainEnds(s)
             \/ DrainFails(s) \/ FetchCancelled(s)
    <3>1. OnlyFails
      BY <2>3, AbortsOnlyFails, LostOnlyFails
      DEF OnlyFails, PageArrives, PageFails, CloseCursor, DrainEnds, DrainFails,
          FetchCancelled, ResponseFails
    <3>2. KeepsEpochs
      BY <2>3, <3>1, <1>1
      DEF KeepsEpochs, PageArrives, PageFails, CloseCursor, DrainEnds, DrainFails,
          FetchCancelled, Release, StmtMayStart
    <3> QED
      BY <3>2, KeepsEpochInv
  <2>4. CASE Submit(s)
    BY <2>4 DEF Submit, Serves, EpochInv, Exclusive
  <2>5. CASE Register(s)
    BY <2>5 DEF Register, EpochInv, Exclusive
  <2> QED
    BY <1>2, <2>1, <2>2, <2>3, <2>4, <2>5 DEF StmtStep
<1>3. CASE ConnStep
  <2>1. CASE CatalogFails \/ Prepare \/ DescribeInput \/ Deallocate
    <3>1. OnlyFails
      BY <2>1, AbortsOnlyFails, LostOnlyFails
      DEF OnlyFails, CatalogFails, Prepare, DescribeInput, Deallocate
    <3>2. KeepsEpochs
      BY <2>1, <3>1, <1>1 DEF KeepsEpochs, CatalogFails, Prepare, DescribeInput, Deallocate
    <3> QED
      BY <3>2, KeepsEpochInv
  <2>2. CASE ConnNoteError \/ DescribeParam \/ RecordMode \/ EndNothing \/ Disconnect
             \/ (\E by \in Enders \ {"none"} : EndTran(by))
             \/ (\E enabled \in BOOLEAN : SetAutocommit(enabled))
    <3>1. KeepsEpochs
      BY <2>2 DEF KeepsEpochs, ConnNoteError, NoteStatementError, DescribeParam, RecordMode,
         EndNothing, Disconnect, EndTran, SetAutocommit
    <3> QED
      BY <3>1, KeepsEpochInv
  <2>3. CASE Ends
    <3>1. \A s \in Stmts : stmtEpoch'[s] <= epoch /\ epoch' = epoch + 1
      BY <2>3 DEF Ends, EpochInv
    <3>2. \A s \in Stmts : stmtEpoch'[s] <= epoch' /\ stmtEpoch'[s] # epoch'
      BY <3>1
    <3>3. \A s \in Stmts : pc'[s] # "register"
      BY <2>3 DEF Ends, Exclusive
    <3> QED
      BY <3>2, <3>3 DEF EpochInv
  <2>4. CASE EndSucceeds \/ EndFails
    <3>1. connPc = "wire" /\ UNCHANGED <<epoch, stmtEpoch, cursor, pc>>
      BY <2>4 DEF EndSucceeds, EndFails
    <3>2. \A s \in Stmts : cursor'[s] = "open" => stmtEpoch'[s] # epoch'
      BY <3>1 DEF EpochInv
    <3>3. \A s \in Stmts : pc'[s] # "register" /\ stmtEpoch'[s] <= epoch'
      BY <3>1 DEF EpochInv, Exclusive
    <3> QED
      BY <3>2, <3>3 DEF EpochInv
  <2> QED
    BY <1>3, <2>1, <2>2, <2>3, <2>4 DEF ConnStep
<1>4. ASSUME NEW t \in Txns, IdleTimeout(t) PROVE EpochInv'
  <2>1. KeepsEpochs
    BY <1>4 DEF KeepsEpochs, IdleTimeout
  <2> QED
    BY <2>1, KeepsEpochInv
<1>5. CASE UNCHANGED vars
  <2>1. KeepsEpochs
    BY <1>5 DEF KeepsEpochs, vars
  <2> QED
    BY <2>1, KeepsEpochInv
<1> QED
  BY <1>2, <1>3, <1>4, <1>5 DEF Next

THEOREM EpochInvariant ==
  ASSUME Serialised = TRUE
  PROVE  Spec => []EpochInv
<1>1. Init => EpochInv
  BY DEF Init, EpochInv
<1>2. TypeOK /\ TypeOK' /\ Exclusive /\ SessionInv /\ EpochInv /\ [Next]_vars => EpochInv'
  BY EpochInvStep
<1> QED
  BY <1>1, <1>2, TypeCorrect, SessionInvariant, CallsAreExclusive, PTL DEF Spec

\* With calls on the connection one at a time, a result set the driver would
\* still drain is not one its own COMMIT or ROLLBACK has discarded, for any
\* number of handles and transactions (TransactionState::epoch, close_cursor).
THEOREM EpochIsSufficient ==
  ASSUME Serialised = TRUE
  PROVE  Spec => []EpochCoversTransaction
<1>1. TypeOK /\ EpochInv => EpochCoversTransaction
  BY DEF TypeOK, EpochInv, EpochCoversTransaction, Outlived
<1> QED
  BY <1>1, TypeCorrect, EpochInvariant, PTL
-----------------------------------------------------------------------------
(* The abort flag knows what the driver was told.                           *)

\* An error is on its way to the flag, or an end of the transaction is out.
Noting ==
  \/ connPc \in {"note", "describeNote", "wire"}
  \/ \E s \in Stmts : pc[s] = "note"

\* AbortKnown, and what it rests on: a response told of no abort of a
\* transaction that is unused or alive, nothing is noted of a transaction held in
\* autocommit mode, which only a failed end leaves there, nor of one just begun.
AbortInv ==
  /\ \A t \in Txns : coord[t] = "unused" => verdict[t] = "none"
  /\ \A t \in Txns : verdict[t] = "seen" => coord[t] # "active"
  /\ in_transaction /\ (autocommit \/ connPc = "mode") => verdict[clientTxn] # "seen"
  /\ \A s \in Stmts : pc[s] = "begin" => ~ autocommit
  /\ \A s \in Stmts : pc[s] = "begun" /\ in_transaction => verdict[clientTxn] # "seen"
  /\ in_transaction /\ coord[clientTxn] = "failed" /\ verdict[clientTxn] = "seen"
     => aborted \/ Noting

\* The coordinator fails transactions, and the driver meets that in one of `ways`.
Learns(ways) ==
  /\ OnlyFails
  /\ \A t \in Txns :
       \/ verdict'[t] = verdict[t]
       \/ /\ coord[t] # "unused" /\ coord'[t] = "failed"
          /\ verdict[t] # "seen" /\ verdict'[t] \in ways

Unnoted == Verdicts \ {"none", "seen", "endFailed", "forgotten"}

LEMMA AbortsLearns ==
  ASSUME TypeOK, NEW t, NEW ways, NEW why \in ways, Aborts(t, why)
  PROVE  Learns(ways)
BY DEF TypeOK, Aborts, Learns, OnlyFails

LEMMA LostLearns ==
  ASSUME TypeOK, NEW t, NEW ways, NEW why \in ways, LostRequest(t, why)
  PROVE  Learns(ways)
BY AbortsLearns DEF LostRequest, server, Learns, OnlyFails

LEMMA NothingLearnt ==
  ASSUME UNCHANGED server
  PROVE  Learns(Unnoted)
BY DEF server, Learns, OnlyFails

\* The steps that leave the session and the flag alone and do not hear of an
\* abort on a path that notes it.
LEMMA KeepsAbortInv ==
  ASSUME TypeOK, AbortInv, Learns(Unnoted),
         UNCHANGED <<autocommit, aborted, clientTxn>>,
         Noting => Noting',
         connPc' = "mode" => connPc = "mode",
         \A s \in Stmts : /\ pc'[s] = "begin" => pc[s] = "begin" \/ ~ autocommit
                          /\ pc'[s] = "begun" => pc[s] = "begun"
  PROVE  AbortInv'
BY DEF TypeOK, MaybeTxn, AbortInv, Learns, OnlyFails, Unnoted, in_transaction

\* The steps that do hear of one, and are about to note it.
LEMMA HearsOfAbort ==
  ASSUME TypeOK, AbortInv, Learns({Heard}),
         UNCHANGED <<autocommit, aborted, clientTxn>>,
         Noting',
         connPc' # "mode",
         \A s \in Stmts : pc'[s] # "begun" /\ (pc'[s] = "begin" => pc[s] = "begin")
  PROVE  AbortInv'
BY DEF TypeOK, MaybeTxn, AbortInv, Learns, Heard, OnlyFails, in_transaction

LEMMA AbortInvStep ==
  ASSUME Serialised = TRUE, TypeOK, Exclusive, SessionInv, AbortInv, [Next]_vars
  PROVE  AbortInv'
<1> USE DEF TypeOK, MaybeTxn, in_transaction, Noting, state, server, resultSet, handles, conn
<1>1. {"unseen", "drained", "cancelled", "prepare", "deallocate"} \subseteq Unnoted
  BY DEF Unnoted, Verdicts
<1>2. ASSUME NEW s \in Stmts, StmtStep(s) PROVE AbortInv'
  <2>1. CASE ExecDirect(s) \/ BeginTransactionFails(s) \/ Submit(s)
             \/ Register(s) \/ Fetch(s) \/ PageArrives(s) \/ CloseCursor(s)
             \/ FetchCancelled(s) \/ SubmitYieldsNothing(s)
    <3>1. Learns(Unnoted) \/ BeginTransactionFails(s)
      BY <2>1, NothingLearnt
      DEF ExecDirect, Submit, Register, Fetch, PageArrives, CloseCursor,
          FetchCancelled, SubmitYieldsNothing
    <3>2. CASE Learns(Unnoted) /\ ~ BeginTransactionFails(s)
      <4>1. /\ UNCHANGED <<autocommit, aborted, clientTxn, connPc>>
            /\ \A u \in Stmts : /\ pc[u] = "note" => pc'[u] = "note"
                                /\ pc'[u] = "begin" => pc[u] = "begin" \/ ~ autocommit
                                /\ pc'[u] = "begun" => pc[u] = "begun"
        BY <2>1, <3>2
        DEF ExecDirect, Submit, Register, Fetch, PageArrives, CloseCursor,
            FetchCancelled, SubmitYieldsNothing, StmtMayStart
      <4> QED
        BY <3>2, <4>1, KeepsAbortInv
    <3>3. CASE BeginTransactionFails(s)
      <4>1. \A t \in Txns : coord'[t] = coord[t] \/ (coord[t] = "unused" /\ coord'[t] = "active")
        BY <3>3 DEF BeginTransactionFails
      <4>2. /\ UNCHANGED <<autocommit, aborted, clientTxn, connPc, verdict>>
            /\ \A u \in Stmts : /\ pc[u] = "note" => pc'[u] = "note"
                                /\ pc'[u] \in {"begin", "begun"} => pc'[u] = pc[u]
        BY <3>3 DEF BeginTransactionFails
      <4> QED
        BY <4>1, <4>2 DEF AbortInv
    <3> QED
      BY <3>1, <3>2, <3>3
  <2>2. CASE QueryFails(s) \/ Cancel(s) \/ DrainEnds(s)
    <3>1. Learns(Unnoted)
      BY <2>2, <1>1, AbortsLearns, NothingLearnt DEF QueryFails, Cancel, DrainEnds, Learns, OnlyFails
    <3>2. /\ UNCHANGED <<autocommit, aborted, clientTxn, connPc>>
          /\ \A u \in Stmts : /\ pc[u] = "note" => pc'[u] = "note"
                              /\ pc'[u] \in {"begin", "begun"} => pc'[u] = pc[u]
      BY <2>2 DEF QueryFails, Cancel, DrainEnds
    <3> QED
      BY <3>1, <3>2, KeepsAbortInv
  <2>3. CASE SubmitFails(s) \/ PageFails(s) \/ DrainFails(s)
    <3>1. Learns({Heard})
      BY <2>3, AbortsLearns, LostLearns DEF SubmitFails, PageFails, DrainFails, ResponseFails
    <3>2. /\ UNCHANGED <<autocommit, aborted, clientTxn, connPc>>
          /\ pc[s] # "idle" /\ pc' = [pc EXCEPT ![s] = "note"]
      BY <2>3 DEF SubmitFails, PageFails, DrainFails
    <3>3. connPc = "idle" /\ \A u \in Stmts : u # s => pc[u] = "idle"
      BY <3>2 DEF Exclusive
    <3> QED
      BY <3>1, <3>2, <3>3, HearsOfAbort
  <2>4. CASE BeginTransaction(s)
    <3>1. /\ clientTxn' \in Txns /\ coord[clientTxn'] = "unused"
          /\ coord' = [coord EXCEPT ![clientTxn'] = "active"]
      BY <2>4 DEF BeginTransaction
    <3>2. verdict'[clientTxn'] = "none"
      BY <2>4, <3>1 DEF BeginTransaction, AbortInv
    <3>3. ~ autocommit' /\ connPc' = "idle"
      BY <2>4 DEF BeginTransaction, AbortInv, Exclusive
    <3>4. UNCHANGED verdict /\ \A u \in Stmts : pc'[u] # "begin"
      BY <2>4 DEF BeginTransaction, Exclusive
    <3> QED
      BY <3>1, <3>2, <3>3, <3>4 DEF AbortInv
  <2>5. CASE Begun(s)
    <3>1. in_transaction => verdict[clientTxn] # "seen"
      BY <2>5 DEF Begun, AbortInv
    <3>2. \A u \in Stmts : pc'[u] \in {"begin", "begun"} => pc'[u] = pc[u]
      BY <2>5 DEF Begun
    <3> QED
      BY <2>5, <3>1, <3>2 DEF Begun, AbortInv
  <2>6. CASE NoteError(s)
    <3>1. \A u \in Stmts : pc'[u] \in {"begin", "begun"} => pc'[u] = pc[u]
      BY <2>6 DEF NoteError
    <3>2. aborted' \/ autocommit
      BY <2>6 DEF NoteError, NoteStatementError, note_statement_error
    <3>3. UNCHANGED <<autocommit, clientTxn, coord, verdict, connPc>>
      BY <2>6 DEF NoteError, NoteStatementError
    <3> QED
      BY <3>1, <3>2, <3>3 DEF AbortInv
  <2> QED
    BY <1>2, <2>1, <2>2, <2>3, <2>4, <2>5, <2>6 DEF StmtStep
<1>3. CASE ConnStep
  <2>1. CASE DescribeParam \/ Disconnect \/ (\E by \in Enders \ {"none"} : EndTran(by))
    <3>1. Learns(Unnoted)
      BY <2>1, NothingLearnt DEF DescribeParam, Disconnect, EndTran
    <3> QED
      BY <2>1, <3>1, KeepsAbortInv DEF DescribeParam, Disconnect, EndTran, ConnMayStart
  <2>2. CASE Prepare \/ Deallocate
    <3>1. Learns(Unnoted)
      BY <2>2, <1>1, AbortsLearns, LostLearns, NothingLearnt DEF Prepare, Deallocate
    <3> QED
      BY <2>2, <3>1, KeepsAbortInv DEF Prepare, Deallocate
  <2>3. CASE CatalogFails
    <3>1. Learns({Heard})
      BY <2>3, AbortsLearns, LostLearns DEF CatalogFails
    <3>2. \A s \in Stmts : pc'[s] = "idle"
      BY <2>3 DEF CatalogFails, ConnMayStart, Quiet
    <3> QED
      BY <2>3, <3>1, <3>2, HearsOfAbort DEF CatalogFails
  <2>4. CASE DescribeInput
    <3>1. CASE UNCHANGED server
      BY <2>4, <3>1, NothingLearnt, KeepsAbortInv DEF DescribeInput
    <3>2. CASE connPc' = "describeNote"
      <4>1. Learns({Heard})
        BY <2>4, <3>2, AbortsLearns, LostLearns DEF DescribeInput
      <4>2. \A s \in Stmts : pc'[s] = "idle"
        BY <2>4 DEF DescribeInput, Exclusive
      <4> QED
        BY <2>4, <3>2, <4>1, <4>2, HearsOfAbort DEF DescribeInput
    <3> QED
      BY <2>4, <3>1, <3>2 DEF DescribeInput
  <2>5. CASE ConnNoteError
    <3>1. aborted' \/ autocommit
      BY <2>5 DEF ConnNoteError, NoteStatementError, note_statement_error
    <3>2. UNCHANGED <<autocommit, clientTxn, coord, verdict, pc>> /\ connPc' \in {"idle", "deallocate"}
      BY <2>5 DEF ConnNoteError, NoteStatementError
    <3> QED
      BY <3>1, <3>2 DEF AbortInv
  <2>6. CASE EndNothing \/ (\E enabled \in BOOLEAN : SetAutocommit(enabled))
    <3>1. connPc' = "idle" /\ \A s \in Stmts : pc'[s] = "idle"
      BY <2>6 DEF EndNothing, SetAutocommit, ConnMayStart, Quiet
    <3> QED
      BY <2>6, <3>1 DEF EndNothing, SetAutocommit, AbortInv
  <2>7. CASE Ends
    BY <2>7 DEF Ends, AbortInv
  <2>8. CASE EndSucceeds
    <3>1. clientTxn' = NoTxn /\ clientTxn \in Txns /\ UNCHANGED <<autocommit, pc>>
      BY <2>8 DEF EndSucceeds, EndServed
    <3>2. /\ coord' = [coord EXCEPT ![clientTxn] = Result]
          /\ verdict' = [verdict EXCEPT ![clientTxn] = "none"]
      BY <2>8 DEF EndSucceeds
    <3> QED
      BY <3>1, <3>2 DEF AbortInv, Result
  <2>9. CASE EndFails
    <3>1. /\ clientTxn \in Txns /\ clientTxn' \in {clientTxn, NoTxn}
          /\ UNCHANGED <<autocommit, pc>>
          /\ verdict' = [verdict EXCEPT ![clientTxn] = verdict'[clientTxn]]
          /\ verdict'[clientTxn] \in {"endFailed", "forgotten"}
      BY <2>9 DEF EndFails, SessionInv
    <3>2. \A t \in Txns : t # clientTxn => coord'[t] = coord[t]
      BY <2>9 DEF EndFails
    <3>3. coord[clientTxn] # "unused" /\ coord'[clientTxn] # "unused"
      BY <2>9, <3>1 DEF EndFails, SessionInv, Result
    <3> QED
      BY <3>1, <3>2, <3>3 DEF AbortInv
  <2>10. CASE RecordMode
    <3>1. \A s \in Stmts : pc'[s] = "idle"
      BY <2>10 DEF RecordMode, Exclusive
    <3> QED
      BY <2>10, <3>1 DEF RecordMode, AbortInv
  <2> QED
    BY <1>3, <2>1, <2>2, <2>3, <2>4, <2>5, <2>6, <2>7, <2>8, <2>9, <2>10 DEF ConnStep
<1>4. ASSUME NEW t \in Txns, IdleTimeout(t) PROVE AbortInv'
  <2>1. UNCHANGED <<autocommit, aborted, clientTxn, verdict, pc, connPc>>
    BY <1>4 DEF IdleTimeout
  <2>2. \A u \in Txns : coord'[u] = coord[u] \/ (coord[u] # "unused" /\ coord'[u] = "expired")
    BY <1>4 DEF IdleTimeout
  <2> QED
    BY <2>1, <2>2 DEF AbortInv
<1>5. CASE UNCHANGED vars
  BY <1>5 DEF vars, AbortInv
<1> QED
  BY <1>2, <1>3, <1>4, <1>5 DEF Next

\* With calls on the connection one at a time, an abort a response told the
\* driver of in manual-commit mode, on a path that notes it and since the last
\* end that failed, is known when the next call comes, for any handles,
\* transactions and lost requests (statement_error, map_client_error). What an
\* end that failed forgets is ForgottenAbortKnown.
THEOREM AbortIsKnown ==
  ASSUME Serialised = TRUE
  PROVE  Spec => []AbortKnown
<1>1. Init => AbortInv
  BY NoTxnAssumption DEF Init, AbortInv, in_transaction
<1>2. TypeOK /\ Exclusive /\ SessionInv /\ AbortInv /\ [Next]_vars => AbortInv'
  BY AbortInvStep
<1>3. AbortInv => AbortKnown
  BY DEF AbortInv, AbortKnown, AbortKnownWhen, Noting, Quiet
<1> QED
  BY <1>1, <1>2, <1>3, TypeCorrect, SessionInvariant, CallsAreExclusive, PTL DEF Spec
=============================================================================
