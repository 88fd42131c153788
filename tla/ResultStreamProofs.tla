------------------------- MODULE ResultStreamProofs -------------------------
(***************************************************************************)
(* What holds of ResultStream for pages of any size and result sets of any *)
(* length: the cursor stays on the page, rows come in order and once, no   *)
(* row can be read after an error, and SQL_NO_DATA means a complete result *)
(* set unless somebody but this driver cancelled the query.                *)
(***************************************************************************)
EXTENDS ResultStream, TLAPS

\* TypeOK in three parts.
CountsOK  == /\ batch_len \in Nat /\ batch_cursor \in 0..batch_len
             /\ sent \in Nat /\ delivered \in Nat
FlagsOK   == /\ next_uri \in BOOLEAN /\ fetch_failed \in BOOLEAN /\ outlived \in BOOLEAN
             /\ slot \in BOOLEAN /\ cancelled \in BOOLEAN
ControlOK == /\ pc \in Steps /\ canceller \in {"idle", "taken", "flagged"}
             /\ server \in Servers /\ reply \in Replies

LEMMA TypeParts == TypeOK <=> CountsOK /\ FlagsOK /\ ControlOK
BY DEF TypeOK, CountsOK, FlagsOK, ControlOK

LEMMA TypePartsPrime == TypeOK' <=> CountsOK' /\ FlagsOK' /\ ControlOK'
BY DEF TypeOK, CountsOK, FlagsOK, ControlOK

\* No statement yet: nothing is buffered and nothing is left to ask for.
BeforeStatement ==
  pc \in {"idle", "submit", "poll", "metadata"} =>
    /\ batch_len = 0 /\ batch_cursor = 0 /\ ~ next_uri /\ ~ fetch_failed
    /\ pc # "idle" => sent = 0 /\ delivered = 0

\* As long as a row or a page is to come, what was returned and what is
\* buffered account for every row that was sent.
RowsAccounted ==
  IF pc = "page"
  THEN delivered = sent /\ batch_cursor = batch_len
  ELSE batch_len > 0 \/ next_uri => delivered + batch_len = sent + batch_cursor

ErrorsDiscard ==
  /\ NoRowAfterError
  /\ pc = "page" => reply \notin {"error", "HY008", "24000"}
  /\ fetch_failed => batch_len = 0 /\ ~ next_uri /\ pc \notin {"loop", "page"}

StreamInv == TypeOK /\ BeforeStatement /\ RowsAccounted /\ ErrorsDiscard

LEMMA StreamInvInit == Init => StreamInv
<1> SUFFICES ASSUME Init PROVE StreamInv
  OBVIOUS
<1>1. TypeOK
  <2>1. CountsOK
    BY DEF Init, CountsOK
  <2>2. FlagsOK
    BY DEF Init, FlagsOK
  <2>3. ControlOK
    BY DEF Init, ControlOK, Steps, Servers, Replies
  <2> QED
    BY <2>1, <2>2, <2>3, TypeParts
<1>2. BeforeStatement
  BY DEF Init, BeforeStatement
<1>3. RowsAccounted
  BY DEF Init, RowsAccounted
<1>4. ErrorsDiscard
  BY DEF Init, ErrorsDiscard, NoRowAfterError
<1> QED
  BY <1>1, <1>2, <1>3, <1>4 DEF StreamInv

\* Every step keeps StreamInv: one case for each call of the handle, the
\* canceller and the coordinator.
LEMMA StreamInvStep == StreamInv /\ [Next]_vars => StreamInv'
<1> SUFFICES ASSUME StreamInv, [Next]_vars PROVE StreamInv'
  OBVIOUS
<1> USE BoundAssumption DEF StreamInv, TypeOK, stmt, token
<1>1. CASE ExecDirect
  <2>1. TypeOK'
    BY <1>1 DEF ExecDirect, Steps, Servers, Replies, Alive, Failing
  <2>2. BeforeStatement'
    BY <1>1 DEF ExecDirect, BeforeStatement
  <2>3. RowsAccounted'
    BY <1>1 DEF ExecDirect, RowsAccounted, BeforeStatement
  <2>4. ErrorsDiscard'
    BY <1>1 DEF ExecDirect, ErrorsDiscard, NoRowAfterError
  <2> QED
    BY <2>1, <2>2, <2>3, <2>4
<1>2. CASE SubmitAccepted
  <2>1. TypeOK'
    <3>1. CountsOK'
      BY <1>2 DEF SubmitAccepted, Build, CountsOK
    <3>2. FlagsOK'
      BY <1>2 DEF SubmitAccepted, Build, FlagsOK
    <3>3. ControlOK'
      BY <1>2 DEF SubmitAccepted, Build, ControlOK, Steps, Servers, Replies, Alive, Failing
    <3> QED
      BY <3>1, <3>2, <3>3, TypePartsPrime
  <2>2. BeforeStatement'
    BY <1>2 DEF SubmitAccepted, Build, BeforeStatement
  <2>3. RowsAccounted'
    BY <1>2 DEF SubmitAccepted, Build, RowsAccounted, BeforeStatement
  <2>4. ErrorsDiscard'
    BY <1>2 DEF SubmitAccepted, Build, ErrorsDiscard, NoRowAfterError
  <2> QED
    BY <2>1, <2>2, <2>3, <2>4
<1>3. CASE SubmitFails
  <2>1. TypeOK'
    BY <1>3 DEF SubmitFails, ReturnError, Steps, Servers, Replies, Alive, Failing
  <2>2. BeforeStatement'
    BY <1>3 DEF SubmitFails, ReturnError, BeforeStatement
  <2>3. RowsAccounted'
    BY <1>3 DEF SubmitFails, ReturnError, RowsAccounted, BeforeStatement
  <2>4. ErrorsDiscard'
    BY <1>3 DEF SubmitFails, ReturnError, ErrorsDiscard, NoRowAfterError
  <2> QED
    BY <2>1, <2>2, <2>3, <2>4
<1>4. CASE PollRequest
  <2>1. TypeOK'
    BY <1>4 DEF PollRequest, Steps, Servers, Replies, Alive, Failing
  <2>2. BeforeStatement'
    BY <1>4 DEF PollRequest, BeforeStatement
  <2>3. RowsAccounted'
    BY <1>4 DEF PollRequest, RowsAccounted, BeforeStatement
  <2>4. ErrorsDiscard'
    BY <1>4 DEF PollRequest, ErrorsDiscard, NoRowAfterError
  <2> QED
    BY <2>1, <2>2, <2>3, <2>4
<1>5. CASE PollAnswered
  <2>1. TypeOK'
    <3>1. CountsOK'
      BY <1>5 DEF PollAnswered, Build, CountsOK
    <3>2. FlagsOK'
      BY <1>5 DEF PollAnswered, Build, FlagsOK
    <3>3. ControlOK'
      BY <1>5 DEF PollAnswered, Build, ControlOK, Steps, Servers, Replies, Alive, Failing
    <3> QED
      BY <3>1, <3>2, <3>3, TypePartsPrime
  <2>2. BeforeStatement'
    BY <1>5 DEF PollAnswered, Build, BeforeStatement
  <2>3. RowsAccounted'
    BY <1>5 DEF PollAnswered, Build, RowsAccounted, BeforeStatement
  <2>4. ErrorsDiscard'
    BY <1>5 DEF PollAnswered, Build, ErrorsDiscard, NoRowAfterError
  <2> QED
    BY <2>1, <2>2, <2>3, <2>4
<1>6. CASE PollFails
  <2>1. TypeOK'
    BY <1>6 DEF PollFails, ReturnError, Steps, Servers, Replies, Alive, Failing
  <2>2. BeforeStatement'
    BY <1>6 DEF PollFails, ReturnError, BeforeStatement
  <2>3. RowsAccounted'
    BY <1>6 DEF PollFails, ReturnError, RowsAccounted, BeforeStatement
  <2>4. ErrorsDiscard'
    BY <1>6 DEF PollFails, ReturnError, ErrorsDiscard, NoRowAfterError
  <2> QED
    BY <2>1, <2>2, <2>3, <2>4
<1>7. CASE Fetch \/ FetchAbandoned
  <2>1. TypeOK'
    BY <1>7 DEF Fetch, FetchAbandoned, Steps, Servers, Replies, Alive, Failing
  <2>2. BeforeStatement'
    BY <1>7 DEF Fetch, FetchAbandoned, BeforeStatement
  <2>3. RowsAccounted'
    BY <1>7 DEF Fetch, FetchAbandoned, RowsAccounted, BeforeStatement
  <2>4. ErrorsDiscard'
    <3>1. CASE Fetch
      BY <3>1 DEF Fetch, ErrorsDiscard, NoRowAfterError
    <3>2. CASE FetchAbandoned
      BY <3>2 DEF FetchAbandoned, ErrorsDiscard, NoRowAfterError
    <3> QED
      BY <1>7, <3>1, <3>2
  <2> QED
    BY <2>1, <2>2, <2>3, <2>4
<1>8. CASE FetchCancelled
  <2>1. TypeOK'
    <3>1. CountsOK'
      BY <1>8 DEF FetchCancelled, Discard, CountsOK
    <3>2. FlagsOK'
      BY <1>8 DEF FetchCancelled, Discard, FlagsOK
    <3>3. ControlOK'
      BY <1>8 DEF FetchCancelled, Discard, ControlOK, Steps, Servers, Replies, Alive, Failing
    <3> QED
      BY <3>1, <3>2, <3>3, TypePartsPrime
  <2>2. BeforeStatement'
    BY <1>8 DEF FetchCancelled, Discard, BeforeStatement
  <2>3. RowsAccounted'
    BY <1>8 DEF FetchCancelled, Discard, RowsAccounted, BeforeStatement
  <2>4. ErrorsDiscard'
    BY <1>8 DEF FetchCancelled, Discard, ErrorsDiscard, NoRowAfterError
  <2> QED
    BY <2>1, <2>2, <2>3, <2>4
<1>9. CASE FetchRow
  <2>1. TypeOK'
    BY <1>9 DEF FetchRow, Steps, Servers, Replies, Alive, Failing
  <2>2. BeforeStatement'
    BY <1>9 DEF FetchRow, BeforeStatement
  <2>3. RowsAccounted'
    BY <1>9 DEF FetchRow, RowsAccounted, BeforeStatement
  <2>4. ErrorsDiscard'
    BY <1>9 DEF FetchRow, ErrorsDiscard, NoRowAfterError
  <2> QED
    BY <2>1, <2>2, <2>3, <2>4
<1>10. CASE FetchNoData
  <2>1. TypeOK'
    BY <1>10 DEF FetchNoData, Steps, Servers, Replies, Alive, Failing
  <2>2. BeforeStatement'
    BY <1>10 DEF FetchNoData, BeforeStatement
  <2>3. RowsAccounted'
    BY <1>10 DEF FetchNoData, RowsAccounted, BeforeStatement
  <2>4. ErrorsDiscard'
    BY <1>10 DEF FetchNoData, ErrorsDiscard, NoRowAfterError
  <2> QED
    BY <2>1, <2>2, <2>3, <2>4
<1>11. CASE FetchPage
  <2>1. TypeOK'
    BY <1>11 DEF FetchPage, Steps, Servers, Replies, Alive, Failing
  <2>2. BeforeStatement'
    BY <1>11 DEF FetchPage, BeforeStatement
  <2>3. RowsAccounted'
    BY <1>11 DEF FetchPage, RowsAccounted, BeforeStatement
  <2>4. ErrorsDiscard'
    BY <1>11 DEF FetchPage, ErrorsDiscard, NoRowAfterError
  <2> QED
    BY <2>1, <2>2, <2>3, <2>4
<1>12. CASE PageArrives
  <2>1. TypeOK'
    BY <1>12 DEF PageArrives, Steps, Servers, Replies, Alive, Failing
  <2>2. BeforeStatement'
    BY <1>12 DEF PageArrives, BeforeStatement
  <2>3. RowsAccounted'
    BY <1>12 DEF PageArrives, RowsAccounted, BeforeStatement
  <2>4. ErrorsDiscard'
    BY <1>12 DEF PageArrives, ErrorsDiscard, NoRowAfterError
  <2> QED
    BY <2>1, <2>2, <2>3, <2>4
<1>13. CASE PageFails
  <2>1. TypeOK'
    <3>1. CountsOK'
      BY <1>13 DEF PageFails, Discard, CountsOK
    <3>2. FlagsOK'
      BY <1>13 DEF PageFails, Discard, FlagsOK
    <3>3. ControlOK'
      BY <1>13 DEF PageFails, Discard, ControlOK, Steps, Servers, Replies, Alive, Failing
    <3> QED
      BY <3>1, <3>2, <3>3, TypePartsPrime
  <2>2. BeforeStatement'
    BY <1>13 DEF PageFails, Discard, BeforeStatement
  <2>3. RowsAccounted'
    BY <1>13 DEF PageFails, Discard, RowsAccounted, BeforeStatement
  <2>4. ErrorsDiscard'
    BY <1>13 DEF PageFails, Discard, ErrorsDiscard, NoRowAfterError
  <2> QED
    BY <2>1, <2>2, <2>3, <2>4
<1>14. CASE CloseCursor
  <2>1. TypeOK'
    <3>1. CountsOK'
      BY <1>14 DEF CloseCursor, Discard, CountsOK
    <3>2. FlagsOK'
      BY <1>14 DEF CloseCursor, Discard, FlagsOK
    <3>3. ControlOK'
      BY <1>14 DEF CloseCursor, Discard, ControlOK, Steps, Servers, Replies, Alive, Failing
    <3> QED
      BY <3>1, <3>2, <3>3, TypePartsPrime
  <2>2. BeforeStatement'
    BY <1>14 DEF CloseCursor, Discard, BeforeStatement
  <2>3. RowsAccounted'
    BY <1>14 DEF CloseCursor, Discard, RowsAccounted, BeforeStatement
  <2>4. ErrorsDiscard'
    BY <1>14 DEF CloseCursor, Discard, ErrorsDiscard, NoRowAfterError
  <2> QED
    BY <2>1, <2>2, <2>3, <2>4
<1>15. CASE DrainRequest \/ DrainContinues
  <2>1. TypeOK'
    BY <1>15 DEF DrainRequest, DrainContinues, Steps, Servers, Replies, Alive, Failing
  <2>2. BeforeStatement'
    BY <1>15 DEF DrainRequest, DrainContinues, BeforeStatement
  <2>3. RowsAccounted'
    BY <1>15 DEF DrainRequest, DrainContinues, RowsAccounted, BeforeStatement
  <2>4. ErrorsDiscard'
    BY <1>15 DEF DrainRequest, DrainContinues, ErrorsDiscard, NoRowAfterError
  <2> QED
    BY <2>1, <2>2, <2>3, <2>4
<1>16. CASE DrainEnds \/ DrainFails
  <2>1. TypeOK'
    <3>1. CountsOK'
      BY <1>16 DEF DrainEnds, DrainFails, CloseWith, Discard, CountsOK
    <3>2. FlagsOK'
      BY <1>16 DEF DrainEnds, DrainFails, CloseWith, Discard, FlagsOK
    <3>3. ControlOK'
      BY <1>16 DEF DrainEnds, DrainFails, CloseWith, Discard, ControlOK, Steps, Servers, Replies, Alive, Failing
    <3> QED
      BY <3>1, <3>2, <3>3, TypePartsPrime
  <2>2. BeforeStatement'
    BY <1>16 DEF DrainEnds, DrainFails, CloseWith, Discard, BeforeStatement
  <2>3. RowsAccounted'
    BY <1>16 DEF DrainEnds, DrainFails, CloseWith, Discard, RowsAccounted, BeforeStatement
  <2>4. ErrorsDiscard'
    BY <1>16 DEF DrainEnds, DrainFails, CloseWith, Discard, ErrorsDiscard, NoRowAfterError
  <2> QED
    BY <2>1, <2>2, <2>3, <2>4
<1>17. CASE CancelTakes \/ CancelPublishes \/ CancelDeletes
  <2>1. TypeOK'
    <3>1. CountsOK'
      BY <1>17 DEF CancelTakes, CancelPublishes, CancelDeletes, CountsOK
    <3>2. FlagsOK'
      BY <1>17 DEF CancelTakes, CancelPublishes, CancelDeletes, FlagsOK
    <3>3. ControlOK'
      BY <1>17 DEF CancelTakes, CancelPublishes, CancelDeletes, ControlOK, Steps, Servers, Replies, Alive, Failing
    <3> QED
      BY <3>1, <3>2, <3>3, TypePartsPrime
  <2>2. BeforeStatement'
    BY <1>17 DEF CancelTakes, CancelPublishes, CancelDeletes, BeforeStatement
  <2>3. RowsAccounted'
    BY <1>17 DEF CancelTakes, CancelPublishes, CancelDeletes, RowsAccounted, BeforeStatement
  <2>4. ErrorsDiscard'
    BY <1>17 DEF CancelTakes, CancelPublishes, CancelDeletes, ErrorsDiscard, NoRowAfterError
  <2> QED
    BY <2>1, <2>2, <2>3, <2>4
<1>18. CASE QueryFails \/ QueryCancelled \/ TransactionEnds
  <2>1. TypeOK'
    <3>1. CountsOK'
      BY <1>18 DEF QueryFails, QueryCancelled, TransactionEnds, CountsOK
    <3>2. FlagsOK'
      BY <1>18 DEF QueryFails, QueryCancelled, TransactionEnds, FlagsOK
    <3>3. ControlOK'
      BY <1>18 DEF QueryFails, QueryCancelled, TransactionEnds, ControlOK, Steps, Servers, Replies, Alive, Failing
    <3> QED
      BY <3>1, <3>2, <3>3, TypePartsPrime
  <2>2. BeforeStatement'
    BY <1>18 DEF QueryFails, QueryCancelled, TransactionEnds, BeforeStatement
  <2>3. RowsAccounted'
    BY <1>18 DEF QueryFails, QueryCancelled, TransactionEnds, RowsAccounted, BeforeStatement
  <2>4. ErrorsDiscard'
    BY <1>18 DEF QueryFails, QueryCancelled, TransactionEnds, ErrorsDiscard, NoRowAfterError
  <2> QED
    BY <2>1, <2>2, <2>3, <2>4
<1>19. CASE UNCHANGED vars
  <2>1. TypeOK'
    BY <1>19 DEF vars, Steps, Servers, Replies, Alive, Failing
  <2>2. BeforeStatement'
    BY <1>19 DEF vars, BeforeStatement
  <2>3. RowsAccounted'
    BY <1>19 DEF vars, RowsAccounted, BeforeStatement
  <2>4. ErrorsDiscard'
    BY <1>19 DEF vars, ErrorsDiscard, NoRowAfterError
  <2> QED
    BY <2>1, <2>2, <2>3, <2>4
<1> QED
  BY <1>1, <1>2, <1>3, <1>4, <1>5, <1>6, <1>7, <1>8, <1>9, <1>10, <1>11, <1>12,
     <1>13, <1>14, <1>15, <1>16, <1>17, <1>18, <1>19
  DEF Next, Submitting, Polling, Looping, Paging, Draining

THEOREM StreamInvariant == Spec => []StreamInv
BY StreamInvInit, StreamInvStep, PTL DEF Spec

\* Types, and the cursor never leaves the page get_data indexes with it.
THEOREM TypeCorrect == Spec => []TypeOK
<1>1. StreamInv => TypeOK
  BY DEF StreamInv
<1> QED
  BY <1>1, StreamInvariant, PTL

\* Rows reach the application in order, none lost and none twice, for pages of
\* any size (fetch, get_data).
THEOREM RowsComeInOrder == Spec => []RowsInOrder
<1>1. StreamInv => RowsInOrder
  BY DEF StreamInv, RowsAccounted, RowsInOrder, TypeOK
<1> QED
  BY <1>1, StreamInvariant, PTL

\* No row is readable after a fetch that failed (abandon_result_set).
THEOREM ErrorsLeaveNoRow == Spec => []NoRowAfterError
<1>1. StreamInv => NoRowAfterError
  BY DEF StreamInv, ErrorsDiscard
<1> QED
  BY <1>1, StreamInvariant, PTL
-----------------------------------------------------------------------------
(* SQL_NO_DATA.                                                             *)

\* This driver's DELETE goes out only once the flag is up.
OnlyWeCancel ==
  /\ server = "killed" => cancelled
  /\ canceller = "flagged" => cancelled
  /\ pc = "submit" => canceller = "idle" /\ ~ slot /\ ~ cancelled /\ server = "none"

\* A result set with no further page, neither abandoned nor cancelled, is one
\* the coordinator has finished, and all of it was buffered or returned; only
\* somebody else's cancellation looks the same.
EndsComplete ==
  /\ pc \in {"open", "loop"} /\ ~ next_uri /\ ~ fetch_failed /\ ~ cancelled
     /\ server # "foreign"
     => server = "finished" /\ delivered + batch_len = sent + batch_cursor
  /\ NoDataMeansComplete

CompleteInv == OnlyWeCancel /\ EndsComplete

LEMMA CompleteInvStep ==
  ASSUME StreamInv, CompleteInv, [Next]_vars
  PROVE  CompleteInv'
<1> USE DEF StreamInv, CompleteInv, TypeOK, stmt, token, Alive, Failing
<1>1. CASE ExecDirect
  <2>1. OnlyWeCancel'
    BY <1>1 DEF ExecDirect, OnlyWeCancel
  <2>2. EndsComplete'
    BY <1>1 DEF ExecDirect, OnlyWeCancel, EndsComplete, NoDataMeansComplete,
          RowsAccounted, ErrorsDiscard, BeforeStatement
  <2> QED
    BY <2>1, <2>2
<1>2. CASE SubmitAccepted
  <2>1. OnlyWeCancel'
    BY <1>2 DEF SubmitAccepted, Build, OnlyWeCancel
  <2>2. EndsComplete'
    BY <1>2 DEF SubmitAccepted, Build, OnlyWeCancel, EndsComplete, NoDataMeansComplete,
          RowsAccounted, ErrorsDiscard, BeforeStatement
  <2> QED
    BY <2>1, <2>2
<1>3. CASE SubmitFails
  <2>1. OnlyWeCancel'
    BY <1>3 DEF SubmitFails, ReturnError, OnlyWeCancel
  <2>2. EndsComplete'
    BY <1>3 DEF SubmitFails, ReturnError, OnlyWeCancel, EndsComplete, NoDataMeansComplete,
          RowsAccounted, ErrorsDiscard, BeforeStatement
  <2> QED
    BY <2>1, <2>2
<1>4. CASE PollRequest
  <2>1. OnlyWeCancel'
    BY <1>4 DEF PollRequest, OnlyWeCancel
  <2>2. EndsComplete'
    BY <1>4 DEF PollRequest, OnlyWeCancel, EndsComplete, NoDataMeansComplete,
          RowsAccounted, ErrorsDiscard, BeforeStatement
  <2> QED
    BY <2>1, <2>2
<1>5. CASE PollAnswered
  <2>1. OnlyWeCancel'
    BY <1>5 DEF PollAnswered, Build, OnlyWeCancel
  <2>2. EndsComplete'
    BY <1>5 DEF PollAnswered, Build, OnlyWeCancel, EndsComplete, NoDataMeansComplete,
          RowsAccounted, ErrorsDiscard, BeforeStatement
  <2> QED
    BY <2>1, <2>2
<1>6. CASE PollFails
  <2>1. OnlyWeCancel'
    BY <1>6 DEF PollFails, ReturnError, OnlyWeCancel
  <2>2. EndsComplete'
    BY <1>6 DEF PollFails, ReturnError, OnlyWeCancel, EndsComplete, NoDataMeansComplete,
          RowsAccounted, ErrorsDiscard, BeforeStatement
  <2> QED
    BY <2>1, <2>2
<1>7. CASE Fetch
  <2>1. OnlyWeCancel'
    BY <1>7 DEF Fetch, OnlyWeCancel
  <2>2. EndsComplete'
    BY <1>7 DEF Fetch, OnlyWeCancel, EndsComplete, NoDataMeansComplete,
          RowsAccounted, ErrorsDiscard, BeforeStatement
  <2> QED
    BY <2>1, <2>2
<1>8. CASE FetchAbandoned
  <2>1. OnlyWeCancel'
    BY <1>8 DEF FetchAbandoned, OnlyWeCancel
  <2>2. EndsComplete'
    BY <1>8 DEF FetchAbandoned, OnlyWeCancel, EndsComplete, NoDataMeansComplete,
          RowsAccounted, ErrorsDiscard, BeforeStatement
  <2> QED
    BY <2>1, <2>2
<1>9. CASE FetchCancelled
  <2>1. OnlyWeCancel'
    BY <1>9 DEF FetchCancelled, Discard, OnlyWeCancel
  <2>2. EndsComplete'
    BY <1>9 DEF FetchCancelled, Discard, OnlyWeCancel, EndsComplete, NoDataMeansComplete,
          RowsAccounted, ErrorsDiscard, BeforeStatement
  <2> QED
    BY <2>1, <2>2
<1>10. CASE FetchRow
  <2>1. OnlyWeCancel'
    BY <1>10 DEF FetchRow, OnlyWeCancel
  <2>2. EndsComplete'
    BY <1>10 DEF FetchRow, OnlyWeCancel, EndsComplete, NoDataMeansComplete,
          RowsAccounted, ErrorsDiscard, BeforeStatement
  <2> QED
    BY <2>1, <2>2
<1>11. CASE FetchNoData
  <2>1. OnlyWeCancel'
    BY <1>11 DEF FetchNoData, OnlyWeCancel
  <2>2. EndsComplete'
    BY <1>11 DEF FetchNoData, OnlyWeCancel, EndsComplete, NoDataMeansComplete,
          RowsAccounted, ErrorsDiscard, BeforeStatement
  <2> QED
    BY <2>1, <2>2
<1>12. CASE FetchPage
  <2>1. OnlyWeCancel'
    BY <1>12 DEF FetchPage, OnlyWeCancel
  <2>2. EndsComplete'
    BY <1>12 DEF FetchPage, OnlyWeCancel, EndsComplete, NoDataMeansComplete,
          RowsAccounted, ErrorsDiscard, BeforeStatement
  <2> QED
    BY <2>1, <2>2
<1>13. CASE PageArrives
  <2>1. OnlyWeCancel'
    BY <1>13 DEF PageArrives, OnlyWeCancel
  <2>2. EndsComplete'
    BY <1>13 DEF PageArrives, OnlyWeCancel, EndsComplete, NoDataMeansComplete,
          RowsAccounted, ErrorsDiscard, BeforeStatement
  <2> QED
    BY <2>1, <2>2
<1>14. CASE PageFails
  <2>1. OnlyWeCancel'
    BY <1>14 DEF PageFails, FailsAs, Discard, OnlyWeCancel
  <2>2. EndsComplete'
    BY <1>14 DEF PageFails, FailsAs, Discard, OnlyWeCancel, EndsComplete, NoDataMeansComplete,
          RowsAccounted, ErrorsDiscard, BeforeStatement
  <2> QED
    BY <2>1, <2>2
<1>15. CASE CloseCursor
  <2>1. OnlyWeCancel'
    BY <1>15 DEF CloseCursor, Discard, OnlyWeCancel
  <2>2. EndsComplete'
    BY <1>15 DEF CloseCursor, Discard, OnlyWeCancel, EndsComplete, NoDataMeansComplete,
          RowsAccounted, ErrorsDiscard, BeforeStatement
  <2> QED
    BY <2>1, <2>2
<1>16. CASE DrainRequest \/ DrainContinues
  <2>1. OnlyWeCancel'
    BY <1>16 DEF DrainRequest, DrainContinues, OnlyWeCancel
  <2>2. EndsComplete'
    BY <1>16 DEF DrainRequest, DrainContinues, OnlyWeCancel, EndsComplete, NoDataMeansComplete,
          RowsAccounted, ErrorsDiscard, BeforeStatement
  <2> QED
    BY <2>1, <2>2
<1>17. CASE DrainEnds \/ DrainFails
  <2>1. OnlyWeCancel'
    BY <1>17 DEF DrainEnds, DrainFails, CloseWith, Discard, OnlyWeCancel
  <2>2. EndsComplete'
    BY <1>17 DEF DrainEnds, DrainFails, CloseWith, Discard, OnlyWeCancel, EndsComplete, NoDataMeansComplete,
          RowsAccounted, ErrorsDiscard, BeforeStatement
  <2> QED
    BY <2>1, <2>2
<1>18. CASE CancelTakes
  <2>1. OnlyWeCancel'
    BY <1>18 DEF CancelTakes, OnlyWeCancel
  <2>2. EndsComplete'
    BY <1>18 DEF CancelTakes, OnlyWeCancel, EndsComplete, NoDataMeansComplete,
          RowsAccounted, ErrorsDiscard, BeforeStatement
  <2> QED
    BY <2>1, <2>2
<1>19. CASE CancelPublishes
  <2>1. OnlyWeCancel'
    BY <1>19 DEF CancelPublishes, OnlyWeCancel
  <2>2. EndsComplete'
    BY <1>19 DEF CancelPublishes, OnlyWeCancel, EndsComplete, NoDataMeansComplete,
          RowsAccounted, ErrorsDiscard, BeforeStatement
  <2> QED
    BY <2>1, <2>2
<1>20. CASE CancelDeletes
  <2>1. OnlyWeCancel'
    BY <1>20 DEF CancelDeletes, OnlyWeCancel
  <2>2. EndsComplete'
    BY <1>20 DEF CancelDeletes, OnlyWeCancel, EndsComplete, NoDataMeansComplete,
          RowsAccounted, ErrorsDiscard, BeforeStatement
  <2> QED
    BY <2>1, <2>2
<1>21. CASE QueryFails
  <2>1. OnlyWeCancel'
    BY <1>21 DEF QueryFails, OnlyWeCancel
  <2>2. EndsComplete'
    BY <1>21 DEF QueryFails, OnlyWeCancel, EndsComplete, NoDataMeansComplete,
          RowsAccounted, ErrorsDiscard, BeforeStatement
  <2> QED
    BY <2>1, <2>2
<1>22. CASE QueryCancelled
  <2>1. OnlyWeCancel'
    BY <1>22 DEF QueryCancelled, OnlyWeCancel
  <2>2. EndsComplete'
    BY <1>22 DEF QueryCancelled, OnlyWeCancel, EndsComplete, NoDataMeansComplete,
          RowsAccounted, ErrorsDiscard, BeforeStatement
  <2> QED
    BY <2>1, <2>2
<1>23. CASE TransactionEnds
  <2>1. OnlyWeCancel'
    BY <1>23 DEF TransactionEnds, OnlyWeCancel
  <2>2. EndsComplete'
    BY <1>23 DEF TransactionEnds, OnlyWeCancel, EndsComplete, NoDataMeansComplete,
          RowsAccounted, ErrorsDiscard, BeforeStatement
  <2> QED
    BY <2>1, <2>2
<1>24. CASE UNCHANGED vars
  <2>1. OnlyWeCancel'
    BY <1>24 DEF vars, OnlyWeCancel
  <2>2. EndsComplete'
    BY <1>24 DEF vars, OnlyWeCancel, EndsComplete, NoDataMeansComplete,
          RowsAccounted, ErrorsDiscard, BeforeStatement
  <2> QED
    BY <2>1, <2>2
<1> QED
  BY <1>1, <1>2, <1>3, <1>4, <1>5, <1>6, <1>7, <1>8, <1>9, <1>10, <1>11, <1>12,
     <1>13, <1>14, <1>15, <1>16, <1>17, <1>18, <1>19, <1>20, <1>21, <1>22, <1>23, <1>24
  DEF Next, Submitting, Polling, Looping, Paging, Draining

\* SQL_NO_DATA is the end of a complete result set, for pages of any size and
\* every interleaving with SQLCancel, unless somebody else cancelled the query
\* (end_page_fetch, fetch).
THEOREM NoDataIsTheEnd == Spec => []NoDataMeansComplete
<1>1. Init => CompleteInv
  BY DEF Init, CompleteInv, OnlyWeCancel, EndsComplete, NoDataMeansComplete
<1>2. StreamInv /\ CompleteInv /\ [Next]_vars => CompleteInv'
  BY CompleteInvStep
<1>3. CompleteInv => NoDataMeansComplete
  BY DEF CompleteInv, EndsComplete
<1> QED
  BY <1>1, <1>2, <1>3, StreamInvariant, PTL DEF Spec
-----------------------------------------------------------------------------
(* The refinement.                                                          *)

\* A last page with rows on it is there because the query has finished.
LastPage == pc \in {"open", "loop"} /\ batch_len > 0 /\ ~ next_uri => server = "finished"

LEMMA LastPageStep ==
  ASSUME StreamInv, LastPage, [Next]_vars
  PROVE  LastPage'
<1> USE DEF StreamInv, TypeOK, LastPage, stmt, token, Alive
<1>1. CASE ExecDirect \/ Submitting \/ Polling
  BY <1>1 DEF ExecDirect, Submitting, SubmitAccepted, SubmitFails, Polling, PollRequest, PollAnswered,
        PollFails, Build, ReturnError
<1>2. CASE Fetch \/ FetchAbandoned \/ Looping \/ Paging
  BY <1>2 DEF Fetch, FetchAbandoned, Looping, FetchCancelled, FetchRow, FetchNoData, FetchPage,
        Paging, PageArrives, PageFails, Discard
<1>3. CASE CloseCursor \/ Draining
  BY <1>3 DEF CloseCursor, Draining, DrainRequest, DrainContinues, DrainEnds, DrainFails, CloseWith, Discard
<1>4. CASE CancelTakes \/ CancelPublishes \/ CancelDeletes
  BY <1>4 DEF CancelTakes, CancelPublishes, CancelDeletes
<1>5. CASE QueryFails \/ QueryCancelled \/ TransactionEnds
  BY <1>5 DEF QueryFails, QueryCancelled, TransactionEnds
<1>6. CASE UNCHANGED vars
  BY <1>6 DEF vars
<1> QED
  BY <1>1, <1>2, <1>3, <1>4, <1>5, <1>6 DEF Next

\* Every step of a statement handle is a step of the stream, or none.
LEMMA StreamStep ==
  ASSUME StreamInv, LastPage, [Next]_vars
  PROVE  [Stream!Next]_(Stream!stream)
<1> DEFINE Stutter == Holding' = Holding /\ Phase' = Phase /\ sent' = sent /\ delivered' = delivered
<1>a. Stutter \/ (~ Holding /\ ~ Holding') => UNCHANGED Stream!stream
  BY DEF Stream!stream, Phase
<1>b. Holding /\ ~ Holding' => Stream!Close
  BY DEF Stream!Close, Stream!Closed, Phase
<1> USE BoundAssumption DEF StreamInv, TypeOK, stmt, token
<1>1. CASE ExecDirect \/ SubmitFails \/ PollRequest \/ PollFails
  <2>1. ~ Holding /\ ~ Holding'
    BY <1>1 DEF ExecDirect, SubmitFails, PollRequest, PollFails, ReturnError, Holding
  <2> QED
    BY <2>1, <1>a
<1>2. CASE SubmitAccepted \/ PollAnswered
  <2>1. CASE pc' = "poll"
    <3>1. ~ Holding /\ ~ Holding'
      BY <1>2, <2>1 DEF SubmitAccepted, PollAnswered, Holding
    <3> QED
      BY <3>1, <1>a
  <2>2. CASE pc' # "poll"
    <3>1. PICK rows \in 0..MaxRows, more \in BOOLEAN : Build(rows, more) /\ delivered' = delivered
      BY <1>2, <2>2 DEF SubmitAccepted, PollAnswered
    <3>2. sent = 0 /\ delivered = 0 /\ ~ Holding /\ Holding'
      BY <1>2, <3>1 DEF SubmitAccepted, PollAnswered, Build, BeforeStatement, Holding
    <3>3. sent' = rows /\ delivered' = 0 /\ batch_len' = rows /\ batch_cursor' = 0 /\ next_uri' = more
      BY <3>1, <3>2 DEF Build
    <3>4. server' = IF more THEN "running" ELSE "finished"
      BY <3>1 DEF Build
    <3>5. Phase' = "streaming" \/ (Phase' = "ended" /\ delivered' = sent')
      BY <3>2, <3>3, <3>4 DEF Phase
    <3>6. Stream!Open
      BY <3>2, <3>3, <3>5 DEF Stream!Open, Stream!GoesOn, Phase
    <3> QED
      BY <3>6 DEF Stream!Next
  <2> QED
    BY <2>1, <2>2
<1>3. CASE Fetch \/ FetchAbandoned \/ FetchNoData \/ DrainRequest \/ DrainContinues
  <2>1. Holding /\ Holding' /\ pc # "page" /\ pc' # "page"
    BY <1>3 DEF Fetch, FetchAbandoned, FetchNoData, DrainRequest, DrainContinues, Holding
  <2>2. UNCHANGED <<stmt, server, sent, delivered>>
    BY <1>3 DEF Fetch, FetchAbandoned, FetchNoData, DrainRequest, DrainContinues
  <2>3. Stutter
    BY <2>1, <2>2 DEF Phase
  <2> QED
    BY <2>3, <1>a
<1>4. CASE FetchCancelled \/ PageFails
  <2>1. Holding /\ Holding' /\ pc' = "open" /\ UNCHANGED <<server, sent, delivered>>
    BY <1>4 DEF FetchCancelled, PageFails, Holding
  <2>2. batch_len' = 0 /\ batch_cursor' = 0 /\ ~ next_uri'
    BY <1>4 DEF FetchCancelled, PageFails, Discard
  <2>3. CASE Phase = "streaming"
    <3>1. Phase' = "dead"
      BY <2>1, <2>2, <2>3 DEF Phase
    <3>2. Stream!Die
      BY <2>1, <2>3, <3>1 DEF Stream!Die
    <3> QED
      BY <3>2 DEF Stream!Next
  <2>4. CASE Phase # "streaming"
    <3>1. Stutter
      BY <2>1, <2>2, <2>4 DEF Phase
    <3> QED
      BY <3>1, <1>a
  <2> QED
    BY <2>3, <2>4
<1>5. CASE FetchRow
  <2>1. Holding /\ Holding' /\ pc' = "open" /\ UNCHANGED <<server, sent, next_uri, batch_len>>
    BY <1>5 DEF FetchRow, Holding
  <2>2. delivered < sent /\ delivered' = delivered + 1 /\ batch_cursor' = batch_cursor + 1
    BY <1>5 DEF FetchRow, RowsAccounted
  <2>3. Phase = "streaming"
    BY <1>5, <2>1, <2>2 DEF FetchRow, Phase
  <2>4. delivered' = sent \/ batch_cursor' < batch_len \/ next_uri
    BY <1>5 DEF FetchRow, RowsAccounted
  <2>5. ~ next_uri => server = "finished"
    BY <1>5 DEF FetchRow, LastPage
  <2>6. Phase' = "streaming" \/ (Phase' = "ended" /\ delivered' = sent')
    BY <2>1, <2>2, <2>4, <2>5 DEF Phase
  <2>7. Stream!Deliver
    BY <2>1, <2>2, <2>3, <2>6 DEF Stream!Deliver, Stream!GoesOn
  <2> QED
    BY <2>7 DEF Stream!Next
<1>6. CASE FetchPage
  <2>1. Stutter
    BY <1>6 DEF FetchPage, Holding, Phase
  <2> QED
    BY <2>1, <1>a
<1>7. CASE PageArrives
  <2>1. PICK rows \in 0..MaxRows, more \in BOOLEAN :
          /\ sent' = sent + rows /\ batch_len' = rows /\ batch_cursor' = 0 /\ next_uri' = more
          /\ server' = IF more THEN server ELSE "finished"
    BY <1>7 DEF PageArrives
  <2>2. Holding /\ Holding' /\ delivered = sent /\ delivered' = delivered /\ server = "running" /\ pc = "page"
    BY <1>7 DEF PageArrives, Holding, RowsAccounted
  <2>3. Phase = "streaming"
    BY <2>2 DEF Phase
  <2>4. Phase' = "streaming" \/ (Phase' = "ended" /\ delivered' = sent')
    BY <2>1, <2>2 DEF Phase
  <2>5. sent' \in Nat /\ sent' >= sent
    BY <2>1
  <2>6. Stream!Produce
    BY <2>2, <2>3, <2>4, <2>5 DEF Stream!Produce, Stream!GoesOn
  <2> QED
    BY <2>6 DEF Stream!Next
<1>8. CASE CloseCursor
  <2>1. CASE pc' = "idle"
    BY <1>8, <2>1, <1>b DEF CloseCursor, Holding, Stream!Next
  <2>2. CASE pc' # "idle"
    <3>1. Stutter
      BY <1>8, <2>2 DEF CloseCursor, Holding, Phase
    <3> QED
      BY <3>1, <1>a
  <2> QED
    BY <2>1, <2>2
<1>9. CASE DrainEnds \/ DrainFails
  BY <1>9, <1>b DEF DrainEnds, DrainFails, CloseWith, Holding, Stream!Next
<1>10. CASE CancelTakes \/ CancelPublishes \/ CancelDeletes \/ QueryFails \/ QueryCancelled \/ TransactionEnds
  <2>1. UNCHANGED <<pc, stmt, sent, delivered>> /\ (server' = "finished" <=> server = "finished")
    BY <1>10 DEF CancelTakes, CancelPublishes, CancelDeletes, QueryFails, QueryCancelled, TransactionEnds, Alive
  <2>2. Stutter
    BY <2>1 DEF Holding, Phase
  <2> QED
    BY <2>2, <1>a
<1>11. CASE UNCHANGED vars
  <2>1. Stutter
    BY <1>11 DEF vars, Holding, Phase
  <2> QED
    BY <2>1, <1>a
<1> QED
  BY <1>1, <1>2, <1>3, <1>4, <1>5, <1>6, <1>7, <1>8, <1>9, <1>10, <1>11
  DEF Next, Submitting, Polling, Looping, Paging, Draining

\* For pages of any size, every fault and every interleaving with a cancelling
\* thread, a statement handle is a stream of rows that skips none, delivers all
\* before it ends, and never comes back once it has ended or died (fetch,
\* end_page_fetch, close_cursor).
THEOREM StreamRefinement == Spec => ImplementsRowStream
<1>1. Init => Stream!Init
  BY DEF Init, Stream!Init, Stream!Closed, Phase, Holding
<1>2. Init => LastPage
  BY DEF Init, LastPage
<1>3. StreamInv /\ LastPage /\ [Next]_vars => LastPage'
  BY LastPageStep
<1>4. StreamInv /\ LastPage /\ [Next]_vars => [Stream!Next]_(Stream!stream)
  BY StreamStep
<1> QED
  BY <1>1, <1>2, <1>3, <1>4, StreamInvariant, PTL DEF Spec, ImplementsRowStream, Stream!Spec
=============================================================================
