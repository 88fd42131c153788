---------------------------- MODULE ErrorMapping ----------------------------
(***************************************************************************)
(* What becomes of an error of the client: the driver's own error          *)
(* (map_trino_error), its restatement at connect time (connection_failed), *)
(* the SQLSTATE and native code the application reads, and what the        *)
(* connection learns of its link (Liveness).                               *)
(*                                                                         *)
(* A client error is a kind and, where the kind is told apart by more, the *)
(* code of a query error, the status of a response, or the two marks of a  *)
(* transport failure, which may be set together. Messages are left out.    *)
(***************************************************************************)
EXTENDS Integers

NoCode == 0     \* "no native code"
TRINO_ERROR_USER_CANCELED == 3

HttpError(is_connect, is_timeout) ==
  [kind |-> "HttpError", connect |-> is_connect, timeout |-> is_timeout]
\* The kinds that carry nothing but a message.
Plain(kind) == [kind |-> kind]
PlainKinds == {"Forbidden", "OAuth2", "ReachMaxAttempt", "Transaction", "Other"}

ClientErrors(codes, statuses) ==
  [kind : {"Query"}, code : codes] \union [kind : {"HttpNotOk"}, status : statuses]
    \union [kind : {"HttpError"}, connect : BOOLEAN, timeout : BOOLEAN] \union [kind : PlainKinds]

\* The driver's error: its variant, the native code it carries, and the client's
\* error it keeps as its cause.
TrinoError(variant, native, cause) == [variant |-> variant, native |-> native, cause |-> cause]

query_cause(e) == IF e.kind = "Query" THEN e.code ELSE NoCode

\* The arms in their order: the cancellation before the other query errors, the
\* unreachable server before the request that timed out.
map_trino_error(e) ==
  LET Is(variant) == TrinoError(variant, NoCode, e)
      Coded(variant) == TrinoError(variant, query_cause(e), e)
  IN CASE e.kind = "Query" /\ e.code = TRINO_ERROR_USER_CANCELED -> Coded("OperationCancelled")
       [] e.kind = "HttpError" /\ e.connect -> Is("CommunicationLinkFailure")
       [] e.kind = "HttpError" /\ ~e.connect /\ e.timeout -> Is("QueryTimeout")
       [] e.kind = "HttpNotOk" /\ e.status \in {401, 403} -> Is("AuthFailure")
       [] e.kind \in {"Forbidden", "OAuth2"} -> Is("AuthFailure")
       [] e.kind = "ReachMaxAttempt" -> Is("QueryTimeout")
       [] e.kind = "Transaction" -> Is("General")
       [] OTHER -> Coded("Query")

\* Liveness::note.
IsLinkFailure(error) == error.variant = "CommunicationLinkFailure"
note(dead, error) == dead \/ IsLinkFailure(error)

\* A likely mistake: the code stays inside the source.
FailedUncoded(error) == TrinoError("ConnectionFailed", NoCode, error.cause)

\* Only a query error's code is lifted out of the error that is restated.
connection_failed(error) ==
  TrinoError("ConnectionFailed", IF error.variant = "Query" THEN error.native ELSE NoCode,
             error.cause)

\* validate_connection: the two that are right as they are, and the rest.
AtConnect(error) ==
  IF error.variant \in {"AuthFailure", "QueryTimeout"} THEN error ELSE connection_failed(error)

\* From<TrinoError> for OdbcError.
sql_state(error) ==
  CASE error.variant = "ConnectionFailed" -> "08001"
    [] error.variant = "CommunicationLinkFailure" -> "08S01"
    [] error.variant = "QueryTimeout" -> "HYT00"
    [] error.variant \in {"AuthFailure", "AuthConfig"} -> "28000"
    [] error.variant = "OperationCancelled" -> "HY008"
    [] OTHER -> "HY000"       \* Query, General, Runtime, MissingParam; core names its own

native_error(error) ==
  IF error.variant \in {"Query", "ConnectionFailed", "OperationCancelled"} THEN error.native
  ELSE NoCode
=============================================================================
