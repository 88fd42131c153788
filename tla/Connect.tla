------------------------------- MODULE Connect -------------------------------
(***************************************************************************)
(* TrinoBackend::connect, run by several threads of one process at a time. *)
(*                                                                         *)
(* A connect reads the connection string, chooses how to authenticate,     *)
(* takes the OAuth2 login of its identity out of a cache the whole process *)
(* shares, sends the validation query, which SQL_ATTR_LOGIN_TIMEOUT        *)
(* bounds, and asks the coordinator about the session, which nothing but   *)
(* the request timeout bounds.                                             *)
(*                                                                         *)
(* The client is external: its flow runs inside the first request that     *)
(* finds no token, once at a time behind each Auth, waits for a person no  *)
(* longer than the budget the Auth was made with, and ends with the        *)
(* request that runs it. A coordinator may answer a request with anything  *)
(* and may take back a token.                                              *)
(***************************************************************************)
EXTENDS ConnectParams, ErrorMapping, FiniteSets

CONSTANTS
  Threads,        \* the threads that connect
  Attempts,       \* what they are asked to: [cs, may_prompt, login_timeout, connection_timeout]
  Answers,        \* the client errors a request may end with
  MaxRevocations  \* bound: how often the coordinator takes a token back

ASSUME ThreadsAssumption == None \notin Threads
ASSUME RevocationsAssumption == MaxRevocations \in Nat

\* Seconds are u32 or nothing; a key that is named has a text, which may be blank
\* and is never the mark of a key that is not.
Timeouts == {Blank} \union [text : {"number"}, n : Nat]
NamedTexts == {"user", "sessionuser", "password", "accesstoken", "token",
               "tlsverify", "sslverification"}
ASSUME AttemptsAssumption ==
  /\ Attempts # {}
  /\ \A a \in Attempts :
       /\ a.login_timeout \in Timeouts /\ a.connection_timeout \in Timeouts
       /\ \A key \in NamedTexts \intersect DOMAIN a.cs : a.cs[key] \in STRING \ {None}

\* Any client error; the request's own timeout is the model's to add, because it
\* exists only where one is set.
ASSUME AnswersAssumption == Answers \subseteq (ClientErrors(Int, Nat) \ {HttpError(FALSE, TRUE)})

VARIABLES
  pc,           \* thread -> "idle", "validate", "probe", "connected" or "failed"
  attempt,      \* thread -> the attempt it is making
  auth,         \* thread -> its Auth's place in auths, 0 when it has none
  error,        \* thread -> the error connect returned, or NoError
  conn,         \* thread -> what the connection keeps: dead, user_name, probed
  auths,        \* the OAuth2 Auths made so far: their key, budget, flow and token
  logins,       \* OAUTH2_LOGINS: key -> place in auths
  revocations

vars == <<pc, attempt, auth, error, conn, auths, logins, revocations>>
-----------------------------------------------------------------------------
(* Deciding.                                                                *)

NO_TIMEOUT == -1     \* u32::MAX seconds, which nobody can tell from never
NoError == TrinoError("none", NoCode, Plain("none"))
NewConn == [dead |-> FALSE, user_name |-> "", probed |-> FALSE]

\* A likely mistake: zero is passed on as a duration.
TimeoutAsGiven(connection_timeout, from_connection_string) ==
  Seconds(connection_timeout, from_connection_string)

\* The attribute wins over the key, and zero is "no timeout" in both.
request_timeout(connection_timeout, from_connection_string) ==
  LET secs == Seconds(connection_timeout, from_connection_string)
  IN IF secs = 0 THEN NO_TIMEOUT ELSE secs

\* A likely mistake: a deadline that was set is not carried along.
DeadlineLost(login_timeout) == NO_TIMEOUT

\* Zero is no deadline, as unset is.
login_deadline(login_timeout) ==
  IF Seconds(login_timeout, 0) = 0 THEN NO_TIMEOUT ELSE login_timeout.n

\* A likely mistake: the token goes out whatever the transport.
AuthOverAnything(secure, password, access_token, external, may_prompt) ==
  CASE external -> IF may_prompt THEN "External" ELSE "Err"
    [] ~external /\ access_token # None -> "Jwt"
    [] OTHER -> IF secure THEN "Basic" ELSE "None"

resolve_auth(secure, password, access_token, external, may_prompt) ==
  CASE external /\ (password # None \/ access_token # None \/ ~secure \/ ~may_prompt) -> "Err"
    [] external /\ password = None /\ access_token = None /\ secure /\ may_prompt -> "External"
    [] ~external /\ access_token # None -> IF password = None /\ secure THEN "Jwt" ELSE "Err"
    [] OTHER -> IF secure THEN "Basic" ELSE "None"

\* What each attempt's connection string comes to, unless it is refused.
Accepted == {a \in Attempts : ~Refused(a.cs)}
params == [a \in Accepted |-> try_from(a.cs)]

AuthChoice(a) ==
  LET p == params[a]
  IN resolve_auth(p.secure, p.text["password"], p.access_token, p.external_authentication,
                  a.may_prompt)

\* The credential that travels with every request of the connection.
Credential(a) ==
  LET p == params[a] IN
  CASE AuthChoice(a) = "Jwt" -> p.access_token
    [] AuthChoice(a) = "Basic" -> p.text["password"]
    [] OTHER -> None

\* A likely mistake: a login is for a coordinator, whoever asks for it.
KeyWithoutUser(a) ==
  LET p == params[a] IN [secure |-> p.secure, host |-> p.host, port |-> p.port, user |-> None]

OAuth2Key(a) ==
  LET p == params[a] IN [secure |-> p.secure, host |-> p.host, port |-> p.port, user |-> p.user]

\* What Proxy::all, Ssl::read_pem and the client's builder may refuse.
MayNotBuild(a) ==
  \E key \in {"proxy", "certificate", "clientcertificate", "extraheaders"} : Named(a.cs, key)

session_user_name(probed, session_user, user) ==
  CASE probed # None -> probed
    [] probed = None /\ session_user # None -> session_user
    [] probed = None /\ session_user = None /\ user # None -> user
    [] OTHER -> ""
-----------------------------------------------------------------------------
RequestTimeout(t) ==
  request_timeout(attempt[t].connection_timeout, params[attempt[t]].query_timeout)
Deadline(t) == login_deadline(attempt[t].login_timeout)

Requesting(t) == pc[t] \in {"validate", "probe"}
NeedsLogin(t) == auth[t] # 0 /\ ~auths[auth[t]].token
InBrowser(t)  == auth[t] # 0 /\ auths[auth[t]].flow = t

AnyAttempt == CHOOSE a \in Attempts : TRUE     \* read only once one is made

Init ==
  /\ pc = [t \in Threads |-> "idle"]
  /\ attempt = [t \in Threads |-> AnyAttempt]
  /\ auth = [t \in Threads |-> 0]
  /\ error = [t \in Threads |-> NoError]
  /\ conn = [t \in Threads |-> NewConn]
  /\ auths = <<>> /\ logins = <<>>
  /\ revocations = 0

\* A likely mistake: a login of its own for every connection.
LoginPerConnection(t, a) ==
  /\ auths' = Append(auths, [key |-> OAuth2Key(a), budget |-> params[a].external_auth_timeout,
                             flow |-> None, token |-> FALSE])
  /\ auth' = [auth EXCEPT ![t] = Len(auths) + 1]
  /\ UNCHANGED logins

\* Under the cache's mutex: the login of this identity, made if there is none.
\* The Auth keeps the budget of the connect that made it.
oauth2_auth(t, a) ==
  LET key == OAuth2Key(a) IN
  IF key \in DOMAIN logins
  THEN /\ auth' = [auth EXCEPT ![t] = logins[key]]
       /\ UNCHANGED <<auths, logins>>
  ELSE /\ auths' = Append(auths, [key |-> key, budget |-> params[a].external_auth_timeout,
                                  flow |-> None, token |-> FALSE])
       /\ logins' = [k \in DOMAIN logins \union {key} |->
                       IF k = key THEN Len(auths) + 1 ELSE logins[k]]
       /\ auth' = [auth EXCEPT ![t] = Len(auths) + 1]

\* The connect ends with an error, and the request it was in ends with it.
Fail(t, e) ==
  /\ pc' = [pc EXCEPT ![t] = "failed"]
  /\ error' = [error EXCEPT ![t] = e]

Refuse(t, variant) ==
  /\ Fail(t, TrinoError(variant, NoCode, Plain("none")))
  /\ UNCHANGED <<attempt, conn, revocations>>

RefuseParameters(t) ==
  \E a \in Attempts :
    /\ pc[t] = "idle" /\ a \notin Accepted
    /\ Refuse(t, "General")
    /\ UNCHANGED <<auth, auths, logins>>

RefuseAuth(t) ==
  \E a \in Attempts :
    /\ pc[t] = "idle" /\ a \in Accepted /\ AuthChoice(a) = "Err"
    /\ Refuse(t, "AuthConfig")
    /\ UNCHANGED <<auth, auths, logins>>

ChooseAuth(t, a) ==
  /\ pc[t] = "idle" /\ a \in Accepted /\ AuthChoice(a) # "Err"
  /\ IF AuthChoice(a) = "External" THEN oauth2_auth(t, a)
     ELSE /\ auth' = [auth EXCEPT ![t] = 0]
          /\ UNCHANGED <<auths, logins>>

\* The client is built after the login was put in the cache.
BuildFails(t) ==
  \E a \in Attempts :
    /\ ChooseAuth(t, a) /\ MayNotBuild(a)
    /\ Refuse(t, "General")

Build(t) ==
  \E a \in Attempts :
    /\ ChooseAuth(t, a)
    /\ attempt' = [attempt EXCEPT ![t] = a]
    /\ pc' = [pc EXCEPT ![t] = "validate"]
    /\ conn' = [conn EXCEPT ![t] = NewConn]
    /\ error' = [error EXCEPT ![t] = NoError]
    /\ UNCHANGED revocations
-----------------------------------------------------------------------------
(* The login inside a request (external).                                   *)

OpenBrowser(t) ==
  /\ Requesting(t) /\ NeedsLogin(t) /\ auths[auth[t]].flow = None
  /\ auths' = [auths EXCEPT ![auth[t]].flow = t]
  /\ UNCHANGED <<pc, attempt, auth, error, conn, logins, revocations>>

CompleteLogin(t) ==
  /\ Requesting(t) /\ InBrowser(t)
  /\ auths' = [auths EXCEPT ![auth[t]].flow = None, ![auth[t]].token = TRUE]
  /\ UNCHANGED <<pc, attempt, auth, error, conn, logins, revocations>>

RevokeToken(i) ==
  /\ revocations < MaxRevocations /\ auths[i].token
  /\ revocations' = revocations + 1
  /\ auths' = [auths EXCEPT ![i].token = FALSE]
  /\ UNCHANGED <<pc, attempt, auth, error, conn, logins>>

EndFlow(t) ==
  IF InBrowser(t) THEN auths' = [auths EXCEPT ![auth[t]].flow = None] ELSE UNCHANGED auths
-----------------------------------------------------------------------------
(* The two queries.                                                         *)

Validated(t) ==
  /\ pc[t] = "validate" /\ ~NeedsLogin(t)
  /\ pc' = [pc EXCEPT ![t] = "probe"]
  /\ UNCHANGED <<attempt, auth, error, conn, auths, logins, revocations>>

\* What may go wrong with a request: an answer, the request's own timeout, or a
\* login that was refused or took longer than its budget.
RequestErrors(t) ==
  IF InBrowser(t) THEN {Plain("OAuth2")}
  ELSE Answers \union (IF RequestTimeout(t) = NO_TIMEOUT THEN {} ELSE {HttpError(FALSE, TRUE)})

\* The link is noted on the way past, and the error restated for a connect.
ValidationFails(t) ==
  /\ pc[t] = "validate"
  /\ \E e \in RequestErrors(t) :
       /\ Fail(t, AtConnect(map_trino_error(e)))
       /\ conn' = [conn EXCEPT ![t].dead = note(@, map_trino_error(e))]
  /\ EndFlow(t)
  /\ UNCHANGED <<attempt, auth, logins, revocations>>

\* A likely mistake: the query is a task of its own and goes on after the deadline.
DeadlineLeavesQuery(t) ==
  /\ pc[t] = "validate" /\ Deadline(t) # NO_TIMEOUT
  /\ Fail(t, TrinoError("QueryTimeout", NoCode, Plain("deadline")))
  /\ UNCHANGED <<attempt, auth, conn, auths, logins, revocations>>

\* The deadline drops the validation query wherever it is.
DeadlineExpires(t) ==
  /\ pc[t] = "validate" /\ Deadline(t) # NO_TIMEOUT
  /\ Fail(t, TrinoError("QueryTimeout", NoCode, Plain("deadline")))
  /\ EndFlow(t)
  /\ UNCHANGED <<attempt, auth, conn, logins, revocations>>

\* What the probe reads is taken, and whatever it cannot read is done without.
Connected(t, probed, dead) ==
  LET p == params[attempt[t]] IN
  /\ pc' = [pc EXCEPT ![t] = "connected"]
  /\ conn' = [conn EXCEPT ![t] =
                [dead |-> dead, probed |-> probed # None,
                 user_name |-> session_user_name(probed, p.text["sessionuser"], p.user)]]
  /\ UNCHANGED <<attempt, auth, error, logins, revocations>>

Probed(t) ==
  /\ pc[t] = "probe" /\ ~NeedsLogin(t)
  /\ \E user \in {"current_user", None} : Connected(t, user, conn[t].dead)
  /\ UNCHANGED auths

ProbeFails(t) ==
  /\ pc[t] = "probe"
  /\ \E e \in RequestErrors(t) : Connected(t, None, note(conn[t].dead, map_trino_error(e)))
  /\ EndFlow(t)

\* The application's: close it, or try again.
Release(t) ==
  /\ pc[t] \in {"connected", "failed"}
  /\ pc' = [pc EXCEPT ![t] = "idle"]
  /\ auth' = [auth EXCEPT ![t] = 0]
  /\ error' = [error EXCEPT ![t] = NoError]
  /\ conn' = [conn EXCEPT ![t] = NewConn]
  /\ attempt' = [attempt EXCEPT ![t] = AnyAttempt]
  /\ UNCHANGED <<auths, logins, revocations>>

Next ==
  \/ \E t \in Threads :
       \/ RefuseParameters(t) \/ RefuseAuth(t) \/ BuildFails(t) \/ Build(t)
       \/ OpenBrowser(t) \/ CompleteLogin(t)
       \/ Validated(t) \/ ValidationFails(t) \/ DeadlineExpires(t)
       \/ Probed(t) \/ ProbeFails(t) \/ Release(t)
  \/ \E i \in DOMAIN auths : RevokeToken(i)

\* Tokio's timer fires while the runtime waits for a coordinator. Nothing is assumed
\* of it while a browser is started, which blocks the thread that would poll it
\* (present_url), nor of the coordinator, a person or the application.
Spec == Init /\ [][Next]_vars
             /\ \A t \in Threads : WF_vars(auth[t] = 0 /\ DeadlineExpires(t))
-----------------------------------------------------------------------------
(* Properties.                                                              *)

\* Who the application asked to be.
Identity(a) == <<Secure(a.cs), a.cs["host"], a.cs["port"].n, Get(a.cs, "user", None)>>
Live(t) == pc[t] \in {"validate", "probe", "connected"}

\* The state has its shape: a thread is authenticated by one of the Auths made, a
\* browser is open only for a thread whose request runs, and the cache names
\* every Auth once (oauth2_auth, query_all_rows_within).
TypeOK ==
  /\ pc \in [Threads -> {"idle", "validate", "probe", "connected", "failed"}]
  /\ attempt \in [Threads -> Attempts]
  /\ auth \in [Threads -> 0..Len(auths)]
  /\ \A i \in DOMAIN auths :
       /\ auths[i].token \in BOOLEAN
       /\ auths[i].flow # None => (auths[i].flow \in Threads /\ Requesting(auths[i].flow))
  /\ \A key \in DOMAIN logins : logins[key] \in DOMAIN auths
  /\ revocations \in 0..MaxRevocations

\* While a browser is open for an identity, no other login of that identity is
\* under way or in hand: ten connections ask for one login (OAUTH2_LOGINS).
OneBrowserPerIdentity ==
  \A t \in Threads : InBrowser(t) =>
    \A i \in DOMAIN auths \ {auth[t]} :
      auths[i].key = auths[auth[t]].key => auths[i].flow = None /\ ~auths[i].token

\* Two connections that share a login asked for the same coordinator and the same
\* user, so no session runs under the login of somebody else (OAuth2Key).
LoginIsOwn ==
  \A t, u \in Threads :
    Live(t) /\ Live(u) /\ auth[t] # 0 /\ auth[t] = auth[u] =>
      Identity(attempt[t]) = Identity(attempt[u])

\* Whatever proves who the user is, given or obtained from a login, travels over
\* TLS only, to a coordinator that is checked as strictly as every key asks that
\* speaks of it, and in full when none does; and a connection carries one such
\* thing at most (resolve_auth, parse_tls_verification).
CredentialsNeedTLS ==
  \A t \in Threads : Live(t) =>
    /\ Credential(attempt[t]) # None \/ auth[t] # 0 => Secure(attempt[t].cs)
    /\ ~(Credential(attempt[t]) # None /\ auth[t] # 0)
    /\ LET cs    == attempt[t].cs
           words == {TlsWord(cs[key]) : key \in {"tlsverify", "sslverification"} \intersect DOMAIN cs}
       IN words \union {try_from(cs).tls_verification} \in {words, {"Full"}}

\* What a failed request leaves behind: a SQLSTATE of the connection functions,
\* never one of a session, the coordinator's own code when it refused the query
\* (but for a cancellation, whose code connection_failed drops), and the
\* connection marked dead exactly when the coordinator was not reached
\* (validate_connection, connection_failed, Liveness::note).
FailureIsReported ==
  \A t \in Threads : pc[t] = "failed" =>
    LET cause == error[t].cause IN
    /\ sql_state(error[t]) \in {"08001", "HYT00", "28000", "HY000"}
    /\ sql_state(error[t]) = "HY000" => cause.kind = "none"
    /\ cause.kind = "Query" /\ cause.code # TRINO_ERROR_USER_CANCELED =>
         native_error(error[t]) = cause.code
    /\ conn[t].dead <=> cause.kind = "HttpError" /\ cause.connect

\* A connect that names zero everywhere is never ended by a timer of the driver's:
\* zero is "no timeout" in the attributes and in the key (request_timeout,
\* NO_TIMEOUT). Its HYT00 can only be ReachMaxAttempt, retries that ran out.
ZeroIsNoTimeout ==
  \A t \in Threads :
    /\ pc[t] = "failed" /\ attempt[t].login_timeout \in {Blank, Num(0)}
    /\ \/ attempt[t].connection_timeout = Num(0)
       \/ attempt[t].connection_timeout = Blank /\ timeout_key(attempt[t].cs) = Num(0)
    => error[t].cause.kind # "deadline" /\ error[t].cause # HttpError(FALSE, TRUE)

\* SQL_USER_NAME is empty only after a failed probe, and then because the key that
\* stands in for the answer was left blank, or because nobody was named and the
\* identity provider decided (session_user_name, try_from).
UserNameIsKnown ==
  \A t \in Threads : pc[t] = "connected" /\ conn[t].user_name = "" =>
    LET cs == attempt[t].cs IN
    /\ ~conn[t].probed
    /\ IF Named(cs, "sessionuser") THEN cs["sessionuser"] = ""
       ELSE Get(cs, "user", "") = "" /\ (Named(cs, "user") \/ External(cs))

\* SQL_ATTR_LOGIN_TIMEOUT, where it is set and not zero, ends the validation of a
\* connect that needs no browser, even if the coordinator never answers
\* (query_all_rows_within, login_deadline).
LoginDeadlineBinds ==
  \A t \in Threads :
    /\ pc[t] = "validate" /\ auth[t] = 0
    /\ Seconds(attempt[t].login_timeout, 0) > 0
    ~> pc[t] # "validate"
-----------------------------------------------------------------------------
(* What the source's comments claim and the code does not do.               *)

\* PARAM_EXTERNAL_AUTH_TIMEOUT, and the warning connect logs: the login timeout
\* does not bound an interactive login, which has a budget of its own, so no
\* connect whose person is at the browser ends because of it.
BrowserLoginHasItsOwnBudget ==
  [][\A t \in Threads :
       InBrowser(t) /\ pc'[t] = "failed" => error'[t].cause.kind # "deadline"]_vars
=============================================================================
