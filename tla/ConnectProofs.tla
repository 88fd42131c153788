---------------------------- MODULE ConnectProofs ----------------------------
(***************************************************************************)
(* What holds of Connect for any threads, any connection strings and any   *)
(* answers of the coordinator: one login per identity, no login shared     *)
(* between two, no credential without TLS, and what a failed connect, a    *)
(* timeout of zero and SQL_USER_NAME tell the application.                  *)
(***************************************************************************)
EXTENDS Connect, TLAPS

(* What the pure functions return.                                          *)

\* What try_from makes of the keys the connect decides by.
LEMMA TryFromFields ==
  ASSUME NEW cs
  PROVE  /\ try_from(cs).secure = Secure(cs)
         /\ try_from(cs).host = cs["host"]
         /\ try_from(cs).port = cs["port"].n
         /\ try_from(cs).user = Get(cs, "user", None)
         /\ try_from(cs).tls_verification = Tls(cs)
         /\ try_from(cs).external_authentication = External(cs)
         /\ try_from(cs).query_timeout = Seconds(timeout_key(cs), DEFAULT_QUERY_TIMEOUT_SECS)
         /\ try_from(cs).text = [key \in TextKeys |-> Get(cs, key, None)]
<1>1. try_from(cs).secure = Secure(cs)
  BY DEF try_from
<1>2. try_from(cs).host = cs["host"]
  BY DEF try_from
<1>3. try_from(cs).port = cs["port"].n
  BY DEF try_from
<1>4. try_from(cs).user = Get(cs, "user", None)
  BY DEF try_from
<1>5. try_from(cs).tls_verification = Tls(cs)
  BY DEF try_from
<1>6. try_from(cs).external_authentication = External(cs)
  BY DEF try_from
<1>7. try_from(cs).query_timeout = Seconds(timeout_key(cs), DEFAULT_QUERY_TIMEOUT_SECS)
  BY DEF try_from
<1>8. try_from(cs).text = [key \in TextKeys |-> Get(cs, key, None)]
  BY DEF try_from
<1> QED
  BY <1>1, <1>2, <1>3, <1>4, <1>5, <1>6, <1>7, <1>8

\* The parameters the connect reads are those of its connection string.
LEMMA ParamsOfAccepted ==
  ASSUME NEW a \in Accepted
  PROVE  /\ a \in Attempts /\ ~Refused(a.cs)
         /\ params[a].secure = Secure(a.cs)
         /\ params[a].host = a.cs["host"]
         /\ params[a].port = a.cs["port"].n
         /\ params[a].user = Get(a.cs, "user", None)
         /\ params[a].tls_verification = Tls(a.cs)
         /\ params[a].external_authentication = External(a.cs)
         /\ params[a].query_timeout = Seconds(timeout_key(a.cs), DEFAULT_QUERY_TIMEOUT_SECS)
         /\ params[a].text["password"] = Get(a.cs, "password", None)
         /\ params[a].text["sessionuser"] = Get(a.cs, "sessionuser", None)
<1>1. a \in Attempts /\ ~Refused(a.cs)
  BY DEF Accepted
<1>2. params[a] = try_from(a.cs)
  BY DEF params
<1>3. params[a].text = [key \in TextKeys |-> Get(a.cs, key, None)]
  BY <1>2, TryFromFields
<1> QED
  BY <1>1, <1>2, <1>3, TryFromFields DEF TextKeys

\* What resolve_auth settles on: a login only when asked for and over TLS, a token
\* or a password only over TLS.
LEMMA AuthResolved ==
  ASSUME NEW secure \in BOOLEAN, NEW external \in BOOLEAN, NEW may_prompt,
         NEW password, NEW access_token
  PROVE  LET choice == resolve_auth(secure, password, access_token, external, may_prompt) IN
         /\ choice \in {"Err", "External", "Jwt", "Basic", "None"}
         /\ choice = "External" => secure /\ external
         /\ choice \in {"Jwt", "Basic"} => secure
<1> DEFINE choice == resolve_auth(secure, password, access_token, external, may_prompt)
<1>1. CASE external
  <2>1. CASE password # None \/ access_token # None \/ ~secure \/ ~may_prompt
    <3>1. choice = "Err"
      BY <1>1, <2>1 DEF resolve_auth
    <3> QED
      BY <3>1
  <2>2. CASE password = None /\ access_token = None /\ secure /\ may_prompt
    <3>1. choice = "External"
      BY <1>1, <2>2 DEF resolve_auth
    <3> QED
      BY <1>1, <2>2, <3>1
  <2> QED
    BY <2>1, <2>2
<1>2. CASE ~external /\ access_token # None
  <2>1. choice = IF password = None /\ secure THEN "Jwt" ELSE "Err"
    BY <1>2 DEF resolve_auth
  <2> QED
    BY <2>1
<1>3. CASE ~external /\ access_token = None
  <2>1. choice = IF secure THEN "Basic" ELSE "None"
    BY <1>3 DEF resolve_auth
  <2> QED
    BY <2>1
<1> QED
  BY <1>1, <1>2, <1>3

\* Only TLS carries a password, a token or a login, and never two of them.
LEMMA AuthNeedsTLS ==
  ASSUME NEW a \in Accepted
  PROVE  /\ AuthChoice(a) = "External" => Secure(a.cs) /\ External(a.cs) /\ Credential(a) = None
         /\ Credential(a) # None => Secure(a.cs)
<1>1. /\ params[a].secure = Secure(a.cs)
      /\ params[a].external_authentication = External(a.cs)
      /\ Secure(a.cs) \in BOOLEAN /\ External(a.cs) \in BOOLEAN
  BY ParamsOfAccepted DEF Secure, External
<1>2. AuthChoice(a) = resolve_auth(Secure(a.cs), params[a].text["password"],
                                   params[a].access_token, External(a.cs), a.may_prompt)
  BY <1>1 DEF AuthChoice
<1>3. /\ AuthChoice(a) \in {"Err", "External", "Jwt", "Basic", "None"}
      /\ AuthChoice(a) = "External" => Secure(a.cs) /\ External(a.cs)
      /\ AuthChoice(a) \in {"Jwt", "Basic"} => Secure(a.cs)
  BY <1>1, <1>2, AuthResolved
<1>4. Credential(a) # None => AuthChoice(a) \in {"Jwt", "Basic"}
  BY <1>3 DEF Credential
<1> QED
  BY <1>3, <1>4

\* The variants map_trino_error gives, each with what it says of the client error.
LEMMA MappedError ==
  ASSUME NEW e \in ClientErrors(Int, Nat)
  PROVE  /\ map_trino_error(e) \in
              [variant : {"OperationCancelled", "CommunicationLinkFailure", "QueryTimeout",
                          "AuthFailure", "General", "Query"}, native : Int, cause : {e}]
         /\ IsLinkFailure(map_trino_error(e)) <=> (e.kind = "HttpError" /\ e.connect)
         /\ (e.kind = "Query" /\ e.code # TRINO_ERROR_USER_CANCELED) =>
              map_trino_error(e).variant = "Query" /\ map_trino_error(e).native = e.code
<1> USE DEF TrinoError, query_cause, IsLinkFailure, NoCode, TRINO_ERROR_USER_CANCELED
<1>1. CASE e \in [kind : {"Query"}, code : Int]
  <2>1. e.kind = "Query" /\ e.code \in Int
    BY <1>1
  <2>2. CASE e.code = 3
    <3>1. map_trino_error(e) = [variant |-> "OperationCancelled", native |-> e.code, cause |-> e]
      BY <2>1, <2>2 DEF map_trino_error
    <3> QED
      BY <2>1, <2>2, <3>1
  <2>3. CASE e.code # 3
    <3>1. map_trino_error(e) = [variant |-> "Query", native |-> e.code, cause |-> e]
      BY <2>1, <2>3 DEF map_trino_error
    <3> QED
      BY <2>1, <2>3, <3>1
  <2> QED
    BY <2>2, <2>3
<1>2. CASE e \in [kind : {"HttpNotOk"}, status : Nat]
  <2>1. e.kind = "HttpNotOk"
    BY <1>2
  <2>2. \/ map_trino_error(e) = [variant |-> "AuthFailure", native |-> 0, cause |-> e]
        \/ map_trino_error(e) = [variant |-> "Query", native |-> 0, cause |-> e]
    BY <2>1 DEF map_trino_error
  <2> QED
    BY <2>1, <2>2
<1>3. CASE e \in [kind : {"HttpError"}, connect : BOOLEAN, timeout : BOOLEAN]
  <2>1. e.kind = "HttpError" /\ e.connect \in BOOLEAN /\ e.timeout \in BOOLEAN
    BY <1>3
  <2>2. CASE e.connect
    <3>1. map_trino_error(e) = [variant |-> "CommunicationLinkFailure", native |-> 0, cause |-> e]
      BY <2>1, <2>2 DEF map_trino_error
    <3> QED
      BY <2>1, <2>2, <3>1
  <2>3. CASE ~e.connect
    <3>1. \/ map_trino_error(e) = [variant |-> "QueryTimeout", native |-> 0, cause |-> e]
          \/ map_trino_error(e) = [variant |-> "Query", native |-> 0, cause |-> e]
      BY <2>1, <2>3 DEF map_trino_error
    <3> QED
      BY <2>1, <2>3, <3>1
  <2> QED
    BY <2>1, <2>2, <2>3
<1>4. CASE e \in [kind : PlainKinds]
  <2>1. e.kind \in PlainKinds
    BY <1>4
  <2>2. \E v \in {"AuthFailure", "QueryTimeout", "General", "Query"} :
          map_trino_error(e) = [variant |-> v, native |-> 0, cause |-> e]
    BY <2>1 DEF map_trino_error, PlainKinds
  <2> QED
    BY <2>1, <2>2 DEF PlainKinds
<1> QED
  BY <1>1, <1>2, <1>3, <1>4 DEF ClientErrors

\* What the application is told of a failed connect, and of the link.
Reported(err, dead) ==
  /\ sql_state(err) \in {"08001", "HYT00", "28000", "HY000"}
  /\ sql_state(err) = "HY000" => err.cause.kind = "none"
  /\ err.cause.kind = "Query" /\ err.cause.code # TRINO_ERROR_USER_CANCELED =>
       native_error(err) = err.cause.code
  /\ dead <=> err.cause.kind = "HttpError" /\ err.cause.connect

\* Whatever the client reports, a connect restates it as it should.
LEMMA ConnectErrorReported ==
  ASSUME NEW e \in ClientErrors(Int, Nat)
  PROVE  LET err == AtConnect(map_trino_error(e)) IN
         Reported(err, note(FALSE, map_trino_error(e))) /\ err.cause = e
<1> DEFINE m == map_trino_error(e)
           err == AtConnect(m)
<1> SUFFICES Reported(err, note(FALSE, m)) /\ err.cause = e
  OBVIOUS
<1>1. /\ m \in [variant : {"OperationCancelled", "CommunicationLinkFailure", "QueryTimeout",
                           "AuthFailure", "General", "Query"}, native : Int, cause : {e}]
      /\ IsLinkFailure(m) <=> (e.kind = "HttpError" /\ e.connect)
      /\ (e.kind = "Query" /\ e.code # TRINO_ERROR_USER_CANCELED) =>
           m.variant = "Query" /\ m.native = e.code
  BY MappedError
<1> HIDE DEF m
<1>2. note(FALSE, m) <=> (e.kind = "HttpError" /\ e.connect)
  BY <1>1 DEF note
<1>3. CASE m.variant \in {"AuthFailure", "QueryTimeout"}
  <2>1. err = m
    BY <1>3 DEF AtConnect
  <2>2. sql_state(err) \in {"HYT00", "28000"} /\ err.cause = e
    BY <1>1, <1>3, <2>1 DEF sql_state
  <2> QED
    BY <1>1, <1>2, <1>3, <2>1, <2>2 DEF Reported, native_error
<1>4. CASE m.variant \notin {"AuthFailure", "QueryTimeout"}
  <2>1. err = [variant |-> "ConnectionFailed", cause |-> e,
               native |-> IF m.variant = "Query" THEN m.native ELSE NoCode]
    BY <1>1, <1>4 DEF AtConnect, connection_failed, TrinoError
  <2>2. sql_state(err) = "08001" /\ native_error(err) = err.native /\ err.cause = e
    BY <2>1 DEF sql_state, native_error
  <2>3. e.kind = "Query" /\ e.code # TRINO_ERROR_USER_CANCELED => native_error(err) = e.code
    BY <1>1, <2>1, <2>2
  <2> HIDE DEF err
  <2> QED
    BY <1>2, <2>2, <2>3 DEF Reported
<1> QED
  BY <1>3, <1>4

\* A connect that is refused, or whose deadline expires, says so, and nothing was
\* learnt of the link.
LEMMA OwnErrorReported ==
  /\ Reported(TrinoError("General", NoCode, Plain("none")), FALSE)
  /\ Reported(TrinoError("AuthConfig", NoCode, Plain("none")), FALSE)
  /\ Reported(TrinoError("QueryTimeout", NoCode, Plain("deadline")), FALSE)
BY DEF Reported, TrinoError, Plain, sql_state, native_error

\* Every name the application may be given for the session.
LEMMA UserNameKnown ==
  ASSUME NEW a \in Accepted, NEW probed,
         probed \notin {"", None} \/ probed = None,
         session_user_name(probed, params[a].text["sessionuser"], params[a].user) = ""
  PROVE  /\ probed = None
         /\ IF Named(a.cs, "sessionuser") THEN a.cs["sessionuser"] = ""
            ELSE Get(a.cs, "user", "") = "" /\ (Named(a.cs, "user") \/ External(a.cs))
<1>1. /\ params[a].text["sessionuser"] = Get(a.cs, "sessionuser", None)
      /\ params[a].user = Get(a.cs, "user", None)
      /\ ~Refused(a.cs) /\ a \in Attempts
  BY ParamsOfAccepted
<1>2. Named(a.cs, "user") => a.cs["user"] # None
  BY <1>1, AttemptsAssumption DEF Named, NamedTexts
<1>3. Named(a.cs, "sessionuser") => a.cs["sessionuser"] # None
  BY <1>1, AttemptsAssumption DEF Named, NamedTexts
<1>4. Named(a.cs, "user") \/ External(a.cs)
  BY <1>1 DEF Refused, UserRefused
<1>5. probed = None
  BY DEF session_user_name
<1>6. CASE Named(a.cs, "sessionuser")
  BY <1>1, <1>3, <1>5, <1>6 DEF session_user_name, Get
<1>7. CASE ~Named(a.cs, "sessionuser") /\ Named(a.cs, "user")
  BY <1>1, <1>2, <1>5, <1>7 DEF session_user_name, Get
<1>8. CASE ~Named(a.cs, "sessionuser") /\ ~Named(a.cs, "user")
  BY <1>1, <1>4, <1>5, <1>8 DEF Get
<1> QED
  BY <1>6, <1>7, <1>8

\* The certificate of the coordinator is checked as every key asks that speaks of it.
LEMMA TlsAsAsked ==
  ASSUME NEW a \in Accepted
  PROVE  LET cs    == a.cs
             words == {TlsWord(cs[key]) : key \in {"tlsverify", "sslverification"} \intersect DOMAIN cs}
         IN words \union {try_from(cs).tls_verification} \in {words, {"Full"}}
<1> DEFINE cs == a.cs
           words == {TlsWord(cs[key]) : key \in {"tlsverify", "sslverification"} \intersect DOMAIN cs}
           parsed == {TlsWord(v) : v \in {Get(cs, "tlsverify", None), Get(cs, "sslverification", None)} \ {None}}
<1> SUFFICES words \union {try_from(cs).tls_verification} \in {words, {"Full"}}
  OBVIOUS
<1>1. a \in Attempts /\ ~Refused(cs)
  BY ParamsOfAccepted
<1>2. \A key \in {"tlsverify", "sslverification"} \intersect DOMAIN cs : cs[key] # None
  BY <1>1, AttemptsAssumption DEF NamedTexts
<1>3. words = parsed
  BY <1>2 DEF Get, Named
<1>4. Tls(cs) # "Err"
  BY <1>1 DEF Refused, TransportRefused
<1>5. Tls(cs) = CASE parsed = {} -> "Full"
                  [] \E w \in parsed : parsed = {w} -> CHOOSE w \in parsed : TRUE
                  [] OTHER -> "Err"
  BY DEF Tls, parse_tls_verification
<1>6. try_from(cs).tls_verification = Tls(cs)
  BY TryFromFields
<1> HIDE DEF words, parsed
<1>7. CASE parsed = {}
  BY <1>3, <1>5, <1>6, <1>7
<1>8. CASE \E w \in parsed : parsed = {w}
  <2>1. PICK w \in parsed : parsed = {w}
    BY <1>8
  <2>2. Tls(cs) = w
    BY <1>5, <2>1
  <2> QED
    BY <1>3, <1>6, <2>1, <2>2
<1> QED
  BY <1>4, <1>5, <1>7, <1>8

\* Zero and nothing are the same: no deadline, no request timeout.
LEMMA ZeroIsNone ==
  ASSUME NEW a \in Accepted
  PROVE  /\ a.login_timeout \in {Blank, Num(0)} => login_deadline(a.login_timeout) = NO_TIMEOUT
         /\ \/ a.connection_timeout = Num(0)
            \/ a.connection_timeout = Blank /\ timeout_key(a.cs) = Num(0)
            => request_timeout(a.connection_timeout, params[a].query_timeout) = NO_TIMEOUT
<1>1. params[a].query_timeout = Seconds(timeout_key(a.cs), DEFAULT_QUERY_TIMEOUT_SECS)
  BY ParamsOfAccepted
<1>2. a.login_timeout \in {Blank, Num(0)} => login_deadline(a.login_timeout) = NO_TIMEOUT
  BY DEF login_deadline, Seconds, Blank, Num
<1>3. Seconds(Num(0), params[a].query_timeout) = 0
  BY DEF Seconds, Num
<1>4. timeout_key(a.cs) = Num(0) => Seconds(Blank, params[a].query_timeout) = 0
  BY <1>1 DEF Seconds, Num, Blank
<1> QED
  BY <1>2, <1>3, <1>4 DEF request_timeout
-----------------------------------------------------------------------------
(* The inductive invariant.                                                 *)

Keys    == {OAuth2Key(a) : a \in Accepted}
Budgets == {params[a].external_auth_timeout : a \in Accepted}
Auths   == [key : Keys, budget : Budgets, flow : Threads \union {None}, token : BOOLEAN]

Shape ==
  /\ pc \in [Threads -> {"idle", "validate", "probe", "connected", "failed"}]
  /\ attempt \in [Threads -> Attempts]
  /\ DOMAIN error = Threads /\ DOMAIN conn = Threads
  /\ auths \in Seq(Auths)
  /\ auth \in [Threads -> 0..Len(auths)]
  /\ revocations \in 0..MaxRevocations

\* The cache and the Auths name each other, so an identity has one Auth.
CacheIsExact ==
  /\ \A i \in DOMAIN auths : auths[i].key \in DOMAIN logins /\ logins[auths[i].key] = i
  /\ \A key \in DOMAIN logins : logins[key] \in DOMAIN auths /\ auths[logins[key]].key = key

\* A browser is open for the thread whose request waits for the token of that Auth.
FlowHasOwner ==
  \A i \in DOMAIN auths : auths[i].flow # None =>
    /\ auths[i].flow \in Threads
    /\ Requesting(auths[i].flow) /\ auth[auths[i].flow] = i /\ ~auths[i].token

\* A connect that is under way is one of an accepted attempt, with the login of
\* its own identity if it needs one and with none otherwise.
LoginFits ==
  \A t \in Threads : Live(t) =>
    /\ attempt[t] \in Accepted
    /\ auth[t] # 0 => /\ AuthChoice(attempt[t]) = "External"
                      /\ auths[auth[t]].key = OAuth2Key(attempt[t])

\* What a failed connect of an attempt reports, and the name a session goes by.
FailureFits(a, err, dead) ==
  /\ Reported(err, dead)
  /\ a.login_timeout \in {Blank, Num(0)} => err.cause.kind # "deadline"
  /\ \/ a.connection_timeout = Num(0)
     \/ a.connection_timeout = Blank /\ timeout_key(a.cs) = Num(0)
     => err.cause # HttpError(FALSE, TRUE)

NameFits(a, c) ==
  c.user_name = "" =>
    /\ ~c.probed
    /\ IF Named(a.cs, "sessionuser") THEN a.cs["sessionuser"] = ""
       ELSE Get(a.cs, "user", "") = "" /\ (Named(a.cs, "user") \/ External(a.cs))

\* What a thread knows of its connect at each point.
Outcome(t) ==
  /\ pc[t] \in {"idle", "validate"} => conn[t] = NewConn
  /\ pc[t] = "failed" => FailureFits(attempt[t], error[t], conn[t].dead)
  /\ pc[t] = "connected" => NameFits(attempt[t], conn[t])

OutcomeFits == \A t \in Threads : Outcome(t)

ConnectInv == Shape /\ CacheIsExact /\ FlowHasOwner /\ LoginFits /\ OutcomeFits

LEMMA ConnectInvInit == Init => ConnectInv
<1> SUFFICES ASSUME Init PROVE ConnectInv
  OBVIOUS
<1>1. AnyAttempt \in Attempts
  BY AttemptsAssumption DEF AnyAttempt
<1>2. auths = <<>> /\ logins = <<>> /\ DOMAIN auths = {} /\ DOMAIN logins = {}
  BY DEF Init
<1>3. Shape
  BY <1>1, <1>2, RevocationsAssumption DEF Init, Shape
<1>4. CacheIsExact /\ FlowHasOwner
  BY <1>2 DEF CacheIsExact, FlowHasOwner
<1>5. LoginFits
  BY DEF Init, LoginFits, Live
<1>6. OutcomeFits
  BY DEF Init, OutcomeFits, Outcome
<1> QED
  BY <1>3, <1>4, <1>5, <1>6 DEF ConnectInv
-----------------------------------------------------------------------------
(* What the two writers of the logins do: the cache, and a login's flow.     *)

\* Choosing an Auth leaves the others alone and hands out the one of the identity.
LEMMA ChooseAuthKeeps ==
  ASSUME ConnectInv, NEW t \in Threads, NEW a \in Attempts, ChooseAuth(t, a)
  PROVE  /\ a \in Accepted
         /\ auths' \in Seq(Auths) /\ Len(auths) <= Len(auths')
         /\ auth' \in [Threads -> 0..Len(auths')]
         /\ \A u \in Threads \ {t} : auth'[u] = auth[u]
         /\ \A i \in DOMAIN auths : auths'[i] = auths[i]
         /\ \A i \in DOMAIN auths' \ DOMAIN auths : auths'[i].flow = None
         /\ auth'[t] # 0 => AuthChoice(a) = "External" /\ auths'[auth'[t]].key = OAuth2Key(a)
         /\ CacheIsExact'
<1> USE DEF ConnectInv, Shape
<1>1. a \in Accepted /\ pc[t] = "idle"
  BY DEF ChooseAuth
<1>2. CASE AuthChoice(a) # "External"
  <2>1. auth' = [auth EXCEPT ![t] = 0] /\ UNCHANGED <<auths, logins>>
    BY <1>2 DEF ChooseAuth
  <2> QED
    BY <1>1, <2>1 DEF CacheIsExact
<1>3. CASE AuthChoice(a) = "External" /\ OAuth2Key(a) \in DOMAIN logins
  <2>1. auth' = [auth EXCEPT ![t] = logins[OAuth2Key(a)]] /\ UNCHANGED <<auths, logins>>
    BY <1>3 DEF ChooseAuth, oauth2_auth
  <2>2. logins[OAuth2Key(a)] \in DOMAIN auths /\ auths[logins[OAuth2Key(a)]].key = OAuth2Key(a)
    BY <1>3 DEF CacheIsExact
  <2> QED
    BY <1>1, <1>3, <2>1, <2>2 DEF CacheIsExact
<1>4. CASE AuthChoice(a) = "External" /\ OAuth2Key(a) \notin DOMAIN logins
  <2> DEFINE key == OAuth2Key(a)
             new == [key |-> key, budget |-> params[a].external_auth_timeout,
                     flow |-> None, token |-> FALSE]
  <2>1. /\ auths' = Append(auths, new)
        /\ logins' = [k \in DOMAIN logins \union {key} |->
                        IF k = key THEN Len(auths) + 1 ELSE logins[k]]
        /\ auth' = [auth EXCEPT ![t] = Len(auths) + 1]
    BY <1>4 DEF ChooseAuth, oauth2_auth
  <2>2. new \in Auths /\ new.key = key /\ new.flow = None
    BY <1>1 DEF Auths, Keys, Budgets
  <2> HIDE DEF new, key
  <2>3. /\ auths' \in Seq(Auths) /\ Len(auths') = Len(auths) + 1
        /\ \A i \in DOMAIN auths : auths'[i] = auths[i]
        /\ auths'[Len(auths) + 1] = new
    BY <2>1, <2>2
  <2>4. auth' \in [Threads -> 0..Len(auths')] /\ auth'[t] = Len(auths) + 1
    BY <2>1, <2>3
  <2>5. CacheIsExact'
    <3>1. ASSUME NEW i \in DOMAIN auths'
          PROVE  auths'[i].key \in DOMAIN logins' /\ logins'[auths'[i].key] = i
      <4>1. CASE i \in DOMAIN auths
        <5>1. auths[i].key \in DOMAIN logins /\ logins[auths[i].key] = i
          BY <4>1 DEF CacheIsExact
        <5> QED
          BY <1>4, <2>1, <2>3, <4>1, <5>1 DEF key
      <4>2. CASE i = Len(auths) + 1
        BY <2>1, <2>2, <2>3, <4>2
      <4> QED
        BY <2>3, <4>1, <4>2
    <3>2. ASSUME NEW k \in DOMAIN logins'
          PROVE  logins'[k] \in DOMAIN auths' /\ auths'[logins'[k]].key = k
      <4>1. CASE k = key
        BY <2>1, <2>2, <2>3, <4>1
      <4>2. CASE k # key
        <5>1. k \in DOMAIN logins /\ logins'[k] = logins[k]
          BY <2>1, <4>2
        <5>2. logins[k] \in DOMAIN auths /\ auths[logins[k]].key = k
          BY <5>1 DEF CacheIsExact
        <5> QED
          BY <2>3, <5>1, <5>2
      <4> QED
        BY <4>1, <4>2
    <3> QED
      BY <3>1, <3>2 DEF CacheIsExact
  <2> QED
    BY <1>1, <1>4, <2>1, <2>2, <2>3, <2>4, <2>5 DEF key
<1> QED
  BY <1>2, <1>3, <1>4

\* A step that leaves the keys of the Auths and the cache alone keeps the cache exact
\* and every login that of its identity.
SameLogins ==
  /\ auths' \in Seq(Auths) /\ Len(auths') = Len(auths)
  /\ \A i \in DOMAIN auths : auths'[i].key = auths[i].key
  /\ UNCHANGED logins

LEMMA SameLoginsKeep ==
  ASSUME ConnectInv, SameLogins
  PROVE  DOMAIN auths' = DOMAIN auths /\ CacheIsExact'
<1>1. DOMAIN auths' = DOMAIN auths
  BY DEF ConnectInv, Shape, SameLogins
<1>2. /\ logins' = logins
      /\ \A i \in DOMAIN auths : auths'[i].key = auths[i].key
  BY DEF SameLogins
<1> QED
  BY <1>1, <1>2 DEF ConnectInv, CacheIsExact

\* One Auth is given another flow and token.
LEMMA OneAuthChanges ==
  ASSUME Shape, NEW i \in DOMAIN auths, NEW f \in Threads \union {None}, NEW k \in BOOLEAN,
         auths' = [auths EXCEPT ![i] = [auths[i] EXCEPT !.flow = f, !.token = k]],
         UNCHANGED logins
  PROVE  /\ SameLogins
         /\ auths'[i].flow = f /\ auths'[i].token = k
         /\ \A j \in DOMAIN auths \ {i} : auths'[j] = auths[j]
<1>1. auths \in Seq(Auths) /\ auths[i] \in Auths
  BY DEF Shape
<1> DEFINE r == [auths[i] EXCEPT !.flow = f, !.token = k]
<1>2. r \in Auths /\ r.key = auths[i].key /\ r.flow = f /\ r.token = k
  BY <1>1 DEF Auths
<1> HIDE DEF r
<1>3. auths' = [auths EXCEPT ![i] = r]
  BY DEF r
<1> QED
  <2>1. /\ auths' \in Seq(Auths) /\ Len(auths') = Len(auths) /\ auths'[i] = r
        /\ \A j \in DOMAIN auths \ {i} : auths'[j] = auths[j]
    BY <1>1, <1>2, <1>3
  <2>2. \A j \in DOMAIN auths : auths'[j].key = auths[j].key
    BY <1>2, <2>1
  <2> QED
    BY <1>2, <2>1, <2>2 DEF SameLogins

\* The request of a thread ends, and its browser, if one is open, with it.
LEMMA EndFlowKeeps ==
  ASSUME ConnectInv, NEW t \in Threads, EndFlow(t), UNCHANGED logins
  PROVE  /\ SameLogins
         /\ \A i \in DOMAIN auths : /\ auths'[i].token = auths[i].token
                                    /\ auths'[i].flow = IF auths[i].flow = t THEN None ELSE auths[i].flow
<1> USE DEF ConnectInv
<1>1. Shape /\ t # None
  BY ThreadsAssumption
<1>2. CASE InBrowser(t)
  <2>1. auth[t] \in DOMAIN auths /\ auths[auth[t]] \in Auths /\ auths[auth[t]].flow = t
    BY <1>1, <1>2 DEF InBrowser, Shape
  <2>2. \A i \in DOMAIN auths : auths[i].flow = t => i = auth[t]
    BY <1>1 DEF FlowHasOwner
  <2>3. auths' = [auths EXCEPT ![auth[t]].flow = None]
    BY <1>2 DEF EndFlow
  <2>4. auths' = [auths EXCEPT ![auth[t]] = [auths[auth[t]] EXCEPT !.flow = None,
                                                                   !.token = auths[auth[t]].token]]
    BY <2>1, <2>3 DEF Auths
  <2>5. auths[auth[t]].token \in BOOLEAN
    BY <2>1 DEF Auths
  <2>6. /\ SameLogins
        /\ auths'[auth[t]].flow = None /\ auths'[auth[t]].token = auths[auth[t]].token
        /\ \A j \in DOMAIN auths \ {auth[t]} : auths'[j] = auths[j]
    BY <1>1, <2>1, <2>4, <2>5, OneAuthChanges
  <2> QED
    BY <2>1, <2>2, <2>6
<1>3. CASE ~InBrowser(t)
  <2>1. UNCHANGED auths
    BY <1>3 DEF EndFlow
  <2>2. \A i \in DOMAIN auths : auths[i].flow # t
    BY <1>1, <1>3 DEF FlowHasOwner, InBrowser, Shape
  <2> QED
    BY <1>1, <2>1, <2>2 DEF SameLogins, Shape
<1> QED
  BY <1>2, <1>3

\* A request may fail as the client can fail, and by its own timeout only if it has one.
LEMMA RequestErrorsFit ==
  ASSUME NEW t \in Threads, NEW e \in RequestErrors(t)
  PROVE  /\ e \in ClientErrors(Int, Nat) /\ e.kind # "deadline"
         /\ e = HttpError(FALSE, TRUE) => RequestTimeout(t) # NO_TIMEOUT
<1>1. Plain("OAuth2") \in ClientErrors(Int, Nat) /\ Plain("OAuth2") # HttpError(FALSE, TRUE)
  BY DEF Plain, ClientErrors, PlainKinds, HttpError
<1>2. HttpError(FALSE, TRUE) \in ClientErrors(Int, Nat)
  BY DEF ClientErrors, HttpError
<1>3. /\ e \in ClientErrors(Int, Nat)
      /\ e = HttpError(FALSE, TRUE) => RequestTimeout(t) # NO_TIMEOUT
  BY <1>1, <1>2, AnswersAssumption DEF RequestErrors
<1>4. e.kind # "deadline"
  BY <1>3 DEF ClientErrors, PlainKinds
<1> QED
  BY <1>3, <1>4
-----------------------------------------------------------------------------
(* Every step keeps the invariant.                                          *)

\* The other threads know what they knew.
LEMMA OutcomeKept ==
  ASSUME NEW u \in Threads, Outcome(u),
         pc'[u] = pc[u], error'[u] = error[u], conn'[u] = conn[u], attempt'[u] = attempt[u]
  PROVE  Outcome(u)'
BY DEF Outcome

\* A step of a thread with no request leaves every browser to its owner.
LEMMA FlowKept ==
  ASSUME Shape, FlowHasOwner, NEW t \in Threads, ~Requesting(t), auths' \in Seq(Auths),
         \A i \in DOMAIN auths' : auths'[i].flow # None =>
           i \in DOMAIN auths /\ auths'[i] = auths[i],
         \A u \in Threads \ {t} : pc'[u] = pc[u] /\ auth'[u] = auth[u]
  PROVE  FlowHasOwner'
<1> SUFFICES ASSUME NEW i \in DOMAIN auths', auths'[i].flow # None
             PROVE  /\ auths'[i].flow \in Threads
                    /\ pc'[auths'[i].flow] \in {"validate", "probe"}
                    /\ auth'[auths'[i].flow] = i /\ ~auths'[i].token
  BY DEF FlowHasOwner, Requesting
<1>1. i \in DOMAIN auths /\ auths'[i] = auths[i]
  OBVIOUS
<1> DEFINE u == auths[i].flow
<1>2. u \in Threads /\ Requesting(u) /\ auth[u] = i /\ ~auths[i].token
  BY <1>1 DEF FlowHasOwner
<1>3. u # t
  BY <1>2
<1> QED
  BY <1>1, <1>2, <1>3 DEF Requesting

\* A refusal of the driver's own reports itself and nothing else.
LEMMA RefusalFits ==
  ASSUME NEW a, NEW variant \in {"General", "AuthConfig"}
  PROVE  FailureFits(a, TrinoError(variant, NoCode, Plain("none")), NewConn.dead)
<1>1. Reported(TrinoError(variant, NoCode, Plain("none")), FALSE)
  BY OwnErrorReported
<1>2. TrinoError(variant, NoCode, Plain("none")).cause.kind = "none" /\ NewConn.dead = FALSE
  BY DEF TrinoError, NewConn, Plain
<1>3. HttpError(FALSE, TRUE).kind = "HttpError"
  BY DEF HttpError
<1> QED
  BY <1>1, <1>2, <1>3 DEF FailureFits

\* A connect that is refused before anything was made.
LEMMA RefusalKeeps ==
  ASSUME ConnectInv, NEW t \in Threads, pc[t] = "idle",
         NEW variant \in {"General", "AuthConfig"}, Refuse(t, variant),
         UNCHANGED <<auth, auths, logins>>
  PROVE  ConnectInv'
<1> USE DEF ConnectInv
<1>1. /\ pc' = [pc EXCEPT ![t] = "failed"]
      /\ error' = [error EXCEPT ![t] = TrinoError(variant, NoCode, Plain("none"))]
      /\ UNCHANGED <<attempt, conn, revocations>>
  BY DEF Refuse, Fail
<1>2. Shape'
  BY <1>1 DEF Shape
<1>3. CacheIsExact'
  BY DEF CacheIsExact
<1>4. FlowHasOwner'
  <2>1. ~Requesting(t) /\ \A u \in Threads \ {t} : pc'[u] = pc[u] /\ auth'[u] = auth[u]
    BY <1>1 DEF Shape, Requesting
  <2> QED
    BY <1>2, <2>1, FlowKept DEF Shape
<1>5. LoginFits'
  BY <1>1 DEF Shape, LoginFits, Live
<1>6. OutcomeFits'
  <2>1. ASSUME NEW u \in Threads, u # t
        PROVE  pc'[u] = pc[u] /\ error'[u] = error[u] /\ conn'[u] = conn[u] /\ attempt'[u] = attempt[u]
    BY <1>1, <2>1 DEF Shape
  <2>2. /\ pc'[t] = "failed" /\ error'[t] = TrinoError(variant, NoCode, Plain("none"))
        /\ conn'[t] = NewConn
    BY <1>1 DEF Shape, OutcomeFits, Outcome
  <2>3. Outcome(t)'
    BY <2>2, RefusalFits DEF Outcome
  <2> QED
    BY <2>1, <2>3, OutcomeKept DEF OutcomeFits
<1> QED
  BY <1>2, <1>3, <1>4, <1>5, <1>6

\* The login was put in the cache, and the client was not built.
LEMMA BuildFailsKeeps ==
  ASSUME ConnectInv, NEW t \in Threads, BuildFails(t)
  PROVE  ConnectInv'
<1> USE DEF ConnectInv
<1>1. PICK a \in Attempts : ChooseAuth(t, a) /\ Refuse(t, "General")
  BY DEF BuildFails
<1>2. /\ pc' = [pc EXCEPT ![t] = "failed"] /\ pc[t] = "idle"
      /\ error' = [error EXCEPT ![t] = TrinoError("General", NoCode, Plain("none"))]
      /\ UNCHANGED <<attempt, conn, revocations>>
  BY <1>1 DEF Refuse, Fail, ChooseAuth
<1>3. /\ auths' \in Seq(Auths) /\ Len(auths) <= Len(auths')
      /\ auth' \in [Threads -> 0..Len(auths')]
      /\ \A u \in Threads \ {t} : auth'[u] = auth[u]
      /\ \A i \in DOMAIN auths : auths'[i] = auths[i]
      /\ \A i \in DOMAIN auths' \ DOMAIN auths : auths'[i].flow = None
      /\ CacheIsExact'
  BY <1>1, ChooseAuthKeeps
<1>4. Shape'
  BY <1>2, <1>3 DEF Shape
<1>5. FlowHasOwner'
  <2>1. ~Requesting(t) /\ \A u \in Threads \ {t} : pc'[u] = pc[u] /\ auth'[u] = auth[u]
    BY <1>2, <1>3 DEF Shape, Requesting
  <2>2. \A i \in DOMAIN auths' : auths'[i].flow # None =>
          i \in DOMAIN auths /\ auths'[i] = auths[i]
    BY <1>3
  <2> QED
    BY <1>3, <2>1, <2>2, FlowKept
<1>6. LoginFits'
  <2> SUFFICES ASSUME NEW u \in Threads, Live(u)'
               PROVE  /\ attempt'[u] \in Accepted
                      /\ auth'[u] # 0 => /\ AuthChoice(attempt'[u]) = "External"
                                         /\ auths'[auth'[u]].key = OAuth2Key(attempt'[u])
    BY DEF LoginFits
  <2>1. u # t /\ pc'[u] = pc[u] /\ Live(u) /\ auth'[u] = auth[u] /\ attempt'[u] = attempt[u]
    BY <1>2, <1>3 DEF Shape, Live
  <2>2. auth[u] # 0 => auth[u] \in DOMAIN auths
    BY DEF Shape
  <2> QED
    BY <1>3, <2>1, <2>2 DEF LoginFits
<1>7. OutcomeFits'
  <2>1. ASSUME NEW u \in Threads, u # t
        PROVE  pc'[u] = pc[u] /\ error'[u] = error[u] /\ conn'[u] = conn[u] /\ attempt'[u] = attempt[u]
    BY <1>2, <2>1 DEF Shape
  <2>2. /\ pc'[t] = "failed" /\ error'[t] = TrinoError("General", NoCode, Plain("none"))
        /\ conn'[t] = NewConn
    BY <1>2 DEF Shape, OutcomeFits, Outcome
  <2>3. Outcome(t)'
    BY <2>2, RefusalFits DEF Outcome
  <2> QED
    BY <2>1, <2>3, OutcomeKept DEF OutcomeFits
<1> QED
  BY <1>3, <1>4, <1>5, <1>6, <1>7

\* The client is built and its first request goes out.
LEMMA BuildKeeps ==
  ASSUME ConnectInv, NEW t \in Threads, Build(t)
  PROVE  ConnectInv'
<1> USE DEF ConnectInv
<1>1. PICK a \in Attempts :
        /\ ChooseAuth(t, a)
        /\ attempt' = [attempt EXCEPT ![t] = a]
        /\ pc' = [pc EXCEPT ![t] = "validate"]
        /\ conn' = [conn EXCEPT ![t] = NewConn]
        /\ error' = [error EXCEPT ![t] = NoError]
        /\ UNCHANGED revocations
  BY DEF Build
<1>2. pc[t] = "idle"
  BY <1>1 DEF ChooseAuth
<1>3. /\ a \in Accepted
      /\ auths' \in Seq(Auths) /\ Len(auths) <= Len(auths')
      /\ auth' \in [Threads -> 0..Len(auths')]
      /\ \A u \in Threads \ {t} : auth'[u] = auth[u]
      /\ \A i \in DOMAIN auths : auths'[i] = auths[i]
      /\ \A i \in DOMAIN auths' \ DOMAIN auths : auths'[i].flow = None
      /\ auth'[t] # 0 => AuthChoice(a) = "External" /\ auths'[auth'[t]].key = OAuth2Key(a)
      /\ CacheIsExact'
  BY <1>1, ChooseAuthKeeps
<1>4. Shape'
  BY <1>1, <1>3 DEF Shape
<1>5. FlowHasOwner'
  <2>1. ~Requesting(t) /\ \A u \in Threads \ {t} : pc'[u] = pc[u] /\ auth'[u] = auth[u]
    BY <1>1, <1>2, <1>3 DEF Shape, Requesting
  <2>2. \A i \in DOMAIN auths' : auths'[i].flow # None =>
          i \in DOMAIN auths /\ auths'[i] = auths[i]
    BY <1>3
  <2> QED
    BY <1>3, <2>1, <2>2, FlowKept
<1>6. LoginFits'
  <2> SUFFICES ASSUME NEW u \in Threads, Live(u)'
               PROVE  /\ attempt'[u] \in Accepted
                      /\ auth'[u] # 0 => /\ AuthChoice(attempt'[u]) = "External"
                                         /\ auths'[auth'[u]].key = OAuth2Key(attempt'[u])
    BY DEF LoginFits
  <2>1. CASE u = t
    BY <1>1, <1>3, <2>1 DEF Shape
  <2>2. CASE u # t
    <3>1. pc'[u] = pc[u] /\ Live(u) /\ auth'[u] = auth[u] /\ attempt'[u] = attempt[u]
      BY <1>1, <1>3, <2>2 DEF Shape, Live
    <3>2. auth[u] # 0 => auth[u] \in DOMAIN auths
      BY DEF Shape
    <3> QED
      BY <1>3, <3>1, <3>2 DEF LoginFits
  <2> QED
    BY <2>1, <2>2
<1>7. OutcomeFits'
  <2>1. ASSUME NEW u \in Threads, u # t
        PROVE  pc'[u] = pc[u] /\ error'[u] = error[u] /\ conn'[u] = conn[u] /\ attempt'[u] = attempt[u]
    BY <1>1, <2>1 DEF Shape
  <2>2. pc'[t] = "validate" /\ conn'[t] = NewConn
    BY <1>1 DEF Shape
  <2>3. Outcome(t)'
    BY <2>2 DEF Outcome
  <2> QED
    BY <2>1, <2>3, OutcomeKept DEF OutcomeFits
<1> QED
  BY <1>3, <1>4, <1>5, <1>6, <1>7

\* The three steps of a login touch one Auth and no thread.
LEMMA LoginStepKeeps ==
  ASSUME ConnectInv, NEW i \in DOMAIN auths, NEW f \in Threads \union {None}, NEW k \in BOOLEAN,
         auths' = [auths EXCEPT ![i] = [auths[i] EXCEPT !.flow = f, !.token = k]],
         f # None => Requesting(f) /\ auth[f] = i /\ ~k,
         revocations' \in 0..MaxRevocations,
         UNCHANGED <<pc, attempt, auth, error, conn, logins>>
  PROVE  ConnectInv'
<1> USE DEF ConnectInv
<1>1. /\ SameLogins
      /\ auths'[i].flow = f /\ auths'[i].token = k
      /\ \A j \in DOMAIN auths \ {i} : auths'[j] = auths[j]
  BY OneAuthChanges
<1>2. DOMAIN auths' = DOMAIN auths /\ CacheIsExact'
  BY <1>1, SameLoginsKeep
<1>3. Shape'
  BY <1>1 DEF Shape, SameLogins
<1>4. FlowHasOwner'
  <2> SUFFICES ASSUME NEW j \in DOMAIN auths, auths'[j].flow # None
               PROVE  /\ auths'[j].flow \in Threads /\ Requesting(auths'[j].flow)
                      /\ auth[auths'[j].flow] = j /\ ~auths'[j].token
    BY <1>2 DEF FlowHasOwner, Requesting
  <2>1. CASE j = i
    BY <1>1, <2>1
  <2>2. CASE j # i
    BY <1>1, <2>2 DEF FlowHasOwner
  <2> QED
    BY <2>1, <2>2
<1>5. LoginFits'
  <2> SUFFICES ASSUME NEW u \in Threads, Live(u)
               PROVE  /\ attempt[u] \in Accepted
                      /\ auth[u] # 0 => /\ AuthChoice(attempt[u]) = "External"
                                        /\ auths'[auth[u]].key = OAuth2Key(attempt[u])
    BY DEF LoginFits, Live
  <2>1. auth[u] # 0 => auth[u] \in DOMAIN auths
    BY DEF Shape
  <2> QED
    BY <1>1, <2>1 DEF LoginFits, SameLogins
<1>6. OutcomeFits'
  BY OutcomeKept DEF OutcomeFits
<1> QED
  BY <1>2, <1>3, <1>4, <1>5, <1>6

LEMMA LoginKeeps ==
  ASSUME ConnectInv,
         \/ \E t \in Threads : OpenBrowser(t) \/ CompleteLogin(t)
         \/ \E i \in DOMAIN auths : RevokeToken(i)
  PROVE  ConnectInv'
<1> USE DEF ConnectInv
<1>0. revocations \in 0..MaxRevocations /\ \A i \in DOMAIN auths : auths[i] \in Auths
  BY DEF Shape
<1>1. ASSUME NEW t \in Threads, OpenBrowser(t) PROVE ConnectInv'
  <2> DEFINE i == auth[t]
  <2>1. i \in DOMAIN auths /\ Requesting(t) /\ ~auths[i].token
    BY <1>1 DEF OpenBrowser, NeedsLogin, Shape
  <2>2. auths[i] \in Auths
    BY <1>0, <2>1
  <2>3. auths' = [auths EXCEPT ![i] = [auths[i] EXCEPT !.flow = t, !.token = FALSE]]
    <3>1. [auths[i] EXCEPT !.flow = t] = [auths[i] EXCEPT !.flow = t, !.token = FALSE]
      BY <2>1, <2>2 DEF Auths
    <3> QED
      BY <1>1, <3>1 DEF OpenBrowser
  <2> QED
    BY <1>0, <1>1, <2>1, <2>3, LoginStepKeeps DEF OpenBrowser
<1>2. ASSUME NEW t \in Threads, CompleteLogin(t) PROVE ConnectInv'
  <2> DEFINE i == auth[t]
  <2>1. i \in DOMAIN auths
    BY <1>2 DEF CompleteLogin, InBrowser, Shape
  <2>2. auths' = [auths EXCEPT ![i] = [auths[i] EXCEPT !.flow = None, !.token = TRUE]]
    BY <1>2, <2>1 DEF CompleteLogin, Shape
  <2> QED
    BY <1>0, <1>2, <2>1, <2>2, LoginStepKeeps DEF CompleteLogin
<1>3. ASSUME NEW i \in DOMAIN auths, RevokeToken(i) PROVE ConnectInv'
  <2>1. auths[i] \in Auths /\ auths[i].flow = None
    BY <1>0, <1>3 DEF RevokeToken, FlowHasOwner
  <2>2. auths' = [auths EXCEPT ![i] = [auths[i] EXCEPT !.flow = None, !.token = FALSE]]
    <3>1. [auths[i] EXCEPT !.token = FALSE] = [auths[i] EXCEPT !.flow = None, !.token = FALSE]
      BY <2>1 DEF Auths
    <3> QED
      BY <1>3, <3>1 DEF RevokeToken
  <2>3. revocations' \in 0..MaxRevocations
    BY <1>0, <1>3, RevocationsAssumption DEF RevokeToken
  <2> QED
    BY <1>3, <2>2, <2>3, LoginStepKeeps DEF RevokeToken
<1> QED
  BY <1>1, <1>2, <1>3

\* A request ends: its browser with it, and no login changes hands.
RequestEnds(t) ==
  /\ SameLogins
  /\ \A i \in DOMAIN auths : /\ auths'[i].token = auths[i].token
                             /\ auths'[i].flow = IF auths[i].flow = t THEN None ELSE auths[i].flow
  /\ \A u \in Threads \ {t} : pc'[u] = pc[u]
  /\ UNCHANGED <<attempt, auth, revocations>>

LEMMA RequestEndKeeps ==
  ASSUME ConnectInv, NEW t \in Threads, Requesting(t), RequestEnds(t)
  PROVE  /\ auths' \in Seq(Auths) /\ Len(auths') = Len(auths)
         /\ CacheIsExact' /\ FlowHasOwner' /\ LoginFits'
<1> USE DEF ConnectInv, RequestEnds
<1>1. DOMAIN auths' = DOMAIN auths /\ CacheIsExact'
  BY SameLoginsKeep
<1>2. auths' \in Seq(Auths) /\ Len(auths') = Len(auths)
  BY DEF SameLogins
<1>3. FlowHasOwner'
  <2> SUFFICES ASSUME NEW i \in DOMAIN auths, auths'[i].flow # None
               PROVE  /\ auths'[i].flow \in Threads
                      /\ pc'[auths'[i].flow] \in {"validate", "probe"}
                      /\ auth[auths'[i].flow] = i /\ ~auths'[i].token
    BY <1>1 DEF FlowHasOwner, Requesting
  <2>1. auths[i].flow # t /\ auths'[i].flow = auths[i].flow /\ auths[i].flow # None
    OBVIOUS
  <2> QED
    BY <2>1 DEF FlowHasOwner, Requesting
<1>4. LoginFits'
  <2> SUFFICES ASSUME NEW u \in Threads, Live(u)'
               PROVE  /\ attempt[u] \in Accepted
                      /\ auth[u] # 0 => /\ AuthChoice(attempt[u]) = "External"
                                        /\ auths'[auth[u]].key = OAuth2Key(attempt[u])
    BY DEF LoginFits
  <2>1. Live(u)
    BY DEF Live, Requesting
  <2>2. auth[u] # 0 => auth[u] \in DOMAIN auths
    BY DEF Shape
  <2> QED
    BY <2>1, <2>2 DEF LoginFits, SameLogins
<1> QED
  BY <1>1, <1>2, <1>3, <1>4

LEMMA ValidatedKeeps ==
  ASSUME ConnectInv, NEW t \in Threads, Validated(t)
  PROVE  ConnectInv'
<1> USE DEF ConnectInv
<1>1. /\ pc[t] = "validate" /\ pc' = [pc EXCEPT ![t] = "probe"]
      /\ UNCHANGED <<attempt, auth, error, conn, auths, logins, revocations>>
  BY DEF Validated
<1>2. /\ pc'[t] = "probe"
      /\ \A u \in Threads \ {t} : pc'[u] = pc[u]
  BY <1>1 DEF Shape
<1>3. Shape'
  BY <1>1 DEF Shape
<1>4. CacheIsExact'
  BY <1>1 DEF CacheIsExact
<1>5. FlowHasOwner'
  <2> SUFFICES ASSUME NEW i \in DOMAIN auths, auths[i].flow # None
               PROVE  /\ auths[i].flow \in Threads
                      /\ pc'[auths[i].flow] \in {"validate", "probe"}
                      /\ auth[auths[i].flow] = i /\ ~auths[i].token
    BY <1>1 DEF FlowHasOwner, Requesting
  <2> QED
    BY <1>2 DEF FlowHasOwner, Requesting
<1>6. LoginFits'
  <2>1. \A u \in Threads : Live(u)' => Live(u)
    BY <1>1, <1>2 DEF Live
  <2> QED
    BY <1>1, <2>1 DEF LoginFits
<1>7. OutcomeFits'
  <2>1. Outcome(t)'
    BY <1>2 DEF Outcome
  <2> QED
    BY <1>1, <1>2, <2>1, OutcomeKept DEF OutcomeFits
<1> QED
  BY <1>3, <1>4, <1>5, <1>6, <1>7

\* The validation query fails, on its own or at the deadline.
LEMMA ValidationEndKeeps ==
  ASSUME ConnectInv, NEW t \in Threads, ValidationFails(t) \/ DeadlineExpires(t)
  PROVE  ConnectInv'
<1> USE DEF ConnectInv
<1>1. pc[t] = "validate" /\ Requesting(t) /\ conn[t] = NewConn /\ attempt[t] \in Accepted
  BY DEF ValidationFails, DeadlineExpires, Requesting, OutcomeFits, Outcome, LoginFits, Live
<1>2. EndFlow(t) /\ UNCHANGED <<attempt, auth, logins, revocations>>
  BY DEF ValidationFails, DeadlineExpires
<1>3. PICK err :
        /\ Fail(t, err) /\ FailureFits(attempt[t], err, conn'[t].dead)
        /\ DOMAIN conn' = DOMAIN conn
        /\ \A u \in Threads \ {t} : conn'[u] = conn[u]
  <2>1. CASE ValidationFails(t)
    <3>1. PICK e \in RequestErrors(t) :
            /\ Fail(t, AtConnect(map_trino_error(e)))
            /\ conn' = [conn EXCEPT ![t].dead = note(@, map_trino_error(e))]
      BY <2>1 DEF ValidationFails
    <3> DEFINE err == AtConnect(map_trino_error(e))
    <3>2. /\ e \in ClientErrors(Int, Nat) /\ e.kind # "deadline"
          /\ e = HttpError(FALSE, TRUE) => RequestTimeout(t) # NO_TIMEOUT
      BY RequestErrorsFit
    <3>3. Reported(err, note(FALSE, map_trino_error(e))) /\ err.cause = e
      BY <3>2, ConnectErrorReported
    <3>4. conn'[t].dead = note(FALSE, map_trino_error(e))
      <4>1. conn'[t] = [NewConn EXCEPT !.dead = note(NewConn.dead, map_trino_error(e))]
        BY <1>1, <3>1 DEF Shape
      <4>2. NewConn.dead = FALSE /\ "dead" \in DOMAIN NewConn
        BY DEF NewConn
      <4> QED
        BY <4>1, <4>2
    <3>5. \/ attempt[t].connection_timeout = Num(0)
          \/ attempt[t].connection_timeout = Blank /\ timeout_key(attempt[t].cs) = Num(0)
          => RequestTimeout(t) = NO_TIMEOUT
      BY <1>1, ZeroIsNone DEF RequestTimeout
    <3> HIDE DEF err
    <3>6. FailureFits(attempt[t], err, note(FALSE, map_trino_error(e)))
      BY <3>2, <3>3, <3>5 DEF FailureFits
    <3>7. FailureFits(attempt[t], err, conn'[t].dead)
      BY <3>4, <3>6
    <3>8. Fail(t, err)
      BY <3>1 DEF err
    <3>9. DOMAIN conn' = DOMAIN conn /\ \A u \in Threads \ {t} : conn'[u] = conn[u]
      BY <3>1 DEF Shape
    <3> QED
      BY <3>7, <3>8, <3>9
  <2>2. CASE DeadlineExpires(t)
    <3> DEFINE err == TrinoError("QueryTimeout", NoCode, Plain("deadline"))
    <3>1. /\ Deadline(t) # NO_TIMEOUT /\ Fail(t, err) /\ UNCHANGED conn
      BY <2>2 DEF DeadlineExpires
    <3>2. attempt[t].login_timeout \notin {Blank, Num(0)}
      BY <1>1, <3>1, ZeroIsNone DEF Deadline
    <3>3. err.cause.kind = "deadline" /\ HttpError(FALSE, TRUE).kind = "HttpError"
      BY DEF TrinoError, Plain, HttpError
    <3>4. Reported(err, FALSE)
      BY OwnErrorReported
    <3>5. conn[t].dead = FALSE
      <4>1. NewConn.dead = FALSE
        BY DEF NewConn
      <4> QED
        BY <1>1, <4>1
    <3> HIDE DEF err
    <3>6. FailureFits(attempt[t], err, FALSE)
      BY <3>2, <3>3, <3>4 DEF FailureFits
    <3>7. FailureFits(attempt[t], err, conn'[t].dead)
      BY <3>1, <3>5, <3>6
    <3> QED
      BY <3>1, <3>7
  <2> QED
    BY <2>1, <2>2
<1>4. pc'[t] = "failed" /\ error'[t] = err /\ DOMAIN error' = Threads
  BY <1>3 DEF Shape, Fail
<1>5. \A u \in Threads \ {t} : pc'[u] = pc[u] /\ error'[u] = error[u]
  BY <1>3 DEF Shape, Fail
<1>6. RequestEnds(t)
  BY <1>2, <1>5, EndFlowKeeps DEF RequestEnds
<1>7. /\ auths' \in Seq(Auths) /\ Len(auths') = Len(auths)
      /\ CacheIsExact' /\ FlowHasOwner' /\ LoginFits'
  BY <1>1, <1>6, RequestEndKeeps
<1>8. Shape'
  BY <1>2, <1>3, <1>4, <1>7 DEF Shape, Fail
<1>9. OutcomeFits'
  <2>1. Outcome(t)'
    BY <1>2, <1>3, <1>4 DEF Outcome
  <2> QED
    BY <1>2, <1>3, <1>5, <2>1, OutcomeKept DEF OutcomeFits
<1> QED
  BY <1>7, <1>8, <1>9

\* The probe ends, with an answer or without: the connection is handed over.
LEMMA ConnectedKeeps ==
  ASSUME ConnectInv, NEW t \in Threads, pc[t] = "probe", EndFlow(t),
         NEW probed \in {"current_user", None}, NEW dead, Connected(t, probed, dead)
  PROVE  ConnectInv'
<1> USE DEF ConnectInv
<1> DEFINE name == session_user_name(probed, params[attempt[t]].text["sessionuser"],
                                     params[attempt[t]].user)
           c == [dead |-> dead, probed |-> probed # None, user_name |-> name]
<1>1. Requesting(t) /\ attempt[t] \in Accepted
  BY DEF Requesting, LoginFits, Live
<1>2. /\ pc' = [pc EXCEPT ![t] = "connected"] /\ conn' = [conn EXCEPT ![t] = c]
      /\ UNCHANGED <<attempt, auth, error, logins, revocations>>
  BY DEF Connected
<1>3. NameFits(attempt[t], c)
  <2>1. probed \notin {"", None} \/ probed = None
    BY DEF None
  <2>2. name = "" => /\ probed = None
                     /\ LET cs == attempt[t].cs IN
                        IF Named(cs, "sessionuser") THEN cs["sessionuser"] = ""
                        ELSE Get(cs, "user", "") = "" /\ (Named(cs, "user") \/ External(cs))
    BY <1>1, <2>1, UserNameKnown
  <2>3. c.user_name = name /\ (c.probed <=> probed # None)
    OBVIOUS
  <2> HIDE DEF name, c
  <2> QED
    BY <2>2, <2>3 DEF NameFits
<1> HIDE DEF c
<1>4. pc'[t] = "connected" /\ conn'[t] = c /\ DOMAIN conn' = Threads
  BY <1>2 DEF Shape
<1>5. \A u \in Threads \ {t} : pc'[u] = pc[u] /\ conn'[u] = conn[u]
  BY <1>2 DEF Shape
<1>6. RequestEnds(t)
  BY <1>2, <1>5, EndFlowKeeps DEF RequestEnds
<1>7. /\ auths' \in Seq(Auths) /\ Len(auths') = Len(auths)
      /\ CacheIsExact' /\ FlowHasOwner' /\ LoginFits'
  BY <1>1, <1>6, RequestEndKeeps
<1>8. Shape'
  BY <1>2, <1>4, <1>7 DEF Shape
<1>9. OutcomeFits'
  <2>1. Outcome(t)'
    BY <1>2, <1>3, <1>4 DEF Outcome
  <2> QED
    BY <1>2, <1>5, <2>1, OutcomeKept DEF OutcomeFits
<1> QED
  BY <1>7, <1>8, <1>9

\* A request that has its token is not in a browser.
LEMMA ProbeEndKeeps ==
  ASSUME ConnectInv, NEW t \in Threads, Probed(t) \/ ProbeFails(t)
  PROVE  ConnectInv'
<1>1. CASE Probed(t)
  <2>1. PICK user \in {"current_user", None} : Connected(t, user, conn[t].dead)
    BY <1>1 DEF Probed
  <2>2. pc[t] = "probe" /\ ~NeedsLogin(t) /\ UNCHANGED auths
    BY <1>1 DEF Probed
  <2>3. ~InBrowser(t)
    <3> SUFFICES ASSUME InBrowser(t) PROVE FALSE
      OBVIOUS
    <3>1. auth[t] \in DOMAIN auths /\ auths[auth[t]].flow = t /\ t # None
      BY ThreadsAssumption DEF InBrowser, ConnectInv, Shape
    <3>2. ~auths[auth[t]].token
      BY <3>1 DEF ConnectInv, FlowHasOwner
    <3> QED
      BY <2>2, <3>2 DEF NeedsLogin, InBrowser
  <2>4. EndFlow(t)
    BY <2>2, <2>3 DEF EndFlow
  <2> QED
    BY <2>1, <2>2, <2>4, ConnectedKeeps
<1>2. CASE ProbeFails(t)
  <2>1. PICK e \in RequestErrors(t) : Connected(t, None, note(conn[t].dead, map_trino_error(e)))
    BY <1>2 DEF ProbeFails
  <2> QED
    BY <1>2, <2>1, ConnectedKeeps DEF ProbeFails
<1> QED
  BY <1>1, <1>2

\* The application lets go of a connection, or of a connect that failed.
LEMMA ReleaseKeeps ==
  ASSUME ConnectInv, NEW t \in Threads, Release(t)
  PROVE  ConnectInv'
<1> USE DEF ConnectInv
<1>1. /\ pc[t] \in {"connected", "failed"} /\ pc' = [pc EXCEPT ![t] = "idle"]
      /\ auth' = [auth EXCEPT ![t] = 0] /\ error' = [error EXCEPT ![t] = NoError]
      /\ conn' = [conn EXCEPT ![t] = NewConn] /\ attempt' = [attempt EXCEPT ![t] = AnyAttempt]
      /\ UNCHANGED <<auths, logins, revocations>>
  BY DEF Release
<1>2. AnyAttempt \in Attempts
  BY AttemptsAssumption DEF AnyAttempt
<1>3. \A u \in Threads \ {t} : /\ pc'[u] = pc[u] /\ auth'[u] = auth[u] /\ error'[u] = error[u]
                               /\ conn'[u] = conn[u] /\ attempt'[u] = attempt[u]
  BY <1>1 DEF Shape
<1>4. pc'[t] = "idle" /\ conn'[t] = NewConn
  BY <1>1 DEF Shape
<1>5. Shape'
  BY <1>1, <1>2 DEF Shape
<1>6. CacheIsExact'
  BY <1>1 DEF CacheIsExact
<1>7. FlowHasOwner'
  <2>1. ~Requesting(t) /\ auths' \in Seq(Auths) /\ auths' = auths
    BY <1>1 DEF Requesting, Shape
  <2> QED
    BY <1>3, <2>1, FlowKept
<1>8. LoginFits'
  <2>1. \A u \in Threads : Live(u)' => u # t /\ Live(u)
    BY <1>3, <1>4 DEF Live
  <2> QED
    BY <1>1, <1>3, <2>1 DEF LoginFits
<1>9. OutcomeFits'
  <2>1. Outcome(t)'
    BY <1>4 DEF Outcome
  <2> QED
    BY <1>3, <2>1, OutcomeKept DEF OutcomeFits
<1> QED
  BY <1>5, <1>6, <1>7, <1>8, <1>9

LEMMA ConnectInvStep == ConnectInv /\ [Next]_vars => ConnectInv'
<1> SUFFICES ASSUME ConnectInv, [Next]_vars PROVE ConnectInv'
  OBVIOUS
<1>1. ASSUME NEW t \in Threads, RefuseParameters(t) PROVE ConnectInv'
  BY <1>1, RefusalKeeps DEF RefuseParameters
<1>2. ASSUME NEW t \in Threads, RefuseAuth(t) PROVE ConnectInv'
  BY <1>2, RefusalKeeps DEF RefuseAuth
<1>3. ASSUME NEW t \in Threads, BuildFails(t) PROVE ConnectInv'
  BY <1>3, BuildFailsKeeps
<1>4. ASSUME NEW t \in Threads, Build(t) PROVE ConnectInv'
  BY <1>4, BuildKeeps
<1>5. ASSUME NEW t \in Threads, OpenBrowser(t) \/ CompleteLogin(t) PROVE ConnectInv'
  BY <1>5, LoginKeeps
<1>6. ASSUME NEW i \in DOMAIN auths, RevokeToken(i) PROVE ConnectInv'
  BY <1>6, LoginKeeps
<1>7. ASSUME NEW t \in Threads, Validated(t) PROVE ConnectInv'
  BY <1>7, ValidatedKeeps
<1>8. ASSUME NEW t \in Threads, ValidationFails(t) \/ DeadlineExpires(t) PROVE ConnectInv'
  BY <1>8, ValidationEndKeeps
<1>9. ASSUME NEW t \in Threads, Probed(t) \/ ProbeFails(t) PROVE ConnectInv'
  BY <1>9, ProbeEndKeeps
<1>10. ASSUME NEW t \in Threads, Release(t) PROVE ConnectInv'
  BY <1>10, ReleaseKeeps
<1>11. CASE UNCHANGED vars
  BY <1>11 DEF vars, ConnectInv, Shape, CacheIsExact, FlowHasOwner, LoginFits, OutcomeFits,
               Outcome, Requesting, Live
<1> QED
  BY <1>1, <1>2, <1>3, <1>4, <1>5, <1>6, <1>7, <1>8, <1>9, <1>10, <1>11 DEF Next

LEMMA ConnectInvHolds == Spec => []ConnectInv
BY ConnectInvInit, ConnectInvStep, PTL DEF Spec
-----------------------------------------------------------------------------
(* The theorems.                                                            *)

\* For any threads that connect, the state keeps its shape: no thread is
\* authenticated by an Auth that was not made, a browser is open only for a thread
\* whose request runs, and the cache names only Auths there are (oauth2_auth).
THEOREM TypeCorrect == Spec => []TypeOK
<1>1. ConnectInv => TypeOK
  <2> SUFFICES ASSUME ConnectInv PROVE TypeOK
    OBVIOUS
  <2> USE DEF ConnectInv
  <2>1. /\ pc \in [Threads -> {"idle", "validate", "probe", "connected", "failed"}]
        /\ attempt \in [Threads -> Attempts]
        /\ auth \in [Threads -> 0..Len(auths)]
        /\ revocations \in 0..MaxRevocations
    BY DEF Shape
  <2>2. \A i \in DOMAIN auths : auths[i].token \in BOOLEAN
    <3>1. \A i \in DOMAIN auths : auths[i] \in Auths
      BY DEF Shape
    <3> QED
      BY <3>1 DEF Auths
  <2>3. \A i \in DOMAIN auths : auths[i].flow # None =>
          auths[i].flow \in Threads /\ Requesting(auths[i].flow)
    BY DEF FlowHasOwner
  <2>4. \A key \in DOMAIN logins : logins[key] \in DOMAIN auths
    BY DEF CacheIsExact
  <2> QED
    BY <2>1, <2>2, <2>3, <2>4 DEF TypeOK
<1> QED
  BY <1>1, ConnectInvHolds, PTL

\* However many connections of one identity are made at once, one browser at most
\* is open for it, and none while a token of it is at hand (OAUTH2_LOGINS).
THEOREM OneBrowser == Spec => []OneBrowserPerIdentity
<1>1. ConnectInv => OneBrowserPerIdentity
  <2> SUFFICES ASSUME ConnectInv, NEW t \in Threads, InBrowser(t),
                      NEW i \in DOMAIN auths \ {auth[t]}, auths[i].key = auths[auth[t]].key
               PROVE  FALSE
    BY DEF OneBrowserPerIdentity
  <2>1. auth[t] \in DOMAIN auths
    BY DEF ConnectInv, Shape, InBrowser
  <2>2. logins[auths[i].key] = i /\ logins[auths[auth[t]].key] = auth[t]
    BY <2>1 DEF ConnectInv, CacheIsExact
  <2> QED
    BY <2>2
<1> QED
  BY <1>1, ConnectInvHolds, PTL

\* No two connections share a login unless they asked for the same coordinator and
\* the same user (OAuth2Key).
THEOREM LoginsAreOwn == Spec => []LoginIsOwn
<1>1. ConnectInv => LoginIsOwn
  <2> SUFFICES ASSUME ConnectInv, NEW t \in Threads, NEW u \in Threads, Live(t), Live(u),
                      auth[t] # 0, auth[t] = auth[u]
               PROVE  Identity(attempt[t]) = Identity(attempt[u])
    BY DEF LoginIsOwn
  <2>1. /\ attempt[t] \in Accepted /\ attempt[u] \in Accepted
        /\ OAuth2Key(attempt[t]) = OAuth2Key(attempt[u])
    BY DEF ConnectInv, LoginFits
  <2>2. ASSUME NEW a \in Accepted
        PROVE  OAuth2Key(a) = [secure |-> Secure(a.cs), host |-> a.cs["host"],
                               port |-> a.cs["port"].n, user |-> Get(a.cs, "user", None)]
    BY <2>2, ParamsOfAccepted DEF OAuth2Key
  <2>3. /\ Secure(attempt[t].cs) = Secure(attempt[u].cs)
        /\ attempt[t].cs["host"] = attempt[u].cs["host"]
        /\ attempt[t].cs["port"].n = attempt[u].cs["port"].n
        /\ Get(attempt[t].cs, "user", None) = Get(attempt[u].cs, "user", None)
    <3> DEFINE x == OAuth2Key(attempt[t])
               y == OAuth2Key(attempt[u])
    <3>1. /\ x.secure = Secure(attempt[t].cs) /\ x.host = attempt[t].cs["host"]
          /\ x.port = attempt[t].cs["port"].n /\ x.user = Get(attempt[t].cs, "user", None)
      BY <2>1, <2>2
    <3>2. /\ y.secure = Secure(attempt[u].cs) /\ y.host = attempt[u].cs["host"]
          /\ y.port = attempt[u].cs["port"].n /\ y.user = Get(attempt[u].cs, "user", None)
      BY <2>1, <2>2
    <3>3. x = y
      BY <2>1
    <3> HIDE DEF x, y
    <3> QED
      BY <3>1, <3>2, <3>3
  <2> QED
    BY <2>3 DEF Identity
<1> QED
  BY <1>1, ConnectInvHolds, PTL

\* No credential and no login travels without TLS, a connection carries one of them
\* at most, and the coordinator's certificate is checked as every key asks that
\* speaks of it (resolve_auth, parse_tls_verification).
THEOREM CredentialsOverTLS == Spec => []CredentialsNeedTLS
<1>1. ConnectInv => CredentialsNeedTLS
  <2> SUFFICES ASSUME ConnectInv, NEW t \in Threads, Live(t)
               PROVE  /\ Credential(attempt[t]) # None \/ auth[t] # 0 => Secure(attempt[t].cs)
                      /\ ~(Credential(attempt[t]) # None /\ auth[t] # 0)
                      /\ LET cs    == attempt[t].cs
                             words == {TlsWord(cs[key]) :
                                         key \in {"tlsverify", "sslverification"} \intersect DOMAIN cs}
                         IN words \union {try_from(cs).tls_verification} \in {words, {"Full"}}
    BY DEF CredentialsNeedTLS
  <2>1. /\ attempt[t] \in Accepted
        /\ auth[t] # 0 => AuthChoice(attempt[t]) = "External"
    BY DEF ConnectInv, LoginFits
  <2> QED
    BY <2>1, AuthNeedsTLS, TlsAsAsked
<1> QED
  BY <1>1, ConnectInvHolds, PTL

\* Whatever the client answers, a connect that fails reports a SQLSTATE of the
\* connection functions and the coordinator's own code, and the link is marked
\* dead exactly when the coordinator was not reached (validate_connection,
\* connection_failed, Liveness::note).
THEOREM FailuresReported == Spec => []FailureIsReported
<1>1. ConnectInv => FailureIsReported
  BY DEF ConnectInv, OutcomeFits, Outcome, FailureFits, Reported, FailureIsReported
<1> QED
  BY <1>1, ConnectInvHolds, PTL

\* Where zero was named, no connect reports that time ran out (request_timeout).
THEOREM ZeroNeverTimesOut == Spec => []ZeroIsNoTimeout
<1>1. ConnectInv => ZeroIsNoTimeout
  BY DEF ConnectInv, OutcomeFits, Outcome, FailureFits, ZeroIsNoTimeout
<1> QED
  BY <1>1, ConnectInvHolds, PTL

\* SQL_USER_NAME is empty only after a failed probe, for a key left blank or a user
\* nobody named (session_user_name).
THEOREM UserNamesKnown == Spec => []UserNameIsKnown
<1>1. ConnectInv => UserNameIsKnown
  BY DEF ConnectInv, OutcomeFits, Outcome, NameFits, UserNameIsKnown
<1> QED
  BY <1>1, ConnectInvHolds, PTL
=============================================================================
