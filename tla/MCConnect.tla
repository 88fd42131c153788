------------------------------ MODULE MCConnect ------------------------------
(* Connect with two threads and the attempts that differ in what it decides. *)
EXTENDS Connect

Base == [host |-> "coordinator", port |-> Num(8443)]
With(cs1, cs2) == [k \in DOMAIN cs1 \union DOMAIN cs2 |-> IF k \in DOMAIN cs2 THEN cs2[k] ELSE cs1[k]]
Asked(more, may_prompt, login_timeout, connection_timeout) ==
  [cs |-> With(Base, more), may_prompt |-> may_prompt,
   login_timeout |-> login_timeout, connection_timeout |-> connection_timeout]

Proxied == [proxy |-> <<"proxy", "/", "@">>, proxyuser |-> "ann", proxypassword |-> "secret"]

\* What is refused, or contradicts itself.
Words == {"true", "ca", "false", "yes"}
Contradictions ==
  {pair \in [tlsverify : Words, sslverification : {"full", "ca", "none"}] :
     pair \notin {[tlsverify |-> "true", sslverification |-> "full"],
                  [tlsverify |-> "false", sslverification |-> "none"]}}
  \union {[certificate |-> "pem", protocol |-> "http"], [protocol |-> "ftp"], [port |-> Num(65536)],
          [proxy |-> <<"http", "://", "ann", "@", "proxy">>],
          [proxyuser |-> "ann", proxypassword |-> "secret"], [proxy |-> <<"proxy">>, proxyuser |-> "ann"],
          [roles |-> << <<"ALL">> >>], [sessionproperties |-> << <<"", "1">> >>],
          [disablecompression |-> "yes"], [timezone |-> "unknown"], [encoding |-> "xml"],
          [maxattempts |-> Num(0)], [querytimeout |-> [text |-> "other", n |-> 0]]}

MCAttempts ==
  { Asked([externalauthentication |-> "true"], TRUE, Blank, Blank),
    Asked([externalauthentication |-> "true", user |-> "ann"], TRUE, Num(5), Blank),
    Asked([externalauthentication |-> "true", querytimeout |-> Num(0)], TRUE, Num(0), Blank),
    Asked([externalauthentication |-> "true", protocol |-> "http"], TRUE, Blank, Blank),
    Asked([externalauthentication |-> "true", user |-> "ann"], FALSE, Num(5), Blank),
    Asked([externalauthentication |-> "true", sessionuser |-> "bob", extraheaders |-> <<>>],
          TRUE, Num(5), Num(0)),
    Asked([user |-> "ann", password |-> "secret", tlsverify |-> "ca", certificate |-> "pem",
           querytimeout |-> Blank, logintimeout |-> Num(9)], TRUE, Num(5), Num(0)),
    Asked([user |-> "ann", accesstoken |-> "jwt", protocol |-> "http"], FALSE, Blank, Blank),
    Asked([user |-> "ann", sessionuser |-> "", password |-> "secret", protocol |-> "http"],
          FALSE, Blank, Num(9)),
    Asked(With([user |-> "ann", accesstoken |-> "jwt", tlsverify |-> "false", sslverification |-> "none",
                roles |-> << <<"hive", "ALL">>, <<>>, <<"hive", "admin">> >>], Proxied), FALSE, Blank, Num(0)),
    Asked([protocol |-> "http"], TRUE, Blank, Blank) }
  \union {Asked(With([user |-> "ann", password |-> "secret"], more), FALSE, Blank, Blank) : more \in Contradictions}

\* One error for each arm of the mapping; the request's own timeout and the login's
\* refusal come from the model.
MCAnswers == ClientErrors({3, 44}, {401, 502}) \
               {HttpError(FALSE, TRUE), Plain("OAuth2"), Plain("Forbidden"), Plain("Other")}
=============================================================================
