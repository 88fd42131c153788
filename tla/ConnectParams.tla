---------------------------- MODULE ConnectParams ----------------------------
(***************************************************************************)
(* TrinoConnectParams: what the driver makes of a connection string.       *)
(*                                                                         *)
(* A connection string is a function from the keys it names to values. A   *)
(* value is a word, a number (Num, or the Words that are none), a sequence *)
(* of pairs, or a sequence of URL parts, and stands for every spelling     *)
(* that is read alike. All refusals reach the application as HY000, so     *)
(* which of several comes first is left out.                               *)
(***************************************************************************)
EXTENDS Naturals, Sequences, SequencesExt

Num(n) == [text |-> "number", n |-> n]
Blank  == [text |-> "blank", n |-> 0]

Named(cs, key) == key \in DOMAIN cs
Get(cs, key, default) == IF Named(cs, key) THEN cs[key] ELSE default

DEFAULT_PROTOCOL == "https"
DEFAULT_QUERY_TIMEOUT_SECS == 30
DEFAULT_EXTERNAL_AUTH_TIMEOUT_SECS == 300
DEFAULT_SOURCE == "driver"
None == "not given"

PairKeys == {"sessionproperties", "extracredentials", "extraheaders",
             "resourceestimates", "roles"}
BoolKeys == {"externalauthentication", "disablecompression"}
PositiveKeys == {"externalauthenticationtimeout", "maxattempts"}
ListKeys == {"clienttags", "clientcapabilities"}
\* Passed through as they are.
TextKeys == {"password", "catalog", "schema", "path", "clientinfo", "tracetoken",
             "sessionuser", "locale", "certificate", "clientcertificate",
             "proxyuser", "proxypassword", "accesstoken", "token"}
-----------------------------------------------------------------------------
(* Values.                                                                  *)

\* Pairs between semicolons: <<>> for an empty one, <<x>> for one without a
\* colon, <<name, value>> otherwise.
BadPair(pair) == Len(pair) = 1 \/ (Len(pair) = 2 /\ pair[1] = "")

\* The last value of a name stands, as HashMap::insert leaves it.
parse_key_value_pairs(raw) ==
  LET Names == {raw[i][1] : i \in {j \in DOMAIN raw : Len(raw[j]) = 2}}
      LastOf(name) == CHOOSE i \in DOMAIN raw :
                        /\ Len(raw[i]) = 2 /\ raw[i][1] = name
                        /\ \A j \in (i + 1)..Len(raw) : Len(raw[j]) # 2 \/ raw[j][1] # name
  IN [name \in Names |-> raw[LastOf(name)][2]]

\* Elements between commas, trimmed; the empty ones are dropped.
NonEmpty(raw) == {raw[i] : i \in DOMAIN raw} \ {""}

\* The authority starts after the first "://", if there is one, and ends at the
\* first "/", "?" or "#".
authority(url) ==
  LET scheme == SelectInSeq(url, LAMBDA part : part = "://")
      after  == SubSeq(url, scheme + 1, Len(url))
      end    == SelectInSeq(after, LAMBDA part : part \in {"/", "?", "#"})
  IN IF end = 0 THEN after ELSE SubSeq(after, 1, end - 1)

proxy_url_refused(url) == Contains(authority(url), "@")

selected_role(value) ==
  CASE value = "ALL" -> [type |-> "All", role |-> None]
    [] value = "NONE" -> [type |-> "None", role |-> None]
    [] OTHER -> [type |-> "Role", role |-> value]

TlsWord(v) ==
  CASE v \in {"true", "full"} -> "Full"
    [] v = "ca" -> "CaOnly"
    [] v \in {"false", "none"} -> "None"
    [] OTHER -> "Err"

\* Two names of one setting: both given, they have to agree.
parse_tls_verification(tls_verify, ssl_verification) ==
  LET words == {TlsWord(v) : v \in {tls_verify, ssl_verification} \ {None}} IN
  CASE words = {} -> "Full"
    [] \E w \in words : words = {w} -> CHOOSE w \in words : TRUE
    [] OTHER -> "Err"

\* QueryTimeout, or its alias when QueryTimeout is not named; blank is unset.
timeout_key(cs) ==
  IF Named(cs, "querytimeout") THEN cs["querytimeout"] ELSE Get(cs, "logintimeout", Blank)
-----------------------------------------------------------------------------
(* TrinoConnectParams::try_from.                                            *)

Tls(cs) == parse_tls_verification(Get(cs, "tlsverify", None), Get(cs, "sslverification", None))
Secure(cs) == Get(cs, "protocol", DEFAULT_PROTOCOL) = "https"
External(cs) == Get(cs, "externalauthentication", "false") = "true"

AddressRefused(cs) ==
  \/ ~Named(cs, "host") \/ ~Named(cs, "port")
  \/ Named(cs, "port") /\ (cs["port"].text # "number" \/ cs["port"].n > 65535)

\* Somebody has to name the user, unless the identity provider does.
UserRefused(cs) == ~Named(cs, "user") /\ ~External(cs)

\* Neither certificate can be honoured without TLS, and a chain that is
\* checked against no name needs roots of its own.
TransportRefused(cs) ==
  \/ Get(cs, "protocol", DEFAULT_PROTOCOL) \notin {"https", "http"}
  \/ Tls(cs) = "Err"
  \/ ~Secure(cs) /\ (Named(cs, "certificate") \/ Named(cs, "clientcertificate"))
  \/ Tls(cs) = "CaOnly" /\ ~Named(cs, "certificate")

ProxyRefused(cs) ==
  \/ Named(cs, "proxy") /\ proxy_url_refused(cs["proxy"])
  \/ Named(cs, "proxyuser") # Named(cs, "proxypassword")
  \/ Named(cs, "proxyuser") /\ ~Named(cs, "proxy")

ValueRefused(cs) ==
  \/ \E key \in PairKeys \intersect DOMAIN cs : \E i \in DOMAIN cs[key] : BadPair(cs[key][i])
  \/ \E key \in BoolKeys \intersect DOMAIN cs : cs[key] \notin {"true", "false"}
  \/ Named(cs, "timezone") /\ cs["timezone"] = "unknown"
  \/ Named(cs, "encoding") /\ cs["encoding"] \notin {"json", "json+zstd", "json+lz4"}

\* Zero is no budget for a login or a retry, and it is one for a request.
NumberRefused(cs) ==
  \/ \E key \in PositiveKeys \intersect DOMAIN cs : cs[key].text # "number" \/ cs[key].n = 0
  \/ timeout_key(cs).text = "other"

Refused(cs) ==
  \/ AddressRefused(cs) \/ UserRefused(cs) \/ TransportRefused(cs)
  \/ ProxyRefused(cs) \/ ValueRefused(cs) \/ NumberRefused(cs)

Seconds(value, default) == IF value.text = "number" THEN value.n ELSE default

\* The parameters of a connection string that is not refused.
try_from(cs) ==
  [host |-> cs["host"], port |-> cs["port"].n,
   user |-> Get(cs, "user", None),
   secure |-> Secure(cs),
   tls_verification |-> Tls(cs),
   external_authentication |-> External(cs),
   external_auth_timeout |->
     Seconds(Get(cs, "externalauthenticationtimeout", Blank), DEFAULT_EXTERNAL_AUTH_TIMEOUT_SECS),
   access_token |-> IF Named(cs, "accesstoken") THEN cs["accesstoken"] ELSE Get(cs, "token", None),
   query_timeout |-> Seconds(timeout_key(cs), DEFAULT_QUERY_TIMEOUT_SECS),
   max_attempts |-> Seconds(Get(cs, "maxattempts", Blank), 0),    \* 0: the client's own
   compression_disabled |-> Get(cs, "disablecompression", "false") = "true",
   spooling_encoding |-> Get(cs, "encoding", None),
   time_zone |-> Get(cs, "timezone", None),
   source |-> LET s == Get(cs, "source", "") IN IF s = "" THEN DEFAULT_SOURCE ELSE s,
   lists |-> [key \in ListKeys |-> NonEmpty(Get(cs, key, <<>>))],
   pairs |-> [key \in PairKeys \ {"roles"} |-> parse_key_value_pairs(Get(cs, key, <<>>))],
   roles |-> LET named == parse_key_value_pairs(Get(cs, "roles", <<>>))
             IN [catalog \in DOMAIN named |-> selected_role(named[catalog])],
   proxy |-> Get(cs, "proxy", <<>>),
   text |-> [key \in TextKeys |-> Get(cs, key, None)]]
=============================================================================
