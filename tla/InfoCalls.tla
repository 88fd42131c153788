------------------------------ MODULE InfoCalls ------------------------------
(***************************************************************************)
(* SQLGetInfo over the life of a connection handle: before the connect, as *)
(* the Windows Driver Manager asks, and after it, with what the probe told *)
(* about the coordinator (backend.rs, info.rs).                            *)
(***************************************************************************)
EXTENDS DriverInfo

CONSTANT Connections    \* what a connection can be; runs is the version it talks to

\* The probe tells the version that runs, or none.
ASSUME ConnectionsAssumption ==
  /\ Connections \subseteq
       [runs : Nat, server_major : Nat, dbms_version : STRING, data_source_name : STRING,
        server_name : STRING, user_name : STRING, catalog : STRING, session_catalog : STRING]
  /\ \A conn \in Connections : conn.server_major \in {0, conn.runs}

VARIABLES
  connection,   \* the TrinoConnection behind the handle, if any
  before,       \* observer: what the application was told without one
  now           \* observer: what it was told of this one

info_vars == <<connection, before, now>>

NotConnected == [link |-> "none"]
Untold == [told |-> "nothing"]

InfoInit == connection = NotConnected /\ before = Untold /\ now = Untold
-----------------------------------------------------------------------------
\* An application asks for everything at once.
AnswersOf(conn) == [type \in InfoTypes(conn) |-> get_info(conn, type)]
AnswersBefore == [type \in PreConnectTypes |-> get_info_pre_connect(type)]

SQLGetInfoBefore ==
  /\ connection = NotConnected
  /\ before' = AnswersBefore
  /\ UNCHANGED <<connection, now>>

SQLGetInfo ==
  /\ connection # NotConnected
  /\ now' = AnswersOf(connection)
  /\ UNCHANGED <<connection, before>>

\* connect, which ends with the probe.
Connected ==
  /\ connection = NotConnected
  /\ connection' \in Connections
  /\ UNCHANGED <<before, now>>

\* USE: the client takes the catalog from the response.
Use ==
  /\ connection # NotConnected
  /\ \E conn \in Connections :
       /\ conn.session_catalog \notin {"", connection.session_catalog}
       /\ connection' = [connection EXCEPT !.session_catalog = conn.session_catalog]
  /\ UNCHANGED <<before, now>>

\* What was said of one coordinator is not said of the next.
Disconnected ==
  /\ connection # NotConnected
  /\ connection' = NotConnected /\ now' = Untold
  /\ UNCHANGED before

InfoNext == SQLGetInfoBefore \/ SQLGetInfo \/ Connected \/ Use \/ Disconnected
InfoSpec == InfoInit /\ [][InfoNext]_info_vars
-----------------------------------------------------------------------------
(* Properties.                                                              *)

\* The release that brought a piece of grammar (external).
Since(claim) ==
  CASE claim \in {"MATCH_FULL", "MATCH_PARTIAL", "MATCH_UNIQUE_FULL", "MATCH_UNIQUE_PARTIAL", "UNIQUE"} -> 482
    [] claim = "OVERLAPS" -> 483
    [] claim = "CORRESPONDING_CLAUSE" -> 475
    [] OTHER -> 0

\* A tool that folds on the predicates and joins SQLGetInfo claims never sends one
\* that the coordinator it is connected to cannot parse, also when the version
\* probe failed and the version is not known; and what was said before a connect
\* stands after it, or was empty (get_info_raw, trino_get_info,
\* get_info_pre_connect). Functions are not among them: SOUNDEX, younger than the
\* oldest coordinators, is claimed of all.
ClaimsAreHonoured ==
  now # Untold =>
    /\ \A claim \in now["SQL_SQL92_PREDICATES"] \union now["SQL_SQL92_RELATIONAL_JOIN_OPERATORS"] :
         Since(claim) <= connection.runs
    /\ before # Untold => \A type \in DOMAIN before \intersect DOMAIN now : before[type] \in {{""}, now[type]}
=============================================================================
