------------------------------ MODULE DriverInfo ------------------------------
(***************************************************************************)
(* backend/info.rs and the capability methods of backend.rs: what the      *)
(* driver says of itself and of Trino through SQLGetInfo. A bitmap is the  *)
(* set of its bits, named as ODBC names them without the common prefix.    *)
(***************************************************************************)
EXTENDS Naturals, EscapeDialect

(* Scalar functions, by the escape that calls them.                         *)

TRINO_NUMERIC_FUNCTIONS ==
  {"ABS", "ACOS", "ASIN", "ATAN", "ATAN2", "CEILING", "COS", "EXP", "FLOOR", "LOG", "MOD",
   "SIGN", "SIN", "SQRT", "TAN", "PI", "RAND", "DEGREES", "LOG10", "POWER", "RADIANS",
   "ROUND", "TRUNCATE"}
TRINO_STRING_FUNCTIONS ==
  {"CONCAT", "LTRIM", "LENGTH", "LCASE", "LOCATE_2", "POSITION", "REPLACE", "RTRIM",
   "SUBSTRING", "UCASE", "CHAR", "SOUNDEX"}
TRINO_SYSTEM_FUNCTIONS == {"USERNAME", "DBNAME", "IFNULL"}
TRINO_TIMEDATE_FUNCTIONS ==
  {"NOW", "CURDATE", "CURTIME", "CURRENT_DATE", "CURRENT_TIME", "CURRENT_TIMESTAMP",
   "DAYOFMONTH", "DAYOFWEEK", "DAYOFYEAR", "MONTH", "QUARTER", "WEEK", "YEAR", "HOUR",
   "MINUTE", "SECOND", "TIMESTAMPADD", "TIMESTAMPDIFF", "EXTRACT"}
TRINO_TIMESTAMP_INTERVALS ==
  {"SQL_TSI_SECOND", "SQL_TSI_MINUTE", "SQL_TSI_HOUR", "SQL_TSI_DAY", "SQL_TSI_WEEK",
   "SQL_TSI_MONTH", "SQL_TSI_QUARTER", "SQL_TSI_YEAR"}
Advertised ==
  TRINO_NUMERIC_FUNCTIONS \union TRINO_STRING_FUNCTIONS
    \union TRINO_SYSTEM_FUNCTIONS \union TRINO_TIMEDATE_FUNCTIONS
-----------------------------------------------------------------------------
(* SQL-92, by the major version of the coordinator; 0 is one that no probe  *)
(* has told.                                                                *)

TRINO_CORRESPONDING_SINCE == 475
TRINO_MATCH_AND_UNIQUE_SINCE == 482
TRINO_OVERLAPS_SINCE == 483

\* A likely mistake: a coordinator of unknown version is taken for the latest.
claims_latest(server_major) ==
  {"EXISTS", "ISNOTNULL", "ISNULL", "LIKE", "IN", "BETWEEN", "COMPARISON", "QUANTIFIED_COMPARISON"}
  \union (IF server_major = 0 \/ server_major >= TRINO_MATCH_AND_UNIQUE_SINCE
          THEN {"MATCH_FULL", "MATCH_PARTIAL", "MATCH_UNIQUE_FULL", "MATCH_UNIQUE_PARTIAL", "UNIQUE"}
          ELSE {})
  \union (IF server_major = 0 \/ server_major >= TRINO_OVERLAPS_SINCE THEN {"OVERLAPS"} ELSE {})

sql92_predicates(server_major) ==
  {"EXISTS", "ISNOTNULL", "ISNULL", "LIKE", "IN", "BETWEEN", "COMPARISON", "QUANTIFIED_COMPARISON"}
  \union (IF server_major >= TRINO_MATCH_AND_UNIQUE_SINCE
          THEN {"MATCH_FULL", "MATCH_PARTIAL", "MATCH_UNIQUE_FULL", "MATCH_UNIQUE_PARTIAL", "UNIQUE"}
          ELSE {})
  \union (IF server_major >= TRINO_OVERLAPS_SINCE THEN {"OVERLAPS"} ELSE {})

sql92_join_operators(server_major) ==
  {"CROSS_JOIN", "EXCEPT_JOIN", "FULL_OUTER_JOIN", "INNER_JOIN", "INTERSECT_JOIN",
   "LEFT_OUTER_JOIN", "RIGHT_OUTER_JOIN"}
  \union (IF server_major >= TRINO_CORRESPONDING_SINCE THEN {"CORRESPONDING_CLAUSE"} ELSE {})
-----------------------------------------------------------------------------
(* The four places an answer can come from.                                 *)

NoAnswerHere == {"no answer"}

\* The escape character of a catalog function's pattern argument.
search_pattern_escape == "\\"

\* Before everything else, for the types core has no name for (get_info_raw).
RawAnswers(conn) ==
  [SQL_AGGREGATE_FUNCTIONS |-> {"AVG", "COUNT", "MAX", "MIN", "SUM", "DISTINCT", "ALL"},
   SQL_SQL92_PREDICATES |-> sql92_predicates(conn.server_major),
   SQL_SQL92_RELATIONAL_JOIN_OPERATORS |-> sql92_join_operators(conn.server_major),
   SQL_SQL92_VALUE_EXPRESSIONS |-> {"CASE", "CAST", "COALESCE", "NULLIF"},
   SQL_NUMERIC_FUNCTIONS |-> TRINO_NUMERIC_FUNCTIONS,
   SQL_STRING_FUNCTIONS |-> TRINO_STRING_FUNCTIONS,
   SQL_SYSTEM_FUNCTIONS |-> TRINO_SYSTEM_FUNCTIONS,
   SQL_TIMEDATE_FUNCTIONS |-> TRINO_TIMEDATE_FUNCTIONS,
   SQL_LIKE_ESCAPE_CLAUSE |-> {"Y"},
   SQL_OUTER_JOINS |-> {"Y"}]

\* What a qualified name is good for, and how rows are fetched (trino_get_info).
Arms ==
  [SQL_SCHEMA_USAGE |-> {"DML", "PROCEDURE_INVOCATION", "TABLE_DEFINITION", "PRIVILEGE_DEFINITION"},
   SQL_CATALOG_USAGE |-> {"DML", "PROCEDURE_INVOCATION", "TABLE_DEFINITION", "PRIVILEGE_DEFINITION"},
   SQL_CATALOG_LOCATION |-> {"START"},
   SQL_GETDATA_EXTENSIONS |-> {"ANY_COLUMN", "ANY_ORDER", "BOUND"},
   SQL_MULT_RESULT_SETS |-> {"N"},
   SQL_NEED_LONG_DATA_LEN |-> {"N"},
   SQL_MAX_ROW_SIZE_INCLUDES_LONG |-> {"N"}]

\* Who and where: settled by connect, empty before.
Identity(conn) ==
  [SQL_DATA_SOURCE_NAME |-> {conn.data_source_name},
   SQL_SERVER_NAME |-> {conn.server_name},
   SQL_USER_NAME |-> {conn.user_name}]

\* The capability methods, which core's default_get_info reads: names and what a
\* statement may say about them,
NameCapabilities ==
  [SQL_CATALOG_NAME |-> {"Y"},
   SQL_ALTER_TABLE |-> {"ADD_COLUMN_SINGLE", "ADD_CONSTRAINT", "DROP_COLUMN"},
   SQL_OJ_CAPABILITIES |-> {"LEFT", "RIGHT", "FULL", "NESTED", "NOT_ORDERED", "INNER",
                            "ALL_COMPARISON_OPS"},
   SQL_GROUP_BY |-> {"GROUP_BY_CONTAINS_SELECT"},
   SQL_NULL_COLLATION |-> {"END"},
   SQL_CORRELATION_NAME |-> {"ANY"},
   SQL_IDENTIFIER_CASE |-> {"LOWER"},
   SQL_QUOTED_IDENTIFIER_CASE |-> {"LOWER"},
   SQL_NON_NULLABLE_COLUMNS |-> {"NON_NULL"},
   SQL_EXPRESSIONS_IN_ORDERBY |-> {"Y"}]

\* what an expression may hold and what the catalog functions show,
ExpressionCapabilities ==
  [SQL_SQL_CONFORMANCE |-> {},
   SQL_TIMEDATE_ADD_INTERVALS |-> TRINO_TIMESTAMP_INTERVALS,
   SQL_TIMEDATE_DIFF_INTERVALS |-> TRINO_TIMESTAMP_INTERVALS,
   SQL_SUBQUERIES |-> {"COMPARISON", "EXISTS", "IN", "QUANTIFIED", "CORRELATED_SUBQUERIES"},
   SQL_COLUMN_ALIAS |-> {"Y"},
   SQL_CONCAT_NULL_BEHAVIOR |-> {"NULL"},
   SQL_UNION |-> {"UNION", "UNION_ALL"},
   SQL_CONVERT_FUNCTIONS |-> {"CAST"},
   SQL_ORDER_BY_COLUMNS_IN_SELECT |-> {"N"},
   SQL_ACCESSIBLE_TABLES |-> {"N"},
   SQL_ACCESSIBLE_PROCEDURES |-> {"N"},
   SQL_INTEGRITY |-> {"N"},
   SQL_SPECIAL_CHARACTERS |-> {},
   SQL_DATA_SOURCE_READ_ONLY |-> {"N"},
   SQL_SEARCH_PATTERN_ESCAPE |-> {search_pattern_escape}]

\* and what a transaction does.
TransactionCapabilities ==
  [SQL_TXN_CAPABLE |-> {"DML"},
   SQL_MULTIPLE_ACTIVE_TXN |-> {"Y"},
   SQL_DEFAULT_TXN_ISOLATION |-> {"READ_UNCOMMITTED"},
   SQL_TXN_ISOLATION_OPTION |-> {"READ_UNCOMMITTED"},
   SQL_CURSOR_COMMIT_BEHAVIOR |-> {"CLOSE"},
   SQL_CURSOR_ROLLBACK_BEHAVIOR |-> {"CLOSE"}]

Capabilities ==
  [type \in DOMAIN NameCapabilities \union DOMAIN ExpressionCapabilities \union DOMAIN TransactionCapabilities |->
     IF type \in DOMAIN NameCapabilities THEN NameCapabilities[type]
     ELSE IF type \in DOMAIN ExpressionCapabilities THEN ExpressionCapabilities[type]
     ELSE TransactionCapabilities[type]]

\* The catalog the session is on now: USE moves it, the connection string's
\* stands until a response has told.
current_catalog(conn) ==
  IF conn.session_catalog # "" THEN conn.session_catalog ELSE conn.catalog

OfConnection(conn) ==
  [SQL_DATABASE_NAME |-> {current_catalog(conn)}, SQL_DBMS_NAME |-> {"Trino"},
   SQL_DBMS_VER |-> {conn.dbms_version}]

\* Every type that is answered here; the rest is core's.
InfoTypes(conn) ==
  DOMAIN RawAnswers(conn) \union DOMAIN Arms \union DOMAIN Identity(conn)
    \union DOMAIN OfConnection(conn) \union DOMAIN Capabilities

\* The first place that knows the type answers.
get_info(conn, type) ==
  IF type \in DOMAIN RawAnswers(conn) THEN RawAnswers(conn)[type]
  ELSE IF type \in DOMAIN Arms THEN Arms[type]
  ELSE IF type \in DOMAIN Identity(conn) THEN Identity(conn)[type]
  ELSE IF type \in DOMAIN OfConnection(conn) THEN OfConnection(conn)[type]
  ELSE IF type \in DOMAIN Capabilities THEN Capabilities[type]
  ELSE NoAnswerHere

\* Without a connection the identity is empty, and core asks no capability.
EmptyBefore == {"SQL_DATA_SOURCE_NAME", "SQL_SERVER_NAME", "SQL_USER_NAME", "SQL_DBMS_VER"}
PreConnectTypes == DOMAIN Arms \union EmptyBefore

get_info_pre_connect(type) ==
  IF type \in DOMAIN Arms THEN Arms[type]
  ELSE IF type \in EmptyBefore THEN {""}
  ELSE NoAnswerHere
=============================================================================
