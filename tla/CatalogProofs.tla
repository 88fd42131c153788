---------------------------- MODULE CatalogProofs ----------------------------
(***************************************************************************)
(* Proofs about what an application is told of a data source.              *)
(*                                                                         *)
(* CatalogFunctions, for any coordinator and any calls: what the driver    *)
(* decides by was read before the round trip; CatalogInv says how long     *)
(* what it read stays true.                                                *)
(*                                                                         *)
(* InfoCalls, for every release of a coordinator and every probe, known or *)
(* failed: what SQLGetInfo claims, it can claim, in any order of connects, *)
(* USE and questions.                                                      *)
(***************************************************************************)
EXTENDS CatalogFunctions, InfoCalls, TLAPS

\* Until another thread moves it, a transaction is open exactly if the driver
\* read that it was.
ReadIsCurrent == search # NoSearch /\ ~moved => (read <=> in_transaction)

CatalogInv == CatalogTypeOK /\ ReadIsCurrent /\ AbortHiddenOnlyByARace
-----------------------------------------------------------------------------
(* Rows.                                                                    *)

\* Whatever TABLE_TYPE the coordinator has, a row that is answered has one that
\* SQLTables advertises.
LEMMA TablesAreAdvertised ==
  ASSUME NEW rows, NEW allowed, \A row \in rows : "table_type" \in DOMAIN row
  PROVE  \A row \in tables_rows(rows, allowed) : row.table_type \in table_types
  BY DEF tables_rows, table_types

LEMMA NullabilityIsKnown ==
  ASSUME NEW is_nullable
  PROVE  nullable(is_nullable) \in Nullabilities
  BY DEF nullable, Nullabilities

\* What a query selects has the columns of its relation.
LEMMA RowsHaveTheirColumns ==
  ASSUME NEW c \in DOMAIN World, NEW conditions
  PROVE  /\ \A row \in Selected(World[c]["tables"], conditions) : "table_type" \in DOMAIN row
         /\ \A row \in Selected(World[c]["columns"], conditions) : "is_nullable" \in DOMAIN row
  BY WorldAssumption DEF Selected

\* The rows of an answer, by the function that was called.
RowsFit(s, rows) ==
  /\ s.fn = "tables" => \A row \in rows : row.table_type \in table_types
  /\ s.fn = "columns" => \A row \in rows : row.is_nullable \in Nullabilities

LEMMA ConvertedRowsFit ==
  ASSUME NEW s \in Searches, NEW c \in DOMAIN World, NEW conditions, s.fn \in Queries
  PROVE  RowsFit(s, Converted(s, Selected(World[c][s.fn], conditions)))
  <1>1. CASE s.fn = "tables"
    <2>1. Converted(s, Selected(World[c][s.fn], conditions)) =
            tables_rows(Selected(World[c]["tables"], conditions), s.table_types)
      BY <1>1 DEF Converted
    <2> QED
      BY <1>1, <2>1, RowsHaveTheirColumns, TablesAreAdvertised DEF RowsFit
  <1>2. CASE s.fn = "columns"
    <2> DEFINE selected == Selected(World[c]["columns"], conditions)
    <2>1. Converted(s, Selected(World[c][s.fn], conditions)) =
            {[row EXCEPT !.is_nullable = nullable(row.is_nullable)] : row \in columns_rows(selected)}
      BY <1>2 DEF Converted
    <2>2. \A row \in columns_rows(selected) : "is_nullable" \in DOMAIN row
      BY RowsHaveTheirColumns DEF columns_rows
    <2>3. \A row \in columns_rows(selected) :
            [row EXCEPT !.is_nullable = nullable(row.is_nullable)].is_nullable \in Nullabilities
      BY <2>2, NullabilityIsKnown
    <2> HIDE DEF selected
    <2> QED
      BY <1>2, <2>1, <2>3 DEF RowsFit
  <1>3. CASE s.fn = "table_privileges"
    BY <1>3 DEF RowsFit
  <1> QED
    BY <1>1, <1>2, <1>3 DEF Queries
-----------------------------------------------------------------------------
(* The inductive invariant.                                                 *)

LEMMA CatalogInvInit == CatalogInit => CatalogInv
  <1> SUFFICES ASSUME CatalogInit PROVE CatalogInv
    OBVIOUS
  <1>1. found = NoAnswer /\ found.result = "none" /\ search = NoSearch
    BY DEF CatalogInit, NoAnswer
  <1>2. CatalogTypeOK
    BY <1>1 DEF CatalogInit, CatalogTypeOK
  <1>3. ReadIsCurrent /\ AbortHiddenOnlyByARace
    BY <1>1 DEF ReadIsCurrent, AbortHiddenOnlyByARace
  <1> QED
    BY <1>2, <1>3 DEF CatalogInv

LEMMA AskStep ==
  ASSUME CatalogInv, NEW s \in Searches, AskCatalog(s)
  PROVE  CatalogInv'
  BY DEF AskCatalog, CatalogInv, CatalogTypeOK, ReadIsCurrent, AbortHiddenOnlyByARace, in_transaction,
         NoAnswer, NoSearch

LEMMA AskNothingStep ==
  ASSUME CatalogInv, NEW fn \in EmptyFunctions, AskNothing(fn)
  PROVE  CatalogInv'
  BY DEF AskNothing, EmptyFunctions, CatalogInv, CatalogTypeOK, ReadIsCurrent, AbortHiddenOnlyByARace,
         NoAnswer, NoSearch

\* An answer whose rows fit and which hides no abort but a racing one.
LEMMA AnswerStep ==
  ASSUME CatalogInv, search # NoSearch, txn' \in {"none", "open", "aborted"},
         NEW result \in {"ok", "error"}, NEW rows, NEW aborted \in BOOLEAN,
         Answer(result, rows, aborted),
         RowsFit(search, rows),
         result = "ok" /\ aborted => moved
  PROVE  CatalogInv'
  <1>1. /\ search' = NoSearch /\ moved' = FALSE /\ read' = read
        /\ found' = [result |-> result, rows |-> rows, asked |-> search, aborted |-> aborted, moved |-> moved]
    BY DEF Answer
  <1>2. /\ found'.result = result /\ found'.rows = rows /\ found'.asked = search
        /\ found'.aborted = aborted /\ found'.moved = moved
    BY <1>1
  <1>3. CatalogTypeOK'
    BY <1>1, <1>2 DEF CatalogInv, CatalogTypeOK, RowsFit
  <1>4. AbortHiddenOnlyByARace'
    BY <1>2 DEF AbortHiddenOnlyByARace
  <1>5. ReadIsCurrent'
    BY <1>1 DEF ReadIsCurrent
  <1> QED
    BY <1>3, <1>4, <1>5 DEF CatalogInv

\* A failure is swallowed only where no transaction was read, so an abort it
\* caused is one of a transaction opened since.
LEMMA SwallowedAbortRaced ==
  ASSUME CatalogInv, search # NoSearch, NEW error, Swallowed(error), Aborting
  PROVE  moved
  BY DEF CatalogInv, CatalogTypeOK, ReadIsCurrent, Swallowed, Aborting, in_transaction

LEMMA QueryAnsweredStep ==
  ASSUME CatalogInv, QueryAnswered
  PROVE  CatalogInv'
  <1>1. search \in Searches /\ search # NoSearch /\ search.fn \in Queries
    BY DEF QueryAnswered, CatalogInv, CatalogTypeOK, NoSearch, Queries
  <1> DEFINE catalog == information_schema_ref(search.catalog)
             filters == [c \in DOMAIN search.filters \union {"catalog"} |->
                           IF c = "catalog" THEN search.catalog ELSE search.filters[c]]
             conditions == where_clause(filters)
             rows == Converted(search, Selected(World[catalog][search.fn], conditions))
             verdict == IF Swallowed(TRINO_CATALOG_NOT_FOUND) THEN "ok" ELSE "error"
  <1>2. CASE catalog \in DOMAIN World
    <2>1. Answer("ok", rows, FALSE) /\ txn' = txn
      BY <1>2 DEF QueryAnswered
    <2> HIDE DEF catalog, conditions
    <2>2. RowsFit(search, rows)
      BY <1>1, <1>2, ConvertedRowsFit
    <2> HIDE DEF rows
    <2> QED
      BY <1>1, <2>1, <2>2, AnswerStep DEF CatalogInv, CatalogTypeOK
  <1>3. CASE catalog \notin DOMAIN World
    <2>1. Answer(verdict, {}, Aborting) /\ txn' = IF Aborting THEN "aborted" ELSE txn
      BY <1>3 DEF QueryAnswered
    <2>2. verdict = "ok" /\ Aborting => moved
      BY <1>1, SwallowedAbortRaced
    <2>3. Aborting \in BOOLEAN /\ verdict \in {"ok", "error"}
      BY DEF Aborting
    <2>4. RowsFit(search, {})
      BY DEF RowsFit
    <2>5. txn' \in {"none", "open", "aborted"}
      BY <2>1 DEF CatalogInv, CatalogTypeOK
    <2> HIDE DEF verdict
    <2> QED
      BY <1>1, <2>1, <2>2, <2>3, <2>4, <2>5, AnswerStep
  <1> QED
    BY <1>2, <1>3

LEMMA EnumerationStep ==
  ASSUME CatalogInv, EnumerationAnswered
  PROVE  CatalogInv'
  <1>1. search # NoSearch /\ search.fn \notin Queries /\ txn' = txn
    BY DEF EnumerationAnswered, Enumerations, Queries, NoSearch
  <1>2. \E rows : Answer("ok", rows, FALSE)
    BY DEF EnumerationAnswered
  <1>3. PICK rows : Answer("ok", rows, FALSE)
    BY <1>2
  <1>4. RowsFit(search, rows)
    BY <1>1 DEF RowsFit, Queries
  <1> QED
    BY <1>1, <1>3, <1>4, AnswerStep DEF CatalogInv, CatalogTypeOK

LEMMA RefusedStep ==
  ASSUME CatalogInv, QueryRefused
  PROVE  CatalogInv'
  <1> DEFINE verdict == IF search.fn \notin Enumerations /\ Swallowed(OtherError) THEN "ok" ELSE "error"
  <1>1. /\ search # NoSearch /\ Answer(verdict, {}, Aborting)
        /\ txn' = IF Aborting THEN "aborted" ELSE txn
    BY DEF QueryRefused
  <1>2. verdict = "ok" /\ Aborting => moved
    BY <1>1, SwallowedAbortRaced
  <1>3. Aborting \in BOOLEAN /\ verdict \in {"ok", "error"}
    BY DEF Aborting
  <1>4. RowsFit(search, {})
    BY DEF RowsFit
  <1>5. txn' \in {"none", "open", "aborted"}
    BY <1>1 DEF CatalogInv, CatalogTypeOK
  <1> HIDE DEF verdict
  <1> QED
    BY <1>1, <1>2, <1>3, <1>4, <1>5, AnswerStep

LEMMA CatalogInvStep == CatalogInv /\ [CatalogNext]_catalog_vars => CatalogInv'
  <1> SUFFICES ASSUME CatalogInv, [CatalogNext]_catalog_vars PROVE CatalogInv'
    OBVIOUS
  <1>1. CASE search = NoSearch /\ \E s \in Searches : AskCatalog(s)
    BY <1>1, AskStep
  <1>2. CASE \E fn \in EmptyFunctions : AskNothing(fn)
    BY <1>2, AskNothingStep
  <1>3. CASE QueryAnswered
    BY <1>3, QueryAnsweredStep
  <1>4. CASE EnumerationAnswered
    BY <1>4, EnumerationStep
  <1>5. CASE QueryRefused
    BY <1>5, RefusedStep
  <1>6. CASE Elsewhere
    BY <1>6 DEF Elsewhere, CatalogInv, CatalogTypeOK, ReadIsCurrent, AbortHiddenOnlyByARace
  <1>7. CASE CatalogReturn
    BY <1>7 DEF CatalogReturn, CatalogInv, CatalogTypeOK, ReadIsCurrent, AbortHiddenOnlyByARace, NoAnswer, NoSearch
  <1>8. CASE UNCHANGED catalog_vars
    BY <1>8 DEF catalog_vars, CatalogInv, CatalogTypeOK, ReadIsCurrent, AbortHiddenOnlyByARace, in_transaction
  <1> QED
    BY <1>1, <1>2, <1>3, <1>4, <1>5, <1>6, <1>7, <1>8 DEF CatalogNext

LEMMA CatalogInvHolds == CatalogSpec => []CatalogInv
  BY CatalogInvInit, CatalogInvStep, PTL DEF CatalogSpec
-----------------------------------------------------------------------------
\* Whatever rows a coordinator sends, SQLTables answers with a type it
\* advertises and SQLColumns with a nullability that ODBC has a name for.
THEOREM TypeCorrect == CatalogSpec => []CatalogTypeOK
  <1>1. CatalogInv => CatalogTypeOK
    BY DEF CatalogInv
  <1> QED
    BY <1>1, CatalogInvHolds, PTL

\* query_information_schema never hides the death of a transaction it could
\* have known of.
THEOREM AbortsAreHiddenOnlyByARace == CatalogSpec => []AbortHiddenOnlyByARace
  <1>1. CatalogInv => AbortHiddenOnlyByARace
    BY DEF CatalogInv
  <1> QED
    BY <1>1, CatalogInvHolds, PTL
-----------------------------------------------------------------------------
(* What a connection tells of its coordinator.                              *)

\* What a connection keeps over its life.
LinkTypes ==
  {conn \in [runs : Nat, server_major : Nat, dbms_version : STRING, data_source_name : STRING,
             server_name : STRING, user_name : STRING, catalog : STRING, session_catalog : STRING] :
     conn.server_major \in {0, conn.runs}}
-----------------------------------------------------------------------------
(* Where an answer comes from.                                              *)

LEMMA Sources ==
  ASSUME NEW conn
  PROVE  /\ DOMAIN RawAnswers(conn) =
              {"SQL_AGGREGATE_FUNCTIONS", "SQL_SQL92_PREDICATES", "SQL_SQL92_RELATIONAL_JOIN_OPERATORS",
               "SQL_SQL92_VALUE_EXPRESSIONS", "SQL_NUMERIC_FUNCTIONS", "SQL_STRING_FUNCTIONS",
               "SQL_SYSTEM_FUNCTIONS", "SQL_TIMEDATE_FUNCTIONS", "SQL_LIKE_ESCAPE_CLAUSE", "SQL_OUTER_JOINS"}
         /\ DOMAIN Arms =
              {"SQL_SCHEMA_USAGE", "SQL_CATALOG_USAGE", "SQL_CATALOG_LOCATION", "SQL_GETDATA_EXTENSIONS",
               "SQL_MULT_RESULT_SETS", "SQL_NEED_LONG_DATA_LEN", "SQL_MAX_ROW_SIZE_INCLUDES_LONG"}
  BY DEF RawAnswers, Arms

\* A release that brought what is claimed is the one that runs, or an older one;
\* an unknown version, zero, is older than each.
LEMMA PredicatesAreKnown ==
  ASSUME NEW runs \in Nat, NEW major \in {0, runs}, NEW claim \in sql92_predicates(major)
  PROVE  Since(claim) <= runs
  BY DEF sql92_predicates, Since, TRINO_MATCH_AND_UNIQUE_SINCE, TRINO_OVERLAPS_SINCE

LEMMA JoinsAreKnown ==
  ASSUME NEW runs \in Nat, NEW major \in {0, runs}, NEW claim \in sql92_join_operators(major)
  PROVE  Since(claim) <= runs
  BY DEF sql92_join_operators, Since, TRINO_CORRESPONDING_SINCE

LEMMA ClaimsAreKnown ==
  ASSUME NEW conn \in LinkTypes,
         NEW claim \in AnswersOf(conn)["SQL_SQL92_PREDICATES"]
                         \union AnswersOf(conn)["SQL_SQL92_RELATIONAL_JOIN_OPERATORS"]
  PROVE  Since(claim) <= conn.runs
  <1>1. conn.runs \in Nat /\ conn.server_major \in {0, conn.runs}
    BY DEF LinkTypes
  <1>2. {"SQL_SQL92_PREDICATES", "SQL_SQL92_RELATIONAL_JOIN_OPERATORS"} \subseteq DOMAIN RawAnswers(conn)
    BY Sources
  <1>3. \A type \in DOMAIN RawAnswers(conn) : AnswersOf(conn)[type] = RawAnswers(conn)[type]
    BY DEF AnswersOf, InfoTypes, get_info
  <1>4. /\ RawAnswers(conn)["SQL_SQL92_PREDICATES"] = sql92_predicates(conn.server_major)
        /\ RawAnswers(conn)["SQL_SQL92_RELATIONAL_JOIN_OPERATORS"] = sql92_join_operators(conn.server_major)
    BY DEF RawAnswers
  <1> QED
    BY <1>1, <1>2, <1>3, <1>4, PredicatesAreKnown, JoinsAreKnown

\* What is said before a connect is said after it, or is empty.
LEMMA AnswersStand ==
  ASSUME NEW conn, NEW type \in DOMAIN AnswersBefore \intersect DOMAIN AnswersOf(conn)
  PROVE  AnswersBefore[type] \in {{""}, AnswersOf(conn)[type]}
  <1>1. type \in DOMAIN Arms \union EmptyBefore /\ AnswersBefore[type] = get_info_pre_connect(type)
    BY DEF AnswersBefore, PreConnectTypes
  <1>2. AnswersOf(conn)[type] = get_info(conn, type)
    BY DEF AnswersOf
  <1>3. CASE type \in DOMAIN Arms
    <2>1. type \notin DOMAIN RawAnswers(conn)
      BY <1>3, Sources
    <2> QED
      BY <1>1, <1>2, <1>3, <2>1 DEF get_info, get_info_pre_connect
  <1>4. CASE type \notin DOMAIN Arms
    BY <1>1, <1>4 DEF get_info_pre_connect
  <1> QED
    BY <1>3, <1>4
-----------------------------------------------------------------------------
(* Safety.                                                                  *)

\* What was told is of this release, though the session's catalog may have moved.
NowFits ==
  now # Untold => \E conn \in LinkTypes : conn.runs = connection.runs /\ now = AnswersOf(conn)

InfoInv ==
  /\ connection \in LinkTypes \union {NotConnected}
  /\ connection = NotConnected => now = Untold
  /\ before \in {Untold, AnswersBefore}
  /\ NowFits

LEMMA InfoInvInit == InfoInit => InfoInv
  BY DEF InfoInit, InfoInv, NowFits

LEMMA InfoInvStep == InfoInv /\ [InfoNext]_info_vars => InfoInv'
  <1> SUFFICES ASSUME InfoInv, [InfoNext]_info_vars PROVE InfoInv'
    OBVIOUS
  <1>1. CASE SQLGetInfoBefore
    BY <1>1 DEF SQLGetInfoBefore, InfoInv, NowFits
  <1>2. CASE SQLGetInfo
    BY <1>2 DEF SQLGetInfo, InfoInv, NowFits
  <1>3. CASE Connected
    <2>1. Connections \subseteq LinkTypes
      BY ConnectionsAssumption DEF LinkTypes
    <2> QED
      BY <1>3, <2>1 DEF Connected, InfoInv, NowFits
  <1>4. CASE Use
    <2>1. connection \in LinkTypes
      BY <1>4 DEF Use, InfoInv
    <2>2. PICK conn \in Connections : connection' = [connection EXCEPT !.session_catalog = conn.session_catalog]
      BY <1>4 DEF Use
    <2>3. conn.session_catalog \in STRING
      BY ConnectionsAssumption
    <2>4. connection' \in LinkTypes /\ connection'.runs = connection.runs
      BY <2>1, <2>2, <2>3 DEF LinkTypes
    <2>5. connection' # NotConnected
      BY <2>4 DEF LinkTypes, NotConnected
    <2> QED
      BY <1>4, <2>4, <2>5 DEF Use, InfoInv, NowFits
  <1>5. CASE Disconnected
    BY <1>5 DEF Disconnected, InfoInv, NowFits
  <1>6. CASE UNCHANGED info_vars
    BY <1>6 DEF info_vars, InfoInv, NowFits
  <1> QED
    BY <1>1, <1>2, <1>3, <1>4, <1>5, <1>6 DEF InfoNext

LEMMA InfoInvHolds == InfoSpec => []InfoInv
  BY InfoInvInit, InfoInvStep, PTL DEF InfoSpec

\* Whatever release runs and whatever the probe learned of it, SQLGetInfo claims
\* no predicate and no join the coordinator lacks, and contradicts nothing it said
\* before the connect.
THEOREM ClaimsHold == InfoSpec => []ClaimsAreHonoured
  <1>1. InfoInv => ClaimsAreHonoured
    <2> SUFFICES ASSUME InfoInv, now # Untold PROVE
          /\ \A claim \in now["SQL_SQL92_PREDICATES"] \union now["SQL_SQL92_RELATIONAL_JOIN_OPERATORS"] :
               Since(claim) <= connection.runs
          /\ before # Untold => \A type \in DOMAIN before \intersect DOMAIN now : before[type] \in {{""}, now[type]}
      BY DEF ClaimsAreHonoured
    <2>1. PICK conn \in LinkTypes : conn.runs = connection.runs /\ now = AnswersOf(conn)
      BY DEF InfoInv, NowFits
    <2>2. \A claim \in now["SQL_SQL92_PREDICATES"] \union now["SQL_SQL92_RELATIONAL_JOIN_OPERATORS"] :
            Since(claim) <= connection.runs
      BY <2>1, ClaimsAreKnown
    <2>3. before # Untold => \A type \in DOMAIN before \intersect DOMAIN now : before[type] \in {{""}, now[type]}
      BY <2>1, AnswersStand DEF InfoInv
    <2> QED
      BY <2>2, <2>3
  <1> QED
    BY <1>1, InfoInvHolds, PTL
=============================================================================
