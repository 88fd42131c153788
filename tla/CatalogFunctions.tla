-------------------------- MODULE CatalogFunctions --------------------------
(***************************************************************************)
(* backend/metadata.rs: the catalog functions that ask the coordinator.    *)
(*                                                                         *)
(* A name and a pattern are sequences of characters; an absent argument    *)
(* and an empty one are read alike and are <<>>; so is, in a row, a value  *)
(* that is NULL or not of the type its column should have.                 *)
(*                                                                         *)
(* The driver reads whether a transaction is open, asks, and decides by    *)
(* what it read; between the two another thread of the application may     *)
(* open a transaction on the connection or end one.                        *)
(***************************************************************************)
EXTENDS Interpolation, DriverInfo

CONSTANTS
  World,            \* what a coordinator has: catalog -> relation -> rows
  SessionCatalog,   \* where a bare information_schema is looked up
  Searches          \* the calls an application makes: [fn, catalog, filters, table_types]

Queries == {"tables", "columns", "table_privileges"}
Enumerations == {"catalogs", "schemas"}

\* A relation's rows have the columns of the relation.
ASSUME WorldAssumption ==
  \A c \in DOMAIN World :
    /\ \A row \in World[c]["tables"] : "table_type" \in DOMAIN row
    /\ \A row \in World[c]["columns"] : "is_nullable" \in DOMAIN row

VARIABLES
  txn,        \* the transaction of the session: "none", "open", "aborted"
  search,     \* the call in progress
  read,       \* in_transaction, as read before the query
  moved,      \* observer: a transaction was opened or ended since
  found       \* what the last call answered

catalog_vars == <<txn, search, read, moved, found>>

ESC == "\\"
Wildcards == {"%", "_"}
Absent == <<>>
NoSearch == [fn |-> "none"]
NoAnswer == [result |-> "none"]
-----------------------------------------------------------------------------
(* Patterns.                                                                *)

\* A likely mistake: an escaped wildcard is taken for one.
wildcard_anywhere(s) == \E i \in DOMAIN s : s[i] \in Wildcards

has_odbc_wildcards(s) == \E i \in DOMAIN s : s[i] \in Wildcards /\ (i = 1 \/ s[i - 1] # ESC)

\* Without the backslashes that escape a wildcard.
Unescaped(s) ==
  LET kept == SelectSeq([i \in DOMAIN s |-> i],
                        LAMBDA i : ~(s[i] = ESC /\ i < Len(s) /\ s[i + 1] \in Wildcards))
  IN [k \in DOMAIN kept |-> s[kept[k]]]

push_filter(column, value) ==
  LET escaped == quote_string(value)
  IN IF has_odbc_wildcards(escaped)
     THEN [column |-> column, test |-> "LIKE", text |-> escaped]
     ELSE [column |-> column, test |-> "=", text |-> Unescaped(escaped)]

\* An absent, empty or % argument matches everything.
MatchesAll(pattern) == pattern \in {<<>>, <<"%">>}

\* build_tables_where_clause and build_columns_where_clause: a condition for
\* each column that is asked for.
where_clause(filters) ==
  {push_filter(column, filters[column]) : column \in {c \in DOMAIN filters : ~MatchesAll(filters[c])}}

\* A catalog that is named exactly; a FROM clause takes no pattern.
information_schema_ref(catalog) ==
  IF MatchesAll(catalog) \/ has_odbc_wildcards(catalog) THEN SessionCatalog ELSE Unescaped(catalog)
-----------------------------------------------------------------------------
(* The coordinator.                                                         *)

\* LIKE with an escape character.
Like(name, pattern, escape) ==
  LET m == Len(pattern)
      n == Len(name)
      matches[i \in 1..(m + 2), j \in 1..(n + 2)] ==
        IF i > m \/ j > n + 1 THEN i = m + 1 /\ j = n + 1
        ELSE CASE pattern[i] = escape ->
                    i < m /\ j <= n /\ name[j] = pattern[i + 1] /\ matches[i + 2, j + 1]
               [] pattern[i] # escape /\ pattern[i] = "%" ->
                    matches[i + 1, j] \/ (j <= n /\ matches[i, j + 1])
               [] OTHER -> j <= n /\ pattern[i] \in {"_", name[j]} /\ matches[i + 1, j + 1]
  IN matches[1, 1]

Holds(condition, row) ==
  LET value == row[condition.column]
      text  == ReadLiteral(condition.text)
  IN IF condition.test = "LIKE" THEN Like(value, text, ESC) ELSE value = text

Selected(rows, conditions) == {row \in rows : \A c \in conditions : Holds(c, row)}
-----------------------------------------------------------------------------
(* Rows.                                                                    *)

TableTypes == [x \in {"BASE TABLE", "VIEW"} |-> IF x = "VIEW" THEN "VIEW" ELSE "TABLE"]
table_types == {TableTypes[x] : x \in DOMAIN TableTypes}

\* A row of a type nobody advertises is dropped, then what was not asked for.
tables_rows(rows, allowed) ==
  {[row EXCEPT !.table_type = TableTypes[row.table_type]] :
     row \in {r \in rows : /\ r.table_name # Absent /\ r.table_type \in DOMAIN TableTypes
                           /\ allowed = {} \/ TableTypes[r.table_type] \in allowed}}

\* A column without its table, a name or a position is dropped.
columns_rows(rows) ==
  {row \in rows : Absent \notin {row.table_name, row.column_name, row.ordinal_position}}

Nullabilities == {"SQL_NULLABLE", "SQL_NO_NULLS", "SQL_NULLABLE_UNKNOWN"}

nullable(is_nullable) ==
  CASE is_nullable = "YES" -> "SQL_NULLABLE"
    [] is_nullable = "NO" -> "SQL_NO_NULLS"
    [] OTHER -> "SQL_NULLABLE_UNKNOWN"

\* A privilege without its table, its grantee or its kind is dropped.
table_privilege_row(row) == IF Absent \in {row.table_name, row.grantee, row.privilege} THEN {} ELSE {row}
table_privileges_rows(rows) == UNION {table_privilege_row(row) : row \in rows}

\* Trino has nothing to answer these with.
EmptyFunctions == {"primary_keys", "foreign_keys", "statistics", "special_columns",
                   "procedures", "procedure_columns", "column_privileges"}

Converted(s, rows) ==
  CASE s.fn = "tables" -> tables_rows(rows, s.table_types)
    [] s.fn = "columns" ->
         {[row EXCEPT !.is_nullable = nullable(row.is_nullable)] : row \in columns_rows(rows)}
    [] s.fn = "table_privileges" -> table_privileges_rows(rows)
-----------------------------------------------------------------------------
(* A call.                                                                  *)

TRINO_CATALOG_NOT_FOUND == 44
OtherError == 1

CatalogInit ==
  /\ txn \in {"none", "open"}
  /\ search = NoSearch
  /\ read = FALSE /\ moved = FALSE
  /\ found = NoAnswer

in_transaction == txn # "none"

\* tables, columns, table_privileges, catalogs or schemas, up to the round trip.
AskCatalog(s) ==
  /\ search = NoSearch /\ found = NoAnswer
  /\ search' = s
  /\ read' = in_transaction
  /\ moved' = FALSE
  /\ UNCHANGED <<txn, found>>

\* These return before any round trip.
AskNothing(fn) ==
  /\ search = NoSearch /\ found = NoAnswer
  /\ found' = [result |-> "ok", rows |-> {}, asked |-> [fn |-> fn], aborted |-> FALSE, moved |-> FALSE]
  /\ UNCHANGED <<txn, search, read, moved>>

Aborting == txn = "open"

\* A likely mistake: a missing catalog is nobody's error.
AlwaysSwallowed(error) == error = TRINO_CATALOG_NOT_FOUND

\* Inside a transaction the failure has aborted it, and is reported.
Swallowed(error) == error = TRINO_CATALOG_NOT_FOUND /\ ~read

Answer(result, rows, aborted) ==
  /\ found' = [result |-> result, rows |-> rows, asked |-> search, aborted |-> aborted, moved |-> moved]
  /\ search' = NoSearch /\ moved' = FALSE
  /\ UNCHANGED read

\* query_information_schema (tables, columns, table_privileges).
QueryAnswered ==
  /\ search.fn \in Queries
  /\ txn # "aborted"
  /\ LET catalog == information_schema_ref(search.catalog)
         filters == [c \in DOMAIN search.filters \union {"catalog"} |->
                       IF c = "catalog" THEN search.catalog ELSE search.filters[c]]
     IN IF catalog \in DOMAIN World
        THEN /\ Answer("ok", Converted(search, Selected(World[catalog][search.fn], where_clause(filters))),
                       FALSE)
             /\ UNCHANGED txn
        ELSE /\ Answer(IF Swallowed(TRINO_CATALOG_NOT_FOUND) THEN "ok" ELSE "error", {}, Aborting)
             /\ txn' = IF Aborting THEN "aborted" ELSE txn

\* catalogs and schemas, from system.jdbc.
EnumerationAnswered ==
  /\ search.fn \in Enumerations
  /\ txn # "aborted"
  /\ Answer("ok",
            IF search.fn = "catalogs" THEN {[catalog |-> c] : c \in DOMAIN World}
            ELSE {[table_schema |-> row.table_schema] : row \in UNION {World[c]["tables"] : c \in DOMAIN World}},
            FALSE)
  /\ UNCHANGED txn

\* Any other failure, an aborted transaction's refusal among them.
QueryRefused ==
  /\ search # NoSearch
  /\ Answer(IF search.fn \notin Enumerations /\ Swallowed(OtherError) THEN "ok" ELSE "error",
            {}, Aborting)
  /\ txn' = IF Aborting THEN "aborted" ELSE txn

\* Another thread: a statement that begins a transaction, or SQLEndTran.
Elsewhere ==
  /\ search # NoSearch
  /\ txn' \in {"none", "open"} \ {txn}
  /\ (txn' = "open") => txn = "none"
  /\ moved' = TRUE
  /\ UNCHANGED <<search, read, found>>

CatalogReturn ==
  /\ search = NoSearch /\ found # NoAnswer
  /\ found' = NoAnswer
  /\ UNCHANGED <<txn, search, read, moved>>

CatalogNext ==
  \/ search = NoSearch /\ \E s \in Searches : AskCatalog(s)
  \/ \E fn \in EmptyFunctions : AskNothing(fn)
  \/ QueryAnswered \/ EnumerationAnswered \/ QueryRefused
  \/ Elsewhere \/ CatalogReturn

CatalogSpec == CatalogInit /\ [][CatalogNext]_catalog_vars
-----------------------------------------------------------------------------
(* Properties.                                                              *)

\* One call at a time, and a row holds what ODBC has a name for, whatever the
\* coordinator sent (tables, columns).
CatalogTypeOK ==
  /\ txn \in {"none", "open", "aborted"} /\ read \in BOOLEAN /\ moved \in BOOLEAN
  /\ search \in Searches \union {NoSearch}
  /\ found.result \in {"none", "ok", "error"}
  /\ found # NoAnswer =>
       /\ search = NoSearch
       /\ found.asked.fn = "tables" => \A row \in found.rows : row.table_type \in table_types
       /\ found.asked.fn = "columns" => \A row \in found.rows : row.is_nullable \in Nullabilities

\* The rows an application means: the pattern arguments by ODBC's rules, of
\* the catalog that is named, or of the session's if none is.
Meant(s) ==
  LET exact == \A i \in DOMAIN s.catalog :
                 s.catalog[i] \in Wildcards => i > 1 /\ s.catalog[i - 1] = search_pattern_escape
      Means(pattern, value) == pattern = <<>> \/ Like(value, pattern, search_pattern_escape)
      here  == IF exact /\ s.catalog # <<>>
               THEN {c \in DOMAIN World : Like(c, s.catalog, search_pattern_escape)}
               ELSE {SessionCatalog} \intersect DOMAIN World
  IN {row \in UNION {World[c][s.fn] : c \in here} :
        Means(s.catalog, row.catalog) /\ \A c \in DOMAIN s.filters : Means(s.filters[c], row[c])}

\* A catalog function that succeeds returns the rows ODBC's patterns mean,
\* with every quote, backslash and wildcard of the arguments taken the way
\* SQLGetInfo says they are (push_filter and information_schema_ref, which
\* have to agree with each other and with search_pattern_escape).
SelectsWhatIsAsked ==
  found.result = "ok" /\ found.asked.fn \in Queries =>
    found.rows = Converted(found.asked, Meant(found.asked))

\* A lookup that kills the application's transaction is reported as an error,
\* unless another thread opened that transaction after the driver had looked
\* (query_information_schema: the flag is read before the round trip).
AbortHiddenOnlyByARace == found.result = "ok" /\ found.aborted => found.moved
=============================================================================
