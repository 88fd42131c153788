------------------------------ MODULE LocalCalls ------------------------------
(***************************************************************************)
(* The calls the driver answers by itself: bound parameters, values, types  *)
(* and escape sequences. They share no state, so one at a time is in        *)
(* progress; a call is one step that leaves its arguments and its answer    *)
(* behind.                                                                  *)
(***************************************************************************)
EXTENDS TextCalls, TypeNames, DriverInfo

CONSTANTS
  Deliveries,      \* [val, ty, session, now] of SQLGetData; a session has up to three zones
  Columns          \* [name, ty] of a result or a table

\* SET TIME ZONE, the TimeZone keyword and the coordinator, in this order.
session_zone(session) ==
  effective_session_zone(session.set, session.configured, session.server)

\* The value and the warning that goes with it.
SQLGetData ==
  /\ AtRest
  /\ \E d \in Deliveries :
       Answers("get_data", d, [value   |-> json_to_column_value(d.val, d.ty, session_zone(d.session), d.now),
                               warning |-> discards_fractional_seconds(d.val, d.ty)])

\* What SQLDescribeCol and SQLColumns say of one column.
SQLDescribeCol ==
  /\ AtRest
  /\ \E c \in Columns :
       Answers("describe", c, [described |-> describe_column(c.name, c.ty), row |-> column_row(c.name)])

Next == TextNext \/ SQLGetData \/ SQLDescribeCol

Spec == Init /\ [][Next]_vars
-----------------------------------------------------------------------------
(* Values.                                                                  *)

Nanoseconds(fraction) ==
  LET digit(i) == IF i <= Len(fraction) THEN fraction[i] * 10^(9 - i) ELSE 0
  IN FoldLeft(LAMBDA sum, i : sum + digit(i), 0, [i \in 1..9 |-> i])

\* The zone the coordinator has the session in (external): the last thing it was
\* told, or its own; a zone it was told and the driver cannot read is left out.
ZoneInForce(session) ==
  LET told == {zone \in {<<1, IF session.set = Nothing THEN Nothing ELSE parse_zone(session.set)>>,
                         <<2, session.configured>>} : zone[2] # Nothing}
  IN IF told = {} THEN session.server
     ELSE (CHOOSE zone \in told : \A other \in told : zone[1] <= other[1])[2]

\* A value with a zone is delivered as the wall time of the session: the
\* coordinator, reading that wall time in the session's zone, finds the instant
\* it sent, on both sides of a change of clocks, across midnight and the new year,
\* and in the second of two hours the clocks repeat. Left out is the first: read
\* back, its wall time is the second's (src/README.md), and a text that names its
\* zone in that hour is the same for both. A time keeps its distance to UTC, modulo
\* a day (parse_trino_timestamp_tz, parse_trino_time_with_tz).
ZonedValuesKeepTheirInstant ==
  call.op = "get_data" =>
    LET d == call.of
        v == answer.value
        in_force == ZoneInForce(d.session)
    IN /\ (d.ty.name = "TimestampWithTimeZone" /\ v.type = "Timestamp") =>
            LET local == Moment(parse_trino_timestamp(d.val.text))
                zone  == parse_zone(d.val.text.zone)
                utc   == earliest(zone, local)
            IN /\ \/ FirstPass(in_force, utc) \/ FirstPass(zone, utc)
                  \/ latest(in_force, Moment(v)) = utc
               /\ v.fraction = Nanoseconds(d.val.text.time.fraction)
       /\ (d.ty.name = "TimeWithTimeZone" /\ v.type = "Time") =>
            LET zone    == parse_zone(d.val.text.zone)
                offset  == IF IsOffset(d.val.text.zone) THEN zone.before ELSE 0
                minutes == d.val.text.hour * 60 + d.val.text.minute - offset
                shown   == v.hour * 60 + v.minute - offset_at(in_force, d.now)
            IN (minutes - shown) % MinutesADay = 0

\* A temporal leaf whose text holds digits past the ninth and which kept none.
RECURSIVE Leaves(_, _, _)
Leaves(val, ty, value) ==
  CASE value.type = "Array" ->
         UNION {Leaves(val.items[i], ty.inner, value.items[i]) : i \in DOMAIN value.items}
    [] value.type = "Map" ->
         UNION {Leaves([json |-> "string", text |-> val.entries[i][1]], ty.key, value.entries[i][1])
                \union Leaves(val.entries[i][2], ty.inner, value.entries[i][2]) : i \in DOMAIN value.entries}
    [] value.type = "Row" ->
         UNION {Leaves(val.items[i], ty.fields[i], value.items[i]) : i \in DOMAIN value.items}
    [] value.type \notin {"Array", "Map", "Row"} /\ ty.name = "Option" -> Leaves(val, ty.inner, value)
    [] OTHER -> {<<val, value>>}

Lost(leaf) == leaf[2].type \in {"Time", "Timestamp"} /\ Cut(leaf[1])
KeptAsText(leaf) == leaf[2].type = "String" /\ Cut(leaf[1])

Unwrapped(ty) == IF ty.name = "Option" THEN ty.inner ELSE ty

\* A fraction that does not fit in nanoseconds is never lost in silence, however
\* deep in an array, a map or a row it is; and 01S07 is raised only where digits
\* were lost, or would have been had the text been readable
\* (discards_fractional_seconds looks at the text, the value is converted apart).
LossIsReported ==
  call.op = "get_data" =>
    LET leaves == Leaves(call.of.val, Unwrapped(call.of.ty), answer.value)
    IN /\ (\E leaf \in leaves : Lost(leaf)) => answer.warning
       /\ answer.warning => \E leaf \in leaves : Lost(leaf) \/ KeptAsText(leaf)

Holders ==
  [EXT_BIG_INT |-> {"I64"}, INTEGER |-> {"I32"}, SMALLINT |-> {"I16"}, EXT_TINY_INT |-> {"I8"},
   DOUBLE |-> {"F64"}, REAL |-> {"F32"}, EXT_BIT |-> {"Bool"}, DATE |-> {"Date"},
   TIME |-> {"Time"}, TIMESTAMP |-> {"Timestamp"}, DECIMAL |-> {"Decimal"},
   EXT_LONG_VAR_BINARY |-> {"Bytes"}, EXT_W_VARCHAR |-> {"Json", "Array", "Map", "Row"}]

\* A value is of the type its column is reported with, or the text Trino sent:
\* never NULL in its place, never another number, and a time moved to another
\* zone is still a time of day (json_to_column_value and trino_ty_to_sql_type are
\* two tables over one enumeration; shift_time wraps both ways).
ValueFitsReportedType ==
  call.op = "get_data" =>
    LET v == answer.value IN
    /\ (v.type = "Null") <=> (call.of.val.json = "null")
    /\ v.type \in {"Null", "String"} \union Holders[trino_ty_to_sql_type(call.of.ty)]
    /\ "from" \in DOMAIN v => v.from = call.of.val
    /\ v.type = "Time" => v.hour \in 0..23 /\ v.minute \in 0..59
    /\ v.type \in DOMAIN Width /\ v.from.json = "int" => v.from.bits <= Width[v.type]
-----------------------------------------------------------------------------
(* Types.                                                                   *)

\* The three sources agree on a column: its type, its name, which is that of a
\* row of SQLGetTypeInfo with the same types, its size and its scale where
\* SQLColumns has one, none larger than that row's (describe_column, columns,
\* trino_type_info). A type without a name of its own is text everywhere.
PathsAgree ==
  call.op = "describe" =>
    LET d == answer.described
        r == answer.row
        infos == {info \in trino_type_info : info.type_name = r.type_name}
    IN /\ d.data_type = r.data_type /\ d.type_name = r.type_name
       /\ \E info \in infos : info.data_type = r.data_type /\ info.verbose = r.verbose
       /\ r.column_size # -1 => d.precision = r.column_size
       /\ r.decimal_digits # -1 => d.scale = r.decimal_digits
       /\ \A info \in infos : r.column_size <= info.column_size /\ r.decimal_digits <= info.maximum_scale
       /\ \/ d.data_type = trino_ty_to_sql_type(call.of.ty)
          \/ {d.data_type, trino_ty_to_sql_type(call.of.ty)} \subseteq {"EXT_W_CHAR", "EXT_W_VARCHAR"}

\* The characters a value of a type takes, by the layout of its text.
Layout(sql, scale) ==
  LET Fraction == IF scale = 0 THEN 0 ELSE 1 + scale IN
  CASE sql = "DATE" -> 10
    [] sql = "TIME" -> 8 + Fraction
    [] sql = "TIMESTAMP" -> 19 + Fraction
    [] OTHER -> 0

\* A buffer of the size an application is told holds the text of every value of
\* the column, at the precision the column has and at Trino's own when its type
\* string names none; and the bytes of a character column hold its characters
\* (type_name_precision, temporal_scale_param, char_octet_length).
SizesFit ==
  call.op = "describe" =>
    LET name  == call.of.name
        scale == IF name.args # <<>> THEN name.args[1] ELSE DEFAULT_TEMPORAL_SCALE_WITHOUT_TYPE_NAME
        r     == answer.row
    IN /\ answer.described.precision >= Layout(answer.described.data_type, scale)
       /\ answer.described.data_type \in {"TIME", "TIMESTAMP"} =>
            r.column_size >= Layout(r.data_type, scale)
       /\ r.char_octet_length # -1 => r.char_octet_length >= r.column_size
-----------------------------------------------------------------------------
(* Escape sequences.                                                        *)

Count(args) == IF Solid(args) = <<>> THEN 0 ELSE Cardinality(Separators(args)) + 1

\* The calls in a piece of SQL: a word before a parenthesis, and how many
\* arguments stand between that and the one that closes it.
NotCalled == {"(", ",", "*", "/", "%", "+", "AS", "IN"}
CallsIn(sql) ==
  LET Within(i) == SubSeq(sql, i + 2, Len(sql))
      Closes(i) == CHOOSE j \in (i + 2)..Len(sql) :
                     LET closing(n) == n <= Len(Within(i)) /\ Within(i)[n] = ")"
                                       /\ LeftOpen(SubSeq(Within(i), 1, n - 1)) = TopLevel
                     IN closing(j - i - 1) /\ \A n \in 1..(j - i - 2) : ~closing(n)
  IN {<<sql[i], Count(SubSeq(sql, i + 2, Closes(i) - 1))>> :
        i \in {j \in 1..(Len(sql) - 1) : sql[j + 1] = "(" /\ sql[j] \notin NotCalled}}

\* The functions Trino has, with a number of arguments each takes (external).
Trino ==
  ({"ABS", "ACOS", "ASIN", "ATAN", "CEILING", "COS", "EXP", "FLOOR", "ln", "SIGN", "SIN", "SQRT",
    "TAN", "DEGREES", "LOG10", "RADIANS", "ROUND", "truncate", "length", "lower", "upper", "chr",
    "SOUNDEX", "day_of_month", "day_of_week", "day_of_year", "MONTH", "QUARTER", "WEEK", "YEAR",
    "HOUR", "MINUTE", "SECOND", "POSITION", "position", "EXTRACT", "CAST"} \X {1})
  \union ({"ATAN2", "MOD", "POWER", "power", "ROUND", "CONCAT", "ltrim", "rtrim", "coalesce", "f"} \X {2})
  \union ({"REPLACE", "SUBSTRING", "date_add", "date_diff"} \X {3})
  \union ({"PI", "RAND", "random", "NOW"} \X {0})
TrinoKeywords == {"current_date", "current_time", "current_timestamp", "current_user", "current_catalog"}

\* How ODBC calls the functions that are advertised.
OdbcArity ==
  [name \in Advertised |->
     CASE name \in {"PI", "NOW", "CURDATE", "CURTIME", "CURRENT_DATE", "CURRENT_TIME",
                    "CURRENT_TIMESTAMP", "USERNAME", "DBNAME"} -> {0}
       [] name = "RAND" -> {0, 1}
       [] name \in {"ATAN2", "MOD", "POWER", "ROUND", "TRUNCATE", "CONCAT", "LOCATE_2", "IFNULL"} -> {2}
       [] name \in {"REPLACE", "SUBSTRING", "TIMESTAMPADD", "TIMESTAMPDIFF"} -> {3}
       [] OTHER -> {1}]

\* What is spelled LOCATE is advertised by the number of its arguments.
Spelled(bit) == IF bit = "LOCATE_2" THEN "LOCATE" ELSE bit

\* An application calls what SQLGetInfo advertises, the ODBC way.
ByTheBook(e) ==
  /\ \E bit \in Advertised : Spelled(bit) = e.fn /\ Count(e.args) \in OdbcArity[bit]
  /\ e.fn \in {"TIMESTAMPADD", "TIMESTAMPDIFF"} =>
       \E unit \in TRINO_TIMESTAMP_INTERVALS : SubSeq(e.args, 1, 2) = <<unit, ",">>

\* Every scalar function SQLGetInfo advertises becomes SQL that Trino has, with
\* as many arguments as Trino's takes: the four bitmaps of info.rs and the
\* tables of escape_dialect.rs are in step.
AdvertisedFunctionsRun ==
  (call.op = "native_sql" /\ ByTheBook(call.of)) =>
    \/ Len(answer.sql) = 1 /\ answer.sql[1] \in TrinoKeywords
    \/ CallsIn(answer.sql) # {} /\ CallsIn(answer.sql) \subseteq Trino
=============================================================================
