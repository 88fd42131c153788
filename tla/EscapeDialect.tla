---------------------------- MODULE EscapeDialect ----------------------------
(***************************************************************************)
(* escape_dialect.rs: the scalar functions of an ODBC escape, in Trino's   *)
(* spelling, and the functions backend/info.rs says there are.             *)
(*                                                                         *)
(* SQL is a sequence of characters and of words; only quotes, parentheses, *)
(* commas and the two kinds of comment (as words: "--", "/*", "*/", and    *)
(* the end of a line) mean something here.                                 *)
(***************************************************************************)
EXTENDS Integers, Sequences, SequencesExt

Quotes == {"'", "\""}
LineEnd == "newline"
Blanks == {" ", LineEnd}
None == <<"none">>
-----------------------------------------------------------------------------
\* A likely mistake: every comma separates, wherever it stands.
split_everywhere(args) ==
  LET cuts == {i \in DOMAIN args : args[i] = ","}
      Cut(k) == CHOOSE i \in cuts : k = Len(SelectSeq(SubSeq(args, 1, i), LAMBDA c : c = ","))
      n == Len(SelectSeq(args, LAMBDA c : c = ","))
  IN [k \in 1..(n + 1) |->
        SubSeq(args, IF k = 1 THEN 1 ELSE Cut(k - 1) + 1, IF k = n + 1 THEN Len(args) ELSE Cut(k) - 1)]

Trim(s) ==
  LET solid == {i \in DOMAIN s : s[i] \notin Blanks}
  IN IF solid = {} THEN <<>>
     ELSE SubSeq(s, CHOOSE i \in solid : \A j \in solid : i <= j,
                    CHOOSE i \in solid : \A j \in solid : j <= i)

\* The state before character i: what the text is in, the depth of its
\* parentheses, and whether the character is the second of a pair.
Walk(args) ==
  LET Next(i) == IF i + 1 <= Len(args) THEN args[i + 1] ELSE "end"
      walk[i \in 1..(Len(args) + 1)] ==
        IF i = 1 THEN [in |-> "sql", depth |-> 0, skip |-> FALSE]
        ELSE LET s == walk[i - 1]
                 c == args[i - 1]
             IN CASE s.skip -> [s EXCEPT !.skip = FALSE]
                  [] ~s.skip /\ s.in \in Quotes /\ c = s.in ->
                       IF Next(i - 1) = c THEN [s EXCEPT !.skip = TRUE] ELSE [s EXCEPT !.in = "sql"]
                  [] ~s.skip /\ s.in = "--" /\ c = LineEnd -> [s EXCEPT !.in = "sql"]
                  [] ~s.skip /\ s.in = "/*" /\ c = "*/" -> [s EXCEPT !.in = "sql"]
                  [] ~s.skip /\ s.in = "sql" /\ c \in Quotes \union {"--", "/*"} -> [s EXCEPT !.in = c]
                  [] ~s.skip /\ s.in = "sql" /\ c = "(" -> [s EXCEPT !.depth = @ + 1]
                  [] ~s.skip /\ s.in = "sql" /\ c = ")" /\ s.depth > 0 -> [s EXCEPT !.depth = @ - 1]
                  [] OTHER -> s
  IN walk

\* The commas that separate.
TopCommas(args) ==
  LET walk == Walk(args)
  IN FlattenSeq([i \in DOMAIN args |->
       IF args[i] = "," /\ walk[i].in = "sql" /\ walk[i].depth = 0 THEN <<i>> ELSE <<>>])

split_args(args) ==
  LET at == TopCommas(args)
      n  == Len(at)
  IN [k \in 1..(n + 1) |->
        Trim(SubSeq(args, IF k = 1 THEN 1 ELSE at[k - 1] + 1, IF k = n + 1 THEN Len(args) ELSE at[k] - 1))]
-----------------------------------------------------------------------------
(* The hooks.                                                               *)

Renamed == [UCASE |-> "upper", LCASE |-> "lower", CHAR |-> "chr", LOG |-> "ln",
            IFNULL |-> "coalesce", DAYOFMONTH |-> "day_of_month", DAYOFYEAR |-> "day_of_year"]

\* A likely mistake: a name nobody renames, and so left as it is.
renamed_as_is(name) == name
remap_scalar_fn(name) == IF name \in DOMAIN Renamed THEN Renamed[name] ELSE name

trino_interval_unit(keyword) ==
  CASE keyword = <<"SQL_TSI_SECOND">> -> "'second'"
    [] keyword = <<"SQL_TSI_MINUTE">> -> "'minute'"
    [] keyword = <<"SQL_TSI_HOUR">> -> "'hour'"
    [] keyword = <<"SQL_TSI_DAY">> -> "'day'"
    [] keyword = <<"SQL_TSI_WEEK">> -> "'week'"
    [] keyword = <<"SQL_TSI_MONTH">> -> "'month'"
    [] keyword = <<"SQL_TSI_QUARTER">> -> "'quarter'"
    [] keyword = <<"SQL_TSI_YEAR">> -> "'year'"
    [] OTHER -> "none"

CharTypes == {"SQL_CHAR", "SQL_VARCHAR", "SQL_LONGVARCHAR", "SQL_WCHAR", "SQL_WVARCHAR", "SQL_WLONGVARCHAR"}
trino_convert_target(keyword) ==
  LET Is(names) == \E name \in names : keyword = <<name>> IN
  CASE Is({"SQL_BIGINT"}) -> "BIGINT"
    [] Is({"SQL_INTEGER"}) -> "INTEGER"
    [] Is({"SQL_SMALLINT"}) -> "SMALLINT"
    [] Is({"SQL_TINYINT"}) -> "TINYINT"
    [] Is({"SQL_DOUBLE", "SQL_FLOAT"}) -> "DOUBLE"
    [] Is({"SQL_REAL"}) -> "REAL"
    [] Is({"SQL_DECIMAL", "SQL_NUMERIC"}) -> "DECIMAL"
    [] Is({"SQL_BIT"}) -> "BOOLEAN"
    [] Is(CharTypes) -> "VARCHAR"
    [] Is({"SQL_BINARY", "SQL_VARBINARY", "SQL_LONGVARBINARY"}) -> "VARBINARY"
    [] Is({"SQL_DATE", "SQL_TYPE_DATE"}) -> "DATE"
    [] Is({"SQL_TIME", "SQL_TYPE_TIME"}) -> "TIME"
    [] Is({"SQL_TIMESTAMP", "SQL_TYPE_TIMESTAMP"}) -> "TIMESTAMP"
    [] Is({"SQL_GUID"}) -> "UUID"
    [] OTHER -> "none"

Call(name, args) == <<name, "(">> \o args \o <<")">>
Comma == <<",">>

\* Digits that are a number, as a word of it; anything else scales by a power.
rewrite_truncate(value, digits) ==
  LET scaled(by, back, scale) ==
        <<"(">> \o Call("truncate", value \o <<by>> \o scale) \o <<back>> \o scale \o <<")">>
  IN CASE digits = <<"0">> -> Call("truncate", value)
       [] digits = <<"1">> -> scaled("*", "/", <<"10">>)
       [] digits = <<"-1">> -> scaled("/", "*", <<"10">>)
       [] OTHER -> scaled("*", "/", Call("power", <<"10", ",">> \o digits))

Keyword(name) ==
  CASE name \in {"CURDATE", "CURRENT_DATE"} -> "current_date"
    [] name \in {"CURTIME", "CURRENT_TIME"} -> "current_time"
    [] name = "CURRENT_TIMESTAMP" -> "current_timestamp"
    [] name = "USERNAME" -> "current_user"
    [] name = "DBNAME" -> "current_catalog"
    [] OTHER -> "none"

\* None where the name's own spelling serves, or the arity is another one.
rewrite_scalar_fn(name, args) ==
  LET parts == split_args(args)
      n     == Len(parts)
      empty == Trim(args) = <<>>
      Blank == <<",", "' '">>
  IN CASE name = "LOCATE" /\ n = 2 -> Call("position", parts[1] \o <<"IN">> \o parts[2])
       [] name = "LENGTH" /\ n = 1 -> Call("length", Call("rtrim", parts[1] \o Blank))
       [] name = "LTRIM" /\ n = 1 -> Call("ltrim", parts[1] \o Blank)
       [] name = "RTRIM" /\ n = 1 -> Call("rtrim", parts[1] \o Blank)
       [] Keyword(name) # "none" /\ empty -> <<Keyword(name)>>
       [] name = "TIMESTAMPADD" /\ n = 3 /\ trino_interval_unit(parts[1]) # "none" ->
            Call("date_add", <<trino_interval_unit(parts[1]), ",">> \o parts[2] \o Comma \o parts[3])
       [] name = "TIMESTAMPDIFF" /\ n = 3 /\ trino_interval_unit(parts[1]) # "none" ->
            Call("date_diff", <<trino_interval_unit(parts[1]), ",">> \o parts[2] \o Comma \o parts[3])
       [] name = "CONVERT" /\ n = 2 /\ trino_convert_target(parts[2]) # "none" ->
            Call("CAST", parts[1] \o <<"AS", trino_convert_target(parts[2])>>)
       [] name = "RAND" /\ n = 1 /\ ~empty -> Call("random", <<>>)
       [] name = "TRUNCATE" /\ n = 2 -> rewrite_truncate(parts[1], parts[2])
       [] name = "DAYOFWEEK" /\ n = 1 ->
            <<"(", "(">> \o Call("day_of_week", parts[1]) \o <<"%", "7", ")", "+", "1", ")">>
       [] OTHER -> None

\* What core makes of {fn name(args)} with the two hooks (dialect).
translate(name, args) ==
  LET whole == rewrite_scalar_fn(name, args)
  IN IF whole # None THEN whole ELSE Call(remap_scalar_fn(name), args)
=============================================================================
