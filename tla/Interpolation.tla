---------------------------- MODULE Interpolation ----------------------------
(***************************************************************************)
(* backend/params.rs: bound parameters become literals in the SQL text.    *)
(*                                                                         *)
(* A statement is a sequence of characters, of which only the quote and    *)
(* the placeholder mean something here; any other name stands for text     *)
(* without either. A ColumnValue is a record with its type; characters are *)
(* kept where the application chooses them (String, Json, Decimal), the    *)
(* numbers of a date or a time where they are checked.                     *)
(***************************************************************************)
EXTENDS Integers, Sequences, SequencesExt

QUOTE == "'"
MARK  == "?"
Digits == {"0", "7"}

Refused(sqlstate) == [ok |-> FALSE, why |-> sqlstate]
Rendered(word, body) == [ok |-> TRUE, word |-> word, body |-> body]
-----------------------------------------------------------------------------
(* Temporal values.                                                         *)

DaysIn(year, month) ==
  CASE month \in {4, 6, 9, 11} -> 30
    [] month = 2 -> IF year % 4 = 0 /\ (year % 100 # 0 \/ year % 400 = 0) THEN 29 ELSE 28
    [] OTHER -> 31

check_date(v) == v.month \in 1..12 /\ v.day \in 1..DaysIn(v.year, v.month)

\* Leap seconds are for the coordinator to refuse.
check_time(v) == v.hour < 24 /\ v.minute < 60 /\ v.second <= 61

Place == <<100000000, 10000000, 1000000, 100000, 10000, 1000, 100, 10, 1>>

\* Nine digits whatever was bound; a whole second does not fit the field.
nanos(fraction) ==
  LET held == IF fraction > 999999999 THEN 999999999 ELSE fraction
  IN [i \in 1..9 |-> (held \div Place[i]) % 10]

\* A likely mistake: the magnitude alone.
year_without_sign(year) == [sign |-> "", magnitude |-> IF year < 0 THEN -year ELSE year]
year4(year) == [sign |-> IF year < 0 THEN "-" ELSE "", magnitude |-> IF year < 0 THEN -year ELSE year]

DateText(v) == [year |-> year4(v.year), month |-> v.month, day |-> v.day]
TimeText(v) == [hour |-> v.hour, minute |-> v.minute, second |-> v.second,
                fraction |-> nanos(v.fraction)]
OffsetText(minutes) ==
  LET abs == IF minutes < 0 THEN -minutes ELSE minutes
  IN [sign |-> IF minutes < 0 THEN "-" ELSE "+", hours |-> abs \div 60, minutes |-> abs % 60]

invalid_datetime == Refused("22007")
-----------------------------------------------------------------------------
(* Literals.                                                                *)

\* A likely mistake: the text as it was bound.
quote_nothing(s) == s

\* The text between the outer quotes: every quote twice.
quote_string(s) == FlattenSeq([i \in DOMAIN s |-> IF s[i] = QUOTE THEN <<QUOTE, QUOTE>> ELSE <<s[i]>>])

\* The coordinator's reading of it: of two quotes in a row the second is dropped.
ReadLiteral(chars) ==
  LET dropped[i \in 0..Len(chars)] ==
        i > 1 /\ chars[i] = QUOTE /\ chars[i - 1] = QUOTE /\ ~dropped[i - 1]
      kept == SelectSeq([i \in DOMAIN chars |-> i], LAMBDA i : ~dropped[i])
  IN [k \in DOMAIN kept |-> chars[kept[k]]]

AllDigits(s) == s # <<>> /\ \A i \in DOMAIN s : s[i] \in Digits

is_plain_decimal(s) ==
  LET body == IF s # <<>> /\ s[1] \in {"-", "+"} THEN Tail(s) ELSE s
      dot  == SelectInSeq(body, LAMBDA c : c = ".")
  IN IF dot = 0 THEN AllDigits(body)
     ELSE AllDigits(SubSeq(body, 1, dot - 1)) /\ AllDigits(SubSeq(body, dot + 1, Len(body)))

render_literal(v) ==
  CASE v.type \in {"Null", "Bool"} -> Rendered("bare", <<"0">>)
    [] v.type \in {"I8", "I16", "I32", "I64"} ->
         Rendered("bare", IF v.negative THEN <<"-", "0">> ELSE <<"0">>)
    [] v.type \in {"F32", "F64"} ->
         IF v.finite THEN Rendered(IF v.type = "F32" THEN "REAL" ELSE "DOUBLE", <<"0">>)
                     ELSE Refused("HY000")
    [] v.type = "String" -> Rendered("", quote_string(v.text))
    [] v.type = "Json" -> Rendered("JSON", quote_string(v.text))
    [] v.type = "Decimal" ->
         IF is_plain_decimal(v.text) THEN Rendered("DECIMAL", v.text) ELSE Refused("HY000")
    [] v.type \in {"Bytes", "Guid"} -> Rendered(IF v.type = "Guid" THEN "UUID" ELSE "X", <<"0">>)
    [] v.type = "Date" ->
         IF check_date(v) THEN Rendered("DATE", DateText(v)) ELSE invalid_datetime
    [] v.type = "Time" ->
         IF check_time(v) THEN Rendered("TIME", TimeText(v)) ELSE invalid_datetime
    [] v.type = "Timestamp" ->
         IF check_date(v) /\ check_time(v)
         THEN Rendered("TIMESTAMP", [date |-> DateText(v), time |-> TimeText(v), zone |-> "absent"])
         ELSE invalid_datetime
    [] v.type = "TimestampTz" ->
         IF check_date(v) /\ check_time(v)
         THEN Rendered("TIMESTAMP", [date |-> DateText(v), time |-> TimeText(v),
                                     zone |-> OffsetText(v.offset)])
         ELSE invalid_datetime
    [] OTHER -> Refused("HY000")

\* The characters of a literal, as far as they matter to the statement around it.
Chars(literal) ==
  CASE literal.word = "bare" -> literal.body
    [] literal.word \in {"DATE", "TIME", "TIMESTAMP"} -> <<literal.word, QUOTE, "0", QUOTE>>
    [] literal.word = "" -> <<QUOTE>> \o literal.body \o <<QUOTE>>
    [] OTHER -> <<literal.word, QUOTE>> \o literal.body \o <<QUOTE>>
-----------------------------------------------------------------------------
(* interpolate_params.                                                      *)

\* The loop's state before character i: inside a string, just past the first
\* of two quotes, and how many placeholders went by.
Scan(sql) ==
  LET scan[i \in 1..(Len(sql) + 1)] ==
        IF i = 1 THEN [string |-> FALSE, pair |-> FALSE, next |-> 0]
        ELSE LET s == scan[i - 1]
                 c == sql[i - 1]
                 doubled == i <= Len(sql) /\ sql[i] = QUOTE
             IN CASE s.pair -> [s EXCEPT !.pair = FALSE]
                  [] ~s.pair /\ c = QUOTE /\ ~s.string -> [s EXCEPT !.string = TRUE]
                  [] ~s.pair /\ c = QUOTE /\ s.string /\ doubled -> [s EXCEPT !.pair = TRUE]
                  [] ~s.pair /\ c = QUOTE /\ s.string /\ ~doubled -> [s EXCEPT !.string = FALSE]
                  [] ~s.pair /\ c = MARK /\ ~s.string -> [s EXCEPT !.next = @ + 1]
                  [] OTHER -> s
  IN scan

\* A parameter per placeholder outside the strings, in order, and none over; the
\* first placeholder that cannot be replaced decides the error, before the count.
interpolate_params(sql, params) ==
  LET scan == Scan(sql)
      Placeholder(i) == sql[i] = MARK /\ ~scan[i].string
      found == scan[Len(sql) + 1].next
      literals == [k \in DOMAIN params |-> render_literal(params[k])]
      Stops(k) == k > Len(params) \/ ~literals[k].ok
      First == CHOOSE k \in 1..found : Stops(k) /\ \A j \in 1..(k - 1) : ~Stops(j)
  IN IF \E k \in 1..found : Stops(k)
     THEN IF First > Len(params) THEN Refused("HY000") ELSE literals[First]
     ELSE IF found # Len(params) THEN Refused("HY000")
     ELSE [ok |-> TRUE, sql |-> FlattenSeq([i \in DOMAIN sql |->
             IF Placeholder(i) THEN Chars(literals[scan[i].next + 1]) ELSE <<sql[i]>>])]
=============================================================================
