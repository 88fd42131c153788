------------------------------- MODULE TextCalls -------------------------------
(***************************************************************************)
(* The calls that make SQL text: SQLExecute of a prepared statement with   *)
(* bound parameters (params.rs, execute.rs) and SQLNativeSql of an escape  *)
(* sequence (escape_dialect.rs); and what the coordinator makes of that    *)
(* text. They share no state, so one at a time is in progress; a call is   *)
(* one step that leaves its arguments and its answer behind.               *)
(***************************************************************************)
EXTENDS Temporal, EscapeDialect, FiniteSets

CONSTANTS
  Executions,     \* [sql, params] of SQLExecute
  Escapes         \* [fn, args] of {fn fn(args)}

\* ColumnValue, with the widths of its fields; what is neither text, a number's
\* sign or finiteness nor a date does not matter here.
I16 == {n \in Int : -32768 <= n /\ n <= 32767}
U16 == {n \in Nat : n <= 65535}
\* A fraction has 32 bits, more than TLC counts.
U32 == Nat
ColumnValues ==
  [type : {"String", "Json", "Decimal"}, text : Seq(STRING)]
  \union [type : {"F32", "F64"}, finite : BOOLEAN]
  \union [type : {"I8", "I16", "I32", "I64"}, negative : BOOLEAN]
  \union [type : {"Null", "Bool", "Bytes", "Guid", "Array", "Map", "Row"}]
  \union [type : {"Date"}, year : I16, month : U16, day : U16]
  \union [type : {"Time"}, hour : U16, minute : U16, second : U16, fraction : U32]
  \union [type : {"Timestamp"}, year : I16, month : U16, day : U16,
          hour : U16, minute : U16, second : U16, fraction : U32]
  \union [type : {"TimestampTz"}, year : I16, month : U16, day : U16,
          hour : U16, minute : U16, second : U16, fraction : U32, offset : I16]

ASSUME ExecutionsAssumption == Executions \subseteq [sql : Seq(STRING), params : Seq(ColumnValues)]
ASSUME EscapesAssumption == Escapes \subseteq [fn : STRING, args : Seq(STRING)]

VARIABLES call, answer

vars == <<call, answer>>

NoCall == [op |-> "none"]
Init == call = NoCall /\ answer = NoCall

AtRest == call = NoCall

\* A call that is answered where it is made.
Answers(op, arguments, result) ==
  /\ call' = [op |-> op, of |-> arguments]
  /\ answer' = result

SQLExecute ==
  /\ AtRest
  /\ \E e \in Executions : Answers("execute", e, interpolate_params(e.sql, e.params))

SQLNativeSql ==
  /\ AtRest
  /\ \E e \in Escapes : Answers("native_sql", e, [sql |-> translate(e.fn, e.args)])

Done ==
  /\ call # NoCall
  /\ call' = NoCall /\ answer' = NoCall

TextNext == SQLExecute \/ SQLNativeSql \/ Done
TextSpec == Init /\ [][TextNext]_vars
-----------------------------------------------------------------------------
(* Bound parameters, and the coordinator's reading of them (external).      *)

Token(kind, text) == [kind |-> kind, text |-> text]
Word(w) == Token("sql", <<w>>)

\* What hides the text after it, up to what closes it: a quoted name, a comment to
\* the end of the line and one in brackets. Two minuses in a row are one "--".
Hiding == {"\"", "--", "/*"}
Closing(mode) == CASE mode = "\"" -> "\"" [] mode = "--" -> LineEnd [] mode = "/*" -> "*/"

\* Where a character leads that is not in a string.
Into(c) == IF c \in Hiding THEN c ELSE "sql"

\* SQL text as the coordinator's lexer cuts it, character by character; of two
\* quotes in a row inside a string the lexer makes one.
LexStep(s, c) ==
  CASE s.mode = "sql" ->
         IF c = QUOTE THEN [s EXCEPT !.mode = "string", !.text = <<>>]
         ELSE [s EXCEPT !.mode = Into(c), !.tokens = Append(@, Word(c))]
    [] s.mode = "string" ->
         IF c = QUOTE THEN [s EXCEPT !.mode = "quote"] ELSE [s EXCEPT !.text = Append(@, c)]
    [] s.mode = "quote" ->
         IF c = QUOTE THEN [s EXCEPT !.mode = "string", !.text = Append(@, QUOTE)]
         ELSE [mode |-> Into(c), text |-> <<>>,
               tokens |-> Append(Append(s.tokens, Token("string", s.text)), Word(c))]
    [] s.mode \in Hiding ->
         [s EXCEPT !.mode = IF c = Closing(s.mode) THEN "sql" ELSE @,
                   !.tokens = Append(@, Token(s.mode, <<c>>))]

LexFrom(state, chars) ==
  LET lex[i \in 0..Len(chars)] == IF i = 0 THEN state ELSE LexStep(lex[i - 1], chars[i])
  IN lex[Len(chars)]

Ended(s) ==
  CASE s.mode \in {"sql"} \union Hiding -> s.tokens
    [] s.mode = "quote" -> Append(s.tokens, Token("string", s.text))
    [] s.mode = "string" -> Append(s.tokens, Token("open string", s.text))

LexStart == [mode |-> "sql", text |-> <<>>, tokens |-> <<>>]
Lexed(chars) == Ended(LexFrom(LexStart, chars))

\* What a bound value means.
Meaning(v) ==
  CASE v.type = "String" -> <<Token("string", v.text)>>
    [] v.type \in {"Json", "Decimal"} ->
         <<Word(IF v.type = "Json" THEN "JSON" ELSE "DECIMAL"), Token("string", v.text)>>
    [] OTHER -> Lexed(Chars(render_literal(v)))

\* How many placeholders are among the first tokens.
Marks(tokens) ==
  LET marks[i \in 0..Len(tokens)] ==
        IF i = 0 THEN 0 ELSE IF tokens[i] = Word(MARK) THEN marks[i - 1] + 1 ELSE marks[i - 1]
  IN marks

\* The tokens of a statement, each placeholder read as the value bound to it.
Substituted(tokens, params) ==
  FlattenSeq([i \in 1..Len(tokens) |->
                IF tokens[i] = Word(MARK) THEN Meaning(params[Marks(tokens)[i]]) ELSE <<tokens[i]>>])

\* A literal next to a quote or to another literal would run into it, and a
\* negative number after a minus would begin a comment.
Separated(sql) ==
  \A i \in 1..(Len(sql) - 1) :
    <<sql[i], sql[i + 1]>> \notin {<<MARK, QUOTE>>, <<MARK, MARK>>, <<QUOTE, MARK>>, <<"-", MARK>>}

\* What the lexer is in when it comes to a character of a statement.
Inside(sql, i) == LexFrom(LexStart, SubSeq(sql, 1, i - 1)).mode

\* No quote and no question mark in a quoted name or a comment, where the driver
\* would take it for one of the statement's.
NothingHidden(sql) == \A i \in DOMAIN sql : Inside(sql, i) \in Hiding => sql[i] \notin {QUOTE, MARK}

\* The statement the coordinator reads is the one that was prepared, names and
\* comments included, with each placeholder outside a string read as the value
\* bound to it, whatever quotes that value holds; and it is refused exactly when
\* the counts differ or a value has no literal (interpolate_params,
\* render_literal). Left out: a statement with a quote or a question mark in a
\* quoted name or a comment (NothingHidden), which the driver misreads
\* (OnlyStringsHidePlaceholders), and a literal that touches what is beside it
\* (Separated).
LiteralsStayWhole ==
  (call.op = "execute" /\ NothingHidden(call.of.sql)) =>
    LET tokens == Lexed(call.of.sql)
        params == call.of.params
    IN /\ answer.ok <=> /\ Marks(tokens)[Len(tokens)] = Len(params)
                        /\ \A k \in DOMAIN params : render_literal(params[k]).ok
       /\ answer.ok /\ Separated(call.of.sql) => Lexed(answer.sql) = Substituted(tokens, params)


\* A bound fraction is held below a second, whatever was bound.
Held(v) == IF v.fraction > 999999999 THEN [v EXCEPT !.fraction = 999999999] ELSE v

\* A literal that is read gives the value that was bound, for each type that has
\* a reading.
ReadsBack(v) ==
  LET body == render_literal(v).body
  IN CASE v.type = "Date" -> v.year = -32768 \/ parse_trino_date(body) = v
       [] v.type = "Time" -> v.second > 59 \/ parse_trino_time(body) = Held(v)
       [] v.type = "Timestamp" ->
            v.second > 59 \/ v.year = -32768 \/ parse_trino_timestamp(body) = Held(v)
       [] v.type = "TimestampTz" ->
            \/ v.second > 59 \/ v.year = -32768 \/ v.offset \notin (-840)..840
            \/ parse_trino_timestamp_tz(body, Fixed(v.offset)) =
                 [f \in DOMAIN v \ {"offset"} |-> IF f = "type" THEN "Timestamp" ELSE Held(v)[f]]
       [] OTHER -> TRUE

\* What the coordinator sends for a temporal literal is read back as the value
\* that was bound, at any year, fraction and offset. The ends are left out: a
\* fraction of a second and more, which is held below it; a leap second and an
\* offset of more than fourteen hours, which Trino refuses; and the year -32768,
\* whose magnitude is read as out of range (parse_ymd) though it renders
\* (render_literal).
BoundValueReadsBack ==
  call.op = "execute" =>
    \A k \in DOMAIN call.of.params :
      render_literal(call.of.params[k]).ok => ReadsBack(call.of.params[k])
-----------------------------------------------------------------------------
(* The arguments of an escape.                                              *)

\* Text without its blanks.
Solid(s) == FlattenSeq([i \in DOMAIN s |-> IF s[i] \in Blanks THEN <<>> ELSE <<s[i]>>])
JoinedByCommas(parts) == FlattenSeq([k \in DOMAIN parts |-> IF k = 1 THEN parts[k] ELSE Comma \o parts[k]])

\* What the coordinator's lexer is inside of, and how many parentheses are open; a
\* doubled quote closes and opens again.
TopLevel == [in |-> "sql", depth |-> 0]
OpenStep(s, c) ==
  CASE s.in = "sql" /\ c \in Quotes \union {"--", "/*"} -> [s EXCEPT !.in = c]
    [] s.in = "sql" /\ c = "(" -> [s EXCEPT !.depth = @ + 1]
    [] s.in = "sql" /\ c = ")" /\ s.depth > 0 -> [s EXCEPT !.depth = @ - 1]
    [] \/ s.in \in Quotes /\ c = s.in
       \/ s.in = "--" /\ c = LineEnd
       \/ s.in = "/*" /\ c = "*/" -> [s EXCEPT !.in = "sql"]
    [] OTHER -> s

LeftOpen(chars) ==
  LET open[i \in 0..Len(chars)] == IF i = 0 THEN TopLevel ELSE OpenStep(open[i - 1], chars[i])
  IN open[Len(chars)]

Separators(args) == {i \in DOMAIN args : args[i] = "," /\ LeftOpen(SubSeq(args, 1, i - 1)) = TopLevel}

\* An argument list is split where the coordinator would split it: at every
\* comma outside strings, quoted names, comments and parentheses, and at no
\* other; and nothing but the blanks around an argument is lost (split_args).
ArgumentsSurvive ==
  call.op = "native_sql" =>
    LET args  == call.of.args
        parts == split_args(args)
        ends  == Separators(args)
    IN /\ Len(parts) = Cardinality(ends) + 1
       /\ \A i \in ends \union {Len(args) + 1} :
            LET upto == SubSeq(parts, 1, Cardinality({j \in ends : j < i}) + 1)
            IN Solid(JoinedByCommas(upto)) = Solid(SubSeq(args, 1, i - 1))
=============================================================================
