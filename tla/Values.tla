------------------------------- MODULE Values -------------------------------
(***************************************************************************)
(* type_conversion.rs: json_to_column_value, and the SQL type a column is  *)
(* reported with when only its TrinoTy is known.                           *)
(*                                                                         *)
(* A TrinoTy is a record with its name, and its inner types if it has any. *)
(* A JSON value is null, a bool, an int (bits: the smallest signed width   *)
(* it fits in, 65 when none does), a float (single: whether it is in the   *)
(* range of a REAL), a string with what it spells, an array of values, or  *)
(* an object as a sequence of <<key, value>>.                              *)
(***************************************************************************)
EXTENDS Temporal

Width == [I8 |-> 8, I16 |-> 16, I32 |-> 32, I64 |-> 64]
Temporals == {"Time", "TimeWithTimeZone", "Timestamp", "TimestampWithTimeZone"}

IsString(val) == val.json = "string"
Spells(val, what) == IsString(val) /\ val.text.is = what

\* The value as the text Trino sent, when the column's type does not hold it.
json_as_text(val) == [type |-> "String", from |-> val]
OrText(value, val) == IF value = Nothing THEN json_as_text(val) ELSE value
-----------------------------------------------------------------------------
\* A likely mistake: `as`, which cuts an integer to the width asked for.
narrowed(val, ty) ==
  IF val.json = "int" THEN [type |-> ty, from |-> [val EXCEPT !.bits = Width[ty]]] ELSE Nothing

\* as_i64, then the width; only a BIGINT is also read from a string.
as_integer(val, ty) ==
  CASE val.json = "int" /\ val.bits <= Width[ty] -> [type |-> ty, from |-> val]
    [] ty = "I64" /\ Spells(val, "integer") -> [type |-> ty, from |-> val]
    [] OTHER -> Nothing

\* NaN and the infinities come as strings.
trino_special_float(val) == Spells(val, "special")

as_float(val, ty) ==
  CASE val.json = "int" \/ trino_special_float(val) -> [type |-> ty, from |-> val]
    [] val.json = "float" /\ (ty = "F64" \/ val.single) -> [type |-> ty, from |-> val]
    [] OTHER -> Nothing

base64_decode(val) == IF Spells(val, "base64") THEN [type |-> "Bytes", from |-> val] ELSE Nothing

as_temporal(val, ty, session, now) ==
  CASE ty = "Date" /\ Spells(val, "date") -> parse_trino_date(val.text)
    [] ty = "Time" /\ Spells(val, "time") -> parse_trino_time(val.text)
    [] ty = "TimeWithTimeZone" /\ Spells(val, "time") ->
         parse_trino_time_with_tz(val.text, offset_at(session, now))
    [] ty = "Timestamp" /\ Spells(val, "timestamp") -> parse_trino_timestamp(val.text)
    [] ty = "TimestampWithTimeZone" /\ Spells(val, "timestamp") ->
         parse_trino_timestamp_tz(val.text, session)
    [] OTHER -> Nothing

\* The fields a row's items are read with: items without a type are dropped.
Paired(items, fields) == 1..(IF Len(items) < Len(fields) THEN Len(items) ELSE Len(fields))

RECURSIVE json_to_column_value(_, _, _, _)
json_to_column_value(val, ty, session, now) ==
  CASE val.json = "null" -> [type |-> "Null"]
    [] val.json # "null" /\ ty.name = "Option" -> json_to_column_value(val, ty.inner, session, now)
    [] val.json # "null" /\ ty.name \in DOMAIN Width -> OrText(as_integer(val, ty.name), val)
    [] val.json # "null" /\ ty.name \in {"F64", "F32"} -> OrText(as_float(val, ty.name), val)
    [] val.json # "null" /\ ty.name = "Boolean" ->
         IF val.json = "bool" THEN [type |-> "Bool", from |-> val] ELSE json_as_text(val)
    [] val.json # "null" /\ ty.name \in Temporals \union {"Date"} ->
         OrText(as_temporal(val, ty.name, session, now), val)
    [] val.json # "null" /\ ty.name \in {"Decimal", "Json"} -> [type |-> ty.name, from |-> val]
    [] val.json # "null" /\ ty.name = "VarBinary" -> OrText(base64_decode(val), val)
    [] val.json = "array" /\ ty.name = "Array" ->
         [type |-> "Array",
          items |-> [i \in DOMAIN val.items |-> json_to_column_value(val.items[i], ty.inner, session, now)]]
    [] val.json = "object" /\ ty.name = "Map" ->
         [type |-> "Map",
          entries |-> [i \in DOMAIN val.entries |->
                       <<json_to_column_value([json |-> "string", text |-> val.entries[i][1]],
                                              ty.key, session, now),
                         json_to_column_value(val.entries[i][2], ty.inner, session, now)>>]]
    [] val.json = "array" /\ ty.name \in {"Row", "Tuple"} ->
         [type |-> "Row",
          items |-> [i \in Paired(val.items, ty.fields) |->
                       json_to_column_value(val.items[i], ty.fields[i], session, now)]]
    [] OTHER -> json_as_text(val)

\* The fraction of a text that is read, and whether any of it is lost.
Cut(val) ==
  \/ Spells(val, "time") /\ fraction_exceeds_nanoseconds(val.text.fraction)
  \/ Spells(val, "timestamp") /\ fraction_exceeds_nanoseconds(val.text.time.fraction)

\* A likely mistake: only a column that is itself temporal is looked at.
discards_at_the_top(val, ty) == ty.name \in Temporals /\ Cut(val)

\* Asked of the text, composites included.
RECURSIVE discards_fractional_seconds(_, _)
discards_fractional_seconds(val, ty) ==
  CASE ty.name \in Temporals -> Cut(val)
    [] ty.name = "Option" -> discards_fractional_seconds(val, ty.inner)
    [] ty.name = "Array" /\ val.json = "array" ->
         \E i \in DOMAIN val.items : discards_fractional_seconds(val.items[i], ty.inner)
    [] ty.name = "Map" /\ val.json = "object" ->
         \E i \in DOMAIN val.entries :
            \/ discards_fractional_seconds([json |-> "string", text |-> val.entries[i][1]], ty.key)
            \/ discards_fractional_seconds(val.entries[i][2], ty.inner)
    [] ty.name \in {"Row", "Tuple"} /\ val.json = "array" ->
         \E i \in Paired(val.items, ty.fields) :
            discards_fractional_seconds(val.items[i], ty.fields[i])
    [] OTHER -> FALSE
-----------------------------------------------------------------------------
(* The SQL type of a column, from its TrinoTy.                              *)

RECURSIVE trino_ty_to_sql_type(_)
trino_ty_to_sql_type(ty) ==
  CASE ty.name = "I64" -> "EXT_BIG_INT"
    [] ty.name = "I32" -> "INTEGER"
    [] ty.name = "I16" -> "SMALLINT"
    [] ty.name = "I8" -> "EXT_TINY_INT"
    [] ty.name = "F64" -> "DOUBLE"
    [] ty.name = "F32" -> "REAL"
    [] ty.name = "Boolean" -> "EXT_BIT"
    [] ty.name = "Date" -> "DATE"
    [] ty.name \in {"Time", "TimeWithTimeZone"} -> "TIME"
    [] ty.name \in {"Timestamp", "TimestampWithTimeZone"} -> "TIMESTAMP"
    [] ty.name = "Decimal" -> "DECIMAL"
    [] ty.name = "VarBinary" -> "EXT_LONG_VAR_BINARY"
    [] ty.name = "Option" -> trino_ty_to_sql_type(ty.inner)
    [] OTHER -> "EXT_W_VARCHAR"
=============================================================================
