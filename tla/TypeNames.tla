------------------------------ MODULE TypeNames ------------------------------
(***************************************************************************)
(* Three places tell an application what type a column has: SQLDescribeCol *)
(* from a result's metadata (type_conversion.rs, backend/execute.rs),      *)
(* SQLColumns from information_schema (backend/metadata.rs), and           *)
(* SQLGetTypeInfo from a table of rows (backend/info.rs).                  *)
(*                                                                         *)
(* A type string is a record: its name as Trino spells it, in any case,    *)
(* and the numbers between its parentheses. -1 stands for None and NULL.   *)
(***************************************************************************)
EXTENDS Values

MAX_FRACTIONAL_SECONDS_PRECISION == 12
DEFAULT_TEMPORAL_SCALE_WITHOUT_TYPE_NAME == 3
MAX_DECIMAL_PRECISION == 38
I32_MAX == 2147483647
I16_MAX_SCALE == 32767
BYTES_PER_CHAR == 4
NUM_PREC_RADIX_DECIMAL == 10
PRECISION_UNDETERMINABLE == 2147483646  \* core's sentinel
Or(n, default) == IF n = -1 THEN default ELSE n

\* The Column Size appendix, as core has it: -1 is no size.
column_size(sql_type, precision, scale) ==
  CASE sql_type = "EXT_TINY_INT" -> 3
    [] sql_type = "SMALLINT" -> 5
    [] sql_type = "INTEGER" -> 10
    [] sql_type = "EXT_BIG_INT" -> 19
    [] sql_type = "REAL" -> 7
    [] sql_type = "DOUBLE" -> 15
    [] sql_type = "EXT_BIT" -> 1
    [] sql_type = "DATE" -> 10
    [] sql_type = "TIME" -> IF scale = 0 THEN 8 ELSE 9 + scale
    [] sql_type = "TIMESTAMP" -> IF scale = 0 THEN 19 ELSE 20 + scale
    [] OTHER -> precision
-----------------------------------------------------------------------------
(* TrinoTypeName.                                                           *)

Native == [boolean |-> "BOOLEAN", tinyint |-> "TINYINT", smallint |-> "SMALLINT",
           integer |-> "INTEGER", int |-> "INTEGER", bigint |-> "BIGINT", real |-> "REAL",
           double |-> "DOUBLE", decimal |-> "DECIMAL", numeric |-> "DECIMAL",
           varchar |-> "VARCHAR", string |-> "VARCHAR", char |-> "CHAR",
           varbinary |-> "VARBINARY", date |-> "DATE", time |-> "TIME", timestamp |-> "TIMESTAMP",
           json |-> "JSON", uuid |-> "UUID"]
WithSuffix == {<<"double precision", "DOUBLE">>, <<"character varying", "VARCHAR">>,
               <<"time with time zone", "TIME WITH TIME ZONE">>,
               <<"timestamp with time zone", "TIMESTAMP WITH TIME ZONE">>,
               <<"interval day to second", "INTERVAL DAY TO SECOND">>,
               <<"interval year to month", "INTERVAL YEAR TO MONTH">>}
ALL_VARIANTS == {Native[n] : n \in DOMAIN Native} \union {pair[2] : pair \in WithSuffix}

\* A likely mistake: the name ends where its argument starts.
parse_prefix(name) == IF name.base \in DOMAIN Native THEN Native[name.base] ELSE "None"

\* The name without its argument, which may stand in its middle.
parse(name) ==
  CASE name.base \in DOMAIN Native -> Native[name.base]
    [] \E pair \in WithSuffix : pair[1] = name.base ->
         (CHOOSE pair \in WithSuffix : pair[1] = name.base)[2]
    [] OTHER -> "None"

TemporalNames == {"TIME", "TIME WITH TIME ZONE", "TIMESTAMP", "TIMESTAMP WITH TIME ZONE"}
has_precision_param(ty) == ty \in {"VARCHAR", "CHAR", "DECIMAL"}
has_scale_param(ty) == ty = "DECIMAL"
has_temporal_scale_param(ty) == ty \in TemporalNames

sql_type(ty) ==
  CASE ty = "BOOLEAN" -> "EXT_BIT"
    [] ty = "TINYINT" -> "EXT_TINY_INT"
    [] ty = "BIGINT" -> "EXT_BIG_INT"
    [] ty \in {"SMALLINT", "INTEGER", "REAL", "DOUBLE", "DECIMAL", "DATE"} -> ty
    [] ty = "CHAR" -> "EXT_W_CHAR"
    [] ty = "VARBINARY" -> "EXT_LONG_VAR_BINARY"
    [] ty \in {"TIME", "TIME WITH TIME ZONE"} -> "TIME"
    [] ty \in {"TIMESTAMP", "TIMESTAMP WITH TIME ZONE"} -> "TIMESTAMP"
    [] OTHER -> "EXT_W_VARCHAR"

fixed_precision(ty) ==
  IF has_precision_param(ty) \/ sql_type(ty) \in {"EXT_W_VARCHAR", "EXT_LONG_VAR_BINARY"} THEN -1
  ELSE column_size(sql_type(ty), 0, DEFAULT_TEMPORAL_SCALE_WITHOUT_TYPE_NAME)

parse_precision_param(name) == IF Len(name.args) >= 1 THEN name.args[1] ELSE -1
parse_scale_param(name) == IF Len(name.args) >= 2 THEN name.args[2] ELSE -1
temporal_scale_param(name) ==
  LET scale == parse_precision_param(name)
  IN IF scale \in 0..I16_MAX_SCALE THEN scale ELSE DEFAULT_TEMPORAL_SCALE_WITHOUT_TYPE_NAME

\* A likely mistake: the one argument is a precision whatever the type.
first_argument(name) ==
  IF name.args # <<>> THEN name.args[1]
  ELSE IF parse(name) = "None" THEN -1 ELSE fixed_precision(parse(name))

type_name_precision(name) ==
  LET ty == parse(name) IN
  CASE ty = "None" -> -1
    [] has_precision_param(ty) -> parse_precision_param(name)
    [] has_temporal_scale_param(ty) -> column_size(sql_type(ty), 0, temporal_scale_param(name))
    [] OTHER -> fixed_precision(ty)

type_name_scale(name) ==
  LET ty == parse(name) IN
  CASE has_scale_param(ty) -> parse_scale_param(name)
    [] has_temporal_scale_param(ty) -> temporal_scale_param(name)
    [] OTHER -> -1

trino_type_name_to_sql_type(name) ==
  IF parse(name) = "None" THEN "EXT_W_VARCHAR" ELSE sql_type(parse(name))

\* TYPE_NAME: what a column that no name is known for is delivered as.
trino_bare_type_name(name, sql) ==
  CASE parse(name) # "None" -> parse(name)
    [] parse(name) = "None" /\ sql = "EXT_W_VARCHAR" -> "VARCHAR"
    [] OTHER -> ""
-----------------------------------------------------------------------------
(* The TrinoTy of a column, when its type string is not one of those.       *)

RECURSIVE trino_ty_precision(_)
trino_ty_precision(ty) ==
  CASE ty.name = "Option" -> trino_ty_precision(ty.inner)
    [] ty.name \in {"Char", "Decimal"} -> ty.precision
    [] trino_ty_to_sql_type(ty) \in {"EXT_W_VARCHAR", "EXT_LONG_VAR_BINARY"} -> PRECISION_UNDETERMINABLE
    [] OTHER -> column_size(trino_ty_to_sql_type(ty), 0, DEFAULT_TEMPORAL_SCALE_WITHOUT_TYPE_NAME)

RECURSIVE trino_ty_scale(_)
trino_ty_scale(ty) ==
  CASE ty.name = "Option" -> trino_ty_scale(ty.inner)
    [] ty.name = "Decimal" -> ty.scale
    [] OTHER -> 0

\* The descriptor of a result column: exec_direct, on its first page.
describe_column(name, ty) ==
  LET sql == IF parse(name) # "None" THEN sql_type(parse(name)) ELSE trino_ty_to_sql_type(ty)
  IN [data_type |-> sql, type_name |-> trino_bare_type_name(name, sql),
      precision |-> Or(type_name_precision(name), trino_ty_precision(ty)),
      scale |-> Or(type_name_scale(name), trino_ty_scale(ty))]
-----------------------------------------------------------------------------
(* SQLColumns.                                                              *)

\* The verbose type, and the subcode of a datetime.
verbose_type(concise) ==
  CASE concise = "DATE" -> <<"DATETIME", "SQL_CODE_DATE">>
    [] concise = "TIME" -> <<"DATETIME", "SQL_CODE_TIME">>
    [] concise = "TIMESTAMP" -> <<"DATETIME", "SQL_CODE_TIMESTAMP">>
    [] OTHER -> <<concise, "none">>

\* None when the product does not fit.
char_octet_length(sql, precision) ==
  IF sql \in {"EXT_W_VARCHAR", "EXT_W_CHAR"} /\ precision \in 0..(I32_MAX \div BYTES_PER_CHAR)
  THEN precision * BYTES_PER_CHAR ELSE -1

Numeric == {"EXT_TINY_INT", "SMALLINT", "INTEGER", "EXT_BIG_INT", "REAL", "DOUBLE", "DECIMAL"}

column_row(name) ==
  LET sql == trino_type_name_to_sql_type(name)
  IN [data_type |-> sql, type_name |-> trino_bare_type_name(name, sql),
      column_size |-> type_name_precision(name),
      decimal_digits |-> IF sql \in {"DECIMAL", "TIME", "TIMESTAMP"} THEN type_name_scale(name) ELSE -1,
      num_prec_radix |-> IF sql \in Numeric THEN NUM_PREC_RADIX_DECIMAL ELSE -1,
      verbose |-> verbose_type(sql),
      char_octet_length |-> char_octet_length(sql, type_name_precision(name))]
-----------------------------------------------------------------------------
(* SQLGetTypeInfo.                                                          *)

TRINO_TZ_OFFSET_SUFFIX_LEN == 6
TRINO_TZ_TIMESTAMP_SPACE_LEN == 1

\* The largest precision of a type whose strings carry one or have none.
MaxPrecision(ty) ==
  CASE ty \in {"CHAR", "SQL_CHAR"} -> 65535
    [] ty = "DECIMAL" -> MAX_DECIMAL_PRECISION
    [] ty = "UUID" -> 36
    [] OTHER -> I32_MAX

type_info_sql_type(ty) ==
  CASE ty = "SQL_CHAR" -> "CHAR" [] ty = "SQL_VARCHAR" -> "VARCHAR" [] OTHER -> sql_type(ty)

\* Room for the offset a zoned value carries on the wire.
WireSuffix(ty) ==
  CASE ty = "TIME WITH TIME ZONE" -> TRINO_TZ_OFFSET_SUFFIX_LEN
    [] ty = "TIMESTAMP WITH TIME ZONE" -> TRINO_TZ_TIMESTAMP_SPACE_LEN + TRINO_TZ_OFFSET_SUFFIX_LEN
    [] OTHER -> 0

trino_type_info ==
  {[type_name |-> ty, data_type |-> type_info_sql_type(ty),
    column_size |-> WireSuffix(ty) +
       column_size(type_info_sql_type(ty), MaxPrecision(ty), MAX_FRACTIONAL_SECONDS_PRECISION),
    maximum_scale |-> CASE ty = "DECIMAL" -> 38
                        [] ty \in TemporalNames -> MAX_FRACTIONAL_SECONDS_PRECISION
                        [] sql_type(ty) \in {"EXT_TINY_INT", "SMALLINT", "INTEGER", "EXT_BIG_INT"} -> 0
                        [] OTHER -> -1,
    verbose |-> verbose_type(type_info_sql_type(ty)),
    create_params |-> CASE ty \in TemporalNames -> 1
                        [] ty = "DECIMAL" -> 2
                        [] ty \in {"VARCHAR", "CHAR", "SQL_CHAR", "SQL_VARCHAR"} -> 1
                        [] OTHER -> 0,
    preferred |-> ty \in {"VARCHAR", "TIME", "TIMESTAMP"}]
   : ty \in ALL_VARIANTS \union {"SQL_CHAR", "SQL_VARCHAR"}}
=============================================================================
