----------------------------- MODULE MCLocalCalls -----------------------------
(* Small inputs for every call: where an algorithm reads characters, all short *)
(* sequences of the ones it tells apart; elsewhere the ends of each range and  *)
(* what lies on either side of a change of clocks.                             *)
EXTENDS LocalCalls, InfoCalls, MCCatalog, SetupDialog

UpTo(chars, n) == UNION {[1..k -> chars] : k \in 0..n}
Fields(r, more) == [f \in DOMAIN r \union DOMAIN more |-> IF f \in DOMAIN more THEN more[f] ELSE r[f]]
-----------------------------------------------------------------------------
(* Bound parameters.                                                        *)

Dates == {[year |-> y, month |-> md[1], day |-> md[2]] :
            y \in {-32768, -1, 0, 4, 1900, 2000, 2023, 32767},
            md \in {<<1, 1>>, <<2, 28>>, <<2, 29>>, <<12, 31>>, <<4, 31>>, <<13, 1>>}}
Times == {[hour |-> hms[1], minute |-> hms[2], second |-> hms[3], fraction |-> f] :
            hms \in {<<0, 0, 0>>, <<23, 59, 59>>, <<12, 30, 60>>, <<24, 0, 0>>, <<1, 60, 0>>},
            f \in {0, 1, 120000000, 999999999, 2000000000}}

Bound ==
  {[type |-> "String", text |-> t] : t \in UpTo({"x", QUOTE, MARK}, 2)}
  \union {[type |-> "Json", text |-> <<QUOTE, MARK>>], [type |-> "Decimal", text |-> <<"-", "7", ".", "0">>],
          [type |-> "Decimal", text |-> <<"7", ".">>], [type |-> "I64", negative |-> TRUE], [type |-> "Null"],
          [type |-> "F64", finite |-> FALSE], [type |-> "F32", finite |-> TRUE], [type |-> "Bytes"],
          [type |-> "Array"]}

BoundTemporal ==
  {Fields([type |-> "Date"], d) : d \in Dates} \union {Fields([type |-> "Time"], t) : t \in Times}
  \union {Fields([type |-> "Timestamp"], Fields(d, t)) : d \in Dates, t \in Times}
  \union {Fields([type |-> "TimestampTz", offset |-> o], Fields(d, t)) :
            d \in Dates, t \in Times, o \in {0, 330, -720, 840, -1}}

Text1 == [type |-> "String", text |-> <<QUOTE, "x">>]
Number == [type |-> "I64", negative |-> FALSE]
AllChars == {"x", QUOTE, MARK, LineEnd, "*/"} \union Hiding

\* Longer ones: what hides a character, around strings and placeholders, and a
\* value that cannot be rendered before or after one that is missing.
Mixed ==
  {<<opener, "x", closer, MARK, "x", QUOTE, MARK, opener, QUOTE, "x", MARK>> :
     opener \in Hiding, closer \in {"\"", LineEnd, "*/"}}
  \union {<<QUOTE, opener, QUOTE, "x", MARK, opener, "x", closer>> :
     opener \in Hiding, closer \in {"\"", LineEnd, "*/"}}

MCExecutions ==
  [sql : UpTo({"x", QUOTE, MARK}, 5), params : UpTo({Text1, Number}, 2)]
  \union [sql : UpTo(AllChars, 4) \union Mixed, params : {<<>>, <<Text1>>, <<Text1, Number>>}]
  \union [sql : {<<"x", MARK, "x">>, <<"x", QUOTE, MARK, QUOTE, "x", MARK>>, <<"x", "-", MARK>>},
          params : {<<v>> : v \in Bound} \union {<<[type |-> "Array"], Number>>}]
  \union [sql : {<<"x", MARK>>}, params : {<<v>> : v \in BoundTemporal}]
-----------------------------------------------------------------------------
(* Values.                                                                  *)

Day(y, m, d) == [year |-> y, month |-> m, day |-> d]
Spring == [before |-> 60, after |-> 120, change |-> [date |-> Day(2024, 3, 31), minute |-> 60]]
Autumn == [before |-> 120, after |-> 60, change |-> [date |-> Day(2024, 10, 27), minute |-> 60]]
HalfHour == [before |-> 660, after |-> 630, change |-> [date |-> Day(2024, 4, 6), minute |-> 15 * 60]]

Offset(s, h, m) == [sign |-> s, hours |-> h, minutes |-> m]
NamedZone(zone) == [name |-> "zone", zone |-> zone]
Zones == {Offset("+", 0, 0), Offset("-", 9, 30), Offset("+", 18, 0),
          NamedZone(Spring), NamedZone(Autumn), NamedZone(Nothing)}

Unset(zone) == [set |-> Nothing, configured |-> Nothing, server |-> zone]
Sessions ==
  {Unset(zone) : zone \in {Fixed(0), Fixed(330), Fixed(-480), Spring, Autumn, HalfHour}}
  \union {[set |-> set, configured |-> Autumn, server |-> Spring] :
            set \in {Nothing, Offset("+", 5, 30), NamedZone(HalfHour), NamedZone(Nothing)}}

Clock(h, m, s, f) == [hour |-> h, minute |-> m, second |-> s, fraction |-> f]
LongFraction(last) == [i \in 1..12 |-> IF i = 12 THEN last ELSE i % 10]
Clocks == {Clock(h, m, 59, f) : h \in {0, 1, 2, 23}, m \in {0, 30, 59},
                                f \in {<<>>, <<1, 2>>, LongFraction(0), LongFraction(5)}}
TimeText_(c, zone) == Fields(c, [is |-> "time", zone |-> zone])
DateText_(y, m, d) == [year |-> [sign |-> "", magnitude |-> y], month |-> m, day |-> d]
Stamp(date, c, zone) == [is |-> "timestamp", date |-> date, time |-> c, zone |-> zone]
Text(t) == [json |-> "string", text |-> t]

Zoned ==
  [val : {Text(Stamp(d, c, z)) :
            d \in {DateText_(2024, 3, 31), DateText_(2024, 10, 27), DateText_(2024, 4, 7), DateText_(2023, 12, 31)},
            c \in Clocks, z \in Zones},
   ty : {[name |-> "TimestampWithTimeZone"]}, session : Sessions, now : {Moment(Fields(Day(2024, 6, 1), Clock(0, 0, 0, 0)))}]
  \union
  [val : {Text(TimeText_(c, z)) : c \in Clocks, z \in Zones},
   ty : {[name |-> "TimeWithTimeZone"]}, session : Sessions,
   now : {Moment(Fields(Day(2024, 3, d), Clock(12, 0, 0, 0))) : d \in {30, 31}}]

Simple(n) == [name |-> n]
TimeStamp == Simple("Timestamp")
Leaf == {Simple(n) : n \in {"I64", "I32", "I16", "I8", "F64", "F32", "Boolean", "Date", "Time", "TimeWithTimeZone",
                            "Timestamp", "TimestampWithTimeZone", "Decimal", "VarBinary", "Json", "Varchar", "Uuid"}}
Option(ty) == [name |-> "Option", inner |-> ty]
ArrayOf(ty) == [name |-> "Array", inner |-> ty]
Tys ==
  Leaf \union {Option(ty) : ty \in Leaf} \union {ArrayOf(ty) : ty \in Leaf}
  \union {ArrayOf(ArrayOf(TimeStamp)), ArrayOf(Option(TimeStamp)), Option(ArrayOf(TimeStamp)),
          [name |-> "Map", key |-> TimeStamp, inner |-> Simple("I8")],
          [name |-> "Map", key |-> Simple("Varchar"), inner |-> TimeStamp],
          [name |-> "Row", fields |-> <<Simple("I64"), Option(TimeStamp)>>]}

UTC == Offset("+", 0, 0)
Stamped(last, year) == Stamp(DateText_(year, 1, 1), Clock(1, 2, 3, LongFraction(last)), UTC)
Flat ==
  {[json |-> "null"], [json |-> "bool"]}
  \union {[json |-> "int", bits |-> b] : b \in {8, 16, 32, 64, 65}}
  \union {[json |-> "float", single |-> s] : s \in BOOLEAN}
  \union {Text([is |-> what]) : what \in {"integer", "special", "base64", "words"}}
  \union {Text(Fields(DateText_(y, 1, 1), [is |-> "date"])) : y \in {2024, 40000}}
  \union {Text(TimeText_(Clock(1, 2, 3, LongFraction(last)), UTC)) : last \in {0, 5}}
  \union {Text(Stamped(last, y)) : last \in {0, 5}, y \in {2024, 40000}}
Array(items) == [json |-> "array", items |-> items]
Object(entries) == [json |-> "object", entries |-> entries]
Nested ==
  {Array(<<v>>) : v \in Flat}
  \union {Array(<<[json |-> "int", bits |-> 8], Text(Stamped(last, 2024)), Text(Stamped(5, 2024))>>) : last \in {0, 5}}
  \union {Array(<<Array(<<Text(Stamped(last, y))>>)>>) : last \in {0, 5}, y \in {2024, 40000}}
  \union {Object(<< <<Stamped(last, y), v>> >>) : last \in {0, 5}, y \in {2024, 40000},
                                                  v \in {[json |-> "int", bits |-> 16], Text(Stamped(5, 2024))}}

MCDeliveries ==
  Zoned \union [val : Flat \union Nested, ty : Tys, session : {Unset(Fixed(60))},
                now : {Moment(Fields(Day(2024, 6, 1), Clock(0, 0, 0, 0)))}]
-----------------------------------------------------------------------------
(* Types.                                                                   *)

Column(base, args, ty) == [name |-> [base |-> base, args |-> args], ty |-> ty]
Scales == {<<>>, <<0>>, <<3>>, <<6>>, <<9>>, <<12>>}
MCColumns ==
  {Column("boolean", <<>>, Simple("Boolean")), Column("tinyint", <<>>, Simple("I8")),
   Column("smallint", <<>>, Simple("I16")), Column("integer", <<>>, Simple("I32")),
   Column("int", <<>>, Simple("I32")), Column("bigint", <<>>, Simple("I64")),
   Column("real", <<>>, Simple("F32")), Column("double", <<>>, Simple("F64")),
   Column("double precision", <<>>, Option(Simple("F64"))), Column("varbinary", <<>>, Simple("VarBinary")),
   Column("json", <<>>, Simple("Json")), Column("uuid", <<>>, Simple("Uuid")),
   Column("interval day to second", <<>>, Simple("IntervalDayToSecond")),
   Column("interval year to month", <<>>, Simple("IntervalYearToMonth")),
   Column("date", <<>>, Simple("Date")), Column("array(bigint)", <<>>, ArrayOf(Simple("I64"))),
   Column("ipaddress", <<>>, Simple("IpAddress"))}
  \union {Column("decimal", <<p, s>>, [name |-> "Decimal", precision |-> p, scale |-> s]) : p \in {1, 18, 38}, s \in {0, 1}}
  \union {Column("numeric", <<38, 38>>, Option([name |-> "Decimal", precision |-> 38, scale |-> 38]))}
  \union {Column(base, args, Simple("Varchar")) :
            base \in {"varchar", "string", "character varying"},
            args \in {<<>>, <<1>>, <<536870911>>, <<536870912>>, <<2147483647>>}}
  \union {Column("char", <<n>>, [name |-> "Char", precision |-> n]) : n \in {1, 65535}}
  \union {Column("time", s, Simple("Time")) : s \in Scales}
  \union {Column("time with time zone", s, Simple("TimeWithTimeZone")) : s \in Scales}
  \union {Column("timestamp", s, Option(Simple("Timestamp"))) : s \in Scales}
  \union {Column("timestamp with time zone", s, Simple("TimestampWithTimeZone")) : s \in Scales}
-----------------------------------------------------------------------------
(* Escapes.                                                                 *)

ArgList(args) == JoinedByCommas(args)
Arguments == {<<"x">>, <<"f", "(", "x", ",", "y", ")">>, <<"'", ",", "'">>}
Units == {<<unit>> : unit \in TRINO_TIMESTAMP_INTERVALS \union {"SQL_TSI_FRAC_SECOND"}}

ScalarFunctions == {Spelled(bit) : bit \in Advertised}

MCEscapes ==
  [fn : {"F"}, args : UpTo({"x", ",", "(", ")", "'", "\"", "--", LineEnd, " "}, 4)]
  \union [fn : ScalarFunctions, args : {<<>>}]
  \union {[fn |-> name, args |-> ArgList(args)] :
            name \in ScalarFunctions, args \in [1..1 -> Arguments] \union [1..2 -> Arguments]}
  \union {[fn |-> name, args |-> ArgList(<<arg, arg, arg>>)] : name \in ScalarFunctions, arg \in Arguments}
  \union {[fn |-> name, args |-> ArgList(<<unit, arg, <<"y">> >>)] :
            name \in {"TIMESTAMPADD", "TIMESTAMPDIFF"}, unit \in Units, arg \in Arguments}
  \union {[fn |-> "TRUNCATE", args |-> ArgList(<<value, digits>>)] :
            value \in {<<"x">>, <<"x", "+", "y">>, <<"(", "x", "+", "y", ")">>, <<"x", "*", "y">>},
            digits \in {<<"0">>, <<"1">>, <<"-1">>, <<"19">>, <<"x">>}}
  \union {[fn |-> "CONVERT", args |-> ArgList(<< <<"x">>, <<target>> >>)] :
            target \in {"SQL_INTEGER", "SQL_WVARCHAR", "SQL_INTERVAL_DAY"}}
-----------------------------------------------------------------------------
(* Connections: the probe told the version, or failed; USE was run, or not. *)

MCConnections ==
  {conn \in {[runs |-> runs, server_major |-> major, dbms_version |-> "v", data_source_name |-> "dsn",
    server_name |-> "host", user_name |-> "alice", catalog |-> named, session_catalog |-> used] :
      runs \in {467, 474, 475, 481, 482, 483}, major \in {0, 467, 474, 475, 481, 482, 483},
      named \in {"", "tpch"}, used \in {"", "tpcds"}} :
    conn.server_major \in {0, conn.runs}}
-----------------------------------------------------------------------------
(* The four components share no state: a behaviour is one of one of them      *)
(* while the others rest, and their interleavings would show nothing more.    *)

MCInit == Init /\ InfoInit /\ CatalogInit /\ SetupInit
MCNext ==
  \/ InfoInit /\ CatalogInit /\ SetupInit /\ Next /\ UNCHANGED <<info_vars, catalog_vars, setup_vars>>
  \/ Init /\ CatalogInit /\ SetupInit /\ InfoNext /\ UNCHANGED <<vars, catalog_vars, setup_vars>>
  \/ Init /\ InfoInit /\ SetupInit /\ CatalogNext /\ UNCHANGED <<vars, info_vars, setup_vars>>
  \/ Init /\ InfoInit /\ CatalogInit /\ SetupNext /\ UNCHANGED <<vars, info_vars, catalog_vars>>

MCSpec ==
  /\ MCInit /\ [][MCNext]_<<vars, info_vars, catalog_vars, setup_vars>>
  /\ WF_setup_vars(DriverStep) /\ WF_setup_vars(DialogStep)
=============================================================================
