------------------------------ MODULE Temporal ------------------------------
(***************************************************************************)
(* type_conversion.rs: the values of a result set, from the JSON Trino     *)
(* sends to the ColumnValue an application reads.                          *)
(*                                                                         *)
(* A temporal text is a record of its fields, with the fraction digit by   *)
(* digit, since Trino sends up to twelve and nanoseconds hold nine. A zone *)
(* is its offset in minutes before and from one change on: the change is a *)
(* UTC date and minute of the day, and a fixed offset has the same on both *)
(* sides of it.                                                            *)
(***************************************************************************)
EXTENDS Interpolation

\* An Option without a value.
Nothing == [type |-> "None"]

MinutesADay == 24 * 60
-----------------------------------------------------------------------------
(* Dates, times and fractions.                                              *)

I16_MAX == 32767

\* The calendar is not consulted: the coordinator has.
parse_ymd(d) ==
  IF d.year.magnitude > I16_MAX THEN Nothing
  ELSE [type |-> "Date", year |-> IF d.year.sign = "-" THEN -d.year.magnitude ELSE d.year.magnitude,
        month |-> d.month, day |-> d.day]

\* Padded or cut to nine digits.
parse_fraction_nanos(fraction) ==
  LET held == [i \in 1..9 |-> IF i <= Len(fraction) THEN fraction[i] ELSE 0]
      number[i \in 0..9] == IF i = 0 THEN 0 ELSE 10 * number[i - 1] + held[i]
  IN number[9]

parse_trino_date(d) == parse_ymd(d)

parse_trino_time(t) ==
  [type |-> "Time", hour |-> t.hour, minute |-> t.minute, second |-> t.second,
   fraction |-> parse_fraction_nanos(t.fraction)]

\* A zone after the time is not read.
parse_trino_timestamp(ts) ==
  LET date == parse_ymd(ts.date)
      time == parse_trino_time(ts.time)
  IN IF date = Nothing THEN Nothing
     ELSE [type |-> "Timestamp", year |-> date.year, month |-> date.month, day |-> date.day,
           hour |-> time.hour, minute |-> time.minute, second |-> time.second,
           fraction |-> time.fraction]

\* A digit that is lost and is not zero.
fraction_exceeds_nanoseconds(fraction) == \E i \in DOMAIN fraction : i > 9 /\ fraction[i] # 0
-----------------------------------------------------------------------------
(* Instants and zones (chrono and chrono-tz).                               *)

NextDay(d) ==
  IF d.day < DaysIn(d.year, d.month) THEN [d EXCEPT !.day = @ + 1]
  ELSE IF d.month < 12 THEN [d EXCEPT !.month = @ + 1, !.day = 1]
  ELSE [year |-> d.year + 1, month |-> 1, day |-> 1]

PreviousDay(d) ==
  IF d.day > 1 THEN [d EXCEPT !.day = @ - 1]
  ELSE IF d.month > 1 THEN [d EXCEPT !.month = @ - 1, !.day = DaysIn(d.year, d.month - 1)]
  ELSE [year |-> d.year - 1, month |-> 12, day |-> 31]

\* A moment is a date and a minute of that day.
Moment(v) == [date |-> [year |-> v.year, month |-> v.month, day |-> v.day],
              minute |-> v.hour * 60 + v.minute]

Later(m, minutes) ==
  LET total == m.minute + minutes
      days  == total \div MinutesADay
      date  == CASE days = 0  -> m.date
                 [] days = 1  -> NextDay(m.date)
                 [] days = -1 -> PreviousDay(m.date)
  IN [date |-> date, minute |-> total % MinutesADay]

\* Earlier, by the first field in which two moments differ.
Precedes(m1, m2) ==
  LET key(m) == <<m.date.year, m.date.month, m.date.day, m.minute>>
  IN \E i \in 1..4 : key(m1)[i] < key(m2)[i] /\ \A j \in 1..(i - 1) : key(m1)[j] = key(m2)[j]

offset_at(zone, utc) == IF Precedes(utc, zone.change) THEN zone.before ELSE zone.after

\* The wall clock of a zone, and a likely mistake: one that never changes.
unchanging_time(zone, utc) == Later(utc, zone.before)
wall_time(zone, utc) == Later(utc, offset_at(zone, utc))

\* The earliest instant with this wall time; none in an hour that is skipped.
earliest(zone, local) ==
  LET reads == {offset \in {zone.before, zone.after} :
                  offset_at(zone, Later(local, -offset)) = offset}
      most  == CHOOSE offset \in reads : \A other \in reads : other <= offset
  IN IF reads = {} THEN Nothing ELSE Later(local, -most)

\* How the coordinator reads a wall time (external): of two instants the later.
latest(zone, local) ==
  LET reads == {offset \in {zone.before, zone.after} :
                  offset_at(zone, Later(local, -offset)) = offset}
      least == CHOOSE offset \in reads : \A other \in reads : offset <= other
  IN IF reads = {} THEN Nothing ELSE Later(local, -least)

\* The first of two instants with one wall time: the hour that is repeated when
\* the clocks go back.
FirstPass(zone, utc) ==
  /\ zone.before > zone.after
  /\ Precedes(utc, zone.change)
  /\ ~Precedes(utc, Later(zone.change, zone.after - zone.before))

Fixed(offset) == [before |-> offset, after |-> offset,
                  change |-> [date |-> [year |-> 1970, month |-> 1, day |-> 1], minute |-> 0]]
-----------------------------------------------------------------------------
(* Values with a time zone, delivered in the session's.                     *)

\* A zone as text: [sign, hours, minutes], or [name, zone] with the zone that
\* chrono-tz finds under the name, if any.
IsOffset(text) == "sign" \in DOMAIN text
Signed(text, minutes) == IF text.sign = "-" THEN -minutes ELSE minutes

parse_numeric_offset(text) == Signed(text, text.hours * 60 + text.minutes)

\* SessionZone::parse
parse_zone(text) ==
  IF ~IsOffset(text) THEN text.zone
  ELSE IF text.hours > 18 \/ text.minutes > 59 THEN Nothing
  ELSE Fixed(parse_numeric_offset(text))

\* SET TIME ZONE, else TimeZone=, else the coordinator's; what is not read is
\* passed over.
effective_session_zone(time_zone_id, configured, server_default) ==
  LET set == IF time_zone_id = Nothing THEN Nothing ELSE parse_zone(time_zone_id)
  IN CASE set # Nothing -> set
       [] set = Nothing /\ configured # Nothing -> configured
       [] OTHER -> server_default

\* A time has no date to carry into: it wraps within the day.
shift_time(t, minutes) ==
  LET wrapped == (t.hour * 60 + t.minute - minutes) % MinutesADay
  IN [type |-> "Time", hour |-> wrapped \div 60, minute |-> wrapped % 60, second |-> t.second,
      fraction |-> parse_fraction_nanos(t.fraction)]

\* A named zone has no offset without a date, and is read as UTC.
parse_trino_time_with_tz(t, session_offset) ==
  shift_time(t, (IF IsOffset(t.zone) THEN parse_numeric_offset(t.zone) ELSE 0) - session_offset)

parse_trino_timestamp_tz(ts, session) ==
  LET base  == parse_trino_timestamp(ts)
      local == Moment(base)
      utc   == IF IsOffset(ts.zone) THEN Later(local, -parse_numeric_offset(ts.zone))
               ELSE IF ts.zone.zone = Nothing THEN Nothing
               ELSE earliest(ts.zone.zone, local)
      shown == wall_time(session, utc)
  IN IF base = Nothing \/ ~check_date(base) \/ base.hour > 23 \/ base.minute > 59 \/ base.second > 59
     THEN Nothing
     ELSE IF utc = Nothing THEN Nothing
     ELSE [type |-> "Timestamp", year |-> shown.date.year, month |-> shown.date.month,
           day |-> shown.date.day, hour |-> shown.minute \div 60, minute |-> shown.minute % 60,
           second |-> base.second, fraction |-> base.fraction]
=============================================================================
