--------------------------- MODULE TextProofs ---------------------------
(***************************************************************************)
(* For every statement, every bound value and every argument list of an    *)
(* escape: the text the driver sends is read as the statement with one     *)
(* literal for each placeholder, each temporal literal is read back as the *)
(* value that was bound, and the list is split at its own commas.          *)
(*                                                                         *)
(* All are about text of any length. The induction is over sets of natural *)
(* numbers, and a recursive definition is a function that exists because   *)
(* its step is one.                                                        *)
(***************************************************************************)
EXTENDS TextCalls, TemporalProofs, FiniteSetTheorems, SequenceTheorems, WellFoundedInduction
-----------------------------------------------------------------------------
(* Induction and recursion.                                                 *)

LEMMA LeastElement ==
  ASSUME NEW T \in SUBSET Nat, T # {}
  PROVE  \E x \in T : \A y \in T : ~(y < x)
  <1> DEFINE R == {ss \in Nat \X Nat : ss[1] < ss[2]}
  <1>1. IsWellFoundedOn(R, Nat)
    BY NatLessThanWellFounded DEF OpToRel
  <1>2. PICK x \in T : \A y \in T : ~(<<y, x>> \in R)
    <2> HIDE DEF R
    <2> QED
      BY <1>1, WFMin, Zenon
  <1>3. \A y \in T : y < x => <<y, x>> \in R
    OBVIOUS
  <1> QED
    BY <1>2, <1>3

\* What holds of a and of each successor up to n holds up to n.
LEMMA SetInduction ==
  ASSUME NEW a \in Nat, NEW n \in Nat, NEW S, a \in S, \A i \in a..(n - 1) : i \in S => i + 1 \in S
  PROVE  a..n \subseteq S
  <1> SUFFICES ASSUME (a..n) \ S # {} PROVE FALSE
    OBVIOUS
  <1> DEFINE T == (a..n) \ S
  <1>1. PICK x \in T : \A y \in T : ~(y < x)
    <2>1. T \in SUBSET Nat
      OBVIOUS
    <2> HIDE DEF T
    <2> QED
      BY <2>1, LeastElement DEF T
  <1>2. x # a /\ x - 1 \in a..(n - 1) /\ x - 1 < x
    OBVIOUS
  <1>3. x - 1 \in S
    BY <1>1, <1>2
  <1> QED
    BY <1>2, <1>3

\* Each value from the one before it.
Steps(a, n, S) == [((a + 1)..n) \X S -> S]
Follows(f, a, n, first, step) == f[a] = first /\ \A i \in (a + 1)..n : f[i] = step[<<i, f[i - 1]>>]

\* A function that is defined from each value to the next exists.
LEMMA Recursion ==
  ASSUME NEW a \in Nat, NEW n \in Nat, a <= n, NEW S, NEW first \in S, NEW step \in Steps(a, n, S)
  PROVE  \E f \in [a..n -> S] : Follows(f, a, n, first, step)
  <1> DEFINE Upto(m, f) == f \in [a..m -> S] /\ f[a] = first /\ \A i \in (a + 1)..m : f[i] = step[<<i, f[i - 1]>>]
             Good == {m \in a..n : \E f : Upto(m, f)}
  <1>1. a \in Good
    <2> DEFINE f == [i \in a..a |-> first]
    <2>1. Upto(a, f)
      OBVIOUS
    <2>2. a \in a..n
      OBVIOUS
    <2> HIDE DEF f, Upto
    <2> QED
      BY <2>1, <2>2
  <1>2. ASSUME NEW m \in a..(n - 1), m \in Good PROVE m + 1 \in Good
    <2>1. PICK f : Upto(m, f)
      BY <1>2
    <2> DEFINE g == [i \in a..(m + 1) |-> IF i <= m THEN f[i] ELSE step[<<i, f[i - 1]>>]]
    <2>2. \A i \in a..m : g[i] = f[i]
      OBVIOUS
    <2>3. f[m] \in S /\ m + 1 \in (a + 1)..n
      BY <2>1
    <2>4. step[<<m + 1, f[m]>>] \in S
      BY <2>3 DEF Steps
    <2>5. g[m + 1] = step[<<m + 1, f[m]>>] /\ m \in a..m /\ (m + 1) - 1 = m
      OBVIOUS
    <2>6. g \in [a..(m + 1) -> S]
      <3>1. \A i \in a..(m + 1) : g[i] \in S
        BY <2>1, <2>2, <2>4, <2>5
      <3>2. g = [i \in a..(m + 1) |-> g[i]]
        OBVIOUS
      <3> HIDE DEF g
      <3> QED
        BY <3>1, <3>2
    <2>7. g[a] = first
      BY <2>1
    <2>8. \A i \in (a + 1)..(m + 1) : g[i] = step[<<i, g[i - 1]>>]
      <3> SUFFICES ASSUME NEW i \in (a + 1)..(m + 1) PROVE g[i] = step[<<i, g[i - 1]>>]
        OBVIOUS
      <3>1. CASE i \in (a + 1)..m
        <4>1. i - 1 \in a..m /\ i \in a..m
          BY <3>1
        <4> HIDE DEF g
        <4> QED
          BY <2>1, <2>2, <3>1, <4>1
      <3>2. CASE i = m + 1
        <4>1. g[m] = f[m]
          BY <2>2, <2>5
        <4> HIDE DEF g
        <4> QED
          BY <2>5, <3>2, <4>1
      <3> QED
        BY <3>1, <3>2
    <2>9. Upto(m + 1, g)
      <3> HIDE DEF g
      <3> QED
        BY <2>6, <2>7, <2>8
    <2>10. m + 1 \in a..n
      OBVIOUS
    <2> HIDE DEF g, Upto
    <2> QED
      BY <2>9, <2>10
  <1>3. n \in Good
    <2> HIDE DEF Good
    <2>1. a..n \subseteq Good
      BY <1>1, <1>2, SetInduction
    <2> QED
      BY <2>1
  <1> QED
    BY <1>3 DEF Follows

LEMMA FunctionIsASeq ==
  ASSUME NEW n \in Nat, NEW S, NEW s \in [1..n -> S]
  PROVE  s \in Seq(S) /\ Len(s) = n
  <1>1. s \in Seq(S)
    OBVIOUS
  <1> QED
    BY <1>1

\* One place more, and the same before it.
Grown(after, before, last) ==
  /\ after = [i \in 1..(Len(before) + 1) |-> after[i]]
  /\ after[Len(before) + 1] = last
  /\ \A i \in 1..Len(before) : after[i] = before[i]

LEMMA GrownIsAppended ==
  ASSUME NEW T, NEW before \in Seq(T), NEW last \in T, NEW after, Grown(after, before, last)
  PROVE  after = Append(before, last)
  <1> DEFINE n == Len(before)
             both == Append(before, last)
  <1>1. n \in Nat /\ both \in Seq(T) /\ Len(both) = n + 1 /\ both[n + 1] = last
    OBVIOUS
  <1>2. \A i \in 1..n : both[i] = before[i]
    OBVIOUS
  <1> HIDE DEF both
  <1>3. both = [i \in 1..(n + 1) |-> both[i]]
    BY <1>1
  <1>4. \A i \in 1..(n + 1) : after[i] = both[i]
    <2> SUFFICES ASSUME NEW i \in 1..(n + 1) PROVE after[i] = both[i]
      OBVIOUS
    <2>1. i \in 1..n \/ i = n + 1
      BY <1>1
    <2> QED
      BY <1>1, <1>2, <2>1 DEF Grown
  <1>5. after = [i \in 1..(n + 1) |-> after[i]]
    BY DEF Grown
  <1>6. after = both
    BY <1>3, <1>4, <1>5
  <1> QED
    BY <1>6 DEF both
-----------------------------------------------------------------------------
(* Temporal values.                                                         *)

\* A number is read from its digits, one after the other.
LEMMA NumberUnfolds ==
  ASSUME NEW held \in [1..9 -> Nat]
  PROVE  LET number[i \in 0..9] == IF i = 0 THEN 0 ELSE 10 * number[i - 1] + held[i]
         IN number = [i \in 0..9 |-> IF i = 0 THEN 0 ELSE 10 * number[i - 1] + held[i]]
  <1> DEFINE step == [w \in (1..9) \X Nat |-> 10 * w[2] + held[w[1]]]
             Equation(g) == g = [i \in 0..9 |-> IF i = 0 THEN 0 ELSE 10 * g[i - 1] + held[i]]
  <1>1. step \in Steps(0, 9, Nat)
    BY DEF Steps
  <1>2. PICK f \in [0..9 -> Nat] : Follows(f, 0, 9, 0, step)
    <2>1. 0 \in Nat /\ 9 \in Nat /\ 0 <= 9
      OBVIOUS
    <2> HIDE DEF step
    <2> QED
      BY <1>1, <2>1, Recursion
  <1>3. \A i \in 1..9 : f[i] = 10 * f[i - 1] + held[i]
    <2> TAKE i \in 1..9
    <2>1. i - 1 \in 0..9 /\ i \in (0 + 1)..9
      OBVIOUS
    <2>2. step[<<i, f[i - 1]>>] = 10 * f[i - 1] + held[i]
      BY <2>1
    <2> HIDE DEF step
    <2> QED
      BY <1>2, <2>1, <2>2 DEF Follows
  <1> HIDE DEF step
  <1>4. Equation(f)
    BY <1>2, <1>3 DEF Follows
  <1>5. Equation(CHOOSE g : Equation(g))
    <2> HIDE DEF Equation
    <2> QED
      BY <1>4
  <1> QED
    BY <1>5

\* Nine digits hold any number of nanoseconds.
LEMMA FractionReadsBack ==
  ASSUME NEW fraction \in Nat
  PROVE  /\ nanos(fraction) \in Seq(0..9)
         /\ parse_fraction_nanos(nanos(fraction)) = IF fraction > 999999999 THEN 999999999 ELSE fraction
  <1> DEFINE h == IF fraction > 999999999 THEN 999999999 ELSE fraction
             digits == nanos(fraction)
  <1>1. h \in Nat /\ h <= 999999999
    OBVIOUS
  <1>2. digits = [i \in 1..9 |-> (h \div Place[i]) % 10]
    BY DEF nanos
  <1> HIDE DEF h
  <1>3. /\ digits[1] = (h \div 100000000) % 10 /\ digits[2] = (h \div 10000000) % 10
        /\ digits[3] = (h \div 1000000) % 10 /\ digits[4] = (h \div 100000) % 10
        /\ digits[5] = (h \div 10000) % 10 /\ digits[6] = (h \div 1000) % 10
        /\ digits[7] = (h \div 100) % 10 /\ digits[8] = (h \div 10) % 10 /\ digits[9] = (h \div 1) % 10
    BY <1>2 DEF Place
  <1>4. \A i \in 1..9 : digits[i] \in 0..9
    <2>1. \A i \in 1..9 : i = 1 \/ i = 2 \/ i = 3 \/ i = 4 \/ i = 5 \/ i = 6 \/ i = 7 \/ i = 8 \/ i = 9
      OBVIOUS
    <2> HIDE DEF digits
    <2> QED
      BY <1>1, <1>3, <2>1
  <1> HIDE DEF digits
  <1>5. digits \in [1..9 -> 0..9]
    BY <1>2, <1>4
  <1>6. digits \in Seq(0..9) /\ Len(digits) = 9
    BY <1>5, FunctionIsASeq
  <1> DEFINE held == [i \in 1..9 |-> IF i <= Len(digits) THEN digits[i] ELSE 0]
             number[i \in 0..9] == IF i = 0 THEN 0 ELSE 10 * number[i - 1] + held[i]
  <1>7. held = digits
    BY <1>5, <1>6
  <1>8. parse_fraction_nanos(digits) = number[9]
    BY DEF parse_fraction_nanos
  <1> HIDE DEF held
  <1>9. number = [i \in 0..9 |-> IF i = 0 THEN 0 ELSE 10 * number[i - 1] + held[i]]
    <2>1. held \in [1..9 -> Nat]
      BY <1>5, <1>7
    <2> QED
      BY <2>1, NumberUnfolds
  <1> HIDE DEF number
  <1>10. /\ number[0] = 0 /\ number[1] = 10 * number[0] + digits[1] /\ number[2] = 10 * number[1] + digits[2]
         /\ number[3] = 10 * number[2] + digits[3] /\ number[4] = 10 * number[3] + digits[4]
         /\ number[5] = 10 * number[4] + digits[5] /\ number[6] = 10 * number[5] + digits[6]
         /\ number[7] = 10 * number[6] + digits[7] /\ number[8] = 10 * number[7] + digits[8]
         /\ number[9] = 10 * number[8] + digits[9]
    BY <1>7, <1>9
  <1>11. number[1] = h \div 100000000
    BY <1>1, <1>3, <1>10
  <1>12. number[2] = h \div 10000000
    BY <1>1, <1>3, <1>10, <1>11
  <1>13. number[3] = h \div 1000000
    BY <1>1, <1>3, <1>10, <1>12
  <1>14. number[4] = h \div 100000
    BY <1>1, <1>3, <1>10, <1>13
  <1>15. number[5] = h \div 10000
    BY <1>1, <1>3, <1>10, <1>14
  <1>16. number[6] = h \div 1000
    BY <1>1, <1>3, <1>10, <1>15
  <1>17. number[7] = h \div 100
    BY <1>1, <1>3, <1>10, <1>16
  <1>18. number[8] = h \div 10
    BY <1>1, <1>3, <1>10, <1>17
  <1>19. number[9] = h
    BY <1>1, <1>3, <1>10, <1>18
  <1> QED
    BY <1>6, <1>8, <1>19 DEF digits, h

\* The record types of ColumnValues.
DateValues == [type : {"Date"}, year : I16, month : U16, day : U16]
TimeValues == [type : {"Time"}, hour : U16, minute : U16, second : U16, fraction : U32]
TimestampValues ==
  [type : {"Timestamp"}, year : I16, month : U16, day : U16,
   hour : U16, minute : U16, second : U16, fraction : U32]
ZonedValues ==
  [type : {"TimestampTz"}, year : I16, month : U16, day : U16,
   hour : U16, minute : U16, second : U16, fraction : U32, offset : I16]

LEMMA TemporalValues ==
  ASSUME NEW v \in ColumnValues
  PROVE  /\ v.type = "Date" => v \in DateValues
         /\ v.type = "Time" => v \in TimeValues
         /\ v.type = "Timestamp" => v \in TimestampValues
         /\ v.type = "TimestampTz" => v \in ZonedValues
  BY DEF ColumnValues, DateValues, TimeValues, TimestampValues, ZonedValues

LEMMA YearRange ==
  ASSUME NEW n \in I16, n # -32768
  PROVE  n \in Int /\ -32767 <= n /\ n <= 32767
  BY DEF I16

LEMMA OffsetRange ==
  ASSUME NEW n \in Int, -840 <= n, n <= 840
  PROVE  /\ -1080 <= n /\ n <= 1080
         /\ WithinADay(n) /\ WithinADay(-n) /\ WithinADay(-n + n) /\ -n + n = 0
  <1>1. -n + n = 0 /\ -840 <= -n /\ -n <= 840 /\ -n \in Int
    OBVIOUS
  <1> QED
    BY <1>1 DEF WithinADay

LEMMA DateReadsBack ==
  ASSUME NEW v \in DateValues, v.year # -32768, check_date(v)
  PROVE  parse_trino_date(render_literal(v).body) = v
  <1>1. v = [type |-> "Date", year |-> v.year, month |-> v.month, day |-> v.day]
    BY DEF DateValues
  <1>2. v.year \in Int /\ -32767 <= v.year /\ v.year <= 32767
    <2>1. v.year \in I16
      BY DEF DateValues
    <2> QED
      BY <2>1, YearRange
  <1> QED
    BY <1>1, <1>2, BoundDateReadsBack

\* A time of day, whichever value it is part of.
LEMMA TimeTextReadsBack ==
  ASSUME NEW v \in TimeValues \union TimestampValues \union ZonedValues
  PROVE  parse_trino_time(TimeText(v)) =
           [type |-> "Time", hour |-> v.hour, minute |-> v.minute, second |-> v.second,
            fraction |-> Held(v).fraction]
  <1>1. v.fraction \in Nat /\ "fraction" \in DOMAIN v
    BY DEF TimeValues, TimestampValues, ZonedValues, U32
  <1>2. Held(v).fraction = IF v.fraction > 999999999 THEN 999999999 ELSE v.fraction
    BY <1>1 DEF Held
  <1>3. parse_fraction_nanos(nanos(v.fraction)) = Held(v).fraction
    BY <1>1, <1>2, FractionReadsBack
  <1>4. TimeText(v) = [hour |-> v.hour, minute |-> v.minute, second |-> v.second,
                       fraction |-> nanos(v.fraction)]
    BY DEF TimeText
  <1> QED
    BY <1>3, <1>4 DEF parse_trino_time

LEMMA TimeReadsBack ==
  ASSUME NEW v \in TimeValues, check_time(v)
  PROVE  parse_trino_time(render_literal(v).body) = Held(v)
  <1>1. v.type = "Time"
    BY DEF TimeValues
  <1>2. render_literal(v).body = TimeText(v)
    <2>1. render_literal(v) = Rendered("TIME", TimeText(v))
      BY <1>1 DEF render_literal
    <2> QED
      BY <2>1 DEF Rendered
  <1>3. parse_trino_time(TimeText(v)) =
          [type |-> "Time", hour |-> v.hour, minute |-> v.minute, second |-> v.second,
           fraction |-> Held(v).fraction]
    BY TimeTextReadsBack
  <1>4. Held(v) = [type |-> "Time", hour |-> v.hour, minute |-> v.minute, second |-> v.second,
                   fraction |-> Held(v).fraction]
    BY <1>1 DEF Held, TimeValues
  <1> QED
    BY <1>2, <1>3, <1>4

\* A date and a time, with a zone or without.
LEMMA StampReadsBack ==
  ASSUME NEW v \in TimestampValues \union ZonedValues, v.year # -32768, NEW ts,
         ts.date = DateText(v), ts.time = TimeText(v)
  PROVE  parse_trino_timestamp(ts) =
           [type |-> "Timestamp", year |-> v.year, month |-> v.month, day |-> v.day,
            hour |-> v.hour, minute |-> v.minute, second |-> v.second, fraction |-> Held(v).fraction]
  <1>1. v.year \in Int /\ -32767 <= v.year /\ v.year <= 32767
    <2>1. v.year \in I16
      BY DEF TimestampValues, ZonedValues
    <2> QED
      BY <2>1, YearRange
  <1> DEFINE date == [type |-> "Date", year |-> v.year, month |-> v.month, day |-> v.day]
             text == year4(v.year)
  <1>2. parse_ymd(DateText(v)) = date
    <2>1. DateText(v) = [year |-> text, month |-> v.month, day |-> v.day]
      BY DEF DateText
    <2>2. /\ ~(text.magnitude > I16_MAX)
          /\ (IF text.sign = "-" THEN -text.magnitude ELSE text.magnitude) = v.year
      BY <1>1, YearText
    <2> HIDE DEF text
    <2> QED
      BY <2>1, <2>2 DEF parse_ymd
  <1>3. date # Nothing
    BY DEF Nothing
  <1>4. /\ date.year = v.year /\ date.month = v.month /\ date.day = v.day
    OBVIOUS
  <1> DEFINE time == [type |-> "Time", hour |-> v.hour, minute |-> v.minute, second |-> v.second,
                      fraction |-> Held(v).fraction]
  <1>5. parse_trino_time(TimeText(v)) = time
    BY TimeTextReadsBack
  <1>6. /\ time.hour = v.hour /\ time.minute = v.minute /\ time.second = v.second
        /\ time.fraction = Held(v).fraction
    OBVIOUS
  <1> HIDE DEF date, time
  <1>7. parse_ymd(ts.date) = date /\ parse_trino_time(ts.time) = time
    BY <1>2, <1>5
  <1>8. parse_trino_timestamp(ts) =
          [type |-> "Timestamp", year |-> date.year, month |-> date.month, day |-> date.day,
           hour |-> time.hour, minute |-> time.minute, second |-> time.second,
           fraction |-> time.fraction]
    BY <1>3, <1>7 DEF parse_trino_timestamp
  <1> QED
    BY <1>4, <1>6, <1>8

LEMMA TimestampReadsBack ==
  ASSUME NEW v \in TimestampValues, v.year # -32768, check_date(v), check_time(v)
  PROVE  parse_trino_timestamp(render_literal(v).body) = Held(v)
  <1> DEFINE body == [date |-> DateText(v), time |-> TimeText(v), zone |-> "absent"]
  <1>1. v.type = "Timestamp"
    BY DEF TimestampValues
  <1>2. body.date = DateText(v) /\ body.time = TimeText(v)
    OBVIOUS
  <1>3. render_literal(v).body = body
    <2>1. render_literal(v) = Rendered("TIMESTAMP", body)
      BY <1>1 DEF render_literal
    <2> HIDE DEF body
    <2> QED
      BY <2>1 DEF Rendered
  <1> HIDE DEF body
  <1>4. parse_trino_timestamp(body) =
          [type |-> "Timestamp", year |-> v.year, month |-> v.month, day |-> v.day,
           hour |-> v.hour, minute |-> v.minute, second |-> v.second, fraction |-> Held(v).fraction]
    BY <1>2, StampReadsBack
  <1>5. Held(v) =
          [type |-> "Timestamp", year |-> v.year, month |-> v.month, day |-> v.day,
           hour |-> v.hour, minute |-> v.minute, second |-> v.second, fraction |-> Held(v).fraction]
    BY <1>1 DEF Held, TimestampValues
  <1> QED
    BY <1>3, <1>4, <1>5

LEMMA ZonedFields ==
  ASSUME NEW v \in ZonedValues
  PROVE  /\ v.type = "TimestampTz" /\ v.year \in Int
         /\ v.hour \in Nat /\ v.minute \in Nat /\ v.second \in Nat
  <1>1. /\ v.type = "TimestampTz" /\ v.year \in I16
        /\ v.hour \in U16 /\ v.minute \in U16 /\ v.second \in U16
    BY DEF ZonedValues
  <1>2. I16 \subseteq Int
    BY DEF I16
  <1>3. U16 \subseteq Nat
    BY DEF U16
  <1> QED
    BY <1>1, <1>2, <1>3

\* In a session at the offset that was bound, which is there and back.
LEMMA ZonedReadsBack ==
  ASSUME NEW v \in ZonedValues, v.year # -32768, v.second <= 59, v.offset \in (-840)..840,
         check_date(v), check_time(v)
  PROVE  parse_trino_timestamp_tz(render_literal(v).body, Fixed(v.offset)) =
           [type |-> "Timestamp", year |-> v.year, month |-> v.month, day |-> v.day,
            hour |-> v.hour, minute |-> v.minute, second |-> v.second, fraction |-> Held(v).fraction]
  <1>o. PICK o \in (-840)..840 : o = v.offset
    OBVIOUS
  <1>r. /\ o \in Int /\ -1080 <= o /\ o <= 1080
        /\ WithinADay(o) /\ WithinADay(-o) /\ WithinADay(-o + o) /\ -o + o = 0
    <2>1. o \in Int /\ -840 <= o /\ o <= 840
      OBVIOUS
    <2> QED
      BY <2>1, OffsetRange
  <1> DEFINE body  == [date |-> DateText(v), time |-> TimeText(v), zone |-> OffsetText(o)]
             base  == [type |-> "Timestamp", year |-> v.year, month |-> v.month, day |-> v.day,
                       hour |-> v.hour, minute |-> v.minute, second |-> v.second,
                       fraction |-> Held(v).fraction]
             local == Moment(base)
             utc   == Later(local, -o)
  <1>1. /\ v.type = "TimestampTz" /\ v.year \in Int /\ v.hour \in Nat /\ v.minute \in Nat /\ v.second \in Nat
        /\ v.hour < 24 /\ v.minute < 60 /\ v.month \in 1..12 /\ v.day \in 1..DaysIn(v.year, v.month)
    <2>1. /\ v.type = "TimestampTz" /\ v.year \in Int
          /\ v.hour \in Nat /\ v.minute \in Nat /\ v.second \in Nat
      BY ZonedFields
    <2>3. v.hour < 24 /\ v.minute < 60
      BY DEF check_time
    <2>4. v.month \in 1..12 /\ v.day \in 1..DaysIn(v.year, v.month)
      BY DEF check_date
    <2> QED
      BY <2>1, <2>3, <2>4
  <1>2. body.date = DateText(v) /\ body.time = TimeText(v) /\ body.zone = OffsetText(o)
    OBVIOUS
  <1>3. render_literal(v).body = body
    <2>1. render_literal(v) = Rendered("TIMESTAMP", body)
      BY <1>1, <1>o DEF render_literal
    <2> HIDE DEF body
    <2> QED
      BY <2>1 DEF Rendered
  <1> HIDE DEF body
  <1>4. parse_trino_timestamp(body) = base
    BY <1>2, StampReadsBack
  <1>5. IsOffset(body.zone) /\ parse_numeric_offset(body.zone) = o
    BY <1>2, <1>r, OffsetReadsBack DEF IsOffset, OffsetText
  <1>6. /\ base.year = v.year /\ base.month = v.month /\ base.day = v.day
        /\ base.hour = v.hour /\ base.minute = v.minute /\ base.second = v.second
        /\ base.fraction = Held(v).fraction /\ base # Nothing
    BY DEF Nothing
  <1> HIDE DEF base
  <1> DEFINE date == [year |-> v.year, month |-> v.month, day |-> v.day]
             minute == v.hour * 60 + v.minute
  <1>7. date \in Dates /\ MinuteOfDay(minute) /\ local = [date |-> date, minute |-> minute]
    <2>1. date \in Dates
      BY <1>1, DaysInRange DEF Dates
    <2>2. MinuteOfDay(minute)
      BY <1>1 DEF MinuteOfDay
    <2> QED
      BY <1>6, <2>1, <2>2 DEF Moment
  <1>8. local \in Moments
    BY <1>7, MomentOf
  <1>9. /\ local.date.year = v.year /\ local.date.month = v.month /\ local.date.day = v.day
        /\ local.minute = minute
    BY <1>7
  <1>10. minute \div 60 = v.hour /\ minute % 60 = v.minute
    BY <1>1
  <1> HIDE DEF local, date, minute
  <1>11. utc \in Moments /\ Later(utc, o) = local
    BY <1>8, <1>r, LaterFields, LaterAddsUp, LaterByNothing
  <1>12. utc # Nothing
    BY <1>11 DEF Moments, Nothing
  <1> HIDE DEF utc
  <1>13. wall_time(Fixed(o), utc) = local
    BY <1>11 DEF wall_time, offset_at, Fixed
  <1>14. ~(base = Nothing \/ ~check_date(base) \/ base.hour > 23 \/ base.minute > 59 \/ base.second > 59)
    BY <1>1, <1>6 DEF check_date
  <1>15. parse_trino_timestamp_tz(body, Fixed(o)) =
           [type |-> "Timestamp", year |-> local.date.year, month |-> local.date.month,
            day |-> local.date.day, hour |-> local.minute \div 60, minute |-> local.minute % 60,
            second |-> base.second, fraction |-> base.fraction]
    BY <1>4, <1>5, <1>12, <1>13, <1>14 DEF parse_trino_timestamp_tz, local, utc
  <1> QED
    BY <1>o, <1>3, <1>6, <1>9, <1>10, <1>15

\* What is rendered was checked.
LEMMA RenderedIsChecked ==
  ASSUME NEW v, render_literal(v).ok
  PROVE  /\ v.type \in {"Date", "Timestamp", "TimestampTz"} => check_date(v)
         /\ v.type \in {"Time", "Timestamp", "TimestampTz"} => check_time(v)
  <1>1. ~invalid_datetime.ok
    BY DEF invalid_datetime, Refused
  <1>2. ASSUME v.type = "Date", ~check_date(v) PROVE FALSE
    <2>1. render_literal(v) = invalid_datetime
      BY <1>2 DEF render_literal
    <2> QED
      BY <1>1, <2>1
  <1>3. ASSUME v.type = "Time", ~check_time(v) PROVE FALSE
    <2>1. render_literal(v) = invalid_datetime
      BY <1>3 DEF render_literal
    <2> QED
      BY <1>1, <2>1
  <1>4. ASSUME v.type \in {"Timestamp", "TimestampTz"}, ~(check_date(v) /\ check_time(v)) PROVE FALSE
    <2>1. render_literal(v) = invalid_datetime
      BY <1>4 DEF render_literal
    <2> QED
      BY <1>1, <2>1
  <1> QED
    BY <1>2, <1>3, <1>4

LEMMA ValueReadsBack ==
  ASSUME NEW v \in ColumnValues, render_literal(v).ok
  PROVE  ReadsBack(v)
  <1>1. CASE v.type = "Date"
    <2>1. v \in DateValues /\ check_date(v)
      BY <1>1, TemporalValues, RenderedIsChecked
    <2> QED
      BY <1>1, <2>1, DateReadsBack DEF ReadsBack
  <1>2. CASE v.type = "Time"
    <2>1. v \in TimeValues /\ check_time(v)
      BY <1>2, TemporalValues, RenderedIsChecked
    <2> QED
      BY <1>2, <2>1, TimeReadsBack DEF ReadsBack
  <1>3. CASE v.type = "Timestamp"
    <2>1. v \in TimestampValues /\ check_date(v) /\ check_time(v)
      BY <1>3, TemporalValues, RenderedIsChecked
    <2> QED
      BY <1>3, <2>1, TimestampReadsBack DEF ReadsBack
  <1>4. CASE v.type = "TimestampTz"
    <2>1. v \in ZonedValues /\ check_date(v) /\ check_time(v)
      BY <1>4, TemporalValues, RenderedIsChecked
    <2> SUFFICES ASSUME ~(v.second > 59), v.year # -32768, v.offset \in (-840)..840
                 PROVE parse_trino_timestamp_tz(render_literal(v).body, Fixed(v.offset)) =
                         [f \in DOMAIN v \ {"offset"} |-> IF f = "type" THEN "Timestamp" ELSE Held(v)[f]]
      BY <1>4 DEF ReadsBack
    <2>2. v.second <= 59
      BY <2>1, ZonedFields
    <2> DEFINE base == [type |-> "Timestamp", year |-> v.year, month |-> v.month, day |-> v.day,
                        hour |-> v.hour, minute |-> v.minute, second |-> v.second,
                        fraction |-> Held(v).fraction]
    <2>3. parse_trino_timestamp_tz(render_literal(v).body, Fixed(v.offset)) = base
      BY <2>1, <2>2, ZonedReadsBack
    <2>4. DOMAIN v \ {"offset"} = DOMAIN base
      BY <2>1 DEF ZonedValues
    <2>5. /\ Held(v).year = v.year /\ Held(v).month = v.month /\ Held(v).day = v.day
          /\ Held(v).hour = v.hour /\ Held(v).minute = v.minute /\ Held(v).second = v.second
      BY <2>1 DEF ZonedValues, Held
    <2>6. base = [f \in DOMAIN base |-> IF f = "type" THEN "Timestamp" ELSE Held(v)[f]]
      BY <2>5
    <2> HIDE DEF base
    <2> QED
      BY <2>3, <2>4, <2>6
  <1>5. CASE v.type \notin {"Date", "Time", "Timestamp", "TimestampTz"}
    BY <1>5 DEF ReadsBack
  <1> QED
    BY <1>1, <1>2, <1>3, <1>4, <1>5
-----------------------------------------------------------------------------
(* The coordinator's lexer.                                               *)

\* Every string; the provers do not know that a literal is in STRING.
Letters ==
  STRING \union {QUOTE, MARK, "0", "-", "JSON", "DECIMAL", "REAL", "DOUBLE", "UUID", "X", "DATE", "TIME", "TIMESTAMP"}

LEMMA TextIsLetters == Seq(STRING) \subseteq Seq(Letters)
  <1>1. STRING \subseteq Letters
    BY DEF Letters
  <1> HIDE DEF Letters
  <1> QED
    BY <1>1, SeqMonotonic

\* What the lexer is in, and what it cuts.
Modes == {"sql", "string", "quote"} \union Hiding
Outside == {"sql"} \union Hiding
Kinds == {"sql", "string", "open string"} \union Hiding
Tokens == [kind : Kinds, text : Seq(Letters)]
Lexing(mode, text, tokens) == [mode |-> mode, text |-> text, tokens |-> tokens]
LexStates == [mode : Modes, text : Seq(Letters), tokens : Seq(Tokens)]

\* Where the lexer is after a character that is hidden.
Past(mode, c) == IF c = Closing(mode) THEN "sql" ELSE mode

LEMMA ModesAre ==
  /\ "sql" \notin Hiding /\ "string" \notin Hiding /\ "quote" \notin Hiding
  /\ QUOTE \notin Hiding /\ MARK \notin Hiding /\ Into(MARK) = "sql"
  /\ Outside \subseteq Modes /\ {"sql", "string", "quote"} \subseteq Modes
  /\ "string" \notin Outside /\ "quote" \notin Outside /\ "sql" \in Outside
  /\ \A mode \in Modes : mode = "sql" \/ mode = "string" \/ mode = "quote" \/ mode \in Hiding
  /\ \A mode \in Outside : mode = "sql" \/ mode \in Hiding
  /\ \A mode \in Hiding : mode \in Kinds /\ mode \in Outside
  <1>1. "sql" \notin Hiding /\ "string" \notin Hiding /\ "quote" \notin Hiding
    BY Zenon DEF Hiding
  <1>2. QUOTE \notin Hiding /\ MARK \notin Hiding
    BY Zenon DEF Hiding, QUOTE, MARK
  <1>3. Into(MARK) = "sql"
    BY <1>2, Zenon DEF Into
  <1> QED
    BY <1>1, <1>2, <1>3 DEF Modes, Outside, Kinds

LEMMA WhereItLeads ==
  /\ \A c : Into(c) \in Outside
  /\ \A mode \in Hiding : \A c : Past(mode, c) \in Outside
  BY DEF Into, Past, Outside

LEMMA LexingFields ==
  ASSUME NEW mode, NEW text, NEW tokens
  PROVE  /\ Lexing(mode, text, tokens).mode = mode
         /\ Lexing(mode, text, tokens).text = text
         /\ Lexing(mode, text, tokens).tokens = tokens
  BY DEF Lexing

LEMMA LexStatesAre ==
  ASSUME NEW s \in LexStates
  PROVE  /\ s.mode \in Modes /\ s.text \in Seq(Letters) /\ s.tokens \in Seq(Tokens)
         /\ s = Lexing(s.mode, s.text, s.tokens)
  BY DEF LexStates, Lexing

LEMMA TokensAre ==
  /\ \A c \in Letters : Word(c) \in Tokens
  /\ \A text \in Seq(Letters) : Token("string", text) \in Tokens /\ Token("open string", text) \in Tokens
  /\ \A mode \in Hiding, c \in Letters : Token(mode, <<c>>) \in Tokens /\ Token(mode, <<c>>) # Word(MARK)
  <1>1. \A kind \in Kinds, text \in Seq(Letters) : Token(kind, text) \in Tokens
    BY DEF Tokens, Token
  <1>2. \A c \in Letters : <<c>> \in Seq(Letters)
    OBVIOUS
  <1>3. "sql" \in Kinds /\ "string" \in Kinds /\ "open string" \in Kinds
    BY DEF Kinds
  <1>4. ASSUME NEW mode \in Hiding, NEW c \in Letters
        PROVE  Token(mode, <<c>>) # Word(MARK)
    <2>1. Token(mode, <<c>>).kind = mode /\ Word(MARK).kind = "sql"
      BY DEF Token, Word
    <2> QED
      BY <2>1, ModesAre
  <1> QED
    BY <1>1, <1>2, <1>3, <1>4, ModesAre DEF Word

\* The lexer's step, arm by arm.
LEMMA LexSteps ==
  ASSUME NEW s \in LexStates, NEW c \in Letters
  PROVE  /\ s.mode = "sql" /\ c = QUOTE => LexStep(s, c) = Lexing("string", <<>>, s.tokens)
         /\ s.mode = "sql" /\ c # QUOTE => LexStep(s, c) = Lexing(Into(c), s.text, Append(s.tokens, Word(c)))
         /\ s.mode = "string" /\ c = QUOTE => LexStep(s, c) = Lexing("quote", s.text, s.tokens)
         /\ s.mode = "string" /\ c # QUOTE => LexStep(s, c) = Lexing("string", Append(s.text, c), s.tokens)
         /\ s.mode = "quote" /\ c = QUOTE => LexStep(s, c) = Lexing("string", Append(s.text, QUOTE), s.tokens)
         /\ s.mode = "quote" /\ c # QUOTE =>
              LexStep(s, c) = Lexing(Into(c), <<>>, Append(Append(s.tokens, Token("string", s.text)), Word(c)))
         /\ s.mode \in Hiding =>
              LexStep(s, c) = Lexing(Past(s.mode, c), s.text, Append(s.tokens, Token(s.mode, <<c>>)))
  <1>1. PICK m, b, t : s = Lexing(m, b, t) /\ s.mode = m /\ s.text = b /\ s.tokens = t
    BY LexStatesAre
  <1>2. \A mode, text, tokens :
          /\ [s EXCEPT !.mode = mode, !.text = text] = Lexing(mode, text, s.tokens)
          /\ [s EXCEPT !.mode = mode, !.tokens = tokens] = Lexing(mode, s.text, tokens)
          /\ [s EXCEPT !.mode = mode] = Lexing(mode, s.text, s.tokens)
          /\ [s EXCEPT !.text = text] = Lexing(s.mode, text, s.tokens)
          /\ [mode |-> mode, text |-> text, tokens |-> tokens] = Lexing(mode, text, tokens)
    <2>1. \A x, y, z, to : [Lexing(x, y, z) EXCEPT !.mode = to] = Lexing(to, y, z)
      BY DEF Lexing
    <2>2. \A x, y, z, to : [Lexing(x, y, z) EXCEPT !.text = to] = Lexing(x, to, z)
      BY DEF Lexing
    <2>3. \A x, y, z, to : [Lexing(x, y, z) EXCEPT !.tokens = to] = Lexing(x, y, to)
      BY DEF Lexing
    <2> TAKE mode, text, tokens
    <2>4. [s EXCEPT !.mode = mode] = Lexing(mode, s.text, s.tokens)
      BY <1>1, <2>1
    <2>5. [s EXCEPT !.text = text] = Lexing(s.mode, text, s.tokens)
      BY <1>1, <2>2
    <2> DEFINE p == [s EXCEPT !.mode = mode]
    <2>a. [p EXCEPT !.text = text] = Lexing(mode, text, s.tokens)
      <3>1. p = Lexing(mode, s.text, s.tokens)
        BY <2>4
      <3> HIDE DEF p
      <3> QED
        BY <2>2, <3>1
    <2>b. [p EXCEPT !.tokens = tokens] = Lexing(mode, s.text, tokens)
      <3>1. p = Lexing(mode, s.text, s.tokens)
        BY <2>4
      <3> HIDE DEF p
      <3> QED
        BY <2>3, <3>1
    <2>6. [s EXCEPT !.mode = mode, !.text = text] = Lexing(mode, text, s.tokens)
      BY <2>a
    <2>7. [s EXCEPT !.mode = mode, !.tokens = tokens] = Lexing(mode, s.text, tokens)
      BY <2>b
    <2>8. [mode |-> mode, text |-> text, tokens |-> tokens] = Lexing(mode, text, tokens)
      BY DEF Lexing
    <2> QED
      BY <2>4, <2>5, <2>6, <2>7, <2>8
  <1>3. /\ s.mode = "sql" => s.mode # "string" /\ s.mode # "quote" /\ s.mode \notin Hiding
        /\ s.mode = "string" => s.mode # "sql" /\ s.mode # "quote" /\ s.mode \notin Hiding
        /\ s.mode = "quote" => s.mode # "sql" /\ s.mode # "string" /\ s.mode \notin Hiding
        /\ s.mode \in Hiding => s.mode # "sql" /\ s.mode # "string" /\ s.mode # "quote"
    BY ModesAre
  <1>4. CASE s.mode = "sql"
    BY <1>2, <1>3, <1>4 DEF LexStep
  <1>5. CASE s.mode = "string"
    BY <1>2, <1>3, <1>5 DEF LexStep
  <1>6. CASE s.mode = "quote"
    BY <1>2, <1>3, <1>6 DEF LexStep
  <1>7. CASE s.mode \in Hiding
    <2>1. LexStep(s, c) = [s EXCEPT !.mode = IF c = Closing(s.mode) THEN "sql" ELSE @,
                                    !.tokens = Append(@, Token(s.mode, <<c>>))]
      BY <1>3, <1>7 DEF LexStep
    <2> QED
      BY <1>2, <1>3, <1>7, <2>1 DEF Past
  <1> QED
    BY <1>4, <1>5, <1>6, <1>7, LexStatesAre, ModesAre

LEMMA LexStepType ==
  ASSUME NEW s \in LexStates, NEW c \in Letters
  PROVE  LexStep(s, c) \in LexStates
  <1>1. /\ s.mode \in Modes /\ s.text \in Seq(Letters) /\ s.tokens \in Seq(Tokens)
    BY LexStatesAre
  <1>2. Word(c) \in Tokens /\ Token("string", s.text) \in Tokens
    BY <1>1, TokensAre
  <1>4. \A mode \in Modes, text \in Seq(Letters), tokens \in Seq(Tokens) :
          Lexing(mode, text, tokens) \in LexStates
    BY DEF Lexing, LexStates
  <1>b. /\ "string" \in Modes /\ "quote" \in Modes /\ Into(c) \in Modes
        /\ s.mode \in Hiding => Past(s.mode, c) \in Modes
    BY ModesAre, WhereItLeads
  <1>3. \A t \in Seq(Tokens), x \in Tokens : Append(t, x) \in Seq(Tokens)
    OBVIOUS
  <1>5. /\ <<>> \in Seq(Letters) /\ Append(s.text, c) \in Seq(Letters)
        /\ Append(s.tokens, Word(c)) \in Seq(Tokens)
        /\ Append(Append(s.tokens, Token("string", s.text)), Word(c)) \in Seq(Tokens)
    <2>1. Append(s.text, c) \in Seq(Letters) /\ <<>> \in Seq(Letters)
      BY <1>1
    <2> QED
      BY <1>1, <1>2, <1>3, <2>1
  <1>6. CASE s.mode = "sql"
    <2>1. CASE c = QUOTE
      <3>1. LexStep(s, c) = Lexing("string", <<>>, s.tokens)
        BY <1>6, <2>1, LexSteps
      <3> QED
        BY <1>1, <1>4, <1>5, <1>b, <3>1
    <2>2. CASE c # QUOTE
      <3>1. LexStep(s, c) = Lexing(Into(c), s.text, Append(s.tokens, Word(c)))
        BY <1>6, <2>2, LexSteps
      <3> QED
        BY <1>1, <1>4, <1>5, <1>b, <3>1
    <2> QED
      BY <2>1, <2>2
  <1>7. CASE s.mode = "string"
    <2>1. CASE c = QUOTE
      <3>1. LexStep(s, c) = Lexing("quote", s.text, s.tokens)
        BY <1>7, <2>1, LexSteps
      <3> QED
        BY <1>1, <1>4, <1>b, <3>1
    <2>2. CASE c # QUOTE
      <3>1. LexStep(s, c) = Lexing("string", Append(s.text, c), s.tokens)
        BY <1>7, <2>2, LexSteps
      <3> QED
        BY <1>1, <1>4, <1>5, <1>b, <3>1
    <2> QED
      BY <2>1, <2>2
  <1>8. CASE s.mode = "quote"
    <2>1. CASE c = QUOTE
      <3>1. LexStep(s, c) = Lexing("string", Append(s.text, c), s.tokens)
        BY <1>8, <2>1, LexSteps
      <3> QED
        BY <1>1, <1>4, <1>5, <1>b, <3>1
    <2>2. CASE c # QUOTE
      <3>1. LexStep(s, c) = Lexing(Into(c), <<>>, Append(Append(s.tokens, Token("string", s.text)), Word(c)))
        BY <1>8, <2>2, LexSteps
      <3> QED
        BY <1>1, <1>4, <1>5, <1>b, <3>1
    <2> QED
      BY <2>1, <2>2
  <1>9. CASE s.mode \in Hiding
    <2>1. LexStep(s, c) = Lexing(Past(s.mode, c), s.text, Append(s.tokens, Token(s.mode, <<c>>)))
      BY <1>9, LexSteps
    <2>2. Append(s.tokens, Token(s.mode, <<c>>)) \in Seq(Tokens)
      BY <1>1, <1>3, <1>9, TokensAre
    <2> QED
      BY <1>1, <1>4, <1>9, <1>b, <2>1, <2>2
  <1> QED
    BY <1>1, <1>6, <1>7, <1>8, <1>9, ModesAre

LEMMA LexStartType == LexStart \in LexStates /\ LexStart = Lexing("sql", <<>>, <<>>)
  BY DEF LexStart, LexStates, Lexing, Modes

\* LexFrom is the last of the states that follow each other.
LexFollows(lex, s, chars) ==
  /\ lex \in [0..Len(chars) -> LexStates]
  /\ lex[0] = s /\ \A i \in 1..Len(chars) : lex[i] = LexStep(lex[i - 1], chars[i])

LEMMA LexUnfolds ==
  ASSUME NEW s \in LexStates, NEW chars \in Seq(Letters)
  PROVE  \E lex : LexFollows(lex, s, chars) /\ LexFrom(s, chars) = lex[Len(chars)]
  <1> DEFINE n == Len(chars)
             step == [w \in (1..n) \X LexStates |-> LexStep(w[2], chars[w[1]])]
             Equation(g) == g = [i \in 0..n |-> IF i = 0 THEN s ELSE LexStep(g[i - 1], chars[i])]
             lex == CHOOSE g : Equation(g)
  <1>1. n \in Nat /\ 0 \in Nat /\ 0 <= n /\ \A i \in 1..n : chars[i] \in Letters
    OBVIOUS
  <1>2. step \in Steps(0, n, LexStates)
    <2>1. \A w \in (1..n) \X LexStates : w[1] \in 1..n /\ w[2] \in LexStates
      OBVIOUS
    <2>2. \A w \in (1..n) \X LexStates : LexStep(w[2], chars[w[1]]) \in LexStates
      BY <1>1, <2>1, LexStepType
    <2> HIDE DEF n
    <2>3. step \in [(1..n) \X LexStates -> LexStates]
      BY <2>2
    <2> HIDE DEF step
    <2> QED
      BY <2>3 DEF Steps
  <1>3. PICK f \in [0..n -> LexStates] : Follows(f, 0, n, s, step)
    <2> HIDE DEF step, n
    <2> QED
      BY <1>1, <1>2, Recursion
  <1>4. \A i \in 1..n : f[i] = LexStep(f[i - 1], chars[i])
    <2> TAKE i \in 1..n
    <2>1. f[i - 1] \in LexStates /\ i \in (0 + 1)..n
      BY <1>1
    <2>2. step[<<i, f[i - 1]>>] = LexStep(f[i - 1], chars[i])
      BY <2>1
    <2> HIDE DEF step
    <2> QED
      BY <1>3, <2>1, <2>2 DEF Follows
  <1>5. Equation(f)
    <2>1. f[0] = s
      BY <1>3 DEF Follows
    <2> HIDE DEF n, step
    <2> QED
      BY <1>1, <1>4, <2>1
  <1>6. Equation(lex)
    <2> HIDE DEF Equation
    <2> QED
      BY <1>5
  <1>7. LexFrom(s, chars) = lex[n]
    BY DEF LexFrom
  <1> HIDE DEF lex, n, step
  <1>8. lex[0] = s /\ \A i \in 1..n : lex[i] = LexStep(lex[i - 1], chars[i])
    BY <1>1, <1>6
  <1> DEFINE S == {i \in 0..n : lex[i] \in LexStates}
  <1>9. 0..n \subseteq S
    <2>1. 0 \in S
      BY <1>1, <1>8
    <2>2. ASSUME NEW i \in 0..(n - 1), i \in S PROVE i + 1 \in S
      <3>1. i + 1 \in 1..n /\ (i + 1) - 1 = i /\ i + 1 \in 0..n
        BY <1>1
      <3>2. lex[i] \in LexStates /\ chars[i + 1] \in Letters /\ lex[i + 1] = LexStep(lex[i], chars[i + 1])
        BY <1>1, <1>8, <2>2, <3>1
      <3> QED
        BY <3>1, <3>2, LexStepType
    <2> HIDE DEF S
    <2> QED
      BY <1>1, <2>1, <2>2, SetInduction
  <1>10. lex \in [0..n -> LexStates]
    <2>1. lex = [i \in 0..n |-> IF i = 0 THEN s ELSE LexStep(lex[i - 1], chars[i])]
      BY <1>6
    <2>2. lex = [i \in 0..n |-> lex[i]]
      BY <2>1
    <2> QED
      BY <1>9, <2>2
  <1> QED
    BY <1>7, <1>8, <1>10 DEF LexFollows, n

LEMMA LexIs ==
  ASSUME NEW s \in LexStates, NEW chars \in Seq(Letters), NEW f,
         f[0] = s, \A i \in 1..Len(chars) : f[i] = LexStep(f[i - 1], chars[i])
  PROVE  LexFrom(s, chars) = f[Len(chars)] /\ LexFrom(s, chars) \in LexStates
  <1> DEFINE n == Len(chars)
  <1>1. n \in Nat /\ 0 \in Nat /\ n \in 0..n
    OBVIOUS
  <1>2. PICK lex : LexFollows(lex, s, chars) /\ LexFrom(s, chars) = lex[n]
    BY LexUnfolds
  <1> DEFINE S == {i \in 0..n : f[i] = lex[i]}
  <1>3. 0 \in S
    BY <1>1, <1>2 DEF LexFollows
  <1>4. ASSUME NEW i \in 0..(n - 1), i \in S PROVE i + 1 \in S
    <2>1. i + 1 \in 1..n /\ (i + 1) - 1 = i /\ i + 1 \in 0..n
      BY <1>1
    <2>2. f[i + 1] = LexStep(f[i], chars[i + 1]) /\ lex[i + 1] = LexStep(lex[i], chars[i + 1])
      BY <1>2, <2>1 DEF LexFollows
    <2> QED
      BY <1>4, <2>1, <2>2
  <1>5. n \in S
    <2> HIDE DEF S, n
    <2>1. 0..n \subseteq S
      BY <1>1, <1>3, <1>4, SetInduction
    <2> QED
      BY <1>1, <2>1
  <1>6. lex[n] \in LexStates
    BY <1>1, <1>2 DEF LexFollows
  <1> QED
    BY <1>2, <1>5, <1>6

LEMMA LexNothing ==
  ASSUME NEW s \in LexStates
  PROVE  LexFrom(s, <<>>) = s
  <1> DEFINE f == [i \in {0} |-> s]
             chars == <<>>
  <1>1. chars \in Seq(Letters) /\ Len(chars) = 0 /\ 1..0 = {} /\ f[0] = s
    OBVIOUS
  <1> HIDE DEF f, chars
  <1>2. \A i \in 1..Len(chars) : f[i] = LexStep(f[i - 1], chars[i])
    BY <1>1
  <1>3. LexFrom(s, chars) = f[Len(chars)]
    BY <1>1, <1>2, LexIs
  <1> QED
    BY <1>1, <1>3 DEF chars

\* A text in two parts is lexed one after the other.
LEMMA LexConcat ==
  ASSUME NEW s \in LexStates, NEW a \in Seq(Letters), NEW b \in Seq(Letters)
  PROVE  LexFrom(s, a \o b) = LexFrom(LexFrom(s, a), b) /\ LexFrom(s, a) \in LexStates
  <1> DEFINE k == Len(a)
             n == Len(b)
             chars == a \o b
  <1>1. /\ k \in Nat /\ n \in Nat /\ chars \in Seq(Letters) /\ Len(chars) = k + n
        /\ \A i \in 1..k : chars[i] = a[i]
        /\ \A i \in 1..n : chars[k + i] = b[i]
    OBVIOUS
  <1>2. PICK lex : LexFollows(lex, s, chars) /\ LexFrom(s, chars) = lex[Len(chars)]
    BY <1>1, LexUnfolds
  <1>3. /\ lex \in [0..(k + n) -> LexStates] /\ lex[0] = s
        /\ \A i \in 1..(k + n) : lex[i] = LexStep(lex[i - 1], chars[i])
    BY <1>1, <1>2 DEF LexFollows
  <1> HIDE DEF chars
  <1>4. LexFrom(s, a) = lex[k] /\ LexFrom(s, a) \in LexStates
    <2>1. \A i \in 1..Len(a) : lex[i] = LexStep(lex[i - 1], a[i])
      BY <1>1, <1>3
    <2> QED
      BY <1>3, <2>1, LexIs
  <1> DEFINE g == [i \in 0..n |-> lex[k + i]]
  <1>5. LexFrom(lex[k], b) = g[n]
    <2>1. g[0] = lex[k]
      BY <1>1
    <2>2. \A i \in 1..Len(b) : g[i] = LexStep(g[i - 1], b[i])
      <3> TAKE i \in 1..Len(b)
      <3>1. i \in 0..n /\ i - 1 \in 0..n /\ k + i \in 1..(k + n) /\ (k + i) - 1 = k + (i - 1)
        BY <1>1
      <3>2. g[i] = lex[k + i] /\ g[i - 1] = lex[k + (i - 1)]
        BY <3>1
      <3>3. lex[k + i] = LexStep(lex[(k + i) - 1], chars[k + i]) /\ chars[k + i] = b[i]
        BY <1>1, <1>3, <3>1
      <3> HIDE DEF g
      <3> QED
        BY <3>1, <3>2, <3>3
    <2>3. lex[k] \in LexStates
      BY <1>4
    <2> HIDE DEF g
    <2> QED
      BY <2>1, <2>2, <2>3, LexIs
  <1>6. g[n] = lex[Len(chars)]
    BY <1>1
  <1> QED
    BY <1>2, <1>4, <1>5, <1>6 DEF chars

LEMMA OneIsASeq ==
  ASSUME NEW S, NEW c \in S
  PROVE  <<c>> \in Seq(S) /\ Len(<<c>>) = 1 /\ <<c>>[1] = c
  OBVIOUS

LEMMA LexOne ==
  ASSUME NEW s \in LexStates, NEW c \in Letters
  PROVE  LexFrom(s, <<c>>) = LexStep(s, c)
  <1> DEFINE f == [i \in 0..1 |-> IF i = 0 THEN s ELSE LexStep(s, c)]
             chars == <<c>>
  <1>1. chars \in Seq(Letters) /\ Len(chars) = 1 /\ chars[1] = c
    BY OneIsASeq
  <1>2. f[0] = s /\ f[1] = LexStep(s, c)
    OBVIOUS
  <1> HIDE DEF f, chars
  <1>3. \A i \in 1..Len(chars) : f[i] = LexStep(f[i - 1], chars[i])
    <2> SUFFICES ASSUME NEW i \in 1..Len(chars) PROVE f[i] = LexStep(f[i - 1], chars[i])
      OBVIOUS
    <2>1. i = 1 /\ i - 1 = 0
      BY <1>1
    <2> QED
      BY <1>1, <1>2, <2>1
  <1>4. LexFrom(s, chars) = f[Len(chars)]
    BY <1>1, <1>2, <1>3, LexIs
  <1> QED
    BY <1>1, <1>2, <1>4 DEF chars

\* What came before stays in front.
LEMMA LexShift ==
  ASSUME NEW before \in Seq(Tokens), NEW chars \in Seq(Letters)
  PROVE  /\ LexFrom(LexStart, chars) \in LexStates
         /\ LexFrom(Lexing("sql", <<>>, before), chars) =
              Lexing(LexFrom(LexStart, chars).mode, LexFrom(LexStart, chars).text,
                     before \o LexFrom(LexStart, chars).tokens)
  <1> DEFINE n == Len(chars)
             Shifted(s) == Lexing(s.mode, s.text, before \o s.tokens)
  <1>1. n \in Nat /\ \A i \in 1..n : chars[i] \in Letters
    OBVIOUS
  <1>2. ASSUME NEW s \in LexStates, NEW c \in Letters
        PROVE  LexStep(Shifted(s), c) = Shifted(LexStep(s, c)) /\ Shifted(s) \in LexStates
    <2>1. s.mode \in Modes /\ s.text \in Seq(Letters) /\ s.tokens \in Seq(Tokens)
      BY LexStatesAre
    <2>2. Shifted(s) \in LexStates
      BY <2>1 DEF LexStates, Lexing
    <2>3. Shifted(s).mode = s.mode /\ Shifted(s).text = s.text /\ Shifted(s).tokens = before \o s.tokens
      BY DEF Lexing
    <2>a. \A mode, text, tokens : Shifted(Lexing(mode, text, tokens)) = Lexing(mode, text, before \o tokens)
      BY DEF Lexing
    <2>4. Word(c) \in Tokens /\ Token("string", s.text) \in Tokens
      BY <2>1, TokensAre
    <2>5. /\ before \o Append(s.tokens, Word(c)) = Append(before \o s.tokens, Word(c))
          /\ before \o Append(Append(s.tokens, Token("string", s.text)), Word(c)) =
               Append(Append(before \o s.tokens, Token("string", s.text)), Word(c))
          /\ s.mode \in Hiding =>
               before \o Append(s.tokens, Token(s.mode, <<c>>)) = Append(before \o s.tokens, Token(s.mode, <<c>>))
      <3>1. \A t \in Seq(Tokens), x \in Tokens :
              before \o Append(t, x) = Append(before \o t, x) /\ Append(t, x) \in Seq(Tokens)
        OBVIOUS
      <3>2. s.mode \in Hiding =>
              before \o Append(s.tokens, Token(s.mode, <<c>>)) = Append(before \o s.tokens, Token(s.mode, <<c>>))
        BY <2>1, <3>1, TokensAre
      <3>3. /\ before \o Append(s.tokens, Word(c)) = Append(before \o s.tokens, Word(c))
            /\ before \o Append(Append(s.tokens, Token("string", s.text)), Word(c)) =
                 Append(Append(before \o s.tokens, Token("string", s.text)), Word(c))
        BY <2>1, <2>4, <3>1
      <3> QED
        BY <3>2, <3>3
    <2> HIDE DEF Shifted
    <2>6. CASE s.mode = "sql"
      <3>1. CASE c = QUOTE
        <4>1. /\ LexStep(s, c) = Lexing("string", <<>>, s.tokens)
              /\ LexStep(Shifted(s), c) = Lexing("string", <<>>, Shifted(s).tokens)
          BY <2>2, <2>3, <2>6, <3>1, LexSteps
        <4> QED
          BY <2>2, <2>3, <2>a, <2>5, <4>1
      <3>2. CASE c # QUOTE
        <4>1. /\ LexStep(s, c) = Lexing(Into(c), s.text, Append(s.tokens, Word(c)))
              /\ LexStep(Shifted(s), c) = Lexing(Into(c), Shifted(s).text, Append(Shifted(s).tokens, Word(c)))
          BY <2>2, <2>3, <2>6, <3>2, LexSteps
        <4>2. LexStep(Shifted(s), c) = Lexing(Into(c), s.text, Append(before \o s.tokens, Word(c)))
          BY <2>3, <4>1
        <4>3. Shifted(LexStep(s, c)) = Lexing(Into(c), s.text, before \o Append(s.tokens, Word(c)))
          BY <2>a, <4>1
        <4> QED
          BY <2>2, <2>5, <4>2, <4>3
      <3> QED
        BY <3>1, <3>2
    <2>7. CASE s.mode = "string"
      <3>1. CASE c = QUOTE
        <4>1. /\ LexStep(s, c) = Lexing("quote", s.text, s.tokens)
              /\ LexStep(Shifted(s), c) = Lexing("quote", Shifted(s).text, Shifted(s).tokens)
          BY <2>2, <2>3, <2>7, <3>1, LexSteps
        <4> QED
          BY <2>2, <2>3, <2>a, <2>5, <4>1
      <3>2. CASE c # QUOTE
        <4>1. /\ LexStep(s, c) = Lexing("string", Append(s.text, c), s.tokens)
              /\ LexStep(Shifted(s), c) = Lexing("string", Append(Shifted(s).text, c), Shifted(s).tokens)
          BY <2>2, <2>3, <2>7, <3>2, LexSteps
        <4> QED
          BY <2>2, <2>3, <2>a, <2>5, <4>1
      <3> QED
        BY <3>1, <3>2
    <2>8. CASE s.mode = "quote"
      <3>1. CASE c = QUOTE
        <4>1. /\ LexStep(s, c) = Lexing("string", Append(s.text, QUOTE), s.tokens)
              /\ LexStep(Shifted(s), c) = Lexing("string", Append(Shifted(s).text, QUOTE), Shifted(s).tokens)
          BY <2>2, <2>3, <2>8, <3>1, LexSteps
        <4> QED
          BY <2>2, <2>3, <2>a, <2>5, <4>1
      <3>2. CASE c # QUOTE
        <4>1. /\ LexStep(s, c) = Lexing(Into(c), <<>>, Append(Append(s.tokens, Token("string", s.text)), Word(c)))
              /\ LexStep(Shifted(s), c) =
                   Lexing(Into(c), <<>>,
                          Append(Append(Shifted(s).tokens, Token("string", Shifted(s).text)), Word(c)))
          BY <2>2, <2>3, <2>8, <3>2, LexSteps
        <4>2. Shifted(LexStep(s, c)) =
                Lexing(Into(c), <<>>, before \o Append(Append(s.tokens, Token("string", s.text)), Word(c)))
          BY <2>a, <4>1
        <4>3. LexStep(Shifted(s), c) = Shifted(LexStep(s, c))
          BY <2>3, <2>5, <4>1, <4>2
        <4> QED
          BY <2>2, <4>3
      <3> QED
        BY <3>1, <3>2
    <2>9. CASE s.mode \in Hiding
      <3>1. LexStep(s, c) = Lexing(Past(s.mode, c), s.text, Append(s.tokens, Token(s.mode, <<c>>)))
        BY <2>9, LexSteps
      <3>2. LexStep(Shifted(s), c) = Lexing(Past(s.mode, c), s.text, Append(before \o s.tokens, Token(s.mode, <<c>>)))
        BY <2>2, <2>3, <2>9, LexSteps
      <3>3. Shifted(LexStep(s, c)) = Lexing(Past(s.mode, c), s.text, before \o Append(s.tokens, Token(s.mode, <<c>>)))
        BY <2>a, <3>1
      <3> QED
        BY <2>2, <2>5, <2>9, <3>2, <3>3
    <2> QED
      BY <2>1, <2>2, <2>6, <2>7, <2>8, <2>9, ModesAre
  <1>3. PICK lex : LexFollows(lex, LexStart, chars) /\ LexFrom(LexStart, chars) = lex[n]
    BY LexStartType, LexUnfolds
  <1>4. /\ lex \in [0..n -> LexStates] /\ lex[0] = LexStart
        /\ \A i \in 1..n : lex[i] = LexStep(lex[i - 1], chars[i])
    BY <1>3 DEF LexFollows
  <1> HIDE DEF n
  <1> DEFINE f == [i \in 0..n |-> Shifted(lex[i])]
  <1>5. f[0] = Lexing("sql", <<>>, before)
    <2>1. f[0] = Shifted(LexStart)
      BY <1>1, <1>4
    <2>2. LexStart.mode = "sql" /\ LexStart.text = <<>> /\ LexStart.tokens = <<>> /\ before \o <<>> = before
      BY DEF LexStart
    <2> QED
      BY <2>1, <2>2
  <1>6. \A i \in 1..n : f[i] = LexStep(f[i - 1], chars[i])
    <2> TAKE i \in 1..n
    <2>1. i \in 0..n /\ i - 1 \in 0..n /\ lex[i - 1] \in LexStates /\ chars[i] \in Letters
      BY <1>1, <1>4
    <2>2. f[i] = Shifted(lex[i]) /\ f[i - 1] = Shifted(lex[i - 1]) /\ lex[i] = LexStep(lex[i - 1], chars[i])
      BY <1>4, <2>1
    <2> HIDE DEF f, Shifted
    <2> QED
      BY <1>2, <2>1, <2>2
  <1>7. f[n] = Shifted(LexFrom(LexStart, chars)) /\ LexFrom(LexStart, chars) \in LexStates
    BY <1>1, <1>3, <1>4
  <1>8. Lexing("sql", <<>>, before) \in LexStates
    BY ModesAre DEF Lexing, LexStates
  <1> HIDE DEF f
  <1>9. LexFrom(Lexing("sql", <<>>, before), chars) = f[Len(chars)]
    BY <1>5, <1>6, <1>8, LexIs DEF n
  <1> QED
    BY <1>7, <1>9 DEF n

\* FlattenSeq is the last of the concatenations that follow each other.
FlattenFollows(f, T, seqs) ==
  /\ f \in [0..Len(seqs) -> Seq(T)]
  /\ f[0] = <<>> /\ \A i \in 1..Len(seqs) : f[i] = f[i - 1] \o seqs[i]

LEMMA FlattenUnfolds ==
  ASSUME NEW T, NEW seqs \in Seq(Seq(T))
  PROVE  \E f : FlattenFollows(f, T, seqs) /\ FlattenSeq(seqs) = f[Len(seqs)]
  <1> DEFINE n == Len(seqs)
  <1>1. n \in Nat /\ \A i \in 1..n : seqs[i] \in Seq(T)
    OBVIOUS
  <1>2. CASE n = 0
    <2> DEFINE f == [i \in 0..0 |-> <<>>]
    <2>1. seqs = <<>> /\ FlattenSeq(seqs) = seqs
      BY <1>2 DEF FlattenSeq
    <2>2. f \in [0..0 -> Seq(T)] /\ f[0] = <<>> /\ 1..0 = {}
      OBVIOUS
    <2> HIDE DEF f
    <2>3. FlattenFollows(f, T, seqs)
      BY <1>2, <2>2 DEF FlattenFollows
    <2> QED
      BY <1>2, <2>1, <2>2, <2>3
  <1>3. CASE n # 0
    <2> DEFINE step == [w \in (2..n) \X Seq(T) |-> w[2] \o seqs[w[1]]]
               Equation(g) == g = [i \in 1..n |-> IF i = 1 THEN seqs[i] ELSE g[i - 1] \o seqs[i]]
               flatten == CHOOSE g : Equation(g)
    <2>1. 1 \in Nat /\ 1 <= n /\ seqs[1] \in Seq(T) /\ n \in 1..n
      BY <1>1, <1>3
    <2>2. step \in Steps(1, n, Seq(T))
      <3>1. \A w \in (2..n) \X Seq(T) : w[2] \o seqs[w[1]] \in Seq(T)
        BY <1>1
      <3>2. step \in [(2..n) \X Seq(T) -> Seq(T)]
        BY <3>1
      <3> HIDE DEF step
      <3> QED
        BY <3>2 DEF Steps
    <2>3. PICK g \in [1..n -> Seq(T)] : Follows(g, 1, n, seqs[1], step)
      <3> HIDE DEF step, n
      <3> QED
        BY <1>1, <2>1, <2>2, Recursion
    <2>4. \A i \in 2..n : g[i] = g[i - 1] \o seqs[i]
      <3> TAKE i \in 2..n
      <3>1. g[i - 1] \in Seq(T) /\ i \in (1 + 1)..n
        <4>1. i - 1 \in 1..n /\ 1 + 1 = 2
          BY <1>1
        <4> HIDE DEF step, n
        <4> QED
          BY <4>1
      <3>2. step[<<i, g[i - 1]>>] = g[i - 1] \o seqs[i]
        BY <3>1
      <3> HIDE DEF step
      <3> QED
        BY <2>3, <3>1, <3>2 DEF Follows
    <2>5. Equation(g)
      <3>1. g[1] = seqs[1]
        BY <2>3 DEF Follows
      <3> HIDE DEF n, step
      <3>2. \A i \in 1..n : g[i] = IF i = 1 THEN seqs[i] ELSE g[i - 1] \o seqs[i]
        <4> TAKE i \in 1..n
        <4>1. i = 1 \/ i \in 2..n
          BY <1>1
        <4>2. CASE i = 1
          BY <3>1, <4>2
        <4>3. CASE i # 1
          BY <2>4, <4>1, <4>3
        <4> QED
          BY <4>2, <4>3
      <3>3. g = [i \in 1..n |-> g[i]]
        OBVIOUS
      <3> QED
        BY <3>2, <3>3
    <2>6. Equation(flatten)
      <3> HIDE DEF Equation
      <3> QED
        BY <2>5
    <2>7. FlattenSeq(seqs) = flatten[n]
      BY <1>3 DEF FlattenSeq
    <2> HIDE DEF flatten, n, step
    <2>8. flatten[1] = seqs[1] /\ \A i \in 2..n : flatten[i] = flatten[i - 1] \o seqs[i]
      <3>1. flatten = [i \in 1..n |-> IF i = 1 THEN seqs[i] ELSE flatten[i - 1] \o seqs[i]]
        BY <2>6
      <3> HIDE DEF Equation
      <3>2. flatten[1] = seqs[1]
        BY <1>1, <2>1, <3>1
      <3>3. ASSUME NEW i \in 2..n PROVE flatten[i] = flatten[i - 1] \o seqs[i]
        <4>1. i \in 1..n /\ i # 1
          BY <1>1
        <4> QED
          BY <3>1, <4>1
      <3> QED
        BY <3>2, <3>3
    <2> HIDE DEF Equation
    <2> DEFINE S == {i \in 1..n : flatten[i] \in Seq(T)}
    <2>9. 1..n \subseteq S
      <3>1. 1 \in S
        BY <2>1, <2>8
      <3>2. ASSUME NEW i \in 1..(n - 1), i \in S PROVE i + 1 \in S
        <4>1. i + 1 \in 2..n /\ (i + 1) - 1 = i /\ i + 1 \in 1..n
          BY <1>1
        <4>2. flatten[i] \in Seq(T) /\ seqs[i + 1] \in Seq(T) /\ flatten[i + 1] = flatten[i] \o seqs[i + 1]
          BY <1>1, <2>8, <3>2, <4>1
        <4>3. flatten[i + 1] \in Seq(T)
          BY <4>2
        <4> QED
          BY <4>1, <4>3
      <3> HIDE DEF S
      <3> QED
        BY <1>1, <2>1, <3>1, <3>2, SetInduction
    <2> DEFINE f == [i \in 0..n |-> IF i = 0 THEN <<>> ELSE flatten[i]]
    <2>10. /\ f[0] = <<>> /\ \A i \in 1..n : f[i] = flatten[i]
      BY <1>1
    <2>11. f \in [0..n -> Seq(T)]
      BY <1>1, <2>9
    <2> HIDE DEF f
    <2>12. \A i \in 1..n : f[i] = f[i - 1] \o seqs[i]
      <3> SUFFICES ASSUME NEW i \in 1..n PROVE f[i] = f[i - 1] \o seqs[i]
        OBVIOUS
      <3>1. CASE i = 1
        <4>1. f[i - 1] = <<>> /\ f[i] = seqs[i] /\ seqs[i] \in Seq(T)
          BY <1>1, <2>1, <2>8, <2>10, <3>1
        <4> QED
          BY <4>1
      <3>2. CASE i # 1
        <4>1. i \in 2..n /\ i - 1 \in 1..n
          BY <1>1, <3>2
        <4> QED
          BY <2>8, <2>10, <4>1
      <3> QED
        BY <3>1, <3>2
    <2>13. FlattenFollows(f, T, seqs)
      BY <2>10, <2>11, <2>12 DEF FlattenFollows, n
    <2>14. FlattenSeq(seqs) = f[n]
      BY <2>1, <2>7, <2>10
    <2> QED
      BY <2>13, <2>14 DEF n
  <1> QED
    BY <1>2, <1>3

LEMMA FlattenIs ==
  ASSUME NEW T, NEW seqs \in Seq(Seq(T)), NEW f,
         f[0] = <<>>, \A i \in 1..Len(seqs) : f[i] = f[i - 1] \o seqs[i]
  PROVE  FlattenSeq(seqs) = f[Len(seqs)] /\ FlattenSeq(seqs) \in Seq(T)
  <1> DEFINE n == Len(seqs)
  <1>1. n \in Nat /\ 0 \in Nat /\ n \in 0..n
    OBVIOUS
  <1>2. PICK g : FlattenFollows(g, T, seqs) /\ FlattenSeq(seqs) = g[n]
    BY FlattenUnfolds
  <1> DEFINE S == {i \in 0..n : f[i] = g[i]}
  <1>3. 0 \in S
    BY <1>1, <1>2 DEF FlattenFollows
  <1>4. ASSUME NEW i \in 0..(n - 1), i \in S PROVE i + 1 \in S
    <2>1. i + 1 \in 1..n /\ (i + 1) - 1 = i /\ i + 1 \in 0..n
      BY <1>1
    <2>2. f[i + 1] = f[i] \o seqs[i + 1] /\ g[i + 1] = g[i] \o seqs[i + 1]
      BY <1>2, <2>1 DEF FlattenFollows
    <2> QED
      BY <1>4, <2>1, <2>2
  <1>5. n \in S
    <2> HIDE DEF S, n
    <2>1. 0..n \subseteq S
      BY <1>1, <1>3, <1>4, SetInduction
    <2> QED
      BY <1>1, <2>1
  <1>6. g[n] \in Seq(T)
    BY <1>1, <1>2 DEF FlattenFollows
  <1> QED
    BY <1>2, <1>5, <1>6

LEMMA FlattenAppend ==
  ASSUME NEW T, NEW seqs \in Seq(Seq(T)), NEW last \in Seq(T)
  PROVE  FlattenSeq(Append(seqs, last)) = FlattenSeq(seqs) \o last
  <1> DEFINE n == Len(seqs)
             longer == Append(seqs, last)
  <1>1. /\ n \in Nat /\ longer \in Seq(Seq(T)) /\ Len(longer) = n + 1
        /\ longer[n + 1] = last /\ \A i \in 1..n : longer[i] = seqs[i]
    OBVIOUS
  <1> HIDE DEF longer
  <1>2. PICK f : FlattenFollows(f, T, longer) /\ FlattenSeq(longer) = f[Len(longer)]
    BY <1>1, FlattenUnfolds
  <1>3. f[0] = <<>> /\ \A i \in 1..(n + 1) : f[i] = f[i - 1] \o longer[i]
    BY <1>1, <1>2 DEF FlattenFollows
  <1>4. FlattenSeq(seqs) = f[n]
    <2>1. \A i \in 1..Len(seqs) : f[i] = f[i - 1] \o seqs[i]
      <3> SUFFICES ASSUME NEW i \in 1..n PROVE f[i] = f[i - 1] \o seqs[i]
        OBVIOUS
      <3>1. i \in 1..(n + 1) /\ longer[i] = seqs[i]
        BY <1>1
      <3> QED
        BY <1>3, <3>1
    <2> QED
      BY <1>3, <2>1, FlattenIs
  <1>5. f[n + 1] = f[n] \o last
    <2>1. n + 1 \in 1..(n + 1) /\ (n + 1) - 1 = n
      BY <1>1
    <2> QED
      BY <1>1, <1>3, <2>1
  <1> QED
    BY <1>1, <1>2, <1>4, <1>5 DEF longer

LEMMA FlattenNothing == FlattenSeq(<<>>) = <<>>
  <1> DEFINE none == <<>>
  <1>1. Len(none) = 0
    OBVIOUS
  <1> HIDE DEF none
  <1>2. FlattenSeq(none) = none
    BY <1>1 DEF FlattenSeq
  <1> QED
    BY <1>2 DEF none

LEMMA ConcatAppend ==
  ASSUME NEW S, NEW a \in Seq(S), NEW b \in Seq(S), NEW c \in S
  PROVE  a \o Append(b, c) = Append(a \o b, c) /\ Append(b, c) = b \o <<c>>
  OBVIOUS

LEMMA PrefixGrows ==
  ASSUME NEW S, NEW seq \in Seq(S), NEW i \in 0..(Len(seq) - 1)
  PROVE  /\ SubSeq(seq, 1, i) \in Seq(S) /\ seq[i + 1] \in S
         /\ SubSeq(seq, 1, i + 1) = Append(SubSeq(seq, 1, i), seq[i + 1])
  OBVIOUS

LEMMA PrefixEnds ==
  ASSUME NEW S, NEW seq \in Seq(S)
  PROVE  SubSeq(seq, 1, 0) = <<>> /\ SubSeq(seq, 1, Len(seq)) = seq
  BY SubSeqEmpty, SubSeqFull

\* Doubled, a quote is one.
LEMMA PairLexes ==
  ASSUME NEW s \in LexStates, s.mode = "string"
  PROVE  LexFrom(s, <<QUOTE, QUOTE>>) = Lexing("string", Append(s.text, QUOTE), s.tokens)
  <1>1. QUOTE \in Letters
    BY DEF Letters
  <1> DEFINE q == <<QUOTE>>
             t == LexFrom(s, q)
  <1>2. q \in Seq(Letters) /\ <<QUOTE, QUOTE>> = q \o q
    BY <1>1, OneIsASeq
  <1>3. t = Lexing("quote", s.text, s.tokens)
    BY <1>1, LexOne, LexSteps
  <1> HIDE DEF q
  <1>4. t \in LexStates /\ LexFrom(s, q \o q) = LexFrom(t, q)
    BY <1>2, LexConcat
  <1>5. t.mode = "quote" /\ t.text = s.text /\ t.tokens = s.tokens
    BY <1>3, LexingFields
  <1> HIDE DEF t
  <1>6. LexFrom(t, q) = Lexing("string", Append(t.text, QUOTE), t.tokens)
    <2>1. LexFrom(t, q) = LexStep(t, QUOTE)
      BY <1>1, <1>4, LexOne DEF q
    <2> QED
      BY <1>1, <1>4, <1>5, <2>1, LexSteps
  <1> QED
    BY <1>2, <1>4, <1>5, <1>6

LEMMA Quoted ==
  ASSUME NEW text \in Seq(Letters)
  PROVE  LET pieces == [i \in DOMAIN text |-> IF text[i] = QUOTE THEN <<QUOTE, QUOTE>> ELSE <<text[i]>>]
         IN /\ pieces \in Seq(Seq(Letters)) /\ Len(pieces) = Len(text)
            /\ quote_string(text) = FlattenSeq(pieces)
            /\ quote_string(text) \in Seq(Letters)
  <1> DEFINE n == Len(text)
             pieces == [i \in DOMAIN text |-> IF text[i] = QUOTE THEN <<QUOTE, QUOTE>> ELSE <<text[i]>>]
  <1>1. n \in Nat /\ DOMAIN text = 1..n /\ \A i \in 1..n : text[i] \in Letters
    OBVIOUS
  <1>2. \A i \in 1..n : pieces[i] \in Seq(Letters)
    <2>1. \A c \in Letters : <<c>> \in Seq(Letters) /\ <<c, c>> \in Seq(Letters)
      OBVIOUS
    <2> QED
      BY <1>1, <2>1
  <1>3. pieces \in [1..n -> Seq(Letters)]
    BY <1>1, <1>2
  <1>4. quote_string(text) = FlattenSeq(pieces)
    BY DEF quote_string
  <1> HIDE DEF pieces
  <1>5. pieces \in Seq(Seq(Letters)) /\ Len(pieces) = n
    BY <1>1, <1>3, FunctionIsASeq
  <1>6. FlattenSeq(pieces) \in Seq(Letters)
    <2>1. PICK f : FlattenFollows(f, Letters, pieces) /\ FlattenSeq(pieces) = f[n]
      BY <1>5, FlattenUnfolds
    <2> QED
      BY <1>1, <1>5, <2>1 DEF FlattenFollows
  <1> QED
    BY <1>4, <1>5, <1>6 DEF pieces, n

\* Inside a string the rendered text is the text that was bound.
LEMMA QuotedBody ==
  ASSUME NEW text \in Seq(Letters), NEW s \in LexStates, s.mode = "string"
  PROVE  LexFrom(s, quote_string(text)) = Lexing("string", s.text \o text, s.tokens)
  <1> DEFINE n == Len(text)
             pieces == [i \in DOMAIN text |-> IF text[i] = QUOTE THEN <<QUOTE, QUOTE>> ELSE <<text[i]>>]
             After(i) == Lexing("string", s.text \o SubSeq(text, 1, i), s.tokens)
  <1>1. /\ n \in Nat /\ s.text \in Seq(Letters) /\ s.tokens \in Seq(Tokens)
        /\ \A i \in 1..n : pieces[i] = IF text[i] = QUOTE THEN <<QUOTE, QUOTE>> ELSE <<text[i]>>
    BY LexStatesAre
  <1>2. pieces \in Seq(Seq(Letters)) /\ Len(pieces) = n /\ quote_string(text) = FlattenSeq(pieces)
    BY Quoted
  <1> HIDE DEF pieces
  <1>3. PICK f : FlattenFollows(f, Letters, pieces) /\ FlattenSeq(pieces) = f[n]
    BY <1>2, FlattenUnfolds
  <1>4. f \in [0..n -> Seq(Letters)] /\ f[0] = <<>> /\ \A i \in 1..n : f[i] = f[i - 1] \o pieces[i]
    BY <1>2, <1>3 DEF FlattenFollows
  <1> HIDE DEF n
  <1> DEFINE S == {i \in 0..n : LexFrom(s, f[i]) = After(i)}
  <1>5. 0 \in S
    <2>1. s = Lexing("string", s.text, s.tokens)
      BY LexStatesAre
    <2>2. s.text \o SubSeq(text, 1, 0) = s.text
      BY <1>1, PrefixEnds
    <2>3. LexFrom(s, f[0]) = s
      BY <1>4, LexNothing
    <2>4. After(0) = s
      BY <2>1, <2>2
    <2> HIDE DEF After
    <2> QED
      BY <1>1, <2>3, <2>4
  <1>6. ASSUME NEW i \in 0..(n - 1), i \in S PROVE i + 1 \in S
    <2> DEFINE c == text[i + 1]
               t == After(i)
    <2>1. i + 1 \in 1..n /\ (i + 1) - 1 = i /\ i \in 0..n /\ i + 1 \in 0..n
      BY <1>1
    <2>2. /\ SubSeq(text, 1, i) \in Seq(Letters) /\ c \in Letters
          /\ SubSeq(text, 1, i + 1) = Append(SubSeq(text, 1, i), c)
      BY PrefixGrows DEF n
    <2>3. s.text \o SubSeq(text, 1, i + 1) = Append(s.text \o SubSeq(text, 1, i), c)
      <3> DEFINE prefix == SubSeq(text, 1, i)
      <3>1. s.text \o Append(prefix, c) = Append(s.text \o prefix, c)
        <4>1. prefix \in Seq(Letters) /\ c \in Letters /\ s.text \in Seq(Letters)
          BY <1>1, <2>2
        <4> DEFINE read == s.text
        <4>2. read \in Seq(Letters)
          BY <4>1
        <4> HIDE DEF prefix, c, read
        <4>3. read \o Append(prefix, c) = Append(read \o prefix, c)
          BY <4>1, <4>2, ConcatAppend
        <4> QED
          BY <4>3 DEF read
      <3> QED
        BY <2>2, <3>1
    <2>4. t \in LexStates /\ t.mode = "string" /\ t.text = s.text \o SubSeq(text, 1, i) /\ t.tokens = s.tokens
      BY <1>1, <2>2, ModesAre DEF Lexing, LexStates
    <2>5. f[i] \in Seq(Letters) /\ f[i + 1] = f[i] \o pieces[i + 1] /\ LexFrom(s, f[i]) = t
      BY <1>4, <1>6, <2>1
    <2>6. After(i + 1) = Lexing("string", Append(t.text, c), t.tokens)
      BY <2>3, <2>4
    <2> HIDE DEF t, c, After
    <2>7. CASE c = QUOTE
      <3>1. pieces[i + 1] = <<QUOTE, QUOTE>> /\ pieces[i + 1] \in Seq(Letters)
        BY <1>1, <1>2, <2>1, <2>7 DEF c
      <3>2. LexFrom(s, f[i + 1]) = LexFrom(t, pieces[i + 1])
        <4> DEFINE piece == pieces[i + 1]
        <4>1. LexFrom(s, f[i] \o piece) = LexFrom(LexFrom(s, f[i]), piece)
          <5> HIDE DEF piece
          <5> QED
            BY <2>5, <3>1, LexConcat DEF piece
        <4> QED
          BY <2>5, <4>1
      <3>3. LexFrom(t, pieces[i + 1]) = Lexing("string", Append(t.text, c), t.tokens)
        BY <2>4, <2>7, <3>1, PairLexes
      <3> QED
        BY <2>1, <2>6, <3>2, <3>3
    <2>8. CASE c # QUOTE
      <3>1. pieces[i + 1] = <<c>> /\ pieces[i + 1] \in Seq(Letters)
        BY <1>1, <1>2, <2>1, <2>8 DEF c
      <3>2. LexFrom(s, f[i + 1]) = LexFrom(t, pieces[i + 1])
        <4> DEFINE piece == pieces[i + 1]
        <4>1. LexFrom(s, f[i] \o piece) = LexFrom(LexFrom(s, f[i]), piece)
          <5> HIDE DEF piece
          <5> QED
            BY <2>5, <3>1, LexConcat DEF piece
        <4> QED
          BY <2>5, <4>1
      <3>3. LexFrom(t, pieces[i + 1]) = Lexing("string", Append(t.text, c), t.tokens)
        BY <2>2, <2>4, <2>8, <3>1, LexOne, LexSteps
      <3> QED
        BY <2>1, <2>6, <3>2, <3>3
    <2> QED
      BY <2>7, <2>8
  <1>7. n \in S
    <2> HIDE DEF S
    <2>1. 0 \in Nat /\ n \in 0..n
      BY <1>1
    <2>2. 0..n \subseteq S
      BY <1>1, <1>5, <1>6, <2>1, SetInduction
    <2> QED
      BY <2>1, <2>2
  <1> QED
    BY <1>2, <1>3, <1>7, PrefixEnds DEF n

\* Text without a quote is rendered as it is.
LEMMA PlainText ==
  ASSUME NEW text \in Seq(Letters), \A i \in DOMAIN text : text[i] # QUOTE
  PROVE  quote_string(text) = text
  <1> DEFINE n == Len(text)
             pieces == [i \in DOMAIN text |-> IF text[i] = QUOTE THEN <<QUOTE, QUOTE>> ELSE <<text[i]>>]
             f == [i \in 0..n |-> SubSeq(text, 1, i)]
  <1>1. n \in Nat /\ DOMAIN text = 1..n /\ \A i \in 1..n : pieces[i] = <<text[i]>>
    OBVIOUS
  <1>2. pieces \in Seq(Seq(Letters)) /\ Len(pieces) = n /\ quote_string(text) = FlattenSeq(pieces)
    BY Quoted
  <1>3. f[0] = <<>> /\ f[n] = text
    BY <1>1, PrefixEnds
  <1>4. \A i \in 1..n : f[i] = f[i - 1] \o pieces[i]
    <2> SUFFICES ASSUME NEW i \in 1..n PROVE f[i] = f[i - 1] \o pieces[i]
      OBVIOUS
    <2>1. i - 1 \in 0..(n - 1) /\ (i - 1) + 1 = i
      BY <1>1
    <2>2. /\ SubSeq(text, 1, i - 1) \in Seq(Letters) /\ text[i] \in Letters
          /\ SubSeq(text, 1, i) = Append(SubSeq(text, 1, i - 1), text[i])
      BY <2>1, PrefixGrows
    <2>3. f[i] = SubSeq(text, 1, i) /\ f[i - 1] = SubSeq(text, 1, i - 1)
      BY <1>1
    <2> QED
      <3> DEFINE prefix == SubSeq(text, 1, i - 1)
      <3>1. Append(prefix, text[i]) = prefix \o <<text[i]>>
        <4>1. prefix \in Seq(Letters) /\ text[i] \in Letters
          BY <2>2
        <4> HIDE DEF prefix
        <4> QED
          BY <4>1, ConcatAppend
      <3>2. f[i] = prefix \o <<text[i]>> /\ f[i - 1] = prefix
        BY <2>2, <2>3, <3>1
      <3> HIDE DEF prefix, f, pieces
      <3> QED
        BY <1>1, <3>2
  <1> HIDE DEF pieces, f
  <1> QED
    BY <1>2, <1>3, <1>4, FlattenIs
-----------------------------------------------------------------------------
(* Literals.                                                              *)

\* A decimal that is rendered has no quote in it.
LEMMA DecimalIsPlain ==
  ASSUME NEW text \in Seq(Letters), is_plain_decimal(text)
  PROVE  \A i \in DOMAIN text : text[i] # QUOTE
  <1> DEFINE signed == text # <<>> /\ text[1] \in {"-", "+"}
             body == IF signed THEN Tail(text) ELSE text
             I == {i \in 1..Len(body) : body[i] = "."}
             dot == IF I # {} THEN (CHOOSE x \in I : \A y \in I : x <= y) ELSE 0
  <1>1. IF dot = 0 THEN AllDigits(body)
        ELSE AllDigits(SubSeq(body, 1, dot - 1)) /\ AllDigits(SubSeq(body, dot + 1, Len(body)))
    BY DEF is_plain_decimal, SelectInSeq, Min
  <1>2. body \in Seq(Letters) /\ Len(body) \in Nat
    <2>1. CASE signed
      BY <2>1
    <2>2. CASE ~signed
      BY <2>2
    <2> QED
      BY <2>1, <2>2
  <1>3. \A i \in DOMAIN text : text[i] = "-" \/ text[i] = "+" \/ \E j \in 1..Len(body) : text[i] = body[j]
    <2>1. CASE signed
      <3> SUFFICES ASSUME NEW i \in DOMAIN text, i # 1 PROVE \E j \in 1..Len(body) : text[i] = body[j]
        BY <2>1
      <3>1. i - 1 \in 1..Len(Tail(text)) /\ Tail(text)[i - 1] = text[i]
        BY <2>1
      <3> QED
        BY <2>1, <3>1
    <2>2. CASE ~signed
      BY <2>2
    <2> QED
      BY <2>1, <2>2
  <1> HIDE DEF body, signed
  <1>4. \A j \in 1..Len(body) : body[j] \in {"0", "7", "."}
    <2>1. CASE I = {}
      <3>1. AllDigits(body)
        BY <1>1, <2>1
      <3> QED
        BY <1>2, <3>1 DEF AllDigits, Digits
    <2>2. CASE I # {}
      <3>1. \E x \in I : \A y \in I : x <= y
        <4>1. I \in SUBSET Nat
          BY <1>2
        <4> HIDE DEF I
        <4>2. PICK x \in I : \A y \in I : ~(y < x)
          BY <2>2, <4>1, LeastElement
        <4> QED
          BY <4>1, <4>2
      <3>2. dot \in I
        <4> HIDE DEF I
        <4> QED
          BY <2>2, <3>1
      <3> HIDE DEF dot
      <3>3. dot \in 1..Len(body) /\ body[dot] = "."
        BY <3>2
      <3>4. AllDigits(SubSeq(body, 1, dot - 1)) /\ AllDigits(SubSeq(body, dot + 1, Len(body)))
        BY <1>1, <1>2, <3>3
      <3> SUFFICES ASSUME NEW j \in 1..Len(body), j # dot PROVE body[j] \in {"0", "7"}
        BY <3>3
      <3> HIDE DEF I
      <3>5. CASE j < dot
        <4>1. j \in DOMAIN SubSeq(body, 1, dot - 1) /\ SubSeq(body, 1, dot - 1)[j] = body[j]
          BY <1>2, <3>3, <3>5
        <4> QED
          BY <3>4, <4>1 DEF AllDigits, Digits
      <3>6. CASE j > dot
        <4>1. /\ j - dot \in DOMAIN SubSeq(body, dot + 1, Len(body))
              /\ SubSeq(body, dot + 1, Len(body))[j - dot] = body[j]
          BY <1>2, <3>3, <3>6
        <4> QED
          BY <3>4, <4>1 DEF AllDigits, Digits
      <3> QED
        BY <1>2, <3>3, <3>5, <3>6
    <2> QED
      BY <2>1, <2>2
  <1> QED
    BY <1>3, <1>4 DEF QUOTE

\* The word before a literal and the text inside it.
LEMMA Renderings ==
  ASSUME NEW v \in ColumnValues, render_literal(v).ok
  PROVE  LET r == render_literal(v)
         IN \/ v.type = "String" /\ r.word = "" /\ r.body = quote_string(v.text)
            \/ v.type = "Json" /\ r.word = "JSON" /\ r.body = quote_string(v.text)
            \/ v.type = "Decimal" /\ r.word = "DECIMAL" /\ r.body = v.text /\ is_plain_decimal(v.text)
            \/ /\ v.type \notin {"String", "Json", "Decimal"}
               /\ \/ r.word \in {"DATE", "TIME", "TIMESTAMP"}
                  \/ r.word = "bare" /\ (r.body = <<"0">> \/ r.body = <<"-", "0">>)
                  \/ r.word \in {"REAL", "DOUBLE", "UUID", "X"} /\ r.body = <<"0">>
  <1> DEFINE r == render_literal(v)
  <1>1. r.ok
    OBVIOUS
  <1>3. CASE v.type = "String"
    <2>1. r = Rendered("", quote_string(v.text))
      BY <1>3 DEF render_literal
    <2> HIDE DEF r
    <2>2. r.word = "" /\ r.body = quote_string(v.text)
      BY <1>1, <2>1 DEF Rendered, Refused
    <2> QED
      BY <1>3, <2>2 DEF r
  <1>4. CASE v.type = "Json"
    <2>1. r = Rendered("JSON", quote_string(v.text))
      BY <1>4 DEF render_literal
    <2> HIDE DEF r
    <2>2. r.word = "JSON" /\ r.body = quote_string(v.text)
      BY <1>1, <2>1 DEF Rendered, Refused
    <2> QED
      BY <1>4, <2>2 DEF r
  <1>5. CASE v.type = "Decimal"
    <2>1. r = IF is_plain_decimal(v.text) THEN Rendered("DECIMAL", v.text) ELSE Refused("HY000")
      BY <1>5 DEF render_literal
    <2> HIDE DEF r
    <2>2. is_plain_decimal(v.text) /\ r.word = "DECIMAL" /\ r.body = v.text
      BY <1>1, <2>1 DEF Rendered, Refused
    <2> QED
      BY <1>5, <2>2 DEF r
  <1>6. CASE v.type \in {"Null", "Bool", "I8", "I16", "I32", "I64"}
    <2>1. r = Rendered("bare", <<"0">>) \/ r = Rendered("bare", <<"-", "0">>)
      BY <1>6 DEF render_literal
    <2> HIDE DEF r
    <2>2. r.word = "bare" /\ (r.body = <<"0">> \/ r.body = <<"-", "0">>)
      BY <1>1, <2>1 DEF Rendered, Refused
    <2> QED
      BY <1>6, <2>2 DEF r
  <1>7. CASE v.type \in {"F32", "F64"}
    <2>1. r \in {Rendered("REAL", <<"0">>), Rendered("DOUBLE", <<"0">>), Refused("HY000")}
      BY <1>7 DEF render_literal
    <2> HIDE DEF r
    <2>2. r.word \in {"REAL", "DOUBLE"} /\ r.body = <<"0">>
      BY <1>1, <2>1 DEF Rendered, Refused
    <2> QED
      BY <1>7, <2>2 DEF r
  <1>8. CASE v.type \in {"Bytes", "Guid"}
    <2>1. r \in {Rendered("UUID", <<"0">>), Rendered("X", <<"0">>)}
      BY <1>8 DEF render_literal
    <2> HIDE DEF r
    <2>2. r.word \in {"UUID", "X"} /\ r.body = <<"0">>
      BY <1>1, <2>1 DEF Rendered, Refused
    <2> QED
      BY <1>8, <2>2 DEF r
  <1>9. CASE v.type = "Date"
    <2>1. r \in {Rendered("DATE", DateText(v)), Refused("22007")}
      BY <1>9 DEF render_literal, invalid_datetime
    <2> HIDE DEF r
    <2>2. r.word = "DATE"
      BY <1>1, <2>1 DEF Rendered, Refused
    <2> QED
      BY <1>9, <2>2 DEF r
  <1>10. CASE v.type = "Time"
    <2>1. r \in {Rendered("TIME", TimeText(v)), Refused("22007")}
      BY <1>10 DEF render_literal, invalid_datetime
    <2> HIDE DEF r
    <2>2. r.word = "TIME"
      BY <1>1, <2>1 DEF Rendered, Refused
    <2> QED
      BY <1>10, <2>2 DEF r
  <1>11. CASE v.type \in {"Timestamp", "TimestampTz"}
    <2>1. r = Refused("22007") \/ \E body : r = Rendered("TIMESTAMP", body)
      BY <1>11 DEF render_literal, invalid_datetime
    <2> HIDE DEF r
    <2>2. r.word = "TIMESTAMP"
      BY <1>1, <2>1 DEF Rendered, Refused
    <2> QED
      BY <1>11, <2>2 DEF r
  <1>12. CASE v.type \in {"Array", "Map", "Row"}
    <2>1. r = Refused("HY000")
      BY <1>12 DEF render_literal
    <2> HIDE DEF r
    <2>2. FALSE
      BY <1>1, <2>1 DEF Rendered, Refused
    <2> QED
      BY <1>12, <2>2 DEF r
  <1>13. v.type \in {"String", "Json", "Decimal", "F32", "F64", "Null", "Bool", "I8", "I16", "I32", "I64", "Bytes",
                     "Guid", "Array", "Map", "Row", "Date", "Time", "Timestamp", "TimestampTz"}
    BY DEF ColumnValues
  <1> QED
    BY <1>3, <1>4, <1>5, <1>6, <1>7, <1>8, <1>9, <1>10, <1>11, <1>12, <1>13

LEMMA LexingIsAState ==
  ASSUME NEW mode \in Modes, NEW text \in Seq(Letters), NEW tokens \in Seq(Tokens)
  PROVE  Lexing(mode, text, tokens) \in LexStates
  BY DEF Lexing, LexStates

LEMMA NoText == <<>> \in Seq(Letters) /\ <<>> \in Seq(Tokens)
  OBVIOUS

\* Between its quotes a rendered text is one string.
LEMMA QuotedLexes ==
  ASSUME NEW text \in Seq(Letters), NEW tokens \in Seq(Tokens)
  PROVE  /\ <<QUOTE>> \o quote_string(text) \o <<QUOTE>> \in Seq(Letters)
         /\ LexFrom(Lexing("sql", <<>>, tokens), <<QUOTE>> \o quote_string(text) \o <<QUOTE>>) =
              Lexing("quote", text, tokens)
  <1> DEFINE q    == <<QUOTE>>
             body == quote_string(text)
             s    == Lexing("sql", <<>>, tokens)
             t    == Lexing("string", <<>>, tokens)
             u    == Lexing("string", text, tokens)
  <1>1. QUOTE \in Letters
    BY DEF Letters
  <1>2. q \in Seq(Letters) /\ body \in Seq(Letters)
    BY <1>1, OneIsASeq, Quoted
  <1>3. s \in LexStates /\ t \in LexStates /\ u \in LexStates
    BY NoText, LexingIsAState, ModesAre
  <1>4. LexFrom(s, q) = t
    <2>1. s.mode = "sql" /\ s.tokens = tokens
      BY LexingFields
    <2> HIDE DEF s
    <2> QED
      BY <1>1, <1>3, <2>1, LexOne, LexSteps
  <1>5. LexFrom(t, body) = u
    <2>1. t.mode = "string" /\ t.tokens = tokens /\ t.text = <<>> /\ <<>> \o text = text
      BY LexingFields
    <2> HIDE DEF t
    <2> QED
      BY <1>3, <2>1, QuotedBody
  <1>6. LexFrom(u, q) = Lexing("quote", text, tokens)
    <2>1. u.mode = "string" /\ u.tokens = tokens /\ u.text = text
      BY LexingFields
    <2> HIDE DEF u
    <2> QED
      BY <1>1, <1>3, <2>1, LexOne, LexSteps
  <1> HIDE DEF q, body, s, t, u
  <1>7. q \o body \in Seq(Letters) /\ q \o body \o q \in Seq(Letters)
    BY <1>2
  <1>8. LexFrom(s, q \o body) = u
    BY <1>2, <1>3, <1>4, <1>5, LexConcat
  <1>9. LexFrom(s, (q \o body) \o q) = LexFrom(u, q)
    BY <1>2, <1>3, <1>7, <1>8, LexConcat
  <1> QED
    BY <1>6, <1>7, <1>9 DEF q, body, s

LEMMA WordLexes ==
  ASSUME NEW word \in Letters, word # QUOTE, word \notin Hiding, NEW text \in Seq(Letters)
  PROVE  /\ <<word, QUOTE>> \o quote_string(text) \o <<QUOTE>> \in Seq(Letters)
         /\ LexFrom(LexStart, <<word, QUOTE>> \o quote_string(text) \o <<QUOTE>>) =
              Lexing("quote", text, <<Word(word)>>)
  <1> DEFINE w == <<word>>
             quoted == <<QUOTE>> \o quote_string(text) \o <<QUOTE>>
             tokens == <<Word(word)>>
             s == Lexing("sql", <<>>, tokens)
  <1>1. w \in Seq(Letters) /\ tokens \in Seq(Tokens)
    BY OneIsASeq, TokensAre
  <1>2. quoted \in Seq(Letters) /\ LexFrom(s, quoted) = Lexing("quote", text, tokens)
    BY <1>1, QuotedLexes
  <1>3. <<word, QUOTE>> \o quote_string(text) \o <<QUOTE>> = w \o quoted
    <2> DEFINE body == quote_string(text)
    <2>1. body \in Seq(Letters) /\ QUOTE \in Letters
      BY Quoted DEF Letters
    <2> HIDE DEF body
    <2> QED
      BY <2>1
  <1>4. LexFrom(LexStart, w) = s
    <2>1. LexStart.mode = "sql" /\ LexStart.text = <<>> /\ Append(LexStart.tokens, Word(word)) = tokens
      BY DEF LexStart
    <2> HIDE DEF tokens
    <2>2. LexFrom(LexStart, w) = LexStep(LexStart, word)
      BY LexStartType, LexOne
    <2>3. Into(word) = "sql"
      BY DEF Into
    <2> QED
      BY <2>1, <2>2, <2>3, LexStartType, LexSteps
  <1> HIDE DEF w, quoted, tokens, s
  <1>5. LexFrom(LexStart, w \o quoted) = LexFrom(s, quoted) /\ w \o quoted \in Seq(Letters)
    BY <1>1, <1>2, <1>4, LexStartType, LexConcat
  <1> QED
    BY <1>2, <1>3, <1>5 DEF tokens

LEMMA EndedIs ==
  ASSUME NEW s \in LexStates
  PROVE  /\ s.mode \in Outside => Ended(s) = s.tokens
         /\ s.mode = "quote" => Ended(s) = Append(s.tokens, Token("string", s.text))
         /\ s.mode = "string" => Ended(s) = Append(s.tokens, Token("open string", s.text))
         /\ Ended(s) \in Seq(Tokens)
  <1>1. /\ s.mode \in Modes /\ s.tokens \in Seq(Tokens)
        /\ Token("string", s.text) \in Tokens /\ Token("open string", s.text) \in Tokens
    BY LexStatesAre, TokensAre
  <1>2. /\ s.mode \in Outside => Ended(s) = s.tokens
        /\ s.mode = "quote" => Ended(s) = Append(s.tokens, Token("string", s.text))
        /\ s.mode = "string" => Ended(s) = Append(s.tokens, Token("open string", s.text))
    BY ModesAre DEF Ended, Outside
  <1>a. \A t \in Seq(Tokens), x \in Tokens : Append(t, x) \in Seq(Tokens)
    OBVIOUS
  <1>3. /\ Append(s.tokens, Token("string", s.text)) \in Seq(Tokens)
        /\ Append(s.tokens, Token("open string", s.text)) \in Seq(Tokens)
    BY <1>1, <1>a
  <1> QED
    BY <1>1, <1>2, <1>3, ModesAre

LEMMA QuoteEnds ==
  ASSUME NEW text \in Seq(Letters), NEW tokens \in Seq(Tokens)
  PROVE  /\ Lexing("quote", text, tokens) \in LexStates
         /\ Lexing("quote", text, tokens).mode = "quote"
         /\ Ended(Lexing("quote", text, tokens)) = Append(tokens, Token("string", text))
         /\ Append(tokens, Token("string", text)) \in Seq(Tokens)
  <1> DEFINE s == Lexing("quote", text, tokens)
  <1>1. s \in LexStates
    BY LexingIsAState, ModesAre
  <1>2. s.mode = "quote" /\ s.text = text /\ s.tokens = tokens
    BY LexingFields
  <1> HIDE DEF s
  <1>3. Ended(s) = Append(tokens, Token("string", text)) /\ Ended(s) \in Seq(Tokens)
    BY <1>1, <1>2, EndedIs
  <1> QED
    BY <1>1, <1>2, <1>3 DEF s

\* The text "0", which stands for any without a quote.
LEMMA ZeroIsPlain == <<"0">> \in Seq(Letters) /\ quote_string(<<"0">>) = <<"0">>
  <1> DEFINE zero == <<"0">>
  <1>1. "0" \in Letters /\ "0" # QUOTE
    BY DEF Letters, QUOTE
  <1>2. zero \in Seq(Letters)
    BY <1>1, OneIsASeq
  <1>3. \A i \in DOMAIN zero : zero[i] # QUOTE
    BY <1>1
  <1> HIDE DEF zero
  <1>4. quote_string(zero) = zero
    BY <1>2, <1>3, PlainText
  <1> QED
    BY <1>2, <1>4 DEF zero

\* The words of the literals and the characters of a number.
LEMMA WordsAre ==
  \A word \in {"0", "-", "JSON", "DECIMAL", "REAL", "DOUBLE", "UUID", "X", "DATE", "TIME", "TIMESTAMP"} :
    word \in Letters /\ word # QUOTE /\ word \notin Hiding
  <1>1. "0" # QUOTE /\ "-" # QUOTE /\ "JSON" # QUOTE /\ "DECIMAL" # QUOTE
    BY Zenon DEF QUOTE
  <1>2. "REAL" # QUOTE /\ "DOUBLE" # QUOTE /\ "UUID" # QUOTE /\ "X" # QUOTE
    BY Zenon DEF QUOTE
  <1>3. "DATE" # QUOTE /\ "TIME" # QUOTE /\ "TIMESTAMP" # QUOTE
    BY Zenon DEF QUOTE
  <1>4. "0" \notin Hiding /\ "-" \notin Hiding /\ "JSON" \notin Hiding /\ "DECIMAL" \notin Hiding
    BY Zenon DEF Hiding
  <1>5. "REAL" \notin Hiding /\ "DOUBLE" \notin Hiding /\ "UUID" \notin Hiding /\ "X" \notin Hiding
    BY Zenon DEF Hiding
  <1>6. "DATE" \notin Hiding /\ "TIME" \notin Hiding /\ "TIMESTAMP" \notin Hiding
    BY Zenon DEF Hiding
  <1>7. /\ "0" \in Letters /\ "-" \in Letters /\ "JSON" \in Letters /\ "DECIMAL" \in Letters
        /\ "REAL" \in Letters /\ "DOUBLE" \in Letters /\ "UUID" \in Letters /\ "X" \in Letters
        /\ "DATE" \in Letters /\ "TIME" \in Letters /\ "TIMESTAMP" \in Letters
    BY DEF Letters
  <1> QED
    BY <1>1, <1>2, <1>3, <1>4, <1>5, <1>6, <1>7

\* A word outside strings is a token of its own.
LEMMA PlainWordLexes ==
  ASSUME NEW s \in LexStates, s.mode = "sql", s.text = <<>>,
         NEW word \in Letters, word # QUOTE, word \notin Hiding
  PROVE  /\ LexFrom(s, <<word>>) \in LexStates
         /\ LexFrom(s, <<word>>).mode = "sql" /\ LexFrom(s, <<word>>).text = <<>>
  <1>1. Into(word) = "sql"
    BY DEF Into
  <1>2. LexFrom(s, <<word>>) = Lexing("sql", <<>>, Append(s.tokens, Word(word)))
    BY <1>1, LexOne, LexSteps
  <1>3. LexFrom(s, <<word>>) \in LexStates
    BY LexOne, LexStepType
  <1> QED
    BY <1>2, <1>3, LexingFields

\* A number is words outside strings.
LEMMA NumberLexes ==
  ASSUME NEW chars, chars = <<"0">> \/ chars = <<"-", "0">>
  PROVE  LET x == LexFrom(LexStart, chars)
         IN chars \in Seq(Letters) /\ x \in LexStates /\ x.mode = "sql" /\ x.text = <<>>
  <1> DEFINE minus == <<"-">>
             zero == <<"0">>
             signed == LexFrom(LexStart, minus)
  <1>1. LexStart \in LexStates /\ LexStart.mode = "sql" /\ LexStart.text = <<>>
    BY LexStartType DEF LexStart
  <1>2. minus \in Seq(Letters) /\ zero \in Seq(Letters)
    BY WordsAre, OneIsASeq
  <1>3. \A s \in LexStates : s.mode = "sql" /\ s.text = <<>> =>
          LexFrom(s, zero) \in LexStates /\ LexFrom(s, zero).mode = "sql" /\ LexFrom(s, zero).text = <<>>
    BY WordsAre, PlainWordLexes
  <1>4. signed \in LexStates /\ signed.mode = "sql" /\ signed.text = <<>>
    BY <1>1, WordsAre, PlainWordLexes
  <1>5. <<"-", "0">> = minus \o zero
    OBVIOUS
  <1> HIDE DEF minus, zero, signed
  <1>6. LexFrom(LexStart, minus \o zero) = LexFrom(signed, zero) /\ minus \o zero \in Seq(Letters)
    BY <1>1, <1>2, LexConcat DEF signed
  <1>7. CASE chars = zero
    BY <1>1, <1>2, <1>3, <1>7
  <1>8. CASE chars = minus \o zero
    BY <1>3, <1>4, <1>6, <1>8
  <1> QED
    BY <1>5, <1>7, <1>8 DEF zero

\* A literal is one piece of text: the lexer is not inside a string after it, and
\* what it has cut is what the bound value means.
LEMMA LiteralLexes ==
  ASSUME NEW v \in ColumnValues, render_literal(v).ok
  PROVE  LET chars == Chars(render_literal(v))
             x     == LexFrom(LexStart, chars)
         IN /\ chars \in Seq(Letters) /\ x \in LexStates
            /\ x.mode = "quote" \/ (x.mode = "sql" /\ x.text = <<>>)
            /\ Ended(x) = Meaning(v) /\ Meaning(v) \in Seq(Tokens)
  <1> DEFINE r == render_literal(v)
             chars == Chars(r)
             x == LexFrom(LexStart, chars)
  <1>1. LexStart = Lexing("sql", <<>>, <<>>) /\ LexStart \in LexStates
    BY LexStartType
  <1>2. CASE v.type = "String"
    <2>1. v.text \in Seq(Letters)
      BY <1>2, TextIsLetters DEF ColumnValues
    <2>2. r.word = "" /\ r.body = quote_string(v.text)
      BY <1>2, Renderings
    <2> HIDE DEF r
    <2>3. chars = <<QUOTE>> \o quote_string(v.text) \o <<QUOTE>>
      BY <2>2 DEF Chars
    <2>4. chars \in Seq(Letters) /\ x = Lexing("quote", v.text, <<>>)
      BY <1>1, <2>1, <2>3, NoText, QuotedLexes
    <2>5. Meaning(v) = <<Token("string", v.text)>>
      BY <1>2 DEF Meaning
    <2>6. <<Token("string", v.text)>> = Append(<<>>, Token("string", v.text))
      OBVIOUS
    <2> HIDE DEF chars, x
    <2>7. /\ chars \in Seq(Letters) /\ x \in LexStates /\ x.mode = "quote"
          /\ Ended(x) = Meaning(v) /\ Meaning(v) \in Seq(Tokens)
      BY <2>1, <2>4, <2>5, <2>6, NoText, QuoteEnds
    <2> QED
      BY <2>7 DEF chars, x, r
  <1>3. CASE v.type \in {"Json", "Decimal"}
    <2> DEFINE word == IF v.type = "Json" THEN "JSON" ELSE "DECIMAL"
    <2>1. v.text \in Seq(Letters)
      BY <1>3, TextIsLetters DEF ColumnValues
    <2>2. r.word = word /\ r.body = quote_string(v.text)
      <3>1. CASE v.type = "Json"
        BY <3>1, Renderings
      <3>2. CASE v.type = "Decimal"
        <4>1. r.word = "DECIMAL" /\ r.body = v.text /\ is_plain_decimal(v.text)
          BY <3>2, Renderings
        <4>2. quote_string(v.text) = v.text
          BY <2>1, <4>1, DecimalIsPlain, PlainText
        <4> QED
          BY <3>2, <4>1, <4>2
      <3> QED
        BY <1>3, <3>1, <3>2
    <2> HIDE DEF r
    <2>3. word \in Letters /\ word # QUOTE /\ word \notin Hiding
      <3>1. /\ "JSON" \in Letters /\ "JSON" # QUOTE /\ "JSON" \notin Hiding
            /\ "DECIMAL" \in Letters /\ "DECIMAL" # QUOTE /\ "DECIMAL" \notin Hiding
        BY WordsAre
      <3> QED
        BY <3>1
    <2>4. chars = <<word, QUOTE>> \o quote_string(v.text) \o <<QUOTE>>
      BY <2>2 DEF Chars
    <2>5. Meaning(v) = <<Word(word), Token("string", v.text)>>
      BY <1>3 DEF Meaning
    <2> HIDE DEF word
    <2>6. chars \in Seq(Letters) /\ x = Lexing("quote", v.text, <<Word(word)>>)
      BY <2>1, <2>3, <2>4, WordLexes
    <2>7. <<Word(word)>> \in Seq(Tokens)
      BY <2>3, TokensAre, OneIsASeq
    <2>8. <<Word(word), Token("string", v.text)>> = Append(<<Word(word)>>, Token("string", v.text))
      OBVIOUS
    <2> HIDE DEF chars, x
    <2>9. /\ chars \in Seq(Letters) /\ x \in LexStates /\ x.mode = "quote"
          /\ Ended(x) = Meaning(v) /\ Meaning(v) \in Seq(Tokens)
      BY <2>1, <2>5, <2>6, <2>7, <2>8, QuoteEnds
    <2> QED
      BY <2>9 DEF chars, x, r
  <1>4. CASE v.type \notin {"String", "Json", "Decimal"}
    <2>1. Meaning(v) = Ended(x)
      BY <1>4 DEF Meaning, Lexed
    <2>2. chars \in Seq(Letters) /\ x \in LexStates /\ (x.mode = "quote" \/ (x.mode = "sql" /\ x.text = <<>>))
      <3>1. CASE r.word = "bare"
        <4>1. chars = r.body /\ (r.body = <<"0">> \/ r.body = <<"-", "0">>)
          BY <1>4, <3>1, Renderings DEF Chars
        <4> HIDE DEF r, chars, x
        <4>2. CASE r.body = <<"0">>
          BY <4>1, <4>2, NumberLexes DEF x
        <4>3. CASE r.body = <<"-", "0">>
          BY <4>1, <4>3, NumberLexes DEF x
        <4> QED
          BY <4>1, <4>2, <4>3
      <3>2. CASE r.word # "bare"
        <4>1. \E word \in {"REAL", "DOUBLE", "UUID", "X", "DATE", "TIME", "TIMESTAMP"} :
                chars = <<word, QUOTE>> \o quote_string(<<"0">>) \o <<QUOTE>>
          <5>1. CASE r.word \in {"DATE", "TIME", "TIMESTAMP"}
            <6>1. chars = <<r.word, QUOTE, "0", QUOTE>>
              BY <5>1 DEF Chars
            <6>2. <<r.word, QUOTE, "0", QUOTE>> = <<r.word, QUOTE>> \o <<"0">> \o <<QUOTE>>
              OBVIOUS
            <6> HIDE DEF chars, r
            <6> QED
              BY <5>1, <6>1, <6>2, ZeroIsPlain
          <5>2. CASE r.word \in {"REAL", "DOUBLE", "UUID", "X"} /\ r.body = <<"0">>
            <6>1. chars = <<r.word, QUOTE>> \o r.body \o <<QUOTE>>
              BY <5>2 DEF Chars
            <6> HIDE DEF chars, r
            <6> QED
              BY <5>2, <6>1, ZeroIsPlain
          <5> QED
            BY <1>4, <3>2, <5>1, <5>2, Renderings
        <4>2. PICK word \in {"REAL", "DOUBLE", "UUID", "X", "DATE", "TIME", "TIMESTAMP"} :
                chars = <<word, QUOTE>> \o quote_string(<<"0">>) \o <<QUOTE>>
          BY <4>1
        <4>3. word \in Letters /\ word # QUOTE /\ word \notin Hiding
          BY WordsAre
        <4>4. chars \in Seq(Letters) /\ x = Lexing("quote", <<"0">>, <<Word(word)>>)
          BY <4>2, <4>3, ZeroIsPlain, WordLexes
        <4>5. <<Word(word)>> \in Seq(Tokens)
          BY <4>3, TokensAre, OneIsASeq
        <4> HIDE DEF x, chars
        <4> QED
          BY <4>4, <4>5, ZeroIsPlain, QuoteEnds
      <3> QED
        BY <3>1, <3>2
    <2> HIDE DEF x, chars
    <2>3. Ended(x) \in Seq(Tokens)
      BY <2>2, EndedIs
    <2>4. /\ chars \in Seq(Letters) /\ x \in LexStates
          /\ x.mode = "quote" \/ (x.mode = "sql" /\ x.text = <<>>)
          /\ Ended(x) = Meaning(v) /\ Meaning(v) \in Seq(Tokens)
      BY <2>1, <2>2, <2>3
    <2> QED
      BY <2>4 DEF chars, x, r
  <1> QED
    BY <1>2, <1>3, <1>4
-----------------------------------------------------------------------------
(* Placeholders.                                                          *)

\* The placeholders are counted token by token.
Counts(marks, tokens) ==
  /\ marks \in [0..Len(tokens) -> Nat] /\ marks[0] = 0
  /\ \A i \in 1..Len(tokens) : marks[i] = (IF tokens[i] = Word(MARK) THEN marks[i - 1] + 1 ELSE marks[i - 1])

LEMMA MarksCount ==
  ASSUME NEW tokens \in Seq(Tokens)
  PROVE  Counts(Marks(tokens), tokens)
  <1> DEFINE n == Len(tokens)
             step == [w \in (1..n) \X Nat |-> IF tokens[w[1]] = Word(MARK) THEN w[2] + 1 ELSE w[2]]
             Equation(g) ==
               g = [i \in 0..n |-> IF i = 0 THEN 0 ELSE IF tokens[i] = Word(MARK) THEN g[i - 1] + 1 ELSE g[i - 1]]
             marks == CHOOSE g : Equation(g)
  <1>1. n \in Nat /\ 0 \in Nat /\ 0 <= n
    OBVIOUS
  <1>2. step \in Steps(0, n, Nat)
    <2> HIDE DEF n
    <2>1. step \in [(1..n) \X Nat -> Nat]
      OBVIOUS
    <2> HIDE DEF step
    <2> QED
      BY <2>1 DEF Steps
  <1>3. PICK f \in [0..n -> Nat] : Follows(f, 0, n, 0, step)
    <2> HIDE DEF step, n
    <2> QED
      BY <1>1, <1>2, Recursion
  <1>4. \A i \in 1..n : f[i] = IF tokens[i] = Word(MARK) THEN f[i - 1] + 1 ELSE f[i - 1]
    <2> TAKE i \in 1..n
    <2>1. f[i - 1] \in Nat /\ i \in (0 + 1)..n
      BY <1>1
    <2>2. step[<<i, f[i - 1]>>] = IF tokens[i] = Word(MARK) THEN f[i - 1] + 1 ELSE f[i - 1]
      BY <2>1
    <2> HIDE DEF step
    <2> QED
      BY <1>3, <2>1, <2>2 DEF Follows
  <1>5. Equation(f)
    <2>1. f[0] = 0
      BY <1>3 DEF Follows
    <2> HIDE DEF n, step
    <2> QED
      BY <1>1, <1>4, <2>1
  <1>6. Equation(marks)
    <2> HIDE DEF Equation
    <2> QED
      BY <1>5
  <1>7. Marks(tokens) = marks
    BY DEF Marks
  <1> HIDE DEF marks, n, step
  <1>8. marks[0] = 0 /\ \A i \in 1..n : marks[i] = IF tokens[i] = Word(MARK) THEN marks[i - 1] + 1 ELSE marks[i - 1]
    BY <1>1, <1>6
  <1> DEFINE S == {i \in 0..n : marks[i] \in Nat}
  <1>9. 0..n \subseteq S
    <2>1. 0 \in S
      BY <1>1, <1>8
    <2>2. ASSUME NEW i \in 0..(n - 1), i \in S PROVE i + 1 \in S
      <3>1. i + 1 \in 1..n /\ (i + 1) - 1 = i /\ i + 1 \in 0..n
        BY <1>1
      <3>2. marks[i + 1] \in {marks[i], marks[i] + 1}
        BY <1>8, <3>1
      <3> QED
        BY <2>2, <3>1, <3>2
    <2> HIDE DEF S
    <2> QED
      BY <1>1, <2>1, <2>2, SetInduction
  <1>10. marks \in [0..n -> Nat]
    <2>1. marks = [i \in 0..n |->
                     IF i = 0 THEN 0 ELSE IF tokens[i] = Word(MARK) THEN marks[i - 1] + 1 ELSE marks[i - 1]]
      BY <1>6
    <2>2. marks = [i \in 0..n |-> marks[i]]
      BY <2>1
    <2> QED
      BY <1>9, <2>2
  <1>11. \A i \in 1..n : marks[i] = (IF tokens[i] = Word(MARK) THEN marks[i - 1] + 1 ELSE marks[i - 1])
    <2> SUFFICES ASSUME NEW i \in 1..n
                 PROVE  marks[i] = (IF tokens[i] = Word(MARK) THEN marks[i - 1] + 1 ELSE marks[i - 1])
      OBVIOUS
    <2>1. i - 1 \in 0..n
      BY <1>1
    <2>2. marks[i - 1] \in Nat
      BY <1>10, <2>1
    <2> QED
      BY <1>8, <2>2
  <1> QED
    BY <1>7, <1>8, <1>10, <1>11 DEF Counts, n

LEMMA MarksAppend ==
  ASSUME NEW tokens \in Seq(Tokens), NEW x \in Tokens
  PROVE  LET n == Len(tokens)
             longer == Append(tokens, x)
         IN /\ Marks(tokens)[n] \in Nat /\ Len(longer) = n + 1
            /\ \A i \in 0..n : Marks(longer)[i] = Marks(tokens)[i]
            /\ Marks(longer)[n + 1] = (IF x = Word(MARK) THEN Marks(tokens)[n] + 1 ELSE Marks(tokens)[n])
  <1> DEFINE n == Len(tokens)
             longer == Append(tokens, x)
             f == Marks(tokens)
             g == Marks(longer)
  <1>1. /\ n \in Nat /\ longer \in Seq(Tokens) /\ Len(longer) = n + 1
        /\ longer[n + 1] = x /\ \A i \in 1..n : longer[i] = tokens[i]
    OBVIOUS
  <1>2. Counts(f, tokens)
    BY MarksCount
  <1> HIDE DEF longer, f
  <1>3. Counts(g, longer)
    BY <1>1, MarksCount
  <1> HIDE DEF g
  <1> DEFINE S == {i \in 0..n : g[i] = f[i]}
  <1>4. 0..n \subseteq S
    <2>1. 0 \in S
      BY <1>1, <1>2, <1>3 DEF Counts
    <2>2. ASSUME NEW i \in 0..(n - 1), i \in S PROVE i + 1 \in S
      <3>1. i + 1 \in 1..n /\ (i + 1) - 1 = i /\ i + 1 \in 0..n /\ i + 1 \in 1..(n + 1)
        BY <1>1
      <3>2. /\ f[i + 1] = (IF tokens[i + 1] = Word(MARK) THEN f[i] + 1 ELSE f[i])
            /\ g[i + 1] = (IF longer[i + 1] = Word(MARK) THEN g[i] + 1 ELSE g[i])
            /\ longer[i + 1] = tokens[i + 1] /\ g[i] = f[i]
        BY <1>1, <1>2, <1>3, <2>2, <3>1 DEF Counts
      <3> QED
        BY <3>1, <3>2
    <2> HIDE DEF S, n
    <2> QED
      BY <1>1, <2>1, <2>2, SetInduction
  <1>5. n \in 0..n /\ n + 1 \in 1..(n + 1) /\ (n + 1) - 1 = n
    BY <1>1
  <1>6. g[n + 1] = (IF longer[n + 1] = Word(MARK) THEN g[n] + 1 ELSE g[n])
    BY <1>1, <1>3, <1>5 DEF Counts
  <1>7. f[n] \in Nat
    BY <1>2, <1>5 DEF Counts
  <1>8. /\ f[n] \in Nat /\ Len(longer) = n + 1 /\ \A i \in 0..n : g[i] = f[i]
        /\ g[n + 1] = (IF x = Word(MARK) THEN f[n] + 1 ELSE f[n])
    BY <1>1, <1>4, <1>5, <1>6, <1>7
  <1> QED
    BY <1>8 DEF f, g, longer, n

\* The number of placeholders among the tokens.
Count(tokens) == Marks(tokens)[Len(tokens)]

LEMMA CountAppend ==
  ASSUME NEW tokens \in Seq(Tokens)
  PROVE  /\ Count(tokens) \in Nat /\ Count(<<>>) = 0
         /\ \A c \in Letters : Count(Append(tokens, Word(c))) = (IF c = MARK THEN Count(tokens) + 1 ELSE Count(tokens))
         /\ \A kind \in {"string", "open string"}, text \in Seq(Letters) :
              Count(Append(tokens, Token(kind, text))) = Count(tokens)
         /\ \A x \in Tokens : x # Word(MARK) => Count(Append(tokens, x)) = Count(tokens)
  <1>1. Count(tokens) \in Nat
    BY MarksCount DEF Counts, Count
  <1>2. Count(<<>>) = 0
    <2> DEFINE none == <<>>
    <2>1. none \in Seq(Tokens) /\ Len(none) = 0
      OBVIOUS
    <2> HIDE DEF none
    <2>2. Count(none) = 0
      BY <2>1, MarksCount DEF Counts, Count
    <2> QED
      BY <2>2 DEF none
  <1>3. \A x \in Tokens : Count(Append(tokens, x)) = (IF x = Word(MARK) THEN Count(tokens) + 1 ELSE Count(tokens))
    <2> SUFFICES ASSUME NEW x \in Tokens
                 PROVE  Count(Append(tokens, x)) = (IF x = Word(MARK) THEN Count(tokens) + 1 ELSE Count(tokens))
      OBVIOUS
    <2> QED
      BY MarksAppend DEF Count
  <1>4. \A c : Word(c) = Word(MARK) <=> c = MARK
    <2> SUFFICES ASSUME NEW c, Word(c) = Word(MARK) PROVE c = MARK
      OBVIOUS
    <2>1. Word(c).text[1] = c /\ Word(MARK).text[1] = MARK
      BY DEF Word, Token
    <2> QED
      BY <2>1
  <1>5. \A kind \in {"string", "open string"} : \A text : Token(kind, text) # Word(MARK)
    BY DEF Word, Token
  <1>6. \A kind \in {"string", "open string"}, text \in Seq(Letters) : Token(kind, text) \in Tokens
    BY TokensAre
  <1>7. ASSUME NEW c \in Letters
        PROVE  Count(Append(tokens, Word(c))) = (IF c = MARK THEN Count(tokens) + 1 ELSE Count(tokens))
    <2>1. Word(c) \in Tokens
      BY TokensAre
    <2> QED
      BY <1>3, <1>4, <2>1
  <1>8. ASSUME NEW kind \in {"string", "open string"}, NEW text \in Seq(Letters)
        PROVE  Count(Append(tokens, Token(kind, text))) = Count(tokens)
    <2> DEFINE x == Token(kind, text)
    <2>1. x \in Tokens /\ x # Word(MARK)
      BY <1>5, <1>6
    <2> HIDE DEF x
    <2>2. Count(Append(tokens, x)) = Count(tokens)
      BY <1>3, <2>1
    <2> QED
      BY <2>2 DEF x
  <1> QED
    BY <1>1, <1>2, <1>3, <1>7, <1>8

\* What the statement's tokens are read as, one after the other.
Pieces(tokens, params) ==
  [i \in 1..Len(tokens) |->
     IF tokens[i] = Word(MARK) THEN Meaning(params[Marks(tokens)[i]]) ELSE <<tokens[i]>>]

LEMMA SubstitutedNothing ==
  ASSUME NEW params
  PROVE  Pieces(<<>>, params) \in Seq(Seq(Tokens)) /\ Substituted(<<>>, params) = <<>>
  <1> DEFINE none == <<>>
             pieces == Pieces(none, params)
  <1>1. Len(none) = 0 /\ none \in Seq(Seq(Tokens))
    OBVIOUS
  <1> HIDE DEF none
  <1>2. pieces \in [1..0 -> Seq(Tokens)]
    BY <1>1 DEF Pieces
  <1>3. Substituted(none, params) = FlattenSeq(pieces)
    BY DEF Substituted, Pieces
  <1> HIDE DEF pieces
  <1>4. pieces \in Seq(Seq(Tokens)) /\ Len(pieces) = 0
    BY <1>2, FunctionIsASeq
  <1>5. pieces = <<>>
    BY <1>4
  <1>6. FlattenSeq(pieces) = <<>>
    BY <1>5, FlattenNothing
  <1> QED
    BY <1>3, <1>4, <1>6 DEF none, pieces

\* What the next token is read as.
IsLast(tokens, params, x, last) ==
  last = IF x = Word(MARK) THEN Meaning(params[Count(tokens) + 1]) ELSE <<x>>

LEMMA SubstitutedAppend ==
  ASSUME NEW params, NEW tokens \in Seq(Tokens), Pieces(tokens, params) \in Seq(Seq(Tokens)), NEW x \in Tokens,
         NEW last \in Seq(Tokens), IsLast(tokens, params, x, last)
  PROVE  /\ Pieces(Append(tokens, x), params) \in Seq(Seq(Tokens))
         /\ Substituted(tokens, params) \in Seq(Tokens)
         /\ Substituted(Append(tokens, x), params) = Substituted(tokens, params) \o last
  <1> DEFINE n == Len(tokens)
             longer == Append(tokens, x)
             before == Pieces(tokens, params)
             after == Pieces(longer, params)
  <1>1. /\ n \in Nat /\ longer \in Seq(Tokens) /\ Len(longer) = n + 1
        /\ longer[n + 1] = x /\ \A i \in 1..n : longer[i] = tokens[i]
    OBVIOUS
  <1>2. /\ \A i \in 0..n : Marks(longer)[i] = Marks(tokens)[i]
        /\ Marks(longer)[n + 1] = (IF x = Word(MARK) THEN Marks(tokens)[n] + 1 ELSE Marks(tokens)[n])
    BY MarksAppend
  <1>3. before \in Seq(Seq(Tokens)) /\ Len(before) = n
    <2>1. DOMAIN before = 1..n
      BY DEF Pieces
    <2> HIDE DEF before
    <2>2. before \in Seq(Seq(Tokens))
      BY DEF before
    <2> QED
      BY <1>1, <2>1, <2>2
  <1>4. Substituted(tokens, params) = FlattenSeq(before) /\ Substituted(longer, params) = FlattenSeq(after)
    BY DEF Substituted, Pieces
  <1>5. \A i \in 1..n : before[i] = IF tokens[i] = Word(MARK) THEN Meaning(params[Marks(tokens)[i]]) ELSE <<tokens[i]>>
    BY DEF Pieces
  <1> HIDE DEF longer
  <1>6. /\ after = [i \in 1..(n + 1) |-> after[i]]
        /\ \A i \in 1..(n + 1) :
             after[i] = IF longer[i] = Word(MARK) THEN Meaning(params[Marks(longer)[i]]) ELSE <<longer[i]>>
    BY <1>1 DEF Pieces
  <1> HIDE DEF before, after
  <1>7. \A i \in 1..n : after[i] = before[i]
    <2> SUFFICES ASSUME NEW i \in 1..n PROVE after[i] = before[i]
      OBVIOUS
    <2>1. i \in 1..(n + 1) /\ i \in 0..n
      BY <1>1
    <2>2. longer[i] = tokens[i] /\ Marks(longer)[i] = Marks(tokens)[i]
      BY <1>1, <1>2, <2>1
    <2> QED
      BY <1>5, <1>6, <2>1, <2>2
  <1>8. after[n + 1] = last
    <2>1. n + 1 \in 1..(n + 1)
      BY <1>1
    <2>2. x = Word(MARK) => Marks(longer)[n + 1] = Count(tokens) + 1
      BY <1>2 DEF Count
    <2> QED
      BY <1>1, <1>6, <2>1, <2>2 DEF IsLast
  <1>9. after = Append(before, last)
    <2> DEFINE T == Seq(Tokens)
    <2>1. before \in Seq(T) /\ last \in T /\ Grown(after, before, last)
      BY <1>3, <1>6, <1>7, <1>8 DEF Grown
    <2> HIDE DEF T
    <2> QED
      BY <2>1, GrownIsAppended
  <1>10. after \in Seq(Seq(Tokens))
    BY <1>3, <1>9
  <1>11. FlattenSeq(after) = FlattenSeq(before) \o last
    BY <1>3, <1>9, FlattenAppend
  <1>12. FlattenSeq(before) \in Seq(Tokens)
    <2>1. PICK f : FlattenFollows(f, Tokens, before) /\ FlattenSeq(before) = f[n]
      BY <1>3, FlattenUnfolds
    <2>2. n \in 0..Len(before)
      BY <1>1, <1>3
    <2> QED
      BY <2>1, <2>2 DEF FlattenFollows
  <1> QED
    BY <1>4, <1>10, <1>11, <1>12 DEF longer, after

\* Read as the parameters say, the tokens give these.
Reads(tokens, params, read) ==
  /\ Pieces(tokens, params) \in Seq(Seq(Tokens))
  /\ read \in Seq(Tokens) /\ Substituted(tokens, params) = read

LEMMA ReadsOther ==
  ASSUME NEW params, NEW tokens \in Seq(Tokens), NEW read, Reads(tokens, params, read),
         NEW x \in Tokens, x # Word(MARK)
  PROVE  Reads(Append(tokens, x), params, Append(read, x))
  <1> DEFINE last == <<x>>
             longer == Append(tokens, x)
  <1>1. last \in Seq(Tokens)
    BY OneIsASeq
  <1>2. read \in Seq(Tokens) /\ Pieces(tokens, params) \in Seq(Seq(Tokens)) /\ Substituted(tokens, params) = read
    BY DEF Reads
  <1>3. Append(read, x) = read \o last /\ Append(read, x) \in Seq(Tokens)
    BY <1>2
  <1>4. IsLast(tokens, params, x, last)
    BY DEF IsLast
  <1> HIDE DEF last
  <1>5. /\ Pieces(longer, params) \in Seq(Seq(Tokens))
        /\ Substituted(longer, params) = Substituted(tokens, params) \o last
    BY <1>1, <1>2, <1>4, SubstitutedAppend
  <1> HIDE DEF longer
  <1>6. Reads(longer, params, Append(read, x))
    BY <1>2, <1>3, <1>5 DEF Reads
  <1> QED
    BY <1>6 DEF longer

LEMMA ReadsMark ==
  ASSUME NEW params, NEW tokens \in Seq(Tokens), NEW read, Reads(tokens, params, read),
         Meaning(params[Count(tokens) + 1]) \in Seq(Tokens)
  PROVE  Reads(Append(tokens, Word(MARK)), params, read \o Meaning(params[Count(tokens) + 1]))
  <1> DEFINE last == Meaning(params[Count(tokens) + 1])
             x == Word(MARK)
             longer == Append(tokens, x)
  <1>1. last \in Seq(Tokens) /\ x \in Tokens
    <2>1. MARK \in Letters
      BY DEF Letters
    <2>2. x \in Tokens
      BY <2>1, TokensAre
    <2> HIDE DEF x
    <2> QED
      BY <2>2
  <1>2. read \in Seq(Tokens) /\ Pieces(tokens, params) \in Seq(Seq(Tokens)) /\ Substituted(tokens, params) = read
    BY DEF Reads
  <1>3. read \o last \in Seq(Tokens)
    <2> HIDE DEF last
    <2> QED
      BY <1>1, <1>2
  <1>4. IsLast(tokens, params, x, last)
    BY DEF IsLast
  <1> HIDE DEF last
  <1>5. /\ Pieces(longer, params) \in Seq(Seq(Tokens))
        /\ Substituted(longer, params) = Substituted(tokens, params) \o last
    <2> HIDE DEF x
    <2> QED
      BY <1>1, <1>2, <1>4, SubstitutedAppend
  <1> HIDE DEF longer
  <1>6. Reads(longer, params, read \o last)
    BY <1>2, <1>3, <1>5 DEF Reads
  <1> QED
    BY <1>6 DEF longer, last
-----------------------------------------------------------------------------
(* interpolate_params.                                                    *)

\* What interpolate_params knows before a character.
Scanning(string, pair, next) == [string |-> string, pair |-> pair, next |-> next]
ScanStates == [string : BOOLEAN, pair : BOOLEAN, next : Nat]
ScanStep(s, c, doubled) ==
  CASE s.pair -> [s EXCEPT !.pair = FALSE]
    [] ~s.pair /\ c = QUOTE /\ ~s.string -> [s EXCEPT !.string = TRUE]
    [] ~s.pair /\ c = QUOTE /\ s.string /\ doubled -> [s EXCEPT !.pair = TRUE]
    [] ~s.pair /\ c = QUOTE /\ s.string /\ ~doubled -> [s EXCEPT !.string = FALSE]
    [] ~s.pair /\ c = MARK /\ ~s.string -> [s EXCEPT !.next = @ + 1]
    [] OTHER -> s
Doubled(sql, i) == i < Len(sql) /\ sql[i + 1] = QUOTE

LEMMA ScanSteps ==
  ASSUME NEW s \in ScanStates, NEW c, NEW doubled \in BOOLEAN
  PROVE  /\ s.pair => ScanStep(s, c, doubled) = Scanning(s.string, FALSE, s.next)
         /\ ~s.pair /\ c = QUOTE /\ ~s.string => ScanStep(s, c, doubled) = Scanning(TRUE, FALSE, s.next)
         /\ ~s.pair /\ c = QUOTE /\ s.string => ScanStep(s, c, doubled) = Scanning(doubled, doubled, s.next)
         /\ ~s.pair /\ c = MARK /\ ~s.string => ScanStep(s, c, doubled) = Scanning(FALSE, FALSE, s.next + 1)
         /\ ~s.pair /\ c # QUOTE /\ (c # MARK \/ s.string) => ScanStep(s, c, doubled) = s
         /\ ScanStep(s, c, doubled) \in ScanStates
         /\ ScanStep(s, c, doubled).next \in {s.next, s.next + 1}
  <1>1. s.string \in BOOLEAN /\ s.pair \in BOOLEAN /\ s.next \in Nat
    BY DEF ScanStates
  <1>2. PICK a \in BOOLEAN, b \in BOOLEAN, n \in Nat : s.string = a /\ s.pair = b /\ s.next = n
    BY <1>1
  <1>3. s = Scanning(a, b, n)
    BY <1>2 DEF ScanStates, Scanning
  <1>4. MARK # QUOTE
    BY DEF MARK, QUOTE
  <1>5. \A x \in BOOLEAN, y \in BOOLEAN, m \in Nat : Scanning(x, y, m) \in ScanStates
    BY DEF ScanStates, Scanning
  <1>6. \A x : /\ [s EXCEPT !.string = x] = Scanning(x, b, n)
               /\ [s EXCEPT !.pair = x] = Scanning(a, x, n)
               /\ [s EXCEPT !.next = x] = Scanning(a, b, x)
    BY <1>3 DEF Scanning
  <1> DEFINE t == ScanStep(s, c, doubled)
  <1>7. /\ b => t = Scanning(a, FALSE, n)
        /\ ~b /\ c = QUOTE /\ ~a => t = Scanning(TRUE, b, n)
        /\ ~b /\ c = QUOTE /\ a /\ doubled => t = Scanning(a, TRUE, n)
        /\ ~b /\ c = QUOTE /\ a /\ ~doubled => t = Scanning(FALSE, b, n)
        /\ ~b /\ c = MARK /\ ~a => t = Scanning(a, b, n + 1)
        /\ ~b /\ c # QUOTE /\ (c # MARK \/ a) => t = s
    <2>1. CASE b
      <3>1. t = [s EXCEPT !.pair = FALSE]
        BY <1>2, <2>1 DEF ScanStep
      <3> HIDE DEF t
      <3> QED
        BY <1>6, <2>1, <3>1
    <2>2. CASE ~b /\ c = QUOTE /\ ~a
      <3>0. ~s.pair /\ c = QUOTE /\ ~s.string
        BY <1>2, <2>2
      <3>1. t = [s EXCEPT !.string = TRUE]
        BY <1>4, <3>0 DEF ScanStep
      <3> HIDE DEF t
      <3> QED
        BY <1>4, <1>6, <2>2, <3>1
    <2>3. CASE ~b /\ c = QUOTE /\ a /\ doubled
      <3>1. t = [s EXCEPT !.pair = TRUE]
        BY <1>2, <2>3 DEF ScanStep
      <3> HIDE DEF t
      <3> QED
        BY <1>4, <1>6, <2>3, <3>1
    <2>4. CASE ~b /\ c = QUOTE /\ a /\ ~doubled
      <3>1. t = [s EXCEPT !.string = FALSE]
        BY <1>2, <2>4 DEF ScanStep
      <3> HIDE DEF t
      <3> QED
        BY <1>4, <1>6, <2>4, <3>1
    <2>5. CASE ~b /\ c = MARK /\ ~a
      <3>1. t = [s EXCEPT !.next = s.next + 1]
        BY <1>2, <1>4, <2>5 DEF ScanStep
      <3> HIDE DEF t
      <3> QED
        BY <1>2, <1>4, <1>6, <2>5, <3>1
    <2>6. CASE ~b /\ c # QUOTE /\ (c # MARK \/ a)
      <3>1. t = s
        BY <1>2, <2>6 DEF ScanStep
      <3> HIDE DEF t
      <3> QED
        BY <2>6, <3>1
    <2> QED
      BY <2>1, <2>2, <2>3, <2>4, <2>5, <2>6
  <1> HIDE DEF t
  <1>8. n + 1 \in Nat
    OBVIOUS
  <1>9. t \in ScanStates
    BY <1>5, <1>7, <1>8
  <1>10. /\ b => t = Scanning(a, FALSE, n)
         /\ ~b /\ c = QUOTE /\ ~a => t = Scanning(TRUE, FALSE, n)
         /\ ~b /\ c = QUOTE /\ a => t = Scanning(doubled, doubled, n)
         /\ ~b /\ c = MARK /\ ~a => t = Scanning(FALSE, FALSE, n + 1)
         /\ ~b /\ c # QUOTE /\ (c # MARK \/ a) => t = s
    BY <1>7
  <1>11. t.next \in {n, n + 1}
    <2> DEFINE G == {q \in ScanStates : q.next = n \/ q.next = n + 1}
    <2>1. \A x, y, m : Scanning(x, y, m).next = m
      BY DEF Scanning
    <2>2. \A x \in BOOLEAN, y \in BOOLEAN : Scanning(x, y, n) \in G /\ Scanning(x, y, n + 1) \in G
      BY <1>5, <1>8, <2>1
    <2>3. s \in G
      BY <1>2
    <2> HIDE DEF G
    <2>4. t \in G
      BY <1>7, <2>2, <2>3
    <2> QED
      BY <2>4 DEF G
  <1> QED
    BY <1>2, <1>9, <1>10, <1>11 DEF t

\* The scan, and the numbers of the placeholders.
Scans(scan, sql) ==
  /\ scan \in [1..(Len(sql) + 1) -> ScanStates] /\ scan[1] = Scanning(FALSE, FALSE, 0)
  /\ \A i \in 1..Len(sql) : scan[i + 1] = ScanStep(scan[i], sql[i], Doubled(sql, i))

LEMMA ScanUnfolds ==
  ASSUME NEW sql \in Seq(Letters)
  PROVE  Scans(Scan(sql), sql)
  <1> DEFINE n == Len(sql)
             m == n + 1
             start == Scanning(FALSE, FALSE, 0)
             Before(i, s) == ScanStep(s, sql[i - 1], i <= Len(sql) /\ sql[i] = QUOTE)
             step == [w \in (2..m) \X ScanStates |-> Before(w[1], w[2])]
             Equation(g) == g = [i \in 1..m |-> IF i = 1 THEN start ELSE Before(i, g[i - 1])]
             scan == CHOOSE g : Equation(g)
  <1>1. n \in Nat /\ m \in Nat /\ 1 \in Nat /\ 1 <= m /\ start \in ScanStates
    BY DEF Scanning, ScanStates
  <1>2. \A i \in 2..m, s \in ScanStates : Before(i, s) \in ScanStates
    BY ScanSteps
  <1>3. Scan(sql) = scan
    BY DEF Scan, ScanStep, Scanning
  <1>4. \A i \in 2..m : \A s : Before(i, s) = ScanStep(s, sql[i - 1], Doubled(sql, i - 1))
    <2> SUFFICES ASSUME NEW i \in 2..m, NEW s
                 PROVE  Before(i, s) = ScanStep(s, sql[i - 1], Doubled(sql, i - 1))
      OBVIOUS
    <2>1. (i - 1) + 1 = i /\ (i - 1 < Len(sql) <=> i <= Len(sql))
      BY <1>1
    <2>2. (i <= Len(sql) /\ sql[i] = QUOTE) = Doubled(sql, i - 1)
      BY <2>1 DEF Doubled
    <2> QED
      BY <2>2
  <1> HIDE DEF Before, start, m
  <1>5. step \in Steps(1, m, ScanStates)
    <2>1. step \in [(2..m) \X ScanStates -> ScanStates]
      BY <1>2
    <2> HIDE DEF step
    <2> QED
      BY <2>1 DEF Steps
  <1>6. PICK f \in [1..m -> ScanStates] : Follows(f, 1, m, start, step)
    <2> HIDE DEF step
    <2> QED
      BY <1>1, <1>5, Recursion
  <1>7. \A i \in 2..m : f[i] = Before(i, f[i - 1])
    <2> TAKE i \in 2..m
    <2>1. f[i - 1] \in ScanStates /\ i \in (1 + 1)..m
      BY <1>1
    <2>2. step[<<i, f[i - 1]>>] = Before(i, f[i - 1])
      BY <2>1
    <2> HIDE DEF step
    <2> QED
      BY <1>6, <2>1, <2>2 DEF Follows
  <1>8. Equation(f)
    <2>1. f[1] = start
      BY <1>6 DEF Follows
    <2> HIDE DEF step
    <2>2. \A i \in 1..m : f[i] = IF i = 1 THEN start ELSE Before(i, f[i - 1])
      <3> TAKE i \in 1..m
      <3>1. i = 1 \/ i \in 2..m
        BY <1>1
      <3>2. CASE i = 1
        BY <2>1, <3>2
      <3>3. CASE i # 1
        BY <1>7, <3>1, <3>3
      <3> QED
        BY <3>2, <3>3
    <2> QED
      BY <2>2
  <1>9. Equation(scan)
    <2> HIDE DEF Equation
    <2> QED
      BY <1>8
  <1> HIDE DEF scan, step
  <1>10. scan[1] = start /\ \A i \in 2..m : scan[i] = Before(i, scan[i - 1])
    <2>1. scan = [i \in 1..m |-> IF i = 1 THEN start ELSE Before(i, scan[i - 1])]
      BY <1>9
    <2> HIDE DEF Equation
    <2>2. 1 \in 1..m
      BY <1>1
    <2>3. \A i \in 2..m : i \in 1..m /\ i # 1
      BY <1>1
    <2> QED
      BY <2>1, <2>2, <2>3
  <1> DEFINE S == {i \in 1..m : scan[i] \in ScanStates}
  <1>11. 1..m \subseteq S
    <2>1. 1 \in S
      BY <1>1, <1>10
    <2>2. ASSUME NEW i \in 1..(m - 1), i \in S PROVE i + 1 \in S
      <3>1. i + 1 \in 2..m /\ (i + 1) - 1 = i /\ i + 1 \in 1..m
        BY <1>1
      <3>2. scan[i] \in ScanStates /\ scan[i + 1] = Before(i + 1, scan[i])
        BY <1>10, <2>2, <3>1
      <3> QED
        BY <1>2, <3>1, <3>2
    <2> HIDE DEF S
    <2> QED
      BY <1>1, <2>1, <2>2, SetInduction
  <1>12. scan \in [1..m -> ScanStates]
    <2>1. scan = [i \in 1..m |-> IF i = 1 THEN start ELSE Before(i, scan[i - 1])]
      BY <1>9
    <2>2. scan = [i \in 1..m |-> scan[i]]
      BY <2>1
    <2> HIDE DEF Equation
    <2> QED
      BY <1>11, <2>2
  <1>13. \A i \in 1..n : scan[i + 1] = ScanStep(scan[i], sql[i], Doubled(sql, i))
    <2> SUFFICES ASSUME NEW i \in 1..n PROVE scan[i + 1] = ScanStep(scan[i], sql[i], Doubled(sql, i))
      OBVIOUS
    <2>1. i + 1 \in 2..m /\ (i + 1) - 1 = i
      BY <1>1 DEF m
    <2> QED
      BY <1>4, <1>10, <2>1
  <1> QED
    BY <1>3, <1>10, <1>12, <1>13 DEF Scans, m, n, start

\* The numbers only grow.
LEMMA NumbersGrow ==
  ASSUME NEW sql \in Seq(Letters), NEW scan, Scans(scan, sql), NEW i \in 1..(Len(sql) + 1)
  PROVE  scan[i].next <= scan[Len(sql) + 1].next
  <1> DEFINE n == Len(sql)
             S == {j \in i..(n + 1) : scan[i].next <= scan[j].next}
  <1>1. n \in Nat /\ i \in Nat /\ n + 1 \in i..(n + 1) /\ n + 1 \in Nat
    OBVIOUS
  <1>2. \A j \in 1..(n + 1) : scan[j] \in ScanStates /\ scan[j].next \in Nat
    BY DEF Scans, ScanStates
  <1>3. i \in S
    BY <1>1, <1>2
  <1>4. ASSUME NEW j \in i..((n + 1) - 1), j \in S PROVE j + 1 \in S
    <2>1. j \in 1..n /\ j + 1 \in i..(n + 1) /\ j \in 1..(n + 1) /\ j + 1 \in 1..(n + 1)
      BY <1>1
    <2> DEFINE s == scan[j]
               t == scan[j + 1]
    <2>2. t = ScanStep(s, sql[j], Doubled(sql, j)) /\ s \in ScanStates /\ Doubled(sql, j) \in BOOLEAN
      BY <1>2, <2>1 DEF Scans, Doubled
    <2>3. t.next \in {s.next, s.next + 1}
      <3> DEFINE c == sql[j]
                 d == Doubled(sql, j)
      <3>1. t = ScanStep(s, c, d) /\ d \in BOOLEAN
        BY <2>2
      <3> HIDE DEF s, t, c, d
      <3> QED
        BY <2>2, <3>1, ScanSteps
    <2>4. s.next \in Nat /\ t.next \in Nat /\ scan[i].next \in Nat /\ scan[i].next <= s.next
      BY <1>2, <1>4, <2>1
    <2>5. scan[i].next <= t.next
      <3> HIDE DEF s, t
      <3> QED
        BY <2>3, <2>4
    <2> QED
      BY <2>1, <2>5
  <1>5. n + 1 \in S
    <2> HIDE DEF S, n
    <2>1. i..(n + 1) \subseteq S
      BY <1>1, <1>3, <1>4, SetInduction
    <2> QED
      BY <1>1, <2>1
  <1> QED
    BY <1>5

\* interpolate_params' own lexer, at character i, against the coordinator's.
Agree(m, s, sql, i) ==
  /\ m.mode \in Outside => ~s.string /\ ~s.pair /\ m.text = <<>>
  /\ m.mode = "string" => s.string /\ ~s.pair
  /\ m.mode = "quote" => i # 0 /\ sql[i] = QUOTE /\ (s.string <=> Doubled(sql, i)) /\ (s.pair <=> Doubled(sql, i))
  /\ s.next = Count(m.tokens)

LEMMA AgreeStep ==
  ASSUME NEW sql \in Seq(Letters), NEW i \in 0..(Len(sql) - 1), NEW m \in LexStates, NEW s \in ScanStates,
         Agree(m, s, sql, i), m.mode \in Hiding => sql[i + 1] \notin {QUOTE, MARK}
  PROVE  Agree(LexStep(m, sql[i + 1]), ScanStep(s, sql[i + 1], Doubled(sql, i + 1)), sql, i + 1)
  <1> DEFINE c == sql[i + 1]
             d == Doubled(sql, i + 1)
             m1 == LexStep(m, c)
             s1 == ScanStep(s, c, d)
  <1>1. c \in Letters /\ d \in BOOLEAN /\ i + 1 # 0 /\ (Doubled(sql, i) <=> c = QUOTE) /\ MARK # QUOTE
    BY DEF Doubled, QUOTE, MARK
  <1>4. Into(MARK) = "sql" /\ "sql" \in Outside /\ Into(c) \in Outside
    BY ModesAre, WhereItLeads
  <1>a. \A mode \in Outside : mode # "string" /\ mode # "quote"
    BY ModesAre
  <1>b. "string" \notin Outside /\ "quote" \notin Outside
    BY ModesAre
  <1>2. m.mode \in Modes /\ m.text \in Seq(Letters) /\ m.tokens \in Seq(Tokens)
    BY LexStatesAre
  <1>3. s.string \in BOOLEAN /\ s.pair \in BOOLEAN /\ s.next \in Nat
    BY DEF ScanStates
  <1>5. Count(Append(m.tokens, Word(c))) = IF c = MARK THEN Count(m.tokens) + 1 ELSE Count(m.tokens)
    BY <1>1, <1>2, CountAppend
  <1>6. SUFFICES Agree(m1, s1, sql, i + 1)
    OBVIOUS
  <1>7. CASE m.mode = "sql"
    <2>1. ~s.string /\ ~s.pair /\ m.text = <<>> /\ s.next = Count(m.tokens)
      BY <1>4, <1>7 DEF Agree
    <2>2. CASE c = QUOTE
      <3>1. m1 = Lexing("string", <<>>, m.tokens) /\ s1 = Scanning(TRUE, FALSE, s.next)
        BY <1>1, <1>7, <2>1, <2>2, LexSteps, ScanSteps
      <3> HIDE DEF m1, s1
      <3>2. m1.mode = "string" /\ m1.tokens = m.tokens /\ s1.string = TRUE /\ s1.pair = FALSE /\ s1.next = s.next
        BY <3>1 DEF Lexing, Scanning
      <3> QED
        BY <1>b, <2>1, <3>2 DEF Agree
    <2>3. CASE c = MARK
      <3>1. m1 = Lexing("sql", m.text, Append(m.tokens, Word(c))) /\ s1 = Scanning(FALSE, FALSE, s.next + 1)
        BY <1>1, <1>4, <1>7, <2>1, <2>3, LexSteps, ScanSteps
      <3> HIDE DEF m1, s1
      <3>2. /\ m1.mode = "sql" /\ m1.text = <<>> /\ m1.tokens = Append(m.tokens, Word(c))
            /\ s1.string = FALSE /\ s1.pair = FALSE /\ s1.next = s.next + 1
        BY <2>1, <3>1 DEF Lexing, Scanning
      <3>3. s1.next = Count(m1.tokens)
        BY <1>5, <2>1, <2>3, <3>2
      <3> QED
        BY <1>a, <1>4, <3>2, <3>3 DEF Agree
    <2>4. CASE c # QUOTE /\ c # MARK
      <3>1. m1 = Lexing(Into(c), m.text, Append(m.tokens, Word(c))) /\ s1 = s
        BY <1>1, <1>7, <2>1, <2>4, LexSteps, ScanSteps
      <3> HIDE DEF m1, s1
      <3>2. m1.mode \in Outside /\ m1.text = <<>> /\ m1.tokens = Append(m.tokens, Word(c))
        BY <1>4, <2>1, <3>1 DEF Lexing
      <3>3. s1.next = Count(m1.tokens)
        BY <1>5, <2>1, <2>4, <3>1, <3>2
      <3> QED
        BY <1>a, <2>1, <3>1, <3>2, <3>3 DEF Agree
    <2> QED
      BY <2>2, <2>3, <2>4
  <1>8. CASE m.mode = "string"
    <2>1. s.string /\ ~s.pair /\ s.next = Count(m.tokens)
      BY <1>8 DEF Agree
    <2>2. CASE c = QUOTE
      <3>1. m1 = Lexing("quote", m.text, m.tokens) /\ s1 = Scanning(d, d, s.next)
        BY <1>1, <1>8, <2>1, <2>2, LexSteps, ScanSteps
      <3> HIDE DEF m1, s1
      <3>2. m1.mode = "quote" /\ m1.tokens = m.tokens /\ s1.string = d /\ s1.pair = d /\ s1.next = s.next
        BY <3>1 DEF Lexing, Scanning
      <3> QED
        BY <1>1, <1>b, <2>1, <2>2, <3>2 DEF Agree
    <2>3. CASE c # QUOTE
      <3>1. m1 = Lexing("string", Append(m.text, c), m.tokens) /\ s1 = s
        BY <1>1, <1>8, <2>1, <2>3, LexSteps, ScanSteps
      <3> HIDE DEF m1, s1
      <3>2. m1.mode = "string" /\ m1.tokens = m.tokens
        BY <3>1, LexingFields
      <3> QED
        BY <1>b, <2>1, <3>1, <3>2 DEF Agree
    <2> QED
      BY <2>2, <2>3
  <1>9. CASE m.mode = "quote"
    <2>1. (s.string <=> c = QUOTE) /\ (s.pair <=> c = QUOTE) /\ s.next = Count(m.tokens)
      BY <1>1, <1>9 DEF Agree
    <2>2. CASE c = QUOTE
      <3>0. s.string /\ s.pair
        BY <2>1, <2>2
      <3>1. m1 = Lexing("string", Append(m.text, QUOTE), m.tokens) /\ s1 = Scanning(s.string, FALSE, s.next)
        BY <1>1, <1>9, <2>2, <3>0, LexSteps, ScanSteps
      <3> HIDE DEF m1, s1
      <3>2. m1.mode = "string" /\ m1.tokens = m.tokens /\ s1.string = s.string /\ s1.pair = FALSE /\ s1.next = s.next
        BY <3>1 DEF Lexing, Scanning
      <3> QED
        BY <1>b, <2>1, <3>0, <3>2 DEF Agree
    <2>3. CASE c # QUOTE
      <3> DEFINE x == Token("string", m.text)
                 cut == Append(m.tokens, x)
      <3>0. ~s.string /\ ~s.pair
        BY <2>1, <2>3
      <3>1. m1 = Lexing(Into(c), <<>>, Append(cut, Word(c)))
        BY <1>1, <1>9, <2>3, LexSteps
      <3> HIDE DEF m1
      <3>2. m1.mode \in Outside /\ m1.text = <<>> /\ m1.tokens = Append(cut, Word(c))
        <4> HIDE DEF cut
        <4> QED
          BY <1>4, <3>1 DEF Lexing
      <3>3. cut \in Seq(Tokens)
        <4>1. x \in Tokens
          BY <1>2, TokensAre
        <4> HIDE DEF x
        <4> QED
          BY <1>2, <4>1
      <3>4. Count(cut) = Count(m.tokens)
        BY <1>2, CountAppend
      <3> HIDE DEF cut
      <3>5. Count(m1.tokens) = IF c = MARK THEN s.next + 1 ELSE s.next
        <4>1. Count(Append(cut, Word(c))) = IF c = MARK THEN Count(cut) + 1 ELSE Count(cut)
          BY <1>1, <3>3, CountAppend
        <4> QED
          BY <2>1, <3>2, <3>4, <4>1
      <3>6. CASE c = MARK
        <4>1. s1 = Scanning(FALSE, FALSE, s.next + 1)
          BY <1>1, <3>0, <3>6, ScanSteps
        <4> HIDE DEF s1
        <4>2. s1.string = FALSE /\ s1.pair = FALSE /\ s1.next = s.next + 1
          BY <4>1 DEF Scanning
        <4> QED
          BY <1>a, <3>2, <3>5, <3>6, <4>2 DEF Agree
      <3>7. CASE c # MARK
        <4>1. s1 = s
          BY <1>1, <2>3, <3>0, <3>7, ScanSteps
        <4> HIDE DEF s1
        <4> QED
          BY <1>a, <3>0, <3>2, <3>5, <3>7, <4>1 DEF Agree
      <3> QED
        BY <3>6, <3>7
    <2> QED
      BY <2>2, <2>3
  <1>10. CASE m.mode \in Hiding
    <2> DEFINE x == Token(m.mode, <<c>>)
    <2>1. ~s.string /\ ~s.pair /\ m.text = <<>> /\ s.next = Count(m.tokens)
      BY <1>10, ModesAre DEF Agree
    <2>2. c # QUOTE /\ c # MARK
      BY <1>10
    <2>3. m1 = Lexing(Past(m.mode, c), m.text, Append(m.tokens, x))
      BY <1>1, <1>10, LexSteps
    <2>4. s1 = s
      BY <1>1, <2>1, <2>2, ScanSteps
    <2>5. x \in Tokens /\ x # Word(MARK)
      BY <1>1, <1>10, TokensAre
    <2> HIDE DEF x, m1, s1
    <2>6. Count(Append(m.tokens, x)) = Count(m.tokens)
      BY <1>2, <2>5, CountAppend
    <2>7. m1.mode \in Outside /\ m1.text = <<>> /\ m1.tokens = Append(m.tokens, x)
      <3>1. Past(m.mode, c) \in Outside
        BY <1>10, WhereItLeads
      <3>2. m1.mode = Past(m.mode, c) /\ m1.text = m.text /\ m1.tokens = Append(m.tokens, x)
        <4> DEFINE past == Past(m.mode, c)
                   longer == Append(m.tokens, x)
        <4> HIDE DEF past, longer
        <4>1. m1 = Lexing(past, m.text, longer)
          BY <2>3 DEF past, longer
        <4>2. m1.mode = past /\ m1.text = m.text /\ m1.tokens = longer
          BY <4>1 DEF Lexing
        <4> QED
          BY <4>2 DEF past, longer
      <3> QED
        BY <2>1, <3>1, <3>2
    <2> QED
      BY <1>a, <2>1, <2>4, <2>6, <2>7 DEF Agree
  <1> QED
    BY <1>2, <1>7, <1>8, <1>9, <1>10, ModesAre

\* What the property says of a prefix, said of the lexer's states.
LEMMA HiddenCharacters ==
  ASSUME NEW sql \in Seq(Letters), NEW lex, LexFollows(lex, LexStart, sql), NothingHidden(sql),
         NEW i \in 0..(Len(sql) - 1)
  PROVE  lex[i].mode \in Hiding => sql[i + 1] \notin {QUOTE, MARK}
  <1> DEFINE chars == SubSeq(sql, 1, i)
  <1>1. /\ chars \in Seq(Letters) /\ Len(chars) = i /\ i + 1 \in DOMAIN sql /\ (i + 1) - 1 = i
        /\ \A j \in 1..i : chars[j] = sql[j] /\ j \in 1..Len(sql)
    OBVIOUS
  <1>2. LexStart \in LexStates /\ lex[0] = LexStart
    BY LexStartType DEF LexFollows
  <1> HIDE DEF chars
  <1>3. \A j \in 1..Len(chars) : lex[j] = LexStep(lex[j - 1], chars[j])
    BY <1>1 DEF LexFollows
  <1>4. LexFrom(LexStart, chars) = lex[i]
    BY <1>1, <1>2, <1>3, LexIs
  <1>5. Inside(sql, i + 1) = lex[i].mode
    BY <1>1, <1>4 DEF Inside, chars
  <1> QED
    BY <1>1, <1>5 DEF NothingHidden

LEMMA ScanAgrees ==
  ASSUME NEW sql \in Seq(Letters), NEW lex, LexFollows(lex, LexStart, sql), NEW scan, Scans(scan, sql),
         NothingHidden(sql), NEW k \in 0..Len(sql)
  PROVE  Agree(lex[k], scan[k + 1], sql, k)
  <1> DEFINE n == Len(sql)
             S == {i \in 0..n : Agree(lex[i], scan[i + 1], sql, i)}
  <1>1. n \in Nat /\ 0 \in Nat
    OBVIOUS
  <1>2. 0 \in S
    <2>0. 0 + 1 = 1 /\ 0 \in 0..n
      BY <1>1
    <2>1. lex[0] = LexStart /\ scan[0 + 1] = Scanning(FALSE, FALSE, 0)
      BY <2>0 DEF LexFollows, Scans
    <2> DEFINE s == Scanning(FALSE, FALSE, 0)
    <2>2. s.string = FALSE /\ s.pair = FALSE /\ s.next = 0
      BY DEF Scanning
    <2>3. LexStart.mode = "sql" /\ LexStart.text = <<>> /\ LexStart.tokens = <<>>
      BY DEF LexStart
    <2>4. Count(<<>>) = 0
      BY NoText, CountAppend
    <2> HIDE DEF s
    <2>5. Agree(LexStart, s, sql, 0)
      BY <2>2, <2>3, <2>4, ModesAre DEF Agree
    <2>6. Agree(lex[0], scan[0 + 1], sql, 0)
      BY <2>1, <2>5 DEF s
    <2> QED
      BY <2>0, <2>6
  <1>3. ASSUME NEW i \in 0..(n - 1), i \in S PROVE i + 1 \in S
    <2>1. i + 1 \in 1..n /\ (i + 1) - 1 = i /\ i \in 0..n /\ i + 1 \in 0..n /\ i + 1 \in 1..(n + 1)
      BY <1>1
    <2> DEFINE m == lex[i]
               s == scan[i + 1]
               m1 == lex[i + 1]
               s1 == scan[(i + 1) + 1]
    <2>2. m \in LexStates /\ m1 = LexStep(m, sql[i + 1])
      BY <2>1 DEF LexFollows
    <2>3. s \in ScanStates /\ s1 = ScanStep(s, sql[i + 1], Doubled(sql, i + 1))
      BY <2>1 DEF Scans
    <2>4. Agree(m, s, sql, i)
      BY <1>3
    <2>6. m.mode \in Hiding => sql[i + 1] \notin {QUOTE, MARK}
      BY <2>1, HiddenCharacters
    <2> HIDE DEF m, s, m1, s1
    <2>5. Agree(m1, s1, sql, i + 1)
      BY <2>2, <2>3, <2>4, <2>6, AgreeStep
    <2> QED
      BY <2>1, <2>5 DEF m1, s1
  <1> HIDE DEF S
  <1>4. 0..n \subseteq S
    BY <1>1, <1>2, <1>3, SetInduction
  <1>5. k \in S
    BY <1>4
  <1> QED
    BY <1>5 DEF S

\* The placeholders the driver counts are those the coordinator would.
LEMMA PlaceholdersCounted ==
  ASSUME NEW sql \in Seq(Letters), NothingHidden(sql)
  PROVE  /\ Lexed(sql) \in Seq(Tokens)
         /\ Scan(sql)[Len(sql) + 1].next = Marks(Lexed(sql))[Len(Lexed(sql))]
  <1> DEFINE n == Len(sql)
             scan == Scan(sql)
  <1>1. PICK lex : LexFollows(lex, LexStart, sql) /\ LexFrom(LexStart, sql) = lex[n]
    BY LexStartType, LexUnfolds
  <1>2. Scans(scan, sql)
    BY ScanUnfolds
  <1> HIDE DEF scan
  <1> DEFINE m == lex[n]
  <1>3. n \in 0..n
    OBVIOUS
  <1>4. Agree(m, scan[n + 1], sql, n)
    BY <1>1, <1>2, <1>3, ScanAgrees
  <1>5. m \in LexStates
    BY <1>1, <1>3 DEF LexFollows
  <1>6. Lexed(sql) = Ended(m)
    BY <1>1 DEF Lexed
  <1> HIDE DEF m, n
  <1>7. scan[n + 1].next = Count(m.tokens)
    BY <1>4 DEF Agree
  <1>8. m.mode \in Modes /\ m.text \in Seq(Letters) /\ m.tokens \in Seq(Tokens)
    BY <1>5, LexStatesAre
  <1>9. Count(Ended(m)) = Count(m.tokens) /\ Ended(m) \in Seq(Tokens)
    <2> DEFINE tokens == m.tokens
               text == m.text
               closed == Append(tokens, Token("string", text))
               open == Append(tokens, Token("open string", text))
    <2>1. tokens \in Seq(Tokens) /\ text \in Seq(Letters)
      BY <1>8
    <2>2. Ended(m) \in {tokens, closed, open} /\ Ended(m) \in Seq(Tokens)
      BY <1>5, <1>8, EndedIs, ModesAre
    <2> HIDE DEF tokens, text
    <2>3. Count(closed) = Count(tokens)
      BY <2>1, CountAppend
    <2>4. Count(open) = Count(tokens)
      BY <2>1, CountAppend
    <2> HIDE DEF closed, open
    <2>5. Count(Ended(m)) = Count(tokens)
      BY <2>2, <2>3, <2>4
    <2> QED
      BY <2>2, <2>5 DEF tokens
  <1> QED
    BY <1>6, <1>7, <1>9 DEF Count, scan, n

\* A statement is refused exactly when the counts differ or a value has no literal.
LEMMA Refusals ==
  ASSUME NEW sql \in Seq(Letters), NEW params \in Seq(ColumnValues)
  PROVE  LET result == interpolate_params(sql, params)
         IN result.ok <=> /\ Scan(sql)[Len(sql) + 1].next = Len(params)
                          /\ \A k \in DOMAIN params : render_literal(params[k]).ok
  <1> DEFINE result == interpolate_params(sql, params)
             literals == [k \in DOMAIN params |-> render_literal(params[k])]
             found == Scan(sql)[Len(sql) + 1].next
             Stops(k) == k > Len(params) \/ ~literals[k].ok
             First == CHOOSE k \in 1..found : Stops(k) /\ \A j \in 1..(k - 1) : ~Stops(j)
             Stopped == \E k \in 1..found : Stops(k)
  <1>1. found \in Nat /\ Len(params) \in Nat /\ DOMAIN params = 1..Len(params)
    <2>1. Scans(Scan(sql), sql) /\ Len(sql) + 1 \in 1..(Len(sql) + 1)
      BY ScanUnfolds
    <2>2. Scan(sql)[Len(sql) + 1] \in ScanStates
      BY <2>1 DEF Scans
    <2> QED
      BY <2>2 DEF ScanStates
  <1>2. ~Refused("HY000").ok
    BY DEF Refused
  <1> HIDE DEF found
  <1>3. CASE Stopped
    <2>1. result = IF First > Len(params) THEN Refused("HY000") ELSE literals[First]
      BY <1>3, Zenon DEF interpolate_params, found
    <2>2. \E k \in 1..found : Stops(k) /\ \A j \in 1..(k - 1) : ~Stops(j)
      <3> DEFINE Bad == {k \in 1..found : Stops(k)}
      <3>1. Bad \in SUBSET Nat /\ Bad # {}
        <4> HIDE DEF Stops
        <4> QED
          BY <1>1, <1>3
      <3>2. \A k : k \in Bad <=> k \in 1..found /\ Stops(k)
        OBVIOUS
      <3> HIDE DEF Bad
      <3>3. PICK k \in Bad : \A j \in Bad : ~(j < k)
        BY <3>1, LeastElement
      <3>4. k \in 1..found /\ Stops(k)
        BY <3>2, <3>3
      <3>5. ASSUME NEW j \in 1..(k - 1) PROVE ~Stops(j)
        <4>1. j \in 1..found /\ j < k
          BY <1>1, <3>4
        <4> HIDE DEF Stops
        <4> QED
          BY <3>2, <3>3, <4>1
      <3> HIDE DEF Stops
      <3> QED
        BY <3>4, <3>5
    <2>3. First \in 1..found /\ Stops(First)
      <3> HIDE DEF Stops
      <3> QED
        BY <2>2
    <2>4. ~result.ok
      <3> HIDE DEF First, result, literals
      <3> QED
        BY <1>2, <2>1, <2>3
    <2>5. found # Len(params) \/ \E k \in DOMAIN params : ~render_literal(params[k]).ok
      <3> SUFFICES ASSUME found = Len(params) PROVE \E k \in DOMAIN params : ~render_literal(params[k]).ok
        OBVIOUS
      <3>1. First \in DOMAIN params /\ ~(First > Len(params))
        <4> HIDE DEF First
        <4> QED
          BY <1>1, <2>3
      <3> HIDE DEF First
      <3>2. ~literals[First].ok
        BY <2>3, <3>1
      <3> QED
        BY <3>1, <3>2
    <2> QED
      BY <2>4, <2>5 DEF found
  <1>4. CASE ~Stopped /\ found # Len(params)
    <2>1. result = Refused("HY000")
      BY <1>4 DEF interpolate_params, found
    <2>2. ~result.ok
      BY <1>2, <2>1
    <2> QED
      BY <1>4, <2>2 DEF found
  <1>5. CASE ~Stopped /\ found = Len(params)
    <2>1. ASSUME NEW k \in DOMAIN params PROVE render_literal(params[k]).ok
      <3>1. k \in 1..found
        BY <1>1, <1>5
      <3>2. ~Stops(k)
        BY <1>5, <3>1
      <3>3. literals[k].ok
        BY <3>2
      <3> QED
        BY <3>3
    <2>2. \E text : result = [ok |-> TRUE, sql |-> text]
      BY <1>5 DEF interpolate_params, found
    <2>3. result.ok
      BY <2>2
    <2> QED
      BY <1>5, <2>1, <2>3 DEF found
  <1> QED
    BY <1>3, <1>4, <1>5

LEMMA Apart ==
  ASSUME NEW sql \in Seq(Letters), Separated(sql), NEW i \in 1..(Len(sql) - 1)
  PROVE  /\ ~(sql[i] = MARK /\ sql[i + 1] = QUOTE)
         /\ ~(sql[i] = MARK /\ sql[i + 1] = MARK)
         /\ ~(sql[i] = QUOTE /\ sql[i + 1] = MARK)
  BY DEF Separated

\* The coordinator, after the first i characters of the prepared statement (m) and
\* after what was sent for them (l): of a placeholder it has read the value.
InStep(m, l, read, sql, i, params) ==
  /\ l \in LexStates /\ Reads(m.tokens, params, read)
  /\ m.mode # "sql" => l = Lexing(m.mode, m.text, read)
  /\ m.mode = "sql" => /\ Ended(l) = read
                       /\ \/ l = Lexing("sql", <<>>, read)
                          \/ l.mode = "quote" /\ i # 0 /\ sql[i] = MARK

\* A value in the place of a placeholder.
LEMMA PlaceholderInStep ==
  ASSUME NEW params \in Seq(ColumnValues), \A k \in DOMAIN params : render_literal(params[k]).ok,
         NEW tokens \in Seq(Tokens), NEW read, Reads(tokens, params, read), Count(tokens) + 1 \in DOMAIN params
  PROVE  LET piece == Chars(render_literal(params[Count(tokens) + 1]))
             l1 == LexFrom(Lexing("sql", <<>>, read), piece)
             read1 == read \o Meaning(params[Count(tokens) + 1])
         IN /\ piece \in Seq(Letters) /\ l1 \in LexStates
            /\ Reads(Append(tokens, Word(MARK)), params, read1)
            /\ Ended(l1) = read1 /\ (l1 = Lexing("sql", <<>>, read1) \/ l1.mode = "quote")
  <1> DEFINE v == params[Count(tokens) + 1]
             piece == Chars(render_literal(v))
             x == LexFrom(LexStart, piece)
             l1 == LexFrom(Lexing("sql", <<>>, read), piece)
             mean == Meaning(v)
             read1 == read \o mean
  <1>1. v \in ColumnValues /\ render_literal(v).ok
    <2> DEFINE k == Count(tokens) + 1
    <2>1. k \in DOMAIN params
      OBVIOUS
    <2> HIDE DEF k
    <2>2. params[k] \in ColumnValues /\ render_literal(params[k]).ok
      BY <2>1
    <2> QED
      BY <2>2 DEF k
  <1> HIDE DEF v
  <1>2. /\ piece \in Seq(Letters) /\ x \in LexStates /\ (x.mode = "quote" \/ (x.mode = "sql" /\ x.text = <<>>))
        /\ Ended(x) = mean /\ mean \in Seq(Tokens)
    BY <1>1, LiteralLexes
  <1>3. read \in Seq(Tokens)
    BY DEF Reads
  <1>4. Reads(Append(tokens, Word(MARK)), params, read1)
    <2>1. Meaning(params[Count(tokens) + 1]) \in Seq(Tokens)
      BY <1>2 DEF v
    <2> QED
      BY <2>1, ReadsMark DEF v
  <1> HIDE DEF piece, x, mean
  <1>5. l1 = Lexing(x.mode, x.text, read \o x.tokens)
    BY <1>2, <1>3, LexShift DEF x
  <1>6. x.tokens \in Seq(Tokens) /\ x.text \in Seq(Letters) /\ Token("string", x.text) \in Tokens
    BY <1>2, LexStatesAre, TokensAre
  <1> DEFINE cut == x.tokens
             last == Token("string", x.text)
  <1>7. cut \in Seq(Tokens) /\ last \in Tokens
    BY <1>6
  <1> HIDE DEF cut, last
  <1>8. read \o cut \in Seq(Tokens) /\ read \o Append(cut, last) = Append(read \o cut, last)
    BY <1>3, <1>7, ConcatAppend
  <1> DEFINE both == read \o cut
  <1>9. l1 = Lexing(x.mode, x.text, both) /\ both \in Seq(Tokens)
    BY <1>5, <1>8 DEF cut
  <1> HIDE DEF both
  <1>10. l1 \in LexStates
    BY <1>2, <1>6, <1>9, LexingIsAState, ModesAre
  <1>11. l1.mode = x.mode /\ l1.text = x.text /\ l1.tokens = both
    <2> HIDE DEF l1
    <2> QED
      BY <1>9 DEF Lexing
  <1> HIDE DEF l1
  <1>12. CASE x.mode = "quote"
    <2>1. mean = Append(cut, last)
      BY <1>2, <1>12, EndedIs DEF cut, last
    <2>2. Ended(l1) = Append(both, last)
      BY <1>10, <1>11, <1>12, EndedIs DEF last
    <2>3. Ended(l1) = read1
      BY <1>8, <2>1, <2>2 DEF both
    <2> QED
      BY <1>2, <1>4, <1>10, <1>11, <1>12, <2>3 DEF v, piece, mean, l1
  <1>13. CASE x.mode = "sql"
    <2>1. mean = cut
      BY <1>2, <1>13, EndedIs, ModesAre DEF cut
    <2>2. Ended(l1) = both
      BY <1>10, <1>11, <1>13, EndedIs, ModesAre
    <2>3. both = read1 /\ x.text = <<>>
      BY <1>2, <1>13, <2>1 DEF both
    <2>4. l1 = Lexing("sql", <<>>, read1)
      BY <1>9, <1>13, <2>3
    <2> HIDE DEF read1
    <2> QED
      BY <1>2, <1>4, <1>10, <2>2, <2>3, <2>4 DEF v, piece, mean, l1, read1
  <1> QED
    BY <1>2, <1>12, <1>13

\* Outside the strings both have cut what they read.
LEMMA BothOutside ==
  ASSUME NEW params, NEW sql, NEW i, NEW mode \in Outside,
         NEW tokens \in Seq(Tokens), NEW read, Reads(tokens, params, read)
  PROVE  InStep(Lexing(mode, <<>>, tokens), Lexing(mode, <<>>, read), read, sql, i, params)
  <1> DEFINE m == Lexing(mode, <<>>, tokens)
             l == Lexing(mode, <<>>, read)
  <1>1. mode \in Modes /\ <<>> \in Seq(Letters) /\ read \in Seq(Tokens)
    BY ModesAre DEF Reads
  <1>2. l \in LexStates
    BY <1>1, LexingIsAState
  <1>3. /\ m.mode = mode /\ m.text = <<>> /\ m.tokens = tokens
        /\ l.mode = mode /\ l.tokens = read
    BY LexingFields
  <1>4. l = Lexing(mode, <<>>, read)
    OBVIOUS
  <1> HIDE DEF m, l
  <1>5. Ended(l) = read
    BY <1>2, <1>3, EndedIs
  <1>6. InStep(m, l, read, sql, i, params)
    BY <1>2, <1>3, <1>4, <1>5 DEF InStep
  <1> QED
    BY <1>6 DEF m, l

\* Any other character is sent as it is.
LEMMA OtherInStep ==
  ASSUME NEW params, NEW sql \in Seq(Letters), NEW i \in 0..(Len(sql) - 1),
         NEW m \in LexStates, NEW l, NEW read, InStep(m, l, read, sql, i, params),
         m.mode # "string" => sql[i + 1] # MARK, m.mode \in Outside => m.text = <<>>,
         m.mode = "sql" /\ sql[i + 1] = QUOTE => ~(i # 0 /\ sql[i] = MARK)
  PROVE  \E read1 : InStep(LexStep(m, sql[i + 1]), LexStep(l, sql[i + 1]), read1, sql, i + 1, params)
  <1> DEFINE c == sql[i + 1]
             m1 == LexStep(m, c)
             l1 == LexStep(l, c)
  <1>1. c \in Letters /\ i + 1 # 0
    OBVIOUS
  <1>2. m.mode \in Modes /\ m.text \in Seq(Letters) /\ m.tokens \in Seq(Tokens)
    BY LexStatesAre
  <1>3. l \in LexStates /\ Reads(m.tokens, params, read) /\ read \in Seq(Tokens)
    BY DEF InStep, Reads
  <1>4. l1 \in LexStates
    BY <1>1, <1>3, LexStepType
  <1>5. /\ Word(c) \in Tokens /\ (c # MARK => Word(c) # Word(MARK))
        /\ Token("string", m.text) \in Tokens /\ Token("string", m.text) # Word(MARK)
    <2>1. Word(c).text[1] = c /\ Word(MARK).text[1] = MARK
      BY DEF Word, Token
    <2>2. Token("string", m.text) # Word(MARK)
      BY DEF Word, Token
    <2> QED
      BY <1>1, <1>2, <2>1, <2>2, TokensAre
  <1> DEFINE w == Word(c)
             last == Token("string", m.text)
             t == m.tokens
  <1>6. SUFFICES \E read1 : InStep(m1, l1, read1, sql, i + 1, params)
    OBVIOUS
  <1> HIDE DEF w, last, t
  <1>7. CASE m.mode = "sql" /\ c = QUOTE
    <2>1. l = Lexing("sql", <<>>, read)
      BY <1>7 DEF InStep
    <2>2. l.mode = "sql" /\ l.tokens = read
      BY <2>1 DEF Lexing
    <2>3. m1 = Lexing("string", <<>>, m.tokens) /\ l1 = Lexing("string", <<>>, read)
      BY <1>1, <1>3, <1>7, <2>2, LexSteps
    <2> HIDE DEF m1, l1
    <2>4. m1.mode = "string" /\ m1.text = <<>> /\ m1.tokens = m.tokens
      BY <2>3 DEF Lexing
    <2>5. InStep(m1, l1, read, sql, i + 1, params)
      BY <1>3, <1>4, <2>3, <2>4 DEF InStep
    <2> QED
      BY <2>5
  <1>8. CASE m.mode = "sql" /\ c # QUOTE
    <2>1. m1 = Lexing(Into(c), <<>>, Append(m.tokens, w))
      BY <1>1, <1>8, LexSteps, ModesAre DEF w
    <2>2. l1 = Lexing(Into(c), <<>>, Append(read, w))
      <3>1. CASE l = Lexing("sql", <<>>, read)
        <4>1. l.mode = "sql" /\ l.text = <<>> /\ l.tokens = read
          BY <3>1 DEF Lexing
        <4> QED
          BY <1>1, <1>3, <1>8, <4>1, LexSteps DEF w
      <3>2. CASE l.mode = "quote" /\ Ended(l) = read
        <4>1. read = Append(l.tokens, Token("string", l.text))
          BY <1>3, <3>2, EndedIs
        <4> QED
          BY <1>1, <1>3, <1>8, <3>2, <4>1, LexSteps DEF w
      <3> QED
        BY <1>8, <3>1, <3>2 DEF InStep
    <2> DEFINE read1 == Append(read, w)
               longer == Append(t, w)
    <2>3. Reads(longer, params, read1) /\ longer \in Seq(Tokens)
      BY <1>2, <1>3, <1>5, <1>8, ReadsOther, ModesAre DEF w, t
    <2>4. l1 = Lexing(Into(c), <<>>, read1) /\ m1 = Lexing(Into(c), <<>>, longer)
      BY <2>1, <2>2 DEF t
    <2>5. Into(c) \in Outside
      BY WhereItLeads
    <2> HIDE DEF m1, l1, read1, longer
    <2>6. InStep(m1, l1, read1, sql, i + 1, params)
      BY <2>3, <2>4, <2>5, BothOutside
    <2> QED
      BY <2>6
  <1>9. CASE m.mode # "sql"
    <2>1. l = Lexing(m.mode, m.text, read)
      BY <1>9 DEF InStep
    <2>2. l.mode = m.mode /\ l.text = m.text /\ l.tokens = read
      BY <2>1 DEF Lexing
    <2>3. CASE m.mode = "string" /\ c = QUOTE
      <3>1. m1 = Lexing("quote", m.text, m.tokens) /\ l1 = Lexing("quote", m.text, read)
        BY <1>1, <1>3, <2>2, <2>3, LexSteps
      <3> HIDE DEF m1, l1
      <3>2. m1.mode = "quote" /\ m1.text = m.text /\ m1.tokens = m.tokens
        BY <3>1 DEF Lexing
      <3>3. InStep(m1, l1, read, sql, i + 1, params)
        BY <1>3, <1>4, <3>1, <3>2 DEF InStep
      <3> QED
        BY <3>3
    <2>4. CASE (m.mode = "string" /\ c # QUOTE) \/ (m.mode = "quote" /\ c = QUOTE)
      <3> DEFINE text == Append(m.text, c)
      <3>1. m1 = Lexing("string", text, m.tokens) /\ l1 = Lexing("string", text, read)
        BY <1>1, <1>3, <2>2, <2>4, LexSteps
      <3> HIDE DEF m1, l1, text
      <3>2. m1.mode = "string" /\ m1.text = text /\ m1.tokens = m.tokens
        BY <3>1 DEF Lexing
      <3>3. InStep(m1, l1, read, sql, i + 1, params)
        BY <1>3, <1>4, <3>1, <3>2 DEF InStep
      <3> QED
        BY <3>3
    <2>5. CASE m.mode = "quote" /\ c # QUOTE /\ c # MARK
      <3> DEFINE cut == Append(t, last)
                 read0 == Append(read, last)
                 longer == Append(cut, w)
                 read1 == Append(read0, w)
      <3>1. /\ m1 = Lexing(Into(c), <<>>, Append(Append(m.tokens, Token("string", m.text)), Word(c)))
            /\ l1 = Lexing(Into(c), <<>>, Append(Append(read, Token("string", m.text)), Word(c)))
        BY <1>1, <1>3, <2>2, <2>5, LexSteps
      <3>2. m1 = Lexing(Into(c), <<>>, longer) /\ l1 = Lexing(Into(c), <<>>, read1)
        BY <3>1 DEF t, last, w
      <3>3. /\ t \in Seq(Tokens) /\ last \in Tokens /\ w \in Tokens
            /\ last # Word(MARK) /\ w # Word(MARK) /\ Reads(t, params, read)
        BY <1>2, <1>3, <1>5, <2>5 DEF t, last, w
      <3>4. cut \in Seq(Tokens)
        BY <3>3
      <3>5. Reads(cut, params, read0)
        BY <3>3, ReadsOther
      <3> HIDE DEF cut, read0
      <3>6. Reads(longer, params, read1) /\ longer \in Seq(Tokens)
        BY <3>3, <3>4, <3>5, ReadsOther
      <3>7. Into(c) \in Outside
        BY WhereItLeads
      <3> HIDE DEF m1, l1, longer, read1
      <3>8. InStep(m1, l1, read1, sql, i + 1, params)
        BY <3>2, <3>6, <3>7, BothOutside
      <3> QED
        BY <3>8
    <2>6. CASE m.mode \in Hiding
      <3> DEFINE x == Token(m.mode, <<c>>)
                 mode == Past(m.mode, c)
                 longer == Append(t, x)
                 read1 == Append(read, x)
      <3>1. m.mode \in Outside /\ m.text = <<>>
        BY <2>6, ModesAre
      <3>2. m1 = Lexing(mode, <<>>, longer)
        BY <1>1, <2>6, <3>1, LexSteps DEF t
      <3>3. l1 = Lexing(mode, <<>>, read1)
        BY <1>1, <1>3, <2>2, <2>6, <3>1, LexSteps
      <3>4. x \in Tokens /\ x # Word(MARK) /\ mode \in Outside
        BY <1>1, <2>6, TokensAre, WhereItLeads
      <3>5. t \in Seq(Tokens) /\ Reads(t, params, read)
        BY <1>2, <1>3 DEF t
      <3> HIDE DEF x, mode
      <3>6. Reads(longer, params, read1) /\ longer \in Seq(Tokens)
        BY <3>4, <3>5, ReadsOther
      <3> HIDE DEF m1, l1, longer, read1
      <3>7. InStep(m1, l1, read1, sql, i + 1, params)
        BY <3>2, <3>3, <3>4, <3>6, BothOutside
      <3> QED
        BY <3>7
    <2> QED
      <3>1. m.mode = "string" \/ m.mode = "quote" \/ m.mode \in Hiding
        BY <1>2, <1>9, ModesAre
      <3>2. m.mode = "quote" => c # MARK
        OBVIOUS
      <3> HIDE DEF c
      <3> QED
        BY <2>3, <2>4, <2>5, <2>6, <3>1, <3>2
  <1> QED
    BY <1>2, <1>7, <1>8, <1>9

\* What is sent for each character of the prepared statement.
Sent(sql, params) ==
  [i \in 1..Len(sql) |->
     IF sql[i] = MARK /\ ~Scan(sql)[i].string
     THEN Chars(render_literal(params[Scan(sql)[i].next + 1])) ELSE <<sql[i]>>]

\* Between two quotes in a row the driver is in the string.
LEMMA PairIsInString ==
  ASSUME NEW sql \in Seq(Letters), NEW scan, Scans(scan, sql), NEW k \in 1..(Len(sql) + 1)
  PROVE  scan[k] \in ScanStates /\ (scan[k].pair => scan[k].string)
  <1> DEFINE n == Len(sql)
             S == {i \in 0..n : scan[i + 1].pair => scan[i + 1].string}
  <1>1. n \in Nat /\ 0 \in Nat
    OBVIOUS
  <1>2. 0 \in S
    <2>1. scan[1] = Scanning(FALSE, FALSE, 0) /\ 0 + 1 = 1
      BY DEF Scans
    <2>2. ~scan[0 + 1].pair
      BY <2>1 DEF Scanning
    <2> QED
      BY <1>1, <2>2
  <1>3. ASSUME NEW i \in 0..(n - 1), i \in S PROVE i + 1 \in S
    <2> DEFINE s == scan[i + 1]
               t == scan[(i + 1) + 1]
               c == sql[i + 1]
               d == Doubled(sql, i + 1)
    <2>1. i + 1 \in 1..n /\ i + 1 \in 0..n /\ i + 1 \in 1..(n + 1)
      BY <1>1
    <2>2. s \in ScanStates /\ t = ScanStep(s, c, d) /\ d \in BOOLEAN
      BY <2>1 DEF Scans, Doubled
    <2>3. s.pair => s.string
      BY <1>3
    <2>4. s.string \in BOOLEAN /\ s.pair \in BOOLEAN
      BY <2>2 DEF ScanStates
    <2> HIDE DEF s, t, c, d
    <2>5. t = Scanning(s.string, FALSE, s.next) \/ t = Scanning(TRUE, FALSE, s.next)
          \/ t = Scanning(d, d, s.next) \/ t = Scanning(FALSE, FALSE, s.next + 1) \/ t = s
      BY <2>2, <2>4, ScanSteps
    <2>6. t.pair => t.string
      BY <2>3, <2>5 DEF Scanning
    <2> QED
      BY <2>1, <2>6 DEF t
  <1> HIDE DEF S
  <1>4. 0..n \subseteq S
    BY <1>1, <1>2, <1>3, SetInduction
  <1>5. k - 1 \in S /\ (k - 1) + 1 = k
    BY <1>1, <1>4
  <1> QED
    BY <1>5 DEF S, Scans

\* A placeholder outside a string has a parameter.
LEMMA PlaceholderHasValue ==
  ASSUME NEW sql \in Seq(Letters), NEW scan, Scans(scan, sql),
         NEW i \in 1..Len(sql), sql[i] = MARK, ~scan[i].string
  PROVE  scan[i].next \in Nat /\ scan[i].next + 1 \in 1..scan[Len(sql) + 1].next
  <1> DEFINE n == Len(sql)
             s == scan[i]
             t == scan[i + 1]
             found == scan[n + 1].next
  <1>1. /\ n \in Nat
        /\ i \in 1..(n + 1) /\ i + 1 \in 1..(n + 1) /\ n + 1 \in 1..(n + 1)
    OBVIOUS
  <1>2. s \in ScanStates /\ t = ScanStep(s, MARK, Doubled(sql, i)) /\ scan[n + 1] \in ScanStates
    BY <1>1 DEF Scans
  <1>3. s.next \in Nat /\ found \in Nat /\ t.next <= found
    BY <1>1, <1>2, NumbersGrow DEF ScanStates
  <1>4. ~s.pair /\ ~s.string
    BY <1>1, PairIsInString
  <1>5. Doubled(sql, i) \in BOOLEAN
    BY DEF Doubled
  <1> HIDE DEF s, t, found
  <1>6. t = Scanning(FALSE, FALSE, s.next + 1)
    BY <1>2, <1>4, <1>5, ScanSteps
  <1>7. t.next = s.next + 1
    BY <1>6 DEF Scanning
  <1>8. s.next + 1 \in 1..found
    BY <1>3, <1>7
  <1> QED
    BY <1>3, <1>8 DEF s, found, n

LEMMA SentIs ==
  ASSUME NEW sql \in Seq(Letters), NEW params \in Seq(ColumnValues), interpolate_params(sql, params).ok
  PROVE  /\ \A k \in DOMAIN params : render_literal(params[k]).ok
         /\ Scan(sql)[Len(sql) + 1].next = Len(params)
         /\ Sent(sql, params) \in Seq(Seq(Letters)) /\ Len(Sent(sql, params)) = Len(sql)
         /\ interpolate_params(sql, params).sql = FlattenSeq(Sent(sql, params))
  <1> DEFINE n == Len(sql)
             scan == Scan(sql)
             literals == [k \in DOMAIN params |-> render_literal(params[k])]
             sent == Sent(sql, params)
             Placeholder(i) == sql[i] = MARK /\ ~scan[i].string
  <1>1. scan[n + 1].next = Len(params) /\ \A k \in DOMAIN params : render_literal(params[k]).ok
    BY Refusals
  <1>2. n \in Nat /\ DOMAIN sql = 1..n /\ DOMAIN params = 1..Len(params) /\ Len(params) \in Nat
    OBVIOUS
  <1>3. \A i \in 1..n : Placeholder(i) => scan[i].next + 1 \in DOMAIN params
    <2> SUFFICES ASSUME NEW i \in 1..n, Placeholder(i) PROVE scan[i].next + 1 \in DOMAIN params
      OBVIOUS
    <2>1. Scans(scan, sql)
      BY ScanUnfolds
    <2> HIDE DEF scan
    <2>2. scan[i].next + 1 \in 1..scan[Len(sql) + 1].next
      BY <2>1, PlaceholderHasValue
    <2> QED
      BY <1>1, <1>2, <2>2
  <1>4. sent \in [1..n -> Seq(Letters)]
    <2>1. \A i \in 1..n :
            sent[i] = IF Placeholder(i) THEN Chars(render_literal(params[scan[i].next + 1])) ELSE <<sql[i]>>
      BY DEF Sent
    <2>2. sent = [i \in 1..n |-> sent[i]]
      BY DEF Sent
    <2> HIDE DEF sent
    <2>3. ASSUME NEW i \in 1..n PROVE sent[i] \in Seq(Letters)
      <3>1. CASE Placeholder(i)
        <4> DEFINE k == scan[i].next + 1
        <4>1. k \in DOMAIN params /\ sent[i] = Chars(render_literal(params[k]))
          BY <1>3, <2>1, <3>1
        <4> HIDE DEF k
        <4>2. params[k] \in ColumnValues /\ render_literal(params[k]).ok
          BY <1>1, <4>1
        <4> QED
          BY <4>1, <4>2, LiteralLexes
      <3>2. CASE ~Placeholder(i)
        <4>1. sent[i] = <<sql[i]>>
          BY <2>1, <3>2
        <4>2. sql[i] \in Letters
          BY <1>2
        <4> QED
          BY <4>1, <4>2, OneIsASeq
      <3> QED
        BY <3>1, <3>2
    <2> QED
      BY <2>2, <2>3
  <1>5. sent \in Seq(Seq(Letters)) /\ Len(sent) = n
    <2> HIDE DEF sent, n
    <2> QED
      BY <1>2, <1>4, FunctionIsASeq
  <1>6. interpolate_params(sql, params).sql = FlattenSeq(sent)
    <2> DEFINE parts == [i \in DOMAIN sql |-> IF Placeholder(i) THEN Chars(literals[scan[i].next + 1]) ELSE <<sql[i]>>]
    <2>1. interpolate_params(sql, params) = [ok |-> TRUE, sql |-> FlattenSeq(parts)]
      <3> DEFINE found == scan[n + 1].next
                 Stops(k) == k > Len(params) \/ ~literals[k].ok
      <3>1. ~\E k \in 1..found : Stops(k)
        <4> SUFFICES ASSUME NEW k \in 1..found, Stops(k) PROVE FALSE
          OBVIOUS
        <4>1. k \in DOMAIN params /\ ~(k > Len(params))
          BY <1>1, <1>2
        <4>2. literals[k].ok
          BY <1>1, <4>1
        <4> QED
          BY <4>1, <4>2
      <3> QED
        BY <1>1, <3>1 DEF interpolate_params
    <2>2. parts = sent
      <3>1. \A i \in 1..n : parts[i] = sent[i]
        <4> SUFFICES ASSUME NEW i \in 1..n PROVE parts[i] = sent[i]
          OBVIOUS
        <4>1. CASE Placeholder(i)
          <5> DEFINE k == scan[i].next + 1
          <5>1. k \in DOMAIN params /\ parts[i] = Chars(literals[k]) /\ sent[i] = Chars(render_literal(params[k]))
            BY <1>2, <1>3, <4>1 DEF Sent
          <5> HIDE DEF k
          <5>2. literals[k] = render_literal(params[k])
            BY <5>1
          <5> QED
            BY <5>1, <5>2
        <4>2. CASE ~Placeholder(i)
          BY <1>2, <4>2 DEF Sent
        <4> QED
          BY <4>1, <4>2
      <3>2. parts = [i \in 1..n |-> parts[i]] /\ sent = [i \in 1..n |-> sent[i]]
        BY <1>2 DEF Sent
      <3> HIDE DEF parts, sent
      <3> QED
        BY <3>1, <3>2
    <2> HIDE DEF parts, sent
    <2> QED
      BY <2>1, <2>2
  <1> QED
    BY <1>1, <1>5, <1>6

\* What is sent is read as the prepared statement with each placeholder's value.
LEMMA StatementStaysWhole ==
  ASSUME NEW sql \in Seq(Letters), NEW params \in Seq(ColumnValues),
         interpolate_params(sql, params).ok, NothingHidden(sql), Separated(sql)
  PROVE  Lexed(interpolate_params(sql, params).sql) = Substituted(Lexed(sql), params)
  <1> DEFINE n == Len(sql)
             scan == Scan(sql)
             sent == Sent(sql, params)
  <1>1. n \in Nat /\ 0 \in Nat /\ \A i \in 1..n : sql[i] \in Letters
    OBVIOUS
  <1>2. PICK lex : LexFollows(lex, LexStart, sql) /\ LexFrom(LexStart, sql) = lex[n]
    BY LexStartType, LexUnfolds
  <1>3. Scans(scan, sql)
    BY ScanUnfolds
  <1>4. /\ \A k \in DOMAIN params : render_literal(params[k]).ok
        /\ scan[n + 1].next = Len(params)
        /\ sent \in Seq(Seq(Letters)) /\ Len(sent) = n
        /\ interpolate_params(sql, params).sql = FlattenSeq(sent)
    BY SentIs
  <1>5. \A i \in 1..n :
          /\ sql[i] = MARK /\ ~scan[i].string => sent[i] = Chars(render_literal(params[scan[i].next + 1]))
          /\ ~(sql[i] = MARK /\ ~scan[i].string) => sent[i] = <<sql[i]>>
    BY DEF Sent
  <1> HIDE DEF scan, sent
  <1>6. PICK out : FlattenFollows(out, Letters, sent) /\ FlattenSeq(sent) = out[n]
    BY <1>4, FlattenUnfolds
  <1>7. out \in [0..n -> Seq(Letters)] /\ out[0] = <<>> /\ \A i \in 1..n : out[i] = out[i - 1] \o sent[i]
    BY <1>4, <1>6 DEF FlattenFollows
  <1> DEFINE Good(i) == \E read : InStep(lex[i], LexFrom(LexStart, out[i]), read, sql, i, params)
             S == {i \in 0..n : Good(i)}
  <1>8. 0 \in S
    <2>1. lex[0] = LexStart /\ LexFrom(LexStart, out[0]) = LexStart
      BY <1>2, <1>7, LexStartType, LexNothing DEF LexFollows
    <2>2. LexStart.mode = "sql" /\ LexStart.tokens = <<>> /\ LexStart = Lexing("sql", <<>>, <<>>)
      BY DEF LexStart, Lexing
    <2>3. Reads(<<>>, params, <<>>)
      BY NoText, SubstitutedNothing DEF Reads
    <2>4. <<>> \in Seq(Tokens) /\ "sql" \in Outside
      BY ModesAre
    <2>5. InStep(LexStart, LexStart, <<>>, sql, 0, params)
      BY <2>2, <2>3, <2>4, BothOutside
    <2>6. Good(0)
      BY <2>1, <2>5
    <2> HIDE DEF Good
    <2> QED
      BY <1>1, <2>6
  <1>9. ASSUME NEW i \in 0..(n - 1), i \in S PROVE i + 1 \in S
    <2> DEFINE c == sql[i + 1]
               m == lex[i]
               s == scan[i + 1]
               l == LexFrom(LexStart, out[i])
               piece == sent[i + 1]
    <2>1. i + 1 \in 1..n /\ (i + 1) - 1 = i /\ i \in 0..n /\ i + 1 \in 0..n
      BY <1>1
    <2>2. PICK read : InStep(m, l, read, sql, i, params)
      BY <1>9
    <2>3. m \in LexStates /\ lex[i + 1] = LexStep(m, c) /\ c \in Letters
      BY <1>1, <1>2, <2>1 DEF LexFollows
    <2>4. Agree(m, s, sql, i)
      BY <1>2, <1>3, <2>1, ScanAgrees
    <2>5. out[i] \in Seq(Letters) /\ out[i + 1] = out[i] \o piece /\ piece \in Seq(Letters)
      <3>1. piece \in Seq(Letters)
        BY <1>4, <2>1
      <3>2. out[i] \in Seq(Letters)
        BY <1>7, <2>1
      <3>3. out[i + 1] = out[(i + 1) - 1] \o sent[i + 1]
        BY <1>7, <2>1
      <3> QED
        BY <2>1, <3>1, <3>2, <3>3
    <2>6. LexFrom(LexStart, out[i + 1]) = LexFrom(l, piece) /\ l \in LexStates
      <3> HIDE DEF piece
      <3> QED
        BY <2>5, LexStartType, LexConcat
    <2>7. /\ c = MARK /\ ~s.string => piece = Chars(render_literal(params[s.next + 1]))
          /\ ~(c = MARK /\ ~s.string) => piece = <<c>>
      BY <1>5, <2>1
    <2>8. i # 0 => ~(sql[i] = MARK /\ c = QUOTE) /\ ~(sql[i] = MARK /\ c = MARK) /\ ~(sql[i] = QUOTE /\ c = MARK)
      <3> SUFFICES ASSUME i # 0
                   PROVE  ~(sql[i] = MARK /\ c = QUOTE) /\ ~(sql[i] = MARK /\ c = MARK) /\ ~(sql[i] = QUOTE /\ c = MARK)
        OBVIOUS
      <3>1. i \in 1..(Len(sql) - 1)
        BY <1>1
      <3> QED
        BY <3>1, Apart
    <2>9. m.mode \in Modes /\ m.tokens \in Seq(Tokens) /\ m.text \in Seq(Letters)
      BY <2>3, LexStatesAre
    <2>10. MARK # QUOTE
      BY DEF MARK, QUOTE
    <2>11. CASE c = MARK /\ ~s.string
      <3>1. m.mode = "sql" /\ m.text = <<>> /\ s.next = Count(m.tokens)
        <4>1. m.mode # "string"
          BY <2>4, <2>11 DEF Agree
        <4>2. m.mode # "quote"
          BY <2>4, <2>8, <2>11 DEF Agree
        <4>3. m.mode \notin Hiding
          BY <1>2, <2>11, HiddenCharacters
        <4>4. m.mode = "sql" /\ m.mode \in Outside
          BY <2>9, <4>1, <4>2, <4>3, ModesAre
        <4> QED
          BY <2>4, <4>4 DEF Agree
      <3>2. l = Lexing("sql", <<>>, read) /\ Reads(m.tokens, params, read)
        BY <2>2, <2>8, <2>11, <3>1 DEF InStep
      <3>3. Count(m.tokens) + 1 \in DOMAIN params
        <4>1. s.next + 1 \in 1..scan[Len(sql) + 1].next
          BY <1>3, <2>1, <2>11, PlaceholderHasValue
        <4> QED
          BY <1>4, <3>1, <4>1
      <3>4. piece = Chars(render_literal(params[Count(m.tokens) + 1]))
        BY <2>7, <2>11, <3>1
      <3> DEFINE read1 == read \o Meaning(params[Count(m.tokens) + 1])
                 l1 == LexFrom(l, piece)
                 longer == Append(m.tokens, Word(MARK))
      <3>5. /\ l1 \in LexStates /\ Reads(longer, params, read1) /\ Ended(l1) = read1
            /\ l1 = Lexing("sql", <<>>, read1) \/ l1.mode = "quote"
        <4> DEFINE tokens == m.tokens
        <4>1. tokens \in Seq(Tokens) /\ Reads(tokens, params, read) /\ Count(tokens) + 1 \in DOMAIN params
          BY <2>9, <3>2, <3>3
        <4>2. /\ read1 = read \o Meaning(params[Count(tokens) + 1]) /\ longer = Append(tokens, Word(MARK))
              /\ l1 = LexFrom(Lexing("sql", <<>>, read), Chars(render_literal(params[Count(tokens) + 1])))
          BY <3>2, <3>4
        <4> HIDE DEF tokens, m, l, s, piece, read1, l1, longer
        <4> QED
          BY <1>4, <4>1, <4>2, PlaceholderInStep
      <3>6. lex[i + 1] = Lexing("sql", <<>>, longer)
        BY <2>3, <2>10, <2>11, <3>1, LexSteps, ModesAre
      <3> HIDE DEF read1, l1, longer
      <3>7. lex[i + 1].mode = "sql" /\ lex[i + 1].tokens = longer
        BY <3>6 DEF Lexing
      <3>8. InStep(lex[i + 1], l1, read1, sql, i + 1, params)
        BY <2>1, <2>11, <3>5, <3>7 DEF InStep
      <3>9. Good(i + 1)
        BY <2>6, <3>8 DEF l1
      <3> HIDE DEF Good
      <3> QED
        BY <2>1, <3>9
    <2>12. CASE ~(c = MARK /\ ~s.string)
      <3>1. /\ m.mode # "string" => c # MARK
            /\ m.mode \in Outside => m.text = <<>>
            /\ m.mode = "sql" /\ c = QUOTE => ~(i # 0 /\ sql[i] = MARK)
        <4>1. m.mode \in Outside => ~s.string /\ m.text = <<>>
          BY <2>4 DEF Agree
        <4>2. m.mode = "quote" => i # 0 /\ sql[i] = QUOTE
          BY <2>4 DEF Agree
        <4>3. m.mode = "string" \/ m.mode = "quote" \/ m.mode \in Outside
          BY <2>9, ModesAre
        <4> QED
          BY <2>8, <2>12, <4>1, <4>2, <4>3
      <3>2. \E read1 : InStep(LexStep(m, c), LexStep(l, c), read1, sql, i + 1, params)
        <4> HIDE DEF m, l
        <4> QED
          BY <2>2, <2>3, <3>1, OtherInStep
      <3>3. LexFrom(l, piece) = LexStep(l, c)
        <4> HIDE DEF l, piece, c
        <4> QED
          BY <2>3, <2>6, <2>7, <2>12, LexOne
      <3>4. Good(i + 1)
        <4> HIDE DEF m, l, piece
        <4> QED
          BY <2>3, <2>6, <3>2, <3>3
      <3> HIDE DEF Good
      <3> QED
        BY <2>1, <3>4
    <2> HIDE DEF c, m, s, l, piece, S
    <2> QED
      BY <2>11, <2>12
  <1>10. n \in S
    <2> HIDE DEF S, n
    <2>1. 0..n \subseteq S
      BY <1>1, <1>8, <1>9, SetInduction
    <2> QED
      BY <1>1, <2>1
  <1> DEFINE m == lex[n]
             l == LexFrom(LexStart, out[n])
  <1>11. PICK read : InStep(m, l, read, sql, n, params)
    BY <1>10
  <1>12. m \in LexStates /\ Lexed(sql) = Ended(m) /\ Lexed(interpolate_params(sql, params).sql) = Ended(l)
    <2>1. m \in LexStates
      BY <1>1, <1>2 DEF LexFollows
    <2>2. Lexed(sql) = Ended(m)
      BY <1>2 DEF Lexed
    <2>3. Lexed(interpolate_params(sql, params).sql) = Ended(l)
      BY <1>4, <1>6 DEF Lexed
    <2> QED
      BY <2>1, <2>2, <2>3
  <1> HIDE DEF m, l, S
  <1>13. l \in LexStates /\ Reads(m.tokens, params, read)
    BY <1>11 DEF InStep
  <1>14. m.mode \in Modes /\ m.tokens \in Seq(Tokens) /\ m.text \in Seq(Letters)
    BY <1>12, LexStatesAre
  <1>15. Ended(l) = Substituted(Ended(m), params)
    <2>1. CASE m.mode = "sql"
      <3>1. Ended(l) = read /\ Substituted(m.tokens, params) = read
        BY <1>11, <1>13, <2>1 DEF InStep, Reads
      <3> QED
        BY <1>12, <2>1, <3>1, EndedIs, ModesAre
    <2>2. ASSUME NEW mode, NEW kind \in {"string", "open string"}, m.mode = mode, mode # "sql",
                 \A q \in LexStates : q.mode = mode => Ended(q) = Append(q.tokens, Token(kind, q.text))
          PROVE  Ended(l) = Substituted(Ended(m), params)
      <3> DEFINE x == Token(kind, m.text)
      <3>1. l = Lexing(mode, m.text, read)
        BY <1>11, <2>2 DEF InStep
      <3>2. l.mode = mode /\ l.text = m.text /\ l.tokens = read
        BY <3>1 DEF Lexing
      <3>3. Ended(l) = Append(read, x) /\ Ended(m) = Append(m.tokens, x)
        BY <1>12, <1>13, <2>2, <3>2
      <3>4. x \in Tokens /\ x # Word(MARK)
        BY <1>14, TokensAre DEF Word, Token
      <3> HIDE DEF x
      <3>5. Reads(Append(m.tokens, x), params, Append(read, x))
        BY <1>13, <1>14, <3>4, ReadsOther
      <3> QED
        BY <3>3, <3>5 DEF Reads
    <2>3. CASE m.mode = "quote"
      BY <2>2, <2>3, EndedIs
    <2>4. CASE m.mode = "string"
      BY <2>2, <2>4, EndedIs
    <2>5. CASE m.mode \in Hiding
      <3>1. l = Lexing(m.mode, m.text, read) /\ m.mode \in Outside
        BY <1>11, <2>5, ModesAre DEF InStep
      <3>2. l.mode = m.mode /\ l.tokens = read
        BY <3>1, LexingFields
      <3>3. Ended(l) = read /\ Ended(m) = m.tokens
        BY <1>12, <1>13, <3>1, <3>2, EndedIs
      <3> QED
        BY <1>13, <3>3 DEF Reads
    <2> QED
      BY <1>14, <2>1, <2>3, <2>4, <2>5, ModesAre
  <1> QED
    BY <1>12, <1>15
-----------------------------------------------------------------------------
(* The arguments of an escape.                                              *)

\* The characters of a text, and the comma that joins two.
Texts == STRING \union {","}

\* What the coordinator is inside of, and how deep.
Opening(in, depth) == [in |-> in, depth |-> depth]
Insides == {"sql", "--", "/*"} \union Quotes
OpenStates == [in : Insides, depth : Nat]

LEMMA OpeningFields ==
  ASSUME NEW in, NEW depth
  PROVE  Opening(in, depth).in = in /\ Opening(in, depth).depth = depth
  BY DEF Opening

LEMMA OpenStatesAre ==
  ASSUME NEW s \in OpenStates
  PROVE  s.in \in Insides /\ s.depth \in Nat /\ s = Opening(s.in, s.depth)
  BY DEF OpenStates, Opening

LEMMA TopLevelType == TopLevel \in OpenStates /\ TopLevel = Opening("sql", 0)
  BY DEF TopLevel, Opening, OpenStates, Insides

\* The coordinator's step, arm by arm.
LEMMA OpenSteps ==
  ASSUME NEW s \in OpenStates, NEW c
  PROVE  /\ s.in = "sql" /\ c \in Quotes \union {"--", "/*"} => OpenStep(s, c) = Opening(c, s.depth)
         /\ s.in = "sql" /\ c = "(" => OpenStep(s, c) = Opening("sql", s.depth + 1)
         /\ s.in = "sql" /\ c = ")" /\ s.depth > 0 => OpenStep(s, c) = Opening("sql", s.depth - 1)
         /\ s.in = "sql" /\ c = ")" /\ ~(s.depth > 0) => OpenStep(s, c) = s
         /\ s.in = "sql" /\ c \notin Quotes \union {"--", "/*", "(", ")"} => OpenStep(s, c) = s
         /\ s.in \in Quotes /\ c = s.in => OpenStep(s, c) = Opening("sql", s.depth)
         /\ s.in \in Quotes /\ c # s.in => OpenStep(s, c) = s
         /\ s.in = "--" /\ c = LineEnd => OpenStep(s, c) = Opening("sql", s.depth)
         /\ s.in = "--" /\ c # LineEnd => OpenStep(s, c) = s
         /\ s.in = "/*" /\ c = "*/" => OpenStep(s, c) = Opening("sql", s.depth)
         /\ s.in = "/*" /\ c # "*/" => OpenStep(s, c) = s
  <1>1. PICK in \in Insides, d \in Nat : s.in = in /\ s.depth = d
    BY OpenStatesAre
  <1>2. \A x : [s EXCEPT !.in = x] = Opening(x, d) /\ [s EXCEPT !.depth = x] = Opening(in, x)
    BY <1>1 DEF OpenStates, Opening
  <1> DEFINE t == OpenStep(s, c)
  <1>3. CASE in = "sql"
    <2>1. CASE c \in Quotes \union {"--", "/*"}
      BY <1>1, <1>2, <1>3, <2>1 DEF OpenStep, Quotes
    <2>2. CASE c = "("
      BY <1>1, <1>2, <1>3, <2>2 DEF OpenStep, Quotes
    <2>3. CASE c = ")" /\ d > 0
      BY <1>1, <1>2, <1>3, <2>3 DEF OpenStep, Quotes
    <2>4. CASE c = ")" /\ ~(d > 0)
      BY <1>1, <1>2, <1>3, <2>4 DEF OpenStep, Quotes
    <2>5. CASE c \notin Quotes \union {"--", "/*", "(", ")"}
      BY <1>1, <1>2, <1>3, <2>5 DEF OpenStep, Quotes
    <2> QED
      BY <2>1, <2>2, <2>3, <2>4, <2>5
  <1>4. CASE in \in Quotes
    BY <1>1, <1>2, <1>4 DEF OpenStep, Quotes
  <1>5. CASE in = "--"
    BY <1>1, <1>2, <1>5 DEF OpenStep, Quotes
  <1>6. CASE in = "/*"
    BY <1>1, <1>2, <1>6 DEF OpenStep, Quotes
  <1> QED
    BY <1>1, <1>3, <1>4, <1>5, <1>6 DEF Insides

LEMMA OpenStepType ==
  ASSUME NEW s \in OpenStates, NEW c
  PROVE  OpenStep(s, c) \in OpenStates
  <1>1. \A in \in Insides, d \in Nat : Opening(in, d) \in OpenStates
    BY DEF Opening, OpenStates
  <1>2. s.in \in Insides /\ s.depth \in Nat /\ s.depth + 1 \in Nat /\ (s.depth > 0 => s.depth - 1 \in Nat)
    BY OpenStatesAre
  <1>3. "sql" \in Insides /\ Quotes \union {"--", "/*"} \subseteq Insides
    BY DEF Insides
  <1> DEFINE t == OpenStep(s, c)
  <1>4. /\ s.in = "sql" /\ c \in Quotes \union {"--", "/*"} => t = Opening(c, s.depth) /\ c \in Insides
        /\ s.in = "sql" /\ c = "(" => t = Opening("sql", s.depth + 1)
        /\ s.in = "sql" /\ c = ")" /\ s.depth > 0 => t = Opening("sql", s.depth - 1)
    BY <1>3, OpenSteps
  <1>5. \/ s.in = "sql" /\ c \in Quotes \union {"--", "/*"}
        \/ s.in = "sql" /\ c = "("
        \/ s.in = "sql" /\ c = ")" /\ s.depth > 0
        \/ t = Opening("sql", s.depth)
        \/ t = s
    <2>1. CASE s.in = "sql"
      <3> HIDE DEF t
      <3> QED
        BY <2>1, OpenSteps DEF t
    <2>2. CASE s.in # "sql"
      <3>1. s.in \in Quotes \/ s.in = "--" \/ s.in = "/*"
        BY <1>2, <2>2 DEF Insides
      <3>2. s.in \in Quotes => t = Opening("sql", s.depth) \/ t = s
        BY OpenSteps
      <3>3. s.in = "--" => t = Opening("sql", s.depth) \/ t = s
        BY OpenSteps
      <3>4. s.in = "/*" => t = Opening("sql", s.depth) \/ t = s
        BY OpenSteps
      <3> QED
        BY <3>1, <3>2, <3>3, <3>4
    <2> QED
      BY <2>1, <2>2
  <1> HIDE DEF t, Insides
  <1>6. t \in OpenStates
    BY <1>1, <1>2, <1>3, <1>4, <1>5
  <1> QED
    BY <1>6 DEF t

OpenFollows(open, chars) ==
  /\ open \in [0..Len(chars) -> OpenStates]
  /\ open[0] = TopLevel /\ \A i \in 1..Len(chars) : open[i] = OpenStep(open[i - 1], chars[i])

LEMMA OpenUnfolds ==
  ASSUME NEW chars \in Seq(Texts)
  PROVE  \E open : OpenFollows(open, chars) /\ LeftOpen(chars) = open[Len(chars)]
  <1> DEFINE n == Len(chars)
             step == [w \in (1..n) \X OpenStates |-> OpenStep(w[2], chars[w[1]])]
             Equation(g) == g = [i \in 0..n |-> IF i = 0 THEN TopLevel ELSE OpenStep(g[i - 1], chars[i])]
             open == CHOOSE g : Equation(g)
  <1>1. n \in Nat /\ 0 \in Nat /\ 0 <= n /\ \A i \in 1..n : chars[i] \in Texts
    OBVIOUS
  <1>2. step \in Steps(0, n, OpenStates)
    <2>1. \A w \in (1..n) \X OpenStates : w[1] \in 1..n /\ w[2] \in OpenStates
      OBVIOUS
    <2>2. \A w \in (1..n) \X OpenStates : OpenStep(w[2], chars[w[1]]) \in OpenStates
      BY <1>1, <2>1, OpenStepType
    <2> HIDE DEF n
    <2>3. step \in [(1..n) \X OpenStates -> OpenStates]
      BY <2>2
    <2> HIDE DEF step
    <2> QED
      BY <2>3 DEF Steps
  <1>3. PICK f \in [0..n -> OpenStates] : Follows(f, 0, n, TopLevel, step)
    <2> HIDE DEF step, n
    <2> QED
      BY <1>1, <1>2, TopLevelType, Recursion
  <1>4. \A i \in 1..n : f[i] = OpenStep(f[i - 1], chars[i])
    <2> TAKE i \in 1..n
    <2>1. f[i - 1] \in OpenStates /\ i \in (0 + 1)..n
      BY <1>1
    <2>2. step[<<i, f[i - 1]>>] = OpenStep(f[i - 1], chars[i])
      BY <2>1
    <2> HIDE DEF step
    <2> QED
      BY <1>3, <2>1, <2>2 DEF Follows
  <1>5. Equation(f)
    <2>1. f[0] = TopLevel
      BY <1>3 DEF Follows
    <2> HIDE DEF n, step
    <2> QED
      BY <1>1, <1>4, <2>1
  <1>6. Equation(open)
    <2> HIDE DEF Equation
    <2> QED
      BY <1>5
  <1>7. LeftOpen(chars) = open[n]
    BY DEF LeftOpen
  <1> HIDE DEF open, n, step
  <1>8. open[0] = TopLevel /\ \A i \in 1..n : open[i] = OpenStep(open[i - 1], chars[i])
    BY <1>1, <1>6
  <1> DEFINE S == {i \in 0..n : open[i] \in OpenStates}
  <1>9. 0..n \subseteq S
    <2>1. 0 \in S
      BY <1>1, <1>8, TopLevelType
    <2>2. ASSUME NEW i \in 0..(n - 1), i \in S PROVE i + 1 \in S
      <3>1. i + 1 \in 1..n /\ (i + 1) - 1 = i /\ i + 1 \in 0..n
        BY <1>1
      <3>2. open[i] \in OpenStates /\ chars[i + 1] \in Texts /\ open[i + 1] = OpenStep(open[i], chars[i + 1])
        BY <1>1, <1>8, <2>2, <3>1
      <3> QED
        BY <3>1, <3>2, OpenStepType
    <2> HIDE DEF S
    <2> QED
      BY <1>1, <2>1, <2>2, SetInduction
  <1>10. open \in [0..n -> OpenStates]
    <2>1. open = [i \in 0..n |-> IF i = 0 THEN TopLevel ELSE OpenStep(open[i - 1], chars[i])]
      BY <1>6
    <2>2. open = [i \in 0..n |-> open[i]]
      BY <2>1
    <2> QED
      BY <1>9, <2>2
  <1> QED
    BY <1>7, <1>8, <1>10 DEF OpenFollows, n

LEMMA OpenIs ==
  ASSUME NEW chars \in Seq(Texts), NEW f,
         f[0] = TopLevel, \A i \in 1..Len(chars) : f[i] = OpenStep(f[i - 1], chars[i])
  PROVE  LeftOpen(chars) = f[Len(chars)] /\ LeftOpen(chars) \in OpenStates
  <1> DEFINE n == Len(chars)
  <1>1. n \in Nat /\ 0 \in Nat /\ n \in 0..n
    OBVIOUS
  <1>2. PICK open : OpenFollows(open, chars) /\ LeftOpen(chars) = open[n]
    BY OpenUnfolds
  <1> DEFINE S == {i \in 0..n : f[i] = open[i]}
  <1>3. 0 \in S
    BY <1>1, <1>2 DEF OpenFollows
  <1>4. ASSUME NEW i \in 0..(n - 1), i \in S PROVE i + 1 \in S
    <2>1. i + 1 \in 1..n /\ (i + 1) - 1 = i /\ i + 1 \in 0..n
      BY <1>1
    <2>2. f[i + 1] = OpenStep(f[i], chars[i + 1]) /\ open[i + 1] = OpenStep(open[i], chars[i + 1])
      BY <1>2, <2>1 DEF OpenFollows
    <2> QED
      BY <1>4, <2>1, <2>2
  <1>5. n \in S
    <2> HIDE DEF S, n
    <2>1. 0..n \subseteq S
      BY <1>1, <1>3, <1>4, SetInduction
    <2> QED
      BY <1>1, <2>1
  <1>6. open[n] \in OpenStates
    BY <1>1, <1>2 DEF OpenFollows
  <1> QED
    BY <1>2, <1>5, <1>6

\* What the coordinator is in before each character of a text.
LEMMA OpenAlong ==
  ASSUME NEW args \in Seq(Texts)
  PROVE  \E open : /\ OpenFollows(open, args)
                   /\ \A i \in 0..Len(args) : LeftOpen(SubSeq(args, 1, i)) = open[i]
  <1>1. PICK open : OpenFollows(open, args)
    BY OpenUnfolds
  <1>2. ASSUME NEW i \in 0..Len(args)
        PROVE  LeftOpen(SubSeq(args, 1, i)) = open[i]
    <2> DEFINE chars == SubSeq(args, 1, i)
    <2>1. chars \in Seq(Texts) /\ Len(chars) = i /\ \A j \in 1..i : chars[j] = args[j] /\ j \in 1..Len(args)
      OBVIOUS
    <2> HIDE DEF chars
    <2>2. open[0] = TopLevel /\ \A j \in 1..Len(chars) : open[j] = OpenStep(open[j - 1], chars[j])
      BY <1>1, <2>1 DEF OpenFollows
    <2>3. LeftOpen(chars) = open[Len(chars)]
      BY <2>1, <2>2, OpenIs
    <2> QED
      BY <2>1, <2>3 DEF chars
  <1> QED
    BY <1>1, <1>2

\* What split_args is in before a character.
Walking(in, depth, skip) == [in |-> in, depth |-> depth, skip |-> skip]
WalkStates == [in : Insides, depth : Nat, skip : BOOLEAN]
WalkStep(s, c, next) ==
  CASE s.skip -> [s EXCEPT !.skip = FALSE]
    [] ~s.skip /\ s.in \in Quotes /\ c = s.in ->
         IF next = c THEN [s EXCEPT !.skip = TRUE] ELSE [s EXCEPT !.in = "sql"]
    [] ~s.skip /\ s.in = "--" /\ c = LineEnd -> [s EXCEPT !.in = "sql"]
    [] ~s.skip /\ s.in = "/*" /\ c = "*/" -> [s EXCEPT !.in = "sql"]
    [] ~s.skip /\ s.in = "sql" /\ c \in Quotes \union {"--", "/*"} -> [s EXCEPT !.in = c]
    [] ~s.skip /\ s.in = "sql" /\ c = "(" -> [s EXCEPT !.depth = @ + 1]
    [] ~s.skip /\ s.in = "sql" /\ c = ")" /\ s.depth > 0 -> [s EXCEPT !.depth = @ - 1]
    [] OTHER -> s
After(args, i) == IF i + 1 <= Len(args) THEN args[i + 1] ELSE "end"

\* split_args' step, against the coordinator's.
LEMMA WalkSteps ==
  ASSUME NEW s \in WalkStates, NEW c, NEW next
  PROVE  LET o == OpenStep(Opening(s.in, s.depth), c)
         IN /\ s.skip => WalkStep(s, c, next) = Walking(s.in, s.depth, FALSE)
            /\ ~s.skip /\ s.in \in Quotes /\ c = s.in /\ next = c =>
                 WalkStep(s, c, next) = Walking(s.in, s.depth, TRUE)
            /\ ~s.skip /\ ~(s.in \in Quotes /\ c = s.in /\ next = c) =>
                 WalkStep(s, c, next) = Walking(o.in, o.depth, FALSE)
  <1>1. PICK in \in Insides, d \in Nat, skip \in BOOLEAN : s.in = in /\ s.depth = d /\ s.skip = skip
    BY DEF WalkStates
  <1>2. s = Walking(in, d, skip)
    BY <1>1 DEF WalkStates, Walking
  <1>3. \A x : /\ [s EXCEPT !.in = x] = Walking(x, d, skip)
               /\ [s EXCEPT !.depth = x] = Walking(in, x, skip)
               /\ [s EXCEPT !.skip = x] = Walking(in, d, x)
    BY <1>2 DEF Walking
  <1> DEFINE t == WalkStep(s, c, next)
             o == OpenStep(Opening(in, d), c)
  <1>4. ASSUME skip PROVE t = Walking(in, d, FALSE)
    <2>1. t = [s EXCEPT !.skip = FALSE]
      BY <1>1, <1>4 DEF WalkStep
    <2> HIDE DEF t
    <2> QED
      BY <1>3, <2>1, Zenon
  <1>5. ASSUME ~skip /\ in \in Quotes /\ c = in /\ next = c PROVE t = Walking(in, d, TRUE)
    <2>0. ~s.skip /\ s.in \in Quotes /\ c = s.in /\ next = c
      BY <1>1, <1>5
    <2>1. t = [s EXCEPT !.skip = TRUE]
      BY <2>0 DEF WalkStep, Quotes
    <2> HIDE DEF t
    <2> QED
      BY <1>3, <2>1, Zenon
  <1>6. ASSUME ~skip /\ ~(in \in Quotes /\ c = in /\ next = c)
        PROVE  t = Walking(o.in, o.depth, FALSE)
    <2> DEFINE u == Opening(in, d)
    <2>1. u \in OpenStates /\ u.in = in /\ u.depth = d
      BY DEF Opening, OpenStates
    <2>2. \A x, y : Opening(x, y).in = x /\ Opening(x, y).depth = y
      BY DEF Opening
    <2>0. s = Walking(in, d, FALSE)
      BY <1>2, <1>6
    <2>3. /\ in = "sql" /\ c \in Quotes \union {"--", "/*"} => o = Opening(c, d)
          /\ in = "sql" /\ c = "(" => o = Opening("sql", d + 1)
          /\ in = "sql" /\ c = ")" /\ d > 0 => o = Opening("sql", d - 1)
          /\ in = "sql" /\ c = ")" /\ ~(d > 0) => o = Opening("sql", d)
          /\ in = "sql" /\ c \notin Quotes \union {"--", "/*", "(", ")"} => o = Opening("sql", d)
          /\ in \in Quotes /\ c = in => o = Opening("sql", d)
          /\ in \in Quotes /\ c # in => o = Opening(in, d)
          /\ in = "--" /\ c = LineEnd => o = Opening("sql", d)
          /\ in = "--" /\ c # LineEnd => o = Opening(in, d)
          /\ in = "/*" /\ c = "*/" => o = Opening("sql", d)
          /\ in = "/*" /\ c # "*/" => o = Opening(in, d)
      <3>1. o = OpenStep(u, c) /\ u = Opening(in, d)
        OBVIOUS
      <3> HIDE DEF u, o
      <3> QED
        BY <2>1, <3>1, OpenSteps
    <2>4. CASE in = "sql"
      <3>1. CASE c \in Quotes \union {"--", "/*"}
        <4>1. t = [s EXCEPT !.in = c]
          BY <1>1, <1>6, <2>4, <3>1 DEF WalkStep, Quotes
        <4>3. o = Opening(c, d)
          BY <2>3, <2>4, <3>1
        <4>4. t = Walking(c, d, skip)
          <5> HIDE DEF t
          <5> QED
            BY <1>3, <4>1, Zenon
        <4>5. skip = FALSE
          BY <1>6
        <4> HIDE DEF t, o
        <4> QED
          BY <2>2, <4>3, <4>4, <4>5
      <3>2. CASE c = "("
        <4>1. t = [s EXCEPT !.depth = d + 1]
          BY <1>1, <1>6, <2>4, <3>2 DEF WalkStep, Quotes
        <4>3. o = Opening("sql", d + 1)
          BY <2>3, <2>4, <3>2
        <4>4. t = Walking(in, d + 1, skip)
          <5> HIDE DEF t
          <5> QED
            BY <1>3, <4>1, Zenon
        <4>5. skip = FALSE
          BY <1>6
        <4> HIDE DEF t, o
        <4> QED
          BY <2>2, <2>4, <4>3, <4>4, <4>5
      <3>3. CASE c = ")" /\ d > 0
        <4>1. t = [s EXCEPT !.depth = d - 1]
          BY <1>1, <1>6, <2>4, <3>3 DEF WalkStep, Quotes
        <4>3. o = Opening("sql", d - 1)
          BY <2>3, <2>4, <3>3
        <4>4. t = Walking(in, d - 1, skip)
          <5> HIDE DEF t
          <5> QED
            BY <1>3, <4>1, Zenon
        <4>5. skip = FALSE
          BY <1>6
        <4> HIDE DEF t, o
        <4> QED
          BY <2>2, <2>4, <4>3, <4>4, <4>5
      <3>4. CASE c = ")" /\ ~(d > 0)
        <4>1. t = s
          BY <1>1, <1>6, <2>4, <3>4 DEF WalkStep, Quotes
        <4>2. o = Opening("sql", d)
          BY <2>3, <2>4, <3>4
        <4> HIDE DEF t, o
        <4> QED
          BY <2>0, <2>2, <2>4, <4>1, <4>2
      <3>5. CASE c \notin Quotes \union {"--", "/*", "(", ")"}
        <4>1. t = s
          BY <1>1, <1>6, <2>4, <3>5 DEF WalkStep, Quotes
        <4>2. o = Opening("sql", d)
          BY <2>3, <2>4, <3>5
        <4> HIDE DEF t, o
        <4> QED
          BY <2>0, <2>2, <2>4, <4>1, <4>2
      <3> QED
        BY <3>1, <3>2, <3>3, <3>4, <3>5
    <2>5. CASE in # "sql"
      <3> DEFINE closes == \/ in \in Quotes /\ c = in
                           \/ in = "--" /\ c = LineEnd
                           \/ in = "/*" /\ c = "*/"
      <3>1. CASE closes
        <4>1. t = [s EXCEPT !.in = "sql"]
          BY <1>1, <1>6, <2>5, <3>1 DEF WalkStep, Quotes
        <4>3. o = Opening("sql", d)
          BY <2>3, <3>1
        <4>4. t = Walking("sql", d, skip)
          <5> HIDE DEF t
          <5> QED
            BY <1>3, <4>1, Zenon
        <4>5. skip = FALSE
          BY <1>6
        <4> HIDE DEF t, o
        <4> QED
          BY <2>2, <4>3, <4>4, <4>5
      <3>2. CASE ~closes
        <4>1. t = s
          BY <1>1, <1>6, <2>5, <3>2 DEF WalkStep
        <4>2. in \in Quotes \/ in = "--" \/ in = "/*"
          BY <2>5 DEF Insides
        <4>3. o = Opening(in, d)
          <5> HIDE DEF o
          <5> QED
            BY <2>3, <3>2, <4>2
        <4> HIDE DEF t, o
        <4> QED
          BY <2>0, <2>2, <4>1, <4>3
      <3> QED
        BY <3>1, <3>2
    <2> QED
      BY <2>4, <2>5
  <1> QED
    BY <1>1, <1>4, <1>5, <1>6

LEMMA WalkStepType ==
  ASSUME NEW s \in WalkStates, NEW c, NEW next
  PROVE  WalkStep(s, c, next) \in WalkStates
  <1>1. s.in \in Insides /\ s.depth \in Nat /\ s.skip \in BOOLEAN
    BY DEF WalkStates
  <1>2. \A in \in Insides, d \in Nat, skip \in BOOLEAN : Walking(in, d, skip) \in WalkStates
    BY DEF Walking, WalkStates
  <1> DEFINE o == OpenStep(Opening(s.in, s.depth), c)
  <1>3. Opening(s.in, s.depth) \in OpenStates
    BY <1>1 DEF Opening, OpenStates
  <1>4. o.in \in Insides /\ o.depth \in Nat
    BY <1>3, OpenStepType, OpenStatesAre
  <1> HIDE DEF o
  <1>5. WalkStep(s, c, next) \in {Walking(s.in, s.depth, FALSE), Walking(s.in, s.depth, TRUE), Walking(o.in, o.depth, FALSE)}
    BY <1>1, WalkSteps DEF o
  <1> QED
    BY <1>1, <1>2, <1>4, <1>5

\* The walk.
Walks(walk, args) ==
  /\ walk \in [1..(Len(args) + 1) -> WalkStates] /\ walk[1] = Walking("sql", 0, FALSE)
  /\ \A i \in 1..Len(args) : walk[i + 1] = WalkStep(walk[i], args[i], After(args, i))

LEMMA WalkUnfolds ==
  ASSUME NEW args \in Seq(Texts)
  PROVE  Walks(Walk(args), args)
  <1> DEFINE n == Len(args)
             m == n + 1
             start == Walking("sql", 0, FALSE)
             Before(i, s) == WalkStep(s, args[i - 1], IF (i - 1) + 1 <= Len(args) THEN args[(i - 1) + 1] ELSE "end")
             step == [w \in (2..m) \X WalkStates |-> Before(w[1], w[2])]
             Equation(g) == g = [i \in 1..m |-> IF i = 1 THEN start ELSE Before(i, g[i - 1])]
             walk == CHOOSE g : Equation(g)
  <1>1. n \in Nat /\ m \in Nat /\ 1 \in Nat /\ 1 <= m /\ start \in WalkStates
    BY DEF Walking, WalkStates, Insides
  <1>2. \A i \in 2..m, s \in WalkStates : Before(i, s) \in WalkStates
    BY WalkStepType
  <1>3. Walk(args) = walk
    BY DEF Walk, WalkStep, Walking
  <1>4. \A i \in 2..m : \A s : Before(i, s) = WalkStep(s, args[i - 1], After(args, i - 1))
    <2> SUFFICES ASSUME NEW i \in 2..m, NEW s
                 PROVE  Before(i, s) = WalkStep(s, args[i - 1], After(args, i - 1))
      OBVIOUS
    <2> QED
      BY DEF After
  <1> HIDE DEF Before, start, m
  <1>5. step \in Steps(1, m, WalkStates)
    <2>1. step \in [(2..m) \X WalkStates -> WalkStates]
      BY <1>2
    <2> HIDE DEF step
    <2> QED
      BY <2>1 DEF Steps
  <1>6. PICK f \in [1..m -> WalkStates] : Follows(f, 1, m, start, step)
    <2> HIDE DEF step
    <2> QED
      BY <1>1, <1>5, Recursion
  <1>7. \A i \in 2..m : f[i] = Before(i, f[i - 1])
    <2> TAKE i \in 2..m
    <2>1. f[i - 1] \in WalkStates /\ i \in (1 + 1)..m
      BY <1>1
    <2>2. step[<<i, f[i - 1]>>] = Before(i, f[i - 1])
      BY <2>1
    <2> HIDE DEF step
    <2> QED
      BY <1>6, <2>1, <2>2 DEF Follows
  <1>8. Equation(f)
    <2>1. f[1] = start
      BY <1>6 DEF Follows
    <2> HIDE DEF step
    <2>2. \A i \in 1..m : f[i] = IF i = 1 THEN start ELSE Before(i, f[i - 1])
      <3> TAKE i \in 1..m
      <3>1. i = 1 \/ i \in 2..m
        BY <1>1
      <3>2. CASE i = 1
        BY <2>1, <3>2
      <3>3. CASE i # 1
        BY <1>7, <3>1, <3>3
      <3> QED
        BY <3>2, <3>3
    <2> QED
      BY <2>2
  <1>9. Equation(walk)
    <2> HIDE DEF Equation
    <2> QED
      BY <1>8
  <1> HIDE DEF walk, step
  <1>10. walk[1] = start /\ \A i \in 2..m : walk[i] = Before(i, walk[i - 1])
    <2>1. walk = [i \in 1..m |-> IF i = 1 THEN start ELSE Before(i, walk[i - 1])]
      BY <1>9
    <2> HIDE DEF Equation
    <2>2. 1 \in 1..m
      BY <1>1
    <2>3. \A i \in 2..m : i \in 1..m /\ i # 1
      BY <1>1
    <2> QED
      BY <2>1, <2>2, <2>3
  <1> DEFINE S == {i \in 1..m : walk[i] \in WalkStates}
  <1>11. 1..m \subseteq S
    <2>1. 1 \in S
      BY <1>1, <1>10
    <2>2. ASSUME NEW i \in 1..(m - 1), i \in S PROVE i + 1 \in S
      <3>1. i + 1 \in 2..m /\ (i + 1) - 1 = i /\ i + 1 \in 1..m
        BY <1>1
      <3>2. walk[i] \in WalkStates /\ walk[i + 1] = Before(i + 1, walk[i])
        BY <1>10, <2>2, <3>1
      <3> QED
        BY <1>2, <3>1, <3>2
    <2> HIDE DEF S
    <2> QED
      BY <1>1, <2>1, <2>2, SetInduction
  <1>12. walk \in [1..m -> WalkStates]
    <2>1. walk = [i \in 1..m |-> IF i = 1 THEN start ELSE Before(i, walk[i - 1])]
      BY <1>9
    <2>2. walk = [i \in 1..m |-> walk[i]]
      BY <2>1
    <2> HIDE DEF Equation
    <2> QED
      BY <1>11, <2>2
  <1>13. \A i \in 1..n : walk[i + 1] = WalkStep(walk[i], args[i], After(args, i))
    <2> SUFFICES ASSUME NEW i \in 1..n PROVE walk[i + 1] = WalkStep(walk[i], args[i], After(args, i))
      OBVIOUS
    <2>1. i + 1 \in 2..m /\ (i + 1) - 1 = i
      BY <1>1 DEF m
    <2> QED
      BY <1>4, <1>10, <2>1
  <1> QED
    BY <1>3, <1>10, <1>12, <1>13 DEF Walks, m, n, start

\* split_args, before character i, against the coordinator: of a doubled quote the
\* coordinator has read the first as an end.
Alike(w, o, args, i) ==
  /\ w \in WalkStates /\ o \in OpenStates
  /\ ~w.skip => o = Opening(w.in, w.depth)
  /\ w.skip => i <= Len(args) /\ w.in \in Quotes /\ args[i] = w.in /\ o = Opening("sql", w.depth)

LEMMA AlikeAgain ==
  ASSUME NEW w \in WalkStates, NEW o \in OpenStates, NEW args, NEW i,
         \/ ~w.skip /\ o = Opening(w.in, w.depth)
         \/ w.skip /\ i <= Len(args) /\ w.in \in Quotes /\ args[i] = w.in /\ o = Opening("sql", w.depth)
  PROVE  Alike(w, o, args, i)
  BY DEF Alike

LEMMA AlikeStep ==
  ASSUME NEW args \in Seq(Texts), NEW i \in 1..Len(args), NEW w, NEW o, Alike(w, o, args, i)
  PROVE  Alike(WalkStep(w, args[i], After(args, i)), OpenStep(o, args[i]), args, i + 1)
  <1> DEFINE c == args[i]
             next == After(args, i)
             w1 == WalkStep(w, c, next)
             o1 == OpenStep(o, c)
  <1>1. w \in WalkStates /\ o \in OpenStates /\ w.in \in Insides /\ w.depth \in Nat /\ w.skip \in BOOLEAN
    BY DEF Alike, WalkStates
  <1>2. w1 \in WalkStates /\ o1 \in OpenStates /\ o1 = Opening(o1.in, o1.depth)
    BY <1>1, WalkStepType, OpenStepType, OpenStatesAre
  <1>3. \A x, y : Opening(x, y).in = x /\ Opening(x, y).depth = y
    BY DEF Opening
  <1>4. \A x, y, z : Walking(x, y, z).in = x /\ Walking(x, y, z).depth = y /\ (z \in BOOLEAN => Walking(x, y, z).skip = z)
    BY DEF Walking
  <1>5. CASE w.skip
    <2>1. c = w.in /\ c \in Quotes /\ o = Opening("sql", w.depth)
      BY <1>5 DEF Alike
    <2>2. w1 = Walking(w.in, w.depth, FALSE)
      BY <1>1, <1>5, WalkSteps
    <2>3. o1 = Opening(c, w.depth)
      <3>1. o.in = "sql" /\ o.depth = w.depth
        BY <1>3, <2>1
      <3> QED
        BY <1>1, <2>1, <3>1, OpenSteps
    <2>4. w1.in = w.in /\ w1.depth = w.depth /\ ~w1.skip
      BY <2>2 DEF Walking
    <2> HIDE DEF c, w1, o1
    <2>5. Alike(w1, o1, args, i + 1)
      BY <1>2, <2>1, <2>3, <2>4 DEF Alike
    <2> QED
      BY <2>5 DEF c, w1, o1
  <1>6. CASE ~w.skip /\ w.in \in Quotes /\ c = w.in /\ next = c
    <2>1. w1 = Walking(w.in, w.depth, TRUE)
      BY <1>1, <1>6, WalkSteps
    <2>2. o = Opening(w.in, w.depth)
      BY <1>6 DEF Alike
    <2>3. o1 = Opening("sql", w.depth)
      <3>1. o.in = w.in /\ o.depth = w.depth
        BY <1>3, <2>2
      <3> QED
        BY <1>1, <1>6, <3>1, OpenSteps
    <2>4. i + 1 <= Len(args) /\ args[i + 1] = w.in
      BY <1>6 DEF After, Quotes
    <2>5. w1.in = w.in /\ w1.depth = w.depth /\ w1.skip
      BY <2>1 DEF Walking
    <2> HIDE DEF c, w1, o1, next
    <2>7. w1.in \in Quotes /\ args[i + 1] = w1.in /\ o1 = Opening("sql", w1.depth)
      BY <1>6, <2>3, <2>4, <2>5
    <2>6. Alike(w1, o1, args, i + 1)
      BY <1>2, <2>4, <2>5, <2>7, AlikeAgain
    <2> QED
      BY <2>6 DEF c, w1, o1, next
  <1>7. CASE ~w.skip /\ ~(w.in \in Quotes /\ c = w.in /\ next = c)
    <2>1. o = Opening(w.in, w.depth)
      BY <1>7 DEF Alike
    <2> DEFINE o2 == OpenStep(Opening(w.in, w.depth), c)
    <2>6. w1 = Walking(o2.in, o2.depth, FALSE)
      BY <1>1, <1>7, WalkSteps
    <2>2. w1 = Walking(o1.in, o1.depth, FALSE)
      BY <2>1, <2>6
    <2>3. w1.in = o1.in /\ w1.depth = o1.depth /\ ~w1.skip
      <3> HIDE DEF o1, w1
      <3> QED
        BY <2>2 DEF Walking
    <2> HIDE DEF c, w1, o1, next
    <2>5. o1 = Opening(w1.in, w1.depth)
      BY <1>2, <2>3
    <2>4. Alike(w1, o1, args, i + 1)
      BY <1>2, <2>3, <2>5, AlikeAgain
    <2> QED
      BY <2>4 DEF c, w1, o1, next
  <1> QED
    BY <1>5, <1>6, <1>7

LEMMA WalkAgrees ==
  ASSUME NEW args \in Seq(Texts), NEW open, OpenFollows(open, args), NEW walk, Walks(walk, args),
         NEW i \in 1..(Len(args) + 1)
  PROVE  Alike(walk[i], open[i - 1], args, i)
  <1> DEFINE n == Len(args)
             S == {j \in 1..(n + 1) : Alike(walk[j], open[j - 1], args, j)}
  <1>1. n \in Nat /\ 1 \in Nat /\ n + 1 \in Nat
    OBVIOUS
  <1>2. 1 \in S
    <2>5. 1 \in 1..(Len(args) + 1)
      OBVIOUS
    <2>1. walk[1] = Walking("sql", 0, FALSE) /\ walk[1] \in WalkStates
      BY <2>5 DEF Walks
    <2>2. open[0] = Opening("sql", 0) /\ open[0] \in OpenStates
      BY TopLevelType DEF OpenFollows
    <2>3. walk[1].in = "sql" /\ walk[1].depth = 0 /\ ~walk[1].skip
      BY <2>1 DEF Walking
    <2>4. Alike(walk[1], open[0], args, 1)
      BY <2>1, <2>2, <2>3 DEF Alike
    <2> QED
      BY <1>1, <2>4
  <1>3. ASSUME NEW j \in 1..((n + 1) - 1), j \in S PROVE j + 1 \in S
    <2>1. j \in 1..n /\ j + 1 \in 1..(n + 1) /\ (j + 1) - 1 = j
      BY <1>1
    <2>2. walk[j + 1] = WalkStep(walk[j], args[j], After(args, j)) /\ open[j] = OpenStep(open[j - 1], args[j])
      BY <2>1 DEF Walks, OpenFollows
    <2>3. Alike(walk[j + 1], open[j], args, j + 1)
      BY <1>3, <2>1, <2>2, AlikeStep
    <2> QED
      BY <2>1, <2>3
  <1>4. i \in S
    <2> HIDE DEF S, n
    <2>1. 1..(n + 1) \subseteq S
      BY <1>1, <1>2, <1>3, SetInduction
    <2> QED
      BY <2>1 DEF n
  <1> QED
    BY <1>4

LEMMA AlikeAtComma ==
  ASSUME NEW w, NEW o, NEW args, NEW i, Alike(w, o, args, i), args[i] = ","
  PROVE  o = Opening("sql", 0) <=> w.in = "sql" /\ w.depth = 0
  <1>1. ~w.skip
    BY DEF Alike, Quotes
  <1>2. o = Opening(w.in, w.depth)
    BY <1>1 DEF Alike
  <1>3. o.in = w.in /\ o.depth = w.depth /\ Opening("sql", 0).in = "sql" /\ Opening("sql", 0).depth = 0
    BY <1>2 DEF Opening
  <1> QED
    BY <1>2, <1>3

\* split_args cuts at the coordinator's commas.
LEMMA CutsAreSeparators ==
  ASSUME NEW args \in Seq(Texts), NEW i \in 1..Len(args)
  PROVE  (args[i] = "," /\ Walk(args)[i].in = "sql" /\ Walk(args)[i].depth = 0) <=> i \in Separators(args)
  <1>1. PICK open : OpenFollows(open, args) /\ \A j \in 0..Len(args) : LeftOpen(SubSeq(args, 1, j)) = open[j]
    BY OpenAlong
  <1> DEFINE w == Walk(args)[i]
             o == open[i - 1]
  <1>2. i \in 1..(Len(args) + 1) /\ i - 1 \in 0..Len(args) /\ i \in DOMAIN args
    OBVIOUS
  <1>3. Alike(w, o, args, i)
    BY <1>1, <1>2, WalkUnfolds, WalkAgrees
  <1>4. LeftOpen(SubSeq(args, 1, i - 1)) = o
    BY <1>1, <1>2
  <1>5. i \in Separators(args) <=> args[i] = "," /\ o = Opening("sql", 0)
    BY <1>2, <1>4, TopLevelType DEF Separators
  <1>6. args[i] = "," => (o = Opening("sql", 0) <=> w.in = "sql" /\ w.depth = 0)
    <2> HIDE DEF w, o
    <2> QED
      BY <1>3, AlikeAtComma
  <1> HIDE DEF w, o
  <1> QED
    BY <1>5, <1>6 DEF w

\* How many of a set of places lie before one.
Earlier(S, i) == {j \in S : j < i}

LEMMA EarlierCounts ==
  ASSUME NEW n \in Nat, NEW S, S \subseteq 1..n
  PROVE  /\ \A i \in 1..(n + 1) : Cardinality(Earlier(S, i)) \in Nat
         /\ Cardinality(Earlier(S, 1)) = 0 /\ Earlier(S, n + 1) = S
         /\ \A i \in 1..n : Cardinality(Earlier(S, i + 1)) =
              IF i \in S THEN Cardinality(Earlier(S, i)) + 1 ELSE Cardinality(Earlier(S, i))
  <1>0. \A j \in S : j \in Int /\ 1 <= j /\ j < n + 1
    OBVIOUS
  <1>1. IsFiniteSet(S)
    <2>1. IsFiniteSet(1..n)
      BY FS_Interval
    <2> QED
      BY <2>1, FS_Subset
  <1>2. \A i : IsFiniteSet(Earlier(S, i)) /\ Cardinality(Earlier(S, i)) \in Nat
    <2> TAKE i
    <2>1. Earlier(S, i) \subseteq S
      BY DEF Earlier
    <2>2. IsFiniteSet(Earlier(S, i))
      BY <1>1, <2>1, FS_Subset
    <2> QED
      BY <2>2, FS_CardinalityType
  <1>3. Earlier(S, 1) = {} /\ Earlier(S, n + 1) = S
    <2>1. \A j \in S : ~(j < 1) /\ j < n + 1
      BY <1>0
    <2> QED
      BY <2>1, Zenon DEF Earlier
  <1>4. Cardinality(Earlier(S, 1)) = 0
    BY <1>3, FS_EmptySet
  <1>5. ASSUME NEW i \in 1..n
        PROVE  Cardinality(Earlier(S, i + 1)) =
                 IF i \in S THEN Cardinality(Earlier(S, i)) + 1 ELSE Cardinality(Earlier(S, i))
    <2>1. CASE i \in S
      <3>0. \A j \in S : (j < i + 1 <=> j < i \/ j = i) /\ ~(i < i)
        BY <1>0
      <3>1. Earlier(S, i + 1) = Earlier(S, i) \union {i} /\ i \notin Earlier(S, i)
        BY <2>1, <3>0, Zenon DEF Earlier
      <3>2. Cardinality(Earlier(S, i) \union {i}) = Cardinality(Earlier(S, i)) + 1
        BY <1>2, <3>1, FS_AddElement
      <3> QED
        BY <2>1, <3>1, <3>2
    <2>2. CASE i \notin S
      <3>0. \A j \in S : (j < i + 1 <=> j < i \/ j = i) /\ j # i
        BY <1>0, <2>2
      <3>1. Earlier(S, i + 1) = Earlier(S, i)
        BY <3>0, Zenon DEF Earlier
      <3> QED
        BY <2>2, <3>1
    <2> QED
      BY <2>1, <2>2
  <1> QED
    BY <1>2, <1>3, <1>4, <1>5

\* A sequence of places holds those of S up to i, in order.
Holds(at, S, i) ==
  /\ Len(at) = Cardinality(Earlier(S, i + 1))
  /\ \A k \in 1..Len(at) : at[k] \in S /\ at[k] <= i
  /\ \A k \in 1..(Len(at) - 1) : at[k] < at[k + 1]
  /\ \A j \in S : j <= i => /\ Cardinality(Earlier(S, j)) + 1 \in 1..Len(at)
                            /\ at[Cardinality(Earlier(S, j)) + 1] = j

LEMMA HoldsNext ==
  ASSUME NEW n \in Nat, NEW S, S \subseteq 1..n, NEW i \in 0..(n - 1), NEW at \in Seq(1..n), Holds(at, S, i)
  PROVE  Holds(IF i + 1 \in S THEN Append(at, i + 1) ELSE at, S, i + 1)
  <1>0. \A j \in 1..n : j + 1 \in 1..(n + 1) /\ j \in 1..(n + 1)
    OBVIOUS
  <1>1. \A j \in 1..n :
          /\ Cardinality(Earlier(S, j)) \in Nat /\ Cardinality(Earlier(S, j + 1)) \in Nat
          /\ Cardinality(Earlier(S, j + 1)) =
               IF j \in S THEN Cardinality(Earlier(S, j)) + 1 ELSE Cardinality(Earlier(S, j))
    <2>1. \A j \in 1..(n + 1) : Cardinality(Earlier(S, j)) \in Nat
      BY EarlierCounts
    <2>2. \A j \in 1..n : Cardinality(Earlier(S, j + 1)) =
            IF j \in S THEN Cardinality(Earlier(S, j)) + 1 ELSE Cardinality(Earlier(S, j))
      BY EarlierCounts
    <2> QED
      BY <1>0, <2>1, <2>2
  <1>6. i + 1 \in 1..n
    OBVIOUS
  <1>2. /\ Len(at) = Cardinality(Earlier(S, i + 1))
        /\ \A k \in 1..Len(at) : at[k] \in S /\ at[k] <= i /\ at[k] \in 1..n
        /\ \A k \in 1..(Len(at) - 1) : at[k] < at[k + 1]
        /\ \A j \in S : j <= i => /\ Cardinality(Earlier(S, j)) + 1 \in 1..Len(at)
                                  /\ at[Cardinality(Earlier(S, j)) + 1] = j
    BY DEF Holds
  <1>3. \A j \in S : j \in 1..n /\ (j <= i + 1 => j <= i \/ j = i + 1)
    OBVIOUS
  <1>4. CASE i + 1 \in S
    <2> DEFINE m == Len(at)
               longer == Append(at, i + 1)
    <2>1. m \in Nat /\ Len(longer) = m + 1 /\ longer[m + 1] = i + 1 /\ \A k \in 1..m : longer[k] = at[k]
      OBVIOUS
    <2> HIDE DEF longer
    <2>2. Len(longer) = Cardinality(Earlier(S, (i + 1) + 1))
      BY <1>1, <1>2, <1>4, <1>6, <2>1
    <2>3. \A k \in 1..Len(longer) : longer[k] \in S /\ longer[k] <= i + 1
      <3> SUFFICES ASSUME NEW k \in 1..(m + 1) PROVE longer[k] \in S /\ longer[k] <= i + 1
        BY <2>1
      <3>1. CASE k = m + 1
        BY <1>4, <2>1, <3>1
      <3>2. CASE k \in 1..m
        BY <1>2, <2>1, <3>2
      <3> QED
        BY <2>1, <3>1, <3>2
    <2>4. \A k \in 1..(Len(longer) - 1) : longer[k] < longer[k + 1]
      <3> SUFFICES ASSUME NEW k \in 1..m PROVE longer[k] < longer[k + 1]
        BY <2>1
      <3>1. CASE k = m
        BY <1>2, <2>1, <3>1
      <3>2. CASE k # m
        <4>1. k \in 1..(m - 1) /\ k + 1 \in 1..m
          BY <2>1, <3>2
        <4> QED
          BY <1>2, <2>1, <4>1
      <3> QED
        BY <3>1, <3>2
    <2>5. \A j \in S : j <= i + 1 => /\ Cardinality(Earlier(S, j)) + 1 \in 1..Len(longer)
                                     /\ longer[Cardinality(Earlier(S, j)) + 1] = j
      <3> SUFFICES ASSUME NEW j \in S, j <= i + 1
                   PROVE  /\ Cardinality(Earlier(S, j)) + 1 \in 1..(m + 1)
                          /\ longer[Cardinality(Earlier(S, j)) + 1] = j
        BY <2>1
      <3>1. CASE j = i + 1
        BY <1>1, <1>2, <1>6, <2>1, <3>1
      <3>2. CASE j <= i
        BY <1>2, <2>1, <3>2
      <3> QED
        BY <1>3, <3>1, <3>2
    <2>6. Holds(longer, S, i + 1)
      BY <2>2, <2>3, <2>4, <2>5 DEF Holds
    <2> QED
      BY <1>4, <2>6 DEF longer
  <1>5. CASE i + 1 \notin S
    <2>1. Holds(at, S, i + 1)
      <3>1. \A k \in 1..Len(at) : at[k] \in S /\ at[k] <= i + 1
        BY <1>2
      <3>2. \A j \in S : j <= i + 1 => j <= i
        BY <1>3, <1>5
      <3>3. Len(at) = Cardinality(Earlier(S, (i + 1) + 1))
        BY <1>1, <1>2, <1>5, <1>6
      <3> QED
        BY <1>2, <3>1, <3>2, <3>3 DEF Holds
    <2> QED
      BY <1>5, <2>1
  <1> QED
    BY <1>4, <1>5

\* split_args cuts at each separator, in order.
LEMMA CutsInOrder ==
  ASSUME NEW args \in Seq(Texts)
  PROVE  TopCommas(args) \in Seq(1..Len(args)) /\ Holds(TopCommas(args), Separators(args), Len(args))
  <1> DEFINE n == Len(args)
             ends == Separators(args)
             seqs == [i \in DOMAIN args |-> IF i \in ends THEN <<i>> ELSE <<>>]
  <1>1. n \in Nat /\ 0 \in Nat /\ DOMAIN args = 1..n /\ ends \subseteq 1..n
    <2>1. DOMAIN args = 1..n
      OBVIOUS
    <2>2. ends \subseteq DOMAIN args
      BY DEF Separators
    <2> QED
      BY <2>1, <2>2
  <1>2. TopCommas(args) = FlattenSeq(seqs)
    <2> DEFINE Cut(i) == args[i] = "," /\ Walk(args)[i].in = "sql" /\ Walk(args)[i].depth = 0
               cuts == [i \in DOMAIN args |-> IF Cut(i) THEN <<i>> ELSE <<>>]
    <2>1. TopCommas(args) = FlattenSeq(cuts)
      BY DEF TopCommas
    <2>2. \A i \in DOMAIN args : Cut(i) <=> i \in ends
      BY <1>1, CutsAreSeparators
    <2>3. cuts = seqs
      <3> HIDE DEF Cut, ends
      <3> QED
        BY <2>2
    <2> QED
      BY <2>1, <2>3
  <1> HIDE DEF ends
  <1>3. seqs \in Seq(Seq(1..n)) /\ Len(seqs) = n
    <2>1. \A i \in 1..n : <<i>> \in Seq(1..n) /\ <<>> \in Seq(1..n)
      OBVIOUS
    <2>2. seqs \in [1..n -> Seq(1..n)]
      BY <1>1, <2>1
    <2> HIDE DEF seqs, n
    <2> QED
      BY <1>1, <2>2, FunctionIsASeq
  <1>4. PICK f : FlattenFollows(f, 1..n, seqs) /\ FlattenSeq(seqs) = f[n]
    <2> HIDE DEF seqs
    <2> QED
      BY <1>3, FlattenUnfolds
  <1>5. f[0] = <<>> /\ f \in [0..n -> Seq(1..n)] /\ \A i \in 1..n : f[i] = f[i - 1] \o seqs[i]
    <2> HIDE DEF seqs
    <2> QED
      BY <1>3, <1>4 DEF FlattenFollows
  <1>6. \A i \in 1..n : f[i] = IF i \in ends THEN Append(f[i - 1], i) ELSE f[i - 1]
    <2> TAKE i \in 1..n
    <2>1. f[i - 1] \in Seq(1..n) /\ f[i] = f[i - 1] \o seqs[i]
      <3>1. i - 1 \in 0..n
        BY <1>1
      <3> HIDE DEF n, seqs
      <3> QED
        BY <1>5, <3>1
    <2>0. i \in DOMAIN args
      BY <1>1
    <2>2. seqs[i] = IF i \in ends THEN <<i>> ELSE <<>>
      BY <2>0
    <2> HIDE DEF seqs
    <2>3. CASE i \in ends
      <3>1. f[i] = f[i - 1] \o <<i>>
        BY <2>1, <2>2, <2>3
      <3>2. Append(f[i - 1], i) = f[i - 1] \o <<i>>
        <4> HIDE DEF n
        <4> QED
          BY <2>1, ConcatAppend
      <3> QED
        BY <2>3, <3>1, <3>2
    <2>4. CASE i \notin ends
      BY <2>1, <2>2, <2>4
    <2> QED
      BY <2>3, <2>4
  <1> HIDE DEF seqs
  <1> DEFINE S == {i \in 0..n : Holds(f[i], ends, i)}
  <1>7. 0 \in S
    <2>1. Cardinality(Earlier(ends, 0 + 1)) = 0
      <3>1. 0 + 1 = 1
        OBVIOUS
      <3>2. Cardinality(Earlier(ends, 1)) = 0
        <4> HIDE DEF n
        <4> QED
          BY <1>1, EarlierCounts
      <3> QED
        BY <3>1, <3>2
    <2>2. \A j \in ends : ~(j <= 0)
      BY <1>1
    <2>3. Len(f[0]) = 0 /\ 1..0 = {} /\ 1..(0 - 1) = {}
      BY <1>5
    <2>4. Holds(f[0], ends, 0)
      BY <2>1, <2>2, <2>3 DEF Holds
    <2> QED
      BY <1>1, <2>4
  <1>8. ASSUME NEW i \in 0..(n - 1), i \in S PROVE i + 1 \in S
    <2>1. i + 1 \in 1..n /\ (i + 1) - 1 = i /\ i \in 0..n /\ i + 1 \in 0..n
      BY <1>1
    <2>2. f[i] \in Seq(1..n) /\ Holds(f[i], ends, i)
      BY <1>5, <1>8, <2>1
    <2>3. f[i + 1] = IF i + 1 \in ends THEN Append(f[i], i + 1) ELSE f[i]
      BY <1>6, <2>1
    <2>4. Holds(f[i + 1], ends, i + 1)
      <3> HIDE DEF n, S
      <3> QED
        BY <1>1, <2>2, <2>3, HoldsNext
    <2> QED
      BY <2>1, <2>4
  <1>9. n \in S
    <2> HIDE DEF S, n
    <2>1. 0..n \subseteq S
      BY <1>1, <1>7, <1>8, SetInduction
    <2> QED
      BY <1>1, <2>1
  <1>10. f[n] \in Seq(1..n)
    BY <1>1, <1>5
  <1> QED
    BY <1>2, <1>4, <1>9, <1>10 DEF ends

\* The characters of a text that are not blank, each by itself.
SolidPieces(s) == [i \in DOMAIN s |-> IF s[i] \in Blanks THEN <<>> ELSE <<s[i]>>]

LEMMA SolidPiecesType ==
  ASSUME NEW s \in Seq(Texts)
  PROVE  SolidPieces(s) \in Seq(Seq(Texts)) /\ Len(SolidPieces(s)) = Len(s) /\ Solid(s) \in Seq(Texts)
  <1> DEFINE n == Len(s)
             pieces == SolidPieces(s)
  <1>1. n \in Nat /\ DOMAIN s = 1..n /\ \A i \in 1..n : s[i] \in Texts
    OBVIOUS
  <1>2. \A i \in 1..n : <<>> \in Seq(Texts) /\ <<s[i]>> \in Seq(Texts)
    BY <1>1
  <1>3. pieces \in [1..n -> Seq(Texts)]
    BY <1>1, <1>2 DEF SolidPieces
  <1>4. Solid(s) = FlattenSeq(pieces)
    BY DEF Solid, SolidPieces
  <1> HIDE DEF pieces, n
  <1>5. pieces \in Seq(Seq(Texts)) /\ Len(pieces) = n
    BY <1>1, <1>3, FunctionIsASeq
  <1>6. PICK f : FlattenFollows(f, Texts, pieces) /\ FlattenSeq(pieces) = f[n]
    BY <1>5, FlattenUnfolds
  <1>7. f[n] \in Seq(Texts)
    BY <1>1, <1>5, <1>6 DEF FlattenFollows
  <1> QED
    BY <1>4, <1>5, <1>6, <1>7 DEF pieces, n

LEMMA SolidNothing == Solid(<<>>) = <<>>
  <1> DEFINE none == <<>>
             pieces == SolidPieces(none)
  <1>1. none \in Seq(Texts) /\ Len(none) = 0
    OBVIOUS
  <1> HIDE DEF none
  <1>2. Solid(none) = FlattenSeq(pieces)
    BY DEF Solid, SolidPieces
  <1>3. pieces \in Seq(Seq(Texts)) /\ Len(pieces) = 0
    BY <1>1, SolidPiecesType
  <1> HIDE DEF pieces
  <1>4. pieces = <<>>
    BY <1>3
  <1> QED
    BY <1>2, <1>4, FlattenNothing DEF none

LEMMA SolidAppend ==
  ASSUME NEW s \in Seq(Texts), NEW c \in Texts
  PROVE  Solid(Append(s, c)) = IF c \in Blanks THEN Solid(s) ELSE Append(Solid(s), c)
  <1> DEFINE n == Len(s)
             longer == Append(s, c)
             before == SolidPieces(s)
             after == SolidPieces(longer)
             last == IF c \in Blanks THEN <<>> ELSE <<c>>
  <1>1. n \in Nat /\ longer \in Seq(Texts) /\ Len(longer) = n + 1 /\ DOMAIN longer = 1..(n + 1) /\ DOMAIN s = 1..n
    OBVIOUS
  <1>2. longer[n + 1] = c /\ \A i \in 1..n : longer[i] = s[i]
    OBVIOUS
  <1>3. last \in Seq(Texts) /\ <<>> \in Seq(Texts) /\ <<c>> \in Seq(Texts)
    OBVIOUS
  <1> HIDE DEF longer
  <1>4. before \in Seq(Seq(Texts)) /\ Len(before) = n /\ Solid(s) \in Seq(Texts)
    BY SolidPiecesType
  <1>5. Solid(s) = FlattenSeq(before) /\ Solid(longer) = FlattenSeq(after)
    BY DEF Solid, SolidPieces
  <1>6. \A i \in 1..n : before[i] = IF s[i] \in Blanks THEN <<>> ELSE <<s[i]>>
    BY <1>1 DEF SolidPieces
  <1>7. /\ after = [i \in 1..(n + 1) |-> after[i]]
        /\ \A i \in 1..(n + 1) : after[i] = IF longer[i] \in Blanks THEN <<>> ELSE <<longer[i]>>
    BY <1>1 DEF SolidPieces
  <1> HIDE DEF before, after, n
  <1>8. \A i \in 1..n : after[i] = before[i]
    <2> SUFFICES ASSUME NEW i \in 1..n PROVE after[i] = before[i]
      OBVIOUS
    <2>1. i \in 1..(n + 1)
      BY <1>1
    <2> QED
      BY <1>2, <1>6, <1>7, <2>1
  <1>9. after[n + 1] = last
    <2>1. n + 1 \in 1..(n + 1)
      BY <1>1
    <2> QED
      BY <1>2, <1>7, <2>1
  <1> HIDE DEF last
  <1>10. after = Append(before, last)
    <2>1. Grown(after, before, last)
      BY <1>4, <1>7, <1>8, <1>9 DEF Grown
    <2> QED
      BY <1>3, <1>4, <2>1, GrownIsAppended
  <1>11. Solid(longer) = Solid(s) \o last
    BY <1>3, <1>4, <1>5, <1>10, FlattenAppend
  <1>12. Solid(s) \o <<>> = Solid(s) /\ Solid(s) \o <<c>> = Append(Solid(s), c)
    BY <1>4
  <1> QED
    BY <1>11, <1>12 DEF last, longer

\* The blanks of a text are lost part by part.
LEMMA SolidConcat ==
  ASSUME NEW a \in Seq(Texts), NEW b \in Seq(Texts)
  PROVE  Solid(a \o b) = Solid(a) \o Solid(b)
  <1> DEFINE n == Len(b)
             Pre(i) == SubSeq(b, 1, i)
             S == {i \in 0..n : Solid(a \o Pre(i)) = Solid(a) \o Solid(Pre(i))}
  <1>1. n \in Nat /\ 0 \in Nat /\ Solid(a) \in Seq(Texts)
    BY SolidPiecesType
  <1>2. 0 \in S
    <2>1. Pre(0) = <<>>
      BY PrefixEnds
    <2>2. a \o <<>> = a /\ Solid(a) \o <<>> = Solid(a)
      BY <1>1
    <2> HIDE DEF Pre
    <2>3. Solid(a \o Pre(0)) = Solid(a) \o Solid(Pre(0))
      BY <2>1, <2>2, SolidNothing
    <2> QED
      BY <1>1, <2>3
  <1>3. ASSUME NEW i \in 0..(n - 1), i \in S PROVE i + 1 \in S
    <2> DEFINE p == Pre(i)
               c == b[i + 1]
    <2>1. p \in Seq(Texts) /\ c \in Texts /\ Pre(i + 1) = Append(p, c)
      BY PrefixGrows
    <2>2. Solid(a \o p) = Solid(a) \o Solid(p)
      BY <1>3
    <2> HIDE DEF Pre, p, c
    <2>3. a \o p \in Seq(Texts) /\ a \o Append(p, c) = Append(a \o p, c) /\ Solid(p) \in Seq(Texts)
      <3>1. a \o p \in Seq(Texts)
        BY <2>1
      <3>2. a \o Append(p, c) = Append(a \o p, c)
        BY <2>1, ConcatAppend
      <3>3. Solid(p) \in Seq(Texts)
        BY <2>1, SolidPiecesType
      <3> QED
        BY <3>1, <3>2, <3>3
    <2>4. Solid(a) \o Append(Solid(p), c) = Append(Solid(a) \o Solid(p), c)
      BY <1>1, <2>1, <2>3, ConcatAppend
    <2>5. /\ Solid(Append(a \o p, c)) = IF c \in Blanks THEN Solid(a \o p) ELSE Append(Solid(a \o p), c)
          /\ Solid(Append(p, c)) = IF c \in Blanks THEN Solid(p) ELSE Append(Solid(p), c)
      BY <2>1, <2>3, SolidAppend
    <2>6. Solid(a \o Pre(i + 1)) = Solid(a) \o Solid(Pre(i + 1))
      BY <2>1, <2>2, <2>3, <2>4, <2>5
    <2>7. i + 1 \in 0..n
      BY <1>1
    <2> QED
      BY <2>6, <2>7
  <1>4. n \in S
    <2> HIDE DEF S, n
    <2>1. 0..n \subseteq S
      BY <1>1, <1>2, <1>3, SetInduction
    <2> QED
      BY <1>1, <2>1
  <1>5. Pre(n) = b
    BY PrefixEnds
  <1> HIDE DEF Pre, n
  <1> QED
    BY <1>4, <1>5

LEMMA SolidBlank ==
  ASSUME NEW s \in Seq(Texts), \A i \in 1..Len(s) : s[i] \in Blanks
  PROVE  Solid(s) = <<>>
  <1> DEFINE n == Len(s)
             Pre(i) == SubSeq(s, 1, i)
             S == {i \in 0..n : Solid(Pre(i)) = <<>>}
  <1>1. n \in Nat /\ 0 \in Nat
    OBVIOUS
  <1>2. 0 \in S
    <2>1. Pre(0) = <<>>
      BY PrefixEnds
    <2> HIDE DEF Pre
    <2> QED
      BY <1>1, <2>1, SolidNothing
  <1>3. ASSUME NEW i \in 0..(n - 1), i \in S PROVE i + 1 \in S
    <2> DEFINE p == Pre(i)
               c == s[i + 1]
    <2>1. p \in Seq(Texts) /\ c \in Texts /\ Pre(i + 1) = Append(p, c)
      BY PrefixGrows
    <2>2. Solid(p) = <<>>
      BY <1>3
    <2>3. i + 1 \in 0..n /\ i + 1 \in 1..n
      BY <1>1
    <2>4. c \in Blanks
      BY <2>3
    <2> HIDE DEF Pre, p, c
    <2>5. Solid(Pre(i + 1)) = <<>>
      BY <2>1, <2>2, <2>4, SolidAppend
    <2> QED
      BY <2>3, <2>5
  <1>4. n \in S
    <2> HIDE DEF S, n
    <2>1. 0..n \subseteq S
      BY <1>1, <1>2, <1>3, SetInduction
    <2> QED
      BY <1>1, <2>1
  <1>5. Pre(n) = s
    BY PrefixEnds
  <1> HIDE DEF Pre, n
  <1> QED
    BY <1>4, <1>5

\* A set of places has a first and a last.
LEMMA Ends ==
  ASSUME NEW n \in Nat, NEW S, S \subseteq 1..n, S # {}
  PROVE  /\ \E i \in S : \A j \in S : i <= j
         /\ \E i \in S : \A j \in S : j <= i
  <1>1. S \in SUBSET Nat /\ \A j \in S : j \in Nat /\ j <= n
    OBVIOUS
  <1>2. PICK i \in S : \A j \in S : ~(j < i)
    BY <1>1, LeastElement
  <1>3. \A j \in S : i <= j
    BY <1>1, <1>2
  <1> DEFINE T == {n - j : j \in S}
  <1>4. T \in SUBSET Nat /\ T # {}
    BY <1>1
  <1>5. PICK t \in T : \A u \in T : ~(u < t)
    <2> HIDE DEF T
    <2> QED
      BY <1>4, LeastElement
  <1>6. PICK l \in S : t = n - l
    BY <1>5
  <1>7. \A j \in S : n - j \in T
    OBVIOUS
  <1>8. \A j \in S : j <= l
    <2> SUFFICES ASSUME NEW j \in S PROVE j <= l
      OBVIOUS
    <2>1. ~(n - j < n - l)
      BY <1>5, <1>6, <1>7
    <2> QED
      BY <1>1, <2>1
  <1> QED
    BY <1>3, <1>8

LEMMA Splits ==
  ASSUME NEW S, NEW s \in Seq(S), NEW i \in 0..Len(s), NEW j \in i..Len(s)
  PROVE  /\ SubSeq(s, 1, i) \in Seq(S) /\ SubSeq(s, i + 1, j) \in Seq(S)
         /\ SubSeq(s, 1, j) = SubSeq(s, 1, i) \o SubSeq(s, i + 1, j)
  OBVIOUS

\* A trimmed text has lost blanks only.
LEMMA SolidTrim ==
  ASSUME NEW s \in Seq(Texts)
  PROVE  Trim(s) \in Seq(Texts) /\ Solid(Trim(s)) = Solid(s)
  <1> DEFINE n == Len(s)
             solid == {i \in DOMAIN s : s[i] \notin Blanks}
  <1>1. n \in Nat /\ DOMAIN s = 1..n /\ <<>> \in Seq(Texts)
    OBVIOUS
  <1>2. CASE solid = {}
    <2>1. Trim(s) = <<>>
      BY <1>2 DEF Trim
    <2>2. \A i \in 1..n : s[i] \in Blanks
      BY <1>1, <1>2
    <2> QED
      BY <1>1, <2>1, <2>2, SolidBlank, SolidNothing
  <1>3. CASE solid # {}
    <2> DEFINE a == CHOOSE i \in solid : \A j \in solid : i <= j
               b == CHOOSE i \in solid : \A j \in solid : j <= i
               pre == SubSeq(s, 1, a - 1)
               mid == SubSeq(s, a, b)
               post == SubSeq(s, b + 1, n)
    <2>1. solid \subseteq 1..n
      BY <1>1
    <2>2. (\E i \in solid : \A j \in solid : i <= j) /\ (\E i \in solid : \A j \in solid : j <= i)
      <3> HIDE DEF solid, n
      <3> QED
        BY <1>1, <1>3, <2>1, Ends
    <2>3. Trim(s) = mid
      BY <1>3 DEF Trim
    <2>4. a \in solid /\ b \in solid /\ (\A j \in solid : a <= j) /\ (\A j \in solid : j <= b)
      <3> HIDE DEF solid
      <3> QED
        BY <2>2
    <2>5. \A i \in 1..n : s[i] \in Blanks \/ i \in solid
      BY <1>1
    <2> HIDE DEF a, b, solid
    <2>6. a \in 1..n /\ b \in 1..n /\ a <= b
      BY <2>1, <2>4
    <2>7. (a - 1) \in 0..n /\ b \in (a - 1)..n /\ (a - 1) + 1 = a /\ b \in 0..n /\ n \in b..n
      BY <1>1, <2>6
    <2>8. /\ pre \in Seq(Texts) /\ mid \in Seq(Texts) /\ SubSeq(s, 1, b) = pre \o mid
          /\ SubSeq(s, 1, b) \in Seq(Texts) /\ post \in Seq(Texts) /\ s = SubSeq(s, 1, b) \o post
      <3>1. /\ SubSeq(s, 1, a - 1) \in Seq(Texts) /\ SubSeq(s, (a - 1) + 1, b) \in Seq(Texts)
            /\ SubSeq(s, 1, b) = SubSeq(s, 1, a - 1) \o SubSeq(s, (a - 1) + 1, b)
        BY <2>7, Splits
      <3>2. /\ SubSeq(s, 1, b) \in Seq(Texts) /\ SubSeq(s, b + 1, n) \in Seq(Texts)
            /\ SubSeq(s, 1, n) = SubSeq(s, 1, b) \o SubSeq(s, b + 1, n)
        BY <2>7, Splits
      <3>3. SubSeq(s, 1, n) = s
        BY PrefixEnds
      <3> QED
        BY <2>7, <3>1, <3>2, <3>3
    <2>9. Solid(pre) = <<>>
      <3>1. Len(pre) = a - 1 /\ \A i \in 1..(a - 1) : pre[i] = s[i]
        BY <2>6
      <3>2. \A i \in 1..(a - 1) : i \in 1..n /\ i \notin solid
        BY <2>1, <2>4, <2>6
      <3> HIDE DEF pre
      <3> QED
        BY <2>5, <2>8, <3>1, <3>2, SolidBlank
    <2>10. Solid(post) = <<>>
      <3>1. Len(post) = n - b /\ \A i \in 1..(n - b) : post[i] = s[b + i]
        BY <2>6
      <3>2. \A i \in 1..(n - b) : b + i \in 1..n /\ b + i \notin solid
        BY <2>1, <2>4, <2>6
      <3> HIDE DEF post
      <3> QED
        BY <2>5, <2>8, <3>1, <3>2, SolidBlank
    <2> HIDE DEF pre, mid, post
    <2>11. Solid(s) = (Solid(pre) \o Solid(mid)) \o Solid(post)
      <3>1. Solid(s) = Solid(SubSeq(s, 1, b)) \o Solid(post)
        BY <2>8, SolidConcat
      <3>2. Solid(SubSeq(s, 1, b)) = Solid(pre) \o Solid(mid)
        BY <2>8, SolidConcat
      <3> QED
        BY <3>1, <3>2
    <2>12. Solid(mid) \in Seq(Texts)
      BY <2>8, SolidPiecesType
    <2>13. (<<>> \o Solid(mid)) \o <<>> = Solid(mid)
      BY <2>12
    <2> QED
      BY <2>3, <2>8, <2>9, <2>10, <2>11, <2>13
  <1> QED
    BY <1>2, <1>3

\* The places split_args cuts at, with the ends of the text.
CutAt(args, k) ==
  IF k = 0 THEN 0 ELSE IF k = Len(TopCommas(args)) + 1 THEN Len(args) + 1 ELSE TopCommas(args)[k]

Separates(c) == c = ","
Ascends(args) ==
  LET m == Len(TopCommas(args))
  IN /\ m \in Nat /\ CutAt(args, 0) = 0 /\ CutAt(args, m + 1) = Len(args) + 1
     /\ \A k \in 1..m : CutAt(args, k) = TopCommas(args)[k] /\ CutAt(args, k) \in 1..Len(args)
     /\ \A k \in 1..m : Separates(args[CutAt(args, k)])
     /\ \A k \in 0..m : CutAt(args, k) < CutAt(args, k + 1)
     /\ \A k \in 0..(m + 1) : CutAt(args, k) \in 0..(Len(args) + 1)

LEMMA CutsAscend ==
  ASSUME NEW args \in Seq(Texts)
  PROVE  Ascends(args)
  <1> DEFINE at == TopCommas(args)
             m == Len(at)
             n == Len(args)
  <1>1. at \in Seq(1..n) /\ Holds(at, Separators(args), n)
    BY CutsInOrder
  <1> HIDE DEF at
  <1>2. m \in Nat /\ n \in Nat /\ \A k \in 1..m : at[k] \in 1..n
    BY <1>1
  <1>3. /\ \A k \in 1..m : at[k] \in Separators(args)
        /\ \A k \in 1..(m - 1) : at[k] < at[k + 1]
    BY <1>1 DEF Holds
  <1>4. \A k \in 1..m : Separates(args[at[k]])
    BY <1>3 DEF Separators, Separates
  <1>5. CutAt(args, 0) = 0 /\ CutAt(args, m + 1) = n + 1 /\ \A k \in 1..m : CutAt(args, k) = at[k]
    <2>1. m + 1 # 0 /\ \A k \in 1..m : k # 0 /\ k # m + 1
      BY <1>2
    <2> QED
      BY <2>1 DEF CutAt, at
  <1>6. ASSUME NEW k \in 0..m PROVE CutAt(args, k) < CutAt(args, k + 1)
    <2>1. CASE k = 0 /\ m = 0
      BY <1>2, <1>5, <2>1
    <2>2. CASE k = 0 /\ m # 0
      <3>1. 1 \in 1..m
        BY <1>2, <2>2
      <3>2. CutAt(args, 1) = at[1] /\ at[1] \in 1..n
        BY <1>2, <1>5, <3>1
      <3> QED
        BY <1>5, <2>2, <3>2
    <2>3. CASE k # 0 /\ k = m
      <3>1. m \in 1..m
        BY <1>2, <2>3
      <3>2. CutAt(args, m) = at[m] /\ at[m] \in 1..n
        BY <1>2, <1>5, <3>1
      <3> QED
        BY <1>2, <1>5, <2>3, <3>2
    <2>4. CASE k # 0 /\ k # m
      <3>1. k \in 1..m /\ k + 1 \in 1..m /\ k \in 1..(m - 1)
        BY <1>2, <2>4
      <3>2. CutAt(args, k) = at[k] /\ CutAt(args, k + 1) = at[k + 1]
        BY <1>5, <3>1
      <3> QED
        BY <1>3, <3>1, <3>2
    <2> QED
      BY <2>1, <2>2, <2>3, <2>4
  <1>7. ASSUME NEW k \in 0..(m + 1) PROVE CutAt(args, k) \in 0..(n + 1)
    <2>1. k = 0 \/ k \in 1..m \/ k = m + 1
      BY <1>2
    <2>2. CASE k \in 1..m
      <3>1. CutAt(args, k) = at[k] /\ at[k] \in 1..n
        BY <1>2, <1>5, <2>2
      <3> QED
        BY <3>1
    <2>3. CASE k = 0 \/ k = m + 1
      BY <1>2, <1>5, <2>3
    <2> QED
      BY <2>1, <2>2, <2>3
  <1>8. \A k \in 1..m : CutAt(args, k) = at[k] /\ CutAt(args, k) \in 1..n /\ Separates(args[CutAt(args, k)])
    <2> TAKE k \in 1..m
    <2>1. CutAt(args, k) = at[k] /\ at[k] \in 1..n /\ Separates(args[at[k]])
      BY <1>2, <1>4, <1>5
    <2> QED
      BY <2>1
  <1> QED
    BY <1>2, <1>5, <1>6, <1>7, <1>8 DEF at, Ascends

\* An argument is what is between two cuts, without its blanks.
LEMMA Between ==
  ASSUME NEW args \in Seq(Texts), NEW i \in 0..Len(args), NEW j \in 1..(Len(args) + 1), i < j
  PROVE  SubSeq(args, i + 1, j - 1) \in Seq(Texts)
  OBVIOUS

LEMMA PartsAre ==
  ASSUME NEW args \in Seq(Texts)
  PROVE  LET parts == split_args(args)
             m == Len(TopCommas(args))
         IN /\ parts \in Seq(Seq(Texts)) /\ Len(parts) = m + 1
            /\ \A k \in 1..(m + 1) :
                 /\ parts[k] \in Seq(Texts)
                 /\ Solid(parts[k]) = Solid(SubSeq(args, CutAt(args, k - 1) + 1, CutAt(args, k) - 1))
  <1> DEFINE at == TopCommas(args)
             m == Len(at)
             n == Len(args)
             parts == split_args(args)
             Part(k) == SubSeq(args, CutAt(args, k - 1) + 1, CutAt(args, k) - 1)
  <1>1. m \in Nat /\ n \in Nat
    <2>1. m \in Nat
      BY CutsAscend, Zenon DEF Ascends
    <2> QED
      BY <2>1
  <1>2. /\ parts = [k \in 1..(m + 1) |-> parts[k]]
        /\ \A k \in 1..(m + 1) :
             parts[k] = Trim(SubSeq(args, IF k = 1 THEN 1 ELSE at[k - 1] + 1, IF k = m + 1 THEN n ELSE at[k] - 1))
    BY DEF split_args
  <1>3. ASSUME NEW k \in 1..(m + 1)
        PROVE  /\ CutAt(args, k - 1) + 1 = IF k = 1 THEN 1 ELSE at[k - 1] + 1
               /\ CutAt(args, k) - 1 = IF k = m + 1 THEN n ELSE at[k] - 1
    <2>0. \A j \in 1..m : CutAt(args, j) = at[j]
      BY CutsAscend DEF Ascends
    <2>2. k # 1 => CutAt(args, k - 1) = at[k - 1]
      <3>1. k # 1 => k - 1 \in 1..m
        BY <1>1
      <3> QED
        BY <2>0, <3>1
    <2>3. k # m + 1 => CutAt(args, k) = at[k]
      <3>1. k # m + 1 => k \in 1..m
        BY <1>1
      <3> QED
        BY <2>0, <3>1
    <2>4. CutAt(args, m + 1) = n + 1 /\ CutAt(args, 0) = 0 /\ (n + 1) - 1 = n
      <3>1. CutAt(args, m + 1) = n + 1 /\ CutAt(args, 0) = 0
        BY CutsAscend, Zenon DEF Ascends
      <3> QED
        BY <1>1, <3>1
    <2>5. CutAt(args, k - 1) + 1 = IF k = 1 THEN 1 ELSE at[k - 1] + 1
      <3> HIDE DEF at, m
      <3>1. k = 1 => k - 1 = 0
        OBVIOUS
      <3> QED
        BY <2>2, <2>4, <3>1
    <2>6. CutAt(args, k) - 1 = IF k = m + 1 THEN n ELSE at[k] - 1
      <3> HIDE DEF at, m, n
      <3> QED
        BY <2>3, <2>4
    <2> QED
      BY <2>5, <2>6
  <1>4. ASSUME NEW k \in 1..(m + 1)
        PROVE  parts[k] \in Seq(Texts) /\ Solid(parts[k]) = Solid(Part(k))
    <2>1. parts[k] = Trim(Part(k))
      <3> HIDE DEF parts, at, m, n
      <3> QED
        BY <1>2, <1>3 DEF Part
    <2>2. Part(k) \in Seq(Texts)
      <3>1. k - 1 \in 0..m /\ (k - 1) + 1 = k /\ k - 1 \in 0..(m + 1) /\ k \in 0..(m + 1)
        BY <1>1
      <3>2. \A j \in 0..m : CutAt(args, j) < CutAt(args, j + 1)
        BY CutsAscend DEF Ascends
      <3>3. \A j \in 0..(m + 1) : CutAt(args, j) \in 0..(n + 1)
        BY CutsAscend DEF Ascends
      <3>4. /\ CutAt(args, k - 1) < CutAt(args, k)
            /\ CutAt(args, k - 1) \in 0..(n + 1) /\ CutAt(args, k) \in 0..(n + 1)
        BY <3>1, <3>2, <3>3
      <3>5. CutAt(args, k - 1) \in 0..n /\ CutAt(args, k) \in 1..(n + 1)
        BY <1>1, <3>4
      <3> QED
        BY <3>4, <3>5, Between
    <2> HIDE DEF Part, parts, m
    <2> QED
      BY <2>1, <2>2, SolidTrim
  <1>5. parts \in Seq(Seq(Texts)) /\ Len(parts) = m + 1
    <2> HIDE DEF parts
    <2>1. m + 1 \in Nat
      BY <1>1
    <2>2. parts \in [1..(m + 1) -> Seq(Texts)]
      <3>1. \A k \in 1..(m + 1) : parts[k] \in Seq(Texts)
        BY <1>4
      <3> HIDE DEF m
      <3> QED
        BY <1>2, <3>1
    <2> HIDE DEF m
    <2> QED
      BY <2>1, <2>2, FunctionIsASeq
  <1> QED
    BY <1>4, <1>5

\* The parts of a list, each after the first with its comma.
Joints(parts) == [k \in DOMAIN parts |-> IF k = 1 THEN parts[k] ELSE Comma \o parts[k]]

LEMMA CommaIsText == Comma \in Seq(Texts) /\ "," \in Texts /\ Solid(Comma) = Comma
  <1> DEFINE c == ","
  <1>1. c \in Texts /\ c \notin Blanks
    BY DEF Texts, Blanks, LineEnd
  <1>2. Comma = <<c>>
    BY DEF Comma
  <1> HIDE DEF c
  <1>3. <<>> \in Seq(Texts) /\ <<c>> = Append(<<>>, c) /\ <<c>> \in Seq(Texts)
    BY <1>1
  <1>4. Solid(Append(<<>>, c)) = Append(Solid(<<>>), c)
    BY <1>1, <1>3, SolidAppend
  <1> QED
    BY <1>1, <1>2, <1>3, <1>4, SolidNothing DEF c

LEMMA JointsType ==
  ASSUME NEW parts \in Seq(Seq(Texts))
  PROVE  Joints(parts) \in Seq(Seq(Texts)) /\ Len(Joints(parts)) = Len(parts) /\ JoinedByCommas(parts) \in Seq(Texts)
  <1> DEFINE n == Len(parts)
             joints == Joints(parts)
  <1>1. n \in Nat /\ DOMAIN parts = 1..n /\ \A k \in 1..n : parts[k] \in Seq(Texts)
    OBVIOUS
  <1>2. \A k \in 1..n : Comma \o parts[k] \in Seq(Texts)
    <2>1. Comma \in Seq(Texts)
      BY CommaIsText
    <2> QED
      BY <1>1, <2>1
  <1>3. joints \in [1..n -> Seq(Texts)]
    BY <1>1, <1>2 DEF Joints
  <1>4. JoinedByCommas(parts) = FlattenSeq(joints)
    BY DEF JoinedByCommas, Joints
  <1> HIDE DEF joints, n
  <1>5. joints \in Seq(Seq(Texts)) /\ Len(joints) = n
    BY <1>1, <1>3, FunctionIsASeq
  <1>6. PICK f : FlattenFollows(f, Texts, joints) /\ FlattenSeq(joints) = f[n]
    BY <1>5, FlattenUnfolds
  <1>7. f[n] \in Seq(Texts)
    BY <1>1, <1>5, <1>6 DEF FlattenFollows
  <1> QED
    BY <1>4, <1>5, <1>6, <1>7 DEF joints, n

LEMMA JoinedAppend ==
  ASSUME NEW parts \in Seq(Seq(Texts)), NEW part \in Seq(Texts)
  PROVE  JoinedByCommas(Append(parts, part)) =
           IF Len(parts) = 0 THEN part ELSE JoinedByCommas(parts) \o (Comma \o part)
  <1> DEFINE n == Len(parts)
             T == Seq(Texts)
             longer == Append(parts, part)
             before == Joints(parts)
             after == Joints(longer)
             last == IF n = 0 THEN part ELSE Comma \o part
  <1>1. Comma \o part \in T
    <2>1. Comma \in Seq(Texts)
      BY CommaIsText
    <2> QED
      BY <2>1
  <1>2. last \in T
    BY <1>1
  <1>3. parts \in Seq(T) /\ part \in T
    OBVIOUS
  <1>4. before \in Seq(T) /\ Len(before) = n /\ JoinedByCommas(parts) \in T
    BY JointsType
  <1>5. JoinedByCommas(parts) = FlattenSeq(before) /\ JoinedByCommas(longer) = FlattenSeq(after)
    BY DEF JoinedByCommas, Joints
  <1>6. FlattenSeq(before) \o last = IF n = 0 THEN part ELSE JoinedByCommas(parts) \o (Comma \o part)
    <2>1. CASE n = 0
      <3>1. before = <<>>
        <4> HIDE DEF before, T
        <4> QED
          BY <1>4, <2>1
      <3>2. FlattenSeq(before) = <<>>
        BY <3>1, FlattenNothing
      <3>3. <<>> \o part = part
        BY <1>3
      <3> QED
        BY <2>1, <3>2, <3>3
    <2>2. CASE n # 0
      BY <1>5, <2>2
    <2> QED
      BY <2>1, <2>2
  <1> HIDE DEF T
  <1>7. /\ n \in Nat /\ Len(longer) = n + 1 /\ DOMAIN longer = 1..(n + 1) /\ DOMAIN parts = 1..n
        /\ longer[n + 1] = part /\ \A k \in 1..n : longer[k] = parts[k]
    BY <1>3
  <1> HIDE DEF longer
  <1>8. \A k \in 1..n : before[k] = IF k = 1 THEN parts[k] ELSE Comma \o parts[k]
    BY <1>7 DEF Joints
  <1>9. /\ after = [k \in 1..(n + 1) |-> after[k]]
        /\ \A k \in 1..(n + 1) : after[k] = IF k = 1 THEN longer[k] ELSE Comma \o longer[k]
    BY <1>7 DEF Joints
  <1> HIDE DEF before, after
  <1>10. \A k \in 1..n : after[k] = before[k]
    <2> SUFFICES ASSUME NEW k \in 1..n PROVE after[k] = before[k]
      OBVIOUS
    <2>1. k \in 1..(n + 1) /\ longer[k] = parts[k]
      BY <1>7
    <2> QED
      BY <1>8, <1>9, <2>1
  <1>11. after[n + 1] = last
    <2>1. n + 1 \in 1..(n + 1) /\ (n + 1 = 1 <=> n = 0)
      BY <1>7
    <2> QED
      BY <1>7, <1>9, <2>1
  <1> HIDE DEF last, n
  <1>12. Grown(after, before, last)
    BY <1>4, <1>9, <1>10, <1>11 DEF Grown
  <1>13. after = Append(before, last)
    BY <1>2, <1>4, <1>12, GrownIsAppended
  <1>14. FlattenSeq(after) = FlattenSeq(before) \o last
    BY <1>2, <1>4, <1>13, FlattenAppend DEF T
  <1> QED
    BY <1>5, <1>6, <1>14 DEF n, longer

LEMMA AroundComma ==
  ASSUME NEW args \in Seq(Texts), NEW i \in 1..Len(args), NEW j \in 1..(Len(args) + 1), i < j, Separates(args[i])
  PROVE  SubSeq(args, 1, j - 1) = SubSeq(args, 1, i - 1) \o (Comma \o SubSeq(args, i + 1, j - 1))
  <1> DEFINE a == SubSeq(args, 1, i - 1)
             b == SubSeq(args, i + 1, j - 1)
  <1>0. Len(args) \in Nat
    OBVIOUS
  <1>1. i \in 0..Len(args) /\ j - 1 \in i..Len(args) /\ i - 1 \in 0..(Len(args) - 1) /\ (i - 1) + 1 = i
    BY <1>0
  <1>2. b \in Seq(Texts) /\ SubSeq(args, 1, j - 1) = SubSeq(args, 1, i) \o b
    BY <1>1, Splits
  <1>3. a \in Seq(Texts) /\ SubSeq(args, 1, i) = Append(a, args[i]) /\ args[i] \in Texts
    <2> DEFINE l == i - 1
    <2>1. l \in 0..(Len(args) - 1) /\ l + 1 = i
      BY <1>1
    <2> HIDE DEF l
    <2>2. /\ SubSeq(args, 1, l) \in Seq(Texts) /\ args[l + 1] \in Texts
          /\ SubSeq(args, 1, l + 1) = Append(SubSeq(args, 1, l), args[l + 1])
      BY <2>1, PrefixGrows
    <2>3. SubSeq(args, 1, l) = a
      BY DEF l
    <2> HIDE DEF a
    <2> QED
      BY <2>1, <2>2, <2>3
  <1> HIDE DEF a, b
  <1>4. Append(a, args[i]) = a \o <<args[i]>> /\ <<args[i]>> \in Seq(Texts)
    BY <1>3
  <1>5. <<args[i]>> = Comma
    BY DEF Comma, Separates
  <1>6. (a \o <<args[i]>>) \o b = a \o (<<args[i]>> \o b)
    <2> DEFINE c == <<args[i]>>
    <2>1. a \in Seq(Texts) /\ b \in Seq(Texts) /\ c \in Seq(Texts)
      BY <1>2, <1>3, <1>4
    <2> HIDE DEF c
    <2>2. (a \o c) \o b = a \o (c \o b)
      BY <2>1
    <2> QED
      BY <2>2 DEF c
  <1> QED
    BY <1>2, <1>3, <1>4, <1>5, <1>6 DEF a, b

\* The first arguments, with commas between them, are the text up to a cut.
LEMMA FirstArguments ==
  ASSUME NEW args \in Seq(Texts), NEW k \in 1..(Len(TopCommas(args)) + 1)
  PROVE  Solid(JoinedByCommas(SubSeq(split_args(args), 1, k))) = Solid(SubSeq(args, 1, CutAt(args, k) - 1))
  <1> DEFINE m == Len(TopCommas(args))
             n == Len(args)
             parts == split_args(args)
             First(j) == SubSeq(parts, 1, j)
             Whole(j) == SubSeq(args, 1, CutAt(args, j) - 1)
             S == {j \in 1..(m + 1) : Solid(JoinedByCommas(First(j))) = Solid(Whole(j))}
  <1>1. m \in Nat /\ CutAt(args, 0) = 0
    BY CutsAscend, Zenon DEF Ascends
  <1>2. 1 \in Nat /\ m + 1 \in Nat /\ 0 + 1 = 1 /\ 1 - 1 = 0
    BY <1>1
  <1>3. parts \in Seq(Seq(Texts)) /\ Len(parts) = m + 1
    BY PartsAre
  <1>4. \A j \in 1..(m + 1) :
          /\ parts[j] \in Seq(Texts)
          /\ Solid(parts[j]) = Solid(SubSeq(args, CutAt(args, j - 1) + 1, CutAt(args, j) - 1))
    BY PartsAre
  <1> DEFINE T == Seq(Texts)
  <1> HIDE DEF parts
  <1>5. \A j \in 0..m : First(j) \in Seq(T) /\ parts[j + 1] \in T /\ First(j + 1) = Append(First(j), parts[j + 1])
    <2>1. parts \in Seq(T) /\ Len(parts) - 1 = m
      BY <1>1, <1>3
    <2> HIDE DEF T, m
    <2> QED
      BY <2>1, PrefixGrows
  <1>6. \A j \in 0..m : Len(First(j)) = j
    BY <1>1, <1>3
  <1>7. 1 \in S
    <2>1. 0 \in 0..m /\ 1 \in 1..(m + 1)
      BY <1>1
    <2>2. First(0) \in Seq(T) /\ parts[1] \in T /\ First(1) = Append(First(0), parts[1]) /\ Len(First(0)) = 0
      BY <1>2, <1>5, <1>6, <2>1
    <2> HIDE DEF First
    <2>3. JoinedByCommas(First(1)) = parts[1]
      BY <2>2, JoinedAppend
    <2>4. Solid(parts[1]) = Solid(Whole(1))
      <3> HIDE DEF m
      <3> QED
        BY <1>1, <1>2, <1>4, <2>1
    <2> HIDE DEF Whole
    <2> QED
      BY <2>1, <2>3, <2>4
  <1>8. ASSUME NEW j \in 1..((m + 1) - 1), j \in S PROVE j + 1 \in S
    <2>1. j \in 1..m /\ j \in 0..m /\ j + 1 \in 1..(m + 1) /\ (j + 1) - 1 = j /\ j # 0 /\ j + 1 \in 0..(m + 1)
      BY <1>1
    <2> DEFINE part == parts[j + 1]
               gap == SubSeq(args, CutAt(args, j) + 1, CutAt(args, j + 1) - 1)
    <2>2. /\ First(j) \in Seq(T) /\ part \in T /\ First(j + 1) = Append(First(j), part)
          /\ Len(First(j)) = j
      BY <1>5, <1>6, <2>1
    <2>3. Solid(part) = Solid(gap)
      BY <1>4, <2>1
    <2>4. JoinedByCommas(First(j + 1)) = JoinedByCommas(First(j)) \o (Comma \o part)
      <3> HIDE DEF First, part
      <3> QED
        BY <2>1, <2>2, JoinedAppend
    <2>5. JoinedByCommas(First(j)) \in Seq(Texts)
      <3> HIDE DEF First
      <3> QED
        BY <2>2, JointsType
    <2>6. CutAt(args, j) \in 1..n /\ Separates(args[CutAt(args, j)])
      BY <2>1, CutsAscend, Zenon DEF Ascends
    <2>7. CutAt(args, j) < CutAt(args, j + 1) /\ CutAt(args, j + 1) \in 0..(n + 1)
      BY <2>1, CutsAscend, Zenon DEF Ascends
    <2>8. CutAt(args, j + 1) \in 1..(n + 1)
      BY <2>6, <2>7
    <2>9. Whole(j + 1) = Whole(j) \o (Comma \o gap)
      BY <2>6, <2>7, <2>8, AroundComma
    <2>10. Whole(j) \in Seq(Texts) /\ gap \in Seq(Texts)
      <3>1. Len(args) \in Nat /\ 0 \in 0..Len(args)
        OBVIOUS
      <3>2. CutAt(args, j) \in 1..(n + 1) /\ 0 < CutAt(args, j) /\ CutAt(args, j) \in 0..n
        BY <2>6, <3>1
      <3>3. Whole(j) \in Seq(Texts)
        BY <1>2, <3>1, <3>2, Between
      <3>4. gap \in Seq(Texts)
        BY <2>7, <2>8, <3>2, Between
      <3> QED
        BY <3>3, <3>4
    <2>11. Comma \in Seq(Texts) /\ Solid(Comma) = Comma
      BY CommaIsText
    <2>12. part \in Seq(Texts)
      BY <2>2
    <2>13. Solid(JoinedByCommas(First(j))) = Solid(Whole(j))
      BY <1>8
    <2> HIDE DEF First, Whole, gap, part
    <2>14. \A x \in Seq(Texts) : Comma \o x \in Seq(Texts)
      BY <2>11
    <2>15. \A x \in Seq(Texts), y \in Seq(Texts) : Solid(x \o (Comma \o y)) = Solid(x) \o (Comma \o Solid(y))
      <3> TAKE x \in Seq(Texts), y \in Seq(Texts)
      <3>1. Solid(x \o (Comma \o y)) = Solid(x) \o Solid(Comma \o y)
        BY <2>14, SolidConcat
      <3>2. Solid(Comma \o y) = Comma \o Solid(y)
        BY <2>11, SolidConcat
      <3> QED
        BY <3>1, <3>2
    <2>16. Solid(JoinedByCommas(First(j + 1))) = Solid(Whole(j + 1))
      <3>1. Solid(JoinedByCommas(First(j)) \o (Comma \o part))
              = Solid(JoinedByCommas(First(j))) \o (Comma \o Solid(part))
        BY <2>5, <2>12, <2>15
      <3>2. Solid(Whole(j) \o (Comma \o gap)) = Solid(Whole(j)) \o (Comma \o Solid(gap))
        BY <2>10, <2>15
      <3> QED
        BY <2>3, <2>4, <2>9, <2>13, <3>1, <3>2
    <2> QED
      BY <2>1, <2>16
  <1>9. k \in S
    <2> HIDE DEF S
    <2>1. 1..(m + 1) \subseteq S
      <3> HIDE DEF m
      <3> QED
        BY <1>2, <1>7, <1>8, SetInduction
    <2> QED
      BY <2>1
  <1> QED
    BY <1>9 DEF parts

\* split_args keeps every argument, and keeps them apart.
LEMMA ArgumentsKept ==
  ASSUME NEW args \in Seq(Texts)
  PROVE  LET parts == split_args(args)
             ends  == Separators(args)
         IN /\ Len(parts) = Cardinality(ends) + 1
            /\ \A i \in ends \union {Len(args) + 1} :
                 LET upto == SubSeq(parts, 1, Cardinality({j \in ends : j < i}) + 1)
                 IN Solid(JoinedByCommas(upto)) = Solid(SubSeq(args, 1, i - 1))
  <1> DEFINE parts == split_args(args)
             ends == Separators(args)
             at == TopCommas(args)
             n == Len(args)
             m == Len(at)
  <1>1. n \in Nat /\ ends \subseteq 1..n
    <2>1. n \in Nat /\ DOMAIN args = 1..n
      OBVIOUS
    <2>2. ends \subseteq DOMAIN args
      BY DEF Separators
    <2> QED
      BY <2>1, <2>2
  <1>2. Holds(at, ends, n)
    BY CutsInOrder
  <1>3. m = Cardinality(ends)
    <2>1. Earlier(ends, n + 1) = ends
      <3> HIDE DEF ends
      <3> QED
        BY <1>1, EarlierCounts
    <2> QED
      BY <1>2, <2>1 DEF Holds
  <1>4. m \in Nat /\ CutAt(args, m + 1) = n + 1
    BY CutsAscend, Zenon DEF Ascends
  <1>5. Len(parts) = m + 1
    BY PartsAre
  <1>6. ASSUME NEW i \in ends \union {n + 1}
        PROVE  LET k == Cardinality({j \in ends : j < i}) + 1
               IN k \in 1..(m + 1) /\ CutAt(args, k) = i
    <2> DEFINE k == Cardinality(Earlier(ends, i)) + 1
    <2>1. k = Cardinality({j \in ends : j < i}) + 1
      BY DEF Earlier
    <2>2. CASE i \in ends
      <3>1. i <= n
        BY <1>1, <2>2
      <3>2. k \in 1..m /\ at[k] = i
        BY <1>2, <2>2, <3>1 DEF Holds
      <3> HIDE DEF k
      <3>3. CutAt(args, k) = at[k]
        BY <3>2, CutsAscend, Zenon DEF Ascends
      <3>4. k \in 1..(m + 1)
        BY <1>4, <3>2
      <3> QED
        BY <2>1, <3>2, <3>3, <3>4
    <2>3. CASE i = n + 1
      <3>1. Earlier(ends, i) = ends
        <4> HIDE DEF ends
        <4> QED
          BY <1>1, <2>3, EarlierCounts
      <3>2. k = m + 1
        BY <1>3, <3>1
      <3> HIDE DEF k
      <3>3. k \in 1..(m + 1)
        BY <1>4, <3>2
      <3> QED
        BY <1>4, <2>1, <2>3, <3>2, <3>3
    <2> QED
      BY <2>2, <2>3
  <1>7. ASSUME NEW i \in ends \union {n + 1}
        PROVE  Solid(JoinedByCommas(SubSeq(parts, 1, Cardinality({j \in ends : j < i}) + 1)))
                 = Solid(SubSeq(args, 1, i - 1))
    <2> DEFINE k == Cardinality({j \in ends : j < i}) + 1
    <2>1. k \in 1..(m + 1) /\ CutAt(args, k) = i
      BY <1>6
    <2> HIDE DEF k
    <2>2. Solid(JoinedByCommas(SubSeq(parts, 1, k))) = Solid(SubSeq(args, 1, CutAt(args, k) - 1))
      BY <2>1, FirstArguments
    <2>3. Solid(JoinedByCommas(SubSeq(parts, 1, k))) = Solid(SubSeq(args, 1, i - 1))
      BY <2>1, <2>2
    <2> QED
      BY <2>3 DEF k
  <1> QED
    BY <1>3, <1>5, <1>7
-----------------------------------------------------------------------------
(* The inductive invariant.                                                 *)

\* The answer is the one to the call.
TextInv ==
  call # NoCall =>
    \/ \E e \in Executions :
         call = [op |-> "execute", of |-> e] /\ answer = interpolate_params(e.sql, e.params)
    \/ \E e \in Escapes :
         call = [op |-> "native_sql", of |-> e] /\ answer = [sql |-> translate(e.fn, e.args)]

LEMMA TextInvHolds == TextSpec => []TextInv
  <1>1. Init => TextInv
    BY DEF Init, TextInv
  <1>2. TextInv /\ [TextNext]_vars => TextInv'
    <2> SUFFICES ASSUME TextInv, [TextNext]_vars PROVE TextInv'
      OBVIOUS
    <2>1. CASE SQLExecute
      BY <2>1 DEF SQLExecute, Answers, TextInv
    <2>2. CASE SQLNativeSql
      BY <2>2 DEF SQLNativeSql, Answers, TextInv
    <2>3. CASE Done
      BY <2>3 DEF Done, TextInv
    <2>4. CASE UNCHANGED vars
      BY <2>4 DEF vars, TextInv
    <2> QED
      BY <2>1, <2>2, <2>3, <2>4 DEF TextNext
  <1> QED
    BY <1>1, <1>2, PTL DEF TextSpec

LEMMA TheExecution ==
  ASSUME TextInv, call.op = "execute"
  PROVE  /\ call.of \in Executions /\ answer = interpolate_params(call.of.sql, call.of.params)
         /\ call.of.sql \in Seq(STRING) /\ call.of.params \in Seq(ColumnValues)
  <1>1. call # NoCall
    BY DEF NoCall
  <1>2. \A e \in Escapes : call # [op |-> "native_sql", of |-> e]
    OBVIOUS
  <1>3. PICK e \in Executions :
          call = [op |-> "execute", of |-> e] /\ answer = interpolate_params(e.sql, e.params)
    BY <1>1, <1>2 DEF TextInv
  <1>4. call.of = e
    BY <1>3
  <1>5. e.sql \in Seq(STRING) /\ e.params \in Seq(ColumnValues)
    BY ExecutionsAssumption
  <1> QED
    BY <1>3, <1>4, <1>5

LEMMA TheEscape ==
  ASSUME TextInv, call.op = "native_sql"
  PROVE  call.of \in Escapes /\ call.of.args \in Seq(STRING)
  <1>1. call # NoCall
    BY DEF NoCall
  <1>2. \A e \in Executions : call # [op |-> "execute", of |-> e]
    OBVIOUS
  <1>3. PICK e \in Escapes : call = [op |-> "native_sql", of |-> e]
    BY <1>1, <1>2 DEF TextInv
  <1>4. call.of = e
    BY <1>3
  <1>5. e.args \in Seq(STRING)
    BY EscapesAssumption
  <1> QED
    BY <1>3, <1>4, <1>5

\* Whatever date, time or time stamp is bound, the literal the driver sends is
\* read back as it (render_literal, parse_trino_date, parse_trino_time,
\* parse_trino_timestamp, parse_trino_timestamp_tz), but for the ends the
\* property names.
THEOREM BoundValuesReadBack == TextSpec => []BoundValueReadsBack
  <1>1. TextInv => BoundValueReadsBack
    <2> SUFFICES ASSUME TextInv, call.op = "execute", NEW k \in DOMAIN call.of.params,
                        render_literal(call.of.params[k]).ok
                 PROVE  ReadsBack(call.of.params[k])
      BY DEF BoundValueReadsBack
    <2>1. call.of.params[k] \in ColumnValues
      BY TheExecution
    <2> QED
      BY <2>1, ValueReadsBack
  <1> QED
    BY <1>1, TextInvHolds, PTL

\* Whatever text, numbers and dates are bound, and however many: the statement the
\* coordinator reads is the prepared one, names and comments included, with each
\* placeholder outside a string read as its value, and it is refused exactly when
\* the counts differ or a value has no literal (interpolate_params,
\* render_literal, quote_string); but for a quote or a question mark in a quoted
\* name or a comment, and a literal that touches what is beside it.
THEOREM BoundLiteralsStayWhole == TextSpec => []LiteralsStayWhole
  <1>1. TextInv => LiteralsStayWhole
    <2> SUFFICES ASSUME TextInv, call.op = "execute", NothingHidden(call.of.sql)
                 PROVE  LET tokens == Lexed(call.of.sql)
                            params == call.of.params
                        IN /\ answer.ok <=> /\ Marks(tokens)[Len(tokens)] = Len(params)
                                            /\ \A k \in DOMAIN params : render_literal(params[k]).ok
                           /\ answer.ok /\ Separated(call.of.sql) => Lexed(answer.sql) = Substituted(tokens, params)
      BY DEF LiteralsStayWhole
    <2> DEFINE sql == call.of.sql
               params == call.of.params
    <2>1. /\ sql \in Seq(Letters) /\ params \in Seq(ColumnValues) /\ NothingHidden(sql)
          /\ answer = interpolate_params(sql, params)
      BY TheExecution, TextIsLetters
    <2> HIDE DEF sql, params
    <2>2. answer.ok <=> /\ Marks(Lexed(sql))[Len(Lexed(sql))] = Len(params)
                        /\ \A k \in DOMAIN params : render_literal(params[k]).ok
      BY <2>1, PlaceholdersCounted, Refusals
    <2>3. answer.ok /\ Separated(sql) => Lexed(answer.sql) = Substituted(Lexed(sql), params)
      BY <2>1, StatementStaysWhole
    <2> QED
      BY <2>2, <2>3 DEF sql, params
  <1> QED
    BY <1>1, TextInvHolds, PTL

\* Whatever its arguments, and however many: an escape's list is split where the
\* coordinator would split it, at each comma outside strings, quoted names,
\* comments and parentheses, and only the blanks around an argument are lost
\* (split_args).
THEOREM EscapeArgumentsSurvive == TextSpec => []ArgumentsSurvive
  <1>1. TextInv => ArgumentsSurvive
    <2> SUFFICES ASSUME TextInv, call.op = "native_sql"
                 PROVE  LET args  == call.of.args
                            parts == split_args(args)
                            ends  == Separators(args)
                        IN /\ Len(parts) = Cardinality(ends) + 1
                           /\ \A i \in ends \union {Len(args) + 1} :
                                LET upto == SubSeq(parts, 1, Cardinality({j \in ends : j < i}) + 1)
                                IN Solid(JoinedByCommas(upto)) = Solid(SubSeq(args, 1, i - 1))
      BY DEF ArgumentsSurvive
    <2> DEFINE args == call.of.args
    <2>1. args \in Seq(STRING)
      BY TheEscape
    <2>2. STRING \subseteq Texts
      BY DEF Texts
    <2> HIDE DEF args
    <2>3. args \in Seq(Texts)
      BY <2>1, <2>2, SeqMonotonic
    <2> QED
      BY <2>3, ArgumentsKept DEF args
  <1> QED
    BY <1>1, TextInvHolds, PTL
=============================================================================
