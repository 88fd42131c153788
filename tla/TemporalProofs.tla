---------------------------- MODULE TemporalProofs ----------------------------
(***************************************************************************)
(* Lemmas about Temporal, for every zone, date and minute: the calendar's  *)
(* next and previous day, the order of moments, and what a value with a    *)
(* zone keeps when it is delivered in another.                             *)
(***************************************************************************)
EXTENDS Temporal, TLAPS

Dates == {d \in [year : Int, month : 1..12, day : 1..31] : d.day <= DaysIn(d.year, d.month)}
Moments == [date : Dates, minute : 0..(MinutesADay - 1)]
-----------------------------------------------------------------------------
(* The calendar.                                                            *)

LEMMA DaysInRange ==
  ASSUME NEW year, NEW month
  PROVE  DaysIn(year, month) \in 28..31 /\ DaysIn(year, 12) = 31 /\ DaysIn(year, 1) = 31
  BY DEF DaysIn

LEMMA SameDate ==
  ASSUME NEW d \in Dates, NEW e \in Dates, d.year = e.year, d.month = e.month, d.day = e.day
  PROVE  d = e
  BY DEF Dates

LEMMA NextDayFields ==
  ASSUME NEW d \in Dates
  PROVE  /\ NextDay(d) \in Dates
         /\ \/ /\ d.day < DaysIn(d.year, d.month)
               /\ NextDay(d).year = d.year /\ NextDay(d).month = d.month /\ NextDay(d).day = d.day + 1
            \/ /\ d.day = DaysIn(d.year, d.month) /\ d.month < 12
               /\ NextDay(d).year = d.year /\ NextDay(d).month = d.month + 1 /\ NextDay(d).day = 1
            \/ /\ d.day = 31 /\ d.month = 12
               /\ NextDay(d).year = d.year + 1 /\ NextDay(d).month = 1 /\ NextDay(d).day = 1
  <1>1. DaysIn(d.year, d.month) \in 28..31 /\ DaysIn(d.year, 12) = 31
    BY DaysInRange DEF Dates
  <1>2. CASE d.day < DaysIn(d.year, d.month)
    BY <1>1, <1>2 DEF NextDay, Dates
  <1>3. CASE d.day = DaysIn(d.year, d.month) /\ d.month < 12
    <2>1. DaysIn(d.year, d.month + 1) \in 28..31
      BY <1>3, DaysInRange DEF Dates
    <2>2. NextDay(d) = [d EXCEPT !.month = d.month + 1, !.day = 1]
      BY <1>1, <1>3 DEF NextDay, Dates
    <2>3. NextDay(d) = [year |-> d.year, month |-> d.month + 1, day |-> 1]
      BY <2>2 DEF Dates
    <2> QED
      BY <1>1, <1>3, <2>1, <2>3 DEF Dates
  <1>4. CASE d.day = DaysIn(d.year, d.month) /\ d.month = 12
    <2>1. DaysIn(d.year + 1, 1) \in 28..31
      BY DaysInRange DEF Dates
    <2> QED
      BY <1>1, <1>4, <2>1 DEF NextDay, Dates
  <1> QED
    BY <1>1, <1>2, <1>3, <1>4 DEF Dates

LEMMA PreviousDayFields ==
  ASSUME NEW d \in Dates
  PROVE  /\ PreviousDay(d) \in Dates
         /\ \/ /\ d.day > 1
               /\ PreviousDay(d).year = d.year /\ PreviousDay(d).month = d.month
               /\ PreviousDay(d).day = d.day - 1
            \/ /\ d.day = 1 /\ d.month > 1
               /\ PreviousDay(d).year = d.year /\ PreviousDay(d).month = d.month - 1
               /\ PreviousDay(d).day = DaysIn(d.year, d.month - 1)
            \/ /\ d.day = 1 /\ d.month = 1
               /\ PreviousDay(d).year = d.year - 1 /\ PreviousDay(d).month = 12
               /\ PreviousDay(d).day = 31
  <1>1. DaysIn(d.year, d.month) \in 28..31
    BY DaysInRange DEF Dates
  <1>2. CASE d.day > 1
    BY <1>1, <1>2 DEF PreviousDay, Dates
  <1>3. CASE d.day = 1 /\ d.month > 1
    <2>1. DaysIn(d.year, d.month - 1) \in 28..31
      BY <1>3, DaysInRange DEF Dates
    <2>2. PreviousDay(d) = [d EXCEPT !.month = d.month - 1, !.day = DaysIn(d.year, d.month - 1)]
      BY <1>3 DEF PreviousDay, Dates
    <2>3. PreviousDay(d) = [year |-> d.year, month |-> d.month - 1, day |-> DaysIn(d.year, d.month - 1)]
      BY <2>2 DEF Dates
    <2> QED
      BY <1>1, <1>3, <2>1, <2>3 DEF Dates
  <1>4. CASE d.day = 1 /\ d.month = 1
    <2>1. DaysIn(d.year - 1, 12) = 31
      BY DaysInRange DEF Dates
    <2> QED
      BY <1>4, <2>1 DEF PreviousDay, Dates
  <1> QED
    BY <1>2, <1>3, <1>4 DEF Dates

LEMMA DaysAreInverse ==
  ASSUME NEW d \in Dates
  PROVE  PreviousDay(NextDay(d)) = d /\ NextDay(PreviousDay(d)) = d
  <1>1. d.year \in Int /\ d.month \in 1..12 /\ d.day \in 1..31
    BY DEF Dates
  <1>2. PreviousDay(NextDay(d)) = d
    BY <1>1, NextDayFields, PreviousDayFields, SameDate, DaysInRange
  <1>3. NextDay(PreviousDay(d)) = d
    BY <1>1, NextDayFields, PreviousDayFields, SameDate, DaysInRange
  <1> QED
    BY <1>2, <1>3
-----------------------------------------------------------------------------
(* Moments.                                                                 *)

\* A minute of the day, as the inequalities that the arithmetic needs.
MinuteOfDay(n) == n \in Int /\ 0 <= n /\ n < 1440
WithinADay(k) == k \in Int /\ -1440 <= k /\ k <= 1440

LEMMA MomentFields ==
  ASSUME NEW m \in Moments
  PROVE  m.date \in Dates /\ MinuteOfDay(m.minute)
  BY DEF Moments, MinutesADay, MinuteOfDay

LEMMA MomentOf ==
  ASSUME NEW date \in Dates, NEW minute, MinuteOfDay(minute)
  PROVE  [date |-> date, minute |-> minute] \in Moments
  BY DEF Moments, MinutesADay, MinuteOfDay

LEMMA SameMoment ==
  ASSUME NEW m \in Moments, NEW n \in Moments, m.date = n.date, m.minute = n.minute
  PROVE  m = n
  BY DEF Moments

\* Up to a day later or earlier: on the same date, or on the one next to it.
OnSameDay(m, k) ==
  /\ 0 <= m.minute + k /\ m.minute + k < 1440
  /\ Later(m, k).date = m.date /\ Later(m, k).minute = m.minute + k
OnNextDay(m, k) ==
  /\ m.minute + k >= 1440
  /\ Later(m, k).date = NextDay(m.date) /\ Later(m, k).minute = (m.minute + k) - 1440
OnPreviousDay(m, k) ==
  /\ m.minute + k < 0
  /\ Later(m, k).date = PreviousDay(m.date) /\ Later(m, k).minute = m.minute + k + 1440

LEMMA DivisionByDay ==
  ASSUME NEW total \in Int
  PROVE  /\ 0 <= total /\ total < 1440 => total \div 1440 = 0 /\ total % 1440 = total
         /\ total >= 1440 /\ total < 2880 => total \div 1440 = 1 /\ total % 1440 = total - 1440
         /\ -1440 <= total /\ total < 0 => total \div 1440 = -1 /\ total % 1440 = total + 1440
  OBVIOUS

LEMMA LaterFields ==
  ASSUME NEW m \in Moments, NEW k, WithinADay(k)
  PROVE  /\ Later(m, k) \in Moments
         /\ OnSameDay(m, k) \/ OnNextDay(m, k) \/ OnPreviousDay(m, k)
  <1> DEFINE total == m.minute + k
  <1>1. m.date \in Dates /\ m.minute \in Int /\ 0 <= m.minute /\ m.minute < 1440
    BY MomentFields DEF MinuteOfDay
  <1>2. k \in Int /\ -1440 <= k /\ k <= 1440
    BY DEF WithinADay
  <1>3. total \in Int /\ -1440 <= total /\ total < 2880
    BY <1>1, <1>2
  <1>4. Later(m, k) = [date |-> CASE total \div 1440 = 0 -> m.date
                                  [] total \div 1440 = 1 -> NextDay(m.date)
                                  [] total \div 1440 = -1 -> PreviousDay(m.date),
                       minute |-> total % 1440]
    BY DEF Later, MinutesADay
  <1>5. CASE 0 <= total /\ total < 1440
    <2>1. Later(m, k) = [date |-> m.date, minute |-> total]
      BY <1>3, <1>4, <1>5, DivisionByDay
    <2>2. Later(m, k) \in Moments
      BY <1>1, <1>3, <1>5, <2>1, MomentOf DEF MinuteOfDay
    <2> QED
      BY <1>5, <2>1, <2>2 DEF OnSameDay
  <1>6. CASE total >= 1440
    <2>1. Later(m, k) = [date |-> NextDay(m.date), minute |-> total - 1440]
      BY <1>3, <1>4, <1>6, DivisionByDay
    <2>2. Later(m, k) \in Moments
      BY <1>1, <1>3, <1>6, <2>1, NextDayFields, MomentOf DEF MinuteOfDay
    <2> QED
      BY <1>6, <2>1, <2>2 DEF OnNextDay
  <1>7. CASE total < 0
    <2>1. Later(m, k) = [date |-> PreviousDay(m.date), minute |-> total + 1440]
      BY <1>3, <1>4, <1>7, DivisionByDay
    <2>2. Later(m, k) \in Moments
      BY <1>1, <1>3, <1>7, <2>1, PreviousDayFields, MomentOf DEF MinuteOfDay
    <2> QED
      BY <1>7, <2>1, <2>2 DEF OnPreviousDay
  <1> QED
    BY <1>3, <1>5, <1>6, <1>7
-----------------------------------------------------------------------------
\* Going on and going back add up, as long as they stay within a day.
LEMMA LaterAddsUp ==
  ASSUME NEW m \in Moments, NEW a, NEW b, WithinADay(a), WithinADay(b), WithinADay(a + b)
  PROVE  Later(Later(m, a), b) = Later(m, a + b)
  <1> DEFINE then == Later(m, a)
             last == Later(then, b)
             once == Later(m, a + b)
  <1>1. /\ m.date \in Dates
        /\ m.minute \in Int /\ 0 <= m.minute /\ m.minute < 1440
    BY MomentFields DEF MinuteOfDay
  <1>2. /\ a \in Int /\ -1440 <= a /\ a <= 1440
        /\ b \in Int /\ -1440 <= b /\ b <= 1440
        /\ -1440 <= a + b /\ a + b <= 1440
    BY DEF WithinADay
  <1>3. then \in Moments /\ (OnSameDay(m, a) \/ OnNextDay(m, a) \/ OnPreviousDay(m, a))
    BY LaterFields
  <1>4. once \in Moments /\ (OnSameDay(m, a + b) \/ OnNextDay(m, a + b) \/ OnPreviousDay(m, a + b))
    BY LaterFields
  <1>5. PreviousDay(NextDay(m.date)) = m.date /\ NextDay(PreviousDay(m.date)) = m.date
    BY <1>1, DaysAreInverse
  <1> HIDE DEF then, once
  <1>6. last \in Moments /\ (OnSameDay(then, b) \/ OnNextDay(then, b) \/ OnPreviousDay(then, b))
    BY <1>3, LaterFields
  <1> HIDE DEF last
  <1>7. \/ then.date = m.date /\ then.minute = m.minute + a
        \/ then.date = NextDay(m.date) /\ then.minute = (m.minute + a) - 1440
        \/ then.date = PreviousDay(m.date) /\ then.minute = m.minute + a + 1440
    BY <1>3 DEF OnSameDay, OnNextDay, OnPreviousDay, then
  <1>8. \/ /\ 0 <= m.minute + (a + b) /\ m.minute + (a + b) < 1440
           /\ once.date = m.date /\ once.minute = m.minute + (a + b)
        \/ /\ m.minute + (a + b) >= 1440
           /\ once.date = NextDay(m.date) /\ once.minute = (m.minute + (a + b)) - 1440
        \/ /\ m.minute + (a + b) < 0
           /\ once.date = PreviousDay(m.date) /\ once.minute = m.minute + (a + b) + 1440
    BY <1>4 DEF OnSameDay, OnNextDay, OnPreviousDay, once
  <1>9. \/ /\ 0 <= then.minute + b /\ then.minute + b < 1440
           /\ last.date = then.date /\ last.minute = then.minute + b
        \/ /\ then.minute + b >= 1440
           /\ last.date = NextDay(then.date) /\ last.minute = (then.minute + b) - 1440
        \/ /\ then.minute + b < 0
           /\ last.date = PreviousDay(then.date) /\ last.minute = then.minute + b + 1440
    BY <1>6 DEF OnSameDay, OnNextDay, OnPreviousDay, last
  <1>10. then.minute \in Int /\ 0 <= then.minute /\ then.minute < 1440
    BY <1>3, MomentFields DEF MinuteOfDay
  <1>11. last.date = once.date /\ last.minute = once.minute
    <2>1. CASE then.date = m.date /\ then.minute = m.minute + a
      BY <1>1, <1>2, <1>8, <1>9, <1>10, <2>1
    <2>2. CASE then.date = NextDay(m.date) /\ then.minute = (m.minute + a) - 1440
      BY <1>1, <1>2, <1>5, <1>8, <1>9, <1>10, <2>2
    <2>3. CASE then.date = PreviousDay(m.date) /\ then.minute = m.minute + a + 1440
      BY <1>1, <1>2, <1>5, <1>8, <1>9, <1>10, <2>3
    <2> QED
      BY <1>7, <2>1, <2>2, <2>3
  <1> QED
    BY <1>4, <1>6, <1>11, SameMoment DEF last, once, then

LEMMA LaterByNothing ==
  ASSUME NEW m \in Moments
  PROVE  Later(m, 0) = m
  <1>1. m.minute \in Int /\ 0 <= m.minute /\ m.minute < 1440
    BY MomentFields DEF MinuteOfDay
  <1>2. WithinADay(0)
    BY DEF WithinADay
  <1>3. Later(m, 0) \in Moments /\ (OnSameDay(m, 0) \/ OnNextDay(m, 0) \/ OnPreviousDay(m, 0))
    BY <1>2, LaterFields
  <1>4. OnSameDay(m, 0)
    BY <1>1, <1>3 DEF OnNextDay, OnPreviousDay
  <1>5. Later(m, 0).date = m.date /\ Later(m, 0).minute = m.minute
    BY <1>1, <1>4 DEF OnSameDay
  <1> QED
    BY <1>3, <1>5, SameMoment
-----------------------------------------------------------------------------
(* The order of moments.                                                    *)

DateBefore(d, e) ==
  \/ d.year < e.year
  \/ d.year = e.year /\ d.month < e.month
  \/ d.year = e.year /\ d.month = e.month /\ d.day < e.day

LEMMA PrecedesFields ==
  ASSUME NEW m, NEW n
  PROVE  Precedes(m, n) <=>
           \/ DateBefore(m.date, n.date)
           \/ /\ m.date.year = n.date.year /\ m.date.month = n.date.month /\ m.date.day = n.date.day
              /\ m.minute < n.minute
  <1> DEFINE k(x) == <<x.date.year, x.date.month, x.date.day, x.minute>>
             First(i) == k(m)[i] < k(n)[i] /\ \A j \in 1..(i - 1) : k(m)[j] = k(n)[j]
  <1>1. Precedes(m, n) <=> \E i \in 1..4 : First(i)
    BY DEF Precedes
  <1>2. /\ k(m)[1] = m.date.year /\ k(m)[2] = m.date.month /\ k(m)[3] = m.date.day /\ k(m)[4] = m.minute
        /\ k(n)[1] = n.date.year /\ k(n)[2] = n.date.month /\ k(n)[3] = n.date.day /\ k(n)[4] = n.minute
    OBVIOUS
  <1> HIDE DEF k
  <1>3. /\ First(1) <=> k(m)[1] < k(n)[1]
        /\ First(2) <=> k(m)[1] = k(n)[1] /\ k(m)[2] < k(n)[2]
        /\ First(3) <=> k(m)[1] = k(n)[1] /\ k(m)[2] = k(n)[2] /\ k(m)[3] < k(n)[3]
        /\ First(4) <=> k(m)[1] = k(n)[1] /\ k(m)[2] = k(n)[2] /\ k(m)[3] = k(n)[3] /\ k(m)[4] < k(n)[4]
    OBVIOUS
  <1> HIDE DEF First
  <1>4. Precedes(m, n) <=> First(1) \/ First(2) \/ First(3) \/ First(4)
    BY <1>1
  <1> QED
    BY <1>2, <1>3, <1>4 DEF DateBefore

LEMMA DateOrder ==
  ASSUME NEW d \in Dates, NEW e \in Dates
  PROVE  /\ DateBefore(d, e) \/ d = e \/ DateBefore(e, d)
         /\ ~(DateBefore(d, e) /\ DateBefore(e, d)) /\ ~DateBefore(d, d)
  <1>1. d.year \in Int /\ d.month \in Int /\ d.day \in Int /\ e.year \in Int /\ e.month \in Int /\ e.day \in Int
    BY DEF Dates
  <1> QED
    BY <1>1, SameDate DEF DateBefore

LEMMA DateBeforeTransitive ==
  ASSUME NEW d \in Dates, NEW e \in Dates, NEW f \in Dates, DateBefore(d, e), DateBefore(e, f)
  PROVE  DateBefore(d, f)
  <1>1. /\ d.year \in Int /\ d.month \in Int /\ d.day \in Int
        /\ e.year \in Int /\ e.month \in Int /\ e.day \in Int
        /\ f.year \in Int /\ f.month \in Int /\ f.day \in Int
    BY DEF Dates
  <1> QED
    BY <1>1 DEF DateBefore

LEMMA DaysMove ==
  ASSUME NEW d \in Dates
  PROVE  DateBefore(d, NextDay(d)) /\ DateBefore(PreviousDay(d), d)
  <1>1. d.year \in Int /\ d.month \in Int /\ d.day \in Int
    BY DEF Dates
  <1>2. DateBefore(d, NextDay(d))
    BY <1>1, NextDayFields DEF DateBefore
  <1>3. DateBefore(PreviousDay(d), d)
    BY <1>1, PreviousDayFields DEF DateBefore
  <1> QED
    BY <1>2, <1>3

\* There is no date between a date and the next day.
LEMMA NextDayIsNext ==
  ASSUME NEW d \in Dates, NEW e \in Dates, DateBefore(d, e)
  PROVE  NextDay(d) = e \/ DateBefore(NextDay(d), e)
  <1>1. /\ d.year \in Int /\ d.month \in Int /\ 1 <= d.month /\ d.month <= 12 /\ d.day \in Int /\ 1 <= d.day
        /\ e.year \in Int /\ e.month \in Int /\ 1 <= e.month /\ e.month <= 12 /\ e.day \in Int /\ 1 <= e.day
    BY DEF Dates
  <1>2. /\ DaysIn(d.year, d.month) \in Int /\ d.day <= DaysIn(d.year, d.month)
        /\ DaysIn(e.year, e.month) \in Int /\ e.day <= DaysIn(e.year, e.month)
        /\ DaysIn(d.year, 12) = 31 /\ DaysIn(e.year, 12) = 31
    BY DaysInRange DEF Dates
  <1> DEFINE n == NextDay(d)
  <1>3. \/ /\ d.day < DaysIn(d.year, d.month)
           /\ n.year = d.year /\ n.month = d.month /\ n.day = d.day + 1
        \/ /\ d.day = DaysIn(d.year, d.month) /\ d.month < 12
           /\ n.year = d.year /\ n.month = d.month + 1 /\ n.day = 1
        \/ /\ d.day = 31 /\ d.month = 12
           /\ n.year = d.year + 1 /\ n.month = 1 /\ n.day = 1
    BY NextDayFields
  <1>4. n \in Dates
    BY NextDayFields
  <1> HIDE DEF n
  <1>5. DateBefore(n, e) \/ (n.year = e.year /\ n.month = e.month /\ n.day = e.day)
    BY <1>1, <1>2, <1>3 DEF DateBefore
  <1> QED
    BY <1>4, <1>5, SameDate DEF n

LEMMA PreviousDayIsPrevious ==
  ASSUME NEW d \in Dates, NEW e \in Dates, DateBefore(d, e)
  PROVE  d = PreviousDay(e) \/ DateBefore(d, PreviousDay(e))
  <1>1. PreviousDay(e) \in Dates /\ NextDay(PreviousDay(e)) = e
    BY PreviousDayFields, DaysAreInverse
  <1>2. ASSUME DateBefore(PreviousDay(e), d) PROVE FALSE
    BY <1>1, <1>2, NextDayIsNext, DateOrder
  <1> QED
    BY <1>1, <1>2, DateOrder

\* A day on or back, dates stay in order.
LEMMA DayOrder ==
  ASSUME NEW d \in Dates, NEW e \in Dates, DateBefore(d, e)
  PROVE  DateBefore(NextDay(d), NextDay(e)) /\ DateBefore(PreviousDay(d), PreviousDay(e))
  <1>1. NextDay(d) \in Dates /\ NextDay(e) \in Dates /\ PreviousDay(d) \in Dates /\ PreviousDay(e) \in Dates
    BY NextDayFields, PreviousDayFields
  <1>2. DateBefore(NextDay(d), NextDay(e))
    BY <1>1, NextDayIsNext, DaysMove, DateBeforeTransitive
  <1>3. DateBefore(PreviousDay(d), PreviousDay(e))
    BY <1>1, PreviousDayIsPrevious, DaysMove, DateBeforeTransitive
  <1> QED
    BY <1>2, <1>3

\* Moments, by their dates first.
LEMMA PrecedesByDate ==
  ASSUME NEW m \in Moments, NEW n \in Moments
  PROVE  Precedes(m, n) <=> DateBefore(m.date, n.date) \/ (m.date = n.date /\ m.minute < n.minute)
  BY PrecedesFields, MomentFields, SameDate

LEMMA MomentOrder ==
  ASSUME NEW m \in Moments, NEW n \in Moments
  PROVE  ~(Precedes(m, n) /\ Precedes(n, m)) /\ ~Precedes(m, m)
  <1>1. m.date \in Dates /\ n.date \in Dates /\ m.minute \in Int /\ n.minute \in Int
    BY MomentFields DEF MinuteOfDay
  <1> QED
    BY <1>1, PrecedesByDate, DateOrder

LEMMA PrecedesTransitive ==
  ASSUME NEW m \in Moments, NEW n \in Moments, NEW o \in Moments, Precedes(m, n), Precedes(n, o)
  PROVE  Precedes(m, o)
  <1>1. /\ m.date \in Dates /\ n.date \in Dates /\ o.date \in Dates
        /\ m.minute \in Int /\ n.minute \in Int /\ o.minute \in Int
    BY MomentFields DEF MinuteOfDay
  <1> QED
    BY <1>1, PrecedesByDate, DateBeforeTransitive

\* Later by a positive number of minutes is later.
LEMMA LaterIsLater ==
  ASSUME NEW m \in Moments, NEW k, WithinADay(k), k > 0
  PROVE  Precedes(m, Later(m, k))
  <1>1. m.date \in Dates /\ m.minute \in Int /\ 0 <= m.minute /\ m.minute < 1440 /\ k \in Int
    BY MomentFields DEF MinuteOfDay, WithinADay
  <1>2. Later(m, k) \in Moments /\ (OnSameDay(m, k) \/ OnNextDay(m, k) \/ OnPreviousDay(m, k))
    BY LaterFields
  <1>3. CASE OnSameDay(m, k)
    <2>1. Later(m, k).date = m.date /\ m.minute < Later(m, k).minute
      BY <1>1, <1>3 DEF OnSameDay
    <2> QED
      BY <1>2, <2>1, PrecedesByDate
  <1>4. CASE OnNextDay(m, k)
    <2>1. DateBefore(m.date, Later(m, k).date)
      BY <1>1, <1>4, DaysMove DEF OnNextDay
    <2> QED
      BY <1>2, <2>1, PrecedesByDate
  <1>5. CASE OnPreviousDay(m, k)
    BY <1>1, <1>5 DEF OnPreviousDay
  <1> QED
    BY <1>2, <1>3, <1>4, <1>5

\* The same number of minutes keeps two moments in order.
LEMMA LaterKeepsOrder ==
  ASSUME NEW m \in Moments, NEW n \in Moments, NEW k, WithinADay(k), Precedes(m, n)
  PROVE  Precedes(Later(m, k), Later(n, k))
  <1> DEFINE p == Later(m, k)
             q == Later(n, k)
  <1>1. /\ m.date \in Dates /\ m.minute \in Int /\ 0 <= m.minute /\ m.minute < 1440
        /\ n.date \in Dates /\ n.minute \in Int /\ 0 <= n.minute /\ n.minute < 1440
        /\ k \in Int /\ -1440 <= k /\ k <= 1440
    BY MomentFields DEF MinuteOfDay, WithinADay
  <1>2. p \in Moments /\ (OnSameDay(m, k) \/ OnNextDay(m, k) \/ OnPreviousDay(m, k))
    BY LaterFields
  <1>3. q \in Moments /\ (OnSameDay(n, k) \/ OnNextDay(n, k) \/ OnPreviousDay(n, k))
    BY LaterFields
  <1>4. \/ /\ 0 <= m.minute + k /\ m.minute + k < 1440
           /\ p.date = m.date /\ p.minute = m.minute + k
        \/ m.minute + k >= 1440 /\ p.date = NextDay(m.date) /\ p.minute = (m.minute + k) - 1440
        \/ m.minute + k < 0 /\ p.date = PreviousDay(m.date) /\ p.minute = m.minute + k + 1440
    BY <1>2 DEF OnSameDay, OnNextDay, OnPreviousDay
  <1>5. \/ /\ 0 <= n.minute + k /\ n.minute + k < 1440
           /\ q.date = n.date /\ q.minute = n.minute + k
        \/ n.minute + k >= 1440 /\ q.date = NextDay(n.date) /\ q.minute = (n.minute + k) - 1440
        \/ n.minute + k < 0 /\ q.date = PreviousDay(n.date) /\ q.minute = n.minute + k + 1440
    BY <1>3 DEF OnSameDay, OnNextDay, OnPreviousDay
  <1>6. /\ NextDay(m.date) \in Dates /\ PreviousDay(m.date) \in Dates
        /\ NextDay(n.date) \in Dates /\ PreviousDay(n.date) \in Dates
    BY <1>1, NextDayFields, PreviousDayFields
  <1> HIDE DEF p, q
  <1>7. DateBefore(p.date, q.date) \/ (p.date = q.date /\ p.minute < q.minute)
    <2>1. CASE m.date = n.date /\ m.minute < n.minute
      <3>1. DateBefore(m.date, NextDay(m.date)) /\ DateBefore(PreviousDay(m.date), m.date)
        BY <1>1, DaysMove
      <3> QED
        BY <1>1, <1>4, <1>5, <2>1, <3>1
    <2>2. CASE DateBefore(m.date, n.date)
      <3>1. /\ DateBefore(NextDay(m.date), NextDay(n.date))
            /\ DateBefore(PreviousDay(m.date), PreviousDay(n.date))
        BY <1>1, <2>2, DayOrder
      <3>2. DateBefore(m.date, NextDay(n.date)) /\ DateBefore(PreviousDay(m.date), n.date)
        BY <1>1, <1>6, <2>2, DaysMove, DateBeforeTransitive
      <3>3. NextDay(m.date) = n.date \/ DateBefore(NextDay(m.date), n.date)
        BY <1>1, <2>2, NextDayIsNext
      <3>4. m.date = PreviousDay(n.date) \/ DateBefore(m.date, PreviousDay(n.date))
        BY <1>1, <2>2, PreviousDayIsPrevious
      <3> QED
        BY <1>1, <1>4, <1>5, <2>2, <3>1, <3>2, <3>3, <3>4
    <2> QED
      BY <2>1, <2>2, PrecedesByDate
  <1> QED
    BY <1>2, <1>3, <1>7, PrecedesByDate DEF p, q
-----------------------------------------------------------------------------
(* Zones.                                                                   *)

\* What a session's zone can be: Trino takes no offset beyond 18 hours, and no
\* change of clocks is longer than a day.
ZoneTypes ==
  {z \in [before : Int, after : Int, change : Moments] :
     WithinADay(z.before) /\ WithinADay(z.after) /\ WithinADay(z.before - z.after)}

LEMMA ZoneFields ==
  ASSUME NEW zone \in ZoneTypes
  PROVE  /\ zone.change \in Moments
         /\ zone.before \in Int /\ WithinADay(zone.before) /\ WithinADay(-zone.before)
         /\ zone.after \in Int /\ WithinADay(zone.after) /\ WithinADay(-zone.after)
         /\ WithinADay(zone.before - zone.after) /\ WithinADay(zone.after - zone.before)
  BY DEF ZoneTypes, WithinADay

\* An instant with the wall time of utc but another offset lies as far from utc
\* as the two offsets do from each other.
LEMMA OtherReading ==
  ASSUME NEW zone \in ZoneTypes, NEW utc \in Moments,
         NEW a \in {zone.before, zone.after}, NEW b \in {zone.before, zone.after}
  PROVE  Later(Later(utc, a), -b) = Later(utc, a - b)
  <1>1. a \in Int /\ b \in Int /\ WithinADay(a) /\ WithinADay(-b) /\ a + (-b) = a - b
    BY ZoneFields
  <1>2. WithinADay(a - b)
    <2>1. CASE a = b
      BY <1>1, <2>1 DEF WithinADay
    <2>2. CASE a # b
      BY <1>1, <2>2, ZoneFields
    <2> QED
      BY <2>1, <2>2
  <1> QED
    BY <1>1, <1>2, LaterAddsUp

\* The lesser the offset, the later the instant: only in the repeated hour is there
\* another reading with a lesser offset.
LEMMA LesserReading ==
  ASSUME NEW zone \in ZoneTypes, NEW utc \in Moments, ~FirstPass(zone, utc),
         NEW other \in {zone.before, zone.after}, other < offset_at(zone, utc)
  PROVE  offset_at(zone, Later(wall_time(zone, utc), -other)) # other
  <1> DEFINE o == offset_at(zone, utc)
             instant == Later(utc, o - other)
  <1>1. /\ zone.change \in Moments /\ zone.before \in Int /\ zone.after \in Int
        /\ WithinADay(zone.before - zone.after) /\ WithinADay(zone.after - zone.before)
    BY ZoneFields
  <1>2. o \in {zone.before, zone.after} /\ other # o /\ other \in Int /\ o \in Int
    BY <1>1 DEF offset_at
  <1>3. Later(wall_time(zone, utc), -other) = instant
    BY <1>2, OtherReading DEF wall_time
  <1>4. CASE o = zone.after /\ other = zone.before /\ ~Precedes(utc, zone.change)
    \* utc is past the change, and a later instant all the more.
    <2>1. WithinADay(o - other) /\ o - other > 0
      BY <1>1, <1>2, <1>4
    <2>2. instant \in Moments /\ Precedes(utc, instant)
      BY <2>1, LaterFields, LaterIsLater
    <2>3. ~Precedes(instant, zone.change)
      BY <1>1, <1>4, <2>2, PrecedesTransitive
    <2> QED
      BY <1>2, <1>3, <1>4, <2>3 DEF offset_at
  <1>5. CASE o = zone.before /\ other = zone.after /\ Precedes(utc, zone.change)
    \* The later instant is past the change only in the repeated hour.
    <2>1. zone.before > zone.after /\ o - other = zone.before - zone.after
      BY <1>1, <1>5
    <2> DEFINE first == Later(zone.change, zone.after - zone.before)
    <2>2. Precedes(utc, first) /\ first \in Moments
      BY <1>1, <1>5, <2>1, LaterFields DEF FirstPass
    <2>3. Later(first, zone.before - zone.after) = zone.change
      <3>1. (zone.after - zone.before) + (zone.before - zone.after) = 0 /\ WithinADay(0)
        BY <1>1 DEF WithinADay
      <3> QED
        BY <1>1, <3>1, LaterAddsUp, LaterByNothing
    <2>4. Precedes(instant, Later(first, zone.before - zone.after))
      <3> HIDE DEF first
      <3> QED
        BY <1>1, <2>1, <2>2, LaterKeepsOrder
    <2> QED
      BY <1>2, <1>3, <1>5, <2>1, <2>3, <2>4 DEF offset_at
  <1> QED
    BY <1>2, <1>4, <1>5 DEF offset_at

\* The wall time of an instant, read as the coordinator does in the zone it is
\* shown in, is that instant, in any zone and at any moment but the first pass
\* through a repeated hour (SessionZone, src/README.md).
THEOREM WallTimeReadsBack ==
  ASSUME NEW zone \in ZoneTypes, NEW utc \in Moments, ~FirstPass(zone, utc)
  PROVE  latest(zone, wall_time(zone, utc)) = utc
  <1> DEFINE o == offset_at(zone, utc)
             local == wall_time(zone, utc)
             reads == {offset \in {zone.before, zone.after} :
                         offset_at(zone, Later(local, -offset)) = offset}
             least == CHOOSE offset \in reads : \A other \in reads : offset <= other
  <1>1. o \in {zone.before, zone.after} /\ zone.before \in Int /\ zone.after \in Int
    BY ZoneFields DEF offset_at
  <1>2. Later(local, -o) = utc
    <2>1. Later(local, -o) = Later(utc, o - o)
      BY <1>1, OtherReading DEF wall_time
    <2>2. o - o = 0
      BY <1>1
    <2> QED
      BY <2>1, <2>2, LaterByNothing
  <1>3. o \in reads
    BY <1>1, <1>2
  <1>4. \A other \in reads : ~(other < o)
    BY LesserReading
  <1>5. \A other \in reads : o <= other
    BY <1>1, <1>4
  <1>6. least = o
    <2>1. \E offset \in reads : \A other \in reads : offset <= other
      BY <1>3, <1>5
    <2>2. least \in reads /\ \A other \in reads : least <= other
      BY <2>1
    <2>3. least <= o /\ o <= least /\ least \in Int
      BY <1>1, <1>3, <1>5, <2>2
    <2> QED
      BY <1>1, <2>3
  <1>7. latest(zone, local) = IF reads = {} THEN Nothing ELSE Later(local, -least)
    BY DEF latest
  <1> QED
    BY <1>2, <1>3, <1>6, <1>7
-----------------------------------------------------------------------------
(* Values as they are delivered.                                            *)

\* Texts as a coordinator may send them, the fields before any check. An offset
\* is in range, and a name stands for a zone or for none.
ZoneTexts ==
  {text \in [sign : {"+", "-"}, hours : Nat, minutes : Nat] : WithinADay(text.hours * 60 + text.minutes)}
    \union [name : STRING, zone : ZoneTypes \union {Nothing}]
DateTexts == [year : [sign : {"", "-"}, magnitude : Nat], month : Nat, day : Nat]
TimeTexts == [hour : Nat, minute : Nat, second : Nat, fraction : Seq(0..9)]
StampTexts == [date : DateTexts, time : TimeTexts, zone : ZoneTexts]

LEMMA HoursAndMinutes ==
  ASSUME NEW n, MinuteOfDay(n)
  PROVE  /\ (n \div 60) * 60 + (n % 60) = n
         /\ n \div 60 \in 0..23 /\ n % 60 \in 0..59
  <1>1. n \in Int /\ 0 <= n /\ n < 1440
    BY DEF MinuteOfDay
  <1>2. n \div 60 \in Int /\ n % 60 \in Int /\ (n \div 60) * 60 + (n % 60) = n
    BY <1>1
  <1>3. 0 <= n \div 60 /\ n \div 60 <= 23 /\ 0 <= n % 60 /\ n % 60 <= 59
    BY <1>1
  <1> DEFINE hours == n \div 60
             minutes == n % 60
  <1> HIDE DEF hours, minutes
  <1>4. hours \in Int /\ 0 <= hours /\ hours <= 23 => hours \in 0..23
    OBVIOUS
  <1>5. minutes \in Int /\ 0 <= minutes /\ minutes <= 59 => minutes \in 0..59
    OBVIOUS
  <1> QED
    BY <1>2, <1>3, <1>4, <1>5 DEF hours, minutes

LEMMA WholeDays ==
  ASSUME NEW n \in Int
  PROVE  n % 1440 \in Int /\ (n - (n % 1440)) % 1440 = 0
  OBVIOUS

LEMMA OffsetIsShort ==
  ASSUME NEW text \in ZoneTexts, IsOffset(text)
  PROVE  parse_numeric_offset(text) \in Int /\ WithinADay(-parse_numeric_offset(text))
  <1>1. CASE text \in [name : STRING, zone : ZoneTypes \union {Nothing}]
    BY <1>1 DEF IsOffset
  <1>2. CASE text \in {t \in [sign : {"+", "-"}, hours : Nat, minutes : Nat] : WithinADay(t.hours * 60 + t.minutes)}
    <2>1. text.hours \in Nat /\ text.minutes \in Nat /\ WithinADay(text.hours * 60 + text.minutes)
      BY <1>2
    <2> QED
      BY <2>1 DEF parse_numeric_offset, Signed, WithinADay
  <1> QED
    BY <1>1, <1>2 DEF ZoneTexts

\* A wall time that exists is read as an instant.
LEMMA EarliestIsAMoment ==
  ASSUME NEW zone \in ZoneTypes, NEW local \in Moments, earliest(zone, local) # Nothing
  PROVE  earliest(zone, local) \in Moments
  <1> DEFINE reads == {offset \in {zone.before, zone.after} :
                         offset_at(zone, Later(local, -offset)) = offset}
             most == CHOOSE offset \in reads : \A other \in reads : other <= offset
  <1>1. earliest(zone, local) = IF reads = {} THEN Nothing ELSE Later(local, -most)
    BY DEF earliest
  <1>2. reads # {}
    BY <1>1
  <1>3. zone.before \in Int /\ zone.after \in Int /\ reads \subseteq {zone.before, zone.after}
    BY ZoneFields
  <1>4. \E offset \in reads : \A other \in reads : other <= offset
    BY <1>2, <1>3
  <1>5. most \in {zone.before, zone.after}
    BY <1>3, <1>4
  <1>6. WithinADay(-most)
    BY <1>5, ZoneFields
  <1> HIDE DEF most
  <1> QED
    BY <1>1, <1>2, <1>6, LaterFields

\* The instant a text names: the first of two in an hour its zone repeats, where
\* the text is the same for both.
InstantOf(ts) ==
  LET local == Moment(parse_trino_timestamp(ts))
  IN IF IsOffset(ts.zone) THEN Later(local, -parse_numeric_offset(ts.zone))
     ELSE earliest(ts.zone.zone, local)

\* The result, with its fields written out.
ShownValue(ts, shown) ==
  [type |-> "Timestamp", year |-> shown.date.year, month |-> shown.date.month,
   day |-> shown.date.day, hour |-> shown.minute \div 60, minute |-> shown.minute % 60,
   second |-> ts.time.second, fraction |-> parse_fraction_nanos(ts.time.fraction)]

\* What is read and not refused has a date and a minute of that day.
LEMMA ReadIsAMoment ==
  ASSUME NEW ts \in StampTexts, NEW session \in ZoneTypes,
         parse_trino_timestamp_tz(ts, session) # Nothing
  PROVE  Moment(parse_trino_timestamp(ts)) \in Moments
  <1> DEFINE base == parse_trino_timestamp(ts)
  <1>1. base # Nothing /\ check_date(base) /\ base.hour <= 23 /\ base.minute <= 59
    <2>1. base # Nothing /\ check_date(base) /\ ~(base.hour > 23) /\ ~(base.minute > 59)
      BY DEF parse_trino_timestamp_tz
    <2>2. base.hour \in Nat /\ base.minute \in Nat
      BY <2>1 DEF parse_trino_timestamp, parse_trino_time, StampTexts, TimeTexts
    <2> QED
      BY <2>1, <2>2
  <1>2. base.hour \in Nat /\ base.minute \in Nat
    BY <1>1 DEF parse_trino_timestamp, parse_trino_time, StampTexts, TimeTexts
  <1>3. base.year \in Int /\ base.month \in 1..12 /\ base.day \in 1..DaysIn(base.year, base.month)
    <2>1. ts.date.year.magnitude \in Nat /\ parse_ymd(ts.date) # Nothing
      BY <1>1 DEF parse_trino_timestamp, StampTexts, DateTexts
    <2>2. parse_ymd(ts.date).year \in Int
      BY <2>1 DEF parse_ymd
    <2>3. base.year = parse_ymd(ts.date).year
      BY <1>1 DEF parse_trino_timestamp
    <2> QED
      BY <1>1, <2>2, <2>3 DEF check_date
  <1>4. [year |-> base.year, month |-> base.month, day |-> base.day] \in Dates
    BY <1>3, DaysInRange DEF Dates
  <1>5. MinuteOfDay(base.hour * 60 + base.minute)
    BY <1>1, <1>2 DEF MinuteOfDay
  <1> QED
    BY <1>4, <1>5, MomentOf DEF Moment

LEMMA ShownFields ==
  ASSUME NEW ts \in StampTexts, NEW session \in ZoneTypes,
         parse_trino_timestamp_tz(ts, session) # Nothing
  PROVE  /\ InstantOf(ts) # Nothing
         /\ parse_trino_timestamp_tz(ts, session) = ShownValue(ts, wall_time(session, InstantOf(ts)))
  <1> DEFINE base  == parse_trino_timestamp(ts)
             utc   == IF IsOffset(ts.zone) THEN Later(Moment(base), -parse_numeric_offset(ts.zone))
                      ELSE IF ts.zone.zone = Nothing THEN Nothing
                      ELSE earliest(ts.zone.zone, Moment(base))
             shown == wall_time(session, utc)
  <1>1. base # Nothing /\ utc # Nothing
    BY DEF parse_trino_timestamp_tz
  <1>2. utc = InstantOf(ts)
    BY <1>1 DEF InstantOf
  <1>3. parse_trino_timestamp_tz(ts, session) =
          [type |-> "Timestamp", year |-> shown.date.year, month |-> shown.date.month,
           day |-> shown.date.day, hour |-> shown.minute \div 60, minute |-> shown.minute % 60,
           second |-> base.second, fraction |-> base.fraction]
    BY DEF parse_trino_timestamp_tz
  <1>4. base.second = ts.time.second /\ base.fraction = parse_fraction_nanos(ts.time.fraction)
    BY <1>1 DEF parse_trino_timestamp, parse_trino_time
  <1> HIDE DEF base, utc, shown
  <1>5. parse_trino_timestamp_tz(ts, session) = ShownValue(ts, shown)
    BY <1>3, <1>4 DEF ShownValue
  <1> QED
    BY <1>1, <1>2, <1>5 DEF shown

\* A time stamp with a zone, delivered as a wall time of the session's zone,
\* is read by the coordinator as the instant its text names, unless the clocks of
\* that zone make it the first of two; its seconds and its nine digits are the ones sent
\* (parse_trino_timestamp_tz).
THEOREM InstantIsKept ==
  ASSUME NEW ts \in StampTexts, NEW session \in ZoneTypes,
         parse_trino_timestamp_tz(ts, session) # Nothing
  PROVE  LET v   == parse_trino_timestamp_tz(ts, session)
             utc == InstantOf(ts)
         IN /\ utc \in Moments
            /\ latest(session, Moment(v)) = utc \/ FirstPass(session, utc)
            /\ v.second = ts.time.second /\ v.fraction = parse_fraction_nanos(ts.time.fraction)
  <1> DEFINE v     == parse_trino_timestamp_tz(ts, session)
             utc   == InstantOf(ts)
             shown == wall_time(session, utc)
  <1>1. utc # Nothing /\ v = ShownValue(ts, shown)
    BY ShownFields
  <1>2. utc \in Moments
    <2> DEFINE local == Moment(parse_trino_timestamp(ts))
    <2>1. local \in Moments
      BY ReadIsAMoment
    <2>2. CASE IsOffset(ts.zone)
      <3>1. WithinADay(-parse_numeric_offset(ts.zone))
        BY <2>2, OffsetIsShort DEF StampTexts
      <3> QED
        BY <2>1, <2>2, <3>1, LaterFields DEF InstantOf
    <2>3. CASE ~IsOffset(ts.zone)
      <3>1. ts.zone.zone # Nothing
        BY <2>3 DEF parse_trino_timestamp_tz
      <3>2. ts.zone.zone \in ZoneTypes
        BY <2>3, <3>1 DEF StampTexts, ZoneTexts, IsOffset
      <3> QED
        BY <1>1, <2>1, <2>3, <3>2, EarliestIsAMoment DEF InstantOf
    <2> QED
      BY <2>2, <2>3
  <1> HIDE DEF utc
  <1>3. shown \in Moments
    <2>1. WithinADay(offset_at(session, utc))
      BY ZoneFields DEF offset_at
    <2> QED
      BY <1>2, <2>1, LaterFields DEF wall_time
  <1>4. Moment(v) = shown
    <2> HIDE DEF v, shown
    <2>1. MinuteOfDay(shown.minute) /\ shown.date \in Dates
      BY <1>3, MomentFields
    <2>2. (shown.minute \div 60) * 60 + (shown.minute % 60) = shown.minute
      BY <2>1, HoursAndMinutes
    <2>3. [year |-> shown.date.year, month |-> shown.date.month, day |-> shown.date.day] = shown.date
      BY <2>1 DEF Dates
    <2>4. Moment(v) = [date |-> shown.date, minute |-> shown.minute]
      BY <1>1, <2>2, <2>3 DEF Moment, ShownValue
    <2> QED
      BY <1>3, <2>4 DEF Moments
  <1>5. latest(session, shown) = utc \/ FirstPass(session, utc)
    BY <1>2, WallTimeReadsBack
  <1>6. v.second = ts.time.second /\ v.fraction = parse_fraction_nanos(ts.time.fraction)
    BY <1>1 DEF ShownValue
  <1> HIDE DEF v, shown
  <1> QED
    BY <1>2, <1>4, <1>5, <1>6 DEF v, utc

\* A time with a zone keeps its distance from UTC, modulo a day, and is a time of
\* day whatever the two offsets are (parse_trino_time_with_tz, shift_time).
THEOREM TimeOfDayIsKept ==
  ASSUME NEW t \in [hour : Nat, minute : Nat, second : Nat, fraction : Seq(0..9), zone : ZoneTexts],
         NEW session_offset \in Int
  PROVE  LET v    == parse_trino_time_with_tz(t, session_offset)
             sent == IF IsOffset(t.zone) THEN parse_numeric_offset(t.zone) ELSE 0
         IN /\ v.hour \in 0..23 /\ v.minute \in 0..59
            /\ ((t.hour * 60 + t.minute - sent) - (v.hour * 60 + v.minute - session_offset)) % MinutesADay = 0
  <1> DEFINE v     == parse_trino_time_with_tz(t, session_offset)
             sent  == IF IsOffset(t.zone) THEN parse_numeric_offset(t.zone) ELSE 0
             total == t.hour * 60 + t.minute - (sent - session_offset)
             wrapped == total % 1440
  <1>1. sent \in Int
    <2>1. CASE IsOffset(t.zone)
      BY <2>1, OffsetIsShort
    <2> QED
      BY <2>1
  <1> HIDE DEF sent
  <1>2. t.hour * 60 + t.minute \in Int /\ total \in Int
    BY <1>1
  <1>3. MinuteOfDay(wrapped)
    BY <1>2 DEF MinuteOfDay
  <1>4. v.hour = wrapped \div 60 /\ v.minute = wrapped % 60
    BY DEF parse_trino_time_with_tz, shift_time, MinutesADay, sent
  <1>5. (wrapped \div 60) * 60 + (wrapped % 60) = wrapped /\ wrapped \div 60 \in 0..23 /\ wrapped % 60 \in 0..59
    BY <1>3, HoursAndMinutes
  <1>6. ((t.hour * 60 + t.minute - sent) - (v.hour * 60 + v.minute - session_offset)) % 1440 = 0
    <2>1. wrapped \in Int /\ (total - wrapped) % 1440 = 0
      <3> HIDE DEF total
      <3> QED
        BY <1>2, WholeDays
    <2>2. v.hour \in Int /\ v.minute \in Int /\ v.hour * 60 + v.minute = wrapped
      BY <1>4, <1>5
    <2>3. (t.hour * 60 + t.minute - sent) - (v.hour * 60 + v.minute - session_offset) = total - wrapped
      <3> DEFINE sent_at  == t.hour * 60 + t.minute
                 shown_at == v.hour * 60 + v.minute
      <3>1. sent_at \in Int /\ shown_at \in Int /\ shown_at = wrapped
        BY <2>1, <2>2
      <3>2. total = sent_at - (sent - session_offset)
        BY <1>1
      <3>3. (t.hour * 60 + t.minute - sent) = sent_at - sent
        BY <1>1
      <3>4. (v.hour * 60 + v.minute - session_offset) = shown_at - session_offset
        BY <2>2
      <3> HIDE DEF v, wrapped, total, sent_at, shown_at
      <3> QED
        BY <1>1, <2>1, <3>1, <3>2, <3>3, <3>4
    <2> HIDE DEF v, wrapped, total
    <2> QED
      BY <2>1, <2>3
  <1> HIDE DEF v, wrapped, total
  <1>7. v.hour \in 0..23 /\ v.minute \in 0..59
    BY <1>4, <1>5
  <1>8. MinutesADay = 1440
    BY DEF MinutesADay
  <1> QED
    BY <1>6, <1>7, <1>8 DEF v, sent
-----------------------------------------------------------------------------
(* Bound values, read back.                                                 *)

\* A year is its sign and its magnitude.
LEMMA YearText ==
  ASSUME NEW year \in Int, -32767 <= year, year <= 32767
  PROVE  /\ ~(year4(year).magnitude > I16_MAX)
         /\ (IF year4(year).sign = "-" THEN -year4(year).magnitude ELSE year4(year).magnitude) = year
  <1>1. CASE year < 0
    <2>1. year4(year).sign = "-" /\ year4(year).magnitude = -year
      BY <1>1 DEF year4
    <2> QED
      BY <2>1 DEF I16_MAX
  <1>2. CASE ~(year < 0)
    <2>1. year4(year).sign # "-" /\ year4(year).magnitude = year
      BY <1>2 DEF year4
    <2>2. ~(year > I16_MAX)
      BY DEF I16_MAX
    <2> QED
      BY <2>1, <2>2
  <1> QED
    BY <1>1, <1>2

\* A date that the driver renders is the date it reads back, for every year but
\* the one whose magnitude does not fit (render_literal, parse_ymd).
THEOREM BoundDateReadsBack ==
  ASSUME NEW year \in Int, -32767 <= year, year <= 32767, NEW month, NEW day,
         check_date([type |-> "Date", year |-> year, month |-> month, day |-> day])
  PROVE  LET v == [type |-> "Date", year |-> year, month |-> month, day |-> day]
         IN render_literal(v).ok /\ parse_trino_date(render_literal(v).body) = v
  <1> DEFINE v    == [type |-> "Date", year |-> year, month |-> month, day |-> day]
             text == year4(year)
             body == [year |-> text, month |-> month, day |-> day]
  <1>1. v.type = "Date" /\ check_date(v) /\ DateText(v) = body
    BY DEF DateText
  <1>2. parse_ymd(body) = v
    <2>1. /\ ~(text.magnitude > I16_MAX)
          /\ (IF text.sign = "-" THEN -text.magnitude ELSE text.magnitude) = year
      BY YearText
    <2> HIDE DEF text
    <2> QED
      BY <2>1 DEF parse_ymd
  <1> HIDE DEF v, body
  <1>3. render_literal(v) = Rendered("DATE", body)
    BY <1>1 DEF render_literal
  <1>4. render_literal(v).ok /\ render_literal(v).body = body
    BY <1>3 DEF Rendered
  <1>5. parse_trino_date(render_literal(v).body) = v
    BY <1>2, <1>4 DEF parse_trino_date
  <1> QED
    BY <1>4, <1>5 DEF v

\* The offset of a bound time stamp is the one read back, with its sign
\* (OffsetText, parse_numeric_offset, SessionZone::parse).
THEOREM OffsetReadsBack ==
  ASSUME NEW minutes \in Int, -1080 <= minutes, minutes <= 1080
  PROVE  /\ parse_numeric_offset(OffsetText(minutes)) = minutes
         /\ parse_zone(OffsetText(minutes)) = Fixed(minutes)
  <1> DEFINE abs == IF minutes < 0 THEN -minutes ELSE minutes
             text == OffsetText(minutes)
  <1>1. MinuteOfDay(abs) /\ abs <= 1080
    BY DEF MinuteOfDay
  <1>2. (abs \div 60) * 60 + (abs % 60) = abs
    BY <1>1, HoursAndMinutes
  <1>3. abs \div 60 <= 18 /\ abs % 60 <= 59 /\ abs \div 60 \in Int /\ abs % 60 \in Int
    BY <1>1 DEF MinuteOfDay
  <1>4. text = [sign |-> IF minutes < 0 THEN "-" ELSE "+", hours |-> abs \div 60, minutes |-> abs % 60]
    BY DEF OffsetText
  <1>5. parse_numeric_offset(text) = minutes
    <2>1. text.hours * 60 + text.minutes = abs
      BY <1>2, <1>4
    <2>2. parse_numeric_offset(text) = IF text.sign = "-" THEN -abs ELSE abs
      BY <2>1 DEF parse_numeric_offset, Signed
    <2>3. text.sign = IF minutes < 0 THEN "-" ELSE "+"
      BY <1>4
    <2> HIDE DEF text
    <2> QED
      BY <2>2, <2>3
  <1>6. IsOffset(text) /\ ~(text.hours > 18 \/ text.minutes > 59)
    <2>1. IsOffset(text)
      BY <1>4 DEF IsOffset
    <2> QED
      BY <1>3, <1>4, <2>1
  <1> HIDE DEF text
  <1> QED
    BY <1>5, <1>6 DEF parse_zone, text
=============================================================================
