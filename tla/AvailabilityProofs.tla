-------------------------- MODULE AvailabilityProofs --------------------------
(***************************************************************************)
(* What holds of TimeRules, RoomAvailability and RoomAnalytics for every   *)
(* set of texts and dates, every zone and every number of ticks in a       *)
(* minute.                                                                 *)
(***************************************************************************)
EXTENDS RoomAnalytics, FiniteSetTheorems, TLAPS

(* Whole numbers *)

LEMMA TimesGrows ==
  ASSUME NEW a \in Int, NEW b \in Int, NEW d \in Nat \ {0}, a < b
  PROVE  a * d + d <= b * d
  <1>1. PICK k \in Nat : b = a + 1 + k
    BY b - a - 1 \in Nat
  <1>2. b * d = a * d + d + k * d
    BY <1>1
  <1>3. k * d >= 0
    OBVIOUS
  <1> QED
    BY <1>2, <1>3

LEMMA Division ==
  ASSUME NEW n \in Int, NEW d \in Nat \ {0}
  PROVE  /\ n \div d \in Int /\ n % d \in 0..(d - 1)
         /\ n = (n \div d) * d + (n % d)
  OBVIOUS

LEMMA DivisionUnique ==
  ASSUME NEW q \in Int, NEW d \in Nat \ {0}, NEW r \in 0..(d - 1), NEW n \in Int, n = q * d + r
  PROVE  n \div d = q /\ n % d = r
  <1> DEFINE p == n \div d
             s == n % d
  <1>1. p \in Int /\ s \in 0..(d - 1) /\ n = p * d + s
    BY Division
  <1> HIDE DEF p, s
  <1>2. ~(p < q)
    <2>1. p < q => p * d + d <= q * d
      BY <1>1, TimesGrows
    <2> QED
      BY <1>1, <2>1
  <1>3. ~(q < p)
    <2>1. q < p => q * d + d <= p * d
      BY <1>1, TimesGrows
    <2> QED
      BY <1>1, <2>1
  <1>4. p = q
    BY <1>1, <1>2, <1>3
  <1>5. s = r
    BY <1>1, <1>4
  <1> QED
    BY <1>4, <1>5 DEF p, s

(* The quotient of n is at least k exactly when n is at least k times d. *)
LEMMA QuotientBound ==
  ASSUME NEW n \in Int, NEW k \in Int, NEW d \in Nat \ {0}
  PROVE  /\ n \div d >= k <=> n >= k * d
         /\ n \div d < k <=> n < k * d
  <1> DEFINE p == n \div d
             s == n % d
  <1>1. p \in Int /\ s \in 0..(d - 1) /\ n = p * d + s
    BY Division
  <1> HIDE DEF p, s
  <1>2. p >= k => p * d >= k * d
    <2>1. k < p => k * d + d <= p * d
      BY <1>1, TimesGrows
    <2>2. k * d \in Int /\ p * d \in Int
      BY <1>1
    <2> QED
      BY <1>1, <2>1, <2>2
  <1>3. p < k => p * d + d <= k * d
    BY <1>1, TimesGrows
  <1>4. k * d \in Int /\ p * d \in Int
    BY <1>1
  <1> QED
    BY <1>1, <1>2, <1>3, <1>4 DEF p
-----------------------------------------------------------------------------
(* The rules of TimeRules as inequalities, which is what they mean *)

Minute == PerHour \div 60
Midnight(day) == day * PerDay

LEMMA InMinutes == Minute \in Nat \ {0} /\ PerHour = 60 * Minute /\ PerDay = 1440 * Minute
  <1>1. PerHour = (PerHour \div 60) * 60 + (PerHour % 60) /\ PerHour \div 60 \in Int
    BY PerHourPositive, Division
  <1> QED
    BY <1>1, PerHourPositive, MinutesInTicks DEF Minute, PerDay

LEMMA AtIs ==
  ASSUME NEW day \in Int, NEW hour \in Int, NEW minute \in Int
  PROVE  /\ At(day, hour, minute) = Midnight(day) + (60 * hour + minute) * Minute
         /\ Midnight(day) \in Int
  <1>1. Minute \in Nat \ {0} /\ PerHour = 60 * Minute /\ PerDay \in Int
    BY InMinutes
  <1>2. minute * PerHour = (minute * Minute) * 60 + 0 /\ minute * Minute \in Int
    BY <1>1
  <1>3. (minute * PerHour) \div 60 = minute * Minute
    BY <1>1, <1>2, DivisionUnique
  <1>4. hour * PerHour = 60 * (hour * Minute) /\ hour * Minute \in Int
    BY <1>1
  <1>5. (60 * hour + minute) * Minute = 60 * (hour * Minute) + minute * Minute
    BY <1>1
  <1>6. day * PerDay \in Int
    BY <1>1
  <1> QED
    BY <1>2, <1>3, <1>4, <1>5, <1>6 DEF At, Midnight

LEMMA HourMarks ==
  ASSUME NEW day \in Int
  PROVE  /\ At(day, 9, 0) = Midnight(day) + 540 * Minute
         /\ At(day, 17, 0) = Midnight(day) + 1020 * Minute
         /\ At(day, 17, 1) = Midnight(day) + 1021 * Minute
  <1>1. At(day, 9, 0) = Midnight(day) + (60 * 9 + 0) * Minute
    BY AtIs
  <1>2. At(day, 17, 0) = Midnight(day) + (60 * 17 + 0) * Minute
    BY AtIs
  <1>3. At(day, 17, 1) = Midnight(day) + (60 * 17 + 1) * Minute
    BY AtIs
  <1> QED
    BY <1>1, <1>2, <1>3, InMinutes

LEMMA DayOfIs ==
  ASSUME NEW t \in Int
  PROVE  /\ DayOf(t) \in Int
         /\ Midnight(DayOf(t)) \in Int
         /\ Midnight(DayOf(t)) <= t /\ t < Midnight(DayOf(t)) + PerDay
  <1>1. PerDay \in Nat \ {0}
    BY InMinutes
  <1>2. /\ DayOf(t) \in Int /\ t % PerDay \in 0..(PerDay - 1)
        /\ t = DayOf(t) * PerDay + (t % PerDay)
    BY <1>1, Division DEF DayOf
  <1>3. DayOf(t) * PerDay \in Int
    BY <1>1, <1>2
  <1> QED
    BY <1>1, <1>2, <1>3 DEF Midnight

LEMMA MidnightGrows ==
  ASSUME NEW d \in Int, NEW e \in Int
  PROVE  d < e => Midnight(d) + PerDay <= Midnight(e)
  BY InMinutes, TimesGrows DEF Midnight

LEMMA SameDay ==
  ASSUME NEW day \in Int, NEW t \in Int, Midnight(day) <= t, t < Midnight(day) + PerDay
  PROVE  DayOf(t) = day
  <1>1. /\ DayOf(t) \in Int /\ Midnight(DayOf(t)) \in Int /\ Midnight(day) \in Int
        /\ Midnight(DayOf(t)) <= t /\ t < Midnight(DayOf(t)) + PerDay
    BY DayOfIs, AtIs
  <1>2. /\ DayOf(t) < day => Midnight(DayOf(t)) + PerDay <= Midnight(day)
        /\ day < DayOf(t) => Midnight(day) + PerDay <= Midnight(DayOf(t))
    BY <1>1, MidnightGrows
  <1> QED
    BY <1>1, <1>2, InMinutes

LEMMA HoursOfClock ==
  ASSUME NEW t \in Int, NEW k \in Int
  PROVE  /\ getHours(t) \in Int
         /\ getHours(t) >= k <=> t >= Midnight(DayOf(t)) + k * PerHour
         /\ getHours(t) < k <=> t < Midnight(DayOf(t)) + k * PerHour
  <1> DEFINE s == t % PerDay
  <1>1. PerDay \in Nat \ {0} /\ PerHour \in Nat \ {0}
    BY InMinutes
  <1>2. s \in Int /\ t = Midnight(DayOf(t)) + s /\ Midnight(DayOf(t)) \in Int
    BY <1>1, Division DEF DayOf, Midnight
  <1>3. /\ getHours(t) \in Int
        /\ getHours(t) >= k <=> s >= k * PerHour
        /\ getHours(t) < k <=> s < k * PerHour
    BY <1>1, <1>2, Division, QuotientBound DEF getHours
  <1>4. k * PerHour \in Int
    BY <1>1
  <1> HIDE DEF s
  <1> QED
    BY <1>2, <1>3, <1>4

(* Between five o'clock and six the minutes are zero within the first one. *)
LEMMA MinutesOfClock ==
  ASSUME NEW t \in Int, NEW k \in Int, getHours(t) = k
  PROVE  getMinutes(t) = 0 <=> t < Midnight(DayOf(t)) + k * PerHour + Minute
  <1> DEFINE s == t % PerDay
             m == t - Midnight(DayOf(t)) - k * PerHour
  <1>1. /\ PerDay = 24 * PerHour /\ PerHour \in Nat \ {0} /\ Minute \in Nat \ {0}
        /\ PerHour = 60 * Minute
    BY InMinutes DEF PerDay
  <1>2. DayOf(t) \in Int /\ Midnight(DayOf(t)) \in Int /\ k * PerHour \in Int
    BY <1>1, DayOfIs
  <1>3. m \in 0..(PerHour - 1)
    <2>1. getHours(t) >= k /\ getHours(t) < k + 1
      BY <1>2
    <2>2. t >= Midnight(DayOf(t)) + k * PerHour /\ t < Midnight(DayOf(t)) + (k + 1) * PerHour
      BY <2>1, HoursOfClock
    <2>3. (k + 1) * PerHour = k * PerHour + PerHour
      BY <1>1
    <2> QED
      BY <1>1, <1>2, <2>2, <2>3
  <1>4. t = (24 * DayOf(t) + k) * PerHour + m
    <2>1. (24 * DayOf(t) + k) * PerHour = DayOf(t) * (24 * PerHour) + k * PerHour
      BY <1>1, <1>2
    <2>2. Midnight(DayOf(t)) = DayOf(t) * (24 * PerHour)
      BY <1>1 DEF Midnight
    <2> QED
      BY <1>2, <2>1, <2>2
  <1> HIDE DEF m
  <1>5. t % PerHour = m
    <2> DEFINE q == 24 * DayOf(t) + k
    <2>1. q \in Int /\ t = q * PerHour + m
      BY <1>2, <1>4
    <2>2. \A a \in Int, r \in 0..(PerHour - 1) : t = a * PerHour + r => t % PerHour = r
      BY PerHourPositive, DivisionUnique
    <2> HIDE DEF q
    <2> QED
      BY <1>3, <2>1, <2>2, Zenon
  <1>6. getMinutes(t) = (m * 60) \div PerHour
    BY <1>5 DEF getMinutes
  <1>7. /\ (m * 60) \div PerHour \in Int
        /\ (m * 60) \div PerHour >= 0 <=> m * 60 >= 0 * PerHour
        /\ (m * 60) \div PerHour < 1 <=> m * 60 < 1 * PerHour
    BY <1>1, <1>3, Division, QuotientBound
  <1>8. getMinutes(t) = 0 <=> m < Minute
    BY <1>1, <1>3, <1>6, <1>7
  <1> QED
    BY <1>1, <1>2, <1>8 DEF m

LEMMA ClosingTime ==
  ASSUME NEW end \in Int
  PROVE  getHours(end) < END \/ (getHours(end) = END /\ getMinutes(end) = 0)
           <=> end < Midnight(DayOf(end)) + 1021 * Minute
  <1>1. Minute \in Nat \ {0} /\ PerHour = 60 * Minute /\ Midnight(DayOf(end)) \in Int
    BY InMinutes, DayOfIs
  <1>2. /\ getHours(end) \in Int
        /\ getHours(end) < 17 <=> end < Midnight(DayOf(end)) + 17 * PerHour
        /\ getHours(end) < 18 <=> end < Midnight(DayOf(end)) + 18 * PerHour
    BY HoursOfClock
  <1>3. getHours(end) = 17 =>
          (getMinutes(end) = 0 <=> end < Midnight(DayOf(end)) + 17 * PerHour + Minute)
    BY MinutesOfClock
  <1> QED
    BY <1>1, <1>2, <1>3 DEF END

(* validateBookingTimes looks at the two clock times, not at the dates, and *)
(* at whole minutes.                                                        *)
LEMMA TimesAccepted ==
  ASSUME NEW start \in Int, NEW end \in Int
  PROVE  validateBookingTimes(start, end) <=>
           /\ start >= Midnight(DayOf(start)) + 540 * Minute
           /\ end < Midnight(DayOf(end)) + 1021 * Minute
           /\ end - start >= 30 * Minute
           /\ end - start < 241 * Minute
  <1> DEFINE n == end - start
  <1>1. /\ PerHour \in Nat \ {0} /\ Minute \in Nat \ {0} /\ PerHour = 60 * Minute
        /\ Midnight(DayOf(start)) \in Int /\ Midnight(DayOf(end)) \in Int
    BY InMinutes, DayOfIs
  <1>2. getHours(start) >= START <=> start >= Midnight(DayOf(start)) + 540 * Minute
    BY <1>1, HoursOfClock DEF START
  <1>3. getHours(end) < END \/ (getHours(end) = END /\ getMinutes(end) = 0)
          <=> end < Midnight(DayOf(end)) + 1021 * Minute
    BY ClosingTime
  <1>4. validateDuration(start, end) <=> n >= 30 * Minute /\ n < 241 * Minute
    <2>1. /\ (n * 60) \div PerHour \in Int
          /\ (n * 60) \div PerHour >= 30 <=> n * 60 >= 30 * PerHour
          /\ (n * 60) \div PerHour < 241 <=> n * 60 < 241 * PerHour
      <3>1. n * 60 \in Int
        OBVIOUS
      <3>2. \A k \in Int : /\ (n * 60) \div PerHour >= k <=> n * 60 >= k * PerHour
                           /\ (n * 60) \div PerHour < k <=> n * 60 < k * PerHour
        BY <1>1, <3>1, QuotientBound
      <3>3. (n * 60) \div PerHour \in Int
        BY <1>1, <3>1, Division
      <3>4. 30 \in Int /\ 241 \in Int
        OBVIOUS
      <3> HIDE DEF n
      <3> QED
        BY <3>2, <3>3, <3>4
    <2>2. validateDuration(start, end) <=>
            (n * 60) \div PerHour >= 30 /\ (n * 60) \div PerHour < 241
      BY <2>1 DEF validateDuration, getDurationMinutes, MIN_MINUTES, MAX_MINUTES
    <2> HIDE DEF n
    <2> QED
      BY <1>1, <2>1, <2>2 DEF n
  <1> QED
    BY <1>1, <1>2, <1>3, <1>4 DEF validateBookingTimes, validateBusinessHours
-----------------------------------------------------------------------------
(* The inductive invariant of the table *)

Row == [start : Int, end : Int, status : Status]

RowsValid == \A i \in DOMAIN bookings : validateBookingTimes(bookings[i].start, bookings[i].end)

ActiveApart ==
  \A i, j \in DOMAIN bookings :
    i # j /\ bookings[i].status \in Active /\ bookings[j].status \in Active
    => ~Overlaps(bookings[i], bookings[j])

TableInv == bookings \in Seq(Row) /\ RowsValid /\ ActiveApart

LEMMA StoredTimes ==
  ASSUME TableInv, NEW i \in DOMAIN bookings
  PROVE  /\ bookings[i] \in Row /\ bookings[i].start \in Int /\ bookings[i].end \in Int
         /\ validateBookingTimes(bookings[i].start, bookings[i].end)
  <1>1. bookings[i] \in Row
    BY DEF TableInv
  <1> QED
    BY <1>1 DEF TableInv, RowsValid, Row

LEMMA ParsedTimes ==
  ASSUME NEW from \in Text, NEW to \in Text
  PROVE  Parsed(from, to).start \in Int /\ Parsed(from, to).end \in Int
  BY TextsTyped, PerHourPositive DEF Parsed, normalizeDatetime, LocalOf, InstantOf

LEMMA BooksOK ==
  ASSUME TableInv, NEW from \in Text, NEW to \in Text, CreateBooking(from, to)
  PROVE  TableInv'
  <1> DEFINE t == Parsed(from, to)
             new == [start |-> t.start, end |-> t.end, status |-> "confirmed"]
             n == Len(bookings)
  <1>0. t.start \in Int /\ t.end \in Int
    BY ParsedTimes
  <1>2. CanBook(t) /\ bookings' = Append(bookings, new)
    BY DEF CreateBooking
  <1> HIDE DEF t
  <1>1. new \in Row /\ new.start = t.start /\ new.end = t.end
    BY <1>0 DEF Row, Status, Active
  <1> HIDE DEF new
  <1>3. /\ bookings \in Seq(Row) /\ n \in Nat /\ bookings' \in Seq(Row)
        /\ DOMAIN bookings = 1..n /\ DOMAIN bookings' = 1..(n + 1)
        /\ \A i \in 1..n : bookings'[i] = bookings[i]
        /\ bookings'[n + 1] = new
    BY <1>1, <1>2 DEF TableInv
  <1> HIDE DEF n
  <1>4. RowsValid'
    BY <1>1, <1>2, <1>3 DEF TableInv, RowsValid, CanBook
  <1>5. \A i \in 1..n : bookings[i].status \in Active =>
          ~Overlaps(bookings[i], new) /\ ~Overlaps(new, bookings[i])
    <2>1. \A i \in 1..n : i # 0
      BY <1>3
    <2> QED
      BY <1>1, <1>2, <1>3, <2>1 DEF CanBook, Free, Overlaps
  <1>6. ActiveApart'
    <2> SUFFICES ASSUME NEW i \in 1..(n + 1), NEW j \in 1..(n + 1), i # j,
                        bookings'[i].status \in Active, bookings'[j].status \in Active
                 PROVE  ~Overlaps(bookings'[i], bookings'[j])
      BY <1>3 DEF ActiveApart, Overlaps
    <2>1. CASE i \in 1..n /\ j \in 1..n
      BY <1>3, <2>1 DEF TableInv, ActiveApart
    <2>2. CASE i = n + 1 /\ j \in 1..n
      BY <1>3, <1>5, <2>2
    <2>3. CASE i \in 1..n /\ j = n + 1
      BY <1>3, <1>5, <2>3
    <2> QED
      BY <1>3, <2>1, <2>2, <2>3
  <1> QED
    BY <1>3, <1>4, <1>6 DEF TableInv

LEMMA ChangesOK ==
  ASSUME TableInv, NEW i \in DOMAIN bookings, NEW new \in Row,
         validateBookingTimes(new.start, new.end),
         new.status \in Active => Free(new, i),
         bookings' = [bookings EXCEPT ![i] = new]
  PROVE  TableInv'
  <1>1. /\ bookings \in Seq(Row) /\ bookings' \in Seq(Row) /\ DOMAIN bookings' = DOMAIN bookings
        /\ bookings'[i] = new /\ \A j \in DOMAIN bookings \ {i} : bookings'[j] = bookings[j]
    BY DEF TableInv
  <1>2. RowsValid'
    BY <1>1 DEF TableInv, RowsValid
  <1>3. new.status \in Active => \A j \in DOMAIN bookings \ {i} : bookings[j].status \in Active =>
          ~Overlaps(bookings[j], new) /\ ~Overlaps(new, bookings[j])
    BY DEF Free, Overlaps
  <1>4. ActiveApart'
    <2> SUFFICES ASSUME NEW j \in DOMAIN bookings, NEW k \in DOMAIN bookings, j # k,
                        bookings'[j].status \in Active, bookings'[k].status \in Active
                 PROVE  ~Overlaps(bookings'[j], bookings'[k])
      BY <1>1 DEF ActiveApart, Overlaps
    <2>1. CASE j = i
      BY <1>1, <1>3, <2>1
    <2>2. CASE k = i
      BY <1>1, <1>3, <2>2
    <2>3. CASE j # i /\ k # i
      BY <1>1, <2>3 DEF TableInv, ActiveApart
    <2> QED
      BY <2>1, <2>2, <2>3
  <1> QED
    BY <1>1, <1>2, <1>4 DEF TableInv

LEMMA InitTable == AInit => TableInv
  BY DEF AInit, TableInv, RowsValid, ActiveApart

LEMMA NextTable == TableInv /\ [ANext]_bookings => TableInv'
  <1> SUFFICES ASSUME TableInv, [ANext]_bookings PROVE TableInv'
    OBVIOUS
  <1>1. CASE UNCHANGED bookings
    BY <1>1 DEF TableInv, RowsValid, ActiveApart
  <1>2. ASSUME NEW from \in Text, NEW to \in Text, CreateBooking(from, to) PROVE TableInv'
    BY <1>2, BooksOK
  <1>3. \A i \in DOMAIN bookings : /\ bookings[i] \in Row
                                   /\ validateBookingTimes(bookings[i].start, bookings[i].end)
    BY StoredTimes
  <1>4. ASSUME NEW i \in DOMAIN bookings, NEW from \in Text, NEW to \in Text,
               MoveBooking(i, from, to)
        PROVE  TableInv'
    <2> DEFINE t == Parsed(from, to)
               new == [bookings[i] EXCEPT !.start = t.start, !.end = t.end]
    <2>1. t.start \in Int /\ t.end \in Int
      BY ParsedTimes
    <2>2. /\ validateBookingTimes(t.start, t.end) /\ UpdateTriggerSilent(i, new)
          /\ bookings' = [bookings EXCEPT ![i] = new]
      BY <1>4 DEF MoveBooking, Write
    <2> HIDE DEF t
    <2>3. new \in Row /\ new.start = t.start /\ new.end = t.end
      BY <1>3, <2>1 DEF Row
    <2> HIDE DEF new
    <2> QED
      BY <2>2, <2>3, ChangesOK DEF UpdateTriggerSilent
  <1>5. ASSUME NEW i \in DOMAIN bookings, NEW status \in Status, SetStatus(i, status)
        PROVE  TableInv'
    <2> DEFINE new == [bookings[i] EXCEPT !.status = status]
    <2>1. new \in Row /\ new.start = bookings[i].start /\ new.end = bookings[i].end
      BY <1>3 DEF Row
    <2>2. UpdateTriggerSilent(i, new) /\ bookings' = [bookings EXCEPT ![i] = new]
      BY <1>5 DEF SetStatus, Write
    <2> HIDE DEF new
    <2> QED
      BY <1>3, <2>1, <2>2, ChangesOK DEF UpdateTriggerSilent
  <1>6. ASSUME NEW i \in DOMAIN bookings, CancelBooking(i) PROVE TableInv'
    <2> DEFINE new == [bookings[i] EXCEPT !.status = "cancelled"]
    <2>1. /\ new \in Row /\ new.start = bookings[i].start /\ new.end = bookings[i].end
          /\ new.status \notin Active
      BY <1>3 DEF Row, Status, Active
    <2>2. bookings' = [bookings EXCEPT ![i] = new]
      BY <1>6 DEF CancelBooking
    <2> HIDE DEF new
    <2> QED
      BY <1>3, <2>1, <2>2, ChangesOK
  <1> QED
    BY <1>1, <1>2, <1>4, <1>5, <1>6 DEF ANext

LEMMA TableAlways == ASpec => []TableInv
  <1> QED
    BY InitTable, NextTable, PTL DEF ASpec
-----------------------------------------------------------------------------
(* Whatever obeys the documented rules passes the code's checks of hours,   *)
(* minutes and length (time.ts:26-64): free times are never turned down.    *)
THEOREM RulesAreEnough == ASpec => []RulesSuffice
  <1>1. RulesSuffice
    <2> SUFFICES ASSUME NEW from \in Text, NEW to \in Text,
                        ObeysRules(Parsed(from, to)), Free(Parsed(from, to), 0)
                 PROVE  CanBook(Parsed(from, to))
      BY DEF RulesSuffice
    <2> DEFINE t == Parsed(from, to)
    <2>1. t.start \in Int /\ t.end \in Int
      BY ParsedTimes
    <2> HIDE DEF t
    <2>2. /\ DayOf(t.end) \in Int /\ Midnight(DayOf(t.end)) \in Int
          /\ Minute \in Nat \ {0} /\ PerHour = 60 * Minute
      BY <2>1, DayOfIs, InMinutes
    <2>3. /\ At(DayOf(t.end), 9, 0) = Midnight(DayOf(t.end)) + 540 * Minute
          /\ At(DayOf(t.end), 17, 0) = Midnight(DayOf(t.end)) + 1020 * Minute
      BY <2>2, HourMarks
    <2>4. /\ DayOf(t.start) = DayOf(t.end)
          /\ t.start >= At(DayOf(t.end), 9, 0) /\ t.end <= At(DayOf(t.end), 17, 0)
          /\ 2 * (t.end - t.start) >= PerHour /\ t.end - t.start <= 4 * PerHour
      BY DEF ObeysRules, START, END, t
    <2>5. validateBookingTimes(t.start, t.end)
      BY <2>1, <2>2, <2>3, <2>4, TimesAccepted
    <2> QED
      BY <2>5 DEF CanBook, t
  <1> QED
    BY <1>1, PTL

(* Through any sequence of bookings, moves and changes of status, a stored  *)
(* booking within one day breaks no rule by a whole minute: what            *)
(* getMinutes and Math.floor drop are seconds (time.ts:30, 52).             *)
THEOREM RulesHoldUpToSeconds == ASpec => []RulesUpToSeconds
  <1>1. TableInv => RulesUpToSeconds
    <2> SUFFICES ASSUME TableInv, NEW i \in DOMAIN bookings,
                        DayOf(bookings[i].start) = DayOf(bookings[i].end)
                 PROVE  LET b == bookings[i]
                        IN /\ b.start >= At(DayOf(b.start), START, 0)
                           /\ b.end < At(DayOf(b.end), END, 1)
                           /\ 2 * (b.end - b.start) >= PerHour
                           /\ b.end - b.start < 4 * PerHour + PerHour \div 60
      BY DEF RulesUpToSeconds
    <2> DEFINE b == bookings[i]
    <2>1. b.start \in Int /\ b.end \in Int /\ validateBookingTimes(b.start, b.end)
      BY StoredTimes
    <2> HIDE DEF b
    <2>2. /\ b.start >= Midnight(DayOf(b.start)) + 540 * Minute
          /\ b.end < Midnight(DayOf(b.end)) + 1021 * Minute
          /\ b.end - b.start >= 30 * Minute /\ b.end - b.start < 241 * Minute
      BY <2>1, TimesAccepted
    <2>3. /\ DayOf(b.end) \in Int /\ DayOf(b.start) \in Int
          /\ Minute \in Nat \ {0} /\ PerHour = 60 * Minute /\ PerHour \div 60 = Minute
      BY <2>1, DayOfIs, InMinutes DEF Minute
    <2>4. /\ At(DayOf(b.start), 9, 0) = Midnight(DayOf(b.start)) + 540 * Minute
          /\ At(DayOf(b.end), 17, 1) = Midnight(DayOf(b.end)) + 1021 * Minute
      BY <2>3, HourMarks
    <2> QED
      BY <2>1, <2>2, <2>3, <2>4 DEF START, END, b
  <1> QED
    BY <1>1, TableAlways, PTL

(* No two active bookings of the room overlap when its requests are served  *)
(* one by one: the trigger makes good what the shifted search of an update  *)
(* misses (setup_database.sql:198-216). So a report counts no time for two  *)
(* bookings, unless one of them is marked completed.                        *)
THEOREM TimeIsCountedOnce == ASpec => []TimeCountedOnce
  <1>1. TableInv => TimeCountedOnce
    BY DEF TableInv, ActiveApart, TimeCountedOnce, Counted, Ids, Active
  <1> QED
    BY <1>1, TableAlways, PTL
-----------------------------------------------------------------------------
(* The slots on offer *)

\* The process runs in the zone of UTC or east of it.
EastOfUTC == Offset \in 0..(PerDay - 1)

LEMMA SlotsOfTheDate ==
  ASSUME EastOfUTC, NEW date \in Dates
  PROVE  date \in Int /\ SlotDay(date) = date
  <1>1. date \in Int /\ PerDay \in Nat \ {0} /\ Midnight(date) \in Int
    BY DatesAreInts, InMinutes, AtIs
  <1>2. LocalOf(date * PerDay) = Midnight(date) + Offset
    BY DEF LocalOf, Midnight
  <1>3. Midnight(date) + Offset \in Int /\ DayOf(Midnight(date) + Offset) = date
    BY <1>1, SameDay DEF EastOfUTC
  <1> QED
    BY <1>1, <1>2, <1>3 DEF SlotDay

(* The marks of a day's half hours *)
LEMMA InTheDay ==
  ASSUME NEW x \in 540..990
  PROVE  /\ x * Minute \in Int /\ (x + 30) * Minute = x * Minute + 30 * Minute
         /\ x * Minute >= 540 * Minute /\ x * Minute <= 990 * Minute
  <1>1. Minute \in Nat \ {0}
    BY InMinutes
  <1>2. x * Minute \in Int /\ (x + 30) * Minute = x * Minute + 30 * Minute
    BY <1>1
  <1>3. 540 < x => 540 * Minute + Minute <= x * Minute
    BY <1>1, TimesGrows
  <1>4. x < 990 => x * Minute + Minute <= 990 * Minute
    BY <1>1, TimesGrows
  <1> QED
    BY <1>1, <1>2, <1>3, <1>4

LEMMA SlotTimes ==
  ASSUME NEW day \in Int, NEW slot \in generateTimeSlots(day)
  PROVE  /\ slot.start \in Int /\ slot.end = slot.start + 30 * Minute
         /\ slot.start >= Midnight(day) + 540 * Minute
         /\ slot.end <= Midnight(day) + 1020 * Minute
         /\ DayOf(slot.start) = day /\ DayOf(slot.end) = day
  <1>1. PICK h \in START..(END - 1), m \in {0, 30} :
          slot = [start |-> At(day, h, m), end |-> At(day, h, m + 30)]
    BY DEF generateTimeSlots
  <1> DEFINE x == 60 * h + m
  <1>2. x \in 540..990 /\ h \in Int /\ m \in Int /\ m + 30 \in Int /\ 60 * h + (m + 30) = x + 30
    BY <1>1 DEF START, END
  <1>3. Minute \in Nat \ {0} /\ Midnight(day) \in Int /\ PerDay = 1440 * Minute
    BY InMinutes, AtIs
  <1>4. slot.start = Midnight(day) + x * Minute /\ slot.end = Midnight(day) + (x + 30) * Minute
    BY <1>1, <1>2, AtIs
  <1> HIDE DEF x
  <1>5. /\ x * Minute \in Int /\ (x + 30) * Minute = x * Minute + 30 * Minute
        /\ x * Minute >= 540 * Minute /\ x * Minute <= 990 * Minute
    BY <1>2, InTheDay
  <1>6. /\ slot.start \in Int /\ slot.end \in Int /\ slot.end = slot.start + 30 * Minute
        /\ slot.start >= Midnight(day) + 540 * Minute
        /\ slot.end <= Midnight(day) + 1020 * Minute
    BY <1>3, <1>4, <1>5
  <1>7. DayOf(slot.start) = day /\ DayOf(slot.end) = day
    BY <1>3, <1>6, SameDay
  <1> QED
    BY <1>6, <1>7

(* A booking that starts on another day is not in the way: it is over by    *)
(* four o'clock in the morning, or it has not begun.                        *)
LEMMA SlotIsFree ==
  ASSUME TableInv, EastOfUTC, NEW date \in Dates, NEW slot \in availableSlots(date)
  PROVE  CanBook(slot)
  <1>1. date \in Int /\ slot \in generateTimeSlots(date)
    BY SlotsOfTheDate DEF availableSlots
  <1>2. /\ slot.start \in Int /\ slot.end \in Int /\ slot.end = slot.start + 30 * Minute
        /\ slot.start >= Midnight(date) + 540 * Minute
        /\ slot.end <= Midnight(date) + 1020 * Minute
        /\ DayOf(slot.start) = date /\ DayOf(slot.end) = date
        /\ Minute \in Nat \ {0} /\ PerDay = 1440 * Minute /\ Midnight(date) \in Int
    <2>1. Minute \in Nat \ {0} /\ PerDay = 1440 * Minute /\ Midnight(date) \in Int
      BY <1>1, InMinutes, AtIs
    <2> QED
      BY <1>1, <2>1, SlotTimes
  <1>3. validateBookingTimes(slot.start, slot.end)
    BY <1>2, TimesAccepted
  <1>4. ASSUME NEW j \in DOMAIN bookings, bookings[j].status \in Active
        PROVE  ~Overlaps(bookings[j], slot)
    <2> DEFINE b == bookings[j]
    <2>1. /\ b.start \in Int /\ b.end \in Int /\ b.end - b.start < 241 * Minute
          /\ DayOf(b.start) \in Int /\ Midnight(DayOf(b.start)) \in Int
          /\ Midnight(DayOf(b.start)) <= b.start
          /\ b.start < Midnight(DayOf(b.start)) + PerDay
      <3>1. b.start \in Int /\ b.end \in Int /\ validateBookingTimes(b.start, b.end)
        BY StoredTimes
      <3> HIDE DEF b
      <3> QED
        BY <3>1, TimesAccepted, DayOfIs
    <2>2. CASE DayOf(b.start) = date
      BY <1>4, <2>2 DEF availableSlots, findBookingsByRoomAndDate, isOccupied, Overlaps
    <2>3. CASE DayOf(b.start) < date
      <3>1. Midnight(DayOf(b.start)) + PerDay <= Midnight(date)
        BY <1>1, <2>1, <2>3, MidnightGrows
      <3> HIDE DEF b
      <3>2. b.end <= slot.start
        BY <1>2, <2>1, <3>1
      <3> QED
        BY <1>2, <2>1, <3>2 DEF Overlaps, b
    <2>4. CASE DayOf(b.start) > date
      <3>1. Midnight(date) + PerDay <= Midnight(DayOf(b.start))
        BY <1>1, <2>1, <2>4, MidnightGrows
      <3> HIDE DEF b
      <3>2. b.start >= slot.end
        BY <1>2, <2>1, <3>1
      <3> QED
        BY <1>2, <2>1, <3>2 DEF Overlaps, b
    <2> QED
      BY <1>1, <2>1, <2>2, <2>3, <2>4
  <1> QED
    BY <1>3, <1>4 DEF CanBook, Free

(* Every slot on offer, sent back as the two UTC texts it was answered as,  *)
(* is accepted: its times obey the rules and no booking of any date is in   *)
(* the way, although only those that start on the asked date have been      *)
(* looked at (rooms.repo.ts:143).                                           *)
THEOREM OffersAreGood ==
  ASSUME EastOfUTC
  PROVE  ASpec => []OfferedIsBookable
  <1>1. TableInv => OfferedIsBookable
    <2> SUFFICES ASSUME TableInv, NEW date \in Dates, NEW slot \in availableSlots(date)
                 PROVE  CanBook(Parsed(toISOString(slot.start - Offset),
                                       toISOString(slot.end - Offset)))
      BY DEF OfferedIsBookable, Offered
    <2>1. date \in Int /\ slot \in generateTimeSlots(date)
      BY SlotsOfTheDate DEF availableSlots
    <2>2. slot.start \in Int /\ slot.end \in Int
      BY <2>1, SlotTimes, InMinutes
    <2>3. \A x \in Int : normalizeDatetime(toISOString(x - Offset)) = x
      BY PerHourPositive DEF normalizeDatetime, toISOString, LocalOf, InstantOf
    <2>4. CanBook(slot)
      BY SlotIsFree
    <2> DEFINE t == Parsed(toISOString(slot.start - Offset), toISOString(slot.end - Offset))
    <2>5. t.start = slot.start /\ t.end = slot.end
      BY <2>2, <2>3 DEF Parsed
    <2> HIDE DEF t
    <2>6. CanBook(t)
      BY <2>4, <2>5 DEF CanBook, Free, Overlaps
    <2> QED
      BY <2>6 DEF t
  <1> QED
    BY <1>1, TableAlways, PTL

(* A half hour of the asked date, on the hour or half past, that is not on  *)
(* offer is taken: nothing that could be booked is withheld                 *)
(* (getRoomAvailability, rooms.service.ts:110-154).                         *)
THEOREM NothingIsHidden ==
  ASSUME EastOfUTC
  PROVE  ASpec => []NothingHidden
  <1>1. TableInv => NothingHidden
    <2> SUFFICES ASSUME TableInv, NEW date \in Dates, NEW k \in 0..15,
                        NEW half, half = [start |-> At(date, START, 30 * k),
                                          end |-> At(date, START, 30 * k + 30)],
                        half \notin availableSlots(date)
                 PROVE  ~Free(half, 0)
      BY DEF NothingHidden
    <2>1. date \in Int /\ SlotDay(date) = date
      BY SlotsOfTheDate
    <2>2. half \in generateTimeSlots(date)
      <3>1. PICK h \in START..(END - 1), m \in {0, 30} : 60 * h + m = 60 * START + 30 * k
        <4>1. k = 2 * (k \div 2) + (k % 2) /\ k \div 2 \in 0..7 /\ k % 2 \in {0, 1}
          OBVIOUS
        <4>2. 9 + (k \div 2) \in START..(END - 1) /\ 30 * (k % 2) \in {0, 30}
          BY <4>1 DEF START, END
        <4>3. 60 * (9 + (k \div 2)) + 30 * (k % 2) = 60 * START + 30 * k
          BY <4>1 DEF START
        <4> QED
          BY <4>2, <4>3
      <3> DEFINE x == 60 * h + m
      <3>2. /\ h \in Int /\ m \in Int /\ m + 30 \in Int /\ START \in Int /\ 30 * k \in Int
            /\ 30 * k + 30 \in Int /\ 60 * START + 30 * k = x
            /\ 60 * h + (m + 30) = x + 30 /\ 60 * START + (30 * k + 30) = x + 30
            /\ x \in 540..990
        BY <3>1 DEF START, END
      <3>3. /\ At(date, h, m) = Midnight(date) + x * Minute
            /\ At(date, START, 30 * k) = Midnight(date) + x * Minute
            /\ At(date, h, m + 30) = Midnight(date) + (x + 30) * Minute
            /\ At(date, START, 30 * k + 30) = Midnight(date) + (x + 30) * Minute
            /\ Midnight(date) \in Int
        <4>1. /\ Midnight(date) \in Int
              /\ \A hour, minute \in Int :
                   At(date, hour, minute) = Midnight(date) + (60 * hour + minute) * Minute
          BY <2>1, AtIs
        <4>2. At(date, START, 30 * k) = Midnight(date) + (60 * START + 30 * k) * Minute
          BY <3>2, <4>1
        <4>3. At(date, START, 30 * k + 30) = Midnight(date) + (60 * START + (30 * k + 30)) * Minute
          BY <3>2, <4>1
        <4>4. At(date, h, m + 30) = Midnight(date) + (60 * h + (m + 30)) * Minute
          BY <3>2, <4>1
        <4>5. At(date, h, m) = Midnight(date) + (60 * h + m) * Minute
          BY <3>2, <4>1
        <4>6. /\ 60 * START + 30 * k = x /\ 60 * START + (30 * k + 30) = x + 30
              /\ 60 * h + (m + 30) = x + 30 /\ 60 * h + m = x
          BY <3>2
        <4> HIDE DEF x
        <4> QED
          BY <4>1, <4>2, <4>3, <4>4, <4>5, <4>6
      <3>4. half = [start |-> At(date, h, m), end |-> At(date, h, m + 30)]
        BY <3>3
      <3> HIDE DEF x
      <3>5. Minute \in Nat \ {0} /\ PerDay = 1440 * Minute
        BY InMinutes
      <3>6. /\ x * Minute \in Int /\ (x + 30) * Minute = x * Minute + 30 * Minute
            /\ x * Minute >= 540 * Minute /\ x * Minute <= 990 * Minute
        BY <3>2, InTheDay
      <3>7. half.end = Midnight(date) + x * Minute + 30 * Minute
        <4>1. half.end = Midnight(date) + (x + 30) * Minute
          BY <3>3, <3>4
        <4> QED
          BY <3>3, <3>5, <3>6, <4>1
      <3>8. half.end \in Int /\ DayOf(half.end) = date
        BY <2>1, <3>3, <3>5, <3>6, <3>7, SameDay
      <3>9. half.end < Midnight(DayOf(half.end)) + 1021 * Minute
        BY <3>3, <3>5, <3>6, <3>7, <3>8
      <3>10. getHours(half.end) < END \/ (getHours(half.end) = END /\ getMinutes(half.end) = 0)
        BY <3>8, <3>9, ClosingTime
      <3> QED
        BY <3>1, <3>4, <3>10 DEF generateTimeSlots
    <2>3. PICK j \in DOMAIN bookings :
            bookings[j].status \in Active /\ isOccupied(half, bookings[j])
      BY <2>1, <2>2 DEF availableSlots, findBookingsByRoomAndDate
    <2>4. Overlaps(bookings[j], half)
      BY <2>3 DEF isOccupied, Overlaps
    <2>5. j # 0
      BY <2>3 DEF TableInv
    <2> QED
      BY <2>3, <2>4, <2>5 DEF Free
  <1> QED
    BY <1>1, TableAlways, PTL
-----------------------------------------------------------------------------
(* No row is ever removed, so that the rooms of a summary, counted after    *)
(* its total, add up to no less, whatever has happened in between           *)
(* (getUserHistorySummary, analytics.repo.ts:167, 190).                     *)
THEOREM RoomsCoverTheTotal == ASpec => RoomsCoverTotal
  <1>1. ASSUME TableInv, [ANext]_bookings
        PROVE  Len(bookings) <= Len(bookings') /\ Len(bookings) \in Nat
    <2>1. bookings \in Seq(Row) /\ bookings' \in Seq(Row)
      BY <1>1, NextTable DEF TableInv
    <2>2. ASSUME NEW from \in Text, NEW to \in Text, CreateBooking(from, to)
          PROVE  Len(bookings') = Len(bookings) + 1
      BY <2>1, <2>2 DEF CreateBooking
    <2>3. ASSUME NEW i \in DOMAIN bookings, NEW new, bookings' = [bookings EXCEPT ![i] = new]
          PROVE  Len(bookings') = Len(bookings)
      BY <2>1, <2>3
    <2>4. ASSUME NEW i \in DOMAIN bookings, NEW from \in Text, NEW to \in Text,
                 MoveBooking(i, from, to)
          PROVE  Len(bookings') = Len(bookings)
      BY <2>3, <2>4 DEF MoveBooking, Write
    <2>5. ASSUME NEW i \in DOMAIN bookings, NEW status \in Status, SetStatus(i, status)
          PROVE  Len(bookings') = Len(bookings)
      BY <2>3, <2>5 DEF SetStatus, Write
    <2>6. ASSUME NEW i \in DOMAIN bookings, CancelBooking(i) PROVE Len(bookings') = Len(bookings)
      BY <2>3, <2>6 DEF CancelBooking
    <2>7. Len(bookings) \in Nat /\ Len(bookings') \in Nat
      BY <2>1
    <2> QED
      BY <1>1, <2>2, <2>4, <2>5, <2>6, <2>7 DEF ANext
  <1>2. \A n \in Nat : Cardinality(1..n) = n
    BY FS_Interval
  <1>3. ASSUME TableInv, [ANext]_bookings
        PROVE  UsesOfRoom(<<>>)' >= Stats(<<>>).bookings
    <2>1. /\ DOMAIN bookings = 1..Len(bookings) /\ DOMAIN bookings' = 1..Len(bookings')
          /\ Len(bookings') \in Nat
      BY <1>3, NextTable DEF TableInv
    <2>2. Ids(<<>>) = DOMAIN bookings /\ Ids(<<>>)' = DOMAIN bookings'
      BY DEF Ids, InPeriod
    <2>3. Stats(<<>>).bookings = Cardinality(Ids(<<>>))
      BY DEF Stats
    <2>4. UsesOfRoom(<<>>)' = Cardinality(Ids(<<>>)')
      BY DEF UsesOfRoom
    <2> QED
      BY <1>1, <1>2, <1>3, <2>1, <2>2, <2>3, <2>4
  <1> QED
    BY <1>3, TableAlways, PTL DEF ASpec, RoomsCoverTotal
-----------------------------------------------------------------------------
(* What the reports make of one booking *)

LEMMA HoursBound ==
  ASSUME NEW from \in Int, NEW to \in Int, from <= to
  PROVE  /\ TimestampDiffHours(from, to) \in Int /\ TimestampDiffHours(from, to) >= 0
         /\ PerHour * TimestampDiffHours(from, to) <= to - from
         /\ to - from < PerHour * TimestampDiffHours(from, to) + PerHour
  <1> DEFINE h == (to - from) \div PerHour
  <1>1. to - from \in Int /\ PerHour \in Nat \ {0} /\ TimestampDiffHours(from, to) = h
    BY PerHourPositive DEF TimestampDiffHours
  <1>2. /\ h \in Int /\ (to - from) % PerHour \in 0..(PerHour - 1)
        /\ to - from = h * PerHour + ((to - from) % PerHour)
    BY <1>1, Division
  <1>3. h >= 0
    <2>1. h >= 0 <=> to - from >= 0 * PerHour
      BY <1>1, QuotientBound
    <2> QED
      BY <1>1, <2>1
  <1> HIDE DEF h
  <1>4. PerHour * h = h * PerHour /\ h * PerHour \in Int
    BY <1>1, <1>2
  <1> QED
    BY <1>1, <1>2, <1>3, <1>4

LEMMA HoursGrow ==
  ASSUME NEW from \in Int, NEW to \in Int, NEW later \in Int, from <= to, to <= later,
         later - to < PerHour
  PROVE  /\ TimestampDiffHours(from, to) <= TimestampDiffHours(from, later)
         /\ TimestampDiffHours(from, later) <= TimestampDiffHours(from, to) + 1
  <1> DEFINE h == TimestampDiffHours(from, to)
             k == TimestampDiffHours(from, later)
  <1>1. /\ h \in Int /\ PerHour * h <= to - from /\ to - from < PerHour * h + PerHour
        /\ k \in Int /\ PerHour * k <= later - from /\ later - from < PerHour * k + PerHour
        /\ PerHour \in Nat \ {0}
    BY HoursBound, PerHourPositive
  <1> HIDE DEF h, k
  <1>2. h * PerHour = PerHour * h /\ k * PerHour = PerHour * k /\ PerHour * h \in Int
        /\ PerHour * k \in Int /\ (h + 1) * PerHour = PerHour * h + PerHour
    BY <1>1
  <1>3. k < h => PerHour * k + PerHour <= PerHour * h
    BY <1>1, <1>2, TimesGrows
  <1>4. h + 1 < k => PerHour * h + PerHour + PerHour <= PerHour * k
    BY <1>1, <1>2, TimesGrows
  <1> QED
    BY <1>1, <1>2, <1>3, <1>4 DEF h, k

HoursOK(b) ==
  /\ PerHour * HoursInBusiness(b) <= BusinessTime(b)
  /\ HoursInBusiness(b) <= BookedHours(b)
  /\ DayOf(b.start) = DayOf(b.end) =>
       /\ BusinessTime(b) < PerHour * HoursInBusiness(b) + PerHour
       /\ BookedHours(b) <= HoursInBusiness(b) + (IF b.end > Closing(b) THEN 1 ELSE 0)

(* Booking by booking, the utilization never overstates the business time  *)
(* and never exceeds the hours of the trends; for a booking within one day *)
(* it is less than an hour short, and the trends count at most an hour     *)
(* more, and only if it ends after closing time (analytics.repo.ts:26-41,  *)
(* 93). UtilizationWithinAnHour and ReportsAgree add this up.              *)
THEOREM HoursOfEachBooking == ASpec => [](\A i \in DOMAIN bookings : HoursOK(bookings[i]))
  <1>1. ASSUME TableInv, NEW i \in DOMAIN bookings PROVE HoursOK(bookings[i])
    <2> DEFINE b == bookings[i]
               d == DayOf(b.start)
               close == Midnight(d) + 1020 * Minute
    <2> SUFFICES HoursOK(b)
      OBVIOUS
    <2>1. /\ b.start \in Int /\ b.end \in Int /\ validateBookingTimes(b.start, b.end)
      BY <1>1, StoredTimes
    <2>2. /\ Opening(b) = Midnight(d) + 540 * Minute /\ Closing(b) = close
      BY <2>1, DayOfIs, HourMarks DEF Opening, Closing, START, END
    <2> HIDE DEF b
    <2>3. /\ d \in Int /\ Midnight(d) \in Int /\ Minute \in Nat \ {0} /\ close \in Int
          /\ PerHour = 60 * Minute /\ PerDay = 1440 * Minute /\ DayOf(b.end) \in Int
          /\ Midnight(DayOf(b.end)) \in Int
          /\ Midnight(d) <= b.start /\ b.start < Midnight(d) + PerDay
          /\ Midnight(DayOf(b.end)) <= b.end /\ b.end < Midnight(DayOf(b.end)) + PerDay
      BY <2>1, DayOfIs, InMinutes
    <2>4. /\ b.start >= Midnight(d) + 540 * Minute
          /\ b.end < Midnight(DayOf(b.end)) + 1021 * Minute
          /\ b.end - b.start >= 30 * Minute /\ b.end - b.start < 241 * Minute
      BY <2>1, TimesAccepted
    <2> HIDE DEF d
    <2>5. /\ HoursInBusiness(b) = TimestampDiffHours(b.start, IF b.end > close THEN close ELSE b.end)
          /\ BookedHours(b) = TimestampDiffHours(b.start, b.end)
      BY <2>1, <2>2, <2>3, <2>4 DEF HoursInBusiness, BookedHours
    <2>6. /\ BookedHours(b) \in Int /\ BookedHours(b) >= 0
      <3>1. b.start <= b.end
        BY <2>1, <2>3, <2>4
      <3> QED
        BY <2>1, <2>5, <3>1, HoursBound
    <2>7. CASE DayOf(b.end) = d
      <3> DEFINE e == IF b.end > close THEN close ELSE b.end
      <3>1. /\ e \in Int /\ b.start < e /\ e <= b.end /\ b.end - e < Minute
            /\ b.end <= close => e = b.end
        BY <2>1, <2>3, <2>4, <2>7
      <3>2. BusinessTime(b) = e - b.start
        BY <2>1, <2>2, <2>3, <2>4, <3>1 DEF BusinessTime
      <3>3. HoursInBusiness(b) = TimestampDiffHours(b.start, e)
        BY <2>5
      <3> HIDE DEF e, close
      <3>4. /\ HoursInBusiness(b) \in Int /\ PerHour * HoursInBusiness(b) <= e - b.start
            /\ e - b.start < PerHour * HoursInBusiness(b) + PerHour
        BY <2>1, <3>1, <3>3, HoursBound
      <3>5. b.end - e < PerHour
        BY <2>1, <2>3, <3>1
      <3>6. /\ HoursInBusiness(b) <= BookedHours(b)
            /\ BookedHours(b) <= HoursInBusiness(b) + 1
        BY <2>1, <2>5, <3>1, <3>3, <3>5, HoursGrow
      <3>7. b.end <= close => BookedHours(b) = HoursInBusiness(b)
        <4>1. BookedHours(b) = TimestampDiffHours(b.start, b.end)
          BY <2>5
        <4> QED
          BY <3>1, <3>3, <4>1
      <3>8. BookedHours(b) <= HoursInBusiness(b) + (IF b.end > close THEN 1 ELSE 0)
        BY <2>1, <2>3, <2>6, <3>4, <3>6, <3>7
      <3> QED
        BY <2>2, <3>2, <3>4, <3>6, <3>8 DEF HoursOK
    <2>8. CASE DayOf(b.end) # d
      <3>1. b.end >= Midnight(d) + PerDay
        <4>1. ~(DayOf(b.end) < d)
          <5>1. DayOf(b.end) < d => Midnight(DayOf(b.end)) + PerDay <= Midnight(d)
            BY <2>3, MidnightGrows
          <5> QED
            BY <2>1, <2>3, <2>4, <5>1
        <4>2. d < DayOf(b.end) => Midnight(d) + PerDay <= Midnight(DayOf(b.end))
          BY <2>3, MidnightGrows
        <4> QED
          BY <2>1, <2>3, <2>8, <4>1, <4>2
      <3>2. b.start > close /\ b.end > close
        BY <2>1, <2>3, <2>4, <3>1
      <3>3. BusinessTime(b) = 0
        BY <2>1, <2>2, <2>3, <2>4, <3>2 DEF BusinessTime
      <3>4. HoursInBusiness(b) = -TimestampDiffHours(close, b.start)
        BY <2>1, <2>3, <2>5, <3>2 DEF TimestampDiffHours
      <3>5. TimestampDiffHours(close, b.start) \in Int /\ TimestampDiffHours(close, b.start) >= 0
        <4> HIDE DEF close
        <4>1. close \in Int /\ b.start \in Int /\ close <= b.start
          BY <2>1, <2>3, <3>2
        <4> QED
          BY <4>1, HoursBound
      <3>6. HoursInBusiness(b) \in Int /\ HoursInBusiness(b) <= 0
        BY <3>4, <3>5
      <3>7. PerHour * HoursInBusiness(b) <= 0
        BY <2>3, <3>6
      <3>8. HoursInBusiness(b) <= BookedHours(b)
        BY <2>6, <3>6
      <3>9. DayOf(b.start) # DayOf(b.end)
        BY <2>8 DEF d
      <3> QED
        BY <3>3, <3>7, <3>8, <3>9 DEF HoursOK
    <2> QED
      BY <2>7, <2>8
  <1>2. TableInv => \A i \in DOMAIN bookings : HoursOK(bookings[i])
    BY <1>1
  <1> QED
    BY <1>2, TableAlways, PTL
=============================================================================
