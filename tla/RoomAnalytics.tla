----------------------------- MODULE RoomAnalytics -----------------------------
(***************************************************************************)
(* What administrators are told about the room of RoomAvailability         *)
(* (src/repositories/analytics.repo.ts).  All its bookings are taken to be *)
(* one user's.  TIMESTAMPDIFF counts whole hours, booking by booking.      *)
(***************************************************************************)
EXTENDS RoomAvailability, FiniteSetsExt

AVAILABLE_PER_DAY == 8

\* A period is from one date to another; without dates it is <<>>.
DateRange == {range \in [start : Dates, end : Dates] : range.start <= range.end}
Period == {<<>>} \cup {<<range>> : range \in DateRange}

InPeriod(b, period) ==
  period = <<>> \/ DayOf(b.start) \in period[1].start .. period[1].end

Ids(period) == {i \in DOMAIN bookings : InPeriod(bookings[i], period)}
Counted(range) == {i \in Ids(<<range>>) : bookings[i].status \in {"confirmed", "completed"}}
SumOver(f(_), ids) == MapThenSumSet(LAMBDA i : f(bookings[i]), ids)

TimestampDiffHours(from, to) ==
  IF to >= from THEN (to - from) \div PerHour ELSE -((from - to) \div PerHour)

BookedHours(b) == TimestampDiffHours(b.start, b.end)
Opening(b) == At(DayOf(b.start), START, 0)
Closing(b) == At(DayOf(b.start), END, 0)

\* Mutant: hours after closing time count as well.
AllHours(b) == BookedHours(b)
\* Mutant: hours are rounded, not truncated.
RoundedHours(b) == TimestampDiffHours(b.start, b.end + PerHour \div 2)

HoursInBusiness(b) ==
  IF b.start < Opening(b)
  THEN TimestampDiffHours(Opening(b), IF b.end < Closing(b) THEN b.end ELSE Closing(b))
  ELSE TimestampDiffHours(b.start, IF b.end > Closing(b) THEN Closing(b) ELSE b.end)

getRoomUtilization(range) ==
  [booked |-> SumOver(HoursInBusiness, Counted(range)),
   available |-> AVAILABLE_PER_DAY * (range.end - range.start + 1)]

\* A DATE becomes the instant of its midnight in the pool's zone, and that instant
\* is printed as a date of UTC.
PrintedDate(day) == DayOf(toISOString(At(day, 0, 0) - Offset).digits)

getDailyBookingTrends(range) ==
  LET On(day) == Counted([start |-> day, end |-> day])
  IN {[date |-> PrintedDate(day), bookings |-> Cardinality(On(day)),
       hours |-> SumOver(BookedHours, On(day))] :
         day \in {DayOf(bookings[i].start) : i \in Counted(range)}}

\* The two queries of getUserHistorySummary
Stats(period) ==
  LET kept == {i \in Ids(period) : bookings[i].status # "cancelled"}
  IN [bookings |-> Cardinality(Ids(period)),
      canceled |-> Cardinality(Ids(period) \ kept),
      hours |-> SumOver(BookedHours, kept)]

\* Mutant: rooms of cancelled bookings have not been used.
UsesKept(period) ==
  Cardinality({i \in Ids(period) : bookings[i].status # "cancelled"})
UsesOfRoom(period) == Cardinality(Ids(period))
-----------------------------------------------------------------------------
(* Properties *)

\* The part of a booking within the opening hours of its day, in ticks
BusinessTime(b) ==
  LET from == IF b.start > Opening(b) THEN b.start ELSE Opening(b)
      to == IF b.end < Closing(b) THEN b.end ELSE Closing(b)
  IN IF to > from THEN to - from ELSE 0

PassesMidnight(ids) == \E i \in ids : DayOf(bookings[i].start) # DayOf(bookings[i].end)

\* Utilization never overstates the business time that was booked, and understates
\* it by less than an hour for each booking, unless one of them passes midnight:
\* that one is counted as a negative number of hours (analytics.repo.ts:26-41).
UtilizationWithinAnHour ==
  \A range \in DateRange :
    LET ids == Counted(range)
        counted == PerHour * getRoomUtilization(range).booked
        true == SumOver(BusinessTime, ids)
    IN /\ counted <= true
       /\ ids = {} \/ PassesMidnight(ids) \/ true < counted + PerHour * Cardinality(ids)

\* The hours of the daily trends add up to at least those of the utilization of the
\* same dates; they differ by at most one for each booking that runs past closing
\* time, by seconds, unless one passes midnight (analytics.repo.ts:26-41, 93).
ReportsAgree ==
  \A range \in DateRange :
    LET ids == Counted(range)
        trends == MapThenSumSet(LAMBDA t : t.hours, getDailyBookingTrends(range))
        booked == getRoomUtilization(range).booked
    IN /\ booked <= trends
       /\ \/ PassesMidnight(ids)
          \/ trends <= booked + Cardinality({i \in ids : bookings[i].end > Closing(bookings[i])})

\* No time of the room is counted for two bookings, unless one of them had been
\* marked as completed and was booked over: marking it active again is refused
\* then (setup_database.sql:198-216).
TimeCountedOnce ==
  \A range \in DateRange : \A i, j \in Counted(range) :
    i # j /\ Overlaps(bookings[i], bookings[j])
    => "completed" \in {bookings[i].status, bookings[j].status}

\* Whatever happens between the two queries of a summary of all time, the rooms add
\* up to no less than the total: bookings are cancelled but never removed
\* (analytics.repo.ts:167, 190; bookings.repo.ts:139-153).
RoomsCoverTotal == [][UsesOfRoom(<<>>)' >= Stats(<<>>).bookings]_bookings

\* "Groups bookings by date based on `start_time`" (README.md:597): a trend of a date
\* counts the bookings that start on it.
TrendsNameTheDay ==
  \A range \in DateRange : \A t \in getDailyBookingTrends(range) :
    t.bookings = Cardinality(Counted([start |-> t.date, end |-> t.date]))
=============================================================================
