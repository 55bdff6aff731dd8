------------------------------ MODULE TimeRules ------------------------------
(***************************************************************************)
(* The business rules of src/utils/time.ts and validateBookingTimes.  A    *)
(* time is the local wall clock in ticks since some midnight; there are    *)
(* PerHour ticks in an hour.                                               *)
(***************************************************************************)
EXTENDS Integers

CONSTANTS PerHour, Offset   \* ticks in an hour; process zone, ticks east of UTC
ASSUME PerHourPositive == PerHour \in Nat \ {0} /\ Offset \in Int
\* A minute is a whole number of ticks: times are kept to the second at least.
ASSUME MinutesInTicks == PerHour % 60 = 0

PerDay == 24 * PerHour
START == 9
END == 17
MIN_MINUTES == 30
MAX_MINUTES == 240

(***************************************************************************)
(* A Date is an instant, in ticks of UTC.  A date-time text is its digits  *)
(* and its zone: <<ticks east of UTC>>, or <<>> for the process zone.      *)
(***************************************************************************)
InstantOf(text) ==
  text.digits - (IF text.zone = <<>> THEN Offset ELSE text.zone[1])
LocalOf(instant) == instant + Offset

\* Mutant: the digits are kept, whatever the zone.
KeepsDigits(text) == text.digits

\* What is stored of a date-time text: the wall clock of the process zone.
normalizeDatetime(text) == LocalOf(InstantOf(text))

toISOString(instant) == [digits |-> instant, zone |-> <<0>>]

getHours(t) == (t % PerDay) \div PerHour
getMinutes(t) == ((t % PerHour) * 60) \div PerHour

\* Mutant: the minutes past five are not looked at.
WholeClosingHour(start, end) == getHours(start) >= START /\ getHours(end) <= END

validateBusinessHours(start, end) ==
  /\ getHours(start) >= START
  /\ getHours(end) < END \/ (getHours(end) = END /\ getMinutes(end) = 0)

getDurationMinutes(start, end) == ((end - start) * 60) \div PerHour

\* Mutant: exactly four hours are too long.
ShorterDuration(start, end) ==
  getDurationMinutes(start, end) \in MIN_MINUTES .. (MAX_MINUTES - 1)

validateDuration(start, end) ==
  getDurationMinutes(start, end) \in MIN_MINUTES .. MAX_MINUTES

validateBookingTimes(start, end) ==
  /\ end > start
  /\ validateBusinessHours(start, end)
  /\ validateDuration(start, end)

At(day, hour, minute) == day * PerDay + hour * PerHour + (minute * PerHour) \div 60

generateTimeSlots(day) ==
  {slot \in {[start |-> At(day, h, m), end |-> At(day, h, m + 30)] :
               h \in START..(END - 1), m \in {0, 30}} :
     \/ getHours(slot.end) < END
     \/ getHours(slot.end) = END /\ getMinutes(slot.end) = 0}
=============================================================================
