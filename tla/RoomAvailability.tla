---------------------------- MODULE RoomAvailability ----------------------------
(***************************************************************************)
(* One room: bookings made, moved, marked and cancelled, one after the     *)
(* other, and what getRoomAvailability offers for a date.  Stored times    *)
(* are local wall clock; the process and the connection pool are in the    *)
(* same zone, the SQL server takes the digits it is sent.                  *)
(***************************************************************************)
EXTENDS TimeRules, Sequences

CONSTANTS Text,          \* start and end times clients send
          Dates,         \* dates clients ask about, as day numbers
          MaxBookings    \* bound on the bookings ever made

ASSUME DatesAreInts == Dates \subseteq Int
ASSUME TextsTyped ==
  \A x \in Text : x.digits \in Int /\ (x.zone = <<>> \/ x.zone[1] \in Int)

VARIABLE bookings    \* the rows of the room in the order of their ids

AInit == bookings = <<>>

Active == {"confirmed", "pending"}
Status == Active \cup {"cancelled", "completed"}
Overlaps(x, y) == x.start < y.end /\ x.end > y.start

\* What the service gets of a body's two texts
Parsed(from, to) == [start |-> normalizeDatetime(from), end |-> normalizeDatetime(to)]

\* No active booking but i is in the way of t, as findOverlapping and the triggers see it.
Free(t, i) ==
  \A j \in DOMAIN bookings \ {i} : bookings[j].status \in Active => ~Overlaps(bookings[j], t)
CanBook(t) == validateBookingTimes(t.start, t.end) /\ Free(t, 0)

CreateBooking(from, to) ==
  LET new == Parsed(from, to)
  IN /\ CanBook(new)
     /\ Len(bookings) < MaxBookings
     /\ bookings' = Append(bookings, [start |-> new.start, end |-> new.end, status |-> "confirmed"])

\* What updateBooking compares with: the UTC digits of its two Dates
SearchedWindow(t) == [start |-> toISOString(t.start - Offset).digits,
                      end |-> toISOString(t.end - Offset).digits]

\* Mutant: the trigger goes by changes of room and time alone.
NotActivated(i, new) ==
  (new.start # bookings[i].start \/ new.end # bookings[i].end) => Free(new, i)
\* prevent_double_booking_update
UpdateTriggerSilent(i, new) ==
  (new.start # bookings[i].start \/ new.end # bookings[i].end \/ new.status \in Active)
  => Free(new, i)

Write(i, new) == /\ bookings[i].status # "cancelled"
                 /\ UpdateTriggerSilent(i, new)
                 /\ bookings' = [bookings EXCEPT ![i] = new]

\* PATCH /bookings/:id with both times
MoveBooking(i, from, to) ==
  LET t == Parsed(from, to)
  IN /\ validateBookingTimes(t.start, t.end)
     /\ Free(SearchedWindow(t), i)
     /\ Write(i, [bookings[i] EXCEPT !.start = t.start, !.end = t.end])

\* PATCH with a status
SetStatus(i, status) ==
  /\ status \in Active => Free(SearchedWindow(bookings[i]), i)
  /\ Write(i, [bookings[i] EXCEPT !.status = status])

CancelBooking(i) == bookings' = [bookings EXCEPT ![i].status = "cancelled"]

ANext == \/ \E from, to \in Text : CreateBooking(from, to)
         \/ \E i \in DOMAIN bookings : \/ \E from, to \in Text : MoveBooking(i, from, to)
                                       \/ \E status \in Status : SetStatus(i, status)
                                       \/ CancelBooking(i)

ASpec == AInit /\ [][ANext]_bookings
-----------------------------------------------------------------------------
(* GET /rooms/:id/availability *)

DayOf(t) == t \div PerDay

\* DATE(start_time) = ?
findBookingsByRoomAndDate(date) ==
  {b \in {bookings[i] : i \in DOMAIN bookings} : b.status \in Active /\ DayOf(b.start) = date}

\* parseDate reads the date as midnight UTC; the slots are those of the local
\* day on which that instant falls.
SlotDay(date) == DayOf(LocalOf(date * PerDay))

\* Mutant: a slot is taken if a booking touches it.
Touches(slot, b) == slot.start <= b.end /\ slot.end >= b.start

isOccupied(slot, b) == slot.start < b.end /\ slot.end > b.start

availableSlots(date) ==
  LET found == findBookingsByRoomAndDate(date)
  IN {slot \in generateTimeSlots(SlotDay(date)) : ~\E b \in found : isOccupied(slot, b)}

\* Its answer gives every slot as UTC text.
Offered(date) ==
  {[from |-> toISOString(slot.start - Offset), to |-> toISOString(slot.end - Offset)] :
     slot \in availableSlots(date)}
-----------------------------------------------------------------------------
(* Properties *)

\* The documented rules (README.md:1226-1233), on one day and to the tick.
ObeysRules(b) ==
  /\ DayOf(b.start) = DayOf(b.end)
  /\ b.start >= At(DayOf(b.start), START, 0) /\ b.end <= At(DayOf(b.end), END, 0)
  /\ 2 * (b.end - b.start) >= PerHour /\ b.end - b.start <= 4 * PerHour

\* Free times that obey the rules are never turned down (createBooking,
\* bookings.service.ts:46-79).
RulesSuffice ==
  \A from, to \in Text :
    LET new == Parsed(from, to)
    IN ObeysRules(new) /\ Free(new, 0) => CanBook(new)

\* A stored booking that ends on the day it starts breaks no rule by a whole
\* minute: seconds are all that getMinutes and Math.floor drop (time.ts:30, 52).
RulesUpToSeconds ==
  \A i \in DOMAIN bookings :
    LET b == bookings[i]
    IN DayOf(b.start) = DayOf(b.end) =>
         /\ b.start >= At(DayOf(b.start), START, 0)
         /\ b.end < At(DayOf(b.end), END, 1)
         /\ 2 * (b.end - b.start) >= PerHour
         /\ b.end - b.start < 4 * PerHour + PerHour \div 60

\* "Bookings only allowed between 09:00 - 17:00" (README.md:1226).
StoredObeyRules == \A i \in DOMAIN bookings : ObeysRules(bookings[i])

\* Every slot on offer can be booked by sending its two texts back: the times are
\* accepted and no booking of any date is in the way, although only those that
\* start on the asked date have been looked at (rooms.repo.ts:143).
OfferedIsBookable ==
  \A date \in Dates : \A slot \in Offered(date) : CanBook(Parsed(slot.from, slot.to))

\* A half hour of the asked date that is not on offer is taken by a booking, at
\* least in part (rooms.service.ts:120-155).
NothingHidden ==
  \A date \in Dates :
    LET slots == availableSlots(date)
    IN \A k \in 0..15 :
         LET half == [start |-> At(date, START, 30 * k), end |-> At(date, START, 30 * k + 30)]
         IN half \in slots \/ ~Free(half, 0)
=============================================================================
