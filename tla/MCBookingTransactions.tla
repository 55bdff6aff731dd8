------------------------ MODULE MCBookingTransactions ------------------------
(***************************************************************************)
(* Finite instances of BookingTransactions: rooms A and B, six times an    *)
(* hour apart, from 9:00 (18 half hours) to 14:00, and small sets of       *)
(* request bodies, one set for each question.                              *)
(***************************************************************************)
EXTENDS BookingTransactions, TLC

CONSTANTS r1, r2, r3, s1, s2

\* Scans of idx_room_time visit the room's rows that start before the window
\* ends; the narrowest imaginable scan visits only the rows that match.
RoomIndexScan(w, row) == row.room = w.room /\ row.start < w.to
NarrowScan(w, row) == Matches(w, row)

MCTime == {18, 20, 22, 24, 26, 28}
LongerDay == MCTime \cup {30, 32}
ReqSymmetry == Permutations(Req)

BookingRow(room, start, end, status) ==
  [room |-> room, owner |-> "ann", start |-> start, end |-> end, status |-> status]
NoRows == [b \in Booking |-> None]
OneRow == [NoRows EXCEPT ![s1] = BookingRow("A", 20, 22, "confirmed")]
TwoRows == [OneRow EXCEPT ![s2] = BookingRow("A", 24, 26, "confirmed")]
WideRow == [NoRows EXCEPT ![s1] = BookingRow("A", 22, 26, "confirmed")]
LateRow == [NoRows EXCEPT ![s1] = BookingRow("A", 30, 32, "confirmed")]

New(room, start, end) ==
  [op |-> "create", by |-> "bob", owner |-> "bob", room |-> room,
   start |-> start, end |-> end]
Patch(id, room, start, end, status) ==
  [op |-> "update", by |-> "ann", id |-> id, room |-> room, start |-> start,
   end |-> end, status |-> status]
Drop(by, id) == [op |-> "cancel", by |-> by, id |-> id]

\* Updates that name room, start and end together, or none of them.
WholePatches ==
  {New("A", 24, 26), New("A", 22, 24), Patch(s1, "A", 24, 26, None), Patch(s2, "A", 22, 26, "confirmed"),
   Patch(s1, "A", 22, 20, None), Patch(s1, "A", 18, 28, None),
   Patch(s1, "nowhere", 20, 22, None),
   Patch(s2, None, None, None, "completed"),
   Patch(s1, None, None, None, None), Drop("ann", s2)}

\* Updates that name some of room, start, end and status, creates with a bad
\* duration, an unknown room and nobody as owner, one for a free time, and
\* cancellations by the owner, a stranger and an administrator.
PartialPatches ==
  {Patch(s1, None, 18, None, None), Patch(s1, None, None, 28, None),
   Patch(s1, None, 24, None, None), Patch(s1, None, None, 24, None),
   Patch(s1, "B", None, None, None), Patch(s1, None, None, None, "confirmed"),
   New("B", 26, 28), New("A", 26, 20), New("nowhere", 20, 22),
   [New("A", 20, 22) EXCEPT !.owner = None],
   Drop("ann", s1), Drop("bob", s1), Drop("root", r1)}

\* One update of the room alone and one of the times alone.  What they check
\* meets the new booking, two hours early or not: from 18 to 22 it is in the way,
\* from 26 to 28 it is not.
MergedPatches ==
  {Patch(s1, "B", None, None, None), Patch(s1, None, 22, 26, None),
   New("B", 18, 26)}
=============================================================================
