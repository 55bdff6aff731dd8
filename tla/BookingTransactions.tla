------------------------- MODULE BookingTransactions -------------------------
(***************************************************************************)
(* The booking handlers of src/services/bookings.service.ts as they run    *)
(* concurrently over one InnoDB table.  A request is one HTTP call; its    *)
(* transaction is a sequence of statements, and another request may run    *)
(* between any two of them, because every statement is awaited.            *)
(*                                                                         *)
(* The engine is external; what the handlers rely on is modelled:          *)
(*  - a plain SELECT reads the view made by the first plain SELECT of its  *)
(*    transaction (REPEATABLE READ), and so does the SELECT in a trigger;  *)
(*  - SELECT ... FOR UPDATE and UPDATE act on the current rows; the former *)
(*    locks every row it scans and the gaps between them, and gap locks    *)
(*    exclude inserts and moves but not each other;                        *)
(*  - locks are held to the end of the transaction, and a blocked          *)
(*    statement may be aborted (deadlock victim, lock wait timeout).       *)
(* Times are counted in half hours.                                        *)
(***************************************************************************)
EXTENDS Integers

CONSTANTS
  Req,             \* HTTP requests; a booking inserted by r has id r
  Seed,            \* ids of the bookings the table starts with
  User, Admin,     \* account ids, and those whose role is admin
  RoomId, Room,    \* room ids a client may send, and those that exist
  Time,            \* DATETIME values, local wall clock
  Requests,        \* the request bodies clients send
  SeedRows,        \* initial contents of the table
  ProcTz, PoolTz,  \* UTC offset of the Node process, and of the MySQL pool
  None,            \* SQL: no such row; JavaScript: field not given
  Scanned(_, _)    \* rows an index scan for a window visits, and so locks

Booking == Seed \cup Req
Status == {"pending", "confirmed", "cancelled", "completed"}
Active == {"confirmed", "pending"}
Answer == {"ok", "bad_request", "not_found", "forbidden", "conflict", "error"}
Row == [room : Room, owner : User, start : Time, end : Time, status : Status]

\* The owner of a new booking is any id the body names: None, if no account's.
Create == [op : {"create"}, by : User, owner : User \cup {None}, room : RoomId,
           start : Time, end : Time]
Update == [op : {"update"}, by : User, id : Booking, room : RoomId \cup {None},
           start : Time \cup {None}, end : Time \cup {None},
           status : Status \cup {None}]
Cancel == [op : {"cancel"}, by : User, id : Booking]

\* Date -> instant: a request's time is read in the process zone, a row's in
\* the pool's zone; toISOString prints the instant without shifting it back.
DataInstant(t) == t - ProcTz
RowInstant(t) == t - PoolTz
Text == Time \cup {DataInstant(t) : t \in Time} \cup {RowInstant(t) : t \in Time}
Window == [room : Room, from : Text, to : Text]

\* Mutant: bookings that touch count as overlapping.
MatchesTouching(w, row) == /\ row.room = w.room
                           /\ row.status \in Active
                           /\ row.start <= w.to
                           /\ row.end >= w.from

\* WHERE clause of findOverlapping
Matches(w, row) == /\ row.room = w.room
                   /\ row.status \in Active
                   /\ row.start < w.to
                   /\ row.end > w.from

\* WHERE clause of both prevent_double_booking triggers
Clashes(new, row) ==
  /\ row.room = new.room
  /\ row.status \in Active
  /\ \/ new.start >= row.start /\ new.start < row.end
     \/ new.end > row.start /\ new.end <= row.end
     \/ new.start <= row.start /\ new.end >= row.end

ASSUME IdsDistinct == Seed \cap Req = {}
ASSUME NoneIsNew ==
  /\ None \notin RoomId /\ None \notin Time /\ None \notin Status \cup Answer
  /\ None \notin Row /\ None \notin Window
  /\ None \notin Requests /\ None \notin [Booking -> Row \cup {None}]
ASSUME RoomsKnown == Room \subseteq RoomId /\ Admin \subseteq User
ASSUME ZonesAreInts == Time \subseteq Int /\ ProcTz \in Int /\ PoolTz \in Int
ASSUME RequestsTyped == Requests \subseteq Create \cup Update \cup Cancel
\* The seed data has no overlap, and no row for a booking still to be made.
ASSUME SeedIsClean ==
  /\ SeedRows \in [Booking -> Row \cup {None}]
  /\ \A b \in Booking : SeedRows[b] # None =>
       /\ b \in Seed
       /\ SeedRows[b].end > SeedRows[b].start
  /\ \A b, c \in Seed : b # c /\ SeedRows[b] # None /\ SeedRows[c] # None =>
       ~ /\ SeedRows[b].status \in Active
         /\ SeedRows[c].status \in Active
         /\ SeedRows[b].room = SeedRows[c].room
         /\ SeedRows[b].start < SeedRows[c].end
         /\ SeedRows[c].start < SeedRows[b].end
\* Whatever index the optimizer picks, its scan visits every matching row.
ASSUME ScansCover ==
  \A w \in Window, row \in Row : Matches(w, row) => Scanned(w, row)

VARIABLES
  pc,         \* where each request's handler is
  req,        \* its body, once it has arrived
  answer,     \* its HTTP answer, decided but sent only at pc = "done"
  view,       \* its transaction's read view, once made
  scan,       \* the window it has scanned FOR UPDATE
  dirty,      \* rows it holds an exclusive lock on for writing
  rows,       \* current row versions, uncommitted ones included
  committed   \* last committed row versions

vars == <<pc, req, answer, view, scan, dirty, rows, committed>>
table == <<rows, committed>>

Init == /\ pc = [r \in Req |-> "idle"]
        /\ req = [r \in Req |-> None]
        /\ answer = [r \in Req |-> None]
        /\ view = [r \in Req |-> None]
        /\ scan = [r \in Req |-> None]
        /\ dirty = [r \in Req |-> {}]
        /\ rows = SeedRows
        /\ committed = SeedRows
-----------------------------------------------------------------------------
(* Reading a request against a row *)

Or(given, current) == IF given = None THEN current ELSE given
TargetOf(r, q) == IF q.op = "create" THEN r ELSE q.id
Target(r) == TargetOf(r, req[r])

\* getHours() and getMinutes() of an instant, in the process zone
Hour(i) == ((i + ProcTz) \div 2) % 24
HalfPast(i) == (i + ProcTz) % 2 = 1

validateBookingTimes(i, j) ==
  /\ j > i
  /\ Hour(i) >= 9
  /\ Hour(j) < 17 \/ (Hour(j) = 17 /\ ~HalfPast(j))
  /\ j - i \in 1..8

\* roomsRepo.findById and usersRepo.findById find something; mutant: not asked.
NotAsked(id) == TRUE
RoomFound(id) == id \in Room
UserFound(id) == id \in User

\* The guard on a cancelled booking; mutant: forgotten.
AnyStatus(row) == TRUE
Updatable(row) == row.status # "cancelled"

\* An update validates its times when it changes one; mutant: never.
NeverGiven(q) == FALSE
TimesGiven(q) == q.start # None \/ q.end # None

\* The table's CHECK; mutant: the constraint is missing.
NoConstraint(row) == TRUE
ChkEndAfterStart(row) == row.end > row.start

FinalStart(q, row) ==
  IF q.start = None THEN RowInstant(row.start) ELSE DataInstant(q.start)
FinalEnd(q, row) ==
  IF q.end = None THEN RowInstant(row.end) ELSE DataInstant(q.end)

\* Mutant: the check is for bookings that are being activated.
NeedsCheckIfActivated(q, row) == q.status \in Active

NeedsOverlapCheck(q, row) ==
  \/ q.room # None \/ q.start # None \/ q.end # None
  \/ Or(q.status, row.status) \in Active

\* What body q makes of a row: columns not given keep the row's value.
Effect(q, row) ==
  IF q.op = "create"
  THEN [room |-> q.room, owner |-> q.owner, start |-> q.start,
        end |-> q.end, status |-> "confirmed"]
  ELSE IF q.op = "update"
  THEN [room |-> Or(q.room, row.room), owner |-> row.owner,
        start |-> Or(q.start, row.start), end |-> Or(q.end, row.end),
        status |-> Or(q.status, row.status)]
  ELSE [row EXCEPT !.status = "cancelled"]

\* Mutant: every column is written back from the row the handler has read.
NewRowAsRead(r) ==
  Effect(req[r], IF req[r].op = "create" THEN None ELSE view[r][Target(r)])

\* INSERT and UPDATE work on the CURRENT row, whatever the handler has read.
NewRow(r) == Effect(req[r], rows[Target(r)])

\* The window given to findOverlapping: a new booking's own text, or, for an
\* update, the instants of the row as read from the view merged with the body.
CheckedWindow(r) ==
  LET q == req[r]
      seen == view[r][q.id]
  IN IF q.op = "create"
     THEN [room |-> q.room, from |-> q.start, to |-> q.end]
     ELSE [room |-> Or(q.room, seen.room),
           from |-> FinalStart(q, seen), to |-> FinalEnd(q, seen)]
-----------------------------------------------------------------------------
(* Locks *)

\* q holds booking b's record lock: it writes b, or its scan visited b.
Locks(q, b) ==
  \/ b \in dirty[q]
  \/ scan[q] # None /\ rows[b] # None /\ Scanned(scan[q], rows[b])

\* Another transaction locks a version of a row in the way of a scan of w.
ScanBlocked(r, w) ==
  \E q \in Req \ {r}, b \in Booking :
    /\ Locks(q, b)
    /\ \/ rows[b] # None /\ Scanned(w, rows[b])
       \/ committed[b] # None /\ Scanned(w, committed[b])

RowBlocked(r) == \E q \in Req \ {r} : Locks(q, Target(r))

\* A gap lock of another transaction covers the place of the new version.
GapBlocked(r) ==
  \E q \in Req \ {r} : scan[q] # None /\ Scanned(scan[q], NewRow(r))

Blocked(r) == \/ pc[r] = "check" /\ ScanBlocked(r, CheckedWindow(r))
              \/ pc[r] = "before" /\ req[r].op # "create" /\ RowBlocked(r)
              \/ pc[r] = "write" /\ GapBlocked(r)
-----------------------------------------------------------------------------
(* Steps of a handler *)

Goto(r, label) == pc' = [pc EXCEPT ![r] = label]
\* A throw inside the callback of withTransaction: ROLLBACK comes next.
Throw(r, a) == Goto(r, "abort") /\ answer' = [answer EXCEPT ![r] = a]
\* Mutant: a handler that catches without next(error).
NextForgotten(r, a) == Goto(r, "caught") /\ UNCHANGED answer
\* A throw before BEGIN: there is nothing to roll back.
Refuse(r, a) == Goto(r, "done") /\ answer' = [answer EXCEPT ![r] = a]

\* POST /bookings up to BEGIN
CreateBooking(r, q) ==
  /\ pc[r] = "idle" /\ q.op = "create"
  /\ req' = [req EXCEPT ![r] = q]
  /\ \/ /\ ~validateBookingTimes(DataInstant(q.start), DataInstant(q.end))
        /\ Refuse(r, "bad_request")
     \/ /\ validateBookingTimes(DataInstant(q.start), DataInstant(q.end))
        /\ IF RoomFound(q.room) /\ UserFound(q.owner)
           THEN Goto(r, "check") /\ UNCHANGED answer
           ELSE Refuse(r, "not_found")
  /\ UNCHANGED <<view, scan, dirty, table>>

\* PATCH and DELETE /bookings/:id: the controller reads the booking on
\* another connection to check ownership, before the transaction begins.
ChangeBooking(r, q) ==
  /\ pc[r] = "idle" /\ q.op # "create"
  /\ req' = [req EXCEPT ![r] = q]
  /\ IF committed[q.id] = None THEN Refuse(r, "not_found")
     ELSE IF q.by \notin Admin /\ committed[q.id].owner # q.by
     THEN Refuse(r, "forbidden")
     ELSE Goto(r, "read") /\ UNCHANGED answer
  /\ UNCHANGED <<view, scan, dirty, table>>

\* updateBooking: findById makes the view, then everything up to the check.
ReadForUpdate(r) ==
  LET q == req[r]
      row == committed[q.id]
  IN /\ pc[r] = "read" /\ q.op = "update"
     /\ view' = [view EXCEPT ![r] = committed]
     /\ IF row = None THEN Throw(r, "not_found")
        ELSE IF \/ ~Updatable(row)
                \/ /\ TimesGiven(q)
                   /\ ~validateBookingTimes(FinalStart(q, row), FinalEnd(q, row))
        THEN Throw(r, "bad_request")
        ELSE IF ~RoomFound(Or(q.room, row.room)) THEN Throw(r, "not_found")
        ELSE /\ Goto(r, IF NeedsOverlapCheck(q, row) THEN "check" ELSE "before")
             /\ UNCHANGED answer
     /\ UNCHANGED <<req, scan, dirty, table>>

\* cancelBooking: findById; a cancelled booking is answered at once.
ReadForCancel(r) ==
  LET row == committed[req[r].id]
  IN /\ pc[r] = "read" /\ req[r].op = "cancel"
     /\ view' = [view EXCEPT ![r] = committed]
     /\ IF row = None THEN Throw(r, "not_found")
        ELSE /\ Goto(r, IF row.status = "cancelled" THEN "commit" ELSE "before")
             /\ UNCHANGED answer
     /\ UNCHANGED <<req, scan, dirty, table>>

\* FOR UPDATE locks what the scan for w visits; mutant: it is left out.
NotForUpdate(w) == None
ForUpdate(w) == w

\* findOverlapping ... FOR UPDATE, on the current rows
CheckOverlap(r) ==
  LET w == CheckedWindow(r)
  IN /\ pc[r] = "check" /\ ~ScanBlocked(r, w)
     /\ scan' = [scan EXCEPT ![r] = ForUpdate(w)]
     /\ IF \E b \in Booking \ {Target(r)} : rows[b] # None /\ Matches(w, rows[b])
        THEN Throw(r, "conflict")
        ELSE Goto(r, "before") /\ UNCHANGED answer
     /\ UNCHANGED <<req, view, dirty, table>>

\* INSERT: its BEFORE trigger makes the view of a create.
BeforeInsert(r) ==
  /\ pc[r] = "before" /\ req[r].op = "create"
  /\ view' = [view EXCEPT ![r] = committed]
  /\ dirty' = [dirty EXCEPT ![r] = {r}]
  /\ IF \E b \in Booking \ {r} :
          committed[b] # None /\ Clashes(NewRow(r), committed[b])
     THEN Throw(r, "error")
     ELSE Goto(r, "write") /\ UNCHANGED answer
  /\ UNCHANGED <<req, scan, table>>

\* UPDATE: locks the row, then its BEFORE trigger reads the old view.
BeforeUpdate(r) ==
  LET b == Target(r)
      old == rows[b]
      new == NewRow(r)
  IN /\ pc[r] = "before" /\ req[r].op # "create" /\ ~RowBlocked(r)
     /\ dirty' = [dirty EXCEPT ![r] = {b}]
     /\ IF /\ \/ new.room # old.room \/ new.start # old.start
              \/ new.end # old.end \/ new.status \in Active
           /\ \E c \in Booking \ {b} :
                view[r][c] # None /\ Clashes(new, view[r][c])
        THEN Throw(r, "error")
        ELSE Goto(r, "write") /\ UNCHANGED answer
     /\ UNCHANGED <<req, view, scan, table>>

\* The new version is stored if no gap lock is in the way and it passes
\* CHECK (end_time > start_time).
Write(r) ==
  LET new == NewRow(r)
  IN /\ pc[r] = "write" /\ ~GapBlocked(r)
     /\ IF ChkEndAfterStart(new)
        THEN /\ rows' = [rows EXCEPT ![Target(r)] = new]
             /\ Goto(r, "commit") /\ UNCHANGED answer
        ELSE Throw(r, "error") /\ UNCHANGED rows
     /\ UNCHANGED <<req, view, scan, dirty, committed>>

\* The end of a transaction releases its locks and its view.
Release(r) == /\ Goto(r, "done")
              /\ view' = [view EXCEPT ![r] = None]
              /\ scan' = [scan EXCEPT ![r] = None]
              /\ dirty' = [dirty EXCEPT ![r] = {}]

\* COMMIT; when its acknowledgement is lost the client is told of an error.
Commit(r) ==
  /\ pc[r] = "commit"
  /\ committed' = [b \in Booking |-> IF b \in dirty[r] THEN rows[b] ELSE committed[b]]
  /\ \E a \in {"ok", "error"} : answer' = [answer EXCEPT ![r] = a]
  /\ Release(r)
  /\ UNCHANGED <<req, rows>>

Rollback(r) ==
  /\ pc[r] = "abort"
  /\ rows' = [b \in Booking |-> IF b \in dirty[r] THEN committed[b] ELSE rows[b]]
  /\ Release(r)
  /\ UNCHANGED <<req, answer, committed>>

InTransaction(r) == pc[r] \in {"read", "check", "before", "write", "commit"}

\* The connection is lost, or the statement fails for a reason of its own.
Fail(r) == /\ InTransaction(r)
           /\ Throw(r, "error")
           /\ UNCHANGED <<req, view, scan, dirty, table>>

\* InnoDB aborts a blocked statement: deadlock victim, or lock wait timeout.
LockTimeout(r) == /\ Blocked(r)
                  /\ Throw(r, "error")
                  /\ UNCHANGED <<req, view, scan, dirty, table>>

Arrive(r) == \E q \in Requests : CreateBooking(r, q) \/ ChangeBooking(r, q)

Step(r) == \/ ReadForUpdate(r) \/ ReadForCancel(r)
           \/ CheckOverlap(r)
           \/ BeforeInsert(r) \/ BeforeUpdate(r) \/ Write(r)
           \/ Commit(r) \/ Rollback(r)

Next == \E r \in Req : Arrive(r) \/ Step(r) \/ Fail(r) \/ LockTimeout(r)

Spec == Init /\ [][Next]_vars

\* Node keeps running callbacks and InnoDB keeps answering; clients owe nothing.
FairSpec == Spec /\ \A r \in Req : WF_vars(Step(r)) /\ WF_vars(LockTimeout(r))
-----------------------------------------------------------------------------
(* Properties *)

Overlap(x, y) == x.room = y.room /\ x.start < y.end /\ y.start < x.end
ActiveIn(t, b) == t[b] # None /\ t[b].status \in Active

\* Every variable holds values of its kind.
TypeOK ==
  /\ pc \in [Req -> {"idle", "read", "check", "before", "write", "commit",
                     "abort", "done"}]
  /\ req \in [Req -> Requests \cup {None}]
  /\ answer \in [Req -> Answer \cup {None}]
  /\ view \in [Req -> [Booking -> Row \cup {None}] \cup {None}]
  /\ scan \in [Req -> Window \cup {None}]
  /\ dirty \in [Req -> SUBSET Booking]
  /\ rows \in [Booking -> Row \cup {None}]
  /\ committed \in [Booking -> Row \cup {None}]

\* An update whose checked window is the interval it will store: it gives room,
\* start and end, and the instants it prints are its local times; or it moves
\* nothing and activates nothing.
SelfContained(q) ==
  q.op = "update" =>
    \/ None \notin {q.room, q.start, q.end} /\ ProcTz = 0
    \/ {q.room, q.start, q.end} = {None} /\ q.status \notin Active

\* No two active bookings of a room overlap: the promise createBooking and
\* updateBooking check for before they write (bookings.service.ts:65-79, 171-193).
NoDoubleBooking ==
  \A b, c \in Booking :
    b # c /\ ActiveIn(committed, b) /\ ActiveIn(committed, c)
      => ~Overlap(committed[b], committed[c])

\* What a handler has made sure of when it gets to each of its steps.
HandlerOK(r) ==
  /\ pc[r] = "idle" => rows[r] = None /\ committed[r] = None /\ req[r] = None
  /\ pc[r] # "idle" => req[r] \in Requests
  /\ pc[r] = "read" => req[r].op \in {"update", "cancel"}
  /\ pc[r] \in {"read", "check", "before", "write", "commit", "abort"} =>
       IF req[r].op = "create"
       THEN req[r].room \in Room /\ req[r].owner \in User
       ELSE committed[Target(r)] # None
  /\ pc[r] \in {"check", "before"} /\ req[r].op = "create" =>
       rows[r] = None /\ committed[r] = None
  /\ pc[r] \in {"check", "before", "write"} /\ req[r].op = "update" =>
       /\ req[r].room \in Room \cup {None}
       /\ view[r] # None /\ view[r][Target(r)] # None
  /\ pc[r] = "check" => req[r].op \in {"create", "update"}
  /\ pc[r] \in {"idle", "read", "check", "before", "done"} => dirty[r] = {}
  /\ pc[r] = "write" => dirty[r] = {Target(r)}
  /\ dirty[r] # {} => dirty[r] = {Target(r)}

\* Rows are never deleted, and only a dirty row has two versions.
VersionsOK ==
  \A b \in Booking :
    /\ committed[b] # None => rows[b] # None
    /\ rows[b] # committed[b] => \E r \in Req : b \in dirty[r]

\* Two transactions never write the same row at once.
WritersExclude == \A q, r \in Req : q # r => dirty[q] \cap dirty[r] = {}

TypeInv == TypeOK /\ (\A r \in Req : HandlerOK(r)) /\ VersionsOK /\ WritersExclude

Versions(b) == {rows[b], committed[b]} \ {None}

\* From its overlap check to the end of its transaction, a handler's locks keep
\* every other version of a booking out of the window it has found free.
WindowStaysFree(r) ==
  pc[r] \in {"before", "write", "commit"} /\ scan[r] # None =>
    \A b \in Booking \ {Target(r)} : \A v \in Versions(b) : ~Matches(scan[r], v)

\* A handler about to place a booking has checked the very window of it.
WindowIsOwn(r) ==
  /\ pc[r] \in {"before", "write"}
  /\ \/ req[r].op = "create"
     \/ req[r].op = "update" /\ req[r].start # None
  => /\ scan[r] # None
     /\ scan[r] = [room |-> req[r].room, from |-> req[r].start, to |-> req[r].end]

\* Locks of a scan are taken by the check and not before.
ScanIsChecked(r) == pc[r] \in {"idle", "read", "check"} => scan[r] = None

\* No version of a booking, committed or not, overlaps one of another booking.
NoVersionsClash ==
  \A b, c \in Booking : b # c =>
    \A x \in Versions(b), y \in Versions(c) :
      x.status \in Active /\ y.status \in Active => ~Overlap(x, y)

\* The inductive invariant behind NoDoubleBooking.
LockInv ==
  /\ \A r \in Req : WindowStaysFree(r) /\ WindowIsOwn(r) /\ ScanIsChecked(r)
  /\ NoVersionsClash

IInv == TypeInv /\ LockInv

VersionsProper ==
  \A b \in Booking : \A v \in Versions(b) : ChkEndAfterStart(v)

\* No stored booking ends before it starts, although two updates may each
\* store one end of an interval that neither of them has seen
\* (bookings.service.ts:149-161 against bookings.repo.ts:91-131).
NoInvertedRow ==
  \A b \in Booking : committed[b] # None => committed[b].end > committed[b].start

\* A row that the handlers have let through obeys the business rules by the
\* clock its client meant, although they validate what they have read and been
\* given, and the row may have changed since.
RowsObeyRules ==
  \A b \in Booking : committed[b] # None =>
    validateBookingTimes(DataInstant(committed[b].start), DataInstant(committed[b].end))

\* "Don't allow updating cancelled bookings" (bookings.service.ts:143), and the
\* one way back from cancelled: an update that read the booking before
\* the cancellation was committed, and asks for another status itself.
\* Updates that begin after it are stopped at bookings.service.ts:144.
UncancelledByStaleReadOnly ==
  [][\A b \in Booking :
       committed[b] # None /\ committed[b].status = "cancelled"
         /\ committed'[b].status # "cancelled"
       => \E r \in Req :
            /\ pc[r] = "commit" /\ pc'[r] = "done"
            /\ req[r].op = "update" /\ req[r].id = b
            /\ req[r].status \notin {None, "cancelled"}
            /\ view[r][b].status # "cancelled"]_vars

PlacesAll(q) ==
  q.op = "create" \/ (q.op = "update" /\ None \notin {q.room, q.start, q.end})

\* A request that names room, start and end, and is answered 409, would have
\* clashed with a booking that is there: "Room is already booked for the selected
\* time period" (bookings.service.ts:75-79, 188-192).
ConflictIsReal ==
  [][\A r \in Req : answer[r] = None /\ answer'[r] = "conflict" /\ PlacesAll(req[r])
       => \E b \in Booking \ {Target(r)} :
            ActiveIn(rows, b) /\ Overlap(NewRow(r), rows[b])]_vars

\* The insert trigger never has to speak: whatever it would find, the locking
\* check of the same transaction has found or has locked out, so a client sees
\* 409 from bookings.service.ts:75-79 and never the trigger's 500.
InsertTriggerSilent ==
  [][\A r \in Req : BeforeInsert(r) => pc'[r] = "write"]_vars

\* Every request is answered, blocked on locks or not.
AllAnswered == \A r \in Req : (req[r] # None) ~> (pc[r] = "done")

\* Committed rows, and the answers that clients see, form a RoomCalendar.
Calendar == INSTANCE RoomCalendar
              WITH calendar <- committed, request <- req, Target <- TargetOf,
                   outcome <- [r \in Req |-> IF pc[r] = "done" THEN answer[r] ELSE None],
                   noticed <- {r \in Req : pc[r] = "commit" /\ dirty[r] = {}}

\* Each request takes effect in one step on the latest committed rows or not
\* at all, and its answer says which (withTransaction, config/db.ts:44-60); a
\* cancellation answered "ok" has cancelled the booking or has found it cancelled,
\* which another's stale update may have undone since (bookings.service.ts:222-224).
CalendarSpec == Calendar!Spec
=============================================================================
