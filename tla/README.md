# Verification of the Conference Room Booking back end

TLA+ models of the Express/MySQL booking service in `src/`, the TLC runs that check them and
the theorems TLAPS proves about them. Source paths below are relative to the repository.

## 1. Inventory

The program is one Node.js process: `routes -> controllers -> services -> repositories`, a pool
of MySQL connections (`config/db.ts`) and a mailer. Node runs one JavaScript callback at a time,
so all concurrency is between the `await` points of different requests, and all shared state is
in MySQL (InnoDB, REPEATABLE READ) or in the connection pool.

| component | state it keeps | operations | hard behaviour | what makes it correct |
|---|---|---|---|---|
| Booking transactions (`services/bookings.service.ts`, `repositories/bookings.repo.ts`, triggers in `setup_database.sql`) | table `bookings`; per transaction: read view, row and gap locks | create, update, cancel, get, list | plain reads are from a snapshot, the overlap check and UPDATE act on current rows; gap locks do not exclude each other; deadlock victims; stale fields merged into a partial update; UTC text compared with local DATETIME | no two active bookings of a room overlap; a cancelled booking stays cancelled; rows respect the business rules |
| Invitations (`services/invitations.service.ts`, `repositories/invitations.repo.ts`) | table `booking_invitations` | add, remove, respond, list | respond against remove / re-invite / cancel; emails leave before COMMIT | an email tells the truth; nobody who accepted misses a cancellation |
| Notifications (`services/notifications`, `lib/mailer.ts`) | none (SMTP) | three emails, test email | fire-and-forget, may fail after commit or be sent before a rollback | at most one email per event |
| Connection pool (`config/db.ts`) | free connections, waiters | `withTransaction`, `query` | handlers take a second connection while they hold one; no acquire timeout | every request is answered |
| Time rules (`utils/time.ts`, `validateBookingTimes`, `domain/zod/bookings.schema.ts`) | none | hours, duration, slots, normalisation | wall-clock hours without the date, whole minutes, time zones | accepted times are inside 09:00-17:00 and 30-240 minutes |
| Rooms (`services/rooms.service.ts`, `repositories/rooms.repo.ts`) | table `rooms` | create, update, soft delete, availability | soft delete against booking creation; slots against bookings | a free slot can be booked, an occupied one cannot |
| Accounts (`services/auth.service.ts`, `repositories/auth.repo.ts`, `middlewares/auth.ts`, `utils/jwt.ts`) | table `users`, issued tokens | register, login, me, role checks | two registrations between check and INSERT; role copied into a token | one account per email; admin routes need an admin token |
| Analytics (`services/analytics.service.ts`, `repositories/analytics.repo.ts`) | none (reads) | utilization, trends, user summary | whole-hour truncation of each booking; two queries without a common snapshot | totals agree with the table |
| Server life cycle (`server.ts`) | listening, closing | start, graceful and forced shutdown | the signal against requests in flight; `server.close` waits for TCP connections, which outlive answers and may end before them | the process ends; a client that waits is answered or cut off by the timer |
| Request plumbing (`app.ts`, `routes`, `middlewares/validate.ts`, `errorHandler.ts`, `correlationId.ts`, `utils/logger.ts`) | log files | routing, validation, error format | log rotation | pure formatting and wiring |

## 2. Modules

| module | models | lines it stands for |
|---|---|---|
| `BookingTransactions` | create, update and cancel, statement by statement, over one InnoDB table | `bookings.service.ts`, `bookings.controller.ts`, `bookings.repo.ts`, `config/db.ts` `withTransaction`, both triggers and the CHECK of `setup_database.sql` |
| `RoomCalendar` | the abstract specification: one calendar, changed one booking at a time; who finds nothing to change may say so later | what clients may rely on: `withTransaction`, and the early return of `cancelBooking` |
| `BookingTransactionsProofs` | theorems about `BookingTransactions` | |
| `CalendarProofs` | extends `BookingTransactionsProofs`: the refinement of `RoomCalendar`, the rules stored rows obey | |
| `Invitations` | invite, remove, respond, `DELETE`, and the `PATCH`es that cancel a booking, bring it back or leave its status alone, with the mails they hand over | `invitations.service.ts`, `invitations.repo.ts`, `cancelBooking`, `updateBooking`, `bookingNotification.ts` |
| `GuestList` | the abstract specification: one guest list; a request is judged at one moment and takes effect at one later moment, or not at all if it found the list as it asks | what clients may rely on: `withTransaction` around the handlers of `invitations.service.ts`, `cancelBooking` and `updateBooking` |
| `InvitationsProofs` | theorems about `Invitations`, the refinement of `GuestList` | |
| `ConnectionPool` | who holds and who waits for a connection | `config/db.ts`, the order of queries in each service |
| `ServerLifecycle` | extends `ConnectionPool` with the listener, its clients' connections, signals and exit | `server.ts` |
| `ConnectionPoolProofs` | theorems about `ConnectionPool` and `ServerLifecycle` | |
| `TimeRules` | business hours, duration, slots, time zones | `utils/time.ts`, `validateBookingTimes`, `bookings.schema.ts` |
| `RoomAvailability` | extends `TimeRules`: the bookings of one room, one request after the other, against the slots offered for it | `bookings.service.ts`, `rooms.service.ts`, `rooms.repo.ts` |
| `RoomAnalytics` | extends `RoomAvailability` with the three reports | `analytics.repo.ts` |
| `AvailabilityProofs` | theorems about `TimeRules`, `RoomAvailability` and `RoomAnalytics` | |
| `AnalyticsProofs` | extends `AvailabilityProofs`: sums over sets of bookings, and the two reports that add up hours | |
| `Accounts` | registration, login, profile, tokens | `auth.service.ts`, `auth.repo.ts`, `middlewares/auth.ts`, `jwt.ts` |
| `Rooms` | extends `Accounts`: the room directory, under the tokens' roles | `rooms.service.ts`, `rooms.repo.ts`, `rooms.controller.ts` |
| `RoomsProofs` | theorems about `Rooms` and the part `Accounts` is of it | |
| `RoomsHistoryProofs` | extends `RoomsProofs`: the theorems that compare an answer with earlier ones | |
| `MC...` | the instances TLC checks | |

`MCBookingTransactions`, `MCInvitations`, `MCConnectionPool`, `MCServerLifecycle`,
`MCRoomAvailability` (of `RoomAnalytics`) and `MCRooms` extend the module they check and define
only constants. Operators whose comment begins with "Mutant" are not used by any specification:
each is a plausible bug of the definition that follows it, and a property that is said to hold must
fail once it is put in.

### 2.1 BookingTransactions

A *request* `r` is one HTTP call; its handler is the program counter `pc[r]`:

```
idle --Arrive--> check (create) | read (update, cancel) | done (refused before BEGIN)
read --ReadForUpdate / ReadForCancel--> check | before | commit | abort
check --CheckOverlap--> before | abort           findOverlapping ... FOR UPDATE
before --BeforeInsert / BeforeUpdate--> write | abort      row lock, BEFORE trigger
write --Write--> commit | abort                            the new version, CHECK
commit --Commit--> done        abort --Rollback--> done
```

| variable | in the code |
|---|---|
| `pc`, `req`, `answer` | position, body and HTTP answer of the handler |
| `view` | the read view of its transaction |
| `scan`, `dirty` | the locks of its `FOR UPDATE`, and of the row it writes |
| `rows`, `committed` | current and last committed version of every booking |

One action is what runs between two `await`s, or one statement of the engine. An `INSERT` or
`UPDATE` is two actions, because the trigger may read before the statement has to wait for a gap
lock. `CreateBooking` validates and looks up the room and the owner before `BEGIN`; the controller
of `PATCH` and `DELETE` checks ownership on another connection before `BEGIN` (`ChangeBooking`).
The answer is decided when the handler throws or commits and is seen at `pc = "done"`.

What the code relies on is external and modelled as follows:

- The first plain `SELECT` of a transaction makes its view (REPEATABLE READ): `findById` for an
  update or cancellation. A create makes none before its INSERT, because `findOverlapping` locks
  and so does not read the view; its trigger's `SELECT` is the first plain one. `SELECT`s in
  triggers are consistent reads under row-based binary logging.
- `FOR UPDATE` reads current rows. It locks every row its index scan visits, and the gaps between
  them. Which rows these are depends on the optimizer, so `Scanned` is a parameter; all that is
  assumed is that matching rows are visited (`ScansCover`). Runs use the narrowest scan and that
  of `idx_room_time`.
- Gap locks block inserts and moves into the gap but not each other: two creates for the same free
  time both pass the check, and wait for each other in INSERT. One is aborted (`LockTimeout`).
- Locks are kept to the end of the transaction. A statement may fail and a connection may be lost
  at any moment (`Fail`); the acknowledgement of COMMIT may be lost (`Commit` answers "error").
- A request's `new Date("2025-...")` is read in the process zone, a row in the pool's zone, and
  `toISOString()` prints UTC digits which MySQL compares with local `DATETIME` columns:
  `DataInstant`, `RowInstant`, `ProcTz`, `PoolTz`. The pool's zone is always +02:00
  (`config/db.ts:22`, so `PoolTz = 4` half hours); the process's is that of `TZ`, documented as
  `Africa/Johannesburg` (`README.md:156`, `ProcTz = 4`; "as deployed" below). With `TZ=UTC`
  (`ProcTz = 0`) the texts of a request reach `findOverlapping` unshifted.

`RoomCalendar` maps `committed` to its calendar and the answer at `pc = "done"` to its outcome.
COMMIT is where a request takes effect, with one exception: `cancelBooking` returns at once when
the booking it reads is cancelled already, and its answer stands although an update that read the
booking earlier un-cancels it before that transaction ends. So `noticed` is the set of handlers
that have reached COMMIT without a write. Without it the refinement fails: a patch of the status
alone and a DELETE of a booking that comes back suffice to show that, and `whole_patches` has both.

Left out: title and description, the list and filter endpoints. Room and user sets are constants
here; `Rooms` has what happens when rooms change under a booking.

### 2.2 Invitations

The rows of one booking (`Meeting`): its status and everybody's invitation. `holds[r]` are the row
locks of a transaction; the foreign key of `booking_invitations` makes an INSERT wait for whoever
writes the booking, and vice versa. `mails` collects what is handed to the mailer, before `COMMIT`
as in the code. `started` stands for the clock having passed the booking's start. `Guests` have
accepted before the requests come. `earlier` is history, read by properties only: the `DELETE`s
and `PATCH`es that had been answered when each of these arrived.

A `PATCH` names here neither room nor times, so that nothing is validated but the status it reads;
"confirmed" stands for every status but "cancelled", and `None` for a body without one. It is
refused if it reads the booking cancelled, waits for the booking's row in UPDATE, and writes its
status whatever has been committed since: a `DELETE` in between is undone (`Revives`). Bookings
other than `Meeting` are seen only as the overlap they may cause (`Overlapped`).

`GuestList` maps `committed` to its table, `started` to `begun`, the answer at `pc = "done"` to its
outcome, and `Verdict` to what has been found of a request not yet answered. A request is judged
where its statements find what decides it: at the plain SELECTs, but for a removal, which finds out
from DELETE itself whether there is anything to remove. It takes effect at COMMIT. A `DELETE` of
the booking that reads it cancelled returns at once and holds no lock at COMMIT: it is "noticed",
as in `RoomCalendar`, and its answer stands whatever becomes of the booking meanwhile. Otherwise
nothing ties the two moments together, except that an invitation to be removed is still there at
COMMIT: a response may take effect on an invitation removed since (`InVainOnlyAfterRemoval`), or
after the meeting has begun, an invitation after the booking was cancelled.

### 2.3 ConnectionPool and ServerLifecycle

A handler is the sequence of connections it asks for: "query" (borrow one for a statement),
"begin" and "end" of a transaction. Queries inside a transaction that use *its* connection need no
other and are left out; those that go to the pool meanwhile are the nested "query"s. `queue` is
mysql2's FIFO of waiters (`waitForConnections: true`, `queueLimit: 0`, no timeout): a released
connection is handed to the head before anybody else may ask. If MySQL
refuses a new one, the transaction or query fails at once (`Throw`, `FailQuery`).

`ServerLifecycle` adds `Signal` (SIGTERM, SIGINT), `server.close`'s callback, `closePool`, the ten
second timer, and the clients' TCP connections. `server.close` stops the listener and waits for
these, not for handlers. `sockets` holds the open ones, each named by the request it brought last:
`KeepAlive` brings another one on the same connection, also after the signal, and `HangUp` ends it
at any moment. No handler asks whether its client is still there, so it goes on, holding or waiting
for a database connection. `Closed` therefore asks for `sockets = {}` and nothing of handlers: with
every client gone the process ends the pool and exits with 0 while handlers are still at work.
`pool.end` queues a quit on every connection, after which mysql2 gives out none and takes no more
statements, so that the steps of handlers end there (`Serving`); MySQL rolls back what they had
not committed. A connection opened before the signal that brings its first request after it
is left out: a kept one does the same.

### 2.4 TimeRules, RoomAvailability and RoomAnalytics

Time is counted in ticks of `1/PerHour` hour; a text is its digits and the zone it names, an
instant its UTC ticks. The handlers' *results* for one room without concurrency:
`CreateBooking` and `MoveBooking` with texts of any zone, `SetStatus`, `CancelBooking`, and as pure
operators the answers of `GET /rooms/:id/availability` and of the three reports. The table is the
sequence `bookings`; no row is ever removed. An update searches `SearchedWindow`, two hours off as
in section 2.1, and what it finds or misses there is made good, when nothing runs concurrently, by
the trigger (`UpdateTriggerSilent`). Slots travel back through `toISOString` and
`normalizeDatetime`, so `OfferedIsBookable` is about what a client does with the text it was sent.

The reports count whole hours (`TimestampDiffHours` truncates towards zero, as MySQL does), each
booking on the date it starts, and print dates through UTC (`PrintedDate`). All bookings are taken
to be one user's. The two queries of a summary are `Stats` and `UsesOfRoom`; `RoomsCoverTotal`
compares the first with the second after a step of somebody else.

### 2.5 Accounts and Rooms

Nothing here runs in a transaction: every statement borrows a connection of its own, is committed
at once, and others run between two of them. One action is one statement with the code around it.

```
register  check --CheckEmail--> insert --InsertUser--> created --SelectCreated--> done
login     lookup --findByEmailWithPassword--> compare --ComparePassword--> done
me        profile --ReadProfile--> done
rooms     findRoom --FindRoom--> write --UpdateFields / SoftDelete / BookRoom--> reread | done
          insertRoom --InsertRoom--> reread --Reread--> done        list --findAll--> done
```

A new account or room is known by the request that made it, so that ids need no counter. `tokens`
is the set of signed payloads, each a copy of the role at that time; a request comes with any of
them, or with none or an expired one (`Unauthorized`). `SetRole` is external: no code changes a
role, so administrators beyond the one of the sample data are made, and unmade, by SQL. Passwords
are compared as values; the hash is not modelled, nor that MySQL's collation compares emails and
names without case (an `Email` or `Name` of the model is a class of texts the collation takes for
equal). `createBooking` is here as far as its room matters: `findById`, later an INSERT with a
foreign key, and nobody asks `is_active`. `held` (roles an account has had) and `earlier` (requests
served before each one arrived) are history, read by properties only.

## 3. Runs

| run | instance | shows |
|---|---|---|
| `whole_patches` | 3 requests of 10 bodies, 2 seed bookings, `TZ=UTC` | types, no double booking, rules, real 409s, silent insert trigger, refinement of `RoomCalendar`, the inductive invariant |
| `partial_patches` | 2 requests of 13 bodies, as deployed, fair | no inverted row, cancelled bookings come back only by a stale read, everybody answered |
| `invitations` | 3 requests of 15 bodies, 4 users, one guest | refinement of `GuestList`, mails against answers, who is told twice or not at all, when "accepted" is said in vain |
| `shutdown` | 3 requests (of any plan; a move; a search or a refusal), 2 connections, a signal, clients that stay or go, fair | no lost wake-up, everybody served unless handlers nest, nobody who stays cut off but by the timer, the process ends |
| `availability` | 16 texts around the limits, 2 dates, 2 bookings, half-minute ticks | rules, slots, reports |
| `administration` | 3 requests of 12 bodies, one administrator, promotion and demotion | registrations and tokens, who may change rooms, concurrent changes of one room, deletions |
| `shifted_window`, `merged_patches`, `missed_cancellation`, `pool_mails`, `overnight`, `trend_dates` | | the findings of section 6 |

**Bounds.** Three requests are enough for every conflict the locks distinguish: one that checks,
one that has written, one that waits for either. Two are enough where one row is the bone of
contention (`partial_patches`). Six times an hour apart give intervals that are equal, nested,
overlapping at either end, touching and apart, and end both inside and outside the time limits; a
second room and an unknown one exercise moves. The pool needs two connections and one more caller
for anybody to wait behind an exhausted pool: in `shutdown` two of the three requests may nest a
query in their transaction, and the third one waits or brings its request on a kept connection.
Which plans they have does not matter to the pool's invariants, which are proved for all.
`invitations` needs three requests for a cancellation, the `PATCH` that undoes it and a second
cancellation. `availability` has ticks of half a minute because the code drops seconds, so a value
between two minutes must exist; two bookings are a pair that may overlap, and one completed and
booked over. `administration` needs three requests for a registration, a login and a change of a
room by the new account, and for two administrators and a reader; one seed room and one name to
collide with suffice, as rooms meet only in their names. Deadlock checking is off where clients may
have asked all they want (`CHECK_DEADLOCK FALSE`): the system then rests; that nobody is stuck
*before* that is what `AllAnswered` and `ServedUnlessNested` state.

**Fairness.** `FairSpec`: each handler's `Step` and `LockTimeout` are weakly fair, because Node
runs every callback that is ready, and InnoDB detects deadlocks and bounds lock waits
(`innodb_lock_wait_timeout`). Clients (`Arrive`) and failures owe nothing. `FairPoolSpec`: weak
fairness of `Advance` for each request, since MySQL answers every query and the queue is FIFO;
weak is enough, a waiter being handed its connection by the release itself. `FairServerSpec`
assumes the same until the pool is ended, and that the ten second timer fires; clients need neither
keep nor end their connections. `ServedUnlessNested`
then says that everybody is answered as long as fewer handlers nest than there are connections
and no signal comes; `pool_mails` shows that the condition is needed. `StayersServed` is what is
left once a signal has come, and of clients that do not give up.

## 4. Proofs

`BookingTransactionsProofs` is checked by TLAPS for every set of requests, rooms, users, times,
zones and every `Scanned` that covers its matches:

- `TypeInvariant`, `TypeCorrect`: `TypeInv` is inductive. Besides types it says what each step
  finds (`HandlerOK`), that only a locked row has two versions (`VersionsOK`) and has one writer
  (`WritersExclude`).
- `NoDoubleBookingHolds`: if every update is `SelfContained`, `NoDoubleBooking` holds in every
  reachable state. `NoDoubleBooking` itself is not inductive: it knows nothing of rows written but
  not committed, nor of handlers between check and write. `LockInv` adds three facts. The window
  a handler has found free stays free of *every* version of every other booking until its
  transaction ends (`WindowStaysFree`); when it places a booking, that window is the interval it
  stores (`WindowIsOwn`); no two versions of different bookings clash (`NoVersionsClash`). At
  `CheckOverlap` freedom comes from the current rows and from the row locks of whoever has another
  version; at another handler's `Write` from gap locks and `ScansCover`. The triggers are never
  used: the locks suffice. `shifted_window` and `merged_patches` show what happens when the
  assumption is dropped.
- `NoInvertedRowHolds`: no assumption on the requests; the CHECK sees the merged row.
- `InsertTriggerSilentHolds`: with `SelfContained` updates. It needs `LockInv`, `VersionsProper`
  and that a create which has reached its INSERT ends after it starts; then each of the trigger's
  three cases falls within the window the same transaction has locked.
- `ConflictIsRealHolds`: with `SelfContained` updates; only `CheckOverlap` answers 409, and its
  window is the interval of the new row (`OwnWindow`).
- `UncancelledByStaleReadOnlyHolds`: no assumption. The row lock of a write makes it act on the
  last committed version (`EditsCommitted`), so the status it leaves comes from the body.

`SelfContained(q)`: an update names room, start and end together while the process runs in UTC, or
names none of them and does not activate the booking. The code does not enforce it.

`CalendarProofs` goes on from there:

- `HandlersImplementCalendar`: with `SelfContained` updates, `Spec` implements `RoomCalendar!Spec`.
  The invariant is `IInv`, that a write acts on the last committed version (`EditsCommitted`), and
  that an aborted handler has an answer (`AbortsTold`). Every statement before COMMIT is a stutter
  or, for a cancellation that finds nothing to do, `Notice`; COMMIT with a write is `Accept`, where
  `NoDoubleBooking` after the step gives its guard; COMMIT without one is `AcceptNoticed`.
- `InductiveInvariant`: `IInv` itself, the invariant the run checks.
- `RowsObeyRulesHolds`: if the seed data obey the rules and no update gives one time without the
  other (`TimesTogether`; weaker than `SelfContained`, and nothing about zones). `RulesKept` says so
  of *every* version of a row and of the times a handler is about to write: an update that keeps the
  times keeps those of a row that obeys, whatever has become of it since it was read.

`InvitationsProofs` proves every property of the run `invitations`, the refinement below included,
for every set of requests, users and guests, from the constants' assumptions only (`None` is not a
value; a booking's row is not a user's row). The inductive `Inv` has, for each request, what its
stage implies (`StageOK`), that an invitation it found is there or has been removed by a request
now answered (`ReadOK`), how its mails and its answer go together (`AnswerOK`), and what it cannot
have missed of cancellations answered before it came (`EarlierOK`). That a cancellation answered
"ok" leaves the booking cancelled is not inductive, nor true: a `PATCH` that read the booking
before may commit after it. What is true, in `ReadOK`, `AnswerOK` and `EarlierOK` alike, is that
either the booking is cancelled or a `PATCH` that brings it back ran at the same time as that
cancellation (`RevivedBeside`); so a later request finds the booking active (`FoundActive`) only in
the second case, which is the exception of `OneNoticeInSequence`. `RevivedStays` and `EarlierStays`
say that no step of another request disturbs this. `LocksOK` is about two versions of a row: they
differ by what the one transaction that has locked it makes of it. Two transactions can hold the
lock of the same row only where there is none, in either version, and then what both make of it
agrees. `SerialAtCommit` (what is committed changes at a COMMIT only, by what that request makes of
it) follows from `LocksOK`, the other five from the parts of `RequestOK`.

`HandlersKeepGuestList`: without further assumptions `Spec` implements `GuestList!Spec`. `Granted`
is inductive beside `Inv`: past its checks a request is for the meeting and comes from somebody who
may send it, and a removal that has found its invitation still has it committed (`LockedStays`: by
`LocksOK` nobody else who holds that row finds it present). `RemovalFindsCommitted` is the other
half: what DELETE finds in the current rows is what is committed, since anybody else's version
would have made it wait. The reads and a removal's `Write` are `Judge`, an overlap is `Collide`,
`Commit` is `Accept` if it has locked anything and `AcceptNoticed` if not (it was judged at a
moment when the booking was cancelled, where `NothingToCancel` makes its effect none), `Rollback`
is `Reject`, and listing and mailing are stutters.

`ConnectionPoolProofs` is about any number of requests and any `connectionLimit`:

- `PoolInv` is inductive and has four parts: types; `HandlerOK`, what a handler has left to do has
  at most one transaction, which it ends last, and it keeps a connection if and only if only the
  end of that transaction is left (`RestOK`, `Begun`); `QueueOK`, the queue lists exactly those in
  phase "wait", once each; and `NoLostWakeup`. A release with somebody waiting (`HandOverStep`) has
  four cases: who gives the connection back, a query or a transaction, and what it is wanted for;
  in each the connections in use stay as many. Counting is by the library's facts on cardinality.
- From it `QueueIsTheWaiting`, `NoWakeupIsLost`, and `OnlyNestingExhausts`: if everybody who keeps a
  connection waits, each of them has a query left inside its transaction, and there are
  `connectionLimit` of them.
- `ServerImplementsPool`: each step of the server and of its clients is a step of the pool or leaves
  it alone. So the three above hold of the server, with handlers that outlive their clients.

`AvailabilityProofs` is about every text, zone, date and number of ticks. Its assumption on the
clock, `MinutesInTicks`, is that a minute is a whole number of ticks.

- First lemmas on `\div` and `%`, then what the code's clock reading means: `TimesAccepted` turns
  `validateBookingTimes` into four inequalities between the two times and the midnights before
  them. All theorems on rules and slots rest on it.
- `RulesAreEnough` and `RulesHoldUpToSeconds`; the latter and what follows from `TableInv`: rows are
  typed, their times are accepted ones, and no two active ones overlap. `TimeIsCountedOnce` and
  `RoomsCoverTheTotal` come from it as well.
- `OffersAreGood` and `NothingIsHidden` hold in the zone of UTC and east of it (`EastOfUTC`). A
  booking that starts on another day cannot reach a slot: it is over four hours after midnight.
- `HoursOfEachBooking`: the bounds of `UtilizationWithinAnHour` and `ReportsAgree` for one booking.

`AnalyticsProofs` adds those bounds up, for any number of bookings. The folds of the community
modules choose an element and go on with the rest; `TotalIs` says that the recursive function behind
them exists and obeys that equation on every finite set (`SumsExist`). Facts about sums then go by
induction on subsets: `SubsetInduction` takes a *set* of subsets where the library takes an operator,
and rests on the well-founded ordering of finite sets by inclusion. `AnyFirst`, `TotalOfUnion`,
`TotalBound` and `TotalScaled` are what a sum owes to its terms.

- `UtilizationIsClose`: `HoursOfEachBooking` under `TotalBound`.
- `TheReportsAgree`: the trends are a set of records, one for each date; `TotalByGroup` splits the
  sum over bookings by the date they start, and `DatesPrintedApart` keeps two days from falling
  together, since different dates are printed differently in any zone.

`RoomsProofs` and `RoomsHistoryProofs` prove every property of the run `administration`, for every
set of requests, sample data, sessions and changes of roles, from the named assumptions of
`Accounts` and `Rooms` only (the sample data have unique keys, sessions are genuine, `None` is not
a value):

- `DirectoryInv` is inductive: types; unique keys (`KeysUnique`); every token and row carries a
  role its account has had (`RolesHeld`); and for each request what its next statement relies on.
  `StageOK`: the row found before is still there. `BearerOK`: past an administrators' route the
  token says admin. `RowsOK`: a row belongs to the request that made it, and what a registration
  has been told is true. It is kept because no step removes a row, changes an email or makes an
  account forget a role (`TablesGrow`), so that a step disturbs no other request (`OthersOK`).
- From it `DirectoryTyped`, `RegistrationsToldTruth`, `NothingVanishes`; with
  `RoomsWrittenAsAsked` (a step that changes the rooms is of one request, for its own room, field
  by field) also `AdminsChangeRooms` and `NamedFieldsChange`.
- `HistoryInv`, inductive beside `DirectoryInv`, ties answers to the tables: a login's row has the
  password of the table, whoever was answered before a request arrived has not taken its email
  since (`LoginsOK`), what is read back or listed differs from what was asked only where a request
  not answered before asks otherwise (`ReadsOK`, `DeletionOK`, `ListOK`). `StepEffects` says once
  what any step does (a request arrives once and is answered once, rows are kept, wishes are kept),
  and each part of the invariant follows from that. From it `DuplicatesOnlyAtOnce`,
  `NobodyLockedOut`, `AllTokensEarned`, `AnswersShowOwnWrites`, `DeletedRoomsHidden`.

Only model-checked:

- liveness (`AllAnswered`, `AllServed`, `ServedUnlessNested`, `StayersServed`,
  `SignalEndsProcess`): temporal proofs under fairness need ENABLED, which the prover does not
  handle;
- what the violated runs of section 6 show.

## 5. Not modelled

- Users: `GET /users` and `GET /users/:id/bookings` are single SELECTs that change nothing and
  are followed by no other statement; what is known of the second is in section 6.
- Request plumbing: wiring, validation, error format and logs. What validation does to a value
  (defaults, `normalizeDatetime`, at least one field) is in the modules whose handlers get it.
- Notifications: SMTP delivery and wording; what is handed over, when and to whom is modelled.
- Analytics: percentages, first and last date, the order and the names of rooms.
- Rooms: capacity, description and amenities; they are stored and returned as they are.

## 6. Where the code and its documents disagree

Shown by a run that finds the property violated:

1. `shifted_window`: an update checks a window two hours before the interval it stores
   (`bookings.service.ts:182`), against `README.md:1237` and `setup_database.sql:159`.
2. `merged_patches`: an update merges its body with a row it read without a lock, and UPDATE
   merges it with the current one (`bookings.service.ts:149`), against `README.md:21`. The times
   are chosen so that the two-hour shift of the first finding changes no answer.
3. `missed_cancellation`: an acceptance between the list of invitees and COMMIT is not told of the
   cancellation (`bookings.service.ts:227`), against `README.md:414`.
4. `pool_mails`: mail addresses are looked up on a second connection inside the transaction
   (`invitations.service.ts:71`), against `README.md:422` and the comment at line 70.
5. `overnight`: 22:00 to 01:00 is accepted (`utils/time.ts:26`), against `README.md:1226`.
6. `trend_dates`: the daily trends, and the first and last date of a summary, name the day before
   (`analytics.repo.ts:110`), against `README.md:597`.

Seen while modelling, without a run of their own:

- A cancelled booking can come back through an update that read it before
  (`bookings.service.ts:143`; its exact extent is `UncancelledByStaleReadOnly`). A second `DELETE`
  then writes to invitees who have been told already (`ToldTwiceOnlyAtOnce`).
- Two partial updates can store a booking longer than four hours: each validates against the other
  end as it was.
- As deployed, an update can be answered 409 although its time is free: a booking two hours
  earlier is in the shifted window. With `TZ=UTC` the same happens to an update that leaves the
  times alone. `ConflictIsReal` is therefore stated of requests that name room and times, and
  checked with `TZ=UTC`.
- Two creates for the same free time both pass the `FOR UPDATE` check; only INSERT's wait for gap
  locks keeps the second out, and it is answered 500, not 409.
- The comment at `bookings.schema.ts:6` shows a "...Z" text keeping its digits; the code converts
  it to local time.
- `PATCH` with status "cancelled" sends no cancellation mails; concurrent `DELETE`s may send them
  twice (`ToldTwiceOnlyAtOnce`), one after the other only around such a `PATCH`; invitation and
  acceptance mails leave before COMMIT and stay sent after a rollback (`MailsMatchAnswers`).
- In a process zone west of UTC the slots of a date are those of the day before, held against the
  bookings of the date itself: `OfferedIsBookable` and `NothingHidden` need `EastOfUTC`.
- A `DELETE` of a booking that is cancelled when it is read is answered with success although an
  update that read it earlier un-cancels it meanwhile (`Notice`, `AcceptNoticed`, in `RoomCalendar`
  and `GuestList`).
- Exit code 0 after "shutting down gracefully" (`server.ts:30`) says nothing of requests whose
  clients have hung up: their handlers may have been cut off inside a transaction (`Closed`).
- `GET /users/:id/bookings?status=...` (`README.md:500`) filters only bookings one is invited to:
  `WHERE b.user_id = ? OR bi.user_id = ? AND b.status = ?` (`bookings.repo.ts:187`, 193).
- `GET /rooms?floor=0` is not filtered: the controller takes 0 for no floor
  (`rooms.controller.ts:26`; `Listed`).
- A night booking counts as negative hours in the utilization, and marking bookings as completed
  lets a room be used for more than its available hours; the reports count whole hours, where
  `README.md:539` shows 18.5.
- `GET /auth/me` returns no role, because `usersRepo.findById` does not select it.
- A demoted administrator stays one until his token expires; a deleted room can still be booked.
- The tables at `README.md:359` and 924 let administrators manage the invitees of any booking; the
  code asks for the owner (`invitations.service.ts:34`, 112).

## 7. Plan

Done, in this order: booking transactions and their abstract calendar (the system's central
promise), connection pool and shutdown, time rules and availability, invitations, accounts and
rooms, analytics; theorems about every component that is modelled, and the refinements of the
calendar and of the guest list.

Every invariant and action property of the passing runs is a theorem, and so are the three
refinements (calendar, guest list, server and pool). Open:

1. The steps of the liveness arguments that need no fairness: a waiter moves forward with each
   release, a handler's remaining steps decrease. `NotExhausted` is the one that says most, and is
   proved.
2. The one-room model `RoomAvailability` against `RoomCalendar`: `ActiveApart` is the same promise
   with `UpdateTriggerSilent` in the place of the locks. It has results and no requests in progress,
   so it would have to be given handlers first.
3. The filters and pages of the lists (`GET /bookings`, `GET /users/:id/bookings`).
