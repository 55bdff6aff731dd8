------------------------------ MODULE Invitations ------------------------------
(***************************************************************************)
(* The invitations to one booking, Meeting: the handlers of                *)
(* src/services/invitations.service.ts, and DELETE and PATCH               *)
(* /bookings/:id as far as the booking's status goes, as they run          *)
(* concurrently, and the emails they hand to the mailer.  A PATCH with     *)
(* another status brings a booking back that has been cancelled since it   *)
(* was read; "confirmed" stands for every status but "cancelled".          *)
(*                                                                         *)
(* The engine is that of BookingTransactions.  Of its locks: INSERT takes  *)
(* a shared lock on the booking's row (foreign key); UPDATE and DELETE     *)
(* that find no row lock the gap, against inserts but not each other.      *)
(***************************************************************************)
EXTENDS FiniteSets

CONSTANTS
  Req,          \* HTTP requests
  User, Admin,  \* account ids, and those whose role is admin
  Owner,        \* the account that made the booking
  Guests,       \* those who have accepted before the requests come
  BookingId, Meeting,
  Requests,     \* the requests clients send
  None

Invite == [op : {"invite"}, id : BookingId, by : User, users : SUBSET (User \cup {None})]
Remove == [op : {"remove"}, id : BookingId, by : User, user : User]
Respond == [op : {"respond"}, id : BookingId, by : User, status : {"accepted", "declined"}]
Cancel == [op : {"cancel"}, id : BookingId, by : User]
\* The body names neither room nor times; None: no status, but a title or description.
Patch == [op : {"patch"}, id : BookingId, by : User, status : {"confirmed", "cancelled", None}]

ASSUME OwnerKnown == Owner \in User /\ Admin \subseteq User /\ Meeting \in BookingId
ASSUME GuestsAreOthers == Guests \subseteq User \ {Owner}
ASSUME NoneIsNobody == None \notin User /\ None \notin Requests
ASSUME NoneIsNoStatus ==
  None \notin {"pending", "accepted", "declined", "confirmed", "cancelled"}
ASSUME BookingsAreNotUsers == Meeting \notin User    \* the rows of two tables
ASSUME RequestsTyped == Requests \subseteq Invite \cup Remove \cup Respond \cup Cancel \cup Patch

VARIABLES
  pc, req, answer,
  accepted,   \* the invitees a cancellation found to have accepted
  holds,      \* users whose invitation, and Meeting if the booking, it locks
  rows,       \* current versions: the booking's status, everyone's invitation
  committed,  \* last committed versions
  started,    \* the meeting has begun
  mails,      \* emails handed to the mailer: kind, to whom, by which request
  earlier     \* history: the updates of the booking answered before each arrived

vars == <<pc, req, answer, accepted, holds, rows, committed, started, mails, earlier>>

State == [booking : {"confirmed", "cancelled"},
          of : [User -> {None, "pending", "accepted", "declined"}]]
Fresh == [booking |-> "confirmed", of |-> [u \in User |-> IF u \in Guests THEN "accepted" ELSE None]]

Init == /\ pc = [r \in Req |-> "idle"]
        /\ req = [r \in Req |-> None]
        /\ answer = [r \in Req |-> None]
        /\ accepted = [r \in Req |-> {}]
        /\ holds = [r \in Req |-> {}]
        /\ rows = Fresh
        /\ committed = Fresh
        /\ started = FALSE
        /\ mails = {}
        /\ earlier = [r \in Req |-> {}]
-----------------------------------------------------------------------------
Op(r) == req[r].op
\* Requests that UPDATE the booking, and those that ask for its cancellation
Updates(r) == Op(r) \in {"cancel", "patch"}
Cancels(r) == Op(r) = "cancel" \/ (Op(r) = "patch" /\ req[r].status = "cancelled")
Revives(r) == Op(r) = "patch" /\ req[r].status = "confirmed"

\* Existing users other than the owner; the rest of the list is passed over.
ValidUsers(q) == (q.users \cap User) \ {q.by}

\* The rows a request writes, or finds missing
Writes(q) == CASE q.op = "invite" -> ValidUsers(q)
               [] q.op = "remove" -> {q.user}
               [] q.op = "respond" -> {q.by}
               [] OTHER -> {Meeting}

\* The status that DELETE and PATCH leave on a booking with status x
StatusAfter(q, x) == IF q.op = "cancel" THEN "cancelled"
                     ELSE IF q.status = None THEN x ELSE q.status

\* What a statement does to a row it finds
Upsert(q, s) ==
  CASE q.op = "invite" -> [s EXCEPT !.of = [u \in User |->
                             IF u \in ValidUsers(q) THEN "pending" ELSE @[u]]]
    [] q.op = "remove" -> [s EXCEPT !.of[q.user] = None]
    [] q.op = "respond" -> [s EXCEPT !.of[q.by] = q.status]
    [] OTHER -> [s EXCEPT !.booking = StatusAfter(q, @)]

\* INSERT ... ON DUPLICATE KEY UPDATE, DELETE, UPDATE
Effect(q, s) == IF q.op = "respond" /\ s.of[q.by] = None THEN s ELSE Upsert(q, s)

\* Is there a version of the row that another transaction may have locked?
Present(x) == x = Meeting \/ rows.of[x] # None \/ committed.of[x] # None

Blocked(r) ==
  \E q \in Req \ {r} :
    /\ holds[q] # {}
    /\ \/ \E x \in Writes(req[r]) \cap holds[q] : Present(x) \/ Op(r) = "invite"
       \/ Op(r) = "invite" /\ Updates(q)
       \/ Updates(r) /\ Op(q) = "invite"

UpdatesAnswered == {r \in Req : pc[r] = "done" /\ Updates(r)}

Goto(r, label) == pc' = [pc EXCEPT ![r] = label]
Throw(r, a) == Goto(r, "abort") /\ answer' = [answer EXCEPT ![r] = a]
Refuse(r, a) == Goto(r, "done") /\ answer' = [answer EXCEPT ![r] = a]
Proceed(r, label) == Goto(r, label) /\ UNCHANGED answer
Mail(kind, to, r) == [kind |-> kind, to |-> to, by |-> r]
-----------------------------------------------------------------------------
\* Requests that go straight to their transaction
Arrive(r, q) ==
  /\ pc[r] = "idle" /\ q.op \in {"invite", "remove", "respond"}
  /\ req' = [req EXCEPT ![r] = q]
  /\ Proceed(r, "read")
  /\ UNCHANGED <<accepted, holds, rows, committed, started, mails, earlier>>

\* The controller of PATCH and DELETE /bookings/:id checks ownership first.
ArriveAtOwned(r, q) ==
  /\ pc[r] = "idle" /\ q.op \in {"cancel", "patch"}
  /\ req' = [req EXCEPT ![r] = q]
  /\ IF q.id # Meeting THEN Refuse(r, "not_found")
     ELSE IF q.by \notin Admin \cup {Owner} THEN Refuse(r, "forbidden")
     ELSE Proceed(r, "read")
  /\ earlier' = [earlier EXCEPT ![r] = UpdatesAnswered]
  /\ UNCHANGED <<accepted, holds, rows, committed, started, mails>>

\* The plain SELECTs of addInvitees and removeInvitee
ReadAsOwner(r) ==
  LET q == req[r]
  IN /\ pc[r] = "read" /\ q.op \in {"invite", "remove"}
     /\ IF q.id # Meeting THEN Throw(r, "not_found")
        ELSE IF q.by # Owner THEN Throw(r, "forbidden")
        ELSE IF q.op = "invite" /\ ValidUsers(q) = {} THEN Throw(r, "bad_request")
        ELSE Proceed(r, "write")
     /\ UNCHANGED <<req, accepted, holds, rows, committed, started, mails, earlier>>

\* Mutant: isUserInvited is not asked.
NotAsked(u) == TRUE
isUserInvited(u) == committed.of[u] # None

\* The plain SELECTs of respondToInvitation
ReadAsInvitee(r) ==
  LET q == req[r]
  IN /\ pc[r] = "read" /\ q.op = "respond"
     /\ IF q.id # Meeting \/ ~isUserInvited(q.by) THEN Throw(r, "not_found")
        ELSE IF started THEN Throw(r, "bad_request")
        ELSE Proceed(r, "write")
     /\ UNCHANGED <<req, accepted, holds, rows, committed, started, mails, earlier>>

\* Mutant: cancelBooking does not return early.
NotIdempotent == FALSE
AlreadyCancelled == committed.booking = "cancelled"

\* findById in cancelBooking, which returns early, and in updateBooking
ReadBooking(r) ==
  /\ pc[r] = "read" /\ Updates(r)
  /\ \/ Op(r) = "cancel" /\ Proceed(r, IF AlreadyCancelled THEN "commit" ELSE "list")
     \/ Op(r) = "patch" /\ IF committed.booking = "cancelled"
                            THEN Throw(r, "bad_request")
                            ELSE Proceed(r, "write")
  /\ UNCHANGED <<req, accepted, holds, rows, committed, started, mails, earlier>>

AcceptedInvitees == {u \in User : committed.of[u] = "accepted"}

\* getInviteesByBooking, on a connection of its own
ListInvitees(r) ==
  /\ pc[r] = "list"
  /\ accepted' = [accepted EXCEPT ![r] = AcceptedInvitees]
  /\ Proceed(r, "write")
  /\ UNCHANGED <<req, holds, rows, committed, started, mails, earlier>>

\* Mutant: the connection is not passed on, the statement runs on the pool.
WriteOnPool(r) == /\ pc[r] = "write" /\ ~Blocked(r)
                  /\ rows' = Effect(req[r], rows)
                  /\ committed' = Effect(req[r], committed)
                  /\ Proceed(r, "mail")
                  /\ UNCHANGED <<req, accepted, holds, started, mails, earlier>>

\* findOverlapping finds another booking of the room, which only matters to an
\* update that leaves the booking active; the row's lock may be taken here already.
Overlapped(r) == /\ pc[r] = "write" /\ Op(r) = "patch" /\ ~Cancels(r)
                 /\ Throw(r, "conflict")
                 /\ UNCHANGED <<req, accepted, holds, rows, committed, started, mails, earlier>>

\* The INSERT, DELETE or UPDATE, on the current row whatever has been read of it; a
\* DELETE that finds no row is answered 404, an UPDATE of an invitation that finds
\* none is not noticed.
Write(r) ==
  LET q == req[r]
  IN /\ pc[r] = "write" /\ ~Blocked(r)
     /\ holds' = [holds EXCEPT ![r] = Writes(q)]
     /\ rows' = Effect(q, rows)
     /\ IF q.op = "remove" /\ rows.of[q.user] = None THEN Throw(r, "not_found")
        ELSE Proceed(r, "mail")
     /\ UNCHANGED <<req, accepted, committed, started, mails, earlier>>

\* Mutant: an administrator's cancellation is not mailed.
MailedByOwner(r) ==
  IF req[r].by = Owner THEN {Mail("cancelled", u, r) : u \in accepted[r]} ELSE {}

InvitationMails(r) == {Mail("invitation", u, r) : u \in ValidUsers(req[r])}
AcceptedMails(r) ==
  IF req[r].status = "accepted" THEN {Mail("accepted", Owner, r)} ELSE {}
CancelledMails(r) == {Mail("cancelled", u, r) : u \in accepted[r]}

\* What a request has to mail
Letters(r) == CASE Op(r) = "invite" -> InvitationMails(r)
                [] Op(r) = "respond" -> AcceptedMails(r)
                [] Op(r) = "cancel" -> CancelledMails(r)
                [] OTHER -> {}

\* Each invitation is mailed after a lookup of its own, the cancellations at once.
SendMail(r) ==
  /\ pc[r] = "mail" /\ ~(Letters(r) \subseteq mails)
  /\ IF Op(r) = "invite"
     THEN \E m \in Letters(r) \ mails : mails' = mails \cup {m}
     ELSE mails' = mails \cup Letters(r)
  /\ UNCHANGED <<pc, req, answer, accepted, holds, rows, committed, started, earlier>>

\* Mutant: the mails are started and not waited for.
NotAwaited(r) == /\ pc[r] = "mail"
                 /\ Proceed(r, "commit")
                 /\ UNCHANGED <<req, accepted, holds, rows, committed, started, mails, earlier>>

AllMailed(r) == /\ pc[r] = "mail" /\ Letters(r) \subseteq mails
                /\ Proceed(r, "commit")
                /\ UNCHANGED <<req, accepted, holds, rows, committed, started, mails, earlier>>

\* s with the rows that r holds as they are in t
Merge(r, s, t) ==
  [booking |-> IF Meeting \in holds[r] THEN t.booking ELSE s.booking,
   of |-> [u \in User |-> IF u \in holds[r] THEN t.of[u] ELSE s.of[u]]]

Release(r) == Goto(r, "done") /\ holds' = [holds EXCEPT ![r] = {}]

\* COMMIT; its acknowledgement may be lost.
Commit(r) == /\ pc[r] = "commit"
             /\ committed' = Merge(r, committed, rows)
             /\ \E a \in {"ok", "error"} : answer' = [answer EXCEPT ![r] = a]
             /\ Release(r)
             /\ UNCHANGED <<req, accepted, rows, started, mails, earlier>>

\* Mutant: connection.rollback() is left out.
NotRolledBack(r) == /\ pc[r] = "abort"
                    /\ Release(r)
                    /\ UNCHANGED <<req, answer, accepted, rows, committed, started, mails, earlier>>

Rollback(r) == /\ pc[r] = "abort"
               /\ rows' = Merge(r, rows, committed)
               /\ Release(r)
               /\ UNCHANGED <<req, answer, accepted, committed, started, mails, earlier>>

\* A statement or a lookup fails, or a lock wait ends in an error.
Fail(r) == /\ pc[r] \in {"read", "list", "write", "mail", "commit"}
           /\ Throw(r, "error")
           /\ UNCHANGED <<req, accepted, holds, rows, committed, started, mails, earlier>>

\* The start time of the booking passes.
Begin == /\ ~started /\ started' = TRUE
         /\ UNCHANGED <<pc, req, answer, accepted, holds, rows, committed, mails, earlier>>

Step(r) == \/ ReadAsOwner(r) \/ ReadAsInvitee(r) \/ ReadBooking(r)
           \/ ListInvitees(r) \/ Overlapped(r) \/ Write(r) \/ SendMail(r) \/ AllMailed(r)
           \/ Commit(r) \/ Rollback(r)

Next == \/ \E r \in Req : Step(r) \/ Fail(r)
        \/ \E r \in Req, q \in Requests : Arrive(r, q) \/ ArriveAtOwned(r, q)
        \/ Begin

Spec == Init /\ [][Next]_vars
-----------------------------------------------------------------------------
(* Properties *)

\* Values of their kinds; rows that nobody holds have one version.
TypeOK ==
  /\ pc \in [Req -> {"idle", "read", "list", "write", "mail", "commit", "abort", "done"}]
  /\ req \in [Req -> Requests \cup {None}]
  /\ answer \in [Req -> {None, "ok", "bad_request", "not_found", "forbidden",
                     "conflict", "error"}]
  /\ accepted \in [Req -> SUBSET User]
  /\ holds \in [Req -> SUBSET (User \cup {Meeting})]
  /\ rows \in State /\ committed \in State /\ started \in BOOLEAN
  /\ earlier \in [Req -> SUBSET Req]
  /\ rows.booking # committed.booking => \E r \in Req : Meeting \in holds[r]
  /\ \A u \in User : rows.of[u] # committed.of[u] => \E r \in Req : u \in holds[r]

\* "Invitation accepted successfully" is said without an invitation only to one
\* whose invitation was removed between the two statements of his response
\* (invitations.service.ts:133, 155: the result of updateStatus is not used).
InVainOnlyAfterRemoval ==
  \A r \in Req :
    pc[r] \in {"mail", "commit"} /\ Op(r) = "respond" /\ rows.of[req[r].by] = None =>
      \E q \in Req : /\ pc[q] = "done" /\ answer[q] \in {"ok", "error"}
                     /\ Op(q) = "remove" /\ req[q].user = req[r].by

Told(u) == \E m \in mails : m.kind = "cancelled" /\ m.to = u
Misled(u) == committed.booking = "cancelled" /\ committed.of[u] = "accepted" /\ ~Told(u)

\* Somebody who has accepted stays without notice of a cancellation for one of
\* three reasons: his acceptance was committed after the booking was cancelled
\* (respondToInvitation does not ask for the booking's status), or after
\* cancelBooking had listed the invitees, or it was PATCH that cancelled.
MisledOnlyIfLate ==
  [][\A u \in User : Misled(u)' /\ ~Misled(u) =>
       \E r \in Req : /\ Commit(r)
                      /\ \/ Op(r) = "respond" /\ req[r].by = u
                         \/ Op(r) = "cancel" /\ u \notin accepted[r]
                         \/ Op(r) = "patch" /\ Cancels(r)]_vars

\* A request answered as done has handed over every mail it owes, and one that has
\* written to anybody is never turned down: mails about something that did not
\* happen come only from requests answered with an error, whose COMMIT or a later
\* lookup failed (the mails go out before COMMIT, invitations.service.ts:70-90).
MailsMatchAnswers ==
  \A r \in Req : pc[r] = "done" =>
    /\ answer[r] = "ok" => Letters(r) \subseteq mails
    /\ (\E m \in mails : m.by = r) => answer[r] \in {"ok", "error"}

\* A PATCH that brings the booking back ran, and took effect, at the same time as
\* a: neither was answered when the other arrived.
RevivedBeside(a) ==
  \E p \in Req : /\ pc[p] = "done" /\ answer[p] \in {"ok", "error"} /\ Revives(p)
                 /\ a \notin earlier[p] /\ p \notin earlier[a]

\* Nobody is told twice of the cancellation by requests that follow each other,
\* unless a PATCH that had read the booking before the first cancelled it, and so
\* did not find it cancelled, made it active again: two DELETEs that tell the same
\* invitee ran at the same time, or the first was answered with an error, or it ran
\* at the same time as such a PATCH (bookings.service.ts:134-149, 196, 215-224: the
\* status is read without a lock).
ToldTwiceOnlyAtOnce ==
  \A m, n \in mails :
    /\ m.kind = "cancelled" /\ n.kind = "cancelled" /\ m.to = n.to /\ m.by # n.by
    /\ answer[m.by] = "ok" /\ m.by \in earlier[n.by]
    => RevivedBeside(m.by)

\* What the statements of a request have found: whether an invitation to be removed
\* is there is found by DELETE itself; a handler that goes to COMMIT without having
\* locked anything has found the booking cancelled.
Verdict(r) == CASE pc[r] = "abort" -> answer[r]
                [] pc[r] = "commit" -> IF holds[r] = {} THEN "noticed" ELSE "admitted"
                [] pc[r] \in {"list", "mail"} -> "admitted"
                [] pc[r] = "write" /\ Op(r) # "remove" -> "admitted"
                [] OTHER -> None

List == INSTANCE GuestList
          WITH table <- committed, begun <- started, request <- req,
               Before <- Fresh, Invitable <- ValidUsers,
               verdict <- [r \in Req |-> Verdict(r)],
               outcome <- [r \in Req |-> IF pc[r] = "done" THEN answer[r] ELSE None]

\* Committed invitations and the answers that clients see form a GuestList: whoever
\* is refused is refused for a reason that held at some moment since he asked, who
\* is told "ok" had none against him at one, and took effect in one step later on, or
\* had found the booking cancelled already (invitations.service.ts:26-186,
\* bookings.service.ts:128-234, config/db.ts:44-60).
GuestListSpec == List!Spec

\* "All invitees who had accepted the invitation" (README.md:414) have been
\* written to when a booking becomes cancelled.
AcceptedAreTold ==
  [][committed.booking # "cancelled" /\ committed'.booking = "cancelled" =>
       \A u \in User : committed.of[u] = "accepted" => Told(u)]_vars
=============================================================================
