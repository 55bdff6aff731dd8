--------------------------- MODULE InvitationsProofs ---------------------------
(***************************************************************************)
(* What holds of Invitations for every set of users and requests.          *)
(***************************************************************************)
EXTENDS Invitations, TLAPS

LEMMA RequestTyped ==
  ASSUME NEW q \in Requests
  PROVE  /\ q # None /\ q.by \in User
         /\ q.op \in {"invite", "remove", "respond", "cancel", "patch"}
         /\ q.op = "remove" => q.user \in User
         /\ q.op = "respond" => q.status \in {"accepted", "declined"}
         /\ q.op = "patch" => q.status \in {"confirmed", "cancelled", None}
  BY RequestsTyped, NoneIsNobody DEF Invite, Remove, Respond, Cancel, Patch

LEMMA WritesTyped ==
  ASSUME NEW q \in Requests
  PROVE  /\ Writes(q) \subseteq User \cup {Meeting}
         /\ Meeting \in Writes(q) <=> q.op \in {"cancel", "patch"}
  BY RequestTyped, BookingsAreNotUsers DEF Writes, ValidUsers

(* What a request makes of u's invitation x *)
Becomes(q, u, x) ==
  IF q.op = "invite" /\ u \in ValidUsers(q) THEN "pending"
  ELSE IF q.op = "remove" /\ u = q.user THEN None
  ELSE IF q.op = "respond" /\ u = q.by /\ x # None THEN q.status
  ELSE x

LEMMA EffectRowwise ==
  ASSUME NEW q \in Requests, NEW s \in State
  PROVE  /\ Effect(q, s) \in State
         /\ Effect(q, s).booking = IF q.op \in {"cancel", "patch"}
                                   THEN StatusAfter(q, s.booking) ELSE s.booking
         /\ \A u \in User : Effect(q, s).of[u] = Becomes(q, u, s.of[u])
  <1>1. CASE q.op = "invite"
    BY <1>1 DEF Effect, Upsert, Becomes, State
  <1>2. CASE q.op = "remove"
    BY <1>2, RequestTyped DEF Effect, Upsert, Becomes, State
  <1>3. CASE q.op = "respond"
    BY <1>3, RequestTyped DEF Effect, Upsert, Becomes, State
  <1>4. CASE q.op \in {"cancel", "patch"}
    <2>1. StatusAfter(q, s.booking) \in {"confirmed", "cancelled"}
      BY <1>4, RequestTyped DEF StatusAfter, State
    <2> QED
      BY <1>4, <2>1 DEF Effect, Upsert, Becomes, State
  <1> QED
    BY <1>1, <1>2, <1>3, <1>4, RequestTyped

LEMMA BecomesFacts ==
  ASSUME NEW q \in Requests, NEW u \in User, NEW x
  PROVE  /\ u \notin Writes(q) => Becomes(q, u, x) = x
         /\ Becomes(q, u, x) = None => x = None \/ (q.op = "remove" /\ q.user = u)
         /\ Becomes(q, u, x) = "accepted" => x = "accepted" \/ (q.op = "respond" /\ q.by = u)
         /\ x = None /\ q.op # "invite" => Becomes(q, u, x) = None
  <1>1. u \notin Writes(q) => Becomes(q, u, x) = x
    BY RequestTyped DEF Becomes, Writes
  <1>2. q.op \in {"invite", "remove", "respond", "cancel", "patch"}
    BY RequestTyped
  <1>3. q.op = "respond" => q.status # None
    BY RequestTyped, NoneIsNoStatus
  <1>4. None # "pending" /\ None # "accepted"
    BY NoneIsNoStatus
  <1> QED
    BY <1>1, <1>2, <1>3, <1>4 DEF Becomes

LEMMA LettersFacts ==
  ASSUME NEW r \in Req, req[r] \in Requests
  PROVE  /\ \A m \in Letters(r) : m.by = r
         /\ \A m \in Letters(r) :
              m.kind = "cancelled" => Op(r) = "cancel" /\ m.to \in accepted[r]
         /\ Op(r) = "cancel" => Letters(r) = {Mail("cancelled", u, r) : u \in accepted[r]}
         /\ Op(r) \in {"remove", "patch"} => Letters(r) = {}
  BY RequestTyped
  DEF Letters, InvitationMails, AcceptedMails, CancelledMails, Mail, Op
-----------------------------------------------------------------------------
(* The inductive invariant *)

Typed ==
  /\ pc \in [Req -> {"idle", "read", "list", "write", "mail", "commit", "abort", "done"}]
  /\ req \in [Req -> Requests \cup {None}]
  /\ answer \in [Req -> {None, "ok", "bad_request", "not_found", "forbidden",
                     "conflict", "error"}]
  /\ accepted \in [Req -> SUBSET User]
  /\ holds \in [Req -> SUBSET (User \cup {Meeting})]
  /\ rows \in State /\ committed \in State /\ started \in BOOLEAN
  /\ earlier \in [Req -> SUBSET Req]

\* What r has come to, by its stage
StageOK(r) ==
  /\ pc[r] \in {"idle", "read"} => accepted[r] = {}
  /\ pc[r] # "idle" => req[r] \in Requests
  /\ pc[r] = "list" => Op(r) = "cancel"
  /\ pc[r] \in {"idle", "read", "list", "write", "done"} => holds[r] = {}
  /\ pc[r] = "mail" => holds[r] = Writes(req[r])
  /\ pc[r] \in {"commit", "abort"} => holds[r] \in {{}, Writes(req[r])}

Removed(u) == \E q \in Req : /\ pc[q] = "done" /\ answer[q] \in {"ok", "error"}
                             /\ Op(q) = "remove" /\ req[q].user = u

\* What r has read still stands, or it is known what has become of it.
ReadOK(r) ==
  /\ pc[r] \in {"write", "mail", "commit"} /\ Op(r) = "respond" =>
       committed.of[req[r].by] # None \/ Removed(req[r].by)
  /\ pc[r] = "commit" /\ holds[r] # Writes(req[r]) =>
       /\ Op(r) = "cancel" /\ holds[r] = {}
       /\ committed.booking = "cancelled" \/ RevivedBeside(r)

\* Its mails and its answer
AnswerOK(r) ==
  /\ pc[r] = "commit" => Letters(r) \subseteq mails
  /\ pc[r] = "abort" => answer[r] # "ok"
  /\ pc[r] = "done" /\ answer[r] = "ok" =>
       /\ Letters(r) \subseteq mails
       /\ Cancels(r) => committed.booking = "cancelled" \/ RevivedBeside(r)
  /\ (\E m \in mails : m.by = r) =>
       \/ pc[r] \in {"mail", "commit"}
       \/ pc[r] \in {"abort", "done"} /\ answer[r] \in {"ok", "error"}

\* It has read a booking that is not cancelled.
FoundActive(r) == /\ Updates(r)
                  /\ \/ pc[r] \in {"list", "write", "mail"} \/ accepted[r] # {}
                     \/ pc[r] = "commit" /\ holds[r] # {}

\* It finds what those answered before it arrived have done, and others not undone.
EarlierOK(r) ==
  \A a \in earlier[r] :
    /\ pc[a] = "done" /\ Updates(a)
    /\ answer[a] = "ok" /\ Cancels(a) /\ FoundActive(r) => RevivedBeside(a)

RequestOK(r) == StageOK(r) /\ ReadOK(r) /\ AnswerOK(r) /\ EarlierOK(r)

\* The two versions of a row differ by what the transaction that has locked it
\* makes of it; two that have locked the same row have found none.
LocksOK ==
  /\ \A u \in User : rows.of[u] # committed.of[u] => \E r \in Req : u \in holds[r]
  /\ rows.booking # committed.booking => \E r \in Req : Meeting \in holds[r]
  /\ \A r \in Req : /\ \A u \in holds[r] \cap User :
                         rows.of[u] = Becomes(req[r], u, committed.of[u])
                    /\ Meeting \in holds[r] =>
                         rows.booking = StatusAfter(req[r], committed.booking)
  /\ \A r, q \in Req : r # q => \A x \in holds[r] \cap holds[q] : ~Present(x)

MailsOK == \A m \in mails : m.by \in Req /\ m \in Letters(m.by)

Inv == Typed /\ LocksOK /\ MailsOK /\ \A r \in Req : RequestOK(r)

LEMMA InitInv == Init => Inv
  <1> SUFFICES ASSUME Init PROVE Inv
    OBVIOUS
  <1>1. Fresh \in State
    BY DEF Fresh, State
  <1>2. Typed
    BY <1>1 DEF Init, Typed
  <1>3. LocksOK /\ MailsOK
    BY DEF Init, LocksOK, MailsOK
  <1>4. ASSUME NEW r \in Req PROVE RequestOK(r)
    BY DEF Init, RequestOK, StageOK, ReadOK, AnswerOK, EarlierOK
  <1> QED
    BY <1>2, <1>3, <1>4 DEF Inv
-----------------------------------------------------------------------------
(* What every step leaves as it is *)

Unmoved(q) == /\ pc'[q] = pc[q] /\ req'[q] = req[q] /\ answer'[q] = answer[q]
              /\ accepted'[q] = accepted[q] /\ holds'[q] = holds[q]
              /\ earlier'[q] = earlier[q]

\* It has still to be answered, or it has been answered "ok".
Stands(a) == pc[a] \notin {"idle", "done"} \/ (pc[a] = "done" /\ answer[a] = "ok")

Onward ==
  /\ mails \subseteq mails'
  /\ \A q \in Req : pc[q] # "idle" => req'[q] = req[q] /\ earlier'[q] = earlier[q]
  /\ \A q \in Req : pc[q] = "done" => pc'[q] = "done" /\ answer'[q] = answer[q]
  /\ \A a \in Req : Stands(a) /\ Cancels(a) /\ committed.booking = "cancelled" =>
       committed'.booking = "cancelled" \/ RevivedBeside(a)'
  /\ \A u \in User : committed.of[u] # None /\ committed'.of[u] = None => Removed(u)'

LEMMA RemovedStays ==
  ASSUME Onward, NEW u, Removed(u)
  PROVE  Removed(u)'
  BY DEF Onward, Removed, Op

LEMMA RevivedStays ==
  ASSUME Onward, NEW a \in Req, pc[a] # "idle", RevivedBeside(a)
  PROVE  RevivedBeside(a)'
  BY DEF Onward, RevivedBeside, Revives, Op

(* What has been found to stand, or to have been undone, stays so. *)
LEMMA EarlierStays ==
  ASSUME Inv, Typed', Onward, NEW q \in Req, pc[q] # "idle" \/ earlier'[q] = earlier[q],
         FoundActive(q)' => FoundActive(q)
  PROVE  EarlierOK(q)'
  <1>1. earlier'[q] = earlier[q]
    BY DEF Onward
  <1>2. ASSUME NEW a \in earlier[q]
        PROVE  /\ a \in Req /\ pc[a] = "done" /\ Updates(a)
               /\ answer[a] = "ok" /\ Cancels(a) /\ FoundActive(q) => RevivedBeside(a)
    BY <1>2 DEF Inv, Typed, RequestOK, EarlierOK
  <1>3. ASSUME NEW a \in earlier[q]
        PROVE  /\ pc'[a] = "done" /\ req'[a] = req[a] /\ answer'[a] = answer[a]
               /\ RevivedBeside(a) => RevivedBeside(a)'
    BY <1>2, <1>3, RevivedStays DEF Onward
  <1> QED
    BY <1>1, <1>2, <1>3 DEF EarlierOK, Updates, Cancels, Op

LEMMA OthersOK ==
  ASSUME Inv, Typed', Onward, NEW q \in Req, Unmoved(q),
         \A m \in mails' \ mails : m.by # q
  PROVE  RequestOK(q)'
  <1>1. StageOK(q)'
    BY DEF Inv, RequestOK, StageOK, Unmoved, Op
  <1>2. ReadOK(q)'
    <2>1. ASSUME NEW u \in User, u = req[q].by, pc[q] \in {"write", "mail", "commit"},
                 Op(q) = "respond"
          PROVE  committed'.of[u] # None \/ Removed(u)'
      <3>1. committed.of[u] # None \/ Removed(u)
        BY <2>1 DEF Inv, RequestOK, ReadOK
      <3> QED
        BY <3>1, RemovedStays DEF Onward
    <2>2. pc[q] # "idle" => req[q].by \in User
      BY RequestTyped DEF Inv, RequestOK, StageOK
    <2>3. ASSUME pc[q] \in {"write", "mail", "commit"}, Op(q) = "respond"
          PROVE  (committed.of[req[q].by] # None \/ Removed(req[q].by))'
      BY <2>1, <2>2, <2>3 DEF Unmoved, Removed
    <2>4. pc[q] = "commit" /\ holds[q] # Writes(req[q]) =>
            /\ Op(q)' = "cancel" /\ holds'[q] = {}
            /\ committed'.booking = "cancelled" \/ RevivedBeside(q)'
      BY RevivedStays DEF Inv, RequestOK, ReadOK, Unmoved, Op, Onward, Stands, Cancels
    <2> QED
      BY <2>3, <2>4 DEF ReadOK, Unmoved, Op
  <1>3. AnswerOK(q)'
    <2>1. Letters(q)' = Letters(q)
      BY DEF Letters, InvitationMails, AcceptedMails, CancelledMails, Op, Unmoved
    <2>2. pc[q] = "done" /\ answer[q] = "ok" /\ Cancels(q) =>
            committed'.booking = "cancelled" \/ RevivedBeside(q)'
      BY RevivedStays DEF Inv, RequestOK, AnswerOK, Onward, Stands
    <2> QED
      BY <2>1, <2>2 DEF Inv, RequestOK, AnswerOK, Unmoved, Op, Cancels, Onward
  <1>4. EarlierOK(q)'
    BY EarlierStays DEF Unmoved, FoundActive, Updates, Op
  <1> QED
    BY <1>1, <1>2, <1>3, <1>4 DEF RequestOK

LEMMA TypedStep == Inv /\ [Next]_vars => Typed'
  <1> SUFFICES ASSUME Inv, [Next]_vars PROVE Typed'
    OBVIOUS
  <1> USE DEF Inv
  <1>1. ASSUME NEW r \in Req, NEW q \in Requests, Arrive(r, q) \/ ArriveAtOwned(r, q)
        PROVE  Typed'
    BY <1>1 DEF Typed, Arrive, ArriveAtOwned, Proceed, Goto, Refuse, UpdatesAnswered
  <1>2. ASSUME NEW r \in Req, \/ ReadAsOwner(r) \/ ReadAsInvitee(r) \/ ReadBooking(r)
                             \/ Overlapped(r) \/ Fail(r)
        PROVE  Typed'
    BY <1>2 DEF Typed, ReadAsOwner, ReadAsInvitee, ReadBooking, Overlapped, Fail, Proceed,
                Goto, Throw
  <1>3. ASSUME NEW r \in Req, ListInvitees(r)
        PROVE  Typed'
    BY <1>3 DEF Typed, ListInvitees, AcceptedInvitees, Proceed, Goto
  <1>4. ASSUME NEW r \in Req, SendMail(r) \/ AllMailed(r)
        PROVE  Typed'
    BY <1>4 DEF Typed, SendMail, AllMailed, Proceed, Goto
  <1>5. ASSUME NEW r \in Req, Commit(r) \/ Rollback(r)
        PROVE  Typed'
    <2>1. ASSUME NEW s \in State, NEW t \in State PROVE Merge(r, s, t) \in State
      BY DEF Merge, State
    <2>2. rows' \in State /\ committed' \in State
      BY <1>5, <2>1 DEF Commit, Rollback, Release, Typed
    <2> QED
      BY <1>5, <2>2 DEF Commit, Rollback, Release, Goto, Typed
  <1>6. CASE Begin
    BY <1>6 DEF Typed, Begin
  <1>7. CASE UNCHANGED vars
    BY <1>7 DEF Typed, vars
  <1>8. ASSUME NEW r \in Req, Write(r)
        PROVE  Typed'
    <2>1. req[r] \in Requests
      BY <1>8 DEF RequestOK, StageOK, Write
    <2> QED
      BY <1>8, <2>1, EffectRowwise, WritesTyped DEF Typed, Write, Throw, Proceed, Goto
  <1> QED
    BY <1>1, <1>2, <1>3, <1>4, <1>5, <1>6, <1>7, <1>8 DEF Next, Step

LEMMA Combine ==
  ASSUME Inv, Typed', Onward, NEW r \in Req, \A q \in Req \ {r} : Unmoved(q),
         \A m \in mails' \ mails : m.by = r,
         RequestOK(r)', LocksOK', MailsOK'
  PROVE  Inv'
  BY OthersOK DEF Inv

LEMMA LocksStay ==
  ASSUME Inv, UNCHANGED <<holds, rows, committed>>,
         \A r \in Req : holds[r] # {} => req'[r] = req[r]
  PROVE  LocksOK'
  BY DEF Inv, LocksOK, Present

LEMMA MailsStay ==
  ASSUME Inv, UNCHANGED mails, NEW r \in Req, \A q \in Req \ {r} : Unmoved(q),
         Letters(r)' = Letters(r) \/ pc[r] \in {"idle", "read", "list", "write"}
  PROVE  MailsOK'
  <1>1. ASSUME NEW m \in mails, m.by # r PROVE Letters(m.by)' = Letters(m.by)
    BY <1>1 DEF Letters, InvitationMails, AcceptedMails, CancelledMails, Op, Unmoved, Inv, MailsOK
  <1>2. ASSUME NEW m \in mails, m.by = r PROVE Letters(r)' = Letters(r)
    BY <1>2 DEF Inv, RequestOK, AnswerOK
  <1> QED
    BY <1>1, <1>2 DEF Inv, MailsOK

LEMMA OnwardQuietly ==
  ASSUME Inv, UNCHANGED committed, mails \subseteq mails', NEW r \in Req, pc[r] # "done",
         \A q \in Req \ {r} : Unmoved(q),
         pc[r] = "idle" \/ UNCHANGED <<req, earlier>>
  PROVE  Onward
  BY DEF Onward, Unmoved
-----------------------------------------------------------------------------
(* Every action *)

LEMMA ArriveStep ==
  ASSUME Inv, Typed', NEW r \in Req, NEW q \in Requests,
         Arrive(r, q) \/ ArriveAtOwned(r, q)
  PROVE  Inv'
  <1>1. pc[r] = "idle" /\ holds[r] = {} /\ accepted[r] = {} /\ ~\E m \in mails : m.by = r
    BY DEF Arrive, ArriveAtOwned, Inv, RequestOK, StageOK, AnswerOK
  <1>2. /\ req'[r] = q /\ UNCHANGED <<accepted, holds, rows, committed, mails>>
        /\ \/ pc'[r] = "read"
           \/ pc'[r] = "done" /\ answer'[r] \in {"not_found", "forbidden"}
    BY DEF Arrive, ArriveAtOwned, Proceed, Refuse, Goto, Inv, Typed
  <1>3. \A p \in Req \ {r} : Unmoved(p)
    BY DEF Arrive, ArriveAtOwned, Proceed, Refuse, Goto, Inv, Typed, Unmoved
  <1>4. earlier'[r] = earlier[r] \/ earlier'[r] = UpdatesAnswered
    BY DEF Arrive, ArriveAtOwned, Inv, Typed
  <1>5. Onward
    BY <1>1, <1>2, <1>3, OnwardQuietly
  <1>6. StageOK(r)' /\ ReadOK(r)' /\ AnswerOK(r)'
    BY <1>1, <1>2 DEF StageOK, ReadOK, AnswerOK
  <1>7. EarlierOK(r)'
    <2>1. \A a \in earlier'[r] : a \in Req /\ pc[a] = "done" /\ Updates(a)
      BY <1>4 DEF Inv, Typed, RequestOK, EarlierOK, UpdatesAnswered
    <2>2. ~FoundActive(r)'
      BY <1>1, <1>2 DEF FoundActive
    <2> QED
      BY <1>5, <2>1, <2>2 DEF EarlierOK, Onward, Updates, Op
  <1>8. LocksOK'
    <2>1. \A p \in Req : holds[p] # {} => req'[p] = req[p]
      BY <1>1, <1>3 DEF Unmoved
    <2> QED
      BY <1>2, <2>1, LocksStay
  <1>9. MailsOK'
    BY <1>1, <1>2, <1>3, MailsStay
  <1> QED
    BY <1>2, <1>3, <1>5, <1>6, <1>7, <1>8, <1>9, Combine DEF RequestOK

LEMMA ReadStep ==
  ASSUME Inv, Typed', NEW r \in Req, ReadAsOwner(r) \/ ReadAsInvitee(r) \/ ReadBooking(r)
  PROVE  Inv'
  <1>1. /\ pc[r] = "read" /\ UNCHANGED <<req, accepted, holds, rows, committed, mails, earlier>>
        /\ holds[r] = {} /\ accepted[r] = {} /\ req[r] \in Requests
        /\ ~\E m \in mails : m.by = r
    BY DEF ReadAsOwner, ReadAsInvitee, ReadBooking, Inv, RequestOK, StageOK, AnswerOK
  <1>2. /\ pc'[r] \in {"write", "list", "commit", "abort"}
        /\ pc'[r] = "list" => Op(r) = "cancel" /\ committed.booking # "cancelled"
        /\ pc'[r] = "commit" => Op(r) = "cancel" /\ committed.booking = "cancelled"
        /\ pc'[r] = "write" /\ Updates(r) => committed.booking # "cancelled"
        /\ pc'[r] = "abort" => answer'[r] # "ok"
        /\ pc'[r] = "write" /\ Op(r) = "respond" => committed.of[req[r].by] # None
    BY DEF ReadAsOwner, ReadAsInvitee, ReadBooking, Throw, Proceed, Goto, Inv, Typed,
           isUserInvited, AlreadyCancelled, Op, Updates
  <1>3. \A q \in Req \ {r} : Unmoved(q)
    BY <1>1 DEF ReadAsOwner, ReadAsInvitee, ReadBooking, Throw, Proceed, Goto, Inv, Typed, Unmoved
  <1>4. StageOK(r)'
    BY <1>1, <1>2 DEF StageOK, Op
  <1>5. ReadOK(r)'
    BY <1>1, <1>2 DEF ReadOK, Op
  <1>6. AnswerOK(r)'
    <2>1. pc'[r] = "commit" => Letters(r)' = {}
      BY <1>1, <1>2 DEF Letters, CancelledMails, Op
    <2> QED
      BY <1>1, <1>2, <2>1 DEF AnswerOK
  <1>7. Onward
    BY <1>1, <1>3, OnwardQuietly
  <1>8. EarlierOK(r)'
    <2>1. ASSUME NEW a \in earlier[r]
          PROVE  /\ a \in Req /\ pc[a] = "done" /\ Updates(a)
                 /\ pc'[a] = "done" /\ req'[a] = req[a] /\ answer'[a] = answer[a]
      BY <1>7, <2>1 DEF Inv, Typed, RequestOK, EarlierOK, Onward
    <2>2. ASSUME NEW a \in earlier[r], answer[a] = "ok", Cancels(a), FoundActive(r)'
          PROVE  RevivedBeside(a)'
      <3>1. committed.booking # "cancelled"
        BY <1>1, <1>2, <2>2 DEF FoundActive, Updates, Op
      <3>2. RevivedBeside(a)
        BY <2>1, <2>2, <3>1 DEF Inv, RequestOK, AnswerOK
      <3> QED
        BY <1>7, <2>1, <2>2, <3>2, RevivedStays
    <2> QED
      BY <1>1, <2>1, <2>2 DEF EarlierOK, Updates, Cancels, Op
  <1> QED
    BY <1>1, <1>3, <1>4, <1>5, <1>6, <1>7, <1>8, LocksStay, MailsStay, Combine DEF RequestOK

LEMMA ListInviteesStep ==
  ASSUME Inv, Typed', NEW r \in Req, ListInvitees(r)
  PROVE  Inv'
  <1>1. /\ pc[r] = "list" /\ pc'[r] = "write"
        /\ UNCHANGED <<req, answer, holds, rows, committed, mails, earlier>>
        /\ Op(r) = "cancel" /\ holds[r] = {} /\ ~\E m \in mails : m.by = r
    BY DEF ListInvitees, Proceed, Goto, Inv, Typed, RequestOK, StageOK, AnswerOK
  <1>2. \A q \in Req \ {r} : Unmoved(q)
    BY <1>1 DEF ListInvitees, Proceed, Goto, Inv, Typed, Unmoved
  <1>3. StageOK(r)' /\ ReadOK(r)' /\ AnswerOK(r)'
    BY <1>1 DEF Inv, RequestOK, StageOK, ReadOK, AnswerOK, Op
  <1>4. Onward
    BY <1>1, <1>2, OnwardQuietly
  <1>5. EarlierOK(r)'
    BY <1>1, <1>4, EarlierStays DEF FoundActive, Updates, Op
  <1> QED
    BY <1>1, <1>2, <1>3, <1>4, <1>5, LocksStay, MailsStay, Combine DEF RequestOK

(* Nobody else has locked a row that r may write, or there is no such row. *)
LEMMA NotBlocked ==
  ASSUME Inv, NEW r \in Req, ~Blocked(r), NEW q \in Req \ {r},
         NEW x \in holds[q], x \in Writes(req[r])
  PROVE  ~Present(x) /\ Op(r) # "invite" /\ x \in User
  BY DEF Inv, Typed, Blocked, Present

LEMMA WriteStep ==
  ASSUME Inv, Typed', NEW r \in Req, Write(r)
  PROVE  Inv'
  <1> DEFINE q == req[r]
  <1>1. /\ pc[r] = "write" /\ q \in Requests /\ holds[r] = {}
        /\ rows \in State /\ committed \in State /\ ~Blocked(r)
        /\ UNCHANGED <<req, accepted, committed, mails, earlier>>
        /\ holds' = [holds EXCEPT ![r] = Writes(q)] /\ rows' = Effect(q, rows)
        /\ ~\E m \in mails : m.by = r
    BY DEF Write, Inv, Typed, RequestOK, StageOK, AnswerOK
  <1>2. /\ holds'[r] = Writes(q)
        /\ \/ pc'[r] = "mail" /\ answer'[r] = answer[r]
           \/ pc'[r] = "abort" /\ answer'[r] = "not_found"
    BY <1>1 DEF Write, Proceed, Throw, Goto, Inv, Typed
  <1>3. \A p \in Req \ {r} : Unmoved(p)
    BY <1>1 DEF Write, Proceed, Throw, Goto, Inv, Typed, Unmoved
  <1>4. Onward
    BY <1>1, <1>3, OnwardQuietly
  <1>5. StageOK(r)' /\ ReadOK(r)' /\ AnswerOK(r)'
    <2>1. StageOK(r)'
      BY <1>1, <1>2 DEF StageOK, Op
    <2>2. ReadOK(r)'
      <3>1. ASSUME Op(r) = "respond"
            PROVE  (committed.of[req[r].by] # None \/ Removed(req[r].by))'
        <4>1. committed.of[q.by] # None \/ Removed(q.by)
          BY <1>1, <3>1 DEF Inv, RequestOK, ReadOK
        <4> QED
          BY <1>1, <4>1, RemovedStays, <1>4 DEF Removed, Op
      <3> QED
        BY <1>1, <1>2, <3>1 DEF ReadOK, Op
    <2> QED
      BY <1>1, <1>2, <2>1, <2>2 DEF AnswerOK
  <1>6. EarlierOK(r)'
    BY <1>1, <1>4, EarlierStays DEF FoundActive, Updates, Op
  <1>7. LocksOK'
    <2>1. \A u \in User : rows'.of[u] = Becomes(q, u, rows.of[u])
      BY <1>1, EffectRowwise
    <2>2. rows'.booking = IF q.op \in {"cancel", "patch"}
                          THEN StatusAfter(q, rows.booking) ELSE rows.booking
      BY <1>1, EffectRowwise
    <2>3. \A u \in User : u \notin Writes(q) => rows'.of[u] = rows.of[u]
      BY <1>1, <2>1, BecomesFacts
    <2>4. q.op = Op(r) /\ (Meeting \in Writes(q) <=> q.op \in {"cancel", "patch"})
      BY <1>1, WritesTyped DEF Op
    <2>5. ASSUME NEW p \in Req \ {r}, NEW x \in holds[p], x \in Writes(q)
          PROVE  /\ x \in User /\ x # Meeting
                 /\ rows'.of[x] = None /\ rows.of[x] = None /\ committed.of[x] = None
      <3>1. ~Present(x) /\ q.op # "invite" /\ x \in User
        BY <1>1, <2>4, <2>5, NotBlocked
      <3> QED
        BY <1>1, <2>1, <3>1, BecomesFacts DEF Present
    <2>6. ASSUME NEW u \in User, rows'.of[u] # committed'.of[u]
          PROVE  \E p \in Req : u \in holds'[p]
      BY <1>1, <1>2, <1>3, <2>3, <2>6 DEF Inv, LocksOK, Unmoved
    <2>7. rows'.booking # committed'.booking => \E p \in Req : Meeting \in holds'[p]
      BY <1>1, <1>2, <1>3, <2>2, <2>4 DEF Inv, LocksOK, Unmoved
    <2>8. ASSUME NEW p \in Req, NEW u \in holds'[p] \cap User
          PROVE  rows'.of[u] = Becomes(req'[p], u, committed'.of[u])
      <3>1. CASE p = r
        <4>1. CASE rows.of[u] = committed.of[u]
          BY <1>1, <2>1, <3>1, <4>1
        <4>2. CASE rows.of[u] # committed.of[u]
          BY <1>1, <1>2, <2>5, <2>8, <3>1, <4>2 DEF Inv, LocksOK
        <4> QED
          BY <4>1, <4>2
      <3>2. CASE p # r
        <4>1. u \in holds[p] /\ rows.of[u] = Becomes(req[p], u, committed.of[u])
          BY <1>1, <1>3, <2>8, <3>2 DEF Inv, LocksOK, Unmoved
        <4> QED
          BY <1>1, <2>3, <2>5, <3>2, <4>1
      <3> QED
        BY <3>1, <3>2
    <2>9. ASSUME NEW p \in Req, Meeting \in holds'[p]
          PROVE  rows'.booking = StatusAfter(req'[p], committed'.booking)
      <3>1. CASE p = r
        <4>1. ~\E n \in Req : Meeting \in holds[n]
          BY <1>1, <1>2, <2>5, <2>9, <3>1
        <4>2. rows.booking = committed.booking
          BY <4>1 DEF Inv, LocksOK
        <4> QED
          BY <1>1, <1>2, <2>2, <2>4, <2>9, <3>1, <4>2
      <3>2. CASE p # r
        <4>1. Meeting \in holds[p] /\ Meeting \notin Writes(q)
          BY <1>3, <2>5, <2>9, <3>2 DEF Unmoved
        <4> QED
          BY <1>1, <2>2, <2>4, <4>1 DEF Inv, LocksOK
      <3> QED
        BY <3>1, <3>2
    <2>10. ASSUME NEW p \in Req, NEW n \in Req, p # n, NEW x \in holds'[p] \cap holds'[n]
           PROVE  ~Present(x)'
      <3>1. CASE p # r /\ n # r
        <4>1. x \in holds[p] \cap holds[n] /\ ~Present(x) /\ x \in User
          BY <1>3, <2>10, <3>1, BookingsAreNotUsers DEF Inv, LocksOK, Unmoved, Present, Typed
        <4> QED
          BY <1>1, <2>3, <2>5, <3>1, <4>1 DEF Present
      <3>2. CASE p = r
        BY <1>1, <1>2, <1>3, <2>5, <2>10, <3>2 DEF Present, Unmoved
      <3>3. CASE n = r
        BY <1>1, <1>2, <1>3, <2>5, <2>10, <3>3 DEF Present, Unmoved
      <3> QED
        BY <3>1, <3>2, <3>3
    <2> QED
      BY <2>6, <2>7, <2>8, <2>9, <2>10 DEF LocksOK
  <1>8. MailsOK'
    BY <1>1, <1>3, MailsStay
  <1> QED
    BY <1>1, <1>3, <1>4, <1>5, <1>6, <1>7, <1>8, Combine DEF RequestOK

LEMMA MailStep ==
  ASSUME Inv, Typed', NEW r \in Req, SendMail(r) \/ AllMailed(r)
  PROVE  Inv'
  <1>1. /\ pc[r] = "mail" /\ req[r] \in Requests
        /\ UNCHANGED <<req, answer, accepted, holds, rows, committed, earlier>>
        /\ pc'[r] \in {"mail", "commit"}
        /\ pc'[r] = "commit" => Letters(r) \subseteq mails
        /\ mails \subseteq mails' /\ mails' \subseteq mails \cup Letters(r)
    BY DEF SendMail, AllMailed, Proceed, Goto, Inv, Typed, RequestOK, StageOK
  <1>2. \A q \in Req \ {r} : Unmoved(q)
    BY <1>1 DEF SendMail, AllMailed, Proceed, Goto, Inv, Typed, Unmoved
  <1>3. Onward
    BY <1>1, <1>2, OnwardQuietly
  <1>4. \A q \in Req : Letters(q)' = Letters(q)
    BY <1>1 DEF Letters, InvitationMails, AcceptedMails, CancelledMails, Op
  <1>5. StageOK(r)'
    BY <1>1 DEF Inv, RequestOK, StageOK, Op
  <1>6. ReadOK(r)'
    <2>1. ASSUME Op(r) = "respond"
          PROVE  (committed.of[req[r].by] # None \/ Removed(req[r].by))'
      <3>1. committed.of[req[r].by] # None \/ Removed(req[r].by)
        BY <1>1, <2>1 DEF Inv, RequestOK, ReadOK
      <3> QED
        BY <1>1, <1>3, <3>1, RemovedStays DEF Removed, Op
    <2> QED
      BY <1>1, <2>1 DEF Inv, RequestOK, StageOK, ReadOK, Op
  <1>7. AnswerOK(r)' /\ EarlierOK(r)'
    <2>1. AnswerOK(r)'
      BY <1>1, <1>4 DEF AnswerOK
    <2>2. EarlierOK(r)'
      BY <1>1, <1>3, EarlierStays DEF FoundActive, Updates, Op
    <2> QED
      BY <2>1, <2>2
  <1>8. LocksOK'
    BY <1>1, LocksStay
  <1>9. MailsOK' /\ \A m \in mails' \ mails : m.by = r
    BY <1>1, <1>4, LettersFacts DEF Inv, MailsOK
  <1> QED
    BY <1>2, <1>3, <1>5, <1>6, <1>7, <1>8, <1>9, Combine DEF RequestOK

LEMMA FailStep ==
  ASSUME Inv, Typed', NEW r \in Req, Fail(r) \/ Overlapped(r)
  PROVE  Inv'
  <1>1. /\ pc[r] \in {"read", "list", "write", "mail", "commit"} /\ pc'[r] = "abort"
        /\ answer'[r] = "error" \/ (answer'[r] = "conflict" /\ ~\E m \in mails : m.by = r)
        /\ UNCHANGED <<req, accepted, holds, rows, committed, mails, earlier>>
    BY DEF Fail, Overlapped, Throw, Goto, Inv, Typed, RequestOK, AnswerOK
  <1>2. \A q \in Req \ {r} : Unmoved(q)
    BY <1>1 DEF Fail, Overlapped, Throw, Goto, Inv, Typed, Unmoved
  <1>3. StageOK(r)' /\ ReadOK(r)' /\ AnswerOK(r)'
    BY <1>1 DEF Inv, RequestOK, StageOK, ReadOK, AnswerOK
  <1>4. Letters(r)' = Letters(r)
    BY <1>1 DEF Letters, InvitationMails, AcceptedMails, CancelledMails, Op
  <1>5. LocksOK' /\ MailsOK' /\ Onward
    BY <1>1, <1>2, <1>4, LocksStay, MailsStay, OnwardQuietly
  <1>6. EarlierOK(r)'
    BY <1>1, <1>5, EarlierStays DEF FoundActive, Updates, Op
  <1> QED
    BY <1>1, <1>2, <1>3, <1>5, <1>6, Combine DEF RequestOK

(* What COMMIT and ROLLBACK make of the rows: those that r has locked *)
LEMMA MergeFacts ==
  ASSUME NEW r \in Req, NEW s \in State, NEW t \in State
  PROVE  /\ Merge(r, s, t).booking = IF Meeting \in holds[r] THEN t.booking ELSE s.booking
         /\ \A u \in User : Merge(r, s, t).of[u] = IF u \in holds[r] THEN t.of[u] ELSE s.of[u]
  BY DEF Merge, State

LEMMA CommitEffect ==
  ASSUME Inv, NEW r \in Req, Commit(r)
  PROVE  committed' = IF holds[r] = {} THEN committed ELSE Effect(req[r], committed)
  <1> DEFINE q == req[r]
  <1>1. /\ q \in Requests /\ holds[r] \in {{}, Writes(q)} /\ rows \in State /\ committed \in State
        /\ committed' = Merge(r, committed, rows)
    BY DEF Commit, Inv, Typed, RequestOK, StageOK
  <1>2. CASE holds[r] = {}
    BY <1>1, <1>2 DEF Merge, State
  <1>3. CASE holds[r] = Writes(q)
    <2>1. /\ Effect(q, committed) \in State
          /\ Effect(q, committed).booking =
               IF q.op \in {"cancel", "patch"}
               THEN StatusAfter(q, committed.booking) ELSE committed.booking
          /\ \A u \in User : Effect(q, committed).of[u] = Becomes(q, u, committed.of[u])
      BY <1>1, EffectRowwise
    <2>2. committed'.booking = Effect(q, committed).booking
      BY <1>1, <1>3, <2>1, MergeFacts, WritesTyped DEF Inv, LocksOK
    <2>3. \A u \in User : committed'.of[u] = Effect(q, committed).of[u]
      BY <1>1, <1>3, <2>1, MergeFacts, BecomesFacts DEF Inv, LocksOK
    <2>4. committed' \in State
      BY <1>1 DEF Merge, State
    <2>5. committed' = Effect(q, committed)
      BY <2>1, <2>2, <2>3, <2>4 DEF State
    <2>6. holds[r] = {} => Effect(q, committed) = committed
      BY <1>1, <1>2, <2>5
    <2> QED
      BY <2>5, <2>6
  <1> QED
    BY <1>1, <1>2, <1>3

LEMMA CommitStep ==
  ASSUME Inv, Typed', NEW r \in Req, Commit(r)
  PROVE  Inv'
  <1> DEFINE q == req[r]
  <1>1. /\ pc[r] = "commit" /\ q \in Requests /\ holds[r] \in {{}, Writes(q)}
        /\ rows \in State /\ committed \in State
        /\ UNCHANGED <<req, accepted, rows, mails, earlier>>
        /\ pc'[r] = "done" /\ answer'[r] \in {"ok", "error"} /\ holds'[r] = {}
    BY DEF Commit, Release, Goto, Inv, Typed, RequestOK, StageOK
  <1>2. /\ committed'.booking = IF Meeting \in holds[r] THEN rows.booking ELSE committed.booking
        /\ \A u \in User : committed'.of[u] = IF u \in holds[r] THEN rows.of[u] ELSE committed.of[u]
    BY <1>1, MergeFacts DEF Commit
  <1>3. \A p \in Req \ {r} : Unmoved(p)
    BY <1>1 DEF Commit, Release, Goto, Inv, Typed, Unmoved
  <1>4. Onward
    <2>1. ASSUME NEW a \in Req, Stands(a), Cancels(a), committed.booking = "cancelled",
                 committed'.booking # "cancelled"
          PROVE  RevivedBeside(a)'
      <3>1. Meeting \in holds[r] /\ StatusAfter(q, "cancelled") # "cancelled"
        BY <1>2, <2>1 DEF Inv, LocksOK
      <3>2. Revives(r) /\ FoundActive(r)
        BY <1>1, <3>1, RequestTyped, WritesTyped
        DEF StatusAfter, Revives, FoundActive, Updates, Op
      <3>3. a # r /\ r \notin earlier[a]
        BY <1>1, <2>1, <3>2 DEF Revives, Cancels, Inv, Typed, RequestOK, EarlierOK
      <3>4. CASE a \notin earlier[r]
        BY <1>1, <1>3, <3>2, <3>3, <3>4 DEF RevivedBeside, Revives, Op, Unmoved
      <3>5. CASE a \in earlier[r]
        <4>1. RevivedBeside(a)
          BY <1>1, <2>1, <3>2, <3>5 DEF Inv, RequestOK, EarlierOK, Stands
        <4> QED
          BY <1>1, <1>3, <3>3, <4>1 DEF RevivedBeside, Revives, Op, Unmoved
      <3> QED
        BY <3>4, <3>5
    <2>2. ASSUME NEW u \in User, committed.of[u] # None, committed'.of[u] = None
          PROVE  Removed(u)'
      <3>1. rows.of[u] = None /\ rows.of[u] = Becomes(q, u, committed.of[u])
        BY <1>1, <1>2, <2>2 DEF Inv, LocksOK
      <3>2. q.op = "remove" /\ q.user = u
        BY <1>1, <2>2, <3>1, BecomesFacts
      <3> QED
        BY <1>1, <3>2 DEF Removed, Op
    <2> QED
      BY <1>1, <1>3, <2>1, <2>2 DEF Onward, Unmoved
  <1>5. StageOK(r)' /\ ReadOK(r)' /\ EarlierOK(r)'
    <2>1. StageOK(r)' /\ ReadOK(r)'
      BY <1>1 DEF Inv, RequestOK, StageOK, ReadOK, Op
    <2>2. EarlierOK(r)'
      BY <1>1, <1>4, EarlierStays DEF FoundActive, Updates, Op
    <2> QED
      BY <2>1, <2>2
  <1>6. AnswerOK(r)'
    <2>1. Letters(r)' = Letters(r) /\ Letters(r) \subseteq mails
      BY <1>1 DEF Letters, InvitationMails, AcceptedMails, CancelledMails, Op,
                  Inv, RequestOK, AnswerOK
    <2>2. ASSUME Cancels(r) PROVE committed'.booking = "cancelled" \/ RevivedBeside(r)'
      <3>1. CASE holds[r] = Writes(q)
        <4>1. Meeting \in holds[r] /\ StatusAfter(q, committed.booking) = "cancelled"
          BY <1>1, <2>2, <3>1, WritesTyped, NoneIsNoStatus DEF Cancels, StatusAfter, Op
        <4> QED
          BY <1>2, <4>1 DEF Inv, LocksOK
      <3>2. CASE holds[r] # Writes(q)
        <4>1. committed.booking = "cancelled" \/ RevivedBeside(r)
          BY <1>1, <3>2 DEF Inv, RequestOK, ReadOK
        <4>2. RevivedBeside(r) => RevivedBeside(r)'
          BY <1>1, <1>4, RevivedStays
        <4> QED
          BY <1>1, <1>4, <2>2, <4>1, <4>2 DEF Onward, Stands
      <3> QED
        BY <3>1, <3>2
    <2> QED
      BY <1>1, <2>1, <2>2 DEF AnswerOK, Cancels, Op
  <1>7. LocksOK'
    <2>1. ASSUME NEW p \in Req \ {r}, NEW x \in holds[p] \cap holds[r]
          PROVE  x \in User /\ rows.of[x] = None /\ committed.of[x] = None
      BY DEF Inv, LocksOK, Present, Typed
    <2>2. \A u \in User : rows.of[u] # committed'.of[u] => \E p \in Req : u \in holds'[p]
      BY <1>2, <1>3 DEF Inv, LocksOK, Unmoved
    <2>3. rows.booking # committed'.booking => \E p \in Req : Meeting \in holds'[p]
      BY <1>2, <1>3 DEF Inv, LocksOK, Unmoved
    <2>4. ASSUME NEW p \in Req, NEW u \in holds'[p] \cap User
          PROVE  rows.of[u] = Becomes(req[p], u, committed'.of[u])
      <3>1. p # r /\ u \in holds[p] /\ rows.of[u] = Becomes(req[p], u, committed.of[u])
        BY <1>1, <1>3 DEF Inv, LocksOK, Unmoved
      <3> QED
        BY <1>2, <2>1, <3>1
    <2>5. ASSUME NEW p \in Req, Meeting \in holds'[p]
          PROVE  rows.booking = StatusAfter(req[p], committed'.booking)
      <3>1. p # r /\ Meeting \in holds[p]
        BY <1>1, <1>3, <2>5 DEF Unmoved
      <3>2. Meeting \notin holds[r]
        BY <2>1, <3>1, BookingsAreNotUsers
      <3> QED
        BY <1>2, <3>1, <3>2 DEF Inv, LocksOK
    <2>6. ASSUME NEW p \in Req, NEW n \in Req, p # n, NEW x \in holds'[p] \cap holds'[n]
          PROVE  ~Present(x)'
      <3>1. p # r /\ n # r /\ x \in holds[p] \cap holds[n]
        BY <1>1, <1>3, <2>6 DEF Unmoved
      <3>2. ~Present(x) /\ x \in User
        BY <2>6, <3>1 DEF Inv, LocksOK, Typed, Present
      <3> QED
        BY <1>1, <1>2, <3>2 DEF Present
    <2> QED
      BY <1>1, <2>2, <2>3, <2>4, <2>5, <2>6 DEF LocksOK
  <1>8. MailsOK'
    BY <1>1 DEF Inv, MailsOK, Letters, InvitationMails, AcceptedMails, CancelledMails, Op
  <1> QED
    BY <1>1, <1>3, <1>4, <1>5, <1>6, <1>7, <1>8, Combine DEF RequestOK

LEMMA RollbackStep ==
  ASSUME Inv, Typed', NEW r \in Req, Rollback(r)
  PROVE  Inv'
  <1>1. /\ pc[r] = "abort" /\ req[r] \in Requests
        /\ rows \in State /\ committed \in State
        /\ UNCHANGED <<req, answer, accepted, committed, mails, earlier>>
        /\ pc'[r] = "done" /\ holds'[r] = {}
    BY DEF Rollback, Release, Goto, Inv, Typed, RequestOK, StageOK
  <1>2. /\ rows'.booking = IF Meeting \in holds[r] THEN committed.booking ELSE rows.booking
        /\ \A u \in User : rows'.of[u] = IF u \in holds[r] THEN committed.of[u] ELSE rows.of[u]
    BY <1>1, MergeFacts DEF Rollback
  <1>3. \A p \in Req \ {r} : Unmoved(p)
    BY <1>1 DEF Rollback, Release, Goto, Inv, Typed, Unmoved
  <1>4. Onward
    BY <1>1, <1>3, OnwardQuietly
  <1>5. StageOK(r)' /\ ReadOK(r)' /\ AnswerOK(r)' /\ EarlierOK(r)'
    <2>1. StageOK(r)' /\ ReadOK(r)' /\ AnswerOK(r)'
      BY <1>1 DEF Inv, RequestOK, StageOK, ReadOK, AnswerOK, Op
    <2>2. EarlierOK(r)'
      BY <1>1, <1>4, EarlierStays DEF FoundActive, Updates, Op
    <2> QED
      BY <2>1, <2>2
  <1>6. LocksOK'
    <2>1. ASSUME NEW p \in Req \ {r}, NEW x \in holds[p] \cap holds[r]
          PROVE  x \in User /\ rows.of[x] = None /\ committed.of[x] = None
      BY DEF Inv, LocksOK, Present, Typed
    <2>2. \A u \in User : rows'.of[u] # committed.of[u] => \E p \in Req : u \in holds'[p]
      BY <1>2, <1>3 DEF Inv, LocksOK, Unmoved
    <2>3. rows'.booking # committed.booking => \E p \in Req : Meeting \in holds'[p]
      BY <1>2, <1>3 DEF Inv, LocksOK, Unmoved
    <2>4. ASSUME NEW p \in Req, NEW u \in holds'[p] \cap User
          PROVE  rows'.of[u] = Becomes(req[p], u, committed.of[u])
      <3>1. p # r /\ u \in holds[p] /\ rows.of[u] = Becomes(req[p], u, committed.of[u])
        BY <1>1, <1>3 DEF Inv, LocksOK, Unmoved
      <3> QED
        BY <1>2, <2>1, <3>1
    <2>5. ASSUME NEW p \in Req, Meeting \in holds'[p]
          PROVE  rows'.booking = StatusAfter(req[p], committed.booking)
      <3>1. p # r /\ Meeting \in holds[p]
        BY <1>1, <1>3, <2>5 DEF Unmoved
      <3>2. Meeting \notin holds[r]
        BY <2>1, <3>1, BookingsAreNotUsers
      <3> QED
        BY <1>2, <3>1, <3>2 DEF Inv, LocksOK
    <2>6. ASSUME NEW p \in Req, NEW n \in Req, p # n, NEW x \in holds'[p] \cap holds'[n]
          PROVE  ~Present(x)'
      <3>1. p # r /\ n # r /\ x \in holds[p] \cap holds[n]
        BY <1>1, <1>3, <2>6 DEF Unmoved
      <3>2. ~Present(x) /\ x \in User
        BY <2>6, <3>1 DEF Inv, LocksOK, Typed, Present
      <3> QED
        BY <1>1, <1>2, <3>2 DEF Present
    <2> QED
      BY <1>1, <2>2, <2>3, <2>4, <2>5, <2>6 DEF LocksOK
  <1>7. MailsOK'
    BY <1>1 DEF Inv, MailsOK, Letters, InvitationMails, AcceptedMails, CancelledMails, Op
  <1> QED
    BY <1>1, <1>3, <1>4, <1>5, <1>6, <1>7, Combine DEF RequestOK

LEMMA NextInv == Inv /\ [Next]_vars => Inv'
  <1> SUFFICES ASSUME Inv, [Next]_vars PROVE Inv'
    OBVIOUS
  <1>1. Typed'
    BY TypedStep
  <1>2. ASSUME NEW r \in Req, Step(r) PROVE Inv'
    BY <1>1, <1>2, ReadStep, ListInviteesStep, WriteStep, MailStep, CommitStep, RollbackStep,
       FailStep DEF Step
  <1>3. ASSUME NEW r \in Req, Fail(r) PROVE Inv'
    BY <1>1, <1>3, FailStep
  <1>4. ASSUME NEW r \in Req, NEW q \in Requests, Arrive(r, q) \/ ArriveAtOwned(r, q)
        PROVE  Inv'
    BY <1>1, <1>4, ArriveStep
  <1>5. CASE Begin \/ UNCHANGED vars
    <2>1. UNCHANGED <<pc, req, answer, accepted, holds, rows, committed, mails, earlier>>
      BY <1>5 DEF Begin, vars
    <2>2. LocksOK' /\ MailsOK'
      BY <2>1 DEF Inv, LocksOK, MailsOK, Present, Letters, InvitationMails, AcceptedMails,
                  CancelledMails, Op
    <2>3. \A r \in Req : Unmoved(r)
      BY <2>1 DEF Unmoved
    <2>4. Onward
      BY <2>1 DEF Onward
    <2> QED
      BY <1>1, <2>1, <2>2, <2>3, <2>4, OthersOK DEF Inv
  <1> QED
    BY <1>2, <1>3, <1>4, <1>5 DEF Next

LEMMA InvHolds == Spec => []Inv
  BY InitInv, NextInv, PTL DEF Spec
-----------------------------------------------------------------------------
(* Whatever is in a table by a transaction that is under way is locked by  *)
(* it: a row has two versions only as long as somebody holds it.           *)
THEOREM TypesAndLocks == Spec => []TypeOK
  <1>1. Inv => TypeOK
    BY DEF Inv, Typed, LocksOK, TypeOK
  <1> QED
    BY <1>1, InvHolds, PTL

\* A request takes effect in one step, on what is committed at that moment:
\* whatever was invited, removed or answered between its reads and its COMMIT
\* (invitations.service.ts:26-92, 101-123, 131-186), it is a serial history.
EffectAtCommit ==
  [][/\ committed' # committed => \E r \in Req : Commit(r)
     /\ \A r \in Req : Commit(r) =>
          committed' = IF holds[r] = {} THEN committed
                       ELSE Effect(req[r], committed)]_vars

(* The invitations and the booking's status change at a COMMIT only, and   *)
(* then by what the request's statement does to a committed state: neither *)
(* what others do after its reads nor a rolled back write of theirs shows. *)
THEOREM SerialAtCommit == Spec => EffectAtCommit
  <1>1. ASSUME Inv, [Next]_vars
        PROVE  /\ committed' # committed => \E r \in Req : Commit(r)
               /\ \A r \in Req : Commit(r) =>
                    committed' = IF holds[r] = {} THEN committed
                                 ELSE Effect(req[r], committed)
    <2>1. committed' # committed => \E r \in Req : Commit(r)
      BY <1>1 DEF Next, Step, vars, Arrive, ArriveAtOwned, ReadAsOwner, ReadAsInvitee,
                  ReadBooking, ListInvitees, Overlapped, Write, SendMail, AllMailed, Rollback, Fail, Begin
    <2> QED
      BY <1>1, <2>1, CommitEffect
  <1> QED
    BY <1>1, InvHolds, PTL DEF Spec, EffectAtCommit

(* Who is told that he has accepted, without an invitation, has had one    *)
(* when he was asked for it, and a removal has been committed since.       *)
THEOREM NeverInVainOtherwise == Spec => []InVainOnlyAfterRemoval
  <1>1. ASSUME Inv, NEW r \in Req, pc[r] \in {"mail", "commit"}, Op(r) = "respond",
               rows.of[req[r].by] = None
        PROVE  Removed(req[r].by)
    <2> DEFINE q == req[r]
    <2>1. q \in Requests /\ q.op = "respond" /\ q.by \in User /\ holds[r] = {q.by}
      BY <1>1, RequestTyped DEF Inv, RequestOK, StageOK, ReadOK, Writes, Op
    <2>2. rows.of[q.by] = Becomes(q, q.by, committed.of[q.by])
      BY <1>1, <2>1 DEF Inv, LocksOK
    <2>3. committed.of[q.by] = None
      BY <1>1, <2>1, <2>2, BecomesFacts
    <2> QED
      BY <1>1, <2>3 DEF Inv, RequestOK, ReadOK
  <1>2. Inv => InVainOnlyAfterRemoval
    BY <1>1 DEF InVainOnlyAfterRemoval, Removed
  <1> QED
    BY <1>2, InvHolds, PTL

(* Success is answered with every mail handed over, and a request that has *)
(* written to anybody is answered with success or an error.                *)
THEOREM AnswersMatchMails == Spec => []MailsMatchAnswers
  <1>1. Inv => MailsMatchAnswers
    BY DEF Inv, RequestOK, AnswerOK, MailsMatchAnswers
  <1> QED
    BY <1>1, InvHolds, PTL

(* A cancellation that arrives after another was answered "ok" finds the   *)
(* booking cancelled and writes to nobody, unless a PATCH that ran at the  *)
(* same time as the first has brought the booking back since: the one      *)
(* PATCH that found it still active is enough for all the later ones.      *)
THEOREM OneNoticeInSequence == Spec => []ToldTwiceOnlyAtOnce
  <1>1. ASSUME Inv, NEW m \in mails, NEW n \in mails, m.kind = "cancelled", n.kind = "cancelled",
               answer[m.by] = "ok", m.by \in earlier[n.by]
        PROVE  RevivedBeside(m.by)
    <2>1. /\ m.by \in Req /\ m \in Letters(m.by) /\ n.by \in Req /\ n \in Letters(n.by)
      BY <1>1 DEF Inv, MailsOK
    <2>2. req[m.by] \in Requests /\ req[n.by] \in Requests
      BY <1>1, <2>1 DEF Inv, RequestOK, StageOK, AnswerOK
    <2>3. Op(m.by) = "cancel" /\ Op(n.by) = "cancel" /\ n.to \in accepted[n.by]
      BY <1>1, <2>1, <2>2, LettersFacts
    <2>4. Cancels(m.by) /\ FoundActive(n.by)
      BY <2>3 DEF Cancels, FoundActive, Updates
    <2> QED
      BY <1>1, <2>1, <2>4 DEF Inv, RequestOK, EarlierOK
  <1>2. Inv => ToldTwiceOnlyAtOnce
    BY <1>1 DEF ToldTwiceOnlyAtOnce
  <1> QED
    BY <1>2, InvHolds, PTL

(* Whoever has accepted and does not hear of the cancellation accepted too *)
(* late for it, or it was PATCH that cancelled.                            *)
THEOREM OnlyTheLateAreMisled == Spec => MisledOnlyIfLate
  <1>1. ASSUME Inv, [Next]_vars, NEW u \in User, Misled(u)', ~Misled(u)
        PROVE  \E r \in Req : /\ Commit(r)
                              /\ \/ Op(r) = "respond" /\ req[r].by = u
                                 \/ Op(r) = "cancel" /\ u \notin accepted[r]
                                 \/ Op(r) = "patch" /\ Cancels(r)
    <2>1. mails \subseteq mails'
      BY <1>1 DEF Next, Step, vars, Arrive, ArriveAtOwned, ReadAsOwner, ReadAsInvitee,
                  ReadBooking, ListInvitees, Overlapped, Write, SendMail, AllMailed, Commit, Rollback,
                  Fail, Begin
    <2>2. ~Told(u) /\ committed' # committed
      BY <1>1, <2>1 DEF Misled, Told
    <2>3. PICK r \in Req : Commit(r)
      BY <1>1, <2>2 DEF Next, Step, vars, Arrive, ArriveAtOwned, ReadAsOwner, ReadAsInvitee,
                  ReadBooking, ListInvitees, Overlapped, Write, SendMail, AllMailed, Rollback, Fail, Begin
    <2> DEFINE q == req[r]
    <2>4. /\ q \in Requests /\ committed \in State /\ pc[r] = "commit"
          /\ committed' = Effect(q, committed) /\ holds[r] = Writes(q)
      BY <2>2, <2>3, <1>1, CommitEffect DEF Commit, Inv, Typed, RequestOK, StageOK
    <2>5. /\ committed'.booking =
               IF q.op \in {"cancel", "patch"}
               THEN StatusAfter(q, committed.booking) ELSE committed.booking
          /\ committed'.of[u] = Becomes(q, u, committed.of[u])
      BY <2>4, EffectRowwise
    <2>6. CASE committed.booking # "cancelled"
      <3>1. Op(r) = "cancel" \/ (Op(r) = "patch" /\ Cancels(r))
        BY <1>1, <2>5, <2>6, RequestTyped DEF Misled, Op, StatusAfter, Cancels
      <3>2. ASSUME Op(r) = "cancel", u \in accepted[r] PROVE FALSE
        <4>1. Mail("cancelled", u, r) \in mails
          BY <1>1, <2>4, <3>2, LettersFacts DEF Inv, RequestOK, AnswerOK
        <4> QED
          BY <2>2, <4>1 DEF Told, Mail
      <3> QED
        BY <2>3, <3>1, <3>2
    <2>7. CASE committed.booking = "cancelled"
      <3>1. committed'.of[u] = "accepted" /\ committed.of[u] # "accepted"
        BY <1>1, <2>2, <2>7 DEF Misled
      <3> QED
        <4>1. Becomes(q, u, committed.of[u]) = "accepted"
          BY <2>5, <3>1
        <4>2. q.op = "respond" /\ q.by = u
          BY <2>4, <3>1, <4>1, BecomesFacts
        <4> QED
          BY <2>3, <4>2 DEF Op
    <2> QED
      BY <2>6, <2>7
  <1>2. ASSUME Inv, [Next]_vars
        PROVE  \A u \in User : Misled(u)' /\ ~Misled(u) =>
                 \E r \in Req : /\ Commit(r)
                                /\ \/ Op(r) = "respond" /\ req[r].by = u
                                   \/ Op(r) = "cancel" /\ u \notin accepted[r]
                                   \/ Op(r) = "patch" /\ Cancels(r)
    BY <1>1, <1>2
  <1> QED
    BY <1>2, InvHolds, PTL DEF Spec, MisledOnlyIfLate
-----------------------------------------------------------------------------
(* The guest list.  A request keeps what it was found to have: the right   *)
(* to do it, and a removal the invitation, which nobody else can remove as *)
(* long as it is locked.                                                   *)

Granted(r) ==
  /\ pc[r] = "idle" => req[r] = None
  /\ pc[r] \in {"write", "mail"} => Writes(req[r]) # {}
  /\ pc[r] \notin {"idle", "done"} /\ Updates(r) =>
       req[r].id = Meeting /\ req[r].by \in Admin \cup {Owner}
  /\ pc[r] \in {"write", "mail", "commit"} /\ Op(r) = "remove" =>
       req[r].id = Meeting /\ req[r].by = Owner
  /\ pc[r] \in {"mail", "commit"} /\ Op(r) = "remove" => committed.of[req[r].user] # None
  /\ pc[r] = "abort" => answer[r] \in {"not_found", "forbidden", "bad_request", "conflict", "error"}

ListInv == Inv /\ \A r \in Req : Granted(r)

\* A step that r takes
Acts(r) == Step(r) \/ Fail(r) \/ \E q \in Requests : Arrive(r, q) \/ ArriveAtOwned(r, q)

LEMMA OthersUnmoved ==
  ASSUME Inv, NEW r \in Req, Acts(r), NEW p \in Req \ {r}
  PROVE  Unmoved(p)
  <1> USE DEF Inv, Typed, Unmoved, Throw, Refuse, Proceed, Goto, Release
  <1>1. CASE \E q \in Requests : Arrive(r, q) \/ ArriveAtOwned(r, q)
    BY <1>1 DEF Arrive, ArriveAtOwned
  <1>2. CASE ReadAsOwner(r) \/ ReadAsInvitee(r) \/ ReadBooking(r) \/ ListInvitees(r)
    BY <1>2 DEF ReadAsOwner, ReadAsInvitee, ReadBooking, ListInvitees
  <1>3. CASE Write(r) \/ SendMail(r) \/ AllMailed(r)
    BY <1>3 DEF Write, SendMail, AllMailed
  <1>4. CASE Commit(r) \/ Rollback(r) \/ Fail(r) \/ Overlapped(r)
    BY <1>4 DEF Commit, Rollback, Fail, Overlapped
  <1> QED
    BY <1>1, <1>2, <1>3, <1>4 DEF Acts, Step

(* The statement of a removal finds the row as it is committed. *)
LEMMA RemovalFindsCommitted ==
  ASSUME Inv, NEW r \in Req, Write(r), Op(r) = "remove"
  PROVE  /\ req[r].user \in User
         /\ rows.of[req[r].user] = committed.of[req[r].user]
  <1> DEFINE u == req[r].user
  <1>1. /\ req[r] \in Requests /\ holds[r] = {} /\ ~Blocked(r)
        /\ u \in User /\ u \in Writes(req[r])
    BY RequestTyped DEF Write, Inv, RequestOK, StageOK, Writes, Op
  <1>2. ASSUME rows.of[u] # committed.of[u] PROVE FALSE
    <2>1. PICK p \in Req \ {r} : u \in holds[p]
      BY <1>1, <1>2 DEF Inv, LocksOK
    <2>2. ~Present(u)
      BY <1>1, <2>1, NotBlocked
    <2> QED
      BY <1>2, <2>2 DEF Present
  <1> QED
    BY <1>1, <1>2

(* An invitation locked by a removal that has found it stays. *)
LEMMA LockedStays ==
  ASSUME ListInv, NEW r \in Req, Acts(r), NEW p \in Req \ {r},
         pc[p] \in {"mail", "commit"}, Op(p) = "remove"
  PROVE  committed'.of[req[p].user] # None
  <1> DEFINE u == req[p].user
  <1>1. /\ req[p] \in Requests /\ u \in User /\ u \in holds[p] /\ committed.of[u] # None
        /\ rows \in State /\ committed \in State
    <2>1. req[p] \in Requests /\ holds[p] = Writes(req[p])
      BY DEF ListInv, Inv, RequestOK, StageOK, ReadOK
    <2> QED
      BY <2>1, RequestTyped DEF ListInv, Inv, Typed, Granted, Writes, Op
  <1>2. CASE Commit(r)
    <2>1. u \notin holds[r]
      BY <1>1 DEF ListInv, Inv, LocksOK, Present
    <2> QED
      BY <1>1, <1>2, <2>1, MergeFacts DEF Commit
  <1>3. CASE ~Commit(r)
    <2>1. committed' = committed
      BY <1>3 DEF Acts, Step, Arrive, ArriveAtOwned, ReadAsOwner, ReadAsInvitee, ReadBooking,
                  ListInvitees, Overlapped, Write, SendMail, AllMailed, Rollback, Fail
    <2> QED
      BY <1>1, <2>1
  <1> QED
    BY <1>2, <1>3

LEMMA OthersGranted ==
  ASSUME ListInv, NEW r \in Req, Acts(r), NEW p \in Req \ {r}
  PROVE  Granted(p)'
  <1>1. Unmoved(p)
    BY OthersUnmoved DEF ListInv
  <1>2. pc[p] \in {"mail", "commit"} /\ Op(p) = "remove" => committed'.of[req[p].user] # None
    BY LockedStays
  <1> QED
    BY <1>1, <1>2 DEF ListInv, Granted, Unmoved, Op, Updates

LEMMA OwnGranted ==
  ASSUME ListInv, NEW r \in Req, Acts(r)
  PROVE  Granted(r)'
  <1> USE DEF ListInv, Inv, Typed, Granted, Throw, Refuse, Proceed, Goto, Release, Op, Updates
  <1>1. CASE \E q \in Requests : Arrive(r, q) \/ ArriveAtOwned(r, q)
    BY <1>1 DEF Arrive, ArriveAtOwned
  <1>2. CASE ReadAsOwner(r) \/ ReadAsInvitee(r) \/ ReadBooking(r)
    BY <1>2 DEF ReadAsOwner, ReadAsInvitee, ReadBooking, Writes
  <1>3. CASE ListInvitees(r)
    BY <1>3 DEF ListInvitees, RequestOK, StageOK, Writes
  <1>4. CASE Write(r)
    <2>1. Op(r) = "remove" => rows.of[req[r].user] = committed.of[req[r].user]
      BY <1>4, RemovalFindsCommitted
    <2>2. /\ UNCHANGED <<req, committed>> /\ pc[r] = "write"
          /\ \/ pc'[r] = "abort" /\ answer'[r] = "not_found"
             \/ /\ pc'[r] = "mail"
                /\ ~(req[r].op = "remove" /\ rows.of[req[r].user] = None)
      BY <1>4 DEF Write
    <2> QED
      BY <2>1, <2>2
  <1>5. CASE SendMail(r) \/ AllMailed(r)
    BY <1>5 DEF SendMail, AllMailed
  <1>6. CASE Commit(r) \/ Rollback(r) \/ Fail(r) \/ Overlapped(r)
    BY <1>6 DEF Commit, Rollback, Fail, Overlapped
  <1> QED
    BY <1>1, <1>2, <1>3, <1>4, <1>5, <1>6 DEF Acts, Step

LEMMA NextListInv == ListInv /\ [Next]_vars => ListInv'
  <1> SUFFICES ASSUME ListInv, [Next]_vars PROVE ListInv'
    OBVIOUS
  <1>1. Inv'
    BY NextInv DEF ListInv
  <1>2. CASE \E r \in Req : Acts(r)
    BY <1>1, <1>2, OthersGranted, OwnGranted DEF ListInv
  <1>3. CASE Begin \/ UNCHANGED vars
    BY <1>1, <1>3 DEF Begin, vars, ListInv, Granted, Op, Updates
  <1> QED
    BY <1>2, <1>3 DEF Next, Acts

LEMMA InitListInv == Init => ListInv
  BY InitInv DEF Init, ListInv, Granted

Outcome == [r \in Req |-> IF pc[r] = "done" THEN answer[r] ELSE None]
Verdicts == [r \in Req |-> Verdict(r)]

(* What a step of r shows of it *)
LEMMA Shown ==
  ASSUME Inv, NEW r \in Req, Acts(r)
  PROVE  /\ Verdicts' = [Verdicts EXCEPT ![r] = Verdict(r)']
         /\ Outcome' = [Outcome EXCEPT ![r] = IF pc'[r] = "done" THEN answer'[r] ELSE None]
  <1>1. ASSUME NEW p \in Req \ {r} PROVE Unmoved(p)
    BY <1>1, OthersUnmoved
  <1>2. ASSUME NEW p \in Req \ {r} PROVE Verdict(p)' = Verdict(p)
    BY <1>1 DEF Unmoved, Verdict, Op
  <1> QED
    BY <1>1, <1>2 DEF Verdicts, Outcome, Unmoved

(* A step inside *)
LEMMA Quiet ==
  ASSUME Inv, NEW r \in Req, Acts(r), pc[r] # "done", pc'[r] # "done",
         Verdict(r)' = Verdict(r), UNCHANGED <<committed, started, req>>
  PROVE  UNCHANGED <<committed, started, req, Verdicts, Outcome>>
  BY Shown DEF Verdicts, Outcome

(* A step that finds what is to be found *)
LEMMA Judged ==
  ASSUME Inv, NEW r \in Req, Acts(r), pc[r] \notin {"idle", "done"}, pc'[r] # "done",
         Verdict(r) = None, UNCHANGED <<committed, started, req>>,
         \/ Verdict(r)' = "admitted" /\ List!Reasons(req[r]) = {}
         \/ /\ Verdict(r)' = "noticed" /\ List!Reasons(req[r]) = {}
            /\ Effect(req[r], committed) = committed
         \/ Verdict(r)' \in List!Reasons(req[r])
  PROVE  List!Next
  <1>1. req[r] # None
    BY RequestTyped DEF Inv, RequestOK, StageOK
  <1>2. /\ Verdicts' = [Verdicts EXCEPT ![r] = Verdict(r)'] /\ Outcome' = Outcome
        /\ Verdicts[r] = None /\ Outcome[r] = None
    BY Shown DEF Verdicts, Outcome
  <1>3. List!Judge(r)
    BY <1>1, <1>2 DEF List!Judge, List!Pending, Outcome, Verdicts
  <1> QED
    BY <1>3 DEF List!Next

LEMMA ArriveList ==
  ASSUME ListInv, NEW r \in Req, NEW q \in Requests, Arrive(r, q) \/ ArriveAtOwned(r, q)
  PROVE  List!Next
  <1>1. /\ pc[r] = "idle" /\ req[r] = None /\ UNCHANGED <<committed, started>>
        /\ req' = [req EXCEPT ![r] = q]
        /\ \/ pc'[r] = "read"
           \/ /\ pc'[r] = "done"
              /\ \/ answer'[r] = "not_found" /\ q.id # Meeting
                 \/ /\ answer'[r] = "forbidden" /\ q.op \in {"cancel", "patch"}
                    /\ q.by \notin Admin \cup {Owner}
    BY DEF ListInv, Granted, Inv, Typed, Arrive, ArriveAtOwned, Refuse, Proceed, Goto
  <1>2. /\ Verdicts' = [Verdicts EXCEPT ![r] = Verdict(r)']
        /\ Outcome' = [Outcome EXCEPT ![r] = IF pc'[r] = "done" THEN answer'[r] ELSE None]
    BY Shown DEF ListInv, Acts
  <1>3. Verdicts' = Verdicts
    BY <1>1, <1>2 DEF Verdicts, Verdict
  <1>4. CASE pc'[r] = "read"
    <2>1. Outcome' = Outcome
      BY <1>1, <1>2, <1>4 DEF Outcome
    <2>2. List!Ask(r)
      BY <1>1, <1>3, <2>1 DEF List!Ask, Outcome, Verdicts
    <2> QED
      BY <2>2 DEF List!Next
  <1>5. CASE pc'[r] = "done"
    <2>1. Outcome' = [Outcome EXCEPT ![r] = answer'[r]]
      BY <1>2, <1>5
    <2>2. answer'[r] \in List!Reasons(q)
      BY <1>1, <1>5 DEF List!Reasons, List!Refusals, List!Missing, List!Forbidden
    <2>3. List!AskAndRefuse(r)
      BY <1>1, <1>3, <2>1, <2>2 DEF List!AskAndRefuse, Outcome, Verdicts
    <2> QED
      BY <2>3 DEF List!Next
  <1> QED
    BY <1>1, <1>4, <1>5

LEMMA ReadAsOwnerList ==
  ASSUME ListInv, NEW r \in Req, ReadAsOwner(r)
  PROVE  \/ List!Next
         \/ UNCHANGED <<committed, started, req, Verdicts, Outcome>>
  <1> DEFINE q == req[r]
  <1>1. /\ pc[r] = "read" /\ q.op \in {"invite", "remove"} /\ Op(r) = q.op
        /\ UNCHANGED <<committed, started, req>> /\ Inv /\ Acts(r)
    BY DEF ReadAsOwner, ListInv, Op, Acts, Step
  <1>2. \/ pc'[r] = "abort" /\ answer'[r] = "not_found" /\ q.id # Meeting
        \/ pc'[r] = "abort" /\ answer'[r] = "forbidden" /\ q.by # Owner
        \/ /\ pc'[r] = "abort" /\ answer'[r] = "bad_request" /\ q.op = "invite"
           /\ ValidUsers(q) = {}
        \/ /\ pc'[r] = "write" /\ q.id = Meeting /\ q.by = Owner
           /\ q.op = "invite" => ValidUsers(q) # {}
    BY DEF ReadAsOwner, ListInv, Inv, Typed, Throw, Proceed, Goto
  <1>3. Verdict(r) = None
    BY <1>1 DEF Verdict
  <1>4. CASE pc'[r] = "abort"
    <2>1. Verdict(r)' = answer'[r]
      BY <1>4 DEF Verdict
    <2>2. Verdict(r)' \in List!Reasons(q)
      BY <1>1, <1>2, <1>4, <2>1
      DEF List!Reasons, List!Refusals, List!Missing, List!Forbidden, List!Pointless
    <2> QED
      BY <1>1, <1>3, <1>4, <2>2, Judged
  <1>5. CASE pc'[r] = "write" /\ q.op = "invite"
    <2>1. Verdict(r)' = "admitted"
      BY <1>1, <1>5 DEF Verdict, Op
    <2>2. List!Reasons(q) = {}
      BY <1>2, <1>5
      DEF List!Reasons, List!Refusals, List!Missing, List!Forbidden, List!Pointless
    <2> QED
      BY <1>1, <1>3, <1>5, <2>1, <2>2, Judged
  <1>6. CASE pc'[r] = "write" /\ q.op = "remove"
    <2>1. Verdict(r)' = None
      BY <1>1, <1>6 DEF Verdict, Op
    <2> QED
      BY <1>1, <1>3, <1>6, <2>1, Quiet
  <1> QED
    BY <1>1, <1>2, <1>4, <1>5, <1>6

(* A DELETE of a booking that is cancelled has nothing to do. *)
LEMMA NothingToCancel ==
  ASSUME NEW q \in Requests, NEW s \in State, q.op = "cancel", s.booking = "cancelled"
  PROVE  Effect(q, s) = s
  <1>1. /\ Effect(q, s) \in State /\ Effect(q, s).booking = s.booking
        /\ \A u \in User : Effect(q, s).of[u] = s.of[u]
    BY EffectRowwise DEF StatusAfter, Becomes
  <1> QED
    BY <1>1 DEF State

LEMMA OtherReadsList ==
  ASSUME ListInv, NEW r \in Req, ReadAsInvitee(r) \/ ReadBooking(r)
  PROVE  List!Next
  <1> DEFINE q == req[r]
  <1>1. /\ pc[r] = "read" /\ q.op \in {"respond", "cancel", "patch"} /\ Op(r) = q.op
        /\ UNCHANGED <<committed, started, req>> /\ Inv /\ Acts(r)
        /\ q.op \in {"cancel", "patch"} => q.id = Meeting /\ q.by \in Admin \cup {Owner}
    BY DEF ReadAsInvitee, ReadBooking, ListInv, Granted, Updates, Op, Acts, Step
  <1>2. \/ /\ pc'[r] = "abort" /\ q.op = "respond" /\ answer'[r] = "not_found"
           /\ q.id # Meeting \/ committed.of[q.by] = None
        \/ pc'[r] = "abort" /\ q.op = "respond" /\ answer'[r] = "bad_request" /\ started
        \/ /\ pc'[r] = "write" /\ q.op = "respond" /\ ~started
           /\ q.id = Meeting /\ committed.of[q.by] # None
        \/ pc'[r] = "list" /\ q.op = "cancel"
        \/ pc'[r] = "commit" /\ q.op = "cancel" /\ committed.booking = "cancelled"
        \/ /\ pc'[r] = "abort" /\ q.op = "patch" /\ answer'[r] = "bad_request"
           /\ committed.booking = "cancelled"
        \/ pc'[r] = "write" /\ q.op = "patch" /\ committed.booking # "cancelled"
    BY DEF ReadAsInvitee, ReadBooking, isUserInvited, AlreadyCancelled, ListInv, Inv, Typed,
           Throw, Proceed, Goto, Op
  <1>3. Verdict(r) = None
    BY <1>1 DEF Verdict
  <1>4. CASE pc'[r] = "abort"
    <2>1. Verdict(r)' = answer'[r]
      BY <1>4 DEF Verdict
    <2>2. Verdict(r)' \in List!Reasons(q)
      BY <1>2, <1>4, <2>1 DEF List!Reasons, List!Refusals, List!Missing, List!Pointless
    <2> QED
      BY <1>1, <1>3, <1>4, <2>2, Judged
  <1>5. pc'[r] \in {"write", "list", "commit"} => List!Reasons(q) = {}
    BY <1>1, <1>2
    DEF List!Reasons, List!Refusals, List!Missing, List!Forbidden, List!Pointless
  <1>6. CASE pc'[r] \in {"write", "list"}
    <2>1. Verdict(r)' = "admitted"
      BY <1>1, <1>6 DEF Verdict, Op
    <2> QED
      BY <1>1, <1>3, <1>5, <1>6, <2>1, Judged
  <1>7. CASE pc'[r] = "commit"
    <2>1. holds'[r] = {} /\ Verdict(r)' = "noticed"
      <3>1. holds'[r] = {}
        BY DEF ReadAsInvitee, ReadBooking, ListInv, Inv, RequestOK, StageOK
      <3> QED
        BY <1>7, <3>1 DEF Verdict
    <2>2. Effect(q, committed) = committed
      <3>1. q \in Requests /\ committed \in State
        BY <1>1 DEF ReadAsInvitee, ReadBooking, Inv, Typed, RequestOK, StageOK
      <3> QED
        BY <1>2, <1>7, <3>1, NothingToCancel
    <2> QED
      BY <1>1, <1>3, <1>5, <1>7, <2>1, <2>2, Judged
  <1> QED
    BY <1>2, <1>4, <1>6, <1>7

LEMMA WriteList ==
  ASSUME ListInv, NEW r \in Req, Write(r)
  PROVE  \/ List!Next
         \/ UNCHANGED <<committed, started, req, Verdicts, Outcome>>
  <1> DEFINE q == req[r]
  <1>1. /\ pc[r] = "write" /\ q \in Requests /\ Op(r) = q.op
        /\ UNCHANGED <<committed, started, req>> /\ Inv /\ Acts(r)
        /\ \/ /\ pc'[r] = "abort" /\ answer'[r] = "not_found"
              /\ q.op = "remove" /\ rows.of[q.user] = None
           \/ pc'[r] = "mail" /\ ~(q.op = "remove" /\ rows.of[q.user] = None)
    BY DEF Write, ListInv, Inv, Typed, RequestOK, StageOK, Throw, Proceed, Goto, Op, Acts, Step
  <1>2. CASE q.op # "remove"
    <2>1. Verdict(r) = "admitted" /\ Verdict(r)' = "admitted"
      BY <1>1, <1>2 DEF Verdict
    <2> QED
      BY <1>1, <1>2, <2>1, Quiet
  <1>3. CASE q.op = "remove"
    <2>1. Verdict(r) = None
      BY <1>1, <1>3 DEF Verdict
    <2>2. rows.of[q.user] = committed.of[q.user]
      BY <1>1, <1>3, RemovalFindsCommitted
    <2>3. q.id = Meeting /\ q.by = Owner
      BY <1>1, <1>3 DEF ListInv, Granted
    <2>4. CASE pc'[r] = "abort"
      <3>1. Verdict(r)' = "not_found"
        BY <1>1, <2>4 DEF Verdict
      <3>2. "not_found" \in List!Reasons(q)
        BY <1>1, <2>2, <2>4 DEF List!Reasons, List!Refusals, List!Missing
      <3> QED
        BY <1>1, <2>1, <2>4, <3>1, <3>2, Judged
    <2>5. CASE pc'[r] = "mail"
      <3>1. Verdict(r)' = "admitted"
        BY <2>5 DEF Verdict
      <3>2. List!Reasons(q) = {}
        BY <1>1, <1>3, <2>2, <2>3, <2>5
        DEF List!Reasons, List!Refusals, List!Missing, List!Forbidden, List!Pointless
      <3> QED
        BY <1>1, <2>1, <2>5, <3>1, <3>2, Judged
    <2> QED
      BY <1>1, <2>4, <2>5
  <1> QED
    BY <1>2, <1>3

LEMMA InsideList ==
  ASSUME ListInv, NEW r \in Req, ListInvitees(r) \/ SendMail(r) \/ AllMailed(r)
  PROVE  UNCHANGED <<committed, started, req, Verdicts, Outcome>>
  <1>1. /\ pc[r] \in {"list", "mail"} /\ pc'[r] \in {"write", "mail", "commit"}
        /\ pc'[r] = "write" => Op(r) = "cancel"
        /\ pc[r] = "list" => pc'[r] = "write"
        /\ UNCHANGED <<committed, started, req, holds>> /\ Inv /\ Acts(r)
    BY DEF ListInvitees, SendMail, AllMailed, ListInv, Inv, Typed, RequestOK, StageOK,
           Proceed, Goto, Acts, Step
  <1>2. pc[r] = "mail" => holds[r] # {}
    BY DEF ListInv, Granted, Inv, RequestOK, StageOK
  <1>3. Verdict(r) = "admitted" /\ Verdict(r)' = "admitted"
    BY <1>1, <1>2 DEF Verdict, Op
  <1> QED
    BY <1>1, <1>3, Quiet

LEMMA FailList ==
  ASSUME ListInv, NEW r \in Req, Fail(r) \/ Overlapped(r)
  PROVE  List!Next
  <1>1. /\ pc[r] \in {"read", "list", "write", "mail", "commit"} /\ req[r] \in Requests
        /\ pc'[r] = "abort"
        /\ \/ answer'[r] = "error"
           \/ /\ answer'[r] = "conflict" /\ pc[r] = "write"
              /\ req[r].op = "patch" /\ req[r].status # "cancelled"
        /\ UNCHANGED <<committed, started, req>> /\ Inv /\ Acts(r)
    BY DEF Fail, Overlapped, Throw, Goto, ListInv, Inv, Typed, RequestOK, StageOK, Acts, Step,
           Op, Cancels
  <1>2. /\ Verdict(r) \in {None, "admitted", "noticed"} /\ Verdict(r)' = answer'[r]
        /\ answer'[r] = "conflict" => Verdict(r) = "admitted"
    BY <1>1 DEF Verdict, Op
  <1>3. /\ Verdicts' = [Verdicts EXCEPT ![r] = answer'[r]] /\ Outcome' = Outcome
        /\ Verdicts[r] = Verdict(r) /\ Outcome[r] = None
    BY <1>1, <1>2, Shown DEF Verdicts, Outcome
  <1>4. req[r] # None
    BY <1>1, RequestTyped
  <1>5. CASE answer'[r] = "error"
    <2>1. List!Fail(r)
      BY <1>1, <1>2, <1>3, <1>4, <1>5 DEF List!Fail, List!Pending, Outcome, Verdicts
    <2> QED
      BY <2>1 DEF List!Next
  <1>6. CASE answer'[r] = "conflict"
    <2>1. List!Collide(r)
      BY <1>1, <1>2, <1>3, <1>4, <1>6 DEF List!Collide, List!Pending, Outcome, Verdicts
    <2> QED
      BY <2>1 DEF List!Next
  <1> QED
    BY <1>1, <1>5, <1>6

(* An end: what is known of the request becomes its outcome. *)
LEMMA Ended ==
  ASSUME Inv, NEW r \in Req, Commit(r) \/ Rollback(r)
  PROVE  /\ pc[r] \in {"commit", "abort"} /\ UNCHANGED <<started, req>>
         /\ req[r] \in Requests /\ req[r] # None
         /\ Verdicts' = [Verdicts EXCEPT ![r] = None] /\ Verdicts[r] = Verdict(r)
         /\ Outcome' = [Outcome EXCEPT ![r] = answer'[r]] /\ Outcome[r] = None
  <1>1. /\ pc[r] \in {"commit", "abort"} /\ pc'[r] = "done" /\ req[r] \in Requests
        /\ UNCHANGED <<started, req>> /\ Acts(r)
    BY DEF Commit, Rollback, Release, Goto, Inv, Typed, RequestOK, StageOK, Acts, Step
  <1>2. Verdict(r)' = None
    BY <1>1 DEF Verdict
  <1> QED
    BY <1>1, <1>2, Shown, RequestTyped DEF Verdicts, Outcome

(* COMMIT of what has been written is Accept; without a statement it ends  *)
(* a request that had found nothing to do.                                 *)
LEMMA CommitList ==
  ASSUME ListInv, NEW r \in Req, Commit(r)
  PROVE  List!Next
  <1>1. Inv /\ pc[r] = "commit" /\ answer'[r] \in {"ok", "error"}
    BY DEF Commit, ListInv, Inv, Typed
  <1>2. CASE holds[r] # {}
    <2>1. Verdict(r) = "admitted"
      BY <1>1, <1>2 DEF Verdict
    <2>2. committed' = Effect(req[r], committed)
      BY <1>1, <1>2, CommitEffect
    <2>3. req[r].op = "remove" => committed.of[req[r].user] # None
      BY <1>1 DEF ListInv, Granted, Op
    <2>4. List!Accept(r)
      BY <1>1, <2>1, <2>2, <2>3, Ended DEF List!Accept, List!Pending, Outcome, Verdicts
    <2> QED
      BY <2>4 DEF List!Next
  <1>3. CASE holds[r] = {}
    <2>1. Verdict(r) = "noticed"
      BY <1>1, <1>3 DEF Verdict
    <2>2. committed' = committed
      BY <1>1, <1>3, CommitEffect
    <2>3. List!AcceptNoticed(r)
      BY <1>1, <2>1, <2>2, Ended DEF List!AcceptNoticed, List!Pending, Outcome, Verdicts
    <2> QED
      BY <2>3 DEF List!Next
  <1> QED
    BY <1>2, <1>3

LEMMA RollbackList ==
  ASSUME ListInv, NEW r \in Req, Rollback(r)
  PROVE  List!Next
  <1>1. /\ Inv /\ pc[r] = "abort" /\ UNCHANGED <<answer, committed>>
        /\ answer[r] \in {"not_found", "forbidden", "bad_request", "conflict", "error"}
    BY DEF Rollback, ListInv, Granted
  <1>2. Verdict(r) = answer[r]
    BY <1>1 DEF Verdict
  <1>3. List!Reject(r)
    BY <1>1, <1>2, Ended
    DEF List!Reject, List!Refusals, List!Pending, Outcome, Verdicts
  <1> QED
    BY <1>3 DEF List!Next

LEMMA NextList ==
  ASSUME ListInv, [Next]_vars
  PROVE  [List!Next]_<<committed, started, req, Verdicts, Outcome>>
  <1>1. CASE UNCHANGED vars
    BY <1>1 DEF vars, Outcome, Verdicts, Verdict, Op
  <1>2. CASE Begin
    <2>1. Outcome' = Outcome /\ Verdicts' = Verdicts
      BY <1>2 DEF Begin, Outcome, Verdicts, Verdict, Op
    <2>2. List!Begin
      BY <1>2, <2>1 DEF Begin, List!Begin, Outcome, Verdicts
    <2> QED
      BY <2>2 DEF List!Next
  <1>3. CASE Next /\ ~Begin
    BY <1>3, ArriveList, ReadAsOwnerList, OtherReadsList, WriteList, InsideList, FailList,
       CommitList, RollbackList DEF Next, Step
  <1> QED
    BY <1>1, <1>2, <1>3

(* Invitations, removals, responses, cancellations and PATCHes that bring  *)
(* the booking back, whatever runs at the same time, act on one list of    *)
(* guests: each is judged at a moment between its arrival and its answer   *)
(* and takes effect once, at its COMMIT, but for a cancellation that was   *)
(* judged to have nothing to do (invitations.service.ts:26-186,            *)
(* bookings.service.ts:128-234, config/db.ts:44-60).                       *)
THEOREM HandlersKeepGuestList == Spec => GuestListSpec
  <1>1. Init => List!Init
    BY DEF Init, List!Init, Verdict
  <1>2. ListInv /\ [Next]_vars => [List!Next]_<<committed, started, req, Verdicts, Outcome>>
    BY NextList
  <1> QED
    BY <1>1, <1>2, InitListInv, NextListInv, PTL
    DEF Spec, GuestListSpec, List!Spec, Outcome, Verdicts
=============================================================================
