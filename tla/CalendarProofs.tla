---------------------------- MODULE CalendarProofs ----------------------------
(***************************************************************************)
(* The booking handlers implement RoomCalendar, and what they store obeys  *)
(* the business rules, as far as updates are self-contained.               *)
(***************************************************************************)
EXTENDS BookingTransactionsProofs

(* Only the steps below touch committed rows or the answers clients see. *)
AbortsTold ==
  \A r \in Req : pc[r] = "abort" =>
    answer[r] \in {"bad_request", "not_found", "conflict", "error"}

LEMMA NextAbortsTold == TypeInv /\ AbortsTold /\ [Next]_vars => AbortsTold'
  <1> SUFFICES ASSUME TypeInv, AbortsTold, [Next]_vars PROVE AbortsTold'
    OBVIOUS
  <1> USE DEF AbortsTold, TypeInv, TypeOK, Throw, Goto, Refuse
  <1>1. CASE UNCHANGED vars
    BY <1>1 DEF vars
  <1>2. ASSUME NEW r \in Req, Arrive(r) PROVE AbortsTold'
    BY <1>2 DEF Arrive, CreateBooking, ChangeBooking
  <1>3. ASSUME NEW r \in Req, Fail(r) \/ LockTimeout(r) PROVE AbortsTold'
    BY <1>3 DEF Fail, LockTimeout
  <1>4. ASSUME NEW r \in Req, ReadForUpdate(r) \/ ReadForCancel(r) \/ CheckOverlap(r)
        PROVE  AbortsTold'
    BY <1>4 DEF ReadForUpdate, ReadForCancel, CheckOverlap
  <1>5. ASSUME NEW r \in Req, BeforeInsert(r) \/ BeforeUpdate(r) \/ Write(r)
        PROVE  AbortsTold'
    BY <1>5 DEF BeforeInsert, BeforeUpdate, Write
  <1>6. ASSUME NEW r \in Req, Commit(r) \/ Rollback(r) PROVE AbortsTold'
    BY <1>6 DEF Commit, Rollback, Release
  <1> QED
    BY <1>1, <1>2, <1>3, <1>4, <1>5, <1>6 DEF Next, Step

Outcome == [r \in Req |-> IF pc[r] = "done" THEN answer[r] ELSE None]
Noticed == {r \in Req : pc[r] = "commit" /\ dirty[r] = {}}

LEMMA InitCalendar == Init => Calendar!Init
  BY DEF Init, Calendar!Init

(* A step of r that neither ends nor changes what is committed. *)
LEMMA StepInside ==
  ASSUME TypeInv, NEW r \in Req, NEW label, label # "done", Goto(r, label), pc[r] # "done",
         UNCHANGED <<req, committed>>, \A p \in Req \ {r} : dirty'[p] = dirty[p],
         label = "commit" => dirty'[r] # {},
         \A p \in Req \ {r} : answer'[p] = answer[p]
  PROVE  Calendar!Next
  <1>1. \A p \in Req \ {r} : pc'[p] = pc[p]
    BY DEF TypeInv, TypeOK, Goto
  <1>2. pc'[r] = label
    BY DEF TypeInv, TypeOK, Goto
  <1>3. Outcome' = Outcome
    BY <1>1, <1>2 DEF Outcome
  <1>4. Noticed' = Noticed \ {r}
    BY <1>1, <1>2 DEF Noticed
  <1>5. Calendar!Forget(r)
    BY <1>3, <1>4 DEF Calendar!Forget, Outcome, Noticed
  <1> QED
    BY <1>5 DEF Calendar!Next

LEMMA ArriveCalendar ==
  ASSUME TypeInv, NEW r \in Req, NEW q \in Requests, CreateBooking(r, q) \/ ChangeBooking(r, q)
  PROVE  Calendar!Next
  <1>1. /\ pc[r] = "idle" /\ req[r] = None /\ UNCHANGED <<dirty, committed>>
        /\ req' = [req EXCEPT ![r] = q]
        /\ \A p \in Req \ {r} : pc'[p] = pc[p] /\ answer'[p] = answer[p]
    BY DEF CreateBooking, ChangeBooking, Refuse, Goto, table, TypeInv, TypeOK, HandlerOK
  <1>2. \/ pc'[r] \in {"check", "read"}
        \/ pc'[r] = "done" /\ answer'[r] \in {"bad_request", "not_found", "forbidden"}
    BY DEF CreateBooking, ChangeBooking, Refuse, Goto, TypeInv, TypeOK
  <1>3. Noticed' = Noticed
    BY <1>1, <1>2 DEF Noticed
  <1>4. CASE pc'[r] \in {"check", "read"}
    <2>1. Outcome' = Outcome
      BY <1>1, <1>4 DEF Outcome
    <2>2. Calendar!Ask(r)
      BY <1>1, <1>3, <2>1 DEF Calendar!Ask, Outcome, Noticed
    <2> QED
      BY <2>2 DEF Calendar!Next
  <1>5. CASE pc'[r] = "done" /\ answer'[r] \in {"bad_request", "not_found", "forbidden"}
    <2>1. Outcome' = [Outcome EXCEPT ![r] = answer'[r]]
      BY <1>1, <1>5 DEF Outcome
    <2>2. Calendar!AskAndRefuse(r)
      BY <1>1, <1>3, <1>5, <2>1 DEF Calendar!AskAndRefuse, Outcome, Noticed
    <2> QED
      BY <2>2 DEF Calendar!Next
  <1> QED
    BY <1>2, <1>4, <1>5

LEMMA InsideCalendar ==
  ASSUME TypeInv, NEW r \in Req,
         \/ ReadForUpdate(r) \/ CheckOverlap(r) \/ BeforeInsert(r) \/ BeforeUpdate(r)
         \/ Write(r) \/ Fail(r) \/ LockTimeout(r)
  PROVE  Calendar!Next
  <1> USE DEF TypeInv, TypeOK, Throw
  <1>1. CASE ReadForUpdate(r)
    <2>1. PICK label \in {"abort", "check", "before"} : Goto(r, label)
      BY <1>1 DEF ReadForUpdate
    <2> QED
      BY <1>1, <2>1, StepInside DEF ReadForUpdate, table
  <1>2. CASE CheckOverlap(r)
    <2>1. PICK label \in {"abort", "before"} : Goto(r, label)
      BY <1>2 DEF CheckOverlap
    <2> QED
      BY <1>2, <2>1, StepInside DEF CheckOverlap, table
  <1>3. CASE BeforeInsert(r) \/ BeforeUpdate(r)
    <2>1. PICK label \in {"abort", "write"} : Goto(r, label)
      BY <1>3 DEF BeforeInsert, BeforeUpdate
    <2>2. /\ pc[r] # "done" /\ UNCHANGED <<req, committed>>
          /\ \A p \in Req \ {r} : dirty'[p] = dirty[p] /\ answer'[p] = answer[p]
      BY <1>3 DEF BeforeInsert, BeforeUpdate, table
    <2> QED
      BY <2>1, <2>2, StepInside
  <1>4. CASE Write(r)
    <2>1. PICK label \in {"abort", "commit"} : Goto(r, label)
      BY <1>4 DEF Write
    <2>2. dirty'[r] # {} /\ UNCHANGED dirty /\ pc[r] # "done"
      BY <1>4 DEF Write, HandlerOK
    <2> QED
      BY <1>4, <2>1, <2>2, StepInside DEF Write
  <1>5. CASE Fail(r) \/ LockTimeout(r)
    <2>1. pc[r] # "done" /\ Goto(r, "abort") /\ UNCHANGED <<req, dirty, committed>>
          /\ \A p \in Req \ {r} : answer'[p] = answer[p]
      BY <1>5 DEF Fail, LockTimeout, InTransaction, Blocked, table
    <2> QED
      BY <2>1, StepInside
  <1> QED
    BY <1>1, <1>2, <1>3, <1>4, <1>5

LEMMA ReadForCancelCalendar ==
  ASSUME TypeInv, NEW r \in Req, ReadForCancel(r)
  PROVE  Calendar!Next
  <1> DEFINE q == req[r]
             row == committed[q.id]
  <1>1. /\ pc[r] = "read" /\ q \in Requests /\ q.op = "cancel" /\ q.id \in Booking
        /\ committed \in [Booking -> Row \cup {None}] /\ row # None
        /\ UNCHANGED <<req, dirty, committed>>
    BY RequestTyped DEF ReadForCancel, TypeInv, TypeOK, HandlerOK, Target, TargetOf, table
  <1>2. UNCHANGED answer
    BY <1>1 DEF ReadForCancel
  <1>3. CASE row.status = "cancelled"
    <2>1. Goto(r, "commit") /\ dirty[r] = {}
      BY <1>1, <1>3 DEF ReadForCancel, TypeInv, HandlerOK
    <2>2. pc'[r] = "commit" /\ \A p \in Req \ {r} : pc'[p] = pc[p]
      BY <2>1 DEF Goto, TypeInv, TypeOK
    <2>3. Outcome' = Outcome /\ Noticed' = Noticed \cup {r}
      BY <1>1, <1>2, <2>1, <2>2 DEF Outcome, Noticed
    <2>4. row \in Row
      BY <1>1
    <2>5. Effect(q, row) = row
      BY <1>1, <1>3, <2>4 DEF Effect, Row
    <2>6. q # None /\ Outcome[r] = None
      BY <1>1, NoneIsNew DEF Outcome
    <2>7. Calendar!Notice(r)
      BY <1>1, <1>2, <2>3, <2>5, <2>6
      DEF Calendar!Notice, Calendar!Pending, Outcome, Noticed, TargetOf
    <2> QED
      BY <2>7 DEF Calendar!Next
  <1>4. CASE row.status # "cancelled"
    <2>1. Goto(r, "before")
      BY <1>1, <1>4 DEF ReadForCancel
    <2> QED
      BY <1>1, <1>2, <2>1, StepInside
  <1> QED
    BY <1>3, <1>4

LEMMA RollbackCalendar ==
  ASSUME TypeInv, AbortsTold, NEW r \in Req, Rollback(r)
  PROVE  Calendar!Next
  <1>1. /\ pc[r] = "abort" /\ req[r] \in Requests /\ UNCHANGED <<req, answer, committed>>
        /\ pc'[r] = "done" /\ dirty'[r] = {}
        /\ \A p \in Req \ {r} : pc'[p] = pc[p] /\ dirty'[p] = dirty[p]
    BY DEF Rollback, Release, Goto, TypeInv, TypeOK, HandlerOK
  <1>2. Outcome' = [Outcome EXCEPT ![r] = answer[r]] /\ Noticed' = Noticed
    BY <1>1 DEF Outcome, Noticed
  <1>3. req[r] # None /\ Outcome[r] = None
    BY <1>1, NoneIsNew DEF Outcome
  <1>4. answer[r] \in {"bad_request", "not_found", "conflict", "error"}
    BY <1>1 DEF AbortsTold
  <1>5. Calendar!Reject(r)
    BY <1>1, <1>2, <1>3, <1>4 DEF Calendar!Reject, Calendar!Pending, Outcome, Noticed
  <1> QED
    BY <1>5 DEF Calendar!Next

LEMMA CommitCalendar ==
  ASSUME TypeInv, NoVersionsClash, NEW r \in Req, EditsCommitted(r), Commit(r)
  PROVE  Calendar!Next
  <1> DEFINE b == Target(r)
             new == Effect(req[r], committed[b])
  <1>1. /\ pc[r] = "commit" /\ req[r] \in Requests /\ UNCHANGED req
        /\ pc'[r] = "done" /\ dirty'[r] = {}
        /\ \A p \in Req \ {r} : /\ pc'[p] = pc[p] /\ dirty'[p] = dirty[p]
                                /\ answer'[p] = answer[p]
        /\ committed \in [Booking -> Row \cup {None}]
    BY DEF Commit, Release, Goto, TypeInv, TypeOK, HandlerOK
  <1>2. answer'[r] \in {"ok", "error"}
    BY DEF Commit, TypeInv, TypeOK
  <1>3. Outcome' = [Outcome EXCEPT ![r] = answer'[r]] /\ Noticed' = Noticed \ {r}
    BY <1>1 DEF Outcome, Noticed
  <1>4. req[r] # None /\ Outcome[r] = None
    BY <1>1, NoneIsNew DEF Outcome
  <1>5. CASE dirty[r] = {}
    <2>1. committed' = committed /\ r \in Noticed
      BY <1>1, <1>5 DEF Commit, Noticed
    <2>2. Calendar!AcceptNoticed(r)
      BY <1>1, <1>2, <1>3, <1>4, <2>1
      DEF Calendar!AcceptNoticed, Calendar!Pending, Outcome, Noticed
    <2> QED
      BY <2>2 DEF Calendar!Next
  <1>6. CASE dirty[r] # {}
    <2>1. dirty[r] = {b} /\ b \in Booking
      BY <1>1, <1>6, TargetTyped DEF TypeInv, HandlerOK, Target
    <2>2. rows[b] = new
      BY <1>1, <1>6 DEF EditsCommitted
    <2>3. committed' = [committed EXCEPT ![b] = new]
      BY <1>1, <2>1, <2>2 DEF Commit
    <2>4. new # None
      <3>1. CASE req[r].op = "create"
        <4>1. new \in Row
          BY <1>1, <2>1, <3>1, EffectTyped DEF TypeInv, HandlerOK
        <4> QED
          BY <4>1, NoneIsNew
      <3>2. CASE req[r].op # "create"
        BY <1>1, <2>1, <2>2, <3>2 DEF TypeInv, HandlerOK, VersionsOK
      <3> QED
        BY <3>1, <3>2
    <2>5. ASSUME new.status \in Active, NEW c \in Booking \ {b},
                 committed[c] # None, committed[c].status \in Active
          PROVE  ~Overlap(new, committed[c])
      BY <2>1, <2>2, <2>5, <2>4 DEF NoVersionsClash, Versions
    <2>6. Noticed' = Noticed
      BY <1>3, <1>6 DEF Noticed
    <2>7. Calendar!Accept(r)
      BY <1>1, <1>2, <1>3, <1>4, <2>3, <2>5, <2>6
      DEF Calendar!Accept, Calendar!Pending, Outcome, Noticed, Target
    <2> QED
      BY <2>7 DEF Calendar!Next
  <1> QED
    BY <1>5, <1>6

LEMMA NextCalendar ==
  ASSUME TypeInv, NoVersionsClash, AbortsTold, \A r \in Req : EditsCommitted(r), [Next]_vars
  PROVE  [Calendar!Next]_<<committed, req, Outcome, Noticed>>
  <1>1. CASE UNCHANGED vars
    BY <1>1 DEF vars, table, Outcome, Noticed
  <1>2. CASE Next
    BY <1>2, ArriveCalendar, InsideCalendar, ReadForCancelCalendar, RollbackCalendar,
       CommitCalendar DEF Next, Arrive, Step
  <1> QED
    BY <1>1, <1>2

\* Committed rows and answers behave as one calendar that accepts requests one at
\* a time, on what it holds at that moment, if every update is self-contained:
\* COMMIT is where a request takes effect, except that a cancellation of a cancelled
\* booking does so where it reads it (withTransaction, config/db.ts:44-60).
THEOREM HandlersImplementCalendar ==
  ASSUME \A q \in Requests : SelfContained(q)
  PROVE  Spec => CalendarSpec
  <1> DEFINE Inv == IInv /\ AbortsTold /\ \A r \in Req : EditsCommitted(r)
  <1>1. Init => Inv
    <2>1. Init => AbortsTold
      BY DEF Init, AbortsTold
    <2> QED
      BY <2>1, InitTypeInv, InitLockInv, InitEdits DEF IInv
  <1>2. Inv /\ [Next]_vars => Inv'
    BY NextTypeInv, NextLockInv, NextEdits, NextAbortsTold DEF IInv
  <1>3. Inv /\ [Next]_vars => [Calendar!Next]_<<committed, req, Outcome, Noticed>>
    BY NextCalendar DEF IInv, LockInv
  <1> QED
    BY <1>1, <1>2, <1>3, InitCalendar, PTL DEF Spec, CalendarSpec, Calendar!Spec, Outcome, Noticed

\* What every version of a booking and every handler satisfies, so that no step of
\* any interleaving leaves a double booking: the locks keep each checked window free
\* and the checked window is the one stored (bookings.service.ts:65-79, 171-193).
THEOREM InductiveInvariant ==
  ASSUME \A q \in Requests : SelfContained(q)
  PROVE  Spec => []IInv
  <1>1. Init => IInv
    BY InitTypeInv, InitLockInv DEF IInv
  <1>2. IInv /\ [Next]_vars => IInv'
    BY NextTypeInv, NextLockInv DEF IInv
  <1> QED
    BY <1>1, <1>2, PTL DEF Spec
-----------------------------------------------------------------------------
(* The business rules.  validateBookingTimes sees the body merged with the *)
(* row as read, UPDATE merges it with the current row: they agree when the *)
(* body gives both times or neither.                                       *)

TimesTogether(q) == q.op = "update" => (q.start = None <=> q.end = None)

Obeys(row) == validateBookingTimes(DataInstant(row.start), DataInstant(row.end))

PlacesTimes(q) == q.op = "create" \/ (q.op = "update" /\ q.start # None)

RulesKept ==
  /\ \A b \in Booking : \A v \in Versions(b) : Obeys(v)
  /\ \A r \in Req : pc[r] \in {"check", "before", "write"} /\ PlacesTimes(req[r]) =>
       Obeys(req[r])

LEMMA NewRowObeys ==
  ASSUME TypeInv, RulesKept, \A q \in Requests : TimesTogether(q), NEW r \in Req, pc[r] = "write"
  PROVE  Obeys(NewRow(r))
  <1> DEFINE q == req[r]
             old == rows[Target(r)]
  <1>1. q \in Requests /\ Target(r) \in Booking /\ TimesTogether(q)
    BY NewRowTyped DEF TypeInv, HandlerOK
  <1>2. CASE PlacesTimes(q)
    <2>1. NewRow(r).start = q.start /\ NewRow(r).end = q.end
      BY <1>1, <1>2 DEF PlacesTimes, TimesTogether, NewRow, Effect, Or
    <2> QED
      BY <1>2, <2>1 DEF RulesKept, Obeys
  <1>3. CASE ~PlacesTimes(q)
    <2>1. q.op \in {"update", "cancel"}
      BY <1>1, <1>3, RequestTyped DEF PlacesTimes
    <2>2. old # None /\ old \in Row
      BY <1>1, <2>1 DEF TypeInv, TypeOK, HandlerOK, VersionsOK
    <2>3. NewRow(r).start = old.start /\ NewRow(r).end = old.end
      BY <1>1, <1>3, <2>1, <2>2 DEF PlacesTimes, TimesTogether, NewRow, Effect, Or, Row
    <2>4. Obeys(old)
      BY <1>1, <2>2 DEF RulesKept, Versions
    <2> QED
      BY <2>3, <2>4 DEF Obeys
  <1> QED
    BY <1>2, <1>3

LEMMA NextRulesKept ==
  ASSUME \A q \in Requests : TimesTogether(q)
  PROVE  TypeInv /\ RulesKept /\ [Next]_vars => RulesKept'
  <1> SUFFICES ASSUME TypeInv, RulesKept, [Next]_vars PROVE RulesKept'
    OBVIOUS
  <1>1. ASSUME NEW b \in Booking, NEW v \in Versions(b)' PROVE Obeys(v)
    <2>1. CASE v \in Versions(b)
      BY <2>1 DEF RulesKept
    <2>2. CASE v \notin Versions(b)
      <3>1. PICK r \in Req : Write(r) /\ v = NewRow(r)
        BY <1>1, <2>2, OtherVersions, WriteVersions
      <3> QED
        BY <3>1, NewRowObeys DEF Write
    <2> QED
      BY <2>1, <2>2
  <1>2. ASSUME NEW r \in Req, pc'[r] \in {"check", "before", "write"}, PlacesTimes(req'[r])
        PROVE  Obeys(req'[r])
    <2>1. CASE pc[r] \in {"check", "before", "write"} /\ req'[r] = req[r]
      BY <1>2, <2>1 DEF RulesKept
    <2>2. CASE UNCHANGED vars
      BY <1>2, <2>1, <2>2 DEF vars
    <2>3. ASSUME NEW p \in Req, p # r, Arrive(p) \/ Step(p) \/ Fail(p) \/ LockTimeout(p)
          PROVE  Obeys(req'[r])
      BY <1>2, <2>1, <2>3, StepFrame
    <2>4. CASE Arrive(r)
      BY <1>2, <2>4 DEF Arrive, CreateBooking, ChangeBooking, Obeys, PlacesTimes, Goto, Refuse,
                        TypeInv, TypeOK
    <2>5. CASE ReadForUpdate(r)
      <3> DEFINE q == req[r]
      <3>1. q \in Requests /\ q.op = "update" /\ UNCHANGED req
        BY <2>5 DEF ReadForUpdate, TypeInv, HandlerOK
      <3>2. q.start # None /\ q.end # None
        BY <1>2, <3>1 DEF PlacesTimes, TimesTogether
      <3>3. pc'[r] # "abort"
        BY <1>2
      <3>4. validateBookingTimes(FinalStart(q, committed[q.id]), FinalEnd(q, committed[q.id]))
        BY <2>5, <3>2, <3>3 DEF ReadForUpdate, TimesGiven, Throw, Goto, TypeInv, TypeOK
      <3> QED
        BY <3>1, <3>2, <3>4 DEF FinalStart, FinalEnd, Obeys
    <2>6. CASE ReadForCancel(r)
      BY <1>2, <2>6 DEF ReadForCancel, PlacesTimes
    <2>7. CASE CheckOverlap(r) \/ BeforeInsert(r) \/ BeforeUpdate(r) \/ Write(r)
      BY <2>1, <2>7 DEF CheckOverlap, BeforeInsert, BeforeUpdate, Write
    <2>8. CASE Commit(r) \/ Rollback(r) \/ Fail(r) \/ LockTimeout(r)
      BY <1>2, <2>8 DEF Commit, Rollback, Fail, LockTimeout, Release, Throw, Goto, TypeInv, TypeOK
    <2> QED
      BY <2>2, <2>3, <2>4, <2>5, <2>6, <2>7, <2>8 DEF Next, Step
  <1> QED
    BY <1>1, <1>2 DEF RulesKept, Obeys

\* If the seed data obey the rules and no update gives one of the two times alone,
\* every stored booking obeys them, in whatever zone the process runs: what was read
\* and validated may be stale, what is stored is not (bookings.service.ts:149-161).
THEOREM RowsObeyRulesHolds ==
  ASSUME \A q \in Requests : TimesTogether(q),
         \A b \in Booking : SeedRows[b] # None => Obeys(SeedRows[b])
  PROVE  Spec => []RowsObeyRules
  <1>1. Init => RulesKept
    BY DEF Init, RulesKept, Versions
  <1>2. RulesKept => RowsObeyRules
    BY DEF RulesKept, RowsObeyRules, Versions, Obeys
  <1> QED
    BY <1>1, <1>2, InitTypeInv, NextTypeInv, NextRulesKept, PTL DEF Spec
=============================================================================
