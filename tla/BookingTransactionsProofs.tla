---------------------- MODULE BookingTransactionsProofs ----------------------
(***************************************************************************)
(* What holds of BookingTransactions for every set of requests, rooms,     *)
(* times and zones.                                                        *)
(***************************************************************************)
EXTENDS BookingTransactions, TLAPS

LEMMA RequestTyped ==
  ASSUME NEW q \in Requests
  PROVE  /\ q.op \in {"create", "update", "cancel"}
         /\ q.op = "create" => /\ q.room \in RoomId /\ q.owner \in User \cup {None}
                               /\ q.start \in Time /\ q.end \in Time
         /\ q.op = "update" => /\ q.id \in Booking
                               /\ q.room \in RoomId \cup {None}
                               /\ q.start \in Time \cup {None}
                               /\ q.end \in Time \cup {None}
                               /\ q.status \in Status \cup {None}
         /\ q.op = "cancel" => q.id \in Booking
  BY RequestsTyped DEF Create, Update, Cancel

LEMMA TargetTyped ==
  ASSUME NEW r \in Req, NEW q \in Requests
  PROVE  TargetOf(r, q) \in Booking
  BY RequestTyped DEF TargetOf, Booking

LEMMA EffectTyped ==
  ASSUME NEW q \in Requests, NEW row \in Row \cup {None},
         q.op = "create" => q.room \in Room /\ q.owner \in User,
         q.op = "update" => q.room \in Room \cup {None},
         q.op # "create" => row # None
  PROVE  Effect(q, row) \in Row
  <1>1. CASE q.op = "create"
    BY <1>1, RequestTyped DEF Effect, Row, Status
  <1>2. CASE q.op = "update"
    <2>1. row \in Row
      BY <1>2
    <2>2. Or(q.room, row.room) \in Room /\ Or(q.start, row.start) \in Time
            /\ Or(q.end, row.end) \in Time /\ Or(q.status, row.status) \in Status
      BY <1>2, <2>1, RequestTyped DEF Or, Row
    <2> QED
      BY <1>2, <2>1, <2>2 DEF Effect, Row
  <1>3. CASE q.op = "cancel"
    BY <1>3 DEF Effect, Row, Status
  <1> QED
    BY <1>1, <1>2, <1>3, RequestTyped
-----------------------------------------------------------------------------
LEMMA InitTypeInv == Init => TypeInv
  <1> SUFFICES ASSUME Init PROVE TypeInv
    OBVIOUS
  <1>1. TypeOK
    BY SeedIsClean DEF Init, TypeOK
  <1>2. ASSUME NEW r \in Req PROVE HandlerOK(r)
    BY IdsDistinct, SeedIsClean DEF Init, HandlerOK, Booking
  <1>3. VersionsOK /\ WritersExclude
    BY DEF Init, VersionsOK, WritersExclude
  <1> QED
    BY <1>1, <1>2, <1>3 DEF TypeInv

(* The steps of one handler leave every other handler's facts alone. *)
LEMMA OthersOK ==
  ASSUME NEW p \in Req, HandlerOK(p),
         pc'[p] = pc[p], req'[p] = req[p], view'[p] = view[p], dirty'[p] = dirty[p],
         \A b \in Booking : committed[b] # None => committed'[b] # None,
         committed[p] = None => rows'[p] = rows[p] /\ committed'[p] = None,
         pc[p] # "idle" => Target(p) \in Booking
  PROVE  HandlerOK(p)'
  BY DEF HandlerOK, Target, TargetOf

(* A step that leaves the table, the bodies and the row locks alone. *)
LEMMA TableUnchanged ==
  ASSUME TypeInv, NEW r \in Req, HandlerOK(r)', TypeOK',
         \A p \in Req \ {r} : pc'[p] = pc[p] /\ view'[p] = view[p]
                             /\ req'[p] = req[p],
         UNCHANGED <<dirty, table>>
  PROVE  TypeInv'
  <1>1. ASSUME NEW p \in Req \ {r} PROVE HandlerOK(p)'
    <2>1. pc[p] # "idle" => Target(p) \in Booking
      BY TargetTyped DEF TypeInv, HandlerOK, Target
    <2> QED
      BY <2>1, OthersOK DEF TypeInv, table
  <1>2. VersionsOK' /\ WritersExclude'
    BY DEF TypeInv, VersionsOK, WritersExclude, table
  <1> QED
    BY <1>1, <1>2 DEF TypeInv

LEMMA AbortTypeInv ==
  ASSUME TypeInv, NEW r \in Req, InTransaction(r),
         NEW a \in {"bad_request", "not_found", "conflict", "error"}, Throw(r, a),
         UNCHANGED <<req, dirty, table>>,
         view' \in [Req -> [Booking -> Row \cup {None}] \cup {None}],
         scan' \in [Req -> Window \cup {None}],
         \A p \in Req \ {r} : view'[p] = view[p]
  PROVE  TypeInv'
  <1>1. TypeOK'
    BY DEF TypeInv, TypeOK, Answer, Throw, Goto, table
  <1>2. HandlerOK(r)'
    BY DEF TypeInv, TypeOK, HandlerOK, InTransaction, Throw, Goto, table, Target
  <1>3. \A p \in Req \ {r} : pc'[p] = pc[p] /\ req'[p] = req[p]
    BY DEF TypeInv, TypeOK, Throw, Goto
  <1> QED
    BY <1>1, <1>2, <1>3, TableUnchanged

LEMMA WindowTyped ==
  ASSUME TypeInv, NEW r \in Req, pc[r] = "check"
  PROVE  CheckedWindow(r) \in Window
  <1> DEFINE q == req[r]
             seen == view[r][q.id]
  <1>1. q \in Requests /\ q.op \in {"create", "update"}
    BY DEF TypeInv, HandlerOK
  <1>2. CASE q.op = "create"
    BY <1>1, <1>2, RequestTyped DEF TypeInv, HandlerOK, CheckedWindow, Window, Text
  <1>3. CASE q.op = "update"
    <2>1. seen \in Row /\ q.room \in Room \cup {None}
      BY <1>1, <1>3, RequestTyped
      DEF TypeInv, TypeOK, HandlerOK, Target, TargetOf
    <2>2. Or(q.room, seen.room) \in Room
      BY <2>1 DEF Or, Row
    <2>3. FinalStart(q, seen) \in Text /\ FinalEnd(q, seen) \in Text
      BY <1>1, <1>3, <2>1, RequestTyped DEF FinalStart, FinalEnd, Text, Row
    <2> QED
      BY <1>3, <2>2, <2>3 DEF CheckedWindow, Window
  <1> QED
    BY <1>1, <1>2, <1>3

LEMMA NewRowTyped ==
  ASSUME TypeInv, NEW r \in Req, pc[r] \in {"check", "before", "write"}
  PROVE  Target(r) \in Booking /\ NewRow(r) \in Row
  <1>1. req[r] \in Requests /\ Target(r) \in Booking
    BY TargetTyped DEF TypeInv, HandlerOK, Target
  <1>2. rows[Target(r)] \in Row \cup {None}
    BY <1>1 DEF TypeInv, TypeOK
  <1>3. /\ req[r].op = "create" => req[r].room \in Room /\ req[r].owner \in User
        /\ req[r].op = "update" => req[r].room \in Room \cup {None}
        /\ req[r].op # "create" => rows[Target(r)] # None
    BY <1>1 DEF TypeInv, HandlerOK, VersionsOK
  <1> QED
    BY <1>1, <1>2, <1>3, EffectTyped DEF NewRow
-----------------------------------------------------------------------------
LEMMA CreateBookingTypeInv ==
  ASSUME TypeInv, NEW r \in Req, NEW q \in Requests, CreateBooking(r, q)
  PROVE  TypeInv'
  <1> USE DEF TypeInv, TypeOK, Answer, CreateBooking, Goto, Refuse, table
  <1>1. TypeOK'
    OBVIOUS
  <1>2. pc' = [pc EXCEPT ![r] = "check"] =>
          q.op = "create" /\ q.room \in Room /\ q.owner \in User
    BY DEF RoomFound, UserFound
  <1>3. HandlerOK(r)'
    BY <1>2 DEF HandlerOK, Target
  <1>4. ASSUME NEW p \in Req \ {r} PROVE HandlerOK(p)'
    <2>1. pc'[p] = pc[p] /\ req'[p] = req[p]
      OBVIOUS
    <2>2. pc[p] # "idle" => Target(p) \in Booking
      BY TargetTyped DEF HandlerOK, Target
    <2> QED
      BY <2>1, <2>2, OthersOK
  <1>5. VersionsOK' /\ WritersExclude'
    BY DEF VersionsOK, WritersExclude
  <1> QED
    BY <1>1, <1>3, <1>4, <1>5

LEMMA ChangeBookingTypeInv ==
  ASSUME TypeInv, NEW r \in Req, NEW q \in Requests, ChangeBooking(r, q)
  PROVE  TypeInv'
  <1> USE DEF TypeInv, TypeOK, Answer, ChangeBooking, Goto, Refuse, table
  <1>1. TypeOK'
    OBVIOUS
  <1>2. HandlerOK(r)'
    BY RequestTyped DEF HandlerOK, Target, TargetOf
  <1>3. ASSUME NEW p \in Req \ {r} PROVE HandlerOK(p)'
    <2>1. pc'[p] = pc[p] /\ req'[p] = req[p]
      OBVIOUS
    <2>2. pc[p] # "idle" => Target(p) \in Booking
      BY TargetTyped DEF HandlerOK, Target
    <2> QED
      BY <2>1, <2>2, OthersOK
  <1>4. VersionsOK' /\ WritersExclude'
    BY DEF VersionsOK, WritersExclude
  <1> QED
    BY <1>1, <1>2, <1>3, <1>4


LEMMA ReadForUpdateTypeInv ==
  ASSUME TypeInv, NEW r \in Req, ReadForUpdate(r)
  PROVE  TypeInv'
  <1> DEFINE q == req[r]
             row == committed[q.id]
  <1>1. /\ q \in Requests /\ q.op = "update" /\ q.id \in Booking
        /\ pc[r] = "read" /\ committed \in [Booking -> Row \cup {None}]
        /\ Target(r) = q.id /\ row # None /\ committed # None
    BY RequestTyped, NoneIsNew DEF TypeInv, TypeOK, HandlerOK, ReadForUpdate, Target, TargetOf
  <1>2. /\ view' = [view EXCEPT ![r] = committed]
        /\ UNCHANGED <<req, scan, dirty, table>>
    BY DEF ReadForUpdate
  <1>3. /\ view' \in [Req -> [Booking -> Row \cup {None}] \cup {None}]
        /\ \A p \in Req \ {r} : view'[p] = view[p]
    BY <1>1, <1>2 DEF TypeInv, TypeOK
  <1>4. ASSUME NEW a \in {"not_found", "bad_request"}, Throw(r, a)
        PROVE  TypeInv'
    BY <1>1, <1>2, <1>3, <1>4, AbortTypeInv DEF TypeInv, TypeOK, InTransaction
  <1>5. ASSUME NEW next \in {"check", "before"}, Goto(r, next), UNCHANGED answer,
               Or(q.room, row.room) \in Room
        PROVE  TypeInv'
    <2>1. TypeOK'
      BY <1>2, <1>3, <1>5 DEF TypeInv, TypeOK, Goto, table
    <2>2. q.room \in Room \cup {None}
      BY <1>5 DEF Or
    <2>3. HandlerOK(r)'
      BY <1>1, <1>2, <1>5, <2>2
      DEF TypeInv, TypeOK, HandlerOK, Goto, table, Target, TargetOf
    <2>4. \A p \in Req \ {r} : pc'[p] = pc[p] /\ req'[p] = req[p]
      BY <1>2, <1>5 DEF TypeInv, TypeOK, Goto
    <2> QED
      BY <1>2, <1>3, <2>1, <2>3, <2>4, TableUnchanged
  <1> QED
    BY <1>4, <1>5 DEF ReadForUpdate, RoomFound

LEMMA ReadForCancelTypeInv ==
  ASSUME TypeInv, NEW r \in Req, ReadForCancel(r)
  PROVE  TypeInv'
  <1>1. /\ req[r] \in Requests /\ req[r].op = "cancel" /\ pc[r] = "read"
        /\ committed \in [Booking -> Row \cup {None}]
        /\ Target(r) = req[r].id /\ committed[req[r].id] # None
    BY DEF TypeInv, TypeOK, HandlerOK, ReadForCancel, Target, TargetOf
  <1>2. /\ view' \in [Req -> [Booking -> Row \cup {None}] \cup {None}]
        /\ \A p \in Req \ {r} : view'[p] = view[p]
    BY <1>1 DEF TypeInv, TypeOK, ReadForCancel
  <1>3. ASSUME NEW next \in {"commit", "before"}, Goto(r, next)
        PROVE  TypeInv'
    <2>1. TypeOK'
      BY <1>1, <1>2, <1>3 DEF TypeInv, TypeOK, Goto, table, ReadForCancel
    <2>2. HandlerOK(r)'
      BY <1>1, <1>3
      DEF TypeInv, TypeOK, HandlerOK, Goto, table, Target, TargetOf, ReadForCancel
    <2>3. \A p \in Req \ {r} : pc'[p] = pc[p] /\ req'[p] = req[p]
      BY <1>3 DEF TypeInv, TypeOK, Goto, ReadForCancel
    <2> QED
      BY <1>2, <2>1, <2>2, <2>3, TableUnchanged DEF ReadForCancel
  <1> QED
    BY <1>1, <1>3 DEF ReadForCancel

LEMMA CheckOverlapTypeInv ==
  ASSUME TypeInv, NEW r \in Req, CheckOverlap(r)
  PROVE  TypeInv'
  <1>1. /\ pc[r] = "check" /\ scan' \in [Req -> Window \cup {None}]
        /\ UNCHANGED <<req, view, dirty, table>>
    BY WindowTyped DEF CheckOverlap, ForUpdate, TypeInv, TypeOK
  <1>2. CASE Throw(r, "conflict")
    BY <1>1, <1>2, AbortTypeInv DEF TypeInv, TypeOK, InTransaction
  <1>3. CASE Goto(r, "before") /\ UNCHANGED answer
    <2>1. TypeOK'
      BY <1>1, <1>3 DEF TypeInv, TypeOK, Goto, table
    <2>2. HandlerOK(r)'
      BY <1>1, <1>3 DEF TypeInv, TypeOK, HandlerOK, Goto, table, Target, TargetOf
    <2>3. \A p \in Req \ {r} : pc'[p] = pc[p] /\ req'[p] = req[p]
      BY <1>1, <1>3 DEF TypeInv, TypeOK, Goto
    <2> QED
      BY <1>1, <2>1, <2>2, <2>3, TableUnchanged
  <1> QED
    BY <1>2, <1>3 DEF CheckOverlap, ForUpdate

(* Both kinds of write begin by taking the row. *)
LEMMA LockRowTypeInv ==
  ASSUME TypeInv, NEW r \in Req, pc[r] = "before",
         dirty' = [dirty EXCEPT ![r] = {Target(r)}],
         \A p \in Req \ {r} : Target(r) \notin dirty[p],
         UNCHANGED <<req, scan, table>>,
         view' \in [Req -> [Booking -> Row \cup {None}] \cup {None}],
         \A p \in Req \ {r} : view'[p] = view[p],
         req[r].op = "update" => view'[r] = view[r],
         \/ Throw(r, "error")
         \/ Goto(r, "write") /\ UNCHANGED answer
  PROVE  TypeInv'
  <1>1. req[r] \in Requests /\ Target(r) \in Booking
    BY TargetTyped DEF TypeInv, HandlerOK, Target
  <1>2. TypeOK'
    BY <1>1 DEF TypeInv, TypeOK, Answer, Throw, Goto, table
  <1>3. HandlerOK(r)'
    BY <1>1 DEF TypeInv, TypeOK, HandlerOK, Throw, Goto, table, Target
  <1>4. ASSUME NEW p \in Req \ {r} PROVE HandlerOK(p)'
    <2>1. pc[p] # "idle" => Target(p) \in Booking
      BY TargetTyped DEF TypeInv, HandlerOK, Target
    <2>2. pc'[p] = pc[p] /\ req'[p] = req[p] /\ dirty'[p] = dirty[p]
      BY DEF TypeInv, TypeOK, Throw, Goto
    <2> QED
      BY <2>1, <2>2, OthersOK DEF TypeInv, table
  <1>5. dirty[r] = {} /\ dirty \in [Req -> SUBSET Booking]
    BY DEF TypeInv, TypeOK, HandlerOK
  <1>6. VersionsOK'
    BY <1>5 DEF TypeInv, VersionsOK, table
  <1>7. WritersExclude'
    BY <1>5 DEF TypeInv, WritersExclude
  <1> QED
    BY <1>2, <1>3, <1>4, <1>6, <1>7 DEF TypeInv

LEMMA BeforeInsertTypeInv ==
  ASSUME TypeInv, NEW r \in Req, BeforeInsert(r)
  PROVE  TypeInv'
  <1>1. /\ pc[r] = "before" /\ req[r].op = "create" /\ Target(r) = r
        /\ committed[r] = None
    BY DEF BeforeInsert, TypeInv, HandlerOK, Target, TargetOf
  <1>2. ASSUME NEW p \in Req \ {r} PROVE Target(r) \notin dirty[p]
    <2>1. SUFFICES ASSUME Target(p) = r, dirty[p] # {} PROVE FALSE
      BY <1>1 DEF TypeInv, HandlerOK
    <2>2. req[p].op # "create"
      BY <2>1 DEF Target, TargetOf
    <2>3. pc[p] \in {"write", "commit", "abort"}
      BY <2>1 DEF TypeInv, TypeOK, HandlerOK
    <2> QED
      BY <1>1, <2>1, <2>2, <2>3 DEF TypeInv, HandlerOK
  <1>3. view' = [view EXCEPT ![r] = committed]
    BY DEF BeforeInsert
  <1>4. /\ view' \in [Req -> [Booking -> Row \cup {None}] \cup {None}]
        /\ \A p \in Req \ {r} : view'[p] = view[p]
    BY <1>3 DEF TypeInv, TypeOK
  <1> QED
    BY <1>1, <1>2, <1>4, LockRowTypeInv DEF BeforeInsert

LEMMA BeforeUpdateTypeInv ==
  ASSUME TypeInv, NEW r \in Req, BeforeUpdate(r)
  PROVE  TypeInv'
  <1>1. \A p \in Req \ {r} : Target(r) \notin dirty[p]
    BY DEF BeforeUpdate, RowBlocked, Locks
  <1>2. view' \in [Req -> [Booking -> Row \cup {None}] \cup {None}]
    BY DEF BeforeUpdate, TypeInv, TypeOK
  <1> QED
    BY <1>1, <1>2, LockRowTypeInv DEF BeforeUpdate

LEMMA WriteTypeInv ==
  ASSUME TypeInv, NEW r \in Req, Write(r)
  PROVE  TypeInv'
  <1> DEFINE b == Target(r)
             new == NewRow(r)
  <1>1. pc[r] = "write" /\ dirty[r] = {b} /\ UNCHANGED <<req, view, scan, dirty, committed>>
    BY DEF Write, TypeInv, HandlerOK
  <1>2. b \in Booking /\ new \in Row /\ new # None
    BY <1>1, NewRowTyped, NoneIsNew
  <1>3. CASE Throw(r, "error") /\ UNCHANGED rows
    BY <1>1, <1>3, AbortTypeInv DEF TypeInv, TypeOK, InTransaction, table
  <1>4. CASE /\ rows' = [rows EXCEPT ![b] = new]
             /\ Goto(r, "commit") /\ UNCHANGED answer
    <2>1. TypeOK'
      BY <1>1, <1>2, <1>4 DEF TypeInv, TypeOK, Goto
    <2>2. HandlerOK(r)'
      BY <1>1, <1>2, <1>4 DEF TypeInv, TypeOK, HandlerOK, Goto, Target
    <2>3. ASSUME NEW p \in Req \ {r} PROVE HandlerOK(p)'
      <3>1. pc'[p] = pc[p] /\ (pc[p] # "idle" => Target(p) \in Booking)
        BY <1>4, TargetTyped DEF TypeInv, TypeOK, HandlerOK, Goto, Target
      <3>2. committed[p] = None => b # p
        BY <1>1 DEF TypeInv, HandlerOK, Target, TargetOf
      <3>3. committed[p] = None => rows'[p] = rows[p] /\ committed'[p] = None
        BY <1>1, <1>4, <3>2 DEF TypeInv, TypeOK, Booking
      <3> QED
        BY <1>1, <3>1, <3>3, OthersOK DEF TypeInv
    <2>4. VersionsOK'
      BY <1>1, <1>2, <1>4 DEF TypeInv, TypeOK, VersionsOK
    <2>5. WritersExclude'
      BY <1>1 DEF TypeInv, WritersExclude
    <2> QED
      BY <2>1, <2>2, <2>3, <2>4, <2>5 DEF TypeInv
  <1> QED
    BY <1>3, <1>4 DEF Write

LEMMA CommitTypeInv ==
  ASSUME TypeInv, NEW r \in Req, Commit(r)
  PROVE  TypeInv'
  <1>1. /\ pc[r] = "commit" /\ UNCHANGED <<req, rows>>
        /\ committed' = [b \in Booking |->
                           IF b \in dirty[r] THEN rows[b] ELSE committed[b]]
        /\ dirty' = [dirty EXCEPT ![r] = {}]
    BY DEF Commit, Release
  <1>2. dirty[r] # {} => dirty[r] = {Target(r)} /\ Target(r) \in Booking
    BY <1>1, TargetTyped DEF TypeInv, HandlerOK, Target
  <1>3. TypeOK'
    BY <1>1 DEF Commit, Release, Goto, TypeInv, TypeOK, Answer
  <1>4. \A b \in Booking : committed[b] # None => committed'[b] # None
    BY <1>1 DEF TypeInv, VersionsOK
  <1>5. HandlerOK(r)'
    BY <1>1 DEF Commit, Release, Goto, TypeInv, TypeOK, HandlerOK
  <1>6. ASSUME NEW p \in Req \ {r} PROVE HandlerOK(p)'
    <2>1. /\ pc'[p] = pc[p] /\ view'[p] = view[p] /\ dirty'[p] = dirty[p]
          /\ pc[p] # "idle" => Target(p) \in Booking
      BY TargetTyped DEF Commit, Release, Goto, TypeInv, TypeOK, HandlerOK, Target
    <2>2. committed[p] = None => p \notin dirty[r]
      BY <1>1, <1>2 DEF TypeInv, HandlerOK, Target, TargetOf
    <2>3. committed[p] = None => committed'[p] = None
      BY <1>1, <2>2 DEF Booking
    <2> QED
      BY <1>1, <1>4, <2>1, <2>3, OthersOK DEF TypeInv
  <1>7. VersionsOK'
    BY <1>1 DEF TypeInv, TypeOK, VersionsOK
  <1>8. WritersExclude'
    BY <1>1 DEF TypeInv, TypeOK, WritersExclude
  <1> QED
    BY <1>3, <1>5, <1>6, <1>7, <1>8 DEF TypeInv

LEMMA RollbackTypeInv ==
  ASSUME TypeInv, NEW r \in Req, Rollback(r)
  PROVE  TypeInv'
  <1>1. /\ pc[r] = "abort" /\ UNCHANGED <<req, committed>>
        /\ rows' = [b \in Booking |->
                      IF b \in dirty[r] THEN committed[b] ELSE rows[b]]
        /\ dirty' = [dirty EXCEPT ![r] = {}]
    BY DEF Rollback, Release
  <1>2. TypeOK'
    BY <1>1 DEF Rollback, Release, Goto, TypeInv, TypeOK
  <1>3. HandlerOK(r)'
    BY <1>1 DEF Rollback, Release, Goto, TypeInv, TypeOK, HandlerOK
  <1>4. ASSUME NEW p \in Req \ {r} PROVE HandlerOK(p)'
    <2>1. /\ pc'[p] = pc[p] /\ view'[p] = view[p] /\ dirty'[p] = dirty[p]
          /\ pc[p] # "idle" => Target(p) \in Booking
      BY TargetTyped DEF Rollback, Release, Goto, TypeInv, TypeOK, HandlerOK, Target
    <2>2. committed[p] = None => p \notin dirty[r]
      BY <1>1 DEF TypeInv, HandlerOK, Target, TargetOf
    <2>3. committed[p] = None => rows'[p] = rows[p]
      BY <1>1, <2>2 DEF Booking
    <2> QED
      BY <1>1, <2>1, <2>3, OthersOK DEF TypeInv
  <1>5. VersionsOK'
    BY <1>1 DEF TypeInv, TypeOK, VersionsOK
  <1>6. WritersExclude'
    BY <1>1 DEF TypeInv, TypeOK, WritersExclude
  <1> QED
    BY <1>2, <1>3, <1>4, <1>5, <1>6 DEF TypeInv

LEMMA ErrorTypeInv ==
  ASSUME TypeInv, NEW r \in Req, Fail(r) \/ LockTimeout(r)
  PROVE  TypeInv'
  <1>1. InTransaction(r) /\ Throw(r, "error") /\ UNCHANGED <<req, view, scan, dirty, table>>
    BY DEF Fail, LockTimeout, Blocked, InTransaction
  <1> QED
    BY <1>1, AbortTypeInv DEF TypeInv, TypeOK

LEMMA NextTypeInv == TypeInv /\ [Next]_vars => TypeInv'
  <1> SUFFICES ASSUME TypeInv, [Next]_vars PROVE TypeInv'
    OBVIOUS
  <1>1. CASE UNCHANGED vars
    BY <1>1 DEF vars, table, TypeInv, TypeOK, HandlerOK, VersionsOK,
                WritersExclude, Target
  <1>2. ASSUME NEW r \in Req, Arrive(r) PROVE TypeInv'
    BY <1>2, CreateBookingTypeInv, ChangeBookingTypeInv DEF Arrive
  <1>3. ASSUME NEW r \in Req, Step(r) PROVE TypeInv'
    BY <1>3, ReadForUpdateTypeInv, ReadForCancelTypeInv, CheckOverlapTypeInv,
       BeforeInsertTypeInv, BeforeUpdateTypeInv, WriteTypeInv, CommitTypeInv,
       RollbackTypeInv DEF Step
  <1> QED
    BY <1>1, <1>2, <1>3, ErrorTypeInv DEF Next

\* Type correctness, and the facts about handlers it rests on: what each step
\* of createBooking, updateBooking and cancelBooking finds when it runs.
THEOREM TypeInvariant == Spec => []TypeInv
  BY InitTypeInv, NextTypeInv, PTL DEF Spec

\* Every variable holds values of its kind, whatever the requests.
THEOREM TypeCorrect == Spec => []TypeOK
  <1>1. TypeInv => TypeOK
    BY DEF TypeInv
  <1> QED
    BY <1>1, TypeInvariant, PTL
-----------------------------------------------------------------------------
(* No double booking.  The argument is about locks alone: the triggers are  *)
(* never used.  A handler's window is free of every version of every other  *)
(* booking when it checks, its locks keep it free, and if the window is the *)
(* interval that the handler stores, the new version overlaps none.         *)

LEMMA InitLockInv == Init => LockInv
  <1> SUFFICES ASSUME Init PROVE LockInv
    OBVIOUS
  <1>1. \A r \in Req : WindowStaysFree(r) /\ WindowIsOwn(r) /\ ScanIsChecked(r)
    BY DEF Init, WindowStaysFree, WindowIsOwn, ScanIsChecked
  <1>2. NoVersionsClash
    BY SeedIsClean DEF Init, NoVersionsClash, Versions, Overlap
  <1> QED
    BY <1>1, <1>2 DEF LockInv

LEMMA WriteVersions ==
  ASSUME TypeInv, NEW r \in Req, Write(r), NEW b \in Booking, NEW v \in Versions(b)'
  PROVE  v \in Versions(b) \/ (b = Target(r) /\ v = NewRow(r))
  <1>1. /\ rows' \in {rows, [rows EXCEPT ![Target(r)] = NewRow(r)]}
        /\ UNCHANGED committed /\ rows \in [Booking -> Row \cup {None}]
    BY DEF Write, TypeInv, TypeOK
  <1>2. rows'[b] = rows[b] \/ (b = Target(r) /\ rows'[b] = NewRow(r))
    BY <1>1
  <1> QED
    BY <1>1, <1>2 DEF Versions

(* Every step but Write: no booking gets a new version. *)
LEMMA NoNewVersions ==
  ASSUME LockInv, NEW r \in Req,
         \A b \in Booking : Versions(b)' \subseteq Versions(b),
         \A p \in Req \ {r} : pc'[p] = pc[p] /\ req'[p] = req[p] /\ scan'[p] = scan[p],
         WindowStaysFree(r)', WindowIsOwn(r)', ScanIsChecked(r)'
  PROVE  LockInv'
  <1>1. ASSUME NEW p \in Req \ {r}
        PROVE  WindowStaysFree(p)' /\ WindowIsOwn(p)' /\ ScanIsChecked(p)'
    BY DEF LockInv, WindowStaysFree, WindowIsOwn, ScanIsChecked, Target
  <1>2. NoVersionsClash'
    BY DEF LockInv, NoVersionsClash
  <1> QED
    BY <1>1, <1>2 DEF LockInv

LEMMA ArriveLockInv ==
  ASSUME TypeInv, LockInv, NEW r \in Req, Arrive(r)
  PROVE  LockInv'
  <1>1. PICK q \in Requests : CreateBooking(r, q) \/ ChangeBooking(r, q)
    BY DEF Arrive
  <1>2. /\ pc[r] = "idle" /\ pc'[r] \in {"check", "read", "done"}
        /\ UNCHANGED <<scan, rows, committed>>
        /\ \A p \in Req \ {r} : pc'[p] = pc[p] /\ req'[p] = req[p]
    BY <1>1 DEF CreateBooking, ChangeBooking, Goto, Refuse, table, TypeInv, TypeOK
  <1>3. WindowStaysFree(r)' /\ WindowIsOwn(r)' /\ ScanIsChecked(r)'
    BY <1>2 DEF LockInv, WindowStaysFree, WindowIsOwn, ScanIsChecked
  <1> QED
    BY <1>2, <1>3, NoNewVersions DEF Versions

LEMMA ReadLockInv ==
  ASSUME TypeInv, LockInv, NEW r \in Req, ReadForUpdate(r) \/ ReadForCancel(r)
  PROVE  LockInv'
  <1>1. /\ pc[r] = "read" /\ UNCHANGED <<req, scan, rows, committed>>
        /\ pc'[r] \in {"abort", "check", "before", "commit"}
        /\ \A p \in Req \ {r} : pc'[p] = pc[p]
    BY DEF ReadForUpdate, ReadForCancel, Throw, Goto, table, TypeInv, TypeOK
  <1>2. req[r].op = "create" => FALSE
    BY DEF ReadForUpdate, ReadForCancel
  <1>3. pc'[r] = "before" /\ req[r].op = "update" => req[r].start = None
    BY DEF ReadForUpdate, ReadForCancel, NeedsOverlapCheck, Throw, Goto, TypeInv, TypeOK
  <1>4. WindowStaysFree(r)' /\ WindowIsOwn(r)' /\ ScanIsChecked(r)'
    BY <1>1, <1>2, <1>3 DEF LockInv, WindowStaysFree, WindowIsOwn, ScanIsChecked
  <1> QED
    BY <1>1, <1>4, NoNewVersions DEF Versions

LEMMA CheckOverlapLockInv ==
  ASSUME \A q \in Requests : SelfContained(q),
         TypeInv, LockInv, NEW r \in Req, CheckOverlap(r)
  PROVE  LockInv'
  <1> DEFINE w == CheckedWindow(r)
  <1>1. /\ pc[r] = "check" /\ UNCHANGED <<req, rows, committed>>
        /\ scan' = [scan EXCEPT ![r] = w]
        /\ pc'[r] \in {"abort", "before"}
        /\ \A p \in Req \ {r} : pc'[p] = pc[p]
    BY DEF CheckOverlap, ForUpdate, Throw, Goto, table, TypeInv, TypeOK
  <1>2. scan'[r] = w /\ \A p \in Req \ {r} : scan'[p] = scan[p]
    BY <1>1 DEF TypeInv, TypeOK
  <1>3. ASSUME pc'[r] = "before",
               NEW b \in Booking \ {Target(r)}, NEW v \in Versions(b)
        PROVE  ~Matches(w, v)
    <2>1. w \in Window /\ v \in Row
      BY <1>1, WindowTyped DEF Versions, TypeInv, TypeOK
    <2>2. rows[b] # None => ~Matches(w, rows[b])
      BY <1>3 DEF CheckOverlap, ForUpdate, Throw, Goto, TypeInv, TypeOK
    <2>3. CASE rows[b] = committed[b]
      BY <2>2, <2>3 DEF Versions
    <2>4. CASE rows[b] # committed[b]
      <3>1. PICK q \in Req : b \in dirty[q]
        BY <2>4 DEF TypeInv, VersionsOK
      <3>2. q # r
        BY <1>1, <3>1 DEF TypeInv, HandlerOK
      <3>3. ~Scanned(w, v)
        BY <3>1, <3>2 DEF CheckOverlap, ForUpdate, ScanBlocked, Locks, Versions
      <3> QED
        BY <2>1, <3>3, ScansCover
    <2> QED
      BY <2>3, <2>4
  <1>4. WindowStaysFree(r)'
    BY <1>1, <1>2, <1>3 DEF WindowStaysFree, Target, Versions
  <1>5. WindowIsOwn(r)'
    <2>1. req[r] \in Requests /\ (req[r].op = "update" => SelfContained(req[r]))
      BY <1>1 DEF TypeInv, HandlerOK
    <2>2. SUFFICES ASSUME \/ req[r].op = "create"
                          \/ req[r].op = "update" /\ req[r].start # None
                   PROVE  w = [room |-> req[r].room, from |-> req[r].start,
                               to |-> req[r].end]
      <3>1. w # None
        BY <1>1, WindowTyped, NoneIsNew
      <3> QED
        BY <1>1, <1>2, <3>1 DEF WindowIsOwn
    <2>3. CASE req[r].op = "create"
      BY <2>3 DEF CheckedWindow
    <2>4. CASE req[r].op = "update" /\ req[r].start # None
      <3>1. None \notin {req[r].room, req[r].start, req[r].end} /\ ProcTz = 0
        BY <2>1, <2>4 DEF SelfContained
      <3>2. req[r].start \in Int /\ req[r].end \in Int
        BY <2>1, <2>4, <3>1, RequestTyped, ZonesAreInts
      <3> QED
        BY <2>4, <3>1, <3>2 DEF CheckedWindow, Or, FinalStart, FinalEnd, DataInstant
    <2> QED
      BY <2>2, <2>3, <2>4
  <1>6. ScanIsChecked(r)'
    BY <1>1 DEF ScanIsChecked
  <1> QED
    BY <1>1, <1>2, <1>4, <1>5, <1>6, NoNewVersions DEF Versions

LEMMA BeforeLockInv ==
  ASSUME TypeInv, LockInv, NEW r \in Req, BeforeInsert(r) \/ BeforeUpdate(r)
  PROVE  LockInv'
  <1>1. /\ pc[r] = "before" /\ UNCHANGED <<req, scan, rows, committed>>
        /\ pc'[r] \in {"abort", "write"}
        /\ \A p \in Req \ {r} : pc'[p] = pc[p]
    BY DEF BeforeInsert, BeforeUpdate, Throw, Goto, table, TypeInv, TypeOK
  <1>2. WindowStaysFree(r)' /\ WindowIsOwn(r)' /\ ScanIsChecked(r)'
    BY <1>1 DEF LockInv, WindowStaysFree, WindowIsOwn, ScanIsChecked, Target, Versions
  <1> QED
    BY <1>1, <1>2, NoNewVersions DEF Versions

(* The new version clashes with no version of another booking. *)
LEMMA NewVersionFits ==
  ASSUME \A q \in Requests : SelfContained(q),
         TypeInv, LockInv, NEW r \in Req, pc[r] = "write",
         NewRow(r).status \in Active,
         NEW c \in Booking \ {Target(r)}, NEW y \in Versions(c), y.status \in Active
  PROVE  ~Overlap(NewRow(r), y)
  <1> DEFINE q == req[r]
             old == rows[Target(r)]
             new == NewRow(r)
  <1>1. /\ q \in Requests /\ (q.op = "update" => SelfContained(q))
        /\ Target(r) \in Booking /\ new \in Row /\ y \in Row
    BY NewRowTyped DEF TypeInv, TypeOK, HandlerOK, Versions
  <1>2. CASE q.op = "create" \/ (q.op = "update" /\ q.start # None)
    <2>1. scan[r] = [room |-> q.room, from |-> q.start, to |-> q.end]
      BY <1>2 DEF LockInv, WindowIsOwn
    <2>2. new.room = q.room /\ new.start = q.start /\ new.end = q.end
      <3>1. CASE q.op = "create"
        BY <3>1 DEF NewRow, Effect
      <3>2. CASE q.op = "update" /\ q.start # None
        BY <1>1, <3>2 DEF NewRow, Effect, Or, SelfContained
      <3> QED
        BY <1>2, <3>1, <3>2
    <2>3. ~Matches(scan[r], y)
      BY <1>2 DEF LockInv, WindowStaysFree, WindowIsOwn
    <2>4. /\ new.start \in Int /\ new.end \in Int
          /\ y.start \in Int /\ y.end \in Int
      BY <1>1, ZonesAreInts DEF Row
    <2> QED
      BY <2>1, <2>2, <2>3, <2>4 DEF Matches, Overlap
  <1>3. CASE q.op = "update" /\ q.start = None
    <2>1. q.room = None /\ q.end = None /\ q.status \notin Active
      BY <1>1, <1>3 DEF SelfContained
    <2>2. /\ new.room = old.room /\ new.start = old.start /\ new.end = old.end
          /\ old.status \in Active
      BY <1>3, <2>1 DEF NewRow, Effect, Or
    <2>3. old \in Versions(Target(r))
      BY <1>1, <1>3 DEF Versions, TypeInv, HandlerOK, VersionsOK
    <2> QED
      BY <1>1, <2>2, <2>3 DEF LockInv, NoVersionsClash, Overlap
  <1>4. CASE q.op = "cancel"
    <2>1. rows[Target(r)] \in Row
      BY <1>1, <1>4 DEF TypeInv, TypeOK, HandlerOK, VersionsOK
    <2>2. new.status = "cancelled"
      BY <1>4, <2>1 DEF NewRow, Effect, Row
    <2> QED
      BY <2>2 DEF Active
  <1> QED
    BY <1>1, <1>2, <1>3, <1>4, RequestTyped

LEMMA WriteLockInv ==
  ASSUME \A q \in Requests : SelfContained(q),
         TypeInv, LockInv, NEW r \in Req, Write(r)
  PROVE  LockInv'
  <1> DEFINE b == Target(r)
             new == NewRow(r)
  <1>1. /\ pc[r] = "write" /\ UNCHANGED <<req, scan, committed>>
        /\ pc'[r] \in {"abort", "commit"}
        /\ \A p \in Req \ {r} : pc'[p] = pc[p]
    BY DEF Write, Throw, Goto, TypeInv, TypeOK
  <1>2. b \in Booking /\ new \in Row
    BY <1>1, NewRowTyped
  <1>3. ASSUME NEW c \in Booking, NEW v \in Versions(c)'
        PROVE  v \in Versions(c) \/ (c = b /\ v = new)
    BY <1>3, WriteVersions
  <1>4. ASSUME NEW p \in Req
        PROVE  WindowStaysFree(p)' /\ WindowIsOwn(p)' /\ ScanIsChecked(p)'
    <2>1. CASE p = r
      BY <1>1, <1>3, <2>1
      DEF LockInv, WindowStaysFree, WindowIsOwn, ScanIsChecked, Target
    <2>2. CASE p # r
      <3>1. scan[p] # None => ~Matches(scan[p], new)
        BY <1>2, <2>2, ScansCover DEF Write, GapBlocked, TypeInv, TypeOK
      <3> QED
        BY <1>1, <1>3, <2>2, <3>1
        DEF LockInv, WindowStaysFree, WindowIsOwn, ScanIsChecked, Target
    <2> QED
      BY <2>1, <2>2
  <1>5. NoVersionsClash'
    <2> SUFFICES ASSUME NEW c \in Booking, NEW d \in Booking, c # d,
                        NEW x \in Versions(c)', NEW y \in Versions(d)',
                        x.status \in Active, y.status \in Active
                 PROVE  ~Overlap(x, y)
      BY DEF NoVersionsClash
    <2>1. CASE x \in Versions(c) /\ y \in Versions(d)
      BY <2>1 DEF LockInv, NoVersionsClash
    <2>2. CASE c = b /\ x = new
      BY <1>1, <1>3, <2>2, NewVersionFits
    <2>3. CASE d = b /\ y = new
      <3>1. ~Overlap(new, x)
        BY <1>1, <1>3, <2>3, NewVersionFits
      <3> QED
        BY <2>3, <3>1 DEF Overlap
    <2>4. /\ x \in Versions(c) \/ (c = b /\ x = new)
          /\ y \in Versions(d) \/ (d = b /\ y = new)
      BY <1>3
    <2> QED
      BY <2>1, <2>2, <2>3, <2>4
  <1> QED
    BY <1>4, <1>5 DEF LockInv

LEMMA EndLockInv ==
  ASSUME TypeInv, LockInv, NEW r \in Req, Commit(r) \/ Rollback(r)
  PROVE  LockInv'
  <1>1. /\ UNCHANGED req /\ pc'[r] = "done"
        /\ scan' = [scan EXCEPT ![r] = None]
        /\ \A p \in Req \ {r} : pc'[p] = pc[p]
    BY DEF Commit, Rollback, Release, Goto, TypeInv, TypeOK
  <1>2. ASSUME NEW b \in Booking PROVE Versions(b)' \subseteq Versions(b)
    BY <1>2 DEF Commit, Rollback, Versions
  <1>3. /\ \A p \in Req \ {r} : scan'[p] = scan[p]
        /\ WindowStaysFree(r)' /\ WindowIsOwn(r)' /\ ScanIsChecked(r)'
    BY <1>1 DEF TypeInv, TypeOK, WindowStaysFree, WindowIsOwn, ScanIsChecked
  <1> QED
    BY <1>1, <1>2, <1>3, NoNewVersions

LEMMA ErrorLockInv ==
  ASSUME TypeInv, LockInv, NEW r \in Req, Fail(r) \/ LockTimeout(r)
  PROVE  LockInv'
  <1>1. /\ pc'[r] = "abort" /\ UNCHANGED <<req, scan, rows, committed>>
        /\ \A p \in Req \ {r} : pc'[p] = pc[p]
    BY DEF Fail, LockTimeout, Throw, Goto, table, TypeInv, TypeOK
  <1>2. WindowStaysFree(r)' /\ WindowIsOwn(r)' /\ ScanIsChecked(r)'
    BY <1>1 DEF WindowStaysFree, WindowIsOwn, ScanIsChecked
  <1> QED
    BY <1>1, <1>2, NoNewVersions DEF Versions

LEMMA NextLockInv ==
  ASSUME \A q \in Requests : SelfContained(q)
  PROVE  TypeInv /\ LockInv /\ [Next]_vars => LockInv'
  <1> SUFFICES ASSUME TypeInv, LockInv, [Next]_vars PROVE LockInv'
    OBVIOUS
  <1>1. CASE UNCHANGED vars
    BY <1>1 DEF vars, table, LockInv, WindowStaysFree, WindowIsOwn, ScanIsChecked,
                NoVersionsClash, Versions, Target
  <1>2. ASSUME NEW r \in Req, Step(r) PROVE LockInv'
    BY <1>2, ReadLockInv, CheckOverlapLockInv, BeforeLockInv, WriteLockInv,
       EndLockInv DEF Step
  <1> QED
    BY <1>1, <1>2, ArriveLockInv, ErrorLockInv DEF Next

LEMMA LockInvNoDoubleBooking == LockInv => NoDoubleBooking
  BY DEF LockInv, NoVersionsClash, Versions, NoDoubleBooking, ActiveIn

\* The promise of the whole booking service: as long as every update is
\* self-contained, no interleaving of creates, updates, cancellations, failures
\* and lock timeouts leaves two active bookings of a room that overlap.
THEOREM NoDoubleBookingHolds ==
  ASSUME \A q \in Requests : SelfContained(q)
  PROVE  Spec => []NoDoubleBooking
  <1>1. Init => TypeInv /\ LockInv
    BY InitTypeInv, InitLockInv
  <1>2. TypeInv /\ LockInv /\ [Next]_vars => (TypeInv /\ LockInv)'
    BY NextTypeInv, NextLockInv
  <1>3. TypeInv /\ LockInv => NoDoubleBooking
    BY LockInvNoDoubleBooking
  <1> QED
    BY <1>1, <1>2, <1>3, PTL DEF Spec
-----------------------------------------------------------------------------
LEMMA OtherVersions ==
  ASSUME [Next]_vars, \A r \in Req : ~Write(r), NEW b \in Booking
  PROVE  Versions(b)' \subseteq Versions(b)
  <1>1. CASE UNCHANGED table
    BY <1>1 DEF Versions, table
  <1>2. CASE \E r \in Req : Commit(r) \/ Rollback(r)
    BY <1>2 DEF Commit, Rollback, Versions
  <1> QED
    <2>1. ASSUME NEW r \in Req, Arrive(r) PROVE UNCHANGED table
      BY <2>1 DEF Arrive, CreateBooking, ChangeBooking
    <2>2. ASSUME NEW r \in Req, Fail(r) \/ LockTimeout(r) PROVE UNCHANGED table
      BY <2>2 DEF Fail, LockTimeout
    <2>3. ASSUME NEW r \in Req, Step(r), ~(Commit(r) \/ Rollback(r))
          PROVE  UNCHANGED table
      <3>1. ReadForUpdate(r) \/ ReadForCancel(r) \/ CheckOverlap(r)
              \/ BeforeInsert(r) \/ BeforeUpdate(r)
        BY <2>3 DEF Step
      <3> QED
        BY <3>1 DEF ReadForUpdate, ReadForCancel, CheckOverlap, ForUpdate, BeforeInsert, BeforeUpdate
    <2>4. UNCHANGED vars => UNCHANGED table
      BY DEF vars, table
    <2> QED
      BY <1>1, <1>2, <2>1, <2>2, <2>3, <2>4 DEF Next

LEMMA InitVersionsProper == Init => VersionsProper
  BY SeedIsClean DEF Init, VersionsProper, Versions, ChkEndAfterStart

LEMMA NextVersionsProper ==
  TypeInv /\ VersionsProper /\ [Next]_vars => VersionsProper'
  <1> SUFFICES ASSUME TypeInv, VersionsProper, [Next]_vars,
                      NEW b \in Booking, NEW v \in Versions(b)'
               PROVE  ChkEndAfterStart(v)
    BY DEF VersionsProper, ChkEndAfterStart
  <1>1. CASE v \in Versions(b)
    BY <1>1 DEF VersionsProper
  <1>2. CASE v \notin Versions(b)
    <2>1. PICK r \in Req : Write(r) /\ v = NewRow(r)
      BY <1>2, OtherVersions, WriteVersions
    <2>2. CASE ChkEndAfterStart(NewRow(r))
      BY <2>1, <2>2
    <2>3. CASE UNCHANGED rows
      BY <1>2, <2>1, <2>3 DEF Write, Versions
    <2> QED
      BY <2>1, <2>2, <2>3 DEF Write
  <1> QED
    BY <1>1, <1>2

\* A stored booking ends after it starts, also when two updates have each moved
\* one end of it without seeing the other: the CHECK of setup_database.sql sees
\* the merged row, which validateBookingTimes never does.
THEOREM NoInvertedRowHolds == Spec => []NoInvertedRow
  <1>1. VersionsProper => NoInvertedRow
    BY DEF VersionsProper, Versions, NoInvertedRow, ChkEndAfterStart
  <1> QED
    BY <1>1, InitVersionsProper, NextVersionsProper, TypeInvariant, PTL DEF Spec
-----------------------------------------------------------------------------
(* The insert trigger.  A create that reaches its INSERT has had its times  *)
(* validated, and the window it has scanned is the interval it inserts, so  *)
(* a row the trigger would object to is one the scan keeps out.             *)

CreatesForward ==
  \A r \in Req : pc[r] \in {"check", "before"} /\ req[r].op = "create"
                  => req[r].end > req[r].start

(* The trigger's three cases all fall within findOverlapping's WHERE, if    *)
(* both intervals end after they start.                                     *)
LEMMA ClashesMatch ==
  ASSUME NEW new \in Row, NEW row \in Row,
         ChkEndAfterStart(new), ChkEndAfterStart(row), Clashes(new, row)
  PROVE  Matches([room |-> new.room, from |-> new.start, to |-> new.end], row)
  <1>1. /\ new.start \in Int /\ new.end \in Int
        /\ row.start \in Int /\ row.end \in Int
    BY ZonesAreInts DEF Row
  <1> QED
    BY <1>1 DEF Clashes, Matches, ChkEndAfterStart

LEMMA NextCreatesForward ==
  TypeInv /\ CreatesForward /\ [Next]_vars => CreatesForward'
  <1> SUFFICES ASSUME TypeInv, CreatesForward, [Next]_vars, NEW r \in Req,
                      pc'[r] \in {"check", "before"}, req'[r].op = "create"
               PROVE  req'[r].end > req'[r].start
    BY DEF CreatesForward
  <1>1. CASE pc[r] \in {"check", "before"} /\ req'[r] = req[r]
    BY <1>1 DEF CreatesForward
  <1>2. CASE \E q \in Requests : CreateBooking(r, q)
    <2>1. PICK q \in Requests : CreateBooking(r, q)
      BY <1>2
    <2>2. /\ q.op = "create" /\ req'[r] = q
          /\ DataInstant(q.end) > DataInstant(q.start)
      BY <2>1 DEF CreateBooking, Refuse, Goto, validateBookingTimes, TypeInv, TypeOK
    <2>3. q.start \in Int /\ q.end \in Int /\ ProcTz \in Int
      BY <2>2, RequestTyped, ZonesAreInts
    <2> QED
      BY <2>2, <2>3 DEF DataInstant
  <1>3. CASE UNCHANGED vars
    BY <1>1, <1>3 DEF vars
  <1>4. ASSUME NEW p \in Req, Arrive(p)
        PROVE  \/ pc[r] \in {"check", "before"} /\ req'[r] = req[r]
               \/ \E q \in Requests : CreateBooking(r, q)
    BY <1>4 DEF Arrive, CreateBooking, ChangeBooking, Goto, Refuse, TypeInv, TypeOK
  <1>5. ASSUME NEW p \in Req, Step(p) \/ Fail(p) \/ LockTimeout(p)
        PROVE  pc[r] \in {"check", "before"} /\ req'[r] = req[r]
    <2>1. UNCHANGED req
      BY <1>5 DEF Step, ReadForUpdate, ReadForCancel, CheckOverlap, BeforeInsert,
                  BeforeUpdate, Write, Commit, Rollback, Fail, LockTimeout
    <2>2. p # r => pc'[r] = pc[r]
      BY <1>5 DEF Step, ReadForUpdate, ReadForCancel, CheckOverlap, BeforeInsert,
                  BeforeUpdate, Write, Commit, Rollback, Fail, LockTimeout,
                  Throw, Goto, Release, TypeInv, TypeOK
    <2>3. p = r => pc[r] \in {"check", "before"}
      BY <1>5, <2>1 DEF Step, ReadForUpdate, ReadForCancel, CheckOverlap, BeforeInsert,
                  BeforeUpdate, Write, Commit, Rollback, Fail, LockTimeout,
                  Throw, Goto, Release, TypeInv, TypeOK
    <2> QED
      BY <2>1, <2>2, <2>3
  <1> QED
    BY <1>1, <1>2, <1>3, <1>4, <1>5 DEF Next

LEMMA InsertFindsNothing ==
  ASSUME TypeInv, LockInv, VersionsProper, CreatesForward,
         NEW r \in Req, BeforeInsert(r)
  PROVE  pc'[r] = "write"
  <1>1. /\ pc[r] = "before" /\ req[r].op = "create" /\ Target(r) = r
        /\ NewRow(r) \in Row /\ req[r].end > req[r].start
    BY NewRowTyped DEF BeforeInsert, Target, TargetOf, CreatesForward
  <1>2. /\ NewRow(r).room = req[r].room
        /\ NewRow(r).start = req[r].start /\ NewRow(r).end = req[r].end
    BY <1>1 DEF NewRow, Effect
  <1>3. ASSUME NEW b \in Booking \ {r}, committed[b] # None
        PROVE  ~Clashes(NewRow(r), committed[b])
    <2>1. committed[b] \in Row /\ committed[b] \in Versions(b)
      BY <1>3 DEF TypeInv, TypeOK, Versions
    <2>2. ChkEndAfterStart(NewRow(r)) /\ ChkEndAfterStart(committed[b])
      BY <1>1, <1>2, <2>1 DEF VersionsProper, ChkEndAfterStart
    <2>3. ~Matches(scan[r], committed[b])
      BY <1>1, <2>1 DEF LockInv, WindowStaysFree, WindowIsOwn
    <2>4. scan[r] = [room |-> NewRow(r).room, from |-> NewRow(r).start,
                     to |-> NewRow(r).end]
      BY <1>1, <1>2 DEF LockInv, WindowIsOwn
    <2> QED
      BY <1>1, <2>1, <2>2, <2>3, <2>4, ClashesMatch
  <1> QED
    BY <1>3 DEF BeforeInsert, Goto, TypeInv, TypeOK

\* The trigger of setup_database.sql never stops an INSERT of createBooking: a
\* client sees the handler's 409 and never the trigger's 500, as long as the
\* updates that run beside it are self-contained.
THEOREM InsertTriggerSilentHolds ==
  ASSUME \A q \in Requests : SelfContained(q)
  PROVE  Spec => InsertTriggerSilent
  <1> DEFINE Inv == TypeInv /\ LockInv /\ VersionsProper /\ CreatesForward
  <1>1. Init => Inv
    BY InitTypeInv, InitLockInv, InitVersionsProper DEF Init, CreatesForward
  <1>2. Inv /\ [Next]_vars => Inv'
    BY NextTypeInv, NextLockInv, NextVersionsProper, NextCreatesForward
  <1>3. Inv => [\A r \in Req : BeforeInsert(r) => pc'[r] = "write"]_vars
    BY InsertFindsNothing
  <1> QED
    BY <1>1, <1>2, <1>3, PTL DEF Spec, InsertTriggerSilent
-----------------------------------------------------------------------------
(* Cancelled bookings.  The row lock that a write takes makes it work on    *)
(* the last committed version, so what an update turns a cancelled booking  *)
(* into is decided by its body alone; and it has read another status.       *)

Editing(r) == pc[r] \in {"write", "commit"} /\ dirty[r] # {}

EditsCommitted(r) ==
  /\ pc[r] = "write" => rows[Target(r)] = committed[Target(r)]
  /\ pc[r] = "commit" /\ dirty[r] # {} =>
       rows[Target(r)] = Effect(req[r], committed[Target(r)])
  /\ Editing(r) /\ req[r].op = "create" => committed[r] = None
  /\ pc[r] \in {"check", "before", "write", "commit"} /\ req[r].op = "update" =>
       view[r][Target(r)].status # "cancelled"

(* The steps of one handler leave every other handler's facts alone. *)
LEMMA OthersEdits ==
  ASSUME TypeInv, NEW r \in Req, NEW p \in Req \ {r}, EditsCommitted(p),
         pc'[p] = pc[p], req'[p] = req[p], view'[p] = view[p], dirty'[p] = dirty[p],
         \A b \in Booking : b \in dirty[r] \/ (rows'[b] = rows[b] /\ committed'[b] = committed[b])
  PROVE  EditsCommitted(p)'
  <1>1. CASE Editing(p)
    <2>1. /\ dirty[p] = {Target(p)} /\ Target(p) \in Booking
          /\ dirty[p] \cap dirty[r] = {}
          /\ req[p].op = "create" => Target(p) = p
      BY <1>1, TargetTyped DEF Editing, TypeInv, HandlerOK, WritersExclude, Target, TargetOf
    <2>2. rows'[Target(p)] = rows[Target(p)] /\ committed'[Target(p)] = committed[Target(p)]
      BY <2>1
    <2> QED
      BY <2>1, <2>2 DEF EditsCommitted, Editing, Target
  <1>2. CASE ~Editing(p)
    <2>1. pc[p] # "write"
      BY <1>2 DEF Editing, TypeInv, HandlerOK
    <2> QED
      BY <1>2, <2>1 DEF EditsCommitted, Editing, Target
  <1> QED
    BY <1>1, <1>2

LEMMA StepFrame ==
  ASSUME TypeInv, NEW r \in Req, Arrive(r) \/ Step(r) \/ Fail(r) \/ LockTimeout(r)
  PROVE  /\ \A p \in Req \ {r} : /\ pc'[p] = pc[p] /\ req'[p] = req[p]
                                 /\ view'[p] = view[p] /\ dirty'[p] = dirty[p]
         /\ \A b \in Booking : \/ b \in dirty[r]
                               \/ rows'[b] = rows[b] /\ committed'[b] = committed[b]
  <1> USE DEF Throw, Goto, Refuse, table, TypeInv, TypeOK
  <1>1. CASE Arrive(r)
    BY <1>1 DEF Arrive, CreateBooking, ChangeBooking
  <1>2. CASE Fail(r) \/ LockTimeout(r)
    BY <1>2 DEF Fail, LockTimeout
  <1>3. CASE ReadForUpdate(r) \/ ReadForCancel(r)
    BY <1>3 DEF ReadForUpdate, ReadForCancel
  <1>4. CASE CheckOverlap(r)
    BY <1>4 DEF CheckOverlap
  <1>5. CASE BeforeInsert(r) \/ BeforeUpdate(r)
    BY <1>5 DEF BeforeInsert, BeforeUpdate
  <1>6. CASE Write(r)
    <2>1. dirty[r] = {Target(r)}
      BY <1>6 DEF Write, HandlerOK
    <2> QED
      BY <1>6, <2>1 DEF Write
  <1>7. CASE Commit(r) \/ Rollback(r)
    BY <1>7 DEF Commit, Rollback, Release
  <1> QED
    BY <1>1, <1>2, <1>3, <1>4, <1>5, <1>6, <1>7 DEF Step

LEMMA NextEdits ==
  TypeInv /\ (\A r \in Req : EditsCommitted(r)) /\ [Next]_vars
    => (\A r \in Req : EditsCommitted(r))'
  <1> SUFFICES ASSUME TypeInv, \A r \in Req : EditsCommitted(r), [Next]_vars
               PROVE  \A r \in Req : EditsCommitted(r)'
    OBVIOUS
  <1>1. CASE UNCHANGED vars
    BY <1>1 DEF vars, table, EditsCommitted, Editing, Target
  <1>2. ASSUME NEW r \in Req, Arrive(r) \/ Step(r) \/ Fail(r) \/ LockTimeout(r)
        PROVE  \A p \in Req : EditsCommitted(p)'
    <2>1. SUFFICES EditsCommitted(r)'
      BY <1>2, StepFrame, OthersEdits
    <2> USE DEF Throw, Goto, Refuse, table, TypeInv, TypeOK
    <2>2. CASE Arrive(r)
      BY <2>2 DEF Arrive, CreateBooking, ChangeBooking, EditsCommitted, Editing
    <2>3. CASE Fail(r) \/ LockTimeout(r) \/ Commit(r) \/ Rollback(r)
      BY <2>3 DEF Fail, LockTimeout, Commit, Rollback, Release, EditsCommitted, Editing
    <2>4. CASE ReadForUpdate(r)
      <3>1. CASE pc'[r] = "abort"
        BY <3>1 DEF EditsCommitted, Editing
      <3>2. CASE pc'[r] # "abort"
        <4>1. /\ pc'[r] \in {"check", "before"} /\ view'[r] = committed /\ req' = req
              /\ req[r].op = "update" /\ Updatable(committed[req[r].id])
          BY <2>4, <3>2 DEF ReadForUpdate
        <4> QED
          BY <4>1 DEF EditsCommitted, Editing, Updatable, Target, TargetOf
      <3> QED
        BY <3>1, <3>2
    <2>5. CASE ReadForCancel(r)
      <3>1. /\ pc'[r] \in {"abort", "before", "commit"} /\ dirty'[r] = {}
            /\ req'[r].op = "cancel"
        BY <2>5 DEF ReadForCancel, HandlerOK
      <3> QED
        BY <3>1 DEF EditsCommitted, Editing
    <2>6. CASE CheckOverlap(r)
      BY <2>6 DEF CheckOverlap, EditsCommitted, Editing, Target
    <2>7. CASE BeforeInsert(r)
      <3>1. /\ Target(r) = r /\ rows[r] = None /\ committed[r] = None
            /\ req' = req /\ pc'[r] \in {"abort", "write"} /\ req[r].op = "create"
            /\ UNCHANGED <<rows, committed>>
        BY <2>7 DEF BeforeInsert, HandlerOK, Target, TargetOf
      <3> QED
        BY <3>1 DEF EditsCommitted, Editing, Target
    <2>8. CASE BeforeUpdate(r)
      <3>1. /\ pc[r] = "before" /\ req' = req /\ pc'[r] \in {"abort", "write"}
            /\ UNCHANGED <<view, rows, committed>> /\ req[r].op # "create"
            /\ \A q \in Req \ {r} : Target(r) \notin dirty[q]
        BY <2>8 DEF BeforeUpdate, RowBlocked, Locks
      <3>2. Target(r) \in Booking /\ dirty[r] = {}
        BY <3>1, TargetTyped DEF HandlerOK, Target
      <3>3. rows[Target(r)] = committed[Target(r)]
        BY <3>1, <3>2 DEF VersionsOK
      <3> QED
        BY <3>1, <3>3 DEF EditsCommitted, Editing, Target
    <2>9. CASE Write(r)
      <3>1. /\ pc[r] = "write" /\ UNCHANGED <<req, view, dirty, committed>>
            /\ dirty[r] = {Target(r)} /\ Target(r) \in Booking
        BY <2>9, NewRowTyped DEF Write, HandlerOK
      <3>2. CASE pc'[r] = "abort"
        BY <3>2 DEF EditsCommitted, Editing
      <3>3. CASE pc'[r] = "commit" /\ rows'[Target(r)] = NewRow(r)
        BY <3>1, <3>3 DEF EditsCommitted, Editing, NewRow, Target
      <3> QED
        BY <2>9, <3>1, <3>2, <3>3 DEF Write
    <2> QED
      BY <1>2, <2>2, <2>3, <2>4, <2>5, <2>6, <2>7, <2>8, <2>9 DEF Step
  <1> QED
    BY <1>1, <1>2 DEF Next

LEMMA InitEdits == Init => \A r \in Req : EditsCommitted(r)
  BY DEF Init, EditsCommitted, Editing

LEMMA OnlyStaleUncancels ==
  ASSUME TypeInv, \A r \in Req : EditsCommitted(r), [Next]_vars, NEW b \in Booking,
         committed[b] # None, committed[b].status = "cancelled",
         committed'[b].status # "cancelled"
  PROVE  \E r \in Req : /\ pc[r] = "commit" /\ pc'[r] = "done"
                        /\ req[r].op = "update" /\ req[r].id = b
                        /\ req[r].status \notin {None, "cancelled"}
                        /\ view[r][b].status # "cancelled"
  <1>1. PICK r \in Req : Commit(r)
    <2>1. committed' # committed
      OBVIOUS
    <2> QED
      BY <2>1 DEF Next, Arrive, Step, CreateBooking, ChangeBooking, ReadForUpdate,
                  ReadForCancel, CheckOverlap, BeforeInsert, BeforeUpdate, Write,
                  Rollback, Fail, LockTimeout, vars, table
  <1>2. /\ pc[r] = "commit" /\ pc'[r] = "done" /\ b \in dirty[r]
        /\ committed'[b] = rows[b]
    BY <1>1 DEF Commit, Release, Goto, TypeInv, TypeOK
  <1>3. b = Target(r) /\ req[r] \in Requests
    BY <1>2 DEF TypeInv, HandlerOK
  <1>4. rows[b] = Effect(req[r], committed[b]) /\ committed[b] \in Row
    BY <1>2, <1>3 DEF EditsCommitted, TypeInv, TypeOK
  <1>5. req[r].op # "create"
    BY <1>2, <1>3 DEF EditsCommitted, Editing, Target, TargetOf
  <1>6. req[r].op # "cancel"
    BY <1>2, <1>4 DEF Effect, Row
  <1>7. req[r].op = "update" /\ req[r].id = b
    BY <1>3, <1>5, <1>6, RequestTyped DEF Target, TargetOf
  <1>8. req[r].status \notin {None, "cancelled"}
    BY <1>2, <1>4, <1>7 DEF Effect, Or
  <1>9. view[r][b].status # "cancelled"
    BY <1>2, <1>3, <1>7 DEF EditsCommitted
  <1> QED
    BY <1>2, <1>7, <1>8, <1>9

\* "Don't allow updating cancelled bookings" (bookings.service.ts:143) fails in one
\* way only, whatever the requests: a cancelled booking changes its status through
\* an update that asks for another and has read the booking before the
\* cancellation was committed.
THEOREM UncancelledByStaleReadOnlyHolds == Spec => UncancelledByStaleReadOnly
  <1> DEFINE Edits == \A r \in Req : EditsCommitted(r)
  <1>1. TypeInv /\ Edits /\ [Next]_vars =>
          [\A b \in Booking :
             committed[b] # None /\ committed[b].status = "cancelled"
               /\ committed'[b].status # "cancelled"
             => \E r \in Req :
                  /\ pc[r] = "commit" /\ pc'[r] = "done"
                  /\ req[r].op = "update" /\ req[r].id = b
                  /\ req[r].status \notin {None, "cancelled"}
                  /\ view[r][b].status # "cancelled"]_vars
    BY OnlyStaleUncancels
  <1> QED
    BY <1>1, InitTypeInv, NextTypeInv, InitEdits, NextEdits, PTL
    DEF Spec, UncancelledByStaleReadOnly
-----------------------------------------------------------------------------
(* Conflicts.  Only the locking check answers 409, and what it has found is *)
(* a current row within the interval that would have been stored.           *)

LEMMA OwnWindow ==
  ASSUME TypeInv, NEW r \in Req, pc[r] = "check", PlacesAll(req[r]), SelfContained(req[r])
  PROVE  /\ CheckedWindow(r) = [room |-> req[r].room, from |-> req[r].start,
                                to |-> req[r].end]
         /\ NewRow(r).room = req[r].room
         /\ NewRow(r).start = req[r].start /\ NewRow(r).end = req[r].end
  <1> DEFINE q == req[r]
  <1>1. CASE q.op = "create"
    BY <1>1 DEF CheckedWindow, NewRow, Effect
  <1>2. CASE q.op = "update" /\ None \notin {q.room, q.start, q.end}
    <2>1. q \in Requests /\ ProcTz = 0
      BY <1>2 DEF SelfContained, TypeInv, HandlerOK
    <2>2. q.start \in Int /\ q.end \in Int
      BY <1>2, <2>1, RequestTyped, ZonesAreInts
    <2>3. FinalStart(q, view[r][q.id]) = q.start /\ FinalEnd(q, view[r][q.id]) = q.end
      BY <1>2, <2>1, <2>2 DEF FinalStart, FinalEnd, DataInstant
    <2> QED
      BY <1>2, <2>3 DEF CheckedWindow, NewRow, Effect, Or
  <1> QED
    BY <1>1, <1>2 DEF PlacesAll

LEMMA ConflictComesFromCheck ==
  ASSUME TypeInv, [Next]_vars, NEW r \in Req, answer[r] = None, answer'[r] = "conflict"
  PROVE  CheckOverlap(r)
  <1>1. answer'[r] # answer[r]
    BY NoneIsNew DEF Answer
  <1>2. PICK p \in Req : Arrive(p) \/ Step(p) \/ Fail(p) \/ LockTimeout(p)
    BY <1>1 DEF Next, vars
  <1>3. p = r
    <2> SUFFICES ASSUME p # r PROVE answer'[r] = answer[r]
      BY <1>1
    <2> QED
      BY <1>2 DEF Arrive, CreateBooking, ChangeBooking, Step, ReadForUpdate, ReadForCancel,
         CheckOverlap, BeforeInsert, BeforeUpdate, Write, Commit, Rollback, Fail,
         LockTimeout, Throw, Refuse, TypeInv, TypeOK
  <1>4. ~Arrive(r) /\ ~Fail(r) /\ ~LockTimeout(r)
    <2> SUFFICES ASSUME Arrive(r) \/ Fail(r) \/ LockTimeout(r)
                 PROVE  answer'[r] \in {answer[r], "bad_request", "not_found",
                                        "forbidden", "error"}
      BY <1>1
    <2> QED
      BY DEF Arrive, CreateBooking, ChangeBooking, Fail, LockTimeout, Throw, Refuse,
         TypeInv, TypeOK
  <1>5. CheckOverlap(r) \/ answer'[r] \in {answer[r], "ok", "bad_request", "not_found", "error"}
    BY <1>2, <1>3, <1>4 DEF Step, ReadForUpdate, ReadForCancel, BeforeInsert, BeforeUpdate,
       Write, Commit, Rollback, Throw, TypeInv, TypeOK
  <1> QED
    BY <1>1, <1>5

\* A request that names its room and times and is answered 409 by createBooking or
\* updateBooking would have clashed with a booking that is there, if every update
\* is self-contained.
THEOREM ConflictIsRealHolds ==
  ASSUME \A q \in Requests : SelfContained(q)
  PROVE  Spec => ConflictIsReal
  <1>1. ASSUME TypeInv, [Next]_vars, NEW r \in Req,
               answer[r] = None, answer'[r] = "conflict", PlacesAll(req[r])
        PROVE  \E b \in Booking \ {Target(r)} :
                 ActiveIn(rows, b) /\ Overlap(NewRow(r), rows[b])
    <2>1. CheckOverlap(r)
      BY <1>1, ConflictComesFromCheck
    <2>2. pc[r] = "check" /\ req[r] \in Requests /\ NewRow(r) \in Row
      BY <1>1, <2>1, NewRowTyped DEF CheckOverlap, TypeInv, HandlerOK
    <2>3. PICK b \in Booking \ {Target(r)} :
            rows[b] # None /\ Matches(CheckedWindow(r), rows[b])
      BY <1>1, <2>1, NoneIsNew DEF CheckOverlap, Answer
    <2>4. rows[b] \in Row
      BY <1>1, <2>3 DEF TypeInv, TypeOK
    <2>5. /\ rows[b].start \in Int /\ rows[b].end \in Int
          /\ NewRow(r).start \in Int /\ NewRow(r).end \in Int
      BY <2>2, <2>4, ZonesAreInts DEF Row
    <2>6. /\ CheckedWindow(r) = [room |-> req[r].room, from |-> req[r].start,
                                 to |-> req[r].end]
          /\ NewRow(r).room = req[r].room
          /\ NewRow(r).start = req[r].start /\ NewRow(r).end = req[r].end
      BY <1>1, <2>2, OwnWindow
    <2> QED
      BY <2>3, <2>5, <2>6 DEF Matches, ActiveIn, Overlap
  <1>2. TypeInv /\ [Next]_vars =>
          [\A r \in Req : answer[r] = None /\ answer'[r] = "conflict" /\ PlacesAll(req[r])
             => \E b \in Booking \ {Target(r)} :
                  ActiveIn(rows, b) /\ Overlap(NewRow(r), rows[b])]_vars
    BY <1>1
  <1> QED
    BY <1>2, TypeInvariant, PTL DEF Spec, ConflictIsReal
=============================================================================
