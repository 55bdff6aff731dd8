-------------------------- MODULE RoomsHistoryProofs ---------------------------
(***************************************************************************)
(* What the requests of Rooms and Accounts have been answered, seen        *)
(* against what others were answered before: the theorems that need the    *)
(* history variables.                                                      *)
(***************************************************************************)
EXTENDS RoomsProofs

HistoryTyped == /\ earlier \in [Req -> SUBSET Req]
                /\ got = [r \in Req |-> got[r]]

Same(q) == /\ pc'[q] = pc[q] /\ req'[q] = req[q] /\ answer'[q] = answer[q]
           /\ bearer'[q] = bearer[q] /\ found'[q] = found[q]
           /\ earlier'[q] = earlier[q] /\ got'[q] = got[q]

Refused == {"unauthorized", "forbidden"}

(* What a step lets a request do at most: it arrives once, keeps what it   *)
(* asks for, and is answered once; only a login is refused after it has    *)
(* been passed on to its handler.                                          *)
Proceeds(q) ==
  /\ pc[q] # "idle" => pc'[q] # "idle" /\ req'[q] = req[q] /\ earlier'[q] = earlier[q]
  /\ pc[q] = "done" => pc'[q] = "done" /\ answer'[q] = answer[q] /\ got'[q] = got[q]
  /\ \/ earlier'[q] = earlier[q]
     \/ pc'[q] # "idle" /\ earlier'[q] = {p \in Req : pc[p] = "done" /\ Served(p)}
  /\ pc'[q] = "done" /\ answer'[q] \in Refused => pc[q] \in {"idle", "done"} \/ Op(q) = "login"
  /\ pc[q] = "idle" /\ pc'[q] = "done" => Op(q)' \notin {"register", "login"}
                                          /\ answer'[q] \in Refused

(* What a step of r tells about the tables *)
Reveals(r) ==
  /\ pc'[r] = "insert" => ~emailExists(req[r].email) /\ pc[r] = "check"
  /\ pc'[r] = "compare" =>
       /\ pc[r] = "lookup"
       /\ \E u \in Account : /\ Exists(u) /\ users[u].email = req[r].email
                             /\ found'[r] = [id |-> u, row |-> users[u]]
  /\ pc'[r] = "created" =>
       /\ pc[r] = "insert" /\ \A u \in Account \ {r} : users'[u] = users[u]
       /\ users'[r].email = req[r].email /\ users'[r].password = req[r].password
  /\ pc'[r] # "created" => users' = users
  /\ pc'[r] = "done" /\ answer'[r] = "duplicate" /\ Op(r)' = "register" => pc[r] = "insert"
  /\ pc'[r] = "done" /\ answer'[r] = "unauthorized" /\ Op(r)' = "login" =>
       \/ pc[r] = "lookup" /\ ~emailExists(req[r].email)
       \/ pc[r] = "compare" /\ ~isValidPassword(r)
  /\ tokens' # tokens =>
       /\ pc'[r] = "done" /\ answer'[r] = "ok"
       /\ \/ pc[r] = "created" /\ tokens' = tokens \cup {generateToken(r, users[r])}
          \/ /\ pc[r] = "compare" /\ isValidPassword(r)
             /\ tokens' = tokens \cup {generateToken(found[r].id, found[r].row)}
  /\ pc'[r] = "reread" =>
       /\ pc[r] \in {"insertRoom", "write"}
       /\ \A f \in Fields : req[r].body[f] \in {None, rooms'[RoomOf(r)][f]}
  /\ pc'[r] = "done" /\ answer'[r] = "ok" /\ Op(r)' \in {"createRoom", "updateRoom"} =>
       pc[r] = "reread" /\ rooms' = rooms /\ got'[r] = rooms[RoomOf(r)]
  /\ pc'[r] = "done" /\ answer'[r] = "ok" /\ Op(r)' = "deleteRoom" =>
       HasRoom(req[r].id) /\ rooms'[req[r].id].is_active = FALSE
  /\ pc'[r] = "done" /\ answer'[r] = "ok" /\ Op(r)' = "getRooms" =>
       rooms' = rooms /\ \A k \in got'[r] : HasRoom(k) /\ rooms[k].is_active

Steps(r) == Proceeds(r) /\ Reveals(r) /\ (\A q \in Req \ {r} : Same(q)) /\ HistoryTyped'

LEMMA AnswerSteps ==
  ASSUME DirectoryInv, HistoryTyped, NEW r \in Req, NEW a, Answer(r, a),
         pc[r] \notin {"idle", "done"}, a \in Refused => Op(r) = "login",
         \A q \in Req \ {r} : found'[q] = found[q] /\ got'[q] = got[q],
         got' = [q \in Req |-> got'[q]]
  PROVE  /\ Proceeds(r) /\ (\A q \in Req \ {r} : Same(q)) /\ HistoryTyped'
         /\ pc'[r] = "done" /\ answer'[r] = a /\ req' = req /\ Op(r)' = Op(r)
  <1>1. /\ pc'[r] = "done" /\ answer'[r] = a /\ UNCHANGED <<req, earlier>>
        /\ \A q \in Req \ {r} : /\ pc'[q] = pc[q] /\ answer'[q] = answer[q]
                                /\ bearer'[q] = bearer[q]
    BY DEF DirectoryInv, Types, Answer
  <1> QED
    BY <1>1 DEF Proceeds, Same, HistoryTyped, Op

LEMMA GotoSteps ==
  ASSUME DirectoryInv, HistoryTyped, NEW r \in Req, NEW label \in Labels \ {"idle", "done"},
         Goto(r, label), pc[r] \notin {"idle", "done"},
         \A q \in Req \ {r} : found'[q] = found[q], got' = got
  PROVE  /\ Proceeds(r) /\ (\A q \in Req \ {r} : Same(q)) /\ HistoryTyped'
         /\ pc'[r] = label /\ req' = req /\ Op(r)' = Op(r)
  <1>1. /\ pc'[r] = label /\ UNCHANGED <<req, answer, bearer, earlier>>
        /\ \A q \in Req \ {r} : pc'[q] = pc[q]
    BY DEF DirectoryInv, Types, Goto
  <1> QED
    BY <1>1 DEF Proceeds, Same, HistoryTyped, Op

LEMMA ReceiveSteps ==
  ASSUME DirectoryInv, HistoryTyped, NEW r \in Req, NEW q, NEW t,
         NEW label \in {"check", "lookup", "profile", "insertRoom", "list", "findRoom", "done"},
         NEW a, Receive(r, q, t, label, a), UNCHANGED <<accountVars, roomVars>>,
         label = "done" => a \in Refused /\ q.op \notin {"register", "login"}
  PROVE  Steps(r)
  <1>1. /\ pc[r] = "idle" /\ pc'[r] = label /\ answer'[r] = a /\ Op(r)' = q.op
        /\ earlier'[r] = {p \in Req : pc[p] = "done" /\ Served(p)}
        /\ earlier' \in [Req -> SUBSET Req]
        /\ \A p \in Req \ {r} : Same(p)
    BY DEF DirectoryInv, Types, Receive, Same, HistoryTyped, Op, accountVars, roomVars
  <1>2. Proceeds(r)
    BY <1>1 DEF Proceeds
  <1>3. Reveals(r)
    BY <1>1 DEF Reveals, Refused, accountVars, roomVars
  <1> QED
    BY <1>1, <1>2, <1>3 DEF Steps, HistoryTyped, roomVars

LEMMA ArriveSteps ==
  ASSUME DirectoryInv, HistoryTyped, NEW r \in Req
  PROVE  /\ \A q \in AuthRequests :
              q.op # "me" /\ ArriveAtAuth(r, q) /\ UNCHANGED roomVars => Steps(r)
         /\ \A q \in AuthRequests :
              q.op = "me" /\ ArriveAtMe(r, q) /\ UNCHANGED roomVars => Steps(r)
         /\ \A q \in RoomRequests : ArriveAtRooms(r, q) => Steps(r)
  <1>1. ASSUME NEW q \in AuthRequests, ArriveAtAuth(r, q), UNCHANGED roomVars PROVE Steps(r)
    BY <1>1, ReceiveSteps DEF ArriveAtAuth
  <1>2. ASSUME NEW q \in AuthRequests, q.op = "me", ArriveAtMe(r, q), UNCHANGED roomVars
        PROVE  Steps(r)
    BY <1>2, ReceiveSteps DEF ArriveAtMe, Unauthorized, Refused
  <1>3. ASSUME NEW q \in RoomRequests, ArriveAtRooms(r, q) PROVE Steps(r)
    <2>1. q.op \in RoomOps /\ UNCHANGED <<accountVars, roomVars>>
      BY <1>3, RoomRequestTyped DEF ArriveAtRooms
    <2>2. FirstStep(q.op) \in {"insertRoom", "list", "findRoom"}
      BY DEF FirstStep
    <2> QED
      BY <1>3, <2>1, <2>2, ReceiveSteps
      DEF ArriveAtRooms, Unauthorized, Refused, RoomOps, AdminOnly
  <1> QED
    BY <1>1, <1>2, <1>3

LEMMA AuthSteps ==
  ASSUME DirectoryInv, HistoryTyped, NEW r \in Req, UNCHANGED roomVars
  PROVE  AuthStep(r) \/ Fail(r) => Steps(r)
  <1>1. Types /\ StageOK(r) /\ r \in Account
    BY DEF DirectoryInv, RequestOK, Account
  <1>2. UNCHANGED <<rooms, got>>
    BY DEF roomVars
  <1>3. ASSUME CheckEmail(r) PROVE Steps(r)
    <2>1. CASE emailExists(req[r].email)
      BY <1>1, <1>2, <1>3, <2>1, AnswerSteps
      DEF CheckEmail, accountVars, Refused, HistoryTyped, Reveals, Steps, StageOK
    <2>2. CASE ~emailExists(req[r].email)
      BY <1>1, <1>2, <1>3, <2>2, GotoSteps
      DEF CheckEmail, accountVars, Labels, Reveals, Steps
    <2> QED
      BY <2>1, <2>2
  <1>4. ASSUME InsertUser(r) PROVE Steps(r)
    <2>1. CASE ~UniqueEmail(req[r].email)
      BY <1>1, <1>2, <1>4, <2>1, AnswerSteps
      DEF InsertUser, Refused, HistoryTyped, Reveals, Steps, StageOK
    <2>2. CASE UniqueEmail(req[r].email)
      <3>1. /\ users'[r] = NewUser(req[r]) /\ \A u \in Account \ {r} : users'[u] = users[u]
            /\ Goto(r, "created") /\ UNCHANGED <<tokens, found>>
        BY <1>1, <1>4, <2>2 DEF InsertUser, Types
      <3> QED
        BY <1>1, <1>2, <1>4, <3>1, GotoSteps DEF InsertUser, NewUser, Labels, Reveals, Steps
    <2> QED
      BY <2>1, <2>2
  <1>5. ASSUME SelectCreated(r) PROVE Steps(r)
    BY <1>1, <1>2, <1>5, AnswerSteps
    DEF SelectCreated, Refused, HistoryTyped, Reveals, Steps, StageOK
  <1>6. ASSUME findByEmailWithPassword(r) PROVE Steps(r)
    <2>1. CASE ~emailExists(req[r].email)
      BY <1>1, <1>2, <1>6, <2>1, AnswerSteps
      DEF findByEmailWithPassword, Refused, HistoryTyped, Reveals, Steps, StageOK
    <2>2. CASE emailExists(req[r].email)
      <3>1. PICK u \in Account : /\ Exists(u) /\ users[u].email = req[r].email
                                 /\ found' = [found EXCEPT ![r] = [id |-> u, row |-> users[u]]]
        BY <1>6, <2>2 DEF findByEmailWithPassword
      <3>2. /\ found'[r] = [id |-> u, row |-> users[u]]
            /\ \A q \in Req \ {r} : found'[q] = found[q]
        BY <1>1, <3>1 DEF Types
      <3>3. Goto(r, "compare") /\ UNCHANGED <<users, tokens, held>> /\ pc[r] = "lookup"
        BY <1>6, <2>2 DEF findByEmailWithPassword
      <3> QED
        BY <1>2, <3>1, <3>2, <3>3, GotoSteps DEF Labels, Reveals, Steps
    <2> QED
      BY <2>1, <2>2
  <1>7. ASSUME ComparePassword(r) PROVE Steps(r)
    <2>1. \A q \in Req \ {r} : found'[q] = found[q]
      BY <1>1, <1>7 DEF ComparePassword, Types
    <2> QED
      BY <1>1, <1>2, <1>7, <2>1, AnswerSteps
      DEF ComparePassword, Refused, HistoryTyped, Reveals, Steps, StageOK
  <1>8. ASSUME ReadProfile(r) PROVE Steps(r)
    BY <1>1, <1>2, <1>8, AnswerSteps
    DEF ReadProfile, accountVars, Refused, HistoryTyped, Reveals, Steps, StageOK
  <1>9. ASSUME Fail(r) PROVE Steps(r)
    <2>1. \A q \in Req \ {r} : found'[q] = found[q]
      BY <1>1, <1>9 DEF Fail, Types
    <2> QED
      BY <1>1, <1>2, <1>9, <2>1, AnswerSteps DEF Fail, Refused, HistoryTyped, Reveals, Steps
  <1> QED
    BY <1>3, <1>4, <1>5, <1>6, <1>7, <1>8, <1>9 DEF AuthStep

LEMMA RoomSteps ==
  ASSUME DirectoryInv, HistoryTyped, NEW r \in Req
  PROVE  RoomStep(r) => Steps(r)
  <1>1. Types /\ StageOK(r)
    BY DEF DirectoryInv, RequestOK
  <1>2. ASSUME InsertRoom(r) PROVE Steps(r)
    <2>1. Op(r) = "createRoom" /\ r \in RoomKey
      BY <1>1, <1>2 DEF InsertRoom, StageOK, RoomKey
    <2>2. CASE ~UniqueName(r, req[r].body.name)
      BY <1>2, <2>1, <2>2, AnswerSteps
      DEF InsertRoom, accountVars, Refused, HistoryTyped, Reveals, Steps
    <2>3. CASE UniqueName(r, req[r].body.name)
      <3>1. rooms'[r] = req[r].body
        BY <1>1, <1>2, <2>1, <2>3 DEF InsertRoom, Types
      <3> QED
        BY <1>2, <2>1, <2>3, <3>1, GotoSteps
        DEF InsertRoom, accountVars, Labels, Reveals, Steps, RoomOf, Goto, Op
    <2> QED
      BY <2>2, <2>3
  <1>3. ASSUME FindRoom(r) PROVE Steps(r)
    <2>1. Op(r) \in {"updateRoom", "deleteRoom", "getRoom", "book"} /\ pc[r] = "findRoom"
      BY <1>1, <1>3 DEF FindRoom, StageOK
    <2>2. ASSUME NEW a \in {"not_found", "ok"}, Answer(r, a),
                 a = "ok" => Op(r) = "getRoom",
                 UNCHANGED got \/ got' = [got EXCEPT ![r] = rooms[req[r].id]]
          PROVE  Steps(r)
      BY <1>3, <2>1, <2>2, AnswerSteps
      DEF FindRoom, accountVars, Refused, HistoryTyped, Reveals, Steps
    <2>3. CASE Goto(r, "write") /\ UNCHANGED got
      BY <1>3, <2>1, <2>3, GotoSteps DEF FindRoom, accountVars, Labels, Reveals, Steps
    <2> QED
      BY <1>3, <2>2, <2>3 DEF FindRoom
  <1>4. ASSUME UpdateFields(r) PROVE Steps(r)
    <2> DEFINE id == req[r].id
               new == SetFields(rooms[id], req[r].body)
    <2>1. /\ Op(r) = "updateRoom" /\ pc[r] = "write" /\ HasRoom(id) /\ id \in RoomKey
          /\ UNCHANGED <<users, tokens, found, got>>
      BY <1>1, <1>4 DEF UpdateFields, StageOK, HasRoom, accountVars
    <2>2. CASE UniqueName(id, new.name)
      <3>1. rooms'[id] = new /\ Goto(r, "reread")
        BY <1>1, <1>4, <2>1, <2>2 DEF UpdateFields, Types
      <3>2. \A f \in Fields : req[r].body[f] \in {None, new[f]}
        BY DEF SetFields, Or, Fields
      <3>3. RoomOf(r)' = id /\ rooms'[RoomOf(r)'] = new /\ RoomOf(r) = id
        BY <2>1, <3>1 DEF RoomOf, Goto, Op
      <3> QED
        BY <2>1, <3>1, <3>2, <3>3, GotoSteps DEF Labels, Reveals, Steps
    <2>3. CASE ~UniqueName(id, new.name)
      <3>1. Answer(r, "duplicate") /\ rooms' = rooms
        BY <1>4, <2>1, <2>3 DEF UpdateFields
      <3> QED
        BY <2>1, <3>1, AnswerSteps DEF Refused, HistoryTyped, Reveals, Steps
    <2> QED
      BY <2>2, <2>3
  <1>5. ASSUME SoftDelete(r) PROVE Steps(r)
    <2> DEFINE id == req[r].id
    <2>1. /\ Op(r) = "deleteRoom" /\ pc[r] = "write" /\ HasRoom(id) /\ id \in RoomKey
          /\ UNCHANGED <<users, tokens, found, got>>
      BY <1>1, <1>5 DEF SoftDelete, StageOK, HasRoom, accountVars
    <2>2. PICK a \in {"ok", "error"} : Answer(r, a)
      BY <1>5, <2>1 DEF SoftDelete
    <2>3. rooms'[id] = Deleted(rooms[id]) /\ rooms[id] \in Row
      BY <1>1, <1>5, <2>1 DEF SoftDelete, Types, HasRoom
    <2>4. rooms'[id].is_active = FALSE
      BY <2>3 DEF Deleted, Row
    <2> QED
      BY <2>1, <2>2, <2>4, AnswerSteps DEF Refused, HistoryTyped, Reveals, Steps
  <1>6. ASSUME Reread(r) PROVE Steps(r)
    <2>1. /\ pc[r] = "reread" /\ HasRoom(RoomOf(r)) /\ Op(r) \in {"createRoom", "updateRoom"}
          /\ UNCHANGED <<users, tokens, found, rooms>>
      BY <1>1, <1>6 DEF Reread, StageOK, accountVars
    <2>2. Answer(r, "ok") /\ got' = [got EXCEPT ![r] = rooms[RoomOf(r)]]
      BY <1>6, <2>1 DEF Reread
    <2> QED
      BY <2>1, <2>2, AnswerSteps DEF Refused, HistoryTyped, Reveals, Steps
  <1>7. ASSUME BookRoom(r) PROVE Steps(r)
    BY <1>1, <1>7, AnswerSteps
    DEF BookRoom, StageOK, accountVars, roomVars, Refused, HistoryTyped, Reveals, Steps
  <1>8. ASSUME findAll(r) PROVE Steps(r)
    <2>1. /\ pc[r] = "list" /\ Op(r) = "getRooms" /\ Answer(r, "ok")
          /\ UNCHANGED <<users, tokens, found, rooms>>
          /\ got' = [got EXCEPT ![r] = {k \in RoomKey : Listed(k, req[r].floor)}]
      BY <1>1, <1>8 DEF findAll, StageOK, accountVars
    <2> QED
      BY <2>1, AnswerSteps DEF Refused, HistoryTyped, Reveals, Steps, Listed
  <1> QED
    BY <1>2, <1>3, <1>4, <1>5, <1>6, <1>7, <1>8 DEF RoomStep

(* Otherwise an operator has changed a role, or nothing has happened. *)
Rests == /\ \A q \in Req : Same(q)
         /\ HistoryTyped' /\ UNCHANGED <<rooms, tokens>>
         /\ \A u \in Account : /\ Exists(u)' = Exists(u)
                               /\ Exists(u) => /\ users'[u].email = users[u].email
                                               /\ users'[u].password = users[u].password

LEMMA WhoSteps ==
  ASSUME DirectoryInv, HistoryTyped, [Next]_vars
  PROVE  Rests \/ \E r \in Req : Steps(r)
  <1>1. ASSUME NEW u \in Account, NEW role \in Role, SetRole(u, role), UNCHANGED roomVars
        PROVE  Rests
    <2>1. users[u] \in User /\ Types
      BY <1>1 DEF DirectoryInv, SetRole, Exists, Types
    <2>2. users' = [users EXCEPT ![u] = [users[u] EXCEPT !.role = role]]
      BY <1>1 DEF SetRole
    <2>3. /\ [users[u] EXCEPT !.role = role] # None /\ users[u] # None
          /\ [users[u] EXCEPT !.role = role].email = users[u].email
          /\ [users[u] EXCEPT !.role = role].password = users[u].password
      BY <2>1, NoneDiffers DEF User
    <2>4. \A v \in Account : /\ Exists(v)' = Exists(v)
                             /\ Exists(v) => /\ users'[v].email = users[v].email
                                             /\ users'[v].password = users[v].password
      BY <2>1, <2>2, <2>3 DEF Types, Exists
    <2> QED
      BY <1>1, <2>4 DEF Rests, Same, SetRole, requestVars, roomVars, HistoryTyped
  <1>2. CASE UNCHANGED vars
    BY <1>2 DEF vars, accountVars, requestVars, roomVars, Rests, Same, HistoryTyped, Exists
  <1>3. CASE AccountsNext /\ UNCHANGED roomVars
    <2>1. ASSUME NEW change \in RoleChanges, SetRole(change[1], change[2]) PROVE Rests
      BY <1>1, <1>3, <2>1, RoleChangesTyped
    <2> QED
      BY <1>3, <2>1, AuthSteps, ArriveSteps DEF AccountsNext
  <1> QED
    BY <1>2, <1>3, RoomSteps, ArriveSteps DEF Next

(* What every step does to the tables and to what was asked for *)
UsersKept ==
  \A u \in Account :
    /\ Exists(u) => /\ Exists(u)' /\ users'[u].email = users[u].email
                    /\ users'[u].password = users[u].password
    /\ Exists(u)' => \/ Exists(u)
                     \/ u \in Req /\ pc[u] = "insert" /\ pc'[u] = "created"

RoomsKept ==
  \A k \in RoomKey : HasRoom(k) =>
    /\ HasRoom(k)'
    /\ \A f \in Fields :
         \/ rooms'[k][f] = rooms[k][f]
         \/ \E q \in Req : /\ pc[q] \notin {"idle", "done"} /\ pc'[q] # pc[q]
                           /\ Asks(q, k, f, rooms'[k][f])

AsksKept == \A q \in Req : \A k, f, v : Asks(q, k, f, v) => Asks(q, k, f, v)'

Effects == /\ UsersKept /\ RoomsKept /\ AsksKept /\ HistoryTyped'
           /\ \A q \in Req : Proceeds(q) /\ (Same(q) \/ Reveals(q))

LEMMA StepEffects ==
  ASSUME DirectoryInv, HistoryTyped, [Next]_vars
  PROVE  Effects
  <1>1. HistoryTyped' /\ \A q \in Req : Proceeds(q) /\ (Same(q) \/ Reveals(q))
    <2>1. \A q \in Req : Same(q) => Proceeds(q)
      BY DEF Same, Proceeds
    <2> QED
      BY <2>1, WhoSteps DEF Rests, Steps
  <1>2. UsersKept
    <2>1. CASE Rests
      BY <2>1 DEF Rests, UsersKept, Exists
    <2>2. ASSUME NEW r \in Req, Steps(r) PROVE UsersKept
      <3>1. CASE pc'[r] = "created"
        <4>1. /\ pc[r] = "insert" /\ \A u \in Account \ {r} : users'[u] = users[u]
              /\ ~Exists(r)
          BY <2>2, <3>1 DEF Steps, Reveals, DirectoryInv, RequestOK, RowsOK
        <4>2. \A u \in Account \ {r} : Exists(u)' = Exists(u)
          BY <4>1 DEF Exists
        <4> QED
          BY <3>1, <4>1, <4>2 DEF UsersKept
      <3>2. CASE pc'[r] # "created"
        <4>1. users' = users
          BY <2>2, <3>2 DEF Steps, Reveals
        <4> QED
          BY <4>1 DEF UsersKept, Exists
      <3> QED
        BY <3>1, <3>2
    <2> QED
      BY <2>1, <2>2, WhoSteps
  <1>3. RoomsKept
    <2>1. CASE rooms' = rooms
      BY <2>1 DEF RoomsKept, HasRoom
    <2>2. CASE rooms' # rooms
      <3>1. PICK r \in Req, j \in RoomKey : Writes(r, j)
        BY <2>2, RoomsWrittenAsAsked
      <3>2. \A k \in RoomKey : HasRoom(k) => HasRoom(k)'
        BY <3>1, NoneDiffers DEF Writes, HasRoom
      <3> QED
        BY <3>1, <3>2 DEF RoomsKept, Writes
    <2> QED
      BY <2>1, <2>2
  <1>4. AsksKept
    <2> SUFFICES ASSUME NEW q \in Req, NEW k, NEW f, NEW v, Asks(q, k, f, v)
                 PROVE  Asks(q, k, f, v)'
      BY DEF AsksKept
    <2>1. pc[q] # "idle" /\ Served(q) /\ Op(q) \in {"createRoom", "updateRoom", "deleteRoom"}
      BY DEF Asks
    <2>2. /\ pc'[q] # "idle" /\ req'[q] = req[q]
          /\ pc'[q] = "done" /\ answer'[q] \in Refused =>
               pc[q] = "done" /\ answer'[q] = answer[q]
      BY <1>1, <2>1 DEF Proceeds
    <2>3. Served(q)'
      BY <2>1, <2>2 DEF Served, Refused
    <2> QED
      BY <2>1, <2>2, <2>3 DEF Asks, Op
  <1> QED
    BY <1>1, <1>2, <1>3, <1>4 DEF Effects
-----------------------------------------------------------------------------
(* The inductive invariant about what each request has been told *)

Before(r) == Seed \cup earlier[r]
NotTakenBefore(r) ==
  \A u \in Before(r) : Exists(u) => users[u].email # req[r].email
NotLockedOut(r) ==
  \A u \in Before(r) :
    Exists(u) /\ users[u].email = req[r].email => Known(u) # req[r].password
AsAsked(r, row) ==
  \A f \in Fields :
    \/ req[r].body[f] \in {None, row[f]}
    \/ \E q \in Req \ ({r} \cup earlier[r]) : Asks(q, RoomOf(r), f, row[f])
Revived(d) == \E q \in Req \ earlier[d] : Asks(q, req[d].id, "is_active", TRUE)

Answered(r, a) == pc[r] = "done" /\ answer[r] = a

LoginsOK(r) ==
  /\ Exists(r) => users[r].password = req[r].password
  /\ pc[r] = "compare" => LET u == found[r].id
                          IN /\ users[u].email = req[r].email
                             /\ users[u].password = found[r].row.password
  /\ pc[r] = "insert" => NotTakenBefore(r)
  /\ Answered(r, "duplicate") /\ Op(r) = "register" => NotTakenBefore(r)
  /\ Answered(r, "unauthorized") /\ Op(r) = "login" => NotLockedOut(r)

ReadsOK(r) ==
  /\ pc[r] = "reread" => AsAsked(r, rooms[RoomOf(r)])
  /\ Answered(r, "ok") /\ Op(r) \in {"createRoom", "updateRoom"} => AsAsked(r, got[r])

DeletionOK(d) ==
  Answered(d, "ok") /\ Op(d) = "deleteRoom" =>
    HasRoom(req[d].id) /\ (rooms[req[d].id].is_active => Revived(d))

ListOK(r) ==
  Answered(r, "ok") /\ Op(r) = "getRooms" =>
    \A k \in got[r], d \in earlier[r] :
      Op(d) = "deleteRoom" /\ Answered(d, "ok") /\ req[d].id = k => Revived(d)

EarlierOK(r) == \A p \in earlier[r] : pc[p] = "done"

HistoryInv ==
  /\ HistoryTyped /\ TokensEarned
  /\ \A r \in Req : EarlierOK(r) /\ LoginsOK(r) /\ ReadsOK(r) /\ DeletionOK(r) /\ ListOK(r)

LEMMA InitHistoryInv == Init => HistoryInv
  <1> SUFFICES ASSUME Init PROVE HistoryInv
    OBVIOUS
  <1>1. HistoryTyped
    BY DEF Init, AccountsInit, HistoryTyped
  <1>2. TokensEarned
    BY InitDirectoryInv DEF Init, AccountsInit, DirectoryInv, RolesHeld, Credible, TokensEarned
  <1>3. \A r \in Req : pc[r] = "idle" /\ earlier[r] = {} /\ ~Exists(r)
    BY InitDirectoryInv DEF Init, AccountsInit, DirectoryInv, RequestOK, RowsOK
  <1>4. ASSUME NEW r \in Req
        PROVE  EarlierOK(r) /\ LoginsOK(r) /\ ReadsOK(r) /\ DeletionOK(r) /\ ListOK(r)
    BY <1>3 DEF EarlierOK, LoginsOK, ReadsOK, DeletionOK, ListOK, Answered
  <1> QED
    BY <1>1, <1>2, <1>4 DEF HistoryInv

LEMMA EarlierKept ==
  ASSUME Effects, NEW r \in Req, EarlierOK(r), HistoryTyped
  PROVE  EarlierOK(r)' /\ earlier'[r] \subseteq Req
  BY DEF Effects, Proceeds, EarlierOK, HistoryTyped

(* Who was there before r keeps his row, and nobody joins him. *)
LEMMA BeforeKept ==
  ASSUME Effects, NEW r \in Req, EarlierOK(r), HistoryTyped, earlier'[r] = earlier[r],
         NEW u \in Before(r)
  PROVE  /\ u \in Account /\ Exists(u)' = Exists(u)
         /\ Exists(u) => /\ users'[u].email = users[u].email
                         /\ users'[u].password = users[u].password
                         /\ Known(u)' = Known(u)
  <1>1. u \in Account /\ (u \in Req /\ u \notin Seed => pc[u] = "done" /\ req'[u] = req[u])
    BY DEF Before, EarlierOK, HistoryTyped, Account, Effects, Proceeds
  <1>2. Exists(u) => Exists(u)' /\ users'[u].email = users[u].email
                     /\ users'[u].password = users[u].password
    BY <1>1 DEF Effects, UsersKept
  <1>3. Exists(u)' => Exists(u)
    BY <1>1, SeedDisjoint DEF Effects, UsersKept, Account
  <1>4. Exists(u) => Known(u)' = Known(u)
    BY <1>1, <1>2 DEF Known, Account
  <1> QED
    BY <1>1, <1>2, <1>3, <1>4 DEF Exists

LEMMA LoginsKept ==
  ASSUME DirectoryInv, DirectoryInv', Effects, HistoryTyped, NEW r \in Req,
         EarlierOK(r), \A q \in Req : LoginsOK(q)
  PROVE  LoginsOK(r)'
  <1> USE DEF Answered
  <1>1. /\ Proceeds(r) /\ (Same(r) \/ Reveals(r)) /\ UsersKept /\ r \in Account
        /\ StageOK(r) /\ RowsOK(r) /\ StageOK(r)' /\ KeysUnique
        /\ \A u \in Req : Exists(u) => users[u].email = req[u].email
    BY DEF Effects, DirectoryInv, RequestOK, RowsOK, Account
  <1>2. Exists(r)' => users'[r].password = req'[r].password
    <2>1. CASE Exists(r)
      BY <1>1, <2>1 DEF UsersKept, LoginsOK, RowsOK, Proceeds
    <2>2. CASE ~Exists(r)
      BY <1>1, <2>2 DEF UsersKept, Same, Reveals, Proceeds
    <2> QED
      BY <2>1, <2>2
  <1>3. pc'[r] = "compare" => /\ users'[found'[r].id].email = req'[r].email
                              /\ users'[found'[r].id].password = found'[r].row.password
    <2>1. CASE Same(r) /\ pc'[r] = "compare"
      <3>1. found[r].id \in Account /\ Exists(found[r].id) /\ pc[r] = "compare"
        BY <1>1, <2>1 DEF StageOK, Same
      <3> QED
        BY <1>1, <2>1, <3>1 DEF UsersKept, Same, LoginsOK
    <2>2. CASE Reveals(r) /\ pc'[r] = "compare"
      <3>1. PICK u \in Account : /\ Exists(u) /\ users[u].email = req[r].email
                                 /\ found'[r] = [id |-> u, row |-> users[u]]
        BY <2>2 DEF Reveals
      <3>2. users' = users /\ req'[r].email = req[r].email
        BY <2>2, <1>1 DEF Reveals, Proceeds
      <3> QED
        BY <3>1, <3>2
    <2> QED
      BY <1>1, <2>1, <2>2
  <1>4. ASSUME pc[r] # "idle", NotTakenBefore(r) PROVE NotTakenBefore(r)'
    <2>1. earlier'[r] = earlier[r] /\ req'[r] = req[r]
      BY <1>1, <1>4 DEF Proceeds
    <2>2. \A u \in Before(r) : Exists(u)' => Exists(u) /\ users'[u].email = users[u].email
      BY <2>1, BeforeKept DEF Exists
    <2> QED
      BY <1>4, <2>1, <2>2 DEF NotTakenBefore, Before
  <1>5. ASSUME ~emailExists(req[r].email) PROVE NotTakenBefore(r)
    BY <1>5 DEF emailExists, NotTakenBefore, Before, Account, HistoryTyped
  <1>6. pc'[r] = "insert" => NotTakenBefore(r)'
    <2>1. CASE Same(r)
      BY <1>4, <2>1 DEF Same, LoginsOK
    <2>2. CASE Reveals(r)
      BY <1>4, <1>5, <2>2 DEF Reveals
    <2> QED
      BY <1>1, <2>1, <2>2
  <1>7. pc'[r] = "done" /\ answer'[r] = "duplicate" /\ Op(r)' = "register" => NotTakenBefore(r)'
    <2>1. CASE Same(r)
      BY <1>4, <2>1 DEF Same, LoginsOK, Op
    <2>2. CASE Reveals(r)
      BY <1>4, <2>2 DEF Reveals, LoginsOK
    <2> QED
      BY <1>1, <2>1, <2>2
  <1>8. pc'[r] = "done" /\ answer'[r] = "unauthorized" /\ Op(r)' = "login" => NotLockedOut(r)'
    <2> SUFFICES ASSUME pc'[r] = "done", answer'[r] = "unauthorized", Op(r)' = "login"
                 PROVE  NotLockedOut(r)'
      OBVIOUS
    <2>1. NotLockedOut(r)
      <3>1. CASE Same(r)
        BY <3>1 DEF Same, LoginsOK, Op
      <3>2. CASE Reveals(r) /\ pc[r] = "lookup" /\ ~emailExists(req[r].email)
        BY <1>5, <3>2 DEF NotTakenBefore, NotLockedOut
      <3>3. CASE Reveals(r) /\ pc[r] = "compare" /\ ~isValidPassword(r)
        <4> DEFINE v == found[r].id
        <4>1. /\ v \in Account /\ Exists(v) /\ users[v].email = req[r].email
              /\ users[v].password # req[r].password
          BY <1>1, <3>3 DEF StageOK, LoginsOK, isValidPassword
        <4>2. ASSUME NEW u \in Before(r), Exists(u), users[u].email = req[r].email
              PROVE  Known(u) # req[r].password
          <5>1. u = v
            BY <1>1, <4>1, <4>2 DEF KeysUnique, Before, Account, HistoryTyped
          <5>2. CASE u \in Seed
            BY <4>1, <5>1, <5>2 DEF Known
          <5>3. CASE u \notin Seed
            <6>1. u \in Req /\ pc[u] = "done"
              BY <4>2, <5>3 DEF Before, EarlierOK, HistoryTyped
            <6>2. users[u].password = req[u].password
              BY <4>2, <6>1 DEF LoginsOK
            <6> QED
              BY <4>1, <5>1, <5>3, <6>2 DEF Known
          <5> QED
            BY <5>2, <5>3
        <4> QED
          BY <4>2 DEF NotLockedOut
      <3> QED
        BY <1>1, <3>1, <3>2, <3>3 DEF Reveals
    <2>2. pc[r] # "idle"
      BY <1>1 DEF Proceeds
    <2>3. earlier'[r] = earlier[r] /\ req'[r] = req[r]
      BY <1>1, <2>2 DEF Proceeds
    <2> QED
      BY <2>1, <2>3, BeforeKept DEF NotLockedOut, Before, Exists
  <1> QED
    BY <1>2, <1>3, <1>6, <1>7, <1>8 DEF LoginsOK

LEMMA TokensKept ==
  ASSUME DirectoryInv, DirectoryInv', HistoryTyped, [Next]_vars, Effects, TokensEarned,
         \A r \in Req : LoginsOK(r)
  PROVE  TokensEarned'
  <1> SUFFICES ASSUME NEW t \in tokens'
               PROVE  \/ t \in Sessions
                      \/ \E r \in Req : /\ pc'[r] = "done" /\ answer'[r] = "ok"
                                        /\ Op(r)' \in {"register", "login"}
                                        /\ req'[r].email = users'[t.user].email
                                        /\ req'[r].password = users'[t.user].password
    BY DEF DirectoryInv, RolesHeld, Credible, TokensEarned
  <1>1. CASE t \in tokens /\ t \notin Sessions
    <2>1. PICK r \in Req : /\ pc[r] = "done" /\ answer[r] = "ok"
                           /\ Op(r) \in {"register", "login"}
                           /\ req[r].email = users[t.user].email
                           /\ req[r].password = users[t.user].password
      BY <1>1 DEF TokensEarned
    <2>2. pc'[r] = "done" /\ answer'[r] = "ok" /\ req'[r] = req[r]
      BY <2>1 DEF Effects, Proceeds
    <2>3. t.user \in Account /\ Exists(t.user)
      BY <1>1 DEF DirectoryInv, Types, RolesHeld, Credible, TokenPayload
    <2> QED
      BY <2>1, <2>2, <2>3 DEF Effects, UsersKept, Op
  <1>2. CASE t \notin tokens
    <2>1. PICK r \in Req : Steps(r)
      BY <1>2, WhoSteps DEF Rests
    <2>2. /\ pc'[r] = "done" /\ answer'[r] = "ok" /\ users' = users
          /\ \/ pc[r] = "created" /\ t = generateToken(r, users[r])
             \/ /\ pc[r] = "compare" /\ isValidPassword(r)
                /\ t = generateToken(found[r].id, found[r].row)
      BY <1>2, <2>1 DEF Steps, Reveals
    <2>3. req'[r] = req[r] /\ Op(r)' = Op(r)
      BY <2>1, <2>2 DEF Steps, Proceeds, Op
    <2>4. StageOK(r) /\ RowsOK(r) /\ LoginsOK(r)
      BY DEF DirectoryInv, RequestOK
    <2>5. CASE pc[r] = "created" /\ t = generateToken(r, users[r])
      <3>1. t.user = r
        BY <2>5 DEF generateToken
      <3> QED
        BY <2>2, <2>3, <2>4, <2>5, <3>1 DEF StageOK, RowsOK, LoginsOK
    <2>6. CASE /\ pc[r] = "compare" /\ isValidPassword(r)
               /\ t = generateToken(found[r].id, found[r].row)
      <3>1. t.user = found[r].id
        BY <2>6 DEF generateToken
      <3> QED
        BY <2>2, <2>3, <2>4, <2>6, <3>1 DEF StageOK, LoginsOK, isValidPassword
    <2> QED
      BY <2>2, <2>5, <2>6
  <1> QED
    BY <1>1, <1>2

LEMMA ReadsKept ==
  ASSUME DirectoryInv, Effects, HistoryTyped, NEW r \in Req, EarlierOK(r), ReadsOK(r)
  PROVE  ReadsOK(r)'
  <1>1. Proceeds(r) /\ (Same(r) \/ Reveals(r)) /\ StageOK(r) /\ RoomsKept /\ AsksKept
    BY DEF Effects, DirectoryInv, RequestOK
  <1>2. ASSUME pc[r] # "idle", NEW f \in Fields, NEW v,
               \/ req[r].body[f] \in {None, v}
               \/ \E q \in Req \ ({r} \cup earlier[r]) : Asks(q, RoomOf(r), f, v)
        PROVE  \/ req'[r].body[f] \in {None, v}
               \/ \E q \in Req \ ({r} \cup earlier'[r]) : Asks(q, RoomOf(r), f, v)'
    <2>1. earlier'[r] = earlier[r] /\ req'[r] = req[r] /\ RoomOf(r)' = RoomOf(r)
      BY <1>1, <1>2 DEF Proceeds, RoomOf, Op
    <2> QED
      BY <1>1, <1>2, <2>1 DEF AsksKept
  <1>3. pc'[r] = "reread" => AsAsked(r, rooms[RoomOf(r)])'
    <2>1. CASE Same(r) /\ pc'[r] = "reread"
      <3> DEFINE k == RoomOf(r)
      <3>1. pc[r] = "reread" /\ HasRoom(k) /\ k \in RoomKey /\ AsAsked(r, rooms[k])
        BY <1>1, <2>1 DEF Same, StageOK, ReadsOK, HasRoom
      <3>2. req'[r] = req[r] /\ earlier'[r] = earlier[r] /\ RoomOf(r)' = k
        BY <2>1 DEF Same, RoomOf, Op
      <3>3. ASSUME NEW f \in Fields
            PROVE  \/ req[r].body[f] \in {None, rooms'[k][f]}
                   \/ \E q \in Req \ ({r} \cup earlier[r]) : Asks(q, k, f, rooms'[k][f])
        <4>1. CASE rooms'[k][f] = rooms[k][f]
          BY <3>1, <4>1 DEF AsAsked
        <4>2. ASSUME NEW q \in Req, pc[q] # "done", pc'[q] # pc[q], Asks(q, k, f, rooms'[k][f])
              PROVE  q \notin {r} \cup earlier[r]
          BY <2>1, <4>2 DEF Same, EarlierOK
        <4> QED
          BY <1>1, <3>1, <4>1, <4>2 DEF RoomsKept
      <3> QED
        BY <1>1, <3>2, <3>3 DEF AsAsked, AsksKept
    <2>2. CASE Reveals(r) /\ pc'[r] = "reread"
      <3>1. pc[r] # "idle" /\ \A f \in Fields : req[r].body[f] \in {None, rooms'[RoomOf(r)][f]}
        BY <2>2 DEF Reveals
      <3>2. req'[r] = req[r] /\ RoomOf(r)' = RoomOf(r)
        BY <1>1, <3>1 DEF Proceeds, RoomOf, Op
      <3> QED
        BY <3>1, <3>2 DEF AsAsked
    <2> QED
      BY <1>1, <2>1, <2>2
  <1>4. pc'[r] = "done" /\ answer'[r] = "ok" /\ Op(r)' \in {"createRoom", "updateRoom"}
        => AsAsked(r, got[r])'
    <2> SUFFICES ASSUME pc'[r] = "done", answer'[r] = "ok",
                        Op(r)' \in {"createRoom", "updateRoom"}
                 PROVE  AsAsked(r, got[r])'
      OBVIOUS
    <2>1. AsAsked(r, got'[r]) /\ pc[r] # "idle"
      <3>1. CASE Same(r)
        BY <3>1 DEF Same, ReadsOK, Answered, Op
      <3>2. CASE Reveals(r)
        BY <3>2 DEF Reveals, ReadsOK
      <3> QED
        BY <1>1, <3>1, <3>2
    <2>2. earlier'[r] = earlier[r] /\ req'[r] = req[r] /\ RoomOf(r)' = RoomOf(r)
      BY <1>1, <2>1 DEF Proceeds, RoomOf, Op
    <2> QED
      BY <1>1, <2>1, <2>2 DEF AsAsked, AsksKept
  <1> QED
    BY <1>3, <1>4 DEF ReadsOK, Answered

LEMMA RevivedStays ==
  ASSUME Effects, NEW d \in Req, pc[d] # "idle", Revived(d)
  PROVE  Revived(d)'
  BY DEF Effects, Proceeds, AsksKept, Revived

LEMMA DeletionKept ==
  ASSUME DirectoryInv, DirectoryInv', Effects, HistoryTyped, NEW d \in Req,
         EarlierOK(d), DeletionOK(d)
  PROVE  DeletionOK(d)'
  <1> SUFFICES ASSUME pc'[d] = "done", answer'[d] = "ok", Op(d)' = "deleteRoom"
               PROVE  /\ HasRoom(req[d].id)'
                      /\ rooms'[req'[d].id].is_active => Revived(d)'
    BY DEF DeletionOK, Answered
  <1> DEFINE k == req[d].id
  <1>1. Proceeds(d) /\ (Same(d) \/ Reveals(d)) /\ RoomsKept /\ Types'
    BY DEF Effects, DirectoryInv
  <1>2. pc[d] # "idle"
    BY <1>1 DEF Proceeds, Refused
  <1>3. req'[d] = req[d] /\ earlier'[d] = earlier[d] /\ Op(d) = "deleteRoom"
    BY <1>1, <1>2 DEF Proceeds, Op
  <1>4. CASE Same(d)
    <2>1. HasRoom(k) /\ k \in RoomKey /\ (rooms[k].is_active => Revived(d))
      BY <1>3, <1>4 DEF Same, DeletionOK, Answered, HasRoom
    <2>2. HasRoom(k)' /\ rooms'[k] \in Row
      BY <1>1, <1>3, <2>1 DEF RoomsKept, HasRoom, Types
    <2>3. ASSUME rooms'[k].is_active PROVE Revived(d)'
      <3>1. CASE rooms'[k].is_active = rooms[k].is_active
        BY <1>2, <2>1, <2>3, <3>1, RevivedStays
      <3>2. ASSUME NEW q \in Req, pc[q] # "done", Asks(q, k, "is_active", rooms'[k].is_active)
            PROVE  Revived(d)'
        <4>1. q \notin earlier[d] /\ rooms'[k].is_active = TRUE
          BY <2>2, <2>3, <3>2 DEF EarlierOK, Row
        <4>2. Revived(d)
          BY <3>2, <4>1 DEF Revived
        <4> QED
          BY <1>2, <4>2, RevivedStays
      <3>3. "is_active" \in Fields
        BY DEF Fields
      <3> QED
        BY <1>1, <2>1, <3>1, <3>2, <3>3 DEF RoomsKept
    <2> QED
      BY <1>3, <2>2, <2>3
  <1>5. CASE Reveals(d)
    <2>1. HasRoom(k) /\ k \in RoomKey /\ rooms'[k].is_active = FALSE
      BY <1>5 DEF Reveals, HasRoom
    <2> QED
      BY <1>1, <1>3, <2>1 DEF RoomsKept, HasRoom
  <1> QED
    BY <1>1, <1>4, <1>5

LEMMA ListKept ==
  ASSUME DirectoryInv, Effects, HistoryTyped, NEW r \in Req, EarlierOK(r), ListOK(r),
         \A d \in Req : DeletionOK(d)
  PROVE  ListOK(r)'
  <1> SUFFICES ASSUME pc'[r] = "done", answer'[r] = "ok", Op(r)' = "getRooms",
                      NEW k \in got'[r], NEW d \in earlier'[r], Op(d)' = "deleteRoom",
                      pc'[d] = "done", answer'[d] = "ok", req'[d].id = k
               PROVE  Revived(d)'
    BY DEF ListOK, Answered
  <1>1. Proceeds(r) /\ (Same(r) \/ Reveals(r))
    BY DEF Effects
  <1>2. pc[r] # "idle"
    BY <1>1 DEF Proceeds, Refused
  <1>3. d \in earlier[r] /\ d \in Req /\ pc[d] = "done"
    BY <1>1, <1>2 DEF Proceeds, HistoryTyped, EarlierOK
  <1>4. answer[d] = "ok" /\ Op(d) = "deleteRoom" /\ req[d].id = k
    BY <1>3 DEF Effects, Proceeds, Op
  <1>5. Revived(d)
    <2>1. CASE Same(r)
      BY <1>3, <1>4, <2>1 DEF Same, ListOK, Answered, Op
    <2>2. CASE Reveals(r)
      BY <1>3, <1>4, <2>2 DEF Reveals, DeletionOK, Answered
    <2> QED
      BY <1>1, <2>1, <2>2
  <1> QED
    BY <1>3, <1>5, RevivedStays

LEMMA NextHistoryInv ==
  DirectoryInv /\ DirectoryInv' /\ HistoryInv /\ [Next]_vars => HistoryInv'
  <1> SUFFICES ASSUME DirectoryInv, DirectoryInv', HistoryInv, [Next]_vars
               PROVE  HistoryInv'
    OBVIOUS
  <1>1. /\ Effects /\ HistoryTyped /\ TokensEarned
        /\ \A r \in Req : /\ EarlierOK(r) /\ LoginsOK(r) /\ ReadsOK(r)
                          /\ DeletionOK(r) /\ ListOK(r)
    BY StepEffects DEF HistoryInv
  <1>2. ASSUME NEW r \in Req
        PROVE  (EarlierOK(r) /\ LoginsOK(r) /\ ReadsOK(r) /\ DeletionOK(r) /\ ListOK(r))'
    BY <1>1, EarlierKept, LoginsKept, ReadsKept, DeletionKept, ListKept
  <1>3. TokensEarned' /\ HistoryTyped'
    BY <1>1, TokensKept DEF Effects
  <1> QED
    BY <1>2, <1>3 DEF HistoryInv

LEMMA HistoryInvHolds == Spec => []HistoryInv
  BY InitHistoryInv, NextHistoryInv, DirectoryInvHolds, PTL DEF Spec
-----------------------------------------------------------------------------
(* Theorems *)

\* A registration is answered by the unique key only if the one that took its email
\* had not been answered when it arrived (auth.service.ts:31-36).
THEOREM DuplicatesOnlyAtOnce == Spec => []DuplicateOnlyAtOnce
  <1>1. HistoryInv => DuplicateOnlyAtOnce
    BY DEF HistoryInv, LoginsOK, Answered, NotTakenBefore, Before, DuplicateOnlyAtOnce
  <1> QED
    BY <1>1, HistoryInvHolds, PTL

\* Whoever has been told anything about a registration that made an account can log
\* in from then on (auth.repo.ts:54-78).
THEOREM NobodyLockedOut == Spec => []NeverLockedOut
  <1>1. HistoryInv => NeverLockedOut
    BY DEF HistoryInv, LoginsOK, Answered, NotLockedOut, Before, NeverLockedOut
  <1> QED
    BY <1>1, HistoryInvHolds, PTL

\* Every token was issued for the password of the account it names, and carries a
\* role the account has had (auth.service.ts:29-101).
THEOREM AllTokensEarned == Spec => []TokensEarned
  <1>1. HistoryInv => TokensEarned
    BY DEF HistoryInv
  <1> QED
    BY <1>1, HistoryInvHolds, PTL

\* An administrator is answered with what he asked for, field by field, unless
\* somebody not answered before he asked wants something else (rooms.repo.ts:247-254).
THEOREM AnswersShowOwnWrites == Spec => []AnswersOwnWrites
  <1>1. HistoryInv => AnswersOwnWrites
    BY DEF HistoryInv, ReadsOK, Answered, AsAsked, AnswersOwnWrites, Fields
  <1> QED
    BY <1>1, HistoryInvHolds, PTL

\* A room whose deletion has been answered is on no later list unless somebody has
\* asked for it to be active again (rooms.repo.ts:29).
THEOREM DeletedRoomsHidden == Spec => []DeletedStaysHidden
  <1>1. HistoryInv => DeletedStaysHidden
    <2> SUFFICES ASSUME HistoryInv, NEW r \in Req, pc[r] = "done", answer[r] = "ok",
                        Op(r) = "getRooms", NEW k \in got[r], NEW d \in earlier[r],
                        Op(d) = "deleteRoom", answer[d] = "ok", req[d].id = k
                 PROVE  \E q \in Req \ earlier[d] : Asks(q, k, "is_active", TRUE)
      BY DEF DeletedStaysHidden
    <2>1. ListOK(r) /\ pc[d] = "done"
      BY DEF HistoryInv, EarlierOK
    <2> QED
      BY <2>1 DEF ListOK, Answered, Revived
  <1> QED
    BY <1>1, HistoryInvHolds, PTL
=============================================================================
