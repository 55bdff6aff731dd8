------------------------------ MODULE RoomsProofs ------------------------------
(***************************************************************************)
(* What holds of Rooms, and of Accounts as a part of it, for every set of  *)
(* requests, sample data, sessions and changes of roles.                   *)
(***************************************************************************)
EXTENDS Rooms, TLAPS

LEMMA AuthRequestTyped ==
  ASSUME NEW q \in AuthRequests
  PROVE  /\ q.op \in {"register", "login", "me"} /\ q # None
         /\ q.op # "me" => q.email \in Email /\ q.password \in Password
  BY AuthRequestsTyped, NoneIsNoRow DEF Register, Login, Me

LEMMA RoomRequestTyped ==
  ASSUME NEW q \in RoomRequests
  PROVE  /\ q.op \in RoomOps /\ q # None
         /\ q.op = "createRoom" => q.body \in Row
         /\ q.op = "updateRoom" => q.body \in Body
         /\ q.op \notin {"createRoom", "getRooms"} => q.id \in RoomId
  BY RoomRequestsTyped, NoneIsNoValue
  DEF CreateRoom, UpdateRoom, DeleteRoom, GetRooms, GetRoom, RoomOps, AdminOnly

LEMMA NoneDiffers == None \notin User /\ None \notin TokenPayload /\ None \notin Row
  BY NoneIsNoRow, NoneIsNoValue

LEMMA FieldsTyped ==
  ASSUME NEW row \in Row, NEW body \in Body
  PROVE  SetFields(row, body) \in Row
  BY DEF SetFields, Or, Row, Body
-----------------------------------------------------------------------------
(* The inductive invariant.  Besides types and unique keys it says what    *)
(* each statement finds when it runs: rows found before are still there.   *)

Labels == {"idle", "check", "insert", "created", "lookup", "compare", "profile",
           "insertRoom", "findRoom", "write", "reread", "list", "done"}
Answers == {None, "ok", "unauthorized", "forbidden", "conflict", "duplicate",
            "not_found", "vanished", "error"}

Types ==
  /\ pc \in [Req -> Labels]
  /\ req \in [Req -> AuthRequests \cup RoomRequests \cup {None}]
  /\ answer \in [Req -> Answers]
  /\ bearer \in [Req -> TokenPayload \cup {None}]
  /\ found \in [Req -> [id : Account, row : User] \cup {None}]
  /\ users \in [Account -> User \cup {None}]
  /\ rooms \in [RoomKey -> Row \cup {None}]
  /\ held \in [Account -> SUBSET Role]
  /\ tokens \subseteq TokenPayload

Credible(t) == Exists(t.user) /\ t.role \in held[t.user]

\* What the handler of r relies on at each of its statements
StageOK(r) ==
  /\ pc[r] = "idle" => req[r] = None /\ answer[r] = None
  /\ pc[r] # "idle" => req[r] # None
  /\ pc[r] \in {"check", "insert", "created"} => Op(r) = "register"
  /\ pc[r] \in {"lookup", "compare"} => Op(r) = "login"
  /\ pc[r] = "compare" => /\ found[r] \in [id : Account, row : User]
                          /\ Exists(found[r].id)
                          /\ found[r].row.role \in held[found[r].id]
  /\ pc[r] = "profile" => Op(r) = "me" /\ bearer[r] # None
  /\ pc[r] = "insertRoom" => Op(r) = "createRoom"
  /\ pc[r] = "findRoom" => Op(r) \in {"updateRoom", "deleteRoom", "getRoom", "book"}
  /\ pc[r] = "write" => Op(r) \in {"updateRoom", "deleteRoom", "book"} /\ HasRoom(req[r].id)
  /\ pc[r] = "reread" => Op(r) \in {"createRoom", "updateRoom"} /\ HasRoom(RoomOf(r))
  /\ pc[r] = "list" => Op(r) = "getRooms"

\* Its token is genuine, and an administrator's where the route asks for one.
BearerOK(r) ==
  /\ bearer[r] # None => Credible(bearer[r])
  /\ pc[r] \notin {"idle", "done"} /\ Op(r) \in AdminOnly =>
       bearer[r] # None /\ bearer[r].role = "admin"

\* The rows it has made, and what it has been answered about them
RowsOK(r) ==
  /\ pc[r] = "created" => Exists(r)
  /\ Exists(r) => /\ Op(r) = "register" /\ pc[r] \in {"created", "done"}
                  /\ users[r].email = req[r].email
  /\ HasRoom(r) => Op(r) = "createRoom" /\ pc[r] \in {"reread", "done"}
  /\ pc[r] = "done" /\ Op(r) = "register" =>
       /\ answer[r] = "ok" => Exists(r)
       /\ answer[r] \in {"conflict", "duplicate"} => ~Exists(r) /\ emailExists(req[r].email)
  /\ pc[r] = "done" => answer[r] # "vanished"

RequestOK(r) == StageOK(r) /\ BearerOK(r) /\ RowsOK(r)

KeysUnique ==
  /\ \A u, v \in Account : Exists(u) /\ Exists(v) /\ users[u].email = users[v].email => u = v
  /\ \A j, k \in RoomKey : HasRoom(j) /\ HasRoom(k) /\ rooms[j].name = rooms[k].name => j = k

RolesHeld == /\ \A u \in Account : Exists(u) => users[u].role \in held[u]
             /\ \A t \in tokens : Credible(t)

DirectoryInv == Types /\ KeysUnique /\ RolesHeld /\ \A r \in Req : RequestOK(r)

LEMMA InitDirectoryInv == Init => DirectoryInv
  <1> SUFFICES ASSUME Init PROVE DirectoryInv
    OBVIOUS
  <1>1. Types
    BY SeedTyped, SeedRoomsTyped, SessionsGenuine
    DEF Init, AccountsInit, Types, Labels, Answers, User, Role
  <1>2. KeysUnique
    <2>1. \A k \in RoomKey : rooms[k] # None => k \in SeedRoom
      BY SeedRoomsTyped DEF Init, RoomKey
    <2> QED
      BY <2>1, SeedEmailsUnique, SeedRoomsTyped
      DEF Init, AccountsInit, KeysUnique, Exists, HasRoom
  <1>3. RolesHeld
    BY SessionsGenuine, SeedTyped, NoneDiffers
    DEF Init, AccountsInit, RolesHeld, Exists, Credible, TokenPayload
  <1>4. ASSUME NEW r \in Req PROVE RequestOK(r)
    <2>1. ~Exists(r) /\ ~HasRoom(r)
      BY SeedOnly, SeedDisjoint, SeedRoomsTyped DEF Init, AccountsInit, Exists, HasRoom, Account
    <2>2. pc[r] = "idle" /\ req[r] = None /\ answer[r] = None /\ bearer[r] = None
      BY DEF Init, AccountsInit
    <2> QED
      BY <2>1, <2>2 DEF RequestOK, StageOK, BearerOK, RowsOK
  <1> QED
    BY <1>1, <1>2, <1>3, <1>4 DEF DirectoryInv

(* No step removes a row, changes an email or makes an account forget a    *)
(* role; what requests rely on that do not step themselves thus stays.     *)
TablesGrow ==
  /\ \A u \in Account : Exists(u) =>
       Exists(u)' /\ users'[u].email = users[u].email /\ held[u] \subseteq held'[u]
  /\ \A k \in RoomKey : HasRoom(k) => HasRoom(k)'

Untouched(q) ==
  /\ pc'[q] = pc[q] /\ req'[q] = req[q] /\ answer'[q] = answer[q]
  /\ bearer'[q] = bearer[q] /\ found'[q] = found[q]
  /\ Exists(q)' => Exists(q)
  /\ HasRoom(q)' => HasRoom(q)

LEMMA CredibleStays ==
  ASSUME TablesGrow, NEW t \in TokenPayload, Credible(t)
  PROVE  Credible(t)'
  BY DEF TablesGrow, Credible, TokenPayload

LEMMA OthersOK ==
  ASSUME DirectoryInv, NEW q \in Req, Untouched(q), TablesGrow
  PROVE  RequestOK(q)'
  <1> USE DEF Untouched, DirectoryInv
  <1>1. StageOK(q)'
    <2>1. StageOK(q) /\ Types
      BY DEF RequestOK
    <2>2. \A k : HasRoom(k) => HasRoom(k)'
      BY DEF TablesGrow, HasRoom
    <2>3. /\ found[q] \in [id : Account, row : User]
          /\ Exists(found[q].id) /\ found[q].row.role \in held[found[q].id]
          => (Exists(found[q].id) /\ found[q].row.role \in held[found[q].id])'
      BY <2>1 DEF Types, TablesGrow
    <2>4. Op(q)' = Op(q) /\ RoomOf(q)' = RoomOf(q) /\ req[q].id = req'[q].id
      BY DEF Op, RoomOf
    <2> QED
      BY <2>1, <2>2, <2>3, <2>4 DEF StageOK
  <1>2. BearerOK(q)'
    <2>1. BearerOK(q) /\ Types
      BY DEF RequestOK
    <2>2. bearer[q] # None => Credible(bearer[q])'
      BY <2>1, CredibleStays DEF BearerOK, Types
    <2> QED
      BY <2>1, <2>2 DEF BearerOK, Op, Credible
  <1>3. RowsOK(q)'
    <2>1. RowsOK(q) /\ q \in Account
      BY DEF RequestOK, Account
    <2>2. \A e : emailExists(e) => emailExists(e)'
      BY DEF emailExists, TablesGrow
    <2>3. Exists(q) => Exists(q)' /\ users'[q].email = users[q].email
      BY <2>1 DEF TablesGrow
    <2> QED
      BY <2>1, <2>2, <2>3 DEF RowsOK, Op
  <1> QED
    BY <1>1, <1>2, <1>3 DEF RequestOK

(* A step of r disturbs no other request. *)
OthersRest(r) ==
  \A q \in Req \ {r} : /\ pc'[q] = pc[q] /\ req'[q] = req[q] /\ answer'[q] = answer[q]
                       /\ bearer'[q] = bearer[q] /\ found'[q] = found[q]

(* Where a step that leaves the tables alone restores the invariant for r, *)
(* it restores it.                                                         *)
LEMMA QuietStep ==
  ASSUME DirectoryInv, NEW r \in Req, OthersRest(r), UNCHANGED <<users, held, rooms>>,
         \A t \in tokens' : Credible(t), Types', RequestOK(r)'
  PROVE  DirectoryInv'
  <1>1. TablesGrow /\ \A k : Exists(k)' = Exists(k) /\ HasRoom(k)' = HasRoom(k)
    BY DEF TablesGrow, Exists, HasRoom
  <1>2. KeysUnique'
    BY <1>1 DEF DirectoryInv, KeysUnique
  <1>3. RolesHeld'
    BY <1>1 DEF DirectoryInv, RolesHeld, Credible
  <1>4. \A q \in Req : RequestOK(q)'
    BY <1>1, OthersOK DEF OthersRest, Untouched
  <1> QED
    BY <1>2, <1>3, <1>4 DEF DirectoryInv

LEMMA AnswerTyped ==
  ASSUME Types, NEW r \in Req, NEW a \in Answers, Answer(r, a)
  PROVE  /\ pc' \in [Req -> Labels] /\ answer' \in [Req -> Answers]
         /\ bearer' \in [Req -> TokenPayload \cup {None}] /\ req' = req
         /\ pc'[r] = "done" /\ answer'[r] = a /\ bearer'[r] = None
         /\ \A q \in Req \ {r} : /\ pc'[q] = pc[q] /\ answer'[q] = answer[q]
                                 /\ bearer'[q] = bearer[q]
  BY DEF Types, Answer, Labels

LEMMA GotoTyped ==
  ASSUME Types, NEW r \in Req, NEW label \in Labels, Goto(r, label)
  PROVE  /\ pc' \in [Req -> Labels] /\ UNCHANGED <<answer, bearer, req>>
         /\ pc'[r] = label
         /\ \A q \in Req \ {r} : pc'[q] = pc[q]
  BY DEF Types, Goto

(* An answer is safe unless it tells a registration what is not so. *)
LEMMA AnswerOK ==
  ASSUME DirectoryInv, NEW r \in Req, NEW a \in Answers \ {"vanished"}, Answer(r, a),
         pc[r] \notin {"idle", "done"},
         users' = users, HasRoom(r)' = HasRoom(r),
         Op(r) = "register" => /\ a = "ok" => Exists(r)
                               /\ a \in {"conflict", "duplicate"} =>
                                    ~Exists(r) /\ emailExists(req[r].email)
  PROVE  RequestOK(r)'
  <1>1. Types /\ StageOK(r) /\ RowsOK(r)
    BY DEF DirectoryInv, RequestOK
  <1>2. /\ pc'[r] = "done" /\ answer'[r] = a /\ bearer'[r] = None /\ req' = req
        /\ Exists(r)' = Exists(r) /\ Op(r)' = Op(r)
        /\ \A e : emailExists(e)' = emailExists(e)
    BY <1>1, AnswerTyped DEF Exists, Op, emailExists
  <1>3. StageOK(r)'
    BY <1>1, <1>2 DEF StageOK
  <1>4. BearerOK(r)'
    BY <1>2 DEF BearerOK
  <1>5. RowsOK(r)'
    BY <1>1, <1>2 DEF RowsOK, StageOK
  <1> QED
    BY <1>3, <1>4, <1>5 DEF RequestOK

(* An answer given without touching a table keeps the invariant. *)
LEMMA QuietAnswer ==
  ASSUME DirectoryInv, NEW r \in Req, NEW a \in Answers \ {"vanished"}, Answer(r, a),
         pc[r] \notin {"idle", "done"},
         UNCHANGED <<users, held, rooms>>,
         found' = found \/ found' = [found EXCEPT ![r] = None],
         tokens' \subseteq TokenPayload, \A t \in tokens' : Credible(t),
         Op(r) = "register" => /\ a = "ok" => Exists(r)
                               /\ a \in {"conflict", "duplicate"} =>
                                    ~Exists(r) /\ emailExists(req[r].email)
  PROVE  DirectoryInv'
  <1>1. Types
    BY DEF DirectoryInv
  <1>2. Types'
    BY <1>1, AnswerTyped DEF Types
  <1>3. OthersRest(r)
    BY <1>1, AnswerTyped DEF OthersRest, Types
  <1>4. RequestOK(r)'
    BY AnswerOK DEF HasRoom
  <1> QED
    BY <1>2, <1>3, <1>4, QuietStep
-----------------------------------------------------------------------------
(* One lemma per handler step *)

LEMMA ReceiveInv ==
  ASSUME DirectoryInv, NEW r \in Req, NEW q \in AuthRequests \cup RoomRequests,
         NEW t \in tokens \cup {None}, NEW label \in Labels \ {"idle"},
         NEW a \in {None, "unauthorized", "forbidden"}, Receive(r, q, t, label, a),
         q # None, label = "done" => a \in {"unauthorized", "forbidden"},
         label \in {"check", "insert", "created"} => q.op = "register" /\ label = "check",
         label \in {"lookup", "compare"} => q.op = "login" /\ label = "lookup",
         label = "profile" => q.op = "me" /\ t # None,
         label = "insertRoom" => q.op = "createRoom",
         label = "findRoom" => q.op \in {"updateRoom", "deleteRoom", "getRoom", "book"},
         label \notin {"write", "reread"},
         label = "list" => q.op = "getRooms",
         label # "done" /\ q.op \in AdminOnly => t # None /\ t.role = "admin",
         UNCHANGED <<accountVars, rooms>>
  PROVE  DirectoryInv'
  <1>1. Types /\ RequestOK(r) /\ \A u \in tokens : Credible(u)
    BY DEF DirectoryInv, RolesHeld
  <1>2. /\ pc'[r] = label /\ req'[r] = q /\ answer'[r] = a
        /\ bearer'[r] = IF label = "done" THEN None ELSE t
        /\ pc[r] = "idle" /\ Op(r)' = q.op
    BY <1>1 DEF Receive, Types, Op
  <1>3. /\ pc' \in [Req -> Labels] /\ answer' \in [Req -> Answers]
        /\ bearer' \in [Req -> TokenPayload \cup {None}]
        /\ req' \in [Req -> AuthRequests \cup RoomRequests \cup {None}]
        /\ OthersRest(r)
    BY <1>1 DEF Receive, Types, Answers, OthersRest, accountVars
  <1>4. Types'
    BY <1>1, <1>3 DEF Types, accountVars
  <1>5. ~Exists(r) /\ ~HasRoom(r) /\ ~Exists(r)' /\ ~HasRoom(r)'
    BY <1>1, <1>2 DEF RequestOK, RowsOK, Exists, HasRoom, accountVars
  <1>6. StageOK(r)'
    BY <1>2 DEF StageOK
  <1>7. BearerOK(r)'
    BY <1>1, <1>2 DEF BearerOK, Credible, Exists, accountVars
  <1>8. RowsOK(r)'
    BY <1>2, <1>5 DEF RowsOK
  <1>9. RequestOK(r)'
    BY <1>6, <1>7, <1>8 DEF RequestOK
  <1>10. \A u \in tokens' : Credible(u)
    BY <1>1 DEF accountVars
  <1> QED
    BY <1>3, <1>4, <1>9, <1>10, QuietStep DEF accountVars

LEMMA ArriveAtAuthInv ==
  ASSUME DirectoryInv, NEW r \in Req, NEW q \in AuthRequests, q.op # "me",
         ArriveAtAuth(r, q), rooms' = rooms
  PROVE  DirectoryInv'
  <1>1. q.op \in {"register", "login"} /\ q # None
    BY AuthRequestTyped
  <1>2. PICK label \in {"check", "lookup"} :
          /\ label = IF q.op = "register" THEN "check" ELSE "lookup"
          /\ Receive(r, q, None, label, None)
    BY DEF ArriveAtAuth
  <1> QED
    BY <1>1, <1>2, ReceiveInv DEF ArriveAtAuth, Labels, AdminOnly

LEMMA ArriveAtMeInv ==
  ASSUME DirectoryInv, NEW r \in Req, NEW q \in AuthRequests, q.op = "me",
         ArriveAtMe(r, q), rooms' = rooms
  PROVE  DirectoryInv'
  <1>1. q # None
    BY AuthRequestTyped
  <1>2. CASE Unauthorized(r, q)
    BY <1>1, <1>2, ReceiveInv DEF Unauthorized, ArriveAtMe, Labels
  <1>3. ASSUME NEW t \in tokens, Receive(r, q, t, "profile", None) PROVE DirectoryInv'
    <2>1. t # None
      BY NoneDiffers DEF DirectoryInv, Types
    <2> QED
      BY <1>1, <1>3, <2>1, ReceiveInv DEF ArriveAtMe, Labels, AdminOnly
  <1> QED
    BY <1>2, <1>3 DEF ArriveAtMe

LEMMA ArriveAtRoomsInv ==
  ASSUME DirectoryInv, NEW r \in Req, NEW q \in RoomRequests, ArriveAtRooms(r, q)
  PROVE  DirectoryInv'
  <1>1. q.op \in RoomOps /\ q # None
    BY RoomRequestTyped
  <1>2. UNCHANGED <<accountVars, rooms>>
    BY DEF ArriveAtRooms, roomVars
  <1>3. CASE Unauthorized(r, q)
    BY <1>1, <1>2, <1>3, ReceiveInv DEF Unauthorized, Labels
  <1>4. ASSUME NEW t \in tokens, requireAdmin(t, q.op), Receive(r, q, t, FirstStep(q.op), None)
        PROVE  DirectoryInv'
    <2>1. t # None
      BY NoneDiffers DEF DirectoryInv, Types
    <2>2. FirstStep(q.op) = IF q.op = "createRoom" THEN "insertRoom"
                            ELSE IF q.op = "getRooms" THEN "list" ELSE "findRoom"
      BY DEF FirstStep
    <2>3. PICK label \in {"insertRoom", "list", "findRoom"} : label = FirstStep(q.op)
      BY <2>2
    <2>4. Receive(r, q, t, label, None)
      BY <1>4, <2>3
    <2> QED
      BY <1>1, <1>2, <1>4, <2>1, <2>2, <2>3, <2>4, ReceiveInv
      DEF Labels, RoomOps, AdminOnly, requireAdmin
  <1>5. ASSUME NEW t \in tokens, Receive(r, q, t, "done", "forbidden")
        PROVE  DirectoryInv'
    BY <1>1, <1>2, <1>5, ReceiveInv DEF Labels
  <1> QED
    BY <1>3, <1>4, <1>5 DEF ArriveAtRooms

LEMMA FailInv ==
  ASSUME DirectoryInv, NEW r \in Req, Fail(r), rooms' = rooms
  PROVE  DirectoryInv'
  BY QuietAnswer DEF Fail, DirectoryInv, Types, Answers, RolesHeld

LEMMA CheckEmailInv ==
  ASSUME DirectoryInv, NEW r \in Req, CheckEmail(r), rooms' = rooms
  PROVE  DirectoryInv'
  <1>1. Types /\ RequestOK(r) /\ RolesHeld
    BY DEF DirectoryInv
  <1>2. Op(r) = "register" /\ ~Exists(r)
    BY <1>1 DEF RequestOK, StageOK, RowsOK, CheckEmail
  <1>3. CASE emailExists(req[r].email) /\ Answer(r, "conflict")
    BY <1>1, <1>2, <1>3, QuietAnswer DEF CheckEmail, Types, Answers, RolesHeld, accountVars
  <1>4. CASE Goto(r, "insert")
    <2>1. Types' /\ OthersRest(r)
      BY <1>1, <1>4, GotoTyped DEF Types, Labels, OthersRest, CheckEmail, accountVars
    <2>2. pc'[r] = "insert" /\ UNCHANGED <<answer, bearer, req>>
      BY <1>1, <1>4, GotoTyped DEF Labels
    <2>3. RequestOK(r)'
      BY <1>1, <1>2, <2>2
      DEF RequestOK, StageOK, BearerOK, RowsOK, CheckEmail, accountVars, Op, Exists, HasRoom,
          Credible, AdminOnly
    <2> QED
      BY <1>1, <2>1, <2>3, QuietStep DEF CheckEmail, accountVars, RolesHeld
  <1> QED
    BY <1>3, <1>4 DEF CheckEmail

LEMMA InsertUserInv ==
  ASSUME DirectoryInv, NEW r \in Req, InsertUser(r), rooms' = rooms
  PROVE  DirectoryInv'
  <1>1. Types /\ RequestOK(r) /\ RolesHeld /\ KeysUnique /\ r \in Account
    BY DEF DirectoryInv, Account
  <1>2. Op(r) = "register" /\ ~Exists(r) /\ ~HasRoom(r) /\ pc[r] = "insert"
    BY <1>1 DEF RequestOK, StageOK, RowsOK, InsertUser
  <1>3. CASE ~UniqueEmail(req[r].email)
    <2>1. emailExists(req[r].email)
      BY <1>3 DEF UniqueEmail, emailExists
    <2> QED
      BY <1>1, <1>2, <1>3, <2>1, QuietAnswer DEF InsertUser, Types, Answers, RolesHeld
  <1>4. CASE UniqueEmail(req[r].email)
    <2>1. req[r] \in AuthRequests \cup RoomRequests /\ Op(r) = "register"
      BY <1>1, <1>2 DEF Types, RequestOK, StageOK
    <2>2. req[r] \in AuthRequests
      BY <2>1, RoomRequestTyped DEF Op, RoomOps, AdminOnly
    <2>3. NewUser(req[r]) \in User /\ NewUser(req[r]) # None
      BY <2>1, <2>2, AuthRequestTyped, NoneDiffers DEF NewUser, User, Role, Op
    <2>4. /\ users' = [users EXCEPT ![r] = NewUser(req[r])]
          /\ held' = [held EXCEPT ![r] = {"user"}]
          /\ Goto(r, "created") /\ UNCHANGED <<tokens, found>>
      BY <1>4 DEF InsertUser, NewUser
    <2>5. /\ pc' \in [Req -> Labels] /\ pc'[r] = "created" /\ UNCHANGED <<answer, bearer, req>>
          /\ \A q \in Req \ {r} : pc'[q] = pc[q]
      BY <1>1, <2>4, GotoTyped DEF Labels
    <2>6. Types'
      BY <1>1, <2>3, <2>4, <2>5 DEF Types, Role
    <2>7. /\ users'[r] = NewUser(req[r]) /\ held'[r] = {"user"}
          /\ \A u \in Account \ {r} : users'[u] = users[u] /\ held'[u] = held[u]
          /\ Exists(r)' /\ \A u \in Account \ {r} : Exists(u)' = Exists(u)
      BY <1>1, <2>3, <2>4 DEF Types, Exists
    <2>8. TablesGrow
      BY <1>2, <2>7 DEF TablesGrow, HasRoom
    <2>9. KeysUnique'
      <3>1. \A u \in Account : Exists(u) => users[u].email # req[r].email
        BY <1>4 DEF UniqueEmail
      <3> QED
        BY <1>1, <2>7, <3>1 DEF KeysUnique, NewUser, HasRoom
    <2>10. RolesHeld'
      <3>1. \A u \in Account : (Exists(u) => users[u].role \in held[u])'
        BY <1>1, <2>7 DEF RolesHeld, NewUser
      <3>2. \A t \in tokens' : Credible(t)'
        BY <1>1, <2>4, <2>8, CredibleStays DEF RolesHeld, Types
      <3> QED
        BY <3>1, <3>2 DEF RolesHeld
    <2>11. RequestOK(r)'
      <3>1. StageOK(r)' /\ BearerOK(r)'
        BY <1>1, <1>2, <2>5, <2>8, CredibleStays
        DEF RequestOK, StageOK, BearerOK, Op, AdminOnly, Types
      <3>2. RowsOK(r)'
        BY <1>2, <2>5, <2>7 DEF RowsOK, NewUser, Op, HasRoom
      <3> QED
        BY <3>1, <3>2 DEF RequestOK
    <2>12. ASSUME NEW q \in Req, q # r PROVE RequestOK(q)'
      <3>1. Exists(q)' = Exists(q) /\ HasRoom(q)' = HasRoom(q) /\ pc'[q] = pc[q]
        BY <2>5, <2>7, <2>12 DEF HasRoom, Account
      <3>2. Untouched(q)
        BY <2>4, <2>5, <3>1 DEF Untouched
      <3> QED
        BY <2>8, <3>2, OthersOK
    <2> QED
      BY <2>6, <2>9, <2>10, <2>11, <2>12 DEF DirectoryInv
  <1> QED
    BY <1>3, <1>4

LEMMA SelectCreatedInv ==
  ASSUME DirectoryInv, NEW r \in Req, SelectCreated(r), rooms' = rooms
  PROVE  DirectoryInv'
  <1>1. Types /\ RequestOK(r) /\ RolesHeld /\ r \in Account
    BY DEF DirectoryInv, Account
  <1>2. pc[r] = "created" /\ Exists(r)
    BY <1>1 DEF RequestOK, RowsOK, SelectCreated
  <1>3. generateToken(r, users[r]) \in TokenPayload /\ Credible(generateToken(r, users[r]))
    BY <1>1, <1>2 DEF generateToken, TokenPayload, Credible, Exists, Types, User, RolesHeld
  <1> QED
    BY <1>1, <1>2, <1>3, QuietAnswer DEF SelectCreated, Types, Answers, RolesHeld

LEMMA FindByEmailInv ==
  ASSUME DirectoryInv, NEW r \in Req, findByEmailWithPassword(r), rooms' = rooms
  PROVE  DirectoryInv'
  <1>1. Types /\ RequestOK(r) /\ RolesHeld /\ pc[r] = "lookup" /\ Op(r) = "login"
    BY DEF DirectoryInv, RequestOK, StageOK, findByEmailWithPassword
  <1>2. CASE ~emailExists(req[r].email)
    BY <1>1, <1>2, QuietAnswer DEF findByEmailWithPassword, Types, Answers, RolesHeld
  <1>3. CASE emailExists(req[r].email)
    <2>1. PICK u \in Account : /\ Exists(u)
                               /\ found' = [found EXCEPT ![r] = [id |-> u, row |-> users[u]]]
      BY <1>3 DEF findByEmailWithPassword
    <2>2. Goto(r, "compare") /\ UNCHANGED <<users, tokens, held>>
      BY <1>3 DEF findByEmailWithPassword
    <2>3. users[u] \in User /\ users[u].role \in held[u]
      BY <1>1, <2>1 DEF Types, Exists, RolesHeld
    <2>4. /\ pc' \in [Req -> Labels] /\ pc'[r] = "compare" /\ UNCHANGED <<answer, bearer, req>>
          /\ \A q \in Req \ {r} : pc'[q] = pc[q]
      BY <1>1, <2>2, GotoTyped DEF Labels
    <2>5. found'[r] = [id |-> u, row |-> users[u]] /\ \A q \in Req \ {r} : found'[q] = found[q]
      BY <1>1, <2>1 DEF Types
    <2>6. (found[r] \in [id : Account, row : User] /\ Exists(found[r].id))'
      BY <2>1, <2>2, <2>3, <2>5 DEF Exists
    <2>7. Types' /\ OthersRest(r)
      BY <1>1, <2>1, <2>2, <2>3, <2>4, <2>5 DEF Types, OthersRest
    <2>8. RequestOK(r)'
      BY <1>1, <2>1, <2>2, <2>3, <2>4, <2>5, <2>6
      DEF RequestOK, StageOK, BearerOK, RowsOK, Op, Exists, HasRoom, Credible, AdminOnly
    <2> QED
      BY <1>1, <2>2, <2>7, <2>8, QuietStep DEF RolesHeld
  <1> QED
    BY <1>2, <1>3

LEMMA ComparePasswordInv ==
  ASSUME DirectoryInv, NEW r \in Req, ComparePassword(r), rooms' = rooms
  PROVE  DirectoryInv'
  <1>1. Types /\ RolesHeld /\ StageOK(r) /\ pc[r] = "compare"
    BY DEF DirectoryInv, RequestOK, ComparePassword
  <1>2. /\ Op(r) = "login" /\ found[r] \in [id : Account, row : User]
        /\ Exists(found[r].id) /\ found[r].row.role \in held[found[r].id]
    BY <1>1 DEF StageOK, Types
  <1>3. /\ generateToken(found[r].id, found[r].row) \in TokenPayload
        /\ Credible(generateToken(found[r].id, found[r].row))
    BY <1>2 DEF generateToken, TokenPayload, Credible, User
  <1> QED
    BY <1>1, <1>2, <1>3, QuietAnswer DEF ComparePassword, Types, Answers, RolesHeld

LEMMA ReadProfileInv ==
  ASSUME DirectoryInv, NEW r \in Req, ReadProfile(r), rooms' = rooms
  PROVE  DirectoryInv'
  <1>1. Types /\ RolesHeld /\ BearerOK(r) /\ StageOK(r) /\ pc[r] = "profile"
    BY DEF DirectoryInv, RequestOK, ReadProfile
  <1>2. Exists(bearer[r].user) /\ Op(r) = "me"
    BY <1>1 DEF BearerOK, StageOK, Credible
  <1>3. Answer(r, "ok") /\ UNCHANGED accountVars
    BY <1>2 DEF ReadProfile
  <1> QED
    BY <1>1, <1>2, <1>3, QuietAnswer DEF Types, Answers, RolesHeld, accountVars

LEMMA SetRoleInv ==
  ASSUME DirectoryInv, NEW u \in Account, NEW role \in Role, SetRole(u, role), rooms' = rooms
  PROVE  DirectoryInv'
  <1>1. Types /\ KeysUnique /\ RolesHeld /\ users[u] \in User
    BY DEF DirectoryInv, SetRole, Exists, Types
  <1>2. /\ users' = [users EXCEPT ![u] = [users[u] EXCEPT !.role = role]]
        /\ held' = [held EXCEPT ![u] = held[u] \cup {role}]
        /\ UNCHANGED requestVars /\ UNCHANGED <<tokens, found>>
    BY DEF SetRole
  <1>3. Types'
    BY <1>1, <1>2 DEF Types, requestVars, User
  <1>4. /\ \A v \in Account : Exists(v)' = Exists(v) /\ held[v] \subseteq held'[v]
        /\ \A v \in Account : Exists(v) => users'[v].email = users[v].email
        /\ users'[u].role = role /\ role \in held'[u]
        /\ \A v \in Account \ {u} : users'[v] = users[v]
    <2>1. [users[u] EXCEPT !.role = role] \in User
      BY <1>1 DEF User
    <2>2. [users[u] EXCEPT !.role = role] # None /\ users[u] # None
      BY <1>1, <2>1, NoneDiffers
    <2>3. [users[u] EXCEPT !.role = role].email = users[u].email
          /\ [users[u] EXCEPT !.role = role].role = role
      BY <1>1 DEF User
    <2> QED
      BY <1>1, <1>2, <2>1, <2>2, <2>3 DEF Types, Exists
  <1>5. TablesGrow
    BY <1>4 DEF TablesGrow, HasRoom
  <1>6. KeysUnique'
    BY <1>1, <1>4 DEF KeysUnique, HasRoom
  <1>7. RolesHeld'
    <2>1. \A v \in Account : (Exists(v) => users[v].role \in held[v])'
      BY <1>1, <1>4 DEF RolesHeld
    <2>2. \A t \in tokens' : Credible(t)'
      BY <1>1, <1>2, <1>5, CredibleStays DEF RolesHeld, Types
    <2> QED
      BY <2>1, <2>2 DEF RolesHeld
  <1>8. ASSUME NEW q \in Req PROVE RequestOK(q)'
    <2>1. Untouched(q)
      BY <1>2, <1>4 DEF Untouched, requestVars, HasRoom, Account
    <2> QED
      BY <1>5, <2>1, OthersOK
  <1> QED
    BY <1>3, <1>6, <1>7, <1>8 DEF DirectoryInv

LEMMA RoomRequest ==
  ASSUME Types, NEW r \in Req, req[r] # None, Op(r) \in RoomOps
  PROVE  req[r] \in RoomRequests
  BY AuthRequestTyped DEF Types, Op, RoomOps, AdminOnly

(* A row is written by a request that has just made it, or found it. *)
LEMMA WriteRoom ==
  ASSUME DirectoryInv, NEW r \in Req, NEW k \in RoomKey, NEW new \in Row,
         HasRoom(k) \/ k = r, UniqueName(k, new.name),
         rooms' = [rooms EXCEPT ![k] = new], UNCHANGED accountVars,
         OthersRest(r), Types', TablesGrow => RequestOK(r)'
  PROVE  DirectoryInv'
  <1>1. Types /\ KeysUnique /\ RolesHeld /\ new # None
    BY NoneDiffers DEF DirectoryInv
  <1>2. /\ rooms'[k] = new /\ HasRoom(k)'
        /\ \A j \in RoomKey \ {k} : rooms'[j] = rooms[j] /\ HasRoom(j)' = HasRoom(j)
        /\ \A u : Exists(u)' = Exists(u)
    BY <1>1 DEF Types, HasRoom, Exists, accountVars
  <1>3. TablesGrow
    BY <1>2 DEF TablesGrow, accountVars
  <1>4. KeysUnique'
    <2>1. \A u, v \in Account :
            (Exists(u) /\ Exists(v) /\ users[u].email = users[v].email => u = v)'
      BY <1>1, <1>2 DEF KeysUnique, accountVars
    <2>2. \A i, j \in RoomKey :
            (HasRoom(i) /\ HasRoom(j) /\ rooms[i].name = rooms[j].name => i = j)'
      BY <1>1, <1>2 DEF KeysUnique, UniqueName
    <2> QED
      BY <2>1, <2>2 DEF KeysUnique
  <1>5. RolesHeld'
    BY <1>1, <1>2 DEF RolesHeld, Credible, accountVars
  <1>6. ASSUME NEW q \in Req, q # r PROVE RequestOK(q)'
    <2>1. HasRoom(q)' => HasRoom(q)
      BY <1>2, <1>6 DEF RoomKey
    <2>2. Untouched(q)
      BY <1>2, <1>6, <2>1 DEF Untouched, OthersRest
    <2> QED
      BY <1>3, <2>2, OthersOK
  <1> QED
    BY <1>3, <1>4, <1>5, <1>6 DEF DirectoryInv

LEMMA InsertRoomInv ==
  ASSUME DirectoryInv, NEW r \in Req, InsertRoom(r)
  PROVE  DirectoryInv'
  <1>1. Types /\ RolesHeld /\ StageOK(r) /\ BearerOK(r) /\ RowsOK(r) /\ pc[r] = "insertRoom"
    BY DEF DirectoryInv, RequestOK, InsertRoom
  <1>2. Op(r) = "createRoom" /\ req[r].body \in Row /\ r \in RoomKey /\ ~Exists(r)
    BY <1>1, RoomRequest, RoomRequestTyped DEF StageOK, RowsOK, RoomOps, AdminOnly, Op, RoomKey
  <1>3. CASE ~UniqueName(r, req[r].body.name)
    BY <1>1, <1>2, <1>3, QuietAnswer DEF InsertRoom, Types, Answers, RolesHeld, accountVars
  <1>4. CASE UniqueName(r, req[r].body.name)
    <2>1. /\ rooms' = [rooms EXCEPT ![r] = req[r].body]
          /\ Goto(r, "reread") /\ UNCHANGED accountVars
      BY <1>4 DEF InsertRoom
    <2>2. /\ pc' \in [Req -> Labels] /\ pc'[r] = "reread" /\ UNCHANGED <<answer, bearer, req>>
          /\ \A q \in Req \ {r} : pc'[q] = pc[q]
      BY <1>1, <2>1, GotoTyped DEF Labels
    <2>3. Types' /\ OthersRest(r)
      BY <1>1, <1>2, <2>1, <2>2 DEF Types, OthersRest, accountVars
    <2>4. rooms'[r] = req[r].body /\ HasRoom(r)'
      BY <1>1, <1>2, <2>1, NoneDiffers DEF Types, HasRoom
    <2>5. RequestOK(r)'
      <3>1. StageOK(r)'
        BY <1>1, <1>2, <2>2, <2>4 DEF StageOK, Op, RoomOf
      <3>2. BearerOK(r)'
        BY <1>1, <2>1, <2>2 DEF BearerOK, Op, Credible, Exists, accountVars
      <3>3. RowsOK(r)'
        BY <1>2, <2>1, <2>2 DEF RowsOK, Op, Exists, accountVars
      <3> QED
        BY <3>1, <3>2, <3>3 DEF RequestOK
    <2> QED
      BY <1>2, <1>4, <2>1, <2>3, <2>5, WriteRoom
  <1> QED
    BY <1>3, <1>4

(* What a step that goes on with a room needs of its request *)
LEMMA GoOnOK ==
  ASSUME DirectoryInv, NEW r \in Req, NEW label \in {"write", "reread"}, Goto(r, label),
         pc[r] \in {"findRoom", "write"}, UNCHANGED accountVars,
         HasRoom(r)' => HasRoom(r), HasRoom(RoomOf(r))',
         label = "write" => Op(r) \in {"updateRoom", "deleteRoom", "book"},
         label = "reread" => Op(r) = "updateRoom"
  PROVE  RequestOK(r)'
  <1>1. Types /\ StageOK(r) /\ BearerOK(r) /\ RowsOK(r)
    BY DEF DirectoryInv, RequestOK
  <1>2. pc'[r] = label /\ UNCHANGED <<answer, bearer, req>>
    BY <1>1, GotoTyped DEF Labels
  <1>3. StageOK(r)'
    BY <1>1, <1>2 DEF StageOK, Op, RoomOf, HasRoom
  <1>4. BearerOK(r)'
    BY <1>1, <1>2 DEF BearerOK, Op, Credible, Exists, accountVars
  <1>5. RowsOK(r)'
    BY <1>1, <1>2 DEF RowsOK, Op, Exists, accountVars
  <1> QED
    BY <1>3, <1>4, <1>5 DEF RequestOK

LEMMA FindRoomInv ==
  ASSUME DirectoryInv, NEW r \in Req, FindRoom(r)
  PROVE  DirectoryInv'
  <1>1. Types /\ RolesHeld /\ StageOK(r) /\ pc[r] = "findRoom"
    BY DEF DirectoryInv, RequestOK, FindRoom
  <1>2. Op(r) \in {"updateRoom", "deleteRoom", "getRoom", "book"}
    BY <1>1 DEF StageOK
  <1>3. ASSUME NEW a \in {"not_found", "ok"}, Answer(r, a) PROVE DirectoryInv'
    BY <1>1, <1>2, <1>3, QuietAnswer DEF FindRoom, Types, Answers, RolesHeld, accountVars
  <1>4. CASE HasRoom(req[r].id) /\ Op(r) # "getRoom" /\ Goto(r, "write")
    <2>1. Types' /\ OthersRest(r)
      BY <1>1, <1>4, GotoTyped DEF FindRoom, Types, OthersRest, accountVars, Labels
    <2>2. HasRoom(RoomOf(r))' /\ (HasRoom(r)' => HasRoom(r))
      BY <1>2, <1>4 DEF FindRoom, RoomOf, HasRoom, Goto, Op
    <2>3. RequestOK(r)'
      BY <1>1, <1>2, <1>4, <2>2, GoOnOK DEF FindRoom
    <2> QED
      BY <1>1, <2>1, <2>3, QuietStep DEF FindRoom, RolesHeld, accountVars
  <1> QED
    BY <1>3, <1>4 DEF FindRoom

LEMMA UpdateFieldsInv ==
  ASSUME DirectoryInv, NEW r \in Req, UpdateFields(r)
  PROVE  DirectoryInv'
  <1> DEFINE id == req[r].id
             new == SetFields(rooms[id], req[r].body)
  <1>1. /\ Types /\ RolesHeld /\ StageOK(r) /\ RowsOK(r)
        /\ pc[r] = "write" /\ Op(r) = "updateRoom" /\ UNCHANGED accountVars
    BY DEF DirectoryInv, RequestOK, UpdateFields
  <1>2. HasRoom(id) /\ id \in RoomKey /\ req[r].body \in Body
    BY <1>1, RoomRequest, RoomRequestTyped DEF StageOK, HasRoom, Op, RoomOps, AdminOnly
  <1>3. rooms[id] \in Row /\ new \in Row
    BY <1>1, <1>2, FieldsTyped DEF Types, HasRoom
  <1>4. CASE UniqueName(id, new.name)
    <2>1. rooms' = [rooms EXCEPT ![id] = new] /\ Goto(r, "reread")
      BY <1>2, <1>4 DEF UpdateFields
    <2>2. Types' /\ OthersRest(r)
      BY <1>1, <1>2, <1>3, <2>1, GotoTyped DEF Types, OthersRest, accountVars, Labels
    <2>3. HasRoom(id)' /\ (HasRoom(r)' => HasRoom(r))
      BY <1>1, <1>2, <1>3, <2>1, NoneDiffers DEF Types, HasRoom, Goto
    <2>4. HasRoom(RoomOf(r))'
      BY <1>1, <2>1, <2>3 DEF RoomOf, Goto, Op
    <2>5. RequestOK(r)'
      BY <1>1, <2>1, <2>3, <2>4, GoOnOK DEF RoomOf, Goto, HasRoom
    <2> QED
      BY <1>1, <1>2, <1>3, <1>4, <2>1, <2>2, <2>5, WriteRoom
  <1>5. CASE ~UniqueName(id, new.name)
    BY <1>1, <1>2, <1>5, QuietAnswer DEF UpdateFields, Types, Answers, RolesHeld, accountVars
  <1> QED
    BY <1>4, <1>5

LEMMA SoftDeleteInv ==
  ASSUME DirectoryInv, NEW r \in Req, SoftDelete(r)
  PROVE  DirectoryInv'
  <1> DEFINE id == req[r].id
  <1>1. /\ Types /\ RolesHeld /\ KeysUnique /\ StageOK(r) /\ RowsOK(r)
        /\ pc[r] = "write" /\ Op(r) = "deleteRoom" /\ UNCHANGED accountVars
    BY DEF DirectoryInv, RequestOK, SoftDelete
  <1>2. HasRoom(id) /\ id \in RoomKey /\ rooms[id] \in Row
    BY <1>1 DEF StageOK, HasRoom, Types
  <1>3. PICK a \in {"ok", "error"} : Answer(r, a)
    BY <1>2 DEF SoftDelete
  <1>4. rooms' = [rooms EXCEPT ![id] = Deleted(rooms[id])]
    BY <1>2 DEF SoftDelete
  <1>5. Deleted(rooms[id]) \in Row /\ Deleted(rooms[id]).name = rooms[id].name
    BY <1>2 DEF Deleted, Row
  <1>6. UniqueName(id, Deleted(rooms[id]).name)
    BY <1>1, <1>2, <1>5 DEF UniqueName, KeysUnique
  <1>7. Types' /\ OthersRest(r)
    BY <1>1, <1>2, <1>3, <1>4, <1>5, AnswerTyped DEF Types, OthersRest, accountVars, Answers
  <1>8. HasRoom(r)' = HasRoom(r)
    BY <1>1, <1>2, <1>4, <1>5, NoneDiffers DEF Types, HasRoom
  <1>9. RequestOK(r)'
    BY <1>1, <1>3, <1>8, AnswerOK DEF Answers, accountVars
  <1> QED
    BY <1>1, <1>2, <1>4, <1>5, <1>6, <1>7, <1>9, WriteRoom

LEMMA RereadInv ==
  ASSUME DirectoryInv, NEW r \in Req, Reread(r)
  PROVE  DirectoryInv'
  <1>1. Types /\ RolesHeld /\ StageOK(r) /\ pc[r] = "reread"
    BY DEF DirectoryInv, RequestOK, Reread
  <1>2. HasRoom(RoomOf(r)) /\ Op(r) \in {"createRoom", "updateRoom"}
    BY <1>1 DEF StageOK
  <1>3. Answer(r, "ok")
    BY <1>2 DEF Reread
  <1> QED
    BY <1>1, <1>2, <1>3, QuietAnswer DEF Reread, Types, Answers, RolesHeld, accountVars

LEMMA BookRoomInv ==
  ASSUME DirectoryInv, NEW r \in Req, BookRoom(r)
  PROVE  DirectoryInv'
  <1>1. Types /\ RolesHeld /\ StageOK(r) /\ pc[r] = "write" /\ Op(r) = "book"
    BY DEF DirectoryInv, RequestOK, BookRoom
  <1>2. Answer(r, "ok")
    BY <1>1 DEF StageOK, BookRoom
  <1> QED
    BY <1>1, <1>2, QuietAnswer DEF BookRoom, Types, Answers, RolesHeld, accountVars, roomVars

LEMMA FindAllInv ==
  ASSUME DirectoryInv, NEW r \in Req, findAll(r)
  PROVE  DirectoryInv'
  <1>1. Types /\ RolesHeld /\ pc[r] = "list" /\ Op(r) = "getRooms"
    BY DEF DirectoryInv, RequestOK, StageOK, findAll
  <1> QED
    BY <1>1, QuietAnswer DEF findAll, Types, Answers, RolesHeld, accountVars

LEMMA NextDirectoryInv == DirectoryInv /\ [Next]_vars => DirectoryInv'
  <1> SUFFICES ASSUME DirectoryInv, [Next]_vars PROVE DirectoryInv'
    OBVIOUS
  <1>1. CASE AccountsNext /\ UNCHANGED roomVars
    <2>1. rooms' = rooms
      BY <1>1 DEF roomVars
    <2>2. ASSUME NEW r \in Req, AuthStep(r) \/ Fail(r) PROVE DirectoryInv'
      BY <2>1, <2>2, FailInv, CheckEmailInv, InsertUserInv, SelectCreatedInv, FindByEmailInv,
         ComparePasswordInv, ReadProfileInv DEF AuthStep
    <2>3. ASSUME NEW r \in Req, NEW q \in AuthRequests,
                 \/ q.op # "me" /\ ArriveAtAuth(r, q)
                 \/ q.op = "me" /\ ArriveAtMe(r, q)
          PROVE  DirectoryInv'
      BY <2>1, <2>3, ArriveAtAuthInv, ArriveAtMeInv
    <2>4. ASSUME NEW change \in RoleChanges, SetRole(change[1], change[2]) PROVE DirectoryInv'
      BY <2>1, <2>4, RoleChangesTyped, SetRoleInv
    <2> QED
      BY <1>1, <2>2, <2>3, <2>4 DEF AccountsNext
  <1>2. ASSUME NEW r \in Req, RoomStep(r) PROVE DirectoryInv'
    BY <1>2, InsertRoomInv, FindRoomInv, UpdateFieldsInv, SoftDeleteInv, RereadInv, BookRoomInv,
       FindAllInv DEF RoomStep
  <1>3. ASSUME NEW r \in Req, NEW q \in RoomRequests, ArriveAtRooms(r, q) PROVE DirectoryInv'
    BY <1>3, ArriveAtRoomsInv
  <1>4. CASE UNCHANGED vars
    BY <1>4 DEF vars, accountVars, requestVars, roomVars, DirectoryInv, Types, KeysUnique,
       RolesHeld, RequestOK, StageOK, BearerOK, RowsOK, Exists, HasRoom, Credible, Op, RoomOf,
       emailExists
  <1> QED
    BY <1>1, <1>2, <1>3, <1>4 DEF Next

LEMMA DirectoryInvHolds == Spec => []DirectoryInv
  BY InitDirectoryInv, NextDirectoryInv, PTL DEF Spec
-----------------------------------------------------------------------------
(* Theorems *)

\* Tables and requests hold values of their kinds, a row belongs to the request that
\* made it, and emails and room names stay unique, for all sets of requests.
THEOREM DirectoryTyped == Spec => []DirectoryTypeOK
  <1>1. DirectoryInv => DirectoryTypeOK
    <2> SUFFICES ASSUME DirectoryInv PROVE DirectoryTypeOK
      OBVIOUS
    <2>1. Types /\ KeysUnique /\ RolesHeld /\ \A r \in Req : RowsOK(r)
      BY DEF DirectoryInv, RequestOK
    <2> QED
      BY <2>1 DEF DirectoryTypeOK, Types, Labels, Answers, KeysUnique, RolesHeld, RowsOK
  <1> QED
    BY <1>1, DirectoryInvHolds, PTL

\* What a registration is told is true and stays true (auth.service.ts:31-44).
THEOREM RegistrationsToldTruth == Spec => []RegistrationTold
  <1>1. DirectoryInv => RegistrationTold
    <2> SUFFICES ASSUME DirectoryInv, NEW r \in Req, pc[r] = "done", Op(r) = "register"
                 PROVE  /\ answer[r] = "ok" =>
                             /\ Exists(r)
                             /\ \A u \in Account :
                                  Exists(u) /\ users[u].email = req[r].email => u = r
                        /\ answer[r] \in {"conflict", "duplicate"} =>
                             ~Exists(r) /\ emailExists(req[r].email)
      BY DEF RegistrationTold
    <2>1. RowsOK(r) /\ KeysUnique /\ r \in Account
      BY DEF DirectoryInv, RequestOK, Account
    <2> QED
      BY <2>1 DEF RowsOK, KeysUnique
  <1> QED
    BY <1>1, DirectoryInvHolds, PTL

\* No later statement misses a row that an earlier one has found (rooms.repo.ts:191,
\* 250, 261; auth.service.ts:108).
THEOREM NothingVanishes == Spec => []FoundStaysFound
  <1>1. DirectoryInv => FoundStaysFound
    BY DEF DirectoryInv, RequestOK, RowsOK, FoundStaysFound
  <1> QED
    BY <1>1, DirectoryInvHolds, PTL

Fields == {"name", "floor", "is_active"}

\* r, whom the route has let through as an administrator, changes room k.
Writes(r, k) ==
  /\ pc[r] \in {"insertRoom", "write"} /\ pc'[r] # pc[r] /\ Op(r) \in AdminOnly
  /\ k = RoomOf(r) /\ k \in RoomKey
  /\ \A j \in RoomKey \ {k} : rooms'[j] = rooms[j]
  /\ rooms'[k] \in Row
  /\ \A f \in Fields : \/ HasRoom(k) /\ rooms'[k][f] = rooms[k][f]
                       \/ Asks(r, k, f, rooms'[k][f])

(* The table of rooms is written by requests of administrators, for their  *)
(* own room, field by field.                                               *)
LEMMA RoomsWrittenAsAsked ==
  ASSUME DirectoryInv, [Next]_vars, rooms' # rooms
  PROVE  \E r \in Req, k \in RoomKey : Writes(r, k)
  <1>1. \E r \in Req : InsertRoom(r) \/ UpdateFields(r) \/ SoftDelete(r)
    BY DEF Next, vars, roomVars, RoomStep, FindRoom, Reread, BookRoom, findAll, ArriveAtRooms
  <1>2. ASSUME NEW r \in Req, InsertRoom(r) PROVE \E k \in RoomKey : Writes(r, k)
    <2>1. /\ Types /\ StageOK(r) /\ RowsOK(r) /\ pc[r] = "insertRoom"
          /\ rooms' = [rooms EXCEPT ![r] = req[r].body] /\ Goto(r, "reread")
      BY <1>2 DEF DirectoryInv, RequestOK, InsertRoom
    <2>2. Op(r) = "createRoom" /\ req[r].body \in Row /\ r \in RoomKey
      BY <2>1, RoomRequest, RoomRequestTyped DEF StageOK, RoomOps, AdminOnly, Op, RoomKey
    <2>3. rooms'[r] = req[r].body /\ \A j \in RoomKey \ {r} : rooms'[j] = rooms[j]
      BY <2>1, <2>2 DEF Types
    <2>4. pc'[r] = "reread"
      BY <2>1, GotoTyped DEF Labels
    <2>5. Writes(r, r)
      BY <2>1, <2>2, <2>3, <2>4 DEF Writes, RoomOf, AdminOnly, Asks, Served
    <2> QED
      BY <2>2, <2>5
  <1>3. ASSUME NEW r \in Req, UpdateFields(r) PROVE \E k \in RoomKey : Writes(r, k)
    <2> DEFINE id == req[r].id
               new == SetFields(rooms[id], req[r].body)
    <2>1. Types /\ StageOK(r) /\ pc[r] = "write" /\ Op(r) = "updateRoom"
      BY <1>3 DEF DirectoryInv, RequestOK, UpdateFields
    <2>2. HasRoom(id) /\ id \in RoomKey /\ req[r].body \in Body
      BY <2>1, RoomRequest, RoomRequestTyped DEF StageOK, HasRoom, Op, RoomOps, AdminOnly
    <2>3. rooms[id] \in Row /\ new \in Row
      BY <2>1, <2>2, FieldsTyped DEF Types, HasRoom
    <2>4. rooms' = [rooms EXCEPT ![id] = new] /\ Goto(r, "reread")
      BY <1>3, <2>2 DEF UpdateFields
    <2>5. pc'[r] = "reread"
      BY <2>1, <2>4, GotoTyped DEF Labels
    <2>6. rooms'[id] = new /\ \A j \in RoomKey \ {id} : rooms'[j] = rooms[j]
      BY <2>1, <2>2, <2>4 DEF Types
    <2>7. \A f \in Fields : new[f] = rooms[id][f] \/ new[f] = req[r].body[f]
      BY DEF SetFields, Or, Fields
    <2>8. Writes(r, id)
      BY <2>1, <2>2, <2>3, <2>5, <2>6, <2>7 DEF Writes, RoomOf, AdminOnly, Asks, Served
    <2> QED
      BY <2>2, <2>8
  <1>4. ASSUME NEW r \in Req, SoftDelete(r) PROVE \E k \in RoomKey : Writes(r, k)
    <2> DEFINE id == req[r].id
    <2>1. Types /\ StageOK(r) /\ pc[r] = "write" /\ Op(r) = "deleteRoom"
      BY <1>4 DEF DirectoryInv, RequestOK, SoftDelete
    <2>2. HasRoom(id) /\ id \in RoomKey /\ rooms[id] \in Row
      BY <2>1 DEF StageOK, HasRoom, Types
    <2>3. rooms' = [rooms EXCEPT ![id] = Deleted(rooms[id])] /\ pc'[r] = "done"
      BY <1>4, <2>1, <2>2 DEF SoftDelete, Answer, Types
    <2>4. rooms'[id] = Deleted(rooms[id]) /\ \A j \in RoomKey \ {id} : rooms'[j] = rooms[j]
      BY <2>1, <2>2, <2>3 DEF Types
    <2>5. /\ Deleted(rooms[id]) \in Row /\ Deleted(rooms[id]).is_active = FALSE
          /\ \A f \in Fields : f = "is_active" \/ Deleted(rooms[id])[f] = rooms[id][f]
      BY <2>2 DEF Deleted, Row, Fields
    <2>6. Writes(r, id)
      BY <2>1, <2>2, <2>3, <2>4, <2>5 DEF Writes, RoomOf, AdminOnly, Asks, Served
    <2> QED
      BY <2>2, <2>6
  <1> QED
    BY <1>1, <1>2, <1>3, <1>4

\* Only who is or has been an administrator changes the directory, whatever roles
\* change while his request runs (auth.repo.ts:43, middlewares/auth.ts:36-50).
THEOREM AdminsChangeRooms == Spec => OnlyAdminsChangeRooms
  <1>1. DirectoryInv /\ [Next]_vars =>
          [rooms' # rooms =>
             \E r \in Req : pc'[r] # pc[r] /\ "admin" \in held[bearer[r].user]]_vars
    <2> SUFFICES ASSUME DirectoryInv, [Next]_vars, rooms' # rooms
                 PROVE  \E r \in Req : pc'[r] # pc[r] /\ "admin" \in held[bearer[r].user]
      OBVIOUS
    <2>1. PICK r \in Req, k \in RoomKey : Writes(r, k)
      BY RoomsWrittenAsAsked
    <2>2. BearerOK(r) /\ pc[r] \notin {"idle", "done"} /\ Op(r) \in AdminOnly
      BY <2>1 DEF DirectoryInv, RequestOK, Writes
    <2>3. "admin" \in held[bearer[r].user]
      BY <2>2 DEF BearerOK, Credible
    <2> QED
      BY <2>1, <2>3 DEF Writes
  <1> QED
    BY <1>1, DirectoryInvHolds, PTL DEF Spec, OnlyAdminsChangeRooms

\* Concurrent updates of different fields never undo each other, and no update
\* revives a deleted room in passing (rooms.repo.ts:211-245).
THEOREM NamedFieldsChange == Spec => OnlyNamedFieldsChange
  <1>1. DirectoryInv /\ [Next]_vars =>
          [\A k \in RoomKey : HasRoom(k) /\ rooms'[k] # None =>
             \A f \in {"name", "floor", "is_active"} : rooms'[k][f] # rooms[k][f] =>
               \E r \in Req : pc'[r] # pc[r] /\ Asks(r, k, f, rooms'[k][f])]_vars
    <2> SUFFICES ASSUME DirectoryInv, [Next]_vars, NEW k \in RoomKey, HasRoom(k),
                        NEW f \in Fields, rooms'[k][f] # rooms[k][f]
                 PROVE  \E r \in Req : pc'[r] # pc[r] /\ Asks(r, k, f, rooms'[k][f])
      BY DEF Fields
    <2>1. PICK r \in Req, j \in RoomKey : Writes(r, j)
      BY RoomsWrittenAsAsked
    <2>2. j = k
      BY <2>1 DEF Writes
    <2> QED
      BY <2>1, <2>2 DEF Writes
  <1> QED
    BY <1>1, DirectoryInvHolds, PTL DEF Spec, OnlyNamedFieldsChange
=============================================================================
