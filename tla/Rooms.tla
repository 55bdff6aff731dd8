--------------------------------- MODULE Rooms ---------------------------------
(***************************************************************************)
(* The room directory and its administrators: the handlers of              *)
(* src/services/rooms.service.ts beside those of Accounts, and             *)
(* createBooking as far as it depends on its room.  Every statement is     *)
(* committed at once; findById before and after it see whatever has been   *)
(* committed by then.                                                      *)
(***************************************************************************)
EXTENDS Accounts

CONSTANTS
  SeedRoom,       \* rooms of the sample data
  RoomId,         \* ids clients name
  Name, Floor,
  SeedRooms,      \* the rows of the sample data
  RoomRequests    \* the requests clients send to /rooms, and POST /bookings

RoomKey == Req \cup SeedRoom   \* rooms.id; a new row is known by its request
Row == [name : Name, floor : Floor, is_active : BOOLEAN]
Body == [name : Name \cup {None}, floor : Floor \cup {None}, is_active : BOOLEAN \cup {None}]

CreateRoom == [op : {"createRoom"}, body : Row]
NoField == [name |-> None, floor |-> None, is_active |-> None]
UpdateRoom == [op : {"updateRoom"}, id : RoomId, body : Body \ {NoField}]
DeleteRoom == [op : {"deleteRoom"}, id : RoomId]
GetRooms == [op : {"getRooms"}, floor : Floor \cup {None}]
GetRoom == [op : {"getRoom", "book"}, id : RoomId]

ASSUME SeedRoomsTyped ==
  /\ SeedRooms \in [RoomKey -> Row \cup {None}]
  /\ \A k \in Req : SeedRooms[k] = None
  /\ \A j, k \in SeedRoom :
       SeedRooms[j] # None /\ SeedRooms[k] # None /\ SeedRooms[j].name = SeedRooms[k].name
       => j = k
ASSUME RoomRequestsTyped ==
  RoomRequests \subseteq CreateRoom \cup UpdateRoom \cup DeleteRoom \cup GetRooms \cup GetRoom
ASSUME NoneIsNoValue == None \notin Row \cup Name \cup Floor \cup BOOLEAN \cup RoomRequests

VARIABLES
  rooms,    \* the table
  got       \* the room, or the list of rooms, a request is answered with

roomVars == <<rooms, got>>
vars == <<accountVars, requestVars, roomVars>>

Init == AccountsInit /\ rooms = SeedRooms /\ got = [r \in Req |-> None]
-----------------------------------------------------------------------------
AdminOnly == {"createRoom", "updateRoom", "deleteRoom"}
RoomOps == AdminOnly \cup {"getRooms", "getRoom", "book"}
HasRoom(k) == k \in RoomKey /\ rooms[k] # None

\* Mutant: the route lacks requireAdmin.
NotRequired(t, op) == TRUE
requireAdmin(t, op) == op \in AdminOnly => t.role = "admin"

FirstStep(op) == CASE op = "createRoom" -> "insertRoom"
                   [] op = "getRooms" -> "list"
                   [] OTHER -> "findRoom"

\* authenticate, requireAdmin, then the handler
ArriveAtRooms(r, q) ==
  /\ \/ Unauthorized(r, q)
     \/ \E t \in tokens : IF requireAdmin(t, q.op)
                          THEN Receive(r, q, t, FirstStep(q.op), None)
                          ELSE Receive(r, q, t, "done", "forbidden")
  /\ UNCHANGED <<accountVars, roomVars>>

\* Mutant: rooms.name is not unique.
NameMayRepeat(k, name) == TRUE
UniqueName(k, name) == \A j \in RoomKey \ {k} : HasRoom(j) => rooms[j].name # name

InsertRoom(r) ==
  /\ pc[r] = "insertRoom"
  /\ IF UniqueName(r, req[r].body.name)
     THEN rooms' = [rooms EXCEPT ![r] = req[r].body] /\ Goto(r, "reread")
     ELSE Answer(r, "duplicate") /\ UNCHANGED rooms
  /\ UNCHANGED got /\ UNCHANGED accountVars

\* getRoomById, which GET /rooms/:id answers with
FindRoom(r) ==
  LET id == req[r].id
  IN /\ pc[r] = "findRoom"
     /\ \/ ~HasRoom(id) /\ Answer(r, "not_found") /\ UNCHANGED got
        \/ /\ HasRoom(id) /\ Op(r) = "getRoom"
           /\ Answer(r, "ok") /\ got' = [got EXCEPT ![r] = rooms[id]]
        \/ HasRoom(id) /\ Op(r) # "getRoom" /\ Goto(r, "write") /\ UNCHANGED got
     /\ UNCHANGED rooms /\ UNCHANGED accountVars

Or(x, y) == IF x # None THEN x ELSE y

\* Mutant: the schema gives is_active its default in updates too.
WithDefault(row, body) == [name |-> Or(body.name, row.name), floor |-> Or(body.floor, row.floor),
                           is_active |-> Or(body.is_active, TRUE)]
\* Mutant: if (data.is_active) instead of !== undefined
IfTruthy(row, body) == [name |-> Or(body.name, row.name), floor |-> Or(body.floor, row.floor),
                        is_active |-> IF body.is_active = TRUE THEN TRUE ELSE row.is_active]
\* UPDATE rooms SET the fields given
SetFields(row, body) == [name |-> Or(body.name, row.name), floor |-> Or(body.floor, row.floor),
                         is_active |-> Or(body.is_active, row.is_active)]

UpdateFields(r) ==
  LET id == req[r].id
      new == SetFields(rooms[id], req[r].body)
  IN /\ pc[r] = "write" /\ Op(r) = "updateRoom"
     /\ IF ~HasRoom(id) THEN Goto(r, "reread") /\ UNCHANGED rooms
        ELSE IF UniqueName(id, new.name)
        THEN rooms' = [rooms EXCEPT ![id] = new] /\ Goto(r, "reread")
        ELSE Answer(r, "duplicate") /\ UNCHANGED rooms
     /\ UNCHANGED got /\ UNCHANGED accountVars

\* Mutant: DELETE FROM rooms
HardDeleted(row) == None
Deleted(row) == [row EXCEPT !.is_active = FALSE]

\* A second deletion finds the row as well; the acknowledgement may be lost.
SoftDelete(r) ==
  LET id == req[r].id
  IN /\ pc[r] = "write" /\ Op(r) = "deleteRoom"
     /\ IF HasRoom(id)
        THEN /\ rooms' = [rooms EXCEPT ![id] = Deleted(rooms[id])]
             /\ \E a \in {"ok", "error"} : Answer(r, a)
        ELSE Answer(r, "vanished") /\ UNCHANGED rooms
     /\ UNCHANGED got /\ UNCHANGED accountVars

RoomOf(r) == IF Op(r) = "createRoom" THEN r ELSE req[r].id

\* findById after INSERT or UPDATE
Reread(r) ==
  /\ pc[r] = "reread"
  /\ IF HasRoom(RoomOf(r))
     THEN Answer(r, "ok") /\ got' = [got EXCEPT ![r] = rooms[RoomOf(r)]]
     ELSE Answer(r, "vanished") /\ UNCHANGED got
  /\ UNCHANGED rooms /\ UNCHANGED accountVars

\* createBooking's INSERT: the foreign key wants the room, nobody asks is_active.
BookRoom(r) ==
  /\ pc[r] = "write" /\ Op(r) = "book"
  /\ Answer(r, IF HasRoom(req[r].id) THEN "ok" ELSE "vanished")
  /\ UNCHANGED roomVars /\ UNCHANGED accountVars

\* Mutant: deleted rooms are listed.
ListedAll(k, floor) == HasRoom(k) /\ (floor \in {None, 0} \/ rooms[k].floor = floor)
\* WHERE is_active = TRUE AND floor = ?; the controller takes floor 0 for no floor.
Listed(k, floor) == /\ HasRoom(k) /\ rooms[k].is_active
                    /\ floor \in {None, 0} \/ rooms[k].floor = floor

findAll(r) ==
  /\ pc[r] = "list"
  /\ got' = [got EXCEPT ![r] = {k \in RoomKey : Listed(k, req[r].floor)}]
  /\ Answer(r, "ok")
  /\ UNCHANGED rooms /\ UNCHANGED accountVars

RoomStep(r) == \/ InsertRoom(r) \/ FindRoom(r) \/ UpdateFields(r) \/ SoftDelete(r)
               \/ Reread(r) \/ BookRoom(r) \/ findAll(r)

Next ==
  \/ AccountsNext /\ UNCHANGED roomVars
  \/ \E r \in Req : RoomStep(r)
  \/ \E r \in Req, q \in RoomRequests : ArriveAtRooms(r, q)

Spec == Init /\ [][Next]_vars
-----------------------------------------------------------------------------
(* Properties *)

\* Values of their kinds; a row made by a request belongs to the request that made
\* it; emails and room names are unique.
DirectoryTypeOK ==
  /\ pc \in [Req -> {"idle", "check", "insert", "created", "lookup", "compare", "profile",
                     "insertRoom", "findRoom", "write", "reread", "list", "done"}]
  /\ req \in [Req -> AuthRequests \cup RoomRequests \cup {None}]
  /\ answer \in [Req -> {None, "ok", "unauthorized", "forbidden", "conflict", "duplicate",
                         "not_found", "vanished", "error"}]
  /\ bearer \in [Req -> TokenPayload \cup {None}]
  /\ users \in [Account -> User \cup {None}] /\ rooms \in [RoomKey -> Row \cup {None}]
  /\ tokens \subseteq TokenPayload
  /\ \A u \in Account : Exists(u) => users[u].role \in held[u]
  /\ \A r \in Req : Exists(r) => Op(r) = "register"
  /\ \A r \in Req : HasRoom(r) => Op(r) = "createRoom"
  /\ \A j, k \in RoomKey : HasRoom(j) /\ HasRoom(k) /\ rooms[j].name = rooms[k].name => j = k

\* The directory changes only at the hands of somebody who is or has been an
\* administrator: registering, logging in and the copy of the role in the token
\* never make one (auth.repo.ts:43, middlewares/auth.ts:36-50).
OnlyAdminsChangeRooms ==
  [][rooms' # rooms =>
       \E r \in Req : pc'[r] # pc[r] /\ "admin" \in held[bearer[r].user]]_vars

\* r asks for v as field f of room k.
Asks(r, k, f, v) ==
  /\ pc[r] # "idle" /\ Served(r)
  /\ \/ Op(r) = "updateRoom" /\ req[r].id = k /\ req[r].body[f] = v
     \/ Op(r) = "deleteRoom" /\ req[r].id = k /\ f = "is_active" /\ v = FALSE
     \/ Op(r) = "createRoom" /\ r = k /\ req[r].body[f] = v

\* A field of a room changes only to what the request that is running asks for: two
\* administrators who change different fields at once never undo each other, and
\* no update revives a deleted room in passing (rooms.repo.ts:211-245).
OnlyNamedFieldsChange ==
  [][\A k \in RoomKey : HasRoom(k) /\ rooms'[k] # None =>
       \A f \in {"name", "floor", "is_active"} : rooms'[k][f] # rooms[k][f] =>
         \E r \in Req : pc'[r] # pc[r] /\ Asks(r, k, f, rooms'[k][f])]_vars

\* The room an administrator is answered with has what he asked for, unless somebody
\* whose request had not been answered when his arrived asks for something else
\* (findById after the UPDATE, rooms.repo.ts:247-254).
AnswersOwnWrites ==
  \A r \in Req : pc[r] = "done" /\ answer[r] = "ok" /\ Op(r) \in {"createRoom", "updateRoom"} =>
    \A f \in {"name", "floor", "is_active"} :
      \/ req[r].body[f] \in {None, got[r][f]}
      \/ \E q \in Req \ ({r} \cup earlier[r]) : Asks(q, RoomOf(r), f, got[r][f])

\* What a request has found stays there for its later statements: the errors "Room
\* not found after update" and "Failed to create room" are never thrown, a booking's
\* foreign key never fails, and no token outlives its account, because rooms are
\* only ever deleted softly (rooms.repo.ts:191, 250, 261; auth.service.ts:108).
FoundStaysFound == \A r \in Req : pc[r] = "done" => answer[r] # "vanished"

\* A room whose deletion has been answered is on no later list, unless somebody has
\* asked for it to be active again since the deletion came (rooms.repo.ts:29).
DeletedStaysHidden ==
  \A r \in Req : pc[r] = "done" /\ answer[r] = "ok" /\ Op(r) = "getRooms" =>
    \A k \in got[r], d \in earlier[r] :
      Op(d) = "deleteRoom" /\ answer[d] = "ok" /\ req[d].id = k =>
        \E q \in Req \ earlier[d] : Asks(q, k, "is_active", TRUE)
=============================================================================
