------------------------------- MODULE MCRooms -------------------------------
(***************************************************************************)
(* Sample data with one administrator, who has a session, one user and one *)
(* room; new accounts, rooms and changes by three requests at a time.      *)
(***************************************************************************)
EXTENDS Rooms, TLC

CONSTANTS r1, r2, r3

ReqSymmetry == Permutations(Req)

NoUsers == [u \in Account |-> None]
MCSeedUsers == [NoUsers EXCEPT !["root"] = [email |-> "root@", password |-> "p", role |-> "admin"]]
MCSessions == {[user |-> "root", role |-> "admin"]}
Hall(active) == [name |-> "hall", floor |-> 1, is_active |-> active]
MCSeedRooms == [k \in RoomKey |-> IF k = "A" THEN Hall(TRUE) ELSE None]

Credentials(op, email, password) == [op |-> op, email |-> email, password |-> password]
MCAuthRequests ==
  {Credentials("register", "ann@", "p"), Credentials("login", "ann@", "p"),
   Credentials("login", "root@", "w"), [op |-> "me"]}

\* New accounts may become administrators, the old administrator may cease to be one.
MCRoleChanges == {<<r, "admin">> : r \in Req} \cup {<<"root", "user">>}

Same == [name |-> None, floor |-> None, is_active |-> None]
Update(id, body) == [op |-> "updateRoom", id |-> id, body |-> body]
On(op, id) == [op |-> op, id |-> id]
MCRoomRequests ==
  {[op |-> "createRoom", body |-> [name |-> "loft", floor |-> 0, is_active |-> TRUE]],
   Update("A", [Same EXCEPT !.name = "loft"]), Update("A", [Same EXCEPT !.is_active = TRUE]),
   Update("A", [Same EXCEPT !.is_active = FALSE, !.floor = 0]),
   On("deleteRoom", "A"), On("book", "A"), On("getRoom", "nowhere"),
   [op |-> "getRooms", floor |-> None]}
=============================================================================
