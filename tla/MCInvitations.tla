----------------------------- MODULE MCInvitations -----------------------------
(***************************************************************************)
(* One booking of ann's, two users to invite and an administrator.         *)
(***************************************************************************)
EXTENDS Invitations, TLC

CONSTANTS r1, r2, r3

ReqSymmetry == Permutations(Req)

To(users) == [op |-> "invite", id |-> "m", by |-> "ann", users |-> users]
Off(u) == [op |-> "remove", id |-> "m", by |-> "ann", user |-> u]
Say(u, status) == [op |-> "respond", id |-> "m", by |-> u, status |-> status]
Drop(by) == [op |-> "cancel", id |-> "m", by |-> by]
Set(status) == [op |-> "patch", id |-> "m", by |-> "ann", status |-> status]

\* Every operation, with a list that names the owner and nobody, a stranger who
\* tries each of them, a booking that does not exist, and PATCHes that cancel,
\* bring back and leave the status alone.
AllRequests ==
  {To({"bob", "ann"}), To({"ann", None}), Off("bob"),
   Say("bob", "accepted"), Say("bob", "declined"),
   Drop("ann"), Drop("bob"), Drop("root"), Set("confirmed"), Set("cancelled"), Set(None),
   [To({"ann"}) EXCEPT !.by = "bob"], [Say("bob", "accepted") EXCEPT !.id = "x"],
   [Off("bob") EXCEPT !.id = "x"], [Drop("ann") EXCEPT !.id = "x"]}

TwoInvitees == {To({"bob", "cid"}), Say("bob", "accepted"), Drop("ann")}
=============================================================================
