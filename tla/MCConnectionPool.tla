--------------------------- MODULE MCConnectionPool ---------------------------
(***************************************************************************)
(* Requests that mail invitations over as many connections.                *)
(***************************************************************************)
EXTENDS ConnectionPool

CONSTANTS r1, r2, r3

\* The handler that looks up mail addresses inside its transaction
MailPlans == [r \in Req |-> {InvitePlan}]
=============================================================================
