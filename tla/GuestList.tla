------------------------------ MODULE GuestList ------------------------------
(***************************************************************************)
(* What whoever invites to a meeting, is invited, cancels it or brings it  *)
(* back may rely on: one guest list.  A request is judged at one moment,   *)
(* by the list as it then is, and refused only for a reason that holds     *)
(* then, or because another booking is in its way.  One that is admitted   *)
(* changes the list in one step, as it stands at a later moment; one for   *)
(* which the list was as it asks is done with, whatever comes later; a     *)
(* refused one changes nothing; only after "error" does the client not     *)
(* know which of these happened.                                           *)
(***************************************************************************)
CONSTANTS Req, Requests, Meeting, Owner, Admin, None,
          Before,           \* the list before the requests come
          Invitable(_),     \* the users that an invitation q can go to
          Effect(_, _)      \* the list that q makes of a list

VARIABLES table,            \* the booking's status and everyone's invitation
          begun,            \* the meeting has begun
          request, outcome,
          verdict           \* what has been found of a request not yet answered

Init == /\ table = Before
        /\ begun = FALSE
        /\ request = [r \in Req |-> None]
        /\ verdict = [r \in Req |-> None]
        /\ outcome = [r \in Req |-> None]

Missing(q) == \/ q.id # Meeting
              \/ q.op = "remove" /\ table.of[q.user] = None
              \/ q.op = "respond" /\ table.of[q.by] = None
Forbidden(q) == \/ q.op \in {"invite", "remove"} /\ q.by # Owner
                \/ q.op \in {"cancel", "patch"} /\ q.by \notin Admin \cup {Owner}
Pointless(q) == \/ q.op = "invite" /\ Invitable(q) = {}
                \/ q.op = "respond" /\ begun
                \/ q.op = "patch" /\ table.booking = "cancelled"

Refusals == {"not_found", "forbidden", "bad_request"}
Reasons(q) == {a \in Refusals : \/ a = "not_found" /\ Missing(q)
                                \/ a = "forbidden" /\ Forbidden(q)
                                \/ a = "bad_request" /\ Pointless(q)}

Pending(r) == request[r] # None /\ outcome[r] = None

Ask(r) == /\ request[r] = None
          /\ \E q \in Requests : request' = [request EXCEPT ![r] = q]
          /\ UNCHANGED <<table, begun, verdict, outcome>>

\* A request turned away before its handler did anything.
AskAndRefuse(r) ==
  /\ request[r] = None
  /\ \E q \in Requests : /\ request' = [request EXCEPT ![r] = q]
                         /\ \E a \in Reasons(q) : outcome' = [outcome EXCEPT ![r] = a]
  /\ UNCHANGED <<table, begun, verdict>>

Judge(r) ==
  /\ Pending(r) /\ verdict[r] = None
  /\ \/ Reasons(request[r]) = {} /\ verdict' = [verdict EXCEPT ![r] = "admitted"]
     \/ /\ Reasons(request[r]) = {} /\ Effect(request[r], table) = table
        /\ verdict' = [verdict EXCEPT ![r] = "noticed"]
     \/ \E a \in Reasons(request[r]) : verdict' = [verdict EXCEPT ![r] = a]
  /\ UNCHANGED <<table, begun, request, outcome>>

\* Something fails, before or after it has been judged.
Fail(r) == /\ Pending(r) /\ verdict[r] \in {None, "admitted", "noticed"}
           /\ verdict' = [verdict EXCEPT ![r] = "error"]
           /\ UNCHANGED <<table, begun, request, outcome>>

\* What is in the way is not on this list: another booking of the room.
Collide(r) == /\ Pending(r) /\ verdict[r] = "admitted"
              /\ request[r].op = "patch" /\ request[r].status # "cancelled"
              /\ verdict' = [verdict EXCEPT ![r] = "conflict"]
              /\ UNCHANGED <<table, begun, request, outcome>>

\* What has been admitted takes effect, a removal never in vain.
Accept(r) ==
  LET q == request[r]
  IN /\ Pending(r) /\ verdict[r] = "admitted"
     /\ q.op = "remove" => table.of[q.user] # None
     /\ table' = Effect(q, table)
     /\ \E a \in {"ok", "error"} : outcome' = [outcome EXCEPT ![r] = a]
     /\ verdict' = [verdict EXCEPT ![r] = None]
     /\ UNCHANGED <<begun, request>>

\* What others have done since is not its concern.
AcceptNoticed(r) ==
  /\ Pending(r) /\ verdict[r] = "noticed"
  /\ \E a \in {"ok", "error"} : outcome' = [outcome EXCEPT ![r] = a]
  /\ verdict' = [verdict EXCEPT ![r] = None]
  /\ UNCHANGED <<table, begun, request>>

Reject(r) ==
  /\ Pending(r) /\ verdict[r] \in Refusals \cup {"conflict", "error"}
  /\ outcome' = [outcome EXCEPT ![r] = verdict[r]]
  /\ verdict' = [verdict EXCEPT ![r] = None]
  /\ UNCHANGED <<table, begun, request>>

Begin == /\ begun' = TRUE
         /\ UNCHANGED <<table, request, verdict, outcome>>

Next == \/ \E r \in Req : \/ Ask(r) \/ AskAndRefuse(r) \/ Judge(r)
                          \/ Fail(r) \/ Collide(r) \/ Reject(r)
                          \/ Accept(r) \/ AcceptNoticed(r)
        \/ Begin

Spec == Init /\ [][Next]_<<table, begun, request, verdict, outcome>>
=============================================================================
