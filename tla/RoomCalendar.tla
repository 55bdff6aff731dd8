----------------------------- MODULE RoomCalendar -----------------------------
(***************************************************************************)
(* What a client may rely on: one calendar in which no two active bookings *)
(* of a room overlap; an accepted request changes one booking, in one      *)
(* step, as it stands at that moment, or it has noticed, at some moment    *)
(* since it was asked, that there was nothing to change; a refused one     *)
(* changes nothing; only after "error" does the client not know which of   *)
(* these happened.                                                         *)
(***************************************************************************)
CONSTANTS Req, Booking, Requests, SeedRows, Active, None,
          Target(_, _),     \* the booking request r with body q is about
          Effect(_, _),     \* the row that body q makes of a row
          Overlap(_, _)     \* two rows share a room and some time

VARIABLES calendar, request, outcome,
          noticed           \* requests that have found nothing to change

Init == /\ calendar = SeedRows
        /\ request = [r \in Req |-> None]
        /\ outcome = [r \in Req |-> None]
        /\ noticed = {}

Pending(r) == request[r] # None /\ outcome[r] = None

Ask(r) == /\ request[r] = None
          /\ \E q \in Requests : request' = [request EXCEPT ![r] = q]
          /\ UNCHANGED <<calendar, outcome, noticed>>

\* A request refused before its handler did anything.
AskAndRefuse(r) ==
  /\ request[r] = None
  /\ \E q \in Requests : request' = [request EXCEPT ![r] = q]
  /\ \E a \in {"bad_request", "not_found", "forbidden"} :
       outcome' = [outcome EXCEPT ![r] = a]
  /\ UNCHANGED <<calendar, noticed>>

Accept(r) ==
  LET b == Target(r, request[r])
      new == Effect(request[r], calendar[b])
  IN /\ Pending(r)
     /\ new.status \in Active =>
          \A c \in Booking \ {b} :
            calendar[c] # None /\ calendar[c].status \in Active
              => ~Overlap(new, calendar[c])
     /\ calendar' = [calendar EXCEPT ![b] = new]
     /\ \E a \in {"ok", "error"} : outcome' = [outcome EXCEPT ![r] = a]
     /\ UNCHANGED <<request, noticed>>

\* Things are as r asks for at this moment: it need not change them.
Notice(r) ==
  LET b == Target(r, request[r])
  IN /\ Pending(r)
     /\ calendar[b] # None /\ Effect(request[r], calendar[b]) = calendar[b]
     /\ noticed' = noticed \cup {r}
     /\ UNCHANGED <<calendar, request, outcome>>

\* Something fails after all, before the answer.
Forget(r) == /\ noticed' = noticed \ {r}
             /\ UNCHANGED <<calendar, request, outcome>>

\* What others have done since is not its concern.
AcceptNoticed(r) ==
  /\ Pending(r) /\ r \in noticed
  /\ \E a \in {"ok", "error"} : outcome' = [outcome EXCEPT ![r] = a]
  /\ noticed' = noticed \ {r}
  /\ UNCHANGED <<calendar, request>>

Reject(r) ==
  /\ Pending(r)
  /\ \E a \in {"bad_request", "not_found", "conflict", "error"} :
       outcome' = [outcome EXCEPT ![r] = a]
  /\ UNCHANGED <<calendar, request, noticed>>

Next == \E r \in Req : \/ Ask(r) \/ AskAndRefuse(r) \/ Accept(r) \/ Reject(r)
                       \/ Notice(r) \/ Forget(r) \/ AcceptNoticed(r)

Spec == Init /\ [][Next]_<<calendar, request, outcome, noticed>>
=============================================================================
