---------------------------- MODULE ConnectionPool ----------------------------
(***************************************************************************)
(* The pool of src/config/db.ts: connectionLimit connections, an unbounded *)
(* first-in first-out queue of callers and no time limit on waiting.  What *)
(* a handler does is told only as far as the pool sees it: a query of its  *)
(* own borrows a connection for one statement; a transaction keeps one     *)
(* from "begin" to "end", while its handler may still ask for a second.    *)
(* The statements of a transaction itself need no other connection.        *)
(***************************************************************************)
EXTENDS Naturals, Sequences, FiniteSets

CONSTANTS
  Req,      \* HTTP requests
  Limit,    \* connectionLimit
  PlansOf   \* what each request of this instance may do

ASSUME LimitPositive == Limit \in Nat \ {0}
ASSUME ReqFinite == IsFiniteSet(Req)

(* The handlers, as the pool sees them *)

CreatePlan == <<"query", "query", "begin", "end">>
UpdatePlan == <<"query", "begin", "end">>
MovePlan == <<"query", "begin", "query", "end">>
\* A cancellation that tells one or more invitees, or nobody.
CancelPlan == <<"query", "begin", "query", "query", "end">>
QuietCancelPlan == <<"query", "begin", "query", "end">>
\* One invitee; each further one adds a query.
InvitePlan == <<"begin", "query", "query", "end">>
AcceptPlan == <<"begin", "query", "query", "end">>
DeclinePlan == <<"begin", "end">>
RemovePlan == <<"begin", "end">>
AvailabilityPlan == <<"query", "query">>

AllPlans == {CreatePlan, UpdatePlan, MovePlan, CancelPlan, QuietCancelPlan,
             InvitePlan, AcceptPlan, DeclinePlan, RemovePlan, AvailabilityPlan}

ASSUME PlansKnown == PlansOf \in [Req -> SUBSET AllPlans]

VARIABLES
  phase,   \* "idle", "run", "wait" (in the queue), "query" (borrowing), "done"
  todo,    \* what its handler has still to do
  tx,      \* it keeps a connection for its transaction
  queue    \* callers of getConnection that wait, longest first

poolVars == <<phase, todo, tx, queue>>

PoolInit == /\ phase = [r \in Req |-> "idle"]
            /\ todo = [r \in Req |-> <<>>]
            /\ tx = [r \in Req |-> FALSE]
            /\ queue = <<>>

Wants(r) == Head(todo[r])
InUse == Cardinality({r \in Req : tx[r]}) + Cardinality({r \in Req : phase[r] = "query"})
\* Mutant: withTransaction forgets connection.release().
NeverGivenBack(r) == tx[r]

\* r gives back its query's connection before its transaction's.
KeepsTx(r) == tx[r] /\ phase[r] = "query"

\* Mutant: the connection goes to the free list even if somebody waits.
ReleaseToNobody(r, rest) ==
  /\ phase' = [phase EXCEPT ![r] = "run"]
  /\ todo' = [todo EXCEPT ![r] = rest]
  /\ tx' = [tx EXCEPT ![r] = KeepsTx(r)]
  /\ UNCHANGED queue

\* r gives a connection back and goes on with rest; whoever has waited longest
\* is handed that connection before anyone else can ask.
Release(r, rest) ==
  IF queue = <<>> THEN ReleaseToNobody(r, rest)
  ELSE LET h == Head(queue)
       IN /\ queue' = Tail(queue)
          /\ IF Wants(h) = "begin"
             THEN /\ phase' = [phase EXCEPT ![r] = "run", ![h] = "run"]
                  /\ todo' = [todo EXCEPT ![r] = rest, ![h] = Tail(@)]
                  /\ tx' = [tx EXCEPT ![r] = KeepsTx(r), ![h] = TRUE]
             ELSE /\ phase' = [phase EXCEPT ![r] = "run", ![h] = "query"]
                  /\ todo' = [todo EXCEPT ![r] = rest]
                  /\ tx' = [tx EXCEPT ![r] = KeepsTx(r)]

Start(r) == /\ phase[r] = "idle"
            /\ phase' = [phase EXCEPT ![r] = "run"]
            /\ \E p \in PlansOf[r] : todo' = [todo EXCEPT ![r] = p]
            /\ UNCHANGED <<tx, queue>>

\* getConnection finds no connection free, and may not open another one.
Wait(r) == /\ phase[r] = "run" /\ todo[r] # <<>> /\ Wants(r) # "end"
           /\ InUse = Limit
           /\ phase' = [phase EXCEPT ![r] = "wait"]
           /\ queue' = Append(queue, r)
           /\ UNCHANGED <<todo, tx>>

Begin(r) == /\ phase[r] = "run" /\ todo[r] # <<>> /\ Wants(r) = "begin"
            /\ InUse < Limit
            /\ tx' = [tx EXCEPT ![r] = TRUE]
            /\ todo' = [todo EXCEPT ![r] = Tail(@)]
            /\ UNCHANGED <<phase, queue>>

Query(r) == /\ phase[r] = "run" /\ todo[r] # <<>> /\ Wants(r) = "query"
            /\ InUse < Limit
            /\ phase' = [phase EXCEPT ![r] = "query"]
            /\ UNCHANGED <<todo, tx, queue>>

EndQuery(r) == phase[r] = "query" /\ Release(r, Tail(todo[r]))

\* COMMIT or ROLLBACK, then connection.release()
EndTransaction(r) ==
  phase[r] = "run" /\ todo[r] = <<"end">> /\ Release(r, <<>>)

\* A query fails, or the handler throws at what it finds.
FailQuery(r) ==
  phase[r] = "query" /\ Release(r, IF tx[r] THEN <<"end">> ELSE <<>>)

\* A statement of the transaction fails, or the handler throws after it.
Throw(r) == /\ phase[r] = "run" /\ tx[r] /\ Len(todo[r]) > 1
            /\ todo' = [todo EXCEPT ![r] = <<"end">>]
            /\ UNCHANGED <<phase, tx, queue>>

Respond(r) == /\ phase[r] = "run" /\ todo[r] = <<>>
              /\ phase' = [phase EXCEPT ![r] = "done"]
              /\ UNCHANGED <<todo, tx, queue>>

Advance(r) == \/ Wait(r) \/ Begin(r) \/ Query(r) \/ EndQuery(r)
              \/ EndTransaction(r) \/ Respond(r)

PoolNext == \E r \in Req : Start(r) \/ Advance(r) \/ FailQuery(r) \/ Throw(r)

PoolSpec == PoolInit /\ [][PoolNext]_poolVars

\* The event loop runs every callback that is ready; MySQL answers every query.
FairPoolSpec == PoolSpec /\ \A r \in Req : WF_poolVars(Advance(r))
-----------------------------------------------------------------------------
(* Properties *)

Waiting == {queue[i] : i \in 1..Len(queue)}

\* Values of their kinds; exactly the requests in phase "wait" are in the
\* queue, once each; a transaction is one that has still to end.
PoolTypeOK ==
  /\ phase \in [Req -> {"idle", "run", "wait", "query", "done"}]
  /\ tx \in [Req -> BOOLEAN]
  /\ Waiting = {r \in Req : phase[r] = "wait"}
  /\ Len(queue) = Cardinality(Waiting)
  /\ \A r \in Req : tx[r] <=> /\ todo[r] # <<>>
                              /\ \A i \in 1..Len(todo[r]) : todo[r][i] # "begin"
                              /\ todo[r][Len(todo[r])] = "end"

\* Never more connections than the limit, and nobody waits while one is free
\* (getPool, config/db.ts:13-24): no wake-up is lost, whoever fails or throws.
NoLostWakeup == InUse <= Limit /\ (queue # <<>> => InUse = Limit)

\* The handler of r holds a connection, or is about to, and will ask for another
\* one before it gives that back.
Nests(r) == \E i \in 1..Len(todo[r]) :
              todo[r][i] = "query" /\ (tx[r] \/ \E j \in 1..(i - 1) : todo[r][j] = "begin")
FewNest == Cardinality({r \in Req : Nests(r)}) < Limit

\* As long as fewer than connectionLimit requests in flight are of the kind that
\* nests a query in its transaction (bookings.service.ts:164, 227, 242;
\* invitations.service.ts:71, 168), somebody who holds a connection can give it back.
NotExhausted ==
  FewNest /\ queue # <<>> => \E r \in Req \ Waiting : tx[r] \/ phase[r] = "query"

\* Every request that arrives is answered (README.md:422: looking up the mail
\* addresses inside the transaction "doesn't block API responses").
AllServed == \A r \in Req : phase[r] # "idle" ~> phase[r] = "done"
=============================================================================
