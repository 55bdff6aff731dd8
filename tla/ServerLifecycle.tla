---------------------------- MODULE ServerLifecycle ----------------------------
(***************************************************************************)
(* The process of src/server.ts around the connection pool.  A signal      *)
(* stops the listener; the end of the last TCP connection ends the pool    *)
(* and the process; ten seconds later the process ends in any case.  A     *)
(* connection may bring one request after another, also after the signal,  *)
(* and its client may end it at any moment: the handler does not notice.   *)
(* A second signal only adds a second callback and a second timer.         *)
(***************************************************************************)
EXTENDS ConnectionPool

VARIABLES
  server,  \* "listening", "closing", "ending" (pool.end), "exit0", "exit1"
  sockets  \* open TCP connections, each named by the request it brought last

ownVars == <<server, sockets>>
serverVars == <<poolVars, ownVars>>

ServerInit == PoolInit /\ server = "listening" /\ sockets = {}

\* The pool gives out connections.
Serving == server \in {"listening", "closing"}
Running == server \notin {"exit0", "exit1"}
InFlight(r) == phase[r] \notin {"idle", "done"}

\* r arrives on a connection of its own.
Accept(r) == /\ server = "listening"
             /\ Start(r)
             /\ sockets' = sockets \cup {r} /\ UNCHANGED server

\* r arrives on the connection that brought q, which a closing server still reads.
KeepAlive(q, r) == /\ Serving
                   /\ phase[q] = "done" /\ q \in sockets
                   /\ Start(r)
                   /\ sockets' = (sockets \ {q}) \cup {r} /\ UNCHANGED server

\* Either side ends the connection: the client has its answer or gives up, or
\* the server finds it idle.
HangUp(r) == /\ Running /\ r \in sockets
             /\ sockets' = sockets \ {r}
             /\ UNCHANGED <<poolVars, server>>

\* After pool.end no handler gets a connection or another statement.
Handle(r) == /\ Serving
             /\ Advance(r) \/ FailQuery(r) \/ Throw(r)
             /\ UNCHANGED ownVars

\* SIGTERM or SIGINT: server.close and setTimeout
Signal == /\ server = "listening" /\ server' = "closing"
          /\ UNCHANGED <<poolVars, sockets>>

\* Mutant: the pool is ended at once, and not in the callback of server.close.
ClosedAtOnce == /\ server = "closing" /\ server' = "ending"
                /\ UNCHANGED <<poolVars, sockets>>

\* The callback of server.close: all connections have ended.  Handlers whose
\* clients have gone may still be running, or waiting in the pool.
Closed == /\ server = "closing" /\ server' = "ending"
          /\ sockets = {}
          /\ UNCHANGED <<poolVars, sockets>>

\* closePool has ended the pool.
Exit == /\ server = "ending" /\ server' = "exit0"
        /\ UNCHANGED <<poolVars, sockets>>

\* Mutant: there is no timer.
NeverForced == FALSE /\ UNCHANGED serverVars

ForceExit == /\ server \in {"closing", "ending"} /\ server' = "exit1"
             /\ UNCHANGED <<poolVars, sockets>>

ServerNext == \/ \E r \in Req : Accept(r) \/ Handle(r) \/ HangUp(r)
              \/ \E q, r \in Req : KeepAlive(q, r)
              \/ Signal \/ Closed \/ Exit \/ ForceExit

ServerSpec == ServerInit /\ [][ServerNext]_serverVars

\* Timers fire, the event loop runs every callback that is ready and MySQL answers
\* every query; clients and operators owe nothing.
FairServerSpec ==
  /\ ServerSpec /\ WF_serverVars(ForceExit)
  /\ \A r \in Req : WF_serverVars(Serving /\ Advance(r) /\ UNCHANGED ownVars)
-----------------------------------------------------------------------------
\* A client that keeps its connection open is answered or cut off by the timer,
\* never by exit code 0, also when its request came after the signal; without a
\* signal it is answered unless the pool may be exhausted.  A client that gives up
\* can leave its handler behind in a process that ends with 0 (server.ts:28-46).
StayersServed ==
  []FewNest \/ <>(server # "listening") =>
    \A r \in Req : InFlight(r) ~> \/ phase[r] = "done" \/ r \notin sockets
                                 \/ server = "exit1"

\* A signal ends the process, even when the pool is exhausted and no request in
\* flight will ever be answered (server.ts:41-45).
SignalEndsProcess == server = "closing" ~> server \in {"exit0", "exit1"}

\* While nobody stops the process, every request is answered unless at some moment
\* as many nesting handlers as there are connections are in flight: waiting is in
\* turn and without a time limit (waitForConnections, db.ts:20-21).
ServedUnlessNested == []FewNest /\ []Running => AllServed
=============================================================================
