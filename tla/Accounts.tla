-------------------------------- MODULE Accounts --------------------------------
(***************************************************************************)
(* Accounts and the tokens that speak for them: POST /auth/register,       *)
(* POST /auth/login and GET /auth/me (src/services/auth.service.ts).  Each *)
(* statement runs on a pool connection of its own and is committed at      *)
(* once; others run between them.  A token carries a copy of the role and  *)
(* is believed until it expires.  No code changes a role or removes an     *)
(* account: the first administrator comes with the sample data, others are *)
(* made by SQL.                                                            *)
(***************************************************************************)
EXTENDS FiniteSets

CONSTANTS
  Req,              \* HTTP requests
  Seed,             \* accounts of the sample data
  Email, Password,
  SeedUsers,        \* their rows
  Sessions,         \* tokens issued before
  RoleChanges,      \* the changes of roles that operators may make
  AuthRequests,     \* the requests clients send to /auth
  None

Role == {"user", "admin"}
Account == Req \cup Seed    \* users.id; a new row is known by its request
User == [email : Email, password : Password, role : Role]
Register == [op : {"register"}, email : Email, password : Password]
Login == [op : {"login"}, email : Email, password : Password]
Me == [op : {"me"}]
TokenPayload == [user : Account, role : Role]

ASSUME SeedTyped == SeedUsers \in [Account -> User \cup {None}]
ASSUME SeedOnly == \A u \in Account : SeedUsers[u] # None => u \in Seed
ASSUME SeedDisjoint == Req \cap Seed = {}
ASSUME SeedEmailsUnique ==
  \A u, v \in Account :
    SeedUsers[u] # None /\ SeedUsers[v] # None /\ SeedUsers[u].email = SeedUsers[v].email
    => u = v
ASSUME SessionsGenuine ==
  Sessions \subseteq {t \in TokenPayload : SeedUsers[t.user] # None
                                           /\ SeedUsers[t.user].role = t.role}
ASSUME RoleChangesTyped == RoleChanges \subseteq Account \X Role
ASSUME AuthRequestsTyped == AuthRequests \subseteq Register \cup Login \cup Me
ASSUME NoneIsNoRow == None \notin User \cup TokenPayload \cup AuthRequests

VARIABLES
  pc, req, answer,
  bearer,    \* the payload of the token of each request being served
  users,     \* the table
  tokens,    \* tokens issued so far
  found,     \* the row a login has read
  held,      \* history: roles each account has had
  earlier    \* history: the served requests answered before each one arrived

accountVars == <<users, tokens, found, held>>
requestVars == <<pc, req, answer, bearer, earlier>>

AccountsInit ==
  /\ pc = [r \in Req |-> "idle"]
  /\ req = [r \in Req |-> None]
  /\ answer = [r \in Req |-> None]
  /\ bearer = [r \in Req |-> None]
  /\ earlier = [r \in Req |-> {}]
  /\ users = SeedUsers
  /\ tokens = Sessions
  /\ found = [r \in Req |-> None]
  /\ held = [u \in Account |-> IF SeedUsers[u] = None THEN {} ELSE {SeedUsers[u].role}]
-----------------------------------------------------------------------------
Op(r) == req[r].op
Exists(u) == users[u] # None

Goto(r, label) == pc' = [pc EXCEPT ![r] = label] /\ UNCHANGED <<req, answer, bearer, earlier>>
Answer(r, a) == /\ pc' = [pc EXCEPT ![r] = "done"]
                /\ answer' = [answer EXCEPT ![r] = a]
                /\ bearer' = [bearer EXCEPT ![r] = None]
                /\ UNCHANGED <<req, earlier>>

\* r has been neither refused nor told that its password is wrong.
Served(r) == pc[r] = "done" => answer[r] \notin {"unauthorized", "forbidden"}

\* A request q arrives with the token t, if any, and is passed on or refused.
Receive(r, q, t, label, a) ==
  /\ pc[r] = "idle"
  /\ pc' = [pc EXCEPT ![r] = label]
  /\ req' = [req EXCEPT ![r] = q]
  /\ bearer' = [bearer EXCEPT ![r] = IF label = "done" THEN None ELSE t]
  /\ answer' = [answer EXCEPT ![r] = a]
  /\ earlier' = [earlier EXCEPT ![r] = {p \in Req : pc[p] = "done" /\ Served(p)}]

ArriveAtAuth(r, q) ==
  /\ Receive(r, q, None, IF q.op = "register" THEN "check" ELSE "lookup", None)
  /\ UNCHANGED accountVars

\* authenticate refuses a request that has no token, or an expired one.
Unauthorized(r, q) == Receive(r, q, None, "done", "unauthorized")

ArriveAtMe(r, q) ==
  /\ Unauthorized(r, q) \/ \E t \in tokens : Receive(r, q, t, "profile", None)
  /\ UNCHANGED accountVars

\* Mutant: emailExists always answers no.
NeverExists(email) == FALSE
emailExists(email) == \E u \in Account : Exists(u) /\ users[u].email = email

CheckEmail(r) ==
  /\ pc[r] = "check"
  /\ IF emailExists(req[r].email) THEN Answer(r, "conflict") ELSE Goto(r, "insert")
  /\ UNCHANGED accountVars

\* Mutant: users.email is not unique.
NotUnique(email) == TRUE
UniqueEmail(email) == \A u \in Account : Exists(u) => users[u].email # email

\* Mutant: what was hashed is not the password the user knows.
OtherPassword(q) == [email |-> q.email, role |-> "user",
                     password |-> CHOOSE p \in Password : p # q.password]
NewUser(q) == [email |-> q.email, password |-> q.password, role |-> "user"]

InsertUser(r) ==
  /\ pc[r] = "insert"
  /\ IF UniqueEmail(req[r].email)
     THEN /\ users' = [users EXCEPT ![r] = NewUser(req[r])]
          /\ held' = [held EXCEPT ![r] = {NewUser(req[r]).role}]
          /\ Goto(r, "created")
     ELSE Answer(r, "duplicate") /\ UNCHANGED <<users, held>>
  /\ UNCHANGED <<tokens, found>>

generateToken(u, row) == [user |-> u, role |-> row.role]

\* The new row is read again, by its id; its token is signed.
SelectCreated(r) ==
  /\ pc[r] = "created"
  /\ tokens' = tokens \cup {generateToken(r, users[r])}
  /\ Answer(r, "ok")
  /\ UNCHANGED <<users, found, held>>

findByEmailWithPassword(r) ==
  /\ pc[r] = "lookup"
  /\ IF emailExists(req[r].email)
     THEN /\ \E u \in Account :
               /\ Exists(u) /\ users[u].email = req[r].email
               /\ found' = [found EXCEPT ![r] = [id |-> u, row |-> users[u]]]
          /\ Goto(r, "compare")
     ELSE Answer(r, "unauthorized") /\ UNCHANGED found
  /\ UNCHANGED <<users, tokens, held>>

\* Mutant: the promise of bcrypt.compare is not awaited.
AlwaysTrue(r) == TRUE
isValidPassword(r) == req[r].password = found[r].row.password

ComparePassword(r) ==
  /\ pc[r] = "compare"
  /\ IF isValidPassword(r)
     THEN /\ tokens' = tokens \cup {generateToken(found[r].id, found[r].row)}
          /\ Answer(r, "ok")
     ELSE Answer(r, "unauthorized") /\ UNCHANGED tokens
  /\ found' = [found EXCEPT ![r] = None]
  /\ UNCHANGED <<users, held>>

\* getCurrentUser
ReadProfile(r) == /\ pc[r] = "profile"
                  /\ Answer(r, IF Exists(bearer[r].user) THEN "ok" ELSE "vanished")
                  /\ UNCHANGED accountVars

\* A statement fails; those before it stay committed.
Fail(r) == /\ pc[r] \notin {"idle", "done"}
           /\ Answer(r, "error")
           /\ found' = [found EXCEPT ![r] = None]
           /\ UNCHANGED <<users, tokens, held>>

\* An operator changes a role by SQL.
SetRole(u, role) ==
  /\ Exists(u) /\ users[u].role # role
  /\ users' = [users EXCEPT ![u].role = role]
  /\ held' = [held EXCEPT ![u] = @ \cup {role}]
  /\ UNCHANGED requestVars /\ UNCHANGED <<tokens, found>>

AuthStep(r) == \/ CheckEmail(r) \/ InsertUser(r) \/ SelectCreated(r)
               \/ findByEmailWithPassword(r) \/ ComparePassword(r) \/ ReadProfile(r)

AccountsNext ==
  \/ \E r \in Req : AuthStep(r) \/ Fail(r)
  \/ \E r \in Req, q \in AuthRequests :
       \/ q.op # "me" /\ ArriveAtAuth(r, q)
       \/ q.op = "me" /\ ArriveAtMe(r, q)
  \/ \E change \in RoleChanges : SetRole(change[1], change[2])

AccountsSpec ==
  AccountsInit /\ [][AccountsNext]_<<accountVars, requestVars>>
-----------------------------------------------------------------------------
(* Properties *)

\* What a registration is told is true and stays true: answered with a token, it
\* has made the only account of its email; answered 409, or 500 by the unique key,
\* it has made none and there is one (auth.service.ts:31-44).
RegistrationTold ==
  \A r \in Req : pc[r] = "done" /\ Op(r) = "register" =>
    /\ answer[r] = "ok" =>
         /\ Exists(r)
         /\ \A u \in Account : Exists(u) /\ users[u].email = req[r].email => u = r
    /\ answer[r] \in {"conflict", "duplicate"} =>
         ~Exists(r) /\ emailExists(req[r].email)

\* A taken email is answered with the unique key's 500 instead of 409 only if the
\* registration that took it had not been answered when this one arrived
\* (emailExists and INSERT are separate statements, with bcrypt in between).
DuplicateOnlyAtOnce ==
  \A r \in Req : pc[r] = "done" /\ answer[r] = "duplicate" /\ Op(r) = "register" =>
    \A u \in Account : Exists(u) /\ users[u].email = req[r].email =>
      u \notin Seed \cup earlier[r]

\* The password somebody knows: the one his registration gave
Known(u) == IF u \in Seed THEN users[u].password ELSE req[u].password

\* Whoever has been told anything about a registration that made an account, be it
\* an error because the new row could not be read again, can log in from then on
\* (auth.repo.ts:54-78).
NeverLockedOut ==
  \A r \in Req : pc[r] = "done" /\ answer[r] = "unauthorized" /\ Op(r) = "login" =>
    \A u \in Seed \cup earlier[r] :
      Exists(u) /\ users[u].email = req[r].email => Known(u) # req[r].password

\* Every token names an account and a role it has had, and was issued for the
\* password of that account: to its session of before, to the registration that
\* made it, or to a login (auth.service.ts:29-101).
TokensEarned ==
  \A t \in tokens :
    /\ Exists(t.user) /\ t.role \in held[t.user]
    /\ \/ t \in Sessions
       \/ \E r \in Req : /\ pc[r] = "done" /\ answer[r] = "ok"
                         /\ Op(r) \in {"register", "login"}
                         /\ req[r].email = users[t.user].email
                         /\ req[r].password = users[t.user].password
=============================================================================
