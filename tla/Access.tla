------------------------------- MODULE Access -------------------------------
(***************************************************************************)
(* Who may do what, and for how long.  POST /login reads an account's row, *)
(* verifies the password and signs a token that carries the roles it read. *)
(* Every protected request is admitted on its token alone: the middleware  *)
(* checks the expiry and the roles in the token and never asks the table   *)
(* again, so a right outlives the row that gave it.  Two requests change   *)
(* the table: POST /users and PATCH /users/{id}.                           *)
(*                                                                         *)
(* The unit of time is the hour of JWT_EXPIRY_HOURS; the replicas' clocks  *)
(* agree to within it.  An action is one access to the table, or a step    *)
(* that uses no store.                                                     *)
(***************************************************************************)
EXTENDS Integers, FiniteSets

CONSTANTS
  Procs,       \* request slots
  Users,       \* accounts, by id; each has its own e-mail
  Seed,        \* the account of local/postgresql/init.sql
  Secrets,     \* passwords
  RoleLists,   \* the lists of roles a request may send, as sets
  Expiry,      \* JWT_EXPIRY_HOURS; one that does not parse is 0
  RequestTime, \* bound on the hours a request takes
  Called,      \* the routes that are called
  None,
  MaxClock,    \* bound on the clock
  MaxTokens,   \* bound on the tokens issued
  MaxReplaced  \* bound on the rows replaced

ASSUME TimeAssumption == Expiry \in Int /\ RequestTime \in Nat /\ MaxClock \in Nat
ASSUME SeedAssumption == Seed \in Users /\ {"*"} \in RoleLists

\* No row has an empty role list: see PatchUser.
RowRoles == RoleLists \ {{}}
Row == [pw : Secrets, roles : RowRoles]

ASSUME NoneAssumption == None \notin Secrets \cup RoleLists \cup Row \cup Nat

VARIABLES
  row,     \* Postgres: account -> its row, or None
  clock,
  tokens,  \* every token issued: what its holder may still present
  req,     \* the request each slot serves
  gone     \* history: account -> row -> the hour it was last replaced, or None

vars == <<row, clock, tokens, req, gone>>

-----------------------------------------------------------------------------
(* Rights *)

\* The routes of NewRouter behind Authenticate, each with the roles of which
\* a caller needs one.
Needs ==
  [createUser    |-> {"users:write"},
   patchUser     |-> {"users:write"},
   getUser       |-> {"users:read"},
   listUsers     |-> {"users:read"},
   getMovies     |-> {"movies:read", "movies:write"},
   getMovie      |-> {"movies:read"},
   recordWatched |-> {"movies-watch:write"},
   triggerImport |-> {"movies:write"}]
Routes == DOMAIN Needs
Writes == {"createUser", "patchUser"}

ASSUME CalledAssumption == Called \subseteq Routes

\* RequireRole and RequireAnyRole.
Grants(roles, route) == "*" \in roles \/ roles \cap Needs[route] # {}

\* RequireOwnerOrWildcard, for the one route that has it.
OwnerOrWildcard(t, route, u) ==
  route = "getUser" => ("*" \in t.roles \/ t.sub = u)

\* allowedPatchRoles: the wildcard is not among them.
AllowedPatchRoles ==
  {"users:read", "users:write", "movies:read", "movies-watch:write", "movies:write"}

\* Mutant of Live: the expiry is not looked at.
LiveForEver(t) == t.sub # None

\* JWTService.Validate: a token is refused from its expiry on.
Live(t) == clock < t.exp

-----------------------------------------------------------------------------
(* Requests *)

\* user: the account the request is about (login: the caller); pw, roles: what
\* it sends (login: the password given, the roles read); since: when the row
\* was read, or the request admitted.
Free == [pc |-> "idle", token |-> None, route |-> "", user |-> None,
         pw |-> None, roles |-> None, since |-> 0]

At(p, pc) == req[p].pc = pc

\* The answer goes out.  No property tells one refusal from another.
Answer(p) == req' = [req EXCEPT ![p] = Free]

\* FindByEmail and Verify.
Login(p, u, pw) ==
  /\ At(p, "idle")
  /\ Cardinality(tokens) + Cardinality({q \in Procs : At(q, "sign")}) < MaxTokens
  /\ IF row[u] = None \/ row[u].pw # pw
     THEN Answer(p)
     ELSE req' = [req EXCEPT ![p] =
            [Free EXCEPT !.pc = "sign", !.user = u, !.pw = pw,
                         !.roles = row[u].roles, !.since = clock]]
  /\ UNCHANGED <<row, clock, tokens, gone>>

\* Mutant of Claims: the roles are read again when the token is made.
ClaimsReread(p) == row[req[p].user].roles

\* The roles Generate is given: those of the row Login read.
Claims(p) == req[p].roles

\* JWTService.Generate; pw is history: the password the login gave.
Sign(p) ==
  /\ At(p, "sign")
  /\ tokens' = tokens \cup
       {[sub |-> req[p].user, roles |-> Claims(p), exp |-> clock + Expiry,
         pw |-> req[p].pw]}
  /\ Answer(p)
  /\ UNCHANGED <<row, clock, gone>>

\* Authenticate, then the role middleware of the route.
Admitted(t, route, u) ==
  Live(t) /\ Grants(t.roles, route) /\ OwnerOrWildcard(t, route, u)

\* Mutant of OwnerSends: the caller is not compared with the target.
AnyoneMay(t, u, pw) == TRUE

\* Only the owner sends a password, and the roles are of the fixed list.
OwnerSends(t, u, pw) == pw # None => t.sub = u
RolesAllowed(roles) == roles # None => roles \subseteq AllowedPatchRoles

\* What the handlers check of the payload.  They refuse (400 or 403) before
\* they change anything: a refused request answers at once here.
Valid(t, route, u, pw, roles) ==
  \/ route = "createUser" /\ pw # None /\ roles \notin {None, {}}
  \/ /\ route = "patchUser" /\ (pw # None \/ roles # None)
     /\ OwnerSends(t, u, pw) /\ RolesAllowed(roles)
  \/ route \notin Writes /\ pw = None /\ roles = None

Replaced == {x \in Users \X Row : gone[x[1]][x[2]] # None}

Call(p, t, route, u, pw, roles) ==
  /\ At(p, "idle")
  /\ route \in Writes => Cardinality(Replaced) < MaxReplaced
  /\ IF Admitted(t, route, u) /\ Valid(t, route, u, pw, roles)
     THEN req' = [req EXCEPT ![p] =
            [pc |-> "handler", token |-> t, route |-> route, user |-> u,
             pw |-> pw, roles |-> roles, since |-> clock]]
     ELSE Answer(p)
  /\ UNCHANGED <<row, clock, tokens, gone>>

WriteRow(u, r) ==
  /\ row' = [row EXCEPT ![u] = r]
  /\ gone' = IF row[u] = None THEN gone ELSE [gone EXCEPT ![u][row[u]] = clock]

\* CreateUser inserts the row, unless its e-mail is taken.  It takes any roles.
CreateUser(p) ==
  /\ At(p, "handler") /\ req[p].route = "createUser"
  /\ IF row[req[p].user] # None
     THEN UNCHANGED <<row, gone>>
     ELSE WriteRow(req[p].user, [pw |-> req[p].pw, roles |-> req[p].roles])
  /\ Answer(p)
  /\ UNCHANGED <<clock, tokens>>

\* Mutant of Updated: every column is written.
UpdatedAll(p, old) == [pw |-> req[p].pw, roles |-> req[p].roles]

\* What the UPDATE leaves: the columns that were not sent keep their values.
Updated(p, old) ==
  [pw    |-> IF req[p].pw = None THEN old.pw ELSE req[p].pw,
   roles |-> IF req[p].roles = None THEN old.roles ELSE req[p].roles]

\* PatchUser.  The row it loads first is used to tell that there is one, and
\* nothing deletes a row: load and update are one step here.  An empty role
\* list passes the checks and reaches the column as NULL, which it refuses.
PatchUser(p) ==
  LET u == req[p].user IN
  /\ At(p, "handler") /\ req[p].route = "patchUser"
  /\ IF row[u] # None /\ req[p].roles # {}
     THEN WriteRow(u, Updated(p, row[u]))
     ELSE UNCHANGED <<row, gone>>
  /\ Answer(p)
  /\ UNCHANGED <<clock, tokens>>

\* A handler that writes no account answers; a request is cut off.
Serve(p) ==
  /\ At(p, "handler") /\ req[p].route \notin Writes
  /\ Answer(p)
  /\ UNCHANGED <<row, clock, tokens, gone>>
Fault(p) ==
  /\ At(p, "sign") \/ (At(p, "handler") /\ req[p].route \in Writes)
  /\ Answer(p)
  /\ UNCHANGED <<row, clock, tokens, gone>>

\* An hour passes; no request is older than RequestTime.
Tick ==
  /\ clock < MaxClock
  /\ \A p \in Procs : ~At(p, "idle") => clock < req[p].since + RequestTime
  /\ clock' = clock + 1
  /\ UNCHANGED <<row, tokens, req, gone>>

-----------------------------------------------------------------------------
\* The seed script's account is the only one, and holds the wildcard.
Init ==
  /\ \E pw \in Secrets :
       row = [u \in Users |->
                IF u = Seed THEN [pw |-> pw, roles |-> {"*"}] ELSE None]
  /\ clock = 0
  /\ tokens = {}
  /\ req = [p \in Procs |-> Free]
  /\ gone = [u \in Users |-> [r \in Row |-> None]]

Step(p) ==
  \/ \E u \in Users, pw \in Secrets : Login(p, u, pw)
  \/ Sign(p)
  \/ \E t \in tokens, route \in Called, u \in Users, pw \in Secrets \cup {None},
        roles \in RoleLists \cup {None} : Call(p, t, route, u, pw, roles)
  \/ CreateUser(p) \/ PatchUser(p) \/ Serve(p) \/ Fault(p)

Next == Tick \/ \E p \in Procs : Step(p)

Spec == Init /\ [][Next]_vars

-----------------------------------------------------------------------------
(* Properties *)

Token == [sub : Users, roles : RowRoles, exp : Int, pw : Secrets]
Request ==
  [pc : {"idle", "sign", "handler"}, token : Token \cup {None},
   route : Routes \cup {""}, user : Users \cup {None}, pw : Secrets \cup {None},
   roles : RoleLists \cup {None}, since : Nat]

TypeOK ==
  /\ row \in [Users -> Row \cup {None}]
  /\ clock \in Nat
  /\ tokens \subseteq Token
  /\ req \in [Procs -> Request]
  /\ gone \in [Users -> [Row -> Nat \cup {None}]]

\* u's row is r, or was until some hour.
Held(u, r) == row[u] = r \/ gone[u][r] # None

\* u's row grants the route, or did so at an hour from which a login may have
\* led to a token, the token to a request, and the request to now.
Window == Expiry + 2 * RequestTime
GrantedRecently(u, route) ==
  \E r \in Row :
    /\ Grants(r.roles, route)
    /\ Held(u, r)
    /\ row[u] = r \/ clock < gone[u][r] + Window

\* A handler runs only for a caller whose row grants the route, or did within
\* the life of a token and the time of a login and of a request: a right that
\* was taken away is dead from then on, whatever logins and PATCHes were under
\* way when it was taken.
RightsExpire ==
  \A p \in Procs : At(p, "handler") =>
    GrantedRecently(req[p].token.sub, req[p].route)

\* A login is a snapshot: the password it accepted and the roles it signed
\* were in the row together, so roles given with a new password never reach
\* one who logged in with the old.
LoginIsSnapshot ==
  \A t \in tokens : Held(t.sub, [pw |-> t.pw, roles |-> t.roles])

\* A row is created or changed only by a request admitted while its caller had
\* been allowed to within the life of a token; an existing account's password
\* changes only under its own token, and no request gives it the wildcard.
AuthorisedChange ==
  \A u \in Users : row'[u] # row[u] =>
    /\ \E p \in Procs :
         /\ At(p, "handler") /\ req[p].user = u
         /\ GrantedRecently(req[p].token.sub, "patchUser")
         /\ (row[u] # None /\ row'[u].pw # row[u].pw) => req[p].token.sub = u
    /\ row'[u] # None
    /\ (row[u] # None /\ "*" \in row'[u].roles) => "*" \in row[u].roles
ChangesAreAuthorised == [][AuthorisedChange]_vars
=============================================================================
