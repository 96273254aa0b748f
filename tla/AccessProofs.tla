---------------------------- MODULE AccessProofs ----------------------------
(***************************************************************************)
(* Theorems about Access, for any number of requests, accounts and tokens, *)
(* any lists of roles and any lifetime of a token.  The inductive invariant*)
(* says how long ago, at most, a row held what a login, a token or a       *)
(* request carries: since the row was read, or within the life of the      *)
(* token, or now.                                                          *)
(***************************************************************************)
EXTENDS Access, TLAPS

\* u's row is r, or was at hour a or later.
Was(u, r, a) == row[u] = r \/ (gone[u][r] # None /\ a <= gone[u][r])

\* A request is of the last RequestTime hours.
Recent(p) == req[p].since <= clock /\ clock <= req[p].since + RequestTime

\* A login knows what the row held when it read it.
LoginKnows(p) ==
  At(p, "sign") =>
    /\ req[p].user \in Users /\ req[p].pw \in Secrets /\ req[p].roles \in RowRoles
    /\ Recent(p)
    /\ Was(req[p].user, [pw |-> req[p].pw, roles |-> req[p].roles], req[p].since)

\* A handler knows that its request was admitted and what it sends is valid.
HandlerKnows(p) ==
  At(p, "handler") =>
    /\ req[p].token \in tokens
    /\ req[p].route \in Routes /\ req[p].user \in Users
    /\ req[p].since < req[p].token.exp
    /\ Grants(req[p].token.roles, req[p].route)
    /\ Valid(req[p].token, req[p].route, req[p].user, req[p].pw, req[p].roles)
    /\ Recent(p)

TokenKnown(t) ==
  /\ t.exp <= clock + Expiry
  /\ Was(t.sub, [pw |-> t.pw, roles |-> t.roles], t.exp - Expiry - RequestTime)

GonePast == \A u \in Users, r \in Row : gone[u][r] # None => gone[u][r] <= clock

IInv == /\ TypeOK /\ GonePast
        /\ \A t \in tokens : TokenKnown(t)
        /\ \A p \in Procs : LoginKnows(p) /\ HandlerKnows(p)

\* What a step does to the table.
Moves == UNCHANGED <<row, gone>> \/ \E u \in Users, r \in Row : WriteRow(u, r)

\* Only p's slot changes.
Framed(p) ==
  /\ req' \in [Procs -> Request]
  /\ \A q \in Procs \ {p} : req'[q] = req[q]

-----------------------------------------------------------------------------
(* What the table has held stays known *)

LEMMA MovesTyped ==
  ASSUME TypeOK, Moves
  PROVE  /\ row' \in [Users -> Row \cup {None}]
         /\ gone' \in [Users -> [Row -> Nat \cup {None}]]
<1>1. CASE UNCHANGED <<row, gone>>
  BY <1>1 DEF TypeOK
<1>2. CASE \E u \in Users, r \in Row : WriteRow(u, r)
  <2>1. PICK u \in Users, r \in Row : WriteRow(u, r)
    BY <1>2
  <2>2. row' \in [Users -> Row \cup {None}]
    BY <2>1 DEF TypeOK, WriteRow
  <2>3. CASE row[u] = None
    BY <2>1, <2>2, <2>3 DEF TypeOK, WriteRow
  <2>4. CASE row[u] # None
    <3>1. row[u] \in Row
      BY <2>4 DEF TypeOK
    <3>2. gone' = [gone EXCEPT ![u][row[u]] = clock]
      BY <2>1, <2>4 DEF WriteRow
    <3>3. clock \in Nat \cup {None} /\ gone \in [Users -> [Row -> Nat \cup {None}]]
      BY DEF TypeOK
    <3>4. [gone[u] EXCEPT ![row[u]] = clock] \in [Row -> Nat \cup {None}]
      BY <3>1, <3>3
    <3>5. gone' \in [Users -> [Row -> Nat \cup {None}]]
      BY <3>2, <3>3, <3>4
    <3> QED  BY <2>2, <3>5
  <2> QED  BY <2>3, <2>4
<1> QED  BY <1>1, <1>2 DEF Moves

\* How a write changes the history.
LEMMA GoneCases ==
  ASSUME TypeOK, Moves, NEW u \in Users, NEW r \in Row
  PROVE  \/ row'[u] = row[u] /\ gone'[u][r] = gone[u][r]
         \/ row[u] = r /\ gone'[u][r] = clock
         \/ row[u] # r /\ gone'[u][r] = gone[u][r]
<1>1. CASE UNCHANGED <<row, gone>>
  BY <1>1
<1>2. CASE \E v \in Users, s \in Row : WriteRow(v, s)
  <2>1. PICK v \in Users, s \in Row : WriteRow(v, s)
    BY <1>2
  <2>2. CASE v # u
    <3>1. row'[u] = row[u]
      BY <2>1, <2>2 DEF TypeOK, WriteRow
    <3>2. gone'[u] = gone[u]
      BY <2>1, <2>2 DEF TypeOK, WriteRow
    <3> QED  BY <3>1, <3>2
  <2>3. CASE v = u /\ row[u] = None
    <3>1. gone' = gone
      BY <2>1, <2>3 DEF WriteRow
    <3>2. row[u] # r
      BY <2>3, NoneAssumption
    <3> QED  BY <3>1, <3>2
  <2>4. CASE v = u /\ row[u] # None
    <3>1. row[u] \in Row
      BY <2>4 DEF TypeOK
    <3>2. gone' = [gone EXCEPT ![u][row[u]] = clock]
      BY <2>1, <2>4 DEF WriteRow
    <3>3. gone'[u] = [gone[u] EXCEPT ![row[u]] = clock]
      BY <3>2 DEF TypeOK
    <3>4. gone[u] \in [Row -> Nat \cup {None}]
      BY DEF TypeOK
    <3>5. gone'[u][r] = IF r = row[u] THEN clock ELSE gone[u][r]
      BY <3>1, <3>3, <3>4
    <3> QED  BY <3>5
  <2> QED  BY <2>2, <2>3, <2>4
<1> QED  BY <1>1, <1>2 DEF Moves

LEMMA WasKept ==
  ASSUME TypeOK, GonePast, Moves, clock' \in Nat, clock <= clock',
         NEW u \in Users, NEW r \in Row, NEW a \in Int, a <= clock, Was(u, r, a)
  PROVE  row'[u] = r \/ (gone'[u][r] # None /\ a <= gone'[u][r])
<1>1. clock \in Nat /\ gone[u][r] \in Nat \cup {None}
  BY DEF TypeOK
<1>2. clock # None
  BY <1>1, NoneAssumption
<1>3. CASE row[u] = r /\ gone'[u][r] = clock
  BY <1>2, <1>3
<1>4. CASE row'[u] = row[u] /\ gone'[u][r] = gone[u][r]
  BY <1>4 DEF Was
<1>5. CASE row[u] # r /\ gone'[u][r] = gone[u][r]
  BY <1>5 DEF Was
<1> QED  BY GoneCases, <1>3, <1>4, <1>5

LEMMA GonePastKept ==
  ASSUME TypeOK, GonePast, Moves, clock' \in Nat, clock <= clock'
  PROVE  GonePast'
<1> SUFFICES ASSUME NEW u \in Users, NEW r \in Row, gone'[u][r] # None
             PROVE  gone'[u][r] <= clock'
  BY DEF GonePast
<1>1. clock \in Nat /\ gone[u][r] \in Nat \cup {None}
  BY DEF TypeOK
<1>2. CASE gone'[u][r] = clock
  BY <1>2
<1>3. CASE gone'[u][r] = gone[u][r]
  <2>1. gone[u][r] <= clock /\ gone[u][r] \in Nat
    BY <1>1, <1>3 DEF GonePast
  <2> QED  BY <1>1, <1>3, <2>1
<1> QED  BY GoneCases, <1>2, <1>3

-----------------------------------------------------------------------------
(* What tokens and the other requests know is kept *)

LEMMA TokensKept ==
  ASSUME IInv, Moves, clock' \in Nat, clock <= clock', NEW t \in tokens
  PROVE  TokenKnown(t)'
<1>1. t \in Token /\ t.sub \in Users /\ t.exp \in Int
  BY DEF IInv, TypeOK, Token
<1>2. [pw |-> t.pw, roles |-> t.roles] \in Row
  BY DEF IInv, TypeOK, Token, Row
<1> DEFINE a == t.exp - Expiry - RequestTime
           r == [pw |-> t.pw, roles |-> t.roles]
<1>3. a \in Int /\ a <= clock /\ t.exp <= clock' + Expiry
  <2>1. clock \in Nat
    BY DEF IInv, TypeOK
  <2>2. t.exp <= clock + Expiry
    BY DEF IInv, TokenKnown
  <2> HIDE DEF r
  <2> QED  BY <1>1, <2>1, <2>2, TimeAssumption
<1>4. Was(t.sub, r, a)
  BY DEF IInv, TokenKnown
<1>5. r \in Row
  BY <1>2
<1>6. TypeOK /\ GonePast
  BY DEF IInv
<1> HIDE DEF a, r
<1>7. row'[t.sub] = r \/ (gone'[t.sub][r] # None /\ a <= gone'[t.sub][r])
  BY <1>1, <1>3, <1>4, <1>5, <1>6, WasKept
<1>8. Was(t.sub, r, a)'
  BY <1>7 DEF Was, r, a
<1> QED  BY <1>3, <1>8 DEF TokenKnown, r, a

\* Time passes only as far as a request may last.
LEMMA KnowledgeKept ==
  ASSUME IInv, Moves, clock' \in Nat, clock <= clock', tokens \subseteq tokens',
         NEW q \in Procs, req'[q] = req[q],
         At(q, "sign") \/ At(q, "handler") =>
           clock' = clock \/ clock' <= req[q].since + RequestTime
  PROVE  LoginKnows(q)' /\ HandlerKnows(q)'
<1>0. clock \in Nat /\ req[q].since \in Nat /\ TypeOK /\ GonePast
  BY DEF IInv, TypeOK, Request
<1>1. Recent(q) /\ (At(q, "sign") \/ At(q, "handler")) => Recent(q)'
  BY <1>0, TimeAssumption DEF Recent
<1>2. ASSUME At(q, "sign")
      PROVE  LoginKnows(q)'
  <2>1. /\ req[q].user \in Users /\ req[q].pw \in Secrets
        /\ req[q].roles \in RowRoles /\ Recent(q)
        /\ Was(req[q].user, [pw |-> req[q].pw, roles |-> req[q].roles],
               req[q].since)
    BY <1>2 DEF IInv, LoginKnows
  <2> DEFINE r == [pw |-> req[q].pw, roles |-> req[q].roles]
             u == req[q].user
             a == req[q].since
  <2>2. r \in Row /\ u \in Users /\ a \in Int /\ a <= clock
    BY <1>0, <2>1 DEF Row, Recent
  <2>3. Was(u, r, a)
    BY <2>1
  <2> HIDE DEF r, u, a
  <2>4. row'[u] = r \/ (gone'[u][r] # None /\ a <= gone'[u][r])
    BY <1>0, <2>2, <2>3, WasKept
  <2>5. Was(req[q].user, [pw |-> req[q].pw, roles |-> req[q].roles],
            req[q].since)'
    BY <2>4 DEF Was, r, u, a
  <2> QED  BY <1>1, <1>2, <2>1, <2>5 DEF LoginKnows
<1>3. ASSUME ~At(q, "sign")
      PROVE  LoginKnows(q)'
  BY <1>3 DEF LoginKnows, At
<1>4. HandlerKnows(q)'
  BY <1>1 DEF IInv, HandlerKnows, At, Grants, Valid, OwnerSends, RolesAllowed
<1> QED  BY <1>2, <1>3, <1>4

LEMMA FreeTyped == Free \in Request /\ Free.pc = "idle"
BY DEF Free, Request

\* An answer frees p's slot and leaves the others as they are.
LEMMA AnswerFrames ==
  ASSUME TypeOK, NEW p \in Procs, Answer(p)
  PROVE  Framed(p) /\ req'[p] = Free
BY FreeTyped DEF TypeOK, Answer, Framed

\* A step of p preserves the invariant if what it does to the table is a write
\* or nothing, and p and any new token know what they should.
LEMMA StepKeeps ==
  ASSUME IInv, NEW p \in Procs, Framed(p), Moves, UNCHANGED clock,
         tokens' \subseteq Token, tokens \subseteq tokens',
         \A t \in tokens' \ tokens : TokenKnown(t)',
         LoginKnows(p)' /\ HandlerKnows(p)'
  PROVE  IInv'
<1>0. clock \in Nat /\ clock' \in Nat /\ clock <= clock' /\ TypeOK /\ GonePast
  BY DEF IInv, TypeOK
<1>1. TypeOK'
  BY <1>0, MovesTyped DEF TypeOK, Framed
<1>2. GonePast'
  BY <1>0, GonePastKept
<1>3. ASSUME NEW t \in tokens'
      PROVE  TokenKnown(t)'
  <2>1. CASE t \in tokens
    BY <1>0, <2>1, TokensKept
  <2>2. CASE t \notin tokens
    BY <2>2
  <2> QED  BY <2>1, <2>2
<1>4. ASSUME NEW q \in Procs
      PROVE  LoginKnows(q)' /\ HandlerKnows(q)'
  <2>1. CASE q = p
    BY <2>1
  <2>2. CASE q # p
    <3>1. req'[q] = req[q]
      BY <2>2 DEF Framed
    <3> QED  BY <1>0, <3>1, KnowledgeKept
  <2> QED  BY <2>1, <2>2
<1> QED  BY <1>1, <1>2, <1>3, <1>4 DEF IInv

\* A step after which p's slot is free and no token is new.
LEMMA AnswerKeeps ==
  ASSUME IInv, NEW p \in Procs, Answer(p), Moves, UNCHANGED <<clock, tokens>>
  PROVE  IInv'
<1>1. Framed(p) /\ req'[p] = Free
  BY AnswerFrames DEF IInv
<1>2. ~At(p, "sign")' /\ ~At(p, "handler")'
  BY <1>1, FreeTyped DEF At
<1>3. LoginKnows(p)' /\ HandlerKnows(p)'
  BY <1>2 DEF LoginKnows, HandlerKnows
<1> QED  BY <1>1, <1>3, StepKeeps DEF IInv, TypeOK

-----------------------------------------------------------------------------
(* The steps *)

LEMMA LoginStep ==
  ASSUME IInv, NEW p \in Procs, NEW u \in Users, NEW pw \in Secrets,
         Login(p, u, pw)
  PROVE  IInv'
<1>1. Moves /\ UNCHANGED <<row, clock, tokens, gone>> /\ TypeOK
  BY DEF Login, Moves, IInv
<1>2. CASE row[u] = None \/ row[u].pw # pw
  BY <1>1, <1>2, AnswerKeeps DEF Login
<1>3. CASE row[u] # None /\ row[u].pw = pw
  <2>1. row[u] \in Row /\ row[u] = [pw |-> pw, roles |-> row[u].roles]
    BY <1>1, <1>3 DEF TypeOK, Row
  <2>2. row[u].roles \in RowRoles /\ clock \in Nat
    BY <1>1, <2>1 DEF TypeOK, Row
  <2> DEFINE new == [Free EXCEPT !.pc = "sign", !.user = u, !.pw = pw,
                                 !.roles = row[u].roles, !.since = clock]
  <2>3. new \in Request
    BY <2>2 DEF Free, Request, RowRoles
  <2>4. /\ new.pc = "sign" /\ new.user = u /\ new.pw = pw
        /\ new.roles = row[u].roles /\ new.since = clock
    BY DEF Free
  <2>5. req' = [req EXCEPT ![p] = new]
    BY <1>3 DEF Login
  <2> HIDE DEF new
  <2>6. Framed(p) /\ req'[p] = new
    BY <1>1, <2>3, <2>5 DEF Framed, TypeOK
  <2>7. ~At(p, "handler")'
    BY <2>4, <2>6 DEF At
  <2>8. LoginKnows(p)'
    BY <1>1, <2>1, <2>2, <2>4, <2>6, TimeAssumption DEF LoginKnows, Recent, Was
  <2>9. LoginKnows(p)' /\ HandlerKnows(p)'
    BY <2>7, <2>8 DEF HandlerKnows
  <2> QED  BY <1>1, <2>6, <2>9, StepKeeps DEF TypeOK
<1> QED  BY <1>2, <1>3

LEMMA SignStep ==
  ASSUME IInv, NEW p \in Procs, Sign(p)
  PROVE  IInv'
<1>1. Moves /\ UNCHANGED <<row, clock, gone>> /\ TypeOK /\ clock \in Nat
  BY DEF Sign, Moves, IInv, TypeOK
<1>2. Framed(p) /\ req'[p] = Free
  BY <1>1, AnswerFrames DEF Sign
<1>3. /\ req[p].user \in Users /\ req[p].pw \in Secrets
      /\ req[p].roles \in RowRoles /\ Recent(p) /\ req[p].since \in Nat
      /\ Was(req[p].user, [pw |-> req[p].pw, roles |-> req[p].roles],
             req[p].since)
  BY <1>1 DEF IInv, LoginKnows, Sign, TypeOK, Request
<1> DEFINE t == [sub |-> req[p].user, roles |-> req[p].roles,
                 exp |-> clock + Expiry, pw |-> req[p].pw]
<1>4. t \in Token
  BY <1>1, <1>3, TimeAssumption DEF Token
<1>5. tokens' = tokens \cup {t}
  BY DEF Sign, Claims
<1>6. ASSUME NEW s, s = t
      PROVE  TokenKnown(s)'
  <2>1. /\ s.sub = req[p].user /\ s.roles = req[p].roles /\ s.pw = req[p].pw
        /\ s.exp = clock + Expiry
    BY <1>6
  <2> HIDE DEF t
  <2> DEFINE r == [pw |-> s.pw, roles |-> s.roles]
  <2>2. r \in Row /\ s.sub \in Users
    BY <1>3, <2>1 DEF Row
  <2>3. gone[s.sub][r] \in Nat \cup {None}
    BY <1>1, <2>2 DEF TypeOK
  <2>4. Was(s.sub, r, req[p].since)
    BY <1>3, <2>1
  <2> HIDE DEF r
  <2>5. Was(s.sub, r, s.exp - Expiry - RequestTime)
    BY <1>1, <1>3, <2>1, <2>3, <2>4, TimeAssumption DEF Was, Recent
  <2>6. Was(s.sub, r, s.exp - Expiry - RequestTime)'
    BY <1>1, <2>5 DEF Was, r
  <2>7. s.exp <= clock' + Expiry
    BY <1>1, <2>1, TimeAssumption
  <2> QED  BY <2>6, <2>7 DEF TokenKnown, r
<1>7. ~At(p, "sign")' /\ ~At(p, "handler")'
  BY <1>2, FreeTyped DEF At
<1>8. LoginKnows(p)' /\ HandlerKnows(p)'
  BY <1>7 DEF LoginKnows, HandlerKnows
<1>9. tokens' \subseteq Token /\ tokens \subseteq tokens'
  BY <1>1, <1>4, <1>5 DEF TypeOK
<1>10. \A s \in tokens' \ tokens : TokenKnown(s)'
  BY <1>5, <1>6
<1> QED  BY <1>1, <1>2, <1>8, <1>9, <1>10, StepKeeps

LEMMA CallStep ==
  ASSUME IInv, NEW p \in Procs, NEW t \in tokens, NEW route \in Called,
         NEW u \in Users, NEW pw \in Secrets \cup {None},
         NEW roles \in RoleLists \cup {None}, Call(p, t, route, u, pw, roles)
  PROVE  IInv'
<1>1. Moves /\ UNCHANGED <<row, clock, tokens, gone>> /\ TypeOK
  BY DEF Call, Moves, IInv
<1>2. CASE ~(Admitted(t, route, u) /\ Valid(t, route, u, pw, roles))
  BY <1>1, <1>2, AnswerKeeps DEF Call
<1>3. CASE Admitted(t, route, u) /\ Valid(t, route, u, pw, roles)
  <2> DEFINE new == [pc |-> "handler", token |-> t, route |-> route, user |-> u,
                     pw |-> pw, roles |-> roles, since |-> clock]
  <2>1. route \in Routes /\ t \in Token /\ clock \in Nat
    BY <1>1, CalledAssumption DEF TypeOK
  <2>2. new \in Request
    BY <2>1 DEF Request
  <2>3. req' = [req EXCEPT ![p] = new]
    BY <1>3 DEF Call
  <2>4. /\ new.pc = "handler" /\ new.token = t /\ new.route = route
        /\ new.user = u /\ new.pw = pw /\ new.roles = roles
        /\ new.since = clock
    OBVIOUS
  <2> HIDE DEF new
  <2>5. Framed(p) /\ req'[p] = new
    BY <1>1, <2>2, <2>3 DEF Framed, TypeOK
  <2>6. ~At(p, "sign")'
    BY <2>4, <2>5 DEF At
  <2>7. Valid(t, route, u, pw, roles)'
    BY <1>3 DEF Valid, OwnerSends, RolesAllowed
  <2>8. /\ req'[p].token \in tokens' /\ req'[p].route \in Routes
        /\ req'[p].user \in Users /\ req'[p].since < req'[p].token.exp
        /\ Grants(req'[p].token.roles, req'[p].route)
    BY <1>1, <1>3, <2>1, <2>4, <2>5 DEF Admitted, Live
  <2>9. Recent(p)'
    BY <1>1, <2>1, <2>4, <2>5, TimeAssumption DEF Recent
  <2>10. HandlerKnows(p)'
    BY <2>4, <2>5, <2>7, <2>8, <2>9 DEF HandlerKnows, Grants
  <2>11. LoginKnows(p)' /\ HandlerKnows(p)'
    BY <2>6, <2>10 DEF LoginKnows
  <2> QED  BY <1>1, <2>5, <2>11, StepKeeps DEF TypeOK
<1> QED  BY <1>2, <1>3

LEMMA CreateStep ==
  ASSUME IInv, NEW p \in Procs, CreateUser(p)
  PROVE  Moves /\ IInv'
<1>1. TypeOK /\ Answer(p) /\ UNCHANGED <<clock, tokens>>
  BY DEF CreateUser, IInv
<1>2. /\ req[p].user \in Users
      /\ Valid(req[p].token, "createUser", req[p].user, req[p].pw, req[p].roles)
  BY DEF IInv, HandlerKnows, CreateUser
<1>3. [pw |-> req[p].pw, roles |-> req[p].roles] \in Row
  <2>1. req[p].pw \in Secrets \cup {None} /\ req[p].roles \in RoleLists \cup {None}
    BY <1>1 DEF TypeOK, Request
  <2>2. req[p].pw # None /\ req[p].roles \notin {None, {}}
    BY <1>2 DEF Valid, Writes
  <2> QED  BY <2>1, <2>2 DEF Row, RowRoles
<1>4. Moves
  BY <1>2, <1>3 DEF CreateUser, Moves
<1> QED  BY <1>1, <1>4, AnswerKeeps

LEMMA UpdatedTyped ==
  ASSUME TypeOK, NEW p \in Procs, row[req[p].user] # None, req[p].user \in Users,
         req[p].roles # {}
  PROVE  Updated(p, row[req[p].user]) \in Row
<1>1. row[req[p].user] \in Row
  BY DEF TypeOK
<1>2. row[req[p].user].pw \in Secrets /\ row[req[p].user].roles \in RowRoles
  BY <1>1 DEF Row
<1>3. req[p].pw \in Secrets \cup {None} /\ req[p].roles \in RoleLists \cup {None}
  BY DEF TypeOK, Request
<1> QED  BY <1>2, <1>3 DEF Updated, Row, RowRoles

LEMMA PatchStep ==
  ASSUME IInv, NEW p \in Procs, PatchUser(p)
  PROVE  Moves /\ IInv'
<1>1. TypeOK /\ Answer(p) /\ UNCHANGED <<clock, tokens>>
  BY DEF PatchUser, IInv
<1>2. req[p].user \in Users
  BY DEF IInv, HandlerKnows, PatchUser
<1>3. Moves
  BY <1>1, <1>2, UpdatedTyped DEF PatchUser, Moves
<1> QED  BY <1>1, <1>3, AnswerKeeps

LEMMA TickStep ==
  ASSUME IInv, Tick
  PROVE  IInv'
<1>1. clock \in Nat /\ clock' \in Nat /\ clock <= clock' /\ TypeOK /\ GonePast
  BY DEF IInv, TypeOK, Tick
<1>2. Moves /\ UNCHANGED <<row, tokens, req, gone>>
  BY DEF Tick, Moves
<1>3. TypeOK'
  BY <1>1, <1>2 DEF TypeOK
<1>4. GonePast'
  BY <1>1, <1>2, GonePastKept
<1>5. \A t \in tokens' : TokenKnown(t)'
  BY <1>1, <1>2, TokensKept
<1>6. ASSUME NEW p \in Procs
      PROVE  LoginKnows(p)' /\ HandlerKnows(p)'
  <2>1. req[p].since \in Nat
    BY <1>1 DEF TypeOK, Request
  <2>2. At(p, "sign") \/ At(p, "handler") => clock' <= req[p].since + RequestTime
    BY <1>1, <2>1, TimeAssumption DEF Tick, At
  <2> QED  BY <1>1, <1>2, <2>2, KnowledgeKept
<1> QED  BY <1>3, <1>4, <1>5, <1>6 DEF IInv

LEMMA Initially == Init => IInv
<1> SUFFICES ASSUME Init
             PROVE  IInv
  OBVIOUS
<1>1. \A p \in Procs : req[p].pc = "idle"
  BY FreeTyped DEF Init
<1>2. \A p \in Procs : LoginKnows(p) /\ HandlerKnows(p)
  BY <1>1 DEF LoginKnows, HandlerKnows, At
<1>3. GonePast
  BY DEF Init, GonePast
<1>4. row \in [Users -> Row \cup {None}]
  BY SeedAssumption DEF Init, Row, RowRoles
<1>5. req \in [Procs -> Request]
  BY FreeTyped DEF Init
<1>6. TypeOK
  BY <1>4, <1>5 DEF Init, TypeOK
<1> QED  BY <1>2, <1>3, <1>6 DEF Init, IInv

LEMMA Inductive == IInv /\ [Next]_vars => IInv'
<1> SUFFICES ASSUME IInv, [Next]_vars
             PROVE  IInv'
  OBVIOUS
<1>1. CASE Tick
  BY <1>1, TickStep
<1>2. ASSUME NEW p \in Procs, NEW u \in Users, NEW pw \in Secrets, Login(p, u, pw)
      PROVE  IInv'
  BY <1>2, LoginStep
<1>3. ASSUME NEW p \in Procs, Sign(p)
      PROVE  IInv'
  BY <1>3, SignStep
<1>4. ASSUME NEW p \in Procs, NEW t \in tokens, NEW route \in Called,
             NEW u \in Users, NEW pw \in Secrets \cup {None},
             NEW roles \in RoleLists \cup {None},
             Call(p, t, route, u, pw, roles)
      PROVE  IInv'
  BY <1>4, CallStep
<1>5. ASSUME NEW p \in Procs, CreateUser(p)
      PROVE  IInv'
  BY <1>5, CreateStep
<1>6. ASSUME NEW p \in Procs, PatchUser(p)
      PROVE  IInv'
  BY <1>6, PatchStep
<1>7. ASSUME NEW p \in Procs, Serve(p) \/ Fault(p)
      PROVE  IInv'
  <2>1. Answer(p) /\ Moves /\ UNCHANGED <<clock, tokens>>
    BY <1>7 DEF Serve, Fault, Moves
  <2> QED  BY <2>1, AnswerKeeps
<1>8. CASE UNCHANGED vars
  BY <1>8 DEF vars, IInv, TypeOK, GonePast, TokenKnown, Was, LoginKnows,
              HandlerKnows, At, Recent, Valid, OwnerSends, RolesAllowed, Grants
<1> QED  BY <1>1, <1>2, <1>3, <1>4, <1>5, <1>6, <1>7, <1>8 DEF Next, Step

-----------------------------------------------------------------------------
(* The theorems *)

\* The state is always well typed.
THEOREM TypeCorrect == Spec => []TypeOK
<1>1. IInv => TypeOK
  BY DEF IInv
<1> QED  BY Initially, Inductive, <1>1, PTL DEF Spec

LEMMA RecentGrant ==
  ASSUME IInv, NEW p \in Procs, At(p, "handler")
  PROVE  GrantedRecently(req[p].token.sub, req[p].route)
<1> DEFINE t == req[p].token
           r == [pw |-> t.pw, roles |-> t.roles]
<1>1. /\ t \in tokens /\ Grants(t.roles, req[p].route) /\ Recent(p)
      /\ req[p].since < t.exp
  BY DEF IInv, HandlerKnows
<1>2. t \in Token /\ clock \in Nat /\ req[p].since \in Nat
  BY <1>1 DEF IInv, TypeOK, Request
<1>3. Was(t.sub, r, t.exp - Expiry - RequestTime)
  BY <1>1 DEF IInv, TokenKnown
<1>4. r \in Row /\ r.roles = t.roles /\ t.sub \in Users /\ t.exp \in Int
  BY <1>2 DEF Token, Row
<1>5. gone[t.sub][r] \in Nat \cup {None}
  BY <1>4 DEF IInv, TypeOK
<1> HIDE DEF t, r
<1>6. Held(t.sub, r)
  BY <1>3 DEF Was, Held
<1>7. row[t.sub] = r \/ clock < gone[t.sub][r] + Window
  BY <1>1, <1>2, <1>3, <1>4, <1>5, TimeAssumption DEF Was, Recent, Window
<1>8. GrantedRecently(t.sub, req[p].route)
  BY <1>1, <1>4, <1>6, <1>7 DEF GrantedRecently
<1> QED  BY <1>8 DEF t

\* A right that was taken away is dead once the token of a login that was under
\* way, and the request it admitted, are over: the roles in a token are never
\* asked of the table again (middleware/auth.go), so its expiry is what ends them.
THEOREM RightsEnd == Spec => []RightsExpire
<1>1. IInv => RightsExpire
  BY RecentGrant DEF RightsExpire
<1> QED  BY Initially, Inductive, <1>1, PTL DEF Spec

\* The password a login accepted and the roles it signed were in the row
\* together.
THEOREM Snapshot == Spec => []LoginIsSnapshot
<1>1. IInv => LoginIsSnapshot
  BY DEF IInv, TokenKnown, Was, Held, LoginIsSnapshot
<1> QED  BY Initially, Inductive, <1>1, PTL DEF Spec

\* What a changed row implies of the write.
LEMMA PatchAuthorised ==
  ASSUME IInv, NEW p \in Procs, PatchUser(p), NEW u \in Users, row'[u] # row[u]
  PROVE  /\ req[p].user = u /\ row[u] # None /\ row'[u] # None
         /\ row'[u].pw # row[u].pw => req[p].token.sub = u
         /\ "*" \in row'[u].roles => "*" \in row[u].roles
<1>1. TypeOK /\ req[p].user \in Users
  BY DEF IInv, HandlerKnows, PatchUser
<1>2. /\ row[req[p].user] # None /\ req[p].roles # {}
      /\ WriteRow(req[p].user, Updated(p, row[req[p].user]))
  BY DEF PatchUser
<1>3. req[p].user = u
  BY <1>1, <1>2 DEF WriteRow, TypeOK
<1>4. row'[u] = Updated(p, row[u])
  BY <1>1, <1>2, <1>3 DEF WriteRow, TypeOK
<1>5. Updated(p, row[u]) \in Row
  BY <1>1, <1>2, <1>3, UpdatedTyped
<1>6. OwnerSends(req[p].token, u, req[p].pw) /\ RolesAllowed(req[p].roles)
  BY <1>3 DEF IInv, HandlerKnows, PatchUser, Valid, Writes
<1>7. row'[u].pw # row[u].pw => req[p].token.sub = u
  BY <1>4, <1>6 DEF Updated, OwnerSends
<1>8. "*" \in row'[u].roles => "*" \in row[u].roles
  BY <1>4, <1>6 DEF Updated, RolesAllowed, AllowedPatchRoles
<1>9. row'[u] # None
  BY <1>4, <1>5, NoneAssumption
<1> QED  BY <1>2, <1>3, <1>7, <1>8, <1>9

LEMMA CreateAuthorised ==
  ASSUME IInv, NEW p \in Procs, CreateUser(p), NEW u \in Users, row'[u] # row[u]
  PROVE  req[p].user = u /\ row[u] = None /\ row'[u] # None
<1>1. TypeOK /\ req[p].user \in Users
  BY DEF IInv, HandlerKnows, CreateUser
<1>2. /\ row[req[p].user] = None
      /\ WriteRow(req[p].user, [pw |-> req[p].pw, roles |-> req[p].roles])
  BY DEF CreateUser
<1>3. req[p].user = u
  BY <1>1, <1>2 DEF WriteRow, TypeOK
<1>4. row'[u] = [pw |-> req[p].pw, roles |-> req[p].roles]
  BY <1>1, <1>2, <1>3 DEF WriteRow, TypeOK
<1>5. row'[u] # None
  BY <1>2, <1>3, <1>4
<1> QED  BY <1>2, <1>3, <1>5

\* Rows are created and changed only by callers who were allowed to within the
\* life of a token; a password only by its owner; the wildcard is never given
\* to an existing account.
THEOREM OnlyAuthorised == Spec => ChangesAreAuthorised
<1>1. IInv /\ [Next]_vars => [AuthorisedChange]_vars
  <2> SUFFICES ASSUME IInv, Next, NEW u \in Users, row'[u] # row[u]
               PROVE
    /\ \E p \in Procs :
         /\ At(p, "handler") /\ req[p].user = u
         /\ GrantedRecently(req[p].token.sub, "patchUser")
         /\ (row[u] # None /\ row'[u].pw # row[u].pw) => req[p].token.sub = u
    /\ row'[u] # None
    /\ (row[u] # None /\ "*" \in row'[u].roles) => "*" \in row[u].roles
    BY DEF AuthorisedChange
  <2>1. PICK p \in Procs : CreateUser(p) \/ PatchUser(p)
    BY DEF Next, Step, Tick, Login, Sign, Call, Serve, Fault
  <2>2. At(p, "handler") /\ GrantedRecently(req[p].token.sub, req[p].route)
    BY <2>1, RecentGrant DEF CreateUser, PatchUser
  <2>3. \A v : GrantedRecently(v, "createUser") = GrantedRecently(v, "patchUser")
    BY DEF GrantedRecently, Grants, Needs
  <2>4. GrantedRecently(req[p].token.sub, "patchUser")
    BY <2>1, <2>2, <2>3 DEF CreateUser, PatchUser
  <2>5. CASE CreateUser(p)
    BY <2>2, <2>4, <2>5, CreateAuthorised
  <2>6. CASE PatchUser(p)
    BY <2>2, <2>4, <2>6, PatchAuthorised
  <2> QED  BY <2>1, <2>5, <2>6
<1> QED  BY Initially, Inductive, <1>1, PTL DEF Spec, ChangesAreAuthorised
=============================================================================
