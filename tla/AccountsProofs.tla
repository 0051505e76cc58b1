---------------------------- MODULE AccountsProofs ----------------------------
(***************************************************************************)
(* Proofs about accounts, sign-ins and sessions, for any directory, any    *)
(* identity provider and any number of concurrent requests: an OIDC        *)
(* identity keeps the account it was given, and the sessions of an account *)
(* are bounded in number and end with the password they were opened with.  *)
(***************************************************************************)
EXTENDS Accounts, FiniteSetTheorems, SequenceTheorems, WellFoundedInduction, TLAPS

Subjects == DOMAIN Identities
Passwords == Nat \cup {None}
Session == [pw : Passwords, late : BOOLEAN]

\* A row of users.
Shape(r) ==
  /\ r = [name |-> r.name, pw |-> r.pw, active |-> r.active, admin |-> r.admin,
          source |-> r.source, sub |-> r.sub]
  /\ r.pw \in Passwords /\ r.sub \in Subjects \cup {None}

\* What a request has got to; the user it works for is one of R.
ReqOK(r, R) ==
  /\ r.pc \in {"idle", "session", "prune", "cookie", "provision", "accepted", "authed",
               "password", "purge"}
  /\ r.pc \in {"session", "prune", "authed", "password", "purge"} => r.user \in R
  /\ r.pc = "session" => /\ r = [pc |-> r.pc, user |-> r.user, pw |-> r.pw, late |-> r.late]
                         /\ r.pw \in Passwords /\ r.late \in BOOLEAN
  /\ r.pc = "password" => r.pw \in Passwords
  /\ r.pc = "cookie" => r.sub \in Subjects
  /\ r.pc = "provision" => /\ r = [pc |-> r.pc, ident |-> r.ident, attempt |-> r.attempt]
                           /\ r.ident.sub \in Subjects

KeyOK(k, R) ==
  k # None => /\ k = [user |-> k.user, scopes |-> k.scopes, revoked |-> k.revoked]
              /\ k.user \in R

\* Requests and keys belong to accounts there are, and so do sessions.
StateOK ==
  /\ users = [u \in Ids |-> users[u]] /\ \A u \in Rows : Shape(users[u])
  /\ sessions \in [Ids -> Seq(Session)] /\ \A u \in Unused : sessions[u] = <<>>
  /\ keys = [k \in KeyIds |-> keys[k]] /\ \A k \in KeyIds : KeyOK(keys[k], Rows)
  /\ reqs = [q \in Requests |-> reqs[q]] /\ \A q \in Requests : ReqOK(reqs[q], Rows)
  /\ edits \in Nat /\ faults \in Nat

-----------------------------------------------------------------------------
(* Rows *)

\* Least picks one of a set of ids.
LEMMA LeastIn ==
  ASSUME NEW S, S \subseteq Ids, S # {}
  PROVE  Least(S) \in S
<1>1. PICK x \in S : \A y \in S : ~(<<y, x>> \in OpToRel(<, Nat))
  <2>1. S \subseteq Nat
    BY AccountsAssumption
  <2> QED
    BY <2>1, WFMin, NatLessThanWellFounded, Zenon
<1>2. ASSUME NEW y \in S PROVE x <= y
  <2>1. x \in Nat /\ y \in Nat
    BY AccountsAssumption
  <2>2. ~(y < x)
    BY <1>1, <2>1, Zenon DEF OpToRel
  <2> QED
    BY <2>1, <2>2
<1>3. \E i \in S : \A j \in S : i <= j
  BY <1>2
<1> QED
  BY <1>3 DEF Least

\* A row with an account's fields is not the mark of an unused id.
LEMMA ShapeIsRow ==
  ASSUME NEW r, Shape(r)
  PROVE  r # NoUser
<1>1. "pw" \in DOMAIN r
  BY DEF Shape
<1>2. "pw" \notin DOMAIN NoUser
  BY DEF NoUser
<1> QED
  BY <1>1, <1>2

\* A row that CreateUser or CreateOIDCUser inserts has an account's fields, and keeps its
\* subject and password.
LEMMA UserShape ==
  ASSUME NEW name, NEW pw \in Passwords, NEW admin, NEW source, NEW sub \in Subjects \cup {None}
  PROVE  /\ Shape(User(name, pw, admin, source, sub))
         /\ User(name, pw, admin, source, sub).sub = sub
         /\ User(name, pw, admin, source, sub).pw = pw
  BY DEF Shape, User

\* Rewriting a field of a row.
LEMMA ShapeEdited ==
  ASSUME NEW r, Shape(r), NEW x
  PROVE  /\ Shape([r EXCEPT !.admin = x]) /\ Shape([r EXCEPT !.source = x])
         /\ Shape([r EXCEPT !.active = x])
         /\ [r EXCEPT !.admin = x].sub = r.sub /\ [r EXCEPT !.admin = x].pw = r.pw
         /\ [r EXCEPT !.source = x].sub = r.sub /\ [r EXCEPT !.source = x].pw = r.pw
         /\ [r EXCEPT !.active = x].sub = r.sub /\ [r EXCEPT !.active = x].pw = r.pw
         /\ x \in Passwords => /\ Shape([r EXCEPT !.pw = x])
                              /\ [r EXCEPT !.pw = x].sub = r.sub /\ [r EXCEPT !.pw = x].pw = x
<1> DEFINE F(n, p, a, d, o, s) == [name |-> n, pw |-> p, active |-> a, admin |-> d,
                                   source |-> o, sub |-> s]
<1>1. PICK n, p, a, d, o, s : r = F(n, p, a, d, o, s)
  BY DEF Shape
<1>2. r.pw = p /\ r.sub = s /\ p \in Passwords /\ s \in Subjects \cup {None}
  BY <1>1 DEF Shape
<1>3. /\ [r EXCEPT !.admin = x] = F(n, p, a, x, o, s)
      /\ [r EXCEPT !.source = x] = F(n, p, a, d, x, s)
      /\ [r EXCEPT !.active = x] = F(n, p, x, d, o, s)
      /\ [r EXCEPT !.pw = x] = F(n, x, a, d, o, s)
  BY <1>1
<1>4. ASSUME NEW n2, NEW p2 \in Passwords, NEW a2, NEW d2, NEW o2
      PROVE  /\ Shape(F(n2, p2, a2, d2, o2, s))
             /\ F(n2, p2, a2, d2, o2, s).sub = s /\ F(n2, p2, a2, d2, o2, s).pw = p2
  BY <1>2 DEF Shape
<1> HIDE DEF F
<1> QED
  BY <1>2, <1>3, <1>4

\* What a returning directory or OIDC sign-in rewrites.
Refreshed(r, a, o) == [r EXCEPT !.admin = a, !.source = o]

\* UpdateOIDCUser refreshes neither the subject nor the password of a row.
LEMMA ShapeRefreshed ==
  ASSUME NEW r, Shape(r), NEW a, NEW o
  PROVE  /\ Shape(Refreshed(r, a, o)) /\ Refreshed(r, a, o).sub = r.sub
         /\ Refreshed(r, a, o).pw = r.pw
<1> DEFINE m == [r EXCEPT !.admin = a]
           f == [m EXCEPT !.source = o]
<1>1. Shape(m) /\ m.sub = r.sub /\ m.pw = r.pw
  BY ShapeEdited, Zenon
<1> HIDE DEF m
<1>2. Shape(f) /\ f.sub = m.sub /\ f.pw = m.pw
  BY <1>1, ShapeEdited, Zenon
<1>3. Refreshed(r, a, o) = f
  BY DEF m, Refreshed
<1> HIDE DEF f
<1> QED
  BY <1>1, <1>2, <1>3

\* Changing a row or adding one: no account goes.
LEMMA RowWritten ==
  ASSUME NEW u \in Ids, NEW r, Shape(r), users = [v \in Ids |-> users[v]],
         \A v \in Rows : Shape(users[v]), users' = [users EXCEPT ![u] = r]
  PROVE  /\ users' = [v \in Ids |-> users'[v]]
         /\ Rows' = Rows \cup {u} /\ users'[u] = r
         /\ \A v \in Ids : v # u => users'[v] = users[v]
         /\ \A v \in Rows' : Shape(users'[v])
<1>1. /\ users' = [v \in Ids |-> users'[v]] /\ users'[u] = r
      /\ \A v \in Ids : v # u => users'[v] = users[v]
  OBVIOUS
<1>2. r # NoUser
  BY ShapeIsRow
<1>3. Rows' = Rows \cup {u}
  BY <1>1, <1>2 DEF Rows
<1>4. ASSUME NEW v \in Rows' PROVE Shape(users'[v])
  <2>1. CASE v = u
    BY <1>1, <2>1
  <2>2. CASE v # u
    BY <1>1, <1>3, <2>2 DEF Rows
  <2> QED
    BY <2>1, <2>2
<1> QED
  BY <1>1, <1>3, <1>4

-----------------------------------------------------------------------------
(* What a step does *)

\* Edits and failures only add up, and a process that has ended does not return.
Counted ==
  /\ edits' \in Nat /\ faults' \in Nat
  /\ faults' = 0 => faults = 0
  /\ phase = "killed" => phase' = "killed"

RowEdited ==
  \E u \in Rows : \E r :
    /\ Shape(r) /\ r.sub = users[u].sub /\ r.pw = users[u].pw
    /\ users' = [users EXCEPT ![u] = r]
    /\ opened' = opened \/ (r.sub \in Subjects /\ opened' = opened \cup {<<r.sub, u>>})

RowAdded ==
  \E u \in Unused : \E r :
    /\ Shape(r) /\ users' = [users EXCEPT ![u] = r]
    /\ \/ r.sub = None /\ opened' = opened
       \/ /\ r.sub \in Subjects /\ \A v \in Rows : users[v].sub # r.sub
          /\ opened' = opened \cup {<<r.sub, u>>}

KeyWritten ==
  \/ keys' = keys
  \/ \E k \in KeyIds : \E x : KeyOK(x, Rows) /\ keys' = [keys EXCEPT ![k] = x]

\* A request goes on: a sign-in holds the password of its account.
Moved ==
  /\ UNCHANGED <<users, opened>> \/ RowEdited \/ RowAdded
  /\ KeyWritten /\ sessions' = sessions
  /\ \E q \in Requests : \E r :
       /\ reqs[q].pc \notin {"prune", "purge"} /\ r.pc # "prune"
       /\ reqs' = [reqs EXCEPT ![q] = r] /\ ReqOK(r, Rows')
       /\ r.pc = "session" => r.pw \in {None, users'[r.user].pw}

SessionOpened ==
  \E q \in Requests :
    /\ At(q, "session")
    /\ CreateSession(reqs[q].user, reqs[q].pw, reqs[q].late)
    /\ reqs' = [reqs EXCEPT ![q] = [pc |-> "prune", user |-> reqs[q].user]]
    /\ UNCHANGED <<users, opened, keys>>

SessionsCapped ==
  \E q \in Requests :
    /\ At(q, "prune")
    /\ sessions' = [sessions EXCEPT ![reqs[q].user] = PruneUserSessions(@)]
    /\ reqs' = [reqs EXCEPT ![q] = Idle]
    /\ UNCHANGED <<users, opened, keys>>

PasswordSet ==
  \E q \in Requests :
    /\ At(q, "password")
    /\ users' = [users EXCEPT ![reqs[q].user].pw = reqs[q].pw]
    /\ reqs' = [Late(reqs[q].user) EXCEPT ![q] = [pc |-> "purge", user |-> reqs[q].user]]
    /\ UNCHANGED <<sessions, opened, keys>>

SessionsEnded ==
  \E q \in Requests : \E u \in Rows :
    /\ reqs[q].pc # "prune" /\ (reqs[q].pc = "purge" => reqs[q].user = u)
    /\ DeleteUserSessions(u)
    /\ reqs' = [reqs EXCEPT ![q] = Idle]
    /\ UNCHANGED <<users, opened, keys>>

SessionEnded ==
  /\ \E u \in Ids : \/ sessions[u] # <<>> /\ sessions' = [sessions EXCEPT ![u] = Tail(@)]
                    \/ \E i \in DOMAIN sessions[u] :
                         sessions' = [sessions EXCEPT ![u] =
                                        SubSeq(@, 1, i - 1) \o SubSeq(@, i + 1, Len(@))]
  /\ UNCHANGED <<users, opened, keys, reqs>>

Quiet == UNCHANGED <<users, opened, keys, sessions, reqs>>

Disturbed ==
  /\ ~Undisturbed'
  /\ \/ reqs' = [q \in Requests |-> Idle]
     \/ \E q \in Requests : reqs' = [reqs EXCEPT ![q] = Idle]
  /\ UNCHANGED <<users, opened, keys, sessions>>

Effect ==
  /\ Counted
  /\ \/ Moved \/ SessionOpened \/ SessionsCapped \/ PasswordSet \/ SessionsEnded
     \/ SessionEnded \/ Quiet \/ Disturbed

-----------------------------------------------------------------------------

\* A request ends, or goes on to a session.
LEMMA IdleOK == ASSUME NEW R PROVE ReqOK(Idle, R) /\ Idle.pc = "idle"
  BY DEF ReqOK, Idle

\* A sign-in either ends the request or leaves it about to create a session of the account it
\* looked up.
LEMMA SignedInOK ==
  ASSUME NEW q \in Requests, NEW R, NEW u \in R, NEW pw \in Passwords, NEW active,
         SignedIn(q, u, pw, active)
  PROVE  \E r : /\ reqs' = [reqs EXCEPT ![q] = r] /\ ReqOK(r, R) /\ r.pc \in {"idle", "session"}
                /\ r.pc = "session" => r.pw = pw /\ r.user = u
<1>1. CASE reqs' = [reqs EXCEPT ![q] = Idle]
  BY <1>1, IdleOK, Zenon
<1> DEFINE s == [pc |-> "session", user |-> u, pw |-> pw, late |-> FALSE]
<1>2. CASE reqs' = [reqs EXCEPT ![q] = s]
  <2>1. ReqOK(s, R) /\ s.pc = "session" /\ s.pw = pw /\ s.user = u
    BY DEF ReqOK
  <2> HIDE DEF s
  <2> QED
    BY <1>2, <2>1, Zenon
<1> QED
  BY <1>1, <1>2 DEF SignedIn, Goto, End

\* A request that touches neither accounts nor sessions.
LEMMA MovedPlainly ==
  ASSUME StateOK, NEW q \in Requests, NEW r, reqs[q].pc \notin {"prune", "purge"},
         r.pc \notin {"prune", "session"}, ReqOK(r, Rows),
         reqs' = [reqs EXCEPT ![q] = r], KeyWritten, UNCHANGED <<users, opened, sessions>>
  PROVE  Moved
<1>1. Rows' = Rows
  BY DEF Rows
<1> QED
  BY <1>1, Zenon DEF Moved

\* The counters stay natural numbers, and a fault or a kill is never undone.
LEMMA CountedStep ==
  ASSUME StateOK, [Next]_vars
  PROVE  Counted
<1> DEFINE C == /\ faults' \in {faults, faults + 1} /\ edits' \in {edits, edits + 1}
                /\ phase' = phase \/ (phase # "killed" /\ phase' # phase)
<1>1. C => Counted
  BY DEF Counted, StateOK
<1> USE DEF Fails, Edits
<1>2. ASSUME NEW q \in Requests, EstablishSession(q) \/ CapSessions(q) \/ OIDCCallback(q)
                                 \/ UpsertOIDCUser(q) \/ SessionOrAPIKey(q)
      PROVE  C
  BY <1>2, Zenon DEF EstablishSession, CapSessions, OIDCCallback, UpsertOIDCUser, SessionOrAPIKey
<1>3. ASSUME NEW q \in Requests, UpdatePassword(q) \/ ForceLogout(q) \/ Answer(q)
                                 \/ LogoutAll(q) \/ Accept(q)
      PROVE  C
  BY <1>3 DEF UpdatePassword, ForceLogout, Answer, LogoutAll, Accept
<1>4. ASSUME NEW q \in Requests, NEW k \in KeyIds, CreateKey(q, k) \/ RevokeKey(q, k)
      PROVE  C
  BY <1>4 DEF CreateKey, RevokeKey
<1>5. ASSUME NEW q \in Requests, NEW name \in Names, CreateUser(q, name) \/ Login(q, name)
      PROVE  C
  BY <1>5 DEF CreateUser, Login
<1>6. ASSUME NEW q \in Requests, NEW u \in Rows,
             SetUserActive(q, u) \/ UpdateUserPassword(q, u) \/ RevokeUserSessions(q, u)
      PROVE  C
  BY <1>6 DEF SetUserActive, UpdateUserPassword, RevokeUserSessions
<1>7. ASSUME NEW q \in Requests, NEW sub \in DOMAIN Identities, OIDCLogin(q, sub)
      PROVE  C
  BY <1>7 DEF OIDCLogin
<1>8. ASSUME NEW u \in Ids, CleanExpiredSessions(u) \/ \E i \in DOMAIN sessions[u] : Logout(u, i)
      PROVE  C
  BY <1>8 DEF CleanExpiredSessions, Logout
<1>9. TouchWorker \/ Shutdown \/ Stop \/ Exit \/ UNCHANGED vars => C
  BY DEF TouchWorker, Shutdown, Stop, Exit, vars
<1> HIDE DEF C
<1>10. ASSUME NEW q \in Requests, RequestStep(q) PROVE C
  BY <1>2, <1>3, <1>4, <1>5, <1>6, <1>10 DEF RequestStep, Routes
<1> QED
  BY <1>1, <1>3, <1>5, <1>7, <1>8, <1>9, <1>10 DEF Next

\* The sign-ins.
LEMMA LoginEffect ==
  ASSUME StateOK, NEW q \in Requests, NEW name, Login(q, name)
  PROVE  Moved
<1>1. /\ reqs[q].pc = "idle" /\ UNCHANGED <<sessions, keys, opened>>
      /\ \E answer : directory(q, name, answer) \/ local(q, name, answer)
  BY DEF Login, Accepts, At
<1>2. None \in Passwords /\ None \in Subjects \cup {None}
  BY DEF Passwords
<1>3. ASSUME NEW answer, directory(q, name, answer) PROVE Moved
  <2> DEFINE up == UpsertLDAPUser(name)
             n == <<name, 1>>
  <2>1. /\ Named(n) # {} \/ Unused # {}
        /\ users' = [users EXCEPT ![up.id] = up.row]
        /\ SignedIn(q, up.id, None, up.row.active)
    BY <1>3 DEF directory
  <2>2. CASE Named(n) # {}
    <3>1. Least(Named(n)) \in Rows
      <4>1. Named(n) \subseteq Rows /\ Rows \subseteq Ids
        BY DEF Named, Rows
      <4>2. Named(n) \subseteq Ids
        BY <4>1
      <4> HIDE DEF n
      <4> QED
        BY <2>2, <4>1, <4>2, LeastIn
    <3> DEFINE u == Least(Named(n))
               a == resolveRole(Directory[name]).admin
               r == Refreshed(users[u], a, "ldap")
    <3>2. up = [id |-> u, row |-> r]
      BY <2>2 DEF UpsertLDAPUser, Refreshed
    <3>3. up.id = u /\ up.row = r
      BY <3>2
    <3> HIDE DEF up, u, a
    <3>4. u \in Rows /\ Shape(users[u])
      BY <3>1, Zenon DEF u, StateOK
    <3>5. Shape(r) /\ r.sub = users[u].sub /\ r.pw = users[u].pw
      BY <3>4, ShapeRefreshed
    <3> HIDE DEF r
    <3>6. users' = [users EXCEPT ![u] = r]
      BY <2>1, <3>3
    <3>7. RowEdited
      BY <1>1, <3>4, <3>5, <3>6, Zenon DEF RowEdited
    <3>8. u \in Rows'
      <4>1. u \in Ids
        BY <3>4 DEF Rows
      <4> QED
        BY <3>5, <3>6, <4>1, RowWritten, Zenon DEF StateOK
    <3>9. PICK x : /\ reqs' = [reqs EXCEPT ![q] = x] /\ ReqOK(x, Rows')
                   /\ x.pc \in {"idle", "session"} /\ (x.pc = "session" => x.pw = None)
      BY <1>2, <2>1, <3>3, <3>8, SignedInOK
    <3> QED
      BY <1>1, <3>7, <3>9, Zenon DEF Moved, KeyWritten
  <2>3. CASE Named(n) = {}
    <3> DEFINE u == Least(Unused)
               a == resolveRole(Directory[name]).admin
               r == User(n, None, a, "ldap", None)
    <3>1. u \in Unused /\ u \in Ids
      <4>1. Unused \subseteq Ids /\ Unused # {}
        BY <2>1, <2>3 DEF Unused
      <4> QED
        BY <4>1, LeastIn
    <3>2. up = [id |-> u, row |-> r]
      BY <2>3 DEF UpsertLDAPUser
    <3>3. up.id = u /\ up.row = r
      BY <3>2
    <3> HIDE DEF up, u, a
    <3>4. Shape(r) /\ r.sub = None
      <4> HIDE DEF n
      <4> QED
        BY <1>2, UserShape
    <3> HIDE DEF r
    <3>5. users' = [users EXCEPT ![u] = r]
      BY <2>1, <3>3
    <3>6. RowAdded
      BY <1>1, <3>1, <3>4, <3>5, Zenon DEF RowAdded
    <3>7. u \in Rows'
      BY <3>1, <3>4, <3>5, RowWritten, Zenon DEF StateOK
    <3>8. PICK x : /\ reqs' = [reqs EXCEPT ![q] = x] /\ ReqOK(x, Rows')
                   /\ x.pc \in {"idle", "session"} /\ (x.pc = "session" => x.pw = None)
      BY <1>2, <2>1, <3>3, <3>7, SignedInOK
    <3> QED
      BY <1>1, <3>6, <3>8, Zenon DEF Moved, KeyWritten
  <2> QED
    BY <2>2, <2>3
<1>4. ASSUME NEW answer, local(q, name, answer) PROVE Moved
  <2>1. PICK u \in Rows : SignedIn(q, u, users[u].pw, users[u].active)
    BY <1>4, Zenon DEF local, Named
  <2>2. users' = users /\ Rows' = Rows /\ users[u].pw \in Passwords
    BY <1>4, Zenon DEF local, Rows, StateOK, Shape
  <2>3. PICK x : /\ reqs' = [reqs EXCEPT ![q] = x] /\ ReqOK(x, Rows)
                 /\ x.pc \in {"idle", "session"}
                 /\ x.pc = "session" => x.pw = users[u].pw /\ x.user = u
    BY <2>1, <2>2, SignedInOK
  <2> QED
    BY <1>1, <2>2, <2>3, Zenon DEF Moved, KeyWritten
<1> QED
  BY <1>1, <1>3, <1>4

\* The OIDC callback.
LEMMA CallbackEffect ==
  ASSUME StateOK, NEW q \in Requests, OIDCCallback(q)
  PROVE  Moved
<1>1. /\ reqs[q].pc = "cookie" /\ UNCHANGED <<sessions, keys>>
      /\ reqs[q].sub \in Subjects
  BY DEF OIDCCallback, At, StateOK, ReqOK
<1> DEFINE sub == reqs[q].sub
<1>2. PICK i \in CompleteLogin(sub) :
        \/ i = None /\ End(q) /\ UNCHANGED <<users, opened>>
        \/ i # None /\ UpdateOIDCUser(q, i)
        \/ /\ i # None /\ \A u \in Rows : users[u].sub # i.sub
           /\ Goto(q, [pc |-> "provision", ident |-> i, attempt |-> 1])
           /\ UNCHANGED <<users, opened>>
  BY DEF OIDCCallback
<1>3. i # None => i.sub = sub
  BY <1>2 DEF CompleteLogin, resolveIdentity
<1>4. KeyWritten
  BY <1>1 DEF KeyWritten
<1>5. CASE End(q) /\ UNCHANGED <<users, opened>>
  BY <1>1, <1>4, <1>5, IdleOK, MovedPlainly, Zenon DEF End, Goto
<1>6. CASE i # None /\ UpdateOIDCUser(q, i)
  <2>1. PICK u \in Rows :
          /\ users[u].sub = i.sub
          /\ users' = [users EXCEPT ![u].admin = i.admin, ![u].source = "oidc"]
          /\ opened' = opened \cup {<<i.sub, u>>}
          /\ SignedIn(q, u, None, users[u].active)
    BY <1>6, Zenon DEF UpdateOIDCUser
  <2> DEFINE r == Refreshed(users[u], i.admin, "oidc")
  <2>2. Shape(r) /\ r.sub = users[u].sub /\ r.pw = users[u].pw
    <3>1. Shape(users[u])
      BY Zenon DEF StateOK
    <3> QED
      BY <3>1, ShapeRefreshed
  <2>3. users' = [users EXCEPT ![u] = r]
    <3>1. u \in Ids /\ users = [v \in Ids |-> users[v]]
      BY DEF StateOK, Rows
    <3> QED
      BY <2>1, <3>1, Zenon DEF Refreshed
  <2> HIDE DEF r
  <2>4. r.sub \in Subjects /\ opened' = opened \cup {<<r.sub, u>>}
    BY <1>1, <1>3, <1>6, <2>1, <2>2
  <2>5. RowEdited
    BY <2>2, <2>3, <2>4, Zenon DEF RowEdited
  <2>6. u \in Rows'
    <3>1. u \in Ids
      BY DEF Rows
    <3> QED
      BY <2>2, <2>3, <3>1, RowWritten, Zenon DEF StateOK
  <2>7. PICK x : /\ reqs' = [reqs EXCEPT ![q] = x] /\ ReqOK(x, Rows')
                 /\ x.pc \in {"idle", "session"} /\ (x.pc = "session" => x.pw = None)
    BY <2>1, <2>6, SignedInOK DEF Passwords
  <2> QED
    BY <1>1, <1>4, <2>5, <2>7, Zenon DEF Moved
<1>7. CASE /\ i # None /\ Goto(q, [pc |-> "provision", ident |-> i, attempt |-> 1])
           /\ UNCHANGED <<users, opened>>
  <2> DEFINE r == [pc |-> "provision", ident |-> i, attempt |-> 1]
  <2>1. ReqOK(r, Rows) /\ r.pc = "provision"
    BY <1>1, <1>3, <1>7 DEF ReqOK
  <2>2. reqs' = [reqs EXCEPT ![q] = r]
    BY <1>7 DEF Goto
  <2> HIDE DEF r
  <2> QED
    BY <1>1, <1>4, <1>7, <2>1, <2>2, MovedPlainly, Zenon
<1> QED
  BY <1>2, <1>5, <1>6, <1>7

\* The first sign-in of an identity.
LEMMA ProvisionEffect ==
  ASSUME StateOK, NEW q \in Requests, UpsertOIDCUser(q)
  PROVE  Moved
<1> DEFINE i == reqs[q].ident
           n == reqs[q].attempt
           name == <<i.name, n>>
<1>1. /\ reqs[q].pc = "provision" /\ UNCHANGED <<sessions, keys>>
      /\ reqs[q] = [pc |-> "provision", ident |-> i, attempt |-> n] /\ i.sub \in Subjects
  BY DEF UpsertOIDCUser, At, StateOK, ReqOK
<1>2. \/ End(q) /\ UNCHANGED <<users, opened>>
      \/ Goto(q, [reqs[q] EXCEPT !.attempt = n + 1]) /\ UNCHANGED <<users, opened>>
      \/ /\ Unused # {} /\ \A u \in Rows : users[u].sub # i.sub
         /\ users' = [users EXCEPT ![Least(Unused)] = User(name, None, i.admin, "oidc", i.sub)]
         /\ opened' = opened \cup {<<i.sub, Least(Unused)>>}
         /\ SignedIn(q, Least(Unused), None, TRUE)
  BY Zenon DEF UpsertOIDCUser
<1>3. KeyWritten
  BY <1>1 DEF KeyWritten
<1>4. CASE End(q) /\ UNCHANGED <<users, opened>>
  BY <1>1, <1>3, <1>4, IdleOK, MovedPlainly, Zenon DEF End, Goto
<1>5. CASE Goto(q, [reqs[q] EXCEPT !.attempt = n + 1]) /\ UNCHANGED <<users, opened>>
  <2> DEFINE r == [reqs[q] EXCEPT !.attempt = n + 1]
  <2>1. r = [pc |-> "provision", ident |-> i, attempt |-> n + 1]
    <3> HIDE DEF i, n
    <3> QED
      BY <1>1
  <2> HIDE DEF r, i, n
  <2>2. ReqOK(r, Rows) /\ r.pc = "provision"
    BY <1>1, <2>1 DEF ReqOK
  <2>3. reqs' = [reqs EXCEPT ![q] = r]
    BY <1>5 DEF Goto, r
  <2> QED
    BY <1>1, <1>3, <1>5, <2>2, <2>3, MovedPlainly, Zenon
<1>6. CASE /\ Unused # {} /\ \A u \in Rows : users[u].sub # i.sub
           /\ users' = [users EXCEPT ![Least(Unused)] = User(name, None, i.admin, "oidc", i.sub)]
           /\ opened' = opened \cup {<<i.sub, Least(Unused)>>}
           /\ SignedIn(q, Least(Unused), None, TRUE)
  <2> DEFINE u == Least(Unused)
             r == User(name, None, i.admin, "oidc", i.sub)
  <2>1. u \in Unused /\ u \in Ids
    <3>1. Unused \subseteq Ids
      BY DEF Unused
    <3> QED
      BY <1>6, <3>1, LeastIn
  <2>2. Shape(r) /\ r.sub = i.sub
    <3> HIDE DEF i, name
    <3>1. None \in Passwords /\ i.sub \in Subjects \cup {None}
      BY <1>1 DEF Passwords
    <3> QED
      BY <3>1, UserShape
  <2> HIDE DEF u, r, i
  <2>3. /\ users' = [users EXCEPT ![u] = r] /\ opened' = opened \cup {<<r.sub, u>>}
        /\ r.sub \in Subjects /\ \A v \in Rows : users[v].sub # r.sub
    BY <1>1, <1>6, <2>2 DEF u, r
  <2>4. RowAdded
    BY <2>1, <2>2, <2>3, Zenon DEF RowAdded
  <2>5. u \in Rows'
    BY <2>1, <2>2, <2>3, RowWritten, Zenon DEF StateOK
  <2>6. SignedIn(q, u, None, TRUE)
    BY <1>6, Zenon DEF u
  <2>7. PICK x : /\ reqs' = [reqs EXCEPT ![q] = x] /\ ReqOK(x, Rows')
                 /\ x.pc \in {"idle", "session"} /\ (x.pc = "session" => x.pw = None)
    <3>1. None \in Passwords
      BY DEF Passwords
    <3>2. ASSUME NEW t, t = TRUE PROVE SignedIn(q, u, None, t)
      BY <2>6, <3>2, Zenon
    <3>3. PICK t : t = TRUE
      OBVIOUS
    <3>4. SignedIn(q, u, None, t)
      BY <3>2, <3>3, Zenon
    <3> QED
      BY <2>5, <3>1, <3>4, SignedInOK
  <2> QED
    BY <1>1, <1>3, <2>4, <2>7, Zenon DEF Moved
<1> QED
  BY <1>2, <1>4, <1>5, <1>6, Zenon

-----------------------------------------------------------------------------
(* What the authenticated requests do *)

\* The middleware: the request is somebody's, or refused.
LEMMA AuthEffect ==
  ASSUME StateOK, NEW q \in Requests, SessionOrAPIKey(q)
  PROVE  Moved
<1>1. /\ reqs[q].pc = "accepted" /\ UNCHANGED <<users, opened, keys, sessions>>
  BY DEF SessionOrAPIKey, At
<1>2. \/ End(q)
      \/ \E u \in Rows : \E sc : Goto(q, [pc |-> "authed", user |-> u, me |-> Principal(u), scopes |-> sc])
  <2>1. ASSUME NEW k \in KeyIds, GetAPIKeyByHash(k) PROVE keys[k].user \in Rows
    BY <2>1 DEF GetAPIKeyByHash, StateOK, KeyOK
  <2> QED
    BY <2>1, Zenon DEF SessionOrAPIKey
<1>3. KeyWritten
  BY <1>1 DEF KeyWritten
<1>4. CASE End(q)
  BY <1>1, <1>3, <1>4, IdleOK, MovedPlainly, Zenon DEF End, Goto
<1>5. ASSUME NEW u \in Rows, NEW sc,
             Goto(q, [pc |-> "authed", user |-> u, me |-> Principal(u), scopes |-> sc])
      PROVE  Moved
  <2> DEFINE r == [pc |-> "authed", user |-> u, me |-> Principal(u), scopes |-> sc]
  <2>1. ReqOK(r, Rows) /\ r.pc = "authed"
    BY DEF ReqOK
  <2>2. reqs' = [reqs EXCEPT ![q] = r]
    BY <1>5 DEF Goto
  <2> HIDE DEF r
  <2> QED
    BY <1>1, <1>3, <2>1, <2>2, MovedPlainly, Zenon
<1> QED
  BY <1>2, <1>4, <1>5, Zenon

\* A request that starts.
LEMMA StartEffect ==
  ASSUME StateOK, NEW q \in Requests, Accept(q) \/ \E sub \in Subjects : OIDCLogin(q, sub)
  PROVE  Moved
<1>1. /\ reqs[q].pc = "idle" /\ UNCHANGED <<users, opened, keys, sessions>>
  BY Zenon DEF Accept, OIDCLogin, Accepts, At
<1>2. KeyWritten
  BY <1>1 DEF KeyWritten
<1>3. CASE Accept(q)
  <2> DEFINE r == [pc |-> "accepted"]
  <2>1. ReqOK(r, Rows) /\ r.pc = "accepted"
    BY DEF ReqOK
  <2>2. reqs' = [reqs EXCEPT ![q] = r]
    BY <1>3 DEF Accept, Goto
  <2> HIDE DEF r
  <2> QED
    BY <1>1, <1>2, <2>1, <2>2, MovedPlainly, Zenon
<1>4. ASSUME NEW sub \in Subjects, OIDCLogin(q, sub) PROVE Moved
  <2> DEFINE r == [pc |-> "cookie", sub |-> sub]
  <2>1. ReqOK(r, Rows) /\ r.pc = "cookie"
    BY DEF ReqOK
  <2>2. reqs' = [reqs EXCEPT ![q] = r]
    BY <1>4 DEF OIDCLogin, Goto
  <2> HIDE DEF r
  <2> QED
    BY <1>1, <1>2, <2>1, <2>2, MovedPlainly, Zenon
<1> QED
  BY <1>3, <1>4

\* Creating or revoking an API key touches no account and no session.
LEMMA KeyEffect ==
  ASSUME StateOK, NEW q \in Requests, NEW k \in KeyIds, CreateKey(q, k) \/ RevokeKey(q, k)
  PROVE  Moved
<1>1. /\ reqs[q].pc = "authed" /\ UNCHANGED <<users, opened, sessions>>
      /\ reqs' = [reqs EXCEPT ![q] = Idle]
  BY DEF CreateKey, RevokeKey, At, End, Goto
<1>2. KeyWritten
  <2>1. CASE CreateKey(q, k)
    <3>1. PICK sc : keys' = [keys EXCEPT ![k] = [user |-> reqs[q].user, scopes |-> sc, revoked |-> FALSE]]
      BY <2>1, Zenon DEF CreateKey
    <3> DEFINE x == [user |-> reqs[q].user, scopes |-> sc, revoked |-> FALSE]
    <3>2. reqs[q].user \in Rows
      BY <1>1 DEF StateOK, ReqOK
    <3>3. KeyOK(x, Rows)
      BY <3>2 DEF KeyOK
    <3> HIDE DEF x
    <3>4. keys' = [keys EXCEPT ![k] = x]
      BY <3>1 DEF x
    <3> QED
      BY <3>3, <3>4, Zenon DEF KeyWritten
  <2>2. CASE RevokeKey(q, k)
    <3>1. keys[k] # None /\ keys' = [keys EXCEPT ![k].revoked = TRUE]
      BY <2>2 DEF RevokeKey
    <3>2. PICK u, sc, b : u \in Rows /\ keys[k] = [user |-> u, scopes |-> sc, revoked |-> b]
      BY <3>1 DEF StateOK, KeyOK
    <3>a. PICK t : t = TRUE
      OBVIOUS
    <3> DEFINE x == [user |-> u, scopes |-> sc, revoked |-> t]
    <3>3. KeyOK(x, Rows)
      BY <3>2 DEF KeyOK
    <3>4. [keys[k] EXCEPT !.revoked = t] = x
      BY <3>2
    <3>5. keys' = [keys EXCEPT ![k] = [keys[k] EXCEPT !.revoked = t]]
      BY <3>1, <3>a DEF StateOK
    <3> HIDE DEF x
    <3>6. keys' = [keys EXCEPT ![k] = x]
      BY <3>4, <3>5, Zenon
    <3> QED
      BY <3>3, <3>6, Zenon DEF KeyWritten
  <2> QED
    BY <2>1, <2>2
<1> QED
  BY <1>1, <1>2, IdleOK, MovedPlainly, Zenon

\* Creating an account on the users page only adds a row.
LEMMA CreateUserEffect ==
  ASSUME StateOK, NEW q \in Requests, NEW name, CreateUser(q, name), edits' \in Nat
  PROVE  Moved
<1>1. /\ reqs[q].pc = "authed" /\ UNCHANGED <<keys, opened, sessions>>
      /\ reqs' = [reqs EXCEPT ![q] = Idle]
  BY DEF CreateUser, requireAdmin, At, End, Goto
<1> DEFINE u == Least(Unused)
<1>2. u \in Unused
  BY LeastIn DEF Unused, CreateUser
<1>3. PICK admin : users' = [users EXCEPT ![u] = User(<<name, 1>>, edits', admin, "local", None)]
  BY Zenon DEF CreateUser
<1> DEFINE n == <<name, 1>>
           pw == edits'
<1>4. pw \in Passwords
  BY DEF Passwords
<1> DEFINE r == User(n, pw, admin, "local", None)
<1> HIDE DEF n, pw, u
<1>5. Shape(r) /\ r.sub = None
  BY <1>4, UserShape
<1>6. users' = [users EXCEPT ![u] = r]
  BY <1>3 DEF n, pw
<1> HIDE DEF r
<1>7. RowAdded
  BY <1>1, <1>2, <1>5, <1>6, Zenon DEF RowAdded
<1>8. KeyWritten
  BY <1>1 DEF KeyWritten
<1> QED
  BY <1>1, <1>7, <1>8, IdleOK, Zenon DEF Moved

\* Switching an account on or off edits that row, keeping its password and subject.
LEMMA SetUserActiveEffect ==
  ASSUME StateOK, NEW q \in Requests, NEW u \in Rows, SetUserActive(q, u)
  PROVE  Moved
<1>1. reqs[q].pc = "authed" /\ UNCHANGED <<keys, opened, sessions>>
  BY DEF SetUserActive, requireAdmin, At
<1>2. PICK active \in BOOLEAN :
        /\ users' = [users EXCEPT ![u].active = active]
        /\ IF active THEN End(q) ELSE Goto(q, [pc |-> "purge", user |-> u])
  BY Zenon DEF SetUserActive
<1> DEFINE r == [users[u] EXCEPT !.active = active]
<1>3. Shape(r) /\ r.sub = users[u].sub /\ r.pw = users[u].pw
  <2>1. Shape(users[u])
    BY Zenon DEF StateOK
  <2> QED
    BY <2>1, ShapeEdited, Zenon
<1>4. users' = [users EXCEPT ![u] = r]
  BY <1>2
<1> HIDE DEF r
<1>5. RowEdited
  BY <1>1, <1>3, <1>4, Zenon DEF RowEdited
<1>6. u \in Rows'
  <2>1. u \in Ids
    BY DEF Rows
  <2> QED
    BY <1>3, <1>4, <2>1, RowWritten, Zenon DEF StateOK
<1>7. KeyWritten
  BY <1>1 DEF KeyWritten
<1>8. CASE reqs' = [reqs EXCEPT ![q] = Idle]
  BY <1>1, <1>5, <1>7, <1>8, IdleOK, Zenon DEF Moved
<1> DEFINE x == [pc |-> "purge", user |-> u]
<1>9. CASE reqs' = [reqs EXCEPT ![q] = x]
  <2>1. ReqOK(x, Rows') /\ x.pc = "purge"
    BY <1>6 DEF ReqOK
  <2> HIDE DEF x
  <2> QED
    BY <1>1, <1>5, <1>7, <1>9, <2>1, Zenon DEF Moved
<1> QED
  BY <1>2, <1>8, <1>9 DEF End, Goto

\* The users page's change of a password checks the request and goes on to write the password.
LEMMA UpdateUserPasswordEffect ==
  ASSUME StateOK, NEW q \in Requests, NEW u \in Rows, UpdateUserPassword(q, u), edits' \in Nat
  PROVE  Moved
<1>1. reqs[q].pc = "authed" /\ UNCHANGED <<users, keys, opened, sessions>>
  BY DEF UpdateUserPassword, At
<1> DEFINE pw == edits'
           x == [pc |-> "password", user |-> u, pw |-> pw]
<1>2. reqs' = [reqs EXCEPT ![q] = x] /\ pw \in Passwords
  BY DEF UpdateUserPassword, Goto, Passwords
<1>3. KeyWritten
  BY <1>1 DEF KeyWritten
<1> HIDE DEF pw
<1>4. ReqOK(x, Rows) /\ x.pc = "password"
  BY <1>2 DEF ReqOK
<1> HIDE DEF x
<1> QED
  BY <1>1, <1>2, <1>3, <1>4, MovedPlainly, Zenon

-----------------------------------------------------------------------------
(* What the steps on sessions do, and all steps *)

\* A failed call of the store is a fault, after which nothing is claimed of the sessions.
LEMMA FailsEffect ==
  ASSUME StateOK, NEW q \in Requests, Fails, End(q), UNCHANGED <<users, opened, keys, sessions>>
  PROVE  Disturbed
<1>1. ~Undisturbed'
  BY DEF Fails, StateOK, Undisturbed
<1> QED
  BY <1>1, Zenon DEF Disturbed, End, Goto

\* The store calls of the session handlers: each opens, prunes or ends sessions, sets a
\* password, or fails.
LEMMA SessionEffects ==
  ASSUME StateOK, NEW q \in Requests
  PROVE  /\ EstablishSession(q) => SessionOpened \/ Disturbed
         /\ CapSessions(q) => SessionsCapped \/ Disturbed
         /\ UpdatePassword(q) => PasswordSet \/ Disturbed
         /\ ForceLogout(q) => SessionsEnded \/ Disturbed
         /\ LogoutAll(q) => SessionsEnded
         /\ \A u \in Rows : RevokeUserSessions(q, u) => SessionsEnded
<1>1. EstablishSession(q) => SessionOpened \/ Disturbed
  BY FailsEffect DEF EstablishSession, SessionOpened, Goto
<1>2. CapSessions(q) => SessionsCapped \/ Disturbed
  BY FailsEffect, Zenon DEF CapSessions, SessionsCapped, End, Goto
<1>3. UpdatePassword(q) => PasswordSet \/ Disturbed
  BY FailsEffect DEF UpdatePassword, PasswordSet
<1>4. reqs[q].pc \in {"authed", "purge"} => reqs[q].user \in Rows
  BY DEF StateOK, ReqOK
<1>5. ForceLogout(q) => SessionsEnded \/ Disturbed
  BY <1>4, FailsEffect, Zenon DEF ForceLogout, SessionsEnded, At, End, Goto
<1>6. LogoutAll(q) => SessionsEnded
  BY <1>4, Zenon DEF LogoutAll, SessionsEnded, At, End, Goto
<1>7. \A u \in Rows : RevokeUserSessions(q, u) => SessionsEnded
  BY Zenon DEF RevokeUserSessions, SessionsEnded, requireAdmin, At, End, Goto
<1> QED
  BY <1>1, <1>2, <1>3, <1>5, <1>6, <1>7

\* Every route of the users and sessions pages edits rows or ends sessions.
LEMMA RoutesEffect ==
  ASSUME StateOK, NEW q \in Requests, Routes(q), edits' \in Nat
  PROVE  Moved \/ SessionsEnded
<1>1. CASE Answer(q)
  <2>1. /\ reqs[q].pc = "authed" /\ UNCHANGED <<users, opened, keys, sessions>>
        /\ reqs' = [reqs EXCEPT ![q] = Idle]
    BY <1>1 DEF Answer, At, End, Goto
  <2>2. KeyWritten
    BY <2>1 DEF KeyWritten
  <2> QED
    BY <2>1, <2>2, IdleOK, MovedPlainly, Zenon
<1>2. CASE LogoutAll(q)
  BY <1>2, SessionEffects
<1>3. ASSUME NEW k \in KeyIds, CreateKey(q, k) \/ RevokeKey(q, k) PROVE Moved
  BY <1>3, KeyEffect
<1>4. ASSUME NEW name \in Names, CreateUser(q, name) PROVE Moved
  BY <1>4, CreateUserEffect
<1>5. ASSUME NEW u \in Rows,
             SetUserActive(q, u) \/ UpdateUserPassword(q, u) \/ RevokeUserSessions(q, u)
      PROVE  Moved \/ SessionsEnded
  BY <1>5, SetUserActiveEffect, UpdateUserPasswordEffect, SessionEffects
<1> QED
  BY <1>1, <1>2, <1>3, <1>4, <1>5 DEF Routes

\* Every step of the server has one of the effects named above.
LEMMA Effects ==
  ASSUME StateOK, [Next]_vars
  PROVE  Effect
<1>1. Counted
  BY CountedStep
<1>2. edits' \in Nat
  BY <1>1 DEF Counted
<1> DEFINE D == \/ Moved \/ SessionOpened \/ SessionsCapped \/ PasswordSet \/ SessionsEnded
                \/ SessionEnded \/ Quiet \/ Disturbed
<1> SUFFICES D
  BY <1>1 DEF Effect
<1>3. ASSUME NEW q \in Requests, RequestStep(q) PROVE D
  <2>1. CASE EstablishSession(q) \/ CapSessions(q) \/ UpdatePassword(q) \/ ForceLogout(q)
    BY <2>1, SessionEffects
  <2>2. CASE OIDCCallback(q)
    BY <2>2, CallbackEffect
  <2>3. CASE UpsertOIDCUser(q)
    BY <2>3, ProvisionEffect
  <2>4. CASE SessionOrAPIKey(q)
    BY <2>4, AuthEffect
  <2>5. CASE Routes(q)
    BY <1>2, <2>5, RoutesEffect
  <2> QED
    BY <1>3, <2>1, <2>2, <2>3, <2>4, <2>5 DEF RequestStep
<1>4. ASSUME NEW q \in Requests, NEW name \in Names, Login(q, name) PROVE D
  BY <1>4, LoginEffect
<1>5. ASSUME NEW q \in Requests, Accept(q) \/ \E sub \in Subjects : OIDCLogin(q, sub) PROVE D
  BY <1>5, StartEffect
<1>6. ASSUME NEW u \in Ids, CleanExpiredSessions(u) \/ \E i \in DOMAIN sessions[u] : Logout(u, i)
      PROVE  SessionEnded
  BY <1>6, Zenon DEF CleanExpiredSessions, Logout, SessionEnded
<1>7. CASE TouchWorker \/ Shutdown \/ UNCHANGED vars
  BY <1>7 DEF TouchWorker, Shutdown, vars, Quiet
<1>8. CASE Stop \/ Exit
  BY <1>8 DEF Stop, Exit, Quiet, Disturbed, Undisturbed
<1> QED
  BY <1>3, <1>4, <1>5, <1>6, <1>7, <1>8 DEF Next, Subjects

-----------------------------------------------------------------------------
(* Accounts, requests, keys and sessions belong together *)

\* s holds some of the sessions of t.
Part(s, t) ==
  /\ s \in Seq(Session) /\ Len(s) <= Len(t)
  /\ \A i \in DOMAIN s : \E j \in DOMAIN t : s[i] = t[j]

\* Dropping the oldest session of a user leaves part of the sessions, in their order.
LEMMA TailPart ==
  ASSUME NEW t \in Seq(Session), t # <<>>
  PROVE  Part(Tail(t), t)
<1>1. Tail(t) \in Seq(Session)
  OBVIOUS
<1>2. /\ Len(Tail(t)) <= Len(t)
      /\ \A i \in DOMAIN Tail(t) : i + 1 \in DOMAIN t /\ Tail(t)[i] = t[i + 1]
  OBVIOUS
<1> QED
  BY <1>1, <1>2 DEF Part

\* Deleting one session of a user leaves part of the sessions, in their order.
LEMMA CutPart ==
  ASSUME NEW t \in Seq(Session), NEW i \in DOMAIN t
  PROVE  Part(SubSeq(t, 1, i - 1) \o SubSeq(t, i + 1, Len(t)), t)
<1> DEFINE a == SubSeq(t, 1, i - 1)
           b == SubSeq(t, i + 1, Len(t))
<1>1. i \in 1..Len(t) /\ Len(t) \in Nat
  OBVIOUS
<1>2. /\ a \in Seq(Session) /\ Len(a) = i - 1
      /\ \A j \in 1..(i - 1) : a[j] = t[j]
  BY <1>1
<1>3. /\ b \in Seq(Session) /\ Len(b) = Len(t) - i
      /\ \A j \in 1..(Len(t) - i) : b[j] = t[i + j]
  BY <1>1
<1> HIDE DEF a, b
<1>4. a \o b \in Seq(Session) /\ Len(a \o b) = Len(t) - 1
  BY <1>1, <1>2, <1>3
<1>5. ASSUME NEW j \in DOMAIN (a \o b) PROVE \E k \in DOMAIN t : (a \o b)[j] = t[k]
  <2>1. j \in 1..(Len(t) - 1)
    BY <1>1, <1>4
  <2>2. CASE j <= i - 1
    BY <1>1, <1>2, <1>3, <2>1, <2>2
  <2>3. CASE j > i - 1
    <3>1. j - (i - 1) \in 1..(Len(t) - i)
      BY <1>1, <2>1, <2>3
    <3>2. PICK k \in 1..(Len(t) - i) : k = j - (i - 1)
      BY <3>1
    <3>3. (a \o b)[j] = b[k]
      <4>1. j \in 1..(Len(a) + Len(b)) /\ ~(j <= Len(a)) /\ k = j - Len(a)
        <5>1. Len(a) = i - 1 /\ Len(b) = Len(t) - i
          BY <1>2, <1>3
        <5>2. i \in Nat /\ j \in Nat /\ 1 <= i /\ i <= Len(t) /\ j <= Len(t) - 1 /\ 1 <= j
          BY <1>1, <2>1
        <5>3. Len(a) + Len(b) = Len(t) - 1
          BY <1>1, <5>1, <5>2
        <5>4. j \in 1..(Len(a) + Len(b))
          BY <2>1, <5>3
        <5>5. ~(j <= Len(a))
          BY <2>3, <5>1, <5>2
        <5>6. k = j - Len(a)
          BY <3>2, <5>1
        <5> QED
          BY <5>4, <5>5, <5>6
      <4>2. (a \o b)[j] = b[j - Len(a)]
        BY <1>2, <1>3, <4>1, ConcatProperties, Zenon
      <4> QED
        BY <4>1, <4>2
    <3>4. b[k] = t[i + k] /\ i + k \in DOMAIN t
      BY <1>1, <1>3
    <3> QED
      BY <3>3, <3>4
  <2> QED
    BY <1>1, <2>1, <2>2, <2>3
<1>6. Part(a \o b, t)
  BY <1>1, <1>4, <1>5 DEF Part
<1> QED
  BY <1>6 DEF a, b

\* PruneUserSessions leaves the newest sessions, at most MaxSessions of them, in their order.
LEMMA PrunePart ==
  ASSUME NEW t \in Seq(Session)
  PROVE  Part(PruneUserSessions(t), t) /\ Len(PruneUserSessions(t)) <= MaxSessions
<1>1. Len(t) \in Nat /\ MaxSessions \in Nat
  BY AccountsAssumption
<1>2. CASE Len(t) <= MaxSessions
  BY <1>2 DEF PruneUserSessions, Part
<1>3. CASE Len(t) > MaxSessions
  <2> DEFINE m == Len(t) - MaxSessions + 1
             b == SubSeq(t, m, Len(t))
  <2>1. m \in 1..(Len(t) + 1)
    BY <1>1, <1>3
  <2>2. PruneUserSessions(t) = b
    BY <1>1, <1>3 DEF PruneUserSessions
  <2>3. /\ b \in Seq(Session) /\ Len(b) = MaxSessions
        /\ \A j \in 1..MaxSessions : b[j] = t[m + j - 1] /\ m + j - 1 \in 1..Len(t)
    <3>1. m \in Nat /\ MaxSessions = Len(t) - m + 1
      BY <1>1, <1>3
    <3> HIDE DEF m
    <3>2. b \in Seq(Session) /\ Len(b) = Len(t) - m + 1
      BY <1>1, <1>3, <2>1, <3>1
    <3>3. \A j \in 1..(Len(t) - m + 1) : b[j] = t[m + j - 1] /\ m + j - 1 \in 1..Len(t)
      BY <1>1, <1>3, <2>1, <3>1
    <3> QED
      BY <3>1, <3>2, <3>3
  <2> HIDE DEF b, m
  <2>4. Part(b, t)
    <3>1. Len(b) <= Len(t) /\ DOMAIN b = 1..MaxSessions /\ DOMAIN t = 1..Len(t)
      BY <1>1, <1>3, <2>3
    <3>2. \A j \in DOMAIN b : \E k \in DOMAIN t : b[j] = t[k]
      BY <2>3, <3>1
    <3> QED
      BY <2>3, <3>1, <3>2 DEF Part
  <2> QED
    BY <1>1, <2>2, <2>3, <2>4
<1> QED
  BY <1>1, <1>2, <1>3

\* A request, and a key, of one of R is one of a larger set of accounts.
LEMMA MoreRows ==
  ASSUME NEW R, NEW T, R \subseteq T, NEW r
  PROVE  (ReqOK(r, R) => ReqOK(r, T)) /\ (KeyOK(r, R) => KeyOK(r, T))
<1>1. ReqOK(r, R) => ReqOK(r, T)
  BY DEF ReqOK
<1>2. KeyOK(r, R) => KeyOK(r, T)
  BY DEF KeyOK
<1> QED
  BY <1>1, <1>2

\* What the writes to users keep: the accounts there are, their subjects and,
\* but for a change of it, their passwords.
UsersKept ==
  /\ users' = [u \in Ids |-> users'[u]] /\ Rows \subseteq Rows'
  /\ \A u \in Rows' : Shape(users'[u])
  /\ \A u \in Rows : users'[u].sub = users[u].sub

\* A step that edits or adds a row keeps the shape and the password of every row there was.
LEMMA UsersStep ==
  ASSUME StateOK, users' = users \/ RowEdited \/ RowAdded
  PROVE  UsersKept /\ \A u \in Rows : users'[u].pw = users[u].pw
<1>1. CASE users' = users
  <2>1. Rows' = Rows
    BY <1>1 DEF Rows
  <2> QED
    BY <1>1, <2>1, Zenon DEF UsersKept, StateOK
<1>2. CASE RowEdited
  <2>1. PICK u \in Rows : \E r : /\ Shape(r) /\ r.sub = users[u].sub /\ r.pw = users[u].pw
                                 /\ users' = [users EXCEPT ![u] = r]
    BY <1>2, Zenon DEF RowEdited
  <2>2. PICK r : /\ Shape(r) /\ r.sub = users[u].sub /\ r.pw = users[u].pw
                 /\ users' = [users EXCEPT ![u] = r]
    BY <2>1, Zenon
  <2>3. /\ users' = [v \in Ids |-> users'[v]] /\ Rows' = Rows \cup {u} /\ users'[u] = r
        /\ \A v \in Ids : v # u => users'[v] = users[v]
        /\ \A v \in Rows' : Shape(users'[v])
    <3>1. u \in Ids
      BY DEF Rows
    <3> QED
      BY <2>2, <3>1, RowWritten, Zenon DEF StateOK
  <2>4. \A v \in Rows : users'[v].sub = users[v].sub /\ users'[v].pw = users[v].pw
    BY <2>2, <2>3 DEF Rows
  <2> QED
    BY <2>3, <2>4 DEF UsersKept
<1>3. CASE RowAdded
  <2>1. PICK u \in Unused : \E r : Shape(r) /\ users' = [users EXCEPT ![u] = r]
    BY <1>3, Zenon DEF RowAdded
  <2>2. PICK r : Shape(r) /\ users' = [users EXCEPT ![u] = r]
    BY <2>1, Zenon
  <2>3. /\ users' = [v \in Ids |-> users'[v]] /\ Rows' = Rows \cup {u}
        /\ \A v \in Ids : v # u => users'[v] = users[v]
        /\ \A v \in Rows' : Shape(users'[v])
    <3>1. u \in Ids
      BY DEF Unused
    <3> QED
      BY <2>2, <3>1, RowWritten, Zenon DEF StateOK
  <2>4. \A v \in Rows : users'[v] = users[v]
    BY <2>3 DEF Rows, Unused
  <2> QED
    BY <2>3, <2>4 DEF UsersKept
<1> QED
  BY <1>1, <1>2, <1>3

\* A request that works for an account whose password changes.
LEMMA LateOK ==
  ASSUME NEW r, NEW R, ReqOK(r, R), r.pc = "session", NEW l, l = [r EXCEPT !.late = TRUE]
  PROVE  ReqOK(l, R) /\ l.pc = "session" /\ l.user = r.user /\ l.pw = r.pw /\ l.late
<1>1. PICK u, pw, b : /\ r = [pc |-> "session", user |-> u, pw |-> pw, late |-> b]
                      /\ u \in R /\ pw \in Passwords
  BY DEF ReqOK
<1>2. PICK t : t = TRUE
  OBVIOUS
<1>3. l = [pc |-> "session", user |-> u, pw |-> pw, late |-> t]
  BY <1>1, <1>2, Zenon
<1>4. ReqOK(l, R) /\ l.pc = "session" /\ l.user = u /\ l.pw = pw /\ l.late = t
  BY <1>1, <1>2, <1>3, Zenon DEF ReqOK
<1>5. r.user = u /\ r.pw = pw
  BY <1>1
<1> QED
  BY <1>2, <1>4, <1>5

\* Moving one request keeps the others where they were.
LEMMA ReqsStep ==
  ASSUME StateOK, Rows \subseteq Rows', NEW q \in Requests, NEW r, ReqOK(r, Rows'),
         reqs' = [reqs EXCEPT ![q] = r]
  PROVE  /\ reqs' = [p \in Requests |-> reqs'[p]]
         /\ \A p \in Requests : ReqOK(reqs'[p], Rows')
         /\ reqs'[q] = r /\ \A p \in Requests : p # q => reqs'[p] = reqs[p]
<1>1. /\ reqs' = [p \in Requests |-> reqs'[p]]
      /\ reqs'[q] = r /\ \A p \in Requests : p # q => reqs'[p] = reqs[p]
  BY DEF StateOK
<1>2. ASSUME NEW p \in Requests PROVE ReqOK(reqs'[p], Rows')
  <2>1. ReqOK(reqs[p], Rows')
    BY MoreRows, Zenon DEF StateOK
  <2> QED
    BY <1>1, <2>1
<1> QED
  BY <1>1, <1>2

\* Replacing the sessions of one account keeps those of the others.
LEMMA SessionsStep ==
  ASSUME StateOK, Rows \subseteq Rows', NEW u \in Ids, NEW s \in Seq(Session),
         u \in Rows \/ s = <<>>, sessions' = [sessions EXCEPT ![u] = s]
  PROVE  /\ sessions' \in [Ids -> Seq(Session)]
         /\ \A v \in Unused' : sessions'[v] = <<>>
         /\ sessions'[u] = s /\ \A v \in Ids : v # u => sessions'[v] = sessions[v]
<1>1. sessions' \in [Ids -> Seq(Session)]
  BY DEF StateOK
<1>2. sessions'[u] = s /\ \A v \in Ids : v # u => sessions'[v] = sessions[v]
  BY DEF StateOK
<1>3. ASSUME NEW v \in Unused' PROVE sessions'[v] = <<>>
  <2>1. v \in Ids /\ v \in Unused
    BY DEF Unused
  <2> QED
    BY <1>2, <2>1 DEF StateOK, Unused
<1> QED
  BY <1>1, <1>2, <1>3

\* The sessions a step leaves an account that loses some.
LEMMA SessionEndedParts ==
  ASSUME StateOK, SessionEnded
  PROVE  \E u \in Ids : \E s : /\ Part(s, sessions[u]) /\ (u \in Rows \/ s = <<>>)
                               /\ sessions' = [sessions EXCEPT ![u] = s]
<1>1. PICK u \in Ids :
        \/ sessions[u] # <<>> /\ sessions' = [sessions EXCEPT ![u] = Tail(sessions[u])]
        \/ \E i \in DOMAIN sessions[u] :
             sessions' = [sessions EXCEPT ![u] = SubSeq(sessions[u], 1, i - 1)
                                                 \o SubSeq(sessions[u], i + 1, Len(sessions[u]))]
  BY Zenon DEF SessionEnded
<1> DEFINE t == sessions[u]
<1>2. t \in Seq(Session) /\ (t # <<>> => u \in Rows)
  BY DEF StateOK, Unused
<1>3. \A i \in DOMAIN t : t # <<>>
  BY <1>2
<1> HIDE DEF t
<1>4. CASE t # <<>> /\ sessions' = [sessions EXCEPT ![u] = Tail(t)]
  <2>1. Part(Tail(t), t)
    BY <1>2, <1>4, TailPart
  <2> QED
    BY <1>2, <1>4, <2>1, Zenon DEF t
<1>5. ASSUME NEW i \in DOMAIN t,
             sessions' = [sessions EXCEPT ![u] = SubSeq(t, 1, i - 1) \o SubSeq(t, i + 1, Len(t))]
      PROVE  \E s : Part(s, t) /\ sessions' = [sessions EXCEPT ![u] = s]
  <2> DEFINE s == SubSeq(t, 1, i - 1) \o SubSeq(t, i + 1, Len(t))
  <2>1. Part(s, t)
    BY <1>2, CutPart
  <2> HIDE DEF s
  <2> QED
    BY <1>5, <2>1, Zenon DEF s
<1> QED
  BY <1>1, <1>2, <1>3, <1>4, <1>5, Zenon DEF t

\* A password changes, and the sign-ins under way are late.
LEMMA PasswordSetKeeps ==
  ASSUME StateOK, NEW q \in Requests, At(q, "password"), NEW u, u = reqs[q].user,
         users' = [users EXCEPT ![u].pw = reqs[q].pw],
         reqs' = [Late(u) EXCEPT ![q] = [pc |-> "purge", user |-> u]]
  PROVE  /\ u \in Rows /\ UsersKept /\ Rows' = Rows
         /\ \A v \in Rows : v # u => users'[v] = users[v]
         /\ reqs' = [p \in Requests |-> reqs'[p]] /\ \A p \in Requests : ReqOK(reqs'[p], Rows')
         /\ reqs'[q].pc = "purge" /\ reqs'[q].user = u
         /\ \A p \in Requests \ {q} : \/ reqs'[p] = reqs[p] /\ ~(At(p, "session") /\ reqs[p].user = u)
                                      \/ /\ reqs[p].pc = "session" /\ reqs'[p].pc = "session"
                                         /\ reqs'[p].late
<1>1. u \in Rows /\ u \in Ids /\ reqs[q].pw \in Passwords /\ Shape(users[u])
  BY Zenon DEF StateOK, ReqOK, At, Rows
<1> DEFINE pw == reqs[q].pw
           r == [users[u] EXCEPT !.pw = pw]
           x == [pc |-> "purge", user |-> u]
<1>2. Shape(r) /\ r.sub = users[u].sub
  <2> HIDE DEF pw
  <2> QED
    BY <1>1, ShapeEdited, Zenon DEF pw
<1>3. users' = [users EXCEPT ![u] = r]
  OBVIOUS
<1> HIDE DEF r
<1>4. /\ users' = [v \in Ids |-> users'[v]] /\ Rows' = Rows \cup {u} /\ users'[u] = r
      /\ \A v \in Ids : v # u => users'[v] = users[v]
      /\ \A v \in Rows' : Shape(users'[v])
  BY <1>1, <1>2, <1>3, RowWritten, Zenon DEF StateOK
<1>5. /\ UsersKept /\ Rows' = Rows
      /\ \A v \in Rows : v # u => users'[v] = users[v]
  BY <1>1, <1>2, <1>4 DEF UsersKept, Rows
<1>6. ReqOK(x, Rows) /\ x.pc = "purge" /\ x.user = u
  BY <1>1 DEF ReqOK
<1> HIDE DEF x
<1>7. /\ reqs' = [p \in Requests |-> reqs'[p]] /\ reqs'[q] = x
      /\ \A p \in Requests \ {q} : reqs'[p] = Late(u)[p]
  <2>1. reqs' = [Late(u) EXCEPT ![q] = x]
    BY DEF x
  <2> QED
    BY <2>1, Zenon DEF Late
<1>8. ASSUME NEW p \in Requests \ {q}
      PROVE  /\ ReqOK(reqs'[p], Rows)
             /\ \/ reqs'[p] = reqs[p] /\ ~(At(p, "session") /\ reqs[p].user = u)
                \/ reqs[p].pc = "session" /\ reqs'[p].pc = "session" /\ reqs'[p].late
  <2>0. ReqOK(reqs[p], Rows)
    BY DEF StateOK
  <2>1. CASE At(p, "session") /\ reqs[p].user = u
    <3>1. reqs'[p] = [reqs[p] EXCEPT !.late = TRUE]
      BY <1>7, <2>1 DEF Late
    <3>2. reqs[p].pc = "session"
      BY <2>1 DEF At
    <3> QED
      BY <2>0, <3>1, <3>2, LateOK
  <2>2. CASE ~(At(p, "session") /\ reqs[p].user = u)
    BY <1>7, <2>0, <2>2 DEF Late
  <2> QED
    BY <2>1, <2>2
<1>9. \A p \in Requests : ReqOK(reqs'[p], Rows')
  BY <1>5, <1>6, <1>7, <1>8
<1> QED
  BY <1>1, <1>5, <1>6, <1>7, <1>8, <1>9

\* Every effect keeps the state well formed.
LEMMA StateStep ==
  ASSUME StateOK, Effect
  PROVE  StateOK'
<1>1. edits' \in Nat /\ faults' \in Nat
  BY DEF Effect, Counted
<1> DEFINE K == keys' = [k \in KeyIds |-> keys'[k]] /\ \A k \in KeyIds : KeyOK(keys'[k], Rows')
           R == reqs' = [p \in Requests |-> reqs'[p]] /\ \A p \in Requests : ReqOK(reqs'[p], Rows')
           S == sessions' \in [Ids -> Seq(Session)] /\ \A v \in Unused' : sessions'[v] = <<>>
<1>2. ASSUME UsersKept, K, R, S PROVE StateOK'
  BY <1>1, <1>2 DEF StateOK, UsersKept
<1>3. ASSUME Rows \subseteq Rows', KeyWritten PROVE K
  <2>0. \A k \in KeyIds : KeyOK(keys[k], Rows')
    BY <1>3, MoreRows DEF StateOK
  <2>1. CASE keys' = keys
    BY <2>0, <2>1 DEF StateOK
  <2>2. ASSUME NEW k \in KeyIds, NEW x, KeyOK(x, Rows), keys' = [keys EXCEPT ![k] = x] PROVE K
    <3>1. KeyOK(x, Rows')
      BY <1>3, <2>2, MoreRows
    <3> QED
      BY <2>0, <2>2, <3>1 DEF StateOK
  <2> QED
    BY <1>3, <2>1, <2>2 DEF KeyWritten
<1>4. ASSUME Rows \subseteq Rows', sessions' = sessions PROVE S
  BY <1>4 DEF StateOK, Unused
<1>5. ASSUME users' = users PROVE UsersKept /\ Rows' = Rows
  BY <1>5, UsersStep DEF Rows
<1> HIDE DEF K, S
<1>6. CASE Moved
  <2>1. UsersKept /\ Rows \subseteq Rows'
    BY <1>6, UsersStep DEF Moved, UsersKept
  <2>2. R
    <3>1. PICK q \in Requests : \E r : ReqOK(r, Rows') /\ reqs' = [reqs EXCEPT ![q] = r]
      BY <1>6, Zenon DEF Moved
    <3>2. PICK r : ReqOK(r, Rows') /\ reqs' = [reqs EXCEPT ![q] = r]
      BY <3>1, Zenon
    <3> QED
      BY <2>1, <3>2, ReqsStep, Zenon
  <2> HIDE DEF R
  <2> QED
    BY <1>2, <1>3, <1>4, <1>6, <2>1, <2>2 DEF Moved
<1>7. ASSUME users' = users, keys' = keys, R, S PROVE StateOK'
  <2>1. K
    BY <1>3, <1>5, <1>7 DEF KeyWritten
  <2> HIDE DEF R
  <2> QED
    BY <1>2, <1>5, <1>7, <2>1
<1>8. ASSUME users' = users, NEW q \in Requests, NEW r, ReqOK(r, Rows), reqs' = [reqs EXCEPT ![q] = r]
      PROVE  R
  BY <1>5, <1>8, ReqsStep, Zenon
<1>9. CASE SessionOpened
  <2>1. PICK q \in Requests :
          /\ At(q, "session")
          /\ CreateSession(reqs[q].user, reqs[q].pw, reqs[q].late)
          /\ reqs' = [reqs EXCEPT ![q] = [pc |-> "prune", user |-> reqs[q].user]]
          /\ UNCHANGED <<users, opened, keys>>
    BY <1>9, Zenon DEF SessionOpened
  <2> DEFINE u == reqs[q].user
             e == [pw |-> reqs[q].pw, late |-> reqs[q].late]
             x == [pc |-> "prune", user |-> u]
             s == Append(sessions[u], e)
  <2>2. u \in Rows /\ u \in Ids /\ e \in Session
    BY <2>1, Zenon DEF StateOK, ReqOK, At, Rows, Session
  <2>3. sessions[u] \in Seq(Session) /\ sessions' = [sessions EXCEPT ![u] = s]
    BY <2>1, <2>2 DEF StateOK, CreateSession
  <2> HIDE DEF e, u
  <2>4. s \in Seq(Session)
    BY <2>2, <2>3
  <2>5. ReqOK(x, Rows)
    BY <2>2 DEF ReqOK
  <2> HIDE DEF s, x
  <2>6. S
    BY <1>5, <2>1, <2>2, <2>3, <2>4, SessionsStep, Zenon DEF S
  <2>7. R
    <3>1. reqs' = [reqs EXCEPT ![q] = x]
      BY <2>1 DEF x, u
    <3> QED
      BY <1>8, <2>1, <2>5, <3>1, Zenon
  <2> HIDE DEF R
  <2> QED
    BY <1>7, <2>1, <2>6, <2>7
<1>10. CASE SessionsCapped
  <2>1. PICK q \in Requests :
          /\ At(q, "prune")
          /\ sessions' = [sessions EXCEPT ![reqs[q].user] = PruneUserSessions(@)]
          /\ reqs' = [reqs EXCEPT ![q] = Idle]
          /\ UNCHANGED <<users, opened, keys>>
    BY <1>10, Zenon DEF SessionsCapped
  <2> DEFINE u == reqs[q].user
             s == PruneUserSessions(sessions[u])
  <2>2. u \in Rows /\ u \in Ids
    BY <2>1, Zenon DEF StateOK, ReqOK, At, Rows
  <2>3. sessions[u] \in Seq(Session) /\ sessions' = [sessions EXCEPT ![u] = s]
    BY <2>1, <2>2 DEF StateOK
  <2> HIDE DEF u
  <2>4. s \in Seq(Session)
    BY <2>3, PrunePart DEF Part
  <2> HIDE DEF s
  <2>5. S
    BY <1>5, <2>1, <2>2, <2>3, <2>4, SessionsStep, Zenon DEF S
  <2>6. R
    BY <1>8, <2>1, IdleOK, Zenon
  <2> HIDE DEF R
  <2> QED
    BY <1>7, <2>1, <2>5, <2>6
<1>11. CASE PasswordSet
  <2>1. PICK q \in Requests :
          /\ At(q, "password")
          /\ users' = [users EXCEPT ![reqs[q].user].pw = reqs[q].pw]
          /\ reqs' = [Late(reqs[q].user) EXCEPT ![q] = [pc |-> "purge", user |-> reqs[q].user]]
          /\ UNCHANGED <<sessions, opened, keys>>
    BY <1>11, Zenon DEF PasswordSet
  <2>2. UsersKept /\ Rows' = Rows /\ R
    BY <2>1, PasswordSetKeeps, Zenon
  <2> HIDE DEF R
  <2> QED
    BY <1>2, <1>3, <1>4, <2>1, <2>2 DEF KeyWritten
<1>12. CASE SessionsEnded
  <2>1. PICK q \in Requests, u \in Rows :
          /\ DeleteUserSessions(u) /\ reqs' = [reqs EXCEPT ![q] = Idle]
          /\ UNCHANGED <<users, opened, keys>>
    BY <1>12, Zenon DEF SessionsEnded
  <2>2. <<>> \in Seq(Session) /\ u \in Ids /\ sessions' = [sessions EXCEPT ![u] = <<>>]
    BY <2>1 DEF DeleteUserSessions, Rows
  <2>3. S
    BY <1>5, <2>1, <2>2, SessionsStep, Zenon DEF S
  <2>4. R
    BY <1>8, <2>1, IdleOK, Zenon
  <2> HIDE DEF R
  <2> QED
    BY <1>7, <2>1, <2>3, <2>4
<1>13. CASE SessionEnded
  <2>1. PICK u \in Ids : \E s : /\ Part(s, sessions[u]) /\ (u \in Rows \/ s = <<>>)
                                /\ sessions' = [sessions EXCEPT ![u] = s]
    BY <1>13, SessionEndedParts
  <2>2. PICK s : /\ Part(s, sessions[u]) /\ (u \in Rows \/ s = <<>>)
                 /\ sessions' = [sessions EXCEPT ![u] = s]
    BY <2>1, Zenon
  <2>3. users' = users /\ keys' = keys /\ reqs' = reqs
    BY <1>13 DEF SessionEnded
  <2>4. S
    BY <1>5, <2>2, <2>3, SessionsStep, Zenon DEF S, Part
  <2>5. R
    BY <1>5, <2>3 DEF StateOK
  <2> HIDE DEF R
  <2> QED
    BY <1>7, <2>3, <2>4, <2>5
<1>14. CASE Quiet
  <2>1. users' = users /\ keys' = keys /\ reqs' = reqs /\ sessions' = sessions
    BY <1>14 DEF Quiet
  <2>2. R
    BY <1>5, <2>1 DEF StateOK
  <2> HIDE DEF R
  <2> QED
    BY <1>4, <1>5, <1>7, <2>1, <2>2
<1>15. CASE Disturbed
  <2>1. users' = users /\ keys' = keys /\ sessions' = sessions
    BY <1>15 DEF Disturbed
  <2>2. CASE reqs' = [q \in Requests |-> Idle]
    <3>1. R
      BY <2>2, IdleOK
    <3> HIDE DEF R
    <3> QED
      BY <1>4, <1>5, <1>7, <2>1, <3>1
  <2>3. ASSUME NEW q \in Requests, reqs' = [reqs EXCEPT ![q] = Idle] PROVE StateOK'
    <3>1. R
      BY <1>8, <2>1, <2>3, IdleOK, Zenon
    <3> HIDE DEF R
    <3> QED
      BY <1>4, <1>5, <1>7, <2>1, <3>1
  <2> QED
    BY <1>15, <2>2, <2>3 DEF Disturbed
<1> QED
  BY <1>6, <1>9, <1>10, <1>11, <1>12, <1>13, <1>14, <1>15 DEF Effect

-----------------------------------------------------------------------------
(* An identity keeps its account *)

\* No two accounts have the same subject, and an identity has led to the account
\* that bears its subject.
Distinct ==
  \A u, v \in Rows : users[u].sub = users[v].sub => u = v \/ users[u].sub = None

Led == \A o \in opened : \E s \in Subjects : \E u \in Rows : o = <<s, u>> /\ users[u].sub = s

IdentityOK == Distinct /\ Led

\* A step that adds no row, and opens sessions of an identity for its account only, keeps
\* IdentityOK.
LEMMA IdentityKept ==
  ASSUME IdentityOK, UsersKept, Rows' = Rows,
         \/ opened' = opened
         \/ \E u \in Rows : \E s \in Subjects : users[u].sub = s /\ opened' = opened \cup {<<s, u>>}
  PROVE  IdentityOK'
<1>1. \A u \in Rows : users'[u].sub = users[u].sub
  BY DEF UsersKept
<1>2. Distinct'
  BY <1>1 DEF IdentityOK, Distinct
<1>3. Led'
  BY <1>1 DEF IdentityOK, Led
<1> QED
  BY <1>2, <1>3 DEF IdentityOK

\* Every effect keeps an identity with its account.
LEMMA IdentityStep ==
  ASSUME StateOK, Effect, IdentityOK
  PROVE  IdentityOK'
<1>1. CASE users' = users /\ opened' = opened
  <2>1. UsersKept /\ Rows' = Rows
    BY <1>1, UsersStep DEF Rows
  <2> QED
    BY <1>1, <2>1, IdentityKept
<1>2. CASE RowEdited
  <2>1. PICK u \in Rows : \E r :
          /\ Shape(r) /\ r.sub = users[u].sub /\ users' = [users EXCEPT ![u] = r]
          /\ opened' = opened \/ (r.sub \in Subjects /\ opened' = opened \cup {<<r.sub, u>>})
    BY <1>2, Zenon DEF RowEdited
  <2>2. PICK r :
          /\ Shape(r) /\ r.sub = users[u].sub /\ users' = [users EXCEPT ![u] = r]
          /\ opened' = opened \/ (r.sub \in Subjects /\ opened' = opened \cup {<<r.sub, u>>})
    BY <2>1, Zenon
  <2>3. UsersKept
    BY <1>2, UsersStep
  <2>4. Rows' = Rows
    <3>1. u \in Ids
      BY DEF Rows
    <3>2. Rows' = Rows \cup {u}
      BY <2>2, <3>1, RowWritten, Zenon DEF StateOK
    <3> QED
      BY <3>2
  <2> QED
    BY <2>2, <2>3, <2>4, IdentityKept
<1>3. CASE RowAdded
  <2>1. PICK u \in Unused : \E r :
          /\ Shape(r) /\ users' = [users EXCEPT ![u] = r]
          /\ \/ r.sub = None /\ opened' = opened
             \/ /\ r.sub \in Subjects /\ \A v \in Rows : users[v].sub # r.sub
                /\ opened' = opened \cup {<<r.sub, u>>}
    BY <1>3, Zenon DEF RowAdded
  <2>2. PICK r :
          /\ Shape(r) /\ users' = [users EXCEPT ![u] = r]
          /\ \/ r.sub = None /\ opened' = opened
             \/ /\ r.sub \in Subjects /\ \A v \in Rows : users[v].sub # r.sub
                /\ opened' = opened \cup {<<r.sub, u>>}
    BY <2>1, Zenon
  <2>3. Rows' = Rows \cup {u} /\ users'[u] = r
    <3>1. u \in Ids
      BY DEF Unused
    <3> QED
      BY <2>2, <3>1, RowWritten, Zenon DEF StateOK
  <2>4. \A v \in Rows : users'[v].sub = users[v].sub
    BY <1>3, UsersStep DEF UsersKept
  <2>5. Distinct'
    <3> SUFFICES ASSUME NEW v \in Rows', NEW w \in Rows', users'[v].sub = users'[w].sub
                 PROVE  v = w \/ users'[v].sub = None
      BY DEF Distinct
    <3>1. CASE v \in Rows /\ w \in Rows
      BY <2>4, <3>1 DEF IdentityOK, Distinct
    <3>2. CASE v = u \/ w = u
      BY <2>2, <2>3, <2>4, <3>2
    <3> QED
      BY <2>3, <3>1, <3>2
  <2>6. Led'
    <3>1. ASSUME NEW o \in opened PROVE \E s \in Subjects : \E w \in Rows' : o = <<s, w>> /\ users'[w].sub = s
      BY <2>3, <2>4 DEF IdentityOK, Led
    <3>2. ASSUME r.sub \in Subjects, NEW o, o = <<r.sub, u>>
          PROVE  \E s \in Subjects : \E w \in Rows' : o = <<s, w>> /\ users'[w].sub = s
      BY <2>3, <3>2
    <3> QED
      BY <2>2, <3>1, <3>2 DEF Led
  <2> QED
    BY <2>5, <2>6 DEF IdentityOK
<1>4. CASE PasswordSet
  <2>1. PICK q \in Requests :
          /\ At(q, "password")
          /\ users' = [users EXCEPT ![reqs[q].user].pw = reqs[q].pw]
          /\ reqs' = [Late(reqs[q].user) EXCEPT ![q] = [pc |-> "purge", user |-> reqs[q].user]]
          /\ UNCHANGED <<sessions, opened, keys>>
    BY <1>4, Zenon DEF PasswordSet
  <2>2. UsersKept /\ Rows' = Rows
    BY <2>1, PasswordSetKeeps, Zenon
  <2> QED
    BY <2>1, <2>2, IdentityKept
<1>5. CASE SessionOpened \/ SessionsCapped \/ SessionsEnded \/ SessionEnded \/ Quiet \/ Disturbed
  BY <1>1, <1>5 DEF SessionOpened, SessionsCapped, SessionsEnded, SessionEnded, Quiet, Disturbed
<1> QED
  BY <1>1, <1>2, <1>3, <1>4, <1>5 DEF Effect, Moved

\* The database the server starts with satisfies both invariants.
LEMMA Initially == Init => StateOK /\ IdentityOK
<1> SUFFICES ASSUME Init PROVE StateOK /\ IdentityOK
  OBVIOUS
<1> DEFINE r == User(<<"root", 1>>, 0, TRUE, "local", None)
<1>1. Shape(r) /\ r # NoUser
  <2>1. Shape(r)
    BY DEF Shape, User, Passwords
  <2> HIDE DEF r
  <2> QED
    BY <2>1, ShapeIsRow
<1>2. users = [u \in Ids |-> IF u = Admin THEN r ELSE NoUser]
  BY DEF Init
<1> HIDE DEF r
<1>3. Rows = {Admin} /\ users = [u \in Ids |-> users[u]] /\ users[Admin] = r
  BY <1>1, <1>2, AccountsAssumption DEF Rows
<1>4. sessions \in [Ids -> Seq(Session)] /\ \A u \in Ids : sessions[u] = <<>>
  BY DEF Init
<1>5. keys = [k \in KeyIds |-> keys[k]] /\ \A k \in KeyIds : KeyOK(keys[k], Rows)
  BY DEF Init, KeyOK
<1>6. reqs = [q \in Requests |-> reqs[q]] /\ \A q \in Requests : ReqOK(reqs[q], Rows)
  BY IdleOK DEF Init
<1>7. StateOK
  BY <1>1, <1>3, <1>4, <1>5, <1>6, Zenon DEF Init, StateOK, Unused
<1>8. IdentityOK
  BY <1>3 DEF Init, IdentityOK, Distinct, Led
<1> QED
  BY <1>7, <1>8

\* Requests, keys and sessions belong to accounts that exist, and no two accounts
\* bear the same OIDC subject.
THEOREM AccountsInvariant == Spec => [](StateOK /\ IdentityOK)
<1>1. Init => StateOK /\ IdentityOK
  BY Initially
<1>2. StateOK /\ IdentityOK /\ [Next]_vars => (StateOK /\ IdentityOK)'
  BY Effects, StateStep, IdentityStep
<1> QED
  BY <1>1, <1>2, PTL DEF Spec

\* An OIDC identity always leads to the account provisioned for it and no two
\* identities share one, whatever usernames collide, however first sign-ins
\* overlap, and whichever row an LDAP login of the same name takes over.
THEOREM IdentityCorrect == Spec => []IdentityKeepsItsAccount
<1>1. StateOK /\ IdentityOK => IdentityKeepsItsAccount
  <2> SUFFICES ASSUME StateOK, IdentityOK, NEW a \in opened, NEW b \in opened
               PROVE  (a[1] = b[1]) <=> (a[2] = b[2])
    BY DEF IdentityKeepsItsAccount
  <2>1. PICK s \in Subjects, u \in Rows : a = <<s, u>> /\ users[u].sub = s
    BY DEF IdentityOK, Led
  <2>2. PICK t \in Subjects, v \in Rows : b = <<t, v>> /\ users[v].sub = t
    BY DEF IdentityOK, Led
  <2>3. s = t <=> u = v
    <3>1. s # None
      BY AccountsAssumption DEF Subjects
    <3> QED
      BY <2>1, <2>2, <3>1 DEF IdentityOK, Distinct
  <2>4. a[1] = s /\ a[2] = u /\ b[1] = t /\ b[2] = v
    BY <2>1, <2>2
  <2> QED
    BY <2>3, <2>4
<1> QED
  BY <1>1, AccountsInvariant, PTL

-----------------------------------------------------------------------------
(* The sessions of an account are bounded in number *)

\* The sign-ins to an account that have a session and have not pruned.
Pruning(u) == {q \in Requests : At(q, "prune") /\ reqs[q].user = u}

Capped(u) == Len(sessions[u]) <= MaxSessions + Cardinality(Pruning(u))

\* The requests that still have to prune a user's sessions can be counted.
LEMMA PruningFinite ==
  ASSUME NEW u
  PROVE  IsFiniteSet(Pruning(u)) /\ Cardinality(Pruning(u)) \in Nat
<1>1. Pruning(u) \subseteq Requests
  BY DEF Pruning
<1>2. IsFiniteSet(Pruning(u))
  BY <1>1, FS_Subset, AccountsAssumption
<1> QED
  BY <1>2, FS_CardinalityType

\* An account whose pruning sign-ins stay and whose sessions do not grow.
LEMMA CapKept ==
  ASSUME NEW u, Capped(u), Pruning(u)' = Pruning(u),
         Len(sessions[u]) \in Nat, Len(sessions'[u]) \in Nat, Len(sessions'[u]) <= Len(sessions[u])
  PROVE  Capped(u)'
<1>1. PICK n \in Nat : n = Cardinality(Pruning(u))
  BY PruningFinite
<1>2. Cardinality(Pruning(u)') = n
  BY <1>1
<1>3. Len(sessions'[u]) <= MaxSessions + n
  <2>1. MaxSessions \in Nat
    BY AccountsAssumption
  <2>2. Len(sessions[u]) <= MaxSessions + n
    BY <1>1 DEF Capped
  <2> QED
    BY <2>1, <2>2
<1> QED
  BY <1>2, <1>3 DEF Capped

\* What requests that do not prune, before or after, leave alone.
LEMMA PruningKept ==
  ASSUME NEW u, NEW Q, \A q \in Requests \ Q : reqs'[q].pc = reqs[q].pc /\ reqs'[q].user = reqs[q].user,
         \A q \in Requests \cap Q : reqs[q].pc # "prune" /\ reqs'[q].pc # "prune"
  PROVE  Pruning(u)' = Pruning(u)
  BY DEF Pruning, At

\* The number of a user's sessions is a natural number, before and after a step.
LEMMA LensType ==
  ASSUME NEW u \in Ids, StateOK, StateOK'
  PROVE  Len(sessions[u]) \in Nat /\ Len(sessions'[u]) \in Nat
<1>1. sessions[u] \in Seq(Session) /\ sessions'[u] \in Seq(Session)
  BY DEF StateOK
<1> QED
  BY <1>1

\* No step without a fault opens a session beyond the cap that a request is not about to prune.
LEMMA CapStep ==
  ASSUME StateOK, StateOK', Effect, ~Disturbed, NEW u \in Ids, Capped(u)
  PROVE  Capped(u)'
<1>1. Len(sessions[u]) \in Nat /\ Len(sessions'[u]) \in Nat /\ MaxSessions \in Nat
  BY LensType, AccountsAssumption
<1>2. ASSUME sessions'[u] = sessions[u], Pruning(u)' = Pruning(u) PROVE Capped(u)'
  BY <1>1, <1>2, CapKept
<1>3. CASE Moved
  <2>1. PICK q \in Requests : \E r : /\ reqs[q].pc # "prune" /\ r.pc # "prune"
                                     /\ reqs' = [reqs EXCEPT ![q] = r]
    BY <1>3, Zenon DEF Moved
  <2>2. PICK r : /\ reqs[q].pc # "prune" /\ r.pc # "prune"
                 /\ reqs' = [reqs EXCEPT ![q] = r]
    BY <2>1, Zenon
  <2>3. /\ \A p \in Requests \ {q} : reqs'[p].pc = reqs[p].pc /\ reqs'[p].user = reqs[p].user
        /\ \A p \in Requests \cap {q} : reqs[p].pc # "prune" /\ reqs'[p].pc # "prune"
    BY <2>2 DEF StateOK
  <2> QED
    BY <1>2, <1>3, <2>3, PruningKept, Zenon DEF Moved
<1>4. CASE SessionOpened
  <2>1. PICK q \in Requests :
          /\ At(q, "session")
          /\ CreateSession(reqs[q].user, reqs[q].pw, reqs[q].late)
          /\ reqs' = [reqs EXCEPT ![q] = [pc |-> "prune", user |-> reqs[q].user]]
    BY <1>4, Zenon DEF SessionOpened
  <2>2. /\ reqs[q].pc = "session" /\ reqs'[q].pc = "prune" /\ reqs'[q].user = reqs[q].user
        /\ \A p \in Requests : p # q => reqs'[p] = reqs[p]
    BY <2>1 DEF StateOK, At
  <2>3. CASE u # reqs[q].user
    <3>1. sessions'[u] = sessions[u]
      BY <2>1, <2>3 DEF CreateSession, StateOK
    <3>2. Pruning(u)' = Pruning(u)
      BY <2>2, <2>3 DEF Pruning, At
    <3> QED
      BY <1>2, <3>1, <3>2
  <2>4. CASE u = reqs[q].user
    <3>1. PICK e : sessions'[u] = Append(sessions[u], e)
      BY <2>1, <2>4, Zenon DEF CreateSession, StateOK
    <3>2. Len(sessions'[u]) = Len(sessions[u]) + 1
      <4>1. sessions[u] \in Seq(Session)
        BY DEF StateOK
      <4> QED
        BY <3>1, <4>1
    <3>3. Pruning(u)' = Pruning(u) \cup {q} /\ q \notin Pruning(u)
      BY <2>2, <2>4 DEF Pruning, At
    <3>4. PICK n \in Nat : n = Cardinality(Pruning(u))
      BY PruningFinite
    <3>5. Cardinality(Pruning(u)') = n + 1
      BY <3>3, <3>4, PruningFinite, FS_AddElement
    <3>6. Len(sessions[u]) <= MaxSessions + n
      BY <3>4 DEF Capped
    <3>7. Len(sessions'[u]) <= MaxSessions + (n + 1)
      BY <1>1, <3>2, <3>6
    <3> QED
      BY <3>5, <3>7 DEF Capped
  <2> QED
    BY <2>3, <2>4
<1>5. CASE SessionsCapped
  <2>1. PICK q \in Requests :
          /\ At(q, "prune")
          /\ sessions' = [sessions EXCEPT ![reqs[q].user] = PruneUserSessions(@)]
          /\ reqs' = [reqs EXCEPT ![q] = Idle]
    BY <1>5, Zenon DEF SessionsCapped
  <2>2. CASE u # reqs[q].user
    <3>1. sessions'[u] = sessions[u]
      BY <2>1, <2>2 DEF StateOK
    <3>2. Pruning(u)' = Pruning(u)
      <4>1. /\ reqs'[q].pc = "idle"
            /\ \A p \in Requests : p # q => reqs'[p] = reqs[p]
        BY <2>1 DEF StateOK, Idle
      <4> QED
        BY <2>2, <4>1 DEF Pruning, At
    <3> QED
      BY <1>2, <3>1, <3>2
  <2>3. CASE u = reqs[q].user
    <3>1. sessions[u] \in Seq(Session) /\ sessions'[u] = PruneUserSessions(sessions[u])
      BY <2>1, <2>3 DEF StateOK
    <3>2. Len(sessions'[u]) <= MaxSessions
      BY <3>1, PrunePart
    <3>3. PICK n \in Nat : n = Cardinality(Pruning(u)')
      <4>1. IsFiniteSet(Pruning(u)')
        <5>1. Pruning(u)' \subseteq Requests
          BY DEF Pruning
        <5> QED
          BY <5>1, FS_Subset, AccountsAssumption
      <4> QED
        BY <4>1, FS_CardinalityType
    <3> QED
      BY <1>1, <3>2, <3>3 DEF Capped
  <2> QED
    BY <2>2, <2>3
<1>6. CASE PasswordSet
  <2>1. PICK q \in Requests :
          /\ At(q, "password")
          /\ users' = [users EXCEPT ![reqs[q].user].pw = reqs[q].pw]
          /\ reqs' = [Late(reqs[q].user) EXCEPT ![q] = [pc |-> "purge", user |-> reqs[q].user]]
          /\ sessions' = sessions
    BY <1>6, Zenon DEF PasswordSet
  <2>2. /\ reqs[q].pc = "password" /\ reqs'[q].pc = "purge"
        /\ \A p \in Requests \ {q} : \/ reqs'[p] = reqs[p]
                                     \/ reqs[p].pc = "session" /\ reqs'[p].pc = "session"
    BY <2>1, PasswordSetKeeps, Zenon DEF At
  <2>3. Pruning(u)' = Pruning(u)
    BY <2>2 DEF Pruning, At
  <2> QED
    BY <1>2, <2>1, <2>3
<1>7. CASE SessionsEnded
  <2>1. PICK q \in Requests, v \in Rows :
          /\ reqs[q].pc # "prune" /\ DeleteUserSessions(v) /\ reqs' = [reqs EXCEPT ![q] = Idle]
    BY <1>7, Zenon DEF SessionsEnded
  <2>2. Pruning(u)' = Pruning(u)
    <3>1. /\ reqs'[q].pc = "idle"
          /\ \A p \in Requests : p # q => reqs'[p] = reqs[p]
      BY <2>1 DEF StateOK, Idle
    <3> QED
      BY <2>1, <3>1 DEF Pruning, At
  <2>3. sessions'[u] \in {sessions[u], <<>>}
    BY <2>1 DEF DeleteUserSessions, StateOK
  <2>4. Len(sessions'[u]) <= Len(sessions[u])
    BY <1>1, <2>3
  <2> QED
    BY <1>1, <2>2, <2>4, CapKept
<1>8. CASE SessionEnded
  <2>1. PICK v \in Ids : \E s : Part(s, sessions[v]) /\ sessions' = [sessions EXCEPT ![v] = s]
    BY <1>8, SessionEndedParts
  <2>2. PICK s : Part(s, sessions[v]) /\ sessions' = [sessions EXCEPT ![v] = s]
    BY <2>1, Zenon
  <2>3. Pruning(u)' = Pruning(u)
    BY <1>8 DEF SessionEnded, Pruning, At
  <2>4. sessions'[u] = sessions[u] \/ Part(sessions'[u], sessions[u])
    BY <2>2 DEF StateOK
  <2>5. Len(sessions'[u]) <= Len(sessions[u])
    BY <1>1, <2>4 DEF Part
  <2> QED
    BY <1>1, <2>3, <2>5, CapKept
<1>9. CASE Quiet
  <2>1. Pruning(u)' = Pruning(u) /\ sessions' = sessions
    BY <1>9 DEF Quiet, Pruning, At
  <2> QED
    BY <1>2, <2>1
<1> QED
  BY <1>3, <1>4, <1>5, <1>6, <1>7, <1>8, <1>9 DEF Effect

-----------------------------------------------------------------------------
(* Sessions end with the password they were opened with *)

\* A session, or a sign-in about to have one, is of the account's password, or of
\* none, or its sign-in was late.
Current(e, u) == e.pw \in {None, users[u].pw} \/ e.late
Purging(u) == \E q \in Requests : At(q, "purge") /\ reqs[q].user = u

SessionsCurrent(u) == \A i \in DOMAIN sessions[u] : Current(sessions[u][i], u) \/ Purging(u)
SignInCurrent(q) == At(q, "session") => Current(reqs[q], reqs[q].user)
PasswordOK == (\A u \in Rows : SessionsCurrent(u)) /\ (\A q \in Requests : SignInCurrent(q))

\* An account that keeps its password and its purge and gets no session.
LEMMA CurrentKept ==
  ASSUME NEW u \in Rows, SessionsCurrent(u), users'[u].pw = users[u].pw,
         sessions'[u] = sessions[u] \/ Part(sessions'[u], sessions[u]),
         Purging(u) => Purging(u)'
  PROVE  SessionsCurrent(u)'
<1>1. \A e : Current(e, u) => Current(e, u)'
  BY DEF Current
<1>2. \A i \in DOMAIN sessions'[u] : \E j \in DOMAIN sessions[u] : sessions'[u][i] = sessions[u][j]
  BY DEF Part
<1> QED
  BY <1>1, <1>2 DEF SessionsCurrent

\* No step without a fault leaves a session of an earlier password that no request is about to
\* purge.
LEMMA PasswordStep ==
  ASSUME StateOK, StateOK', Effect, ~Disturbed, PasswordOK
  PROVE  PasswordOK'
<1>1. CASE Moved
  <2>1. /\ UsersKept /\ \A u \in Rows : users'[u].pw = users[u].pw
        /\ sessions' = sessions
    BY <1>1, UsersStep DEF Moved
  <2>2. PICK q \in Requests : \E r :
          /\ reqs[q].pc # "purge" /\ reqs' = [reqs EXCEPT ![q] = r]
          /\ r.pc = "session" => r.pw \in {None, users'[r.user].pw}
    BY <1>1, Zenon DEF Moved
  <2>3. PICK r :
          /\ reqs[q].pc # "purge" /\ reqs' = [reqs EXCEPT ![q] = r]
          /\ r.pc = "session" => r.pw \in {None, users'[r.user].pw}
    BY <2>2, Zenon
  <2>4. reqs'[q] = r /\ \A p \in Requests : p # q => reqs'[p] = reqs[p]
    BY <2>3 DEF StateOK
  <2>5. ASSUME NEW u \in Rows' PROVE SessionsCurrent(u)'
    <3>1. CASE u \in Rows
      <4>1. Purging(u) => Purging(u)'
        BY <2>3, <2>4 DEF Purging, At
      <4> QED
        BY <2>1, <3>1, <4>1, CurrentKept DEF PasswordOK
    <3>2. CASE u \notin Rows
      <4>1. sessions'[u] = <<>>
        BY <2>1, <3>2 DEF StateOK, Rows, Unused
      <4> QED
        BY <4>1 DEF SessionsCurrent
    <3> QED
      BY <3>1, <3>2
  <2>6. ASSUME NEW p \in Requests PROVE SignInCurrent(p)'
    <3>1. CASE p = q
      BY <2>3, <2>4, <3>1 DEF SignInCurrent, Current, At
    <3>2. CASE p # q
      <4>1. reqs'[p] = reqs[p] /\ (At(p, "session") => reqs[p].user \in Rows)
        BY <2>4, <3>2, Zenon DEF StateOK, ReqOK, At
      <4>2. SignInCurrent(p)
        BY DEF PasswordOK
      <4> QED
        BY <2>1, <4>1, <4>2 DEF SignInCurrent, Current, At
    <3> QED
      BY <3>1, <3>2
  <2> QED
    BY <2>5, <2>6 DEF PasswordOK
\* The other effects but a change of password: accounts stay, sign-ins only end.
<1>2. ASSUME users' = users,
             \A p \in Requests : reqs'[p] = reqs[p] \/ reqs'[p].pc # "session",
             \A u \in Rows : \/ SessionsCurrent(u)'
                             \/ /\ sessions'[u] = sessions[u] \/ Part(sessions'[u], sessions[u])
                                /\ Purging(u) => Purging(u)'
      PROVE  PasswordOK'
  <2>1. Rows' = Rows
    BY <1>2 DEF Rows
  <2>2. ASSUME NEW u \in Rows PROVE SessionsCurrent(u)'
    BY <1>2, CurrentKept DEF PasswordOK
  <2>3. ASSUME NEW p \in Requests PROVE SignInCurrent(p)'
    BY <1>2 DEF PasswordOK, SignInCurrent, Current, At
  <2> QED
    BY <2>1, <2>2, <2>3 DEF PasswordOK
<1>3. CASE SessionOpened
  <2>1. PICK q \in Requests :
          /\ At(q, "session")
          /\ CreateSession(reqs[q].user, reqs[q].pw, reqs[q].late)
          /\ reqs' = [reqs EXCEPT ![q] = [pc |-> "prune", user |-> reqs[q].user]]
          /\ users' = users
    BY <1>3, Zenon DEF SessionOpened
  <2>2. /\ reqs[q].pc = "session" /\ reqs'[q].pc = "prune" /\ reqs[q].user \in Ids
        /\ \A p \in Requests : p # q => reqs'[p] = reqs[p]
    BY <2>1, Zenon DEF StateOK, At, ReqOK, Rows
  <2>3. \A u \in Ids : Purging(u) => Purging(u)'
    BY <2>2 DEF Purging, At
  <2>4. ASSUME NEW u \in Rows, u # reqs[q].user PROVE sessions'[u] = sessions[u]
    BY <2>1, <2>4 DEF CreateSession, StateOK, Rows
  <2>5. ASSUME NEW u \in Rows, u = reqs[q].user PROVE SessionsCurrent(u)'
    <3>1. PICK e, s : e = [pw |-> reqs[q].pw, late |-> reqs[q].late] /\ s = sessions[u]
      BY Zenon
    <3>2. s \in Seq(Session) /\ sessions'[u] = Append(s, e) /\ u \in Ids
      BY <2>1, <2>5, <3>1 DEF CreateSession, StateOK, Rows
    <3>3. Current(e, u)'
      <4>1. Current(reqs[q], u)
        BY <2>1, <2>5 DEF PasswordOK, SignInCurrent
      <4>2. e.pw = reqs[q].pw /\ e.late = reqs[q].late
        BY <3>1
      <4> QED
        BY <2>1, <4>1, <4>2 DEF Current
    <3>4. \A i \in DOMAIN Append(s, e) : Append(s, e)[i] = e \/ (i \in DOMAIN s /\ Append(s, e)[i] = s[i])
      BY <3>2
    <3>5. \A i \in DOMAIN s : Current(s[i], u)' \/ Purging(u)'
      BY <2>1, <2>3, <3>1, <3>2 DEF PasswordOK, SessionsCurrent, Current
    <3> QED
      BY <3>2, <3>3, <3>4, <3>5 DEF SessionsCurrent
  <2> QED
    BY <1>2, <2>1, <2>2, <2>3, <2>4, <2>5 DEF Rows
<1>4. CASE SessionsCapped
  <2>1. PICK q \in Requests :
          /\ At(q, "prune")
          /\ sessions' = [sessions EXCEPT ![reqs[q].user] = PruneUserSessions(@)]
          /\ reqs' = [reqs EXCEPT ![q] = Idle]
          /\ users' = users
    BY <1>4, Zenon DEF SessionsCapped
  <2>2. /\ reqs[q].pc = "prune" /\ reqs'[q].pc = "idle"
        /\ \A p \in Requests : p # q => reqs'[p] = reqs[p]
    BY <2>1 DEF StateOK, At, Idle
  <2>3. \A u \in Rows : Purging(u) => Purging(u)'
    BY <2>2 DEF Purging, At
  <2>4. ASSUME NEW u \in Rows PROVE sessions'[u] = sessions[u] \/ Part(sessions'[u], sessions[u])
    <3>1. sessions[u] \in Seq(Session) /\ sessions'[u] \in {sessions[u], PruneUserSessions(sessions[u])}
      BY <2>1 DEF StateOK, Rows
    <3> QED
      BY <3>1, PrunePart
  <2> QED
    BY <1>2, <2>1, <2>2, <2>3, <2>4
<1>5. CASE PasswordSet
  <2>1. PICK q \in Requests :
          /\ At(q, "password")
          /\ users' = [users EXCEPT ![reqs[q].user].pw = reqs[q].pw]
          /\ reqs' = [Late(reqs[q].user) EXCEPT ![q] = [pc |-> "purge", user |-> reqs[q].user]]
          /\ sessions' = sessions
    BY <1>5, Zenon DEF PasswordSet
  <2> DEFINE w == reqs[q].user
  <2>2. /\ Rows' = Rows /\ \A v \in Rows : v # w => users'[v] = users[v]
        /\ reqs'[q].pc = "purge" /\ reqs'[q].user = w
        /\ \A p \in Requests \ {q} : \/ reqs'[p] = reqs[p] /\ ~(At(p, "session") /\ reqs[p].user = w)
                                     \/ /\ reqs[p].pc = "session" /\ reqs'[p].pc = "session"
                                        /\ reqs'[p].late
    BY <2>1, PasswordSetKeeps, Zenon
  <2>3. reqs[q].pc = "password"
    BY <2>1 DEF At
  <2> HIDE DEF w
  <2>4. ASSUME NEW u \in Rows PROVE SessionsCurrent(u)'
    <3>1. CASE u = w
      BY <2>2, <3>1 DEF SessionsCurrent, Purging, At
    <3>2. CASE u # w
      <4>1. Purging(u) => Purging(u)'
        BY <2>2, <2>3 DEF Purging, At
      <4> QED
        BY <2>1, <2>2, <3>2, <4>1, CurrentKept, Zenon DEF PasswordOK
    <3> QED
      BY <3>1, <3>2
  <2>5. ASSUME NEW p \in Requests PROVE SignInCurrent(p)'
    <3>1. CASE p = q \/ reqs'[p].pc # "session"
      BY <2>2, <3>1 DEF SignInCurrent, At
    <3>2. CASE p # q /\ reqs'[p] = reqs[p] /\ reqs[p].pc = "session"
               /\ ~(At(p, "session") /\ reqs[p].user = w)
      <4>1. reqs[p].user \in Rows /\ reqs[p].user # w /\ Current(reqs[p], reqs[p].user)
        BY <3>2, Zenon DEF StateOK, ReqOK, At, PasswordOK, SignInCurrent
      <4> QED
        BY <2>2, <3>2, <4>1 DEF SignInCurrent, Current
    <3>3. CASE reqs'[p].late
      BY <3>3 DEF SignInCurrent, Current
    <3> QED
      BY <2>2, <3>1, <3>2, <3>3
  <2> QED
    BY <2>2, <2>4, <2>5, Zenon DEF PasswordOK
<1>6. CASE SessionsEnded
  <2>1. PICK q \in Requests, v \in Rows :
          /\ reqs[q].pc = "purge" => reqs[q].user = v
          /\ DeleteUserSessions(v) /\ reqs' = [reqs EXCEPT ![q] = Idle] /\ users' = users
    BY <1>6, Zenon DEF SessionsEnded
  <2>2. /\ reqs'[q].pc = "idle"
        /\ \A p \in Requests : p # q => reqs'[p] = reqs[p]
    BY <2>1 DEF StateOK, Idle
  <2>3. ASSUME NEW u \in Rows, u # v PROVE sessions'[u] = sessions[u] /\ (Purging(u) => Purging(u)')
    BY <2>1, <2>2, <2>3 DEF Purging, At, DeleteUserSessions, StateOK, Rows
  <2>4. SessionsCurrent(v)'
    <3>1. sessions'[v] = <<>>
      BY <2>1 DEF DeleteUserSessions, StateOK, Rows
    <3> QED
      BY <3>1 DEF SessionsCurrent
  <2> QED
    BY <1>2, <2>1, <2>2, <2>3, <2>4, Zenon
<1>7. CASE SessionEnded
  <2>1. PICK v \in Ids : \E s : Part(s, sessions[v]) /\ sessions' = [sessions EXCEPT ![v] = s]
    BY <1>7, SessionEndedParts
  <2>2. PICK s : Part(s, sessions[v]) /\ sessions' = [sessions EXCEPT ![v] = s]
    BY <2>1, Zenon
  <2>3. users' = users /\ reqs' = reqs /\ \A u \in Rows : Purging(u) => Purging(u)'
    BY <1>7 DEF SessionEnded, Purging, At
  <2>4. \A u \in Rows : sessions'[u] = sessions[u] \/ Part(sessions'[u], sessions[u])
    BY <2>2 DEF StateOK, Rows
  <2> QED
    BY <1>2, <2>3, <2>4
<1>8. CASE Quiet
  <2>1. /\ users' = users /\ reqs' = reqs /\ sessions' = sessions
        /\ \A u \in Rows : Purging(u) => Purging(u)'
    BY <1>8 DEF Quiet, Purging, At
  <2> QED
    BY <1>2, <2>1, Zenon
<1> QED
  BY <1>1, <1>3, <1>4, <1>5, <1>6, <1>7, <1>8 DEF Effect

-----------------------------------------------------------------------------
\* As long as no store call has failed and no request was cut off.
InOrder == Undisturbed => PasswordOK /\ \A u \in Ids : Capped(u)

\* An account has at most MaxSessions sessions and one per sign-in that has not
\* pruned yet, and once a password change has returned no session opened with the
\* old password is left but of sign-ins that had passed the password check.
THEOREM SessionsCorrect == Spec => []SessionsInOrder
<1>1. Init => InOrder
  <2> SUFFICES ASSUME Init PROVE PasswordOK /\ \A u \in Ids : Capped(u)
    BY DEF InOrder
  <2>1. (\A u \in Ids : sessions[u] = <<>>) /\ (\A q \in Requests : reqs[q].pc = "idle")
    BY DEF Init, Idle
  <2>2. PasswordOK
    BY <2>1 DEF PasswordOK, SessionsCurrent, SignInCurrent, At, Rows
  <2>3. ASSUME NEW u \in Ids PROVE Capped(u)
    <3>1. PICK n \in Nat : n = Cardinality(Pruning(u))
      BY PruningFinite
    <3>2. Len(sessions[u]) = 0
      BY <2>1
    <3>3. 0 <= MaxSessions + n
      BY AccountsAssumption
    <3> QED
      BY <3>1, <3>2, <3>3 DEF Capped
  <2> QED
    BY <2>2, <2>3
<1>2. StateOK /\ StateOK' /\ InOrder /\ [Next]_vars => InOrder'
  <2> SUFFICES ASSUME StateOK, StateOK', InOrder, [Next]_vars, Undisturbed'
               PROVE  PasswordOK' /\ \A u \in Ids : Capped(u)'
    BY DEF InOrder
  <2>1. Effect
    BY Effects
  <2>2. ~Disturbed
    BY DEF Disturbed
  <2>3. Undisturbed
    BY <2>1 DEF Effect, Counted, Undisturbed
  <2> QED
    BY <2>1, <2>2, <2>3, CapStep, PasswordStep DEF InOrder
<1>3. InOrder => SessionsInOrder
  <2>1. InOrder => SessionsWithinCap
    BY DEF InOrder, SessionsWithinCap, Capped, Pruning
  <2>2. InOrder => SessionsFollowPassword
    BY DEF InOrder, SessionsFollowPassword, PasswordOK, SessionsCurrent, Current, Purging
  <2> QED
    BY <2>1, <2>2 DEF SessionsInOrder
<1> QED
  BY <1>1, <1>2, <1>3, AccountsInvariant, PTL DEF Spec
=============================================================================
