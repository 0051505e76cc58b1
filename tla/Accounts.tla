------------------------------- MODULE Accounts -------------------------------
(***************************************************************************)
(* Accounts, sign-in, sessions and API keys: internal/auth, internal/ldap, *)
(* internal/oidc, internal/handler/auth*.go and internal/postgres/         *)
(* auth_store.go.  A request is a process: between two calls of the store  *)
(* other requests run, so what it has read may have changed.  A request    *)
(* that is refused changes nothing and ends.                               *)
(*                                                                         *)
(* A username is <<base, n>>: a suffix n > 1 is one the provisioning of an *)
(* OIDC identity added.  A password is the number of the edit that set it. *)
(***************************************************************************)
EXTENDS Naturals, Sequences, FiniteSets

CONSTANTS
  Ids,             \* ids of user rows
  Admin,           \* the account "taillight useradd --admin" made
  Names,           \* usernames people type
  Requests,        \* concurrent HTTP requests
  Directory,       \* LDAP: username -> groups
  GroupRoleMap,    \* LDAP: group -> role
  Identities,      \* OIDC: subject -> the claims of its ID token; an email is
                   \* [user, domain] or None
  AdminGroups, AllowedGroups, AllowedDomains, AllowedUsers, EmailVerifiedRequired,
  KeyIds, ScopeChoices,
  MaxSessions,     \* maxSessionsPerUser
  MaxAttempts,     \* maxOIDCUsernameAttempts
  TouchBuffer, None,
  MaxEdits, MaxFaults

ASSUME AccountsAssumption ==
  /\ Ids \subseteq Nat /\ Admin \in Ids /\ IsFiniteSet(Requests)
  /\ None \notin Nat /\ None \notin DOMAIN Identities
  /\ MaxSessions \in Nat \ {0} /\ MaxAttempts \in Nat \ {0} /\ TouchBuffer \in Nat \ {0}

VARIABLES
  users,      \* users, by id
  sessions,   \* per user, oldest first
  keys,       \* api_keys, by id
  reqs,       \* what each request has got to
  touches,    \* updates waiting in touchCh
  phase,      \* "serving", "draining", "stopped" (the touch
              \* worker is told), "exited" (it is gone), "killed"
  opened,     \* <<subject, id>>: the accounts OIDC sign-ins have led to
  edits, faults

vars == <<users, sessions, keys, reqs, touches, phase, opened, edits, faults>>

NoUser == [name |-> None]
Idle == [pc |-> "idle"]
Rows == {u \in Ids : users[u] # NoUser}
Unused == Ids \ Rows
Least(S) == CHOOSE i \in S : \A j \in S : i <= j
User(name, pw, admin, source, sub) ==
  [name |-> name, pw |-> pw, active |-> TRUE, admin |-> admin, source |-> source, sub |-> sub]

Init ==
  /\ users = [u \in Ids |-> IF u = Admin THEN User(<<"root", 1>>, 0, TRUE, "local", None) ELSE NoUser]
  /\ sessions = [u \in Ids |-> <<>>]
  /\ keys = [k \in KeyIds |-> None]
  /\ reqs = [q \in Requests |-> Idle]
  /\ touches = 0 /\ phase = "serving"
  /\ opened = {}
  /\ edits = 0 /\ faults = 0

Fails == faults < MaxFaults /\ faults' = faults + 1
At(q, pc) == reqs[q].pc = pc
Goto(q, r) == reqs' = [reqs EXCEPT ![q] = r]
End(q) == Goto(q, Idle)
Accepts(q) == phase = "serving" /\ At(q, "idle")
Named(name) == {u \in Rows : users[u].name = name}
IsExternalSource(source) == source \in {"ldap", "oidc"}

-----------------------------------------------------------------------------
(* Sessions in the store *)

\* Keeps the newest MaxSessions.
PruneUserSessions(s) ==
  IF Len(s) <= MaxSessions THEN s ELSE SubSeq(s, Len(s) - MaxSessions + 1, Len(s))

CreateSession(u, pw, late) ==
  sessions' = [sessions EXCEPT ![u] = Append(@, [pw |-> pw, late |-> late])]

DeleteUserSessions(u) == sessions' = [sessions EXCEPT ![u] = <<>>]

\* The query's conditions: the row is there and its user is active.
GetSession(u) == sessions[u] # <<>> /\ users[u].active

-----------------------------------------------------------------------------
(* Password login *)

\* ldap.resolveRole: a mapped group admits, one mapped to admin makes an admin.
resolveRole(groups) ==
  LET matched == groups \cap DOMAIN GroupRoleMap
  IN  [allowed |-> matched # {}, admin |-> \E g \in matched : GroupRoleMap[g] = "admin"]

searchUser(name) == IF name \in DOMAIN Directory THEN "found" ELSE "not found"

\* What the directory may answer about a name and a right or wrong password; an
\* error of any call, or an ambiguous search, is "unavailable".
Authenticate(name, right) ==
  {"unavailable",
   IF searchUser(name) = "not found" THEN "not found"
   ELSE IF ~right THEN "wrong password"
   ELSE IF ~resolveRole(Directory[name]).allowed THEN "not authorized" ELSE "ok"}

\* Creates the row or takes over the one with that name.
UpsertLDAPUser(name) ==
  LET admin == resolveRole(Directory[name]).admin
      held  == Named(<<name, 1>>)
  IN  IF held # {}
      THEN [id |-> Least(held),
            row |-> [users[Least(held)] EXCEPT !.admin = admin, !.source = "ldap"]]
      ELSE [id |-> Least(Unused), row |-> User(<<name, 1>>, None, admin, "ldap", None)]

\* Whoever is resolved goes on to a session unless the account is inactive.
SignedIn(q, u, pw, active) ==
  IF active THEN Goto(q, [pc |-> "session", user |-> u, pw |-> pw, late |-> FALSE]) ELSE End(q)

directory(q, name, answer) ==
  /\ answer = "ok"
  /\ Named(<<name, 1>>) # {} \/ Unused # {}
  /\ LET up == UpsertLDAPUser(name)
     IN  /\ users' = [users EXCEPT ![up.id] = up.row]
         /\ SignedIn(q, up.id, None, up.row.active)

\* The local users table: what was typed is the row's password, and the row is
\* not externally managed.
local(q, name, answer) ==
  /\ answer \in {"not found", "unavailable"}
  /\ \E u \in Named(<<name, 1>>) :
       /\ ~IsExternalSource(users[u].source)
       /\ SignedIn(q, u, users[u].pw, users[u].active)
  /\ UNCHANGED users

Login(q, name) ==
  /\ Accepts(q)
  /\ \E right \in BOOLEAN : \E answer \in Authenticate(name, right) :
       directory(q, name, answer) \/ local(q, name, answer)
  /\ UNCHANGED <<sessions, keys, touches, phase, opened, edits, faults>>

\* establishSession: the session, then the cap; a failed prune is only logged.
EstablishSession(q) ==
  /\ At(q, "session")
  /\ \/ /\ CreateSession(reqs[q].user, reqs[q].pw, reqs[q].late)
        /\ Goto(q, [pc |-> "prune", user |-> reqs[q].user])
        /\ UNCHANGED faults
     \/ Fails /\ End(q) /\ UNCHANGED sessions
  /\ UNCHANGED <<users, keys, touches, phase, opened, edits>>

\* Mutant: one session too many survives.
PruneKeepsOneMore(q) ==
  /\ At(q, "prune")
  /\ LET s == sessions[reqs[q].user]
     IN  sessions' = [sessions EXCEPT ![reqs[q].user] =
           IF Len(s) <= MaxSessions + 1 THEN s ELSE SubSeq(s, Len(s) - MaxSessions, Len(s))]
  /\ End(q)
  /\ UNCHANGED <<users, keys, touches, phase, opened, edits, faults>>

CapSessions(q) ==
  /\ At(q, "prune")
  /\ \/ sessions' = [sessions EXCEPT ![reqs[q].user] = PruneUserSessions(@)] /\ UNCHANGED faults
     \/ Fails /\ UNCHANGED sessions
  /\ End(q)
  /\ UNCHANGED <<users, keys, touches, phase, opened, edits>>

-----------------------------------------------------------------------------
(* OIDC sign-in *)

\* The username claim, else the local part of the email, else the subject.
resolveIdentity(sub) ==
  LET c == Identities[sub]
  IN  [sub |-> sub,
       name |-> IF c.name # None THEN c.name ELSE IF c.email # None THEN c.email.user ELSE sub,
       admin |-> c.groups \cap AdminGroups # {}]

authorize(sub) ==
  LET c == Identities[sub]
  IN  /\ EmailVerifiedRequired /\ c.email # None => c.verified
      /\ AllowedDomains \cup AllowedUsers # {} =>
           c.email # None /\ (c.email.domain \in AllowedDomains \/ c.email \in AllowedUsers)
      /\ AllowedGroups # {} => c.groups \cap AllowedGroups # {}

\* None: the exchange failed, the token does not verify or the gate is closed.
CompleteLogin(sub) == {None} \cup {i \in {resolveIdentity(sub)} : authorize(sub)}

\* The browser holds the sealed state cookie while it visits the provider.
OIDCLogin(q, sub) ==
  /\ Accepts(q)
  /\ Goto(q, [pc |-> "cookie", sub |-> sub])
  /\ UNCHANGED <<users, sessions, keys, touches, phase, opened, edits, faults>>

\* The returning sign-in refreshes the row the (issuer, subject) pair names and
\* leaves its username and is_active alone.
UpdateOIDCUser(q, i) ==
  \E u \in Rows :
    /\ users[u].sub = i.sub
    /\ users' = [users EXCEPT ![u].admin = i.admin, ![u].source = "oidc"]
    /\ opened' = opened \cup {<<i.sub, u>>}
    /\ SignedIn(q, u, None, users[u].active)

\* The callback ends here too when the cookie has expired or does not match, or
\* the provider has denied the sign-in.
OIDCCallback(q) ==
  /\ phase = "serving" /\ At(q, "cookie")
  /\ \E i \in CompleteLogin(reqs[q].sub) :
       \/ i = None /\ End(q) /\ UNCHANGED <<users, opened>>
       \/ i # None /\ UpdateOIDCUser(q, i)
       \/ /\ i # None /\ \A u \in Rows : users[u].sub # i.sub
          /\ Goto(q, [pc |-> "provision", ident |-> i, attempt |-> 1])
          /\ UNCHANGED <<users, opened>>
  /\ UNCHANGED <<sessions, keys, touches, phase, edits, faults>>

\* Mutant: a taken username is updated in place, as for LDAP.
ProvisionTakesOver(q) ==
  /\ At(q, "provision")
  /\ LET i == reqs[q].ident
         name == <<i.name, 1>>
         u == Least(IF Named(name) # {} THEN Named(name) ELSE Unused)
     IN  /\ Named(name) # {} \/ Unused # {}
         /\ users' = [users EXCEPT ![u] = User(name, None, i.admin, "oidc", i.sub)]
         /\ opened' = opened \cup {<<i.sub, u>>}
         /\ SignedIn(q, u, None, TRUE)
  /\ UNCHANGED <<sessions, keys, touches, phase, edits, faults>>

\* The first sign-in: a free username is tried for; a concurrent first sign-in of
\* the same identity fails on the unique (issuer, subject) index.
UpsertOIDCUser(q) ==
  /\ At(q, "provision")
  /\ LET i == reqs[q].ident
         n == reqs[q].attempt
         name == <<i.name, n>>
         taken == Named(name) # {}
         known == \E u \in Rows : users[u].sub = i.sub
     IN  \/ /\ taken /\ UNCHANGED <<users, opened, faults>>
            /\ IF n = MaxAttempts THEN End(q) ELSE Goto(q, [reqs[q] EXCEPT !.attempt = n + 1])
         \/ ~taken /\ known /\ End(q) /\ UNCHANGED <<users, opened, faults>>
         \/ /\ ~taken /\ ~known /\ Unused # {} /\ UNCHANGED faults
            /\ users' = [users EXCEPT ![Least(Unused)] = User(name, None, i.admin, "oidc", i.sub)]
            /\ opened' = opened \cup {<<i.sub, Least(Unused)>>}
            /\ SignedIn(q, Least(Unused), None, TRUE)
         \/ Fails /\ End(q) /\ UNCHANGED <<users, opened>>
  /\ UNCHANGED <<sessions, keys, touches, phase, edits>>

-----------------------------------------------------------------------------
(* Authenticated requests *)

Accept(q) ==
  /\ Accepts(q)
  /\ Goto(q, [pc |-> "accepted"])
  /\ UNCHANGED <<users, sessions, keys, touches, phase, opened, edits, faults>>

\* A send on touchCh never blocks: a full buffer, or Stop, drops the update.
enqueueTouch ==
  \/ touches < TouchBuffer /\ touches' = touches + 1
  \/ (touches = TouchBuffer \/ phase \in {"stopped", "exited"}) /\ UNCHANGED touches

GetAPIKeyByHash(k) == keys[k] # None /\ ~keys[k].revoked /\ users[keys[k].user].active

\* The request keeps the user row it was authenticated with.
Principal(u) == [admin |-> users[u].admin, source |-> users[u].source]

SessionOrAPIKey(q) ==
  /\ At(q, "accepted")
  /\ \/ \E u \in Rows :
          /\ GetSession(u)
          /\ Goto(q, [pc |-> "authed", user |-> u, me |-> Principal(u), scopes |-> None])
          /\ enqueueTouch
     \/ \E k \in KeyIds :
          /\ GetAPIKeyByHash(k)
          /\ Goto(q, [pc |-> "authed", user |-> keys[k].user, me |-> Principal(keys[k].user),
                      scopes |-> keys[k].scopes])
          /\ enqueueTouch
     \/ End(q) /\ UNCHANGED touches
  /\ UNCHANGED <<users, sessions, keys, phase, opened, edits, faults>>

HasGrant(q, scope) ==
  IF reqs[q].scopes = None THEN scope = "admin" => reqs[q].me.admin
  ELSE {scope, "admin"} \cap reqs[q].scopes # {}

requireAdmin(q) == At(q, "authed") /\ reqs[q].me.admin
Edits == edits < MaxEdits /\ edits' = edits + 1

RequireScope(q, scope) == At(q, "authed") /\ HasGrant(q, scope)

\* A request that reads, or writes the email or preferences, which nothing here
\* depends on; or one that is refused.
Answer(q) ==
  /\ At(q, "authed")
  /\ End(q)
  /\ UNCHANGED <<users, sessions, keys, touches, phase, opened, edits, faults>>

CreateUser(q, name) ==
  /\ requireAdmin(q) /\ Edits
  /\ Named(<<name, 1>>) = {} /\ Unused # {}
  /\ \E admin \in BOOLEAN :
       users' = [users EXCEPT ![Least(Unused)] = User(<<name, 1>>, edits', admin, "local", None)]
  /\ End(q)
  /\ UNCHANGED <<sessions, keys, touches, phase, opened, faults>>

\* The checks of UpdateUserPassword, on the row the middleware read for one's own
\* password and on the target's row for another's; a failed read of that row skips
\* the check.
UpdateUserPassword(q, u) ==
  /\ At(q, "authed") /\ Edits
  /\ IF u = reqs[q].user THEN ~IsExternalSource(reqs[q].me.source) /\ UNCHANGED faults
     ELSE /\ reqs[q].me.admin
          /\ \/ ~IsExternalSource(users[u].source) /\ UNCHANGED faults
             \/ Fails
  /\ Goto(q, [pc |-> "password", user |-> u, pw |-> edits'])
  /\ UNCHANGED <<users, sessions, keys, touches, phase, opened>>

\* Sign-ins that are past the password check are late.
Late(u) ==
  [q \in Requests |-> IF At(q, "session") /\ reqs[q].user = u THEN [reqs[q] EXCEPT !.late = TRUE]
                      ELSE reqs[q]]

UpdatePassword(q) ==
  /\ At(q, "password")
  /\ LET u == reqs[q].user
     IN  \/ /\ users' = [users EXCEPT ![u].pw = reqs[q].pw]
            /\ reqs' = [Late(u) EXCEPT ![q] = [pc |-> "purge", user |-> u]]
            /\ UNCHANGED faults
         \/ Fails /\ End(q) /\ UNCHANGED users
  /\ UNCHANGED <<sessions, keys, touches, phase, opened, edits>>

SetUserActive(q, u) ==
  /\ requireAdmin(q) /\ Edits
  /\ \E active \in BOOLEAN :
       /\ users' = [users EXCEPT ![u].active = active]
       /\ IF active THEN End(q) ELSE Goto(q, [pc |-> "purge", user |-> u])
  /\ UNCHANGED <<sessions, keys, touches, phase, opened, faults>>

\* The forced logout behind a password change and a deactivation: a failure is
\* only logged.
ForceLogout(q) ==
  /\ At(q, "purge")
  /\ \/ DeleteUserSessions(reqs[q].user) /\ UNCHANGED faults
     \/ Fails /\ UNCHANGED sessions
  /\ End(q)
  /\ UNCHANGED <<users, keys, touches, phase, opened, edits>>

LogoutAll(q) ==
  /\ At(q, "authed")
  /\ DeleteUserSessions(reqs[q].user) /\ End(q)
  /\ UNCHANGED <<users, keys, touches, phase, opened, edits, faults>>

RevokeUserSessions(q, u) ==
  /\ requireAdmin(q)
  /\ DeleteUserSessions(u) /\ End(q)
  /\ UNCHANGED <<users, keys, touches, phase, opened, edits, faults>>

\* A session goes by its own logout, or by the cleaner once it has expired: the
\* oldest expire first.
Logout(u, i) ==
  /\ phase = "serving"
  /\ sessions' = [sessions EXCEPT ![u] = SubSeq(@, 1, i - 1) \o SubSeq(@, i + 1, Len(@))]
  /\ UNCHANGED <<users, keys, reqs, touches, phase, opened, edits, faults>>

CleanExpiredSessions(u) ==
  /\ phase = "serving" /\ sessions[u] # <<>>
  /\ sessions' = [sessions EXCEPT ![u] = Tail(@)]
  /\ UNCHANGED <<users, keys, reqs, touches, phase, opened, edits, faults>>

CreateKey(q, k) ==
  /\ At(q, "authed") /\ Edits
  /\ keys[k] = None
  /\ \E scopes \in ScopeChoices :
       /\ \A s \in scopes : HasGrant(q, s)
       /\ keys' = [keys EXCEPT ![k] = [user |-> reqs[q].user, scopes |-> scopes, revoked |-> FALSE]]
  /\ End(q)
  /\ UNCHANGED <<users, sessions, touches, phase, opened, faults>>

RevokeKey(q, k) ==
  /\ At(q, "authed")
  /\ keys[k] # None /\ (keys[k].user = reqs[q].user \/ reqs[q].me.admin)
  /\ keys' = [keys EXCEPT ![k].revoked = TRUE]
  /\ End(q)
  /\ UNCHANGED <<users, sessions, touches, phase, opened, edits, faults>>

-----------------------------------------------------------------------------
(* The touch worker and the end of the process *)

TouchWorker ==
  /\ phase \notin {"exited", "killed"}
  /\ \/ touches > 0 /\ touches' = touches - 1 /\ UNCHANGED phase
     \/ touches = 0 /\ phase = "stopped" /\ phase' = "exited" /\ UNCHANGED touches
  /\ UNCHANGED <<users, sessions, keys, reqs, opened, edits, faults>>

Drained == \A q \in Requests : reqs[q].pc \in {"idle", "cookie"}

\* srv.Shutdown: the server accepts until then, not only until the signal.
Shutdown ==
  /\ phase = "serving" /\ phase' = "draining"
  /\ UNCHANGED <<users, sessions, keys, reqs, touches, opened, edits, faults>>

\* srv.Shutdown returns when no request is in flight; then Stop tells the touch
\* worker to drain and exit.  Past the deadline the process ends as it is.
Stop ==
  /\ phase = "draining"
  /\ IF Drained THEN phase' = "stopped" /\ UNCHANGED <<reqs, touches>>
     ELSE phase' = "killed" /\ touches' = 0 /\ reqs' = [q \in Requests |-> Idle]
  /\ UNCHANGED <<users, sessions, keys, opened, edits, faults>>

\* run returns without waiting for the touch worker.
Exit ==
  /\ phase = "stopped" /\ phase' = "killed"
  /\ touches' = 0 /\ reqs' = [q \in Requests |-> Idle]
  /\ UNCHANGED <<users, sessions, keys, opened, edits, faults>>

\* The authenticated routes; user management also needs the admin scope.
Routes(q) ==
  \/ Answer(q) \/ LogoutAll(q)
  \/ \E k \in KeyIds : CreateKey(q, k) \/ RevokeKey(q, k)
  \/ /\ RequireScope(q, "admin")
     /\ \/ \E name \in Names : CreateUser(q, name)
        \/ \E u \in Rows : \/ SetUserActive(q, u) \/ UpdateUserPassword(q, u)
                           \/ RevokeUserSessions(q, u)

RequestStep(q) ==
  \/ EstablishSession(q) \/ CapSessions(q) \/ OIDCCallback(q) \/ UpsertOIDCUser(q)
  \/ SessionOrAPIKey(q) \/ Routes(q) \/ UpdatePassword(q) \/ ForceLogout(q)

Next ==
  \/ \E q \in Requests : \/ RequestStep(q) \/ Accept(q)
                         \/ \E name \in Names : Login(q, name)
                         \/ \E sub \in DOMAIN Identities : OIDCLogin(q, sub)
  \/ \E u \in Ids : CleanExpiredSessions(u) \/ \E i \in DOMAIN sessions[u] : Logout(u, i)
  \/ TouchWorker \/ Shutdown \/ Stop \/ Exit

Spec == Init /\ [][Next]_vars

-----------------------------------------------------------------------------
\* An OIDC identity always leads to the account provisioned for it and no two
\* identities share one, whatever usernames collide, however first sign-ins
\* overlap, and whichever row an LDAP login of the same name takes over.
IdentityKeepsItsAccount ==
  \A a, b \in opened : (a[1] = b[1]) <=> (a[2] = b[2])

\* No store call has failed and no request was cut off by the end of the process.
Undisturbed == faults = 0 /\ phase # "killed"

\* An account has at most MaxSessions sessions and one per sign-in that has not
\* pruned yet, as long as no prune has failed or was cut off.
SessionsWithinCap ==
  Undisturbed => \A u \in Ids :
    Len(sessions[u]) <= MaxSessions
      + Cardinality({q \in Requests : At(q, "prune") /\ reqs[q].user = u})

\* Once a password change has returned, no session opened with the old password
\* is left, unless the deletion failed or was cut off, or its sign-in had already passed the
\* password check when the password changed.
SessionsFollowPassword ==
  Undisturbed => \A u \in Rows : \A i \in DOMAIN sessions[u] :
    sessions[u][i].pw \in {None, users[u].pw} \/ sessions[u][i].late
      \/ \E q \in Requests : At(q, "purge") /\ reqs[q].user = u

\* The sessions of an account are bounded in number and end with the password
\* they were opened with.
SessionsInOrder == SessionsWithinCap /\ SessionsFollowPassword
=============================================================================
