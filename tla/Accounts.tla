------------------------------ MODULE Accounts ------------------------------
(***************************************************************************)
(* AuthService, UsersService, ClientsService and ClientLifecycleService:   *)
(* who may log in, and which refresh tokens work.  A refresh token is      *)
(* exchanged once for its successor; a new password, a new login of an     *)
(* access account and the deactivation of a client end the sessions of the *)
(* users they are about.  Requests read in one call to the database and    *)
(* write in another.  Names of clients and lists are left out.             *)
(***************************************************************************)
EXTENDS Naturals, Sequences, FiniteSets

CONSTANTS
  Clients, Users,
  Logins,       \* one identifier stands for the email and the phone of a user
  Calls,        \* requests under way
  None,
  WithEvents,   \* clients that have events
  MaxResets,    \* bound on passwords of a user
  MaxTokens,    \* bound on refresh tokens
  MaxChanges    \* bound on what administrators write

ASSUME AccountsAssumption ==
  /\ WithEvents \subseteq Clients
  /\ MaxResets \in Nat /\ MaxTokens \in Nat /\ MaxChanges \in Nat
  /\ None \notin Clients \cup Users \cup Logins

VARIABLES
  client,     \* isActive and primaryUserId of each client
  user,       \* rows of users; password counts the passwords a user had
  token,      \* RefreshToken rows in the order they were stored
  req,        \* what each request has read
  strayed,    \* users who joined a client while it was inactive (history)
  changes

accountVars == <<client, user, token, req, strayed, changes>>

NoUser == [status |-> "NONE", role |-> "OTHER", client |-> None, login |-> None,
           password |-> 0]
Idle   == [op |-> "IDLE"]

AccountsInit ==
  /\ client = [c \in Clients |-> [state |-> "NONE", primary |-> None]]
  /\ user = [u \in Users |-> NoUser]
  /\ token = <<>>
  /\ req = [r \in Calls |-> Idle]
  /\ strayed = {}
  /\ changes = 0

Exists(c) == c # None /\ client[c].state \in {"ACTIVE", "INACTIVE"}
Free(l, u) == \A v \in Users \ {u} : user[v].login # l
PrimaryOf(c) == {client[c].primary}   \* mutant: only the access account
UsersOf(c) == {u \in Users : user[u].client = c}
OwnerOf(k) == token[k].user

\* isAuthenticationAllowed, asked at login, at refresh and with every access token.
Allowed(u) ==
  /\ user[u].status = "ACTIVE"
  /\ user[u].role = "CLIENT_VIEWER" =>
       user[u].client # None /\ client[user[u].client].state = "ACTIVE"

Ask(r, q) ==
  /\ req[r] = Idle
  /\ req' = [req EXCEPT ![r] = q]
  /\ UNCHANGED <<client, user, token, strayed, changes>>

\* An administrator writes.
Change == changes < MaxChanges /\ changes' = changes + 1

Finished(r) == [req EXCEPT ![r] = Idle]
Give(r) == req' = Finished(r) /\ UNCHANGED <<client, user, token, strayed, changes>>

-----------------------------------------------------------------------------
(* Refresh tokens.  ROTATED are those that refresh revoked (history).       *)

Revoked(ks, how) ==
  [k \in DOMAIN token |-> IF k \in ks /\ token[k].state = "LIVE"
                            THEN [token[k] EXCEPT !.state = how] ELSE token[k]]

Issues(q) == q.op \in {"LOGIN", "READ_USER", "REFRESH"}

\* The requests about to store a token whose parent is revoked, or whose user's
\* sessions are ended, in the meantime (history).
Overtaken(q, us, ks) ==
  [r \in Calls |->
     IF Issues(q[r]) THEN [q[r] EXCEPT !.late = @ \/ q[r].user \in us \/ q[r].parent \in ks,
                                       !.tainted = @ \/ q[r].user \in us]
     ELSE q[r]]

\* refreshToken.updateMany where userId and revokedAt null.
EndSessions(us, q) ==
  /\ token' = Revoked({k \in DOMAIN token : OwnerOf(k) \in us}, "REVOKED")
  /\ req' = Overtaken(q, us, {})

\* A stored token.  Two that are signed for one user in one second are equal, and
\* the unique tokenHash refuses the second: its request is abandoned.
Row(q) == [user |-> q.user, state |-> "LIVE", parent |-> q.parent, password |-> q.password,
           late |-> q.late, tainted |-> q.tainted]

Room == Len(token) + Cardinality({r \in Calls : Issues(req[r])}) < MaxTokens

\* validateUserByEmailOrPhone.
BeginLogin(r, u) ==
  /\ user[u].login # None /\ Allowed(u) /\ Room
  /\ Ask(r, [op |-> "LOGIN", user |-> u, parent |-> 0, password |-> user[u].password,
             late |-> FALSE, tainted |-> FALSE])

\* storeRefreshToken, after lastLoginAt was written.
StoreLogin(r) ==
  /\ req[r].op = "LOGIN"
  /\ token' = Append(token, Row(req[r]))
  /\ req' = Finished(r)
  /\ UNCHANGED <<client, user, strayed, changes>>

RedeemableTwice(k) == TRUE   \* mutant: revokedAt is not looked at
Redeemable(k) == token[k].state = "LIVE"

\* refresh reads the row of the token,
ReadToken(r, k) ==
  /\ Redeemable(k) /\ Room
  /\ Ask(r, [op |-> "READ_USER", user |-> OwnerOf(k), parent |-> k,
             password |-> token[k].password, late |-> FALSE, tainted |-> token[k].tainted])

\* then its user,
ReadUser(r) ==
  /\ req[r].op = "READ_USER" /\ Allowed(req[r].user)
  /\ req' = [req EXCEPT ![r].op = "REFRESH"]
  /\ UNCHANGED <<client, user, token, strayed, changes>>

\* and in one transaction revokes the token and stores its successor.
StoreRefresh(r) ==
  LET ks == {req[r].parent} IN
  /\ req[r].op = "REFRESH"
  /\ token' = Append(Revoked(ks, "ROTATED"), Row(req[r]))
  /\ req' = Overtaken(Finished(r), {}, ks)
  /\ UNCHANGED <<client, user, strayed, changes>>

\* logout writes revokedAt whatever happened since it read the row.
Logout(k) ==
  /\ token[k].state = "LIVE"
  /\ token' = Revoked({k}, "REVOKED")
  /\ req' = Overtaken(req, {}, {k})
  /\ UNCHANGED <<client, user, strayed, changes>>

\* expiresAt passes, seven days later.
Expire(k) ==
  /\ token[k].state = "LIVE"
  /\ token' = Revoked({k}, "REVOKED")
  /\ req' = Overtaken(req, {}, {k})
  /\ UNCHANGED <<client, user, strayed, changes>>

-----------------------------------------------------------------------------
(* UsersService.                                                           *)

NewUser(role, c, l) ==
  [NoUser EXCEPT !.status = "ACTIVE", !.role = role, !.client = c, !.login = l]

\* resolveClientIdForRole: only viewers have a client, and they must have one.
Positions == {<<"OTHER", None>>} \cup {<<"CLIENT_VIEWER", c>> : c \in {d \in Clients : Exists(d)}}

CreateUser(u, place, l) ==
  /\ user[u].status = "NONE" /\ place \in Positions /\ Free(l, u)
  /\ user' = [user EXCEPT ![u] = NewUser(place[1], place[2], l)]
  /\ Change
  /\ UNCHANGED <<client, token, req, strayed>>

\* update: what the request leaves out is written back as it was read.
BeginUpdateUser(r, u, place, l) ==
  /\ user[u].status \notin {"NONE", "DELETED"} /\ place \in Positions
  /\ Ask(r, [op |-> "UPDATE_USER", user |-> u, place |-> place, login |-> l])

\* Keys may refuse what the checks allowed.
UpdateUser(r) ==
  LET u == req[r].user  place == req[r].place
      moved == place # <<user[u].role, user[u].client>> IN
  /\ req[r].op = "UPDATE_USER" /\ place \in Positions /\ Free(req[r].login, u)
  /\ user' = [user EXCEPT ![u].role = place[1], ![u].client = place[2], ![u].login = req[r].login]
  /\ strayed' = IF ~moved THEN strayed
                ELSE IF place[2] # None /\ client[place[2]].state = "INACTIVE"
                       THEN strayed \cup {u} ELSE strayed \ {u}
  /\ req' = Finished(r)
  /\ Change
  /\ UNCHANGED <<client, token>>

\* activate, suspend and delete: neither looks at the status, nor at the sessions.
SetUserStatus(u, s) ==
  /\ user[u].status \notin {"NONE", s}
  /\ user' = [user EXCEPT ![u].status = s]
  /\ Change
  /\ UNCHANGED <<client, token, req, strayed>>

NewPassword(u) ==
  user[u].password < MaxResets /\ user' = [user EXCEPT ![u].password = @ + 1]

\* Mutant: the sessions go on.
ResetPasswordOnly(u) ==
  user[u].status # "NONE" /\ NewPassword(u) /\ Change /\ UNCHANGED <<client, token, req, strayed>>

\* resetPassword.
ResetPassword(u) ==
  /\ user[u].status # "NONE" /\ NewPassword(u) /\ EndSessions({u}, req)
  /\ Change
  /\ UNCHANGED <<client, strayed>>

-----------------------------------------------------------------------------
(* ClientsService and ClientLifecycleService.                              *)

CreateClient(c) ==
  /\ client[c].state = "NONE"
  /\ client' = [client EXCEPT ![c].state = "ACTIVE"]
  /\ Change
  /\ UNCHANGED <<user, token, req, strayed>>

\* createWithAccessAccount, one transaction.
CreateWithAccess(c, u, l) ==
  /\ client[c].state = "NONE" /\ user[u].status = "NONE" /\ Free(l, u)
  /\ client' = [client EXCEPT ![c] = [state |-> "ACTIVE", primary |-> u]]
  /\ user' = [user EXCEPT ![u] = NewUser("CLIENT_VIEWER", c, l)]
  /\ Change
  /\ UNCHANGED <<token, req, strayed>>

\* createAccessAccount reads the client,
BeginOpenAccess(r, c) ==
  /\ Exists(c) /\ client[c].primary = None
  /\ Ask(r, [op |-> "OPEN_ACCESS", on |-> c])

LinkableAnyway(c) == Exists(c)   \* mutant: client.update, whatever was linked since

\* client.updateMany where primaryUserId is null.
Linkable(c) == Exists(c) /\ client[c].primary = None

OpenAccess(r, u, l) ==
  LET c == req[r].on IN
  /\ req[r].op = "OPEN_ACCESS" /\ Linkable(c)
  /\ user[u].status = "NONE" /\ Free(l, u)
  /\ user' = [user EXCEPT ![u] = NewUser("CLIENT_VIEWER", c, l)]
  /\ client' = [client EXCEPT ![c].primary = u]
  /\ req' = Finished(r)
  /\ Change
  /\ UNCHANGED <<token, strayed>>

\* findPrimaryAccessAccountOrThrow.
HasAccess(c) ==
  /\ Exists(c) /\ client[c].primary # None
  /\ LET a == user[client[c].primary] IN
     a.role = "CLIENT_VIEWER" /\ a.client = c /\ a.status # "DELETED"

\* updateAccessAccount compares with the account it read.
BeginUpdateAccess(r, c, l) ==
  /\ HasAccess(c)
  /\ Ask(r, [op |-> "UPDATE_ACCESS", user |-> client[c].primary, login |-> l,
             changed |-> l # user[client[c].primary].login])

UpdateAccess(r) ==
  LET u == req[r].user IN
  /\ req[r].op = "UPDATE_ACCESS" /\ Free(req[r].login, u)
  /\ user' = [user EXCEPT ![u].login = req[r].login]
  /\ IF req[r].changed THEN EndSessions({u}, Finished(r))
     ELSE UNCHANGED token /\ req' = Finished(r)
  /\ Change
  /\ UNCHANGED <<client, strayed>>

\* resetAccessAccountPassword hashes between its read and its write.
BeginResetAccess(r, c) ==
  HasAccess(c) /\ Ask(r, [op |-> "RESET_ACCESS", user |-> client[c].primary])

ResetAccess(r) ==
  /\ req[r].op = "RESET_ACCESS" /\ NewPassword(req[r].user)
  /\ EndSessions({req[r].user}, Finished(r))
  /\ Change
  /\ UNCHANGED <<client, strayed>>

\* setActiveStatus.
BeginSetStatus(r, c, s) ==
  /\ Exists(c) /\ client[c].state # s
  /\ Ask(r, [op |-> "SET_STATUS", on |-> c, state |-> s])

SetStatus(r) ==
  LET c == req[r].on IN
  /\ req[r].op = "SET_STATUS" /\ Exists(c)
  /\ client' = [client EXCEPT ![c].state = req[r].state]
  /\ IF req[r].state = "INACTIVE"
       THEN EndSessions(UsersOf(c), Finished(r)) /\ strayed' = strayed \ UsersOf(c)
       ELSE UNCHANGED <<token, strayed>> /\ req' = Finished(r)
  /\ Change
  /\ UNCHANGED user

\* deletePermanently,
BeginDelete(r, c) ==
  /\ client[c].state = "INACTIVE" /\ c \notin WithEvents
  /\ Ask(r, [op |-> "DELETE", on |-> c])

\* which leaves its users as tombstones without login.
Delete(r) ==
  LET c == req[r].on IN
  /\ req[r].op = "DELETE" /\ Exists(c)
  /\ client' = [client EXCEPT ![c] = [state |-> "DELETED", primary |-> None]]
  /\ user' = [u \in Users |-> IF u \in UsersOf(c)
                THEN [user[u] EXCEPT !.client = None, !.status = "DELETED", !.login = None]
                ELSE user[u]]
  /\ EndSessions(UsersOf(c), Finished(r))
  /\ strayed' = strayed \ UsersOf(c)
  /\ Change

\* A request that is not allowed to go on, that dies, or whose write the database
\* refuses (a key is taken, a row is gone) leaves no trace.
Abandon(r) == req[r] # Idle /\ Give(r)

AccountsNext ==
  \/ \E c \in Clients : CreateClient(c) \/ \E u \in Users, l \in Logins : CreateWithAccess(c, u, l)
  \/ \E u \in Users :
       \/ ResetPassword(u)
       \/ \E s \in {"ACTIVE", "SUSPENDED", "DELETED"} : SetUserStatus(u, s)
       \/ \E place \in Positions, l \in Logins : CreateUser(u, place, l)
  \/ \E k \in DOMAIN token : Logout(k) \/ Expire(k) \/ \E r \in Calls : ReadToken(r, k)
  \/ \E r \in Calls :
       \/ ReadUser(r) \/ StoreLogin(r) \/ StoreRefresh(r) \/ Abandon(r)
       \/ UpdateUser(r) \/ UpdateAccess(r) \/ ResetAccess(r) \/ SetStatus(r) \/ Delete(r)
       \/ \E u \in Users : BeginLogin(r, u)
       \/ \E u \in Users, l \in Logins :
            OpenAccess(r, u, l) \/ \E place \in Positions : BeginUpdateUser(r, u, place, l)
       \/ \E c \in Clients :
            \/ BeginOpenAccess(r, c) \/ BeginResetAccess(r, c) \/ BeginDelete(r, c)
            \/ \E l \in Logins : BeginUpdateAccess(r, c, l)
            \/ \E s \in {"ACTIVE", "INACTIVE"} : BeginSetStatus(r, c, s)

AccountsSpec == AccountsInit /\ [][AccountsNext]_accountVars

-----------------------------------------------------------------------------
(* Properties.                                                             *)

\* refresh: a token that was exchanged has one successor, and one that was logged
\* out, ended or has expired has none, except those of exchanges that had read it
\* before that.
OneSuccessor ==
  \A p \in DOMAIN token :
    LET heirs == {k \in DOMAIN token : token[k].parent = p /\ ~token[k].late} IN
    IF token[p].state = "ROTATED" THEN \A k, l \in heirs : k = l ELSE heirs = {}

\* resetPassword and resetAccessAccountPassword: no session that goes back to an
\* earlier password goes on, unless a login or an exchange of its line overlapped
\* something that ended sessions.
ResetEndsSessions ==
  \A k \in DOMAIN token :
    token[k].state = "LIVE" =>
      token[k].tainted \/ token[k].password = user[OwnerOf(k)].password

\* setActiveStatus: a viewer whose client is inactive has no session that would
\* come back with the client, unless by such an overlap, or because the viewer was
\* moved to the client while it was inactive.
LockoutEndsSessions ==
  \A k \in DOMAIN token :
    LET u == OwnerOf(k) IN
    token[k].state = "LIVE" /\ user[u].client # None /\ client[user[u].client].state = "INACTIVE"
      => token[k].tainted \/ u \in strayed

\* createAccessAccount: the access account of a client is never replaced by that
\* of another request, and goes only with the client.
PrimaryIsKept ==
  [][\A c \in Clients :
       client[c].primary # None /\ client'[c].state # "DELETED"
         => client'[c].primary = client[c].primary]_accountVars
=============================================================================
