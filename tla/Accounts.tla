------------------------------- MODULE Accounts -------------------------------
(***************************************************************************)
(* Accounts, their roles, sessions and personal tokens (auth/auth.go), the *)
(* gate every request passes (api/principal.go, api/permissions.go) and    *)
(* the routes behind it (api/routes_auth.go).  A request is handled by a   *)
(* goroutine: it passes the gate with the role the row has then, and what  *)
(* it asks for is done later, in one transaction.  A login and the first   *)
(* account spend an argon2 hash between reading and writing.  Passwords    *)
(* are versions: the one an account was given last is the one that works.  *)
(***************************************************************************)
EXTENDS Integers, FiniteSets, FiniteSetsExt

CONSTANTS
    Usernames, Roles,      \* the roles requests name
    LoginCalls,              \* goroutines that serve requests
    MaxUserId, MaxCalls    \* bounds on the rows of accounts and the requests served

Rank(role) ==
    CASE role = "viewer" -> 1 [] role = "developer" -> 2 [] role = "maintainer" -> 3
      [] role = "admin" -> 4 [] OTHER -> 0
ValidRole(role) == Rank(role) > 0

ASSUME AccountsAssumption ==
    /\ MaxUserId \in Nat /\ MaxCalls \in Nat /\ "admin" \in Roles
    /\ \A role \in Roles : ValidRole(role)

UserIds == 1 .. MaxUserId
NoUser == [name |-> "none", role |-> "none", password |-> 0]

VARIABLES
    users,      \* id -> account
    sessions,   \* who holds them, with which password they were made
    tokens,
    loginCall,    \* goroutine -> what it is about to do
    calls, secrets, \* requests served; sessions and tokens ever made
    bootstrapped    \* accounts made as the first one

accountVars == <<users, sessions, tokens, loginCall, calls, secrets, bootstrapped>>

Accounts == {u \in UserIds : users[u] # NoUser}
Admins == {u \in Accounts : users[u].role = "admin"}
NoPrincipal == [kind |-> "nobody"]
Free == [at |-> "free"]
Serve(r, what) == loginCall' = [loginCall EXCEPT ![r] = what]
Counted == calls < MaxCalls /\ calls' = calls + 1

-----------------------------------------------------------------------------
(* The gate                                                                 *)

RootPrincipal == [kind |-> "root", user |-> 0, role |-> "none"]
PrincipalOf(u) == [kind |-> "user", user |-> u, role |-> users[u].role]
Principals ==
    {RootPrincipal} \cup {PrincipalOf(s.user) : s \in {t \in sessions : ~t.expired}}
      \cup {PrincipalOf(t.user) : t \in tokens}

Allows(who, min) ==
    who.kind = "root" \/ (who.kind = "user" /\ Rank(min) > 0 /\ Rank(who.role) >= Rank(min))

\* What an account route asks for; a personal token needs an account, whichever its role.
Permit(who, op) ==
    CASE op.kind \in {"create", "role", "delete"} -> Allows(who, "admin")
      [] op.kind = "password" -> (who.kind = "user" /\ who.user = op.user) \/ Allows(who, "admin")
      [] op.kind \in {"token", "revoke"} -> who.kind = "user"

Operations ==
    [kind : {"create"}, name : Usernames, role : Roles]
      \cup [kind : {"role"}, user : UserIds, role : Roles]
      \cup [kind : {"delete", "password"}, user : UserIds]
      \cup [kind : {"token", "revoke"}]

Arrive(r) ==
    /\ loginCall[r] = Free /\ Counted
    /\ \E who \in Principals, op \in Operations :
         Permit(who, op) /\ Serve(r, [at |-> "handle", who |-> who, op |-> op])
    /\ UNCHANGED <<users, sessions, tokens, secrets, bootstrapped>>

-----------------------------------------------------------------------------
(* Each of these is one transaction.                                        *)

Without(u) ==
    /\ sessions' = {s \in sessions : s.user # u}
    /\ tokens' = {t \in tokens : t.user # u}

\* INSERT: a new row takes the highest id plus one, a name that is taken is refused.
Insert(name, role) ==
    LET id == Max(Accounts \cup {0}) + 1
    IN IF \E u \in Accounts : users[u].name = name THEN UNCHANGED users
       ELSE id <= MaxUserId /\ users' = [users EXCEPT ![id] = [name |-> name, role |-> role, password |-> 1]]

LastAdmin(u) == u \in Admins /\ Cardinality(Admins) <= 1

CreateUser(op) ==
    /\ op.kind = "create"
    /\ Insert(op.name, op.role)
    /\ UNCHANGED <<sessions, tokens, secrets>>

DeleteUser_AnyAdmin(op) ==
    /\ op.kind = "delete"
    /\ IF op.user \in Accounts /\ Cardinality(Accounts) > 1
       THEN users' = [users EXCEPT ![op.user] = NoUser] /\ Without(op.user)
       ELSE UNCHANGED <<users, sessions, tokens>>
    /\ UNCHANGED secrets
\* Neither the last account nor the last admin; the sessions and tokens go with the row.
DeleteUser(op) ==
    /\ op.kind = "delete"
    /\ IF op.user \in Accounts /\ Cardinality(Accounts) > 1 /\ ~LastAdmin(op.user)
       THEN users' = [users EXCEPT ![op.user] = NoUser] /\ Without(op.user)
       ELSE UNCHANGED <<users, sessions, tokens>>
    /\ UNCHANGED secrets

SetRole(op) ==
    /\ op.kind = "role"
    /\ IF op.user \in Accounts /\ ~(op.role # "admin" /\ LastAdmin(op.user))
       THEN users' = [users EXCEPT ![op.user].role = op.role]
       ELSE UNCHANGED users
    /\ UNCHANGED <<sessions, tokens, secrets>>

SetPassword(op) ==
    /\ op.kind = "password"
    /\ users' = IF op.user \in Accounts THEN [users EXCEPT ![op.user].password = @ + 1] ELSE users
    /\ Without(op.user)
    /\ UNCHANGED secrets

\* The id the gate resolved, if there is still or again an account of that id.
CreateToken(op, who) ==
    /\ op.kind = "token"
    /\ IF who.user \in Accounts
       THEN /\ tokens' = tokens \cup {[user |-> who.user, secret |-> secrets + 1]}
            /\ secrets' = secrets + 1
       ELSE UNCHANGED <<tokens, secrets>>
    /\ UNCHANGED <<users, sessions>>

DeleteToken(op, who) ==
    /\ op.kind = "revoke"
    /\ \E t \in tokens : t.user = who.user /\ tokens' = tokens \ {t}
    /\ UNCHANGED <<users, sessions, secrets>>

Handle(r) ==
    /\ loginCall[r].at = "handle"
    /\ LET op == loginCall[r].op
       IN \/ CreateUser(op) \/ DeleteUser(op) \/ SetRole(op) \/ SetPassword(op)
          \/ CreateToken(op, loginCall[r].who) \/ DeleteToken(op, loginCall[r].who)
          \/ /\ op.kind = "revoke" /\ \A t \in tokens : t.user # loginCall[r].who.user
             /\ UNCHANGED <<users, sessions, tokens, secrets>>
    /\ Serve(r, Free)
    /\ UNCHANGED <<calls, bootstrapped>>

-----------------------------------------------------------------------------
(* Before the gate                                                          *)

\* The row is read and its password verified; the session is made by a statement of its own.
Login(r, name) ==
    /\ loginCall[r] = Free /\ Counted
    /\ \E u \in Accounts :
         /\ users[u].name = name
         /\ Serve(r, [at |-> "mint", user |-> u, password |-> users[u].password])
    /\ UNCHANGED <<users, sessions, tokens, secrets, bootstrapped>>

MintSession(r) ==
    /\ loginCall[r].at = "mint"
    /\ LET u == loginCall[r].user
       IN IF u \in Accounts
          THEN /\ sessions' = sessions \cup
                    {[user |-> u, secret |-> secrets + 1, expired |-> FALSE,
                      stale |-> users[u].password # loginCall[r].password,
                      password |-> users[u].password]}
               /\ secrets' = secrets + 1
          ELSE UNCHANGED <<sessions, secrets>>
    /\ Serve(r, Free)
    /\ UNCHANGED <<users, tokens, calls, bootstrapped>>

\* Bootstrap: no account yet; then the password is hashed and the row inserted.
Bootstrap(r, name) ==
    /\ loginCall[r] = Free /\ Counted
    /\ Accounts = {}
    /\ Serve(r, [at |-> "first", name |-> name])
    /\ UNCHANGED <<users, sessions, tokens, secrets, bootstrapped>>

FirstUser(r) ==
    /\ loginCall[r].at = "first"
    /\ Insert(loginCall[r].name, "admin")
    /\ bootstrapped' = IF users' # users THEN bootstrapped + 1 ELSE bootstrapped
    /\ Serve(r, Free)
    /\ UNCHANGED <<sessions, tokens, calls, secrets>>

Logout(s) ==
    /\ Counted /\ sessions' = sessions \ {s}
    /\ UNCHANGED <<users, tokens, loginCall, secrets, bootstrapped>>

\* Thirty days later, and the housekeeping.
Expire(s) ==
    /\ Counted /\ ~s.expired
    /\ sessions' = (sessions \ {s}) \cup {[s EXCEPT !.expired = TRUE]}
    /\ UNCHANGED <<users, tokens, loginCall, secrets, bootstrapped>>
PruneSessions ==
    /\ \E s \in sessions : s.expired
    /\ sessions' = {s \in sessions : ~s.expired}
    /\ UNCHANGED <<users, tokens, loginCall, calls, secrets, bootstrapped>>

AccountsInit ==
    /\ users = [u \in UserIds |-> NoUser] /\ sessions = {} /\ tokens = {}
    /\ loginCall = [r \in LoginCalls |-> Free] /\ calls = 0 /\ secrets = 0 /\ bootstrapped = 0

AccountsNext ==
    \/ PruneSessions
    \/ \E s \in sessions : Logout(s) \/ Expire(s)
    \/ \E r \in LoginCalls :
         \/ Arrive(r) \/ Handle(r) \/ MintSession(r) \/ FirstUser(r)
         \/ \E name \in Usernames : Login(r, name) \/ Bootstrap(r, name)

AccountsSpec == AccountsInit /\ [][AccountsNext]_accountVars
--------------------------------------------------------------------------------
(* What the accounts promise.                                                *)

\* Every variable has its type.
AccountsTypeOK ==
    /\ users \in [UserIds -> {NoUser} \cup [name : Usernames, role : Roles, password : Nat \ {0}]]
    /\ \A s \in sessions : s \in [user : UserIds, secret : Nat, expired : BOOLEAN, stale : BOOLEAN, password : Nat]
    /\ \A t \in tokens : t \in [user : UserIds, secret : Nat]
    /\ \A r \in LoginCalls : loginCall[r].at \in {"free", "handle", "mint", "first"}
    /\ calls \in 0 .. MaxCalls /\ secrets \in Nat /\ bootstrapped \in Nat

\* A host that has an admin keeps one, whoever deletes and demotes whom at the same time
\* (auth.go:343-351, 376-377): the count and the write are one transaction.
KeepsAnAdmin == Admins # {} => Admins' # {}
AdminRemains == [][KeepsAnAdmin]_accountVars

\* No session and no token outlives its account (auth.go:369, migration 1), and no two accounts
\* have one name, with ids that are taken again and logins that are half way.
CredentialsHaveOwners ==
    /\ \A s \in sessions \cup tokens : s.user \in Accounts
    /\ \A u, v \in Accounts : users[u].name = users[v].name => u = v

\* A change of password leaves no session made before it (auth.go:414-417), and no token.
LeavesNoOldCredential ==
    \A u \in Accounts :
        (users'[u] # NoUser /\ users'[u].password > users[u].password)
            => \A s \in sessions' \cup tokens' : s.user # u
OldCredentialsAreGone == [][LeavesNoOldCredential]_accountVars

\* Stated of a change of password (auth.go:414-417): no session made with the old one is alive.
SessionsFollowPassword == \A s \in sessions : ~s.stale

\* Stated of the first account (auth.go:32-35, 438-440): it is made only while there is none.
BootstrapsOnce == bootstrapped <= 1

\* What the accounts keep whatever calls are interleaved (auth.go).
AccountsSafety == []CredentialsHaveOwners /\ AdminRemains /\ OldCredentialsAreGone
================================================================================
