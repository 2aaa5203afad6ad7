----------------------------- MODULE AccessProofs -----------------------------
(***************************************************************************)
(* What the accounts and single sign-on keep, proved for every set of      *)
(* names, roles, providers and identities and every number of requests.    *)
(***************************************************************************)
EXTENDS Accounts, SignIn, FiniteSetTheorems, WellFoundedInduction, TLAPS

-----------------------------------------------------------------------------
(***************************************************************************)
(* The highest id: a set of naturals below a bound has a largest member.   *)
(***************************************************************************)

LEMMA LeastOf ==
  ASSUME NEW T \in SUBSET Nat, T # {}
  PROVE  \E x \in T : \A y \in T : x <= y
  <1> DEFINE R == OpToRel(<, Nat)
  <1>1. \A y, x \in Nat : y < x => <<y, x>> \in R
    BY DEF OpToRel
  <1>2. IsWellFoundedOn(R, Nat)
    BY NatLessThanWellFounded
  <1> HIDE DEF R
  <1>3. PICK x \in T : \A y \in T : ~ (<<y, x>> \in R)
    BY <1>2, WFMin
  <1>4. ASSUME NEW y \in T PROVE x <= y
    <2>1. x \in Nat /\ y \in Nat /\ ~(y < x)
      BY <1>1, <1>3
    <2>. QED
      BY <2>1
  <1>. QED
    BY <1>4

LEMMA MaxOf ==
  ASSUME NEW N \in Nat, NEW S \in SUBSET (0 .. N), S # {}
  PROVE  Max(S) \in S /\ \A y \in S : y <= Max(S)
  <1> DEFINE T == {d \in Nat : N - d \in S}
  <1>1. \A y \in S : N - y \in T
    OBVIOUS
  <1>2. T \in SUBSET Nat /\ T # {} /\ \A d \in T : N - d \in S
    BY <1>1
  <1> HIDE DEF T
  <1>3. PICK d \in T : \A e \in T : d <= e
    BY <1>2, LeastOf
  <1>4. \E x \in S : \A y \in S : x >= y
    <2>1. ASSUME NEW y \in S PROVE N - d >= y
      <3>1. d <= N - y
        BY <1>1, <1>3
      <3>2. d \in Nat /\ y \in Nat
        BY <1>2
      <3>. QED
        BY <3>1, <3>2
    <2>. QED
      BY <1>2, <2>1
  <1>5. Max(S) \in S /\ \A y \in S : Max(S) >= y
    BY <1>4 DEF Max
  <1>. QED
    BY <1>5

\* The id of a new row is free.
LEMMA NextIdIsFree ==
  ASSUME NEW N \in Nat, NEW S \in SUBSET (1 .. N)
  PROVE  /\ Max(S \cup {0}) + 1 \in Nat \ {0}
         /\ Max(S \cup {0}) + 1 \notin S
  <1>1. S \cup {0} \in SUBSET (0 .. N) /\ S \cup {0} # {}
    OBVIOUS
  <1>2. Max(S \cup {0}) \in S \cup {0} /\ \A y \in S \cup {0} : y <= Max(S \cup {0})
    BY <1>1, MaxOf
  <1>3. PICK m \in Nat : m = Max(S \cup {0}) /\ \A y \in S : y <= m
    <2>1. \A x \in S \cup {0} : x \in Nat
      OBVIOUS
    <2>2. Max(S \cup {0}) \in Nat
      BY <1>2, <2>1
    <2>. QED
      BY <1>2, <2>2
  <1>4. m + 1 \notin S
    BY <1>3
  <1>. QED
    BY <1>3, <1>4

-----------------------------------------------------------------------------
(***************************************************************************)
(* Accounts.                                                               *)
(***************************************************************************)
AccountRow == [name : Usernames, role : Roles, password : Nat \ {0}]
SessionRow ==
  [user : UserIds, secret : Nat, expired : BOOLEAN, stale : BOOLEAN, password : Nat]
TokenRow == [user : UserIds, secret : Nat]

\* What a call that is half way carries with it.
Carries(r) ==
  LET call == loginCall[r] IN
  /\ call.at \in {"free", "handle", "mint", "first"}
  /\ call.at = "handle" => call.op \in Operations
  /\ call.at = "mint" => call.user \in UserIds
  /\ call.at = "first" => call.name \in Usernames

AccountsIInv ==
  /\ AccountsTypeOK
  /\ CredentialsHaveOwners
  /\ \A r \in LoginCalls : Carries(r)
  /\ DOMAIN loginCall = LoginCalls

LEMMA RowsAreRows ==
  AccountsTypeOK => /\ users \in [UserIds -> {NoUser} \cup AccountRow]
                    /\ \A u \in Accounts : users[u] \in AccountRow
                    /\ Accounts \in SUBSET UserIds
                    /\ NoUser \notin AccountRow
  BY DEF AccountsTypeOK, AccountRow, Accounts, NoUser

\* One account changes, appears or goes.
LEMMA InsertAdds ==
  ASSUME AccountsTypeOK, NEW name \in Usernames, NEW role \in Roles, Insert(name, role)
  PROVE  \/ UNCHANGED users
         \/ \E id \in UserIds \ Accounts :
              /\ users' = [users EXCEPT ![id] = [name |-> name, role |-> role, password |-> 1]]
              /\ \A u \in Accounts : users[u].name # name
  <1>1. Accounts \in SUBSET (1 .. MaxUserId) /\ MaxUserId \in Nat
    BY AccountsAssumption DEF Accounts, UserIds
  <1>2. /\ Max(Accounts \cup {0}) + 1 \in Nat \ {0}
        /\ Max(Accounts \cup {0}) + 1 \notin Accounts
    BY <1>1, NextIdIsFree
  <1>. QED
    BY <1>1, <1>2 DEF Insert, UserIds

LEMMA AdminsAreFinite ==
  ASSUME AccountsTypeOK, NEW u \in Admins, ~LastAdmin(u)
  PROVE  \E v \in Admins : v # u
  <1>1. IsFiniteSet(Admins)
    <2>1. IsFiniteSet(UserIds)
      BY AccountsAssumption, FS_Interval, 1 \in Int, MaxUserId \in Int DEF UserIds
    <2>. QED
      BY <2>1, FS_Subset DEF Admins, Accounts
  <1>2. CASE Admins = {u}
    BY <1>2, FS_Singleton DEF LastAdmin
  <1>. QED
    BY <1>2

LEMMA AccountsInitIInv == AccountsInit => AccountsIInv
  BY AccountsAssumption
  DEF AccountsInit, AccountsIInv, AccountsTypeOK, CredentialsHaveOwners, Carries, Free, Accounts,
      NoUser

\* A request served leaves a goroutine free; it was going to do no more.
LEMMA ServedCall ==
  ASSUME NEW r \in LoginCalls, AccountsIInv, Serve(r, Free)
  PROVE  (\A q \in LoginCalls : Carries(q)') /\ DOMAIN loginCall' = LoginCalls
  BY DEF AccountsIInv, Serve, Carries, Free

\* A row of an account is written, or the account dropped; all other rows stay.
LEMMA RowWritten ==
  ASSUME AccountsTypeOK, NEW id \in UserIds, NEW row \in {NoUser} \cup AccountRow,
         users' = [users EXCEPT ![id] = row]
  PROVE  /\ users' \in [UserIds -> {NoUser} \cup AccountRow]
         /\ users'[id] = row
         /\ \A u \in UserIds : u # id => users'[u] = users[u]
         /\ Accounts' = IF row = NoUser THEN Accounts \ {id} ELSE Accounts \cup {id}
  <1>1. users \in [UserIds -> {NoUser} \cup AccountRow]
    BY RowsAreRows
  <1>. QED
    BY <1>1 DEF Accounts

\* Credentials only go, and those of the accounts that go go with them.
LEMMA CredentialsStay ==
  ASSUME AccountsIInv,
         sessions' \subseteq sessions, tokens' \subseteq tokens,
         \A s \in sessions' \cup tokens' : s.user \in Accounts',
         users' \in [UserIds -> {NoUser} \cup AccountRow],
         \A u, v \in Accounts' : users'[u].name = users'[v].name => u = v,
         \A r \in LoginCalls : loginCall'[r].at \in {"free", "handle", "mint", "first"},
         calls' \in 0 .. MaxCalls, secrets' \in Nat, bootstrapped' \in Nat
  PROVE  AccountsTypeOK' /\ CredentialsHaveOwners'
  BY DEF AccountsIInv, AccountsTypeOK, CredentialsHaveOwners, AccountRow

LEMMA RowChanged ==
  ASSUME NEW row \in AccountRow
  PROVE  /\ \A role \in Roles : /\ [row EXCEPT !.role = role] \in AccountRow
                                 /\ [row EXCEPT !.role = role].name = row.name
         /\ [row EXCEPT !.password = @ + 1] \in AccountRow
         /\ [row EXCEPT !.password = @ + 1].name = row.name
  BY DEF AccountRow

\* What one operation on the accounts leaves behind.
LEMMA OperationStep ==
  ASSUME AccountsIInv, NEW op \in Operations,
         CreateUser(op) \/ DeleteUser(op) \/ SetRole(op) \/ SetPassword(op),
         UNCHANGED calls, bootstrapped' \in Nat,
         \A r \in LoginCalls : loginCall'[r].at \in {"free", "handle", "mint", "first"}
  PROVE  AccountsTypeOK' /\ CredentialsHaveOwners'
  <1>1. /\ AccountsTypeOK /\ calls' \in 0 .. MaxCalls /\ secrets' \in Nat
        /\ \A s \in sessions \cup tokens : s.user \in Accounts
        /\ \A u, v \in Accounts : users[u].name = users[v].name => u = v
        /\ Accounts \subseteq UserIds
    BY DEF AccountsIInv, CredentialsHaveOwners, AccountsTypeOK, Accounts,
           CreateUser, DeleteUser, SetRole, SetPassword
  <1>2. /\ users \in [UserIds -> {NoUser} \cup AccountRow]
        /\ \A u \in Accounts : users[u] \in AccountRow
        /\ NoUser \notin AccountRow
    BY <1>1, RowsAreRows
  <1>3. CASE UNCHANGED users /\ sessions' \subseteq sessions /\ tokens' \subseteq tokens
    <2>1. UNCHANGED Accounts
      BY <1>3 DEF Accounts
    <2>. QED
      BY <1>1, <1>2, <1>3, <2>1, CredentialsStay
  <1>4. CASE CreateUser(op)
    <2>1. op.name \in Usernames /\ op.role \in Roles
      BY <1>4 DEF CreateUser, Operations
    <2>2. Insert(op.name, op.role) /\ UNCHANGED <<sessions, tokens, secrets>>
      BY <1>4 DEF CreateUser
    <2>3. ASSUME NEW id \in UserIds \ Accounts,
                 users' = [users EXCEPT ![id] =
                            [name |-> op.name, role |-> op.role, password |-> 1]],
                 \A u \in Accounts : users[u].name # op.name
          PROVE  AccountsTypeOK' /\ CredentialsHaveOwners'
      <3>1. [name |-> op.name, role |-> op.role, password |-> 1] \in AccountRow
        BY <2>1 DEF AccountRow
      <3>2. /\ users' \in [UserIds -> {NoUser} \cup AccountRow]
            /\ users'[id].name = op.name
            /\ \A u \in UserIds : u # id => users'[u] = users[u]
            /\ Accounts' = Accounts \cup {id}
        BY ZenonT(60), <1>1, <1>2, <2>3, <3>1, RowWritten
      <3>3. \A u, v \in Accounts' : users'[u].name = users'[v].name => u = v
        BY <1>1, <2>3, <3>2
      <3>4. \A s \in sessions' \cup tokens' : s.user \in Accounts'
        BY <1>1, <2>2, <3>2
      <3>. QED
        BY <1>1, <2>2, <3>2, <3>3, <3>4, CredentialsStay
    <2>. QED
      BY <1>1, <1>3, <2>1, <2>2, <2>3, InsertAdds
  <1>5. CASE DeleteUser(op)
    <2>1. CASE users' = [users EXCEPT ![op.user] = NoUser] /\ Without(op.user) /\ op.user \in Accounts
      <3>1. /\ users' \in [UserIds -> {NoUser} \cup AccountRow]
            /\ \A u \in UserIds : u # op.user => users'[u] = users[u]
            /\ Accounts' = Accounts \ {op.user}
        BY <1>1, <2>1, RowWritten
      <3>2. /\ sessions' \subseteq sessions /\ tokens' \subseteq tokens
            /\ \A s \in sessions' \cup tokens' : s.user \in Accounts'
        BY <1>1, <2>1, <3>1 DEF Without
      <3>3. \A u, v \in Accounts' : users'[u].name = users'[v].name => u = v
        BY <1>1, <3>1
      <3>. QED
        BY <1>1, <3>1, <3>2, <3>3, CredentialsStay
    <2>. QED
      BY <1>3, <1>5, <2>1 DEF DeleteUser
  <1>6. ASSUME NEW id \in Accounts, NEW row \in AccountRow,
               row.name = users[id].name, users' = [users EXCEPT ![id] = row],
               sessions' \subseteq sessions, tokens' \subseteq tokens
        PROVE  AccountsTypeOK' /\ CredentialsHaveOwners'
    <2>1. /\ users' \in [UserIds -> {NoUser} \cup AccountRow]
          /\ users'[id] = row
          /\ \A u \in UserIds : u # id => users'[u] = users[u]
          /\ Accounts' = Accounts
      <3>1. id \in UserIds /\ row \in {NoUser} \cup AccountRow /\ row # NoUser
        BY <1>1, <1>2, <1>6
      <3>2. Accounts' = Accounts \cup {id}
        BY <1>1, <1>6, <3>1, RowWritten
      <3>3. Accounts' = Accounts
        BY <1>6, <3>2
      <3>. QED
        BY <1>1, <1>6, <3>1, <3>3, RowWritten
    <2>2. \A u \in Accounts' : users'[u].name = users[u].name
      BY <1>1, <1>6, <2>1
    <2>3. \A s \in sessions' \cup tokens' : s.user \in Accounts'
      BY <1>1, <1>6, <2>1
    <2>4. \A u, v \in Accounts' : users'[u].name = users'[v].name => u = v
      BY <1>1, <2>1, <2>2
    <2>. QED
      BY <1>1, <1>6, <2>1, <2>3, <2>4, CredentialsStay
  <1>7. CASE SetRole(op)
    <2>1. CASE op.user \in Accounts /\ users' = [users EXCEPT ![op.user].role = op.role]
      <3>1. op.role \in Roles /\ UNCHANGED <<sessions, tokens>>
        BY <1>7 DEF SetRole, Operations
      <3>2. PICK id \in Accounts : id = op.user
        BY <2>1
      <3>3. PICK row \in AccountRow : row = [users[id] EXCEPT !.role = op.role] /\ row.name = users[id].name
        BY <1>2, <3>1, RowChanged
      <3>4. users' = [users EXCEPT ![id] = row]
        BY <1>2, <2>1, <3>2, <3>3
      <3>. QED
        BY <1>6, <3>1, <3>3, <3>4
    <2>. QED
      BY <1>3, <1>7, <2>1 DEF SetRole
  <1>8. CASE SetPassword(op)
    <2>1. CASE op.user \in Accounts /\ users' = [users EXCEPT ![op.user].password = @ + 1]
      <3>1. sessions' \subseteq sessions /\ tokens' \subseteq tokens
        BY <1>8 DEF SetPassword, Without
      <3>2. PICK id \in Accounts : id = op.user
        BY <2>1
      <3>3. PICK row \in AccountRow : row = [users[id] EXCEPT !.password = @ + 1] /\ row.name = users[id].name
        BY <1>2, <3>1, RowChanged
      <3>4. users' = [users EXCEPT ![id] = row]
        BY <1>2, <2>1, <3>2, <3>3
      <3>. QED
        BY <1>6, <3>1, <3>3, <3>4
    <2>. QED
      BY <1>3, <1>8, <2>1 DEF SetPassword, Without
  <1>. QED
    BY <1>4, <1>5, <1>7, <1>8

\* What one step of a call, of a browser or of the clock leaves behind.
LEMMA CredentialsMade ==
  ASSUME AccountsIInv, UNCHANGED users, calls' \in 0 .. MaxCalls, secrets' \in Nat,
         bootstrapped' \in Nat,
         \A s \in sessions' : s \in SessionRow /\ s.user \in Accounts,
         \A t \in tokens' : t \in TokenRow /\ t.user \in Accounts,
         \A r \in LoginCalls : Carries(r)'
  PROVE  AccountsTypeOK' /\ CredentialsHaveOwners'
  <1>1. UNCHANGED Accounts
    BY DEF Accounts
  <1>. QED
    BY <1>1 DEF AccountsIInv, AccountsTypeOK, CredentialsHaveOwners, SessionRow, TokenRow, Carries

\* What the invariant says of the rows there are, and of a call.
LEMMA RowsNow ==
  AccountsIInv =>
    /\ \A s \in sessions : s \in SessionRow /\ s.user \in Accounts
    /\ \A t \in tokens : t \in TokenRow /\ t.user \in Accounts
    /\ \A u \in Accounts : u \in UserIds /\ users[u].password \in Nat
    /\ calls \in 0 .. MaxCalls /\ secrets \in Nat /\ bootstrapped \in Nat
    /\ \A r \in LoginCalls : Carries(r)
    /\ DOMAIN loginCall = LoginCalls
  <1> SUFFICES ASSUME AccountsIInv
               PROVE  /\ \A s \in sessions : s \in SessionRow /\ s.user \in Accounts
                      /\ \A t \in tokens : t \in TokenRow /\ t.user \in Accounts
                      /\ \A u \in Accounts : u \in UserIds /\ users[u].password \in Nat
                      /\ calls \in 0 .. MaxCalls /\ secrets \in Nat /\ bootstrapped \in Nat
    BY DEF AccountsIInv
  <1>1. \A u \in Accounts : users[u] \in AccountRow
    BY RowsAreRows DEF AccountsIInv
  <1>2. \A u \in Accounts : u \in UserIds /\ users[u].password \in Nat
    BY <1>1 DEF AccountRow, Accounts
  <1>. QED
    BY <1>2 DEF AccountsIInv, AccountsTypeOK, CredentialsHaveOwners, SessionRow, TokenRow

\* A goroutine takes something on; the others carry what they did.
LEMMA TakenOn ==
  ASSUME AccountsIInv, NEW r \in LoginCalls, NEW what, Serve(r, what),
         what.at \in {"free", "handle", "mint", "first"},
         what.at = "handle" => what.op \in Operations,
         what.at = "mint" => what.user \in UserIds,
         what.at = "first" => what.name \in Usernames
  PROVE  (\A q \in LoginCalls : Carries(q)') /\ DOMAIN loginCall' = LoginCalls
  BY DEF AccountsIInv, Serve, Carries

LEMMA AccountsStepIInv == AccountsIInv /\ [AccountsNext]_accountVars => AccountsIInv'
  <1> SUFFICES ASSUME AccountsIInv, [AccountsNext]_accountVars PROVE AccountsIInv'
    OBVIOUS
  <1>0. /\ \A s \in sessions : s \in SessionRow /\ s.user \in Accounts
        /\ \A t \in tokens : t \in TokenRow /\ t.user \in Accounts
        /\ \A u \in Accounts : u \in UserIds /\ users[u].password \in Nat
        /\ calls \in 0 .. MaxCalls /\ secrets \in Nat /\ bootstrapped \in Nat
        /\ \A r \in LoginCalls : Carries(r)
        /\ DOMAIN loginCall = LoginCalls
    BY RowsNow
  <1>00. MaxCalls \in Nat /\ "admin" \in Roles
    BY AccountsAssumption
  <1>1. ASSUME NEW r \in LoginCalls, Arrive(r) PROVE AccountsIInv'
    <2>1. PICK what : what.at = "handle" /\ what.op \in Operations /\ Serve(r, what)
      BY <1>1 DEF Arrive
    <2>2. (\A q \in LoginCalls : Carries(q)') /\ DOMAIN loginCall' = LoginCalls
      BY <2>1, TakenOn
    <2>. QED
      BY <1>0, <1>00, <1>1, <2>2, CredentialsMade DEF Arrive, Counted, AccountsIInv
  <1>2. ASSUME NEW r \in LoginCalls, Handle(r) PROVE AccountsIInv'
    <2>1. loginCall[r].op \in Operations
      BY <1>0, <1>2 DEF Handle, Carries
    <2>2. (\A q \in LoginCalls : Carries(q)') /\ DOMAIN loginCall' = LoginCalls
      BY <1>2, ServedCall DEF Handle
    <2>3. \A q \in LoginCalls : loginCall'[q].at \in {"free", "handle", "mint", "first"}
      BY <2>2 DEF Carries
    <2>4. UNCHANGED <<calls, bootstrapped>>
      BY <1>2 DEF Handle
    <2> DEFINE op == loginCall[r].op
               who == loginCall[r].who
    <2>5. CASE CreateUser(op) \/ DeleteUser(op) \/ SetRole(op) \/ SetPassword(op)
      BY <1>0, <2>1, <2>2, <2>3, <2>4, <2>5, OperationStep DEF AccountsIInv
    <2>6. CASE CreateToken(op, who)
      <3>1. /\ UNCHANGED <<users, sessions>> /\ secrets' \in Nat
            /\ \A t \in tokens' : t \in TokenRow /\ t.user \in Accounts
        BY <1>0, <2>6 DEF CreateToken, TokenRow
      <3>. QED
        BY <1>0, <2>2, <2>4, <3>1, CredentialsMade DEF AccountsIInv
    <2>7. CASE UNCHANGED <<users, sessions, secrets>> /\ tokens' \subseteq tokens
      BY <1>0, <2>2, <2>4, <2>7, CredentialsMade DEF AccountsIInv
    <2>. QED
      BY <1>2, <2>5, <2>6, <2>7 DEF Handle, DeleteToken
  <1>3. ASSUME NEW r \in LoginCalls, MintSession(r) PROVE AccountsIInv'
    <2>1. (\A q \in LoginCalls : Carries(q)') /\ DOMAIN loginCall' = LoginCalls
      BY <1>3, ServedCall DEF MintSession
    <2>2. \A s \in sessions' : s \in SessionRow /\ s.user \in Accounts
      <3>1. \A u \in Accounts, stale \in BOOLEAN :
              [user |-> u, secret |-> secrets + 1, expired |-> FALSE, stale |-> stale,
               password |-> users[u].password] \in SessionRow
        BY <1>0 DEF SessionRow
      <3>2. \A t \in sessions' : t \in sessions \/ \E u \in Accounts, stale \in BOOLEAN :
              t = [user |-> u, secret |-> secrets + 1, expired |-> FALSE, stale |-> stale,
                   password |-> users[u].password]
        BY <1>3 DEF MintSession
      <3>. QED
        BY <1>0, <3>1, <3>2
    <2>. QED
      BY <1>0, <1>3, <2>1, <2>2, CredentialsMade DEF MintSession, AccountsIInv
  <1>4. ASSUME NEW r \in LoginCalls, FirstUser(r) PROVE AccountsIInv'
    <2>1. (\A q \in LoginCalls : Carries(q)') /\ DOMAIN loginCall' = LoginCalls
      BY <1>4, ServedCall DEF FirstUser
    <2>2. PICK op \in Operations : op = [kind |-> "create", name |-> loginCall[r].name, role |-> "admin"]
      BY <1>0, <1>00, <1>4 DEF FirstUser, Carries, Operations
    <2>3. CreateUser(op) /\ bootstrapped' \in Nat /\ UNCHANGED calls
      BY <1>0, <1>4, <2>2 DEF FirstUser, CreateUser
    <2>4. \A q \in LoginCalls : loginCall'[q].at \in {"free", "handle", "mint", "first"}
      BY <2>1 DEF Carries
    <2>. QED
      BY <2>1, <2>3, <2>4, OperationStep DEF AccountsIInv
  <1>5. ASSUME NEW r \in LoginCalls, NEW name \in Usernames, Login(r, name) PROVE AccountsIInv'
    <2>1. PICK what : what.at = "mint" /\ what.user \in UserIds /\ Serve(r, what)
      BY <1>0, <1>5 DEF Login
    <2>2. (\A q \in LoginCalls : Carries(q)') /\ DOMAIN loginCall' = LoginCalls
      BY <2>1, TakenOn
    <2>. QED
      BY <1>0, <1>00, <1>5, <2>2, CredentialsMade DEF Login, Counted, AccountsIInv
  <1>6. ASSUME NEW r \in LoginCalls, NEW name \in Usernames, Bootstrap(r, name) PROVE AccountsIInv'
    <2>1. PICK what : what.at = "first" /\ what.name \in Usernames /\ Serve(r, what)
      BY <1>6 DEF Bootstrap
    <2>2. (\A q \in LoginCalls : Carries(q)') /\ DOMAIN loginCall' = LoginCalls
      BY <2>1, TakenOn
    <2>. QED
      BY <1>0, <1>00, <1>6, <2>2, CredentialsMade DEF Bootstrap, Counted, AccountsIInv
  <1>7. ASSUME NEW s \in sessions, Logout(s) \/ Expire(s) PROVE AccountsIInv'
    <2>1. UNCHANGED loginCall /\ \A q \in LoginCalls : Carries(q)'
      BY <1>0, <1>7 DEF Logout, Expire, Carries
    <2>2. \A t \in sessions' : t \in SessionRow /\ t.user \in Accounts
      BY ZenonT(60), <1>0, <1>7 DEF Logout, Expire, SessionRow
    <2>. QED
      BY <1>0, <1>00, <1>7, <2>1, <2>2, CredentialsMade DEF Logout, Expire, Counted, AccountsIInv
  <1>8. CASE PruneSessions \/ UNCHANGED accountVars
    <2>1. UNCHANGED <<users, tokens, loginCall, calls, secrets, bootstrapped>> /\ sessions' \subseteq sessions
      BY <1>8 DEF PruneSessions, accountVars
    <2>2. \A q \in LoginCalls : Carries(q)'
      BY <1>0, <2>1 DEF Carries
    <2>. QED
      BY <1>0, <2>1, <2>2, CredentialsMade DEF AccountsIInv
  <1>. QED
    BY <1>1, <1>2, <1>3, <1>4, <1>5, <1>6, <1>7, <1>8 DEF AccountsNext

LEMMA AccountsInvariantHolds == AccountsSpec => []AccountsIInv
  BY AccountsInitIInv, AccountsStepIInv, PTL DEF AccountsSpec

\* Every row of the database and every call keeps its type (auth.go).
THEOREM AccountsTypeCorrect == AccountsSpec => []AccountsTypeOK
  <1>1. AccountsIInv => AccountsTypeOK
    BY DEF AccountsIInv
  <1>. QED
    BY <1>1, AccountsInvariantHolds, PTL

\* Only these write a row.
LEMMA WhoWrites ==
  ASSUME AccountsIInv, AccountsNext, ~UNCHANGED users
  PROVE  \E op \in Operations :
           /\ CreateUser(op) \/ DeleteUser(op) \/ SetRole(op) \/ SetPassword(op)
           /\ \A r \in LoginCalls : loginCall'[r].at \in {"free", "handle", "mint", "first"}
  <1>1. ASSUME NEW r \in LoginCalls, Handle(r)
        PROVE  /\ loginCall[r].op \in Operations
               /\ \/ CreateUser(loginCall[r].op) \/ DeleteUser(loginCall[r].op)
                  \/ SetRole(loginCall[r].op) \/ SetPassword(loginCall[r].op)
               /\ \A q \in LoginCalls : Carries(q)'
    BY <1>1, RowsNow, ServedCall DEF Handle, CreateToken, DeleteToken, Carries
  <1>2. ASSUME NEW r \in LoginCalls, FirstUser(r)
        PROVE  \E op \in Operations : CreateUser(op) /\ \A q \in LoginCalls : Carries(q)'
    <2>1. PICK op \in Operations : op = [kind |-> "create", name |-> loginCall[r].name, role |-> "admin"]
      BY <1>2, AccountsAssumption, RowsNow DEF FirstUser, Carries, Operations
    <2>. QED
      BY <1>2, <2>1, ServedCall DEF FirstUser, CreateUser
  <1>3. ASSUME NEW r \in LoginCalls, NEW name \in Usernames,
               Arrive(r) \/ MintSession(r) \/ Login(r, name) \/ Bootstrap(r, name)
        PROVE  UNCHANGED users
    BY <1>3 DEF Arrive, MintSession, Login, Bootstrap
  <1>4. ASSUME NEW r \in LoginCalls, Arrive(r) \/ MintSession(r) PROVE UNCHANGED users
    BY <1>4 DEF Arrive, MintSession
  <1>5. ASSUME NEW s \in sessions, Logout(s) \/ Expire(s) PROVE UNCHANGED users
    BY <1>5 DEF Logout, Expire
  <1>. QED
    BY <1>1, <1>2, <1>3, <1>4, <1>5 DEF AccountsNext, PruneSessions, Carries

LEMMA StepsKeepAnAdmin == AccountsIInv /\ [AccountsNext]_accountVars => [KeepsAnAdmin]_accountVars
  <1> SUFFICES ASSUME AccountsIInv, AccountsNext, ~UNCHANGED users, Admins # {}
               PROVE  Admins' # {}
    BY DEF KeepsAnAdmin, Admins, Accounts
  <1>0. /\ AccountsTypeOK
        /\ users \in [UserIds -> {NoUser} \cup AccountRow]
        /\ Accounts \subseteq UserIds /\ NoUser \notin AccountRow
        /\ \A u \in Accounts : users[u] \in AccountRow
    BY RowsAreRows DEF AccountsIInv
  <1>1. PICK op \in Operations : CreateUser(op) \/ DeleteUser(op) \/ SetRole(op) \/ SetPassword(op)
    BY WhoWrites
  <1>2. ASSUME NEW id \in UserIds, \A u \in UserIds : u # id => users'[u] = users[u],
               id \in Admins => (users'[id] # NoUser /\ users'[id].role = "admin") \/ ~LastAdmin(id)
        PROVE  Admins' # {}
    <2>1. \A v \in Admins : v # id => v \in Admins'
      BY <1>0, <1>2 DEF Admins, Accounts
    <2>2. CASE id \in Admins /\ ~LastAdmin(id)
      BY <1>0, <2>1, <2>2, AdminsAreFinite
    <2>3. CASE id \in Admins /\ users'[id] # NoUser /\ users'[id].role = "admin"
      BY <2>3 DEF Admins, Accounts
    <2>. QED
      BY <1>2, <2>1, <2>2, <2>3
  <1>3. CASE CreateUser(op)
    <2>1. PICK id \in UserIds \ Accounts :
            users' = [users EXCEPT ![id] = [name |-> op.name, role |-> op.role, password |-> 1]]
      <3>1. op.name \in Usernames /\ op.role \in Roles
        BY <1>3 DEF CreateUser, Operations
      <3>. QED
        BY <1>0, <1>3, <3>1, InsertAdds DEF CreateUser
    <2>2. \A u \in UserIds : u # id => users'[u] = users[u]
      BY <1>0, <2>1
    <2>. QED
      BY <1>2, <2>1, <2>2 DEF Admins
  <1>4. CASE DeleteUser(op)
    <2>1. PICK id \in Accounts : ~LastAdmin(id) /\ users' = [users EXCEPT ![id] = NoUser]
      BY <1>4 DEF DeleteUser
    <2>2. \A u \in UserIds : u # id => users'[u] = users[u]
      BY <1>0, <2>1
    <2>. QED
      BY <1>0, <1>2, <2>1, <2>2
  <1>5. CASE SetRole(op)
    <2>1. PICK id \in Accounts : /\ ~(op.role # "admin" /\ LastAdmin(id))
                                 /\ users' = [users EXCEPT ![id].role = op.role]
      BY <1>5 DEF SetRole
    <2>2. /\ \A u \in UserIds : u # id => users'[u] = users[u]
          /\ users'[id] = [users[id] EXCEPT !.role = op.role]
      BY <1>0, <2>1
    <2>3. users[id] \in AccountRow /\ op.role \in Roles
      BY <1>0, <1>5 DEF SetRole, Operations
    <2>4. users'[id] \in AccountRow /\ users'[id].role = op.role
      BY <2>2, <2>3, RowChanged DEF AccountRow
    <2>. QED
      BY <1>0, <1>2, <2>1, <2>2, <2>4
  <1>6. CASE SetPassword(op)
    <2>1. PICK id \in Accounts : users' = [users EXCEPT ![id].password = @ + 1]
      BY <1>6 DEF SetPassword
    <2>2. /\ \A u \in UserIds : u # id => users'[u] = users[u]
          /\ users'[id] = [users[id] EXCEPT !.password = @ + 1]
      BY <1>0, <2>1
    <2>3. users[id] \in AccountRow
      BY <1>0
    <2>4. users'[id] \in AccountRow /\ users'[id].role = users[id].role
      BY <2>2, <2>3, RowChanged DEF AccountRow
    <2>. QED
      BY <1>0, <1>2, <2>2, <2>4 DEF Admins
  <1>. QED
    BY <1>1, <1>3, <1>4, <1>5, <1>6

LEMMA StepsDropOldCredentials ==
  AccountsIInv /\ [AccountsNext]_accountVars => [LeavesNoOldCredential]_accountVars
  <1> SUFFICES ASSUME AccountsIInv, AccountsNext, ~UNCHANGED users,
                      NEW u \in Accounts, users'[u] # NoUser, users'[u].password > users[u].password
               PROVE  \A s \in sessions' \cup tokens' : s.user # u
    <2>1. ASSUME AccountsIInv, UNCHANGED users, NEW u \in Accounts
          PROVE  ~(users'[u].password > users[u].password)
      BY <2>1, RowsNow
    <2>. QED
      BY <2>1 DEF LeavesNoOldCredential
  <1>0. /\ AccountsTypeOK
        /\ users \in [UserIds -> {NoUser} \cup AccountRow]
        /\ Accounts \subseteq UserIds
        /\ \A v \in Accounts : users[v] \in AccountRow
    BY RowsAreRows DEF AccountsIInv
  <1>1. PICK op \in Operations : CreateUser(op) \/ DeleteUser(op) \/ SetRole(op) \/ SetPassword(op)
    BY WhoWrites
  <1>2. users[u].password \in Nat
    BY RowsNow
  <1>3. ~CreateUser(op)
    <2>1. SUFFICES ASSUME CreateUser(op) PROVE FALSE
      OBVIOUS
    <2>2. op.name \in Usernames /\ op.role \in Roles
      BY <2>1 DEF CreateUser, Operations
    <2>3. PICK id \in UserIds \ Accounts :
            users' = [users EXCEPT ![id] = [name |-> op.name, role |-> op.role, password |-> 1]]
      BY <1>0, <2>1, <2>2, InsertAdds DEF CreateUser
    <2>. QED
      BY <1>0, <1>2, <2>3
  <1>4. ~DeleteUser(op)
    BY <1>0, <1>2 DEF DeleteUser
  <1>5. ~SetRole(op)
    BY <1>0, <1>2 DEF SetRole, AccountRow
  <1>6. CASE SetPassword(op)
    <2>1. op.user = u
      BY <1>0, <1>2, <1>6 DEF SetPassword
    <2>. QED
      BY <1>6, <2>1 DEF SetPassword, Without
  <1>. QED
    BY <1>1, <1>3, <1>4, <1>5, <1>6

\* A host that has an admin keeps one, no credential outlives its account or the password
\* it was made under (auth.go), whatever requests are half way.
THEOREM AccountsAreSafe == AccountsSpec => AccountsSafety
  <1>1. AccountsIInv => CredentialsHaveOwners
    BY DEF AccountsIInv
  <1>. QED
    BY <1>1, AccountsInvariantHolds, StepsKeepAnAdmin, StepsDropOldCredentials, PTL
    DEF AccountsSpec, AccountsSafety, AdminRemains, OldCredentialsAreGone

-----------------------------------------------------------------------------
(***************************************************************************)
(* Single sign-on.  The invariant says of a state that waits that nobody   *)
(* has gone on with it, of a row that it is a row (the account a link      *)
(* names can be told from no account), and of a callback what it has       *)
(* checked so far.                                                         *)
(***************************************************************************)
IsRow(x) == x = [role |-> x.role, email |-> x.email, by |-> x.by]

StatesWait ==
  /\ \A s \in parked : s \in [state : 1 .. issued, provider : ProviderKeys, expired : BOOLEAN]
  /\ \A s \in parked : taken[s.state] = 0
  /\ \A s, t \in parked : s.state = t.state => s = t
  /\ \A k \in 1 .. MaxStates : k > issued => taken[k] = 0

\* What a callback has in hand.
HasChecked(b) ==
  LET c == callback[b] IN
  /\ c.at \in {"ready", "lookup", "exchange", "sign"}
  /\ c.at = "lookup" => c.provider \in ProviderKeys
  /\ c.at \in {"exchange", "sign"} => c.config \in Configs
  /\ c.at = "sign" => c.identity \in Identities
  /\ c.at = "sign" => (c.config.domains # {} => c.identity.email # None)
  /\ c.at = "sign" => (c.config.groups # {} => c.identity.groups # {})

RowsOfAccounts ==
  /\ DOMAIN account = AccountIds
  /\ \A a \in AccountIds : IsRow(account[a])

SignInIInv ==
  /\ SignInTypeOK
  /\ StatesAreUsedOnce /\ StatesWait
  /\ OneIdentityPerAccount
  /\ RowsOfAccounts /\ InheritedRoleIsNoAdmin
  /\ DOMAIN callback = Callbacks /\ \A b \in Callbacks : HasChecked(b)

LEMMA SignInInitIInv == SignInInit => SignInIInv
  <1> SUFFICES ASSUME SignInInit PROVE SignInIInv
    OBVIOUS
  <1> USE DEF SignInInit
  <1>1. MaxStates \in Nat /\ MaxChanges \in Nat
    BY SignInAssumption
  <1>2. taken \in [1 .. MaxStates -> Nat] /\ \A k \in 1 .. MaxStates : taken[k] = 0
    OBVIOUS
  <1>3. SignInTypeOK
    BY <1>1, <1>2 DEF SignInTypeOK, Ready
  <1>4. StatesAreUsedOnce /\ StatesWait
    BY <1>2 DEF StatesAreUsedOnce, StatesWait
  <1>5. Existing = {}
    BY DEF Existing
  <1>6. OneIdentityPerAccount /\ InheritedRoleIsNoAdmin
    BY <1>5 DEF OneIdentityPerAccount, InheritedRoleIsNoAdmin
  <1>7. RowsOfAccounts
    BY DEF RowsOfAccounts, IsRow, Unused
  <1>8. DOMAIN callback = Callbacks /\ \A b \in Callbacks : HasChecked(b)
    BY DEF HasChecked, Ready
  <1>. QED
    BY <1>3, <1>4, <1>6, <1>7, <1>8 DEF SignInIInv

\* A callback goes on with what it has now; the others have what they had.
LEMMA GoesOn ==
  ASSUME SignInIInv, NEW b \in Callbacks, NEW what, Busy(b, what),
         what.at \in {"ready", "lookup", "exchange", "sign"},
         what.at = "lookup" => what.provider \in ProviderKeys,
         what.at \in {"exchange", "sign"} => what.config \in Configs,
         what.at = "sign" => what.identity \in Identities,
         what.at = "sign" => (what.config.domains # {} => what.identity.email # None),
         what.at = "sign" => (what.config.groups # {} => what.identity.groups # {})
  PROVE  DOMAIN callback' = Callbacks /\ \A q \in Callbacks : HasChecked(q)'
  BY DEF SignInIInv, Busy, HasChecked

LEMMA IsReadyAgain ==
  ASSUME SignInIInv, NEW b \in Callbacks, Busy(b, Ready)
  PROVE  DOMAIN callback' = Callbacks /\ \A q \in Callbacks : HasChecked(q)'
  BY DEF SignInIInv, Busy, HasChecked, Ready

\* Nothing about accounts changes.
LEMMA AccountsStay ==
  ASSUME SignInIInv, UNCHANGED <<account, links, signedIn>>
  PROVE  /\ OneIdentityPerAccount' /\ RowsOfAccounts' /\ InheritedRoleIsNoAdmin'
         /\ \A l \in links' \cup signedIn' : l.user \in AccountIds
  <1>1. UNCHANGED Existing
    BY DEF Existing
  <1>. QED
    BY <1>1 DEF SignInIInv, SignInTypeOK, OneIdentityPerAccount, RowsOfAccounts,
                InheritedRoleIsNoAdmin, IsRow

\* Nothing about states changes.
LEMMA StatesStay ==
  ASSUME SignInIInv, UNCHANGED <<parked, issued, taken>>
  PROVE  /\ StatesAreUsedOnce' /\ StatesWait' /\ issued' \in 0 .. MaxStates
         /\ taken' \in [1 .. MaxStates -> Nat]
  BY DEF SignInIInv, SignInTypeOK, StatesAreUsedOnce, StatesWait

\* The parts make the invariant.
LEMMA SignInParts ==
  ASSUME providers' \in [ProviderKeys -> Configs \cup {NoProvider}],
         changes' \in 0 .. MaxChanges,
         StatesAreUsedOnce', StatesWait', issued' \in 0 .. MaxStates,
         taken' \in [1 .. MaxStates -> Nat],
         OneIdentityPerAccount', RowsOfAccounts', InheritedRoleIsNoAdmin',
         \A l \in links' \cup signedIn' : l.user \in AccountIds,
         DOMAIN callback' = Callbacks, \A q \in Callbacks : HasChecked(q)'
  PROVE  SignInIInv'
  <1>1. \A s \in parked' : s.state \in 1 .. issued' /\ s.provider \in ProviderKeys /\ s.expired \in BOOLEAN
    BY DEF StatesWait
  <1>2. \A b \in Callbacks : callback'[b].at \in {"ready", "lookup", "exchange", "sign"}
    BY DEF HasChecked
  <1>. QED
    BY <1>1, <1>2 DEF SignInIInv, SignInTypeOK

-----------------------------------------------------------------------------
(* States *)

LEMMA SsoStartStates ==
  ASSUME SignInIInv, NEW p \in ProviderKeys, SsoStart(p)
  PROVE  /\ StatesAreUsedOnce' /\ StatesWait' /\ issued' \in 0 .. MaxStates
         /\ taken' \in [1 .. MaxStates -> Nat]
  <1> DEFINE new == [state |-> issued + 1, provider |-> p, expired |-> FALSE]
  <1>0. MaxStates \in Nat /\ issued \in 0 .. MaxStates /\ issued < MaxStates
    BY SignInAssumption DEF SsoStart, SignInIInv, SignInTypeOK
  <1>1. /\ issued' = issued + 1 /\ taken' = taken
        /\ \A s \in parked' : s \in parked \/ s = new
    BY DEF SsoStart
  <1>2. new \in [state : 1 .. issued', provider : ProviderKeys, expired : BOOLEAN]
    BY <1>0, <1>1
  <1>3. new.state = issued + 1
    OBVIOUS
  <1> HIDE DEF new
  <1>4. \A s \in parked : s.state \in 1 .. issued /\ taken[s.state] = 0
    BY DEF SignInIInv, StatesWait
  <1>5. \A s \in parked' : s \in [state : 1 .. issued', provider : ProviderKeys, expired : BOOLEAN]
    <2>1. 1 .. issued \subseteq 1 .. issued'
      BY <1>0, <1>1
    <2>. QED
      BY <1>1, <1>2, <2>1 DEF SignInIInv, StatesWait
  <1>6. taken[issued + 1] = 0
    BY <1>0 DEF SignInIInv, StatesWait
  <1>7. \A s \in parked' : taken'[s.state] = 0
    BY <1>1, <1>3, <1>4, <1>6
  <1>8. \A s, t \in parked' : s.state = t.state => s = t
    BY <1>0, <1>1, <1>3, <1>4 DEF SignInIInv, StatesWait
  <1>9. \A k \in 1 .. MaxStates : k > issued' => taken'[k] = 0
    BY <1>0, <1>1 DEF SignInIInv, StatesWait
  <1>10. StatesAreUsedOnce' /\ taken' \in [1 .. MaxStates -> Nat]
    BY <1>1 DEF SignInIInv, SignInTypeOK, StatesAreUsedOnce
  <1>11. issued' \in 0 .. MaxStates
    BY <1>0, <1>1
  <1>. QED
    BY <1>5, <1>7, <1>8, <1>9, <1>10, <1>11 DEF StatesWait

LEMMA TimeIsUpStates ==
  ASSUME SignInIInv, NEW s \in parked, TimeIsUp(s)
  PROVE  /\ StatesAreUsedOnce' /\ StatesWait' /\ issued' \in 0 .. MaxStates
         /\ taken' \in [1 .. MaxStates -> Nat]
  <1> DEFINE late == [s EXCEPT !.expired = TRUE]
  <1>1. s \in [state : 1 .. issued, provider : ProviderKeys, expired : BOOLEAN]
    BY DEF SignInIInv, StatesWait
  <1>2. /\ late \in [state : 1 .. issued, provider : ProviderKeys, expired : BOOLEAN]
        /\ late.state = s.state
    BY <1>1
  <1>3. /\ UNCHANGED <<issued, taken>>
        /\ \A t \in parked' : t = late \/ (t \in parked /\ t # s)
    BY DEF TimeIsUp
  <1> HIDE DEF late
  <1>4. \A t \in parked' : t \in [state : 1 .. issued', provider : ProviderKeys, expired : BOOLEAN]
    BY <1>2, <1>3 DEF SignInIInv, StatesWait
  <1>5. \A t \in parked' : taken'[t.state] = 0
    BY <1>2, <1>3 DEF SignInIInv, StatesWait
  <1>6. \A t, u \in parked' : t.state = u.state => t = u
    BY <1>2, <1>3 DEF SignInIInv, StatesWait
  <1>7. /\ StatesAreUsedOnce' /\ taken' \in [1 .. MaxStates -> Nat] /\ issued' \in 0 .. MaxStates
        /\ \A k \in 1 .. MaxStates : k > issued' => taken'[k] = 0
    BY <1>3 DEF SignInIInv, SignInTypeOK, StatesAreUsedOnce, StatesWait
  <1>. QED
    BY <1>4, <1>5, <1>6, <1>7 DEF StatesWait

LEMMA TakeStates ==
  ASSUME SignInIInv, NEW b \in Callbacks, NEW state \in 1 .. issued, Take(b, state)
  PROVE  /\ StatesAreUsedOnce' /\ StatesWait' /\ issued' \in 0 .. MaxStates
         /\ taken' \in [1 .. MaxStates -> Nat]
         /\ \E p \in ProviderKeys : Busy(b, [at |-> "lookup", provider |-> p])
  <1>1. PICK s \in parked :
          /\ s.state = state /\ parked' = parked \ {s}
          /\ taken' = [taken EXCEPT ![state] = @ + 1]
          /\ Busy(b, [at |-> "lookup", provider |-> s.provider])
    BY DEF Take
  <1>2. s.provider \in ProviderKeys /\ taken[state] = 0
    BY <1>1 DEF SignInIInv, StatesWait
  <1>3. MaxStates \in Nat /\ issued \in 0 .. MaxStates /\ taken \in [1 .. MaxStates -> Nat] /\ UNCHANGED issued
    BY SignInAssumption DEF Take, SignInIInv, SignInTypeOK
  <1>4. state \in 1 .. MaxStates
    BY <1>3
  <1>5. /\ taken' \in [1 .. MaxStates -> Nat]
        /\ taken'[state] = 1
        /\ \A k \in 1 .. MaxStates : k # state => taken'[k] = taken[k]
    BY <1>1, <1>2, <1>3, <1>4
  <1>6. StatesAreUsedOnce'
    BY <1>3, <1>5 DEF SignInIInv, StatesAreUsedOnce
  <1>7. \A t \in parked' : t \in parked /\ t.state # state
    BY <1>1 DEF SignInIInv, StatesWait
  <1>8. \A t \in parked' : taken'[t.state] = 0
    <2>1. \A t \in parked : t.state \in 1 .. MaxStates
      BY <1>3 DEF SignInIInv, StatesWait
    <2>. QED
      BY <1>5, <1>7, <2>1 DEF SignInIInv, StatesWait
  <1>9. \A k \in 1 .. MaxStates : k > issued' => taken'[k] = 0
    <2>1. ~(state > issued)
      BY <1>3
    <2>. QED
      BY <1>3, <1>5, <2>1 DEF SignInIInv, StatesWait
  <1>10. StatesWait'
    BY <1>3, <1>7, <1>8, <1>9 DEF SignInIInv, StatesWait
  <1>. QED
    BY <1>1, <1>2, <1>3, <1>5, <1>6, <1>10

-----------------------------------------------------------------------------
(* Accounts, their links and their sessions *)

LEMMA LinkedAccounts ==
  ASSUME SignInIInv, NEW dir, NEW identity, Linked(dir, identity)
  PROVE  /\ OneIdentityPerAccount' /\ RowsOfAccounts' /\ InheritedRoleIsNoAdmin'
         /\ \A l \in links' \cup signedIn' : l.user \in AccountIds
         /\ UNCHANGED links
  <1>1. PICK l \in links :
          /\ account' = [account EXCEPT ![l.user].email = IF identity.email # None THEN identity.email ELSE @]
          /\ Session(dir, identity, l.user)
          /\ UNCHANGED links
    BY DEF Linked
  <1>2. l.user \in AccountIds /\ l.user \in Existing
    BY DEF SignInIInv, SignInTypeOK, OneIdentityPerAccount
  <1>3. PICK u \in AccountIds, email \in {identity.email, account[l.user].email} :
          /\ u = l.user /\ account[u] # Unused
          /\ email = (IF identity.email # None THEN identity.email ELSE account[u].email)
          /\ account' = [account EXCEPT ![u].email = email]
    BY <1>1, <1>2 DEF Existing
  <1>4. IsRow(account[u]) /\ DOMAIN account = AccountIds
    BY DEF SignInIInv, RowsOfAccounts
  <1>5. /\ DOMAIN account' = AccountIds
        /\ account'[u] = [role |-> account[u].role, email |-> email, by |-> account[u].by]
        /\ \A a \in AccountIds : a # u => account'[a] = account[a]
    BY <1>3, <1>4 DEF IsRow
  <1>6. account'[u] # Unused
    BY <1>3, <1>4, <1>5 DEF Unused, IsRow
  <1>7. Existing' = Existing
    BY <1>3, <1>5, <1>6 DEF Existing
  <1>8. RowsOfAccounts'
    BY <1>5 DEF SignInIInv, RowsOfAccounts, IsRow
  <1>9. InheritedRoleIsNoAdmin'
    <2>1. u \in Existing
      BY <1>3 DEF Existing
    <2>2. account'[u].by = account[u].by /\ account'[u].role = account[u].role
      BY <1>5
    <2>3. \A a \in Existing : account'[a].by = account[a].by /\ account'[a].role = account[a].role
      BY <1>5, <2>2 DEF Existing
    <2>. QED
      BY <1>7, <2>3 DEF SignInIInv, InheritedRoleIsNoAdmin
  <1>10. \A s \in signedIn' : s \in signedIn \/ s.user = u
    BY <1>1, <1>3 DEF Session
  <1>11. \A k \in links' \cup signedIn' : k.user \in AccountIds /\ k.user \in Existing
    BY <1>1, <1>2, <1>3, <1>10 DEF SignInIInv, SignInTypeOK, OneIdentityPerAccount
  <1>12. OneIdentityPerAccount'
    BY <1>1, <1>7, <1>11 DEF SignInIInv, OneIdentityPerAccount
  <1>. QED
    BY <1>1, <1>8, <1>9, <1>11, <1>12

\* A link more, of an account nobody signs in to, for a subject that has none.
LEMMA LinkAdded ==
  ASSUME SignInIInv, NEW dir, NEW identity, NEW a \in AccountIds,
         ~KnownSubjects(dir, identity), LinksOf(a) = {},
         links' = links \cup {Link(dir, identity.subject, a)},
         Session(dir, identity, a),
         a \in Existing', Existing \subseteq Existing'
  PROVE  /\ OneIdentityPerAccount'
         /\ \A l \in links' \cup signedIn' : l.user \in AccountIds
  <1> DEFINE new == Link(dir, identity.subject, a)
  <1>1. new.directory = dir /\ new.subject = identity.subject /\ new.user = a
    BY DEF Link
  <1>2. \A l \in links' : l \in links \/ l = new
    OBVIOUS
  <1> HIDE DEF new
  <1>3. \A l \in links : l.user # a /\ ~(l.directory = dir /\ l.subject = identity.subject)
    BY DEF KnownSubjects, LinksOf
  <1>4. \A s \in signedIn' : s \in signedIn \/ s.user = a
    BY DEF Session
  <1>5. \A l \in links' \cup signedIn' : l.user \in AccountIds /\ l.user \in Existing'
    BY <1>1, <1>2, <1>4 DEF SignInIInv, SignInTypeOK, OneIdentityPerAccount
  <1>6. \A l, k \in links' :
          (l.user = k.user \/ (l.directory = k.directory /\ l.subject = k.subject)) => l = k
    BY <1>1, <1>2, <1>3 DEF SignInIInv, OneIdentityPerAccount
  <1>. QED
    BY <1>5, <1>6 DEF OneIdentityPerAccount

\* A role that a provider left to the host is not an admin's.
Inherits(role, by) == by = "" => role # "admin"

LEMMA NoAdminInherits ==
  InheritedRoleIsNoAdmin <=> \A a \in Existing : Inherits(account[a].role, account[a].by)
  BY Zenon DEF InheritedRoleIsNoAdmin, Inherits

\* A row more.
LEMMA RowAdded ==
  ASSUME SignInIInv, NEW role, NEW email, NEW by, by # None,
         Inherits(role, by),
         NEW id, id = Max(Existing \cup {0}) + 1, id <= MaxAccounts,
         account' = [account EXCEPT ![id] = [role |-> role, email |-> email, by |-> by]]
  PROVE  /\ RowsOfAccounts' /\ InheritedRoleIsNoAdmin'
         /\ id \in AccountIds \ Existing
         /\ Existing' = Existing \cup {id}
  <1>1. MaxAccounts \in Nat
    BY SignInAssumption
  <1>2. Existing \in SUBSET (1 .. MaxAccounts)
    BY DEF Existing, AccountIds
  <1>3. id \in Nat \ {0} /\ id \notin Existing
    BY <1>1, <1>2, NextIdIsFree
  <1>4. id \in AccountIds
    BY <1>1, <1>3 DEF AccountIds
  <1>5. /\ DOMAIN account' = AccountIds
        /\ account'[id] = [role |-> role, email |-> email, by |-> by]
        /\ \A x \in AccountIds : x # id => account'[x] = account[x]
    BY <1>3, <1>4 DEF SignInIInv, RowsOfAccounts
  <1>6. account'[id] # Unused
    <2>1. account'[id].by # None /\ Unused.by = None
      BY <1>5 DEF Unused
    <2>. QED
      BY <2>1
  <1>7. Existing' = Existing \cup {id}
    BY <1>4, <1>5, <1>6 DEF Existing
  <1>8. RowsOfAccounts'
    BY <1>5 DEF SignInIInv, RowsOfAccounts, IsRow
  <1>9. InheritedRoleIsNoAdmin'
    <2>1. \A x \in Existing : x # id /\ account'[x] = account[x]
      BY <1>3, <1>5 DEF Existing
    <2>2. \A x \in Existing : Inherits(account'[x].role, account'[x].by)
      BY <2>1, NoAdminInherits DEF SignInIInv
    <2>3. Inherits(account'[id].role, account'[id].by)
      BY <1>5
    <2>4. \A x \in Existing' : Inherits(account'[x].role, account'[x].by)
      BY <1>7, <2>2, <2>3
    <2>. QED
      BY <2>4, Zenon DEF Inherits, InheritedRoleIsNoAdmin
  <1>. QED
    BY <1>3, <1>4, <1>7, <1>8, <1>9

LEMMA AdoptedAccounts ==
  ASSUME SignInIInv, NEW dir, NEW identity, Adopted(dir, identity)
  PROVE  /\ OneIdentityPerAccount' /\ RowsOfAccounts' /\ InheritedRoleIsNoAdmin'
         /\ \A l \in links' \cup signedIn' : l.user \in AccountIds
  <1>1. PICK a \in Existing :
          /\ Adoptable(identity, a)
          /\ links' = links \cup {Link(dir, identity.subject, a)}
          /\ Session(dir, identity, a)
    BY DEF Adopted
  <1>2. ~KnownSubjects(dir, identity) /\ UNCHANGED account
    BY DEF Adopted
  <1>3. UNCHANGED Existing
    BY <1>2 DEF Existing
  <1>4. a \in AccountIds
    BY DEF Existing
  <1>5. LinksOf(a) = {}
    BY <1>1 DEF Adoptable
  <1>6. /\ OneIdentityPerAccount'
        /\ \A l \in links' \cup signedIn' : l.user \in AccountIds
    BY <1>1, <1>2, <1>3, <1>4, <1>5, LinkAdded
  <1>. QED
    BY <1>2, <1>3, <1>6 DEF SignInIInv, RowsOfAccounts, InheritedRoleIsNoAdmin, IsRow

LEMMA CreatedAccounts ==
  ASSUME SignInIInv, NEW cfg \in Configs, NEW identity, Created(cfg, identity)
  PROVE  /\ OneIdentityPerAccount' /\ RowsOfAccounts' /\ InheritedRoleIsNoAdmin'
         /\ \A l \in links' \cup signedIn' : l.user \in AccountIds
         /\ \E a \in AccountIds \ Existing :
              links' = links \cup {Link(cfg.directory, identity.subject, a)}
  <1> DEFINE a == Max(Existing \cup {0}) + 1
  <1>1. /\ a <= MaxAccounts
        /\ account' = [account EXCEPT ![a] =
             [role |-> RoleFor(cfg), email |-> identity.email, by |-> cfg.role]]
        /\ links' = links \cup {Link(cfg.directory, identity.subject, a)}
        /\ Session(cfg.directory, identity, a)
        /\ ~KnownSubjects(cfg.directory, identity)
    BY DEF Created
  <1>2. cfg.role # None
    BY SignInAssumption
  <1>3. Inherits(RoleFor(cfg), cfg.role)
    BY Zenon DEF RoleFor, Inherits
  <1>4. /\ RowsOfAccounts' /\ InheritedRoleIsNoAdmin'
        /\ a \in AccountIds \ Existing
        /\ Existing' = Existing \cup {a}
    BY <1>1, <1>2, <1>3, RowAdded
  <1> HIDE DEF a
  <1>5. LinksOf(a) = {}
    BY <1>4 DEF LinksOf, SignInIInv, OneIdentityPerAccount
  <1>6. /\ OneIdentityPerAccount'
        /\ \A l \in links' \cup signedIn' : l.user \in AccountIds
    BY <1>1, <1>4, <1>5, LinkAdded
  <1>. QED
    BY <1>1, <1>4, <1>6

LEMMA AddAccountAccounts ==
  ASSUME SignInIInv, NEW email \in LocalEmails, AddAccount(email)
  PROVE  /\ OneIdentityPerAccount' /\ RowsOfAccounts' /\ InheritedRoleIsNoAdmin'
         /\ \A l \in links' \cup signedIn' : l.user \in AccountIds
  <1>1. PICK role, by : role = "admin" /\ by = "admin"
    OBVIOUS
  <1>2. PICK id : /\ id = Max(Existing \cup {0}) + 1 /\ id <= MaxAccounts
                  /\ account' = [account EXCEPT ![id] = [role |-> role, email |-> email, by |-> by]]
    BY <1>1 DEF AddAccount
  <1>3. by # None
    BY <1>1 DEF None
  <1>4. Inherits(role, by)
    BY <1>1, Zenon DEF Inherits
  <1>5. RowsOfAccounts' /\ InheritedRoleIsNoAdmin' /\ Existing \subseteq Existing'
    BY <1>2, <1>3, <1>4, RowAdded
  <1>6. UNCHANGED <<links, signedIn>>
    BY DEF AddAccount
  <1>. QED
    BY <1>5, <1>6 DEF SignInIInv, SignInTypeOK, OneIdentityPerAccount

LEMMA DropAccountAccounts ==
  ASSUME SignInIInv, NEW a \in AccountIds, DropAccount(a)
  PROVE  /\ OneIdentityPerAccount' /\ RowsOfAccounts' /\ InheritedRoleIsNoAdmin'
         /\ \A l \in links' \cup signedIn' : l.user \in AccountIds
  <1>1. /\ \A l \in links' : l \in links /\ l.user # a
        /\ \A s \in signedIn' : s \in signedIn /\ s.user # a
        /\ account' = [account EXCEPT ![a] = Unused]
    BY DEF DropAccount, LinksOf
  <1>2. /\ DOMAIN account' = AccountIds /\ account'[a] = Unused
        /\ \A x \in AccountIds : x # a => account'[x] = account[x]
    BY <1>1 DEF SignInIInv, RowsOfAccounts
  <1>3. Existing' = Existing \ {a}
    BY <1>2 DEF Existing
  <1>4. RowsOfAccounts'
    BY <1>2 DEF SignInIInv, RowsOfAccounts, IsRow, Unused
  <1>5. InheritedRoleIsNoAdmin'
    <2>1. \A x \in Existing' : x \in Existing /\ account'[x] = account[x]
      BY <1>2, <1>3 DEF Existing
    <2>. QED
      BY <2>1 DEF SignInIInv, InheritedRoleIsNoAdmin
  <1>. QED
    BY <1>1, <1>3, <1>4, <1>5 DEF SignInIInv, SignInTypeOK, OneIdentityPerAccount

-----------------------------------------------------------------------------
LEMMA SignInStepIInv == SignInIInv /\ [SignInNext]_signInVars => SignInIInv'
  <1> SUFFICES ASSUME SignInIInv, [SignInNext]_signInVars PROVE SignInIInv'
    OBVIOUS
  <1>0. /\ providers \in [ProviderKeys -> Configs \cup {NoProvider}]
        /\ changes \in 0 .. MaxChanges /\ MaxChanges \in Nat
        /\ DOMAIN callback = Callbacks
        /\ \A b \in Callbacks : HasChecked(b)
    BY SignInAssumption DEF SignInIInv, SignInTypeOK
  <1>1. ASSUME NEW p \in ProviderKeys, SsoStart(p) PROVE SignInIInv'
    <2>1. UNCHANGED <<providers, account, links, callback, signedIn, changes>>
      BY <1>1 DEF SsoStart
    <2>2. \A b \in Callbacks : HasChecked(b)'
      BY <1>0, <2>1 DEF HasChecked
    <2>. QED
      BY <1>0, <1>1, <2>1, <2>2, SsoStartStates, AccountsStay, SignInParts
  <1>2. ASSUME NEW s \in parked, TimeIsUp(s) PROVE SignInIInv'
    <2>1. UNCHANGED <<providers, account, links, callback, signedIn, changes>>
      BY <1>2 DEF TimeIsUp
    <2>2. \A b \in Callbacks : HasChecked(b)'
      BY <1>0, <2>1 DEF HasChecked
    <2>. QED
      BY <1>0, <1>2, <2>1, <2>2, TimeIsUpStates, AccountsStay, SignInParts
  <1>3. ASSUME NEW b \in Callbacks, NEW state \in 1 .. issued, Take(b, state) PROVE SignInIInv'
    <2>1. UNCHANGED <<providers, account, links, signedIn, changes>>
      BY <1>3 DEF Take
    <2>2. PICK what : what.at = "lookup" /\ what.provider \in ProviderKeys /\ Busy(b, what)
      BY <1>3, TakeStates
    <2>3. DOMAIN callback' = Callbacks /\ \A q \in Callbacks : HasChecked(q)'
      BY <2>2, GoesOn
    <2>. QED
      BY <1>0, <1>3, <2>1, <2>3, TakeStates, AccountsStay, SignInParts
  <1>4. ASSUME NEW b \in Callbacks, LookUp(b) PROVE SignInIInv'
    <2>1. UNCHANGED <<providers, parked, issued, taken, account, links, signedIn, changes>>
      BY <1>4 DEF LookUp
    <2>2. CASE Busy(b, Ready)
      BY <1>0, <2>1, <2>2, IsReadyAgain, AccountsStay, StatesStay, SignInParts
    <2>3. CASE ~Busy(b, Ready)
      <3>1. PICK p \in Enabled : Busy(b, [at |-> "exchange", config |-> providers[p]])
        BY <1>4, <2>3 DEF LookUp
      <3>2. providers[p] \in Configs
        BY <1>0, <3>1 DEF Enabled
      <3>3. PICK what : what.at = "exchange" /\ what.config \in Configs /\ Busy(b, what)
        BY <3>1, <3>2
      <3>4. DOMAIN callback' = Callbacks /\ \A q \in Callbacks : HasChecked(q)'
        BY <3>3, GoesOn
      <3>. QED
        BY <1>0, <2>1, <3>4, AccountsStay, StatesStay, SignInParts
    <2>. QED
      BY <2>2, <2>3
  <1>5. ASSUME NEW b \in Callbacks, Exchange(b) PROVE SignInIInv'
    <2>1. UNCHANGED <<providers, parked, issued, taken, account, links, signedIn, changes>>
      BY <1>5 DEF Exchange
    <2>2. CASE Busy(b, Ready)
      BY <1>0, <2>1, <2>2, IsReadyAgain, AccountsStay, StatesStay, SignInParts
    <2>3. CASE ~Busy(b, Ready)
      <3>1. PICK identity \in Identities, groupsArrived \in BOOLEAN, cfg \in Configs :
              /\ Admitted(cfg, identity, groupsArrived)
              /\ Busy(b, [at |-> "sign", config |-> cfg, identity |-> identity])
        BY <1>0, <1>5, <2>3 DEF Exchange, HasChecked
      <3>2. cfg.domains # {} => identity.email # None
        BY <3>1, SignInAssumption DEF Admitted, EmailAllowed
      <3>3. cfg.groups # {} => identity.groups # {}
        BY <3>1 DEF Admitted, GroupsAllowed
      <3>4. PICK what : /\ what.at = "sign" /\ what.config = cfg /\ what.identity = identity
                        /\ Busy(b, what)
        BY <3>1
      <3>5. DOMAIN callback' = Callbacks /\ \A q \in Callbacks : HasChecked(q)'
        BY <3>2, <3>3, <3>4, GoesOn
      <3>. QED
        BY <1>0, <2>1, <3>5, AccountsStay, StatesStay, SignInParts
    <2>. QED
      BY <2>2, <2>3
  <1>6. ASSUME NEW b \in Callbacks, SignInWith(b) PROVE SignInIInv'
    <2>1. UNCHANGED <<providers, parked, issued, taken, changes>> /\ Busy(b, Ready)
      BY <1>6 DEF SignInWith
    <2>2. PICK cfg \in Configs, identity \in Identities :
            Linked(cfg.directory, identity) \/ Adopted(cfg.directory, identity) \/ Created(cfg, identity)
      BY <1>0, <1>6 DEF SignInWith, HasChecked
    <2>3. /\ OneIdentityPerAccount' /\ RowsOfAccounts' /\ InheritedRoleIsNoAdmin'
          /\ \A l \in links' \cup signedIn' : l.user \in AccountIds
      BY <2>2, LinkedAccounts, AdoptedAccounts, CreatedAccounts
    <2>. QED
      BY <1>0, <2>1, <2>3, IsReadyAgain, StatesStay, SignInParts
  <1>7. ASSUME NEW p \in ProviderKeys, NEW cfg \in Configs,
               SetSsoProvider(p, cfg) \/ DeleteSsoProvider(p)
        PROVE  SignInIInv'
    <2>1. UNCHANGED <<parked, issued, account, links, callback, taken, signedIn>>
      BY <1>7 DEF SetSsoProvider, DeleteSsoProvider
    <2>2. providers' \in [ProviderKeys -> Configs \cup {NoProvider}] /\ changes' \in 0 .. MaxChanges
      BY <1>0, <1>7 DEF SetSsoProvider, DeleteSsoProvider, Changed
    <2>3. \A b \in Callbacks : HasChecked(b)'
      BY <1>0, <2>1 DEF HasChecked
    <2>. QED
      BY <1>0, <2>1, <2>2, <2>3, AccountsStay, StatesStay, SignInParts
  <1>8. ASSUME NEW p \in ProviderKeys, DeleteSsoProvider(p) PROVE SignInIInv'
    <2>1. UNCHANGED <<parked, issued, account, links, callback, taken, signedIn>>
      BY <1>8 DEF DeleteSsoProvider
    <2>2. providers' \in [ProviderKeys -> Configs \cup {NoProvider}] /\ changes' \in 0 .. MaxChanges
      BY <1>0, <1>8 DEF DeleteSsoProvider, Changed
    <2>3. \A b \in Callbacks : HasChecked(b)'
      BY <1>0, <2>1 DEF HasChecked
    <2>. QED
      BY <1>0, <2>1, <2>2, <2>3, AccountsStay, StatesStay, SignInParts
  <1>9. ASSUME NEW email \in LocalEmails, AddAccount(email) PROVE SignInIInv'
    <2>1. UNCHANGED <<providers, parked, issued, callback, taken>> /\ changes' \in 0 .. MaxChanges
      BY <1>0, <1>9 DEF AddAccount, Changed
    <2>2. \A b \in Callbacks : HasChecked(b)'
      BY <1>0, <2>1 DEF HasChecked
    <2>. QED
      BY <1>0, <1>9, <2>1, <2>2, AddAccountAccounts, StatesStay, SignInParts
  <1>10. ASSUME NEW a \in AccountIds, DropAccount(a) PROVE SignInIInv'
    <2>1. UNCHANGED <<providers, parked, issued, callback, taken>> /\ changes' \in 0 .. MaxChanges
      BY <1>0, <1>10 DEF DropAccount, Changed
    <2>2. \A b \in Callbacks : HasChecked(b)'
      BY <1>0, <2>1 DEF HasChecked
    <2>. QED
      BY <1>0, <1>10, <2>1, <2>2, DropAccountAccounts, StatesStay, SignInParts
  <1>11. CASE UNCHANGED signInVars
    <2>1. UNCHANGED <<providers, parked, issued, account, links, callback, taken, signedIn, changes>>
      BY <1>11 DEF signInVars
    <2>2. \A b \in Callbacks : HasChecked(b)'
      BY <1>0, <2>1 DEF HasChecked
    <2>. QED
      BY <1>0, <2>1, <2>2, AccountsStay, StatesStay, SignInParts
  <1>. QED
    BY <1>1, <1>2, <1>3, <1>4, <1>5, <1>6, <1>7, <1>8, <1>9, <1>10, <1>11 DEF SignInNext

LEMMA SignInInvariantHolds == SignInSpec => []SignInIInv
  BY SignInInitIInv, SignInStepIInv, PTL DEF SignInSpec

\* Every row, every state that waits and every callback keeps its type (sso, auth.go).
THEOREM SignInTypeCorrect == SignInSpec => []SignInTypeOK
  <1>1. SignInIInv => SignInTypeOK
    BY DEF SignInIInv
  <1>. QED
    BY <1>1, SignInInvariantHolds, PTL

LEMMA StepsKeepTheirAccount ==
  SignInIInv /\ [SignInNext]_signInVars => [KeepsTheirAccount]_signInVars
  <1> SUFFICES ASSUME SignInIInv, SignInNext, NEW l \in links, account'[l.user] # Unused,
                      l \notin links'
               PROVE  FALSE
    BY DEF KeepsTheirAccount
  <1>1. PICK a \in AccountIds : DropAccount(a)
    BY DEF SignInNext, SsoStart, DeleteSsoProvider, SetSsoProvider, TimeIsUp, LookUp, Exchange,
           SignInWith, Linked, Adopted, Created, Take, AddAccount
  <1>2. l.user = a
    BY <1>1 DEF DropAccount, LinksOf
  <1>. QED
    BY <1>1, <1>2 DEF DropAccount, SignInIInv, RowsOfAccounts

LEMMA StepsAdoptVerified ==
  SignInIInv /\ [SignInNext]_signInVars => [AdoptsVerified]_signInVars
  <1> SUFFICES ASSUME SignInIInv, SignInNext, NEW l \in links' \ links, account[l.user] # Unused
               PROVE  \E i \in Identities : /\ i.subject = l.subject /\ i.verified = "yes"
                                            /\ i.email = account[l.user].email
    BY DEF AdoptsVerified
  <1>1. PICK b \in Callbacks : SignInWith(b)
    BY DEF SignInNext, SsoStart, DeleteSsoProvider, SetSsoProvider, TimeIsUp, LookUp, Exchange,
           Take, AddAccount, DropAccount
  <1>2. PICK cfg \in Configs, identity \in Identities :
          Linked(cfg.directory, identity) \/ Adopted(cfg.directory, identity) \/ Created(cfg, identity)
    BY <1>1 DEF SignInWith, SignInIInv, HasChecked
  <1>3. CASE Linked(cfg.directory, identity)
    BY <1>3 DEF Linked
  <1>4. CASE Created(cfg, identity)
    <2>1. PICK a \in AccountIds \ Existing :
            links' = links \cup {Link(cfg.directory, identity.subject, a)}
      BY <1>4, CreatedAccounts
    <2>. QED
      BY <2>1 DEF Link, Existing
  <1>5. CASE Adopted(cfg.directory, identity)
    <2>1. PICK a \in Existing :
            Adoptable(identity, a) /\ links' = links \cup {Link(cfg.directory, identity.subject, a)}
      BY <1>5 DEF Adopted
    <2>2. identity.verified = "yes" /\ account[a].email = identity.email
      BY <2>1 DEF Adoptable, Candidates
    <2>3. l.subject = identity.subject /\ l.user = a
      BY <2>1 DEF Link
    <2>. QED
      BY <2>2, <2>3
  <1>. QED
    BY <1>2, <1>3, <1>4, <1>5

\* A state is used once, identity is (directory, subject) and one account's, rules fail closed,
\* no role is inherited as an admin's, and only a verified address adopts an account (sso, auth.go).
THEOREM SignInIsSafe == SignInSpec => SignInSafety
  <1>1. SignInIInv => StatesAreUsedOnce /\ OneIdentityPerAccount /\ RulesFailClosed
                      /\ InheritedRoleIsNoAdmin
    BY DEF SignInIInv, RulesFailClosed, HasChecked
  <1>. QED
    BY <1>1, SignInInvariantHolds, StepsKeepTheirAccount, StepsAdoptVerified, PTL
    DEF SignInSpec, SignInSafety, SubjectsKeepTheirAccount, OnlyVerifiedAdopts
================================================================================
