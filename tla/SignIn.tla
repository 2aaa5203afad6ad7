-------------------------------- MODULE SignIn --------------------------------
(***************************************************************************)
(* Single sign-on: the round trip to an identity provider                  *)
(* (api/routes_auth.go), the state that waits for it (sso/transient.go),   *)
(* the rules a provider is stored with (sso/sso.go) and the transaction    *)
(* that turns an identity into an account and a session (auth/auth.go).    *)
(* The provider itself is outside: it answers a code with any identity.    *)
(* An address stands for itself and its domain, a user name for its        *)
(* pattern; what a stored row is parsed into is left out.                  *)
(***************************************************************************)
EXTENDS Integers, FiniteSets, FiniteSetsExt

CONSTANTS
    ProviderKeys, Configs,  \* slugs, and what may be stored under one
    Identities,             \* what providers answer
    LocalEmails,            \* addresses of the accounts an admin makes
    HostDefaultRole,        \* the default_role setting
    Callbacks,              \* goroutines that serve a callback
    MaxStates, MaxAccounts, MaxChanges  \* bounds: sign-ins begun, rows of accounts, what admins do

VARIABLES
    providers,  \* slug -> its config, or none
    parked,     \* states that wait: which slug they were for, and whether their time is up
    issued,     \* states ever given out
    account,    \* id -> role, email, and who made it
    links,      \* (directory, subject) -> account
    callback,   \* goroutine -> what it is about to do
    taken,      \* state -> callbacks that went on with it
    signedIn,   \* who got a session: the account and the identity
    changes

signInVars == <<providers, parked, issued, account, links, callback, taken, signedIn, changes>>

AccountIds == 1 .. MaxAccounts
None == "none"
NoProvider == [enabled |-> FALSE]
Unused == [role |-> None, email |-> None, by |-> None]
Existing == {a \in AccountIds : account[a] # Unused}

ASSUME SignInAssumption ==
    /\ MaxStates \in Nat /\ MaxAccounts \in Nat /\ MaxChanges \in Nat
    /\ \A c \in Configs : c.enabled \in BOOLEAN /\ c.role # None /\ None \notin c.domains

-----------------------------------------------------------------------------
(* The rules: a rule and nothing to check it against is a refusal.          *)

EmailAllowed(email, allowed) == allowed = {} \/ email \in allowed
UsernameAllowed(username, allowed) == allowed = {} \/ username \in allowed
GroupsAllowed(groups, required) == required = {} \/ groups \cap required # {}

\* The groups are asked for only when a rule needs them; that they did not arrive is a refusal.
Admitted(cfg, identity, groupsArrived) ==
    /\ EmailAllowed(identity.email, cfg.domains)
    /\ UsernameAllowed(identity.username, cfg.usernames)
    /\ cfg.groups = {} \/ (groupsArrived /\ GroupsAllowed(identity.groups, cfg.groups))

\* The provider's role, or the host's, which never makes an admin this way.
RoleFor(cfg) ==
    IF cfg.role # "" THEN cfg.role
    ELSE IF HostDefaultRole = "admin" THEN "maintainer" ELSE HostDefaultRole

-----------------------------------------------------------------------------
(* The round trip                                                           *)

Busy(b, what) == callback' = [callback EXCEPT ![b] = what]
Ready == [at |-> "ready"]

Enabled == {p \in ProviderKeys : providers[p] # NoProvider /\ providers[p].enabled}

\* GET start: a state is parked, and those whose time is up are swept.
SsoStart(p) ==
    /\ p \in Enabled /\ issued < MaxStates
    /\ issued' = issued + 1
    /\ parked' = {s \in parked : ~s.expired} \cup {[state |-> issued + 1, provider |-> p, expired |-> FALSE]}
    /\ UNCHANGED <<providers, account, links, callback, taken, signedIn, changes>>

TimeIsUp(s) ==
    /\ ~s.expired
    /\ parked' = (parked \ {s}) \cup {[s EXCEPT !.expired = TRUE]}
    /\ UNCHANGED <<providers, issued, account, links, callback, taken, signedIn, changes>>

\* GET callback: the state is taken, by one statement, if its time is not up.
Take(b, state) ==
    /\ callback[b] = Ready
    /\ \E s \in parked :
         /\ s.state = state /\ ~s.expired
         /\ parked' = parked \ {s}
         /\ taken' = [taken EXCEPT ![state] = @ + 1]
         /\ Busy(b, [at |-> "lookup", provider |-> s.provider])
    /\ UNCHANGED <<providers, issued, account, links, signedIn, changes>>

\* The provider the sign-in was begun with, as it is now and if it still may be used.
LookUp(b) ==
    /\ callback[b].at = "lookup"
    /\ LET p == callback[b].provider
       IN Busy(b, IF p \in Enabled THEN [at |-> "exchange", config |-> providers[p]] ELSE Ready)
    /\ UNCHANGED <<providers, parked, issued, account, links, taken, signedIn, changes>>

\* The code is exchanged and an identity comes back, or neither.
Exchange(b) ==
    /\ callback[b].at = "exchange"
    /\ \/ \E identity \in Identities, groupsArrived \in BOOLEAN :
            Busy(b, IF Admitted(callback[b].config, identity, groupsArrived)
                    THEN [at |-> "sign", config |-> callback[b].config, identity |-> identity]
                    ELSE Ready)
       \/ Busy(b, Ready)
    /\ UNCHANGED <<providers, parked, issued, account, links, taken, signedIn, changes>>

-----------------------------------------------------------------------------
(* ssoSignIn: one transaction.                                              *)

Link(dir, subject, a) == [directory |-> dir, subject |-> subject, user |-> a]
LinksOf(a) == {l \in links : l.user = a}
Session(dir, identity, a) ==
    signedIn' = signedIn \cup {[directory |-> dir, subject |-> identity.subject, user |-> a]}

\* Known: the address follows the provider's.
Linked(dir, identity) ==
    \E l \in links :
      /\ l.directory = dir /\ l.subject = identity.subject
      /\ account' = [account EXCEPT ![l.user].email = IF identity.email # None THEN identity.email ELSE @]
      /\ Session(dir, identity, l.user)
      /\ UNCHANGED links

Candidates(identity) == {a \in Existing : account[a].email = identity.email}

Adoptable_Linked(identity, a) ==
    /\ identity.email # None /\ identity.verified = "yes"
    /\ Candidates(identity) = {a}
\* An address the provider has verified, of exactly one account, that nobody else signs in to.
Adoptable(identity, a) ==
    /\ identity.email # None /\ identity.verified = "yes"
    /\ Candidates(identity) = {a} /\ LinksOf(a) = {}

KnownSubjects(dir, identity) == \E l \in links : l.directory = dir /\ l.subject = identity.subject

Adopted(dir, identity) ==
    /\ ~KnownSubjects(dir, identity)
    /\ \E a \in Existing :
         /\ Adoptable(identity, a)
         /\ links' = links \cup {Link(dir, identity.subject, a)}
         /\ Session(dir, identity, a)
    /\ UNCHANGED account

Created(cfg, identity) ==
    /\ ~KnownSubjects(cfg.directory, identity) /\ ~\E a \in Existing : Adoptable(identity, a)
    /\ LET a == Max(Existing \cup {0}) + 1
       IN /\ a <= MaxAccounts
          /\ account' = [account EXCEPT ![a] =
               [role |-> RoleFor(cfg), email |-> identity.email, by |-> cfg.role]]
          /\ links' = links \cup {Link(cfg.directory, identity.subject, a)}
          /\ Session(cfg.directory, identity, a)

SignInWith(b) ==
    /\ callback[b].at = "sign"
    /\ LET cfg == callback[b].config
           identity == callback[b].identity
       IN Linked(cfg.directory, identity) \/ Adopted(cfg.directory, identity) \/ Created(cfg, identity)
    /\ Busy(b, Ready)
    /\ UNCHANGED <<providers, parked, issued, taken, changes>>

-----------------------------------------------------------------------------
(* What admins do meanwhile                                                 *)

Changed == changes < MaxChanges /\ changes' = changes + 1

SetSsoProvider(p, cfg) ==
    /\ Changed /\ providers' = [providers EXCEPT ![p] = cfg]
    /\ UNCHANGED <<parked, issued, account, links, callback, taken, signedIn>>
\* The links stay.
DeleteSsoProvider(p) ==
    /\ Changed /\ providers[p] # NoProvider /\ providers' = [providers EXCEPT ![p] = NoProvider]
    /\ UNCHANGED <<parked, issued, account, links, callback, taken, signedIn>>

AddAccount(email) ==
    /\ Changed
    /\ LET a == Max(Existing \cup {0}) + 1
       IN /\ a <= MaxAccounts
          /\ account' = [account EXCEPT ![a] = [role |-> "admin", email |-> email, by |-> "admin"]]
    /\ UNCHANGED <<providers, parked, issued, links, callback, taken, signedIn>>
\* Its links and sessions go with it.
DropAccount(a) ==
    /\ Changed /\ a \in Existing
    /\ account' = [account EXCEPT ![a] = Unused]
    /\ links' = links \ LinksOf(a)
    /\ signedIn' = {s \in signedIn : s.user # a}
    /\ UNCHANGED <<providers, parked, issued, callback, taken>>

SignInInit ==
    /\ providers = [p \in ProviderKeys |-> NoProvider] /\ parked = {} /\ issued = 0
    /\ account = [a \in AccountIds |-> Unused] /\ links = {} /\ signedIn = {}
    /\ callback = [b \in Callbacks |-> Ready] /\ taken = [s \in 1 .. MaxStates |-> 0]
    /\ changes = 0

SignInNext ==
    \/ \E p \in ProviderKeys :
         SsoStart(p) \/ DeleteSsoProvider(p) \/ \E cfg \in Configs : SetSsoProvider(p, cfg)
    \/ \E s \in parked : TimeIsUp(s)
    \/ \E b \in Callbacks :
         LookUp(b) \/ Exchange(b) \/ SignInWith(b) \/ \E state \in 1 .. issued : Take(b, state)
    \/ \E email \in LocalEmails : AddAccount(email)
    \/ \E a \in AccountIds : DropAccount(a)

SignInSpec == SignInInit /\ [][SignInNext]_signInVars
--------------------------------------------------------------------------------
(* What single sign-on promises.                                             *)

\* Every variable has its type.
SignInTypeOK ==
    /\ providers \in [ProviderKeys -> Configs \cup {NoProvider}]
    /\ \A s \in parked : s.state \in 1 .. issued /\ s.provider \in ProviderKeys /\ s.expired \in BOOLEAN
    /\ issued \in 0 .. MaxStates /\ changes \in 0 .. MaxChanges
    /\ \A l \in links \cup signedIn : l.user \in AccountIds
    /\ \A b \in Callbacks : callback[b].at \in {"ready", "lookup", "exchange", "sign"}
    /\ taken \in [1 .. MaxStates -> Nat]

\* A sign-in begun is finished once (routes_auth.go:282, transient.go:60), however many
\* callbacks bring its state at the same time.
StatesAreUsedOnce == \A s \in DOMAIN taken : taken[s] <= 1

\* Identity is (directory, subject) and never the address (auth.go:744-748, migration 6): one
\* account per identity, one identity per account, and every link and session has its account.
OneIdentityPerAccount ==
    /\ \A l, k \in links :
         (l.user = k.user \/ (l.directory = k.directory /\ l.subject = k.subject)) => l = k
    /\ \A l \in links \cup signedIn : l.user \in Existing

\* And that account stays the same as long as it exists, whatever addresses change hands.
KeepsTheirAccount == \A l \in links : account'[l.user] # Unused => l \in links'
SubjectsKeepTheirAccount == [][KeepsTheirAccount]_signInVars

\* An account an admin made is entered only by an identity with an address the provider has
\* verified (auth.go:744-748): not with one it never spoke about.
AdoptsVerified ==
    \A l \in links' \ links :
        account[l.user] # Unused =>
            \E i \in Identities : i.subject = l.subject /\ i.verified = "yes" /\ i.email = account[l.user].email
OnlyVerifiedAdopts == [][AdoptsVerified]_signInVars

\* Whoever gets a session has passed the rules of a provider of this directory, with a rule on
\* addresses failing closed for an identity that has none (auth.go:753-755).
RulesFailClosed ==
    \A b \in Callbacks :
      callback[b].at = "sign" =>
        /\ callback[b].config.domains # {} => callback[b].identity.email # None
        /\ callback[b].config.groups # {} => callback[b].identity.groups # {}

\* An account a provider made has the role the provider was given or less than an admin's
\* (routes_auth.go:478-500, auth.go:880-893).
InheritedRoleIsNoAdmin ==
    \A a \in Existing : account[a].by = "" => account[a].role # "admin"

\* What a sign-in through a provider keeps whatever callbacks, changes of providers and of
\* addresses are interleaved (sso, auth.go, routes_auth.go).
SignInSafety ==
    /\ [](StatesAreUsedOnce /\ OneIdentityPerAccount /\ RulesFailClosed /\ InheritedRoleIsNoAdmin)
    /\ SubjectsKeepTheirAccount /\ OnlyVerifiedAdopts
================================================================================
