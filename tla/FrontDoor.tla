------------------------------- MODULE FrontDoor -------------------------------
(* What a request meets before a handler: which surface its hostname and path are for             *)
(* (api/server.go), who it is (api/principal.go), what the table lets that be                     *)
(* (api/permissions.go), the signed links that open one deployment (share/share.go), and the      *)
(* sign-in of Grafana, which rides on a session of this server (api/routes_grafana.go).           *)
EXTENDS Naturals, FiniteSets
CONSTANTS Users, Browsers, Calls,
          DoorRequests,  \* what is asked for: see TypeOK
          NoUser, NoBrowser,
          MaxSessions, MaxStates, MaxCodes, MaxLinks,  \* handed out
          MaxTTL, MaxSecrets, MaxCalls  \* days of a link; PSTACK_TOKENs; requests

VARIABLES role,      \* user -> its role, "" for no account
          session,   \* id -> who signed in, in which browser, and whether that one still sends it
          secret,    \* the generation of PSTACK_TOKEN, 0 for none: then everyone is root
          links,     \* share tokens handed out
          cookie,    \* browser -> its state cookie and its Grafana cookie
          states,    \* state cookies handed out
          codes,     \* sign-in codes: whose, and whether parked, and in the access log
          passing,   \* the requests under way, and of each user the roles it had meanwhile
          calls
doorVars == <<role, session, secret, links, cookie, states, codes, passing, calls>>

Methods == {"GET", "PUT", "POST", "PATCH", "DELETE"}
\* A route of accounts names one.
ASSUME FrontDoorAssumption ==
    /\ {MaxSessions, MaxStates, MaxCodes, MaxLinks, MaxTTL, MaxSecrets, MaxCalls} \subseteq Nat
    /\ MaxSecrets > 0 /\ NoUser \notin Users /\ NoBrowser \notin Browsers
    /\ \A req \in DoorRequests :
         /\ req.method \in Methods /\ req.bearer \in {"", "secret", "token", "link", "junk"} /\ req.browser \in Browsers
         /\ req.route \in {"user", "user/password"} => req.about \in Users

Roles == {"viewer", "developer", "maintainer", "admin"}
Rank(r) == CASE r = "viewer" -> 1 [] r = "developer" -> 2 [] r = "maintainer" -> 3 [] r = "admin" -> 4 [] OTHER -> 0
--------------------------------------------------------------------------------
(* The table: the least role for a method of a route. What no row has is root's alone.            *)

Perm(min, methods, routes) == [min |-> min, methods |-> methods, routes |-> routes]
Permissions == {
    Perm("any", {"GET"}, {"auth/me", "tokens"}), Perm("any", {"POST"}, {"tokens"}), Perm("any", {"DELETE"}, {"token"}),
    Perm("self", {"PUT"}, {"user/password"}),
    Perm("viewer", {"GET"}, {"users", "deployments", "deployment", "settings", "swarm", "signals", "stats", "host-vars",
        "specs", "spec", "control", "logs", "logs/stream", "source", "terminal-sessions", "runtime", "readiness",
        "custom-routes", "routing", "routing/live", "routing/file", "notifiers", "notifiers/meta", "notifier",
        "registries", "jobs", "job"}),
    Perm("developer", {"PUT", "DELETE", "POST"}, {"deployment"}),
    Perm("developer", {"POST"}, {"deployment/cancel", "share", "container", "custom-routes", "job/cancel"}),
    Perm("developer", {"GET"}, {"terminal"}), Perm("developer", {"PUT", "DELETE"}, {"spec", "custom-route"}),
    Perm("maintainer", {"GET"}, {"sso/config", "control/runtime", "domains", "tls", "logging", "swarm/join"}),
    Perm("maintainer", {"PUT"}, {"settings/max_jobs", "domains", "logging", "host-var", "routing/file", "routing/live",
        "registry"}),
    Perm("maintainer", {"POST"}, {"control/restart", "tls/redeploy", "swarm/node", "notifiers", "notifier", "redeliver"}),
    Perm("maintainer", {"DELETE"}, {"swarm/node", "host-var", "routing/file", "routing/live", "notifier", "registry"}),
    Perm("maintainer", {"PATCH"}, {"notifier"}),
    Perm("admin", {"POST"}, {"users", "config/sealed"}), Perm("admin", {"PATCH", "DELETE"}, {"user"}),
    Perm("admin", {"PUT", "DELETE"}, {"sso/config", "sso/provider", "tls/wildcard"}),
    Perm("admin", {"PUT"}, {"settings/default_role", "settings/pressure", "settings/image_prune_after_h", "logging/storage"}),
    Perm("", {"GET", "POST"}, {"config"})}
Routes == UNION {row.routes : row \in Permissions}
Matching(req) == {row \in Permissions : req.method \in row.methods /\ req.route \in row.routes}
\* First match and any match are one: no request meets rows of two tiers.
ASSUME OneTier == \A req \in [method : Methods, route : Routes] : Cardinality(Matching(req)) <= 1

\* routes: what a chain of comparisons answers with something else than 404 or 405.
DeploymentsServed ==
    ({"GET", "PUT", "DELETE", "POST"} \X {"deployment"}) \cup {<<"GET", "deployments">>}
    \cup ({"POST"} \X {"deployment/cancel", "share"})
SettingsServed ==
    ({"GET"} \X {"sso/config", "settings", "control/runtime", "domains", "tls", "logging"})
    \cup ({"PUT"} \X {"settings/max_jobs", "settings/default_role", "settings/pressure", "settings/image_prune_after_h",
          "domains", "logging", "logging/storage"})
    \cup ({"PUT", "DELETE"} \X {"sso/config", "tls/wildcard"}) \cup ({"POST"} \X {"control/restart", "tls/redeploy"})
SwarmServed ==
    ({"GET"} \X {"signals", "stats", "swarm", "swarm/join", "host-vars"})
    \cup ({"POST", "DELETE"} \X {"swarm/node"}) \cup ({"PUT", "DELETE"} \X {"host-var"})
LookedInto ==
    ({"GET", "PUT", "DELETE"} \X {"spec"}) \cup {<<"POST", "container">>}
    \cup ({"GET"} \X {"specs", "control", "logs", "logs/stream", "source", "terminal", "runtime", "readiness",
          "terminal-sessions"})
RoutingServed ==
    ({"GET", "PUT", "DELETE"} \X {"routing/file", "routing/live"}) \cup {<<"GET", "routing">>}
    \cup ({"GET", "POST"} \X {"custom-routes"}) \cup ({"PUT", "DELETE"} \X {"custom-route"})
NotifiersServed ==
    ({"GET"} \X {"notifiers/meta", "registries"}) \cup ({"GET", "POST"} \X {"notifiers"}) \cup {<<"POST", "redeliver">>}
    \cup ({"GET", "PATCH", "DELETE", "POST"} \X {"notifier"}) \cup ({"PUT", "DELETE"} \X {"registry"})
JobsServed == (Methods \X {"jobs", "job"}) \cup {<<"POST", "job/cancel">>}
AccountsServed ==
    ({"GET"} \X {"auth/me", "users", "tokens"}) \cup ({"POST"} \X {"users", "tokens"})
    \cup ({"PATCH", "DELETE"} \X {"user"}) \cup {<<"PUT", "user/password">>, <<"DELETE", "token">>, <<"DELETE", "sso/provider">>}
ServedRoutes ==
    ({"GET", "POST"} \X {"config"}) \cup {<<"POST", "config/sealed">>} \cup AccountsServed \cup DeploymentsServed
    \cup SettingsServed \cup SwarmServed \cup LookedInto \cup RoutingServed \cup NotifiersServed \cup JobsServed
\* A route without a row is root's (permissions.go:9-12): the portable host, and a job that is
\* asked for with another method than GET, but no other, by an oversight in one of the two tables.
ASSUME EveryRouteIsRuled ==
    \A s \in ServedRoutes :
      \/ \E row \in Permissions : s[1] \in row.methods /\ s[2] \in row.routes /\ row.min # ""
      \/ s[2] = "config" \/ (s[2] \in {"jobs", "job"} /\ s[1] # "GET")

Allows(who, min) == who.kind = "root" \/ (who.kind = "user" /\ Rank(min) > 0 /\ Rank(who.role) >= Rank(min))
Permit(who, req) ==
    \/ who.kind \in {"share", "root"}
    \/ \E row \in Matching(req) :
         \/ row.min = "any"
         \/ row.min = "self" /\ (Allows(who, "admin") \/ req.about = who.user)
         \/ row.min \in Roles /\ Allows(who, row.min)
--------------------------------------------------------------------------------
(* The ways in.                                                                                   *)

Anonymous == [kind |-> "nobody"]
Root == [kind |-> "root"]
Account(u) == [kind |-> "user", user |-> u, role |-> role[u]]
Unused == [user |-> NoUser, browser |-> NoBrowser, sent |-> FALSE]
LiveSession(s) == session[s].user # NoUser
\* A row goes with its account, its password, a sign-out or its time; its hash is never another's.
Ended(s) == [session[s] EXCEPT !.user = NoUser, !.sent = FALSE]
SessionsOf(b) == {s \in DOMAIN session : session[s].browser = b /\ session[s].sent /\ LiveSession(s)}

\* Verify: signed with the secret there is now, and in time.
Valid(link) == secret # 0 /\ link.secret = secret /\ link.left > 0
LinkBearer(link) == [kind |-> "share", dep |-> link.dep, views |-> link.views]

\* A bearer that authenticates nobody falls through to the cookies, of which a browser may send
\* several; a link in the query comes last. A personal token is any account's, or a revoked one.
Principal(req) ==
    LET linked == {LinkBearer(l) : l \in {k \in links : Valid(k)}}
        cookies == {Account(session[s].user) : s \in SessionsOf(req.browser)}
        rest == IF cookies # {} THEN cookies ELSE IF req.query = "link" /\ linked # {} THEN linked ELSE {Anonymous}
    IN  IF secret = 0 \/ req.bearer = "secret" THEN {Root}
        ELSE IF req.bearer = "token" THEN {Account(u) : u \in {v \in Users : role[v] # ""}} \cup rest
        ELSE IF req.bearer = "link" /\ linked # {} THEN linked ELSE rest

\* What a link may reach, before any route.
ShareRoute(view) == IF view = "details" THEN {"deployment", "runtime", "readiness"} ELSE {"logs", "logs/stream"}
ShareAllows(who, req) ==
    who.kind = "share" =>
      /\ req.method = "GET"
      /\ \/ req.route = "auth/me"
         \/ req.about = who.dep /\ \E view \in who.views : req.route \in ShareRoute(view)
--------------------------------------------------------------------------------
(* The way of a request. Its handler is what the door depends on of it: accounts, their passwords *)
(* and their roles, and the minting of a link; any other leaves what is here alone.               *)

\* handle: a hostname of a preview, or of Grafana or Loki, is never the console or the API.
Surface(req) ==
    IF req.host = "grafana" THEN "not running" ELSE IF req.host = "loki" THEN "not found"
    ELSE IF req.host = "asleep" THEN "waking" ELSE IF req.host = "preview" THEN "down"
    ELSE IF req.route = "ui" THEN "page" ELSE IF req.route = "open" THEN "open" ELSE "gate"
AtRest == [at |-> "idle"]
InDoor == <<session, secret, links, cookie, states, codes>>

Arrive(c, req) ==
    /\ passing[c] = AtRest /\ calls < MaxCalls /\ calls' = calls + 1
    /\ Surface(req) = "gate"
    /\ passing' = [passing EXCEPT ![c] = [at |-> "gate", req |-> req, had |-> [u \in Users |-> {role[u]}]]]
    /\ UNCHANGED <<role, InDoor>>
\* principal reads the account with its role; the two checks are made of what it read.
Gate(c) ==
    /\ passing[c].at = "gate"
    /\ \E who \in Principal(passing[c].req) :
         passing' = [passing EXCEPT ![c] =
           IF /\ who # Anonymous /\ ShareAllows(who, passing[c].req) /\ Permit(who, passing[c].req)
              /\ <<passing[c].req.method, passing[c].req.route>> \in ServedRoutes
           THEN [at |-> "act", req |-> passing[c].req, had |-> passing[c].had, who |-> who] ELSE AtRest]
    /\ UNCHANGED <<role, calls, InDoor>>

Replied(c) == passing' = [passing EXCEPT ![c] = AtRest] /\ UNCHANGED calls
Does(c, method, route) == passing[c].at = "act" /\ passing[c].req.method = method /\ passing[c].req.route = route
\* What a user has meanwhile become, in the eyes of every request under way.
Noted(u, r) == [d \in Calls |-> IF passing[d] = AtRest THEN AtRest ELSE [passing[d] EXCEPT !.had[u] = @ \cup {r}]]
Changed(c, u, r) ==
    /\ role' = [role EXCEPT ![u] = r] /\ passing' = [Noted(u, r) EXCEPT ![c] = AtRest]
    /\ UNCHANGED <<calls, secret, links, cookie, states, codes>>
LastAdmin(u) == role[u] = "admin" /\ \A v \in Users \ {u} : role[v] # "admin"
EndSessions(u) == session' = [s \in DOMAIN session |-> IF session[s].user = u THEN Ended(s) ELSE session[s]]

AddAccount(c, u, r) == Does(c, "POST", "users") /\ role[u] = "" /\ Changed(c, u, r) /\ UNCHANGED session
SetRole(c, r) ==
    /\ Does(c, "PATCH", "user") /\ role[passing[c].req.about] # ""
    /\ r # "admin" => ~LastAdmin(passing[c].req.about)
    /\ Changed(c, passing[c].req.about, r) /\ UNCHANGED session
\* An account goes with its sessions, but neither the last one nor the last admin goes.
DropAccount(c) ==
    /\ Does(c, "DELETE", "user") /\ role[passing[c].req.about] # "" /\ ~LastAdmin(passing[c].req.about)
    /\ \E v \in Users \ {passing[c].req.about} : role[v] # ""
    /\ Changed(c, passing[c].req.about, "") /\ EndSessions(passing[c].req.about)
SetPassword(c) ==
    /\ Does(c, "PUT", "user/password") /\ role[passing[c].req.about] # ""
    /\ EndSessions(passing[c].req.about) /\ Replied(c)
    /\ UNCHANGED <<role, secret, links, cookie, states, codes>>
Signed(dep, views, ttl) == [dep |-> dep, views |-> views, left |-> ttl, secret |-> secret, age |-> 0]
\* Known views, at least one, and no longer than the most there may be.
Mint(c, views, ttl) ==
    /\ Does(c, "POST", "share") /\ Cardinality(links) < MaxLinks /\ secret # 0 /\ views # {}
    /\ links' = links \cup {Signed(passing[c].req.about, views, ttl)}
    /\ Replied(c) /\ UNCHANGED <<role, session, secret, cookie, states, codes>>
\* A handler that nothing here depends on, or one that answered with an error.
Other(c) == passing[c].at = "act" /\ Replied(c) /\ UNCHANGED <<role, InDoor>>

Day ==
    /\ \E l \in links : l.left > 0
    /\ links' = {[l EXCEPT !.left = IF @ > 0 THEN @ - 1 ELSE 0, !.age = IF l.left > 0 THEN @ + 1 ELSE @] : l \in links}
    /\ UNCHANGED <<role, session, secret, cookie, states, codes, passing, calls>>
\* The first account, or one that an identity provider brings.
Provision(u, r) ==
    /\ role[u] = "" /\ role' = [role EXCEPT ![u] = r] /\ passing' = Noted(u, r)
    /\ UNCHANGED <<calls, InDoor>>
\* The new cookie takes the place of the one this browser has, or, set over http, stands beside it.
SignIn(u, b, s, beside) ==
    /\ role[u] # "" /\ session[s] = Unused
    /\ session' = [t \in DOMAIN session |->
         IF t = s THEN [user |-> u, browser |-> b, sent |-> TRUE]
         ELSE IF session[t].browser = b /\ ~beside THEN [session[t] EXCEPT !.sent = FALSE] ELSE session[t]]
    /\ UNCHANGED <<role, secret, links, cookie, states, codes, passing, calls>>
SignOut(s) ==
    /\ LiveSession(s) /\ session' = [session EXCEPT ![s] = Ended(s)]
    /\ UNCHANGED <<role, secret, links, cookie, states, codes, passing, calls>>
\* A restart with another PSTACK_TOKEN: requests under way are gone.
DoorRestart ==
    /\ secret \in 1 .. (MaxSecrets - 1) /\ secret' = secret + 1 /\ passing' = [c \in Calls |-> AtRest]
    /\ UNCHANGED <<role, session, links, cookie, states, codes, calls>>
--------------------------------------------------------------------------------
(* Grafana. What a browser may enter with is made of a session's hash and the secret; it gets it  *)
(* by a round trip over the console's hostname, whose links anybody may be sent.                  *)

NoCookie == [state |-> 0, session |-> 0, secret |-> 0]
GrafanaRoles == {"developer", "maintainer", "admin"}
GrafanaUser(b) ==
    IF cookie[b].session # 0 /\ cookie[b].secret = secret /\ LiveSession(cookie[b].session) THEN {cookie[b].session} ELSE {}
MayEnter(b) == secret # 0 /\ \E s \in GrafanaUser(b) : role[session[s].user] \in GrafanaRoles

\* verify, asked by a browser without one: a state in a cookie, and the way to start.
GrafanaVerify(b) ==
    /\ secret # 0 /\ GrafanaUser(b) = {} /\ states < MaxStates /\ states' = states + 1
    /\ cookie' = [cookie EXCEPT ![b].state = states + 1]
    /\ UNCHANGED <<role, session, secret, links, codes, passing, calls>>
\* start, in any browser that has the link and a session.
GrafanaStart(b, state) ==
    /\ secret # 0 /\ Cardinality(DOMAIN codes) < MaxCodes
    /\ \E s \in SessionsOf(b) :
         codes' = [k \in 1 .. Cardinality(DOMAIN codes) + 1 |->
           IF k \in DOMAIN codes THEN codes[k]
           ELSE [session |-> s, state |-> state, browser |-> b, parked |-> TRUE, logged |-> FALSE]]
    /\ UNCHANGED <<role, session, secret, links, cookie, states, passing, calls>>
Taken_IfItFits(k, fits) == codes' = [codes EXCEPT ![k].parked = ~fits, ![k].logged = TRUE]
\* Any presentation spends the code, and writes it to the access log.
Taken(k, fits) == codes' = [codes EXCEPT ![k].parked = FALSE, ![k].logged = TRUE]
GrafanaCallback(b, k) ==
    /\ secret # 0 /\ codes[k].parked /\ (codes[k].browser = b \/ codes[k].logged)
    /\ LET fits == cookie[b].state = codes[k].state
       IN  /\ Taken(k, fits)
           /\ cookie' = IF fits THEN [cookie EXCEPT ![b] = [state |-> 0, session |-> codes[k].session, secret |-> secret]]
                        ELSE cookie
    /\ UNCHANGED <<role, session, secret, links, states, passing, calls>>
CodeExpires(k) ==
    /\ codes[k].parked /\ codes' = [codes EXCEPT ![k].parked = FALSE]
    /\ UNCHANGED <<role, session, secret, links, cookie, states, passing, calls>>
--------------------------------------------------------------------------------
FrontDoorInit ==
    /\ role \in [Users -> {"", "viewer", "developer", "admin"}] /\ secret \in {0, 1}
    /\ session = [s \in 1 .. MaxSessions |-> Unused] /\ links = {} /\ codes = <<>> /\ states = 0
    /\ cookie = [b \in Browsers |-> NoCookie] /\ passing = [c \in Calls |-> AtRest] /\ calls = 0
FrontDoorNext ==
    \/ \E c \in Calls :
         \/ \E req \in DoorRequests : Arrive(c, req)
         \/ Gate(c) \/ DropAccount(c) \/ SetPassword(c) \/ Other(c)
         \/ \E r \in Roles : SetRole(c, r) \/ \E u \in Users : AddAccount(c, u, r)
         \/ \E views \in SUBSET {"details", "logs"}, ttl \in 1 .. MaxTTL : Mint(c, views, ttl)
    \/ Day \/ DoorRestart \/ \E u \in Users, r \in Roles : Provision(u, r)
    \/ \E s \in DOMAIN session : SignOut(s) \/ \E u \in Users, b \in Browsers, beside \in BOOLEAN : SignIn(u, b, s, beside)
    \/ \E b \in Browsers :
         \/ GrafanaVerify(b) \/ \E state \in 1 .. states : GrafanaStart(b, state)
         \/ \E k \in DOMAIN codes : GrafanaCallback(b, k)
    \/ \E k \in DOMAIN codes : CodeExpires(k)
FrontDoorSpec == FrontDoorInit /\ [][FrontDoorNext]_doorVars
--------------------------------------------------------------------------------
(* What the door keeps, whoever comes while accounts, sessions and secrets change.                *)

FrontDoorTypeOK ==
    /\ role \in [Users -> Roles \cup {""}] /\ secret \in 0 .. MaxSecrets /\ states \in 0 .. MaxStates /\ calls \in 0 .. MaxCalls
    /\ session \in [1 .. MaxSessions -> [user : Users \cup {NoUser}, browser : Browsers \cup {NoBrowser}, sent : BOOLEAN]]
    /\ \A l \in links : l.views \subseteq {"details", "logs"} /\ l.left \in 0 .. MaxTTL /\ l.secret \in 1 .. secret
    /\ cookie \in [Browsers -> [state : 0 .. states, session : 0 .. MaxSessions, secret : 0 .. secret]]
    /\ \A k \in DOMAIN codes : codes[k].session \in 1 .. MaxSessions /\ codes[k].state \in 1 .. states
    /\ \A c \in Calls : passing[c].at \in {"idle", "gate", "act"}

\* What a user does it was allowed to do at some moment of its own request, however roles change
\* around it: a demotion binds every request that comes after it (principal.go:25-49).
ActsAsItMay ==
    \A c \in Calls : passing[c].at = "act" /\ passing[c].who.kind = "user" =>
        /\ passing[c].who.role \in passing[c].had[passing[c].who.user]
        /\ \E r \in passing[c].had[passing[c].who.user] : r # "" /\ Permit([passing[c].who EXCEPT !.role = r], passing[c].req)
\* A link acts on its own deployment, reads, and sees no more than a viewer would; and it is one
\* signed with the secret there is, in its time (share.go:8-33, principal.go:62-64).
LinksAreNarrow ==
    \A c \in Calls : passing[c].at = "act" /\ passing[c].who.kind = "share" =>
        /\ passing[c].req.method = "GET" /\ (passing[c].req.route = "auth/me" \/ passing[c].req.about = passing[c].who.dep)
        /\ Permit([kind |-> "user", user |-> NoUser, role |-> "viewer"], passing[c].req)
        /\ \E l \in links : l.dep = passing[c].who.dep /\ l.secret = secret /\ l.age <= MaxTTL
\* Whoever may enter Grafana from a browser has signed in to this server in that very browser, and
\* not signed out since: the link of another does not sign it in, nor does a code read in the
\* access log (routes_grafana.go:17-27, 171-172).
WhoEntersIsSignedIn ==
    \A b \in Browsers : MayEnter(b) => \A s \in GrafanaUser(b) : session[s].browser = b /\ LiveSession(s)

FrontDoorSafety == ActsAsItMay /\ LinksAreNarrow /\ WhoEntersIsSignedIn
================================================================================
