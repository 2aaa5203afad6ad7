-------------------------------- MODULE MCHost --------------------------------
(***************************************************************************)
(* What the host keeps and watches: the deployments and their texts, the   *)
(* custom routes, Traefik's watched directory, the control plane itself,   *)
(* the load of the nodes and the state of the swarm.                       *)
(* They share no state here, so a behaviour takes the steps of one of      *)
(* them, and what is checked of each is what its own specification says.   *)
(***************************************************************************)
EXTENDS DeploymentsProps, CustomRoutes, RoutingFiles, ControlPlaneProps, NodeStats, Signals,
        ConfigTravel, InspectProps, Materialize, Registries, TLC
CONSTANTS t2, v1, st1, st2, c1, c2, m1, m2, i1, i2, web, seed, p1, p2, j1

VARIABLE part  \* whose steps this behaviour takes

(* One variable, which moves the stack of one text and which the other cannot be resolved with.   *)
ByVariable(t, x) == CASE x # v1 -> st1 [] t = t2 -> Rejected [] OTHER -> st2
(* Bound: the requests under way, those that bring variables once more, and the jobs accepted so    *)
(* far; two requests beside a job are PUTs or DELETEs.                                              *)
AtMostThree ==
    /\ Cardinality({c \in Client : pc'[c] # "idle"}) + Cardinality({c \in Client : about'[c].own # Unset})
         + Cardinality({i \in Id : status'[i] # "none"}) <= 3
    /\ pc'[c1] # "idle" /\ pc'[c2] # "idle" /\ status'[1] # "none"
         => \A c \in Client : about'[c].act \notin {"up", "down", "forget"}
(* Of the clients, the managers and the imports, all alike, the first that is free goes first.     *)
FirstFree == pc[c2] = "idle" /\ pc'[c2] # "idle" => pc[c1] # "idle"

(* Route 1 on service "a" of either deployment and route 2 on service "a-b" of the second give   *)
(* the same host h1; text "t2" adds that service, "t3" an explicit host h1.                      *)
MCServes == [p \in RouteDeps \X Texts |-> IF p = <<"d1", "t3">> THEN {"h1"} ELSE {}]
MCMirrors == [p \in RouteNames \X RouteDeps \X Texts |->
    CASE p[3] = "broken" -> {}
      [] p[1] = 1 -> {[host |-> "h1", router |-> "r1"]}
      [] p[1] = 2 /\ p[3] = "t2" -> {[host |-> "h2", router |-> "r2"], [host |-> "h1", router |-> "r3"]}
      [] OTHER -> {[host |-> "h2", router |-> "r2"]}]

(* The first pair covers the primary domain alone. *)
MCCovers == [p \in Pairs |-> IF p = 1 THEN {} ELSE Zones]

(* A first init, one that moves to DNS-01, one with the UI, one to compose with Loki, and a      *)
(* forced one that takes all of it back.                                                         *)
Ask(typed, given, force) ==
    [typed |-> typed, token |-> given, dns |-> given, loki |-> given, force |-> force, sized |-> "ui" \in DOMAIN typed]
MCAsks == {
    Ask([challenge |-> "http01"], FALSE, FALSE),
    Ask([challenge |-> "dns01", provider |-> "cloudflare"], TRUE, FALSE),
    Ask([ui |-> "advanced"], TRUE, FALSE),
    Ask([orch |-> "compose", logging |-> "loki"], TRUE, FALSE),
    Ask([logging |-> "none", challenge |-> "http01"], TRUE, TRUE)}

(* Readings past the lines and within their margins; limits that may be switched off.            *)
MCReadings == {[ok |-> TRUE, disk |-> d, free |-> f, load |-> 10] : <<d, f>> \in {<<91, 8>>, <<86, 12>>}}
Lines == [disk |-> 90, free |-> 10, load |-> 200, idle |-> 1, after |-> 1]
MCThresholds == {Lines, [Lines EXCEPT !.disk = 0, !.free = 0]}
MCDockers == {<<>>, <<"swarm", <<"ready", "ready">>>>}
MCPlaced == [s \in PressureStacks |-> {2}]
(* Bound: while images are pruned no stack is at work, and a job is made, waited for and removed *)
(* between two ticks.                                                                              *)
OneAtWork ==
    /\ prune'.step # "idle" => \A s \in PressureStacks : stack'[s] \in {"up", "asleep"}
    /\ prune'.step = "rm" => tick'.step = "idle"

(* Bound: who looks or acts at a time, a poller not beside a manager, and two moves but where      *)
(* managers alone are at work and nothing was said yet, and one where docker was silent.           *)
Acting == {a \in DOMAIN actor : actor[a] # Rest}
TwoAtATime ==
    /\ Cardinality(Acting) <= 2 /\ (Acting \cap Pollers # {} => Acting \subseteq Looking)
    /\ silences = 1 => moves <= 1
    /\ (moves > 2 => silences = 0 /\ emptySince = {} /\ Acting \subseteq Managers
                         /\ \A id \in Ids : told[id] = "nothing")
FirstManager == actor[m2] = Rest /\ actor'[m2] # Rest => actor[m1] # Rest

(* One thing of each section, with a token and its user; a routing file of a name the host keeps  *)
(* to itself, a spec whose write may stop half way and a registry whose write may fail. A user of the new host   *)
(* is edited and deleted under the import.                                                         *)
Thing(s, n, o) == [sec |-> s, name |-> n, owner |-> o]
FirstImport == import[i2].at # "new" => import[i1].at # "new"
MCNewUser == {Thing("user", 2, 0)}
(* Bound: two imports that are under way at once are in the same section or the next, and there    *)
(* are two only of a document with the new user in it.                                             *)
SameStretch ==
    LET under == {import[i].sec : i \in {i \in Imports : import[i].at \in {"look", "write", "meta"}}}
    IN  /\ \A m \in under, n \in under : m <= n + 1
        /\ import[i2].at # "new" => \E e \in export.doc : e[1] \in MCNewUser
MCReserved == {Thing("routing", 2, 0)}
MCFaults == {Thing("spec", 1, 0), Thing("registry", 1, 0)}
MCThings == MCNewUser \cup MCReserved \cup MCFaults \cup
    {Thing("user", 1, 0), Thing("token", 1, 1), Thing("var", 1, 0), Thing("notifier", 1, 0), Thing("registry", 2, 0)}
Envelope(n, r, d) == [kdf |-> [n |-> n, r |-> r, p |-> 1], defect |-> d]
MCEnvelopes == {Envelope(2^20, 9, "none"), Envelope(2^17, 8, "none"), Envelope(2^17, 8, "passphrase")}
FullHost == [t \in Things |-> IF t = Thing("registry", 2, 0) THEN Foreign ELSE 1]
BareHost == [t \in Things |-> IF t.sec = "var" THEN 2 ELSE 0]
ASSUME FullHost \in Hosts /\ BareHost \in Hosts

(* A routed service with a task on each of two machines and a one-shot job; another stack         *)
(* declares the same router.                                                                      *)
MCServiceOf == [t \in {p1, p2, j1} |-> IF t = j1 THEN seed ELSE web]
MCDeclared == [s \in {web, seed} |->
    [total |-> IF s = seed THEN 1 ELSE 0, readable |-> TRUE, networks |-> {"ingress", "own"}, vip |-> FALSE,
     router |-> IF s = web THEN "r1" ELSE "none", rule |-> TRUE, port |-> TRUE, tls |-> TRUE, resolver |-> s = web,
     labelled |-> s = web, enabled |-> s = web, pinned |-> FALSE]]
MCElsewhere == [r \in {"r1"} |-> {"other"}]

(* A routed service, one with labels and a driver of its own and one that the profiles leave out, *)
(* under either orchestrator; a file that needs nothing, and one that asks for a control hostname. *)
Service == [labels |-> {}, deployLabels |-> {}, port |-> "none", alias |-> "none", host |-> "none", logging |-> "none",
            profiles |-> {}, networks |-> {}, restart |-> "absent", policy |-> "absent", limits |-> {}, keys |-> {}]
Routed == [Service EXCEPT !.port = "ok", !.labels = {"note"}, !.profiles = {"p"}]
Owned == [Service EXCEPT !.deployLabels = {"own.rule", "docker.network"}, !.port = "ok", !.logging = "own"]
LeftOut == [Service EXCEPT !.profiles = {"q"}, !.restart = "always", !.limits = {"service"}, !.keys = {"v3", "build"}]
Submitted(services) == [services |-> services, networks |-> {}, broken |-> FALSE, mentionsRouting |-> TRUE]
Three == Submitted([n \in {"web", "own", "old"} |-> IF n = "web" THEN Routed ELSE IF n = "own" THEN Owned ELSE LeftOut])
NeedsNothing == Submitted([n \in {"own"} |-> Owned])
OnCompose == [orchestrator |-> "compose", profiles |-> {"p"}, wildcards |-> {"web"}, domain |-> TRUE]
MCSubmissions == {[doc |-> Three, spec |-> OnCompose], [doc |-> NeedsNothing, spec |-> OnCompose],
                  [doc |-> Three, spec |-> [OnCompose EXCEPT !.orchestrator = "swarm"]],
                  [doc |-> Submitted([n \in {"web"} |-> [Routed EXCEPT !.host = "control"]]), spec |-> OnCompose]}
Begun == {s \in MCSubmissions : s.doc = Three}
(* Bound: a write is cut short, or something is edited, and not both; an edit comes before anything *)
(* is up, which no step asks, and beside a read it is one of the text or of Loki.                     *)
OneUpset ==
    /\ generated'.cut => edits' = 0
    /\ edits' # edits => project.runs = Missing
    /\ ~setup'.plugin \/ setup'.mode # "http01" => \A c \in Viewers : op'[c] = NoCommand
Plainly == [loki |-> TRUE, plugin |-> TRUE, mode |-> "http01"]

HostVars == <<part, variables, routeVars, tlsVars, controlVars, statVars, signalVars, configVars,
              pageVars, materializeVars, registriesVars>>
deploymentsOnly == UNCHANGED <<part, routeVars, tlsVars, controlVars, statVars, signalVars,
                               configVars, pageVars, materializeVars, registriesVars>>
routesOnly == UNCHANGED <<part, variables, tlsVars, controlVars, statVars, signalVars, configVars,
                          pageVars, materializeVars, registriesVars>>
tlsOnly == UNCHANGED <<part, variables, routeVars, controlVars, statVars, signalVars, configVars,
                       pageVars, materializeVars, registriesVars>>
controlOnly == UNCHANGED <<part, variables, routeVars, tlsVars, statVars, signalVars, configVars,
                           pageVars, materializeVars, registriesVars>>
statsOnly == UNCHANGED <<part, variables, routeVars, tlsVars, controlVars, signalVars, configVars,
                         pageVars, materializeVars, registriesVars>>
signalsOnly == UNCHANGED <<part, variables, routeVars, tlsVars, controlVars, statVars, configVars,
                           pageVars, materializeVars, registriesVars>>
configOnly == UNCHANGED <<part, variables, routeVars, tlsVars, controlVars, statVars, signalVars,
                          pageVars, materializeVars, registriesVars>>
pageOnly == UNCHANGED <<part, variables, routeVars, tlsVars, controlVars, statVars, signalVars,
                        configVars, materializeVars, registriesVars>>
composeOnly == UNCHANGED <<part, variables, routeVars, tlsVars, controlVars, statVars, signalVars,
                           configVars, pageVars, registriesVars>>
registryOnly == UNCHANGED <<part, variables, routeVars, tlsVars, controlVars, statVars, signalVars,
                            configVars, pageVars, materializeVars>>

HostInit ==
    /\ part \in {"deployments", "routes", "tls", "control", "stats", "signals", "config", "page",
                 "compose", "registry"}
    /\ Init /\ home = [i \in Id |-> st1]
    /\ RoutesInit
    /\ RoutingFilesInit
    /\ ControlPlaneInit
    /\ NodeStatsInit /\ (part # "stats" => limits = Lines)
    /\ SignalsInit
    /\ ConfigInit(FullHost, BareHost)
    /\ PageInit /\ task[p1].life = "running" /\ (part # "page" => orch = "swarm" /\ \A t \in Units : task[t].life = "running")
    /\ MaterializeInit /\ setup = Plainly /\ submitted \in Begun /\ (part # "compose" => submitted.spec.orchestrator = "swarm")
    /\ RegistriesInit /\ (part # "registry" => config = {} /\ inode = [i \in Inodes |-> [data |-> IF i = 1 THEN NoEntries ELSE HalfWritten, closed |-> i = 1]])
HostNext ==
    \/ part = "deployments" /\ Next /\ AtMostThree /\ FirstFree /\ deploymentsOnly
    \/ part = "routes" /\ RoutesNext /\ routesOnly
    \/ part = "tls" /\ RoutingFilesNext /\ tlsOnly
    \/ part = "control" /\ ControlPlaneNext /\ controlOnly
    \/ part = "stats" /\ NodeStatsNext /\ OneAtWork /\ statsOnly
    \/ part = "signals" /\ SignalsNext /\ TwoAtATime' /\ FirstManager /\ signalsOnly
    \/ part = "config" /\ ConfigNext /\ FirstImport' /\ SameStretch' /\ configOnly
    \/ part = "page" /\ PageNext /\ pageOnly
    \/ part = "compose" /\ MaterializeNext /\ OneUpset /\ composeOnly
    \/ part = "registry" /\ RegistriesNext /\ registryOnly

HostSpec == HostInit /\ [][HostNext]_HostVars

(* Every variable of every part keeps its type: what their definitions assume of each other. *)
HostTypes ==
    /\ part = "deployments" => TypeOK
    /\ part = "routes" => RoutesTypeOK
    /\ part = "tls" => RoutingFilesTypeOK
    /\ part = "control" => ControlPlaneTypeOK
    /\ part = "stats" => NodeStatsTypeOK
    /\ part = "signals" => SignalsTypeOK
    /\ part = "config" => ConfigTypeOK
    /\ part = "page" => InspectTypeOK
    /\ part = "compose" => MaterializeTypeOK
    /\ part = "registry" => RegistriesTypeOK
==============================================================================
