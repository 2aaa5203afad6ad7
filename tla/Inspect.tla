-------------------------------- MODULE Inspect --------------------------------
(***************************************************************************)
(* What is running of one stack, as the page of a deployment, the          *)
(* readiness watch and the capture before a sleep read it                  *)
(* (inspect/inspect.go DeploymentRuntime).                                 *)
(*                                                                         *)
(* It is read with up to six docker commands, one after the other, while   *)
(* containers and tasks come and go; a command may also get no answer.     *)
(* What the answers say is one operator each; order, wording, images and   *)
(* times are left out, a label is what it means to Traefik.                *)
(***************************************************************************)
EXTENDS Integers, FiniteSets

CONSTANTS
    Services,      \* of the stack
    Units,         \* containers under compose, tasks under swarm
    ServiceOf,     \* task -> its service
    Here,          \* the tasks that are placed on this machine
    Declared,      \* service -> what its compose file declares
    Elsewhere,     \* router -> who else on the host declares it
    MaxChanges,      \* how often anything changes
    MaxUnanswered    \* how many commands get no answer

ASSUME InspectAssumption ==
    /\ ServiceOf \in [Units -> Services] /\ Here \subseteq Units /\ Services \cap Units = {}
    /\ MaxChanges \in Nat /\ MaxUnanswered \in Nat
    /\ \A s \in Services : Declared[s].networks \subseteq {"ingress", "x_ingress", "own"} /\ Declared[s].total \in Nat

VARIABLES
    orch,      \* "compose" or "swarm"
    there,     \* the services that exist
    task,      \* task -> its life, whether swarm still wants it running, whether its container is listed
    completed, \* service -> completions of a one-shot job
    changes,
    unanswered,
    at,        \* the command the reader is about to run
    got,       \* what the earlier ones answered
    page       \* what was made of it

worldVars == <<orch, there, task, completed, changes>>
readVars == <<at, got, page, unanswered>>
inspectVars == <<worldVars, readVars>>

IsJob(s) == Declared[s].total > 0
Boxed == {t \in Here : task[t].box}
Wanted == {t \in Units : task[t].wanted}
--------------------------------------------------------------------------------
(* What goes on in docker (external).                                          *)

Life(t, from, to, wanted, box) ==
    /\ changes < MaxChanges /\ changes' = changes + 1
    /\ task[t].life \in from
    /\ task' = [task EXCEPT ![t] = [life |-> to, wanted |-> wanted, box |-> box]]
    /\ UNCHANGED <<orch, readVars>>

Create(t) == ServiceOf[t] \in there /\ Life(t, {"none"}, "preparing", TRUE, orch = "compose") /\ UNCHANGED <<there, completed>>
Run(t) == Life(t, {"preparing"}, "running", TRUE, TRUE) /\ UNCHANGED <<there, completed>>
Sicken(t) == Life(t, {"running"}, "sick", TRUE, TRUE) /\ UNCHANGED <<there, completed>>
TaskFails(t) == Life(t, {"running", "sick"}, "failed", orch = "compose", TRUE) /\ UNCHANGED <<there, completed>>
Complete(t) ==
    /\ Life(t, {"running"}, "complete", orch = "compose", TRUE)
    /\ completed' = [completed EXCEPT ![ServiceOf[t]] = @ + 1]
    /\ UNCHANGED there
Reap(t) == task[t].box /\ Life(t, {"failed", "complete"}, task[t].life, FALSE, FALSE) /\ UNCHANGED <<there, completed>>

(* `docker service rm`, or `compose rm`: the containers of a swarm service are listed a while longer. *)
RemoveService(s) ==
    /\ changes < MaxChanges /\ changes' = changes + 1
    /\ s \in there /\ there' = there \ {s}
    /\ task' = [t \in Units |-> IF ServiceOf[t] = s /\ task[t].life # "none"
                                THEN [life |-> "failed", wanted |-> FALSE, box |-> task[t].box /\ orch = "swarm"]
                                ELSE task[t]]
    /\ UNCHANGED <<orch, completed, readVars>>

DockerStep ==
    \/ \E t \in Units : Create(t) \/ Run(t) \/ Sicken(t) \/ TaskFails(t) \/ Complete(t) \/ Reap(t)
    \/ \E s \in Services : RemoveService(s)
--------------------------------------------------------------------------------
(* Rows: one container, task or finished job each.                             *)

Row(id, service, state, exit, ip, remote, job) ==
    [id |-> id, service |-> service, state |-> state, exit |-> exit, ip |-> ip, remote |-> remote, job |-> job]

(* TaskState, which knows no health, and what docker says of a container. *)
StateOf(life) ==
    CASE life \in {"running", "sick"} -> "running"
      [] life = "failed" -> "restarting"
      [] life = "complete" -> "exited"
      [] OTHER -> life
ContainerState(life) == CASE life = "failed" -> "exited" [] life = "preparing" -> "created" [] life = "sick" -> "sick" [] OTHER -> StateOf(life)
ExitOf(life) == IF life = "complete" THEN "0" ELSE IF life = "failed" THEN "1" ELSE "none"

OnIngress(s) == "ingress" \in Declared[s].networks

(* toContainer. *)
ToContainer(t, life) ==
    Row(t, ServiceOf[t], ContainerState(life), ExitOf(life), OnIngress(ServiceOf[t]) /\ life \in {"running", "sick"}, FALSE, FALSE)

(* Containers of this machine, without those of tasks swarm does not want any more. *)
Local_Corpses(infos, tasks) == {ToContainer(t, infos[t]) : t \in DOMAIN infos}
Local(infos, tasks) == {ToContainer(t, infos[t]) : t \in DOMAIN infos \cap DOMAIN tasks}

(* Tasks without a container here: on another machine, or not that far. *)
Remote(infos, tasks) ==
    {Row(t, ServiceOf[t], StateOf(tasks[t]), IF tasks[t] = "complete" THEN "0" ELSE "none", FALSE, TRUE, FALSE) :
        t \in DOMAIN tasks \ DOMAIN infos}

(* The verdict of a one-shot belongs to the service: its tasks give way to one row.                *)
(* jobs: service -> what its progress column reads, 0 completions of 0 when it cannot be read.     *)
JobRow(s, read) ==
    IF read.total > 0 /\ read.completed >= read.total
    THEN Row(s, s, "exited", "0", FALSE, FALSE, TRUE)
    ELSE Row(s, s, "created", "none", FALSE, FALSE, TRUE)

WithVerdicts(rows, jobs, services) ==
    {r \in rows : r.service \notin DOMAIN jobs \cap services} \cup {JobRow(s, jobs[s]) : s \in DOMAIN jobs \cap services}

Progress(s) == [completed |-> completed[s], total |-> IF Declared[s].readable THEN Declared[s].total ELSE 0]
--------------------------------------------------------------------------------
(* Routes: RoutesFromLabels joins a router to its port and to an address.      *)

(* attached is "yes", "no", or "unknown" where nobody could look. *)
RouteOf(who, s, ip, attached) ==
    {[router |-> d.router, of |-> who, rule |-> d.rule, port |-> d.port, tls |-> d.tls, resolver |-> d.resolver,
      target |-> ip /\ d.port,
      reason |-> CASE ip /\ d.port -> ""
                   [] ~d.port -> "no-port"
                   [] attached = "no" -> "not-on-ingress"
                   [] OTHER -> "unknown-node"] : d \in {x \in {Declared[s]} : x.router # "none"}}

Attached(s, named) == IF ~named THEN "unknown" ELSE IF OnIngress(s) THEN "yes" ELSE "no"

(* A service answers at its VIP; one without is dialled at a task that runs on this machine. *)
ServiceAddress(s, named, rows) ==
    \/ named /\ Declared[s].vip /\ OnIngress(s)
    \/ \E r \in rows : ~r.remote /\ r.service = s /\ r.ip

RoutesOfServices(services, named, rows) ==
    UNION {RouteOf(s, s, ServiceAddress(s, named, rows), Attached(s, named)) : s \in services}
RoutesOfContainers(rows) ==
    UNION {RouteOf(r.id, r.service, r.ip, Attached(r.service, TRUE)) : r \in rows}
--------------------------------------------------------------------------------
(* Findings.                                                                   *)

(* Where docker did not name the networks, a subject is on networks of unknown names. *)
Subject(s, named, rows) ==
    [service |-> s, named |-> named, sick |-> \E r \in rows : r.service = s /\ r.state = "sick"]

SubjectFindings(x, routes) ==
    LET d == Declared[x.service]
        IsOn(net) == x.named /\ net \in d.networks
        Say(kind, when) == IF when THEN {<<kind, x.service>>} ELSE {} IN
    UNION {Say("no labels", ~d.labelled),
           Say("ignored", d.labelled /\ ~d.enabled),
           Say("lookalike network", d.labelled /\ ~IsOn("ingress") /\ IsOn("x_ingress")),
           Say("not attached", d.labelled /\ ~IsOn("ingress") /\ ~IsOn("x_ingress")),
           Say("many networks", Cardinality(d.networks) > 1 /\ d.enabled /\ ~d.pinned),
           Say("no router", d.enabled /\ \A r \in routes : r.of # x.service),
           Say("unhealthy", x.sick)}

RouteFindings(r, challenge, owners) ==
    LET Say(kind, when) == IF when THEN {<<kind, r.router>>} ELSE {} IN
    UNION {Say("no rule", ~r.rule), Say("no port", ~r.port),
           Say("no resolver", challenge = "http01" /\ r.tls /\ ~r.resolver),
           Say("own certificate", challenge \in {"dns01", "dns-persist-01"} /\ r.resolver),
           Say("collision", Cardinality(owners[r.router]) > 1)}

Findings(rows, routes, services, named, jobs, challenge, owners) ==
    UNION {IF rows = {} THEN {<<"nothing runs", "stack">>} ELSE {},
           {<<"verdict unreadable", s>> : s \in {j \in DOMAIN jobs : jobs[j].total = 0}},
           UNION {SubjectFindings(Subject(s, named, rows), routes) : s \in services},
           {<<"on another node", r.id>> : r \in {y \in rows : y.remote}},
           UNION {RouteFindings(r, challenge, owners) : r \in routes}}
--------------------------------------------------------------------------------
(* The two pages.                                                              *)

Unreached == [reachable |-> FALSE, rows |-> {}, routes |-> {}, findings |-> {}]
Reached(rows, routes, services, named, jobs, g) ==
    [reachable |-> TRUE, rows |-> rows, routes |-> routes,
     findings |-> Findings(rows, routes, services, named, jobs, g.challenge, g.owners)]

NoTasks == [t \in {} |-> "none"]
NoJobs == [s \in {} |-> 0]

ComposePage(g, infos) ==
    LET rows == {ToContainer(t, infos[t]) : t \in DOMAIN infos} IN
    Reached(rows, RoutesOfContainers(rows), {r.service : r \in rows}, TRUE, NoJobs, g)

SwarmPage(g, tasks) ==
    LET rows == WithVerdicts(Local(g.infos, tasks) \cup Remote(g.infos, tasks), g.jobs, g.details) IN
    Reached(rows, RoutesOfServices(g.details, g.named, rows), g.details, g.named, g.jobs, g)
--------------------------------------------------------------------------------
(* DeploymentRuntime, one command a step.                                      *)

Nothing == [challenge |-> "unknown", owners |-> [r \in DOMAIN Elsewhere |-> {}], ids |-> {}, infos |-> NoTasks,
            services |-> {}, jobs |-> NoJobs, named |-> FALSE, details |-> {}]

(* Whether a command is answered. *)
Command(command, answered) ==
    /\ at = command
    /\ answered \/ unanswered < MaxUnanswered
    /\ unanswered' = IF answered THEN unanswered ELSE unanswered + 1
    /\ UNCHANGED worldVars

Learn(g, next) == got' = g /\ at' = next /\ page' = Unreached
Publish(p) == page' = p /\ at' = "idle" /\ got' = Nothing

(* AllTraefikRouters: who declares which router, over the whole host; without an answer nobody does. *)
Declarers(r) ==
    Elsewhere[r] \cup
    (IF orch = "compose" THEN {t \in Boxed : Declared[ServiceOf[t]].enabled /\ Declared[ServiceOf[t]].router = r}
     ELSE {s \in there : Declared[s].enabled /\ Declared[s].router = r})

AllTraefikRouters(challenge, answered) ==
    /\ Command("idle", answered)
    /\ Learn([Nothing EXCEPT !.challenge = challenge,
                             !.owners = IF answered THEN [r \in DOMAIN Elsewhere |-> Declarers(r)] ELSE @], "ps")

ListContainers(answered) ==
    /\ Command("ps", answered)
    /\ IF answered THEN Learn([got EXCEPT !.ids = Boxed], "inspect") ELSE Publish(Unreached)

(* One id that is gone fails the whole command, and a failed one reads as no container. *)
InspectContainers(answered) ==
    LET infos == IF answered /\ got.ids \subseteq Boxed THEN [t \in got.ids |-> task[t].life] ELSE NoTasks IN
    /\ Command("inspect", answered)
    /\ answered \/ got.ids # {}
    /\ IF orch = "compose" THEN Publish(ComposePage(got, infos)) ELSE Learn([got EXCEPT !.infos = infos], "services")

ListServices(answered) ==
    LET g == [got EXCEPT !.services = there, !.jobs = [s \in {x \in there : IsJob(x)} |-> Progress(s)]] IN
    /\ Command("services", answered)
    /\ CASE ~answered -> Publish(Unreached)
         [] answered /\ there = {} -> Publish(SwarmPage(g, NoTasks))
         [] OTHER -> Learn(g, "networks")

ListNetworks(answered) ==
    /\ Command("networks", answered)
    /\ Learn([got EXCEPT !.named = answered], "details")

(* Here too: a failed command reads as no service. *)
InspectServices(answered) ==
    /\ Command("details", answered)
    /\ Learn([got EXCEPT !.details = IF answered /\ got.services \subseteq there THEN got.services ELSE {}], "tasks")

(* The tasks that swarm wants running; "nothing found" is an answer. *)
StackTasks(answered) ==
    /\ Command("tasks", answered)
    /\ Publish(IF answered THEN SwarmPage(got, [t \in Wanted |-> task[t].life]) ELSE Unreached)

ReadStep ==
    \E answered \in BOOLEAN :
        \/ \E challenge \in {"unknown", "http01", "dns01"} : AllTraefikRouters(challenge, answered)
        \/ ListContainers(answered) \/ InspectContainers(answered)
        \/ ListServices(answered) \/ ListNetworks(answered) \/ InspectServices(answered) \/ StackTasks(answered)
--------------------------------------------------------------------------------
(* A stack that is not deployed yet, that is coming up or that runs, in any mixture. *)
Found == {[life |-> "none", wanted |-> FALSE, box |-> FALSE], [life |-> "running", wanted |-> TRUE, box |-> TRUE]}
InspectInit ==
    /\ orch \in {"compose", "swarm"}
    /\ there = Services
    /\ task \in [Units -> Found]
    /\ completed = [s \in Services |-> 0]
    /\ changes = 0 /\ unanswered = 0
    /\ at = "idle" /\ got = Nothing /\ page = Unreached

InspectNext == DockerStep \/ ReadStep
InspectSpec == InspectInit /\ [][InspectNext]_inspectVars
================================================================================
