----------------------------- MODULE InspectProps -----------------------------
(***************************************************************************)
(* What a page may say of a stack that changes while it is read.           *)
(***************************************************************************)
EXTENDS Inspect

(* What was there from the first command of a read to its last, and what was there at any time.    *)
VARIABLES
    steadyTasks,
    steadyServices,
    everTasks

Live == IF orch = "compose" THEN Boxed ELSE Wanted
Note ==
    CASE at = "idle" /\ at' = "idle" -> steadyTasks' = {} /\ steadyServices' = {} /\ everTasks' = {}
      [] at = "idle" /\ at' # "idle" -> steadyTasks' = Live /\ steadyServices' = there /\ everTasks' = Live
      [] OTHER -> /\ steadyTasks' = steadyTasks \cap Live'
                  /\ steadyServices' = steadyServices \cap there'
                  /\ everTasks' = everTasks \cup Live'

pageVars == <<inspectVars, steadyTasks, steadyServices, everTasks>>
PageInit == InspectInit /\ steadyTasks = {} /\ steadyServices = {} /\ everTasks = {}
PageNext == InspectNext /\ Note
PageSpec == PageInit /\ [][PageNext]_pageVars

States == {"created", "preparing", "running", "sick", "restarting", "exited"}

\* The types of the page and of what is read for it.
InspectTypeOK ==
    /\ orch \in {"compose", "swarm"} /\ there \subseteq Services
    /\ \A t \in Units : task[t].wanted \in BOOLEAN /\ (task[t].box => task[t].life # "none")
    /\ completed \in [Services -> 0 .. MaxChanges]
    /\ at \in {"idle", "ps", "inspect", "services", "networks", "details", "tasks"}
    /\ got.ids \subseteq Here /\ got.details \subseteq got.services /\ got.services \subseteq Services
    /\ page.reachable \in BOOLEAN /\ \A r \in page.rows : r.state \in States /\ r.service \in Services

JustRead == at # "idle" /\ at' = "idle"
SeedDone(s) == completed[s] >= Declared[s].total
RowsOf(p, s) == {r \in p.rows : r.service = s}

\* No corpse: whatever a page shows ran, or was about to, at some time while it was read, and is
\* shown once (inspect.go, the tasks swarm still wants).
RowsAreReal ==
    [][JustRead => \A r \in page'.rows : /\ ~r.job => r.id \in everTasks'
                                         /\ \A x \in page'.rows : x.id = r.id => x = r]_pageVars

\* No swarm task that ran all the while is missing, unless the verdict of its service stands for it.
NothingIsLost ==
    [][JustRead /\ orch = "swarm" /\ page'.reachable =>
        \A t \in steadyTasks' \cap {x \in Units : ServiceOf[x] \in steadyServices'} :
            \E r \in page'.rows : r.id = t \/ (r.job /\ r.service = ServiceOf[t])]_pageVars

\* A finished seed did finish, and its verdict is never beside a task that contradicts it.
VerdictIsEarned ==
    \A r \in page.rows : r.job =>
        /\ r.state = "exited" => SeedDone(r.service)
        /\ RowsOf(page, r.service) = {r}

\* "Not on the ingress network" and an address are measured, whatever docker left out.
TargetsAreMeasured ==
    \A r \in page.routes :
        LET s == IF r.of \in Services THEN r.of ELSE ServiceOf[r.of] IN
        /\ r.reason = "not-on-ingress" => ~OnIngress(s)
        /\ r.target => OnIngress(s) /\ Declared[s].port /\ r.reason = ""

PageSafety == RowsAreReal /\ NothingIsLost /\ [](VerdictIsEarned /\ TargetsAreMeasured)

\* What readiness makes of the rows.
LooksReady(rows) == rows # {} /\ \A r \in rows : r.state = "running" \/ (r.state = "exited" /\ r.exit = "0")

\* inspect.go:988-994: the stack of a seed that has not finished does not read as ready over its
\* other services. Refuted: `docker service inspect` that fails takes the verdicts with it.
SeedIsAwaited ==
    [][JustRead /\ LooksReady(page'.rows) =>
        \A s \in steadyServices' : orch = "swarm" /\ IsJob(s) => SeedDone(s)]_pageVars

\* inspect.go:146: not reachable means unknown, never empty. Refuted: a container that goes between
\* `docker ps` and `docker inspect` empties a page that says docker answered.
EmptyIsTrue == [][JustRead /\ page'.reachable /\ page'.rows = {} => steadyTasks' = {}]_pageVars

\* inspect.go:1131: a service that is told it declares no router declares none. Refuted under compose:
\* the routes are the containers', the finding looks for the service's.
NoFalseAlarm == \A s \in Services : <<"no router", s>> \in page.findings => Declared[s].router = "none"
================================================================================
