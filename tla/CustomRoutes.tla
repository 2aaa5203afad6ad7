------------------------------ MODULE CustomRoutes ------------------------------
(***************************************************************************)
(* A stable alias for a stack: the custom_routes table, the rendering that *)
(* settles who serves which host, and pstack-routes.yml derived from both  *)
(* (api/routes_customroutes.go, store/customroutes.go,                     *)
(* routing/customroutes.go, removeDeployment in api/routes_deploy.go).     *)
(*                                                                         *)
(* Every write holds writeMu from its checks to the end of its rendering,  *)
(* so one of them is under way at a time; pstack may die between the       *)
(* transaction and the file.                                               *)
(***************************************************************************)
EXTENDS Naturals, Sequences, FiniteSets, SequencesExt

CONSTANTS
    RouteNames,     \* numbers, in the order of the names
    RouteDeps,      \* deployments
    Texts,          \* what a deployment's spec and compose may be
    Serves,         \* [RouteDeps \X Texts -> hosts the deployment's own routers answer on]
    Mirrors,        \* [RouteNames \X RouteDeps \X Texts -> the (host, router) pairs the alias adds]
    HandHosts,      \* hosts a hand-labelled container may answer on
    MaxRouteOps,    \* bound: writes of a behaviour
    MaxRouteFaults  \* bound: crashes, failed transactions and failed file writes

ASSUME RoutesAssumption ==
    /\ RouteNames \subseteq Nat /\ MaxRouteOps \in Nat /\ MaxRouteFaults \in Nat
    \* One target never claims a host or a router name twice.
    /\ \A n \in RouteNames, d \in RouteDeps, t \in Texts : \A c, e \in Mirrors[n, d, t] :
          c.host = e.host \/ c.router = e.router => c = e

VARIABLES
    routeRow,       \* the table: <<>>, or <<[dep, at]>>, dep "none" when unassigned
    depText,        \* the registry: a deployment's text, or "gone"
    hand,           \* hosts hand-labelled containers answer on now
    routeView,      \* memory: what each rendered route serves since the last render
    routeFile,      \* pstack-routes.yml: its routers
    writing,        \* what the holder of writeMu still has to do
    routeUp,        \* is pstack running
    missed,         \* the file missed a rendering: its write failed, or pstack died before it
    unrendered,     \* deployments a submission that failed changed since the last rendering
    routeOps, routeFaults

routeVars == <<routeRow, depText, hand, routeView, routeFile, writing, routeUp, missed, unrendered,
              routeOps, routeFaults>>

IsAssigned(n) == routeRow[n] # <<>> /\ routeRow[n][1].dep # "none"
AssignedNames == {n \in RouteNames : IsAssigned(n)}
TargetOf(n) == Mirrors[n, routeRow[n][1].dep, depText[routeRow[n][1].dep]]

(* Who renders at all: an assigned route whose deployment is there and resolves. *)
Rendering == {n \in AssignedNames : depText[routeRow[n][1].dep] \notin {"gone", "broken"}}

(* The hosts of deployments: the registry's, and the live routers' when docker answers. *)
DeploymentHosts(docker) ==
    UNION {Serves[d, depText[d]] : d \in {e \in RouteDeps : depText[e] \notin {"gone", "broken"}}}
    \cup (IF docker THEN hand ELSE {})

(* The earlier claim comes first; a tie goes by name. *)
ClaimOrder == SetToSortSeq(Rendering, LAMBDA m, n :
    routeRow[m][1].at < routeRow[n][1].at \/ (routeRow[m][1].at = routeRow[n][1].at /\ m < n))

ClaimsOf_AllOrNothing(acc, n) ==
    IF \A c \in TargetOf(n) : c.host \notin acc.hosts /\ c.router \notin acc.routers THEN TargetOf(n) ELSE {}
ClaimsOf(acc, n) == {c \in TargetOf(n) : c.host \notin acc.hosts /\ c.router \notin acc.routers}

(* What every route serves once all collisions are settled. *)
Settled(docker) ==
    LET claim(acc, n) ==
            LET won == ClaimsOf(acc, n) IN
            [hosts |-> acc.hosts \cup {c.host : c \in won},
             routers |-> acc.routers \cup {c.router : c \in won},
             view |-> [acc.view EXCEPT ![n] = <<won>>]]
    IN FoldLeft(claim, [hosts |-> DeploymentHosts(docker), routers |-> {}, view |-> [n \in RouteNames |-> <<>>]],
                ClaimOrder).view

Served(view, n) == IF view[n] = <<>> THEN {} ELSE view[n][1]
FileOf(view) ==
    UNION {{[host |-> c.host, router |-> c.router, route |-> n, dep |-> routeRow[n][1].dep] : c \in Served(view, n)}
           : n \in Rendering}

(* renderCustomRoutes: memory is swapped whether or not the file can be written. *)
RenderRoutes(docker, written) ==
    /\ routeView' = Settled(docker)
    /\ missed' = ~written
    /\ unrendered' = IF written THEN {} ELSE unrendered
    /\ routeFile' = IF written THEN FileOf(Settled(docker)) ELSE routeFile
    /\ routeFaults' = IF written THEN routeFaults ELSE routeFaults + 1
    /\ ~written => routeFaults < MaxRouteFaults

(* reconcileCustomRoutes: nothing assigned returns before any file write. *)
Reconcile(docker, written) ==
    IF AssignedNames = {} THEN UNCHANGED <<routeView, missed, unrendered, routeFile, routeFaults>>
    ELSE RenderRoutes(docker, written)

(* assignConflict: what else serves, or renders, what the route would. *)
OthersServe(n) == UNION {Served(routeView, m) : m \in AssignedNames \ {n}}
AssignConflict(n, d, docker) ==
    \E c \in Mirrors[n, d, depText[d]] :
        \/ c.host \in DeploymentHosts(docker) \cup {e.host : e \in OthersServe(n)}
        \/ c.router \in {e.router : e \in OthersServe(n)}

MayWrite == routeUp /\ writing = <<"free">> /\ routeOps < MaxRouteOps
Write(row) ==
    /\ routeOps' = routeOps + 1
    /\ routeRow' = row
    /\ UNCHANGED <<depText, hand, routeView, routeFile, routeUp, missed, unrendered, routeFaults>>

(* customRouteCreate: unassigned, or assigned when nothing conflicts. The clock may stand still. *)
CreateRoute(n, dep) ==
    /\ MayWrite /\ routeRow[n] = <<>>
    /\ dep # "none" => depText[dep] # "gone"
    /\ dep # "none" /\ depText[dep] # "broken" => \E docker \in BOOLEAN : ~AssignConflict(n, dep, docker)
    /\ Write([routeRow EXCEPT ![n] = <<[dep |-> dep, at |-> routeOps + 1]>>])
    /\ writing' = IF dep = "none" THEN <<"free">> ELSE <<"render">>

(* customRouteAssign: a route another deployment holds moves only by force. *)
AssignRoute(n, d, force) ==
    /\ MayWrite /\ routeRow[n] # <<>> /\ depText[d] # "gone" /\ routeRow[n][1].dep # d
    /\ routeRow[n][1].dep # "none" => force
    /\ depText[d] # "broken" => \E docker \in BOOLEAN : ~AssignConflict(n, d, docker)
    /\ Write([routeRow EXCEPT ![n] = <<[dep |-> d, at |-> routeOps + 1]>>])
    /\ writing' = <<"render", n, d>>

(* customRouteDrop: the row is cleared or deleted; the file follows when the route was held. *)
DropRoute(n, deleted) ==
    /\ MayWrite /\ routeRow[n] # <<>>
    /\ ~deleted => IsAssigned(n)
    /\ Write([routeRow EXCEPT ![n] = IF deleted THEN <<>> ELSE <<[dep |-> "none", at |-> routeOps + 1]>>])
    /\ writing' = IF IsAssigned(n) THEN <<"render">> ELSE <<"free">>

(* A submission registers a text; a deploy's own rendering (rerenderRoutes) is the same text again. *)
RegisterText(d, text) ==
    /\ MayWrite
    /\ routeOps' = routeOps + 1
    /\ depText' = [depText EXCEPT ![d] = text]
    /\ writing' = <<"reconcile">>
    /\ UNCHANGED <<routeRow, hand, routeView, routeFile, routeUp, missed, unrendered, routeFaults>>

(* A submission that fails in the registry returns before any rendering. Its roll back removes the *)
(* deployment, a previous one included; a write that fails leaves the new spec under the old record, *)
(* or a spec cut short.                                                                              *)
RegisterFails(d, left) ==
    /\ MayWrite /\ depText[d] # "gone"
    /\ left # "gone" => routeFaults < MaxRouteFaults
    /\ routeFaults' = IF left = "gone" THEN routeFaults ELSE routeFaults + 1
    /\ routeOps' = routeOps + 1
    /\ depText' = [depText EXCEPT ![d] = left]
    /\ unrendered' = unrendered \cup {d}
    /\ UNCHANGED <<routeRow, hand, routeView, routeFile, writing, routeUp, missed>>

(* removeDeployment: the registry first, then the transaction that unassigns its routes. *)
RemoveText(d) ==
    /\ MayWrite /\ depText[d] # "gone"
    /\ routeOps' = routeOps + 1
    /\ depText' = [depText EXCEPT ![d] = "gone"]
    /\ writing' = <<"unassign", d>>
    /\ UNCHANGED <<routeRow, hand, routeView, routeFile, routeUp, missed, unrendered, routeFaults>>
HeldBy(d) == {n \in AssignedNames : routeRow[n][1].dep = d}
UnassignDeployment(d, commits) ==
    /\ routeUp /\ writing = <<"unassign", d>>
    /\ IF commits
       THEN /\ routeRow' = [n \in RouteNames |->
                                IF n \in HeldBy(d) THEN <<[dep |-> "none", at |-> routeOps]>> ELSE routeRow[n]]
            /\ writing' = IF HeldBy(d) = {} THEN <<"reconcile">> ELSE <<"render">>
            /\ UNCHANGED routeFaults
       ELSE /\ routeFaults < MaxRouteFaults /\ routeFaults' = routeFaults + 1
            /\ writing' = <<"reconcile">>
            /\ UNCHANGED routeRow
    /\ UNCHANGED <<depText, hand, routeView, routeFile, routeUp, missed, unrendered, routeOps>>

(* The rendering a write owes, and the release of writeMu. *)
FinishWrite(docker, written) ==
    /\ routeUp
    /\ \/ writing[1] = "render" /\ RenderRoutes(docker, written)
       \/ writing[1] = "reconcile" /\ Reconcile(docker, written)
    /\ writing' = <<"free">>
    /\ UNCHANGED <<routeRow, depText, hand, routeUp, routeOps>>

(* Containers nobody's compute explains come and go. *)
HandLabels(hosts) ==
    /\ routeOps < MaxRouteOps /\ hosts # hand
    /\ routeOps' = routeOps + 1 /\ hand' = hosts
    /\ UNCHANGED <<routeRow, depText, routeView, routeFile, writing, routeUp, missed, unrendered, routeFaults>>

StopRoutes ==
    /\ routeUp /\ routeFaults < MaxRouteFaults
    /\ routeFaults' = routeFaults + 1
    /\ routeUp' = FALSE
    /\ missed' = (missed \/ writing # <<"free">>)
    /\ writing' = <<"free">>
    /\ routeView' = [n \in RouteNames |-> <<>>]
    /\ UNCHANGED <<routeRow, depText, hand, routeFile, unrendered, routeOps>>
BootRoutes(docker, written) ==
    /\ ~routeUp
    /\ routeUp' = TRUE
    /\ Reconcile(docker, written)
    /\ UNCHANGED <<routeRow, depText, hand, writing, routeOps>>

RoutesInit ==
    /\ routeRow = [n \in RouteNames |-> <<>>]
    /\ depText = [d \in RouteDeps |-> "gone"]
    /\ hand = {}
    /\ routeView = [n \in RouteNames |-> <<>>]
    /\ routeFile = {}
    /\ writing = <<"free">> /\ routeUp = TRUE /\ missed = FALSE /\ unrendered = {}
    /\ routeOps = 0 /\ routeFaults = 0
RoutesNext ==
    \/ \E n \in RouteNames :
          \/ \E dep \in RouteDeps \cup {"none"} : CreateRoute(n, dep)
          \/ \E d \in RouteDeps, force \in BOOLEAN : AssignRoute(n, d, force)
          \/ \E deleted \in BOOLEAN : DropRoute(n, deleted)
    \/ \E d \in RouteDeps :
          \/ \E text \in Texts : RegisterText(d, text)
          \/ \E left \in Texts \cup {"gone", "broken"} : RegisterFails(d, left)
          \/ RemoveText(d)
          \/ \E commits \in BOOLEAN : UnassignDeployment(d, commits)
    \/ \E docker, written \in BOOLEAN : FinishWrite(docker, written) \/ BootRoutes(docker, written)
    \/ \E hosts \in SUBSET HandHosts : HandLabels(hosts)
    \/ StopRoutes
RoutesSpec == RoutesInit /\ [][RoutesNext]_routeVars
--------------------------------------------------------------------------------
(* What the custom routes promise (CustomRoutes). *)

(* Every variable keeps its type. *)
RoutesTypeOK ==
    /\ \A n \in RouteNames :
          routeRow[n] \in {<<>>} \cup {<<r>> : r \in [dep : RouteDeps \cup {"none"}, at : 0..MaxRouteOps]}
    /\ depText \in [RouteDeps -> Texts \cup {"gone"}]
    /\ hand \subseteq HandHosts
    /\ writing[1] \in {"free", "render", "reconcile", "unassign"}
    /\ {routeUp, missed} \subseteq BOOLEAN /\ unrendered \subseteq RouteDeps

RoutesQuiet == routeUp /\ writing = <<"free">>

(* A host has one router and a router name one definition: Traefik drops both copies of a name it *)
(* sees twice, so a collision would cost two previews their hostname (routes_customroutes.go:177-178). *)
RoutersAreDistinct ==
    \A e, f \in routeFile : e.host = f.host \/ e.router = f.router => e = f

(* A deployment's own host is never a route's, whatever was registered, moved or removed since the *)
(* route was assigned (routes_customroutes.go:177, 281-284); only a file that could not be written, *)
(* or a submission that failed after it had replaced the spec, says otherwise.                      *)
DeploymentsFirst ==
    RoutesQuiet /\ ~missed =>
        \A d \in RouteDeps \ unrendered : depText[d] \notin {"gone", "broken"} =>
            {e.host : e \in routeFile} \cap Serves[d, depText[d]] = {}

(* A deployment that is gone is routed to by nothing, even when the transaction that unassigns its *)
(* routes fails (routes_customroutes.go:181-182); what a failing submission rolled back is routed   *)
(* to until the next rendering, since nothing re-renders then (routes_deploy.go:292-298).          *)
ForgottenIsUnrouted ==
    RoutesQuiet /\ ~missed => \A e \in routeFile : depText[e.dep] = "gone" => e.dep \in unrendered

(* What GET answers is what the file does: the view of the last rendering is in the file, for   *)
(* every route but those to a deployment a failing submission changed since.                    *)
ViewIsServed ==
    RoutesQuiet /\ ~missed /\ AssignedNames # {} =>
        \A e \in routeFile \cup FileOf(routeView) :
            e.dep \in unrendered \/ e \in routeFile \cap FileOf(routeView)

(* A route loses a host or a router only to a deployment, to a live router, or to a route that *)
(* serves it itself: no host is dropped on the floor between two claims.                       *)
EveryLossHasAWinner ==
    [][routeUp' /\ routeView' # routeView =>
        \A n \in Rendering : \A c \in TargetOf(n) \ Served(routeView', n) :
            \/ c.host \in DeploymentHosts(TRUE)
            \/ \E m \in Rendering \ {n} : \E e \in Served(routeView', m) : e.host = c.host \/ e.router = c.router]_routeVars

(* A registration or a removal that is not the route's business moves no host from one route to *)
(* another: what a route serves and nobody else came to claim, it goes on serving.              *)
ServingIsKept ==
    [][writing[1] = "reconcile" /\ routeUp' /\ routeView' # routeView =>
        \A n \in Rendering : \A c \in Served(routeView, n) \cap TargetOf(n) :
            c \in Served(routeView', n) \/ c.host \in DeploymentHosts(TRUE)
            \/ \E m \in Rendering \ {n} : \E e \in Served(routeView', m) \ Served(routeView, m) :
                  e.host = c.host \/ e.router = c.router]_routeVars

(* An assignment the API accepts serves every host it was checked for, live routers aside: "so *)
(* assign and render agree" (api/routes_customroutes.go:321).                                   *)
AssignAndRenderAgree ==
    [][Len(writing) = 3 /\ writing' = <<"free">> /\ routeUp' /\ depText[writing[3]] # "broken" =>
        \A c \in Mirrors[writing[2], writing[3], depText[writing[3]]] :
            c \in Served(routeView', writing[2]) \/ c.host \in hand]_routeVars

(* "reconcileCustomRoutes re-renders when any route is assigned: at boot, so the table and the   *)
(* file heal" (api/routes_customroutes.go:281): once pstack is back, the file routes to nothing *)
(* that the table does not.                                                                      *)
BootHeals ==
    [][~routeUp /\ routeUp' /\ routeFaults' = routeFaults => \A e \in routeFile' : IsAssigned(e.route)]_routeVars

(* What the routes file keeps through assignments, moves, submissions, removals and crashes. *)
RoutesSafety ==
    /\ [](RoutersAreDistinct /\ DeploymentsFirst /\ ForgottenIsUnrouted /\ ViewIsServed)
    /\ EveryLossHasAWinner /\ ServingIsKept
================================================================================
