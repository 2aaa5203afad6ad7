-------------------------------- MODULE Signals --------------------------------
(***************************************************************************)
(* Watching the swarm: what docker says of nodes and tasks, the clock of   *)
(* every empty worker, the ticker that raises and clears, the poll that    *)
(* reads, and drain, undrain and removal of a node.                        *)
(*                                                                         *)
(* docker answers four questions per look, and each may fail alone: a      *)
(* service that is removed between `service ls` and `service ps` is enough *)
(* for the last to fail.                                                   *)
(***************************************************************************)
EXTENDS Integers, Sequences, FiniteSets

CONSTANTS
    Workers,        \* the workers; the manager runs tasks too and is never empty
    Tasks,          \* replicated tasks; one service each
    Pollers,        \* GET /api/signals
    Managers,       \* whoever adds and removes machines, through the API
    MaxMoves,       \* how often tasks and machines move
    MaxSilences     \* how many questions docker leaves unanswered

Ticker == "ticker"
Looking == {Ticker} \cup Pollers

(* A node is not called what a task without one is; and nobody is of both kinds. *)
ASSUME SignalsAssumption ==
    /\ Workers \cap {"manager", "pending", "new", "gone"} = {}
    /\ Looking \cap Managers = {}

VARIABLES
    place,      \* task -> a worker, "manager", "pending", "new" or "gone"
    machine,    \* worker -> [known, state, availability], as docker has it
    emptySince, \* worker -> whether it has a clock
    sent,       \* signalsSent: the ids that were raised and not cleared
    told,       \* id -> the last event of it a listener got, if any
    actor,      \* the ticker, the pollers and the managers
    moves, silences

signalVars == <<place, machine, emptySince, sent, told, actor, moves, silences>>

clusterVars == <<place, machine>>
clockVars == <<emptySince, sent, told>>
--------------------------------------------------------------------------------
(* Look: docker info, node ls, service ls, service ps, of which one may not answer. *)

Questions == {"docker info", "node ls", "service ls", "service ps"}
KnownNodes == {n \in Workers : machine[n].known}
Waiting(t) == place[t] \in {"pending", "new"}

(* A task that is `New` for a minute is listed as one that was never allocated. *)
Stuck(silent) == IF silent \in {"service ls", "service ps"} THEN {} ELSE {t \in Tasks : Waiting(t)}
NodesOf(silent) == IF silent = "node ls" THEN {} ELSE KnownNodes
Carries(n, silent) == silent \notin {"service ls", "service ps"} /\ \E t \in Tasks : place[t] = n

View(silent) ==
    [reachable |-> silent # "docker info",
     nodes |-> IF silent = "docker info" THEN {} ELSE NodesOf(silent),
     busy |-> IF silent = "docker info" THEN {} ELSE {n \in NodesOf(silent) : Carries(n, silent)},
     stuck |-> IF silent = "docker info" THEN {} ELSE Stuck(silent)]

Rest == [step |-> "idle"]
SetActor(a, s) == actor' = [actor EXCEPT ![a] = s]

(* `full` is what a docker that answers everything would have said; no step of pstack reads it. *)
LookAtSwarm(a) ==
    /\ actor[a] = Rest
    /\ \/ SetActor(a, [step |-> "clock", view |-> View("nothing"), full |-> View("nothing")]) /\ UNCHANGED silences
       \/ /\ silences < MaxSilences /\ silences' = silences + 1
          /\ \E q \in Questions : SetActor(a, [step |-> "clock", view |-> View(q), full |-> View("nothing")])
    /\ UNCHANGED <<clusterVars, clockVars, moves>>

(* signalsView, under the lock: a clock for every worker seen empty, none for the others. *)
ClocksOf(view) == view.nodes \ view.busy

Answered(view) == view.reachable

Clock(a) ==
    /\ actor[a].step = "clock"
    /\ emptySince' = ClocksOf(actor[a].view)
    /\ SetActor(a, IF a = Ticker /\ Answered(actor[a].view)
                   THEN [step |-> "compare", view |-> actor[a].view, empty |-> emptySince', full |-> actor[a].full] ELSE Rest)
    /\ UNCHANGED <<clusterVars, sent, told, moves, silences>>
--------------------------------------------------------------------------------
(* signalsTick: the difference under the lock, the events after it. *)

Now(view, empty) == {<<"stuck", t>> : t \in view.stuck} \cup {<<"empty", n>> : n \in view.nodes \cap empty}

Remember(now) == now
Raised(now) == now \ sent

Compare ==
    /\ actor[Ticker].step = "compare"
    /\ LET now == Now(actor[Ticker].view, actor[Ticker].empty) IN
       /\ SetActor(Ticker, [step |-> "emit", raised |-> Raised(now), cleared |-> sent \ now, full |-> actor[Ticker].full])
       /\ sent' = Remember(now)
    /\ UNCHANGED <<clusterVars, emptySince, told, moves, silences>>

Says(id) == IF id \in actor[Ticker].raised THEN "signal.raised" ELSE IF id \in actor[Ticker].cleared THEN "signal.cleared" ELSE told[id]

Emit ==
    /\ actor[Ticker].step = "emit"
    /\ told' = [id \in DOMAIN told |-> Says(id)]
    /\ SetActor(Ticker, Rest)
    /\ UNCHANGED <<clusterVars, emptySince, sent, moves, silences>>
--------------------------------------------------------------------------------
(* Acting on a node: a look, then one docker command. *)

(* `there` is what swarm has on the node, and `undrained` says that somebody put it back to use since; *)
(* no step of pstack reads them.                                                                       *)
Seen(n) == [step |-> "act", node |-> n, state |-> machine[n].state, availability |-> machine[n].availability,
            there |-> {t \in Tasks : place[t] = n}, undrained |-> FALSE]

LookAtNode(a, n) ==
    /\ actor[a] = Rest
    /\ machine[n].known
    /\ SetActor(a, Seen(n))
    /\ UNCHANGED <<clusterVars, clockVars, moves, silences>>

(* Idempotent: nothing is run when docker already says so. *)
Undrained(n) ==
    [b \in DOMAIN actor |-> IF actor[b].step = "act" /\ actor[b].node = n THEN [actor[b] EXCEPT !.undrained = TRUE] ELSE actor[b]]
SetAvailability(a, availability) ==
    /\ actor[a].step = "act"
    /\ LET n == actor[a].node IN
       \/ /\ actor[a].availability # availability /\ machine[n].known
          /\ machine' = [machine EXCEPT ![n].availability = availability]
          /\ actor' = [(IF availability = "active" THEN Undrained(n) ELSE actor) EXCEPT ![a] = Rest]
       \/ UNCHANGED machine /\ SetActor(a, Rest)  \* nothing to do, or docker refuses
    /\ UNCHANGED <<place, clockVars, moves, silences>>

MayRemove_WhenDown(a) == actor[a].state = "down"
MayRemove(a) == actor[a].state = "down" /\ actor[a].availability = "drain"

(* `docker node rm`, never --force: docker itself refuses a node that is not down, and does not ask *)
(* what is on it.                                                                                   *)
NodeRm(n) == IF machine[n].state = "down" THEN [machine EXCEPT ![n].known = FALSE] ELSE machine

RemoveNode(a) ==
    /\ actor[a].step = "act" /\ MayRemove(a)
    /\ machine' \in {machine, NodeRm(actor[a].node)}
    /\ SetActor(a, Rest)
    /\ UNCHANGED <<place, clockVars, moves, silences>>

RefuseRemoval(a) ==
    /\ actor[a].step = "act" /\ ~MayRemove(a)
    /\ SetActor(a, Rest)
    /\ UNCHANGED <<clusterVars, clockVars, moves, silences>>
--------------------------------------------------------------------------------
(* What swarm and the machines do on their own. *)

Move == moves < MaxMoves /\ moves' = moves + 1 /\ UNCHANGED <<clockVars, actor, silences>>
Takes(n) == machine[n].known /\ machine[n].state = "ready" /\ machine[n].availability = "active"

TaskMoves(t) ==
    /\ Move
    /\ \E p \in {"gone", "new", "pending", "manager"} \cup {n \in Workers : Takes(n)} :
        p # place[t] /\ place' = [place EXCEPT ![t] = p]
    /\ UNCHANGED machine

(* A machine is lost or comes back. What is on it stays there until swarm moves it. *)
MachineMoves(n) ==
    /\ Move /\ machine[n].known
    /\ \E s \in {"ready", "down"} : s # machine[n].state /\ machine' = [machine EXCEPT ![n].state = s]
    /\ UNCHANGED place

(* In its own time swarm moves what is on a node that is drained, down or forgotten. *)
Evicted == {n \in Workers : machine[n].availability = "drain" \/ machine[n].state = "down" \/ ~machine[n].known}
Evict(t) ==
    /\ place[t] \in Evicted
    /\ place' = [place EXCEPT ![t] = "pending"]
    /\ UNCHANGED <<machine, clockVars, actor, moves, silences>>
--------------------------------------------------------------------------------
Ids == ({"stuck"} \X Tasks) \cup ({"empty"} \X Workers)

SignalsInit ==
    /\ place = [t \in Tasks |-> "gone"]
    /\ machine = [n \in Workers |-> [known |-> TRUE, state |-> "ready", availability |-> "active"]]
    /\ emptySince = {} /\ sent = {} /\ told = [id \in Ids |-> "nothing"]
    /\ actor = [a \in Looking \cup Managers |-> Rest]
    /\ moves = 0 /\ silences = 0

SignalsNext ==
    \/ \E a \in Looking : LookAtSwarm(a) \/ Clock(a)
    \/ Compare \/ Emit
    \/ \E a \in Managers :
        \/ \E n \in Workers : LookAtNode(a, n)
        \/ \E v \in {"drain", "active"} : SetAvailability(a, v)
        \/ RemoveNode(a) \/ RefuseRemoval(a)
    \/ \E t \in Tasks : TaskMoves(t) \/ Evict(t)
    \/ \E n \in Workers : MachineMoves(n)

SignalsSpec == SignalsInit /\ [][SignalsNext]_signalVars
--------------------------------------------------------------------------------
(* What must hold of the signals, whatever tasks, machines, pollers and    *)
(* managers do.                                                            *)

(* Every variable keeps its type: clocks belong to workers, and a silent docker is not compared. *)
SignalsTypeOK ==
    /\ place \in [Tasks -> Workers \cup {"manager", "pending", "new", "gone"}]
    /\ emptySince \subseteq Workers /\ sent \subseteq Ids
    /\ told \in [Ids -> {"nothing", "signal.raised", "signal.cleared"}]
    /\ \A a \in Looking : actor[a].step \in {"idle", "clock", "compare", "emit"}
    /\ \A a \in Managers : actor[a].step \in {"idle", "act"}
    /\ actor[Ticker].step = "compare" => actor[Ticker].view.reachable

(* "`signal.raised` when something appears, `signal.cleared` when it goes"                         *)
(* (api/routes_signals.go:112): whoever kept the last event of an id knows what pstack holds to be *)
(* true.                                                                                           *)
ListenersAgree == actor[Ticker].step # "emit" => \A id \in Ids : (told[id] = "signal.raised") <=> (id \in sent)

(* "Nothing repeats while it stays true" (api/routes_signals.go:112-113): no event says again what *)
(* the last one of its id said.                                                                    *)
NothingRepeats ==
    [][actor[Ticker].step = "emit" /\ actor'[Ticker].step = "idle" =>
          /\ \A id \in actor[Ticker].raised : told[id] # "signal.raised"
          /\ \A id \in actor[Ticker].cleared : told[id] = "signal.raised"]_signalVars

(* A worker is said to be empty only if the look that said it saw nothing there, whatever the      *)
(* polls read before and meanwhile: their clocks do not lend it theirs (signalsView).              *)
EmptyWasSeen ==
    actor[Ticker].step = "compare" =>
        \A n \in actor[Ticker].view.nodes : n \in actor[Ticker].empty => n \notin actor[Ticker].view.busy

(* "a node that briefly loses the network reads as not ready while still running everything it     *)
(* had, and removing it then orphans that work" (api/routes_signals.go:241-242): a machine that    *)
(* came back between the look and the command takes no work into oblivion that it was given since, *)
(* unless somebody undrained it meanwhile.                                                         *)
RemovalOrphansNothing ==
    [][\A n \in Workers : machine[n].known /\ ~machine'[n].known =>
          /\ machine[n].state = "down"
          /\ \E a \in Managers :
                /\ actor[a].step = "act" /\ actor[a].node = n /\ actor'[a] = Rest
                /\ actor[a].undrained \/ \A t \in Tasks : place[t] = n => t \in actor[a].there]_signalVars

(* A machine that is forgotten carries nothing. *)
ForgottenIsEmpty == \A n \in Workers : ~machine[n].known => \A t \in Tasks : place[t] # n

(* "A docker that does not answer changes NOTHING: silence is not 'the problem went away'"         *)
(* (api/routes_signals.go:121): nothing is said that the unanswered questions would have denied.   *)
IsSo(view) == ({"stuck"} \X view.stuck) \cup ({"empty"} \X (view.nodes \ view.busy))
SilenceChangesNothing ==
    actor[Ticker].step = "emit" =>
        /\ actor[Ticker].raised \subseteq IsSo(actor[Ticker].full)
        /\ actor[Ticker].cleared \cap IsSo(actor[Ticker].full) = {}

(* What the signals keep to: their events, their clocks and what is removed because of them. *)
SignalsSafety == [](ListenersAgree /\ EmptyWasSeen) /\ NothingRepeats /\ RemovalOrphansNothing
================================================================================
