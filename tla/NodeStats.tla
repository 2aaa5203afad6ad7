------------------------------- MODULE NodeStats -------------------------------
(***************************************************************************)
(* The stats tick: the newest batch of every node's agent, the pressure    *)
(* judged on it, the prune and the sleep it may start, and the guard that  *)
(* refuses new work.                                                       *)
(*                                                                         *)
(* Times are ages in one unit that Pass advances, and an age stops at the  *)
(* bound it is compared with. Memory is the free share, load is in         *)
(* hundredths, as nodestats/pressure.go compares them.                     *)
(***************************************************************************)
EXTENDS Integers, FiniteSets

CONSTANTS
    NumNodes,        \* the nodes are numbered in the order of their keys
    SelfNode,        \* the node of the control plane
    Readings,        \* what an agent may report: [ok, disk, free, load]
    ThresholdSets,   \* what the settings may say: [disk, free, load, idle, after]
    PressureStacks,  \* the stacks, numbered in the order of their names
    Dockers,         \* what `docker info` and `node ls` may answer: nothing, <<"compose">> or <<"swarm", nodes>>
    Placed,          \* stack -> the nodes its containers run on
    Stale, EmergencyEvery, ScheduledEvery,  \* in units of Pass
    MaxUnused, MaxStatEvents

ASSUME NodeStatsAssumption ==
    /\ NumNodes \in Nat /\ SelfNode \in 1..NumNodes /\ PressureStacks \subseteq Nat
    /\ Placed \in [PressureStacks -> SUBSET (1..NumNodes)]
    /\ {Stale, EmergencyEvery, ScheduledEvery} \subseteq Nat \ {0} /\ {MaxUnused, MaxStatEvents} \subseteq Nat
    /\ Readings \subseteq [ok : BOOLEAN, disk : Nat, free : Nat, load : Nat]
    /\ ThresholdSets \subseteq [disk : Nat, free : Nat, load : Nat, idle : Nat, after : Nat]
    /\ Dockers \subseteq {<<>>, <<"compose">>} \cup {<<"swarm", nodes>> : nodes \in [1..NumNodes -> {"no", "down", "active", "ready"}]}

StatNodes == 1..NumNodes

VARIABLES
    window,     \* node -> the last complete batch in the 90 s of its agent's log, if it is news
    entries,    \* node -> the store's newest batch, if any
    pressure,   \* node -> the kinds it is in
    listed,     \* nodeMeta: the nodes `node ls` gave, with whether they are active and ready
    onSwarm, selfKey,
    limits,     \* the settings
    tick,       \* the tick's goroutine
    prune,      \* pruneRunning and the goroutine of the prune
    emergency,  \* node -> the age of lastEmergency, if set
    scheduled,  \* the age of lastScheduled, if set
    jobsLeft,   \* the prune jobs in docker: where they run, and how far they are
    stack,      \* stack -> up, busy or asleep
    unused,     \* stack -> for how long nobody used it
    said,       \* node -> the last of node.pressure and node.recovered this process sent, if any
    died, statEvents

statVars == <<window, entries, pressure, listed, onSwarm, selfKey, limits, tick, prune, emergency, scheduled,
              jobsLeft, stack, unused, said, died, statEvents>>

dockerVars == <<listed, onSwarm, selfKey>>
workVars == <<stack, unused>>
pruneVars == <<prune, emergency, scheduled, jobsLeft>>
judgedVars == <<pressure, said>>
boundVars == <<died, statEvents>>
--------------------------------------------------------------------------------
(* nodestats: one reading against the lines. *)

Margin == [disk |-> 5, memory |-> 5, cpu |-> 25]

On(k, t) == CASE k = "disk" -> t.disk > 0 [] k = "memory" -> t.free > 0 [] k = "cpu" -> t.load > 0

(* At or past the line moved by slack: of disk and load more is worse, of free memory less. *)
Past(k, r, t, slack) ==
    CASE k = "disk" -> r.disk >= t.disk - slack
      [] k = "memory" -> r.free <= t.free + slack
      [] k = "cpu" -> r.load >= t.load - slack

Holds(prev, k, r, t) == Past(k, r, t, 0) \/ (k \in prev /\ Past(k, r, t, Margin[k]))

Evaluate(prev, r, t) == {k \in {"disk", "memory", "cpu"} : On(k, t) /\ Holds(prev, k, r, t)}

Fresh(n) == entries[n] # <<>> /\ entries[n][1].age <= Stale

(* The kinds a guard may act on: of a fresh, readable batch alone. *)
InPressure(n) == IF Fresh(n) /\ entries[n][1].reading.ok THEN pressure[n] ELSE {}

Record(n) ==
    IF window[n] = <<>> THEN entries[n]
    ELSE <<[reading |-> window[n][1].reading, ctrs |-> window[n][1].ctrs, age |-> 0]>>

Listed == {n \in StatNodes : listed[n] # "no"}
Active == {n \in StatNodes : listed[n] \in {"ready", "active"}}
--------------------------------------------------------------------------------
(* The tick, one goroutine: docker, the store, the pressure, a prune, a sleep. *)

AtTick(step) == tick.step = step

(* A docker that is silent leaves what is known; one that left the swarm forgets the nodes. The    *)
(* questions and the lock are one step: nobody else writes what the tick writes.                   *)
DockerSaid(a) ==
    /\ onSwarm' = IF a = <<>> THEN onSwarm ELSE a[1] = "swarm"
    /\ listed' = IF a = <<>> THEN listed ELSE IF a[1] = "swarm" THEN a[2] ELSE [n \in StatNodes |-> "no"]

Reporting == {n \in StatNodes : window[n] # <<>>}
SelfKey(a) ==
    IF a # <<>> /\ a[1] = "swarm" THEN <<SelfNode>>
    ELSE IF ~onSwarm' /\ Cardinality(Reporting) = 1 THEN <<CHOOSE n \in Reporting : TRUE>> ELSE selfKey

Store(answer) ==
    /\ AtTick("idle")
    /\ DockerSaid(answer) /\ selfKey' = SelfKey(answer)
    /\ entries' = [n \in StatNodes |-> Record(n)]
    /\ window' = [n \in StatNodes |-> <<>>]  \* a batch read again is no news
    /\ tick' = [tick EXCEPT !.step = "judge"]
    /\ UNCHANGED <<judgedVars, limits, pruneVars, workVars, boundVars>>

Judged == {n \in StatNodes : Fresh(n) /\ entries[n][1].reading.ok}

KindsOf(n) == IF n \in Judged THEN Evaluate(pressure[n], entries[n][1].reading, limits) ELSE pressure[n]

(* The edges, emitted after the lock by the one goroutine that judges; of is what began or ended. *)
Edge(event, n, of) == [event |-> event, kinds |-> of, reading |-> entries[n][1].reading, limits |-> limits]
EdgeOf(n, kinds) ==
    CASE n \notin Judged -> said[n]
      [] pressure[n] = {} /\ kinds # {} -> <<Edge("node.pressure", n, kinds)>>
      [] pressure[n] # {} /\ kinds = {} -> <<Edge("node.recovered", n, pressure[n])>>
      [] OTHER -> said[n]

EvaluatePressure ==
    /\ AtTick("judge")
    /\ pressure' = [n \in StatNodes |-> IF n \in Listed \/ entries[n] # <<>> THEN KindsOf(n) ELSE {}]
    /\ said' = [n \in StatNodes |-> EdgeOf(n, KindsOf(n))]
    /\ tick' = [tick EXCEPT !.step = "prune"]
    /\ UNCHANGED <<window, entries, dockerVars, limits, pruneVars, workVars, boundVars>>

Due(n) == emergency[n] = <<>> \/ emergency[n][1] >= EmergencyEvery
EmergencyKeys == {n \in StatNodes : "disk" \in InPressure(n) /\ Due(n)}

Idle == [step |-> "idle"]
Running == prune # Idle

ClaimsPrune == ~Running
MaybePrune ==
    /\ AtTick("prune")
    /\ tick' = [tick EXCEPT !.step = "sleep"]
    /\ \/ ~ClaimsPrune /\ UNCHANGED <<prune, emergency, scheduled>>
       \/ /\ ClaimsPrune
          /\ emergency' = [n \in StatNodes |-> IF n \in EmergencyKeys THEN <<0>> ELSE emergency[n]]
          /\ LET since == IF scheduled = <<>> THEN <<0>> ELSE scheduled
                 turn == EmergencyKeys = {} /\ limits.after > 0 /\ since[1] >= ScheduledEvery
             IN /\ scheduled' = IF turn THEN <<0>> ELSE since
                /\ prune' = CASE EmergencyKeys # {} -> [step |-> "begin", reason |-> "pressure", keys |-> EmergencyKeys, todo |-> {}]
                              [] turn -> [step |-> "begin", reason |-> "scheduled", keys |-> {}, todo |-> {}]
                              [] OTHER -> Idle
    /\ UNCHANGED <<window, entries, judgedVars, dockerVars, limits, jobsLeft, workVars, boundVars>>

(* The stacks with containers on a fresh node in memory or cpu pressure. *)
Acute(n) == InPressure(n) \cap {"memory", "cpu"} # {}
Reasoned == UNION {entries[n][1].ctrs : n \in {m \in StatNodes : Acute(m)}}
Eligible == {s \in Reasoned : stack[s] = "up" /\ limits.idle > 0 /\ unused[s] >= limits.idle}

(* The one unused for longest, ties by name. *)
BestToSleep == CHOOSE s \in Eligible : \A o \in Eligible \ {s} : unused[s] > unused[o] \/ (unused[s] = unused[o] /\ s < o)

RankStacks(meterOk) ==
    /\ AtTick("sleep")
    /\ tick' = IF meterOk /\ Eligible # {} THEN [tick EXCEPT !.step = "start", !.best = <<BestToSleep>>]
               ELSE [tick EXCEPT !.step = "idle"]
    /\ UNCHANGED <<window, entries, judgedVars, dockerVars, limits, pruneVars, workVars, boundVars>>

(* startLifecycle with OnlyIfIdle: a job that came in between is not displaced. *)
MayStart(s) == stack[s] # "busy"
PressureSleep ==
    /\ AtTick("start")
    /\ LET s == tick.best[1] IN stack' = IF MayStart(s) THEN [stack EXCEPT ![s] = "sleeping"] ELSE stack
    /\ tick' = [tick EXCEPT !.step = "idle", !.best = <<>>]
    /\ UNCHANGED <<window, entries, judgedVars, dockerVars, limits, pruneVars, unused, boundVars>>
--------------------------------------------------------------------------------
(* The prune's goroutine: the local docker, a job on the others or pinned to one, its logs, its    *)
(* removal.                                                                                        *)

(* Bound: what the agents, the operators and docker do of their own. *)
StatEvent == statEvents < MaxStatEvents /\ statEvents' = statEvents + 1

TakesTask(n) == listed[n] = "ready"
Others == 0        \* the global job
LocalDocker == -1  \* no job

(* What there is to do, in order: <<place, where>>. *)
Scheduled ==
    IF limits.after = 0 THEN {}
    ELSE {<<1, LocalDocker>>} \cup (IF onSwarm /\ selfKey # <<>> /\ \E n \in StatNodes \ {SelfNode} : TakesTask(n) THEN {<<2, Others>>} ELSE {})

IsLocal(n) == ~onSwarm \/ <<n>> = selfKey
Target(n) == IF IsLocal(n) THEN LocalDocker ELSE n
Pinned(keys) == {<<n, Target(n)>> : n \in {k \in keys : IsLocal(k) \/ TakesTask(k)}}

BeginPrune ==
    /\ prune.step = "begin"
    /\ LET todo == IF prune.reason = "scheduled" THEN Scheduled ELSE Pinned(prune.keys)
       IN prune' = IF todo = {} THEN Idle ELSE [prune EXCEPT !.step = "next", !.keys = {}, !.todo = todo]
    /\ UNCHANGED <<emergency, scheduled, jobsLeft, boundVars>>

FirstOf(todo) == {turn \in todo : \A other \in todo : turn[1] <= other[1]}
After(turn) == IF prune.todo = {turn} THEN Idle ELSE [prune EXCEPT !.step = "next", !.todo = @ \ {turn}]

PruneLocal ==
    /\ prune.step = "next"
    /\ \E turn \in FirstOf(prune.todo) : turn[2] = LocalDocker /\ prune' = After(turn)
    /\ UNCHANGED <<emergency, scheduled, jobsLeft, boundVars>>

(* create and logs, either of which may fail or outlast the ten minutes with the job made. *)
AfterCreate_Ok(turn, ok) == IF ok THEN [prune EXCEPT !.step = "rm"] ELSE After(turn)
AfterCreate(turn, ok) == [prune EXCEPT !.step = "rm"]
CreateJob ==
    /\ prune.step = "next"
    /\ \E turn \in FirstOf(prune.todo), made \in BOOLEAN, ok \in BOOLEAN :
        /\ turn[2] # LocalDocker /\ (ok => made)
        /\ jobsLeft' = IF made THEN jobsLeft \cup {<<turn[2], "made">>} ELSE jobsLeft
        /\ prune' = AfterCreate(turn, ok)
    /\ UNCHANGED <<emergency, scheduled, boundVars>>

(* `docker service rm`, whose answer nobody looks at: a job that stays is not asked for again. *)
AskedRemoved(where) == {IF job = <<where, "made">> THEN <<where, "asked">> ELSE job : job \in jobsLeft}
RemoveJob ==
    /\ prune.step = "rm"
    /\ \E turn \in FirstOf(prune.todo) :
        /\ prune' = After(turn)
        /\ \/ jobsLeft' = jobsLeft \ {<<turn[2], "made">>} /\ UNCHANGED boundVars
           \/ jobsLeft' = AskedRemoved(turn[2]) /\ StatEvent /\ UNCHANGED died
    /\ UNCHANGED <<emergency, scheduled>>

PruneStep ==
    /\ BeginPrune \/ PruneLocal \/ CreateJob \/ RemoveJob
    /\ UNCHANGED <<window, entries, judgedVars, dockerVars, limits, tick, workVars>>
--------------------------------------------------------------------------------
(* capacityRefusal: every node a task could land on is known to be in pressure. *)

MayHost(o) == IF o = "swarm" THEN Active ELSE {n \in StatNodes : selfKey = <<n>>}
CapacityRefusal(o) == MayHost(o) # {} /\ \A n \in MayHost(o) : InPressure(n) # {}

(* An up or a wake, which the guard lets pass or not. *)
StartWork(s, o) ==
    /\ stack[s] \in {"up", "asleep"}
    /\ ~CapacityRefusal(o)
    /\ stack' = [stack EXCEPT ![s] = "busy"] /\ unused' = [unused EXCEPT ![s] = 0]
EndWork(s) ==
    /\ stack[s] \in {"busy", "sleeping"}
    /\ stack' = [stack EXCEPT ![s] = IF stack[s] = "busy" THEN "up" ELSE "asleep"]
    /\ UNCHANGED unused
Visit(s) == stack[s] = "up" /\ unused' = [unused EXCEPT ![s] = 0] /\ UNCHANGED stack

StackWork ==
    /\ \E s \in PressureStacks : EndWork(s) \/ Visit(s) \/ \E o \in {"swarm", "compose"} : StartWork(s, o)
    /\ UNCHANGED <<window, entries, judgedVars, dockerVars, limits, tick, pruneVars, boundVars>>
--------------------------------------------------------------------------------
(* The agents, the clock, the settings and the process. *)

Report(n, r) ==
    /\ StatEvent
    /\ window' = [window EXCEPT ![n] = <<[reading |-> r,
                     ctrs |-> {s \in PressureStacks : n \in Placed[s] /\ stack[s] # "asleep"}]>>]
    /\ UNCHANGED <<entries, judgedVars, dockerVars, limits, tick, pruneVars, workVars, died>>

Capped(a, bound) == IF a < bound THEN a + 1 ELSE a
AgeOf(x, bound) == IF x = <<>> THEN <<>> ELSE <<Capped(x[1], bound)>>
Pass ==
    /\ entries' = [n \in StatNodes |-> IF entries[n] = <<>> THEN <<>> ELSE <<[entries[n][1] EXCEPT !.age = Capped(@, Stale + 1)]>>]
    /\ window' = [n \in StatNodes |-> <<>>]
    /\ emergency' = [n \in StatNodes |-> AgeOf(emergency[n], EmergencyEvery)]
    /\ scheduled' = AgeOf(scheduled, ScheduledEvery)
    /\ unused' = [s \in PressureStacks |-> Capped(unused[s], MaxUnused)]
    /\ AtTick("idle")
    /\ UNCHANGED <<judgedVars, dockerVars, limits, tick, prune, jobsLeft, stack, boundVars>>

PutSettings(t) ==
    /\ limits # t /\ limits' = t /\ StatEvent
    /\ UNCHANGED <<window, entries, judgedVars, dockerVars, tick, pruneVars, workVars, died>>

NoTick == [step |-> "idle", best |-> <<>>]

(* pstack dies and comes back: all of this is memory. *)
RestartStats ==
    /\ StatEvent /\ died' = TRUE
    /\ entries' = [n \in StatNodes |-> <<>>] /\ pressure' = [n \in StatNodes |-> {}] /\ said' = [n \in StatNodes |-> <<>>]
    /\ listed' = [n \in StatNodes |-> "no"] /\ onSwarm' = FALSE /\ selfKey' = <<>>
    /\ tick' = NoTick /\ prune' = Idle /\ emergency' = [n \in StatNodes |-> <<>>] /\ scheduled' = <<>>
    /\ stack' = [s \in PressureStacks |-> IF stack[s] \in {"busy", "sleeping"} THEN "up" ELSE stack[s]]
    /\ UNCHANGED <<window, limits, jobsLeft, unused>>

NodeStatsInit ==
    /\ window = [n \in StatNodes |-> <<>>] /\ entries = [n \in StatNodes |-> <<>>]
    /\ pressure = [n \in StatNodes |-> {}] /\ said = [n \in StatNodes |-> <<>>]
    /\ listed = [n \in StatNodes |-> "no"] /\ onSwarm = FALSE /\ selfKey = <<>>
    /\ limits \in ThresholdSets
    /\ tick = NoTick /\ prune = Idle /\ emergency = [n \in StatNodes |-> <<>>] /\ scheduled = <<>>
    /\ jobsLeft = {} /\ stack = [s \in PressureStacks |-> "up"] /\ unused = [s \in PressureStacks |-> 0]
    /\ died = FALSE /\ statEvents = 0

Tick ==
    \/ \E a \in Dockers : Store(a)
    \/ EvaluatePressure \/ MaybePrune \/ PressureSleep
    \/ \E ok \in BOOLEAN : RankStacks(ok)

NodeStatsNext ==
    \/ Tick \/ PruneStep \/ StackWork \/ Pass \/ RestartStats
    \/ \E n \in StatNodes, r \in Readings : Report(n, r)
    \/ \E t \in ThresholdSets : PutSettings(t)

NodeStatsSpec == NodeStatsInit /\ [][NodeStatsNext]_statVars
--------------------------------------------------------------------------------
(* What must hold of the stats tick, whatever docker, the agents, the      *)
(* operators and the clock do.                                             *)

Steps == {"idle", "judge", "prune", "sleep", "start"}

(* Every variable keeps its type: a prune has only nodes and the global job to do, and the ages     *)
(* stay within what they are compared with.                                                        *)
NodeStatsTypeOK ==
    /\ \A n \in StatNodes : entries[n] # <<>> => entries[n][1].reading \in Readings /\ entries[n][1].age \in 0..(Stale + 1)
    /\ pressure \in [StatNodes -> SUBSET {"disk", "memory", "cpu"}]
    /\ onSwarm \in BOOLEAN /\ listed \in [StatNodes -> {"no", "down", "active", "ready"}]
    /\ tick.step \in Steps /\ limits \in ThresholdSets
    /\ Running => prune.todo \subseteq Nat \X (StatNodes \cup {Others, LocalDocker})
    /\ jobsLeft \subseteq (StatNodes \cup {Others}) \X {"made", "asked"}
    /\ stack \in [PressureStacks -> {"up", "busy", "sleeping", "asleep"}]
    /\ \A n \in StatNodes : emergency[n] # <<>> => emergency[n][1] \in 0..EmergencyEvery

(* "`node.pressure` fires when a node's kinds go from none to some, `node.recovered` from some to  *)
(* none" (api/pressure.go:7): between ticks, whoever kept the last event of a node knows whether   *)
(* it is in pressure, however its agent falls silent, returns, or its limits change.               *)
ToldIsHeld == \A n \in StatNodes : (said[n] # <<>> /\ said[n][1].event = "node.pressure") <=> (pressure[n] # {})

(* "A stale node's entry is left as it was ... inPressure says false for it, so no guard acts" *)
(* (api/pressure.go:14-15): a node whose agent went quiet refuses no work.                         *)
QuietNodesRefuseNothing ==
    \A o \in {"swarm", "compose"} : CapacityRefusal(o) =>
        \A n \in MayHost(o) : entries[n] # <<>> /\ entries[n][1].age <= Stale /\ entries[n][1].reading.ok

(* "at most once per node per 10 minutes, so a disk full of something other than images is not     *)
(* pruned in a loop" (api/prune.go:7-8): an emergency never includes a node of a recent one.         *)
EmergenciesAreSpaced ==
    [][\A n \in StatNodes : prune'.step = "begin" /\ prune.step # "begin" /\ n \in prune'.keys =>
          emergency[n] = <<>> \/ emergency[n][1] >= EmergencyEvery]_statVars

(* "One prune at a time" (api/prune.go:13): what a prune is doing is never taken over by another.  *)
OnePrune == [][prune.step # "idle" /\ prune'.step = "begin" => prune = prune']_statVars

(* "`service rm` on every path" (api/prune.go:21): a job that is still in docker when no prune runs  *)
(* is one docker was asked to remove and did not, however its create or its logs ended, unless     *)
(* pstack died in it.                                                                              *)
RemovalIsAsked == prune.step = "idle" /\ ~died => \A job \in jobsLeft : job[2] = "asked"

(* "It sleeps ONE stack ... with a container on a node in memory or cpu pressure" and does not     *)
(* displace a job (api/pressure.go:26-27): a full disk alone, which sleeping does not empty, puts     *)
(* nothing to sleep, and neither does a stack that came into use of a job in between.              *)
SleepHelps ==
    [][\A s \in PressureStacks : stack[s] # "sleeping" /\ stack'[s] = "sleeping" =>
          /\ stack[s] # "busy"
          /\ \E n \in StatNodes : pressure[n] \cap {"memory", "cpu"} # {}]_statVars

(* "a value sitting on the line does not flap" (nodestats/pressure.go:5-7): between two edges of a  *)
(* node under the same limits, every kind that took part in both moved by its recovery margin.     *)
Moved(k, r, q) ==
    CASE k = "disk" -> r.disk - q.disk >= 5 \/ q.disk - r.disk >= 5
      [] k = "memory" -> r.free - q.free >= 5 \/ q.free - r.free >= 5
      [] k = "cpu" -> r.load - q.load >= 25 \/ q.load - r.load >= 25
FlapsTakeAMargin ==
    [][\A n \in StatNodes : said[n] # <<>> /\ said'[n] # <<>> /\ said'[n] # said[n] =>
          LET was == said[n][1]  is == said'[n][1] IN
          was.limits = is.limits => \A k \in was.kinds \cap is.kinds : Moved(k, was.reading, is.reading)]_statVars

(* What the tick keeps to: its events, its guards, its prunes and its sleeps. *)
StatsSafety ==
    /\ [](ToldIsHeld /\ QuietNodesRefuseNothing /\ RemovalIsAsked)
    /\ EmergenciesAreSpaced /\ OnePrune /\ SleepHelps /\ FlapsTakeAMargin
================================================================================
