------------------------------ MODULE Readiness ------------------------------
(***************************************************************************)
(* The watch a deploy starts to learn whether its containers came up:      *)
(* readiness/readiness.go.  A watch is a goroutine with a context and a    *)
(* snapshot under a mutex of its own; the watcher's mutex guards the map   *)
(* from stacks to watches and is kept by Start while it stops the watch    *)
(* it replaces.  Its callers are the lifecycle jobs and container actions  *)
(* (api/server.go, api/routes_deploy.go), which start watches that         *)
(* announce themselves, and the route that reads readiness, which starts   *)
(* silent ones.  All of them pass Restart.  The healthcheck.* events, the  *)
(* wording of the others and a tick that panics are left out; time is the  *)
(* age of a watch.                                                         *)
(***************************************************************************)
EXTENDS Integers, FiniteSets

CONSTANTS
    WatchedStacks,
    MaxWatch,        \* bound on the watches ever started
    Jobs, Readers,   \* goroutines that deploy or tear down, requests for the readiness
    Samples,         \* what docker may answer: sets of containers
    RestartLoop, NotAllocated, Timeout

ASSUME ReadinessAssumption ==
    /\ MaxWatch \in Nat /\ RestartLoop \in Nat \ {0}
    /\ NotAllocated \in Nat /\ Timeout \in Nat
    /\ "free" \notin Jobs \cup Readers

Callers == Jobs \cup Readers
Watches == 1 .. MaxWatch
NoWatch == 0
Verdicts == {"ready", "failed", "timedout"}

VARIABLES
    byStack,       \* stack -> its watch
    watcherMu,     \* the caller that keeps the watcher's mutex, or "free"
    watchStack, emit, \* of a watch: its stack, and whether it announces itself
    watchStatus,        \* snap.State, or "unused"
    stackContainers,    \* snap.Containers
    ctx,           \* its context is done
    loop,          \* where its goroutine is
    verdict,       \* what the tick is about to settle
    announced,     \* containers announced
    waiters,       \* callers in its list of channels
    age,
    told,          \* how often it announced each container and its own end, up to 2
    caller         \* what each caller does, with which watch

watchOfVars == <<watchStack, emit, watchStatus, stackContainers, ctx, loop, verdict, announced, waiters, age, told>>
readinessVars == <<byStack, watcherMu, watchOfVars, caller>>

-----------------------------------------------------------------------------
(* One container, and all of them.                                          *)

WatchVerdict(c) ==
    CASE c.health = "unhealthy" -> "failed"
      [] c.health = "healthy" /\ c.state = "running" -> "ready"
      [] c.restarts >= RestartLoop /\ ~(c.health = "healthy" /\ c.state = "running")
           /\ c.health # "unhealthy" -> "failed"
      [] OTHER -> IF c.state = "exited" THEN IF c.exit = 0 THEN "ready" ELSE "failed"
                  ELSE IF c.state = "dead" THEN "failed"
                  ELSE IF c.state = "running" /\ c.health = "none" THEN "ready"
                  ELSE "pending"

\* A swarm task that is still `new` this late has no address and never will.
Judged(c, w) == IF c.state = "new" /\ age[w] >= NotAllocated THEN "failed" ELSE WatchVerdict(c)

AllReady_Empty(judged) == \A c \in judged : c.verdict = "ready"
AllReady(judged) == judged # {} /\ \A c \in judged : c.verdict = "ready"
AnyFailed(judged) == \E c \in judged : c.verdict = "failed"

Twice(n) == IF n < 2 THEN n + 1 ELSE 2

-----------------------------------------------------------------------------
(* The goroutine of a watch.                                                *)

GoTo(w, at) == loop' = [loop EXCEPT ![w] = at]

\* The head of the loop.
Poll(w) ==
    /\ loop[w] = "poll"
    /\ GoTo(w, IF ctx[w] \/ watchStatus[w] # "watching" THEN "done" ELSE "look")
    /\ UNCHANGED <<byStack, watcherMu, watchStack, emit, watchStatus, stackContainers, ctx, verdict,
                   announced, waiters, age, told, caller>>

\* Docker answered after the context was done, or did not answer.
LookInVain(w) ==
    /\ loop[w] = "look"
    /\ GoTo(w, "check")
    /\ UNCHANGED <<byStack, watcherMu, watchStack, emit, watchStatus, stackContainers, ctx, verdict,
                   announced, waiters, age, told, caller>>

Announces(w, judged) ==
    {c \in judged : c.name \notin announced[w] /\ c.verdict \in {"ready", "failed"}}

\* The answer enters the snapshot; what there is to say is said once the mutex is free.
LookAtStack(w) ==
    /\ loop[w] = "look" /\ ~ctx[w]
    /\ \E sample \in Samples :
         LET judged == {[name |-> c.name, verdict |-> Judged(c, w)] : c \in sample}
             news == {c.name : c \in Announces(w, judged)}
         IN /\ stackContainers' = [stackContainers EXCEPT ![w] = judged]
            /\ announced' = [announced EXCEPT ![w] = @ \cup news]
            /\ told' = [told EXCEPT ![w] = [@ EXCEPT !.pending = IF emit[w] THEN news ELSE {}]]
            /\ verdict' = [verdict EXCEPT ![w] =
                 IF AnyFailed(judged) THEN "failed" ELSE IF AllReady(judged) THEN "ready" ELSE "none"]
    /\ GoTo(w, "tell")
    /\ UNCHANGED <<byStack, watcherMu, watchStack, emit, watchStatus, ctx, waiters, age, caller>>

Tell(w) ==
    /\ loop[w] = "tell"
    /\ told' = [told EXCEPT ![w] =
         [pending |-> {}, ends |-> @.ends,
          of |-> [n \in DOMAIN @.of |-> IF n \in @.pending THEN Twice(@.of[n]) ELSE @.of[n]]]]
    /\ GoTo(w, IF verdict[w] = "none" THEN "check" ELSE "settle")
    /\ UNCHANGED <<byStack, watcherMu, watchStack, emit, watchStatus, stackContainers, ctx, verdict,
                   announced, waiters, age, caller>>

\* settle: the first one takes the waiters; the end is announced and they are answered after.
SettleWatch(w) ==
    /\ loop[w] = "settle" /\ watchStatus[w] = "watching"
    /\ watchStatus' = [watchStatus EXCEPT ![w] = verdict[w]]
    /\ caller' = [c \in Callers |->
         IF c \in waiters[w] THEN [caller[c] EXCEPT !.answer = verdict[w]] ELSE caller[c]]
    /\ waiters' = [waiters EXCEPT ![w] = {}]
    /\ GoTo(w, "end")
    /\ UNCHANGED <<byStack, watcherMu, watchStack, emit, stackContainers, ctx, verdict, announced, age, told>>

End(w) ==
    /\ loop[w] = "end"
    /\ told' = [told EXCEPT ![w].ends = IF emit[w] THEN Twice(@) ELSE @]
    /\ GoTo(w, "check")
    /\ UNCHANGED <<byStack, watcherMu, watchStack, emit, watchStatus, stackContainers, ctx, verdict,
                   announced, waiters, age, caller>>

\* After a tick: stop, time out, or sleep until the next one.
Check(w) ==
    /\ loop[w] = "check"
    /\ LET over == ctx[w] \/ watchStatus[w] # "watching"
           expired == age[w] >= Timeout
       IN /\ GoTo(w, IF over THEN "done" ELSE IF expired THEN "settle" ELSE "sleep")
          /\ verdict' = [verdict EXCEPT ![w] = IF ~over /\ expired THEN "timedout" ELSE @]
    /\ UNCHANGED <<byStack, watcherMu, watchStack, emit, watchStatus, stackContainers, ctx, announced,
                   waiters, age, told, caller>>

WakeUp_Deaf(w) ==
    /\ loop[w] = "sleep" /\ ~ctx[w]
    /\ GoTo(w, "poll")
    /\ UNCHANGED <<byStack, watcherMu, watchStack, emit, watchStatus, stackContainers, ctx, verdict,
                   announced, waiters, age, told, caller>>
WakeUp(w) ==
    /\ loop[w] = "sleep"
    /\ GoTo(w, IF ctx[w] THEN "done" ELSE "poll")
    /\ UNCHANGED <<byStack, watcherMu, watchStack, emit, watchStatus, stackContainers, ctx, verdict,
                   announced, waiters, age, told, caller>>

Loop(w) ==
    Poll(w) \/ LookInVain(w) \/ LookAtStack(w) \/ Tell(w) \/ SettleWatch(w) \/ End(w) \/ Check(w) \/ WakeUp(w)

Elapse(w) ==
    /\ loop[w] \notin {"none", "done"} /\ (age[w] < Timeout \/ age[w] < NotAllocated)
    /\ age' = [age EXCEPT ![w] = @ + 1]
    /\ UNCHANGED <<byStack, watcherMu, watchStack, emit, watchStatus, stackContainers, ctx, loop, verdict,
                   announced, waiters, told, caller>>

-----------------------------------------------------------------------------
(* Callers                                                                  *)

Doing(at, w, s) == [at |-> at, watch |-> w, stack |-> s, emit |-> FALSE, answer |-> "none"]
Idle == [at |-> "idle", watch |-> NoWatch, stack |-> "none", emit |-> FALSE, answer |-> "none"]
Become(c, what) == caller' = [caller EXCEPT ![c] = what]

Fresh == {w \in Watches : watchStatus[w] = "unused"}

\* The new watch is registered and its goroutine starts.
CreateWatch(s, loud) ==
    \E w \in Fresh :
      /\ \A v \in Fresh : w <= v
      /\ byStack' = [byStack EXCEPT ![s] = w]
      /\ watchStack' = [watchStack EXCEPT ![w] = s]
      /\ emit' = [emit EXCEPT ![w] = loud]
      /\ watchStatus' = [watchStatus EXCEPT ![w] = "watching"]
      /\ GoTo(w, "poll")
      /\ UNCHANGED <<stackContainers, ctx, verdict, announced, waiters, age, told>>

\* Start with Restart: the watch there is, settled or not, is stopped before the new one starts.
\* A reader then goes on to ask.
Then(loud, s) == IF loud THEN Idle ELSE Doing("asks", NoWatch, s)

BeginWatch(c, s, loud) ==
    /\ watcherMu = "free"
    /\ LET existing == byStack[s]
       IN \/ /\ existing = NoWatch /\ CreateWatch(s, loud)
             /\ Become(c, Then(loud, s)) /\ UNCHANGED watcherMu
          \/ /\ existing # NoWatch /\ Fresh # {}
             /\ watcherMu' = c
             /\ Become(c, [Doing("replacing", existing, s) EXCEPT !.emit = loud])
             /\ ctx' = [ctx EXCEPT ![existing] = TRUE]
             /\ UNCHANGED <<byStack, watchStack, emit, watchStatus, stackContainers, loop, verdict,
                            announced, waiters, age, told>>

\* A deploy or a wake came up, or a container was started.
Deploy(c, s) == caller[c] = Idle /\ BeginWatch(c, s, TRUE)

\* GET readiness: a first look, under the mutex and let go, and a silent watch if there is none
\* or if the one there is has settled and a fresh one is wanted.
Read(c, s) ==
    /\ caller[c] = Idle /\ watcherMu = "free"
    /\ \/ byStack[s] = NoWatch /\ Become(c, Doing("starts", NoWatch, s))
       \/ byStack[s] # NoWatch /\ Become(c, Doing("asks", NoWatch, s))
       \/ /\ byStack[s] # NoWatch /\ watchStatus[byStack[s]] # "watching"
          /\ Become(c, Doing("starts", NoWatch, s))
    /\ UNCHANGED <<byStack, watcherMu, watchOfVars>>

StartSilent(c) == caller[c].at = "starts" /\ BeginWatch(c, caller[c].stack, FALSE)

\* Cancel takes the watch out of the map and stops it without the watcher's mutex.
EndWatch(c, s) ==
    /\ caller[c] = Idle /\ watcherMu = "free" /\ byStack[s] # NoWatch
    /\ Become(c, Doing("stopping", byStack[s], s))
    /\ ctx' = [ctx EXCEPT ![byStack[s]] = TRUE]
    /\ byStack' = [byStack EXCEPT ![s] = NoWatch]
    /\ UNCHANGED <<watcherMu, watchStack, emit, watchStatus, stackContainers, loop, verdict, announced,
                   waiters, age, told>>

\* stop, once the context is done: the waiters get the snapshot as it is.
Drain(c) ==
    /\ caller[c].at \in {"replacing", "stopping"} /\ caller[c].answer = "none"
    /\ LET w == caller[c].watch
       IN /\ caller' = [d \in Callers |->
               IF d = c THEN [caller[d] EXCEPT !.answer = "drained"]
               ELSE IF d \in waiters[w] THEN [caller[d] EXCEPT !.answer = watchStatus[w]]
               ELSE caller[d]]
          /\ waiters' = [waiters EXCEPT ![w] = {}]
    /\ UNCHANGED <<byStack, watcherMu, watchStack, emit, watchStatus, stackContainers, ctx, loop, verdict,
                   announced, age, told>>

\* and then the goroutine is waited for.
Stopped(c) == caller[c].answer = "drained" /\ loop[caller[c].watch] = "done"

Replace(c) ==
    /\ caller[c].at = "replacing" /\ Stopped(c)
    /\ watcherMu' = "free" /\ Become(c, Then(caller[c].emit, caller[c].stack))
    /\ CreateWatch(caller[c].stack, caller[c].emit)

CancelReturns(c) ==
    /\ caller[c].at = "stopping" /\ Stopped(c)
    /\ Become(c, Idle)
    /\ UNCHANGED <<byStack, watcherMu, watchOfVars>>

\* Wait finds the watch, joins the list unless it is settled, and is answered or times out.
FindWatch(c) ==
    /\ caller[c].at = "asks" /\ watcherMu = "free"
    /\ LET w == byStack[caller[c].stack]
       IN Become(c, IF w = NoWatch THEN Idle ELSE Doing("found", w, caller[c].stack))
    /\ UNCHANGED <<byStack, watcherMu, watchOfVars>>

Join(c) ==
    /\ caller[c].at = "found"
    /\ LET w == caller[c].watch
       IN IF watchStatus[w] # "watching"
          THEN Become(c, Idle) /\ UNCHANGED waiters
          ELSE /\ waiters' = [waiters EXCEPT ![w] = @ \cup {c}]
               /\ Become(c, [caller[c] EXCEPT !.at = "waiting"])
    /\ UNCHANGED <<byStack, watcherMu, watchStack, emit, watchStatus, stackContainers, ctx, loop, verdict,
                   announced, age, told>>

\* The channel stays in the list when the timer wins.
WaitReturns(c) ==
    /\ caller[c].at = "waiting"
    /\ Become(c, Idle)
    /\ waiters' = [w \in Watches |-> waiters[w] \ {c}]
    /\ UNCHANGED <<byStack, watcherMu, watchStack, emit, watchStatus, stackContainers, ctx, loop, verdict,
                   announced, age, told>>

Continue(c) ==
    Drain(c) \/ Replace(c) \/ CancelReturns(c) \/ StartSilent(c) \/ FindWatch(c) \/ Join(c) \/ WaitReturns(c)

ReadinessInit ==
    /\ byStack = [s \in WatchedStacks |-> NoWatch] /\ watcherMu = "free"
    /\ watchStack = [w \in Watches |-> "none"] /\ emit = [w \in Watches |-> FALSE]
    /\ watchStatus = [w \in Watches |-> "unused"] /\ stackContainers = [w \in Watches |-> {}]
    /\ ctx = [w \in Watches |-> FALSE] /\ loop = [w \in Watches |-> "none"]
    /\ verdict = [w \in Watches |-> "none"] /\ announced = [w \in Watches |-> {}]
    /\ waiters = [w \in Watches |-> {}] /\ age = [w \in Watches |-> 0]
    /\ told = [w \in Watches |->
         [pending |-> {}, ends |-> 0, of |-> [n \in {c.name : c \in UNION Samples} |-> 0]]]
    /\ caller = [c \in Callers |-> Idle]

ReadinessNext ==
    \/ \E w \in Watches : Loop(w) \/ Elapse(w)
    \/ \E c \in Callers : Continue(c)
    \/ \E s \in WatchedStacks :
         \/ \E c \in Jobs : Deploy(c, s) \/ EndWatch(c, s)
         \/ \E c \in Readers : Read(c, s)

\* Goroutines run, docker answers or its call fails, clocks advance and timers fire.
ReadinessFairness ==
    /\ \A w \in Watches : WF_readinessVars(Loop(w)) /\ WF_readinessVars(Elapse(w))
    /\ \A c \in Callers : WF_readinessVars(Continue(c))

ReadinessSpec == ReadinessInit /\ [][ReadinessNext]_readinessVars /\ ReadinessFairness
--------------------------------------------------------------------------------
(* What a readiness watch promises.                                          *)

ContainerNames == {c.name : c \in UNION Samples}
Judgements == [name : ContainerNames, verdict : {"ready", "failed", "pending"}]

\* Every variable has its type.
ReadinessTypeOK ==
    /\ byStack \in [WatchedStacks -> Watches \cup {NoWatch}]
    /\ watcherMu \in Callers \cup {"free"}
    /\ watchStack \in [Watches -> WatchedStacks \cup {"none"}]
    /\ emit \in [Watches -> BOOLEAN] /\ ctx \in [Watches -> BOOLEAN]
    /\ watchStatus \in [Watches -> Verdicts \cup {"watching", "unused"}]
    /\ stackContainers \in [Watches -> SUBSET Judgements]
    /\ loop \in [Watches -> {"none", "poll", "look", "tell", "settle", "end", "check", "sleep", "done"}]
    /\ verdict \in [Watches -> Verdicts \cup {"none"}]
    /\ announced \in [Watches -> SUBSET ContainerNames] /\ waiters \in [Watches -> SUBSET Callers]
    /\ age \in [Watches -> Nat]
    /\ told \in [Watches -> [pending : SUBSET ContainerNames, ends : 0 .. 2, of : [ContainerNames -> 0 .. 2]]]
    /\ caller \in [Callers -> [at : {"idle", "starts", "replacing", "stopping", "asks", "found", "waiting"},
                               watch : Watches \cup {NoWatch}, stack : WatchedStacks \cup {"none"},
                               emit : BOOLEAN, answer : Verdicts \cup {"none", "drained", "watching"}]]

\* Terminal, exactly once (readiness.go:12-13): a watch says at most once that it ended and each
\* container at most once what became of it; a silent one says nothing, and none before its end.
SaysItOnce ==
    \A w \in Watches :
      /\ told[w].ends <= 1 /\ \A n \in ContainerNames : told[w].of[n] <= 1
      /\ ~emit[w] => told[w].ends = 0 /\ \A n \in ContainerNames : told[w].of[n] = 0
      /\ told[w].ends = 1 => watchStatus[w] \in Verdicts

\* A verdict is what the containers in the snapshot say (readiness.go:422-444), also when
\* the tick that read them is long over: ready means some and all of them.
VerdictIsEarned ==
    \A w \in Watches :
      /\ watchStatus[w] = "ready" => stackContainers[w] # {} /\ \A c \in stackContainers[w] : c.verdict = "ready"
      /\ watchStatus[w] = "failed" => AnyFailed(stackContainers[w])
      /\ watchStatus[w] = "timedout" => age[w] >= Timeout

\* One voice per stack (readiness.go:225-230): two goroutines watch a stack only while a
\* Cancel still waits for the older, whose context is done.
OneVoice ==
    \A v, w \in Watches :
      (v < w /\ watchStack[v] = watchStack[w] /\ watchStack[v] # "none" /\ loop[v] # "done" /\ loop[w] # "done")
        => ctx[v] /\ \E c \in Callers : caller[c].at = "stopping" /\ caller[c].watch = v

\* A settled watch leaves nobody waiting (readiness.go:266-276, 488-497), and who is answered
\* with "watching" waited for a watch that was stopped.
NobodyLeftWaiting ==
    /\ \A w \in Watches : watchStatus[w] \in Verdicts => waiters[w] = {}
    /\ \A c \in Callers :
         (caller[c].at = "waiting" /\ caller[c].answer = "watching") => ctx[caller[c].watch]

\* Every watch reaches a verdict or is stopped (readiness.go:12-13): docker may fail to answer
\* for good, the deadline does not.
WatchesEnd ==
    \A w \in Watches : []<>(watchStatus[w] # "watching" \/ ctx[w])

\* Nobody is stuck in the watcher: who replaces or cancels a watch, or waits for one, returns,
\* although Start keeps the watcher's mutex while it waits for a goroutine (readiness.go:222-230).
\* A reader that has yet to start a watch may find the bound on watches reached.
CallersReturn ==
    \A c \in Callers : []<>(caller[c] = Idle \/ Fresh = {})

\* Stated of the watcher's mutex (readiness.go:165-166): a GET that starts a silent watch does
\* not race a deploy that starts a loud one, so a deploy's watch is stopped by a teardown or by
\* another loud start, never by a reader.
ReadersStopNoDeploy ==
    [][ \A w \in Watches : (emit[w] /\ watchStatus[w] = "watching" /\ ~ctx[w] /\ ctx'[w])
          => \E c \in Jobs : caller'[c].watch = w ]_readinessVars

\* What a watch says of a stack is said once, earned, and by one goroutine (readiness.go).
ReadinessSafety == SaysItOnce /\ VerdictIsEarned /\ OneVoice /\ NobodyLeftWaiting
================================================================================
