------------------------------- MODULE SleepWake -------------------------------
(***************************************************************************)
(* Sleep and wake (packages/pstack/internal/api/server.go): the sleep      *)
(* record of a deployment, the entries of deployments that are waking, the *)
(* hostname index built from both, and who changes them: lifecycle jobs,   *)
(* requests to a sleeping hostname, the scheduler, the routes and the      *)
(* refresh timer.                                                          *)
(*                                                                         *)
(* One action is one critical section, or one read of something another    *)
(* goroutine may change.  writeMu is a variable because it is held across  *)
(* several of them; wakeMu never is.  The per-stack lock of the job        *)
(* registry (module Jobs) is taken at its abstract level: one running job, *)
(* one waiting job, a hold.  Every deployment here serves hostnames, has a *)
(* compose section and resolves; no custom route is assigned.              *)
(* A definition X_How just before X is X with a plausible mistake in it;   *)
(* no action uses it.                                                      *)
(***************************************************************************)
EXTENDS FiniteSets

CONSTANTS
  Deployment,
  Visitor,      \* requests to a preview hostname that reach the catch-all
  Operator,     \* requests to the lifecycle, delete and create routes
  Sweeper,      \* the goroutines that sleep idle stacks
  Posts,        \* what operators ask for
  Refresher,    \* the goroutine that rebuilds the index every 30 s, if it runs
  Nobody,       \* holds writeMu when no goroutine does
  Flaky         \* whether docker may fail to answer a question or a command

Client == Visitor \cup Operator \cup Sweeper
Process == Deployment \cup Client \cup Refresher

ASSUME SleepWakeAssumption ==
  /\ Posts \subseteq {"up", "wake", "sleep", "down", "forget", "delete", "create"}
  /\ Flaky \in BOOLEAN
  /\ Deployment \cap Client = {} /\ Refresher \cap (Deployment \cup Client) = {}
  /\ Nobody \notin Process

NoAct == [act |-> "none", prev |-> "none"]
NoConcern == <<CHOOSE d \in Deployment : TRUE, NoAct>>

VARIABLES
  record,     \* deployment -> "none", "awake", "asleep", or "barren": asleep
              \* with no hostnames in the record
  up,         \* the deployments whose containers exist
  waking,     \* deployment -> the record a waking entry carried on, or "no"
  index,      \* the deployments whose hostnames Find answers for
  watch,      \* deployment -> what readiness says of its stack
  failed,     \* the deployments whose last up or wake failed
  next,       \* deployment -> the job waiting for its stack
  run,        \* deployment -> the job running on its stack
  held,       \* the deployments a route holds
  writeMu,    \* who holds it
  pc,         \* process -> the step it is at
  about,      \* client -> the deployment it is about, and what it read of it
  view        \* process -> what its rebuild has gathered

jobs == <<next, run, held>>
index_state == <<record, waking, index, view, writeMu>>
vars == <<record, up, waking, index, watch, failed, next, run, held, writeMu,
          pc, about, view>>

Init ==
  /\ record = [d \in Deployment |-> "awake"]
  /\ up = Deployment
  /\ waking = [d \in Deployment |-> "no"]
  /\ index = {}
  /\ watch = [d \in Deployment |-> "none"]
  /\ failed = {}
  /\ next = [d \in Deployment |-> NoAct]
  /\ run = [d \in Deployment |-> NoAct]
  /\ held = {}
  /\ writeMu = Nobody
  /\ pc = [p \in Process |-> "idle"]
  /\ about = [c \in Client |-> NoConcern]
  /\ view = [p \in Process |-> {}]

Asleep(d) == record[d] \in {"asleep", "barren"}
Step(p, from, to) == pc[p] = from /\ pc' = [pc EXCEPT ![p] = to]

(***************************************************************************)
(* The job registry, as startLifecycle's callers see it.                   *)
(***************************************************************************)
IsBusy(d) == run[d] # NoAct \/ next[d] # NoAct \/ d \in held

Preempts(act) == act \in {"down", "forget"}

CanStart_Always(d, act, onlyIfIdle) ==
  d \notin held /\ ~ (Preempts(next[d].act) /\ ~ Preempts(act))

CanStart(d, act, onlyIfIdle) ==
  /\ d \notin held
  /\ ~ (Preempts(next[d].act) /\ ~ Preempts(act))
  /\ onlyIfIdle => ~ IsBusy(d)

\* StartFor: accepted, taking the place of what waited, or refused.
StartLifecycle(d, act, prev, onlyIfIdle) ==
  next' = IF CanStart(d, act, onlyIfIdle)
          THEN [next EXCEPT ![d] = [act |-> act, prev |-> prev]]
          ELSE next

(***************************************************************************)
(* reindex: list the records, add the waking entries, publish.  It is not  *)
(* one step, and only some of its callers hold writeMu.                    *)
(***************************************************************************)
List(p) ==
  /\ Step(p, "list", "merge")
  /\ view' = [view EXCEPT ![p] = {d \in Deployment : record[d] = "asleep"}]
  /\ UNCHANGED <<record, up, waking, index, watch, failed, jobs, writeMu, about>>

Merged_RecordsOnly(p) == view[p]

Merged(p) == view[p] \cup {d \in Deployment : waking[d] = "asleep"}

Merge(p) ==
  /\ Step(p, "merge", "publish")
  /\ view' = [view EXCEPT ![p] = Merged(p)]
  /\ UNCHANGED <<record, up, waking, index, watch, failed, jobs, writeMu, about>>

Publish(p) ==
  /\ Step(p, "publish", "done")
  /\ index' = view[p]
  /\ view' = [view EXCEPT ![p] = {}]
  /\ writeMu' = IF writeMu = p THEN Nobody ELSE writeMu
  /\ UNCHANGED <<record, up, waking, watch, failed, jobs, about>>

Reindex(p) == List(p) \/ Merge(p) \/ Publish(p)

Refresh(p) ==
  /\ Step(p, "idle", "list")
  /\ UNCHANGED <<index_state, up, watch, failed, jobs, about>>

\* A goroutine other than a job is finished; a route releases its hold.
Return(p) ==
  /\ p \notin Deployment
  /\ Step(p, "done", "idle")
  /\ held' = IF p \in Client /\ about[p][2].act = "delete"
             THEN held \ {about[p][1]} ELSE held
  /\ about' = [c \in Client |-> IF c = p THEN NoConcern ELSE about[c]]
  /\ UNCHANGED <<index_state, up, watch, failed, next, run>>

(***************************************************************************)
(* A lifecycle job, from its dispatch to the release of its stack.         *)
(***************************************************************************)
FirstStep(act) == CASE act \in {"up", "wake"} -> "compose up"
                    [] act = "sleep" -> "inspect"
                    [] OTHER -> "cancel watch"

Dispatch(d) ==
  /\ run[d] = NoAct /\ next[d] # NoAct /\ d \notin held
  /\ run' = [run EXCEPT ![d] = next[d]]
  /\ next' = [next EXCEPT ![d] = NoAct]
  /\ Step(d, "idle", FirstStep(next[d].act))
  /\ UNCHANGED <<index_state, up, watch, failed, held, about>>

\* stack.Up may fail at any point, with the containers there or not, and the
\* capacity check may refuse before anything runs.  A cancelled job fails too,
\* and is not remembered as failed.
UpFails(d) ==
  /\ Step(d, "compose up", "done")
  /\ up' \in {up, up \cup {d}}
  /\ failed' \in {failed \ {d}, failed \cup {d}}
  /\ UNCHANGED <<index_state, watch, jobs, about>>

UpSucceeds(d) ==
  /\ Step(d, "compose up", "watch")
  /\ up' = up \cup {d}
  /\ failed' = failed \ {d}
  /\ UNCHANGED <<index_state, watch, jobs, about>>

StartWatch(d) ==
  /\ Step(d, "watch", "clear")
  /\ watch' = [watch EXCEPT ![d] = "watching"]
  /\ UNCHANGED <<index_state, up, failed, jobs, about>>

Kept_AlsoAfterDown(d) == IF Asleep(d) THEN record[d] ELSE waking[d]

\* What clearSleep leaves in `waking`: an up or a wake keeps the hostnames the
\* record carried, a teardown forgets them.
Kept(d) == IF Preempts(run[d].act) THEN "no"
           ELSE IF Asleep(d) THEN record[d] ELSE waking[d]

\* clearSleep, under writeMu: the waking entry first, then the record, then the
\* index.
ClearSleep(d) ==
  /\ pc[d] = "clear"
  /\ writeMu = Nobody
  /\ waking' = [waking EXCEPT ![d] = Kept(d)]
  /\ pc' = [pc EXCEPT ![d] = IF Asleep(d) THEN "unrecord"
                             ELSE IF waking[d] # "no" THEN "list" ELSE "done"]
  /\ writeMu' = IF pc'[d] = "done" THEN Nobody ELSE d
  /\ UNCHANGED <<record, up, index, watch, failed, jobs, about, view>>

Unrecord(d) ==
  /\ Step(d, "unrecord", "list")
  /\ record' = [record EXCEPT ![d] = "awake"]
  /\ UNCHANGED <<up, waking, index, watch, failed, jobs, writeMu, about, view>>

\* The hostnames are read off the containers, then the watch is cancelled.  What
\* was found is kept in the job.
Inspect(d) ==
  /\ Step(d, "inspect", "stop")
  /\ \E found \in {(d \in up)} \cup (IF Flaky THEN {FALSE} ELSE {}) :
       run' = [run EXCEPT ![d].prev = IF found THEN "asleep" ELSE @]
  /\ watch' = [watch EXCEPT ![d] = "none"]
  /\ UNCHANGED <<index_state, up, failed, next, held, about>>

\* stack.Sleep reports success whatever compose answered.
StopContainers(d) ==
  /\ Step(d, "stop", "record")
  /\ up' \in {up \ {d}} \cup (IF Flaky THEN {up} ELSE {})
  /\ UNCHANGED <<index_state, watch, failed, jobs, about>>

\* The hostnames just read, else those of the record the request was given.
RecordedHosts(d) == IF run[d].prev = "asleep" THEN "asleep" ELSE "barren"

RecordSleep_StillWaking(d) ==
  /\ Step(d, "record", "list")
  /\ writeMu = Nobody
  /\ writeMu' = d
  /\ record' = [record EXCEPT ![d] = IF @ = "none" THEN @ ELSE RecordedHosts(d)]
  /\ UNCHANGED <<up, waking, index, watch, failed, jobs, about, view>>

RecordSleep(d) ==
  /\ Step(d, "record", "list")
  /\ writeMu = Nobody
  /\ writeMu' = d
  /\ record' = [record EXCEPT ![d] = IF @ = "none" THEN @ ELSE RecordedHosts(d)]
  /\ waking' = [waking EXCEPT ![d] = "no"]
  /\ UNCHANGED <<up, index, watch, failed, jobs, about, view>>

CancelWatch(d) ==
  /\ Step(d, "cancel watch", "tear down")
  /\ watch' = [watch EXCEPT ![d] = "none"]
  /\ UNCHANGED <<index_state, up, failed, jobs, about>>

\* A teardown may leave containers behind; its record goes either way.
TearDown(d) ==
  /\ Step(d, "tear down", "clear")
  /\ up' \in {up, up \ {d}}
  /\ UNCHANGED <<index_state, watch, failed, jobs, about>>

\* forgetAfterDown: only after a clean teardown with no container left.
Forget(d) ==
  /\ run[d].act = "forget" /\ record[d] # "none" /\ d \notin up
  /\ Step(d, "done", "remove")
  /\ watch' = [watch EXCEPT ![d] = "none"]
  /\ UNCHANGED <<index_state, up, failed, jobs, about>>

\* removeDeployment's locked part; DELETE runs it too.
RemoveDeployment(p, d) ==
  /\ Step(p, "remove", "list")
  /\ writeMu = Nobody
  /\ writeMu' = p
  /\ record' = [record EXCEPT ![d] = "none"]
  /\ UNCHANGED <<up, waking, index, watch, failed, jobs, about, view>>

Finish_HoldsSlot(d) ==
  /\ Step(d, "done", "idle")
  /\ UNCHANGED <<index_state, up, watch, failed, next, run, held, about>>
Finish(d) ==
  /\ Step(d, "done", "idle")
  /\ run' = [run EXCEPT ![d] = NoAct]
  /\ UNCHANGED <<index_state, up, watch, failed, next, held, about>>

JobStep(d) ==
  \/ Dispatch(d) \/ UpFails(d) \/ UpSucceeds(d) \/ StartWatch(d)
  \/ ClearSleep(d) \/ Unrecord(d)
  \/ Inspect(d) \/ StopContainers(d) \/ RecordSleep(d)
  \/ CancelWatch(d) \/ TearDown(d) \/ Forget(d) \/ RemoveDeployment(d, d)
  \/ Reindex(d) \/ Finish(d)

(***************************************************************************)
(* wakeFor: a request for a hostname the index knows.                      *)
(***************************************************************************)
Concern(c, d, act, prev) ==
  about' = [about EXCEPT ![c] = <<d, [act |-> act, prev |-> prev]>>]

Visit(c, d) ==
  /\ d \in index
  /\ Step(c, "idle", "get")
  /\ Concern(c, d, "visit", "none")
  /\ UNCHANGED <<index_state, up, watch, failed, jobs>>

Get(c) ==
  LET d == about[c][1] IN
  /\ Step(c, "get", CASE record[d] = "none" -> "forget waking"
                      [] record[d] = "awake" -> "waking?"
                      [] OTHER -> "busy?")
  /\ Concern(c, d, "visit", record[d])
  /\ UNCHANGED <<index_state, up, watch, failed, jobs>>

\* No waking entry either: the index was stale, so it is rebuilt.
WakingOf(c) ==
  /\ Step(c, "waking?", IF waking[about[c][1]] = "no" THEN "list" ELSE "verdict")
  /\ UNCHANGED <<index_state, up, watch, failed, jobs, about>>

KeepsHostname(d) == watch[d] \in {"watching", "failed"}

Verdict(c) ==
  /\ Step(c, "verdict", IF KeepsHostname(about[c][1]) THEN "done" ELSE "forget waking")
  /\ UNCHANGED <<index_state, up, watch, failed, jobs, about>>

ForgetWaking(c) ==
  /\ Step(c, "forget waking", "list")
  /\ waking' = [waking EXCEPT ![about[c][1]] = "no"]
  /\ UNCHANGED <<record, up, index, view, writeMu, watch, failed, jobs, about>>

LookBusy(c) ==
  /\ Step(c, "busy?", IF IsBusy(about[c][1]) THEN "done" ELSE "wake")
  /\ UNCHANGED <<index_state, up, watch, failed, jobs, about>>

\* A wake that failed less than a minute ago is not tried again.
HoldOff(c) ==
  /\ about[c][1] \in failed
  /\ Step(c, "wake", "done")
  /\ UNCHANGED <<index_state, up, watch, failed, jobs, about>>

WakeIt(c) ==
  /\ Step(c, "wake", "done")
  /\ StartLifecycle(about[c][1], "wake", about[c][2].prev, TRUE)
  /\ UNCHANGED <<index_state, up, watch, failed, run, held, about>>

WakeFor(c) ==
  \/ \E d \in Deployment : Visit(c, d)
  \/ Get(c) \/ WakingOf(c) \/ Verdict(c) \/ ForgetWaking(c)
  \/ LookBusy(c) \/ HoldOff(c) \/ WakeIt(c)

(***************************************************************************)
(* The scheduler's and the pressure sweep's sleep, and the routes.         *)
(***************************************************************************)
Sweep(c, d) ==
  /\ record[d] = "awake" /\ ~ IsBusy(d) /\ d \in up
  /\ Step(c, "idle", "reread")
  /\ Concern(c, d, "sleep", "none")
  /\ UNCHANGED <<index_state, up, watch, failed, jobs>>

Reread(c) ==
  LET d == about[c][1] IN
  /\ Step(c, "reread", IF record[d] = "none" THEN "done" ELSE "sweep")
  /\ Concern(c, d, "sleep", record[d])
  /\ UNCHANGED <<index_state, up, watch, failed, jobs>>

SweepIt(c) ==
  /\ Step(c, "sweep", "done")
  /\ StartLifecycle(about[c][1], "sleep", about[c][2].prev, TRUE)
  /\ UNCHANGED <<index_state, up, watch, failed, run, held, about>>

\* POST /api/deployments/:id/<act>: the record is read, then the job started.
Post(c, d, act) ==
  /\ record[d] # "none"
  /\ Step(c, "idle", "post")
  /\ Concern(c, d, act, record[d])
  /\ UNCHANGED <<index_state, up, watch, failed, jobs>>

PostIt(c) ==
  /\ Step(c, "post", "done")
  /\ StartLifecycle(about[c][1], about[c][2].act, about[c][2].prev, FALSE)
  /\ UNCHANGED <<index_state, up, watch, failed, run, held, about>>

\* DELETE: the hold, docker's word that no container is left, the watch.
Delete(c, d) ==
  /\ "delete" \in Posts
  /\ record[d] # "none" /\ ~ IsBusy(d) /\ d \notin up
  /\ held' = held \cup {d}
  /\ watch' = [watch EXCEPT ![d] = "none"]
  /\ Concern(c, d, "delete", record[d])
  /\ Step(c, "idle", "remove")
  /\ UNCHANGED <<index_state, up, failed, next, run>>

\* PUT of a new deployment, under its hold and writeMu throughout.  A replace
\* keeps the sleep record and touches nothing here.
Create(c, d) ==
  /\ "create" \in Posts
  /\ record[d] = "none" /\ ~ IsBusy(d) /\ writeMu = Nobody /\ pc[c] = "idle"
  /\ record' = [record EXCEPT ![d] = "awake"]
  /\ UNCHANGED <<up, waking, index, watch, failed, jobs, writeMu, pc, about, view>>

Route(c) ==
  \/ \E d \in Deployment, act \in Posts \ {"delete", "create"} : Post(c, d, act)
  \/ \E d \in Deployment : Delete(c, d) \/ Create(c, d)
  \/ PostIt(c) \/ RemoveDeployment(c, about[c][1])

\* A watch ends.
Settle(d) ==
  /\ watch[d] = "watching"
  /\ \E verdict \in {"ready", "failed"} : watch' = [watch EXCEPT ![d] = verdict]
  /\ UNCHANGED <<index_state, up, failed, jobs, pc, about>>

Next ==
  \/ \E d \in Deployment : JobStep(d) \/ Settle(d)
  \/ \E c \in Visitor : WakeFor(c)
  \/ \E c \in Sweeper : (\E d \in Deployment : Sweep(c, d)) \/ Reread(c) \/ SweepIt(c)
  \/ \E c \in Operator : Route(c)
  \/ \E p \in Client \cup Refresher : Reindex(p) \/ Return(p)
  \/ \E p \in Refresher : Refresh(p)

Spec == Init /\ [][Next]_vars

\* Goroutines run, jobs come to an end, watches end, and the timer ticks.
\* Nobody owes a visit, a post or a sweep.
Fairness ==
  /\ \A d \in Deployment : WF_vars(JobStep(d)) /\ WF_vars(Settle(d))
  /\ \A p \in Client \cup Refresher : WF_vars(Reindex(p) \/ Return(p))
  /\ \A c \in Client :
       WF_vars(pc[c] # "idle" /\ (WakeFor(c) \/ Route(c) \/ Reread(c) \/ SweepIt(c)))
  /\ \A p \in Refresher : WF_vars(Refresh(p))

FairSpec == Spec /\ Fairness
================================================================================
