--------------------------------- MODULE Jobs ---------------------------------
(***************************************************************************)
(* The job registry (packages/pstack/internal/jobs/jobs.go): one waiting   *)
(* and one running job per stack, a global cap on running jobs, holds that *)
(* keep a stack free of jobs, cancellation, preemption and eviction.       *)
(*                                                                         *)
(* Every critical section under Registry.mu is one action.  What the code  *)
(* does after unlocking (announcing a dropped job, emitting job.started,   *)
(* pumping) is a later action, so that every interleaving of the callers'  *)
(* goroutines with each other and with the jobs' own goroutines is here.   *)
(* A job is its sequence number: ids differ exactly when those do.         *)
(***************************************************************************)
EXTENDS Integers, FiniteSets

CONSTANTS
  Stack,              \* the stacks jobs are started for
  Action,             \* what a job may do
  preempts,           \* the actions that clear a stack (the table in jobs.go)
  MaxSeq,             \* bound: jobs accepted in one behaviour
  MaxJobs,            \* transcripts kept
  DefaultMaxRunning,  \* the cap when none is set
  Caps,               \* the arguments SetMaxRunning is called with
  Outcomes,           \* what a job's work may come to, "error" for a crash
  MaxOwed             \* bound: holds out, and calls that have yet to pump

ASSUME ConstantsAssumption ==
  /\ IsFiniteSet(Stack) /\ Stack # {} /\ Action # {}
  /\ preempts \subseteq Action
  /\ MaxSeq \in Nat \ {0}
  /\ MaxJobs \in Nat \ {0}
  /\ DefaultMaxRunning \in Nat \ {0}
  /\ Caps \subseteq Int
  /\ Outcomes \subseteq {"ok", "failed", "leaked", "error"}
  /\ MaxOwed \in Nat

Id == 1 .. MaxSeq
NoJob == 0

TerminalStates == {"ok", "failed", "leaked", "cancelled", "superseded"}
Terminal(st) == st \in TerminalStates

VARIABLES
  seq,          \* the last sequence number given out
  stackOf,      \* job -> its stack
  action,       \* job -> its action
  state,        \* job -> State ("none" before it is accepted)
  started,      \* the jobs with a StartedAt
  cancelledBy,  \* the jobs somebody cancelled (whose CancelledBy is set)
  ctxErr,       \* the jobs whose context is done
  kept,         \* the jobs whose record is still served (Registry.jobs)
  queue,        \* stack -> the one waiting job
  live,         \* stack -> the job that occupies it
  held,         \* the stacks a route holds
  inFlight,
  maxRunning,
  pc,           \* job -> how far its goroutine, or its announcement, is
  ahead,        \* job -> the jobs the same pump launches before it
  callers,      \* the jobs whose Start call has yet to pump
  doomed,       \* job -> the waiting job its Start call ended, if any
  owed          \* releases and cap changes that have yet to pump

record == <<stackOf, action, state, started, cancelledBy, ctxErr, kept>>
locks == <<queue, live, held, inFlight, maxRunning>>
threads == <<pc, ahead, callers, doomed, owed>>
vars == <<seq, record, locks, threads>>

Init ==
  /\ seq = 0
  /\ stackOf = [i \in Id |-> CHOOSE s \in Stack : TRUE]
  /\ action = [i \in Id |-> CHOOSE a \in Action : TRUE]
  /\ state = [i \in Id |-> "none"]
  /\ started = {}
  /\ cancelledBy = {}
  /\ ctxErr = {}
  /\ kept = {}
  /\ queue = [s \in Stack |-> NoJob]
  /\ live = [s \in Stack |-> NoJob]
  /\ held = {}
  /\ inFlight = 0
  /\ maxRunning = DefaultMaxRunning
  /\ pc = [i \in Id |-> "unborn"]
  /\ ahead = [i \in Id |-> {}]
  /\ callers = {}
  /\ doomed = [i \in Id |-> NoJob]
  /\ owed = 0

(***************************************************************************)
(* Pieces the operations share.  A definition X_How just before X is X     *)
(* with a plausible mistake in it; no action uses it, and a run shows that *)
(* with it in the place of X a property fails.                             *)
(***************************************************************************)
IsBusy_QueueForgotten(s) == live[s] # NoJob \/ s \in held

IsBusy(s) == live[s] # NoJob \/ queue[s] # NoJob \/ s \in held

\* The running job clearStackLocked cancels: a job that already has its
\* outcome but not yet freed the stack is left alone.
Cancellable(s) == {i \in Id : live[s] = i /\ state[i] = "running"}
Waiting(s) == {i \in Id : queue[s] = i}

Outranked_Never(s, a) == FALSE

\* A waiting job that preempts is not displaced by one that does not.
Outranked(s, a) == a \notin preempts /\ \E j \in Waiting(s) : action[j] \in preempts

EffectiveCap_Unchecked(n) == n

EffectiveCap(n) == IF n <= 0 THEN DefaultMaxRunning ELSE n

Recorded_OutcomeWins(i, outcome) == IF outcome = "error" THEN "failed" ELSE outcome

\* A cancellation wins over the outcome it produced.
Recorded(i, outcome) ==
  IF i \in ctxErr THEN "cancelled"
  ELSE IF outcome = "error" THEN "failed" ELSE outcome

\* endLocked: the jobs of `gone` leave the queue without having run.
EndLocked(gone, st) ==
  /\ state' = [i \in Id |-> IF i \in gone THEN st ELSE state[i]]
  /\ pc' = [i \in Id |-> IF i \in gone THEN "announcing" ELSE pc[i]]
  /\ queue' = [s \in Stack |-> IF queue[s] \in gone THEN NoJob ELSE queue[s]]

Evictions_AnyRecord(all, st) ==
  IF Cardinality(all) <= MaxJobs THEN {{}}
  ELSE {gone \in SUBSET all : Cardinality(gone) = Cardinality(all) - MaxJobs}

\* The sets of records evictLocked may drop.  Which finished jobs are oldest
\* depends on wall-clock milliseconds; any choice of the right size is allowed.
Evictions(all, st) ==
  LET finished == {i \in all : Terminal(st[i])}
      surplus == Cardinality(finished) - (MaxJobs - 1)
  IN  IF Cardinality(all) <= MaxJobs \/ surplus <= 0
      THEN {{}}
      ELSE {gone \in SUBSET finished : Cardinality(gone) = surplus}

(***************************************************************************)
(* Start, StartFor and StartIfIdle.  A refusal changes nothing but the     *)
(* sequence number, and gaps in it are not modelled.                       *)
(***************************************************************************)
Start(s, a, onlyIfIdle) ==
  LET i == seq + 1
      clears == a \in preempts
      hit == IF clears THEN Cancellable(s) ELSE {}
      after == [j \in Id |->
                  CASE j = i -> "queued"
                    [] j \in Waiting(s) ->
                         IF clears THEN "cancelled" ELSE "superseded"
                    [] OTHER -> state[j]]
  IN
  /\ seq < MaxSeq
  /\ s \notin held
  /\ onlyIfIdle => live[s] = NoJob /\ queue[s] = NoJob
  /\ ~ Outranked(s, a)
  /\ seq' = i
  /\ stackOf' = [stackOf EXCEPT ![i] = s]
  /\ action' = [action EXCEPT ![i] = a]
  /\ state' = after
  /\ cancelledBy' = IF clears THEN cancelledBy \cup hit \cup Waiting(s)
                               ELSE cancelledBy
  /\ ctxErr' = ctxErr \cup hit \cup Waiting(s)
  /\ \E gone \in Evictions(kept \cup {i}, after) :
       kept' = (kept \cup {i}) \ gone
  /\ queue' = [queue EXCEPT ![s] = i]
  /\ pc' = [j \in Id |-> CASE j = i -> "waiting"
                           [] j \in Waiting(s) -> "announcing"
                           [] OTHER -> pc[j]]
  /\ callers' = callers \cup {i}
  /\ doomed' = [doomed EXCEPT ![i] = queue[s]]
  /\ UNCHANGED <<started, live, held, inFlight, maxRunning,
                 ahead, owed>>

(***************************************************************************)
(* Cancel, CancelStack, Hold and its release, SetMaxRunning.               *)
(***************************************************************************)
Cancel(i) ==
  /\ i \in kept
  /\ ~ Terminal(state[i])
  /\ EndLocked({i} \cap Waiting(stackOf[i]), "cancelled")
  /\ cancelledBy' = cancelledBy \cup {i}
  /\ ctxErr' = ctxErr \cup {i}
  /\ UNCHANGED <<seq, stackOf, action, started, kept, live, held, inFlight,
                 maxRunning, ahead, callers, doomed, owed>>

CancelStack(s) ==
  LET hit == Cancellable(s) \cup Waiting(s) IN
  /\ hit # {}
  /\ EndLocked(Waiting(s), "cancelled")
  /\ cancelledBy' = cancelledBy \cup hit
  /\ ctxErr' = ctxErr \cup hit
  /\ UNCHANGED <<seq, stackOf, action, started, kept, live, held, inFlight,
                 maxRunning, ahead, callers, doomed, owed>>

Hold(s) ==
  /\ ~ IsBusy(s)
  /\ owed + Cardinality(held) < MaxOwed
  /\ held' = held \cup {s}
  /\ UNCHANGED <<seq, record, queue, live, inFlight, maxRunning, threads>>

ReleaseHold(s) ==
  /\ s \in held
  /\ held' = held \ {s}
  /\ owed' = owed + 1
  /\ UNCHANGED <<seq, record, queue, live, inFlight, maxRunning,
                 pc, ahead, callers, doomed>>

SetMaxRunning(n) ==
  /\ owed + Cardinality(held) < MaxOwed
  /\ maxRunning' = EffectiveCap(n)
  /\ owed' = owed + 1
  /\ UNCHANGED <<seq, record, queue, live, held, inFlight,
                 pc, ahead, callers, doomed>>

(***************************************************************************)
(* pump: the oldest waiting jobs that can start, as many as there is room. *)
(***************************************************************************)
Eligible_Busy == {s \in Stack : queue[s] # NoJob /\ s \notin held}

Eligible == {s \in Stack : queue[s] # NoJob /\ live[s] = NoJob /\ s \notin held}
Room_OneTooMany == IF inFlight <= maxRunning THEN maxRunning - inFlight + 1 ELSE 0

Room == IF inFlight < maxRunning THEN maxRunning - inFlight ELSE 0

IsNextBatch(batch) ==
  /\ \/ Cardinality(batch) = Room /\ Cardinality(batch) <= Cardinality(Eligible)
     \/ batch = Eligible /\ Cardinality(batch) <= Room
  /\ \A s \in batch, t \in Eligible \ batch : queue[s] < queue[t]

\* `finished` is the job whose goroutine ends with this pump, if one does.
Pump(finished) ==
  \E batch \in SUBSET Eligible :
    LET out == {i \in Id : \E s \in batch : queue[s] = i} IN
    /\ IsNextBatch(batch)
    /\ queue' = [s \in Stack |-> IF s \in batch THEN NoJob ELSE queue[s]]
    /\ live' = [s \in Stack |-> IF s \in batch THEN queue[s] ELSE live[s]]
    /\ inFlight' = inFlight + Cardinality(batch)
    /\ state' = [i \in Id |-> IF i \in out THEN "running" ELSE state[i]]
    /\ started' = started \cup out
    /\ pc' = [i \in Id |-> CASE i \in out -> "starting"
                             [] i = finished -> "done"
                             [] OTHER -> pc[i]]
    /\ ahead' = [i \in Id |-> IF i \in out THEN {j \in out : j < i}
                                           ELSE ahead[i]]
    /\ UNCHANGED <<seq, stackOf, action, cancelledBy, ctxErr, kept, held,
                   maxRunning>>

PumpAfterStart(i) ==
  /\ i \in callers
  /\ doomed[i] # NoJob => pc[doomed[i]] # "announcing"
  /\ Pump(NoJob)
  /\ callers' = callers \ {i}
  /\ doomed' = [doomed EXCEPT ![i] = NoJob]
  /\ UNCHANGED owed

PumpOwed ==
  /\ owed > 0
  /\ Pump(NoJob)
  /\ owed' = owed - 1
  /\ UNCHANGED <<callers, doomed>>

PumpAfterRun_NoPump(i) ==
  /\ pc[i] = "released"
  /\ pc' = [pc EXCEPT ![i] = "done"]
  /\ UNCHANGED <<seq, record, locks, ahead, callers, doomed, owed>>

\* The last steps of run: the end of the job is announced (the __end__ frame,
\* the bus event), then the deferred pump.
PumpAfterRun(i) ==
  /\ pc[i] = "released"
  /\ Pump(i)
  /\ UNCHANGED <<callers, doomed, owed>>

(***************************************************************************)
(* A job's own goroutine, and the announcement of one that never ran.      *)
(***************************************************************************)
Step(i, from, to) ==
  /\ pc[i] = from
  /\ pc' = [pc EXCEPT ![i] = to]

quiet == <<seq, stackOf, action, started, cancelledBy, ctxErr, kept,
           queue, held, maxRunning, callers, doomed, owed>>

Announce(i) ==
  /\ Step(i, "announcing", "done")
  /\ UNCHANGED <<quiet, ahead, state, live, inFlight>>

EmitStarted(i) ==
  /\ \A j \in ahead[i] : pc[j] # "starting"
  /\ Step(i, "starting", "working")
  /\ ahead' = [ahead EXCEPT ![i] = {}]
  /\ UNCHANGED <<quiet, state, live, inFlight>>

\* The work returns and its outcome is recorded.  A cancel may land before the
\* work returns or in between: the work comes to anything either way.
Record(i) ==
  /\ Step(i, "working", "recorded")
  /\ \E outcome \in Outcomes :
       state' = [state EXCEPT ![i] = Recorded(i, outcome)]
  /\ UNCHANGED <<quiet, ahead, live, inFlight>>

Release(i) ==
  /\ Step(i, "recorded", "released")
  /\ live' = [s \in Stack |-> IF s = stackOf[i] /\ live[s] = i
                              THEN NoJob ELSE live[s]]
  /\ inFlight' = inFlight - 1
  /\ UNCHANGED <<quiet, ahead, state>>

Goroutine(i) ==
  \/ Announce(i) \/ EmitStarted(i) \/ Record(i)
  \/ Release(i) \/ PumpAfterStart(i) \/ PumpAfterRun(i)

Next ==
  \/ \E s \in Stack, a \in Action, idle \in BOOLEAN : Start(s, a, idle)
  \/ \E i \in Id : Cancel(i)
  \/ \E s \in Stack : CancelStack(s) \/ Hold(s) \/ ReleaseHold(s)
  \/ \E n \in Caps : SetMaxRunning(n)
  \/ PumpOwed
  \/ \E i \in Id : Goroutine(i)

Spec == Init /\ [][Next]_vars

\* A goroutine that can run does run, a job's work returns, and the routes that
\* take a hold release it with a defer.  Callers owe nothing.
Fairness ==
  /\ WF_vars(PumpOwed)
  /\ \A i \in Id : WF_vars(Goroutine(i)) /\ WF_vars(PumpAfterStart(i))
  /\ \A s \in Stack : WF_vars(ReleaseHold(s))

FairSpec == Spec /\ Fairness
===============================================================================
