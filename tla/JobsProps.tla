------------------------------- MODULE JobsProps -------------------------------
(***************************************************************************)
(* What the job registry promises.                                         *)
(***************************************************************************)
EXTENDS Jobs

\* The phases in which a job owns its stack and a slot.
Occupying == {"starting", "working", "recorded"}
\* A goroutine in this phase has yet to announce its end and to pump.
WillPump == {"released"}

\* The types of the registry's state (Registry and entry in jobs.go).
TypeOK ==
  /\ seq \in 0 .. MaxSeq
  /\ stackOf \in [Id -> Stack]
  /\ action \in [Id -> Action]
  /\ state \in [Id -> TerminalStates \cup {"none", "queued", "running"}]
  /\ started \subseteq Id
  /\ cancelledBy \subseteq Id
  /\ ctxErr \subseteq Id
  /\ kept \subseteq Id
  /\ queue \in [Stack -> Id \cup {NoJob}]
  /\ live \in [Stack -> Id \cup {NoJob}]
  /\ held \subseteq Stack
  /\ inFlight \in Int
  /\ maxRunning \in Nat \ {0}
  /\ pc \in [Id -> Occupying \cup WillPump
                     \cup {"unborn", "waiting", "announcing", "done"}]
  /\ ahead \in [Id -> SUBSET Id]
  /\ callers \subseteq Id
  /\ doomed \in [Id -> Id \cup {NoJob}]
  /\ owed \in Nat

\* No two goroutines ever work for one stack, from the moment a job is
\* dispatched until its stack is released (jobs.go 41-45, "THE product
\* guarantee"): a down never deletes what an up is creating.
StackExclusion ==
  \A i, j \in Id :
    /\ pc[i] \in Occupying
    /\ pc[j] \in Occupying
    /\ stackOf[i] = stackOf[j]
    => i = j

\* A slot is counted exactly while a stack is occupied, so nothing leaks one
\* (inFlight against live, pump and run).
SlotAccounting == inFlight = Cardinality({s \in Stack : live[s] # NoJob})

\* While a route holds a stack (PUT and DELETE of a deployment) no job runs on
\* it, and none waits to be dispatched the instant the hold is released.
HeldIsQuiet == \A s \in held : live[s] = NoJob /\ queue[s] = NoJob

\* No lost wake-up: whenever a job could be dispatched and there is a slot for
\* it, somebody who has not pumped yet is going to (Start, a finishing job, a
\* released hold, a cap change).
NoLostWakeup ==
  Eligible # {} /\ Room > 0 =>
    \/ owed > 0
    \/ callers # {}
    \/ \E i \in Id : pc[i] \in WillPump

\* Nothing that has not finished is evicted, nothing finished waits in a queue,
\* and a job is queued in its own stack's queue or nowhere (evictLocked).
QueueAgrees ==
  /\ \A i \in Id : state[i] \in {"queued", "running"} => i \in kept
  /\ \A i \in Id : state[i] = "queued" <=> queue[stackOf[i]] = i
  /\ \A s \in Stack : queue[s] # NoJob => stackOf[queue[s]] = s

\* A finished job's state and its cancelledBy never disagree, although the
\* cancel may land between the work returning and the record being written.
CancelAgrees ==
  \A i \in Id : Terminal(state[i]) =>
    (state[i] = "cancelled" <=> i \in cancelledBy)

\* An accepted teardown is never silently replaced by a later request, and a
\* superseded job has never run (jobs.go, "why superseded is its own state").
SupersededNeverRan ==
  \A i \in Id : state[i] = "superseded" =>
    i \notin started /\ action[i] \notin preempts

\* The transcripts kept are bounded whatever the traffic: beyond MaxJobs - 1
\* finished ones only what each stack has running or waiting (evictLocked).
KeptBounded == Cardinality(kept) <= MaxJobs - 1 + 2 * Cardinality(Stack)

\* The inductive strengthening: a job's state follows from its phase, and the
\* queue and live maps point exactly at the waiting and the occupying jobs.
PhaseAgrees ==
  \A i \in Id :
    /\ pc[i] = "unborn" <=> i > seq
    /\ pc[i] = "unborn" => i \notin kept
    /\ state[i] = "none" <=> pc[i] = "unborn"
    /\ state[i] = "queued" <=> pc[i] = "waiting"
    /\ state[i] = "running" <=> pc[i] \in {"starting", "working"}
QueuePoints ==
  /\ \A i \in Id : pc[i] = "waiting" => queue[stackOf[i]] = i
  /\ \A s \in Stack : queue[s] # NoJob =>
       stackOf[queue[s]] = s /\ pc[queue[s]] = "waiting"
LivePoints ==
  /\ \A i \in Id : pc[i] \in Occupying => live[stackOf[i]] = i
  /\ \A s \in Stack : live[s] # NoJob =>
       stackOf[live[s]] = s /\ pc[live[s]] \in Occupying
Ownership == PhaseAgrees /\ QueuePoints /\ LivePoints

\* Cancelling and recording, jointly inductive: a context is done exactly when
\* the job was cancelled or never ran, until the outcome is recorded.
CancelMarks ==
  \A i \in Id :
    /\ pc[i] \in {"unborn", "waiting"} => i \notin cancelledBy /\ i \notin ctxErr
    /\ pc[i] \in {"starting", "working"} => (i \in cancelledBy <=> i \in ctxErr)

\* A finished job never moves again, and its record never changes.
FinishedStay ==
  \A i \in Id : Terminal(state[i]) =>
    /\ state'[i] = state[i]
    /\ i \in cancelledBy <=> i \in cancelledBy'
TerminalForever == [][FinishedStay]_vars

\* Only lowering the cap ever leaves more jobs in flight than it allows: no
\* dispatch takes a slot that is not there.
CapRespected == [][inFlight' > inFlight => inFlight' <= maxRunning]_vars

\* The registry as a lock per stack: what the rest of the product relies on.
statusOf == [i \in Id |->
  CASE state[i] = "none" -> "none"
    [] state[i] = "queued" -> "queued"
    [] state[i] = "running" -> "running"
    [] OTHER -> "ended"]
lockOf == [s \in Stack |->
  IF live[s] # NoJob THEN live[s] ELSE IF s \in held THEN -1 ELSE 0]
Lock == INSTANCE StackLock
          WITH status <- statusOf, home <- stackOf, lock <- lockOf

\* The registry implements the lock: a job has its stack to itself from its
\* dispatch to its release, and a hold shuts jobs out (the header of jobs.go).
ImplementsLock == Lock!Spec

\* Every job that is accepted comes to an end and everyone watching is told.
EveryJobEnds == \A i \in Id : []<>(pc[i] \in {"unborn", "done"})

\* The comment at jobs.go 798-800: an operator reads a job's end before the
\* next job of the same stack starts.
EndedBeforeStarted ==
  [][\A i \in Id : pc[i] = "starting" /\ pc'[i] = "working" =>
       \A j \in Id : stackOf[j] = stackOf[i] => pc[j] # "released"]_vars

\* What the registry remembers of jobs: queues and records agree, a transcript
\* is kept as long as it is needed and no longer, and a record that says its job
\* is over is never rewritten.
RegistryKeeps == [](QueueAgrees /\ KeptBounded) /\ TerminalForever
===============================================================================
