---------------------------- MODULE SleepWakeProps ----------------------------
(* What sleep and wake promise (docs/usage.md, "Sleep and wake-on-call"). *)
EXTENDS SleepWake

\* The types of the state of the server's sleep machinery.
TypeOK ==
  /\ record \in [Deployment -> {"none", "awake", "asleep", "barren"}]
  /\ up \subseteq Deployment /\ index \subseteq Deployment
  /\ failed \subseteq Deployment /\ held \subseteq Deployment
  /\ waking \in [Deployment -> {"no", "asleep", "barren"}]
  /\ watch \in [Deployment -> {"none", "watching", "ready", "failed"}]
  /\ writeMu \in Process \cup {Nobody}
  /\ \A d \in Deployment :
       /\ next[d].act \in Posts \cup {"none", "sleep", "wake"}
       /\ run[d].act \in Posts \cup {"none", "sleep", "wake"}
       /\ (pc[d] = "idle") = (run[d] = NoAct)
  /\ view \in [Process -> SUBSET Deployment]

Mapped(d) == record[d] = "asleep" \/ waking[d] = "asleep"

\* Whatever rebuilds race, a deployment that stays asleep, or stays waking, ends
\* up in the index for good, and one that stays out of both ends up out of it
\* (reindex and reindexLoop).
IndexConverges ==
  \A d \in Deployment :
    /\ <>[] (record[d] = "asleep") => <>[] (d \in index)
    /\ <>[] (waking[d] = "asleep") => <>[] (d \in index)
    /\ <>[] ~ Mapped(d) => <>[] (d \notin index)

\* When a teardown releases its stack the deployment is neither asleep nor
\* waking (clearSleep in startLifecycle's down branch).
TearsDownClean ==
  \A d \in Deployment :
    Preempts(run[d].act) /\ run'[d] = NoAct => ~ Asleep(d) /\ waking[d] = "no"
TornDownIsNotAsleep == [][TearsDownClean]_vars

\* A request or a sweep never takes the place of a job that waits: only what an
\* operator asks for displaces anything (lifecycleOptions.OnlyIfIdle).
SupersedesWhenAsked ==
  \A d \in Deployment :
    next[d] # NoAct /\ next'[d] \notin {next[d], NoAct}
      => \E c \in Operator : pc[c] = "post" /\ pc'[c] = "done"
MachinesNeverSupersede == [][SupersedesWhenAsked]_vars

\* While nothing runs on its stack, a waking deployment is watched or its watch
\* has ended: the visitor's page always has an end (startLifecycle starts the
\* watch before it clears the record).
WakingIsWatched ==
  \A d \in Deployment : waking[d] # "no" /\ run[d] = NoAct => watch[d] # "none"

(***************************************************************************)
(* What the guide says and the code does not do.                           *)
(***************************************************************************)
\* usage.md 2531: a sleeping deployment's record has the hostnames its
\* containers had.
HostsSurvive == \A d \in Deployment : record[d] # "barren"

================================================================================
