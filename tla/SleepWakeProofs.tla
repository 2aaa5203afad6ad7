---------------------------- MODULE SleepWakeProofs ----------------------------
(***************************************************************************)
(* Proofs about SleepWake: its types, that whatever wakes is watched, that *)
(* a teardown leaves nothing asleep, and that no machine takes the place   *)
(* of a waiting job; for any deployments, clients and operations.          *)
(*                                                                         *)
(* The watch of a deployment is cancelled in three places, and in none of  *)
(* them does the code look at the waking entry. Why it is safe takes what  *)
(* the entry says of the containers and of the step its job is at:         *)
(* WakingIsUp and StillWatched below. The front door, which a hostname of  *)
(* a sleeping deployment reaches as well, has its proofs at the end.       *)
(***************************************************************************)
EXTENDS SleepWakeProps, FrontDoor, TLAPS

Act == (Posts \ {"delete", "create"}) \cup {"sleep", "wake"}
Record == {"none", "awake", "asleep", "barren"}
Job == [act : Act \cup {"none"}, prev : Record]

\* The types, with those of what a client read.
Types ==
  /\ record \in [Deployment -> Record]
  /\ waking \in [Deployment -> {"no", "asleep", "barren"}]
  /\ watch \in [Deployment -> {"none", "watching", "ready", "failed"}]
  /\ up \subseteq Deployment /\ index \subseteq Deployment
  /\ failed \subseteq Deployment /\ held \subseteq Deployment
  /\ next \in [Deployment -> Job] /\ run \in [Deployment -> Job]
  /\ writeMu \in Process \cup {Nobody}
  /\ DOMAIN pc = Process
  /\ view \in [Process -> SUBSET Deployment]
  /\ DOMAIN about = Client

\* What a client is about once it has begun.
Concerns ==
  \A c \in Client : pc[c] # "idle" =>
    /\ about[c][1] \in Deployment
    /\ about[c][2].prev \in Record
    /\ pc[c] = "post" => about[c][2].act \in Act

\* The act of a job, by the step it is at.
JobAt(d) ==
  /\ (pc[d] = "idle") = (run[d] = NoAct)
  /\ next[d] = NoAct \/ next[d].act \in Act
  /\ pc[d] \in {"compose up", "watch"} => run[d].act \in {"up", "wake"}
  /\ pc[d] \in {"inspect", "stop", "record"} => run[d].act = "sleep"
  /\ pc[d] \in {"cancel watch", "tear down"} => Preempts(run[d].act)
  /\ pc[d] \in {"clear", "unrecord"} => run[d].act # "sleep"

Cleared == {"list", "merge", "publish", "done", "remove"}

\* A teardown past its clearing left no waking entry and nothing asleep.
Cleaned(d) == Preempts(run[d].act) =>
  /\ pc[d] \in Cleared \cup {"unrecord"} => waking[d] = "no"
  /\ pc[d] \in Cleared => ~ Asleep(d)

\* An up or a wake clears only what it brought up and has watched.
Brought(d) ==
  /\ pc[d] = "watch" => d \in up
  /\ pc[d] = "clear" /\ ~ Preempts(run[d].act) => d \in up /\ watch[d] # "none"

\* A waking deployment has containers, but while a job takes them away.
WakingIsUp(d) == waking[d] # "no" =>
  d \in up \/ pc[d] = "record" \/ (pc[d] = "clear" /\ Preempts(run[d].act))

\* And a watch, but from where such a job cancels it to where it clears.
StillWatched(d) == waking[d] # "no" =>
  \/ watch[d] # "none"
  \/ pc[d] \in {"stop", "record", "tear down"}
  \/ pc[d] = "clear" /\ Preempts(run[d].act)

InvOf(d) == JobAt(d) /\ Cleaned(d) /\ Brought(d) /\ WakingIsUp(d) /\ StillWatched(d)

IInv == Types /\ Concerns /\ \A d \in Deployment : InvOf(d)

-----------------------------------------------------------------------------
LEMMA Constants ==
  /\ Posts \subseteq {"up", "wake", "sleep", "down", "forget", "delete", "create"}
  /\ \A d \in Deployment : d \notin Client /\ d \notin Refresher
  /\ \A p \in Refresher : p \notin Client
  /\ Nobody \notin Process
  /\ Visitor \subseteq Client /\ Operator \subseteq Client /\ Sweeper \subseteq Client
  /\ Process = Deployment \cup Client \cup Refresher
  BY SleepWakeAssumption DEF Client, Process

LEMMA InitIInv == Init => IInv
  BY Constants
  DEF Init, IInv, Types, Concerns, InvOf, JobAt, Cleaned, Brought, WakingIsUp, StillWatched,
      Act, Record, Job, NoAct, Preempts, Asleep, Cleared

\* What a step may do to a deployment that is not its own: its job stays where it
\* is and its containers stay; no more is done than to forget its record, its waking
\* entry, or the watch of what neither runs nor wakes; a job may come to wait.
ForgetsOnly(e) ==
  /\ pc'[e] = pc[e] /\ run'[e] = run[e]
  /\ e \in up => e \in up'
  /\ next'[e] \in {next[e], NoAct} \/ next'[e].act \in Act
  /\ record'[e] \in {record[e], "none", "awake"} /\ waking'[e] \in {waking[e], "no"}
  /\ watch'[e] = "none" =>
       watch[e] = "none" \/ (pc[e] = "idle" /\ waking[e] = "no")

LEMMA LeftAlone ==
  ASSUME NEW e \in Deployment, InvOf(e), ForgetsOnly(e)
  PROVE  InvOf(e)'
  <1> USE DEF ForgetsOnly, InvOf
  <1>1. JobAt(e)'
    BY DEF JobAt
  <1>2. (Cleaned(e) /\ Brought(e))'
    BY DEF Cleaned, Brought, JobAt, Asleep, NoAct, Preempts
  <1>3. (WakingIsUp(e) /\ StillWatched(e))'
    BY DEF WakingIsUp, StillWatched
  <1>. QED
    BY <1>1, <1>2, <1>3

LEMMA OthersStay ==
  ASSUME Types, NEW p, NEW from, NEW to, Step(p, from, to), NEW q \in Process, q # p
  PROVE  pc'[q] = pc[q]
  BY DEF Types, Step

LEMMA JobStepTypes ==
  ASSUME Types, NEW d \in Deployment, JobStep(d), JobAt(d)
  PROVE  Types'
  <1> USE Constants
      DEF Types, Record, Job, Step, jobs, index_state
  <1>1. CASE Dispatch(d)
    BY <1>1 DEF Dispatch, FirstStep, NoAct, Act
  <1>2. CASE UpFails(d)
    BY <1>2 DEF UpFails
  <1>3. CASE UpSucceeds(d)
    BY <1>3 DEF UpSucceeds
  <1>4. CASE StartWatch(d)
    BY <1>4 DEF StartWatch
  <1>5. CASE ClearSleep(d)
    <2>1. Kept(d) \in {"no", "asleep", "barren"}
      BY DEF Kept, Asleep
    <2>. QED
      BY <1>5, <2>1 DEF ClearSleep
  <1>6. CASE Unrecord(d)
    BY <1>6 DEF Unrecord
  <1>7. CASE Inspect(d)
    BY SMTT(40), <1>7 DEF Inspect
  <1>8. CASE StopContainers(d)
    BY <1>8 DEF StopContainers
  <1>9. CASE RecordSleep(d)
    BY <1>9 DEF RecordSleep, RecordedHosts
  <1>10. CASE CancelWatch(d)
    BY <1>10 DEF CancelWatch
  <1>11. CASE TearDown(d)
    BY <1>11 DEF TearDown
  <1>12. CASE Forget(d)
    BY <1>12 DEF Forget
  <1>13. CASE RemoveDeployment(d, d)
    BY <1>13 DEF RemoveDeployment
  <1>14. CASE List(d)
    BY <1>14 DEF List
  <1>15. CASE Merge(d)
    BY <1>15 DEF Merge, Merged
  <1>16. CASE Publish(d)
    BY <1>16 DEF Publish
  <1>17. CASE Finish(d)
    BY <1>17 DEF Finish, NoAct, Act
  <1>. QED
    BY <1>1, <1>2, <1>3, <1>4, <1>5, <1>6, <1>7, <1>8, <1>9, <1>10, <1>11, <1>12,
       <1>13, <1>14, <1>15, <1>16, <1>17 DEF JobStep, Reindex

\* A job changes its own deployment and no client.
LEMMA JobStepIsLocal ==
  ASSUME Types, NEW d \in Deployment, JobStep(d)
  PROVE  /\ \A c \in Client : pc'[c] = pc[c] /\ about'[c] = about[c]
         /\ \A e \in Deployment \ {d} :
              /\ record'[e] = record[e] /\ waking'[e] = waking[e] /\ watch'[e] = watch[e]
              /\ e \in up => e \in up'
              /\ pc'[e] = pc[e] /\ run'[e] = run[e] /\ next'[e] = next[e]
  <1> USE Constants DEF Types, Step, index_state, jobs
  <1>1. CASE Dispatch(d)
    BY <1>1 DEF Dispatch
  <1>2. CASE UpFails(d)
    BY ZenonT(60), <1>2 DEF UpFails
  <1>3. CASE UpSucceeds(d)
    BY ZenonT(60), <1>3 DEF UpSucceeds
  <1>4. CASE StartWatch(d)
    BY <1>4 DEF StartWatch
  <1>5. CASE ClearSleep(d)
    BY <1>5 DEF ClearSleep
  <1>6. CASE Unrecord(d)
    BY <1>6 DEF Unrecord
  <1>7. CASE Inspect(d)
    BY <1>7 DEF Inspect
  <1>8. CASE StopContainers(d)
    BY <1>8 DEF StopContainers
  <1>9. CASE RecordSleep(d)
    BY <1>9 DEF RecordSleep
  <1>10. CASE CancelWatch(d)
    BY ZenonT(60), <1>10 DEF CancelWatch
  <1>11. CASE TearDown(d)
    BY ZenonT(60), <1>11 DEF TearDown
  <1>12. CASE Forget(d)
    BY <1>12 DEF Forget
  <1>13. CASE RemoveDeployment(d, d)
    BY <1>13 DEF RemoveDeployment
  <1>14. CASE List(d)
    BY <1>14 DEF List
  <1>15. CASE Merge(d)
    BY <1>15 DEF Merge
  <1>16. CASE Publish(d)
    BY <1>16 DEF Publish
  <1>17. CASE Finish(d)
    BY <1>17 DEF Finish
  <1>. QED
    BY <1>1, <1>2, <1>3, <1>4, <1>5, <1>6, <1>7, <1>8, <1>9, <1>10, <1>11, <1>12,
       <1>13, <1>14, <1>15, <1>16, <1>17 DEF JobStep, Reindex

LEMMA JobStepOwn ==
  ASSUME Types, NEW d \in Deployment, JobStep(d), InvOf(d)
  PROVE  InvOf(d)'
  <1> USE Constants
      DEF Types, InvOf, JobAt, Cleaned, Brought, WakingIsUp, StillWatched,
          Act, Record, Job, NoAct, Preempts, Asleep, Cleared, Step, jobs, index_state
  <1>1. CASE Dispatch(d)
    <2>1. /\ run'[d] = next[d] /\ run[d] = NoAct /\ next'[d] = NoAct
          /\ run'[d].act \in Act /\ pc'[d] = FirstStep(run'[d].act)
          /\ UNCHANGED <<record, waking, watch, up>> /\ pc[d] = "idle"
      BY <1>1 DEF Dispatch
    <2>2. \/ run'[d].act \in {"up", "wake"} /\ pc'[d] = "compose up"
          \/ run'[d].act = "sleep" /\ pc'[d] = "inspect"
          \/ Preempts(run'[d].act) /\ pc'[d] = "cancel watch"
      BY ZenonT(60), <2>1 DEF FirstStep
    <2>3. run'[d] # NoAct
      BY <2>1
    <2>4. JobAt(d)'
      BY <2>1, <2>2, <2>3
    <2>5. (Cleaned(d) /\ Brought(d))'
      BY <2>2
    <2>6. (WakingIsUp(d) /\ StillWatched(d))'
      BY <2>1
    <2>. QED
      BY <2>4, <2>5, <2>6
  <1>2. CASE UpFails(d)
    BY <1>2 DEF UpFails
  <1>3. CASE UpSucceeds(d)
    BY <1>3 DEF UpSucceeds
  <1>4. CASE StartWatch(d)
    BY <1>4 DEF StartWatch
  <1>5. CASE ClearSleep(d)
    BY <1>5 DEF ClearSleep, Kept
  <1>6. CASE Unrecord(d)
    BY <1>6 DEF Unrecord
  <1>7. CASE Inspect(d)
    BY <1>7 DEF Inspect
  <1>8. CASE StopContainers(d)
    BY <1>8 DEF StopContainers
  <1>9. CASE RecordSleep(d)
    BY <1>9 DEF RecordSleep, RecordedHosts
  <1>10. CASE CancelWatch(d)
    BY <1>10 DEF CancelWatch
  <1>11. CASE TearDown(d)
    BY <1>11 DEF TearDown
  <1>12. CASE Forget(d)
    BY <1>12 DEF Forget
  <1>13. CASE RemoveDeployment(d, d)
    BY <1>13 DEF RemoveDeployment
  <1>14. CASE List(d)
    BY <1>14 DEF List
  <1>15. CASE Merge(d)
    BY <1>15 DEF Merge, Merged
  <1>16. CASE Publish(d)
    BY <1>16 DEF Publish
  <1>17. CASE Finish(d)
    BY <1>17 DEF Finish
  <1>. QED
    BY <1>1, <1>2, <1>3, <1>4, <1>5, <1>6, <1>7, <1>8, <1>9, <1>10, <1>11, <1>12,
       <1>13, <1>14, <1>15, <1>16, <1>17 DEF JobStep, Reindex

LEMMA JobStepIInv ==
  ASSUME IInv, NEW d \in Deployment, JobStep(d)
  PROVE  IInv'
  <1>1. Types'
    BY JobStepTypes DEF IInv, InvOf
  <1>2. Concerns'
    BY JobStepIsLocal DEF IInv, Concerns
  <1>3. ASSUME NEW e \in Deployment PROVE InvOf(e)'
    <2>1. CASE e = d
      BY <2>1, JobStepOwn DEF IInv
    <2>2. CASE e # d
      BY <2>2, JobStepIsLocal, LeftAlone DEF IInv, ForgetsOnly
    <2>. QED
      BY <2>1, <2>2
  <1>. QED
    BY <1>1, <1>2, <1>3 DEF IInv

(***************************************************************************)
(* A step of anyone else.  Of a deployment it changes the record of a      *)
(* deleted or a new one, the waking entry of one that is found ready, the  *)
(* watch of one that is deleted, and what waits for the stack.             *)
(***************************************************************************)
LEMMA ClientStepTypes ==
  ASSUME IInv, NEW c \in Client,
         WakeFor(c) \/ (\E d \in Deployment : Sweep(c, d)) \/ Reread(c) \/ SweepIt(c)
           \/ Route(c) \/ Reindex(c) \/ Return(c)
  PROVE  Types' /\ Concerns'
  <1> USE Constants DEF IInv, Types, Concerns, Record, Act, Job, Step, index_state, jobs
  <1>1. CASE \E d \in Deployment : Visit(c, d)
    BY <1>1 DEF Visit, Concern
  <1>2. CASE Get(c)
    BY ZenonT(60), <1>2 DEF Get, Concern
  <1>3. CASE WakingOf(c)
    BY <1>3 DEF WakingOf
  <1>4. CASE Verdict(c)
    BY <1>4 DEF Verdict
  <1>5. CASE ForgetWaking(c)
    BY <1>5 DEF ForgetWaking
  <1>6. CASE LookBusy(c)
    BY <1>6 DEF LookBusy
  <1>7. CASE HoldOff(c)
    BY <1>7 DEF HoldOff
  <1>8. CASE WakeIt(c)
    <2>1. about[c][1] \in Deployment /\ about[c][2].prev \in Record /\ "wake" \in Act
      BY <1>8 DEF WakeIt
    <2>2. StartLifecycle(about[c][1], "wake", about[c][2].prev, TRUE)
      BY <1>8 DEF WakeIt
    <2>3. next' \in [Deployment -> Job]
      BY <2>1, <2>2 DEF StartLifecycle
    <2>. QED
      BY <1>8, <2>3 DEF WakeIt
  <1>9. CASE \E d \in Deployment : Sweep(c, d)
    BY <1>9 DEF Sweep, Concern
  <1>10. CASE Reread(c)
    BY <1>10 DEF Reread, Concern
  <1>11. CASE SweepIt(c)
    <2>1. about[c][1] \in Deployment /\ about[c][2].prev \in Record /\ "sleep" \in Act
      BY <1>11 DEF SweepIt
    <2>2. StartLifecycle(about[c][1], "sleep", about[c][2].prev, TRUE)
      BY <1>11 DEF SweepIt
    <2>3. next' \in [Deployment -> Job]
      BY <2>1, <2>2 DEF StartLifecycle
    <2>. QED
      BY <1>11, <2>3 DEF SweepIt
  <1>12. CASE \E d \in Deployment, act \in Posts \ {"delete", "create"} : Post(c, d,
     act)
    BY <1>12 DEF Post, Concern
  <1>13. CASE PostIt(c)
    <2>1. about[c][1] \in Deployment /\ about[c][2].prev \in Record /\ about[c][2].act \in Act
      BY <1>13 DEF PostIt
    <2>2. StartLifecycle(about[c][1], about[c][2].act, about[c][2].prev, FALSE)
      BY <1>13 DEF PostIt
    <2>3. next' \in [Deployment -> Job]
      BY <2>1, <2>2 DEF StartLifecycle
    <2>. QED
      BY <1>13, <2>3 DEF PostIt
  <1>14. CASE \E d \in Deployment : Delete(c, d)
    BY <1>14 DEF Delete, Concern, IsBusy
  <1>15. CASE \E d \in Deployment : Create(c, d)
    BY <1>15 DEF Create, IsBusy
  <1>16. CASE RemoveDeployment(c, about[c][1])
    BY <1>16 DEF RemoveDeployment
  <1>17. CASE List(c)
    BY <1>17 DEF List
  <1>18. CASE Merge(c)
    BY <1>18 DEF Merge, Merged
  <1>19. CASE Publish(c)
    BY <1>19 DEF Publish
  <1>20. CASE Return(c)
    BY <1>20 DEF Return
  <1>. QED
    BY <1>1, <1>2, <1>3, <1>4, <1>5, <1>6, <1>7, <1>8, <1>9, <1>10, <1>11, <1>12,
       <1>13, <1>14, <1>15, <1>16, <1>17, <1>18, <1>19, <1>20 DEF WakeFor, Route,
          Reindex

LEMMA ClientStepForgetsOnly ==
  ASSUME IInv, NEW c \in Client,
         WakeFor(c) \/ (\E d \in Deployment : Sweep(c, d)) \/ Reread(c) \/ SweepIt(c)
           \/ Route(c) \/ Reindex(c) \/ Return(c)
  PROVE  \A e \in Deployment : ForgetsOnly(e)
  <1> SUFFICES ASSUME NEW e \in Deployment PROVE ForgetsOnly(e)
    OBVIOUS
  <1>0. Types /\ Concerns
    BY DEF IInv
  <1>a. c # e
    BY Constants
  <1> USE <1>0, <1>a DEF Types, ForgetsOnly, Step, index_state, jobs
  <1>1. CASE \E d \in Deployment : Visit(c, d)
    BY <1>1 DEF Visit, Concern
  <1>2. CASE Get(c)
    <2>1. UNCHANGED <<record, waking, watch, up, run, next>>
      BY <1>2 DEF Get
    <2>2. pc'[e] = pc[e]
      BY <1>2, OthersStay, Constants DEF Get
    <2>. QED
      BY <2>1, <2>2
  <1>3. CASE WakingOf(c)
    BY <1>3 DEF WakingOf
  <1>4. CASE Verdict(c)
    <2>1. UNCHANGED <<record, waking, watch, up, run, next>>
      BY <1>4 DEF Verdict
    <2>2. pc'[e] = pc[e]
      BY <1>4, OthersStay, Constants DEF Verdict
    <2>. QED
      BY <2>1, <2>2
  <1>5. CASE ForgetWaking(c)
    <2>1. UNCHANGED <<record, watch, up, run, next>>
      BY <1>5 DEF ForgetWaking
    <2>2. pc'[e] = pc[e]
      BY <1>5, OthersStay, Constants DEF ForgetWaking
    <2>3. waking'[e] \in {waking[e], "no"}
      BY <1>5 DEF ForgetWaking
    <2>. QED
      BY <2>1, <2>2, <2>3
  <1>6. CASE LookBusy(c)
    BY <1>6 DEF LookBusy
  <1>7. CASE HoldOff(c)
    BY <1>7 DEF HoldOff
  <1>8. CASE WakeIt(c)
    <2>1. about[c][1] \in Deployment /\ "wake" \in Act
      BY <1>8, Constants DEF WakeIt, Concerns, Act
    <2>2. next'[e] = next[e] \/ next'[e].act = "wake"
      <3>1. StartLifecycle(about[c][1], "wake", about[c][2].prev, TRUE)
        BY <1>8 DEF WakeIt
      <3>. QED
        BY <3>1 DEF StartLifecycle
    <2>3. UNCHANGED <<record, waking, watch, up, run>>
      BY <1>8 DEF WakeIt
    <2>4. pc'[e] = pc[e]
      BY <1>8 DEF WakeIt
    <2>5. next'[e] = next[e] \/ next'[e].act \in Act
      BY <2>1, <2>2
    <2>. QED
      BY <2>3, <2>4, <2>5
  <1>9. CASE \E d \in Deployment : Sweep(c, d)
    BY <1>9 DEF Sweep, Concern
  <1>10. CASE Reread(c)
    BY <1>10 DEF Reread, Concern
  <1>11. CASE SweepIt(c)
    <2>1. about[c][1] \in Deployment /\ "sleep" \in Act
      BY <1>11, Constants DEF SweepIt, Concerns, Act
    <2>2. next'[e] = next[e] \/ next'[e].act = "sleep"
      <3>1. StartLifecycle(about[c][1], "sleep", about[c][2].prev, TRUE)
        BY <1>11 DEF SweepIt
      <3>. QED
        BY <3>1 DEF StartLifecycle
    <2>3. UNCHANGED <<record, waking, watch, up, run>>
      BY <1>11 DEF SweepIt
    <2>4. pc'[e] = pc[e]
      BY <1>11 DEF SweepIt
    <2>5. next'[e] = next[e] \/ next'[e].act \in Act
      BY <2>1, <2>2
    <2>. QED
      BY <2>3, <2>4, <2>5
  <1>12. CASE \E d \in Deployment, act \in Posts \ {"delete", "create"} : Post(c, d,
     act)
    BY <1>12 DEF Post, Concern
  <1>13. CASE PostIt(c)
    <2>1. about[c][1] \in Deployment /\ about[c][2].act \in Act
      BY <1>13, Constants DEF PostIt, Concerns, Act
    <2>2. next'[e] = next[e] \/ next'[e].act = about[c][2].act
      <3>1. StartLifecycle(about[c][1], about[c][2].act, about[c][2].prev, FALSE)
        BY <1>13 DEF PostIt
      <3>. QED
        BY <3>1 DEF StartLifecycle
    <2>3. UNCHANGED <<record, waking, watch, up, run>>
      BY <1>13 DEF PostIt
    <2>4. pc'[e] = pc[e]
      BY <1>13 DEF PostIt
    <2>5. next'[e] = next[e] \/ next'[e].act \in Act
      BY <2>1, <2>2
    <2>. QED
      BY <2>3, <2>4, <2>5
  <1>14. CASE \E d \in Deployment : Delete(c, d)
    <2>1. PICK d \in Deployment : Delete(c, d)
      BY <1>14
    <2>2. run[d] = NoAct /\ d \notin up
      BY <2>1 DEF Delete, IsBusy
    <2>3. pc[d] = "idle" /\ waking[d] = "no"
      BY <2>2 DEF IInv, InvOf, JobAt, WakingIsUp
    <2>4. /\ UNCHANGED <<record, waking, run, next, up>>
          /\ pc'[e] = pc[e] /\ (e # d => watch'[e] = watch[e])
      BY <2>1 DEF Delete
    <2>. QED
      BY <2>3, <2>4
  <1>15. CASE \E d \in Deployment : Create(c, d)
    <2>1. PICK d \in Deployment : Create(c, d)
      BY <1>15
    <2>. QED
      BY <2>1 DEF Create
  <1>16. CASE RemoveDeployment(c, about[c][1])
    BY <1>16 DEF RemoveDeployment
  <1>17. CASE List(c)
    BY <1>17 DEF List
  <1>18. CASE Merge(c)
    BY <1>18 DEF Merge, Merged
  <1>19. CASE Publish(c)
    BY <1>19 DEF Publish
  <1>20. CASE Return(c)
    BY <1>20 DEF Return
  <1>. QED
    BY <1>1, <1>2, <1>3, <1>4, <1>5, <1>6, <1>7, <1>8, <1>9, <1>10, <1>11, <1>12,
       <1>13, <1>14, <1>15, <1>16, <1>17, <1>18, <1>19, <1>20 DEF WakeFor, Route,
          Reindex

LEMMA ClientStepIInv ==
  ASSUME IInv, NEW c \in Client,
         WakeFor(c) \/ (\E d \in Deployment : Sweep(c, d)) \/ Reread(c) \/ SweepIt(c)
           \/ Route(c) \/ Reindex(c) \/ Return(c)
  PROVE  IInv'
  <1>1. Types' /\ Concerns'
    BY ClientStepTypes
  <1>2. ASSUME NEW e \in Deployment PROVE InvOf(e)'
    <2>1. ForgetsOnly(e) /\ InvOf(e)
      BY ClientStepForgetsOnly DEF IInv
    <2>. QED
      BY <2>1, LeftAlone
  <1>. QED
    BY <1>1, <1>2 DEF IInv

\* The timer's goroutine only rebuilds the index, and a watch only ends.
LEMMA RefresherIInv ==
  ASSUME IInv, NEW p \in Refresher, Refresh(p) \/ Reindex(p) \/ Return(p)
  PROVE  IInv'
  <1> USE Constants DEF IInv, Types, Step, index_state, jobs
  <1>1. Types' /\ (\A e \in Deployment \cup Client : pc'[e] = pc[e])
        /\ (\A c \in Client : about'[c] = about[c])
        /\ UNCHANGED <<record, waking, watch, up, run, next>>
    <2>1. CASE Refresh(p)
      BY <2>1 DEF Refresh
    <2>2. CASE List(p)
      BY <2>2 DEF List
    <2>3. CASE Merge(p)
      BY <2>3 DEF Merge, Merged
    <2>4. CASE Publish(p)
      BY <2>4 DEF Publish
    <2>5. CASE Return(p)
      BY <2>5 DEF Return
    <2>. QED
      BY <2>1, <2>2, <2>3, <2>4, <2>5 DEF Reindex
  <1>2. Concerns'
    BY <1>1 DEF Concerns
  <1>3. ASSUME NEW e \in Deployment PROVE InvOf(e)'
    BY <1>1, LeftAlone DEF ForgetsOnly
  <1>. QED
    BY <1>1, <1>2, <1>3

LEMMA SettleIInv ==
  ASSUME IInv, NEW d \in Deployment, Settle(d)
  PROVE  IInv'
  <1> USE DEF IInv
  <1>1. Types'
    BY DEF Types, Settle, index_state, jobs
  <1>2. Concerns'
    BY DEF Concerns, Settle
  <1>3. ASSUME NEW e \in Deployment PROVE InvOf(e)'
    <2>1. /\ UNCHANGED <<record, waking, up, run, next, pc>>
          /\ watch'[e] = "none" => watch[e] = "none"
      BY DEF Settle, index_state, jobs, Types
    <2>. QED
      BY <2>1, LeftAlone DEF ForgetsOnly
  <1>. QED
    BY <1>1, <1>2, <1>3

LEMMA StepIInv == IInv /\ [Next]_vars => IInv'
  <1> SUFFICES ASSUME IInv, [Next]_vars PROVE IInv'
    OBVIOUS
  <1>1. CASE Next
    BY <1>1, Constants, JobStepIInv, ClientStepIInv, RefresherIInv, SettleIInv DEF Next
  <1>2. CASE UNCHANGED vars
    BY <1>2
    DEF IInv, Types, Concerns, InvOf, JobAt, Cleaned, Brought, WakingIsUp, StillWatched,
        Asleep, vars, jobs
  <1>. QED
    BY <1>1, <1>2

-----------------------------------------------------------------------------
(***************************************************************************)
(* What follows.                                                           *)
(***************************************************************************)
LEMMA InvariantHolds == Spec => []IInv
  BY InitIInv, StepIInv, PTL DEF Spec

\* Every variable of the sleep machinery keeps its type.
THEOREM TypeCorrect == Spec => []TypeOK
  <1>1. IInv => TypeOK
    <2> SUFFICES ASSUME IInv PROVE TypeOK
      OBVIOUS
    <2>1. \A d \in Deployment : next[d].act \in Act \cup {"none"} /\ run[d].act \in Act \cup {"none"}
      BY DEF IInv, Types, Job
    <2>2. Act \cup {"none"} \subseteq Posts \cup {"none", "sleep", "wake"}
      BY DEF Act
    <2>. QED
      BY <2>1, <2>2 DEF IInv, Types, InvOf, JobAt, Record, TypeOK
  <1>. QED
    BY <1>1, InvariantHolds, PTL

\* While nothing runs on its stack a waking deployment is watched, or its watch
\* has ended (startLifecycle, clearSleep, wakeFor).
THEOREM WakingHasAWatch == Spec => []WakingIsWatched
  <1>1. IInv => WakingIsWatched
    BY Constants DEF IInv, InvOf, JobAt, StillWatched, WakingIsWatched
  <1>. QED
    BY <1>1, InvariantHolds, PTL

\* Only the end of a job takes it off its stack.
LEMMA OnlyFinishFrees ==
  ASSUME IInv, [Next]_vars, NEW d \in Deployment, run[d] # NoAct, run'[d] = NoAct
  PROVE  pc[d] = "done"
  <1>1. PICK e \in Deployment : JobStep(e)
    <2>1. run' # run
      OBVIOUS
    <2>. QED
      BY <2>1 DEF Next, vars, jobs, Settle, WakeFor, Visit, Get, WakingOf, Verdict,
         ForgetWaking, LookBusy, HoldOff, WakeIt, Sweep, Reread, SweepIt, Route, Post,
         PostIt, Delete, Create, RemoveDeployment, Reindex, List, Merge, Publish, Return,
         Refresh
  <1>2. e = d
    BY <1>1, JobStepIsLocal DEF IInv
  <1>3. CASE Dispatch(d)
    BY <1>3 DEF Dispatch
  <1>4. CASE Inspect(d)
    <2>1. run[d].act = "sleep" /\ run[d] \in Job
      BY <1>4 DEF Inspect, IInv, InvOf, JobAt, Types, Step
    <2>2. PICK prev : run' = [run EXCEPT ![d].prev = prev]
      BY <1>4 DEF Inspect
    <2>3. run'[d].act = "sleep"
      BY <2>1, <2>2 DEF IInv, Types, Job
    <2>. QED
      BY <2>3 DEF NoAct
  <1>5. CASE Finish(d)
    BY <1>5 DEF Finish, Step
  <1>. QED
    BY <1>1, <1>2, <1>3, <1>4, <1>5
    DEF JobStep, UpFails, UpSucceeds, StartWatch, ClearSleep, Unrecord, StopContainers,
        RecordSleep, CancelWatch, TearDown, Forget, RemoveDeployment, Reindex, List, Merge,
        Publish, jobs

\* A teardown that releases its stack leaves nothing asleep and nothing waking
\* (clearSleep in startLifecycle's down branch).
THEOREM TeardownsClear == Spec => TornDownIsNotAsleep
  <1>1. ASSUME IInv, [Next]_vars, NEW d \in Deployment, Preempts(run[d].act),
     run'[d] = NoAct
        PROVE  ~ Asleep(d) /\ waking[d] = "no"
    <2>1. run[d] # NoAct
      BY <1>1 DEF Preempts, NoAct
    <2>2. pc[d] = "done"
      BY <1>1, <2>1, OnlyFinishFrees
    <2>. QED
      BY <1>1, <2>2 DEF IInv, InvOf, Cleaned, Cleared
  <1>2. IInv /\ [Next]_vars => [TearsDownClean]_vars
    BY <1>1 DEF TearsDownClean
  <1>. QED
    BY <1>2, InvariantHolds, PTL DEF Spec, TornDownIsNotAsleep

\* Only what an operator asks for takes the place of a job that waits
\* (lifecycleOptions.OnlyIfIdle).
THEOREM MachinesWaitTheirTurn == Spec => MachinesNeverSupersede
  <1>1. ASSUME IInv, [Next]_vars, NEW d \in Deployment,
               next[d] # NoAct, next'[d] \notin {next[d], NoAct}
        PROVE  \E c \in Operator : pc[c] = "post" /\ pc'[c] = "done"
    <2>1. ASSUME NEW e, NEW act, NEW prev PROVE ~ StartLifecycle(e, act, prev, TRUE)
      BY <1>1 DEF StartLifecycle, CanStart, IsBusy, IInv, Types
    <2>2. ~ \E e \in Deployment : JobStep(e)
      <3>1. ASSUME NEW e \in Deployment, Dispatch(e) PROVE FALSE
        BY <1>1, <3>1 DEF Dispatch, IInv, Types
      <3>. QED
        BY <1>1, <3>1
        DEF JobStep, UpFails, UpSucceeds, StartWatch, ClearSleep, Unrecord, Inspect,
            StopContainers, RecordSleep, CancelWatch, TearDown, Forget, RemoveDeployment,
            Reindex, List, Merge, Publish, Finish, jobs
    <2>3. PICK c \in Operator : PostIt(c)
      BY <1>1, <2>1, <2>2
      DEF Next, vars, jobs, Settle, WakeFor, Visit, Get, WakingOf, Verdict,
          ForgetWaking, LookBusy, HoldOff, WakeIt, Sweep, Reread, SweepIt, Route, Post,
          Delete, Create, RemoveDeployment, Reindex, List, Merge, Publish, Return, Refresh
    <2>. QED
      <3>1. c \in DOMAIN pc
        <4>1. c \in Process
          BY Constants
        <4>. QED
          BY <1>1, <4>1 DEF IInv, Types
      <3>. QED
        BY <2>3, <3>1 DEF PostIt, Step
  <1>2. IInv /\ [Next]_vars => [SupersedesWhenAsked]_vars
    BY <1>1 DEF SupersedesWhenAsked
  <1>. QED
    BY <1>2, InvariantHolds, PTL DEF Spec, MachinesNeverSupersede

--------------------------------------------------------------------------------
(***************************************************************************)
(* Proofs about FrontDoor: for any accounts, browsers and requests. What   *)
(* is safe of a request under way rests on what is known of it while it is *)
(* on its way (OnItsWay); that Grafana opens to nobody else's browser, on  *)
(* where a code and a cookie come from (OwnCode, OwnCookies), and that a   *)
(* code which waits is in no log yet.                                      *)
(***************************************************************************)

\* What a request under way looks like: at the gate, or in its handler, as whom.
AtGate(p) == p = [at |-> "gate", req |-> p.req, had |-> p.had]
InHandler(p) == p = [at |-> "act", req |-> p.req, had |-> p.had, who |-> p.who]
Watched(p, ranks) == p.had \in [Users -> SUBSET (Roles \cup {""})] /\ \A u \in Users : ranks[u] \in p.had[u]

\* Who came as an account has the role it was let in with among those it had.
CameAsUser(p) ==
    p.who.kind = "user" =>
      /\ p.who = [kind |-> "user", user |-> p.who.user, role |-> p.who.role] /\ p.who.user \in Users
      /\ p.who.role # "" /\ p.who.role \in p.had[p.who.user] /\ Permit(p.who, p.req)
Viewer == [kind |-> "user", user |-> NoUser, role |-> "viewer"]
CameByLink(p, out, key) ==
    p.who.kind = "share" =>
      /\ p.req.method = "GET" /\ (p.req.route = "auth/me" \/ p.req.about = p.who.dep) /\ Permit(Viewer, p.req)
      /\ \E l \in out : l.dep = p.who.dep /\ l.secret = key
OnItsWay(p, ranks, out, key) ==
    \/ p = AtRest
    \/ AtGate(p) /\ p.req \in DoorRequests /\ Watched(p, ranks)
    \/ InHandler(p) /\ p.req \in DoorRequests /\ Watched(p, ranks) /\ CameAsUser(p) /\ CameByLink(p, out, key)
Carried == passing = [c \in Calls |-> passing[c]] /\ \A c \in Calls : OnItsWay(passing[c], role, links, secret)

Accountable == role \in [Users -> Roles \cup {""}] /\ secret \in 0 .. MaxSecrets /\ calls \in 0 .. MaxCalls
Ids == 1 .. MaxSessions
Sessions == [user : Users \cup {NoUser}, browser : Browsers \cup {NoBrowser}, sent : BOOLEAN]
\* A session that lives is of an account that is there.
Seated == session \in [Ids -> Sessions] /\ \A s \in Ids : session[s].user # NoUser => role[session[s].user] # ""
\* What is left of a link and what is gone are no more than the most there may be.
InTime(l) ==
    /\ l = [dep |-> l.dep, views |-> l.views, left |-> l.left, secret |-> l.secret, age |-> l.age]
    /\ l.views \subseteq {"details", "logs"} /\ l.left \in Nat /\ l.age \in Nat /\ l.left + l.age <= MaxTTL /\ l.secret \in 1 .. secret
LinksInTime == \A l \in links : InTime(l)

\* A cookie of Grafana stands on a session of its own browser, and so does a code that waits: it is
\* in no log yet, and who presents it is the browser that was given it.
Cookies == [Browsers -> [state : 0 .. states, session : 0 .. MaxSessions, secret : 0 .. secret]]
OwnCookies == cookie \in Cookies /\ \A b \in Browsers : cookie[b].session # 0 => session[cookie[b].session].browser = b
OwnCode(x) ==
    /\ x = [session |-> x.session, state |-> x.state, browser |-> x.browser, parked |-> x.parked, logged |-> x.logged]
    /\ x.session \in Ids /\ x.state \in 1 .. states /\ x.browser \in Browsers /\ session[x.session].browser = x.browser
    /\ x.parked = TRUE => x.logged = FALSE
OwnCodes == states \in 0 .. MaxStates /\ codes = [k \in DOMAIN codes |-> codes[k]] /\ \A k \in DOMAIN codes : OwnCode(codes[k])

DoorIInv == Accountable /\ Seated /\ LinksInTime /\ OwnCookies /\ OwnCodes /\ Carried

--------------------------------------------------------------------------------
LEMMA DoorBounds ==
  /\ MaxSessions \in Nat /\ MaxStates \in Nat /\ MaxTTL \in Nat /\ MaxSecrets \in Nat /\ MaxSecrets > 0 /\ MaxCalls \in Nat
  /\ NoUser \notin Users /\ NoBrowser \notin Browsers
BY FrontDoorAssumption DEF FrontDoorAssumption

\* What a link opens is open to a viewer.
LEMMA LinksReadAsViewers ==
  ASSUME NEW who, who.kind = "share", NEW req, ShareAllows(who, req)
  PROVE  req.method = "GET" /\ (req.route = "auth/me" \/ req.about = who.dep) /\ Permit(Viewer, req)
<1> DEFINE reads == Perm("viewer", {"GET"}, {"users", "deployments", "deployment", "settings", "swarm", "signals", "stats", "host-vars",
        "specs", "spec", "control", "logs", "logs/stream", "source", "terminal-sessions", "runtime", "readiness",
        "custom-routes", "routing", "routing/live", "routing/file", "notifiers", "notifiers/meta", "notifier",
        "registries", "jobs", "job"})
<1> DEFINE own == Perm("any", {"GET"}, {"auth/me", "tokens"})
<1>1. reads \in Permissions /\ own \in Permissions
  BY DEF Permissions
<1>2. req.method = "GET" /\ req.route \in {"auth/me", "deployment", "runtime", "readiness", "logs", "logs/stream"}
  BY DEF ShareAllows, ShareRoute
<1>3. CASE req.route = "auth/me"
  <2>1. own \in Matching(req)
    BY <1>1, <1>2, <1>3 DEF Matching, Perm
  <2>2. own.min = "any"
    BY DEF Perm
  <2> QED BY <1>2, <1>3, <2>1, <2>2 DEF Permit
<1>4. CASE req.route # "auth/me"
  <2>1. reads \in Matching(req)
    BY <1>1, <1>2, <1>4 DEF Matching, Perm
  <2>2. reads.min = "viewer"
    BY DEF Perm
  <2>3. Allows(Viewer, "viewer")
    BY DEF Allows, Viewer, Rank
  <2>4. Permit(Viewer, req)
    BY <2>1, <2>2, <2>3 DEF Permit, Roles
  <2> QED BY <1>2, <1>4, <2>4 DEF ShareAllows
<1> QED BY <1>3, <1>4

\* A request that is passed is one that was allowed.
LEMMA GateLetsInTheAllowed ==
  ASSUME DoorIInv, NEW c \in Calls, Gate(c)
  PROVE  Carried'
<1>1. PICK who \in Principal(passing[c].req) :
         passing' = [passing EXCEPT ![c] =
           IF /\ who # Anonymous /\ ShareAllows(who, passing[c].req) /\ Permit(who, passing[c].req)
              /\ <<passing[c].req.method, passing[c].req.route>> \in ServedRoutes
           THEN [at |-> "act", req |-> passing[c].req, had |-> passing[c].had, who |-> who] ELSE AtRest]
  BY DEF Gate
<1> DEFINE p == passing[c]
           q == passing'[c]
<1>2. role' = role /\ links' = links /\ secret' = secret
  BY DEF Gate, InDoor
<1>3. passing' = [d \in Calls |-> passing'[d]] /\ \A d \in Calls \ {c} : passing'[d] = passing[d]
  BY <1>1 DEF DoorIInv, Carried
<1>4. AtGate(p) /\ p.req \in DoorRequests /\ Watched(p, role)
  BY DEF Gate, DoorIInv, Carried, OnItsWay, AtRest, InHandler
<1>5. q = AtRest \/ (q = [at |-> "act", req |-> p.req, had |-> p.had, who |-> who] /\ ShareAllows(who, p.req) /\ Permit(who, p.req) /\ who # Anonymous)
  BY <1>1 DEF DoorIInv, Carried
<1>6. \/ who = Root \/ who = Anonymous
      \/ \E u \in Users : who = Account(u) /\ role[u] # ""
      \/ \E l \in links : Valid(l) /\ who = LinkBearer(l)
  <2>1. \A s \in SessionsOf(p.req.browser) : session[s].user \in Users /\ role[session[s].user] # ""
    BY DEF SessionsOf, LiveSession, DoorIInv, Seated, Sessions
  <2> QED BY <2>1, <1>1 DEF Principal
<1>7. OnItsWay(q, role', links', secret')
  <2>1. CASE q = AtRest
    BY <2>1 DEF OnItsWay, AtRest
  <2>2. CASE q # AtRest
    <3>1. q = [at |-> "act", req |-> p.req, had |-> p.had, who |-> who] /\ ShareAllows(who, p.req) /\ Permit(who, p.req) /\ who # Anonymous
      BY <1>5, <2>2
    <3>2. InHandler(q) /\ q.req = p.req /\ q.had = p.had /\ q.who = who
      BY <3>1 DEF InHandler
    <3>3. Watched(q, role')
      BY <3>2, <1>4, <1>2 DEF Watched
    <3>4. CameAsUser(q)
      <4>1. CASE \E u \in Users : who = Account(u) /\ role[u] # ""
        <5>1. PICK u \in Users : who = [kind |-> "user", user |-> u, role |-> role[u]] /\ role[u] # ""
          BY <4>1 DEF Account
        <5>2. who.user = u /\ who.role = role[u] /\ who = [kind |-> "user", user |-> who.user, role |-> who.role]
          BY <5>1
        <5>3. who.role \in p.had[who.user]
          BY <5>2, <1>4 DEF Watched
        <5> QED BY <5>1, <5>2, <5>3, <3>1, <3>2 DEF CameAsUser
      <4>2. CASE who.kind # "user"
        BY <4>2, <3>2 DEF CameAsUser
      <4>3. CASE \E l \in links : Valid(l) /\ who = LinkBearer(l)
        BY <4>3, <4>2 DEF LinkBearer
      <4>4. CASE who = Root
        BY <4>4, <4>2 DEF Root
      <4> HIDE DEF q
      <4> QED BY <1>6, <4>1, <4>3, <4>4, <3>1
    <3>5. CameByLink(q, links', secret')
      <4>1. CASE \E l \in links : Valid(l) /\ who = LinkBearer(l)
        <5>1. who.kind = "share" /\ \E l \in links : l.dep = who.dep /\ l.secret = secret
          BY <4>1 DEF LinkBearer, Valid
        <5>2. p.req.method = "GET" /\ (p.req.route = "auth/me" \/ p.req.about = who.dep) /\ Permit(Viewer, p.req)
          BY <5>1, <3>1, LinksReadAsViewers
        <5> QED BY <5>1, <5>2, <3>2, <1>2 DEF CameByLink
      <4>2. CASE who.kind # "share"
        BY <4>2, <3>2 DEF CameByLink
      <4>3. CASE \E u \in Users : who = Account(u) /\ role[u] # ""
        <5>1. PICK u \in Users : who = [kind |-> "user", user |-> u, role |-> role[u]]
          BY <4>3 DEF Account
        <5> QED BY <5>1, <4>2
      <4>4. CASE who = Root
        BY <4>4, <4>2 DEF Root
      <4> HIDE DEF q
      <4> QED BY <1>6, <4>1, <4>3, <4>4, <3>1
    <3> QED BY <3>2, <3>3, <3>4, <3>5, <1>4, <1>2 DEF OnItsWay
  <2> QED BY <2>1, <2>2
<1>8. \A d \in Calls \ {c} : OnItsWay(passing'[d], role', links', secret')
  BY <1>3, <1>2 DEF DoorIInv, Carried
<1> QED BY <1>3, <1>7, <1>8 DEF Carried

--------------------------------------------------------------------------------
\* Requests that no step looks at stay on their way while links are only added or grow old.
StillOut(out) == \A l \in links : \E k \in out : k.dep = l.dep /\ k.secret = l.secret
LEMMA RestIsCarried ==
  ASSUME DoorIInv, role' = role, secret' = secret, StillOut(links'),
         passing' = [c \in Calls |-> passing'[c]],
         \A c \in Calls : passing'[c] = passing[c] \/ passing'[c] = AtRest
  PROVE  Carried'
<1> SUFFICES ASSUME NEW c \in Calls PROVE OnItsWay(passing'[c], role', links', secret')
  BY DEF Carried
<1>1. CASE passing'[c] = AtRest
  BY <1>1 DEF OnItsWay
<1>2. CASE passing'[c] = passing[c]
  <2>1. OnItsWay(passing[c], role, links, secret)
    BY DEF DoorIInv, Carried
  <2>2. CameByLink(passing[c], links, secret) => CameByLink(passing[c], links', secret)
    BY DEF CameByLink, StillOut
  <2> QED BY <1>2, <2>1, <2>2 DEF OnItsWay
<1> QED BY <1>1, <1>2

LEMMA SameLinks ==
  ASSUME links' = links PROVE StillOut(links')
BY DEF StillOut

\* What a user becomes is noted of every request under way.
LEMMA NotedOnItsWay ==
  ASSUME DoorIInv, NEW u \in Users, NEW r \in Roles \cup {""}, NEW p, NEW q, NEW now,
         role' = [role EXCEPT ![u] = r], links' = links, secret' = secret,
         p # AtRest, OnItsWay(p, role, links, secret), q = [p EXCEPT !.had = now], now = [p.had EXCEPT ![u] = @ \cup {r}]
  PROVE  OnItsWay(q, role', links', secret')
<1>1. p.had \in [Users -> SUBSET (Roles \cup {""})] /\ p.req \in DoorRequests /\ \A v \in Users : role[v] \in p.had[v]
  BY DEF OnItsWay, Watched
<1>2. now \in [Users -> SUBSET (Roles \cup {""})] /\ \A v \in Users : role'[v] \in now[v] /\ p.had[v] \subseteq now[v]
  BY <1>1 DEF DoorIInv, Accountable
<1>3. CASE AtGate(p)
  <2>1. AtGate(q) /\ q.req = p.req /\ q.had = now
    <3>1. PICK a, b : p = [at |-> "gate", req |-> a, had |-> b]
      BY <1>3 DEF AtGate
    <3>2. q = [at |-> "gate", req |-> a, had |-> now]
      BY <3>1
    <3> QED BY <3>1, <3>2 DEF AtGate
  <2> QED BY <2>1, <1>1, <1>2 DEF OnItsWay, Watched
<1>4. CASE InHandler(p) /\ CameAsUser(p) /\ CameByLink(p, links, secret)
  <2>1. InHandler(q) /\ q.req = p.req /\ q.had = now /\ q.who = p.who
    <3>1. PICK a, b, w : p = [at |-> "act", req |-> a, had |-> b, who |-> w]
      BY <1>4 DEF InHandler
    <3>2. q = [at |-> "act", req |-> a, had |-> now, who |-> w]
      BY <3>1
    <3> QED BY <3>1, <3>2 DEF InHandler
  <2>2. CameAsUser(q)
    BY <2>1, <1>4, <1>2 DEF CameAsUser
  <2>3. CameByLink(q, links', secret')
    BY <2>1, <1>4 DEF CameByLink
  <2> QED BY <2>1, <2>2, <2>3, <1>1, <1>2 DEF OnItsWay, Watched
<1> QED BY <1>3, <1>4 DEF OnItsWay

LEMMA ChangesAreNoted ==
  ASSUME DoorIInv, NEW u \in Users, NEW r \in Roles \cup {""}, NEW d \in Calls,
         role' = [role EXCEPT ![u] = r], links' = links, secret' = secret
  PROVE  OnItsWay(Noted(u, r)[d], role', links', secret')
<1>1. CASE passing[d] = AtRest
  BY <1>1 DEF Noted, OnItsWay
<1>2. CASE passing[d] # AtRest
  <2>1. Noted(u, r)[d] = [passing[d] EXCEPT !.had[u] = @ \cup {r}]
    BY <1>2 DEF Noted
  <2>2. PICK now : now = [passing[d].had EXCEPT ![u] = @ \cup {r}]
    OBVIOUS
  <2>3. Noted(u, r)[d] = [passing[d] EXCEPT !.had = now]
    BY <2>1, <2>2
  <2>4. OnItsWay(passing[d], role, links, secret)
    BY DEF DoorIInv, Carried
  <2> QED BY <1>2, <2>2, <2>3, <2>4, NotedOnItsWay
<1> QED BY <1>1, <1>2

--------------------------------------------------------------------------------
\* Sessions: one that was begun stays of its browser, and one that lives is of an account.
BegunStays == \A s \in Ids : session[s].browser # NoBrowser => session'[s].browser = session[s].browser

LEMMA StaysOwn ==
  ASSUME DoorIInv, BegunStays, cookie' = cookie, codes' = codes, states' = states, secret' \in Nat, secret' >= secret
  PROVE  OwnCookies' /\ OwnCodes'
<1>1. OwnCookies'
  <2>1. cookie \in [Browsers -> [state : 0 .. states, session : 0 .. MaxSessions, secret : 0 .. secret']]
    <3>0. secret \in Nat
      <4>1. secret \in 0 .. MaxSecrets
        BY DEF DoorIInv, Accountable
      <4>2. MaxSecrets \in Nat
        BY DoorBounds
      <4> QED BY <4>1, <4>2
    <3>1. 0 .. secret \subseteq 0 .. secret'
      BY <3>0
    <3>2. cookie \in [Browsers -> [state : 0 .. states, session : 0 .. MaxSessions, secret : 0 .. secret]]
      BY DEF DoorIInv, OwnCookies, Cookies
    <3>3. ASSUME NEW b \in Browsers PROVE cookie[b] \in [state : 0 .. states, session : 0 .. MaxSessions, secret : 0 .. secret']
      <4>1. cookie[b] \in [state : 0 .. states, session : 0 .. MaxSessions, secret : 0 .. secret]
        BY <3>2
      <4> QED BY <4>1, <3>1
    <3> QED BY <3>2, <3>3
  <2>2. ASSUME NEW b \in Browsers, cookie[b].session # 0 PROVE session'[cookie[b].session].browser = b
    <3>1. cookie[b].session \in Ids /\ session[cookie[b].session].browser = b
      <4>1. cookie[b] \in [state : 0 .. states, session : 0 .. MaxSessions, secret : 0 .. secret']
        BY <2>1
      <4>2. cookie[b].session \in 0 .. MaxSessions
        BY <4>1
      <4> QED BY <2>2, <4>2, DoorBounds DEF DoorIInv, OwnCookies, Ids
    <3> QED BY <3>1, DoorBounds DEF BegunStays
  <2> QED BY <2>1, <2>2 DEF OwnCookies, Cookies
<1>2. OwnCodes'
  <2>1. ASSUME NEW k \in DOMAIN codes PROVE OwnCode(codes[k])'
    <3>1. OwnCode(codes[k])
      BY DEF DoorIInv, OwnCodes
    <3> QED BY <3>1, DoorBounds DEF OwnCode, BegunStays
  <2> QED BY <2>1 DEF DoorIInv, OwnCodes
<1> QED BY <1>1, <1>2

LEMMA EndingASession ==
  ASSUME DoorIInv, NEW u \in Users, EndSessions(u), \A v \in Users \ {u} : role[v] # "" => role'[v] # ""
  PROVE  Seated' /\ BegunStays
<1>1. \A s \in Ids : session[s] \in Sessions
  BY DEF DoorIInv, Seated
<1>2. ASSUME NEW s \in Ids
      PROVE  /\ session'[s] \in Sessions /\ session'[s].browser = session[s].browser
             /\ session'[s].user # NoUser => session'[s].user = session[s].user /\ session[s].user # u
  <2>1. session'[s] = IF session[s].user = u THEN [session[s] EXCEPT !.user = NoUser, !.sent = FALSE] ELSE session[s]
    BY DEF EndSessions, Ended, DoorIInv, Seated
  <2> QED BY <2>1, <1>1 DEF Sessions
<1>3. session' \in [Ids -> Sessions]
  BY <1>2 DEF EndSessions, DoorIInv, Seated
<1>4. ASSUME NEW s \in Ids, session'[s].user # NoUser PROVE role'[session'[s].user] # ""
  BY <1>2, <1>4, <1>1 DEF DoorIInv, Seated, Sessions
<1> QED BY <1>2, <1>3, <1>4 DEF Seated, BegunStays

LEMMA BeginningASession ==
  ASSUME DoorIInv, NEW u \in Users, NEW b \in Browsers, NEW s \in Ids, NEW beside \in BOOLEAN, SignIn(u, b, s, beside)
  PROVE  Seated' /\ BegunStays
<1>1. \A t \in Ids : session[t] \in Sessions
  BY DEF DoorIInv, Seated
<1>2. role' = role /\ role[u] # "" /\ session[s].browser = NoBrowser
  <2>1. session[s] = [user |-> NoUser, browser |-> NoBrowser, sent |-> FALSE] /\ role' = role /\ role[u] # ""
    BY DEF SignIn, Unused
  <2>2. [user |-> NoUser, browser |-> NoBrowser, sent |-> FALSE].browser = NoBrowser
    OBVIOUS
  <2> QED BY <2>1, <2>2
<1>3. ASSUME NEW t \in Ids, t # s
      PROVE  session'[t] \in Sessions /\ session'[t].browser = session[t].browser /\ session'[t].user = session[t].user
  <2>1. session'[t] = [session[t] EXCEPT !.sent = FALSE] \/ session'[t] = session[t]
    BY <1>3 DEF SignIn, DoorIInv, Seated
  <2> QED BY <2>1, <1>1 DEF Sessions
<1>4. session'[s] \in Sessions /\ session'[s].user = u
  BY DEF SignIn, DoorIInv, Seated, Sessions
<1>5. session' \in [Ids -> Sessions]
  BY <1>3, <1>4 DEF SignIn, DoorIInv, Seated
<1> QED BY <1>1, <1>2, <1>3, <1>4, <1>5 DEF Seated, BegunStays, DoorIInv

LEMMA SigningOut ==
  ASSUME DoorIInv, NEW s \in Ids, SignOut(s)
  PROVE  Seated' /\ BegunStays
<1>1. \A t \in Ids : session[t] \in Sessions
  BY DEF DoorIInv, Seated
<1>2. session'[s] = [session[s] EXCEPT !.user = NoUser, !.sent = FALSE] /\ \A t \in Ids \ {s} : session'[t] = session[t]
  BY DEF SignOut, Ended, DoorIInv, Seated
<1>3. session'[s] \in Sessions /\ session'[s].browser = session[s].browser /\ session'[s].user = NoUser
  BY <1>1, <1>2 DEF Sessions
<1>4. session' \in [Ids -> Sessions] /\ role' = role
  BY <1>1, <1>2, <1>3 DEF SignOut, DoorIInv, Seated
<1> QED BY <1>2, <1>3, <1>4 DEF Seated, BegunStays, DoorIInv

--------------------------------------------------------------------------------
\* What a step does not look at it keeps.
LEMMA SeatsStay ==
  ASSUME DoorIInv, session' = session, \A v \in Users : role[v] # "" => role'[v] # ""
  PROVE  Seated' /\ BegunStays
<1>1. \A s \in Ids : session[s] \in Sessions
  BY DEF DoorIInv, Seated
<1> QED BY <1>1 DEF DoorIInv, Seated, Sessions, BegunStays

LEMMA LinksStay ==
  ASSUME DoorIInv, links' = links, secret' \in Nat, secret' >= secret
  PROVE  LinksInTime'
<1> SUFFICES ASSUME NEW l \in links PROVE InTime(l)'
  BY DEF LinksInTime
<1>1. InTime(l)
  BY DEF DoorIInv, LinksInTime
<1>2. secret \in Nat
  <2>1. secret \in 0 .. MaxSecrets
    BY DEF DoorIInv, Accountable
  <2> QED BY <2>1, DoorBounds
<1> QED BY <1>1, <1>2 DEF InTime

LEMMA SecretIsNat ==
  ASSUME DoorIInv PROVE secret \in Nat /\ calls \in Nat /\ states \in Nat
<1>1. secret \in 0 .. MaxSecrets /\ calls \in 0 .. MaxCalls /\ states \in 0 .. MaxStates
  BY DEF DoorIInv, Accountable, OwnCodes
<1> QED BY <1>1, DoorBounds

LEMMA OwnStay ==
  ASSUME DoorIInv, BegunStays, cookie' = cookie, codes' = codes, states' = states, secret' = secret
  PROVE  OwnCookies' /\ OwnCodes'
<1>1. secret' \in Nat /\ secret' >= secret
  BY SecretIsNat
<1> QED BY <1>1, StaysOwn

LEMMA LinksRest ==
  ASSUME DoorIInv, links' = links, secret' = secret
  PROVE  LinksInTime'
<1>1. secret' \in Nat /\ secret' >= secret
  BY SecretIsNat
<1> QED BY <1>1, LinksStay

LEMMA AllElseRests ==
  ASSUME DoorIInv, \A v \in Users : role[v] # "" => role'[v] # "",
         session' = session, secret' = secret, links' = links, cookie' = cookie, states' = states, codes' = codes
  PROVE  Seated' /\ LinksInTime' /\ OwnCookies' /\ OwnCodes'
<1>1. Seated' /\ BegunStays
  BY SeatsStay
<1>2. LinksInTime'
  BY LinksRest
<1>3. OwnCookies' /\ OwnCodes'
  BY <1>1, OwnStay
<1> QED BY <1>1, <1>2, <1>3

LEMMA PassingStays ==
  ASSUME DoorIInv, role' = role, secret' = secret, StillOut(links'), passing' = passing
  PROVE  Carried'
<1>1. passing' = [c \in Calls |-> passing'[c]] /\ \A c \in Calls : passing'[c] = passing[c]
  BY DEF DoorIInv, Carried
<1> QED BY <1>1, RestIsCarried

LEMMA ReplyCarries ==
  ASSUME DoorIInv, role' = role, secret' = secret, StillOut(links'), NEW c \in Calls, Replied(c)
  PROVE  Carried'
<1>1. passing' = [d \in Calls |-> passing'[d]] /\ \A d \in Calls : passing'[d] = passing[d] \/ passing'[d] = AtRest
  BY DEF Replied, DoorIInv, Carried
<1> QED BY <1>1, RestIsCarried

--------------------------------------------------------------------------------
\* The actions, one by one.
LEMMA ArriveKeeps ==
  ASSUME DoorIInv, NEW c \in Calls, NEW req \in DoorRequests, Arrive(c, req)
  PROVE  DoorIInv'
<1>1. role' = role /\ session' = session /\ secret' = secret /\ links' = links /\ cookie' = cookie /\ states' = states /\ codes' = codes
  BY DEF Arrive, InDoor
<1>2. calls' \in 0 .. MaxCalls
  BY SecretIsNat, DoorBounds DEF Arrive
<1>3. Seated' /\ LinksInTime' /\ OwnCookies' /\ OwnCodes'
  BY <1>1, AllElseRests
<1> DEFINE q == [at |-> "gate", req |-> req, had |-> [u \in Users |-> {role[u]}]]
<1>4. passing' = [d \in Calls |-> passing'[d]] /\ passing'[c] = q /\ \A d \in Calls \ {c} : passing'[d] = passing[d]
  BY DEF Arrive, DoorIInv, Carried
<1>5. OnItsWay(q, role', links', secret')
  <2>1. AtGate(q) /\ q.req = req /\ q.had = [u \in Users |-> {role[u]}]
    BY DEF AtGate
  <2>2. Watched(q, role')
    BY <2>1, <1>1 DEF Watched, DoorIInv, Accountable
  <2> QED BY <2>1, <2>2 DEF OnItsWay
<1>6. Carried'
  BY <1>1, <1>4, <1>5 DEF DoorIInv, Carried
<1> QED BY <1>1, <1>2, <1>3, <1>6 DEF DoorIInv, Accountable

LEMMA GateKeeps ==
  ASSUME DoorIInv, NEW c \in Calls, Gate(c)
  PROVE  DoorIInv'
<1>1. role' = role /\ session' = session /\ secret' = secret /\ links' = links /\ cookie' = cookie /\ states' = states /\ codes' = codes
      /\ calls' = calls
  BY DEF Gate, InDoor
<1>2. Seated' /\ LinksInTime' /\ OwnCookies' /\ OwnCodes'
  BY <1>1, AllElseRests
<1>3. Carried'
  BY GateLetsInTheAllowed
<1> QED BY <1>1, <1>2, <1>3 DEF DoorIInv, Accountable

LEMMA OtherKeeps ==
  ASSUME DoorIInv, NEW c \in Calls, Other(c)
  PROVE  DoorIInv'
<1>1. role' = role /\ session' = session /\ secret' = secret /\ links' = links /\ cookie' = cookie /\ states' = states /\ codes' = codes
      /\ calls' = calls /\ Replied(c)
  BY DEF Other, InDoor, Replied
<1>2. Seated' /\ LinksInTime' /\ OwnCookies' /\ OwnCodes'
  BY <1>1, AllElseRests
<1>3. Carried'
  BY <1>1, ReplyCarries, SameLinks
<1> QED BY <1>1, <1>2, <1>3 DEF DoorIInv, Accountable

\* What an account becomes is noted of the others, and the request itself is over.
LEMMA ChangeCarries ==
  ASSUME DoorIInv, NEW c \in Calls, NEW u \in Users, NEW r \in Roles \cup {""}, Changed(c, u, r)
  PROVE  Accountable' /\ LinksInTime' /\ Carried'
<1>1. role' = [role EXCEPT ![u] = r] /\ links' = links /\ secret' = secret /\ calls' = calls
      /\ passing' = [Noted(u, r) EXCEPT ![c] = AtRest]
  BY DEF Changed
<1>2. Accountable'
  BY <1>1 DEF DoorIInv, Accountable
<1>3. passing' = [d \in Calls |-> passing'[d]] /\ passing'[c] = AtRest /\ \A d \in Calls \ {c} : passing'[d] = Noted(u, r)[d]
  BY <1>1 DEF Noted
<1>4. \A d \in Calls : OnItsWay(Noted(u, r)[d], role', links', secret')
  BY <1>1, ChangesAreNoted
<1>5. OnItsWay(AtRest, role', links', secret')
  BY DEF OnItsWay
<1>6. Carried'
  BY <1>3, <1>4, <1>5 DEF Carried
<1>7. LinksInTime'
  BY <1>1, LinksRest
<1> QED BY <1>2, <1>6, <1>7

\* The request of a handler about an account is about one of the accounts.
LEMMA AboutAnAccount ==
  ASSUME DoorIInv, NEW c \in Calls, passing[c].at = "act", passing[c].req.route \in {"user", "user/password"}
  PROVE  passing[c].req.about \in Users
<1>1. passing[c].req \in DoorRequests
  BY DEF DoorIInv, Carried, OnItsWay, AtRest, AtGate
<1> QED BY <1>1, FrontDoorAssumption DEF FrontDoorAssumption

LEMMA AddAccountKeeps ==
  ASSUME DoorIInv, NEW c \in Calls, NEW u \in Users, NEW r \in Roles, AddAccount(c, u, r)
  PROVE  DoorIInv'
<1>1. Changed(c, u, r) /\ session' = session
  BY DEF AddAccount
<1>2. secret' = secret /\ cookie' = cookie /\ states' = states /\ codes' = codes /\ role' = [role EXCEPT ![u] = r]
  BY <1>1 DEF Changed
<1>3. \A v \in Users : role[v] # "" => role'[v] # ""
  BY <1>2 DEF DoorIInv, Accountable, Roles
<1>4. Accountable' /\ LinksInTime' /\ Carried'
  BY <1>1, ChangeCarries
<1>5. Seated' /\ BegunStays
  BY <1>1, <1>3, SeatsStay
<1>6. OwnCookies' /\ OwnCodes'
  BY <1>2, <1>5, OwnStay
<1> QED BY <1>4, <1>5, <1>6 DEF DoorIInv

LEMMA SetRoleKeeps ==
  ASSUME DoorIInv, NEW c \in Calls, NEW r \in Roles, SetRole(c, r)
  PROVE  DoorIInv'
<1> DEFINE u == passing[c].req.about
<1>1. Changed(c, u, r) /\ session' = session
  BY DEF SetRole
<1>2. u \in Users
  BY AboutAnAccount DEF SetRole, Does
<1> HIDE DEF u
<1>3. secret' = secret /\ cookie' = cookie /\ states' = states /\ codes' = codes /\ role' = [role EXCEPT ![u] = r]
  BY <1>1 DEF Changed
<1>4. \A v \in Users : role[v] # "" => role'[v] # ""
  BY <1>2, <1>3 DEF DoorIInv, Accountable, Roles
<1>5. Accountable' /\ LinksInTime' /\ Carried'
  BY <1>1, <1>2, ChangeCarries
<1>6. Seated' /\ BegunStays
  BY <1>1, <1>4, SeatsStay
<1>7. OwnCookies' /\ OwnCodes'
  BY <1>3, <1>6, OwnStay
<1> QED BY <1>5, <1>6, <1>7 DEF DoorIInv

LEMMA DropAccountKeeps ==
  ASSUME DoorIInv, NEW c \in Calls, DropAccount(c)
  PROVE  DoorIInv'
<1> DEFINE u == passing[c].req.about
<1>1. Changed(c, u, "") /\ EndSessions(u)
  BY DEF DropAccount
<1>2. u \in Users
  BY AboutAnAccount DEF DropAccount, Does
<1> HIDE DEF u
<1>3. secret' = secret /\ cookie' = cookie /\ states' = states /\ codes' = codes /\ role' = [role EXCEPT ![u] = ""]
  BY <1>1 DEF Changed
<1>4. \A v \in Users \ {u} : role[v] # "" => role'[v] # ""
  BY <1>2, <1>3 DEF DoorIInv, Accountable
<1>5. Accountable' /\ LinksInTime' /\ Carried'
  BY <1>1, <1>2, ChangeCarries
<1>6. Seated' /\ BegunStays
  BY <1>1, <1>2, <1>4, EndingASession
<1>7. OwnCookies' /\ OwnCodes'
  BY <1>3, <1>6, OwnStay
<1> QED BY <1>5, <1>6, <1>7 DEF DoorIInv

LEMMA SetPasswordKeeps ==
  ASSUME DoorIInv, NEW c \in Calls, SetPassword(c)
  PROVE  DoorIInv'
<1> DEFINE u == passing[c].req.about
<1>1. EndSessions(u) /\ Replied(c) /\ role' = role /\ secret' = secret /\ links' = links /\ cookie' = cookie /\ states' = states
      /\ codes' = codes
  BY DEF SetPassword
<1>2. u \in Users
  BY AboutAnAccount DEF SetPassword, Does
<1> HIDE DEF u
<1>3. calls' = calls
  BY <1>1 DEF Replied
<1>4. Seated' /\ BegunStays
  BY <1>1, <1>2, EndingASession
<1>5. OwnCookies' /\ OwnCodes'
  BY <1>1, <1>4, OwnStay
<1>6. Carried'
  BY <1>1, ReplyCarries, SameLinks
<1>7. LinksInTime'
  BY <1>1, LinksRest
<1> QED BY <1>1, <1>3, <1>4, <1>5, <1>6, <1>7 DEF DoorIInv, Accountable

LEMMA ProvisionKeeps ==
  ASSUME DoorIInv, NEW u \in Users, NEW r \in Roles, Provision(u, r)
  PROVE  DoorIInv'
<1>1. role' = [role EXCEPT ![u] = r] /\ passing' = Noted(u, r) /\ calls' = calls /\ session' = session /\ secret' = secret
      /\ links' = links /\ cookie' = cookie /\ states' = states /\ codes' = codes
  BY DEF Provision, InDoor
<1>2. \A v \in Users : role[v] # "" => role'[v] # ""
  BY <1>1 DEF DoorIInv, Accountable, Roles
<1>3. Seated' /\ LinksInTime' /\ OwnCookies' /\ OwnCodes'
  BY <1>1, <1>2, AllElseRests
<1>4. passing' = [d \in Calls |-> passing'[d]] /\ \A d \in Calls : OnItsWay(passing'[d], role', links', secret')
  <2>1. \A d \in Calls : OnItsWay(Noted(u, r)[d], role', links', secret')
    BY <1>1, ChangesAreNoted
  <2> QED BY <1>1, <2>1 DEF Noted
<1> QED BY <1>1, <1>3, <1>4 DEF DoorIInv, Accountable, Carried

LEMMA MintKeeps ==
  ASSUME DoorIInv, NEW c \in Calls, NEW views \in SUBSET {"details", "logs"}, NEW ttl \in 1 .. MaxTTL, Mint(c, views, ttl)
  PROVE  DoorIInv'
<1>1. role' = role /\ session' = session /\ secret' = secret /\ cookie' = cookie /\ states' = states /\ codes' = codes
      /\ Replied(c) /\ secret # 0 /\ links' = links \cup {Signed(passing[c].req.about, views, ttl)}
  BY DEF Mint
<1>2. calls' = calls
  BY <1>1 DEF Replied
<1>3. StillOut(links')
  BY <1>1 DEF StillOut
<1>4. LinksInTime'
  <2>1. \A l \in links : InTime(l)'
    BY <1>1 DEF DoorIInv, LinksInTime, InTime
  <2>2. PICK new : new = Signed(passing[c].req.about, views, ttl)
    OBVIOUS
  <2>3. secret \in 1 .. secret'
    BY <1>1, SecretIsNat
  <2>4. InTime(new)'
    BY <2>2, <2>3, <1>1, DoorBounds DEF InTime, Signed
  <2>5. links' = links \cup {new}
    BY <1>1, <2>2
  <2> QED BY <2>1, <2>4, <2>5 DEF LinksInTime
<1>5. Seated' /\ BegunStays
  BY <1>1, SeatsStay
<1>6. OwnCookies' /\ OwnCodes'
  BY <1>1, <1>5, OwnStay
<1>7. Carried'
  BY <1>1, <1>3, ReplyCarries
<1> QED BY <1>1, <1>2, <1>4, <1>5, <1>6, <1>7 DEF DoorIInv, Accountable

LEMMA DayKeeps ==
  ASSUME DoorIInv, Day
  PROVE  DoorIInv'
<1>1. role' = role /\ session' = session /\ secret' = secret /\ cookie' = cookie /\ states' = states /\ codes' = codes
      /\ calls' = calls /\ passing' = passing
  BY DEF Day
<1> DEFINE Older(l) == [l EXCEPT !.left = IF @ > 0 THEN @ - 1 ELSE 0, !.age = IF l.left > 0 THEN @ + 1 ELSE @]
<1>2. links' = {Older(l) : l \in links}
  BY DEF Day
<1>3. ASSUME NEW l \in links PROVE InTime(Older(l)) /\ Older(l).dep = l.dep /\ Older(l).secret = l.secret
  <2>1. InTime(l)
    BY DEF DoorIInv, LinksInTime
  <2>2. PICK d, v, n, k, a : l = [dep |-> d, views |-> v, left |-> n, secret |-> k, age |-> a]
    BY <2>1 DEF InTime
  <2> DEFINE n1 == IF n > 0 THEN n - 1 ELSE 0
             a1 == IF n > 0 THEN a + 1 ELSE a
  <2>3. Older(l) = [dep |-> d, views |-> v, left |-> n1, secret |-> k, age |-> a1]
    <3>1. l.left = n /\ l.age = a
      BY <2>2
    <3>2. Older(l) = [l EXCEPT !.left = n1, !.age = a1]
      BY <3>1
    <3> HIDE DEF n1, a1, Older
    <3> QED BY <3>2, <2>2
  <2>4. v \subseteq {"details", "logs"} /\ n \in Nat /\ a \in Nat /\ n + a <= MaxTTL /\ k \in 1 .. secret
    BY <2>1, <2>2 DEF InTime
  <2>5. n1 \in Nat /\ a1 \in Nat /\ n1 + a1 <= MaxTTL
    BY <2>4
  <2> HIDE DEF Older, n1, a1
  <2> QED BY <2>2, <2>3, <2>4, <2>5 DEF InTime
<1> HIDE DEF Older
<1>4. LinksInTime'
  BY <1>1, <1>2, <1>3 DEF LinksInTime, InTime
<1>5. StillOut(links')
  BY <1>2, <1>3 DEF StillOut
<1>6. Seated' /\ BegunStays
  BY <1>1, SeatsStay
<1>7. OwnCookies' /\ OwnCodes'
  BY <1>1, <1>6, OwnStay
<1>8. Carried'
  BY <1>1, <1>5, PassingStays
<1> QED BY <1>1, <1>4, <1>6, <1>7, <1>8 DEF DoorIInv, Accountable

LEMMA SignInKeeps ==
  ASSUME DoorIInv, NEW u \in Users, NEW b \in Browsers, NEW s \in Ids, NEW beside \in BOOLEAN, SignIn(u, b, s, beside)
  PROVE  DoorIInv'
<1>1. role' = role /\ secret' = secret /\ links' = links /\ cookie' = cookie /\ states' = states /\ codes' = codes
      /\ passing' = passing /\ calls' = calls
  BY DEF SignIn
<1>2. Seated' /\ BegunStays
  BY BeginningASession
<1>3. OwnCookies' /\ OwnCodes'
  BY <1>1, <1>2, OwnStay
<1>4. LinksInTime'
  BY <1>1, LinksRest
<1>5. Carried'
  BY <1>1, PassingStays, SameLinks
<1> QED BY <1>1, <1>2, <1>3, <1>4, <1>5 DEF DoorIInv, Accountable

LEMMA SignOutKeeps ==
  ASSUME DoorIInv, NEW s \in Ids, SignOut(s)
  PROVE  DoorIInv'
<1>1. role' = role /\ secret' = secret /\ links' = links /\ cookie' = cookie /\ states' = states /\ codes' = codes
      /\ passing' = passing /\ calls' = calls
  BY DEF SignOut
<1>2. Seated' /\ BegunStays
  BY SigningOut
<1>3. OwnCookies' /\ OwnCodes'
  BY <1>1, <1>2, OwnStay
<1>4. LinksInTime'
  BY <1>1, LinksRest
<1>5. Carried'
  BY <1>1, PassingStays, SameLinks
<1> QED BY <1>1, <1>2, <1>3, <1>4, <1>5 DEF DoorIInv, Accountable

LEMMA DoorRestartKeeps ==
  ASSUME DoorIInv, DoorRestart
  PROVE  DoorIInv'
<1>1. role' = role /\ session' = session /\ links' = links /\ cookie' = cookie /\ states' = states /\ codes' = codes
      /\ calls' = calls /\ secret' = secret + 1 /\ secret \in 1 .. (MaxSecrets - 1) /\ passing' = [c \in Calls |-> AtRest]
  BY DEF DoorRestart
<1>2. secret' \in Nat /\ secret' >= secret /\ secret' \in 0 .. MaxSecrets
  BY <1>1, DoorBounds
<1>3. Seated' /\ BegunStays
  BY <1>1, SeatsStay
<1>4. OwnCookies' /\ OwnCodes'
  BY <1>1, <1>2, <1>3, StaysOwn
<1>5. LinksInTime'
  BY <1>1, <1>2, LinksStay
<1>6. Carried'
  BY <1>1 DEF Carried, OnItsWay
<1> QED BY <1>1, <1>2, <1>3, <1>4, <1>5, <1>6 DEF DoorIInv, Accountable

LEMMA GrafanaVerifyKeeps ==
  ASSUME DoorIInv, NEW b \in Browsers, GrafanaVerify(b)
  PROVE  DoorIInv'
<1>1. role' = role /\ session' = session /\ links' = links /\ codes' = codes /\ passing' = passing /\ calls' = calls
      /\ secret' = secret /\ states' = states + 1 /\ states < MaxStates /\ cookie' = [cookie EXCEPT ![b].state = states + 1]
  BY DEF GrafanaVerify
<1>2. states \in Nat /\ secret \in Nat /\ states' \in 0 .. MaxStates
  BY <1>1, SecretIsNat, DoorBounds
<1>3. Seated' /\ LinksInTime'
  BY <1>1, SeatsStay, LinksRest
<1>4. Carried'
  BY <1>1, PassingStays, SameLinks
<1>5. OwnCookies'
  <2>1. cookie \in Cookies
    BY DEF DoorIInv, OwnCookies
  <2>2. ASSUME NEW x \in Browsers
        PROVE  cookie'[x] \in [state : 0 .. states', session : 0 .. MaxSessions, secret : 0 .. secret'] /\ cookie'[x].session = cookie[x].session
    <3>1. cookie[x] \in [state : 0 .. states, session : 0 .. MaxSessions, secret : 0 .. secret]
      BY <2>1 DEF Cookies
    <3>2. cookie'[x] = cookie[x] \/ cookie'[x] = [cookie[x] EXCEPT !.state = states + 1]
      BY <1>1, <2>1 DEF Cookies
    <3>3. 0 .. states \subseteq 0 .. states' /\ states + 1 \in 0 .. states' /\ secret' = secret
      BY <1>1, <1>2
    <3> QED BY <3>1, <3>2, <3>3
  <2>3. cookie' \in Cookies'
    <3>1. cookie' = [x \in Browsers |-> cookie'[x]]
      BY <1>1, <2>1 DEF Cookies
    <3> QED BY <3>1, <2>2 DEF Cookies
  <2> QED BY <2>2, <2>3, <1>1 DEF DoorIInv, OwnCookies
<1>6. OwnCodes'
  <2>1. ASSUME NEW k \in DOMAIN codes PROVE OwnCode(codes[k])'
    <3>1. OwnCode(codes[k])
      BY DEF DoorIInv, OwnCodes
    <3>2. codes[k].state \in 1 .. states'
      BY <3>1, <1>1, <1>2 DEF OwnCode
    <3> QED BY <3>1, <3>2, <1>1 DEF OwnCode
  <2> QED BY <2>1, <1>1, <1>2 DEF DoorIInv, OwnCodes
<1> QED BY <1>1, <1>3, <1>4, <1>5, <1>6 DEF DoorIInv, Accountable

\* A step of the codes alone.
LEMMA CodesAlone ==
  ASSUME DoorIInv, role' = role, session' = session, secret' = secret, links' = links, states' = states, passing' = passing, calls' = calls,
         OwnCookies', OwnCodes'
  PROVE  DoorIInv'
<1>1. Seated'
  BY SeatsStay
<1>2. LinksInTime'
  BY LinksRest
<1>3. Carried'
  BY PassingStays, SameLinks
<1> QED BY <1>1, <1>2, <1>3 DEF DoorIInv, Accountable

LEMMA GrafanaStartKeeps ==
  ASSUME DoorIInv, NEW b \in Browsers, NEW state \in 1 .. states, GrafanaStart(b, state)
  PROVE  DoorIInv'
<1>1. role' = role /\ session' = session /\ secret' = secret /\ links' = links /\ cookie' = cookie /\ states' = states
      /\ passing' = passing /\ calls' = calls
  BY DEF GrafanaStart
<1>2. PICK s \in SessionsOf(b) :
         codes' = [k \in 1 .. Cardinality(DOMAIN codes) + 1 |->
           IF k \in DOMAIN codes THEN codes[k]
           ELSE [session |-> s, state |-> state, browser |-> b, parked |-> TRUE, logged |-> FALSE]]
  BY DEF GrafanaStart
<1> DEFINE new == [session |-> s, state |-> state, browser |-> b, parked |-> TRUE, logged |-> FALSE]
<1>3. s \in Ids /\ session[s].browser = b
  BY DEF SessionsOf, DoorIInv, Seated
<1>4. OwnCode(new)
  BY <1>3 DEF OwnCode
<1>5. \A k \in DOMAIN codes' : codes'[k] = new \/ (k \in DOMAIN codes /\ codes'[k] = codes[k])
  BY <1>2
<1>6. codes' = [k \in DOMAIN codes' |-> codes'[k]]
  BY <1>2
<1> HIDE DEF new
<1>7. \A k \in DOMAIN codes' : OwnCode(codes'[k])
  BY <1>4, <1>5 DEF DoorIInv, OwnCodes
<1>8. OwnCodes'
  BY <1>1, <1>6, <1>7 DEF DoorIInv, OwnCodes, OwnCode
<1>9. OwnCookies'
  BY <1>1 DEF DoorIInv, OwnCookies, Cookies
<1> QED BY <1>1, <1>8, <1>9, CodesAlone

\* Codes are taken, or expire: whose they are does not change.
LEMMA CodesEnd ==
  ASSUME DoorIInv, NEW k \in DOMAIN codes, session' = session, states' = states,
         codes' = [codes EXCEPT ![k].parked = FALSE] \/ codes' = [codes EXCEPT ![k].parked = FALSE, ![k].logged = TRUE]
  PROVE  OwnCodes'
<1>1. codes' = [j \in DOMAIN codes |-> codes'[j]] /\ DOMAIN codes' = DOMAIN codes
  BY DEF DoorIInv, OwnCodes
<1>2. \A j \in DOMAIN codes : OwnCode(codes[j])
  BY DEF DoorIInv, OwnCodes
<1>3. \A j \in DOMAIN codes \ {k} : codes'[j] = codes[j]
  BY DEF DoorIInv, OwnCodes
<1>4. codes'[k] = [codes[k] EXCEPT !.parked = FALSE] \/ codes'[k] = [codes[k] EXCEPT !.parked = FALSE, !.logged = TRUE]
  BY DEF DoorIInv, OwnCodes
<1>5. OwnCode(codes'[k])
  <2>1. PICK a, b, c, d, e : codes[k] = [session |-> a, state |-> b, browser |-> c, parked |-> d, logged |-> e]
    BY <1>2 DEF OwnCode
  <2>2. \/ codes'[k] = [session |-> a, state |-> b, browser |-> c, parked |-> FALSE, logged |-> e]
        \/ codes'[k] = [session |-> a, state |-> b, browser |-> c, parked |-> FALSE, logged |-> TRUE]
    <3>1. PICK no, yes, x, y : no = FALSE /\ yes = TRUE /\ x = codes[k] /\ y = [x EXCEPT !.parked = no]
      OBVIOUS
    <3>2. codes'[k] = [x EXCEPT !.parked = no] \/ codes'[k] = [x EXCEPT !.parked = no, !.logged = yes]
      BY <1>4, <3>1
    <3>3. x = [session |-> a, state |-> b, browser |-> c, parked |-> d, logged |-> e]
      BY <2>1, <3>1
    <3>4. y = [session |-> a, state |-> b, browser |-> c, parked |-> no, logged |-> e] /\ y = [x EXCEPT !.parked = no]
      <4>1. y = [x EXCEPT !.parked = no]
        BY <3>1
      <4> QED BY <4>1, <3>3
    <3>5. [x EXCEPT !.parked = no, !.logged = yes] = [y EXCEPT !.logged = yes]
      BY <3>4
    <3>6. [y EXCEPT !.logged = yes] = [session |-> a, state |-> b, browser |-> c, parked |-> no, logged |-> yes]
      BY <3>4
    <3>7. \/ codes'[k] = [session |-> a, state |-> b, browser |-> c, parked |-> no, logged |-> e]
          \/ codes'[k] = [session |-> a, state |-> b, browser |-> c, parked |-> no, logged |-> yes]
      BY <3>2, <3>4, <3>5, <3>6
    <3> QED BY <3>1, <3>7, Zenon
  <2>3. a \in Ids /\ b \in 1 .. states /\ c \in Browsers /\ session[a].browser = c
    BY <1>2, <2>1 DEF OwnCode
  <2> QED BY <2>2, <2>3 DEF OwnCode
<1>6. \A j \in DOMAIN codes : OwnCode(codes'[j])
  BY <1>2, <1>3, <1>5
<1> QED BY <1>1, <1>6 DEF DoorIInv, OwnCodes, OwnCode

LEMMA CodeExpiresKeeps ==
  ASSUME DoorIInv, NEW k \in DOMAIN codes, CodeExpires(k)
  PROVE  DoorIInv'
<1>1. role' = role /\ session' = session /\ secret' = secret /\ links' = links /\ cookie' = cookie /\ states' = states
      /\ passing' = passing /\ calls' = calls /\ codes' = [codes EXCEPT ![k].parked = FALSE]
  BY DEF CodeExpires
<1>2. OwnCodes'
  BY <1>1, CodesEnd
<1>3. OwnCookies'
  BY <1>1 DEF DoorIInv, OwnCookies, Cookies
<1> QED BY <1>1, <1>2, <1>3, CodesAlone

LEMMA GrafanaCallbackKeeps ==
  ASSUME DoorIInv, NEW b \in Browsers, NEW k \in DOMAIN codes, GrafanaCallback(b, k)
  PROVE  DoorIInv'
<1>1. role' = role /\ session' = session /\ secret' = secret /\ links' = links /\ states' = states
      /\ passing' = passing /\ calls' = calls /\ codes' = [codes EXCEPT ![k].parked = FALSE, ![k].logged = TRUE]
  BY DEF GrafanaCallback, Taken
<1>2. OwnCodes'
  BY <1>1, CodesEnd
<1> DEFINE entry == [state |-> 0, session |-> codes[k].session, secret |-> secret]
<1>3. cookie' = cookie \/ cookie' = [cookie EXCEPT ![b] = entry]
  BY DEF GrafanaCallback
<1>4. codes[k].parked /\ OwnCode(codes[k])
  BY DEF GrafanaCallback, DoorIInv, OwnCodes
<1>5. codes[k].session \in Ids /\ session[codes[k].session].browser = b
  BY <1>4 DEF OwnCode, GrafanaCallback
<1>6. entry \in [state : 0 .. states, session : 0 .. MaxSessions, secret : 0 .. secret] /\ entry.session = codes[k].session
  BY <1>5, SecretIsNat, DoorBounds DEF Ids
<1>7. cookie \in Cookies /\ \A x \in Browsers : cookie[x].session # 0 => session[cookie[x].session].browser = x
  BY DEF DoorIInv, OwnCookies
<1> HIDE DEF entry
<1>8. cookie' \in Cookies
  BY <1>3, <1>6, <1>7 DEF Cookies
<1>9. ASSUME NEW x \in Browsers, cookie'[x].session # 0 PROVE session[cookie'[x].session].browser = x
  <2>1. cookie'[x] = cookie[x] \/ (x = b /\ cookie'[x] = entry)
    BY <1>3, <1>7 DEF Cookies
  <2> QED BY <2>1, <1>5, <1>6, <1>7, <1>9
<1>10. OwnCookies'
  BY <1>1, <1>8, <1>9 DEF OwnCookies, Cookies
<1> QED BY <1>1, <1>2, <1>10, CodesAlone

--------------------------------------------------------------------------------
LEMMA DoorStarts == FrontDoorInit => DoorIInv
<1> SUFFICES ASSUME FrontDoorInit PROVE DoorIInv
  OBVIOUS
<1>1. Accountable
  <2>1. role \in [Users -> {"", "viewer", "developer", "admin"}] /\ secret \in {0, 1} /\ calls = 0
    BY DEF FrontDoorInit
  <2>2. role \in [Users -> Roles \cup {""}]
    BY <2>1 DEF Roles
  <2>3. secret \in 0 .. MaxSecrets /\ calls \in 0 .. MaxCalls
    <3>1. MaxSecrets \in Nat /\ MaxSecrets > 0 /\ MaxCalls \in Nat
      BY DoorBounds
    <3>2. secret = 0 \/ secret = 1
      BY <2>1
    <3>3. 0 \in 0 .. MaxSecrets /\ 1 \in 0 .. MaxSecrets /\ 0 \in 0 .. MaxCalls
      BY <3>1
    <3> QED BY <2>1, <3>2, <3>3
  <2> QED BY <2>2, <2>3 DEF Accountable
<1>2. Seated
  BY DEF FrontDoorInit, Seated, Sessions, Unused, Ids
<1>3. LinksInTime
  BY DEF FrontDoorInit, LinksInTime
<1>4. OwnCookies
  <2>1. \A b \in Browsers : cookie[b] = NoCookie
    BY DEF FrontDoorInit
  <2>2. NoCookie \in [state : 0 .. states, session : 0 .. MaxSessions, secret : 0 .. secret]
    <3>1. secret \in {0, 1} /\ states = 0
      BY DEF FrontDoorInit
    <3> QED BY <3>1, DoorBounds DEF NoCookie
  <2> QED BY <2>1, <2>2 DEF FrontDoorInit, OwnCookies, Cookies, NoCookie
<1>5. OwnCodes
  <2>1. states = 0 /\ codes = <<>>
    BY DEF FrontDoorInit
  <2>2. DOMAIN codes = {} /\ codes = [k \in DOMAIN codes |-> codes[k]]
    BY <2>1
  <2> QED BY <2>1, <2>2, DoorBounds DEF OwnCodes
<1>6. Carried
  BY DEF FrontDoorInit, Carried, OnItsWay
<1> QED BY <1>1, <1>2, <1>3, <1>4, <1>5, <1>6 DEF DoorIInv

LEMMA DoorStutters == DoorIInv /\ UNCHANGED doorVars => DoorIInv'
<1> SUFFICES ASSUME DoorIInv, UNCHANGED doorVars PROVE DoorIInv'
  OBVIOUS
<1>1. role' = role /\ session' = session /\ secret' = secret /\ links' = links /\ cookie' = cookie /\ states' = states
      /\ codes' = codes /\ passing' = passing /\ calls' = calls
  BY DEF doorVars
<1>2. Seated' /\ LinksInTime' /\ OwnCookies' /\ OwnCodes'
  BY <1>1, AllElseRests
<1>3. Carried'
  BY <1>1, PassingStays, SameLinks
<1> QED BY <1>1, <1>2, <1>3 DEF DoorIInv, Accountable

LEMMA DoorStepKeeps == DoorIInv /\ [FrontDoorNext]_doorVars => DoorIInv'
<1> SUFFICES ASSUME DoorIInv, [FrontDoorNext]_doorVars PROVE DoorIInv'
  OBVIOUS
<1>1. CASE UNCHANGED doorVars
  BY <1>1, DoorStutters
<1>2. ASSUME NEW c \in Calls, NEW req \in DoorRequests, Arrive(c, req) PROVE DoorIInv'
  BY <1>2, ArriveKeeps
<1>3. ASSUME NEW c \in Calls, Gate(c) PROVE DoorIInv'
  BY <1>3, GateKeeps
<1>4. ASSUME NEW c \in Calls, DropAccount(c) PROVE DoorIInv'
  BY <1>4, DropAccountKeeps
<1>5. ASSUME NEW c \in Calls, SetPassword(c) PROVE DoorIInv'
  BY <1>5, SetPasswordKeeps
<1>6. ASSUME NEW c \in Calls, Other(c) PROVE DoorIInv'
  BY <1>6, OtherKeeps
<1>7. ASSUME NEW c \in Calls, NEW r \in Roles, SetRole(c, r) PROVE DoorIInv'
  BY <1>7, SetRoleKeeps
<1>8. ASSUME NEW c \in Calls, NEW r \in Roles, NEW u \in Users, AddAccount(c, u, r) PROVE DoorIInv'
  BY <1>8, AddAccountKeeps
<1>9. ASSUME NEW c \in Calls, NEW views \in SUBSET {"details", "logs"}, NEW ttl \in 1 .. MaxTTL, Mint(c, views, ttl) PROVE DoorIInv'
  BY <1>9, MintKeeps
<1>10. CASE Day
  BY <1>10, DayKeeps
<1>11. CASE DoorRestart
  BY <1>11, DoorRestartKeeps
<1>12. ASSUME NEW u \in Users, NEW r \in Roles, Provision(u, r) PROVE DoorIInv'
  BY <1>12, ProvisionKeeps
<1>13. DOMAIN session = Ids
  BY DEF DoorIInv, Seated
<1>14. ASSUME NEW s \in DOMAIN session, SignOut(s) PROVE DoorIInv'
  BY <1>13, <1>14, SignOutKeeps
<1>15. ASSUME NEW s \in DOMAIN session, NEW u \in Users, NEW b \in Browsers, NEW beside \in BOOLEAN, SignIn(u, b, s, beside) PROVE DoorIInv'
  BY <1>13, <1>15, SignInKeeps
<1>16. ASSUME NEW b \in Browsers, GrafanaVerify(b) PROVE DoorIInv'
  BY <1>16, GrafanaVerifyKeeps
<1>17. ASSUME NEW b \in Browsers, NEW state \in 1 .. states, GrafanaStart(b, state) PROVE DoorIInv'
  BY <1>17, GrafanaStartKeeps
<1>18. ASSUME NEW b \in Browsers, NEW k \in DOMAIN codes, GrafanaCallback(b, k) PROVE DoorIInv'
  BY <1>18, GrafanaCallbackKeeps
<1>19. ASSUME NEW k \in DOMAIN codes, CodeExpires(k) PROVE DoorIInv'
  BY <1>19, CodeExpiresKeeps
<1> QED
  BY <1>1, <1>2, <1>3, <1>4, <1>5, <1>6, <1>7, <1>8, <1>9, <1>10, <1>11, <1>12, <1>14, <1>15, <1>16, <1>17, <1>18, <1>19
  DEF FrontDoorNext

LEMMA DoorInvariantHolds == FrontDoorSpec => []DoorIInv
<1>1. FrontDoorInit => DoorIInv
  BY DoorStarts
<1>2. DoorIInv /\ [FrontDoorNext]_doorVars => DoorIInv'
  BY DoorStepKeeps
<1>. QED BY <1>1, <1>2, PTL DEF FrontDoorSpec

\* The state of the door is well-typed: who signed in, what was handed out, and what is under way
\* (api/server.go, api/principal.go, share/share.go, api/routes_grafana.go).
THEOREM FrontDoorTypeCorrect == FrontDoorSpec => []FrontDoorTypeOK
<1>1. DoorIInv => FrontDoorTypeOK
  <2> SUFFICES ASSUME DoorIInv PROVE FrontDoorTypeOK
    OBVIOUS
  <2>1. role \in [Users -> Roles \cup {""}] /\ secret \in 0 .. MaxSecrets /\ states \in 0 .. MaxStates /\ calls \in 0 .. MaxCalls
    BY DEF DoorIInv, Accountable, OwnCodes
  <2>2. session \in [1 .. MaxSessions -> [user : Users \cup {NoUser}, browser : Browsers \cup {NoBrowser}, sent : BOOLEAN]]
    BY DEF DoorIInv, Seated, Sessions, Ids
  <2>3. \A l \in links : l.views \subseteq {"details", "logs"} /\ l.left \in 0 .. MaxTTL /\ l.secret \in 1 .. secret
    BY DoorBounds DEF DoorIInv, LinksInTime, InTime
  <2>4. cookie \in [Browsers -> [state : 0 .. states, session : 0 .. MaxSessions, secret : 0 .. secret]]
    BY DEF DoorIInv, OwnCookies, Cookies
  <2>5. \A k \in DOMAIN codes : codes[k].session \in 1 .. MaxSessions /\ codes[k].state \in 1 .. states
    BY DEF DoorIInv, OwnCodes, OwnCode, Ids
  <2>6. \A c \in Calls : passing[c].at \in {"idle", "gate", "act"}
    BY DEF DoorIInv, Carried, OnItsWay, AtRest, AtGate, InHandler
  <2> QED BY <2>1, <2>2, <2>3, <2>4, <2>5, <2>6 DEF FrontDoorTypeOK
<1>. QED BY <1>1, DoorInvariantHolds, PTL

LEMMA OnesOwnRole ==
  ASSUME NEW who, who = [kind |-> "user", user |-> who.user, role |-> who.role]
  PROVE  [who EXCEPT !.role = who.role] = who
<1>1. PICK u, r : who = [kind |-> "user", user |-> u, role |-> r]
  OBVIOUS
<1> QED BY <1>1

LEMMA OnItsWayActsAsItMay ==
  ASSUME DoorIInv, NEW c \in Calls, passing[c].at = "act"
  PROVE  InHandler(passing[c]) /\ CameAsUser(passing[c]) /\ CameByLink(passing[c], links, secret)
BY DEF DoorIInv, Carried, OnItsWay, AtRest, AtGate

\* Nobody does what it was not allowed to do while it was asking; a link only reads, its own
\* deployment and no more than a viewer would, and in its time; and Grafana opens to a browser that
\* has signed in itself (api/principal.go:25-49, share/share.go:8-33, api/routes_grafana.go:17-27).
THEOREM TheDoorIsSafe == FrontDoorSpec => []FrontDoorSafety
<1>1. DoorIInv => FrontDoorSafety
  <2> SUFFICES ASSUME DoorIInv PROVE FrontDoorSafety
    OBVIOUS
  <2>1. ActsAsItMay
    <3> SUFFICES ASSUME NEW c \in Calls, passing[c].at = "act", passing[c].who.kind = "user"
                 PROVE  /\ passing[c].who.role \in passing[c].had[passing[c].who.user]
                        /\ \E r \in passing[c].had[passing[c].who.user] :
                             r # "" /\ Permit([passing[c].who EXCEPT !.role = r], passing[c].req)
      BY DEF ActsAsItMay
    <3> DEFINE who == passing[c].who
    <3>1. /\ who = [kind |-> "user", user |-> who.user, role |-> who.role] /\ who.user \in Users
          /\ who.role # "" /\ who.role \in passing[c].had[who.user] /\ Permit(who, passing[c].req)
      BY OnItsWayActsAsItMay DEF CameAsUser
    <3>2. [who EXCEPT !.role = who.role] = who
      BY <3>1, OnesOwnRole
    <3>3. Permit([who EXCEPT !.role = who.role], passing[c].req)
      BY <3>1, <3>2
    <3> QED BY <3>1, <3>3
  <2>2. LinksAreNarrow
    <3> SUFFICES ASSUME NEW c \in Calls, passing[c].at = "act", passing[c].who.kind = "share"
                 PROVE  /\ passing[c].req.method = "GET"
                        /\ (passing[c].req.route = "auth/me" \/ passing[c].req.about = passing[c].who.dep)
                        /\ Permit([kind |-> "user", user |-> NoUser, role |-> "viewer"], passing[c].req)
                        /\ \E l \in links : l.dep = passing[c].who.dep /\ l.secret = secret /\ l.age <= MaxTTL
      BY DEF LinksAreNarrow
    <3>1. CameByLink(passing[c], links, secret)
      BY OnItsWayActsAsItMay
    <3>2. \A l \in links : l.age <= MaxTTL
      BY DoorBounds DEF DoorIInv, LinksInTime, InTime
    <3> QED BY <3>1, <3>2 DEF CameByLink, Viewer
  <2>3. WhoEntersIsSignedIn
    <3>1. ASSUME NEW b \in Browsers, NEW s \in GrafanaUser(b) PROVE session[s].browser = b /\ LiveSession(s)
      <4>1. s = cookie[b].session /\ s # 0 /\ LiveSession(s)
        BY DEF GrafanaUser
      <4> QED BY <4>1 DEF DoorIInv, OwnCookies
    <3> QED BY <3>1 DEF WhoEntersIsSignedIn
  <2> QED BY <2>1, <2>2, <2>3 DEF FrontDoorSafety
<1>. QED BY <1>1, DoorInvariantHolds, PTL
================================================================================
