------------------------------ MODULE Deployments ------------------------------
(***************************************************************************)
(* A deployment's record on disk and the routes that read and write it     *)
(* (packages/pstack/internal/api/routes_deploy.go over registry.go): PUT,  *)
(* DELETE, and the lifecycle posts that start a job from it.               *)
(*                                                                         *)
(* The record is two files, spec.yml and meta.json, which is where the     *)
(* stored variables are, in a directory of their own.  Which stack a text  *)
(* names under a value of the variables is the constant Resolve; a text    *)
(* may be rejected under a value (a name that is not a stack's, a variable *)
(* that is missing).  A request may bring variables that count for itself  *)
(* alone: the `env` of a PUT, the query of any other.  The files are       *)
(* written under writeMu and read without it, one after the other.         *)
(* The job registry is the lock of module StackLock, which module Jobs     *)
(* implements.  A client is a request; hosts, sleeping and custom routes   *)
(* are left out, and an `up` is a wake too.                                *)
(* A definition X_How just before X is X with a plausible mistake in it;   *)
(* no action uses it.                                                      *)
(***************************************************************************)
EXTENDS Integers, FiniteSets

CONSTANTS
  Deployment,
  Stack,
  Text,        \* what a submission's spec may say
  Value,       \* what a stored variable may be
  Client,      \* requests in flight
  Id,          \* bound: the jobs accepted in one behaviour
  Resolve(_, _),  \* the stack a text names under a value, or Rejected
  Unset, Absent, Rejected, Nobody

Vars == Value \cup {Unset}

ASSUME DeploymentsAssumption ==
  /\ \A t \in Text, x \in Vars : Resolve(t, x) \in Stack \cup {Rejected}
  /\ Id \subseteq Nat \ {0}
  /\ Unset \notin Value /\ Absent \notin Text \cup Vars
  /\ Rejected \notin Stack /\ Nobody \notin Client

VARIABLES
  spec,        \* deployment -> its spec.yml, or Absent: the directory is there if it is
  vars,        \* deployment -> the variable in its meta.json, or Absent
  brought,        \* deployment -> what its PUT brought beside, and no file keeps (history)
  containers,  \* the stacks that have containers
  writeMu,     \* who holds it
  pc,          \* client -> the step it is at
  about,       \* client -> what it was asked and what it has read
  request,     \* job -> what it was started from
  step,        \* job -> the part of its work that comes next
  status, home, lock

L == INSTANCE StackLock

files == <<spec, vars>>
locks == <<status, home, lock>>
work == <<request, step>>
variables == <<files, brought, containers, writeMu, pc, about, work, locks>>

NoRequest == [dep |-> Absent, act |-> "none", text |-> Absent, var |-> Unset, own |-> Unset,
              stack |-> Rejected]

Init ==
  /\ spec = [d \in Deployment |-> Absent]
  /\ vars = [d \in Deployment |-> Absent]
  /\ brought = [d \in Deployment |-> Unset]
  /\ containers = {}
  /\ writeMu = Nobody
  /\ pc = [c \in Client |-> "idle"]
  /\ about = [c \in Client |-> NoRequest]
  /\ request = [i \in Id |-> NoRequest]
  /\ step = [i \in Id |-> "work"]
  /\ status = [i \in Id |-> "none"]
  /\ home \in [Id -> Stack]
  /\ lock = [s \in Stack |-> L!Free]

Step(c, from, to) == pc[c] = from /\ pc' = [pc EXCEPT ![c] = to]
Asked(c) == about[c].dep

Hold_Anyway(s) ==
  /\ lock[s] # L!Held
  /\ lock' = [lock EXCEPT ![s] = IF @ = L!Free THEN L!Held ELSE @]
  /\ UNCHANGED <<status, home>>

Hold(s) == L!Hold(s)

\* What a route came for is done, or not; what is left is its deferred release.
Done(c, from) ==
  /\ Step(c, from, "return")
  /\ about' = [about EXCEPT ![c] = [NoRequest EXCEPT !.stack = about[c].stack]]

\* Whatever a route did, its deferred release gives the stack back.
Return(c) ==
  /\ Step(c, "return", "idle")
  /\ L!Unhold(about[c].stack)
  /\ about' = [about EXCEPT ![c] = NoRequest]
  /\ UNCHANGED <<files, brought, containers, writeMu, work>>

Refuse(c) ==
  /\ pc' = [pc EXCEPT ![c] = "idle"]
  /\ about' = [about EXCEPT ![c] = NoRequest]
  /\ UNCHANGED <<files, brought, containers, writeMu, work, locks>>

\* What a request brings for itself beats what is stored, or is to be stored.
Over(x, own) == IF own # Unset THEN own ELSE x

(***************************************************************************)
(* PUT: the submission is parsed with everything it came with, the         *)
(* stack that names is held, and then the files are written.  A hold that  *)
(* is refused ends the request.                                            *)
(***************************************************************************)
Put(c, d, t, x, e) ==
  /\ Resolve(t, Over(x, e)) # Rejected
  /\ Step(c, "idle", "write")
  /\ Hold(Resolve(t, Over(x, e)))
  /\ about' = [about EXCEPT ![c] = [dep |-> d, act |-> "put", text |-> t, var |-> x, own |-> e,
                                    stack |-> Resolve(t, Over(x, e))]]
  /\ UNCHANGED <<files, brought, containers, writeMu, work>>

\* { ...prev.vars, ...opts.vars }
Merged(c) == IF vars[Asked(c)] = Absent THEN about[c].var
             ELSE Over(vars[Asked(c)], about[c].var)

WriteSpec(c) ==
  /\ Step(c, "write", "validate")
  /\ writeMu = Nobody
  /\ writeMu' = c
  /\ about' = [about EXCEPT ![c].var = Merged(c)]
  /\ spec' = [spec EXCEPT ![Asked(c)] = about[c].text]
  /\ UNCHANGED <<vars, brought, containers, work, locks>>

Accepted_AsSubmitted(c) == about[c].stack # Rejected

\* spec.Load, with the merged variables this time.
Accepted(c) == Resolve(about[c].text, Over(about[c].var, about[c].own)) # Rejected

StoreVars(c) ==
  /\ Accepted(c)
  /\ Done(c, "validate")
  /\ vars' = [vars EXCEPT ![Asked(c)] = about[c].var]
  /\ brought' = [brought EXCEPT ![Asked(c)] = about[c].own]
  /\ writeMu' = Nobody
  /\ UNCHANGED <<spec, containers, work, locks>>

RemoveFiles(d) ==
  /\ spec' = [spec EXCEPT ![d] = Absent]
  /\ vars' = [vars EXCEPT ![d] = Absent]
  /\ brought' = [brought EXCEPT ![d] = Unset]

\* Roll back: the directory goes, whatever it held before.
RollBack(c) ==
  /\ ~ Accepted(c)
  /\ Done(c, "validate")
  /\ RemoveFiles(Asked(c))
  /\ writeMu' = Nobody
  /\ UNCHANGED <<containers, work, locks>>

(***************************************************************************)
(* resolveDep: meta.json is read, then spec.yml, and neither under a lock; *)
(* the variables of the query go over the stored ones.                     *)
(***************************************************************************)
Get(c, d, act, q) ==
  /\ spec[d] # Absent /\ vars[d] # Absent
  /\ Step(c, "idle", "load")
  /\ about' = [about EXCEPT ![c] = [NoRequest EXCEPT !.dep = d, !.act = act,
                                                     !.var = vars[d], !.own = q]]
  /\ UNCHANGED <<files, brought, containers, writeMu, work, locks>>

Names(c) == IF spec[Asked(c)] = Absent THEN Rejected
            ELSE Resolve(spec[Asked(c)], Over(about[c].var, about[c].own))

Load(c) ==
  /\ Step(c, "load", IF about[c].act = "delete" THEN "hold" ELSE "post")
  /\ Names(c) # Rejected
  /\ about' = [about EXCEPT ![c].stack = Names(c), ![c].var = Unset, ![c].own = Unset]
  /\ UNCHANGED <<files, brought, containers, writeMu, work, locks>>

LoadFails(c) == pc[c] = "load" /\ Names(c) = Rejected /\ Refuse(c)

(***************************************************************************)
(* POST .../up, down, and down with forget: StartFor, with what was read.  *)
(***************************************************************************)
PostIt(c, i) ==
  /\ \A j \in Id : j < i => status[j] # "none"
  /\ Step(c, "post", "idle")
  /\ L!Accept(i, about[c].stack)
  /\ request' = [request EXCEPT ![i] = about[c]]
  /\ about' = [about EXCEPT ![c] = NoRequest]
  /\ UNCHANGED <<files, brought, containers, writeMu, step>>

PostRefused(c) == pc[c] = "post" /\ lock[about[c].stack] = L!Held /\ Refuse(c)

(***************************************************************************)
(* DELETE: hold the stack, ask docker, remove the record, release.  Docker *)
(* may not answer, and then nothing is removed.                            *)
(***************************************************************************)
HoldToDelete(c) ==
  /\ Step(c, "hold", "look")
  /\ Hold(about[c].stack)
  /\ UNCHANGED <<files, brought, containers, writeMu, about, work>>

DeleteRefused(c) ==
  /\ pc[c] = "hold"
  /\ lock[about[c].stack] # L!Free \/ L!Queued(about[c].stack) # {}
  /\ Refuse(c)

Confirmed_NoAnswer(s) == TRUE

\* docker answered, and has no container of the stack.
Confirmed(s) == s \notin containers

Look(c) ==
  /\ Step(c, "look", "remove")
  /\ Confirmed(about[c].stack)
  /\ UNCHANGED <<files, brought, containers, writeMu, about, work, locks>>

LooksBad(c) ==
  /\ Done(c, "look")
  /\ UNCHANGED <<files, brought, containers, writeMu, work, locks>>

RemoveDeployment(c) ==
  /\ writeMu = Nobody
  /\ Done(c, "remove")
  /\ RemoveFiles(Asked(c))
  /\ UNCHANGED <<containers, writeMu, work, locks>>

(***************************************************************************)
(* The job: dispatched, it works on the stack it was given, and a clean    *)
(* teardown that was asked to forget removes the record.  An up may fail   *)
(* with the containers there or not; a teardown may leave them.  Every     *)
(* command runs in the directory of the deployment: none without it.       *)
(***************************************************************************)
Dispatch(i) ==
  /\ status[i] = "queued" /\ lock[home[i]] = L!Free
  /\ lock' = [lock EXCEPT ![home[i]] = i]
  /\ L!Dispatch({i})
  /\ UNCHANGED <<files, brought, containers, writeMu, pc, about, work>>

At(i, s) == status[i] = "running" /\ step[i] = s

Directory(d) == spec[d] # Absent

Work(i) ==
  /\ At(i, "work") /\ Directory(request[i].dep)
  /\ containers' \in IF request[i].act = "up"
                     THEN {containers, containers \cup {home[i]}}
                     ELSE {containers, containers \ {home[i]}}
  /\ step' = [step EXCEPT ![i] = IF request[i].act = "forget" THEN "forget" ELSE "end"]
  /\ UNCHANGED <<files, brought, writeMu, pc, about, request, locks>>

\* The compose file is not there to be read, nor is the directory to run in.
WorkFails(i) ==
  /\ At(i, "work") /\ ~ Directory(request[i].dep)
  /\ step' = [step EXCEPT ![i] = "end"]
  /\ UNCHANGED <<files, brought, containers, writeMu, pc, about, request, locks>>

Forget(i) ==
  /\ At(i, "forget")
  /\ Confirmed(home[i]) /\ writeMu = Nobody
  /\ RemoveFiles(request[i].dep)
  /\ step' = [step EXCEPT ![i] = "end"]
  /\ UNCHANGED <<containers, writeMu, pc, about, request, locks>>

KeepRecord(i) ==
  /\ At(i, "forget")
  /\ step' = [step EXCEPT ![i] = "end"]
  /\ UNCHANGED <<files, brought, containers, writeMu, pc, about, request, locks>>

Finish(i) ==
  /\ At(i, "end")
  /\ L!Finish(i)
  /\ UNCHANGED <<files, brought, containers, writeMu, pc, about, work>>

\* The stack is released, or the job was cancelled before it started.
LetGo(i) ==
  /\ L!Release(i) \/ L!Drop(i)
  /\ request' = [request EXCEPT ![i] = NoRequest]
  /\ UNCHANGED <<files, brought, containers, writeMu, pc, about, step>>

Request(c) ==
  \/ \E d \in Deployment, t \in Text, x, e \in Vars : Put(c, d, t, x, e)
  \/ \E d \in Deployment, act \in {"up", "down", "forget", "delete"}, q \in Vars : Get(c, d, act, q)
  \/ WriteSpec(c) \/ StoreVars(c) \/ RollBack(c)
  \/ Load(c) \/ LoadFails(c)
  \/ (\E i \in Id : PostIt(c, i)) \/ PostRefused(c)
  \/ HoldToDelete(c) \/ DeleteRefused(c) \/ Look(c) \/ LooksBad(c) \/ RemoveDeployment(c)
  \/ Return(c)

Job(i) ==
  Dispatch(i) \/ Work(i) \/ WorkFails(i) \/ Forget(i) \/ KeepRecord(i) \/ Finish(i) \/ LetGo(i)

Next == (\E c \in Client : Request(c)) \/ (\E i \in Id : Job(i))

Spec == Init /\ [][Next]_variables
================================================================================
