--------------------------- MODULE DeploymentsProps ---------------------------
(* What the routes promise about a deployment's record and its stack.      *)
EXTENDS Deployments

Requests ==
  [dep : Deployment \cup {Absent},
   act : {"none", "put", "up", "down", "forget", "delete"},
   text : Text \cup {Absent}, var : Vars, own : Vars, stack : Stack \cup {Rejected}]

\* The types of the files, the requests and the jobs.
TypeOK ==
  /\ spec \in [Deployment -> Text \cup {Absent}]
  /\ vars \in [Deployment -> Vars \cup {Absent}]
  /\ brought \in [Deployment -> Vars]
  /\ containers \subseteq Stack
  /\ writeMu \in Client \cup {Nobody}
  /\ pc \in [Client -> {"idle", "write", "validate", "return", "load", "post",
                        "hold", "look", "remove"}]
  /\ about \in [Client -> Requests] /\ request \in [Id -> Requests]
  /\ step \in [Id -> {"work", "forget", "end"}]
  /\ status \in [Id -> {"none", "queued", "running", "ended"}]
  /\ home \in [Id -> Stack] /\ lock \in [Stack -> Id \cup {L!Free, L!Held}]

Known(d) == spec[d] # Absent /\ vars[d] # Absent
StackOf(d) == Resolve(spec[d], vars[d])
Outstanding(s) == {i \in Id : status[i] \in {"queued", "running"} /\ home[i] = s}

\* With what its PUT brought, a stored record resolves.
Whole(d) ==
  /\ spec[d] = Absent <=> vars[d] = Absent
  /\ Known(d) => Resolve(spec[d], Over(vars[d], brought[d])) # Rejected

\* Between two writes a record is whole and names a stack, for whoever brings what its PUT
\* brought beside the variables it stored, so that a `down` is always possible: what was accepted
\* is what was stored (registry.Put, "validation and storage agree on exactly one variable set").
StoredResolves == writeMu = Nobody => \A d \in Deployment : Whole(d)

\* Only who has a stack to itself changes a record for it: a PUT the one it submits a spec of, a
\* DELETE the one it looked at, a teardown its own.  What is named is what the request says, with
\* the variables it brings; so it is the record's stack when a submission names that one.
ChangesForItsOwn ==
  \A d \in Deployment :
    <<spec[d], vars[d]>> # <<spec[d], vars[d]>>' =>
      \/ \E c \in Client : /\ Asked(c) = d /\ pc[c] \in {"write", "validate", "remove"} /\ pc'[c] # pc[c]
                           /\ Outstanding(about[c].stack) = {}
      \/ \E i \in Id : /\ request[i].dep = d /\ step[i] = "forget" /\ step'[i] = "end"
                       /\ status[i] = "running"
                       /\ \A j \in Outstanding(request[i].stack) : j = i \/ status[j] = "queued"
NoSwapMidJob == [][ChangesForItsOwn]_variables

\* Requests, and what jobs were started from, that forget a record in this step.
Forgetting ==
  {about[c] : c \in {c \in Client : pc[c] = "remove" /\ pc'[c] = "return"}}
    \cup {request[i] : i \in {i \in Id : step[i] = "forget" /\ step'[i] = "end"
                                          /\ Known(request[i].dep) /\ ~ Known(request[i].dep)'}}

Down(s) ==
  /\ s \notin containers
  /\ \A i \in Outstanding(s) : status[i] = "running" => step[i] = "forget"

\* A record is forgotten only when the stack that was named has no containers and no job that
\* could still make some is running (deleteDeployment, forgetAfterDown).  That is the record's own
\* stack, unless the query said otherwise or a submission for another stack came in between.
ForgetsWhatIsDown == \A r \in Forgetting : r.stack \in Stack /\ Down(r.stack)
ForgottenIsDown == [][ForgetsWhatIsDown]_variables

(***************************************************************************)
(* The inductive strengthening: what a request at each step has read, what *)
(* the writer of a record has written, and who has a stack.                *)
(***************************************************************************)
Holding == {"write", "validate", "look", "remove", "return"}

RequestsNamed ==
  /\ \A c \in Client :
       /\ pc[c] \in (Holding \ {"return"}) \cup {"load", "post", "hold"} => Asked(c) \in Deployment
       /\ pc[c] \in Holding \cup {"post", "hold"} => about[c].stack \in Stack
       /\ pc[c] \in {"write", "validate"} => about[c].text \in Text
  /\ \A i \in Id : status[i] \in {"queued", "running"} => request[i].stack = home[i] /\ request[i].dep \in Deployment

WriterAlone ==
  /\ \A c \in Client : pc[c] = "validate" <=> writeMu = c
  /\ \A c \in Client : writeMu = c => spec[Asked(c)] = about[c].text
  /\ \A d \in Deployment :
       (\A c \in Client : writeMu = c => Asked(c) # d) => Whole(d)

HoldersAlone ==
  /\ \A i \in Id : status[i] = "running" => lock[home[i]] = i
  /\ \A i \in Id : status[i] = "queued" => lock[home[i]] # L!Held
  /\ \A c \in Client : pc[c] \in Holding => lock[about[c].stack] = L!Held
  /\ \A c, e \in Client :
       pc[c] \in Holding /\ pc[e] \in Holding /\ about[c].stack = about[e].stack
         => c = e
  /\ \A c \in Client : pc[c] = "remove" => about[c].stack \notin containers

IInv == TypeOK /\ RequestsNamed /\ WriterAlone /\ HoldersAlone

(***************************************************************************)
(* What the comments say and the code does not do.                         *)
(***************************************************************************)
\* routes_deploy.go 236-237: a rejected replacement does not delete the record.
ReplaceKeepsRecord ==
  [][\A d \in Deployment : Known(d) /\ ~ Known(d)' => \E r \in Forgetting : r.dep = d]_variables

\* registry.go 352-354: a record is removed only after a down of its stack, which the API enforces.
RemovedWhenDown ==
  [][\A r \in Forgetting : Known(r.dep) => StackOf(r.dep) \notin containers]_variables
================================================================================
