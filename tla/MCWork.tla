-------------------------------- MODULE MCWork --------------------------------
(***************************************************************************)
(* What runs in the background: the job registry and the streams of a job, *)
(* one operation on the axes of a stack, the watch that says whether it is *)
(* ready, and the application of Loki's settings. They share no state, so  *)
(* a behaviour takes the steps of one of them, and what is checked of each *)
(* is what its own specification says.                                     *)
(***************************************************************************)
EXTENDS JobsProps, JobStream, Lifecycle, LokiApply, Readiness, SpecFile
CONSTANTS s1

VARIABLE part  \* whose steps this behaviour takes

MCVarNames == {"PR", "DOMAIN", "PREVIEW_DOMAIN", "STACK", "PSTACK_ORCHESTRATOR", "TOKEN", "EMPTY"}
MCPlainWords == {"pr", "api", "admin", "apps", "compose", "swarm", "run", "h", "m", "0", "7", "30", "host"}
MCOtherWords == {"API", ".", " "}
MCCapital == [w \in MCPlainWords \cup MCOtherWords |-> IF w = "api" THEN "API" ELSE w]
MCDigits == [w \in {"0", "7", "30"} |-> IF w = "0" THEN 0 ELSE IF w = "7" THEN 7 ELSE 30]

Plain(words) == [i \in DOMAIN words |-> <<"word", words[i]>>]
Ref(name) == <<<<"env", name>>>>
Secret == <<<<"secrets", "TOKEN">>>>
RawAxis(name, hooks) ==
    [k \in AxisHooks \cup {"name"} |-> IF k = "name" THEN name ELSE IF k \in hooks THEN Plain(<<"run">>) ELSE NotThere]
RawRequire == [name |-> <<"host">>, assert |-> Plain(<<"run">>), hint |-> NotThere]
RawCompose(orchestrator, profiles, subdomains) ==
    [file |-> Plain(<<"compose">>), orchestrator |-> orchestrator, profiles |-> profiles, overlays |-> NotThere, subdomains |-> subdomains]
Entry(profile, host) == [profile |-> Plain(profile), depth |-> NotThere, host |-> host, unknown |-> FALSE]
RawSpec(kind, env, stack, compose, sleep, requires, axes) ==
    [version |-> NotThere, kind |-> kind, env |-> env, stack |-> stack, compose |-> compose, sleep |-> sleep,
     requires |-> requires, axes |-> axes]
PRStack == Plain(<<"pr", "-">>) \o Ref("PR")
Bases == {[PR |-> <<"7">>, EMPTY |-> <<>>], Bind([PR |-> <<"30">>, PSTACK_ORCHESTRATOR |-> <<"swarm">>], "PREVIEW_DOMAIN", <<"host">>)}
ABase == [PR |-> <<"7">>, EMPTY |-> <<>>]
AHost == [vars |-> [PR |-> <<"host">>], secrets |-> [TOKEN |-> <<"run">>]]

(* Stacks with one to three axes, whose hooks are all there or partly, under compose or swarm,   *)
(* logged or not, and one that several deployments share.                                        *)
AllHooks == {"up", "assert_live", "down", "assert_gone"}
OnCompose == RawCompose(NotThere, NotThere, NotThere)
OnSwarm == RawCompose(Plain(<<"swarm">>), NotThere, NotThere)
RawStacks == {
    <<RawSpec(NotThere, NotThere, PRStack, OnCompose, NotThere, <<RawRequire>>,
              <<RawAxis(<<"api">>, AllHooks), RawAxis(<<"admin">>, AllHooks)>>), TRUE>>,
    <<RawSpec(NotThere, NotThere, PRStack, OnSwarm, NotThere, NotThere,
              <<RawAxis(<<"api">>, AllHooks \ {"assert_gone"}), RawAxis(<<"admin">>, {"up", "down", "assert_gone"})>>), TRUE>>,
    <<RawSpec("shared", NotThere, PRStack, OnCompose, NotThere, <<RawRequire>>, NotThere), FALSE>>,
    <<RawSpec(NotThere, NotThere, PRStack, NotThere, NotThere, NotThere,
              <<RawAxis(<<"api">>, AllHooks \ {"down"}), RawAxis(<<"admin">>, {"assert_gone"}), RawAxis(<<"run">>, AllHooks \ {"up"})>>), FALSE>>}
MCStacks == {Resolved(Parse(r[1], ABase, AHost), r[2]) : r \in RawStacks}
ASSUME \A r \in RawStacks : Parses(r[1], ABase, AHost)

(* Specs that differ in what names the stack and its hosts, and in all the rest.                 *)
EnvLists == {NotThere, Malformed} \cup
    {<<[name |-> "DOMAIN", value |-> Plain(<<"apps">>)]>>,
     <<[name |-> "PREVIEW_DOMAIN", value |-> <<>>], [name |-> "DOMAIN", value |-> Plain(<<"apps">>)]>>,
     <<[name |-> "DOMAIN", value |-> Plain(<<"apps">>)], [name |-> "PREVIEW_DOMAIN", value |-> Ref("DOMAIN") \o Plain(<<".", "apps">>)]>>,
     <<[name |-> "STACK", value |-> Ref("EMPTY")]>>}
StackTexts == {NotThere, Malformed, PRStack, Secret, Plain(<<"-", "pr">>), Plain(<<"pr", ".">>), Ref("EMPTY"), <<<<"vars", "PR">>>>}
Composes == {NotThere, Malformed, RawCompose(Ref("EMPTY"), NotThere, NotThere), RawCompose(Plain(<<"run">>), NotThere, NotThere)} \cup
    {RawCompose(NotThere, <<Plain(<<"api">>), Plain(<<"admin", "-", "api">>), Plain(<<"admin", "_", "API">>)>>, routes) : routes \in
        {NotThere, Malformed, <<>>, <<Entry(<<"api">>, NotThere)>>, <<Entry(<<"run">>, NotThere)>>,
         <<Entry(<<"api">>, NotThere), Entry(<<"admin", "-", "api">>, Ref("STACK"))>>, <<Entry(<<"api">>, <<<<"vars", "PR">>>>)>>,
         <<Entry(<<"admin", "-", "api">>, NotThere), Entry(<<"admin", "_", "API">>, NotThere)>>}}
Sleeps == {NotThere} \cup [idle : {NotThere, Plain(<<"30">>), Plain(<<"30", "m">>), Plain(<<"0", "h">>)},
                          after : {NotThere, Plain(<<"7", "h", "30", "m">>)}, unknown : BOOLEAN]
AxisLists == {NotThere, Malformed, <<RawAxis(<<"api">>, {})>>, <<RawAxis(<<>>, {"up"})>>, <<Malformed>>} \cup
    {<<RawAxis(<<"api">>, {"up"}), RawAxis(n, {"assert_gone", "down"})>> : n \in {<<"api">>, <<"admin">>}}
RawSpecs ==
    {RawSpec(NotThere, e, t, c, NotThere, NotThere, NotThere) : e \in EnvLists, t \in StackTexts, c \in Composes} \cup
    {RawSpec(k, NotThere, PRStack, c, p, r, x) : k \in {NotThere, "shared", "preview"}, c \in {NotThere, OnCompose}, p \in Sleeps,
                                                 r \in {NotThere, <<RawRequire, RawRequire>>, <<Malformed>>}, x \in AxisLists}

(* What is accepted is a stack to run on: the operations never meet another.                     *)
ASSUME \A raw \in RawSpecs, b \in Bases, h \in {AHost, NoHost} : Parses(raw, b, h) =>
    SoundSpec(Parse(raw, b, h)) /\ Resolved(Parse(raw, b, h), TRUE) \in StackType

(* Two previews of a spec named after its pull request are two stacks, and a domain the spec     *)
(* declares is the one of its hosts whatever the server's own is.                                *)
ASSUME \A raw \in RawSpecs, a, b \in Bases : Parses(raw, a, AHost) /\ Parses(raw, b, AHost) /\ a # b =>
    LET one == Parse(raw, a, AHost)  other == Parse(raw, b, AHost)
    IN  /\ raw.stack = PRStack => one.stack # other.stack
        /\ one.declared \cap {"DOMAIN", "PREVIEW_DOMAIN"} # {} => PreviewDomain(one.env, one.declared) = PreviewDomain(other.env, other.declared)

(* A text is read piece by piece and nothing that is there stands for nothing; durations add up. *)
ASSUME \A t, u \in StackTexts \ {NotThere, Malformed}, b \in Bases :
    /\ Filled(t \o u, b, AHost) = Filled(t, b, AHost) \o Filled(u, b, AHost)
    /\ Fills(t, b, AHost) => Filled(t, b, AHost) # <<>>
ASSUME \A n, k \in DOMAIN MCDigits, w, x \in {"h", "m"} :
    ParseDuration(<<n, w, k, x>>) = ParseDuration(<<n, w>>) + ParseDuration(<<k, x>>) /\ ParseDuration(<<n, w, k>>) = 0

(* What docker may answer: nothing yet, a container that is not placed, and one that did its     *)
(* work beside one that was restarted and is healthy all the same.                               *)
Container(n, s, h, r, x) == [name |-> n, state |-> s, health |-> h, restarts |-> r, exit |-> x]
MCSamples == {
    {},
    {Container("a", "new", "none", 0, 0)},
    {Container("a", "running", "healthy", 3, 0), Container("b", "exited", "none", 0, 0)}}

WorkVars == <<part, vars, streamVars, lifecycleVars, lokiVars, readinessVars>>
jobsOnly == UNCHANGED <<part, streamVars, lifecycleVars, lokiVars, readinessVars>>
streamOnly == UNCHANGED <<part, vars, lifecycleVars, lokiVars, readinessVars>>
lifecycleOnly == UNCHANGED <<part, vars, streamVars, lokiVars, readinessVars>>
lokiOnly == UNCHANGED <<part, vars, streamVars, lifecycleVars, readinessVars>>
watchOnly == UNCHANGED <<part, vars, streamVars, lifecycleVars, lokiVars>>

WorkInit ==
    /\ part \in {"jobs", "stream", "lifecycle", "loki", "watch"}
    /\ Init
    /\ StreamInit
    /\ LifecycleInit /\ (part # "lifecycle" => st = CHOOSE s \in Stacks : TRUE)
    /\ LokiInit
    /\ ReadinessInit
WorkNext ==
    \/ part = "jobs" /\ Next /\ jobsOnly
    \/ part = "stream" /\ StreamNext /\ streamOnly
    \/ part = "lifecycle" /\ LifecycleNext /\ lifecycleOnly
    \/ part = "loki" /\ LokiNext /\ lokiOnly
    \/ part = "watch" /\ ReadinessNext /\ watchOnly

jobsStep(A) == part = "jobs" /\ A /\ jobsOnly
streamStep(A) == part = "stream" /\ A /\ streamOnly
lifecycleStep(A) == part = "lifecycle" /\ A /\ lifecycleOnly
lokiStep(A) == part = "loki" /\ A /\ lokiOnly
watchStep(A) == part = "watch" /\ A /\ watchOnly
(* The fairness of Jobs, LifecycleFairness, ReadinessFairness and that of LokiSpec.              *)
(* One part of a behaviour ever takes steps: conditions of several are stated as that of any.    *)
WorkFairness ==
    /\ WF_WorkVars(lifecycleStep(Hook) \/ lokiStep(ApplyStep) \/ watchStep(Loop(1)) \/ streamStep(JobStep \/ FanOut) \/ jobsStep(PumpOwed))
    /\ WF_WorkVars(lokiStep(ReconcileLoki) \/ watchStep(Loop(2)) \/ jobsStep(ReleaseHold(s1)))
    /\ \A i \in Id : WF_WorkVars(jobsStep(Goroutine(i))) /\ WF_WorkVars(jobsStep(PumpAfterStart(i)))
    /\ \A v \in Viewers : WF_WorkVars(streamStep(StreamStep(v)))
    /\ \A w \in Watches : WF_WorkVars(watchStep(Elapse(w)))
    /\ \A c \in Callers : WF_WorkVars(watchStep(Continue(c)))
WorkSpec == WorkInit /\ [][WorkNext]_WorkVars /\ WorkFairness

(* Every variable of every part keeps its type: what their definitions assume of each other. *)
WorkTypes ==
    /\ part = "jobs" => TypeOK
    /\ part = "stream" => StreamTypeOK
    /\ part = "lifecycle" => LifecycleTypeOK
    /\ part = "loki" => LokiTypeOK
    /\ part = "watch" => ReadinessTypeOK

(* Everything begun comes to an end: a job is dispatched and ends, and so do its streams; an operation visits each hook once; after a stop an apply is     *)
(* finished or undone; a watch reaches its verdict or is stopped; who calls the watcher returns.      *)
WorkEnds == EveryJobEnds /\ StreamsEnd /\ OperationsEnd /\ UnfinishedIsFinished /\ WatchesEnd /\ CallersReturn
==============================================================================
