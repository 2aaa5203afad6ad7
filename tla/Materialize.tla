------------------------------ MODULE Materialize ------------------------------
(* The derived compose file: what autolabel, swarm.Swarmify and the compose verbs make of a       *)
(* submitted text, and the file they share. Every verb re-derives the file before docker reads it: *)
(* the verbs of the stack's job under its lock, the reads of logs and ps under none, both with a   *)
(* truncating WriteFile. Labels are names, a text is the fields of its services that matter here.  *)
EXTENDS Naturals
CONSTANTS Submissions,  \* texts with the resolved spec they were submitted with
          StackJob, Viewers, \* the stack's job, the requests that read logs or ps
          Modes         \* ACME challenge modes the host may be in
CONSTANTS Torn, Empty, Missing  \* a half-written file, one just truncated, no file

VARIABLES submitted, \* the submission in the deployment directory
          generated, \* compose.generated.yml: its document, is the push password in it, is its mode 0600;
               \* and was a write or a chmod of it cut short, for the properties
          setup,      \* what docker and the routing directory answer: loki, plugin, challenge mode
          project,   \* the document docker last brought up, and whether volumes exist
          op,        \* where each caller is in its command
          edits      \* how often the host and the submission have changed
materializeVars == <<submitted, generated, setup, project, op, edits>>
Callers == Viewers \cup {StackJob}
Ingress == "preview-ingress"

ServiceShape ==
    [labels : SUBSET STRING, deployLabels : SUBSET STRING, port : {"none", "ok", "bad"}, alias : STRING, host : STRING,
     logging : {"none", "own"}, profiles : SUBSET STRING, networks : SUBSET STRING, restart : STRING, policy : STRING,
     limits : SUBSET STRING, keys : SUBSET STRING]
DocumentShape(doc) ==
    /\ doc \in [services : [DOMAIN doc.services -> ServiceShape], networks : SUBSET STRING,
                broken : BOOLEAN, mentionsRouting : BOOLEAN]
    /\ \A n \in DOMAIN doc.services : doc.services[n].port # "none" => doc.mentionsRouting
SpecShape == [orchestrator : {"compose", "swarm"}, profiles : SUBSET STRING, wildcards : SUBSET STRING, domain : BOOLEAN]
ASSUME MaterializeAssumption ==
    /\ \A s \in Submissions : DocumentShape(s.doc) /\ s.spec \in SpecShape
    /\ StackJob \notin Viewers

-----------------------------------------------------------------------------
(* Labels *)
IsSwarm(sp) == sp.orchestrator = "swarm"
WildcardMode(mode) == mode \in {"dns01", "persist"}
NetworkKey(sp) == IF IsSwarm(sp) THEN "swarm.network" ELSE "docker.network"
RouteLabels == {"enable", "rule", "resolver", "wild.rule", "wild.resolver"}
Traefik == RouteLabels \cup {"docker.network", "swarm.network", "own.rule"}

HasTraefik_Container(s) == s.labels \cap Traefik # {}
HasTraefik(s) == (s.labels \cup s.deployLabels) \cap Traefik # {}
\* ReadRoutingRequest and what AugmentComposeDoc refuses after it; a label set with traefik.* is never asked.
RefusesRouting(s, sp) ==
    /\ ~HasTraefik(s)
    /\ \/ s.port = "bad"
       \/ s.port = "none" /\ (s.alias # "none" \/ s.host # "none")
       \/ s.port = "ok" /\ (s.host = "control" \/ (s.host = "none" /\ ~sp.domain))
AsksRouting(s) == ~HasTraefik(s) /\ s.port = "ok"
RoutingName(n, s) == IF s.alias = "none" THEN n ELSE s.alias

Added(n, s, sp, mode) ==
    LET wild == RoutingName(n, s) \in sp.wildcards
    IN  {"enable", "rule", NetworkKey(sp)}
          \cup (IF WildcardMode(mode) THEN {} ELSE {"resolver"})
          \cup (IF wild THEN {"wild.rule"} ELSE {})
          \cup (IF wild /\ ~WildcardMode(mode) THEN {"wild.resolver"} ELSE {})
WithRoute(n, s, sp, mode) ==
    LET place == IF IsSwarm(sp) THEN "deployLabels" ELSE "labels"
    IN  [s EXCEPT ![place] = @ \cup Added(n, s, sp, mode),
                  !.networks = (IF @ = {} THEN {"default"} ELSE @) \cup {Ingress}]
Augmented(doc, sp, mode) ==
    LET routed == {n \in DOMAIN doc.services : AsksRouting(doc.services[n])}
    IN  [doc EXCEPT
          !.services = [n \in DOMAIN @ |-> IF n \in routed THEN WithRoute(n, @[n], sp, mode) ELSE @[n]],
          !.networks = @ \cup (IF routed = {} THEN {} ELSE {"default", Ingress, "preview-shared"})]

-----------------------------------------------------------------------------
(* Logging: one block for every service that has none; loki's when the host pushes, a capped file. *)
WithLogging(doc, driver) ==
    [doc EXCEPT !.services = [n \in DOMAIN @ |->
        IF @[n].logging = "none" THEN [@[n] EXCEPT !.logging = driver] ELSE @[n]]]
InjectLogging(doc) == WithLogging(doc, "loki")
CapLogs(doc) == WithLogging(doc, "capped")
Unlogged(doc) == {n \in DOMAIN doc.services : doc.services[n].logging = "none"}
InProfiles(s, profiles) == s.profiles = {} \/ s.profiles \cap profiles # {}
LoggedServices(doc, profiles) == {n \in Unlogged(doc) : InProfiles(doc.services[n], profiles)}

-----------------------------------------------------------------------------
(* Swarm *)
Condition(restart) ==
    CASE restart \in {"absent", "no"} -> "none" [] restart = "always" -> "any" [] OTHER -> restart
ForSwarm(s) ==
    LET moved == s.deployLabels \cup (s.labels \cap Traefik)
    IN  [s EXCEPT !.profiles = {}, !.restart = "absent",
                  !.policy = IF @ = "absent" THEN Condition(s.restart) ELSE @,
                  !.limits = IF @ = {} THEN {} ELSE {"deploy"},
                  !.labels = @ \ Traefik,
                  !.deployLabels = (moved \ {"docker.network"})
                                     \cup {l \in {"swarm.network"} : "docker.network" \in moved},
                  !.keys = @ \cap {"v3"}]
Swarmify(doc, profiles) ==
    LET taken == {n \in DOMAIN doc.services : InProfiles(doc.services[n], profiles)}
    IN  [doc EXCEPT !.services = [n \in taken |-> ForSwarm(@[n])]]

-----------------------------------------------------------------------------
(* MaterializeCompose, as one function of what it read *)
Labelled(doc, sp, mode) == IF doc.mentionsRouting THEN Augmented(doc, sp, mode) ELSE doc
Logged(doc, push) == IF push THEN InjectLogging(doc) ELSE CapLogs(doc)
Derived(doc, sp, push, mode) ==
    LET logged == Logged(Labelled(doc, sp, mode), push)
    IN  IF IsSwarm(sp) THEN Swarmify(logged, sp.profiles) ELSE logged
RefusesText(doc, sp) ==
    \/ doc.broken
    \/ doc.mentionsRouting /\ \E n \in DOMAIN doc.services : RefusesRouting(doc.services[n], sp)
\* The submitted file is used as it stands: nothing generated, nothing logged, nothing capped.
Untouched(doc, sp) ==
    /\ ~IsSwarm(sp) /\ Unlogged(doc) = {}
    /\ ~(doc.mentionsRouting /\ \E n \in DOMAIN doc.services : AsksRouting(doc.services[n]))

-----------------------------------------------------------------------------
NoCommand == [at |-> "idle"]
MaterializeInit ==
    /\ submitted \in Submissions
    /\ generated = [doc |-> Missing, secret |-> FALSE, closed |-> FALSE, cut |-> FALSE]
    /\ setup \in [loki : BOOLEAN, plugin : {TRUE}, mode : Modes]
    /\ project = [runs |-> Missing, volumes |-> FALSE]
    /\ op = [c \in Callers |-> NoCommand]
    /\ edits = 0

Goto(c, at) == op' = [op EXCEPT ![c].at = at]
Verbs(c) == IF c = StackJob THEN {"up", "down", "sleep"} ELSE {"read"}
\* Under swarm only `up` needs the file: the other verbs name the stack.
NeedsFile(verb, sp) == ~IsSwarm(sp) \/ verb = "up"

FirstStep(verb, sp) == IF NeedsFile(verb, sp) THEN "read" ELSE "run"

\* A request resolves the spec: a read goes on to filesFor at once, a job has yet to be started.
Begin(c, verb) ==
    /\ op[c] = NoCommand /\ verb \in Verbs(c)
    /\ LET mine == [at |-> IF c = StackJob THEN "asked" ELSE FirstStep(verb, submitted.spec), verb |-> verb,
                    spec |-> submitted.spec, text |-> submitted.doc, push |-> FALSE, mode |-> "unknown", file |-> "none",
                    alone |-> FALSE, overtaken |-> FALSE]
       IN  op' = [d \in Callers |-> IF d = c THEN mine
                                    ELSE IF op[d] # NoCommand THEN [op[d] EXCEPT !.alone = FALSE] ELSE op[d]]
    /\ UNCHANGED <<submitted, generated, setup, project, edits>>
\* jobs.Start: the stack is taken from here on. A job counts the viewers that overlap it.
StartJob ==
    /\ op[StackJob].at = "asked"
    /\ op' = [op EXCEPT ![StackJob].at = FirstStep(op[StackJob].verb, op[StackJob].spec),
                        ![StackJob].alone = \A v \in Viewers : op[v] = NoCommand]
    /\ UNCHANGED <<submitted, generated, setup, project, edits>>

ReadSource(c) ==
    /\ op[c].at = "read"
    /\ \/ op' = [op EXCEPT ![c].at = "run", ![c].file = "original"]  \* the file cannot be read
       \/ op' = IF submitted.doc.broken THEN [op EXCEPT ![c] = NoCommand]
                ELSE [op EXCEPT ![c].at = "logging", ![c].text = submitted.doc]
    /\ UNCHANGED <<submitted, generated, setup, project, edits>>
DetectLogging(c) ==
    /\ op[c].at = "logging"
    /\ op' = [op EXCEPT ![c].push = setup.loki,
                        ![c].at = IF op[c].text.mentionsRouting THEN "challenge" ELSE "build"]
    /\ UNCHANGED <<submitted, generated, setup, project, edits>>
\* The stored wildcard is read from a file; what Traefik's argv says needs docker to answer.
DetectChallenge(c) ==
    /\ op[c].at = "challenge"
    /\ \E mode \in {setup.mode} \cup (IF setup.mode = "persist" THEN {} ELSE {"unknown"}) :
        op' = [op EXCEPT ![c].mode = mode, ![c].at = "build"]
    /\ UNCHANGED <<submitted, generated, setup, project, edits>>
Build(c) ==
    /\ op[c].at = "build"
    /\ op' = IF RefusesText(op[c].text, op[c].spec) THEN [op EXCEPT ![c] = NoCommand]
             ELSE IF Untouched(op[c].text, op[c].spec) THEN [op EXCEPT ![c].at = "run", ![c].file = "original"]
             ELSE [op EXCEPT ![c].at = "truncate", ![c].file = "generated"]
    /\ UNCHANGED <<submitted, generated, setup, project, edits>>

Mine(c) == Derived(op[c].text, op[c].spec, op[c].push, op[c].mode)
PushesLoki(doc) == \E n \in DOMAIN doc.services : doc.services[n].logging = "loki"
Fails(c) == op' = [op EXCEPT ![c] = NoCommand]
Truncate(c) ==
    /\ op[c].at = "truncate"
    /\ \/ Goto(c, "fill") /\ generated' = [generated EXCEPT !.doc = Empty, !.secret = FALSE]
       \/ Fails(c) /\ UNCHANGED generated
    /\ UNCHANGED <<submitted, setup, project, edits>>
\* Written over what another writer filled in the meantime, a shorter document leaves that one's end.
\* A write that fails has written a part, which may be the one with the password.
Fill(c) ==
    /\ op[c].at = "fill"
    /\ \/ /\ Goto(c, IF op[c].push THEN "chmod" ELSE "run")
          /\ \E doc \in {Mine(c)} \cup (IF generated.doc \in {Empty, Mine(c)} THEN {} ELSE {Torn}) :
                generated' = [generated EXCEPT !.doc = doc, !.secret = PushesLoki(Mine(c)) \/ (doc = Torn /\ @)]
       \/ /\ Fails(c)
          /\ \E secret \in {generated.secret, PushesLoki(Mine(c))} :
                generated' = [generated EXCEPT !.doc = Torn, !.secret = secret, !.cut = TRUE]
    /\ UNCHANGED <<submitted, setup, project, edits>>
Chmod(c) ==
    /\ op[c].at = "chmod"
    /\ \/ Goto(c, "run") /\ generated' = [generated EXCEPT !.closed = TRUE]
       \/ Fails(c) /\ generated' = [generated EXCEPT !.cut = TRUE]
    /\ UNCHANGED <<submitted, setup, project, edits>>

Unreadable == {Torn, Empty}
ReadByDocker(c) ==
    CASE op[c].file = "generated" -> generated.doc
      [] op[c].file = "original" -> submitted.doc
      [] OTHER -> Missing
\* compose up checks the plugin first when the file hands a service to loki; swarm only says so.
PluginRefuses(c) ==
    op[c].verb = "up" /\ ~IsSwarm(op[c].spec) /\ op[c].file = "generated" /\ op[c].push /\ ~setup.plugin
         /\ Unlogged(op[c].text) # {}
RunDocker(c) ==
    /\ op[c].at = "run" /\ op' = [op EXCEPT ![c] = NoCommand]
    /\ project' = IF PluginRefuses(c) \/ ReadByDocker(c) \in Unreadable THEN project
                  ELSE CASE op[c].verb = "up" -> [runs |-> ReadByDocker(c), volumes |-> TRUE]
                         [] op[c].verb = "down" -> [runs |-> Missing, volumes |-> FALSE]
                         [] op[c].verb = "sleep" -> [project EXCEPT !.runs = Missing]
                         [] OTHER -> project
    /\ UNCHANGED <<submitted, generated, setup, edits>>

-----------------------------------------------------------------------------
CONSTANT MaxEdits
\* A replace is refused while the stack has a job; a read does not hold it, and neither does a
\* request whose job is not started yet.
Submit ==
    /\ op[StackJob].at \in {"idle", "asked"} /\ edits < MaxEdits /\ edits' = edits + 1
    /\ submitted' \in Submissions \ {submitted}
    /\ op' = IF op[StackJob] = NoCommand THEN op ELSE [op EXCEPT ![StackJob].overtaken = TRUE]
    /\ UNCHANGED <<generated, setup, project>>
HostMoves ==
    /\ edits < MaxEdits /\ edits' = edits + 1
    /\ \/ setup' = [setup EXCEPT !.loki = ~@]
       \/ setup' = [setup EXCEPT !.plugin = ~@]
       \/ \E mode \in Modes \ {setup.mode} : setup' = [setup EXCEPT !.mode = mode]
    /\ UNCHANGED <<submitted, generated, project, op>>

\* The server dies, in the middle of whatever it was writing.
Crash ==
    /\ \E c \in Callers : op[c] # NoCommand
    /\ op' = [c \in Callers |-> NoCommand]
    /\ generated' = [generated EXCEPT !.cut = @ \/ \E c \in Callers : op[c].at \in {"fill", "chmod"}]
    /\ UNCHANGED <<submitted, setup, project, edits>>

MaterializeNext ==
    \/ StartJob \/ Submit \/ HostMoves \/ Crash
    \/ \E c \in Callers :
        \/ \E verb \in Verbs(c) : Begin(c, verb)
        \/ ReadSource(c) \/ DetectLogging(c) \/ DetectChallenge(c) \/ Build(c)
        \/ Truncate(c) \/ Fill(c) \/ Chmod(c) \/ RunDocker(c)
MaterializeSpec == MaterializeInit /\ [][MaterializeNext]_materializeVars
--------------------------------------------------------------------------------
(* What the derived compose file promises the submitter and the host. *)

MaterializeTypeOK ==
    /\ submitted \in Submissions
    /\ generated.secret \in BOOLEAN /\ generated.closed \in BOOLEAN /\ generated.cut \in BOOLEAN /\ project.volumes \in BOOLEAN
    /\ setup \in [loki : BOOLEAN, plugin : BOOLEAN, mode : Modes]
    /\ \A c \in Callers : op[c] # NoCommand =>
         op[c].verb \in Verbs(c) /\ op[c].push \in BOOLEAN /\ op[c].file \in {"none", "original", "generated"}

\* The documents under way: what each caller is about to write or has written.
Writing == {c \in Callers : op[c].at \in {"truncate", "fill", "chmod"}}
Source(c, n) == op[c].text.services[n]
Result(c, n) == Mine(c).services[n]

\* Labels and logging of one's own are never merged with pstack's (autolabel.go:313-321, 493-494),
\* and no step of the pipeline undoes that for a later one: through augmenting, logging and the
\* conversion to swarm, what the author routed and logged is what the document routes and logs.
OwnIsUntouched ==
    \A c \in Writing : \A n \in DOMAIN Mine(c).services :
        /\ HasTraefik(Source(c, n)) =>
             /\ (Result(c, n).labels \cup Result(c, n).deployLabels) \cap (RouteLabels \cup {"own.rule"})
                  = (Source(c, n).labels \cup Source(c, n).deployLabels) \cap (RouteLabels \cup {"own.rule"})
             /\ Result(c, n).networks = Source(c, n).networks
        /\ Source(c, n).logging = "own" => Result(c, n).logging = "own"

\* Whoever asked for a route has one that this host's Traefik reads: enabled, on the ingress it
\* dials, under the key of its provider and at the one place that provider looks, with a resolver
\* exactly where no certificate covers it already (autolabel.go:274-283, 367-399, 431-444).
RoutedIsServed ==
    \A c \in Writing : \A n \in DOMAIN Mine(c).services : AsksRouting(Source(c, n)) =>
        LET s == Result(c, n)
            seen == IF IsSwarm(op[c].spec) THEN s.deployLabels ELSE s.labels
            other == IF IsSwarm(op[c].spec) THEN s.labels ELSE s.deployLabels
        IN  /\ {"enable", "rule", NetworkKey(op[c].spec)} \subseteq seen /\ other \cap Traefik = {}
            /\ Ingress \in s.networks /\ s.networks \subseteq Mine(c).networks \cup Source(c, n).networks
            /\ ("resolver" \in seen) = ~WildcardMode(op[c].mode)

\* The stack page asks Loki for the services LoggedServices names, without docker: they are those
\* the written document hands to the driver and that run (autolabel.go:552-577, swarm.go:243-258).
LoggedAgrees ==
    \A c \in Writing : op[c].push =>
        LoggedServices(op[c].text, op[c].spec.profiles) =
            {n \in DOMAIN Mine(c).services :
                Result(c, n).logging = "loki" /\ InProfiles(Source(c, n), op[c].spec.profiles)}

\* The file with the push password is world-readable only while the caller that just wrote it is on
\* its way to the chmod, whoever else rewrites it with logging on or off, or after a write or a chmod
\* that failed or was cut off; and no command that pushes goes on to docker over an open file, not
\* even the next one after such a fault (autolabel.go:701-711).
PasswordIsClosed ==
    /\ generated.secret /\ ~generated.closed => generated.cut \/ \E c \in Callers : op[c].at = "chmod"
    /\ \A c \in Callers : op[c].at = "run" /\ op[c].file = "generated" /\ op[c].push => generated.closed

\* A job nobody read beside brings up exactly the derivation of the text that is submitted, whatever
\* stale, torn or overwritten file an earlier command left (compose.go:55-78); the spec it is derived
\* with is that text's own, unless a PUT came between the request and the start of its job
\* (routes_deploy.go:464).
AloneIsExact ==
    [][\A c \in {StackJob} : RunDocker(c) /\ op[c].verb = "up" /\ op[c].alone /\ project' # project =>
          /\ project'.runs \in {submitted.doc, Derived(submitted.doc, op[c].spec, op[c].push, op[c].mode)}
          /\ op[c].file = "generated" => project'.runs = Mine(c)
          /\ op[c].spec = submitted.spec \/ op[c].overtaken]_materializeVars

\* Meant by the chmod, and refuted when the write or the chmod fails: the password is never left in
\* a file that the world can read (autolabel.go:704-706).
PasswordIsNeverLeft == generated.secret /\ ~generated.closed => \E c \in Callers : op[c].at = "chmod"

\* Claimed, and refuted when a slow read of the logs writes its older derivation into the file:
\* an `up` runs what was submitted (autolabel.go:612-614, compose.go:59-61).
UpRunsWhatWasSubmitted ==
    [][RunDocker(StackJob) /\ op[StackJob].verb = "up" /\ project' # project =>
          project'.runs \in {submitted.doc, Mine(StackJob)}]_materializeVars

MaterializeSafety == [](OwnIsUntouched /\ RoutedIsServed /\ LoggedAgrees /\ PasswordIsClosed) /\ AloneIsExact
================================================================================
