# pstack in TLA+

A verification project for the Go control plane of preview-stacks, the server in
`src/packages/pstack/internal`. TLC checks the models below on small instances; TLAPS
proves the theorems for every value of the constants. Paths are relative to
`src/packages/pstack/internal` unless they start with `src/`.

## 1. The system

`pstack serve` is one Go process per host. It keeps *deployments* (a spec, a compose file
and variables under an id), resolves each to a *stack* (a compose project or swarm stack
plus *axes*: databases, queues and other things created by shell hooks), and runs *jobs*
that bring stacks up, put them to sleep, wake them and tear them down. Its state is files
per deployment, one SQLite database, and what the process keeps in memory.

| Component | State it keeps | Operations | What makes it correct |
|---|---|---|---|
| job registry (`jobs/`) | jobs, one waiting and one running job per stack, holds, a counter and its cap | StartFor, StartIfIdle, Cancel, CancelStack, Hold, SetMaxRunning, dispatch, end, eviction | one worker per stack, no lost wake-up, bounds |
| job streams (`api/sse.go`, `log/`) | a buffer and subscribers per job | replay, subscribe, end | every line, in order, then the end |
| stack lifecycle (`stack/`, `exec/`) | none: containers and axes live outside | Up, Down, Sleep, Verify | fail fast going up, reverse and best effort going down, leaks reported |
| deployments (`registry/`, `api/routes_deploy.go`) | `spec.yml`, `meta.json`, `writeMu` | PUT, DELETE, lifecycle posts | a record names the stack its containers are on, is not swapped under a job nor removed before its containers |
| sleep and wake (`api/server.go`, `scheduler/`) | the sleep record, `waking` entries, the hostname index | the body of every lifecycle job, reindex, wakeFor, sweeps, timer | a sleeper's hostname wakes it; a torn-down stack is neither asleep nor waking |
| readiness (`readiness/`) | a watch per stack: goroutine, snapshot, waiters | Start, Cancel, Wait, tick, settle | every watch ends once, with an earned verdict, in one voice |
| inspect (`inspect/`) | none | up to seven docker commands made into a page | nothing invented, nothing lost while things change |
| specs (`spec/`) | none | parse, interpolate, resolve subdomains | what is accepted is a stack the rest can run on |
| compose file (`autolabel/`, `swarm/`, `compose/`) | `compose.generated.yml`, shared by all verbs | derive, write, run | one's own labels untouched, routes reachable, the push password closed |
| custom routes (`api/routes_customroutes.go`, `routing/`) | a table and `pstack-routes.yml` | create, assign, drop, render, boot | a host has one router; a deployment comes first |
| watched directory (`routing/`) | certificate, key and pointer; the domains file | put, delete, boot | the pointer never names what is not there |
| signals, pressure (`signals/`, `nodestats/`, `api/pressure.go`, `api/prune.go`) | clocks, sent edges, node samples, the prune lock | ticks, polls, refusals, prune, drain, remove | an edge once, a margin between two, silence changes nothing |
| notify, webhooks (`notify/`, `webhooks/`, `events/`) | a queue per notifier, deliveries in SQLite | emit, deliver, retry, prune, restart | bounded queues, one in flight per notifier, nothing vanishes |
| loki apply (`api/loki_apply.go`, `loki/`) | the settings row, two files, saves that wait | save, apply, undo, resume | no period in use is dropped; a crash leaves a record |
| accounts (`auth/`, `api/principal.go`, `api/permissions.go`, `share/`) | users, sessions, tokens, links | sign in, role and password changes, the gate | an administrator remains; nobody does what they may not |
| single sign-on (`sso/`) | providers, one-use states, two caches | start, callback, provision, discover, fetch keys | one account per identity; rules fail closed; rotations heal |
| config (`config/`) | none: reads and writes the others' state | assemble, seal, unseal, apply | an import replaces nothing that was there |
| init and upgrade (`initctl/`, `upgrade/`, `cli/`) | generated files, networks, containers | init, upgrade, ui, logging | nothing reverted silently; a token stays |
| registries (`registries/`) | docker's `config.json` | put, remove | a request changes its own entry |
| settings, host variables, wrappers of docker, CLI, web | values, or none | | see section 7 |

How they meet: a route resolves a deployment and either takes a *hold* of its stack or
starts a job. The job runs `stack.Up/Down/Sleep`, then starts or cancels the readiness
watch, changes the sleep record and rebuilds the hostname index. The catch-all handler asks
that index for each request and may start a wake; the scheduler and the pressure sweep may
start a sleep. Jobs, watches and sweeps emit events on the bus, which notify and webhooks
deliver. There is a goroutine per request, per running job, per watch and per timer, and
they share `Registry.mu`, `writeMu`, `wakeMu`, the database and the files.

What is hard here, and what the properties aim at: critical sections that end before the
work they announce is done; values read before a job is accepted and used after; a lock that
some writers and no readers take; files that are written one after the other by a process
that may die; one temporary name for all requests; docker commands between which everything
moves, and answers that do not come. PROJECT.json "hazards" has each at its line.

## 2. The modules

A module has the state, one action per critical section, command or file, and at its end
(or in `XProps`) what is claimed; `XProofs` has the proofs and `MCX` what TLC needs. A
definition named `X_How` just before `X` is what a plausible mistake in `X` would look like:
no action uses it; it exists so that each property is known to be breakable by a mistake in
the code. Strings stand for the code's own words; names, texts and payloads are model values.

**Jobs, StackLock** (`JobsProps`, `JobsProofs`). A job is its sequence number. `queue` and
`live` are the maps of the same name, `held` the holds, `kept` the records not evicted; `pc`
is where a job's goroutine is, `callers` and `owed` are goroutines that have left the lock
and are still to pump. One action is one critical section under `mu`; what the code does
after unlocking is a later action. `StackLock` is the abstract specification (a stack is
free, belongs to a dispatched job, or is held), which `Jobs` implements under the mapping in
`JobsProps`.

**JobStream** (`JobsProofs`) is one job as its watchers see it: a line enters the buffer under
the buffer's lock and is fanned out after it, a viewer replays and subscribes, `__end__` follows.

**Deployments** (`DeploymentsProps`; proofs in `StackProofs`). `spec[d]` is `spec.yml`, `vars[d]`
the stored variable; `Resolve(text, value)` is the stack `spec.Load` finds, or a rejection. What a
request brings for itself, the `env` of a PUT or the query of any other, goes over the stored
variables and is kept nowhere; `brought[d]`, which no step reads, remembers it for the properties.
A job runs in the deployment's directory and fails without it. `writeMu` is taken by the writers only. The registry is `INSTANCE StackLock`, so what is
shown here rests on what is shown of `Jobs`. StackLock lets a deploy take the place of a
waiting teardown, which `Jobs` refuses: the model allows more than the code there, and no
counterexample below uses it.

**SleepWake** (`SleepWakeProps`, `SleepWakeProofs`). `record[d]` is the sleep record
(`barren` is one without hostnames), `waking[d]` the entry under `wakeMu`, `index` the
published mapping, `view[p]` what a rebuild has gathered, `watch[d]` what readiness says. A
job goes through the steps of `startLifecycle`, a request through those of `wakeFor`, a
sweep and a route through theirs; `reindex` is three steps. `Flaky` says whether docker may
fail to answer. The refresh timer's `refresher` is a process of its own.

**SpecFile** (theorem in `StackProofs`) is `spec.Parse` as a function: the environment entry by
entry, the references a text has, the wildcards of subdomains, durations, requirements and axes,
and all that is refused. A text is a sequence of words and references, so that what tells names,
slugs, variables and durations apart is there and the characters are not. `Resolved` is what an
operation of Lifecycle walks over; the stacks of its run are parsed by it.

**Lifecycle** (`StackProofs`) walks one operation over requirements and axes whose hooks
may do or not do what they report, under compose or swarm, shared or not, with dry runs, a
cancel between any two commands, and a death that leaves the world as it is.

**Readiness** (`StackProofs`): the watcher's mutex, which `Start` keeps while it waits
for the goroutine of the watch it replaces, the snapshot of each watch, its waiters, and
callers that deploy, cancel, read and wait.

**LokiApply** (`LokiProofs`): the row and what it replaced, the two files, which of them Loki has not read,
the running job at its `pc`, saves that wait, a calendar, stops and restarts of pstack. A save of the
row and the start of its job are two steps, and another save may come between them.

**Delivery** (`DeliveryProofs`): emitters that call the listeners inline, a queue per notifier
with a cap, slots, attempts and retries, the log with ids that SQLite gives again, removal, test
and redelivery, a restart. A pump starts the head of the oldest queue: `ahead[n]` are the queues
that exist since before that of `n`. `sharing` are deliveries whose row has an id that was given
to another row since, which is what PendingIsUnderWay excepts.

**Accounts**, **SignIn** (`AccessProofs` for both), **SsoClient** (proofs in `DeliveryProofs`), **FrontDoor** (`SleepWakeProofs`): transactions
over users, sessions, tokens and links, with the hash or the round trip between reading and
writing; the two caches of an identity provider that moves and rotates; and what a request
meets before its handler (surface, principal, permission table, share links, the Grafana round
trip).

**CustomRoutes** and **RoutingFiles** (`HostProofs`): the table with the rendering that settles collisions,
with PUTs that are rolled back and leave it unrendered; and the watched directory file by file, temporary
names included, with writes that fail and crashes between any two of them.

**ControlPlane** (`ControlPlaneProps`; proofs in `UpkeepProofs`): init, upgrade, ui and logging as the commands and files
they are made of, each of which may be the last one, a docker command that fails or a file that is torn.

**NodeStats** (`UpkeepProofs`) and **Signals** (`HostProofs`): the stats tick from the agents' batches to pressure, prune and
sleep, with ages instead of times; the look at the swarm as four questions of which one may
go unanswered, its clocks, ticker, pollers and node actions, and tasks that a node which is down keeps
until swarm moves them.

**ConfigTravel**, **Materialize**, **Registries** (`HostProofs` for the three), **Inspect** (`InspectProps`; proofs in `UpkeepProofs`): an export
sealed, opened and applied entry by entry, with faults that end an import and faults that skip an
entry; a page read while its stack changes; the derived compose file with the job and the readers
that rewrite it, writes that are cut short and a spec that was resolved before its job started;
`config.json` down to inodes, as two requests share one temporary name.

Four suites put parts side by side that share no state: **MCWork** (Jobs, JobStream,
Lifecycle, LokiApply, Readiness; its assumptions check SpecFile), **MCServing** (SleepWake with the timer, Delivery, Accounts,
SignIn), **MCHost** (Deployments, CustomRoutes, RoutingFiles, ControlPlane, NodeStats, Signals,
ConfigTravel, Inspect, Materialize, Registries) and **MCDoors** (SleepWake, SsoClient,
FrontDoor). `part` is chosen at the start and says whose steps a behaviour takes; an invariant
or action property of one part is that of its own specification. What a suite adds is only
that one run of TLC covers them.

## 3. The runs

| Run | Instance | Shows |
|---|---|---|
| `jobs` | 2 stacks, 1 slot that may become 2, 3 jobs that are deploys or teardowns, a hold | holds are quiet, cancels agree with records, a superseded job never ran, slots are counted and capped, no wake-up is lost, and `Jobs` implements `StackLock` |
| `doors` | *sleep*: 1 deployment, 2 visitors, a sweep, the timer, an operator, docker may not answer; *documents* and *keys*: 2 requests, 3 forms of a provider, 2 documents and 2 keys, 1 move; *door*: 2 users and browsers, 9 requests, among them a password change and an account created by a personal token | a waking deployment is watched, a teardown leaves it neither asleep nor waking, machines displace nothing; what was saved of a provider reads back, tokens go nowhere else, rotations heal and lapse; who acts may, links are narrow, who enters Grafana is signed in |
| `work` | *jobs*: 1 stack, 3 jobs, 1 transcript kept; *stream*: 1 viewer, 1 canceller; *lifecycle*: stacks of one to three axes; *loki*: 2 saves, 1 stop, 1 mishap; *watch*: 2 watches, a job, a reader, a loop of restarts | the transcripts kept are bounded and final, streams are whole, operations, watches and applies keep to what section 2 says, and all of it ends |
| `serving` | *wake*: a visitor, a sweep, the timer; *deliver*: 2 notifiers, a queue of 1, 1 slot, 1 retry; *accounts*: 2 names, 5 calls; *signin*: 3 states, 2 accounts, providers that fence or do not | the index converges whatever rebuilds overwrite each other; deliveries are in order, bounded and logged, and queues drain; accounts and sign-in as below |
| `host` | the ten parts of MCHost, each with one or two of what it has and one or two faults | records resolve, are not swapped under a job, and are forgotten only when down; routes, files, control plane, stats, signals, imports, pages, compose files and credentials keep what their modules say |
| `sleep_hosts`, `deploy_replace`, `deploy_orphans`, `loki_putback`, `signals_silence`, `registries`, `own_init` | the smallest instance that shows it | *refuted*, see section 4 |

The properties that are conjunctions: `LifecycleSafety` (clean means gone, what is left is
reported, provisioned means live, effects wait for the requirements, teardown reverses, only a
down destroys, the shared singleton stands, a cancel stops); `ReadinessSafety` (said once,
earned, one voice, nobody left waiting); `StreamSafety` (lines in order, the end not missed,
true and whole); `LokiSafety` (an unfinished apply is recorded, saves are carried, only late
put-backs drop a period, a config lands with its credentials); `DeliverySafety` (one at a time,
freed slots used, nothing vanishes, order kept, pending is under way, retries stop);
`AccountsSafety` and `SignInSafety` (owners, an administrator remains, no old credential;
states used once, one account per identity and the same for good, rules fail closed, no
inherited admin, only a verified address adopts); `SsoSafety`, `FrontDoorSafety`, `RoutesSafety`,
`FilesSafety`, `ControlSafety`, `StatsSafety`, `SignalsSafety`, `ConfigSafety`, `PageSafety`,
`MaterializeSafety` likewise: each conjunct is a definition with the lines it is about.

**Bounds.** Every counter named `Max...` is a bound of the model, not of the code, except
`MaxJobs`, `MaxQueuedPerNotifier`, `MaxInFlight`, `MaxDeliveriesPerNotifier`, whose values are
the code's in kind and small here. Three jobs let one run, one wait and one supersede it. Two
stacks share the slot; what concerns one stack is checked on one. Requests loop, so only how
many there are at once is bounded: a stale read needs one to read and one to change what was
read. One fault or death per behaviour reaches every point where it may fall, and a second one
where one leaves a half-made state (routes have two). Ages stop where nothing depends on them.
In `host` the bounds of a part are definitions of MCHost. Deployments: requests, the variables they
bring and jobs are three at most, and two requests beside a job are PUTs or DELETEs (`AtMostThree`).
Pressure: while images are pruned no stack is at work, and a job for it is made, waited for and
removed between two ticks (`OneAtWork`). Signals: two act at a time, two moves are made, one where docker
was silent, and four where managers alone are at work before anything was said (`TwoAtATime`). Imports:
two that overlap are in the same section or the next (`SameStretch`). Compose file: a write is cut short
or something is edited, and not both, and beside a read it is the text or Loki (`OneUpset`). What these
leave out the theorems of section 5 have, which are about the specifications without them; a reader who
changes a module can widen a bound and run one part alone. `FirstFree`, `FirstManager` and `FirstImport`
only name actors that nothing tells apart. `loki` has one stop and one mishap in `work`; what three interruptions can do is the subject of
`loki_putback` and of the theorem, whose invariant was checked with three of each.

**Narrowed.** `jobs` explores behaviours whose jobs preempt each other and behaviours whose cap
moves, not those with both (`NarrowSpec`). `doors` explores machines without operators, or
operators with one visitor at a time and none under way when a sleep is posted, who deploy or
tear down (`MCSleepWake`); of a provider either the documents or the keys are raced for
(`FarFromKeys`, `NearKeys`); and where somebody signs in to Grafana no link is minted and one
request is made (`NotBoth`). The theorems about Jobs, SleepWake,
SsoClient and FrontDoor are about the unnarrowed specifications.

**Specs.** The assumptions of MCWork evaluate `Parse` on some 2700 specs under two environments,
with and without host variables: what is accepted is sound (`SoundSpec`), two pull requests of one
spec are two stacks, a domain the spec declares is not the server's, a reference that stands for
nothing is refused, durations add up. Each of these fails when the corresponding check of
`Parse` is taken out.

Symmetry permutes the stacks of `jobs` and the requests of `doors` that nothing tells apart, and is not
used with liveness.

**Deadlock** is off in the five passing runs and progress is stated as properties instead: in
the suites a part whose bounds are used up rests while nobody else moves, and so does `jobs`.

**Fairness.** `WorkEnds`, `IndexConverges` and `QueuesDrain` are the liveness properties. They
assume weak fairness of what the code starts as a goroutine and does not make wait for good: a
job's steps and its pump, a running operation's next hook, a watch's loop and its clock, an
apply's next step and the reconcile at boot, a viewer's next frame, a delivery, an emitter, the
timer. Nobody owes a visit, a save, a post, a cancel or a stop. `WorkFairness` and
`ServingFairness` state conditions of several parts as one (of either): only one part of a
behaviour takes steps, so the disjunction is enabled exactly when that part's condition is.

## 4. What the code does not do

Seven statements of comments or guides are refuted, each by a run (PROJECT.json "findings" has
the lines):

- *A sleeping deployment is woken by its hostnames*: a second sleep accepted while the first runs
  overwrites the record with one without hostnames (`sleep_hosts`).
- *A rejected replacement does not delete the record*: `registry.Put` loads again with the stored
  variables after it has overwritten the text, and rolls back by removing all (`deploy_replace`).
- *Removing a record under running containers would orphan them, and the API prevents it*: a DELETE
  with a variable in its query holds and inspects the stack which that variable names, and removes
  the record of another, which runs (`deploy_orphans`).
- *Every loaded period stays*: after a new S3 period was loaded, an undo cut off half way dates the
  credentials after Loki's start; a later resume takes the files for never loaded and puts the old
  ones back, past the period's day (`loki_putback`).
- *A docker that does not answer changes nothing*: true of `docker info` only (`signals_silence`).
- *config.json is written atomically and needs no lock*: the temporary name has the process id
  and not the request, and one request renames what another has just truncated (`registries`).
- *upgrade never trips the guard of the init it runs*: going back from the advanced UI does
  (`own_init`).

More statements are kept as definitions next to the properties, with the words they are taken
from; each was refuted by a run of its own while the models were written, and none has a run
here: `EndedBeforeStarted` (a job's end is announced before the next start), `DoneIsNeverRunning`,
`CancelTellsTheTruth`, `ReadersStopNoDeploy`, `PendingIsAlwaysFound`, `SessionsFollowPassword`,
`BootstrapsOnce`, `AssignAndRenderAgree`, `BootHeals`, `WildcardCovers`, `WatcherSeesWholeFiles`,
`OverridesArrive`, `NoSpecIsStuck`, `SeedIsAwaited`, `EmptyIsTrue`, `NoFalseAlarm`,
`UpRunsWhatWasSubmitted`, `SaveAgainHelps`, and:

- `KeyIsSwept`: "Every call sweeps both halves" (`routing/wildcard.go:231`); the temporary file of a key
  is not one of them, and a death between its write and its rename leaves it.
- `AskedBefore` (`initctl/init.go:1294`): whether a network is in use is asked before the control stack
  goes down, and a preview may attach between; and `HalfIsRefused` (`upgrade/upgrade.go:138`): an
  upgrade may start from a compose file that was cut short.
- `ForgottenIsEmpty`: a node that is removed has no tasks. Removal asks for a node that is down and
  drained, and docker may still list its tasks (`api/routes_signals.go:241-242`).
- `PasswordIsNeverLeft`: the push password is not left in a file the world may read
  (`autolabel/autolabel.go:704-706`); a write or a chmod that fails leaves it there. No command that
  pushes reaches docker over such a file, which is what `PasswordIsClosed` says.

A save of Loki's settings is "carried, never lost" (`api/loki_apply.go:48-49`) only as long as the job of
the newer one starts last: when the job of an older save is started after it, the newer waits for the
next save or start, and `LokiSafety` says no more than that.

What holds and is narrower than one would say: with three interruptions a Loki configuration can
settle on files whose credentials are not the row's (`UnfinishedIsRecorded` has the exception). A PUT
that is rolled back removes the record and renders no routes: until the next rendering the file goes
on routing to what is gone (`RoutesSafety` has the exception). A prune asks docker to remove every job
it made, and looks at no answer (`RemovalIsAsked`). An import that cannot write a registry or a
routing file goes on, is answered done, and names what it skipped (`DoneIsThere`).

## 5. What is proved

All of this is for every value of the constants that the named assumptions of the modules admit.
These (`ConstantsAssumption`, `StreamAssumption`, `SleepWakeAssumption`, `DeploymentsAssumption`,
`StacksAssumption`, `ReadinessAssumption`, `DeliveryAssumption`, `AccountsAssumption`,
`SignInAssumption`, `LokiAssumption`, `RoutingFilesAssumption`, `RegistriesAssumption`,
`SignalsAssumption`, `ControlPlaneAssumption`, `NodeStatsAssumption`, `ConfigAssumption`,
`MaterializeAssumption`, `FrontDoorAssumption`, `SpecAssumption`, `InspectAssumption`,
`SsoAssumption`) state shapes: bounds are naturals, a name is not also another kind of name (an id
of docker is of a service or of a task), a form has the fields a form has, an action is one the
code has. None says anything about behaviour; TLC evaluates each in the run of its module.

Each proof has the same course: an invariant that is inductive, checked by TLC first; it holds
initially; each action has a lemma that it keeps it; the properties follow from it. Action
properties follow from the invariant and the step. PROJECT.json "theorems" lists the results.

| Module | Theorem | States |
|---|---|---|
| `JobsProofs` | `HoldsAreQuiet`, `CancelsAgree`, `TeardownsStand`, `SlotsCounted`, `CapHolds`, `WakeupsAreNotLost` | the properties of `jobs` |
| | `RegistryImplementsLock` | `Jobs!Spec => StackLock!Spec`: every action is one of StackLock or a stutter |
| | `StacksExclusive`, `RecordsAreKept`, `FinishedIsForever` | two goroutines never work for one stack; `RegistryKeeps` |
| | `StreamsAreWhole` | `StreamSafety` |
| `SleepWakeProofs` | `WakingHasAWatch`, `TeardownsClear`, `MachinesWaitTheirTurn` | the three properties of SleepWake in `doors` |
| | `TheDoorIsSafe` | `FrontDoorSafety` |
| `StackProofs` | `StoredAlwaysResolves`, `ForgottenStaysDown`, `ReplacedWhenQuiet` | the three of Deployments in `host` |
| | `OperationsAreSafe`, `WatchesAreSafe` | `LifecycleSafety`, `ReadinessSafety` |
| | `ParsedStacksAreSound` | what `Parse` accepts is `SoundSpec` and resolves to a stack of Lifecycle |
| `DeliveryProofs` | `DeliveriesAreSafe`, `SsoIsSafe` | `DeliverySafety`, `SsoSafety` |
| `AccessProofs` | `AccountsAreSafe`, `SignInIsSafe` | `AccountsSafety`, `SignInSafety` |
| `LokiProofs` | `LokiIsSafe` | `LokiSafety` |
| `HostProofs` | `FilesAreSafe`, `SignalsAreSafe`, `AloneKeepsOthers` | `FilesSafety`, `SignalsSafety`, `AloneKeeps` |
| | `ConfigTravelsSafely`, `DerivationIsSafe` | `ConfigSafety`, `MaterializeSafety` |
| `UpkeepProofs` | `ControlIsSafe`, `StatsAreSafe`, `PagesAreTrue` | `ControlSafety`, `StatsSafety`, `PageSafety` |

Each component also has its theorem of types (`TypeCorrect`, `StreamTypeCorrect`, ...).

The invariants, and what they have to know that the properties do not say:

- *Jobs*: `Ownership`. That two goroutines do not share a stack is not inductive: `live` points at
  exactly the jobs whose goroutines occupy a stack (`LivePoints`), `queue` at exactly those that
  wait (`QueuePoints`), and a job's state follows from where its goroutine is (`PhaseAgrees`);
  each action then disturbs one stack. `CancelMarks` and `NotStarted` carry what a record says of
  how its job ended; `ActiveKept` that eviction spares what is not over.
- *JobStream*: `Flow`. What a stream has sent and what waits in its queue are the lines up to the
  one that the fan-out has brought it, shifted by the one line (or none) that came twice; `Course`
  ties the frame that is under way to the phase of the job.
- *SleepWake*: `WakingIsUp` and `StillWatched` say in which steps of a teardown a waking entry may
  be without containers or without a watch, `Cleaned` and `Brought` what a job has done so far.
- *Deployments*: what a request has read at each of its steps (`RequestsNamed`), that one request
  alone owns the files of a record being written and all others are whole (`WriterAlone`), and
  that a hold has one owner and shuts jobs out (`HoldersAlone`). No theorem assumes anything of what
  requests bring: `ForgottenStaysDown` and `ReplacedWhenQuiet` speak of the stack that the request or the
  teardown named, which is the record's own unless its variables or a submission in between say
  otherwise.
- *Lifecycle*: what an up and a down have shown of the axes they are past (`UpSoFar`, `DownSoFar`,
  `GateSoFar`), and that the shared singleton is only reached where it may be (`Allowed`).
- *Readiness*: `Voices`. A watch that lives is the one its stack names, or it is stopped and
  somebody waits for it; and `VerdictOf`, which carries a verdict from the look that earned it.
- *Delivery*: `Lined`, `Newer`, `Started`, `Alone` and `LastAttempt`: queues that wait have those
  before them; what a sender still holds is newer than what waits; a delivery that started is in
  the log; nobody else is about to end the row of a delivery; no attempt follows the last.
- *Accounts*, *SignIn*: what a call carries from its read to its write (`Carries`, `HasChecked`),
  and that a state which waits is taken by nobody (`StatesWait`).
- *LokiApply*: `PassSoFar` says of each step of an apply what it has in hand, `Between` what files
  an unfinished row may have, `HalfBack` and `Touched` how many interruptions it takes to get
  the files apart.
- *RoutingFiles*, *Registries*, *Signals*: what a put has written so far and what a delete has
  swept (`WrittenSoFar`, `SweptSoFar`); that the file and the temporary name never share an inode
  (`NamesApart`) and what a call nobody overlaps has stored (`AloneSoFar`); that what listeners
  were told and what is held differ by exactly what is about to be said (`ToldSoFar`).
- *ControlPlane*, *NodeStats*: what a command found, what the guard let pass and what it has
  written (`Asked`, `Written`), and that the token of the running stack is the one the next file
  will have (`TokenIsHeld`); what was said of a node with the reading it was said of (`SaidIsSo`),
  and that a prune takes one turn of each node (`OneByOne`).

- *ConfigTravel*: `Settled`, `Passed`. Each entry of the export that an import is past is kept as it
  was here, cannot be used, or is an orphan; `HereIsKept` and `ComesFromOthers` say that what it
  found is as it was, and that what is new since it looked was put there by another import.
- *Materialize*: `JobAlone` and `LateClosing`. Whatever readers derive beside it, the job runs the
  derivation of the text on the disk, under the spec its request resolved, and a file with the push
  password stands open only while somebody is about to close it, or after a write or a chmod that was
  cut short (`Settles`, `LateClosing`). What the derivation does to a service, label by label, are lemmas of
  their own, for any document: `OwnStays`, `RouteIsThere`, `LogsAreNamed`.
- *FrontDoor*: `OnItsWay`. A call that has passed the gate was watched there: it came as a user
  whose role allowed it, or by a link that opened what it asks for. `Seated` ties a session that
  lives to an account that is there, `OwnCookies` and `OwnCodes` a cookie of Grafana and a code to
  the browser whose session they are, `LinksInTime` what is left of a link to what it was given.
- *SsoClient*: `CachedKeys`, `CachedDoc`, `Asked`. How long ago the provider showed a key, dropped one
  or left a document is tied to the age of whatever still says otherwise, in the caches and in each
  request: what is cached is a request's timeout older than its age says at most, for it is dated
  when it arrives. That a config reads back is a lemma about `ParseConfig` (`Rereads`: parsing what
  it made makes the same), for every form. `SsoIsSafe` has the hypothesis `HomeForms`, that no form
  moves a provider to a site of its own and types an emails or groups endpoint elsewhere: the
  code takes what is typed, and what `TokensStayHome` speaks of is what it adds by itself.
- *Inspect*: `Answers`, `Course`, `Published`. What a read has in hand was so when it was asked, by a
  command the orchestrator has, and completions are only ever added; so a page that is made
  of it, at whatever step it stops for want of an answer, has no row that was not there.
- *SpecFile* needs no invariant. What an interpolated text says is a recursive definition and its
  value is not reasoned about; the theorem follows from what `Parse` asks of it.

Four attempts failed for a good reason and changed what is stated:

- `LokiSafety` said that files unlike the row are always recorded. With three interruptions the
  credentials may stay aside: the property names the exception, and `loki_putback` is the run
  that shows the loss of a period.
- `FlapsTakeAMargin` spoke of any two edges of a node. When the limits change between them a node
  may flap without a margin, so it speaks of edges under the same limits.
- `PendingIsUnderWay` said that the row of a delivery is there and pending while it is under way,
  which is what the comment of `Prune` promises (`webhooks/webhooks.go:403-406`). Ids of deleted
  rows are given again: with two notifiers a row of one may carry an id that a delivery of the other
  still holds, and is ended by it. TLC shows it with `PendingIsAlwaysFound`.
- `RetriesStop` excepted the attempts that follow any later registration, which excepted almost
  all of them. It is now stated of an id until that id is given to another notifier: after a removal
  one attempt at most, the one that was about to be made.

**Only model-checked.**

- Liveness: `WorkEnds`, `IndexConverges`, `QueuesDrain`. Fairness and ENABLED are out of the
  prover's reach.
- `RoutesSafety`: the rendering of custom routes is a fold over the table, and what a recursive
  definition computes needs induction over data, which none of the provers can do.
- `DoorsTypes`, `WorkTypes`, `ServingTypes`, `HostTypes` are conjunctions of types of the parts, most
  of which are proved one by one.

## 6. What is left

1. A refinement of the watch of SleepWake by Readiness, and of the waking entry by an abstract one
   that is asleep, waking or up.
2. `Delivery` against a log of attempts as its abstract specification.
3. The boot and shutdown of the server, once modelled, against the crash points of Deployments,
   LokiApply and ControlPlane together.

## 7. Not modelled

Settings and host variables are values that the modules have as constants. `exec/` and `image/` are
the docker command line: the modules have what a command does to the host, and that it may fail or not
answer. The store and its migrations are transactions, each one action. `jsonx`, `omap`, `yamlx`, `js`,
`redact`, `terminal` and `version` are conversions without state. The command line, its HTTP clients,
`cloudinit`, the web interfaces, the documentation site, the conformance suite and the client packages
have no state of the system. Of `server.go`, the static handler, the wake page and the traffic meter are
left out (its first line of counters is only a baseline); of the routes, those that only read, and the
shape of answers. Where a module leaves out a part of its component, PROJECT.json "components" says which.
