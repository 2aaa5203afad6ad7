------------------------------ MODULE Lifecycle ------------------------------
(***************************************************************************)
(* One stack brought up, put to sleep, verified and torn down:             *)
(* stack/stack.go over exec/exec.go and compose/compose.go.  The job       *)
(* registry runs one operation of a stack at a time; the process may die   *)
(* in the middle of one.                                                   *)
(*                                                                         *)
(* Hooks are other people's programs.  What they may do is below, under    *)
(* "the outside"; their output, its wording and the environment they get   *)
(* are left out, but for the fact that an up hook hands its outputs on.    *)
(***************************************************************************)
EXTENDS Integers, Sequences

CONSTANT Stacks   \* resolved specs, see StackType

Hooks == {"up", "assert_live", "down", "assert_gone"}

\* `requires` is how many requirements there are, `axes` the hooks of each axis.
StackType ==
    [requires : Nat, axes : Seq(SUBSET Hooks), compose : BOOLEAN,
     swarm : BOOLEAN, logged : BOOLEAN, shared : BOOLEAN]

ASSUME StacksAssumption == Stacks \subseteq StackType

VARIABLES
    st,        \* the spec
    exists,    \* axes whose resource exists
    project,   \* the containers of the project are there
    volumes,   \* and its volumes
    op,        \* the operation that runs: its verb, options and runner
    stage,        \* its next hook: a phase and an index
    steps,     \* the results so far
    outputs,   \* axes whose outputs have been captured
    cancelled  \* the context of the job is done

world == <<exists, project, volumes>>
lifecycleVars == <<st, exists, project, volumes, op, stage, steps, outputs, cancelled>>

Axes == 1 .. Len(st.axes)
Has(a, hook) == hook \in st.axes[a]

AtStage(phase, i) == [phase |-> phase, i |-> i]
Op(verb, force, verify, dry) ==
    [verb |-> verb, force |-> force, verify |-> verify, dry |-> dry]
NoOp == Op("none", FALSE, FALSE, FALSE)

Ended == stage.phase = "ended"

\* The outcome of what has ended, and whether it says that something leaked.
OK == \A k \in DOMAIN steps : steps[k].ok
Leaked == \E k \in DOMAIN steps : steps[k].phase = "assert_gone" /\ ~steps[k].ok

-----------------------------------------------------------------------------
(* The runner.  A cancelled context refuses every command, a dry run runs   *)
(* none and says OK; otherwise the command does what it does.               *)

Refused == [ok |-> FALSE, skipped |-> FALSE]
NotRun == [ok |-> TRUE, skipped |-> TRUE]
Answer(ok) == [ok |-> ok, skipped |-> FALSE]

Runs == ~cancelled /\ ~op.dry
Unrun == IF cancelled THEN Refused ELSE NotRun

Result(phase, a, res) == [phase |-> phase, axis |-> a, ok |-> res.ok, skipped |-> res.skipped]
RecordAxis(phase, a, res) == steps' = Append(steps, Result(phase, a, res))

\* Recorded and never fatal.
Tolerated(res) == [res EXCEPT !.ok = TRUE]

-----------------------------------------------------------------------------
(* The outside.  An up hook may exit 0 having made nothing, or fail having  *)
(* made it; a down hook likewise.  assert_live and assert_gone do not lie,  *)
(* but may fail for reasons of their own.                                   *)

UpHook(a, ok) == exists' \in {exists, exists \cup {a}}
DownHook(a, ok) == exists' \in {exists, exists \ {a}}
LiveAnswers(a) == IF a \in exists THEN BOOLEAN ELSE {FALSE}
GoneAnswers(a) == IF a \in exists THEN {FALSE} ELSE BOOLEAN

-----------------------------------------------------------------------------
(* Which hook comes next.                                                   *)

\* Where a loop continues, and where it goes when it is over.
Following(p) ==
    CASE p.phase = "up"   -> AtStage("assert_live", p.i)
      [] p.phase = "down" -> AtStage("down", p.i - 1)
      [] p.phase = "assert_live" -> AtStage("up", p.i + 1)
      [] OTHER -> AtStage(p.phase, p.i + 1)

LoopDone(p) == IF p.phase = "requires" THEN p.i > st.requires ELSE p.i \notin Axes

AfterLoop(p) ==
    CASE p.phase = "requires" -> AtStage("up", 1)
      [] p.phase = "up"       -> IF st.compose THEN AtStage("compose", 0) ELSE AtStage("ended", 0)
      [] p.phase = "down"     -> IF op.verify THEN AtStage("assert_gone", 1) ELSE AtStage("ended", 0)
      [] OTHER                -> AtStage("ended", 0)

Loops == {"requires", "up", "assert_live", "down", "assert_gone"}

\* A loop ends, or an axis without the hook is passed over.  Verify passes none over.
Skip ==
    /\ stage.phase \in Loops
    /\ \/ LoopDone(stage) /\ stage' = AfterLoop(stage)
       \/ /\ ~LoopDone(stage) /\ stage.phase \in {"up", "assert_live", "down"} /\ ~Has(stage.i, stage.phase)
          /\ stage' = Following(stage)
    /\ UNCHANGED <<st, exists, project, volumes, op, steps, outputs, cancelled>>

\* Up fails fast.
Forward(res) == stage' = IF res.ok THEN Following(stage) ELSE AtStage("ended", 0)

-----------------------------------------------------------------------------
(* Up                                                                       *)

Requirement ==
    /\ stage.phase = "requires" /\ ~LoopDone(stage)
    /\ \E res \in IF Runs THEN {Answer(ok) : ok \in BOOLEAN} ELSE {Unrun} :
         RecordAxis("requires", stage.i, res) /\ Forward(res)
    /\ UNCHANGED <<st, exists, project, volumes, op, outputs, cancelled>>

UpAxis ==
    /\ stage.phase = "up" /\ ~LoopDone(stage) /\ Has(stage.i, "up")
    /\ \/ /\ Runs
          /\ \E ok \in BOOLEAN :
               /\ UpHook(stage.i, ok)
               /\ RecordAxis("up", stage.i, Answer(ok)) /\ Forward(Answer(ok))
               /\ outputs' = IF ok THEN outputs \cup {stage.i} ELSE outputs
       \/ /\ ~Runs
          /\ RecordAxis("up", stage.i, Unrun) /\ Forward(Unrun)
          /\ UNCHANGED <<exists, outputs>>
    /\ UNCHANGED <<st, project, volumes, op, cancelled>>

AssertLive ==
    /\ stage.phase = "assert_live" /\ Has(stage.i, "assert_live")
    /\ \E res \in IF Runs THEN {Answer(ok) : ok \in LiveAnswers(stage.i)} ELSE {Unrun} :
         RecordAxis("assert_live", stage.i, res) /\ Forward(res)
    /\ UNCHANGED <<st, exists, project, volumes, op, outputs, cancelled>>

\* compose up or stack deploy.  The derived file may not be producible; outside swarm a
\* logged stack needs the loki plugin.  A failed one may have created part of the project.
ComposeUp ==
    /\ stage.phase = "compose" /\ op.verb = "up"
    /\ stage' = AtStage("ended", 0)
    /\ \/ /\ Runs
          /\ \E ok \in BOOLEAN :
               /\ RecordAxis("compose", 0, Answer(ok))
               /\ \/ project' = TRUE /\ volumes' = TRUE
                  \/ ~ok /\ UNCHANGED <<project, volumes>>
       \/ /\ ~op.dry                              \* no derived file
          /\ RecordAxis("compose", 0, Answer(FALSE)) /\ UNCHANGED <<project, volumes>>
       \/ /\ Runs /\ st.logged /\ ~st.swarm       \* no loki plugin
          /\ RecordAxis("compose", 0, Answer(FALSE)) /\ UNCHANGED <<project, volumes>>
       \/ ~Runs /\ RecordAxis("compose", 0, Unrun) /\ UNCHANGED <<project, volumes>>
    /\ UNCHANGED <<st, exists, op, outputs, cancelled>>

-----------------------------------------------------------------------------
(* Down, sleep and verify                                                   *)

RefuseShared ==
    /\ stage.phase = "guard"
    /\ st.shared /\ ~op.force
    /\ RecordAxis("compose", 0, Refused)
    /\ stage' = AtStage("ended", 0)
    /\ UNCHANGED <<st, exists, project, volumes, op, outputs, cancelled>>

Allow ==
    /\ stage.phase = "guard"
    /\ ~st.shared \/ op.force
    /\ stage' = IF st.compose THEN AtStage("compose", 0)
             ELSE IF op.verb = "sleep" THEN AtStage("ended", 0) ELSE AtStage("down", Len(st.axes))
    /\ UNCHANGED <<st, exists, project, volumes, op, steps, outputs, cancelled>>

\* What `compose down` leaves when it says it did, and when it says it did not.  Removing
\* a swarm stack does not reach the volumes of other nodes.
TakenDown(res, takesVolumes) ==
    /\ project' \in IF res.ok THEN {FALSE} ELSE {project, FALSE}
    /\ volumes' \in IF ~takesVolumes THEN {volumes}
                    ELSE IF res.ok /\ ~st.swarm THEN {FALSE} ELSE {volumes, FALSE}

\* compose down -v, or without -v to sleep: what it answers is recorded and does not count.
ComposeDownTo(next, takesVolumes) ==
    /\ stage' = next
    /\ \/ /\ Runs
          /\ \E res \in {Answer(ok) : ok \in BOOLEAN} :
               TakenDown(res, takesVolumes) /\ RecordAxis("compose", 0, Tolerated(res))
       \/ ~Runs /\ RecordAxis("compose", 0, Tolerated(Unrun)) /\ UNCHANGED <<project, volumes>>
    /\ UNCHANGED <<st, exists, op, outputs, cancelled>>

ComposeDown ==
    stage.phase = "compose" /\ op.verb = "down" /\ ComposeDownTo(AtStage("down", Len(st.axes)), TRUE)

ComposeSleep ==
    stage.phase = "compose" /\ op.verb = "sleep" /\ ComposeDownTo(AtStage("ended", 0), FALSE)

DownAxis ==
    /\ stage.phase = "down" /\ ~LoopDone(stage) /\ Has(stage.i, "down")
    /\ stage' = Following(stage)
    /\ \/ /\ Runs
          /\ \E ok \in BOOLEAN : DownHook(stage.i, ok) /\ RecordAxis("down", stage.i, Tolerated(Answer(ok)))
       \/ ~Runs /\ UNCHANGED exists /\ RecordAxis("down", stage.i, Tolerated(Unrun))
    /\ UNCHANGED <<st, project, volumes, op, outputs, cancelled>>

Unverifiable ==
    /\ stage.phase = "assert_gone" /\ ~LoopDone(stage) /\ ~Has(stage.i, "assert_gone")
    /\ RecordAxis("assert_gone", stage.i, NotRun)
    /\ stage' = Following(stage)
    /\ UNCHANGED <<st, exists, project, volumes, op, outputs, cancelled>>

AssertGone_Tolerated ==
    /\ stage.phase = "assert_gone" /\ ~LoopDone(stage) /\ Has(stage.i, "assert_gone")
    /\ \E ok \in GoneAnswers(stage.i) : RecordAxis("assert_gone", stage.i, Tolerated(Answer(ok)))
    /\ stage' = Following(stage)
    /\ UNCHANGED <<st, exists, project, volumes, op, outputs, cancelled>>
AssertGone ==
    /\ stage.phase = "assert_gone" /\ ~LoopDone(stage) /\ Has(stage.i, "assert_gone")
    /\ \E res \in IF Runs THEN {Answer(ok) : ok \in GoneAnswers(stage.i)} ELSE {Unrun} :
         RecordAxis("assert_gone", stage.i, res)
    /\ stage' = Following(stage)
    /\ UNCHANGED <<st, exists, project, volumes, op, outputs, cancelled>>

-----------------------------------------------------------------------------
(* Operations come one at a time: the registry owns the stack for each.     *)

FirstHook(verb) ==
    CASE verb = "up"     -> AtStage("requires", 1)
      [] verb = "verify" -> AtStage("assert_gone", 1)
      [] OTHER           -> AtStage("guard", 0)

Begin ==
    /\ stage.phase \in {"idle", "ended"}
    /\ \E verb \in {"up", "down", "sleep", "verify"}, force, verify, dry \in BOOLEAN :
         /\ verb # "down" => ~force /\ ~verify
         /\ op' = Op(verb, force, verify, dry)
         /\ stage' = FirstHook(verb)
    /\ steps' = <<>> /\ outputs' = {} /\ cancelled' = FALSE
    /\ UNCHANGED <<st, exists, project, volumes>>

CancelContext ==
    /\ stage.phase \notin {"idle", "ended"} /\ ~cancelled
    /\ cancelled' = TRUE
    /\ UNCHANGED <<st, exists, project, volumes, op, stage, steps, outputs>>

\* The process dies: what the operation knew is lost, what it did is not.
Crash ==
    /\ stage.phase \notin {"idle", "ended"}
    /\ op' = NoOp /\ stage' = AtStage("idle", 0)
    /\ steps' = <<>> /\ outputs' = {} /\ cancelled' = FALSE
    /\ UNCHANGED <<st, exists, project, volumes>>

LifecycleInit ==
    /\ st \in Stacks
    /\ exists = {} /\ project = FALSE /\ volumes = FALSE
    /\ op = NoOp /\ stage = AtStage("idle", 0)
    /\ steps = <<>> /\ outputs = {} /\ cancelled = FALSE

Hook ==
    \/ Requirement \/ UpAxis \/ AssertLive \/ ComposeUp
    \/ RefuseShared \/ Allow \/ ComposeDown \/ ComposeSleep
    \/ DownAxis \/ Unverifiable \/ AssertGone \/ Skip

LifecycleNext == Begin \/ Hook \/ CancelContext \/ Crash

\* Commands return: an operation takes its next step.
LifecycleFairness == WF_lifecycleVars(Hook)

LifecycleSpec == LifecycleInit /\ [][LifecycleNext]_lifecycleVars /\ LifecycleFairness
--------------------------------------------------------------------------------
(* What an operation on a stack promises.                                    *)

Phases == {"requires", "up", "assert_live", "compose", "down", "assert_gone"}

\* Every variable has its type.
LifecycleTypeOK ==
    /\ st \in Stacks
    /\ exists \subseteq Axes
    /\ project \in BOOLEAN /\ volumes \in BOOLEAN /\ cancelled \in BOOLEAN
    /\ op \in [verb : {"none", "up", "down", "sleep", "verify"},
               force : BOOLEAN, verify : BOOLEAN, dry : BOOLEAN]
    /\ stage \in [phase : Phases \cup {"idle", "guard", "ended"}, i : Nat]
    /\ steps \in Seq([phase : Phases, axis : Nat, ok : BOOLEAN, skipped : BOOLEAN])
    /\ outputs \subseteq Axes

Results(phase, a) == {k \in DOMAIN steps : steps[k].phase = phase /\ steps[k].axis = a}
Verifies == op.verb = "verify" \/ (op.verb = "down" /\ op.verify)

\* The leak gate (stack.go:305-323): when a teardown that verifies, or a verify, comes out
\* clean and was no dry run, every axis that can be verified is gone, whatever the hooks
\* answered, whatever earlier operations left behind and whenever they died.
CleanMeansGone ==
    (Ended /\ OK /\ Verifies /\ ~op.dry)
        => \A a \in exists : ~Has(a, "assert_gone")

\* What is left is never passed over in silence (stack.go:311-314): after such an operation
\* an axis that still exists is reported leaked or unverifiable, or the operation was refused.
LeftIsReported ==
    (Ended /\ Verifies /\ ~op.dry /\ steps # <<>> /\ (op.verb = "down" => ~st.shared \/ op.force))
        => \A a \in exists : \E k \in Results("assert_gone", a) : ~steps[k].ok \/ steps[k].skipped

\* An up that comes out OK proved every axis it could (stack.go:185-197): what has an
\* assert_live exists, and the project is there.
ProvisionedMeansLive ==
    (Ended /\ OK /\ op.verb = "up" /\ ~op.dry)
        => /\ \A a \in Axes : Has(a, "assert_live") => a \in exists
           /\ st.compose => project

\* Fail fast (stack.go:137-139): nothing is created or started by an operation before all its
\* requirements held, nor after one of its steps failed.
WaitsForRequirements ==
    (exists' \ exists # {} \/ (project' /\ ~project))
        => /\ \A r \in 1 .. st.requires :
                \E k \in Results("requires", r) : steps[k].ok /\ ~steps[k].skipped
           /\ OK
EffectsNeedRequirements == [][WaitsForRequirements]_lifecycleVars

\* A resource goes while every later axis has had its turn (stack.go:230-271), and the
\* project before all of them: teardown undoes in reverse.
UndoesInReverse ==
    \A a \in exists \ exists' :
        /\ op.verb = "down"
        /\ \A b \in Axes : (b > a /\ Has(b, "down")) => Results("down", b) # {}
        /\ st.compose => Results("compose", 0) # {}
TeardownReverses == [][UndoesInReverse]_lifecycleVars

\* To sleep is not to tear down (stack.go:278-303): axes and volumes go in a down only, and
\* the shared singleton loses nothing unless it is forced to.
DestroysAsDown ==
    (exists \ exists' # {} \/ (volumes /\ ~volumes'))
        => op.verb = "down" /\ (st.shared => op.force)
OnlyDownDestroys == [][DestroysAsDown]_lifecycleVars

\* The shared singleton is not stopped either, unless it is forced to be.
StopsSharedByForce == (st.shared /\ project /\ ~project') => op.force
SharedStands == [][StopsSharedByForce]_lifecycleVars

\* A cancel counts (exec.go:107-112): no command starts after it, though teardown goes on.
CancelledChangesNothing == cancelled => UNCHANGED world
CancelStops == [][CancelledChangesNothing]_lifecycleVars

\* Every operation ends: each loop visits each hook once.
OperationsEnd == []<>(Ended \/ op.verb = "none")

\* What an operation keeps to from its first step to its last, whatever fails, is cancelled or
\* was left by the operations before it (stack.go: up, down, sleep, verify).
LifecycleSafety ==
    /\ [](CleanMeansGone /\ LeftIsReported /\ ProvisionedMeansLive)
    /\ EffectsNeedRequirements /\ TeardownReverses /\ OnlyDownDestroys /\ SharedStands /\ CancelStops
================================================================================
