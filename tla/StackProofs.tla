------------------------------ MODULE StackProofs ------------------------------
(***************************************************************************)
(* What holds of a stack on its way up and down, proved for every size:    *)
(* an operation over its requirements and axes (Lifecycle), the watch that *)
(* says whether what it started became healthy (Readiness), and the routes *)
(* that record, replace and forget it (Deployments).  The modules share no *)
(* variable.                                                               *)
(***************************************************************************)
EXTENDS DeploymentsProps, Lifecycle, Readiness, SpecFile, TLAPS

(***************************************************************************)
(* An operation on a stack: what the results so far say of what was done.  *)
(***************************************************************************)
Outcome == [ok : BOOLEAN, skipped : BOOLEAN]
StepResult == [phase : Phases, axis : Nat, ok : BOOLEAN, skipped : BOOLEAN]

-----------------------------------------------------------------------------
(***************************************************************************)
(* What the results so far say, and the inductive invariant.               *)
(***************************************************************************)
Held(r) == \E k \in Results("requires", r) : steps[k].ok /\ ~steps[k].skipped
HadTurn(phase, a) == Results(phase, a) # {}
Reported(a) ==
  \E k \in Results("assert_gone", a) :
    ~steps[k].ok \/ (steps[k].skipped /\ ~Has(a, "assert_gone"))

\* Each phase belongs to an operation, and its index is in range.
VerbOf ==
  /\ stage.phase = "idle" <=> op.verb = "none"
  /\ stage.phase \in {"requires", "up", "assert_live"} => op.verb = "up" /\ stage.i >= 1
  /\ stage.phase = "assert_live" => stage.i \in Axes
  /\ stage.phase = "guard" => op.verb \in {"down", "sleep"}
  /\ stage.phase = "compose" => st.compose /\ op.verb \in {"up", "down", "sleep"}
  /\ stage.phase = "down" => op.verb = "down"
  /\ stage.phase = "assert_gone" => Verifies /\ stage.i >= 1

\* What a teardown does to the shared singleton it was allowed to do.
Allowed ==
  /\ stage.phase \in {"compose", "down", "assert_gone"}
  /\ op.verb \in {"down", "sleep"}
  => (st.shared => op.force)

\* An up that goes on has not failed; it has proved what it is past.
UpSoFar ==
  /\ op.verb = "up" /\ ~Ended => OK
  /\ op.verb = "up" /\ ~Ended /\ ~op.dry =>
       /\ \A r \in 1 .. st.requires : (stage.phase = "requires" => r < stage.i) => Held(r)
       /\ \A a \in Axes :
            /\ Has(a, "assert_live")
            /\ stage.phase # "requires"
            /\ stage.phase \in {"up", "assert_live"} => a < stage.i
            => a \in exists

\* A teardown has undone what it is past.
DownSoFar ==
  stage.phase = "down" =>
    /\ \A b \in Axes : b > stage.i /\ Has(b, "down") => HadTurn("down", b)
    /\ st.compose => HadTurn("compose", 0)

\* The leak gate has reported what it is past.
GateSoFar ==
  /\ stage.phase = "assert_gone" /\ ~op.dry =>
       \A a \in exists : a < stage.i => Reported(a)
  /\ Ended /\ Verifies /\ ~op.dry =>
       \/ op.verb = "down" /\ st.shared /\ ~op.force /\ ~OK
       \/ \A a \in exists : Reported(a)

OpIInv ==
  LifecycleTypeOK /\ VerbOf /\ Allowed /\ UpSoFar /\ DownSoFar /\ GateSoFar
  /\ ProvisionedMeansLive

-----------------------------------------------------------------------------
(***************************************************************************)
(* Lemmas about specs, stages and results.                                 *)
(***************************************************************************)

LEMMA SpecHasAxes ==
  LifecycleTypeOK => /\ st.requires \in Nat
                     /\ Len(st.axes) \in Nat
                     /\ st.axes \in Seq(SUBSET Hooks)
                     /\ st.compose \in BOOLEAN /\ st.shared \in BOOLEAN
                     /\ st.swarm \in BOOLEAN /\ st.logged \in BOOLEAN
  BY StacksAssumption DEF LifecycleTypeOK, StackType

LEMMA OutcomesAre ==
  /\ Refused \in Outcome /\ NotRun \in Outcome
  /\ \A ok \in BOOLEAN : Answer(ok) \in Outcome /\ Answer(ok).ok = ok /\ ~Answer(ok).skipped
  /\ \A res \in Outcome : Tolerated(res) \in Outcome /\ Tolerated(res).ok
  /\ ~Refused.ok /\ ~Refused.skipped /\ NotRun.ok /\ NotRun.skipped
  BY DEF Refused, NotRun, Answer, Tolerated, Outcome

\* A recorded result is added to those before it, which stay as they were.
LEMMA ResultAdded ==
  ASSUME LifecycleTypeOK, NEW phase \in Phases, NEW a \in Nat, NEW res \in Outcome,
         RecordAxis(phase, a, res)
  PROVE  /\ steps' \in Seq(StepResult)
         /\ \A k \in DOMAIN steps : k \in DOMAIN steps' /\ steps'[k] = steps[k]
         /\ \E n \in DOMAIN steps' :
              /\ steps'[n] = Result(phase, a, res)
              /\ \A k \in DOMAIN steps' : k \in DOMAIN steps \/ k = n
  <1>1. steps \in Seq(StepResult) /\ Result(phase, a, res) \in StepResult
    BY DEF LifecycleTypeOK, StepResult, Result, Outcome
  <1>2. steps' = Append(steps, Result(phase, a, res))
    BY DEF RecordAxis
  <1>3. Len(steps) + 1 \in DOMAIN steps' /\ steps'[Len(steps) + 1] = Result(phase, a, res)
    BY <1>1, <1>2
  <1>. QED
    BY <1>1, <1>2, <1>3

\* What the results said they still say, and the new one says its own.
LEMMA ResultSays ==
  ASSUME LifecycleTypeOK, UNCHANGED st,
         NEW phase \in Phases, NEW a \in Nat, NEW res \in Outcome,
         RecordAxis(phase, a, res)
  PROVE  /\ steps' \in Seq(StepResult)
         /\ OK' <=> OK /\ res.ok
         /\ \A r : Held(r) => Held(r)'
         /\ \A p, b : HadTurn(p, b) => HadTurn(p, b)'
         /\ \A b : Reported(b) => Reported(b)'
         /\ HadTurn(phase, a)'
         /\ phase = "requires" /\ res.ok /\ ~res.skipped => Held(a)'
         /\ phase = "assert_gone" /\ ~res.ok => Reported(a)'
         /\ phase = "assert_gone" /\ res.skipped /\ ~Has(a, "assert_gone") => Reported(a)'
  <1>1. steps' \in Seq(StepResult)
    BY ResultAdded
  <1>2. \A k \in DOMAIN steps : k \in DOMAIN steps' /\ steps'[k] = steps[k]
    BY ResultAdded
  <1>3. PICK n \in DOMAIN steps' :
          /\ steps'[n] = Result(phase, a, res)
          /\ \A k \in DOMAIN steps' : k \in DOMAIN steps \/ k = n
    BY ResultAdded
  <1>4. OK' <=> OK /\ res.ok
    BY <1>2, <1>3 DEF OK, Result
  <1>5. \A p, b : \A k \in Results(p, b) : k \in Results(p, b)' /\ steps'[k] = steps[k]
    BY <1>2 DEF Results
  <1>6. n \in Results(phase, a)'
    BY <1>3 DEF Results, Result
  <1>7. steps'[n].ok = res.ok /\ steps'[n].skipped = res.skipped
    BY <1>3 DEF Result
  <1>. QED
    BY <1>1, <1>4, <1>5, <1>6, <1>7 DEF Held, HadTurn, Reported, Has

LEMMA NoResults == <<>> \in Seq(StepResult)
  OBVIOUS

\* Where a stage leads.
LEMMA StagesAre ==
  /\ \A p, i : AtStage(p, i).phase = p /\ AtStage(p, i).i = i
  /\ \A p \in Phases \cup {"idle", "guard", "ended"}, i \in Nat :
       AtStage(p, i) \in [phase : Phases \cup {"idle", "guard", "ended"}, i : Nat]
  BY DEF AtStage

-----------------------------------------------------------------------------
(***************************************************************************)
(* Every step keeps the invariant.                                         *)
(***************************************************************************)

LEMMA OpStarts == LifecycleInit => OpIInv
  <1> SUFFICES ASSUME LifecycleInit PROVE OpIInv
    OBVIOUS
  <1>1. stage.phase = "idle" /\ stage.i = 0 /\ op.verb = "none"
    BY DEF LifecycleInit, NoOp, Op, AtStage
  <1>2. LifecycleTypeOK
    <2>1. <<>> \in Seq([phase : Phases, axis : Nat, ok : BOOLEAN, skipped : BOOLEAN])
      OBVIOUS
    <2>2. stage \in [phase : Phases \cup {"idle", "guard", "ended"}, i : Nat]
      BY DEF LifecycleInit, AtStage
    <2>3. op \in [verb : {"none", "up", "down", "sleep", "verify"},
                  force : BOOLEAN, verify : BOOLEAN, dry : BOOLEAN]
      BY DEF LifecycleInit, NoOp, Op
    <2>. QED
      BY <2>1, <2>2, <2>3 DEF LifecycleInit, LifecycleTypeOK
  <1>. QED
    BY <1>1, <1>2
    DEF OpIInv, VerbOf, Allowed, UpSoFar, DownSoFar, GateSoFar, ProvisionedMeansLive,
        Ended, Verifies

LEMMA RequirementStep ==
  ASSUME OpIInv, Requirement PROVE OpIInv'
  <1>0. PICK i \in Nat : stage.i = i
    BY DEF OpIInv, LifecycleTypeOK
  <1>1. PICK res \in IF Runs THEN {Answer(ok) : ok \in BOOLEAN} ELSE {Unrun} :
          RecordAxis("requires", i, res) /\ Forward(res)
    BY <1>0 DEF Requirement
  <1>2. /\ res \in Outcome
        /\ res.ok /\ ~op.dry => ~res.skipped
    BY <1>1, OutcomesAre DEF Unrun, Runs
  <1>3. "requires" \in Phases /\ LifecycleTypeOK
    BY DEF Phases, OpIInv
  <1>4. UNCHANGED <<st, exists, project, volumes, op, outputs, cancelled>>
    BY DEF Requirement
  <1>5. /\ steps' \in Seq(StepResult)
        /\ OK' <=> OK /\ res.ok
        /\ \A r : Held(r) => Held(r)'
        /\ \A q, b : HadTurn(q, b) => HadTurn(q, b)'
        /\ \A b : Reported(b) => Reported(b)'
        /\ res.ok /\ ~res.skipped => Held(i)'
    BY <1>1, <1>2, <1>3, <1>4, ResultSays
  <1>6. stage' = IF res.ok THEN AtStage("requires", i + 1) ELSE AtStage("ended", 0)
    BY <1>0, <1>1 DEF Forward, Following, Requirement
  <1>. USE DEF OpIInv, LifecycleTypeOK, Ended, Verifies, Has, Axes, StepResult, AtStage, Phases
  <1>7. LifecycleTypeOK'
    BY <1>0, <1>2, <1>4, <1>5, <1>6, SpecHasAxes DEF Requirement, LoopDone, VerbOf
  <1>8. VerbOf' /\ Allowed'
    BY <1>0, <1>2, <1>4, <1>5, <1>6, SpecHasAxes DEF Requirement, LoopDone, VerbOf, Allowed
  <1>9. UpSoFar'
    BY <1>0, <1>2, <1>4, <1>5, <1>6, SpecHasAxes DEF Requirement, LoopDone, VerbOf, UpSoFar
  <1>10. DownSoFar'
    BY <1>0, <1>2, <1>4, <1>5, <1>6, SpecHasAxes DEF Requirement, LoopDone, VerbOf, DownSoFar
  <1>11. GateSoFar'
    BY <1>0, <1>2, <1>4, <1>5, <1>6, SpecHasAxes DEF Requirement, LoopDone, VerbOf, Allowed, GateSoFar
  <1>12. ProvisionedMeansLive'
    BY <1>0, <1>2, <1>4, <1>5, <1>6, SpecHasAxes DEF Requirement, LoopDone, VerbOf, UpSoFar, ProvisionedMeansLive
  <1>. QED
    BY <1>7, <1>8, <1>9, <1>10, <1>11, <1>12

LEMMA AssertLiveStep ==
  ASSUME OpIInv, AssertLive PROVE OpIInv'
  <1>0. PICK i \in Nat : stage.i = i
    BY DEF OpIInv, LifecycleTypeOK
  <1>1. PICK res \in IF Runs THEN {Answer(ok) : ok \in LiveAnswers(i)} ELSE {Unrun} :
          RecordAxis("assert_live", i, res) /\ Forward(res)
    BY <1>0 DEF AssertLive
  <1>2. /\ res \in Outcome
        /\ res.ok /\ ~op.dry => i \in exists
    BY <1>1, OutcomesAre DEF Unrun, Runs, LiveAnswers
  <1>3. "assert_live" \in Phases /\ LifecycleTypeOK
    BY DEF Phases, OpIInv
  <1>4. UNCHANGED <<st, exists, project, volumes, op, outputs, cancelled>>
    BY DEF AssertLive
  <1>5. /\ steps' \in Seq(StepResult)
        /\ OK' <=> OK /\ res.ok
        /\ \A r : Held(r) => Held(r)'
        /\ \A q, b : HadTurn(q, b) => HadTurn(q, b)'
        /\ \A b : Reported(b) => Reported(b)'
        
    BY <1>1, <1>2, <1>3, <1>4, ResultSays
  <1>6. stage' = IF res.ok THEN AtStage("up", i + 1) ELSE AtStage("ended", 0)
    BY <1>0, <1>1 DEF Forward, Following, AssertLive
  <1>. USE DEF OpIInv, LifecycleTypeOK, Ended, Verifies, Has, Axes, StepResult, AtStage, Phases
  <1>7. LifecycleTypeOK'
    BY <1>0, <1>2, <1>4, <1>5, <1>6, SpecHasAxes DEF AssertLive, LoopDone, VerbOf
  <1>8. VerbOf' /\ Allowed'
    BY <1>0, <1>2, <1>4, <1>5, <1>6, SpecHasAxes DEF AssertLive, LoopDone, VerbOf, Allowed
  <1>9. UpSoFar'
    BY <1>0, <1>2, <1>4, <1>5, <1>6, SpecHasAxes DEF AssertLive, LoopDone, VerbOf, UpSoFar
  <1>10. DownSoFar'
    BY <1>0, <1>2, <1>4, <1>5, <1>6, SpecHasAxes DEF AssertLive, LoopDone, VerbOf, DownSoFar
  <1>11. GateSoFar'
    BY <1>0, <1>2, <1>4, <1>5, <1>6, SpecHasAxes DEF AssertLive, LoopDone, VerbOf, Allowed, GateSoFar
  <1>12. ProvisionedMeansLive'
    BY <1>0, <1>2, <1>4, <1>5, <1>6, SpecHasAxes DEF AssertLive, LoopDone, VerbOf, UpSoFar, ProvisionedMeansLive
  <1>. QED
    BY <1>7, <1>8, <1>9, <1>10, <1>11, <1>12

LEMMA UpAxisStep ==
  ASSUME OpIInv, UpAxis PROVE OpIInv'
  <1>0. PICK i \in Nat : stage.i = i
    BY DEF OpIInv, LifecycleTypeOK
  <1>1. PICK res \in Outcome :
          /\ RecordAxis("up", i, res) /\ Forward(res)
          /\ exists' \in {exists, exists \cup {i}}
          /\ outputs' \in {outputs, outputs \cup {i}}
    <2>1. CASE ~Runs
      BY <1>0, <2>1, OutcomesAre DEF UpAxis, Unrun
    <2>2. CASE Runs
      BY <1>0, <2>2, OutcomesAre DEF UpAxis, UpHook
    <2>. QED
      BY <2>1, <2>2
  <1>2. i \in Axes
    BY <1>0 DEF UpAxis, LoopDone
  <1>3. "up" \in Phases /\ LifecycleTypeOK
    BY DEF Phases, OpIInv
  <1>4. UNCHANGED <<st, project, volumes, op, cancelled>>
    BY DEF UpAxis
  <1>5. /\ steps' \in Seq(StepResult)
        /\ OK' <=> OK /\ res.ok
        /\ \A r : Held(r) => Held(r)'
    BY <1>1, <1>3, <1>4, ResultSays
  <1>6. stage' = IF res.ok THEN AtStage("assert_live", i) ELSE AtStage("ended", 0)
    BY <1>0, <1>1 DEF Forward, Following, UpAxis
  <1>. USE DEF OpIInv, LifecycleTypeOK, Ended, Verifies, Has, Axes, StepResult, AtStage, Phases
  <1>7. LifecycleTypeOK'
    BY <1>0, <1>1, <1>2, <1>4, <1>5, <1>6, SpecHasAxes DEF UpAxis, VerbOf
  <1>8. VerbOf' /\ Allowed'
    BY <1>0, <1>1, <1>2, <1>4, <1>5, <1>6, SpecHasAxes DEF UpAxis, VerbOf, Allowed
  <1>9. UpSoFar'
    BY <1>0, <1>1, <1>2, <1>4, <1>5, <1>6, SpecHasAxes DEF UpAxis, VerbOf, UpSoFar
  <1>10. DownSoFar'
    BY <1>0, <1>1, <1>2, <1>4, <1>5, <1>6, SpecHasAxes DEF UpAxis, VerbOf, DownSoFar
  <1>11. GateSoFar'
    BY <1>0, <1>1, <1>2, <1>4, <1>5, <1>6, SpecHasAxes DEF UpAxis, VerbOf, Allowed, GateSoFar
  <1>12. ProvisionedMeansLive'
    BY <1>0, <1>1, <1>2, <1>4, <1>5, <1>6, SpecHasAxes DEF UpAxis, VerbOf, UpSoFar, ProvisionedMeansLive
  <1>. QED
    BY <1>7, <1>8, <1>9, <1>10, <1>11, <1>12

LEMMA ComposeUpStep ==
  ASSUME OpIInv, ComposeUp PROVE OpIInv'
  <1>1. PICK res \in Outcome :
          /\ RecordAxis("compose", 0, res)
          /\ res.ok /\ ~op.dry => project'
          /\ project' \in {project, TRUE} /\ volumes' \in {volumes, TRUE}
    <2>1. CASE Runs /\ \E ok \in BOOLEAN :
                 /\ RecordAxis("compose", 0, Answer(ok))
                 /\ \/ project' = TRUE /\ volumes' = TRUE
                    \/ ~ok /\ UNCHANGED <<project, volumes>>
      BY <2>1, OutcomesAre
    <2>2. CASE RecordAxis("compose", 0, Answer(FALSE)) /\ UNCHANGED <<project, volumes>>
      BY <2>2, OutcomesAre
    <2>3. CASE ~Runs /\ RecordAxis("compose", 0, Unrun) /\ UNCHANGED <<project, volumes>>
      BY <2>3, OutcomesAre DEF Runs, Unrun
    <2>. QED
      BY <2>1, <2>2, <2>3 DEF ComposeUp
  <1>3. "compose" \in Phases /\ LifecycleTypeOK
    BY DEF Phases, OpIInv
  <1>4. UNCHANGED <<st, exists, op, outputs, cancelled>>
    BY DEF ComposeUp
  <1>5. /\ steps' \in Seq(StepResult)
        /\ OK' <=> OK /\ res.ok
    BY <1>1, <1>3, <1>4, ResultSays
  <1>. USE DEF OpIInv, LifecycleTypeOK, Ended, Verifies, Has, Axes, StepResult, AtStage, Phases
  <1>7. LifecycleTypeOK'
    BY <1>1, <1>4, <1>5, SpecHasAxes DEF ComposeUp, VerbOf
  <1>8. VerbOf' /\ Allowed'
    BY <1>1, <1>4, <1>5, SpecHasAxes DEF ComposeUp, VerbOf, Allowed
  <1>9. UpSoFar'
    BY <1>1, <1>4, <1>5, SpecHasAxes DEF ComposeUp, VerbOf, UpSoFar
  <1>10. DownSoFar'
    BY <1>1, <1>4, <1>5, SpecHasAxes DEF ComposeUp, VerbOf, DownSoFar
  <1>11. GateSoFar'
    BY <1>1, <1>4, <1>5, SpecHasAxes DEF ComposeUp, VerbOf, Allowed, GateSoFar
  <1>12. ProvisionedMeansLive'
    BY <1>1, <1>4, <1>5, SpecHasAxes DEF ComposeUp, VerbOf, UpSoFar, ProvisionedMeansLive
  <1>. QED
    BY <1>7, <1>8, <1>9, <1>10, <1>11, <1>12

LEMMA RefuseSharedStep ==
  ASSUME OpIInv, RefuseShared PROVE OpIInv'
  <1>1. RecordAxis("compose", 0, Refused) /\ Refused \in Outcome /\ ~Refused.ok
    BY OutcomesAre DEF RefuseShared
  <1>3. "compose" \in Phases /\ LifecycleTypeOK
    BY DEF Phases, OpIInv
  <1>4. UNCHANGED <<st, exists, project, volumes, op, outputs, cancelled>>
    BY DEF RefuseShared
  <1>5. steps' \in Seq(StepResult) /\ ~OK'
    BY <1>1, <1>3, <1>4, ResultSays
  <1>. USE DEF OpIInv, LifecycleTypeOK, Ended, Verifies, Has, Axes, StepResult, AtStage, Phases
  <1>7. LifecycleTypeOK'
    BY <1>4, <1>5, SpecHasAxes DEF RefuseShared, VerbOf
  <1>8. VerbOf' /\ Allowed'
    BY <1>4, <1>5, SpecHasAxes DEF RefuseShared, VerbOf, Allowed
  <1>9. UpSoFar'
    BY <1>4, <1>5, SpecHasAxes DEF RefuseShared, VerbOf, UpSoFar
  <1>10. DownSoFar'
    BY <1>4, <1>5, SpecHasAxes DEF RefuseShared, VerbOf, DownSoFar
  <1>11. GateSoFar'
    BY <1>4, <1>5, SpecHasAxes DEF RefuseShared, VerbOf, Allowed, GateSoFar
  <1>12. ProvisionedMeansLive'
    BY <1>4, <1>5, SpecHasAxes DEF RefuseShared, VerbOf, UpSoFar, ProvisionedMeansLive
  <1>. QED
    BY <1>7, <1>8, <1>9, <1>10, <1>11, <1>12

LEMMA AllowStep ==
  ASSUME OpIInv, Allow PROVE OpIInv'
  <1>4. UNCHANGED <<st, exists, project, volumes, op, steps, outputs, cancelled>>
    BY DEF Allow
  <1>5. UNCHANGED OK
    BY <1>4 DEF OK
  <1>. USE DEF OpIInv, LifecycleTypeOK, Ended, Verifies, Has, Axes, StepResult, AtStage, Phases
  <1>7. LifecycleTypeOK'
    BY <1>4, <1>5, SpecHasAxes DEF Allow, VerbOf
  <1>8. VerbOf' /\ Allowed'
    BY <1>4, <1>5, SpecHasAxes DEF Allow, VerbOf, Allowed
  <1>9. UpSoFar'
    BY <1>4, <1>5, SpecHasAxes DEF Allow, VerbOf, UpSoFar
  <1>10. DownSoFar'
    BY <1>4, <1>5, SpecHasAxes DEF Allow, VerbOf, DownSoFar
  <1>11. GateSoFar'
    BY <1>4, <1>5, SpecHasAxes DEF Allow, VerbOf, Allowed, GateSoFar
  <1>12. ProvisionedMeansLive'
    BY <1>4, <1>5, SpecHasAxes DEF Allow, VerbOf, UpSoFar, ProvisionedMeansLive
  <1>. QED
    BY <1>7, <1>8, <1>9, <1>10, <1>11, <1>12

LEMMA ComposeDownStep ==
  ASSUME OpIInv, ComposeDown PROVE OpIInv'
  <1>1. PICK res \in Outcome :
          /\ RecordAxis("compose", 0, res)
          /\ project' \in BOOLEAN /\ volumes' \in BOOLEAN
    <2>1. CASE Runs
      BY <2>1, OutcomesAre DEF ComposeDown, ComposeDownTo, TakenDown, OpIInv, LifecycleTypeOK
    <2>2. CASE ~Runs
      BY <2>2, OutcomesAre DEF ComposeDown, ComposeDownTo, Unrun, OpIInv, LifecycleTypeOK
    <2>. QED
      BY <2>1, <2>2
  <1>3. "compose" \in Phases /\ LifecycleTypeOK
    BY DEF Phases, OpIInv
  <1>4. UNCHANGED <<st, exists, op, outputs, cancelled>> /\ stage' = AtStage("down", Len(st.axes))
    BY DEF ComposeDown, ComposeDownTo
  <1>5. steps' \in Seq(StepResult) /\ HadTurn("compose", 0)'
    BY <1>1, <1>3, <1>4, ResultSays
  <1>. USE DEF OpIInv, LifecycleTypeOK, Ended, Verifies, Has, Axes, StepResult, AtStage, Phases
  <1>7. LifecycleTypeOK'
    BY <1>1, <1>4, <1>5, SpecHasAxes DEF ComposeDown, VerbOf
  <1>8. VerbOf' /\ Allowed'
    BY <1>1, <1>4, <1>5, SpecHasAxes DEF ComposeDown, VerbOf, Allowed
  <1>9. UpSoFar'
    BY <1>1, <1>4, <1>5, SpecHasAxes DEF ComposeDown, VerbOf, UpSoFar
  <1>10. DownSoFar'
    BY <1>1, <1>4, <1>5, SpecHasAxes DEF ComposeDown, VerbOf, DownSoFar
  <1>11. GateSoFar'
    BY <1>1, <1>4, <1>5, SpecHasAxes DEF ComposeDown, VerbOf, Allowed, GateSoFar
  <1>12. ProvisionedMeansLive'
    BY <1>1, <1>4, <1>5, SpecHasAxes DEF ComposeDown, VerbOf, UpSoFar, ProvisionedMeansLive
  <1>. QED
    BY <1>7, <1>8, <1>9, <1>10, <1>11, <1>12

LEMMA ComposeSleepStep ==
  ASSUME OpIInv, ComposeSleep PROVE OpIInv'
  <1>1. PICK res \in Outcome :
          /\ RecordAxis("compose", 0, res)
          /\ project' \in BOOLEAN /\ volumes' \in BOOLEAN
    <2>1. CASE Runs
      BY <2>1, OutcomesAre DEF ComposeSleep, ComposeDownTo, TakenDown, OpIInv, LifecycleTypeOK
    <2>2. CASE ~Runs
      BY <2>2, OutcomesAre DEF ComposeSleep, ComposeDownTo, Unrun, OpIInv, LifecycleTypeOK
    <2>. QED
      BY <2>1, <2>2
  <1>3. "compose" \in Phases /\ LifecycleTypeOK
    BY DEF Phases, OpIInv
  <1>4. UNCHANGED <<st, exists, op, outputs, cancelled>> /\ stage' = AtStage("ended", 0)
    BY DEF ComposeSleep, ComposeDownTo
  <1>5. steps' \in Seq(StepResult) /\ HadTurn("compose", 0)'
    BY <1>1, <1>3, <1>4, ResultSays
  <1>. USE DEF OpIInv, LifecycleTypeOK, Ended, Verifies, Has, Axes, StepResult, AtStage, Phases
  <1>7. LifecycleTypeOK'
    BY <1>1, <1>4, <1>5, SpecHasAxes DEF ComposeSleep, VerbOf
  <1>8. VerbOf' /\ Allowed'
    BY <1>1, <1>4, <1>5, SpecHasAxes DEF ComposeSleep, VerbOf, Allowed
  <1>9. UpSoFar'
    BY <1>1, <1>4, <1>5, SpecHasAxes DEF ComposeSleep, VerbOf, UpSoFar
  <1>10. DownSoFar'
    BY <1>1, <1>4, <1>5, SpecHasAxes DEF ComposeSleep, VerbOf, DownSoFar
  <1>11. GateSoFar'
    BY <1>1, <1>4, <1>5, SpecHasAxes DEF ComposeSleep, VerbOf, Allowed, GateSoFar
  <1>12. ProvisionedMeansLive'
    BY <1>1, <1>4, <1>5, SpecHasAxes DEF ComposeSleep, VerbOf, UpSoFar, ProvisionedMeansLive
  <1>. QED
    BY <1>7, <1>8, <1>9, <1>10, <1>11, <1>12

LEMMA DownAxisStep ==
  ASSUME OpIInv, DownAxis PROVE OpIInv'
  <1>0. PICK i \in Nat : stage.i = i
    BY DEF OpIInv, LifecycleTypeOK
  <1>1. PICK res \in Outcome :
          /\ RecordAxis("down", i, res)
          /\ exists' \in {exists, exists \ {i}}
    <2>1. CASE ~Runs
      BY <1>0, <2>1, OutcomesAre DEF DownAxis, Unrun
    <2>2. CASE Runs
      BY <1>0, <2>2, OutcomesAre DEF DownAxis, DownHook
    <2>. QED
      BY <2>1, <2>2
  <1>2. i \in Axes
    BY <1>0 DEF DownAxis, LoopDone
  <1>3. "down" \in Phases /\ LifecycleTypeOK
    BY DEF Phases, OpIInv
  <1>4. UNCHANGED <<st, project, volumes, op, outputs, cancelled>>
    BY DEF DownAxis
  <1>5. /\ steps' \in Seq(StepResult)
        /\ \A q, b : HadTurn(q, b) => HadTurn(q, b)'
        /\ HadTurn("down", i)'
    BY <1>1, <1>3, <1>4, ResultSays
  <1>6. stage' = AtStage("down", i - 1) /\ stage.phase = "down"
    BY <1>0 DEF Following, DownAxis
  <1>. USE DEF OpIInv, LifecycleTypeOK, Ended, Verifies, Has, Axes, StepResult, AtStage, Phases
  <1>7. LifecycleTypeOK'
    BY <1>0, <1>1, <1>2, <1>4, <1>5, <1>6, SpecHasAxes DEF VerbOf
  <1>8. VerbOf' /\ Allowed'
    BY <1>0, <1>1, <1>2, <1>4, <1>5, <1>6, SpecHasAxes DEF VerbOf, Allowed
  <1>9. UpSoFar'
    BY <1>0, <1>1, <1>2, <1>4, <1>5, <1>6, SpecHasAxes DEF VerbOf, UpSoFar
  <1>10. DownSoFar'
    <2>1. \A b \in Axes : b > i - 1 => b = i \/ b > i
      BY <1>0
    <2>2. \A b \in Axes : b > i /\ Has(b, "down") => HadTurn("down", b)
      BY <1>0, <1>6 DEF DownSoFar
    <2>3. \A b \in Axes : b > i - 1 /\ Has(b, "down") => HadTurn("down", b)'
      BY <1>5, <2>1, <2>2
    <2>4. st.compose => HadTurn("compose", 0)'
      BY <1>5, <1>6 DEF DownSoFar
    <2>. QED
      BY <1>4, <1>6, <2>3, <2>4 DEF DownSoFar
  <1>11. GateSoFar'
    BY <1>0, <1>1, <1>2, <1>4, <1>5, <1>6, SpecHasAxes DEF VerbOf, Allowed, GateSoFar
  <1>12. ProvisionedMeansLive'
    BY <1>0, <1>1, <1>2, <1>4, <1>5, <1>6, SpecHasAxes DEF VerbOf, UpSoFar, ProvisionedMeansLive
  <1>. QED
    BY <1>7, <1>8, <1>9, <1>10, <1>11, <1>12

LEMMA AssertGoneStep ==
  ASSUME OpIInv, AssertGone PROVE OpIInv'
  <1>0. PICK i \in Nat : stage.i = i
    BY DEF OpIInv, LifecycleTypeOK
  <1>1. PICK res \in IF Runs THEN {Answer(ok) : ok \in GoneAnswers(i)} ELSE {Unrun} :
          RecordAxis("assert_gone", i, res)
    BY <1>0 DEF AssertGone
  <1>2. /\ res \in Outcome
        /\ i \in exists /\ ~op.dry => ~res.ok
    BY <1>1, OutcomesAre DEF Unrun, Runs, GoneAnswers
  <1>3. "assert_gone" \in Phases /\ LifecycleTypeOK
    BY DEF Phases, OpIInv
  <1>4. UNCHANGED <<st, exists, project, volumes, op, outputs, cancelled>>
    BY DEF AssertGone
  <1>5. /\ steps' \in Seq(StepResult)
        /\ OK' <=> OK /\ res.ok
        /\ \A b : Reported(b) => Reported(b)'
        /\ ~res.ok => Reported(i)'
    BY <1>1, <1>2, <1>3, <1>4, ResultSays
  <1>6. stage' = AtStage("assert_gone", i + 1)
    BY <1>0, <1>1 DEF Forward, Following, AssertGone
  <1>. USE DEF OpIInv, LifecycleTypeOK, Ended, Verifies, Has, Axes, StepResult, AtStage, Phases
  <1>7. LifecycleTypeOK'
    BY <1>0, <1>2, <1>4, <1>5, <1>6, SpecHasAxes DEF AssertGone, LoopDone, VerbOf
  <1>8. VerbOf' /\ Allowed'
    BY <1>0, <1>2, <1>4, <1>5, <1>6, SpecHasAxes DEF AssertGone, LoopDone, VerbOf, Allowed
  <1>9. UpSoFar'
    BY <1>0, <1>2, <1>4, <1>5, <1>6, SpecHasAxes DEF AssertGone, LoopDone, VerbOf, UpSoFar
  <1>10. DownSoFar'
    BY <1>0, <1>2, <1>4, <1>5, <1>6, SpecHasAxes DEF AssertGone, LoopDone, VerbOf, DownSoFar
  <1>11. GateSoFar'
    BY <1>0, <1>2, <1>4, <1>5, <1>6, SpecHasAxes DEF AssertGone, LoopDone, VerbOf, Allowed, GateSoFar
  <1>12. ProvisionedMeansLive'
    BY <1>0, <1>2, <1>4, <1>5, <1>6, SpecHasAxes DEF AssertGone, LoopDone, VerbOf, UpSoFar, ProvisionedMeansLive
  <1>. QED
    BY <1>7, <1>8, <1>9, <1>10, <1>11, <1>12

LEMMA UnverifiableStep ==
  ASSUME OpIInv, Unverifiable PROVE OpIInv'
  <1>0. PICK i \in Nat : stage.i = i
    BY DEF OpIInv, LifecycleTypeOK
  <1>1. RecordAxis("assert_gone", i, NotRun) /\ NotRun \in Outcome /\ NotRun.skipped
    BY <1>0, OutcomesAre DEF Unverifiable
  <1>3. "assert_gone" \in Phases /\ LifecycleTypeOK
    BY DEF Phases, OpIInv
  <1>4. UNCHANGED <<st, exists, project, volumes, op, outputs, cancelled>>
    BY DEF Unverifiable
  <1>5. /\ steps' \in Seq(StepResult)
        /\ \A b : Reported(b) => Reported(b)'
        /\ ~Has(i, "assert_gone") => Reported(i)'
    BY <1>1, <1>3, <1>4, ResultSays
  <1>6. stage' = AtStage("assert_gone", i + 1) /\ ~Has(i, "assert_gone")
    BY <1>0 DEF Following, Unverifiable
  <1>. USE DEF OpIInv, LifecycleTypeOK, Ended, Verifies, Has, Axes, StepResult, AtStage, Phases
  <1>7. LifecycleTypeOK'
    BY <1>0, <1>4, <1>5, <1>6, SpecHasAxes DEF Unverifiable, LoopDone, VerbOf
  <1>8. VerbOf' /\ Allowed'
    BY <1>0, <1>4, <1>5, <1>6, SpecHasAxes DEF Unverifiable, LoopDone, VerbOf, Allowed
  <1>9. UpSoFar'
    BY <1>0, <1>4, <1>5, <1>6, SpecHasAxes DEF Unverifiable, LoopDone, VerbOf, UpSoFar
  <1>10. DownSoFar'
    BY <1>0, <1>4, <1>5, <1>6, SpecHasAxes DEF Unverifiable, LoopDone, VerbOf, DownSoFar
  <1>11. GateSoFar'
    BY <1>0, <1>4, <1>5, <1>6, SpecHasAxes DEF Unverifiable, LoopDone, VerbOf, Allowed, GateSoFar
  <1>12. ProvisionedMeansLive'
    BY <1>0, <1>4, <1>5, <1>6, SpecHasAxes DEF Unverifiable, LoopDone, VerbOf, UpSoFar, ProvisionedMeansLive
  <1>. QED
    BY <1>7, <1>8, <1>9, <1>10, <1>11, <1>12

LEMMA SkipStep ==
  ASSUME OpIInv, Skip PROVE OpIInv'
  <1>0. PICK i \in Nat : stage.i = i
    BY DEF OpIInv, LifecycleTypeOK
  <1>4. UNCHANGED <<st, exists, project, volumes, op, steps, outputs, cancelled>>
    BY DEF Skip
  <1>5. /\ UNCHANGED OK
        /\ \A r : Held(r) => Held(r)'
        /\ \A q, b : HadTurn(q, b) => HadTurn(q, b)'
        /\ \A b : Reported(b) => Reported(b)'
    BY <1>4 DEF OK, Held, HadTurn, Reported, Results, Has
  <1>6. \/ LoopDone(stage) /\ stage' = AfterLoop(stage)
        \/ /\ ~LoopDone(stage) /\ ~Has(i, stage.phase) /\ stage' = Following(stage)
           /\ stage.phase \in {"up", "assert_live", "down"}
    BY <1>0 DEF Skip
  <1>1. stage.phase \in Loops
    BY DEF Skip
  <1>. USE DEF OpIInv, LifecycleTypeOK, Ended, Verifies, Has, Axes, StepResult, AtStage, Phases
  <1>7. LifecycleTypeOK'
    BY <1>0, <1>1, <1>4, <1>5, <1>6, SpecHasAxes DEF LoopDone, AfterLoop, Following, Loops, VerbOf
  <1>8. VerbOf' /\ Allowed'
    BY <1>0, <1>1, <1>4, <1>5, <1>6, SpecHasAxes DEF LoopDone, AfterLoop, Following, Loops, VerbOf, Allowed
  <1>9. UpSoFar'
    BY <1>0, <1>1, <1>4, <1>5, <1>6, SpecHasAxes DEF LoopDone, AfterLoop, Following, Loops, VerbOf, UpSoFar
  <1>10. DownSoFar'
    BY <1>0, <1>1, <1>4, <1>5, <1>6, SpecHasAxes DEF LoopDone, AfterLoop, Following, Loops, VerbOf, DownSoFar
  <1>11. GateSoFar'
    BY <1>0, <1>1, <1>4, <1>5, <1>6, SpecHasAxes DEF LoopDone, AfterLoop, Following, Loops, VerbOf, Allowed, GateSoFar
  <1>12. ProvisionedMeansLive'
    BY <1>0, <1>1, <1>4, <1>5, <1>6, SpecHasAxes DEF LoopDone, AfterLoop, Following, Loops, VerbOf, UpSoFar, ProvisionedMeansLive
  <1>. QED
    BY <1>7, <1>8, <1>9, <1>10, <1>11, <1>12

LEMMA CancelContextStep ==
  ASSUME OpIInv, CancelContext PROVE OpIInv'
  <1>4. UNCHANGED <<st, exists, project, volumes, op, stage, steps, outputs>>
    BY DEF CancelContext
  <1>5. /\ UNCHANGED OK
        /\ \A r : Held(r) => Held(r)'
        /\ \A q, b : HadTurn(q, b) => HadTurn(q, b)'
        /\ \A b : Reported(b) => Reported(b)'
    BY <1>4 DEF OK, Held, HadTurn, Reported, Results, Has
  <1>. USE DEF OpIInv, LifecycleTypeOK, Ended, Verifies, Has, Axes, StepResult, AtStage, Phases
  <1>7. LifecycleTypeOK'
    BY <1>4, <1>5, SpecHasAxes DEF CancelContext, VerbOf
  <1>8. VerbOf' /\ Allowed'
    BY <1>4, <1>5, SpecHasAxes DEF CancelContext, VerbOf, Allowed
  <1>9. UpSoFar'
    BY <1>4, <1>5, SpecHasAxes DEF CancelContext, VerbOf, UpSoFar
  <1>10. DownSoFar'
    BY <1>4, <1>5, SpecHasAxes DEF CancelContext, VerbOf, DownSoFar
  <1>11. GateSoFar'
    BY <1>4, <1>5, SpecHasAxes DEF CancelContext, VerbOf, Allowed, GateSoFar
  <1>12. ProvisionedMeansLive'
    BY <1>4, <1>5, SpecHasAxes DEF CancelContext, VerbOf, UpSoFar, ProvisionedMeansLive
  <1>. QED
    BY <1>7, <1>8, <1>9, <1>10, <1>11, <1>12

LEMMA CrashStep ==
  ASSUME OpIInv, Crash PROVE OpIInv'
  <1>. USE DEF OpIInv, LifecycleTypeOK, Ended, Verifies, Has, Axes, StepResult, AtStage, Phases
  <1>7. LifecycleTypeOK'
    BY NoResults, SpecHasAxes DEF Crash, NoOp, Op, VerbOf
  <1>8. VerbOf' /\ Allowed'
    BY NoResults, SpecHasAxes DEF Crash, NoOp, Op, VerbOf, Allowed
  <1>9. UpSoFar'
    BY NoResults, SpecHasAxes DEF Crash, NoOp, Op, VerbOf, UpSoFar
  <1>10. DownSoFar'
    BY NoResults, SpecHasAxes DEF Crash, NoOp, Op, VerbOf, DownSoFar
  <1>11. GateSoFar'
    BY NoResults, SpecHasAxes DEF Crash, NoOp, Op, VerbOf, Allowed, GateSoFar
  <1>12. ProvisionedMeansLive'
    BY NoResults, SpecHasAxes DEF Crash, NoOp, Op, VerbOf, UpSoFar, ProvisionedMeansLive
  <1>. QED
    BY <1>7, <1>8, <1>9, <1>10, <1>11, <1>12

LEMMA BeginStep ==
  ASSUME OpIInv, Begin PROVE OpIInv'
  <1>1. OK'
    BY DEF Begin, OK
  <1>2. /\ stage' \in {AtStage("requires", 1), AtStage("assert_gone", 1), AtStage("guard", 0)}
        /\ stage' = AtStage("requires", 1) <=> op'.verb = "up"
        /\ stage' = AtStage("assert_gone", 1) <=> op'.verb = "verify"
        /\ op' \in [verb : {"none", "up", "down", "sleep", "verify"},
                   force : BOOLEAN, verify : BOOLEAN, dry : BOOLEAN]
        /\ op'.verb # "none"
    BY DEF Begin, FirstHook, AtStage, Op
  <1>3. UNCHANGED <<st, exists, project, volumes>> /\ steps' = <<>> /\ outputs' = {} /\ cancelled' = FALSE
    BY DEF Begin
  <1>4. stage' \in [phase : Phases \cup {"idle", "guard", "ended"}, i : Nat]
    BY <1>2 DEF AtStage, Phases
  <1>. USE DEF OpIInv, LifecycleTypeOK, Ended, Verifies, Has, Axes, StepResult, AtStage, Phases
  <1>7. LifecycleTypeOK'
    BY <1>2, <1>3, <1>4, NoResults
  <1>8. VerbOf' /\ Allowed'
    BY <1>1, <1>2, <1>3, NoResults, SpecHasAxes DEF VerbOf, Allowed
  <1>9. UpSoFar'
    BY <1>1, <1>2, <1>3, NoResults, SpecHasAxes DEF VerbOf, UpSoFar
  <1>10. DownSoFar'
    BY <1>1, <1>2, <1>3, NoResults, SpecHasAxes DEF VerbOf, DownSoFar
  <1>11. GateSoFar'
    BY <1>1, <1>2, <1>3, NoResults, SpecHasAxes DEF VerbOf, Allowed, GateSoFar
  <1>12. ProvisionedMeansLive'
    BY <1>1, <1>2, <1>3, NoResults, SpecHasAxes DEF VerbOf, UpSoFar, ProvisionedMeansLive
  <1>. QED
    BY <1>7, <1>8, <1>9, <1>10, <1>11, <1>12

LEMMA OpSteps == OpIInv /\ [LifecycleNext]_lifecycleVars => OpIInv'
  <1> SUFFICES ASSUME OpIInv, [LifecycleNext]_lifecycleVars PROVE OpIInv'
    OBVIOUS
  <1>1. CASE Begin
    BY <1>1, BeginStep
  <1>2. CASE Hook
    BY <1>2, RequirementStep, UpAxisStep, AssertLiveStep, ComposeUpStep, RefuseSharedStep, AllowStep,
       ComposeDownStep, ComposeSleepStep, DownAxisStep, UnverifiableStep, AssertGoneStep, SkipStep DEF Hook
  <1>3. CASE CancelContext
    BY <1>3, CancelContextStep
  <1>4. CASE Crash
    BY <1>4, CrashStep
  <1>5. CASE UNCHANGED lifecycleVars
    BY <1>5
    DEF lifecycleVars, OpIInv, LifecycleTypeOK, VerbOf, Allowed, UpSoFar, DownSoFar, GateSoFar,
        ProvisionedMeansLive, Ended, Verifies, OK, Held, HadTurn, Reported, Results, Has, Axes
  <1>. QED
    BY <1>1, <1>2, <1>3, <1>4, <1>5 DEF LifecycleNext

LEMMA OpHolds == LifecycleSpec => []OpIInv
  BY OpStarts, OpSteps, PTL DEF LifecycleSpec

\* Every variable of an operation keeps its type (stack.go, Result).
THEOREM OpTypeCorrect == LifecycleSpec => []LifecycleTypeOK
  <1>1. OpIInv => LifecycleTypeOK
    BY DEF OpIInv
  <1>. QED
    BY <1>1, OpHolds, PTL

-----------------------------------------------------------------------------
(***************************************************************************)
(* What the invariant says of an operation that has ended, and of a step.  *)
(***************************************************************************)

LEMMA EndedWell == OpIInv => CleanMeansGone /\ LeftIsReported /\ ProvisionedMeansLive
  <1> SUFFICES ASSUME OpIInv PROVE CleanMeansGone /\ LeftIsReported
    BY DEF OpIInv
  <1>1. OK => \A a : Reported(a) => ~Has(a, "assert_gone")
    BY DEF OK, Reported, Results
  <1>2. CleanMeansGone
    BY <1>1 DEF OpIInv, GateSoFar, CleanMeansGone
  <1>3. LeftIsReported
    BY DEF OpIInv, GateSoFar, LeftIsReported, Reported
  <1>. QED
    BY <1>2, <1>3

\* Which steps touch the world, and in what circumstances.
LEMMA WorldChanges ==
  ASSUME OpIInv, LifecycleNext, ~UNCHANGED world
  PROVE  /\ ~cancelled /\ ~op.dry
         /\ \/ /\ stage.phase = "up" /\ op.verb = "up" /\ ~Ended
               /\ exists \subseteq exists' /\ UNCHANGED <<project, volumes>>
            \/ /\ stage.phase = "compose" /\ op.verb = "up" /\ ~Ended
               /\ UNCHANGED exists /\ project' \in {project, TRUE} /\ volumes' \in {volumes, TRUE}
            \/ /\ stage.phase = "compose" /\ op.verb \in {"down", "sleep"}
               /\ UNCHANGED exists /\ ~(~project /\ project')
               /\ op.verb = "sleep" => UNCHANGED volumes
            \/ /\ stage.phase = "down" /\ op.verb = "down"
               /\ exists' = exists \ {stage.i} /\ UNCHANGED <<project, volumes>>
  <1> USE DEF world, Runs
  <1>1. CASE UpAxis
    BY <1>1 DEF UpAxis, UpHook, OpIInv, VerbOf, Ended
  <1>2. CASE ComposeUp
    BY <1>2 DEF ComposeUp, Ended
  <1>3. CASE ComposeDown
    BY <1>3 DEF ComposeDown, ComposeDownTo, TakenDown
  <1>4. CASE ComposeSleep
    BY <1>4 DEF ComposeSleep, ComposeDownTo, TakenDown
  <1>5. CASE DownAxis
    BY <1>5 DEF DownAxis, DownHook, OpIInv, VerbOf
  <1>. QED
    BY <1>1, <1>2, <1>3, <1>4, <1>5
    DEF LifecycleNext, Hook, Begin, CancelContext, Crash, Requirement, AssertLive,
        RefuseShared, Allow, Unverifiable, AssertGone, Skip

LEMMA StepsKeepPromises ==
  OpIInv /\ [LifecycleNext]_lifecycleVars =>
    /\ [WaitsForRequirements]_lifecycleVars
    /\ [UndoesInReverse]_lifecycleVars
    /\ [DestroysAsDown]_lifecycleVars
    /\ [StopsSharedByForce]_lifecycleVars
    /\ [CancelledChangesNothing]_lifecycleVars
  <1> SUFFICES ASSUME OpIInv, LifecycleNext
               PROVE  /\ WaitsForRequirements /\ UndoesInReverse /\ DestroysAsDown
                      /\ StopsSharedByForce /\ CancelledChangesNothing
    OBVIOUS
  <1> USE DEF OpIInv, LifecycleTypeOK
  <1>1. CASE UNCHANGED world
    BY <1>1
    DEF world, WaitsForRequirements, UndoesInReverse, DestroysAsDown, StopsSharedByForce,
        CancelledChangesNothing
  <1>2. CASE ~UNCHANGED world
    <2>1. WaitsForRequirements
      <3>. SUFFICES ASSUME exists' \ exists # {} \/ (project' /\ ~project)
                    PROVE  (\A r \in 1 .. st.requires : Held(r)) /\ OK
        BY DEF WaitsForRequirements, Held
      <3>1. op.verb = "up" /\ ~Ended /\ ~op.dry /\ stage.phase # "requires"
        BY <1>2, WorldChanges
      <3>. QED
        BY <3>1 DEF UpSoFar
    <2>2. UndoesInReverse
      <3>. SUFFICES ASSUME NEW a \in exists, a \notin exists'
                    PROVE  /\ op.verb = "down"
                           /\ \A b \in Axes : b > a /\ Has(b, "down") => HadTurn("down", b)
                           /\ st.compose => HadTurn("compose", 0)
        BY DEF UndoesInReverse, HadTurn
      <3>1. stage.phase = "down" /\ op.verb = "down" /\ a = stage.i
        BY <1>2, WorldChanges
      <3>. QED
        BY <3>1 DEF DownSoFar
    <2>3. DestroysAsDown
      BY <1>2, WorldChanges DEF DestroysAsDown, Allowed
    <2>4. StopsSharedByForce
      BY <1>2, WorldChanges DEF StopsSharedByForce, Allowed
    <2>5. CancelledChangesNothing
      BY <1>2, WorldChanges DEF CancelledChangesNothing
    <2>. QED
      BY <2>1, <2>2, <2>3, <2>4, <2>5
  <1>. QED
    BY <1>1, <1>2

\* What an operation keeps to from its first step to its last (stack.go), for every
\* spec: the leak gate, fail fast, teardown in reverse, nothing lost but in a down,
\* nothing done for a cancelled job.
THEOREM OperationsAreSafe == LifecycleSpec => LifecycleSafety
  BY OpHolds, EndedWell, StepsKeepPromises, PTL
  DEF LifecycleSpec, LifecycleSafety, EffectsNeedRequirements, TeardownReverses,
      OnlyDownDestroys, SharedStands, CancelStops
--------------------------------------------------------------------------------
(***************************************************************************)
(* The watch: it says once what it saw, its verdict is earned, a stack has *)
(* one voice, and nobody is left waiting.                                  *)
(*                                                                         *)
(* Who may watch a stack is decided under the watcher's mutex, but Cancel  *)
(* takes a watch out of the map before its goroutine is done. What keeps   *)
(* the voices apart all the same is Voices: whoever still watches is in    *)
(* the map, or has been stopped by a Cancel that waits for it; and the one *)
(* in the map is the youngest of its stack.                                *)
(***************************************************************************)
\* The types of what a watch has said, and of what a caller does.
Told == [pending : SUBSET ContainerNames, ends : 0 .. 2, of : [ContainerNames -> 0 .. 2]]
Calls == [at : {"idle", "starts", "replacing", "stopping", "asks", "found", "waiting"},
          watch : Watches \cup {NoWatch}, stack : WatchedStacks \cup {"none"},
          emit : BOOLEAN, answer : Verdicts \cup {"none", "drained", "watching"}]

Used(w) == watchStatus[w] # "unused"
Live(w) == Used(w) /\ loop[w] # "done"

\* Where the goroutine of a watch is says whether the watch is settled.
LoopAgrees(w) ==
    /\ Used(w) <=> loop[w] # "none"
    /\ loop[w] \in {"poll", "look", "tell", "settle", "sleep"} => watchStatus[w] = "watching"
    /\ loop[w] = "end" => watchStatus[w] \in Verdicts

\* What it said it has entered in the snapshot before, and what it is about to say is new.
Announcing(w) ==
    /\ told[w].pending \subseteq announced[w]
    /\ loop[w] # "tell" => told[w].pending = {}
    /\ \A n \in ContainerNames :
         told[w].of[n] <= 1 /\ (told[w].of[n] # 0 => n \in announced[w] \ told[w].pending)
    /\ told[w].ends <= 1
    /\ told[w].ends = 1 => watchStatus[w] \in Verdicts /\ loop[w] # "end"
    /\ ~emit[w] \/ ~Used(w) =>
         told[w].pending = {} /\ told[w].ends = 0 /\ \A n \in ContainerNames : told[w].of[n] = 0

\* A verdict is what the snapshot says.
Earned(w, v) ==
    /\ v = "ready" => AllReady(stackContainers[w])
    /\ v = "failed" => AnyFailed(stackContainers[w])
    /\ v = "timedout" => age[w] >= Timeout

\* The goroutine carries a verdict from its look to where it settles it.
VerdictOf(w) ==
    /\ watchStatus[w] \in Verdicts => Earned(w, watchStatus[w])
    /\ loop[w] = "tell" => Earned(w, verdict[w])
    /\ loop[w] = "settle" => verdict[w] \in Verdicts /\ Earned(w, verdict[w])

Local(w) == LoopAgrees(w) /\ Announcing(w) /\ VerdictOf(w)

Stopping(c, w) == caller[c].at = "stopping" /\ caller[c].watch = w

\* Who watches a stack.
Voices ==
    /\ \A w \in Watches : Live(w) =>
         byStack[watchStack[w]] = w \/ (ctx[w] /\ \E c \in Callers : Stopping(c, w))
    /\ \A s \in WatchedStacks : byStack[s] # NoWatch =>
         /\ Used(byStack[s]) /\ watchStack[byStack[s]] = s
         /\ \A w \in Watches : Used(w) /\ watchStack[w] = s => w <= byStack[s]
    /\ \A w \in Watches : Used(w) =>
         watchStack[w] \in WatchedStacks /\ \A v \in Watches : v < w => Used(v)
    /\ \A w \in Watches : ~Used(w) => watchStack[w] = "none"

\* What a caller knows of its watch: who replaces one keeps the mutex, and has stopped it.
Knows(c) ==
    /\ caller[c].at \in {"starts", "replacing", "asks", "found"} => caller[c].stack \in WatchedStacks
    /\ caller[c].at = "replacing" =>
         /\ watcherMu = c /\ byStack[caller[c].stack] = caller[c].watch
    /\ caller[c].at \in {"replacing", "stopping", "found", "waiting"} =>
         caller[c].watch \in Watches /\ Used(caller[c].watch)
    /\ caller[c].at \in {"replacing", "stopping"} => ctx[caller[c].watch]
    /\ caller[c].at = "found" => caller[c].answer = "none"
    /\ caller[c].at = "waiting" /\ caller[c].answer = "watching" => ctx[caller[c].watch]

\* Who is in a list waits for its watch, and the list of a settled watch is empty.
Listed ==
    \A w \in Watches :
      /\ \A c \in waiters[w] : caller[c].at = "waiting" /\ caller[c].watch = w
      /\ watchStatus[w] \in Verdicts => waiters[w] = {}

GateIInv ==
    /\ ReadinessTypeOK
    /\ \A w \in Watches : Local(w)
    /\ Voices
    /\ \A c \in Callers : Knows(c)
    /\ Listed

-----------------------------------------------------------------------------
LEMMA Constants ==
    /\ MaxWatch \in Nat /\ NotAllocated \in Nat /\ Timeout \in Nat
    /\ "free" \notin Callers /\ Jobs \subseteq Callers /\ Readers \subseteq Callers
    /\ Watches \subseteq Nat \ {0}
    /\ NoWatch \notin Watches
  BY ReadinessAssumption DEF Callers, Watches, NoWatch

LEMMA InitTypeOK == ReadinessInit => ReadinessTypeOK
  BY Constants DEF ReadinessInit, ReadinessTypeOK, ContainerNames, Idle, Verdicts

LEMMA GateStarts == ReadinessInit => GateIInv
  <1> SUFFICES ASSUME ReadinessInit PROVE GateIInv
    OBVIOUS
  <1>1. ReadinessTypeOK
    BY InitTypeOK
  <1>2. ASSUME NEW w \in Watches PROVE Local(w)
    BY DEF ReadinessInit, Local, LoopAgrees, Announcing, VerdictOf, Used, Verdicts,
       ContainerNames
  <1>3. Voices
    BY DEF ReadinessInit, Voices, Live, Used
  <1>4. (\A c \in Callers : Knows(c)) /\ Listed
    BY DEF ReadinessInit, Knows, Listed, Idle, Verdicts
  <1>. QED
    BY <1>1, <1>2, <1>3, <1>4 DEF GateIInv

(***************************************************************************)
(* Types.                                                                  *)
(***************************************************************************)
LEMMA JudgedType ==
  ASSUME NEW c, NEW w
  PROVE  Judged(c, w) \in {"ready", "failed", "pending"}
  BY DEF Judged, WatchVerdict

LEMMA CallsType ==
  /\ \A r \in Calls, a \in Verdicts \cup {"none", "drained", "watching"} : [r EXCEPT !.answer = a] \in Calls
  /\ \A r \in Calls : [r EXCEPT !.at = "waiting"] \in Calls
  /\ \A at \in {"starts", "asks", "stopping", "found"}, w \in Watches \cup {NoWatch}, x \in WatchedStacks :
       Doing(at, w, x) \in Calls
  /\ Idle \in Calls
  BY DEF Calls, Doing, Idle

LEMMA NamesOfSample ==
  ASSUME NEW sample \in Samples, NEW c \in sample
  PROVE  c.name \in ContainerNames
  BY DEF ContainerNames

LEMMA LoopTypes ==
  ASSUME ReadinessTypeOK, NEW w \in Watches, Local(w), Loop(w) \/ Elapse(w)
  PROVE  ReadinessTypeOK'
  <1> USE Constants DEF ReadinessTypeOK, GoTo, Verdicts
  <1>1. CASE Poll(w)
    BY <1>1 DEF Poll
  <1>2. CASE LookInVain(w)
    BY <1>2 DEF LookInVain
  <1>3. CASE LookAtStack(w)
    <2>1. PICK sample \in Samples : LookAtStack(w)!2!(sample)
      BY <1>3 DEF LookAtStack
    <2> DEFINE judged == {[name |-> c.name, verdict |-> Judged(c, w)] : c \in sample}
               news == {c.name : c \in Announces(w, judged)}
    <2>2. judged \subseteq Judgements
      BY JudgedType, NamesOfSample DEF Judgements
    <2>3. news \subseteq ContainerNames
      BY <2>2 DEF Announces, Judgements
    <2>4. /\ stackContainers' = [stackContainers EXCEPT ![w] = judged]
          /\ announced' = [announced EXCEPT ![w] = @ \cup news]
          /\ told' = [told EXCEPT ![w] = [@ EXCEPT !.pending = IF emit[w] THEN news ELSE {}]]
          /\ verdict' = [verdict EXCEPT ![w] =
               IF AnyFailed(judged) THEN "failed" ELSE IF AllReady(judged) THEN "ready" ELSE "none"]
      BY <2>1
    <2> HIDE DEF judged, news
    <2>5. told' \in [Watches -> Told]
      <3>1. [told[w] EXCEPT !.pending = IF emit[w] THEN news ELSE {}] \in Told
        <4>1. told[w] \in Told
          BY DEF Told
        <4>. QED
          BY <2>3, <4>1 DEF Told
      <3>. QED
        BY <2>4, <3>1 DEF Told
    <2>. QED
      BY <1>3, <2>2, <2>3, <2>4, <2>5 DEF LookAtStack, Told
  <1>4. CASE Tell(w)
    <2>1. told[w] \in Told
      BY DEF Told
    <2>2. ASSUME NEW n \in ContainerNames
          PROVE  (IF n \in told[w].pending THEN Twice(told[w].of[n]) ELSE told[w].of[n]) \in 0 .. 2
      BY <2>1 DEF Told, Twice
    <2>3. DOMAIN told[w].of = ContainerNames
      BY <2>1 DEF Told
    <2>4. [n \in DOMAIN told[w].of |-> IF n \in told[w].pending THEN Twice(told[w].of[n]) ELSE told[w].of[n]]
            \in [ContainerNames -> 0 .. 2]
      BY <2>2, <2>3
    <2>5. told' \in [Watches -> Told]
      BY <1>4, <2>1, <2>4 DEF Tell, Told
    <2>. QED
      BY <1>4, <2>5 DEF Tell, Told
  <1>5. CASE SettleWatch(w)
    <2>3. verdict[w] \in Verdicts
      BY <1>5 DEF SettleWatch, Local, VerdictOf
    <2>1. \A c \in Callers : [caller[c] EXCEPT !.answer = verdict[w]] \in Calls /\ caller[c] \in Calls
      <3>1. \A c \in Callers : caller[c] \in Calls
        BY DEF Calls
      <3>. QED
        BY <2>3, <3>1, CallsType
    <2>2. caller' \in [Callers -> Calls]
      BY <1>5, <2>1 DEF SettleWatch
    <2>. QED
      BY <1>5, <2>2, <2>3 DEF SettleWatch, Calls
  <1>6. CASE End(w)
    <2>1. told[w] \in Told /\ (IF emit[w] THEN Twice(told[w].ends) ELSE told[w].ends) \in 0 .. 2
      BY DEF Told, Twice
    <2>2. told' \in [Watches -> Told]
      BY <1>6, <2>1 DEF End, Told
    <2>. QED
      BY <1>6, <2>2 DEF End, Told
  <1>7. CASE Check(w)
    BY <1>7 DEF Check
  <1>8. CASE WakeUp(w)
    BY <1>8 DEF WakeUp
  <1>9. CASE Elapse(w)
    BY <1>9 DEF Elapse
  <1>. QED
    BY <1>1, <1>2, <1>3, <1>4, <1>5, <1>6, <1>7, <1>8, <1>9 DEF Loop

\* A watch that starts takes the first number that is not used.
Created(s, loud, w) ==
    /\ ~Used(w) /\ \A v \in Watches : ~Used(v) => w <= v
    /\ byStack' = [byStack EXCEPT ![s] = w]
    /\ watchStack' = [watchStack EXCEPT ![w] = s]
    /\ emit' = [emit EXCEPT ![w] = loud]
    /\ watchStatus' = [watchStatus EXCEPT ![w] = "watching"]
    /\ loop' = [loop EXCEPT ![w] = "poll"]
    /\ UNCHANGED <<stackContainers, ctx, verdict, announced, waiters, age, told>>

LEMMA CreateNumbers ==
  ASSUME NEW s, NEW loud, CreateWatch(s, loud)
  PROVE  \E w \in Watches : Created(s, loud, w)
  BY DEF CreateWatch, Created, Fresh, Used, GoTo

\* What a step of a caller does to the watches: it starts one, stops one, or neither.
Settled == UNCHANGED <<watchStack, emit, watchStatus, stackContainers, loop, verdict, announced, age, told>>

CallerStep(c) ==
    \/ \E s \in WatchedStacks : Deploy(c, s) \/ EndWatch(c, s) \/ Read(c, s)
    \/ Continue(c)

\* Start, when the stack has no watch and when it has one.
BeginsNew(c, s, loud, w) ==
    /\ byStack[s] = NoWatch /\ Created(s, loud, w)
    /\ caller' = [caller EXCEPT ![c] = Then(loud, s)] /\ UNCHANGED watcherMu

BeginsToReplace(c, s, loud) ==
    /\ byStack[s] # NoWatch
    /\ watcherMu' = c
    /\ caller' = [caller EXCEPT ![c] = [Doing("replacing", byStack[s], s) EXCEPT !.emit = loud]]
    /\ ctx' = [ctx EXCEPT ![byStack[s]] = TRUE]
    /\ UNCHANGED <<byStack, waiters>> /\ Settled

LEMMA BeginSplits ==
  ASSUME NEW c, NEW s, NEW loud, BeginWatch(c, s, loud)
  PROVE  /\ watcherMu = "free"
         /\ (\E w \in Watches : BeginsNew(c, s, loud, w)) \/ BeginsToReplace(c, s, loud)
  BY CreateNumbers DEF BeginWatch, BeginsNew, BeginsToReplace, Become, Settled

LEMMA BeginWatchTypes ==
  ASSUME ReadinessTypeOK, NEW c \in Callers, NEW s \in WatchedStacks, NEW loud \in BOOLEAN,
         BeginWatch(c, s, loud)
  PROVE  ReadinessTypeOK'
  <1> USE Constants DEF ReadinessTypeOK, Verdicts, Become
  <1>0. Then(loud, s) \in Calls /\ \A w \in Watches : [Doing("replacing", w, s) EXCEPT !.emit = loud] \in Calls
    BY DEF Then, Idle, Doing, Calls
  <1>1. ASSUME NEW w \in Watches, BeginsNew(c, s, loud, w) PROVE ReadinessTypeOK'
    <2>1. caller' \in [Callers -> Calls]
      BY <1>0, <1>1 DEF Calls, BeginsNew
    <2>. QED
      BY <1>1, <2>1 DEF BeginsNew, Created, Calls
  <1>2. CASE BeginsToReplace(c, s, loud)
    <2>1. caller' \in [Callers -> Calls]
      BY <1>0, <1>2 DEF Calls, BeginsToReplace
    <2>. QED
      BY <1>2, <2>1 DEF Calls, BeginsToReplace, Settled
  <1>. QED
    BY <1>1, <1>2, BeginSplits

LEMMA CallerTypes ==
  ASSUME ReadinessTypeOK, NEW c \in Callers, Knows(c), CallerStep(c)
  PROVE  ReadinessTypeOK'
  <1> USE Constants DEF ReadinessTypeOK, Verdicts, Become, watchOfVars
  <1>1. CASE \E s \in WatchedStacks : Deploy(c, s)
    <2>. QED
      BY <1>1, BeginWatchTypes DEF Deploy
  <1>2. CASE \E s \in WatchedStacks : EndWatch(c, s)
    <2>1. PICK s \in WatchedStacks : EndWatch(c, s)
      BY <1>2
    <2>2. Doing("stopping", byStack[s], s) \in Calls
      BY DEF Doing, Calls
    <2>3. caller' = [caller EXCEPT ![c] = Doing("stopping", byStack[s], s)]
      BY <2>1 DEF EndWatch
    <2>4. caller' \in [Callers -> Calls]
      BY <2>2, <2>3 DEF Calls
    <2>. QED
      BY <2>1, <2>4 DEF EndWatch, Calls
  <1>3. CASE \E s \in WatchedStacks : Read(c, s)
    <2>1. PICK s \in WatchedStacks : Read(c, s)
      BY <1>3
    <2>2. Doing("starts", NoWatch, s) \in Calls /\ Doing("asks", NoWatch, s) \in Calls
      BY DEF Doing, Calls
    <2>3. PICK r \in Calls : caller' = [caller EXCEPT ![c] = r]
      BY <2>1, <2>2 DEF Read
    <2>4. caller' \in [Callers -> Calls]
      BY <2>3 DEF Calls
    <2>. QED
      BY <2>1, <2>4 DEF Read, Calls
  <1>4. CASE StartSilent(c)
    <2>. QED
      BY <1>4, BeginWatchTypes DEF StartSilent, Knows
  <1>5. CASE Drain(c)
    <2>1. \A d \in Callers :
            /\ [caller[d] EXCEPT !.answer = "drained"] \in Calls
            /\ [caller[d] EXCEPT !.answer = watchStatus[caller[c].watch]] \in Calls
            /\ caller[d] \in Calls
      <3>1. watchStatus[caller[c].watch] \in Verdicts \cup {"watching"}
        BY <1>5 DEF Drain, Knows, Used
      <3>2. \A d \in Callers : caller[d] \in Calls
        BY DEF Calls
      <3>. QED
        BY <3>1, <3>2, CallsType
    <2>2. caller' \in [Callers -> Calls]
      BY <1>5, <2>1 DEF Drain
    <2>. QED
      BY <1>5, <2>2 DEF Drain, Calls
  <1>6. CASE Replace(c)
    <2>1. PICK w \in Watches : Created(caller[c].stack, caller[c].emit, w)
      BY <1>6, CreateNumbers DEF Replace
    <2>2. Then(caller[c].emit, caller[c].stack) \in Calls /\ caller[c].stack \in WatchedStacks
      BY <1>6 DEF Replace, Then, Idle, Doing, Calls, Knows
    <2>3. caller' \in [Callers -> Calls]
      BY <1>6, <2>2 DEF Replace, Calls
    <2>4. caller[c].emit \in BOOLEAN
      OBVIOUS
    <2>. QED
      BY <1>6, <2>1, <2>2, <2>3, <2>4 DEF Replace, Created, Calls
  <1>7. CASE CancelReturns(c)
    <2>0. caller \in [Callers -> Calls]
      BY DEF Calls
    <2>1. caller' \in [Callers -> Calls]
      BY <1>7, <2>0, CallsType DEF CancelReturns, Knows
    <2>. QED
      BY <1>7, <2>1 DEF CancelReturns, Calls
  <1>8. CASE FindWatch(c)
    <2>0. caller \in [Callers -> Calls]
      BY DEF Calls
    <2>1. caller' \in [Callers -> Calls]
      BY <1>8, <2>0, CallsType DEF FindWatch, Knows
    <2>. QED
      BY <1>8, <2>1 DEF FindWatch, Calls
  <1>9. CASE Join(c)
    <2>1. Idle \in Calls /\ [caller[c] EXCEPT !.at = "waiting"] \in Calls
      <3>1. caller[c] \in Calls
        BY DEF Calls
      <3>. QED
        BY <3>1, CallsType
    <2>2. PICK r \in Calls : caller' = [caller EXCEPT ![c] = r]
      BY <1>9, <2>1 DEF Join
    <2>3. caller' \in [Callers -> Calls]
      BY <2>2 DEF Calls
    <2>4. \/ waiters' = waiters
          \/ waiters' = [waiters EXCEPT ![caller[c].watch] = @ \cup {c}]
      BY <1>9 DEF Join
    <2>5. waiters' \in [Watches -> SUBSET Callers]
      BY <2>4
    <2>. QED
      BY <1>9, <2>3, <2>5 DEF Join, Calls
  <1>10. CASE WaitReturns(c)
    <2>0. caller \in [Callers -> Calls]
      BY DEF Calls
    <2>1. caller' \in [Callers -> Calls]
      BY <1>10, <2>0, CallsType DEF WaitReturns, Knows
    <2>. QED
      BY <1>10, <2>1 DEF WaitReturns, Calls
  <1>. QED
    BY <1>1, <1>2, <1>3, <1>4, <1>5, <1>6, <1>7, <1>8, <1>9, <1>10
    DEF CallerStep, Continue

(***************************************************************************)
(* A goroutine of a watch: its own part of the invariant, and the others'. *)
(***************************************************************************)
LEMMA SameLocal ==
  ASSUME NEW v, Local(v), emit'[v] = emit[v], watchStatus'[v] = watchStatus[v],
         stackContainers'[v] = stackContainers[v], loop'[v] = loop[v], verdict'[v] = verdict[v],
         announced'[v] = announced[v], told'[v] = told[v], age'[v] = age[v]
  PROVE  Local(v)'
  BY DEF Local, LoopAgrees, Announcing, VerdictOf, Used, Earned

LEMMA LoopLocal ==
  ASSUME ReadinessTypeOK, NEW w \in Watches, Local(w), Loop(w) \/ Elapse(w)
  PROVE  Local(w)'
  <1> USE Constants DEF ReadinessTypeOK, Local, LoopAgrees, Announcing, VerdictOf, Used, Earned, Verdicts, GoTo
  <1>1. CASE Poll(w)
    BY <1>1 DEF Poll
  <1>2. CASE LookInVain(w)
    BY <1>2 DEF LookInVain
  <1>3. CASE LookAtStack(w)
    <2>1. PICK sample \in Samples : LookAtStack(w)!2!(sample)
      BY <1>3 DEF LookAtStack
    <2> DEFINE judged == {[name |-> c.name, verdict |-> Judged(c, w)] : c \in sample}
               news == {c.name : c \in Announces(w, judged)}
    <2>2. news \cap announced[w] = {}
      BY DEF Announces
    <2>3. /\ stackContainers'[w] = judged
          /\ announced'[w] = announced[w] \cup news
          /\ told'[w] = [told[w] EXCEPT !.pending = IF emit[w] THEN news ELSE {}]
          /\ verdict'[w] =
               IF AnyFailed(judged) THEN "failed" ELSE IF AllReady(judged) THEN "ready" ELSE "none"
      BY <2>1
    <2>4. loop[w] = "look" /\ loop'[w] = "tell" /\ UNCHANGED <<emit, watchStatus, age>>
      BY <1>3 DEF LookAtStack
    <2> HIDE DEF judged, news
    <2>5. /\ told'[w].pending = IF emit[w] THEN news ELSE {}
          /\ told'[w].ends = told[w].ends /\ told'[w].of = told[w].of
      BY <2>3
    <2>6. (LoopAgrees(w) /\ Announcing(w))'
      BY <2>2, <2>3, <2>4, <2>5
    <2>7. VerdictOf(w)'
      BY <2>3, <2>4 DEF AllReady, AnyFailed
    <2>. QED
      BY <2>6, <2>7
  <1>4. CASE Tell(w)
    BY <1>4 DEF Tell, Twice
  <1>5. CASE SettleWatch(w)
    BY <1>5 DEF SettleWatch
  <1>6. CASE End(w)
    BY <1>6 DEF End, Twice
  <1>7. CASE Check(w)
    BY <1>7 DEF Check
  <1>8. CASE WakeUp(w)
    BY <1>8 DEF WakeUp
  <1>9. CASE Elapse(w)
    BY <1>9 DEF Elapse
  <1>. QED
    BY <1>1, <1>2, <1>3, <1>4, <1>5, <1>6, <1>7, <1>8, <1>9 DEF Loop

LEMMA LoopIsLocal ==
  ASSUME ReadinessTypeOK, NEW w \in Watches, Loop(w) \/ Elapse(w)
  PROVE  /\ UNCHANGED <<byStack, watcherMu, watchStack, ctx>>
         /\ \A v \in Watches \ {w} :
              /\ emit'[v] = emit[v] /\ watchStatus'[v] = watchStatus[v]
              /\ stackContainers'[v] = stackContainers[v] /\ loop'[v] = loop[v]
              /\ verdict'[v] = verdict[v] /\ announced'[v] = announced[v]
              /\ told'[v] = told[v] /\ age'[v] = age[v] /\ waiters'[v] = waiters[v]
         /\ loop[w] \notin {"none", "done"} /\ loop'[w] # "none" /\ Used(w) = Used(w)'
  <1> USE DEF ReadinessTypeOK, GoTo, Used
  <1>1. CASE Poll(w)
    BY <1>1 DEF Poll
  <1>2. CASE LookInVain(w)
    BY <1>2 DEF LookInVain
  <1>3. CASE LookAtStack(w)
    BY <1>3 DEF LookAtStack
  <1>4. CASE Tell(w)
    BY <1>4 DEF Tell
  <1>5. CASE SettleWatch(w)
    BY <1>5 DEF SettleWatch, Local, VerdictOf, Verdicts
  <1>6. CASE End(w)
    BY <1>6 DEF End
  <1>7. CASE Check(w)
    BY <1>7 DEF Check
  <1>8. CASE WakeUp(w)
    BY <1>8 DEF WakeUp
  <1>9. CASE Elapse(w)
    BY <1>9 DEF Elapse
  <1>. QED
    BY <1>1, <1>2, <1>3, <1>4, <1>5, <1>6, <1>7, <1>8, <1>9 DEF Loop

\* A settled watch answers those in its list, and leaves the callers where they are.
LEMMA LoopAnswers ==
  ASSUME ReadinessTypeOK, NEW w \in Watches, Local(w), Loop(w) \/ Elapse(w)
  PROVE  \A c \in Callers :
           /\ caller'[c].at = caller[c].at /\ caller'[c].watch = caller[c].watch
           /\ caller'[c].stack = caller[c].stack
           /\ caller'[c].answer = caller[c].answer \/ (c \in waiters[w] /\ caller'[c].answer \in Verdicts)
  <1>1. CASE SettleWatch(w)
    <2>1. verdict[w] \in Verdicts
      BY <1>1 DEF SettleWatch, Local, VerdictOf
    <2>. QED
      BY <1>1, <2>1 DEF SettleWatch, ReadinessTypeOK
  <1>2. CASE ~SettleWatch(w)
    BY <1>2 DEF Loop, Poll, LookInVain, LookAtStack, Tell, End, Check, WakeUp, Elapse
  <1>. QED
    BY <1>1, <1>2

\* Nothing starts a watch, and no Cancel leaves while its watch goes on.
LEMMA SameVoices ==
  ASSUME ReadinessTypeOK, Voices, UNCHANGED <<byStack, watchStack>>,
         \A v \in Watches : Used(v)' = Used(v) /\ (Live(v)' => Live(v)) /\ (ctx[v] => ctx'[v]),
         \A c \in Callers, v \in Watches : Stopping(c, v) /\ Live(v)' => Stopping(c, v)'
  PROVE  Voices'
  <1>1. ASSUME NEW w \in Watches, Live(w)'
        PROVE  byStack'[watchStack'[w]] = w \/ (ctx'[w] /\ \E c \in Callers : Stopping(c, w)')
    BY <1>1 DEF Voices
  <1>2. ASSUME NEW s \in WatchedStacks, byStack[s] # NoWatch
        PROVE  /\ Used(byStack[s])' /\ watchStack[byStack[s]] = s
               /\ \A w \in Watches : Used(w)' /\ watchStack[w] = s => w <= byStack[s]
    BY <1>2 DEF Voices, ReadinessTypeOK
  <1>3. ASSUME NEW w \in Watches, Used(w)'
        PROVE  watchStack[w] \in WatchedStacks /\ \A v \in Watches : v < w => Used(v)'
    BY <1>3 DEF Voices
  <1>4. \A w \in Watches : ~Used(w)' => watchStack[w] = "none"
    BY DEF Voices
  <1>. QED
    BY <1>1, <1>2, <1>3, <1>4 DEF Voices

LEMMA LoopIInv ==
  ASSUME GateIInv, NEW w \in Watches, Loop(w) \/ Elapse(w)
  PROVE  GateIInv'
  <1> USE DEF GateIInv
  <1>1. ReadinessTypeOK'
    BY LoopTypes
  <1>2. ASSUME NEW v \in Watches PROVE Local(v)'
    <2>1. CASE v = w
      BY <2>1, LoopLocal
    <2>2. CASE v # w
      BY <2>2, LoopIsLocal, SameLocal
    <2>. QED
      BY <2>1, <2>2
  <1>3. \A v \in Watches : Used(v) = Used(v)' /\ (Live(v)' => Live(v))
    BY LoopIsLocal DEF Used, Live
  <1>4. UNCHANGED <<byStack, watcherMu, watchStack, ctx>>
    BY LoopIsLocal
  <1>5. Voices'
    <2>1. \A c \in Callers, v \in Watches : Stopping(c, v) => Stopping(c, v)'
      BY LoopAnswers DEF Stopping
    <2>. QED
      BY <1>3, <1>4, <2>1, SameVoices
  <1>6. ASSUME NEW c \in Callers PROVE Knows(c)'
    <2>1. c \in waiters[w] => caller[c].at = "waiting"
      BY DEF Listed
    <2>. QED
      BY <2>1, <1>3, <1>4, LoopAnswers DEF Knows, Verdicts
  <1>7. Listed'
    <2>1. CASE SettleWatch(w)
      BY <2>1, LoopAnswers, LoopIsLocal DEF SettleWatch, Listed, ReadinessTypeOK
    <2>2. CASE ~SettleWatch(w)
      <3>1. UNCHANGED waiters /\ UNCHANGED watchStatus
        BY <2>2
        DEF Loop, Poll, LookInVain, LookAtStack, Tell, End, Check, WakeUp, Elapse
      <3>. QED
        BY <3>1, LoopAnswers DEF Listed, ReadinessTypeOK
    <2>. QED
      BY <2>1, <2>2
  <1>. QED
    BY <1>1, <1>2, <1>5, <1>6, <1>7

(***************************************************************************)
(* A caller.                                                               *)
(***************************************************************************)
LEMMA CreatedLocal ==
  ASSUME ReadinessTypeOK, \A v \in Watches : Local(v), NEW s, NEW loud \in BOOLEAN, NEW w \in Watches,
         Created(s, loud, w), NEW v \in Watches
  PROVE  Local(v)'
  <1> USE DEF ReadinessTypeOK
  <1>1. CASE v = w
    <2>1. /\ ~Used(w) /\ loop[w] = "none"
      BY <1>1 DEF Created, Local, LoopAgrees
    <2>2. /\ emit'[w] = loud /\ watchStatus'[w] = "watching" /\ loop'[w] = "poll"
          /\ UNCHANGED <<stackContainers, verdict, announced, told, age>>
      BY <1>1 DEF Created
    <2>. QED
      BY <1>1, <2>1, <2>2 DEF Local, LoopAgrees, Announcing, VerdictOf, Used, Verdicts
  <1>2. CASE v # w
    <2>1. /\ emit'[v] = emit[v] /\ watchStatus'[v] = watchStatus[v] /\ loop'[v] = loop[v]
          /\ UNCHANGED <<stackContainers, verdict, announced, told, age>>
      BY <1>2 DEF Created
    <2>. QED
      BY <2>1, SameLocal
  <1>. QED
    BY <1>1, <1>2

\* Starting a watch for a stack whose watch, if any, is done.
LEMMA CreatedVoices ==
  ASSUME ReadinessTypeOK, Voices, \A v \in Watches : Local(v), NEW s \in WatchedStacks, NEW loud,
         NEW w \in Watches, Created(s, loud, w), byStack[s] # NoWatch => loop[byStack[s]] = "done",
         \A c \in Callers : caller[c].at = "stopping" => caller'[c] = caller[c]
  PROVE  Voices'
  <1> USE Constants DEF ReadinessTypeOK
  <1>0. /\ ~Used(w) /\ \A v \in Watches : ~Used(v) => w <= v
        /\ byStack' = [byStack EXCEPT ![s] = w]
        /\ watchStack' = [watchStack EXCEPT ![w] = s]
        /\ \A v \in Watches : v # w => Used(v)' = Used(v) /\ Live(v)' = Live(v)
        /\ Used(w)' /\ ctx' = ctx
    BY DEF Created, Used, Live
  <1>1. \A v \in Watches : Used(v) => v < w
    <2> SUFFICES ASSUME NEW v \in Watches, Used(v) PROVE v < w
      OBVIOUS
    <2>1. ~(v > w)
      BY <1>0 DEF Voices
    <2>2. v # w
      BY <1>0
    <2>3. v \in Nat /\ w \in Nat
      OBVIOUS
    <2>. QED
      BY <2>1, <2>2, <2>3, SMT
  <1>2. ASSUME NEW v \in Watches, Live(v)'
        PROVE  byStack'[watchStack'[v]] = v \/ (ctx'[v] /\ \E c \in Callers : Stopping(c, v)')
    <2>1. CASE v = w
      <3>1. watchStack'[w] = s /\ byStack'[s] = w
        BY <1>0
      <3>. QED
        BY <2>1, <3>1
    <2>2. CASE v # w
      <3>1. Live(v) /\ watchStack'[v] = watchStack[v] /\ watchStack[v] \in WatchedStacks
        BY <1>0, <1>2, <2>2 DEF Voices, Live
      <3>2. byStack[watchStack[v]] = v => watchStack[v] # s
        BY <3>1 DEF Live
      <3>3. CASE byStack[watchStack[v]] = v
        BY <1>0, <3>1, <3>2, <3>3
      <3>4. CASE ctx[v] /\ \E c \in Callers : Stopping(c, v)
        BY <1>0, <3>4 DEF Stopping
      <3>. QED
        BY <3>1, <3>3, <3>4 DEF Voices
    <2>. QED
      BY <2>1, <2>2
  <1>3. ASSUME NEW x \in WatchedStacks, byStack'[x] # NoWatch
        PROVE  /\ Used(byStack[x])' /\ watchStack'[byStack'[x]] = x
               /\ \A v \in Watches : Used(v)' /\ watchStack'[v] = x => v <= byStack'[x]
    <2>1. CASE x = s
      <3>1. byStack'[x] = w /\ watchStack'[w] = x
        BY <1>0, <2>1
      <3>2. \A v \in Watches : Used(v)' => v <= w
        BY <1>0, <1>1
      <3>. QED
        BY <1>0, <3>1, <3>2
    <2>2. CASE x # s
      <3>1. byStack'[x] = byStack[x] /\ byStack[x] \in Watches /\ byStack[x] # w
        BY <1>0, <1>3, <2>2 DEF Voices
      <3>2. /\ Used(byStack[x]) /\ watchStack[byStack[x]] = x
            /\ \A v \in Watches : Used(v) /\ watchStack[v] = x => v <= byStack[x]
        BY <1>3, <3>1 DEF Voices
      <3>3. \A v \in Watches : watchStack'[v] = x => v # w
        BY <1>0, <2>2
      <3>. QED
        BY <1>0, <2>2, <3>1, <3>2, <3>3
    <2>. QED
      BY <2>1, <2>2
  <1>4. ASSUME NEW v \in Watches, Used(v)'
        PROVE  watchStack'[v] \in WatchedStacks /\ \A u \in Watches : u < v => Used(u)'
    <2>1. watchStack'[v] \in WatchedStacks
      BY <1>0, <1>4 DEF Voices
    <2>2. v <= w
      BY <1>0, <1>1, <1>4
    <2>3. ASSUME NEW u \in Watches, u < v PROVE Used(u)'
      <3>1. u # w /\ ~(w <= u)
        BY <2>2, <2>3
      <3>. QED
        BY <1>0, <3>1
    <2>. QED
      BY <2>1, <2>3
  <1>5. \A v \in Watches : ~Used(v)' => watchStack'[v] = "none"
    BY <1>0 DEF Voices
  <1>. QED
    BY <1>2, <1>3, <1>4, <1>5 DEF Voices

LEMMA CallerLocal ==
  ASSUME GateIInv, NEW c \in Callers, CallerStep(c), NEW v \in Watches
  PROVE  Local(v)'
  <1> USE DEF GateIInv
  <1>1. CASE Settled
    BY <1>1, SameLocal DEF Settled
  <1>2. ASSUME NEW s \in WatchedStacks, NEW loud \in BOOLEAN, BeginWatch(c, s, loud)
        PROVE  Local(v)'
    <2>1. CASE BeginsToReplace(c, s, loud)
      BY <1>1, <2>1 DEF BeginsToReplace
    <2>2. ASSUME NEW w \in Watches, BeginsNew(c, s, loud, w) PROVE Local(v)'
      BY <2>2, CreatedLocal DEF BeginsNew
    <2>. QED
      BY <1>2, <2>1, <2>2, BeginSplits
  <1>3. CASE Replace(c)
    <2>1. PICK w \in Watches : Created(caller[c].stack, caller[c].emit, w)
      BY <1>3, CreateNumbers DEF Replace
    <2>2. caller[c].emit \in BOOLEAN
      BY DEF ReadinessTypeOK
    <2>. QED
      BY <2>1, <2>2, CreatedLocal
  <1>4. CASE StartSilent(c)
    BY <1>2, <1>4 DEF StartSilent, Knows
  <1>5. ASSUME NEW s \in WatchedStacks, Deploy(c, s) PROVE Local(v)'
    BY <1>2, <1>5 DEF Deploy
  <1>6. ASSUME NEW s \in WatchedStacks, EndWatch(c, s) \/ Read(c, s) PROVE Local(v)'
    BY <1>1, <1>6 DEF EndWatch, Read, Settled, watchOfVars
  <1>7. CASE Drain(c) \/ CancelReturns(c) \/ FindWatch(c) \/ Join(c) \/ WaitReturns(c)
    BY <1>1, <1>7
    DEF Drain, CancelReturns, FindWatch, Join, WaitReturns, Settled, watchOfVars
  <1>. QED
    BY <1>3, <1>4, <1>5, <1>6, <1>7 DEF CallerStep, Continue

\* A start by c for s: what it keeps, whether it starts a watch or sets out to replace one.
LEMMA BeginIInv ==
  ASSUME GateIInv, NEW c \in Callers, NEW s \in WatchedStacks, NEW loud \in BOOLEAN, BeginWatch(c, s, loud),
         caller[c] = Idle \/ caller[c].at = "starts"
  PROVE  Voices' /\ (\A d \in Callers : Knows(d)') /\ Listed'
  <1> USE DEF GateIInv
  <1>0. /\ watcherMu = "free" /\ caller[c].at \in {"idle", "starts"}
        /\ \A d \in Callers : caller[d].at # "replacing"
    BY Constants, BeginSplits DEF Idle, Knows
  <1>1. ASSUME NEW w \in Watches, BeginsNew(c, s, loud, w)
        PROVE  Voices' /\ (\A d \in Callers : Knows(d)') /\ Listed'
    <2>1. Voices'
      BY <1>0, <1>1, CreatedVoices DEF BeginsNew, ReadinessTypeOK
    <2>2. /\ caller' = [caller EXCEPT ![c] = Then(loud, s)]
          /\ Then(loud, s).at \in {"idle", "asks"}
          /\ Then(loud, s).at = "asks" => Then(loud, s).stack = s
          /\ UNCHANGED <<watcherMu, ctx, waiters>>
          /\ ~Used(w) /\ watchStatus' = [watchStatus EXCEPT ![w] = "watching"]
      BY <1>1 DEF BeginsNew, Created, Then, Idle, Doing
    <2>3. ASSUME NEW d \in Callers PROVE Knows(d)'
      BY <1>0, <2>2 DEF Knows, Used, ReadinessTypeOK
    <2>4. Listed'
      BY <1>0, <2>2 DEF Listed, ReadinessTypeOK, Verdicts
    <2>. QED
      BY <2>1, <2>3, <2>4
  <1>2. CASE BeginsToReplace(c, s, loud)
    <2>1. /\ caller' = [caller EXCEPT ![c] = [Doing("replacing", byStack[s], s) EXCEPT !.emit = loud]]
          /\ watcherMu' = c /\ byStack[s] # NoWatch
          /\ ctx' = [ctx EXCEPT ![byStack[s]] = TRUE]
          /\ UNCHANGED <<byStack, watchStack, watchStatus, loop, waiters>>
      BY <1>2 DEF BeginsToReplace, Settled
    <2>2. byStack[s] \in Watches /\ Used(byStack[s])
      BY <2>1 DEF Voices, ReadinessTypeOK
    <2>3. Voices'
      BY <1>0, <2>1, <2>2, SameVoices DEF Used, Live, Stopping, ReadinessTypeOK
    <2>4. ASSUME NEW d \in Callers PROVE Knows(d)'
      BY <1>0, <2>1, <2>2 DEF Knows, Doing, Used, ReadinessTypeOK
    <2>5. Listed'
      BY <1>0, <2>1 DEF Listed, ReadinessTypeOK
    <2>. QED
      BY <2>3, <2>4, <2>5
  <1>. QED
    BY <1>1, <1>2, BeginSplits

LEMMA CallerIInv ==
  ASSUME GateIInv, NEW c \in Callers, CallerStep(c)
  PROVE  Voices' /\ (\A d \in Callers : Knows(d)') /\ Listed'
  <1> USE DEF GateIInv, Become
  <1>1. CASE \E s \in WatchedStacks : Deploy(c, s)
    <2>. QED
      BY <1>1, BeginIInv DEF Deploy
  <1>2. CASE \E s \in WatchedStacks : EndWatch(c, s)
    <2>0. PICK s \in WatchedStacks : EndWatch(c, s)
      BY <1>2
    <2> DEFINE w == byStack[s]
    <2>1. /\ w \in Watches /\ Used(w) /\ caller[c].at = "idle"
          /\ caller' = [caller EXCEPT ![c] = Doing("stopping", w, s)]
          /\ byStack' = [byStack EXCEPT ![s] = NoWatch] /\ ctx' = [ctx EXCEPT ![w] = TRUE]
          /\ UNCHANGED <<watcherMu, watchStack, watchStatus, loop, waiters>>
      BY <2>0 DEF EndWatch, Idle, Voices, ReadinessTypeOK
    <2>2. caller'[c].at = "stopping" /\ caller'[c].watch = w
      BY <2>1 DEF Doing, ReadinessTypeOK
    <2> HIDE DEF w
    <2>3. ASSUME NEW v \in Watches, Live(v)'
          PROVE  byStack'[watchStack'[v]] = v \/ (ctx'[v] /\ \E d \in Callers : Stopping(d, v)')
      <3>1. Live(v) /\ watchStack[v] \in WatchedStacks
        BY <2>1, <2>3 DEF Live, Used, Voices
      <3>2. CASE v = w
        BY <2>1, <2>2, <3>2 DEF Stopping, ReadinessTypeOK
      <3>3. CASE v # w /\ byStack[watchStack[v]] = v
        BY <2>1, <3>1, <3>3 DEF ReadinessTypeOK, w
      <3>4. CASE ctx[v] /\ \E d \in Callers : Stopping(d, v)
        BY <2>1, <3>4 DEF Stopping, ReadinessTypeOK
      <3>. QED
        BY <3>1, <3>2, <3>3, <3>4 DEF Voices
    <2>4. Voices'
      BY <2>1, <2>3 DEF Voices, Used, ReadinessTypeOK
    <2>5. ASSUME NEW d \in Callers PROVE Knows(d)'
      BY <2>0, Constants DEF EndWatch, Knows, Used, ReadinessTypeOK, Idle, Doing, Voices
    <2>6. Listed'
      BY <2>1, Constants DEF Listed, ReadinessTypeOK
    <2>. QED
      BY <2>4, <2>5, <2>6
  <1>3. CASE \E s \in WatchedStacks : Read(c, s)
    <2>0. PICK s \in WatchedStacks : Read(c, s)
      BY <1>3
    <2>1. Voices'
      BY <2>0, Constants, SameVoices
      DEF Read, Used, Live, Stopping, ReadinessTypeOK, watchOfVars, Idle, Doing
    <2>2. ASSUME NEW d \in Callers PROVE Knows(d)'
      BY <2>0, Constants
      DEF Read, Knows, Used, ReadinessTypeOK, watchOfVars, Idle, Doing, Voices, Verdicts
    <2>3. Listed'
      BY <2>0, Constants
      DEF Read, Listed, ReadinessTypeOK, watchOfVars, Idle, Doing, Verdicts
    <2>. QED
      BY <2>1, <2>2, <2>3
  <1>4. CASE StartSilent(c)
    <2>. QED
      BY <1>4, BeginIInv DEF StartSilent, Knows
  <1>5. CASE Drain(c)
    <2> DEFINE w == caller[c].watch
    <2>1. /\ w \in Watches /\ Used(w) /\ ctx[w] /\ caller[c].at \in {"replacing", "stopping"}
          /\ caller' = [d \in Callers |->
               IF d = c THEN [caller[d] EXCEPT !.answer = "drained"]
               ELSE IF d \in waiters[w] THEN [caller[d] EXCEPT !.answer = watchStatus[w]]
               ELSE caller[d]]
          /\ waiters' = [waiters EXCEPT ![w] = {}]
          /\ UNCHANGED <<byStack, watcherMu, watchStack, watchStatus, ctx, loop>>
      BY <1>5 DEF Drain, Knows
    <2>2. \A d \in Callers : caller'[d].at = caller[d].at /\ caller'[d].watch = caller[d].watch
                            /\ caller'[d].stack = caller[d].stack
      BY <2>1 DEF ReadinessTypeOK
    <2>3. \A d \in Callers : caller'[d].answer # caller[d].answer =>
            d = c \/ (caller[d].at = "waiting" /\ caller[d].watch = w)
      BY <2>1 DEF Listed, ReadinessTypeOK
    <2> HIDE DEF w
    <2>4. Voices'
      BY <2>1, <2>2, SameVoices DEF Used, Live, Stopping
    <2>5. ASSUME NEW d \in Callers PROVE Knows(d)'
      BY <2>1, <2>2, <2>3 DEF Knows, Used
    <2>6. Listed'
      BY <2>1, <2>2 DEF Listed, ReadinessTypeOK
    <2>. QED
      BY <2>4, <2>5, <2>6
  <1>6. CASE Replace(c)
    <2>0. PICK w \in Watches : Created(caller[c].stack, caller[c].emit, w)
      BY <1>6, CreateNumbers DEF Replace
    <2>1. /\ caller[c].stack \in WatchedStacks /\ byStack[caller[c].stack] = caller[c].watch
          /\ loop[caller[c].watch] = "done" /\ caller[c].at = "replacing" /\ watcherMu = c
      BY <1>6 DEF Replace, Knows, Stopped
    <2>2. caller' = [caller EXCEPT ![c] = Then(caller[c].emit, caller[c].stack)] /\ watcherMu' = "free"
      BY <1>6 DEF Replace
    <2>3. Voices'
      BY <2>0, <2>1, <2>2, CreatedVoices DEF ReadinessTypeOK
    <2>4. /\ Then(caller[c].emit, caller[c].stack).at \in {"idle", "asks"}
          /\ Then(caller[c].emit, caller[c].stack).at = "asks"
               => Then(caller[c].emit, caller[c].stack).stack = caller[c].stack
          /\ UNCHANGED <<ctx, waiters>>
          /\ ~Used(w) /\ watchStatus' = [watchStatus EXCEPT ![w] = "watching"]
      BY <2>0 DEF Created, Then, Idle, Doing
    <2>5. \A d \in Callers \ {c} : caller[d].at # "replacing"
      BY <2>1 DEF Knows
    <2>6. ASSUME NEW d \in Callers PROVE Knows(d)'
      BY <2>1, <2>2, <2>4, <2>5 DEF Knows, Used, ReadinessTypeOK
    <2>7. Listed'
      BY <2>1, <2>2, <2>4 DEF Listed, ReadinessTypeOK, Verdicts
    <2>. QED
      BY <2>3, <2>6, <2>7
  <1>7. CASE CancelReturns(c)
    <2>1. Voices'
      BY <1>7, Constants, SameVoices
      DEF CancelReturns, Used, Live, Stopping, ReadinessTypeOK, watchOfVars, Idle,
          Doing, Stopped
    <2>2. ASSUME NEW d \in Callers PROVE Knows(d)'
      BY <1>7, Constants
      DEF CancelReturns, Knows, Used, ReadinessTypeOK, watchOfVars, Idle, Doing,
          Voices, Verdicts, Stopped
    <2>3. Listed'
      BY <1>7, Constants
      DEF CancelReturns, Listed, ReadinessTypeOK, watchOfVars, Idle, Doing, Verdicts,
          Stopped
    <2>. QED
      BY <2>1, <2>2, <2>3
  <1>8. CASE FindWatch(c)
    <2>1. Voices'
      BY <1>8, Constants, SameVoices
      DEF FindWatch, Used, Live, Stopping, ReadinessTypeOK, watchOfVars, Idle, Doing
    <2>2. ASSUME NEW d \in Callers PROVE Knows(d)'
      BY <1>8, Constants
      DEF FindWatch, Knows, Used, ReadinessTypeOK, watchOfVars, Idle, Doing, Voices,
          Verdicts
    <2>3. Listed'
      BY <1>8, Constants
      DEF FindWatch, Listed, ReadinessTypeOK, watchOfVars, Idle, Doing, Verdicts
    <2>. QED
      BY <2>1, <2>2, <2>3
  <1>9. CASE Join(c)
    <2> DEFINE w == caller[c].watch
    <2>1. /\ w \in Watches /\ Used(w) /\ caller[c].at = "found" /\ caller[c].answer = "none"
          /\ UNCHANGED <<byStack, watcherMu, watchStack, watchStatus, ctx, loop>>
      BY <1>9 DEF Join, Knows
    <2>2. Voices'
      BY <1>9, SameVoices DEF Join, Used, Live, Stopping, ReadinessTypeOK, Idle
    <2>3. CASE watchStatus[w] # "watching"
      <3>1. caller' = [caller EXCEPT ![c] = Idle] /\ UNCHANGED waiters
        BY <1>9, <2>3 DEF Join
      <3>2. ASSUME NEW d \in Callers PROVE Knows(d)'
        BY <2>1, <3>1 DEF Knows, Used, Idle, ReadinessTypeOK
      <3>3. Listed'
        BY <2>1, <3>1 DEF Listed, ReadinessTypeOK
      <3>. QED
        BY <2>2, <3>2, <3>3
    <2>4. CASE watchStatus[w] = "watching"
      <3>1. /\ caller' = [caller EXCEPT ![c] = [@ EXCEPT !.at = "waiting"]]
            /\ waiters' = [waiters EXCEPT ![w] = @ \cup {c}]
        BY <1>9, <2>4 DEF Join
      <3>2. caller'[c].at = "waiting" /\ caller'[c].watch = w /\ caller'[c].answer = "none"
        BY <2>1, <3>1 DEF ReadinessTypeOK
      <3>3. \A d \in Callers \ {c} : caller'[d] = caller[d]
        BY <3>1 DEF ReadinessTypeOK
      <3> HIDE DEF w
      <3>4. ASSUME NEW d \in Callers PROVE Knows(d)'
        <4>1. CASE d = c
          BY <2>1, <3>2, <4>1 DEF Knows, Used
        <4>2. CASE d # c
          BY <2>1, <3>3, <4>2 DEF Knows, Used
        <4>. QED
          BY <4>1, <4>2
      <3>5. ASSUME NEW v \in Watches
            PROVE  /\ \A d \in waiters'[v] : caller'[d].at = "waiting" /\ caller'[d].watch = v
                   /\ watchStatus'[v] \in Verdicts => waiters'[v] = {}
        <4>1. waiters'[v] = IF v = w THEN waiters[v] \cup {c} ELSE waiters[v]
          BY <3>1 DEF ReadinessTypeOK
        <4>2. \A d \in waiters[v] : d # c /\ d \in Callers
          BY <2>1 DEF Listed, ReadinessTypeOK
        <4>. QED
          BY <2>1, <2>4, <3>2, <3>3, <4>1, <4>2 DEF Listed, Verdicts
      <3>. QED
        BY <2>2, <3>4, <3>5 DEF Listed
    <2>. QED
      BY <2>3, <2>4
  <1>10. CASE WaitReturns(c)
    <2>1. Voices'
      BY <1>10, Constants, SameVoices
      DEF WaitReturns, Used, Live, Stopping, ReadinessTypeOK, watchOfVars, Idle, Doing
    <2>2. ASSUME NEW d \in Callers PROVE Knows(d)'
      BY <1>10, Constants
      DEF WaitReturns, Knows, Used, ReadinessTypeOK, watchOfVars, Idle, Doing, Voices,
          Verdicts
    <2>3. Listed'
      BY <1>10, Constants
      DEF WaitReturns, Listed, ReadinessTypeOK, watchOfVars, Idle, Doing, Verdicts
    <2>. QED
      BY <2>1, <2>2, <2>3
  <1>. QED
    BY <1>1, <1>2, <1>3, <1>4, <1>5, <1>6, <1>7, <1>8, <1>9, <1>10
    DEF CallerStep, Continue

LEMMA GateSteps == GateIInv /\ [ReadinessNext]_readinessVars => GateIInv'
  <1> SUFFICES ASSUME GateIInv, [ReadinessNext]_readinessVars PROVE GateIInv'
    OBVIOUS
  <1>1. ASSUME NEW w \in Watches, Loop(w) \/ Elapse(w) PROVE GateIInv'
    BY <1>1, LoopIInv
  <1>2. ASSUME NEW c \in Callers, CallerStep(c) PROVE GateIInv'
    BY <1>2, CallerTypes, CallerLocal, CallerIInv DEF GateIInv
  <1>3. CASE UNCHANGED readinessVars
    <2>1. UNCHANGED <<byStack, watcherMu, watchOfVars, caller>>
      BY <1>3 DEF readinessVars
    <2>2. ReadinessTypeOK'
      BY <2>1 DEF GateIInv, ReadinessTypeOK, watchOfVars
    <2>3. Voices'
      BY <2>1, SameVoices DEF GateIInv, Used, Live, Stopping, watchOfVars
    <2>4. \A w \in Watches : Local(w)'
      BY <2>1, SameLocal DEF GateIInv, watchOfVars
    <2>5. (\A c \in Callers : Knows(c)') /\ Listed'
      BY <2>1 DEF GateIInv, Knows, Listed, Used, watchOfVars
    <2>. QED
      BY <2>2, <2>3, <2>4, <2>5 DEF GateIInv
  <1>. QED
    BY <1>1, <1>2, <1>3, Constants DEF ReadinessNext, CallerStep

-----------------------------------------------------------------------------
(***************************************************************************)
(* What follows.                                                           *)
(***************************************************************************)
LEMMA GateHolds == ReadinessSpec => []GateIInv
  BY GateStarts, GateSteps, PTL DEF ReadinessSpec

\* Every variable of the watcher keeps its type.
THEOREM GateTypeCorrect == ReadinessSpec => []ReadinessTypeOK
  <1>1. GateIInv => ReadinessTypeOK
    BY DEF GateIInv
  <1>. QED
    BY <1>1, GateHolds, PTL

LEMMA OneVoiceFollows == GateIInv => OneVoice
  <1> SUFFICES ASSUME GateIInv, NEW v \in Watches, NEW w \in Watches,
                      v < w, watchStack[v] = watchStack[w], watchStack[v] # "none",
                      loop[v] # "done", loop[w] # "done"
               PROVE  ctx[v] /\ \E c \in Callers : caller[c].at = "stopping" /\ caller[c].watch = v
    BY DEF OneVoice
  <1>1. Live(v) /\ Live(w)
    BY DEF GateIInv, Voices, Live
  <1>2. byStack[watchStack[v]] # v
    <2>1. watchStack[v] \in WatchedStacks /\ v # NoWatch /\ ~(w <= v)
      BY <1>1, Constants DEF GateIInv, Voices, Live
    <2>. QED
      BY <1>1, <2>1 DEF GateIInv, Voices, Live
  <1>. QED
    BY <1>1, <1>2 DEF GateIInv, Voices, Stopping

\* What a watch says is said once, its verdict is earned, a stack has one voice, and a
\* settled watch leaves nobody waiting: however deploys, teardowns, readers and the
\* watches themselves interleave (readiness.go).
THEOREM WatchesAreSafe == ReadinessSpec => []ReadinessSafety
  <1>1. GateIInv => SaysItOnce
    <2>1. GateIInv => \A w \in Watches : told[w].ends \in 0 .. 2 /\ \A n \in ContainerNames : told[w].of[n] \in 0 .. 2
      BY DEF GateIInv, ReadinessTypeOK
    <2>. QED
      BY <2>1 DEF GateIInv, Local, Announcing, SaysItOnce
  <1>2. GateIInv => VerdictIsEarned
    BY DEF GateIInv, Local, VerdictOf, Earned, AllReady, VerdictIsEarned, Verdicts
  <1>3. GateIInv => NobodyLeftWaiting
    BY DEF GateIInv, Listed, Knows, NobodyLeftWaiting
  <1>. QED
    BY <1>1, <1>2, <1>3, OneVoiceFollows, GateHolds, PTL DEF ReadinessSafety

--------------------------------------------------------------------------------
(***************************************************************************)
(* The deployment routes, for any deployments, requests, jobs and rule of  *)
(* what resolves to what.                                                  *)
(***************************************************************************)
\* A request whose variables or stack are replaced is still a request.
LEMMA RequestExcept ==
  ASSUME NEW r \in Requests, NEW v \in Vars
  PROVE  /\ [r EXCEPT !.var = v] \in Requests
         /\ \A s \in Stack : /\ [r EXCEPT !.stack = s, !.var = Unset, !.own = Unset] \in Requests
                             /\ [NoRequest EXCEPT !.stack = s] \in Requests
<1>1. [r EXCEPT !.var = v] \in Requests
  BY DEF Requests
<1>2. ASSUME NEW s \in Stack
      PROVE [r EXCEPT !.stack = s, !.var = Unset, !.own = Unset] \in Requests
  BY DEF Requests, Vars
<1>3. ASSUME NEW s \in Stack
      PROVE [NoRequest EXCEPT !.stack = s] \in Requests
  BY DEF Requests, Vars, NoRequest
<1>4. QED
  BY <1>1, <1>2, <1>3

\* Every step keeps the types.
LEMMA TypesStep == IInv /\ [Next]_variables => TypeOK'
<1> SUFFICES ASSUME IInv, [Next]_variables PROVE TypeOK'
  OBVIOUS
<1> USE DeploymentsAssumption
<1>1. ASSUME NEW c \in Client, NEW d \in Deployment,
             NEW t \in Text, NEW x \in Vars, NEW e \in Vars, Put(c, d, t, x, e)
      PROVE TypeOK'
  <2>3. Resolve(t, Over(x, e)) \in Stack
    BY <1>1 DEF Put, Over
  <2>1. about'[c] \in Requests /\ about' = [about EXCEPT ![c] = about'[c]]
    BY <1>1, <2>3 DEF IInv, TypeOK, Requests, Vars, Put
  <2>2. about' \in [Client -> Requests]
    BY <2>1 DEF IInv, TypeOK
  <2>. QED
    BY <1>1, <2>2, <2>3 DEF IInv, TypeOK, Put, Step, Hold, L!Hold, L!Held, L!Free,
                            files, work
<1>2. ASSUME NEW c \in Client, WriteSpec(c)
      PROVE TypeOK'
  <2>1. Merged(c) \in Vars
    BY <1>2 DEF IInv, TypeOK, Requests, RequestsNamed, WriteSpec, Step, Merged, Over, Asked,
                   Holding
  <2>2. [about[c] EXCEPT !.var = Merged(c)] \in Requests
    BY <2>1, RequestExcept DEF IInv, TypeOK
  <2>3. about' \in [Client -> Requests]
    BY <1>2, <2>2 DEF IInv, TypeOK, WriteSpec
  <2>4. about[c].text \in Text
    BY <1>2 DEF IInv, RequestsNamed, WriteSpec, Step
  <2>. QED
    BY <1>2, <2>3, <2>4 DEF IInv, TypeOK, WriteSpec, Step, locks, work
<1>3. ASSUME NEW c \in Client, StoreVars(c)
      PROVE TypeOK'
  BY <1>3 DEF IInv, TypeOK, RequestsNamed, Requests, Vars, Holding, L!Free,
     L!Held, Asked, StoreVars, Done, NoRequest, Step, Accepted, locks, work
<1>4. ASSUME NEW c \in Client, RollBack(c)
      PROVE TypeOK'
  BY <1>4 DEF IInv, TypeOK, RequestsNamed, Requests, Vars, Holding, L!Free,
     L!Held, Asked, RollBack, Done, NoRequest, Step, RemoveFiles, locks, work
<1>5. ASSUME NEW c \in Client, NEW d \in Deployment,
             NEW act \in {"up", "down", "forget", "delete"}, NEW q \in Vars, Get(c, d, act, q)
      PROVE TypeOK'
  BY ZenonT(60), <1>5 DEF IInv, TypeOK, RequestsNamed, Requests, Vars, Holding, L!Free,
     L!Held, Asked, Get, Step, NoRequest, locks, work, files
<1>6. ASSUME NEW c \in Client, Load(c)
      PROVE TypeOK'
  <2>1. Names(c) \in Stack
    BY <1>6 DEF IInv, TypeOK, Requests, RequestsNamed, Load, Step, Names, Over, Asked, Holding
  <2>2. [about[c] EXCEPT !.stack = Names(c), !.var = Unset, !.own = Unset] \in Requests
    BY <2>1, RequestExcept DEF IInv, TypeOK, Vars
  <2>3. about' \in [Client -> Requests]
    BY <1>6, <2>2 DEF IInv, TypeOK, Load
  <2>. QED
    BY <1>6, <2>3 DEF IInv, TypeOK, Load, Step, files, locks, work
<1>7. ASSUME NEW c \in Client, NEW i \in Id, PostIt(c, i)
      PROVE TypeOK'
  BY <1>7 DEF IInv, TypeOK, RequestsNamed, Requests, Vars, Holding, L!Free,
     L!Held, Asked, PostIt, Step, NoRequest, L!Accept, L!Queued, files
<1>8. ASSUME NEW c \in Client, LoadFails(c) \/ PostRefused(c) \/ DeleteRefused(c)
      PROVE TypeOK'
  <2>1. Refuse(c)
    BY <1>8 DEF LoadFails, PostRefused, DeleteRefused
  <2>2. NoRequest \in Requests
    BY DEF NoRequest, Requests, Vars
  <2>. QED
    BY <2>1, <2>2 DEF IInv, TypeOK, Refuse, files, work, locks
<1>9. ASSUME NEW c \in Client, HoldToDelete(c)
      PROVE TypeOK'
  BY <1>9 DEF IInv, TypeOK, RequestsNamed, Requests, Vars, Holding, L!Free,
     L!Held, Asked, HoldToDelete, Step, Hold, L!Hold, L!Queued, files, work
<1>10. ASSUME NEW c \in Client, Look(c)
      PROVE TypeOK'
  BY <1>10 DEF IInv, TypeOK, RequestsNamed, Requests, Vars, Holding, L!Free,
     L!Held, Asked, Look, Step, Confirmed, files, work, locks
<1>22. ASSUME NEW c \in Client, LooksBad(c)
      PROVE TypeOK'
  BY <1>22 DEF IInv, TypeOK, RequestsNamed, Requests, Vars, Holding, L!Free,
     L!Held, Asked, LooksBad, Done, NoRequest, Step, files, work, locks
<1>11. ASSUME NEW c \in Client, RemoveDeployment(c)
      PROVE TypeOK'
  BY <1>11 DEF IInv, TypeOK, RequestsNamed, Requests, Vars, Holding, L!Free,
     L!Held, Asked, RemoveDeployment, Done, NoRequest, Step, RemoveFiles, work, locks
<1>12. ASSUME NEW c \in Client, Return(c)
      PROVE TypeOK'
  BY <1>12 DEF IInv, TypeOK, RequestsNamed, Requests, Vars, Holding, L!Free,
     L!Held, Asked, Return, Step, NoRequest, L!Unhold, files, work
<1>13. ASSUME NEW i \in Id, Dispatch(i)
      PROVE TypeOK'
  BY <1>13 DEF IInv, TypeOK, RequestsNamed, Requests, Vars, Holding, L!Free,
     L!Held, Asked, Dispatch, L!Dispatch, files, work
<1>14. ASSUME NEW i \in Id, Work(i)
      PROVE TypeOK'
  BY <1>14 DEF IInv, TypeOK, RequestsNamed, Requests, Vars, Holding, L!Free,
     L!Held, Asked, Work, At, Directory, files, locks
<1>21. ASSUME NEW i \in Id, WorkFails(i)
      PROVE TypeOK'
  BY <1>21 DEF IInv, TypeOK, RequestsNamed, Requests, Vars, Holding, L!Free,
     L!Held, Asked, WorkFails, At, Directory, files, locks
<1>15. ASSUME NEW i \in Id, Forget(i)
      PROVE TypeOK'
  BY <1>15 DEF IInv, TypeOK, RequestsNamed, Requests, Vars, Holding, L!Free,
     L!Held, Asked, Forget, At, RemoveFiles, Confirmed, locks
<1>16. ASSUME NEW i \in Id, KeepRecord(i)
      PROVE TypeOK'
  BY <1>16 DEF IInv, TypeOK, RequestsNamed, Requests, Vars, Holding, L!Free,
     L!Held, Asked, KeepRecord, At, files, locks
<1>17. ASSUME NEW i \in Id, Finish(i)
      PROVE TypeOK'
  BY <1>17 DEF IInv, TypeOK, RequestsNamed, Requests, Vars, Holding, L!Free,
     L!Held, Asked, Finish, At, L!Finish, files, work
<1>18. ASSUME NEW i \in Id, LetGo(i)
      PROVE TypeOK'
  BY <1>18 DEF IInv, TypeOK, RequestsNamed, Requests, Vars, Holding, L!Free,
     L!Held, Asked, LetGo, L!Release, L!Drop, NoRequest, files
<1>19. CASE UNCHANGED variables
  BY <1>19 DEF IInv, TypeOK, RequestsNamed, Requests, Vars, Holding, L!Free,
     L!Held, Asked, variables, files, work, locks
<1>20. QED
  BY <1>1, <1>2, <1>3, <1>4, <1>5, <1>6, <1>7, <1>8, <1>9, <1>10, <1>11,
     <1>12, <1>13, <1>14, <1>15, <1>16, <1>17, <1>18, <1>19, <1>21, <1>22 DEF Next, Request,
     Job

\* Every step keeps what a request at each step has read.
LEMMA RequestsStep == IInv /\ [Next]_variables => RequestsNamed'
<1> SUFFICES ASSUME IInv, [Next]_variables PROVE RequestsNamed'
  OBVIOUS
<1> USE DeploymentsAssumption
<1>1. ASSUME NEW c \in Client, NEW d \in Deployment,
             NEW t \in Text, NEW x \in Vars, NEW e \in Vars, Put(c, d, t, x, e)
      PROVE RequestsNamed'
  BY <1>1 DEF IInv, TypeOK, RequestsNamed, Requests, Holding, Asked, Put, Over,
     Step, Hold, L!Hold, L!Queued, files, work
<1>2. ASSUME NEW c \in Client, WriteSpec(c)
      PROVE RequestsNamed'
  BY <1>2 DEF IInv, TypeOK, RequestsNamed, Requests, Holding, Asked,
     WriteSpec, Step, Merged, locks, work
<1>3. ASSUME NEW c \in Client, StoreVars(c)
      PROVE RequestsNamed'
  BY <1>3 DEF IInv, TypeOK, RequestsNamed, Requests, Holding, Asked,
     StoreVars, Done, NoRequest, Step, Accepted, locks, work
<1>4. ASSUME NEW c \in Client, RollBack(c)
      PROVE RequestsNamed'
  BY <1>4 DEF IInv, TypeOK, RequestsNamed, Requests, Holding, Asked, RollBack, Done, NoRequest,
     Step, RemoveFiles, locks, work
<1>5. ASSUME NEW c \in Client, NEW d \in Deployment,
             NEW act \in {"up", "down", "forget", "delete"}, NEW q \in Vars, Get(c, d, act, q)
      PROVE RequestsNamed'
  BY <1>5 DEF IInv, TypeOK, RequestsNamed, Requests, Holding, Asked, Get,
     Step, NoRequest, locks, work, files
<1>6. ASSUME NEW c \in Client, Load(c)
      PROVE RequestsNamed'
  <2>1. Names(c) \in Stack /\ pc[c] = "load" /\ pc' = [pc EXCEPT ![c] = IF about[c].act = "delete" THEN "hold" ELSE "post"]
    BY <1>6 DEF IInv, TypeOK, RequestsNamed, Requests, Load, Step, Names, Over, Asked, Holding
  <2>2. /\ about'[c].stack = Names(c) /\ about'[c].dep = about[c].dep /\ \A b \in Client \ {c} : about'[b] = about[b]
        /\ UNCHANGED <<status, home, request>>
    BY <1>6 DEF Load, locks, work, IInv, TypeOK, Requests
  <2>. QED
    BY <2>1, <2>2 DEF IInv, TypeOK, RequestsNamed, Holding, Asked
<1>7. ASSUME NEW c \in Client, NEW i \in Id, PostIt(c, i)
      PROVE RequestsNamed'
  BY <1>7 DEF IInv, TypeOK, RequestsNamed, Requests, Holding, Asked, PostIt,
     Step, NoRequest, L!Accept, L!Queued, files
<1>8. ASSUME NEW c \in Client, LoadFails(c) \/ PostRefused(c) \/ DeleteRefused(c)
      PROVE RequestsNamed'
  BY <1>8 DEF IInv, TypeOK, RequestsNamed, Requests, Holding, Asked,
     LoadFails, PostRefused, DeleteRefused, Refuse, NoRequest, files, work,
     locks
<1>9. ASSUME NEW c \in Client, HoldToDelete(c)
      PROVE RequestsNamed'
  BY <1>9 DEF IInv, TypeOK, RequestsNamed, Requests, Holding, Asked,
     HoldToDelete, Step, Hold, L!Hold, L!Queued, files, work
<1>10. ASSUME NEW c \in Client, Look(c)
      PROVE RequestsNamed'
  BY <1>10 DEF IInv, TypeOK, RequestsNamed, Requests, Holding, Asked, Look,
     Step, Confirmed, files, work, locks
<1>22. ASSUME NEW c \in Client, LooksBad(c)
      PROVE RequestsNamed'
  BY <1>22 DEF IInv, TypeOK, RequestsNamed, Requests, Holding, Asked, LooksBad, Done, NoRequest,
     Step, files, work, locks
<1>11. ASSUME NEW c \in Client, RemoveDeployment(c)
      PROVE RequestsNamed'
  BY <1>11 DEF IInv, TypeOK, RequestsNamed, Requests, Holding, Asked, RemoveDeployment, Done, NoRequest,
     Step, RemoveFiles, work, locks
<1>12. ASSUME NEW c \in Client, Return(c)
      PROVE RequestsNamed'
  BY <1>12 DEF IInv, TypeOK, RequestsNamed, Requests, Holding, Asked, Return,
     Step, NoRequest, L!Unhold, files, work
<1>13. ASSUME NEW i \in Id, Dispatch(i)
      PROVE RequestsNamed'
  BY <1>13 DEF IInv, TypeOK, RequestsNamed, Requests, Holding, Asked,
     Dispatch, L!Dispatch, files, work
<1>14. ASSUME NEW i \in Id, Work(i)
      PROVE RequestsNamed'
  BY <1>14 DEF IInv, TypeOK, RequestsNamed, Requests, Holding, Asked, Work,
     At, Directory, files, locks
<1>21. ASSUME NEW i \in Id, WorkFails(i)
      PROVE RequestsNamed'
  BY <1>21 DEF IInv, TypeOK, RequestsNamed, Requests, Holding, Asked, WorkFails,
     At, files, locks
<1>15. ASSUME NEW i \in Id, Forget(i)
      PROVE RequestsNamed'
  BY <1>15 DEF IInv, TypeOK, RequestsNamed, Requests, Holding, Asked, Forget,
     At, RemoveFiles, Confirmed, locks
<1>16. ASSUME NEW i \in Id, KeepRecord(i)
      PROVE RequestsNamed'
  BY <1>16 DEF IInv, TypeOK, RequestsNamed, Requests, Holding, Asked,
     KeepRecord, At, files, locks
<1>17. ASSUME NEW i \in Id, Finish(i)
      PROVE RequestsNamed'
  BY <1>17 DEF IInv, TypeOK, RequestsNamed, Requests, Holding, Asked, Finish,
     At, L!Finish, files, work
<1>18. ASSUME NEW i \in Id, LetGo(i)
      PROVE RequestsNamed'
  BY <1>18 DEF IInv, TypeOK, RequestsNamed, Requests, Holding, Asked, LetGo,
     L!Release, L!Drop, NoRequest, files
<1>19. CASE UNCHANGED variables
  BY <1>19 DEF IInv, TypeOK, RequestsNamed, Requests, Holding, Asked,
     variables, files, work, locks
<1>20. QED
  BY <1>1, <1>2, <1>3, <1>4, <1>5, <1>6, <1>7, <1>8, <1>9, <1>10, <1>11,
     <1>12, <1>13, <1>14, <1>15, <1>16, <1>17, <1>18, <1>19, <1>21, <1>22 DEF Next, Request,
     Job

\* Every step keeps what the writer of a record has written.
LEMMA WriterStep == IInv /\ [Next]_variables => WriterAlone'
<1> SUFFICES ASSUME IInv, [Next]_variables PROVE WriterAlone'
  OBVIOUS
<1> USE DeploymentsAssumption
<1>1. ASSUME NEW c \in Client, NEW d \in Deployment,
             NEW t \in Text, NEW x \in Vars, NEW e \in Vars, Put(c, d, t, x, e)
      PROVE WriterAlone'
  BY <1>1 DEF IInv, TypeOK, Requests, RequestsNamed, WriterAlone, Holding,
     Asked, Whole, Known, StackOf, Put, Step, Hold, L!Hold, L!Queued, files,
     work
<1>2. ASSUME NEW c \in Client, WriteSpec(c)
      PROVE WriterAlone'
  BY <1>2 DEF IInv, TypeOK, Requests, RequestsNamed, WriterAlone, Holding,
     Asked, Whole, Known, StackOf, WriteSpec, Step, Merged, locks, work
<1>3. ASSUME NEW c \in Client, StoreVars(c)
      PROVE WriterAlone'
  BY <1>3 DEF IInv, TypeOK, Requests, RequestsNamed, WriterAlone, Holding,
     Asked, Whole, Known, StackOf, StoreVars, Done, NoRequest, Step, Accepted, locks, work
<1>4. ASSUME NEW c \in Client, RollBack(c)
      PROVE WriterAlone'
  BY <1>4 DEF IInv, TypeOK, Requests, RequestsNamed, WriterAlone, Holding,
     Asked, Whole, Known, StackOf, RollBack, Done, NoRequest, Step, RemoveFiles, locks, work
<1>5. ASSUME NEW c \in Client, NEW d \in Deployment,
             NEW act \in {"up", "down", "forget", "delete"}, NEW q \in Vars, Get(c, d, act, q)
      PROVE WriterAlone'
  <2>1. /\ pc[c] = "idle" /\ pc' = [pc EXCEPT ![c] = "load"] /\ UNCHANGED <<spec, vars, brought, writeMu>>
        /\ \A b \in Client \ {c} : about'[b] = about[b]
    BY <1>5 DEF Get, Step, files, IInv, TypeOK
  <2>. QED
    BY <2>1 DEF IInv, TypeOK, WriterAlone, Asked, Whole, Known
<1>6. ASSUME NEW c \in Client, Load(c)
      PROVE WriterAlone'
  <2>1. /\ pc[c] = "load" /\ pc' = [pc EXCEPT ![c] = IF about[c].act = "delete" THEN "hold" ELSE "post"]
        /\ UNCHANGED <<spec, vars, brought, writeMu>> /\ \A b \in Client \ {c} : about'[b] = about[b]
    BY <1>6 DEF Load, Step, files, IInv, TypeOK
  <2>. QED
    BY <2>1 DEF IInv, TypeOK, WriterAlone, Asked, Whole, Known
<1>7. ASSUME NEW c \in Client, NEW i \in Id, PostIt(c, i)
      PROVE WriterAlone'
  BY <1>7 DEF IInv, TypeOK, Requests, RequestsNamed, WriterAlone, Holding,
     Asked, Whole, Known, StackOf, PostIt, Step, NoRequest, L!Accept,
     L!Queued, files
<1>8. ASSUME NEW c \in Client, LoadFails(c) \/ PostRefused(c) \/ DeleteRefused(c)
      PROVE WriterAlone'
  BY <1>8 DEF IInv, TypeOK, Requests, RequestsNamed, WriterAlone, Holding,
     Asked, Whole, Known, StackOf, LoadFails, PostRefused, DeleteRefused,
     Refuse, NoRequest, files, work, locks
<1>9. ASSUME NEW c \in Client, HoldToDelete(c)
      PROVE WriterAlone'
  BY <1>9 DEF IInv, TypeOK, Requests, RequestsNamed, WriterAlone, Holding,
     Asked, Whole, Known, StackOf, HoldToDelete, Step, Hold, L!Hold, L!Queued,
     files, work
<1>10. ASSUME NEW c \in Client, Look(c)
      PROVE WriterAlone'
  BY <1>10 DEF IInv, TypeOK, Requests, RequestsNamed, WriterAlone, Holding,
     Asked, Whole, Known, StackOf, Look, Step, Confirmed, files, work, locks
<1>22. ASSUME NEW c \in Client, LooksBad(c)
      PROVE WriterAlone'
  BY <1>22 DEF IInv, TypeOK, Requests, RequestsNamed, WriterAlone, Holding,
     Asked, Whole, Known, StackOf, LooksBad, Done, NoRequest, Step, files, work, locks
<1>11. ASSUME NEW c \in Client, RemoveDeployment(c)
      PROVE WriterAlone'
  BY <1>11 DEF IInv, TypeOK, Requests, RequestsNamed, WriterAlone, Holding,
     Asked, Whole, Known, StackOf, RemoveDeployment, Done, NoRequest, Step, RemoveFiles, work, locks
<1>12. ASSUME NEW c \in Client, Return(c)
      PROVE WriterAlone'
  BY <1>12 DEF IInv, TypeOK, Requests, RequestsNamed, WriterAlone, Holding,
     Asked, Whole, Known, StackOf, Return, Step, NoRequest, L!Unhold, files,
     work
<1>13. ASSUME NEW i \in Id, Dispatch(i)
      PROVE WriterAlone'
  BY <1>13 DEF IInv, TypeOK, Requests, RequestsNamed, WriterAlone, Holding,
     Asked, Whole, Known, StackOf, Dispatch, L!Dispatch, files, work
<1>14. ASSUME NEW i \in Id, Work(i)
      PROVE WriterAlone'
  BY <1>14 DEF IInv, TypeOK, Requests, RequestsNamed, WriterAlone, Holding,
     Asked, Whole, Known, StackOf, Work, At, Directory, files, locks
<1>21. ASSUME NEW i \in Id, WorkFails(i)
      PROVE WriterAlone'
  BY <1>21 DEF IInv, TypeOK, Requests, RequestsNamed, WriterAlone, Holding,
     Asked, Whole, Known, StackOf, WorkFails, At, Directory, files, locks
<1>15. ASSUME NEW i \in Id, Forget(i)
      PROVE WriterAlone'
  BY <1>15 DEF IInv, TypeOK, Requests, RequestsNamed, WriterAlone, Holding,
     Asked, Whole, Known, StackOf, Forget, At, RemoveFiles, Confirmed, locks
<1>16. ASSUME NEW i \in Id, KeepRecord(i)
      PROVE WriterAlone'
  BY <1>16 DEF IInv, TypeOK, Requests, RequestsNamed, WriterAlone, Holding,
     Asked, Whole, Known, StackOf, KeepRecord, At, files, locks
<1>17. ASSUME NEW i \in Id, Finish(i)
      PROVE WriterAlone'
  BY <1>17 DEF IInv, TypeOK, Requests, RequestsNamed, WriterAlone, Holding,
     Asked, Whole, Known, StackOf, Finish, At, L!Finish, files, work
<1>18. ASSUME NEW i \in Id, LetGo(i)
      PROVE WriterAlone'
  BY <1>18 DEF IInv, TypeOK, Requests, RequestsNamed, WriterAlone, Holding,
     Asked, Whole, Known, StackOf, LetGo, L!Release, L!Drop, NoRequest, files
<1>19. CASE UNCHANGED variables
  BY <1>19 DEF IInv, TypeOK, Requests, RequestsNamed, WriterAlone, Holding,
     Asked, Whole, Known, StackOf, variables, files, work, locks
<1>20. QED
  BY <1>1, <1>2, <1>3, <1>4, <1>5, <1>6, <1>7, <1>8, <1>9, <1>10, <1>11,
     <1>12, <1>13, <1>14, <1>15, <1>16, <1>17, <1>18, <1>19, <1>21, <1>22 DEF Next, Request,
     Job

\* Every step keeps who has a stack.
LEMMA HoldersStep == IInv /\ [Next]_variables => HoldersAlone'
<1> SUFFICES ASSUME IInv, [Next]_variables PROVE HoldersAlone'
  OBVIOUS
<1> USE DeploymentsAssumption
<1>1. ASSUME NEW c \in Client, NEW d \in Deployment,
             NEW t \in Text, NEW x \in Vars, NEW e \in Vars, Put(c, d, t, x, e)
      PROVE HoldersAlone'
  <2>1. PICK s \in Stack : Hold(s) /\ about'[c].stack = s /\ \A b \in Client \ {c} : about'[b] = about[b]
    BY <1>1 DEF Put, Over, IInv, TypeOK
  <2>2. pc[c] = "idle" /\ pc' = [pc EXCEPT ![c] = "write"] /\ UNCHANGED containers
    BY <1>1 DEF Put, Step
  <2>. QED
    BY <2>1, <2>2 DEF IInv, TypeOK, HoldersAlone, Holding, L!Free, L!Held, Hold, L!Hold, L!Queued
<1>2. ASSUME NEW c \in Client, WriteSpec(c)
      PROVE HoldersAlone'
  BY <1>2 DEF IInv, TypeOK, RequestsNamed, HoldersAlone, Holding, L!Free,
     L!Held, Asked, WriteSpec, Step, Merged, locks, work
<1>3. ASSUME NEW c \in Client, StoreVars(c)
      PROVE HoldersAlone'
  BY <1>3 DEF IInv, TypeOK, HoldersAlone, Holding, StoreVars, Done, NoRequest, Step, locks, work
<1>4. ASSUME NEW c \in Client, RollBack(c)
      PROVE HoldersAlone'
  <2>1. HoldersAlone /\ DOMAIN pc = Client
    BY DEF IInv, TypeOK
  <2>2. /\ pc[c] = "validate" /\ pc' = [pc EXCEPT ![c] = "return"]
        /\ UNCHANGED <<status, home, lock, containers>> /\ \A e \in Client : about'[e].stack = about[e].stack
    BY <1>4 DEF RollBack, Done, NoRequest, Step, locks, IInv, TypeOK
  <2>3. \A e \in Client : (pc'[e] \in Holding => pc[e] \in Holding) /\ (pc'[e] = "remove" => pc[e] = "remove")
    BY <2>1, <2>2 DEF Holding
  <2> QED
    BY <2>1, <2>2, <2>3 DEF HoldersAlone
<1>5. ASSUME NEW c \in Client, NEW d \in Deployment,
             NEW act \in {"up", "down", "forget", "delete"}, NEW q \in Vars, Get(c, d, act, q)
      PROVE HoldersAlone'
  BY <1>5 DEF IInv, TypeOK, RequestsNamed, HoldersAlone, Holding, L!Free,
     L!Held, Asked, Get, Step, NoRequest, locks, work, files
<1>6. ASSUME NEW c \in Client, Load(c)
      PROVE HoldersAlone'
  BY ZenonT(60), <1>6 DEF IInv, TypeOK, RequestsNamed, HoldersAlone, Holding, L!Free,
     L!Held, Asked, Load, Step, Names, locks, work, files
<1>7. ASSUME NEW c \in Client, NEW i \in Id, PostIt(c, i)
      PROVE HoldersAlone'
  BY <1>7 DEF IInv, TypeOK, RequestsNamed, HoldersAlone, Holding, L!Free,
     L!Held, Asked, PostIt, Step, NoRequest, L!Accept, L!Queued, files
<1>8. ASSUME NEW c \in Client, LoadFails(c) \/ PostRefused(c) \/ DeleteRefused(c)
      PROVE HoldersAlone'
  BY <1>8 DEF IInv, TypeOK, RequestsNamed, HoldersAlone, Holding, L!Free,
     L!Held, Asked, LoadFails, PostRefused, DeleteRefused, Refuse, NoRequest,
     files, work, locks
<1>9. ASSUME NEW c \in Client, HoldToDelete(c)
      PROVE HoldersAlone'
  BY <1>9 DEF IInv, TypeOK, RequestsNamed, HoldersAlone, Holding, L!Free,
     L!Held, Asked, HoldToDelete, Step, Hold, L!Hold, L!Queued, files, work
<1>10. ASSUME NEW c \in Client, Look(c)
      PROVE HoldersAlone'
  BY <1>10 DEF IInv, TypeOK, RequestsNamed, HoldersAlone, Holding, L!Free,
     L!Held, Asked, Look, Step, Confirmed, files, work, locks
<1>22. ASSUME NEW c \in Client, LooksBad(c)
      PROVE HoldersAlone'
  BY <1>22 DEF IInv, TypeOK, RequestsNamed, HoldersAlone, Holding, L!Free,
     L!Held, Asked, LooksBad, Done, NoRequest, Step, files, work, locks
<1>11. ASSUME NEW c \in Client, RemoveDeployment(c)
      PROVE HoldersAlone'
  BY <1>11 DEF IInv, TypeOK, RequestsNamed, HoldersAlone, Holding, L!Free,
     L!Held, Asked, RemoveDeployment, Done, NoRequest, Step, RemoveFiles, work, locks
<1>12. ASSUME NEW c \in Client, Return(c)
      PROVE HoldersAlone'
  BY <1>12 DEF IInv, TypeOK, RequestsNamed, HoldersAlone, Holding, L!Free,
     L!Held, Asked, Return, Step, NoRequest, L!Unhold, files, work
<1>13. ASSUME NEW i \in Id, Dispatch(i)
      PROVE HoldersAlone'
  BY <1>13 DEF IInv, TypeOK, RequestsNamed, HoldersAlone, Holding, L!Free,
     L!Held, Asked, Dispatch, L!Dispatch, files, work
<1>14. ASSUME NEW i \in Id, Work(i)
      PROVE HoldersAlone'
  BY <1>14 DEF IInv, TypeOK, RequestsNamed, HoldersAlone, Holding, L!Free,
     L!Held, Asked, Work, At, Directory, files, locks
<1>21. ASSUME NEW i \in Id, WorkFails(i)
      PROVE HoldersAlone'
  BY <1>21 DEF IInv, TypeOK, RequestsNamed, HoldersAlone, Holding, L!Free,
     L!Held, Asked, WorkFails, At, Directory, files, locks
<1>15. ASSUME NEW i \in Id, Forget(i)
      PROVE HoldersAlone'
  BY <1>15 DEF IInv, TypeOK, RequestsNamed, HoldersAlone, Holding, L!Free,
     L!Held, Asked, Forget, At, RemoveFiles, Confirmed, locks
<1>16. ASSUME NEW i \in Id, KeepRecord(i)
      PROVE HoldersAlone'
  BY <1>16 DEF IInv, TypeOK, RequestsNamed, HoldersAlone, Holding, L!Free,
     L!Held, Asked, KeepRecord, At, files, locks
<1>17. ASSUME NEW i \in Id, Finish(i)
      PROVE HoldersAlone'
  BY <1>17 DEF IInv, TypeOK, RequestsNamed, HoldersAlone, Holding, L!Free,
     L!Held, Asked, Finish, At, L!Finish, files, work
<1>18. ASSUME NEW i \in Id, LetGo(i)
      PROVE HoldersAlone'
  BY <1>18 DEF IInv, TypeOK, RequestsNamed, HoldersAlone, Holding, L!Free,
     L!Held, Asked, LetGo, L!Release, L!Drop, NoRequest, files
<1>19. CASE UNCHANGED variables
  BY <1>19 DEF IInv, TypeOK, RequestsNamed, HoldersAlone, Holding, L!Free,
     L!Held, Asked, variables, files, work, locks
<1>20. QED
  BY <1>1, <1>2, <1>3, <1>4, <1>5, <1>6, <1>7, <1>8, <1>9, <1>10, <1>11,
     <1>12, <1>13, <1>14, <1>15, <1>16, <1>17, <1>18, <1>19, <1>21, <1>22 DEF Next, Request,
     Job

\* Nobody has asked anything yet.
LEMMA InitInv == Init => IInv
<1> SUFFICES ASSUME Init PROVE IInv
  OBVIOUS
<1> USE DeploymentsAssumption DEF Init, NoRequest
<1>1. TypeOK
  BY DEF TypeOK, Requests, Vars, L!Free, L!Held
<1>2. RequestsNamed /\ HoldersAlone
  BY DEF RequestsNamed, HoldersAlone, Holding
<1>3. WriterAlone
  BY DEF WriterAlone, Whole, Known
<1>4. QED
  BY <1>1, <1>2, <1>3 DEF IInv

\* The invariant that the theorems rest on.
LEMMA Invariant == Spec => []IInv
<1>1. IInv /\ [Next]_variables => IInv'
  BY TypesStep, RequestsStep, WriterStep, HoldersStep DEF IInv
<1>2. QED
  BY InitInv, <1>1, PTL DEF Spec

\* The files, the requests and the jobs keep their types.
THEOREM TypeCorrect == Spec => []TypeOK
<1>1. IInv => TypeOK
  BY DEF IInv
<1>2. QED
  BY Invariant, <1>1, PTL

\* Between two writes every record is whole and names a stack: what a PUT
\* accepted is what it stored.
THEOREM StoredAlwaysResolves == Spec => []StoredResolves
<1>1. IInv => StoredResolves
  BY DeploymentsAssumption DEF IInv, WriterAlone, StoredResolves
<1>2. QED
  BY Invariant, <1>1, PTL

\* Forgetting, by a request or by a job, under the invariant.
LEMMA ForgottenStep == IInv /\ [Next]_variables => [ForgetsWhatIsDown]_variables
<1> SUFFICES ASSUME IInv, [Next]_variables
             PROVE  \A r \in Forgetting : r.stack \in Stack /\ Down(r.stack)
  BY DEF ForgetsWhatIsDown
<1> USE DeploymentsAssumption
<1>1. ASSUME NEW c \in Client, pc[c] = "remove"
      PROVE  about[c].stack \in Stack /\ Down(about[c].stack)
  <2>1. /\ lock[about[c].stack] = L!Held /\ about[c].stack \notin containers
        /\ about[c].stack \in Stack
    BY <1>1 DEF IInv, HoldersAlone, RequestsNamed, Holding
  <2>2. \A i \in Id : status[i] = "running" => home[i] # about[c].stack
    <3>1. \A i \in Id : i # L!Held
      BY DEF DeploymentsAssumption, L!Held
    <3>2. QED
      BY <2>1, <3>1 DEF IInv, HoldersAlone
  <2>3. QED
    BY <2>1, <2>2 DEF Down, Outstanding
<1>2. ASSUME NEW i \in Id, step[i] = "forget", step'[i] = "end",
             Known(request[i].dep), ~ Known(request[i].dep)'
      PROVE  request[i].stack \in Stack /\ Down(request[i].stack)
  <2>1. Forget(i)
    <3>1. CASE \E j \in Id : Job(j)
      BY ZenonT(60), <1>2, <3>1 DEF Job, variables, files, work, locks, IInv, TypeOK,
         Known, At, Dispatch, Work, WorkFails, Forget, KeepRecord, Finish, LetGo
    <3>2. ASSUME NEW c \in Client, Request(c)
          PROVE  step' = step
      BY <3>2 DEF Request, work, Put, WriteSpec, StoreVars, RollBack, Get, Load, LoadFails,
         PostIt, PostRefused, HoldToDelete, DeleteRefused, Refuse, Look, LooksBad, RemoveDeployment, Return
    <3>3. UNCHANGED variables => step' = step
      BY DEF variables, work
    <3>. QED
      BY <1>2, <3>1, <3>2, <3>3 DEF Next
  <2>2. status[i] = "running" /\ home[i] \notin containers
    BY <2>1 DEF Forget, At, Confirmed
  <2>3. request[i].stack = home[i] /\ home[i] \in Stack /\ lock[home[i]] = i
    BY <2>2 DEF IInv, TypeOK, RequestsNamed, HoldersAlone
  <2>4. \A j \in Id : status[j] = "running" /\ home[j] = home[i] => j = i
    BY <2>3 DEF IInv, HoldersAlone
  <2>. QED
    BY <1>2, <2>2, <2>3, <2>4 DEF Down, Outstanding
<1>3. QED
  BY <1>1, <1>2 DEF Forgetting

\* Whatever requests and jobs do, a record is forgotten only when the stack that was named is down.
THEOREM ForgottenStaysDown == Spec => ForgottenIsDown
<1>1. IInv /\ [Next]_variables => [ForgetsWhatIsDown]_variables
  BY ForgottenStep
<1>2. QED
  BY Invariant, <1>1, PTL DEF Spec, ForgottenIsDown

\* Whoever changes a record, under the invariant: the stack it does so for is its own.
LEMMA ReplacedStep == IInv /\ [Next]_variables => [ChangesForItsOwn]_variables
<1> SUFFICES ASSUME IInv, [Next]_variables,
                    NEW d \in Deployment, <<spec[d], vars[d]>> # <<spec[d], vars[d]>>'
             PROVE  \/ \E c \in Client : /\ Asked(c) = d /\ pc[c] \in {"write", "validate", "remove"} /\ pc'[c] # pc[c]
                                         /\ Outstanding(about[c].stack) = {}
                    \/ \E i \in Id : /\ request[i].dep = d /\ step[i] = "forget" /\ step'[i] = "end"
                                     /\ status[i] = "running"
                                     /\ \A j \in Outstanding(request[i].stack) : j = i \/ status[j] = "queued"
  BY DEF ChangesForItsOwn
<1> USE DeploymentsAssumption
<1>1. \/ \E c \in Client : WriteSpec(c) \/ StoreVars(c) \/ RollBack(c) \/ RemoveDeployment(c)
      \/ \E i \in Id : Forget(i)
  <2>1. ASSUME NEW c \in Client, Request(c)
        PROVE  \/ WriteSpec(c) \/ StoreVars(c) \/ RollBack(c) \/ RemoveDeployment(c)
               \/ UNCHANGED <<spec, vars>>
    BY <2>1 DEF Request, files, Put, Get, Load, LoadFails, PostIt, PostRefused, HoldToDelete, DeleteRefused,
       Refuse, Look, LooksBad, Return
  <2>2. ASSUME NEW i \in Id, Job(i)
        PROVE  Forget(i) \/ UNCHANGED <<spec, vars>>
    BY <2>2 DEF Job, files, Dispatch, Work, WorkFails, KeepRecord, Finish, LetGo
  <2>3. UNCHANGED variables => UNCHANGED <<spec, vars>>
    BY DEF variables, files
  <2>. QED
    BY <2>1, <2>2, <2>3 DEF Next
<1>2. ASSUME NEW c \in Client, WriteSpec(c) \/ StoreVars(c) \/ RollBack(c) \/ RemoveDeployment(c)
      PROVE  /\ Asked(c) = d /\ pc[c] \in {"write", "validate", "remove"} /\ pc'[c] # pc[c]
             /\ Outstanding(about[c].stack) = {}
  <2>1. pc[c] \in {"write", "validate", "remove"} /\ pc'[c] \in {"validate", "return"} /\ pc'[c] # pc[c]
    BY <1>2 DEF WriteSpec, StoreVars, RollBack, RemoveDeployment, Done, Step, IInv, TypeOK
  <2>2. Asked(c) = d
    BY <1>2 DEF WriteSpec, StoreVars, RollBack, RemoveDeployment, RemoveFiles, IInv, TypeOK
  <2>3. lock[about[c].stack] = L!Held
    BY <2>1 DEF IInv, HoldersAlone, Holding
  <2>4. \A i \in Id : home[i] = about[c].stack => status[i] \notin {"queued", "running"}
    <3>1. \A i \in Id : i # L!Held
      BY DEF DeploymentsAssumption, L!Held
    <3>2. QED
      BY <2>3, <3>1 DEF IInv, HoldersAlone
  <2>. QED
    BY <2>1, <2>2, <2>4 DEF Outstanding
<1>3. ASSUME NEW i \in Id, Forget(i)
      PROVE  /\ request[i].dep = d /\ step[i] = "forget" /\ step'[i] = "end"
             /\ status[i] = "running"
                                     /\ \A j \in Outstanding(request[i].stack) : j = i \/ status[j] = "queued"
  <2>1. status[i] = "running" /\ step[i] = "forget" /\ step'[i] = "end"
    BY <1>3 DEF Forget, At, IInv, TypeOK
  <2>2. request[i].dep = d
    BY <1>3 DEF Forget, RemoveFiles, IInv, TypeOK
  <2>3. request[i].stack = home[i] /\ lock[home[i]] = i
    BY <2>1 DEF IInv, RequestsNamed, HoldersAlone
  <2>4. \A j \in Id : status[j] = "running" /\ home[j] = home[i] => j = i
    BY <2>3 DEF IInv, HoldersAlone
  <2>. QED
    BY <2>1, <2>2, <2>3, <2>4 DEF Outstanding
<1>4. QED
  BY <1>1, <1>2, <1>3

\* Whatever requests and jobs do, a record changes only by who has the stack it named to itself.
THEOREM ReplacedWhenQuiet == Spec => NoSwapMidJob
<1>1. IInv /\ [Next]_variables => [ChangesForItsOwn]_variables
  BY ReplacedStep
<1>2. QED
  BY Invariant, <1>1, PTL DEF Spec, NoSwapMidJob

-----------------------------------------------------------------------------
(* Specs.                                                                   *)

Lists(list) == list \in {NotThere, Malformed} \/ \E entries : list \in Seq(entries)

\* The keys of a document that hold lists hold lists, whatever is in them.
RawShape(raw) ==
    /\ Lists(raw.requires) /\ Lists(raw.axes)
    /\ raw.compose \notin {NotThere, Malformed} => Lists(raw.compose.subdomains)

LEMMA ListedAsEntries ==
  ASSUME NEW list, Lists(list), list # Malformed
  PROVE  \E n \in Nat : DOMAIN EntriesOf(list) = 1 .. n /\ Len(EntriesOf(list)) = n
  <1>1. CASE list = NotThere
    <2>1. DOMAIN <<>> = 1 .. 0 /\ Len(<<>>) = 0
      OBVIOUS
    <2> QED
      BY <1>1, <2>1 DEF EntriesOf
  <1>2. CASE list # NotThere
    <2>1. PICK entries : list \in Seq(entries)
      BY <1>2 DEF Lists
    <2>2. Len(list) \in Nat /\ DOMAIN list = 1 .. Len(list)
      BY <2>1
    <2> QED
      BY <1>2, <2>2 DEF EntriesOf
  <1> QED
    BY <1>1, <1>2

\* What tells each entry from those before it tells every two apart.
LEMMA ToldApart ==
  ASSUME NEW n \in Nat, NEW f, \A i \in 1 .. n : \A j \in 1 .. i - 1 : f[j] # f[i]
  PROVE  \A i, j \in 1 .. n : f[i] = f[j] => i = j
  <1> SUFFICES ASSUME NEW i \in 1 .. n, NEW j \in 1 .. n, f[i] = f[j], i # j
               PROVE  FALSE
    OBVIOUS
  <1>1. i \in 1 .. j - 1 \/ j \in 1 .. i - 1
    OBVIOUS
  <1> QED
    BY <1>1

LEMMA NameIsKept ==
  ASSUME NEW env, NEW name, NEW value
  PROVE  Bind(env, name, value)[name] = value
  BY DEF Bind

LEMMA HooksAreHooks ==
  ASSUME NEW axis, NEW env, NEW host
  PROVE  HooksOf(axis, env, host) \subseteq Hooks
  BY DEF HooksOf, AxisHooks, Hooks

LEMMA ParsedAxes ==
  ASSUME NEW raw, NEW env, NEW host, Lists(raw.axes), AxesRead(raw, env, host)
  PROVE  LET axes == AxesOf(raw, env, host)
         IN  /\ \A i \in DOMAIN axes : axes[i].hooks # {} /\ axes[i].hooks \subseteq Hooks
             /\ \A i, j \in DOMAIN axes : axes[i].name = axes[j].name => i = j
             /\ [i \in DOMAIN axes |-> axes[i].hooks] \in Seq(SUBSET Hooks)
  <1> DEFINE axes == AxesOf(raw, env, host)
             from == EntriesOf(raw.axes)
  <1>1. PICK n \in Nat : DOMAIN from = 1 .. n
    BY ListedAsEntries DEF AxesRead
  <1>2. DOMAIN axes = 1 .. n /\ \A i \in 1 .. n : axes[i].name = from[i].name /\ axes[i].hooks = HooksOf(from[i], env, host)
    BY <1>1 DEF AxesOf
  <1>3. \A i \in 1 .. n : HooksOf(from[i], env, host) # {} /\ \A j \in 1 .. i - 1 : from[j].name # from[i].name
    BY <1>1 DEF AxesRead
  <1> DEFINE names == [i \in 1 .. n |-> from[i].name]
  <1>4. \A i \in 1 .. n : \A j \in 1 .. i - 1 : names[j] # names[i]
    BY <1>3
  <1>5. \A i, j \in 1 .. n : names[i] = names[j] => i = j
    <2> HIDE DEF names
    <2> QED
      BY <1>4, ToldApart
  <1>6. \A i \in 1 .. n : axes[i].hooks # {} /\ axes[i].hooks \subseteq Hooks
    BY <1>2, <1>3, HooksAreHooks
  <1>7. \A i, j \in 1 .. n : axes[i].name = axes[j].name => i = j
    BY <1>2, <1>5
  <1>8. [i \in 1 .. n |-> axes[i].hooks] \in Seq(SUBSET Hooks)
    BY <1>6
  <1> HIDE DEF axes
  <1> QED
    BY <1>2, <1>6, <1>7, <1>8 DEF axes

LEMMA ParsedWildcards ==
  ASSUME NEW raw, NEW env, NEW host, NEW domain, raw.compose # NotThere, Lists(raw.compose.subdomains),
         ComposeReads(raw, env, host, domain)
  PROVE  LET profiles == AllSay(raw.compose.profiles, env, host)
             routes == Wildcards(raw.compose, env, env["STACK"], domain)
         IN  /\ \A i \in DOMAIN routes : \E k \in DOMAIN profiles : profiles[k] = routes[i].profile
             /\ \A i, j \in DOMAIN routes : routes[i].varName = routes[j].varName => i = j
  <1> DEFINE profiles == AllSay(raw.compose.profiles, env, host)
             routes == Wildcards(raw.compose, env, env["STACK"], domain)
  <1>1. SubdomainsResolve(routes, profiles, domain) /\ SubdomainsRead(raw.compose, env)
    BY DEF ComposeReads
  <1>2. PICK n \in Nat : DOMAIN routes = 1 .. n
    <2>1. raw.compose.subdomains # Malformed
      BY <1>1 DEF SubdomainsRead
    <2> QED
      BY <2>1, ListedAsEntries DEF Wildcards
  <1> HIDE DEF routes, profiles
  <1>3. CASE routes = <<>>
    <2>1. DOMAIN routes = {}
      BY <1>3
    <2> QED
      BY <2>1 DEF routes, profiles
  <1>4. CASE routes # <<>>
    <2>1. /\ \A i \in 1 .. n : \E k \in DOMAIN profiles : profiles[k] = routes[i].profile
          /\ \A i \in 1 .. n : \A j \in 1 .. i - 1 : routes[j].varName # routes[i].varName
      BY <1>1, <1>2, <1>4 DEF SubdomainsResolve
    <2> DEFINE names == [i \in 1 .. n |-> routes[i].varName]
    <2>2. \A i \in 1 .. n : \A j \in 1 .. i - 1 : names[j] # names[i]
      BY <2>1
    <2>3. \A i, j \in 1 .. n : names[i] = names[j] => i = j
      <3> HIDE DEF names
      <3> QED
        BY <2>2, ToldApart
    <2>4. \A i, j \in 1 .. n : routes[i].varName = routes[j].varName => i = j
      BY <2>3
    <2> QED
      BY <1>2, <2>1, <2>4 DEF routes, profiles
  <1> QED
    BY <1>3, <1>4

(* What spec.Parse accepts is a stack the operations of stack.go run on: it has a name that can   *)
(* be one, a shared one has no axes, no two axes have a name in common and each does something,   *)
(* each wildcard is of a profile that is started and overwrites no other, a sleep says when.      *)
THEOREM ParsedStacksAreSound ==
  ASSUME NEW raw, RawShape(raw), NEW base, NEW host, NEW logs \in BOOLEAN, Parses(raw, base, host)
  PROVE  SoundSpec(Parse(raw, base, host)) /\ Resolved(Parse(raw, base, host), logs) \in StackType
  <1> DEFINE env == Variables(raw, base, host)
             domain == PreviewDomain(env, Declared(raw))
             s == Parse(raw, base, host)
  <1>1. s = [kind |-> KindOf(raw), stack |-> env["STACK"], env |-> env, declared |-> Declared(raw),
             compose |-> ComposeOf(raw, env, host, domain), sleep |-> SleepOf(raw, env, host),
             requires |-> RequiresOf(raw, env, host), axes |-> AxesOf(raw, env, host)]
    BY DEF Parse
  <1>2. /\ KindOf(raw) \in {"shared", "isolated"} /\ StackReads(raw, Layered(raw, base, host), host)
        /\ ComposeReads(raw, env, host, domain) /\ SleepReads(raw, env, host)
        /\ RequiresRead(raw, env, host) /\ AxesRead(raw, env, host)
        /\ KindOf(raw) = "shared" => EntriesOf(raw.axes) = <<>>
    BY DEF Parses
  <1>3. Slug(env["STACK"])
    BY <1>2, NameIsKept DEF StackReads, Variables
  <1> HIDE DEF env, domain
  <1>4. /\ \A i \in DOMAIN s.axes : s.axes[i].hooks # {} /\ s.axes[i].hooks \subseteq Hooks
        /\ \A i, j \in DOMAIN s.axes : s.axes[i].name = s.axes[j].name => i = j
        /\ [i \in DOMAIN s.axes |-> s.axes[i].hooks] \in Seq(SUBSET Hooks)
    <2>1. s.axes = AxesOf(raw, env, host)
      BY <1>1
    <2> HIDE DEF s
    <2> QED
      BY <1>2, <2>1, ParsedAxes DEF RawShape
  <1>5. s.kind = "shared" => s.axes = <<>>
    <2> HAVE s.kind = "shared"
    <2>1. EntriesOf(raw.axes) = <<>>
      BY <1>1, <1>2
    <2>2. AxesOf(raw, env, host) = <<>>
      BY <2>1 DEF AxesOf
    <2> QED
      BY <1>1, <2>2
  <1>6. s.sleep # NotThere => s.sleep.idle > 0 \/ s.sleep.after > 0
    <2> SUFFICES ASSUME raw.sleep # NotThere
                 PROVE  Span(raw.sleep.idle, env, host) > 0 \/ Span(raw.sleep.after, env, host) > 0
      BY <1>1 DEF SleepOf
    <2>1. /\ raw.sleep.idle # NotThere \/ raw.sleep.after # NotThere
          /\ DurationReads(raw.sleep.idle, env, host) /\ DurationReads(raw.sleep.after, env, host)
      BY <1>2 DEF SleepReads
    <2> QED
      BY <2>1 DEF DurationReads, Span
  <1>7. s.compose # NotThere =>
          /\ \A i \in DOMAIN s.compose.subdomains :
               \E k \in DOMAIN s.compose.profiles : s.compose.profiles[k] = s.compose.subdomains[i].profile
          /\ \A i, j \in DOMAIN s.compose.subdomains :
               s.compose.subdomains[i].varName = s.compose.subdomains[j].varName => i = j
    <2> HAVE s.compose # NotThere
    <2>1. raw.compose # NotThere /\ s.compose = ComposeOf(raw, env, host, domain)
      BY <1>1 DEF ComposeOf
    <2>2. /\ s.compose.profiles = AllSay(raw.compose.profiles, env, host)
          /\ s.compose.subdomains = Wildcards(raw.compose, env, env["STACK"], domain)
      BY <2>1 DEF ComposeOf
    <2>3. Lists(raw.compose.subdomains)
      BY <1>2, <2>1 DEF ComposeReads, RawShape
    <2> DEFINE profiles == AllSay(raw.compose.profiles, env, host)
               routes == Wildcards(raw.compose, env, env["STACK"], domain)
    <2>4. /\ \A i \in DOMAIN routes : \E k \in DOMAIN profiles : profiles[k] = routes[i].profile
          /\ \A i, j \in DOMAIN routes : routes[i].varName = routes[j].varName => i = j
      BY <1>2, <2>1, <2>3, ParsedWildcards
    <2>5. s.compose.profiles = profiles /\ s.compose.subdomains = routes
      BY <2>2
    <2> HIDE DEF s, profiles, routes
    <2> QED
      BY <2>4, <2>5
  <1>8. Len(s.requires) \in Nat
    <2>1. PICK n \in Nat : DOMAIN EntriesOf(raw.requires) = 1 .. n
      BY <1>2, ListedAsEntries DEF RawShape, RequiresRead
    <2>2. s.requires = RequiresOf(raw, env, host)
      BY <1>1
    <2>3. DOMAIN RequiresOf(raw, env, host) = 1 .. n
      BY <2>1 DEF RequiresOf
    <2> QED
      BY <2>2, <2>3
  <1>9. s.stack = env["STACK"] /\ s.env = env /\ s.kind \in {"shared", "isolated"}
    BY <1>1, <1>2
  <1> HIDE DEF s
  <1>10. SoundSpec(s)
    BY <1>3, <1>4, <1>5, <1>6, <1>7, <1>9 DEF SoundSpec, Hooks, AxisHooks
  <1>11. Resolved(s, logs) \in StackType
    BY <1>4, <1>8 DEF Resolved, StackType
  <1> QED
    BY <1>10, <1>11 DEF s

================================================================================
