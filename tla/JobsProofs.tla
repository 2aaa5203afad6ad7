------------------------------ MODULE JobsProofs ------------------------------
(***************************************************************************)
(* The invariants of the job registry, proved for every set of stacks,     *)
(* every table of preempting actions and every bound; and those of the     *)
(* streams of a job, for any viewers, cancellers and lines.                *)
(***************************************************************************)
EXTENDS JobsProps, JobStream, FiniteSetTheorems, SequenceTheorems, TLAPS

-----------------------------------------------------------------------------
(***************************************************************************)
(* Types.                                                                  *)
(***************************************************************************)

LEMMA InitTypeOK == Init => TypeOK
  BY ConstantsAssumption DEF Init, TypeOK, Id, NoJob, TerminalStates, Occupying, WillPump

LEMMA CountIsNat == \A S \in SUBSET Stack : Cardinality(S) \in Nat
  BY ConstantsAssumption, FS_Subset, FS_CardinalityType

\* What a job's id, phase and state may be does not depend on who moves it.
LEMMA StepTypeOK == TypeOK /\ [Next]_vars => TypeOK'
  <1> SUFFICES ASSUME TypeOK, [Next]_vars PROVE TypeOK'
    OBVIOUS
  <1> USE ConstantsAssumption DEF TypeOK, Id, NoJob, TerminalStates, Occupying, WillPump
  <1>1. ASSUME NEW s \in Stack, NEW a \in Action, NEW idle \in BOOLEAN, Start(s, a, idle)
        PROVE  TypeOK'
    BY <1>1, SMTT(60) DEF Start, Waiting, Cancellable, Evictions, Terminal
  <1>2. ASSUME NEW i \in Id, Cancel(i) PROVE TypeOK'
    BY <1>2 DEF Cancel, EndLocked, Waiting
  <1>3. ASSUME NEW s \in Stack, CancelStack(s) PROVE TypeOK'
    BY <1>3 DEF CancelStack, EndLocked, Waiting, Cancellable
  <1>4. ASSUME NEW s \in Stack, Hold(s) PROVE TypeOK'
    BY <1>4 DEF Hold, record, threads
  <1>5. ASSUME NEW s \in Stack, ReleaseHold(s) PROVE TypeOK'
    BY <1>5 DEF ReleaseHold, record
  <1>6. ASSUME NEW n \in Caps, SetMaxRunning(n) PROVE TypeOK'
    BY <1>6 DEF SetMaxRunning, record, EffectiveCap
  <1>7. ASSUME NEW i, Pump(i), callers' \subseteq callers, owed' \in Nat,
               doomed' \in [Id -> Id \cup {NoJob}]
        PROVE  TypeOK'
    <2>1. PICK batch \in SUBSET Eligible : Pump(i)!(batch)
      BY <1>7 DEF Pump
    <2>2. Cardinality(batch) \in Nat
      BY CountIsNat DEF Eligible
    <2>. QED
      BY SMTT(40), <1>7, <2>1, <2>2 DEF Eligible
  <1>8. CASE PumpOwed
    BY <1>7, <1>8 DEF PumpOwed
  <1>9. ASSUME NEW i \in Id, Goroutine(i) PROVE TypeOK'
    <2>1. CASE Announce(i)
      BY <2>1 DEF Announce, Step, quiet
    <2>2. CASE EmitStarted(i)
      BY <2>2 DEF EmitStarted, Step, quiet
    <2>3. CASE Record(i)
      BY <2>3 DEF Record, Step, quiet, Recorded
    <2>4. CASE Release(i)
      BY <2>4 DEF Release, Step, quiet
    <2>5. CASE PumpAfterStart(i)
      BY <1>7, <2>5 DEF PumpAfterStart
    <2>6. CASE PumpAfterRun(i)
      BY <1>7, <2>6 DEF PumpAfterRun
    <2>. QED
      BY <1>9, <2>1, <2>2, <2>3, <2>4, <2>5, <2>6 DEF Goroutine
  <1>10. CASE UNCHANGED vars
    BY <1>10 DEF vars, record, locks, threads
  <1>. QED
    BY <1>1, <1>2, <1>3, <1>4, <1>5, <1>6, <1>8, <1>9, <1>10, SMTT(60) DEF Next

\* Every variable of the registry keeps its type (Registry and entry in jobs.go).
THEOREM TypeCorrect == Spec => []TypeOK
  BY InitTypeOK, StepTypeOK, PTL DEF Spec

-----------------------------------------------------------------------------
(***************************************************************************)
(* Who owns what: phases, queues and stacks point at each other.           *)
(***************************************************************************)

\* What run records is terminal, and is "cancelled" only for a cancelled job.
LEMMA RecordedTerminal ==
  \A i \in Id, outcome \in Outcomes :
    /\ Recorded(i, outcome) \in TerminalStates \ {"superseded"}
    /\ Recorded(i, outcome) = "cancelled" <=> i \in ctxErr
  BY ConstantsAssumption DEF Recorded, TerminalStates

LEMMA InitOwnership == Init => Ownership
  BY ConstantsAssumption
  DEF Init, Ownership, PhaseAgrees, QueuePoints, LivePoints, Id, NoJob, Occupying

LEMMA StepOwnership == TypeOK /\ Ownership /\ [Next]_vars => Ownership'
  <1> SUFFICES ASSUME TypeOK, Ownership, [Next]_vars PROVE Ownership'
    OBVIOUS
  <1> USE ConstantsAssumption
      DEF TypeOK, Id, NoJob, TerminalStates, Occupying, WillPump,
          Ownership, PhaseAgrees, QueuePoints, LivePoints
  <1>1. ASSUME NEW s \in Stack, NEW a \in Action, NEW idle \in BOOLEAN, Start(s, a, idle)
        PROVE  Ownership'
    BY SMTT(40), <1>1 DEF Start, Waiting
  <1>2. ASSUME NEW i \in Id, Cancel(i) PROVE Ownership'
    BY <1>2 DEF Cancel, EndLocked, Waiting, Terminal
  <1>3. ASSUME NEW s \in Stack, CancelStack(s) PROVE Ownership'
    BY <1>3 DEF CancelStack, EndLocked, Waiting
  <1>4. ASSUME NEW s \in Stack, Hold(s) PROVE Ownership'
    BY <1>4 DEF Hold, record, threads
  <1>5. ASSUME NEW s \in Stack, ReleaseHold(s) PROVE Ownership'
    BY <1>5 DEF ReleaseHold, record
  <1>6. ASSUME NEW n \in Caps, SetMaxRunning(n) PROVE Ownership'
    BY <1>6 DEF SetMaxRunning, record
  <1>7. ASSUME NEW i \in Id \cup {NoJob}, Pump(i), i # NoJob => pc[i] = "released" PROVE Ownership'
    <2>1. PICK batch \in SUBSET Eligible : Pump(i)!(batch)
      BY <1>7 DEF Pump
    <2>. QED
      BY <1>7, <2>1 DEF Eligible
  <1>8. CASE PumpOwed
    BY <1>7, <1>8 DEF PumpOwed
  <1>9. ASSUME NEW i \in Id, Goroutine(i) PROVE Ownership'
    <2>1. CASE Announce(i)
      BY <2>1 DEF Announce, Step, quiet
    <2>2. CASE EmitStarted(i)
      BY <2>2 DEF EmitStarted, Step, quiet
    <2>3. CASE Record(i)
      <3>1. PICK outcome \in Outcomes :
              state' = [state EXCEPT ![i] = Recorded(i, outcome)]
        BY <2>3 DEF Record
      <3>2. Recorded(i, outcome) \in TerminalStates
        BY RecordedTerminal
      <3>. QED
        BY <2>3, <3>1, <3>2 DEF Record, Step, quiet
    <2>4. CASE Release(i)
      BY <2>4 DEF Release, Step, quiet
    <2>5. CASE PumpAfterStart(i)
      BY <1>7, <2>5 DEF PumpAfterStart
    <2>6. CASE PumpAfterRun(i)
      BY <1>7, <2>6 DEF PumpAfterRun
    <2>. QED
      BY <1>9, <2>1, <2>2, <2>3, <2>4, <2>5, <2>6 DEF Goroutine
  <1>10. CASE UNCHANGED vars
    BY <1>10 DEF vars, record, locks, threads
  <1>. QED
    BY <1>1, <1>2, <1>3, <1>4, <1>5, <1>6, <1>8, <1>9, <1>10 DEF Next

\* The queue and live maps and the jobs' phases always agree (jobs.go, Registry).
THEOREM OwnershipHolds == Spec => []Ownership
  BY InitOwnership, StepOwnership, TypeCorrect, PTL DEF Spec

\* THE product guarantee (jobs.go 41-45): no two goroutines ever work for one
\* stack.
THEOREM StacksExclusive == Spec => []StackExclusion
  <1>1. TypeOK /\ Ownership => StackExclusion
    BY DEF TypeOK, Ownership, LivePoints, StackExclusion
  <1>. QED
    BY <1>1, TypeCorrect, OwnershipHolds, PTL

-----------------------------------------------------------------------------
(***************************************************************************)
(* Slots: inFlight is the number of occupied stacks, and only Pump and     *)
(* Release change either.                                                  *)
(***************************************************************************)
Occupied == {s \in Stack : live[s] # NoJob}

LEMMA PumpTakesSlots ==
  ASSUME TypeOK, SlotAccounting, NEW i, Pump(i)
  PROVE  SlotAccounting'
  <1>1. PICK batch \in SUBSET Eligible : Pump(i)!(batch)
    BY DEF Pump
  <1>2. Occupied' = Occupied \cup batch /\ Occupied \cap batch = {}
    BY <1>1 DEF TypeOK, Occupied, Eligible, NoJob, Id
  <1>3. IsFiniteSet(Occupied) /\ IsFiniteSet(batch)
    BY ConstantsAssumption, FS_Subset DEF Occupied, Eligible
  <1>4. Cardinality(Occupied') = Cardinality(Occupied) + Cardinality(batch)
    <2>1. Cardinality(Occupied \cup batch)
            = Cardinality(Occupied) + Cardinality(batch) - Cardinality(Occupied \cap batch)
      BY <1>3, FS_Union
    <2>2. Cardinality(Occupied \cap batch) = 0
      BY <1>2, FS_EmptySet
    <2>3. Cardinality(Occupied) \in Nat /\ Cardinality(batch) \in Nat
      BY <1>3, FS_CardinalityType
    <2>. QED
      BY <1>2, <2>1, <2>2, <2>3
  <1>. QED
    BY <1>1, <1>4 DEF SlotAccounting, Occupied

LEMMA ReleaseGivesSlotBack ==
  ASSUME TypeOK, Ownership, SlotAccounting, NEW i \in Id, Release(i)
  PROVE  SlotAccounting'
  <1>1. stackOf[i] \in Occupied /\ Occupied' = Occupied \ {stackOf[i]}
    BY DEF TypeOK, Ownership, LivePoints, Occupying, Release, Step, Occupied, NoJob, Id
  <1>2. IsFiniteSet(Occupied)
    BY ConstantsAssumption, FS_Subset DEF Occupied
  <1>3. Cardinality(Occupied') = Cardinality(Occupied) - 1
    BY <1>1, <1>2, FS_RemoveElement
  <1>. QED
    BY <1>3 DEF SlotAccounting, Occupied, Release

LEMMA StepSlots == TypeOK /\ Ownership /\ SlotAccounting /\ [Next]_vars => SlotAccounting'
  <1> SUFFICES ASSUME TypeOK, Ownership, SlotAccounting, [Next]_vars
               PROVE  SlotAccounting'
    OBVIOUS
  <1>1. CASE UNCHANGED <<live, inFlight>>
    BY <1>1 DEF SlotAccounting
  <1>2. ASSUME NEW s \in Stack,
               \/ \E a \in Action, idle \in BOOLEAN : Start(s, a, idle)
               \/ CancelStack(s) \/ Hold(s) \/ ReleaseHold(s)
        PROVE  UNCHANGED <<live, inFlight>>
    BY <1>2 DEF Start, CancelStack, Hold, ReleaseHold
  <1>3. ASSUME NEW i \in Id, Cancel(i) PROVE UNCHANGED <<live, inFlight>>
    BY <1>3 DEF Cancel
  <1>4. ASSUME NEW n \in Caps, SetMaxRunning(n) PROVE UNCHANGED <<live, inFlight>>
    BY <1>4 DEF SetMaxRunning
  <1>5. CASE PumpOwed
    BY <1>5, PumpTakesSlots DEF PumpOwed
  <1>6. ASSUME NEW i \in Id, Goroutine(i) PROVE SlotAccounting'
    <2>1. CASE Announce(i) \/ EmitStarted(i) \/ Record(i)
      BY <1>1, <2>1 DEF Announce, EmitStarted, Record
    <2>2. CASE Release(i)
      BY <2>2, ReleaseGivesSlotBack
    <2>3. CASE PumpAfterStart(i) \/ PumpAfterRun(i)
      BY <2>3, PumpTakesSlots DEF PumpAfterStart, PumpAfterRun
    <2>. QED
      BY <1>6, <2>1, <2>2, <2>3 DEF Goroutine
  <1>7. CASE UNCHANGED vars
    BY <1>1, <1>7 DEF vars, locks
  <1>. QED
    BY <1>1, <1>2, <1>3, <1>4, <1>5, <1>6, <1>7 DEF Next

\* No slot leaks and none is counted twice, under any traffic (pump and run).
THEOREM SlotsCounted == Spec => []SlotAccounting
  <1>1. Init => SlotAccounting
    <2>1. Init => {s \in Stack : live[s] # NoJob} = {}
      BY DEF Init
    <2>. QED
      BY <2>1, FS_EmptySet DEF Init, SlotAccounting
  <1>. QED
    BY <1>1, StepSlots, TypeCorrect, OwnershipHolds, PTL DEF Spec

\* Only lowering the cap leaves more jobs in flight than it allows (SetMaxRunning).
THEOREM CapHolds == Spec => CapRespected
  <1>1. TypeOK /\ Ownership /\ [Next]_vars
          => [inFlight' > inFlight => inFlight' <= maxRunning]_vars
    <2> SUFFICES ASSUME TypeOK, Ownership, [Next]_vars, inFlight' > inFlight
                 PROVE  inFlight' <= maxRunning
      OBVIOUS
    <2>1. ASSUME NEW i, Pump(i) PROVE inFlight' <= maxRunning
      <3>1. PICK batch \in SUBSET Eligible : Pump(i)!(batch)
        BY <2>1 DEF Pump
      <3>2. Cardinality(batch) \in Nat /\ Cardinality(batch) <= Room
        BY <3>1, CountIsNat DEF Eligible, IsNextBatch, Room, TypeOK
      <3>. QED
        BY <3>1, <3>2 DEF Room, TypeOK
    <2>2. ~ UNCHANGED inFlight
      BY DEF TypeOK
    <2>3. ASSUME NEW i \in Id, Goroutine(i) PROVE inFlight' <= maxRunning
      <3>1. ~ Release(i)
        BY DEF Release, TypeOK
      <3>. QED
        BY <2>1, <2>2, <2>3, <3>1
        DEF Goroutine, Announce, EmitStarted, Record, PumpAfterStart, PumpAfterRun
    <2>. QED
      BY <2>1, <2>2, <2>3
      DEF Next, Start, Cancel, CancelStack, Hold, ReleaseHold, SetMaxRunning,
          PumpOwed, vars, locks
  <1>. QED
    BY <1>1, TypeCorrect, OwnershipHolds, PTL DEF Spec, CapRespected

-----------------------------------------------------------------------------
(***************************************************************************)
(* Holds, cancellations and superseded jobs.                               *)
(***************************************************************************)
Quieter == HeldIsQuiet /\ CancelMarks /\ CancelAgrees /\ SupersededNeverRan
NotStarted == \A i \in Id : pc[i] \in {"unborn", "waiting"} => i \notin started
RecordInv == Quieter /\ NotStarted

LEMMA StepRecordInv == TypeOK /\ Ownership /\ RecordInv /\ [Next]_vars => RecordInv'
  <1> SUFFICES ASSUME TypeOK, Ownership, RecordInv, [Next]_vars PROVE RecordInv'
    OBVIOUS
  <1> USE ConstantsAssumption
      DEF TypeOK, Id, NoJob, TerminalStates, Terminal, Occupying, WillPump,
          Ownership, PhaseAgrees, QueuePoints, LivePoints,
          RecordInv, Quieter, NotStarted, HeldIsQuiet, CancelMarks, CancelAgrees,
          SupersededNeverRan
  <1>1. ASSUME NEW s \in Stack, NEW a \in Action, NEW idle \in BOOLEAN, Start(s, a, idle)
        PROVE  RecordInv'
    BY SMTT(40), <1>1 DEF Start, Waiting, Cancellable, Outranked
  <1>2. ASSUME NEW i \in Id, Cancel(i) PROVE RecordInv'
    <2>1. CASE pc[i] = "waiting"
      <3>1. {i} \cap Waiting(stackOf[i]) = {i}
        BY <2>1 DEF Waiting
      <3>. QED
        BY <1>2, <2>1, <3>1 DEF Cancel, EndLocked
    <2>2. CASE pc[i] # "waiting"
      <3>1. {i} \cap Waiting(stackOf[i]) = {}
        BY <2>2 DEF Waiting
      <3>. QED
        BY <1>2, <2>2, <3>1 DEF Cancel, EndLocked
    <2>. QED
      BY <2>1, <2>2
  <1>3. ASSUME NEW s \in Stack, CancelStack(s) PROVE RecordInv'
    BY <1>3 DEF CancelStack, EndLocked, Waiting, Cancellable
  <1>4. ASSUME NEW s \in Stack, Hold(s) PROVE RecordInv'
    BY <1>4 DEF Hold, IsBusy, record, threads
  <1>5. ASSUME NEW s \in Stack, ReleaseHold(s) PROVE RecordInv'
    BY <1>5 DEF ReleaseHold, record
  <1>6. ASSUME NEW n \in Caps, SetMaxRunning(n) PROVE RecordInv'
    BY <1>6 DEF SetMaxRunning, record
  <1>7. ASSUME NEW i \in Id \cup {NoJob}, Pump(i), i # NoJob => pc[i] = "released"
        PROVE  RecordInv'
    <2>1. PICK batch \in SUBSET Eligible : Pump(i)!(batch)
      BY <1>7 DEF Pump
    <2>. QED
      BY <1>7, <2>1 DEF Eligible
  <1>8. CASE PumpOwed
    BY <1>7, <1>8 DEF PumpOwed
  <1>9. ASSUME NEW i \in Id, Goroutine(i) PROVE RecordInv'
    <2>1. CASE Announce(i)
      BY <2>1 DEF Announce, Step, quiet
    <2>2. CASE EmitStarted(i)
      BY <2>2 DEF EmitStarted, Step, quiet
    <2>3. CASE Record(i)
      <3>1. PICK outcome \in Outcomes :
              state' = [state EXCEPT ![i] = Recorded(i, outcome)]
        BY <2>3 DEF Record
      <3>2. /\ Recorded(i, outcome) \in TerminalStates \ {"superseded"}
            /\ Recorded(i, outcome) = "cancelled" <=> i \in ctxErr
        BY RecordedTerminal
      <3>. QED
        BY <2>3, <3>1, <3>2 DEF Record, Step, quiet
    <2>4. CASE Release(i)
      BY <2>4 DEF Release, Step, quiet
    <2>5. CASE PumpAfterStart(i)
      BY <1>7, <2>5 DEF PumpAfterStart
    <2>6. CASE PumpAfterRun(i)
      BY <1>7, <2>6 DEF PumpAfterRun
    <2>. QED
      BY <1>9, <2>1, <2>2, <2>3, <2>4, <2>5, <2>6 DEF Goroutine
  <1>10. CASE UNCHANGED vars
    BY <1>10 DEF vars, record, locks, threads
  <1>. QED
    BY <1>1, <1>2, <1>3, <1>4, <1>5, <1>6, <1>8, <1>9, <1>10 DEF Next

THEOREM RecordsHold == Spec => []RecordInv
  <1>1. Init => RecordInv
    BY DEF Init, RecordInv, Quieter, NotStarted, HeldIsQuiet, CancelMarks, CancelAgrees,
           SupersededNeverRan, Terminal, TerminalStates
  <1>. QED
    BY <1>1, StepRecordInv, TypeCorrect, OwnershipHolds, PTL DEF Spec

\* While a route holds a stack no job runs on it and none waits (Hold).
THEOREM HoldsAreQuiet == Spec => []HeldIsQuiet
  BY RecordsHold, PTL DEF RecordInv, Quieter

\* A finished job is "cancelled" exactly when somebody cancelled it, wherever the
\* cancel landed (run, phase 1).
THEOREM CancelsAgree == Spec => []CancelAgrees
  BY RecordsHold, PTL DEF RecordInv, Quieter

\* No teardown is superseded and nothing superseded ever ran (start).
THEOREM TeardownsStand == Spec => []SupersededNeverRan
  BY RecordsHold, PTL DEF RecordInv, Quieter

-----------------------------------------------------------------------------
(***************************************************************************)
(* No lost wake-up: every way a job becomes startable owes a pump, and a   *)
(* pump leaves nothing startable or no room.                               *)
(***************************************************************************)
LEMMA PumpDrains ==
  ASSUME TypeOK, NEW i, Pump(i)
  PROVE  Eligible' = {} \/ Room' = 0
  <1>1. PICK batch \in SUBSET Eligible : Pump(i)!(batch)
    BY DEF Pump
  <1>2. Cardinality(batch) \in Nat
    BY CountIsNat DEF Eligible
  <1>3. CASE batch = Eligible
    BY <1>1, <1>3 DEF Eligible, TypeOK, NoJob
  <1>4. CASE Cardinality(batch) = Room
    BY <1>1, <1>2, <1>4 DEF Room, TypeOK
  <1>. QED
    BY <1>1, <1>3, <1>4 DEF IsNextBatch

LEMMA StepWakeup == TypeOK /\ Ownership /\ NoLostWakeup /\ [Next]_vars => NoLostWakeup'
  <1> SUFFICES ASSUME TypeOK, Ownership, NoLostWakeup, [Next]_vars
               PROVE  NoLostWakeup'
    OBVIOUS
  <1> USE DEF NoLostWakeup, WillPump
  <1>1. ASSUME NEW i, Pump(i) PROVE NoLostWakeup'
    BY <1>1, PumpDrains
  <1>2. ASSUME NEW s \in Stack, NEW a \in Action, NEW idle \in BOOLEAN, Start(s, a, idle)
        PROVE  NoLostWakeup'
    BY <1>2 DEF Start
  <1>3. ASSUME Eligible' \subseteq Eligible, UNCHANGED <<inFlight, maxRunning, owed, callers>>,
               \A i \in Id : pc[i] = "released" => pc'[i] = "released"
        PROVE  NoLostWakeup'
    BY <1>3 DEF Room
  <1>4. ASSUME NEW i \in Id, Cancel(i) PROVE NoLostWakeup'
    BY <1>3, <1>4 DEF Cancel, EndLocked, Eligible, Waiting, TypeOK, Ownership,
                      PhaseAgrees, QueuePoints, NoJob, Id
  <1>5. ASSUME NEW s \in Stack, CancelStack(s) PROVE NoLostWakeup'
    <2>1. Eligible' \subseteq Eligible
      BY <1>5 DEF CancelStack, EndLocked, Eligible, TypeOK
    <2>2. \A i \in Id : pc[i] = "released" => pc'[i] = "released"
      BY <1>5 DEF CancelStack, EndLocked, Waiting, TypeOK, Ownership, QueuePoints, NoJob, Id
    <2>. QED
      BY <1>3, <1>5, <2>1, <2>2 DEF CancelStack
  <1>6. ASSUME NEW s \in Stack, Hold(s) PROVE NoLostWakeup'
    BY <1>3, <1>6 DEF Hold, Eligible, threads
  <1>7. ASSUME NEW s \in Stack, ReleaseHold(s) PROVE NoLostWakeup'
    BY <1>7 DEF ReleaseHold, TypeOK
  <1>8. ASSUME NEW n \in Caps, SetMaxRunning(n) PROVE NoLostWakeup'
    BY <1>8 DEF SetMaxRunning, TypeOK
  <1>9. CASE PumpOwed
    BY <1>1, <1>9 DEF PumpOwed
  <1>10. ASSUME NEW i \in Id, Goroutine(i) PROVE NoLostWakeup'
    <2>1. CASE Announce(i)
      BY <1>3, <2>1 DEF Announce, Step, quiet, Eligible, TypeOK
    <2>2. CASE EmitStarted(i)
      BY <1>3, <2>2 DEF EmitStarted, Step, quiet, Eligible, TypeOK
    <2>3. CASE Record(i)
      BY <1>3, <2>3 DEF Record, Step, quiet, Eligible, TypeOK
    <2>4. CASE Release(i)
      BY <2>4 DEF Release, Step, TypeOK
    <2>5. CASE PumpAfterStart(i) \/ PumpAfterRun(i)
      BY <1>1, <2>5 DEF PumpAfterStart, PumpAfterRun
    <2>. QED
      BY <1>10, <2>1, <2>2, <2>3, <2>4, <2>5 DEF Goroutine
  <1>11. CASE UNCHANGED vars
    BY <1>3, <1>11 DEF vars, locks, threads, Eligible
  <1>. QED
    BY <1>2, <1>4, <1>5, <1>6, <1>7, <1>8, <1>9, <1>10, <1>11 DEF Next

\* Whenever a job could start, someone who has not pumped yet will (jobs.go, pump).
THEOREM WakeupsAreNotLost == Spec => []NoLostWakeup
  <1>1. Init => NoLostWakeup
    <2>1. Init => Eligible = {}
      BY DEF Init, Eligible
    <2>. QED
      BY <2>1 DEF NoLostWakeup
  <1>. QED
    BY <1>1, StepWakeup, TypeCorrect, OwnershipHolds, PTL DEF Spec

-----------------------------------------------------------------------------
(***************************************************************************)
(* The registry implements the lock of StackLock: each action takes the    *)
(* lock as one abstract action, or leaves it alone.                        *)
(***************************************************************************)
SameLock == UNCHANGED <<statusOf, stackOf, lockOf>>

LEMMA SameRegistrySameLock ==
  UNCHANGED <<state, stackOf, live, held>> => SameLock
  BY DEF SameLock, statusOf, lockOf

LEMMA EndedUpdate ==
  \A i \in Id :
    (\A j \in Id : statusOf'[j] = IF j = i THEN "ended" ELSE statusOf[j])
      => statusOf' = [statusOf EXCEPT ![i] = "ended"]
  BY DEF statusOf

LEMMA LockUpdate ==
  \A s \in Stack, l \in {0, -1} :
    (\A t \in Stack : lockOf'[t] = IF t = s THEN l ELSE lockOf[t])
      => lockOf' = [lockOf EXCEPT ![s] = l]
  BY DEF lockOf

LEMMA StartAccepts ==
  ASSUME TypeOK, Ownership, NEW s \in Stack, NEW a \in Action, NEW idle \in BOOLEAN,
         Start(s, a, idle)
  PROVE  Lock!Accept(seq + 1, s) /\ seq + 1 \in Id
  <1> USE DEF TypeOK, Id, NoJob, TerminalStates, Ownership, PhaseAgrees, QueuePoints
  <1>1. seq + 1 \in Id /\ pc[seq + 1] = "unborn" /\ state[seq + 1] = "none"
    BY ConstantsAssumption DEF Start
  <1>2. statusOf[seq + 1] = "none"
    BY <1>1 DEF statusOf
  <1>3. lockOf[s] # -1
    BY DEF Start, lockOf
  <1>4. Lock!Queued(s) = Waiting(s)
    BY DEF Lock!Queued, statusOf, Waiting
  <1>5. \A j \in Id : statusOf'[j] = CASE j = seq + 1 -> "queued"
                                       [] j \in Waiting(s) -> "ended"
                                       [] OTHER -> statusOf[j]
    <2>1. TAKE j \in Id
    <2>2. CASE j = seq + 1
      BY <1>1, <2>2 DEF Start, statusOf
    <2>3. CASE j # seq + 1 /\ j \in Waiting(s)
      BY <2>3 DEF Start, statusOf
    <2>4. CASE j # seq + 1 /\ j \notin Waiting(s)
      BY <2>4 DEF Start, statusOf
    <2>. QED
      BY <2>2, <2>3, <2>4
  <1>6. statusOf' = [j \in Id |-> CASE j = seq + 1 -> "queued"
                                    [] j \in Lock!Queued(s) -> "ended"
                                    [] OTHER -> statusOf[j]]
    BY <1>4, <1>5 DEF statusOf
  <1>7. stackOf' = [stackOf EXCEPT ![seq + 1] = s] /\ UNCHANGED lockOf
    BY DEF Start, lockOf
  <1>. QED
    BY <1>1, <1>2, <1>3, <1>6, <1>7 DEF Lock!Accept, Lock!Held

LEMMA DroppingDrops ==
  ASSUME TypeOK, Ownership, NEW i \in Id, NEW gone, gone \subseteq {i},
         gone # {} => pc[i] = "waiting", EndLocked(gone, "cancelled"),
         UNCHANGED <<stackOf, live, held>>
  PROVE  Lock!Drop(i) \/ SameLock
  <1> USE DEF TypeOK, Id, NoJob, TerminalStates, Ownership, PhaseAgrees
  <1>1. UNCHANGED lockOf
    BY DEF lockOf
  <1>2. CASE gone = {}
    <2>1. UNCHANGED statusOf
      BY <1>2 DEF EndLocked, statusOf
    <2>. QED
      BY <1>1, <2>1 DEF SameLock
  <1>3. CASE gone = {i}
    <2>1. statusOf[i] = "queued"
      BY <1>3 DEF statusOf
    <2>2. \A j \in Id : statusOf'[j] = IF j = i THEN "ended" ELSE statusOf[j]
      BY <1>3 DEF EndLocked, statusOf
    <2>3. statusOf' = [statusOf EXCEPT ![i] = "ended"]
      BY <2>2, EndedUpdate
    <2>. QED
      BY <1>1, <2>1, <2>3 DEF Lock!Drop
  <1>. QED
    BY ZenonT(60), <1>2, <1>3

LEMMA PumpDispatches ==
  ASSUME TypeOK, Ownership, HeldIsQuiet, NEW f \in Id \cup {NoJob}, Pump(f),
         f # NoJob => pc[f] = "released"
  PROVE  \E out \in SUBSET Id : Lock!Dispatch(out)
  <1> USE DEF TypeOK, Id, NoJob, TerminalStates, Ownership, PhaseAgrees, QueuePoints
  <1>1. PICK batch \in SUBSET Eligible : Pump(f)!(batch)
    BY DEF Pump
  <1> DEFINE out == {i \in Id : \E s \in batch : queue[s] = i}
  <1>2. \A i \in out : stackOf[i] \in batch /\ queue[stackOf[i]] = i /\ state[i] = "queued"
    BY DEF Eligible
  <1>3. \A i \in out : statusOf[i] = "queued" /\ lockOf[stackOf[i]] = 0
    BY <1>2 DEF statusOf, lockOf, Eligible
  <1>4. \A i \in Id : statusOf'[i] = IF i \in out THEN "running" ELSE statusOf[i]
    BY <1>1 DEF statusOf
  <1>5. statusOf' = [i \in Id |-> IF i \in out THEN "running" ELSE statusOf[i]]
    BY <1>4 DEF statusOf
  <1>6. \A s \in batch : queue[s] \in out /\ stackOf[queue[s]] = s
    BY DEF Eligible
  <1>7. \A s \in Stack : lockOf'[s] = IF s \in batch THEN queue[s] ELSE lockOf[s]
    BY <1>1, <1>6 DEF lockOf, Eligible
  <1>8. \A s \in Stack, i \in out : stackOf[i] = s => lockOf'[s] = i
    BY <1>2, <1>7
  <1>9. \A s \in Stack : (\A i \in out : stackOf[i] # s) => lockOf'[s] = lockOf[s]
    BY <1>6, <1>7
  <1>10. DOMAIN lockOf' = Stack
    BY DEF lockOf
  <1>11. UNCHANGED stackOf
    BY <1>1
  <1>12. Lock!Dispatch(out)
    BY <1>3, <1>5, <1>8, <1>9, <1>10, <1>11 DEF Lock!Dispatch, Lock!Free
  <1>. QED
    BY <1>12

LEMMA GoroutineTakesLock ==
  ASSUME TypeOK, Ownership, HeldIsQuiet, NEW i \in Id, Goroutine(i)
  PROVE  Lock!Next \/ SameLock
  <1>0. /\ pc[i] \in Occupying => live[stackOf[i]] = i
        /\ pc[i] = "working" => state[i] = "running"
        /\ pc[i] = "recorded" => state[i] \in TerminalStates
        /\ stackOf[i] \in Stack /\ i # NoJob
    BY DEF TypeOK, Ownership, PhaseAgrees, LivePoints, Occupying, Id, NoJob
  <1> USE DEF NoJob, TerminalStates, Occupying
  <1>1. CASE Announce(i) \/ EmitStarted(i)
    BY <1>1, SameRegistrySameLock DEF Announce, EmitStarted, quiet
  <1>2. CASE Record(i)
    <2>1. PICK outcome \in Outcomes :
            state' = [state EXCEPT ![i] = Recorded(i, outcome)]
      BY <1>2 DEF Record
    <2>2. Recorded(i, outcome) \in TerminalStates
      BY RecordedTerminal
    <2>3. statusOf[i] = "running" /\ lockOf[stackOf[i]] = i
      BY <1>0, <1>2 DEF Record, Step, statusOf, lockOf
    <2>4. \A j \in Id : statusOf'[j] = IF j = i THEN "ended" ELSE statusOf[j]
      BY <2>1, <2>2 DEF statusOf, TypeOK
    <2>5. statusOf' = [statusOf EXCEPT ![i] = "ended"]
      BY <2>4, EndedUpdate
    <2>6. UNCHANGED <<stackOf, lockOf>>
      BY <1>2 DEF Record, quiet, lockOf
    <2>. QED
      BY <2>3, <2>5, <2>6 DEF Lock!Next, Lock!Finish
  <1>3. CASE Release(i)
    <2>1. statusOf[i] = "ended" /\ lockOf[stackOf[i]] = i
      BY <1>0, <1>3 DEF Release, Step, statusOf, lockOf
    <2>2. \A s \in Stack : lockOf'[s] = IF s = stackOf[i] THEN 0 ELSE lockOf[s]
      BY <1>0, <1>3 DEF Release, Step, quiet, lockOf, HeldIsQuiet
    <2>3. lockOf' = [lockOf EXCEPT ![stackOf[i]] = 0]
      BY <1>0, <2>2, LockUpdate
    <2>4. UNCHANGED <<statusOf, stackOf>>
      BY <1>3 DEF Release, quiet, statusOf
    <2>. QED
      BY <2>1, <2>3, <2>4 DEF Lock!Next, Lock!Release, Lock!Free
  <1>4. CASE PumpAfterStart(i) \/ PumpAfterRun(i)
    BY <1>4, PumpDispatches DEF PumpAfterStart, PumpAfterRun, Lock!Next
  <1>. QED
    BY <1>1, <1>2, <1>3, <1>4 DEF Goroutine

LEMMA StepLock ==
  TypeOK /\ Ownership /\ HeldIsQuiet /\ [Next]_vars
    => [Lock!Next]_<<statusOf, stackOf, lockOf>>
  <1> SUFFICES ASSUME TypeOK, Ownership, HeldIsQuiet, [Next]_vars
               PROVE  Lock!Next \/ SameLock
    BY DEF SameLock
  <1>1. ASSUME NEW s \in Stack, NEW a \in Action, NEW idle \in BOOLEAN, Start(s, a, idle)
        PROVE  Lock!Next
    BY <1>1, StartAccepts DEF Lock!Next
  <1>2. ASSUME NEW i \in Id, Cancel(i) PROVE Lock!Next \/ SameLock
    <2>1. {i} \cap Waiting(stackOf[i]) # {} => pc[i] = "waiting"
      BY DEF Waiting, Ownership, QueuePoints, TypeOK, Id, NoJob
    <2>. QED
      BY <1>2, <2>1, DroppingDrops DEF Cancel, Lock!Next
  <1>3. ASSUME NEW s \in Stack, CancelStack(s) PROVE Lock!Next \/ SameLock
    <2>1. CASE queue[s] = NoJob
      <3>1. Waiting(s) = {} /\ 1 \in Id
        BY <2>1, ConstantsAssumption DEF Waiting, NoJob, Id
      <3>. QED
        BY <1>3, <3>1, DroppingDrops DEF CancelStack, Lock!Next
    <2>2. CASE queue[s] # NoJob
      <3>1. Waiting(s) = {queue[s]} /\ queue[s] \in Id /\ pc[queue[s]] = "waiting"
        BY <2>2 DEF Waiting, TypeOK, Ownership, QueuePoints
      <3>. QED
        BY <1>3, <3>1, DroppingDrops DEF CancelStack, Lock!Next
    <2>. QED
      BY <2>1, <2>2
  <1>4. ASSUME NEW s \in Stack, Hold(s) PROVE Lock!Next
    <2>1. lockOf[s] = 0 /\ Lock!Queued(s) = {}
      BY <1>4 DEF Hold, IsBusy, lockOf, Lock!Queued, statusOf, TypeOK, Ownership,
                  PhaseAgrees, QueuePoints, NoJob, Id
    <2>2. \A t \in Stack : lockOf'[t] = IF t = s THEN -1 ELSE lockOf[t]
      BY <1>4 DEF Hold, IsBusy, lockOf
    <2>3. lockOf' = [lockOf EXCEPT ![s] = -1]
      BY <2>2, LockUpdate
    <2>4. UNCHANGED <<statusOf, stackOf>>
      BY <1>4 DEF Hold, record, statusOf
    <2>. QED
      BY <2>1, <2>3, <2>4 DEF Lock!Next, Lock!Hold, Lock!Free, Lock!Held
  <1>5. ASSUME NEW s \in Stack, ReleaseHold(s) PROVE Lock!Next
    <2>1. lockOf[s] = -1
      BY <1>5 DEF ReleaseHold, HeldIsQuiet, lockOf
    <2>2. \A t \in Stack : lockOf'[t] = IF t = s THEN 0 ELSE lockOf[t]
      BY <1>5 DEF ReleaseHold, HeldIsQuiet, lockOf
    <2>3. lockOf' = [lockOf EXCEPT ![s] = 0]
      BY <2>2, LockUpdate
    <2>4. UNCHANGED <<statusOf, stackOf>>
      BY <1>5 DEF ReleaseHold, record, statusOf
    <2>. QED
      BY <2>1, <2>3, <2>4 DEF Lock!Next, Lock!Unhold, Lock!Free, Lock!Held
  <1>6. ASSUME NEW n \in Caps, SetMaxRunning(n) PROVE SameLock
    BY <1>6, SameRegistrySameLock DEF SetMaxRunning, record
  <1>7. CASE PumpOwed
    BY <1>7, PumpDispatches DEF PumpOwed, Lock!Next
  <1>8. ASSUME NEW i \in Id, Goroutine(i) PROVE Lock!Next \/ SameLock
    BY <1>8, GoroutineTakesLock
  <1>9. CASE UNCHANGED vars
    BY <1>9, SameRegistrySameLock DEF vars, record, locks
  <1>. QED
    BY <1>1, <1>2, <1>3, <1>4, <1>5, <1>6, <1>7, <1>8, <1>9 DEF Next

\* To its callers the registry is one lock per stack, taken by dispatched jobs
\* and by holds (the package header of jobs.go).
THEOREM RegistryImplementsLock == Spec => ImplementsLock
  <1>1. Init => Lock!Init
    BY ConstantsAssumption
    DEF Init, Lock!Init, Lock!Free, statusOf, lockOf, NoJob, Id
  <1>. QED
    BY <1>1, StepLock, TypeCorrect, OwnershipHolds, HoldsAreQuiet, PTL
    DEF Spec, ImplementsLock, Lock!Spec, Lock!abstract

\* A finished job never moves again and its record never changes (jobs.go 141-156).
THEOREM FinishedIsForever == Spec => TerminalForever
  <1>1. TypeOK /\ Ownership /\ Next => FinishedStay
    <2> SUFFICES ASSUME TypeOK, Ownership, Next, NEW i \in Id, Terminal(state[i])
                 PROVE  state'[i] = state[i] /\ (i \in cancelledBy <=> i \in cancelledBy')
      BY DEF FinishedStay
    <2> USE ConstantsAssumption
        DEF TypeOK, Id, NoJob, TerminalStates, Terminal, Occupying, WillPump,
            Ownership, PhaseAgrees, QueuePoints, LivePoints
    <2>1. ASSUME NEW s \in Stack, NEW a \in Action, NEW idle \in BOOLEAN, Start(s, a, idle)
          PROVE  state'[i] = state[i] /\ (i \in cancelledBy <=> i \in cancelledBy')
      BY <2>1 DEF Start, Waiting, Cancellable
    <2>2. ASSUME NEW j \in Id, Cancel(j)
          PROVE  state'[i] = state[i] /\ (i \in cancelledBy <=> i \in cancelledBy')
      BY <2>2 DEF Cancel, EndLocked, Waiting
    <2>3. ASSUME NEW s \in Stack, CancelStack(s)
          PROVE  state'[i] = state[i] /\ (i \in cancelledBy <=> i \in cancelledBy')
      <3>1. i \notin Waiting(s) /\ i \notin Cancellable(s)
        BY DEF Waiting, Cancellable
      <3>. QED
        BY <2>3, <3>1 DEF CancelStack, EndLocked
    <2>4. ASSUME NEW s \in Stack, Hold(s) \/ ReleaseHold(s)
          PROVE  UNCHANGED <<state, cancelledBy>>
      BY <2>4 DEF Hold, ReleaseHold, record
    <2>5. ASSUME NEW n \in Caps, SetMaxRunning(n) PROVE UNCHANGED <<state, cancelledBy>>
      BY <2>5 DEF SetMaxRunning, record
    <2>6. ASSUME NEW j, Pump(j) PROVE state'[i] = state[i] /\ UNCHANGED cancelledBy
      BY <2>6 DEF Pump, Eligible
    <2>7. ASSUME NEW j \in Id, Goroutine(j)
          PROVE  state'[i] = state[i] /\ UNCHANGED cancelledBy
      BY <2>6, <2>7 DEF Goroutine, Announce, EmitStarted, Record, Release,
                        PumpAfterStart, PumpAfterRun, Step, quiet
    <2>. QED
      BY <2>1, <2>2, <2>3, <2>4, <2>5, <2>6, <2>7 DEF Next, PumpOwed
  <1>2. TypeOK /\ Ownership /\ [Next]_vars => [FinishedStay]_vars
    BY <1>1
  <1>. QED
    BY <1>2, TypeCorrect, OwnershipHolds, PTL DEF Spec, TerminalForever

-----------------------------------------------------------------------------
(***************************************************************************)
(* Records: only Start evicts, it evicts finished jobs only, and it evicts *)
(* enough of them.                                                         *)
(***************************************************************************)
ActiveKept == \A i \in Id : state[i] \in {"queued", "running"} => i \in kept

\* Jobs that differ in their stack are no more than the stacks.
LEMMA OnePerStack ==
  ASSUME NEW W \in SUBSET Id, NEW home \in [Id -> Stack],
         \A i, j \in W : home[i] = home[j] => i = j
  PROVE  IsFiniteSet(W) /\ Cardinality(W) <= Cardinality(Stack)
  <1> DEFINE f == [i \in W |-> home[i]]
  <1>1. f \in Injection(W, Stack)
    BY DEF Injection, IsInjective
  <1>. QED
    BY <1>1, ConstantsAssumption, FS_Injection

\* What is left of the records after an accepted job: finished ones, at most
\* MaxJobs - 1 of them, unless they all fit (evictLocked).
LEMMA EvictionSparesActive ==
  ASSUME NEW all \in SUBSET Id, NEW st, NEW gone \in Evictions(all, st)
  PROVE  /\ gone \subseteq {i \in all : Terminal(st[i])}
         /\ \/ Cardinality(all \ gone) <= MaxJobs
            \/ Cardinality({i \in all \ gone : Terminal(st[i])}) <= MaxJobs - 1
  <1> DEFINE finished == {i \in all : Terminal(st[i])}
             surplus == Cardinality(finished) - (MaxJobs - 1)
  <1>1. IsFiniteSet(all) /\ IsFiniteSet(finished)
    BY ConstantsAssumption, FS_Interval, FS_Subset, 1 \in Int, MaxSeq \in Int DEF Id
  <1>2. Cardinality(all) \in Nat /\ Cardinality(finished) \in Nat
    BY <1>1, FS_CardinalityType
  <1>3. CASE Cardinality(all) <= MaxJobs \/ surplus <= 0
    <2>1. gone = {}
      BY <1>3 DEF Evictions
    <2>. QED
      BY <1>2, <1>3, <2>1, ConstantsAssumption
  <1>4. CASE ~ (Cardinality(all) <= MaxJobs \/ surplus <= 0)
    <2>1. gone \in SUBSET finished /\ Cardinality(gone) = surplus
      BY <1>4 DEF Evictions
    <2>2. Cardinality(finished \ gone)
            = Cardinality(finished) - Cardinality(finished \cap gone)
      BY <1>1, FS_Difference
    <2>3. /\ finished \cap gone = gone
          /\ finished \ gone = {i \in all \ gone : Terminal(st[i])}
      BY <2>1
    <2>4. Cardinality(finished \ gone) = MaxJobs - 1
      BY <1>2, <2>1, <2>2, <2>3, ConstantsAssumption
    <2>5. Cardinality({i \in all \ gone : Terminal(st[i])}) <= MaxJobs - 1
      BY <2>3, <2>4, ConstantsAssumption
    <2>. QED
      BY <2>1, <2>5
  <1>. QED
    BY <1>3, <1>4

LEMMA StepActiveKept ==
  TypeOK /\ Ownership /\ ActiveKept /\ [Next]_vars => ActiveKept'
  <1> SUFFICES ASSUME TypeOK, Ownership, ActiveKept, [Next]_vars PROVE ActiveKept'
    OBVIOUS
  <1> USE DEF ActiveKept
  <1>1. ASSUME NEW s \in Stack, NEW a \in Action, NEW idle \in BOOLEAN, Start(s, a, idle)
        PROVE  ActiveKept'
    <2>1. PICK gone \in Evictions(kept \cup {seq + 1}, state') :
            kept' = (kept \cup {seq + 1}) \ gone
      BY <1>1 DEF Start
    <2>2. seq + 1 \in Id
      BY <1>1, ConstantsAssumption DEF Start, TypeOK, Id
    <2>3. gone \subseteq {i \in kept \cup {seq + 1} : Terminal(state'[i])}
      <3>1. kept \cup {seq + 1} \in SUBSET Id
        BY <2>2 DEF TypeOK
      <3>. QED
        BY <2>1, <3>1, EvictionSparesActive
    <2>4. \A i \in Id : state'[i] \in {"queued", "running"} /\ i # seq + 1
                          => state[i] = state'[i]
      BY <1>1 DEF Start, TypeOK
    <2>. QED
      BY <2>1, <2>2, <2>3, <2>4 DEF Terminal, TerminalStates
  <1>2. ASSUME NEW i \in Id, Cancel(i) PROVE ActiveKept'
    BY <1>2 DEF Cancel, EndLocked, TypeOK
  <1>3. ASSUME NEW s \in Stack, CancelStack(s) PROVE ActiveKept'
    BY <1>3 DEF CancelStack, EndLocked, TypeOK
  <1>4. ASSUME NEW s \in Stack, Hold(s) \/ ReleaseHold(s) PROVE ActiveKept'
    BY <1>4 DEF Hold, ReleaseHold, record
  <1>5. ASSUME NEW n \in Caps, SetMaxRunning(n) PROVE ActiveKept'
    BY <1>5 DEF SetMaxRunning, record
  <1>6. ASSUME NEW i, Pump(i) PROVE ActiveKept'
    <2>1. PICK batch \in SUBSET Eligible : Pump(i)!(batch)
      BY <1>6 DEF Pump
    <2>2. \A j \in Id : (\E s \in batch : queue[s] = j) => state[j] = "queued"
      BY DEF Eligible, Ownership, QueuePoints, PhaseAgrees, TypeOK
    <2>. QED
      BY <2>1, <2>2 DEF TypeOK
  <1>7. CASE PumpOwed
    BY <1>6, <1>7 DEF PumpOwed
  <1>8. ASSUME NEW i \in Id, Goroutine(i) PROVE ActiveKept'
    <2>1. CASE Announce(i) \/ EmitStarted(i) \/ Release(i)
      BY <2>1 DEF Announce, EmitStarted, Release, quiet
    <2>2. CASE Record(i)
      <3>1. PICK outcome \in Outcomes : state' = [state EXCEPT ![i] = Recorded(i, outcome)]
        BY <2>2 DEF Record
      <3>2. Recorded(i, outcome) \in TerminalStates
        BY RecordedTerminal
      <3>. QED
        BY <2>2, <3>1, <3>2 DEF Record, quiet, TypeOK, TerminalStates
    <2>3. CASE PumpAfterStart(i) \/ PumpAfterRun(i)
      BY <1>6, <2>3 DEF PumpAfterStart, PumpAfterRun
    <2>. QED
      BY <1>8, <2>1, <2>2, <2>3 DEF Goroutine
  <1>9. CASE UNCHANGED vars
    BY <1>9 DEF vars, record
  <1>. QED
    BY <1>1, <1>2, <1>3, <1>4, <1>5, <1>7, <1>8, <1>9 DEF Next

\* The jobs that have not finished are at most two per stack.
LEMMA StepBounded ==
  TypeOK /\ Ownership /\ KeptBounded /\ TypeOK' /\ Ownership' /\ [Next]_vars => KeptBounded'
  <1> SUFFICES ASSUME TypeOK, Ownership, KeptBounded, TypeOK', Ownership', [Next]_vars
               PROVE  KeptBounded'
    OBVIOUS
  <1>1. CASE UNCHANGED kept
    BY <1>1 DEF KeptBounded
  <1>2. ASSUME NEW s \in Stack, NEW a \in Action, NEW idle \in BOOLEAN, Start(s, a, idle)
        PROVE  KeptBounded'
    <2> DEFINE all == kept \cup {seq + 1}
               over == {i \in kept' : Terminal(state'[i])}
               waits == {i \in Id : state'[i] = "queued"}
               runs == {i \in Id : state'[i] = "running"}
    <2>1. PICK gone \in Evictions(all, state') : kept' = all \ gone
      BY <1>2 DEF Start
    <2>2. all \in SUBSET Id
      BY <1>2, ConstantsAssumption DEF Start, TypeOK, Id
    <2>3. Cardinality(kept') <= MaxJobs \/ Cardinality(over) <= MaxJobs - 1
      BY <2>1, <2>2, EvictionSparesActive
    <2>4. IsFiniteSet(waits) /\ Cardinality(waits) <= Cardinality(Stack)
      <3>1. \A i, j \in waits : stackOf'[i] = stackOf'[j] => i = j
        BY DEF Ownership, PhaseAgrees, QueuePoints, TypeOK
      <3>2. stackOf' \in [Id -> Stack]
        BY DEF TypeOK
      <3>. QED
        BY <3>1, <3>2, OnePerStack
    <2>5. IsFiniteSet(runs) /\ Cardinality(runs) <= Cardinality(Stack)
      <3>1. \A i, j \in runs : stackOf'[i] = stackOf'[j] => i = j
        BY DEF Ownership, PhaseAgrees, LivePoints, TypeOK, Occupying
      <3>2. stackOf' \in [Id -> Stack]
        BY DEF TypeOK
      <3>. QED
        BY <3>1, <3>2, OnePerStack
    <2>6. IsFiniteSet(kept') /\ IsFiniteSet(over)
      <3>1. IsFiniteSet(Id)
        BY ConstantsAssumption, FS_Interval, 1 \in Int, MaxSeq \in Int DEF Id
      <3>. QED
        BY <3>1, <2>1, <2>2, FS_Subset
    <2>7. kept' \subseteq over \cup (waits \cup runs)
      <3>1. \A i \in kept' : i \in Id /\ state'[i] # "none"
        BY DEF TypeOK, Ownership, PhaseAgrees
      <3>. QED
        BY <3>1 DEF TypeOK, Terminal
    <2>8. Cardinality(over \cup (waits \cup runs))
            <= Cardinality(over) + Cardinality(waits) + Cardinality(runs)
      <3>1. \A S, T : IsFiniteSet(S) /\ IsFiniteSet(T) =>
              IsFiniteSet(S \cup T) /\ Cardinality(S \cup T) <= Cardinality(S) + Cardinality(T)
        <4> SUFFICES ASSUME NEW S, NEW T, IsFiniteSet(S), IsFiniteSet(T)
                     PROVE  /\ IsFiniteSet(S \cup T)
                            /\ Cardinality(S \cup T) <= Cardinality(S) + Cardinality(T)
          OBVIOUS
        <4>1. /\ IsFiniteSet(S \cup T)
              /\ Cardinality(S \cup T)
                   = Cardinality(S) + Cardinality(T) - Cardinality(S \cap T)
          BY FS_Union
        <4>2. IsFiniteSet(S \cap T)
          BY FS_Intersection
        <4>3. Cardinality(S) \in Nat /\ Cardinality(T) \in Nat /\ Cardinality(S \cap T) \in Nat
          BY <4>2, FS_CardinalityType
        <4>. QED
          BY <4>1, <4>3
      <3>2. IsFiniteSet(waits \cup runs)
        BY <3>1, <2>4, <2>5
      <3>3. /\ Cardinality(waits \cup runs) \in Nat
            /\ Cardinality(over \cup (waits \cup runs)) \in Nat
            /\ Cardinality(over) \in Nat
            /\ Cardinality(waits) \in Nat
            /\ Cardinality(runs) \in Nat
        BY <3>1, <3>2, <2>4, <2>5, <2>6, FS_CardinalityType
      <3>4. Cardinality(waits \cup runs) <= Cardinality(waits) + Cardinality(runs)
        BY <3>1, <2>4, <2>5
      <3>5. Cardinality(over \cup (waits \cup runs))
              <= Cardinality(over) + Cardinality(waits \cup runs)
        BY <3>1, <3>2, <2>6
      <3>. QED
        BY <3>3, <3>4, <3>5
    <2>9. IsFiniteSet(over \cup (waits \cup runs))
      BY <2>4, <2>5, <2>6, FS_Union
    <2>10. Cardinality(kept') <= Cardinality(over \cup (waits \cup runs))
      BY <2>7, <2>9, FS_Subset
    <2>11. /\ Cardinality(kept') \in Nat /\ Cardinality(over) \in Nat
           /\ Cardinality(waits) \in Nat /\ Cardinality(runs) \in Nat
           /\ Cardinality(over \cup (waits \cup runs)) \in Nat
           /\ Cardinality(Stack) \in Nat /\ Cardinality(Stack) > 0
      BY <2>4, <2>5, <2>6, <2>9, ConstantsAssumption, FS_CardinalityType, FS_EmptySet
    <2>. HIDE DEF all, over, waits, runs
    <2>. QED
      BY <2>3, <2>4, <2>5, <2>8, <2>10, <2>11, ConstantsAssumption DEF KeptBounded
  <1>3. ASSUME NEW i, Pump(i) PROVE UNCHANGED kept
    BY <1>3 DEF Pump
  <1>4. ASSUME NEW i \in Id, Goroutine(i) PROVE UNCHANGED kept
    BY <1>3, <1>4 DEF Goroutine, Announce, EmitStarted, Record, Release,
                      PumpAfterStart, PumpAfterRun, quiet
  <1>5. ASSUME NEW s \in Stack, CancelStack(s) \/ Hold(s) \/ ReleaseHold(s)
        PROVE  UNCHANGED kept
    BY <1>5 DEF CancelStack, Hold, ReleaseHold, record
  <1>6. ASSUME NEW i \in Id, Cancel(i) PROVE UNCHANGED kept
    BY <1>6 DEF Cancel
  <1>7. ASSUME NEW n \in Caps, SetMaxRunning(n) PROVE UNCHANGED kept
    BY <1>7 DEF SetMaxRunning, record
  <1>. QED
    BY <1>1, <1>2, <1>3, <1>4, <1>5, <1>6, <1>7 DEF Next, PumpOwed, vars, record

\* What the registry remembers (the jobs map and evictLocked): an unfinished job
\* always has its record, queue and records agree, the records are bounded, and
\* one that says its job is over never changes.
THEOREM RecordsAreKept == Spec => RegistryKeeps
  <1>1. Init => ActiveKept /\ KeptBounded
    <2>1. Cardinality({}) = 0 /\ Cardinality(Stack) \in Nat
      BY ConstantsAssumption, FS_EmptySet, FS_CardinalityType
    <2>. QED
      BY <2>1, ConstantsAssumption DEF Init, ActiveKept, KeptBounded
  <1>2. Spec => [](ActiveKept /\ KeptBounded)
    BY <1>1, StepActiveKept, StepBounded, TypeCorrect, OwnershipHolds, PTL DEF Spec
  <1>3. TypeOK /\ Ownership /\ ActiveKept => QueueAgrees
    BY DEF TypeOK, Ownership, PhaseAgrees, QueuePoints, ActiveKept, QueueAgrees, Id, NoJob
  <1>. QED
    BY <1>2, <1>3, TypeCorrect, OwnershipHolds, FinishedIsForever, PTL DEF RegistryKeeps
-----------------------------------------------------------------------------
(***************************************************************************)
(* The streams of a job.  Of a stream that is open the invariant says that *)
(* what it has sent and what its queue holds are the lines up to the one   *)
(* the fan-out has brought it, with `d` lines (none or one) that came      *)
(* twice, at the seam of its replay.                                       *)
(***************************************************************************)
Doing == {"new", "gone", "open", "replay", "live", "over"}
ViewRecord == [at : Doing, known : States \cup {"none"}, state : States \cup {"none"}, replay : Nat,
               queue : Seq(Nat), sent : Seq(Nat), done : States \cup {"none"}]
Answers == {"new", "404", "409", "queued", "running", "had not started", "was not undone"}

StreamTypes ==
    /\ log \in Nat /\ jobState \in States /\ ctxDone \in BOOLEAN /\ owedLines \in 0 .. 2
    /\ phase \in {"queued", "work", "sink", "announce", "over"}
    /\ frame \in {<<>>} \cup {<<n>> : n \in Nat} /\ hearers \in {<<>>} \cup {<<s>> : s \in SUBSET Viewers}
    /\ inRegistry \in BOOLEAN /\ subs \in SUBSET Viewers
    /\ view \in [Viewers -> ViewRecord] /\ asked \in [Cancellers -> Answers]

(* The job: what its phase says of its state, of its frames and of how long its log may be. *)
Course ==
    /\ phase = "queued" <=> jobState = "queued"
    /\ phase = "work" <=> jobState = "running"
    /\ ~inRegistry => IsOver(jobState)
    /\ Silent => hearers = <<>>
    /\ ~Silent => \/ frame = <<log>> /\ log > 0 /\ phase \in {"work", "sink"}
                  \/ frame = <<Finish>> /\ phase = "announce"
    /\ phase \in {"queued", "work"} => log <= MaxWork /\ owedLines = 0
    /\ log + owedLines <= MaxWork + 2

Audience ==
    /\ hearers # <<>> => \A v \in hearers[1] : view[v].at \notin {"new", "open"}
    /\ \A v \in subs : view[v].at \in {"replay", "live"}

(* What a stream has of the lines, of which `n` have been brought to it. *)
Ended(q) == q # <<>> /\ q[Len(q)] = Finish
LinesIn(q) == IF Ended(q) THEN Len(q) - 1 ELSE Len(q)
Written(x) == IF x.at = "replay" THEN x.replay ELSE Len(x.sent)
FlowAt(x, w, k, n, d) ==
    /\ d \in {0, 1} /\ (d = 1 => x.replay >= 1) /\ w >= x.replay
    /\ x.at = "replay" => x.sent = <<>>
    /\ \A i \in 1 .. Len(x.sent) : x.sent[i] = IF i <= x.replay THEN i ELSE i - d
    /\ \A j \in 1 .. k : x.queue[j] = w + j - d
    /\ w + k = n + d
Flow(x, n, d) == FlowAt(x, Written(x), LinesIn(x.queue), n, d)

Awaits(v) == ~Silent /\ IF hearers = <<>> THEN v \in subs ELSE v \in hearers[1]
Brought(v) == IF Awaits(v) /\ frame # <<Finish>> THEN log - 1 ELSE log
Open(v) == view[v].at \in {"replay", "live"}
Follows(v) == Open(v) =>
    /\ v \in subs /\ view[v].replay <= log
    /\ \E d \in {0, 1} : Flow(view[v], Brought(v), d)
Finishes(v) == Open(v) =>
    /\ Ended(view[v].queue) => phase \in {"announce", "over"} /\ ~Awaits(v)
    /\ IsOver(view[v].state) => view[v].state = jobState
    /\ ~IsOver(view[v].state) /\ phase \in {"announce", "over"} =>
         Ended(view[v].queue) \/ (frame = <<Finish>> /\ Awaits(v))
Seam(x) ==
    /\ x.sent # <<>> => x.sent[1] = 1
    /\ \A i \in 1 .. Len(x.sent) - 1 : x.sent[i + 1] = x.sent[i] + 1 \/ (x.sent[i + 1] = x.sent[i] /\ i = x.replay)
Told(v) == view[v].at = "over" =>
    IF inRegistry THEN view[v].done = jobState /\ IsOver(jobState) ELSE view[v].done \in {jobState, view[v].known}
Fresh(v) == view[v].at \in {"new", "open"} => view[v].queue = <<>> /\ view[v].sent = <<>>
Sees(v) == Fresh(v) /\ Follows(v) /\ Finishes(v) /\ Seam(view[v]) /\ Told(v)

StreamIInv == StreamTypes /\ Course /\ Audience /\ \A v \in Viewers : Sees(v)
--------------------------------------------------------------------------------
(* What a queue and a replay do to what a stream has. *)
LEMMA Joined ==
    ASSUME NEW s \in Seq(Nat), NEW q \in Seq(Nat)
    PROVE  /\ s \o q \in Seq(Nat) /\ Len(s \o q) = Len(s) + Len(q)
           /\ \A i \in 1 .. Len(s) + Len(q) : (s \o q)[i] = IF i <= Len(s) THEN s[i] ELSE q[i - Len(s)]
  BY ConcatProperties

LEMMA OneMore ==
    ASSUME NEW q \in Seq(Nat), NEW n \in Nat
    PROVE  /\ q \o <<n>> \in Seq(Nat) /\ q \o <<n>> # <<>>
           /\ Len(q \o <<n>>) = Len(q) + 1 /\ (q \o <<n>>)[Len(q) + 1] = n
           /\ \A j \in 1 .. Len(q) : (q \o <<n>>)[j] = q[j]
  <1>1. <<n>> \in Seq(Nat) /\ Len(<<n>>) = 1 /\ <<n>>[1] = n
    OBVIOUS
  <1>2. Len(q) \in Nat
    OBVIOUS
  <1>3. PICK s : s = q \o <<n>>
    OBVIOUS
  <1>4. /\ s \in Seq(Nat) /\ Len(s) = Len(q) + 1
        /\ \A i \in 1 .. Len(q) + 1 : s[i] = IF i <= Len(q) THEN q[i] ELSE <<n>>[i - Len(q)]
    BY <1>1, <1>3, Joined
  <1>. QED
    BY <1>1, <1>2, <1>3, <1>4

LEMMA LineArrives ==
    ASSUME NEW x \in ViewRecord, NEW n \in Nat, NEW d \in {0, 1}, Flow(x, n, d), ~Ended(x.queue)
    PROVE  LET y == [x EXCEPT !.queue = @ \o <<n + 1>>] IN
           y \in ViewRecord /\ Flow(y, n + 1, d) /\ ~Ended(y.queue)
  <1> DEFINE y == [x EXCEPT !.queue = @ \o <<n + 1>>]
  <1>1. x.queue \in Seq(Nat) /\ x.sent \in Seq(Nat) /\ x.replay \in Nat
    BY DEF ViewRecord
  <1>2. PICK q : q = x.queue \o <<n + 1>>
    OBVIOUS
  <1>3. /\ q \in Seq(Nat) /\ q # <<>> /\ Len(q) = Len(x.queue) + 1 /\ q[Len(x.queue) + 1] = n + 1
        /\ \A j \in 1 .. Len(x.queue) : q[j] = x.queue[j]
    BY <1>1, <1>2, OneMore
  <1>4. ~Ended(q) /\ LinesIn(q) = Len(x.queue) + 1 /\ LinesIn(x.queue) = Len(x.queue)
    BY <1>3, <1>1 DEF Ended, LinesIn, Finish
  <1>5. y \in ViewRecord /\ y.queue = q /\ y.sent = x.sent /\ y.at = x.at /\ y.replay = x.replay
    <2>1. y = [x EXCEPT !.queue = q]
      BY <1>2
    <2>. HIDE DEF y
    <2>. QED
      BY <2>1, <1>3 DEF ViewRecord, Doing
  <1>6. y.queue = q /\ y.sent = x.sent /\ y.at = x.at /\ y.replay = x.replay /\ Written(y) = Written(x)
    BY <1>5 DEF Written
  <1>7. Written(x) \in Nat
    BY <1>1 DEF Written
  <1>8. PICK w \in Nat : w = Written(x)
    BY <1>7
  <1>9. PICK k \in Nat : k = Len(x.queue)
    BY <1>1
  <1>. HIDE DEF y
  <1>14. /\ (d = 1 => x.replay >= 1) /\ w >= x.replay /\ (x.at = "replay" => x.sent = <<>>)
         /\ \A i \in 1 .. Len(x.sent) : x.sent[i] = IF i <= x.replay THEN i ELSE i - d
         /\ \A j \in 1 .. k : x.queue[j] = w + j - d
         /\ w + k = n + d
    <2>1. FlowAt(x, w, k, n, d)
      BY <1>4, <1>8, <1>9 DEF Flow
    <2>. QED
      BY <2>1 DEF FlowAt
  <1>10. w + k = n + d
    BY <1>14
  <1>11. \A j \in 1 .. k + 1 : q[j] = w + j - d
    <2> SUFFICES ASSUME NEW j \in 1 .. k + 1 PROVE q[j] = w + j - d
      OBVIOUS
    <2>1. CASE j <= k
      BY <2>1, <1>3, <1>9, <1>14
    <2>2. CASE j = k + 1
      BY <2>2, <1>3, <1>9, <1>10
    <2>. QED
      BY <2>1, <2>2, <1>9
  <1>12. w + (k + 1) = (n + 1) + d
    BY <1>10
  <1>13. Flow(y, n + 1, d)
    <2>1. w = Written(y) /\ k + 1 = LinesIn(y.queue)
      BY <1>4, <1>6, <1>8, <1>9
    <2>2. /\ (d = 1 => y.replay >= 1) /\ w >= y.replay /\ (y.at = "replay" => y.sent = <<>>)
          /\ \A i \in 1 .. Len(y.sent) : y.sent[i] = IF i <= y.replay THEN i ELSE i - d
      BY <1>6, <1>14
    <2>3. \A j \in 1 .. k + 1 : y.queue[j] = w + j - d
      BY <1>6, <1>11
    <2>4. FlowAt(y, w, k + 1, n + 1, d)
      BY <2>2, <2>3, <1>12 DEF FlowAt
    <2>. QED
      BY <2>1, <2>4 DEF Flow
  <1>. QED
    BY <1>4, <1>5, <1>6, <1>13 DEF y

LEMMA EndArrives ==
    ASSUME NEW x \in ViewRecord, NEW n \in Nat, NEW d \in {0, 1}, Flow(x, n, d), ~Ended(x.queue)
    PROVE  LET y == [x EXCEPT !.queue = @ \o <<Finish>>] IN
           y \in ViewRecord /\ Flow(y, n, d) /\ Ended(y.queue)
  <1> DEFINE y == [x EXCEPT !.queue = @ \o <<Finish>>]
  <1>1. x.queue \in Seq(Nat) /\ x.sent \in Seq(Nat) /\ x.replay \in Nat
    BY DEF ViewRecord
  <1>2. PICK q : q = x.queue \o <<Finish>>
    OBVIOUS
  <1>3. /\ q \in Seq(Nat) /\ q # <<>> /\ Len(q) = Len(x.queue) + 1 /\ q[Len(x.queue) + 1] = Finish
        /\ \A j \in 1 .. Len(x.queue) : q[j] = x.queue[j]
    BY <1>1, <1>2, OneMore DEF Finish
  <1>4. Ended(q) /\ LinesIn(q) = Len(x.queue) /\ LinesIn(x.queue) = Len(x.queue)
    BY <1>3, <1>1 DEF Ended, LinesIn
  <1>5. y \in ViewRecord /\ y.queue = q /\ y.sent = x.sent /\ y.at = x.at /\ y.replay = x.replay
    <2>1. y = [x EXCEPT !.queue = q]
      BY <1>2
    <2>. HIDE DEF y
    <2>. QED
      BY <2>1, <1>3 DEF ViewRecord, Doing
  <1>6. y.queue = q /\ y.sent = x.sent /\ y.at = x.at /\ y.replay = x.replay /\ Written(y) = Written(x)
    BY <1>5 DEF Written
  <1>. HIDE DEF y
  <1>7. PICK k \in Nat : k = Len(x.queue)
    BY <1>1
  <1>8. PICK w : w = Written(x)
    OBVIOUS
  <1>9. /\ (d = 1 => x.replay >= 1) /\ w >= x.replay /\ (x.at = "replay" => x.sent = <<>>)
        /\ \A i \in 1 .. Len(x.sent) : x.sent[i] = IF i <= x.replay THEN i ELSE i - d
        /\ \A j \in 1 .. k : x.queue[j] = w + j - d
        /\ w + k = n + d
    <2>1. FlowAt(x, w, k, n, d)
      BY <1>4, <1>7, <1>8 DEF Flow
    <2>. QED
      BY <2>1 DEF FlowAt
  <1>10. \A j \in 1 .. k : q[j] = w + j - d
    BY <1>3, <1>7, <1>9
  <1>11. Flow(y, n, d)
    <2>1. w = Written(y) /\ k = LinesIn(y.queue)
      BY <1>4, <1>6, <1>7, <1>8
    <2>2. /\ (d = 1 => y.replay >= 1) /\ w >= y.replay /\ (y.at = "replay" => y.sent = <<>>)
          /\ \A i \in 1 .. Len(y.sent) : y.sent[i] = IF i <= y.replay THEN i ELSE i - d
      BY <1>6, <1>9
    <2>3. \A j \in 1 .. k : y.queue[j] = w + j - d
      BY <1>6, <1>10
    <2>4. FlowAt(y, w, k, n, d)
      BY <2>2, <2>3, <1>9 DEF FlowAt
    <2>. QED
      BY <2>1, <2>4 DEF Flow
  <1>. QED
    BY <1>4, <1>5, <1>6, <1>11 DEF y

LEMMA ReplayIsSent ==
    ASSUME NEW x \in ViewRecord, NEW n \in Nat, NEW d \in {0, 1}, Flow(x, n, d), x.at = "replay"
    PROVE  LET y == [x EXCEPT !.sent = [i \in 1 .. x.replay |-> i], !.at = "live"] IN
           y \in ViewRecord /\ Flow(y, n, d) /\ Seam(y)
  <1> DEFINE y == [x EXCEPT !.sent = [i \in 1 .. x.replay |-> i], !.at = "live"]
  <1>1. x.queue \in Seq(Nat) /\ x.sent \in Seq(Nat) /\ x.replay \in Nat
    BY DEF ViewRecord
  <1>2. PICK s : s = [i \in 1 .. x.replay |-> i]
    OBVIOUS
  <1>3. s \in Seq(Nat) /\ Len(s) = x.replay /\ \A i \in 1 .. x.replay : s[i] = i
    BY <1>1, <1>2
  <1>4. y \in ViewRecord /\ y.queue = x.queue /\ y.sent = s /\ y.at = "live" /\ y.replay = x.replay
    <2>1. y = [x EXCEPT !.sent = s, !.at = "live"]
      BY <1>2
    <2>. HIDE DEF y
    <2>. QED
      BY <2>1, <1>3 DEF ViewRecord, Doing
  <1>5. y.queue = x.queue /\ y.sent = s /\ y.at = "live" /\ y.replay = x.replay
    BY <1>4
  <1>6. Written(y) = Written(x) /\ Written(x) = x.replay
    BY <1>3, <1>5 DEF Written
  <1>. HIDE DEF y
  <1>7. PICK w, k : w = Written(x) /\ k = LinesIn(x.queue)
    OBVIOUS
  <1>8. (d = 1 => x.replay >= 1) /\ w >= x.replay /\ (\A j \in 1 .. k : x.queue[j] = w + j - d) /\ w + k = n + d
    <2>1. FlowAt(x, w, k, n, d)
      BY <1>7 DEF Flow
    <2>. QED
      BY <2>1 DEF FlowAt
  <1>9. \A i \in 1 .. Len(y.sent) : y.sent[i] = IF i <= y.replay THEN i ELSE i - d
    BY <1>1, <1>3, <1>5
  <1>10. Flow(y, n, d)
    <2>1. w = Written(y) /\ k = LinesIn(y.queue)
      BY <1>5, <1>6, <1>7
    <2>2. FlowAt(y, w, k, n, d)
      BY <1>5, <1>8, <1>9 DEF FlowAt
    <2>. QED
      BY <2>1, <2>2 DEF Flow
  <1>11. Seam(y)
    <2>1. s # <<>> => s[1] = 1
      BY <1>1, <1>3
    <2>2. \A i \in 1 .. Len(s) - 1 : s[i + 1] = s[i] + 1
      <3> SUFFICES ASSUME NEW i \in 1 .. Len(s) - 1 PROVE s[i + 1] = s[i] + 1
        OBVIOUS
      <3>1. i \in 1 .. x.replay /\ i + 1 \in 1 .. x.replay
        BY <1>1, <1>3
      <3>. QED
        BY <3>1, <1>3
    <2>. QED
      BY <2>1, <2>2, <1>5 DEF Seam
  <1>. QED
    BY <1>4, <1>10, <1>11 DEF y

(* A batch of lines that is written. *)
Batch(x, m) == [x EXCEPT !.sent = @ \o SubSeq(x.queue, 1, m), !.queue = <<>>]
AllIsSent(x, y, n, d) ==
    /\ y \in ViewRecord /\ Flow(y, n, d) /\ Seam(y) /\ ~Ended(y.queue)
    /\ Len(y.sent) = n + d /\ \A i \in 1 .. n + d : y.sent[i] = IF i <= x.replay THEN i ELSE i - d
LEMMA BatchIsSent ==
    ASSUME NEW x \in ViewRecord, NEW n \in Nat, NEW d \in {0, 1}, Flow(x, n, d), x.at = "live",
           NEW m \in Nat, m = LinesIn(x.queue)
    PROVE  AllIsSent(x, Batch(x, m), n, d)
  <1> DEFINE y == [x EXCEPT !.sent = @ \o SubSeq(x.queue, 1, m), !.queue = <<>>]
  <1>1. x.queue \in Seq(Nat) /\ x.sent \in Seq(Nat) /\ x.replay \in Nat
    BY DEF ViewRecord
  <1>2. m \in Nat /\ m <= Len(x.queue)
    BY <1>1 DEF LinesIn, Ended
  <1>3. PICK b : b = SubSeq(x.queue, 1, m)
    OBVIOUS
  <1>4. \A i \in 1 .. m : x.queue[i] \in Nat
    BY <1>1, <1>2
  <1>5. b \in Seq(Nat) /\ Len(b) = m /\ \A i \in 1 .. m : b[i] = x.queue[i]
    BY <1>1, <1>2, <1>3, <1>4, SubSeqProperties
  <1>6. PICK s : s = x.sent \o b
    OBVIOUS
  <1>7. PICK l \in Nat : l = Len(x.sent)
    BY <1>1
  <1>8. /\ s \in Seq(Nat) /\ Len(s) = l + m
        /\ \A i \in 1 .. l + m : s[i] = IF i <= l THEN x.sent[i] ELSE b[i - l]
    <2>1. PICK a \in Seq(Nat) : a = x.sent
      BY <1>1
    <2>2. /\ a \o b \in Seq(Nat) /\ Len(a \o b) = Len(a) + Len(b)
          /\ \A i \in 1 .. Len(a) + Len(b) : (a \o b)[i] = IF i <= Len(a) THEN a[i] ELSE b[i - Len(a)]
      BY <1>5, Joined
    <2>. QED
      BY <2>1, <2>2, <1>5, <1>6, <1>7
  <1>9. /\ (d = 1 => x.replay >= 1) /\ l >= x.replay /\ l + m = n + d
        /\ \A i \in 1 .. l : x.sent[i] = IF i <= x.replay THEN i ELSE i - d
        /\ \A j \in 1 .. m : x.queue[j] = l + j - d
    <2>1. l = Written(x)
      BY <1>7 DEF Written
    <2>2. FlowAt(x, l, m, n, d)
      BY <2>1 DEF Flow
    <2>. QED
      BY <2>2, <1>7 DEF FlowAt
  <1>10. \A i \in 1 .. l + m : s[i] = IF i <= x.replay THEN i ELSE i - d
    <2> SUFFICES ASSUME NEW i \in 1 .. l + m PROVE s[i] = IF i <= x.replay THEN i ELSE i - d
      OBVIOUS
    <2>1. CASE i <= l
      <3>1. i \in 1 .. l
        BY <2>1, <1>2
      <3>2. s[i] = IF i <= l THEN x.sent[i] ELSE b[i - l]
        BY <1>8
      <3>. QED
        BY <2>1, <3>1, <3>2, <1>9
    <2>2. CASE i > l
      <3>1. i - l \in 1 .. m
        BY <2>2, <1>2
      <3>2. PICK j \in 1 .. m : j = i - l
        BY <3>1
      <3>3. s[i] = IF i <= l THEN x.sent[i] ELSE b[i - l]
        BY <1>8
      <3>4. b[j] = x.queue[j]
        BY <1>5
      <3>5. x.queue[j] = i - d
        BY <3>2, <1>9
      <3>. QED
        BY <2>2, <3>2, <3>3, <3>4, <3>5, <1>1, <1>9
    <2>. QED
      BY <2>1, <2>2
  <1>11. y \in ViewRecord /\ y.queue = <<>> /\ y.sent = s /\ y.at = "live" /\ y.replay = x.replay
    <2>1. y = [x EXCEPT !.sent = s, !.queue = <<>>]
      BY <1>3, <1>6
    <2>2. <<>> \in Seq(Nat) /\ s \in Seq(Nat)
      BY <1>8
    <2>. HIDE DEF y
    <2>. QED
      BY <2>1, <2>2 DEF ViewRecord, Doing
  <1>12. y.queue = <<>> /\ y.sent = s /\ y.at = "live" /\ y.replay = x.replay
    BY <1>11
  <1>13. ~Ended(y.queue) /\ LinesIn(y.queue) = 0 /\ Written(y) = l + m
    BY <1>8, <1>12 DEF Ended, LinesIn, Written
  <1>. HIDE DEF y
  <1>14. Flow(y, n, d)
    <2>1. \A i \in 1 .. Len(y.sent) : y.sent[i] = IF i <= y.replay THEN i ELSE i - d
      BY <1>8, <1>10, <1>12
    <2>2. l + m >= y.replay /\ (l + m) + 0 = n + d
      BY <1>1, <1>2, <1>9, <1>12
    <2>3. \A j \in 1 .. 0 : y.queue[j] = (l + m) + j - d
      OBVIOUS
    <2>4. FlowAt(y, l + m, 0, n, d)
      BY <2>1, <2>2, <2>3, <1>9, <1>12 DEF FlowAt
    <2>. QED
      BY <2>4, <1>13 DEF Flow
  <1>15. Seam(y)
    <2>1. s # <<>> => s[1] = 1
      <3> SUFFICES ASSUME s # <<>> PROVE s[1] = 1
        OBVIOUS
      <3>1. l + m >= 1
        BY <1>8, <1>2, <1>7
      <3>2. s[1] = IF 1 <= x.replay THEN 1 ELSE 1 - d
        BY <3>1, <1>2, <1>7, <1>10
      <3>. QED
        BY <3>2, <1>1, <1>9
    <2>2. \A i \in 1 .. Len(s) - 1 : s[i + 1] = s[i] + 1 \/ (s[i + 1] = s[i] /\ i = x.replay)
      <3> SUFFICES ASSUME NEW i \in 1 .. Len(s) - 1 PROVE s[i + 1] = s[i] + 1 \/ (s[i + 1] = s[i] /\ i = x.replay)
        OBVIOUS
      <3>1. i \in 1 .. l + m /\ i + 1 \in 1 .. l + m
        BY <1>2, <1>7, <1>8
      <3>2. s[i] = IF i <= x.replay THEN i ELSE i - d
        BY <3>1, <1>10
      <3>3. s[i + 1] = IF i + 1 <= x.replay THEN i + 1 ELSE i + 1 - d
        BY <3>1, <1>10
      <3>. QED
        BY <3>1, <3>2, <3>3, <1>1
    <2>. QED
      BY <2>1, <2>2, <1>12 DEF Seam
  <1>16. Len(y.sent) = n + d /\ \A i \in 1 .. n + d : y.sent[i] = IF i <= x.replay THEN i ELSE i - d
    BY <1>8, <1>9, <1>10, <1>12
  <1>. QED
    BY <1>11, <1>13, <1>14, <1>15, <1>16 DEF y, Batch, AllIsSent

(* The first `__end__` in a queue is what comes last in it. *)
LEMMA EndIsLast ==
    ASSUME NEW x \in ViewRecord, NEW n \in Nat, NEW d \in {0, 1}, Flow(x, n, d)
    PROVE  /\ ~Ended(x.queue) => \A k \in DOMAIN x.queue : x.queue[k] # Finish
           /\ \A k \in DOMAIN x.queue : x.queue[k] = Finish => k = Len(x.queue) /\ Ended(x.queue)
  <1>1. x.queue \in Seq(Nat) /\ x.replay \in Nat /\ x.sent \in Seq(Nat)
    BY DEF ViewRecord
  <1>2. PICK w, m : w = Written(x) /\ m = LinesIn(x.queue)
    OBVIOUS
  <1>3. w \in Nat /\ m \in Nat
    BY <1>1, <1>2 DEF Written, LinesIn, Ended
  <1>4. w >= d /\ \A j \in 1 .. m : x.queue[j] = w + j - d
    <2>1. FlowAt(x, w, m, n, d)
      BY <1>2 DEF Flow
    <2>. QED
      BY <2>1, <1>1, <1>3 DEF FlowAt
  <1>5. \A k \in 1 .. LinesIn(x.queue) : x.queue[k] # Finish
    BY <1>2, <1>3, <1>4 DEF Finish
  <1>. QED
    BY <1>1, <1>5 DEF LinesIn, Ended
--------------------------------------------------------------------------------
(* What a step that leaves a stream alone leaves true of it. *)
LEMMA StreamFacts ==
    ASSUME StreamIInv, NEW v \in Viewers
    PROVE  /\ view[v] \in ViewRecord /\ Sees(v) /\ DOMAIN view = Viewers
           /\ log \in Nat /\ jobState \in States /\ IsOver(jobState) = (jobState \notin {"queued", "running"})
           /\ (phase \in {"announce", "over", "sink"} <=> IsOver(jobState))
  BY DEF StreamIInv, StreamTypes, Course, IsOver, States

LEMMA LinesStay ==
    ASSUME NEW v \in Viewers, Follows(v), Seam(view[v]), Fresh(v),
           UNCHANGED fanVars, view'[v] = view[v], v \in subs' <=> v \in subs
    PROVE  Follows(v)' /\ Seam(view[v])' /\ Fresh(v)'
  BY DEF Follows, fanVars, Open, Brought, Awaits, Silent, Seam, Fresh

LEMMA Bystander ==
    ASSUME StreamIInv, NEW v \in Viewers, UNCHANGED <<jobVars, fanVars>>,
           view'[v] = view[v], v \in subs' <=> v \in subs
    PROVE  Sees(v)'
  <1>1. Follows(v) /\ Seam(view[v]) /\ Fresh(v) /\ Finishes(v) /\ Told(v)
    BY DEF StreamIInv, Sees
  <1>2. Follows(v)' /\ Seam(view[v])' /\ Fresh(v)'
    BY <1>1, LinesStay
  <1>3. Finishes(v)' /\ Told(v)'
    BY <1>1 DEF Finishes, Told, Open, Awaits, Silent, jobVars, fanVars
  <1>. QED
    BY <1>2, <1>3 DEF Sees

(* One viewer takes a step. *)
LEMMA OneViewer ==
    ASSUME StreamIInv, NEW v \in Viewers, NEW x, SetView(v, x), UNCHANGED <<jobVars, fanVars, asked>>,
           x \in ViewRecord, subs' \in SUBSET Viewers, \A w \in Viewers \ {v} : w \in subs' <=> w \in subs,
           x.at \in {"new", "open"} => view[v].at \in {"new", "open"}, v \in subs' => x.at \in {"replay", "live"},
           view'[v] = x => Sees(v)'
    PROVE  StreamIInv'
  <1>1. view' = [view EXCEPT ![v] = x] /\ view \in [Viewers -> ViewRecord]
    BY DEF SetView, StreamIInv, StreamTypes
  <1>2. view'[v] = x /\ \A w \in Viewers \ {v} : view'[w] = view[w]
    BY <1>1
  <1>3. StreamTypes'
    BY <1>1 DEF StreamIInv, StreamTypes, jobVars, fanVars
  <1>4. Course'
    BY DEF StreamIInv, Course, jobVars, fanVars, Silent
  <1>5. Audience'
    <2>1. hearers' = hearers /\ (hearers # <<>> => hearers[1] \in SUBSET Viewers)
      BY DEF StreamIInv, StreamTypes, fanVars
    <2>2. \A w \in Viewers : view'[w].at \in {"new", "open"} => view[w].at \in {"new", "open"}
      BY <1>2
    <2>3. hearers' # <<>> => \A w \in hearers'[1] : view'[w].at \notin {"new", "open"}
      BY <2>1, <2>2 DEF StreamIInv, Audience
    <2>4. \A w \in subs' : view'[w].at \in {"replay", "live"}
      BY <1>2 DEF StreamIInv, Audience
    <2>. QED
      BY <2>3, <2>4 DEF Audience
  <1>6. ASSUME NEW w \in Viewers PROVE Sees(w)'
    <2>1. CASE w = v
      BY <2>1, <1>2
    <2>2. CASE w # v
      BY <2>2, <1>2, Bystander
    <2>. QED
      BY <2>1, <2>2
  <1>. QED
    BY <1>3, <1>4, <1>5, <1>6 DEF StreamIInv

LEMMA GoneIsAView == Gone \in ViewRecord /\ Gone.at = "gone" /\ Gone.queue = <<>> /\ Gone.sent = <<>> /\ Seam(Gone)
  <1>1. <<>> \in Seq(Nat)
    OBVIOUS
  <1>2. Gone \in ViewRecord /\ Gone.at = "gone" /\ Gone.queue = <<>> /\ Gone.sent = <<>>
    BY <1>1 DEF Gone, ViewRecord, Doing
  <1>3. Len(Gone.sent) = 0
    BY <1>2
  <1>. QED
    BY <1>2, <1>3 DEF Seam

LEMMA OpenStreamKeeps ==
    ASSUME StreamIInv, NEW v \in Viewers, OpenStream(v)
    PROVE  StreamIInv'
  <1>1. PICK x : x = IF inRegistry THEN [view[v] EXCEPT !.at = "open", !.known = jobState] ELSE Gone
    OBVIOUS
  <1>2. view[v] \in ViewRecord /\ Sees(v) /\ jobState \in States /\ view[v].at = "new" /\ DOMAIN view = Viewers
    <2>1. view[v] = [Gone EXCEPT !.at = "new"]
      BY DEF OpenStream
    <2>. QED
      BY <2>1, StreamFacts DEF Gone
  <1>3. x \in ViewRecord /\ x.at \in {"open", "gone"} /\ x.queue = <<>> /\ x.sent = <<>>
    BY <1>1, <1>2, GoneIsAView DEF ViewRecord, Doing, Sees, Fresh
  <1>4. view'[v] = x => Sees(v)'
    <2> SUFFICES ASSUME view'[v] = x PROVE Sees(v)'
      OBVIOUS
    <2>1. Seam(x)
      BY <1>3 DEF Seam
    <2>. QED
      BY <2>1, <1>3 DEF Sees, Fresh, Follows, Finishes, Told, Open
  <1>5. v \notin subs
    BY <1>2 DEF StreamIInv, Audience
  <1>6. SetView(v, x) /\ UNCHANGED <<jobVars, fanVars, asked>> /\ subs' = subs
    BY <1>1 DEF OpenStream
  <1>7. subs' \in SUBSET Viewers /\ v \notin subs'
    BY <1>5, <1>6 DEF StreamIInv, StreamTypes
  <1>. QED
    BY <1>2, <1>3, <1>4, <1>6, <1>7, OneViewer

LEMMA LeaveKeeps ==
    ASSUME StreamIInv, NEW v \in Viewers, Leave(v)
    PROVE  StreamIInv'
  <1>1. SetView(v, Gone) /\ UNCHANGED <<jobVars, fanVars, asked>> /\ subs' = subs \ {v}
    BY DEF Leave
  <1>2. subs' \in SUBSET Viewers /\ v \notin subs'
    BY <1>1 DEF StreamIInv, StreamTypes
  <1>3. view'[v] = Gone => Sees(v)'
    BY GoneIsAView DEF Sees, Fresh, Follows, Finishes, Told, Open
  <1>. QED
    BY <1>1, <1>2, <1>3, GoneIsAView, OneViewer

(* A stream that is over says how the job ended, or what the route read of it. *)
LEMMA OverSees ==
    ASSUME NEW v \in Viewers, NEW x, view'[v] = x, x.at = "over", Seam(x),
           IF inRegistry' THEN x.done = jobState' /\ IsOver(jobState') ELSE x.done \in {jobState', x.known}
    PROVE  Sees(v)'
  BY DEF Sees, Fresh, Follows, Finishes, Told, Open

LEMMA SubscribeKeeps ==
    ASSUME StreamIInv, NEW v \in Viewers, Subscribe(v)
    PROVE  StreamIInv'
  <1>1. /\ view[v] \in ViewRecord /\ Sees(v) /\ jobState \in States /\ log \in Nat
        /\ view[v].at = "open" /\ view[v].queue = <<>> /\ view[v].sent = <<>>
        /\ UNCHANGED <<jobVars, fanVars, asked>> /\ subs \in SUBSET Viewers
    BY StreamFacts DEF Subscribe, Sees, Fresh, StreamIInv, StreamTypes
  <1>2. v \notin subs /\ (hearers # <<>> => v \notin hearers[1])
    BY <1>1 DEF StreamIInv, Audience
  <1>3. CASE ~inRegistry
    <2>1. PICK x : x = Say(view[v], view[v].known)
      OBVIOUS
    <2>2. x \in ViewRecord /\ x.at = "over" /\ x.done = view[v].known /\ x.known = view[v].known /\ x.sent = <<>>
      BY <1>1, <2>1 DEF Say, ViewRecord, Doing
    <2>3. SetView(v, x) /\ subs' = subs
      BY <1>3, <2>1 DEF Subscribe
    <2>4. Seam(x)
      BY <2>2 DEF Seam
    <2>5. view'[v] = x => Sees(v)'
      BY <1>1, <1>3, <2>2, <2>4, OverSees DEF jobVars
    <2>. QED
      BY <1>1, <1>2, <2>2, <2>3, <2>5, OneViewer
  <1>4. CASE inRegistry
    <2>1. PICK x : x = [view[v] EXCEPT !.at = "replay", !.replay = log, !.state = jobState]
      OBVIOUS
    <2>2. /\ x \in ViewRecord /\ x.at = "replay" /\ x.replay = log /\ x.state = jobState
          /\ x.queue = <<>> /\ x.sent = <<>>
      BY <1>1, <2>1 DEF ViewRecord, Doing
    <2>3. SetView(v, x) /\ subs' = subs \cup {v}
      BY <1>4, <2>1 DEF Subscribe
    <2>4. ASSUME view'[v] = x PROVE Sees(v)'
      <3>1. LinesIn(x.queue) = 0 /\ Written(x) = log /\ ~Ended(x.queue) /\ Len(x.sent) = 0
        BY <2>2 DEF LinesIn, Written, Ended
      <3>2. Seam(x)
        BY <2>2, <3>1 DEF Seam
      <3>3. v \in subs' /\ log' = log /\ frame' = frame /\ hearers' = hearers
        BY <1>1, <2>3 DEF fanVars
      <3>4. Awaits(v)' <=> frame # <<>> /\ hearers = <<>>
        BY <1>2, <3>3 DEF Awaits, Silent
      <3>5. \E d \in {0, 1} : Flow(x, Brought(v)', d)
        <4>1. CASE Awaits(v)' /\ frame # <<Finish>>
          <5>1. Brought(v)' = log - 1 /\ log > 0
            BY <4>1, <3>3, <3>4 DEF Brought, StreamIInv, Course, Silent
          <5>2. FlowAt(x, log, 0, log - 1, 1)
            BY <1>1, <2>2, <3>1, <5>1 DEF FlowAt
          <5>. QED
            BY <3>1, <5>1, <5>2 DEF Flow
        <4>2. CASE ~(Awaits(v)' /\ frame # <<Finish>>)
          <5>1. Brought(v)' = log
            BY <4>2, <3>3 DEF Brought
          <5>2. FlowAt(x, log, 0, log, 0)
            BY <1>1, <2>2, <3>1 DEF FlowAt
          <5>. QED
            BY <3>1, <5>1, <5>2 DEF Flow
        <4>. QED
          BY <4>1, <4>2
      <3>6. Follows(v)'
        BY <1>1, <2>4, <2>2, <3>3, <3>5 DEF Follows
      <3>7. Finishes(v)'
        <4>1. jobState' = jobState /\ phase' = phase
          BY <1>1 DEF jobVars
        <4>2. phase \in {"announce", "over"} => IsOver(jobState)
          BY StreamFacts
        <4>. QED
          BY <2>4, <2>2, <3>1, <4>1, <4>2 DEF Finishes
      <3>. QED
        BY <2>4, <2>2, <3>2, <3>6, <3>7 DEF Sees, Fresh, Told
    <2>. QED
      BY <1>1, <2>2, <2>3, <2>4, OneViewer
  <1>. QED
    BY <1>3, <1>4

LEMMA ReplayKeeps ==
    ASSUME StreamIInv, NEW v \in Viewers, Replay(v)
    PROVE  StreamIInv'
  <1>1. /\ view[v] \in ViewRecord /\ Sees(v) /\ jobState \in States /\ view[v].at = "replay"
        /\ UNCHANGED <<jobVars, fanVars, asked>> /\ subs \in SUBSET Viewers
    BY StreamFacts DEF Replay, StreamIInv, StreamTypes
  <1>2. PICK d \in {0, 1} : v \in subs /\ view[v].replay <= log /\ Flow(view[v], Brought(v), d)
    BY <1>1 DEF Sees, Follows, Open
  <1>3. PICK r : r = [view[v] EXCEPT !.sent = [i \in 1 .. view[v].replay |-> i], !.at = "live"]
    OBVIOUS
  <1>4. Brought(v) \in Nat
    BY DEF Brought, StreamIInv, StreamTypes, Course, Awaits, Silent
  <1>5. r \in ViewRecord /\ Flow(r, Brought(v), d) /\ Seam(r)
    BY <1>1, <1>2, <1>3, <1>4, ReplayIsSent
  <1>6. /\ r.at = "live" /\ r.replay = view[v].replay /\ r.queue = view[v].queue
        /\ r.state = view[v].state /\ r.known = view[v].known
    BY <1>1, <1>3 DEF ViewRecord
  <1>7. CASE StaysOpen(r.state)
    <2>1. SetView(v, r) /\ subs' = subs
      BY <1>3, <1>7 DEF Replay
    <2>2. ASSUME view'[v] = r PROVE Sees(v)'
      <3>1. Brought(v)' = Brought(v) /\ Awaits(v)' = Awaits(v)
        BY <1>1, <2>1 DEF Brought, Awaits, Silent, fanVars
      <3>2. Follows(v)'
        BY <1>1, <1>2, <1>5, <1>6, <2>1, <2>2, <3>1 DEF Follows, fanVars
      <3>3. Finishes(v)'
        BY <1>1, <1>6, <2>2, <3>1 DEF Sees, Finishes, Open, jobVars, fanVars
      <3>. QED
        BY <1>5, <1>6, <2>2, <3>2, <3>3 DEF Sees, Fresh, Told
    <2>. QED
      BY <1>1, <1>2, <1>5, <1>6, <2>1, <2>2, OneViewer
  <1>8. CASE ~StaysOpen(r.state)
    <2>1. PICK x : x = Say(r, r.state)
      OBVIOUS
    <2>2. SetView(v, x) /\ subs' = subs \ {v}
      BY <1>3, <1>8, <2>1 DEF Replay
    <2>3. x \in ViewRecord /\ x.at = "over" /\ x.done = r.state /\ x.sent = r.sent /\ x.replay = r.replay
      <3>1. <<>> \in Seq(Nat)
        OBVIOUS
      <3>. QED
        BY <1>5, <2>1, <3>1 DEF Say, ViewRecord, Doing
    <2>4. Seam(x)
      BY <1>5, <2>3 DEF Seam
    <2>5. IsOver(view[v].state) /\ view[v].state = jobState
      BY <1>1, <1>6, <1>8 DEF StaysOpen, Sees, Finishes, Open
    <2>6. ASSUME view'[v] = x PROVE Sees(v)'
      <3>1. jobState' = jobState
        BY <1>1 DEF jobVars
      <3>2. x.done = jobState' /\ IsOver(jobState')
        BY <1>6, <2>3, <2>5, <3>1
      <3>. QED
        BY <2>3, <2>4, <2>6, <3>2, OverSees
    <2>. QED
      BY <1>1, <2>2, <2>3, <2>6, OneViewer
  <1>. QED
    BY <1>7, <1>8

LEMMA DrainKeeps ==
    ASSUME StreamIInv, NEW v \in Viewers, DrainBuffer(v)
    PROVE  /\ StreamIInv'
           /\ view'[v].at = "over" /\ log > 0 => Len(view'[v].sent) > 0 /\ Last(view'[v].sent) = log
  <1>1. /\ view[v] \in ViewRecord /\ Sees(v) /\ jobState \in States /\ view[v].at = "live" /\ log \in Nat
        /\ UNCHANGED <<jobVars, fanVars, asked>> /\ subs \in SUBSET Viewers /\ view[v].queue # <<>>
        /\ DOMAIN view = Viewers
    BY StreamFacts DEF DrainBuffer, StreamIInv, StreamTypes
  <1>2. PICK d \in {0, 1} : v \in subs /\ view[v].replay <= log /\ Flow(view[v], Brought(v), d)
    BY <1>1 DEF Sees, Follows, Open
  <1>3. Brought(v) \in Nat
    BY DEF Brought, StreamIInv, StreamTypes, Course, Awaits, Silent
  <1>4. PICK q : q = view[v].queue
    OBVIOUS
  <1>5. q \in Seq(Nat) /\ view[v].replay \in Nat /\ q # <<>>
    BY <1>1, <1>4 DEF ViewRecord
  <1>6. /\ ~Ended(q) => \A k \in DOMAIN q : q[k] # Finish
        /\ \A k \in DOMAIN q : q[k] = Finish => k = Len(q) /\ Ended(q)
    BY <1>1, <1>2, <1>3, <1>4, EndIsLast
  <1>7. PICK m : m = LinesIn(q)
    OBVIOUS
  <1>8. PICK y : y = Batch(view[v], m)
    OBVIOUS
  <1>9. /\ y \in ViewRecord /\ Flow(y, Brought(v), d) /\ Seam(y) /\ ~Ended(y.queue)
        /\ Len(y.sent) = Brought(v) + d
        /\ \A i \in 1 .. Brought(v) + d : y.sent[i] = IF i <= view[v].replay THEN i ELSE i - d
    <2>1. PICK n \in Nat : n = Brought(v)
      BY <1>3
    <2>2. PICK x \in ViewRecord : x = view[v]
      BY <1>1
    <2>3. m \in Nat
      BY <1>5, <1>7 DEF LinesIn, Ended
    <2>4. Flow(x, n, d) /\ x.at = "live" /\ m = LinesIn(x.queue) /\ y = Batch(x, m)
      BY <1>1, <1>2, <1>4, <1>7, <1>8, <2>1, <2>2
    <2>5. AllIsSent(x, y, n, d)
      BY <2>3, <2>4, BatchIsSent
    <2>. QED
      BY <2>1, <2>2, <2>5 DEF AllIsSent
  <1>10. /\ y.at = "live" /\ y.replay = view[v].replay /\ y.queue = <<>>
         /\ y.state = view[v].state /\ y.known = view[v].known
    BY <1>1, <1>8 DEF ViewRecord, Batch
  <1>11. CASE ~Ended(q)
    <2>1. m = Len(q) /\ ~\E k \in DOMAIN q : q[k] = Finish
      BY <1>6, <1>7, <1>11 DEF LinesIn
    <2>2. SetView(v, y) /\ subs' = subs
      BY <2>1, <1>4, <1>8 DEF DrainBuffer, Batch
    <2>3. ASSUME view'[v] = y PROVE Sees(v)'
      <3>1. Brought(v)' = Brought(v) /\ Awaits(v)' = Awaits(v)
        BY <1>1, <2>2 DEF Brought, Awaits, Silent, fanVars
      <3>2. Follows(v)'
        BY <1>1, <1>2, <1>9, <1>10, <2>2, <2>3, <3>1 DEF Follows, fanVars
      <3>3. Finishes(v)'
        BY <1>1, <1>4, <1>9, <1>10, <1>11, <2>3, <3>1 DEF Sees, Finishes, Open, jobVars, fanVars
      <3>. QED
        BY <1>9, <1>10, <2>3, <3>2, <3>3 DEF Sees, Fresh, Told
    <2>4. StreamIInv'
      BY <1>1, <1>2, <1>9, <1>10, <2>2, <2>3, OneViewer
    <2>5. view'[v] = y
      BY <1>1, <2>2 DEF SetView
    <2>. QED
      BY <1>10, <2>4, <2>5
  <1>12. CASE Ended(q)
    <2>1. m = Len(q) - 1
      BY <1>7, <1>12 DEF LinesIn
    <2>2. PICK x : x = Say(y, Final(v))
      OBVIOUS
    <2>3. SetView(v, x) /\ subs' = subs \ {v}
      <3>1. q[Len(q)] = Finish /\ Len(q) \in DOMAIN q
        BY <1>5, <1>12 DEF Ended
      <3>2. PICK k \in DOMAIN q : /\ q[k] = Finish /\ subs' = subs \ {v}
                                  /\ SetView(v, Say([view[v] EXCEPT !.sent = @ \o SubSeq(view[v].queue, 1, k - 1),
                                                                    !.queue = <<>>], Final(v)))
        BY <1>4, <3>1 DEF DrainBuffer
      <3>3. k = Len(q)
        BY <1>6, <3>2
      <3>. QED
        BY <3>2, <3>3, <1>8, <2>1, <2>2 DEF Batch
    <2>4. phase \in {"announce", "over"} /\ ~Awaits(v) /\ IsOver(jobState)
      BY <1>1, <1>4, <1>12, StreamFacts DEF Sees, Finishes, Open
    <2>5. Brought(v) = log
      BY <2>4 DEF Brought
    <2>6. Final(v) \in States \cup {"none"} /\ Final(v) = IF inRegistry THEN jobState ELSE view[v].known
      BY <1>1 DEF Final, ViewRecord
    <2>7. /\ x \in ViewRecord /\ x.at = "over" /\ x.done = Final(v) /\ x.sent = y.sent /\ x.replay = y.replay
          /\ x.known = y.known
      <3>1. <<>> \in Seq(Nat)
        OBVIOUS
      <3>. QED
        BY <1>9, <2>2, <2>6, <3>1 DEF Say, ViewRecord, Doing
    <2>8. Seam(x)
      BY <1>9, <2>7 DEF Seam
    <2>9. ASSUME view'[v] = x PROVE Sees(v)'
      <3>1. jobState' = jobState /\ inRegistry' = inRegistry
        BY <1>1 DEF jobVars
      <3>2. IF inRegistry' THEN x.done = jobState' /\ IsOver(jobState') ELSE x.done \in {jobState', x.known}
        BY <1>10, <2>4, <2>6, <2>7, <3>1
      <3>. QED
        BY <2>7, <2>8, <2>9, <3>2, OverSees
    <2>10. StreamIInv'
      BY <1>1, <2>3, <2>7, <2>9, OneViewer
    <2>11. view'[v].sent = y.sent
      BY <1>1, <2>3, <2>7 DEF SetView
    <2>12. log > 0 => Len(y.sent) > 0 /\ Last(y.sent) = log
      <3> SUFFICES ASSUME log > 0 PROVE Len(y.sent) > 0 /\ y.sent[Len(y.sent)] = log
        BY DEF Last
      <3>1. PICK i \in Nat : i = log + d
        BY <1>1
      <3>2. Len(y.sent) = i /\ i > 0 /\ i \in 1 .. i
        BY <1>1, <1>9, <2>5, <3>1
      <3>3. \A j \in 1 .. i : y.sent[j] = IF j <= view[v].replay THEN j ELSE j - d
        BY <1>9, <2>5, <3>1
      <3>4. y.sent[i] = IF i <= view[v].replay THEN i ELSE i - d
        BY <3>2, <3>3
      <3>. QED
        BY <1>1, <1>2, <1>5, <3>1, <3>2, <3>4
    <2>. QED
      BY <2>10, <2>11, <2>12
  <1>. QED
    BY <1>11, <1>12
--------------------------------------------------------------------------------
(* The fan-out of a frame. *)
LEMMA FrameStays ==
    ASSUME StreamIInv, NEW v \in Viewers, UNCHANGED <<log, jobVars>>, frame' = frame \/ ~Awaits(v),
           view'[v] = view[v], v \in subs' <=> v \in subs, Awaits(v)' <=> Awaits(v)
    PROVE  Sees(v)'
  <1>1. Fresh(v) /\ Follows(v) /\ Finishes(v) /\ Seam(view[v]) /\ Told(v)
    BY DEF StreamIInv, Sees
  <1>2. Brought(v)' = Brought(v)
    BY DEF Brought
  <1>3. Follows(v)'
    BY <1>1, <1>2 DEF Follows, Open
  <1>4. Finishes(v)'
    BY <1>1 DEF Finishes, Open, jobVars
  <1>. QED
    BY <1>1, <1>3, <1>4 DEF Sees, Fresh, Seam, Told, jobVars

LEMMA ReadHearersKeeps ==
    ASSUME StreamIInv, ReadHearers
    PROVE  StreamIInv'
  <1>1. /\ ~Silent /\ hearers = <<>> /\ hearers' = <<subs>> /\ hearers' # <<>> /\ hearers'[1] = subs
        /\ UNCHANGED <<log, frame, jobVars, subs, view, asked>>
    BY DEF ReadHearers
  <1>2. StreamTypes'
    BY <1>1 DEF StreamIInv, StreamTypes, jobVars
  <1>3. Course'
    BY <1>1 DEF StreamIInv, Course, jobVars, Silent
  <1>4. Audience'
    BY <1>1 DEF StreamIInv, Audience
  <1>5. ASSUME NEW v \in Viewers PROVE Sees(v)'
    BY <1>1, FrameStays DEF Awaits, Silent
  <1>. QED
    BY <1>2, <1>3, <1>4, <1>5 DEF StreamIInv

LEMMA FanOutOverKeeps ==
    ASSUME StreamIInv, FanOutOver
    PROVE  StreamIInv'
  <1>1. /\ hearers = <<{}>> /\ frame' = <<>> /\ hearers' = <<>> /\ hearers # <<>> /\ hearers[1] = {}
        /\ UNCHANGED <<log, jobVars, subs, view, asked>>
    BY DEF FanOutOver
  <1>2. StreamTypes'
    BY <1>1 DEF StreamIInv, StreamTypes, jobVars
  <1>3. Course'
    BY <1>1 DEF StreamIInv, Course, jobVars, Silent
  <1>4. Audience'
    BY <1>1 DEF StreamIInv, Audience
  <1>5. ASSUME NEW v \in Viewers PROVE Sees(v)'
    BY <1>1, FrameStays DEF Awaits, Silent
  <1>. QED
    BY <1>2, <1>3, <1>4, <1>5 DEF StreamIInv

LEMMA DeliverKeeps ==
    ASSUME StreamIInv, NEW v \in Viewers, Deliver(v)
    PROVE  StreamIInv'
  <1>1. /\ hearers # <<>> /\ v \in hearers[1] /\ hearers' = <<hearers[1] \ {v}>>
        /\ hearers' # <<>> /\ hearers'[1] = hearers[1] \ {v}
        /\ UNCHANGED <<log, frame, jobVars, subs, asked>>
        /\ view' = [view EXCEPT ![v].queue = @ \o frame]
    BY DEF Deliver, Enqueue
  <1>2. /\ view[v] \in ViewRecord /\ Sees(v) /\ DOMAIN view = Viewers /\ log \in Nat
        /\ hearers[1] \in SUBSET Viewers /\ view \in [Viewers -> ViewRecord]
    BY <1>1, StreamFacts DEF StreamIInv, StreamTypes
  <1>3. \/ frame = <<log>> /\ log > 0 /\ phase \in {"work", "sink"}
        \/ frame = <<Finish>> /\ phase = "announce"
    BY <1>1 DEF StreamIInv, Course, Silent
  <1>4. ~Silent /\ Awaits(v) /\ ~Awaits(v)' /\ view[v].at \notin {"new", "open"}
    BY <1>1, <1>3 DEF Awaits, Silent, StreamIInv, Course, Audience
  <1>5. PICK x : x = [view[v] EXCEPT !.queue = @ \o frame]
    OBVIOUS
  <1>6. view' = [view EXCEPT ![v] = x] /\ view'[v] = x /\ \A w \in Viewers \ {v} : view'[w] = view[w]
    BY <1>1, <1>2, <1>5
  <1>7. /\ x \in ViewRecord /\ x.at = view[v].at /\ x.sent = view[v].sent /\ x.replay = view[v].replay
        /\ x.state = view[v].state /\ x.done = view[v].done /\ x.known = view[v].known
    <2>1. PICK q : q = view[v].queue \o frame
      OBVIOUS
    <2>2. q \in Seq(Nat)
      BY <1>2, <1>3, <2>1, OneMore DEF ViewRecord, Finish
    <2>3. x = [view[v] EXCEPT !.queue = q]
      BY <1>5, <2>1
    <2>. QED
      BY <1>2, <2>2, <2>3 DEF ViewRecord
  <1>8. Sees(v)'
    <2>1. Seam(x)
      BY <1>2, <1>7 DEF Sees, Seam
    <2>2. Told(v)'
      BY <1>1, <1>2, <1>6, <1>7 DEF Sees, Told, jobVars
    <2>3. ASSUME Open(v) PROVE Follows(v)' /\ Finishes(v)'
      <3>1. PICK d \in {0, 1} : v \in subs /\ view[v].replay <= log /\ Flow(view[v], Brought(v), d)
        BY <1>2, <2>3 DEF Sees, Follows
      <3>2. ~Ended(view[v].queue)
        BY <1>2, <1>4, <2>3 DEF Sees, Finishes
      <3>3. CASE frame = <<log>> /\ log > 0 /\ phase \in {"work", "sink"}
        <4>1. frame # <<Finish>>
          BY <3>3 DEF Finish
        <4>2. Brought(v) = log - 1 /\ Brought(v)' = log /\ log - 1 \in Nat /\ (log - 1) + 1 = log
          BY <1>1, <1>2, <1>4, <3>3, <4>1 DEF Brought
        <4>3. x = [view[v] EXCEPT !.queue = @ \o <<(log - 1) + 1>>]
          BY <1>5, <3>3, <4>2
        <4>4. Flow(x, (log - 1) + 1, d) /\ ~Ended(x.queue)
          BY <1>2, <3>1, <3>2, <4>2, <4>3, LineArrives
        <4>5. Follows(v)'
          BY <1>1, <1>6, <1>7, <3>1, <4>2, <4>4 DEF Follows
        <4>6. Finishes(v)'
          BY <1>1, <1>2, <1>6, <1>7, <2>3, <3>3, <4>4 DEF Finishes, Sees, Open, jobVars
        <4>. QED
          BY <4>5, <4>6
      <3>4. CASE frame = <<Finish>> /\ phase = "announce"
        <4>1. Brought(v) = log /\ Brought(v)' = log
          BY <1>1, <3>4 DEF Brought
        <4>2. x = [view[v] EXCEPT !.queue = @ \o <<Finish>>]
          BY <1>5, <3>4
        <4>3. Flow(x, log, d) /\ Ended(x.queue)
          BY <1>2, <3>1, <3>2, <4>1, <4>2, EndArrives
        <4>4. Follows(v)'
          BY <1>1, <1>6, <1>7, <3>1, <4>1, <4>3 DEF Follows
        <4>5. Finishes(v)'
          BY <1>1, <1>2, <1>4, <1>6, <1>7, <2>3, <3>4, <4>3 DEF Finishes, Sees, Open, jobVars
        <4>. QED
          BY <4>4, <4>5
      <3>. QED
        BY <1>3, <3>3, <3>4
    <2>4. Follows(v)' /\ Finishes(v)'
      BY <1>6, <1>7, <2>3 DEF Follows, Finishes, Open
    <2>. QED
      BY <1>4, <1>6, <1>7, <2>1, <2>2, <2>4 DEF Sees, Fresh
  <1>9. ASSUME NEW w \in Viewers \ {v} PROVE Sees(w)'
    BY <1>1, <1>6, FrameStays DEF Awaits, Silent
  <1>10. StreamTypes'
    BY <1>1, <1>2, <1>6, <1>7 DEF StreamIInv, StreamTypes, jobVars
  <1>11. Course'
    BY <1>1 DEF StreamIInv, Course, jobVars, Silent
  <1>12. Audience'
    <2>1. \A w \in Viewers : view'[w].at = view[w].at
      BY <1>6, <1>7
    <2>2. subs \in SUBSET Viewers
      BY DEF StreamIInv, StreamTypes
    <2>. QED
      BY <1>1, <1>2, <2>1, <2>2 DEF StreamIInv, Audience
  <1>. QED
    BY <1>8, <1>9, <1>10, <1>11, <1>12 DEF StreamIInv
--------------------------------------------------------------------------------
(* The job: its state moves once it is not over, and its record goes after that. *)
LEMMA JobMoves ==
    ASSUME StreamIInv, UNCHANGED <<fanVars, subs, view>>,
           jobState' = jobState \/ ~IsOver(jobState),
           inRegistry' = inRegistry \/ (IsOver(jobState) /\ ~inRegistry'),
           phase' \in {"announce", "over"} <=> phase \in {"announce", "over"}
    PROVE  Audience' /\ \A v \in Viewers : Sees(v)'
  <1>1. Audience'
    BY DEF StreamIInv, Audience, fanVars
  <1>2. ASSUME NEW v \in Viewers PROVE Sees(v)'
    <2>1. Fresh(v) /\ Follows(v) /\ Finishes(v) /\ Seam(view[v]) /\ Told(v) /\ (~inRegistry => IsOver(jobState))
      BY DEF StreamIInv, Sees, Course
    <2>2. Fresh(v)' /\ Follows(v)' /\ Seam(view[v])'
      BY <2>1, LinesStay
    <2>3. Finishes(v)'
      BY <2>1 DEF Finishes, Open, Awaits, Silent, fanVars
    <2>4. Told(v)'
      BY <2>1 DEF Told
    <2>. QED
      BY <2>2, <2>3, <2>4 DEF Sees
  <1>. QED
    BY <1>1, <1>2

LEMMA BeginRunKeeps ==
    ASSUME StreamIInv, BeginRun
    PROVE  StreamIInv'
  <1>1. /\ phase = "queued" /\ phase' = "work" /\ jobState' = "running" /\ jobState = "queued"
        /\ UNCHANGED <<ctxDone, owedLines, inRegistry, busEvent, fanVars, subs, view, asked>>
    BY DEF BeginRun, StreamIInv, Course
  <1>2. Audience' /\ \A v \in Viewers : Sees(v)'
    BY <1>1, JobMoves DEF IsOver
  <1>3. StreamTypes'
    BY <1>1 DEF StreamIInv, StreamTypes, fanVars, States
  <1>4. Course'
    BY <1>1 DEF StreamIInv, Course, Silent, fanVars, IsOver
  <1>. QED
    BY <1>2, <1>3, <1>4 DEF StreamIInv

LEMMA RecordOutcomeKeeps ==
    ASSUME StreamIInv, NEW outcome \in {"ok", "failed", "leaked", "crash"}, RecordOutcome(outcome)
    PROVE  StreamIInv'
  <1>1. /\ phase = "work" /\ phase' = "sink" /\ jobState = "running" /\ Silent
        /\ UNCHANGED <<ctxDone, inRegistry, busEvent, fanVars, subs, view, asked>>
    BY DEF RecordOutcome, StreamIInv, Course
  <1>2. jobState' \in States /\ jobState' \notin {"queued", "running"} /\ owedLines' \in 0 .. 2
    BY DEF RecordOutcome, States
  <1>3. Audience' /\ \A v \in Viewers : Sees(v)'
    BY <1>1, JobMoves DEF IsOver
  <1>4. StreamTypes'
    BY <1>1, <1>2 DEF StreamIInv, StreamTypes, fanVars
  <1>5. Course'
    <2>1. log \in Nat /\ log <= MaxWork /\ MaxWork \in Nat
      BY <1>1, StreamAssumption DEF StreamIInv, StreamTypes, Course
    <2>2. log' + owedLines' <= MaxWork + 2
      <3>1. log' = log
        BY <1>1 DEF fanVars
      <3>2. PICK o \in 0 .. 2 : o = owedLines'
        BY <1>2
      <3>3. log + o <= MaxWork + 2
        BY <2>1
      <3>. QED
        BY <3>1, <3>2, <3>3
    <2>. QED
      BY <1>1, <1>2, <2>2 DEF StreamIInv, Course, Silent, fanVars, IsOver
  <1>. QED
    BY <1>3, <1>4, <1>5 DEF StreamIInv

LEMMA EndQueuedKeeps ==
    ASSUME StreamIInv, NEW s \in {"superseded", "cancelled"}, EndQueued(s),
           UNCHANGED <<ctxDone, inRegistry, busEvent, fanVars, subs, view>>, asked' \in [Cancellers -> Answers]
    PROVE  StreamIInv'
  <1>1. /\ phase = "queued" /\ phase' = "sink" /\ jobState = "queued" /\ jobState' = s /\ owedLines' = 1
    BY DEF EndQueued, StreamIInv, Course
  <1>2. Silent
    BY <1>1 DEF StreamIInv, Course
  <1>3. Audience' /\ \A v \in Viewers : Sees(v)'
    BY <1>1, JobMoves DEF IsOver
  <1>4. StreamTypes'
    BY <1>1 DEF StreamIInv, StreamTypes, fanVars, States
  <1>5. Course'
    <2>1. log \in Nat /\ log <= MaxWork /\ MaxWork \in Nat
      BY <1>1, StreamAssumption DEF StreamIInv, StreamTypes, Course
    <2>2. log' + owedLines' <= MaxWork + 2
      BY <1>1, <2>1 DEF fanVars
    <2>. QED
      BY <1>1, <1>2, <2>2 DEF StreamIInv, Course, Silent, fanVars, IsOver
  <1>. QED
    BY <1>3, <1>4, <1>5 DEF StreamIInv

(* A line enters the buffer: nobody has it yet, and who listens awaits it. *)
LEMMA AppendKeeps ==
    ASSUME StreamIInv, AppendLine, phase \in {"work", "sink"}, log' + owedLines' <= MaxWork + 2, owedLines' \in 0 .. 2,
           phase = "work" => log' <= MaxWork /\ owedLines' = owedLines,
           UNCHANGED <<jobState, ctxDone, phase, inRegistry, busEvent, subs, view, asked>>
    PROVE  StreamIInv'
  <1>1. /\ Silent /\ hearers = <<>> /\ log \in Nat /\ log' = log + 1 /\ frame' = <<log + 1>> /\ hearers' = <<>>
        /\ frame' # <<>> /\ frame' # <<Finish>>
    BY DEF AppendLine, StreamIInv, StreamTypes, Course, Finish
  <1>2. StreamTypes'
    BY <1>1 DEF StreamIInv, StreamTypes
  <1>3. Course'
    <2>1. ~(phase = "queued")
      OBVIOUS
    <2>. QED
      BY <1>1, <2>1 DEF StreamIInv, Course, Silent
  <1>4. Audience'
    BY <1>1 DEF StreamIInv, Audience
  <1>5. ASSUME NEW v \in Viewers PROVE Sees(v)'
    <2>1. Fresh(v) /\ Follows(v) /\ Finishes(v) /\ Seam(view[v]) /\ Told(v)
      BY DEF StreamIInv, Sees
    <2>2. Fresh(v)' /\ Seam(view[v])' /\ Told(v)'
      BY <2>1 DEF Fresh, Seam, Told
    <2>3. Follows(v)'
      <3> SUFFICES ASSUME Open(v)' PROVE Follows(v)'
        BY DEF Follows
      <3>1. v \in subs /\ view[v].replay <= log /\ Open(v)
        BY <2>1 DEF Follows, Open
      <3>2. view[v].replay \in Nat
        BY DEF StreamIInv, StreamTypes, ViewRecord
      <3>3. Brought(v) = log /\ Brought(v)' = log
        BY <1>1, <3>1 DEF Brought, Awaits, Silent
      <3>. QED
        BY <1>1, <2>1, <3>1, <3>2, <3>3 DEF Follows
    <2>4. Finishes(v)'
      BY <2>1 DEF Finishes, Open
    <2>. QED
      BY <2>2, <2>3, <2>4 DEF Sees
  <1>. QED
    BY <1>2, <1>3, <1>4, <1>5 DEF StreamIInv

LEMMA WakeStreamsKeeps ==
    ASSUME StreamIInv, WakeStreams
    PROVE  StreamIInv'
  <1>1. /\ phase = "sink" /\ Silent /\ frame' = <<Finish>> /\ hearers' = <<>> /\ phase' = "announce" /\ frame' # <<>>
        /\ UNCHANGED <<log, jobState, ctxDone, owedLines, inRegistry, busEvent, subs, view, asked>>
    BY DEF WakeStreams, EndFrame
  <1>2. StreamTypes'
    BY <1>1 DEF StreamIInv, StreamTypes, Finish
  <1>3. Course'
    BY <1>1 DEF StreamIInv, Course, Silent
  <1>4. Audience'
    BY <1>1 DEF StreamIInv, Audience
  <1>5. ASSUME NEW v \in Viewers PROVE Sees(v)'
    <2>1. Fresh(v) /\ Follows(v) /\ Finishes(v) /\ Seam(view[v]) /\ Told(v)
      BY DEF StreamIInv, Sees
    <2>2. Fresh(v)' /\ Seam(view[v])' /\ Told(v)'
      BY <1>1, <2>1 DEF Fresh, Seam, Told
    <2>3. Brought(v) = log /\ Brought(v)' = log
      BY <1>1 DEF Brought, Awaits
    <2>4. Follows(v)'
      BY <1>1, <2>1, <2>3 DEF Follows, Open
    <2>5. Finishes(v)'
      BY <1>1, <2>1 DEF Finishes, Follows, Open, Awaits, Silent
    <2>. QED
      BY <2>2, <2>4, <2>5 DEF Sees
  <1>. QED
    BY <1>2, <1>3, <1>4, <1>5 DEF StreamIInv

LEMMA EmitTerminalKeeps ==
    ASSUME StreamIInv, EmitTerminal
    PROVE  StreamIInv'
  <1>1. /\ phase = "announce" /\ phase' = "over" /\ Silent
        /\ UNCHANGED <<jobState, ctxDone, owedLines, inRegistry, fanVars, subs, view, asked>>
    BY DEF EmitTerminal
  <1>2. Audience' /\ \A v \in Viewers : Sees(v)'
    BY <1>1, JobMoves
  <1>3. StreamTypes'
    BY <1>1 DEF StreamIInv, StreamTypes, fanVars
  <1>4. Course'
    BY <1>1 DEF StreamIInv, Course, Silent, fanVars
  <1>. QED
    BY <1>2, <1>3, <1>4 DEF StreamIInv

LEMMA EvictKeeps ==
    ASSUME StreamIInv, EvictJob
    PROVE  StreamIInv'
  <1>1. /\ IsOver(jobState) /\ inRegistry' = FALSE
        /\ UNCHANGED <<jobState, ctxDone, phase, owedLines, busEvent, fanVars, subs, view, asked>>
    BY DEF EvictJob
  <1>2. Audience' /\ \A v \in Viewers : Sees(v)'
    BY <1>1, JobMoves
  <1>3. StreamTypes'
    BY <1>1 DEF StreamIInv, StreamTypes, fanVars
  <1>4. Course'
    BY <1>1 DEF StreamIInv, Course, Silent, fanVars
  <1>. QED
    BY <1>2, <1>3, <1>4 DEF StreamIInv

(* Somebody who cancels. *)
LEMMA CancellerKeeps ==
    ASSUME StreamIInv, NEW c \in Cancellers, LookToCancel(c) \/ CancelJob(c)
    PROVE  StreamIInv'
  <1>1. asked \in [Cancellers -> Answers] /\ jobState \in States
    BY DEF StreamIInv, StreamTypes
  <1>2. asked' \in [Cancellers -> Answers]
    <2>1. CASE LookToCancel(c)
      BY <1>1, <2>1 DEF LookToCancel, Answers, IsOver, States
    <2>2. CASE CancelJob(c)
      BY <1>1, <2>2 DEF CancelJob, Answers
    <2>. QED
      BY <2>1, <2>2
  <1>3. UNCHANGED <<inRegistry, busEvent, fanVars, subs, view>>
    BY DEF LookToCancel, CancelJob, jobVars
  <1>4. CASE EndQueued("cancelled") /\ UNCHANGED ctxDone
    BY <1>2, <1>3, <1>4, EndQueuedKeeps
  <1>5. CASE UNCHANGED <<jobState, owedLines, phase>> /\ ctxDone' \in BOOLEAN
    <2>1. Audience' /\ \A v \in Viewers : Sees(v)'
      BY <1>3, <1>5, JobMoves
    <2>2. StreamTypes'
      BY <1>2, <1>3, <1>5 DEF StreamIInv, StreamTypes, fanVars
    <2>3. Course'
      BY <1>3, <1>5 DEF StreamIInv, Course, Silent, fanVars
    <2>. QED
      BY <2>1, <2>2, <2>3 DEF StreamIInv
  <1>. QED
    BY <1>4, <1>5 DEF LookToCancel, CancelJob, jobVars, StreamIInv, StreamTypes
--------------------------------------------------------------------------------
LEMMA StreamInitIInv == StreamInit => StreamIInv
  <1> SUFFICES ASSUME StreamInit PROVE StreamIInv
    OBVIOUS
  <1>1. [Gone EXCEPT !.at = "new"] \in ViewRecord /\ [Gone EXCEPT !.at = "new"].at = "new"
        /\ [Gone EXCEPT !.at = "new"].queue = <<>> /\ [Gone EXCEPT !.at = "new"].sent = <<>>
    BY GoneIsAView DEF ViewRecord, Doing
  <1>2. PICK x : x = [Gone EXCEPT !.at = "new"]
    OBVIOUS
  <1>3. StreamTypes
    <2>1. view \in [Viewers -> ViewRecord]
      BY <1>1 DEF StreamInit
    <2>2. asked \in [Cancellers -> Answers]
      BY DEF StreamInit, Answers
    <2>3. /\ log \in Nat /\ jobState \in States /\ ctxDone \in BOOLEAN /\ owedLines \in 0 .. 2 /\ phase = "queued"
          /\ frame = <<>> /\ hearers = <<>> /\ inRegistry \in BOOLEAN /\ subs \in SUBSET Viewers
      <3>1. /\ log = 0 /\ jobState = "queued" /\ ctxDone = FALSE /\ phase = "queued" /\ owedLines = 0
            /\ frame = <<>> /\ hearers = <<>> /\ inRegistry = TRUE /\ subs = {}
        BY Zenon DEF StreamInit
      <3>2. log \in Nat /\ owedLines \in 0 .. 2
        BY <3>1
      <3>3. jobState \in States
        BY <3>1 DEF States
      <3>4. ctxDone \in BOOLEAN /\ inRegistry \in BOOLEAN
        BY <3>1
      <3>. QED
        BY <3>1, <3>2, <3>3, <3>4
    <2>. QED
      BY <2>1, <2>2, <2>3 DEF StreamTypes
  <1>4. Course
    BY StreamAssumption DEF StreamInit, Course, Silent, IsOver
  <1>5. Audience
    BY DEF StreamInit, Audience
  <1>6. ASSUME NEW v \in Viewers PROVE Sees(v)
    <2>1. view[v] = x /\ x.at = "new" /\ x.queue = <<>> /\ x.sent = <<>>
      BY <1>1, <1>2 DEF StreamInit
    <2>2. Seam(x)
      BY <2>1 DEF Seam
    <2>. QED
      BY <2>1, <2>2 DEF Sees, Fresh, Follows, Finishes, Told, Open
  <1>. QED
    BY <1>3, <1>4, <1>5, <1>6 DEF StreamIInv

LEMMA StreamNextIInv == StreamIInv /\ [StreamNext]_streamVars => StreamIInv'
  <1> SUFFICES ASSUME StreamIInv, [StreamNext]_streamVars PROVE StreamIInv'
    OBVIOUS
  <1>1. CASE WriteLine
    <2>1. /\ phase = "work" /\ log < MaxWork /\ AppendLine /\ UNCHANGED <<jobVars, subs, view, asked>>
          /\ log \in Nat /\ MaxWork \in Nat /\ owedLines = 0
      BY <1>1, StreamAssumption DEF WriteLine, StreamIInv, StreamTypes, Course
    <2>2. log' = log + 1
      BY <2>1 DEF AppendLine
    <2>. QED
      BY <2>1, <2>2, AppendKeeps DEF jobVars
  <1>2. CASE SinkLine
    <2>1. /\ phase = "sink" /\ owedLines > 0 /\ AppendLine /\ owedLines' = owedLines - 1 /\ log \in Nat /\ owedLines \in 0 .. 2
          /\ MaxWork \in Nat /\ log + owedLines <= MaxWork + 2
          /\ UNCHANGED <<jobState, ctxDone, phase, inRegistry, busEvent, subs, view, asked>>
      BY <1>2, StreamAssumption DEF SinkLine, StreamIInv, StreamTypes, Course
    <2>2. log' = log + 1
      BY <2>1 DEF AppendLine
    <2>. QED
      BY <2>1, <2>2, AppendKeeps
  <1>3. CASE Supersede
    <2>1. asked \in [Cancellers -> Answers]
      BY DEF StreamIInv, StreamTypes
    <2>. QED
      BY <1>3, <2>1, EndQueuedKeeps DEF Supersede
  <1>4. CASE \E v \in Viewers : OpenStream(v) \/ StreamStep(v) \/ Leave(v)
    BY <1>4, OpenStreamKeeps, SubscribeKeeps, ReplayKeeps, DrainKeeps, LeaveKeeps DEF StreamStep
  <1>5. CASE FanOut
    BY <1>5, ReadHearersKeeps, FanOutOverKeeps, DeliverKeeps DEF FanOut
  <1>6. CASE JobStep
    BY <1>1, <1>2, <1>6, BeginRunKeeps, WakeStreamsKeeps, EmitTerminalKeeps, RecordOutcomeKeeps DEF JobStep
  <1>7. CASE \E c \in Cancellers : LookToCancel(c) \/ CancelJob(c)
    BY <1>7, CancellerKeeps
  <1>8. CASE UNCHANGED streamVars
    <2>1. UNCHANGED <<fanVars, subs, view, asked, jobVars>>
      BY <1>8 DEF streamVars, fanVars, jobVars
    <2>2. Audience' /\ \A v \in Viewers : Sees(v)'
      BY <2>1, JobMoves DEF jobVars
    <2>3. StreamTypes'
      BY <2>1 DEF StreamIInv, StreamTypes, fanVars, jobVars
    <2>4. Course'
      BY <2>1 DEF StreamIInv, Course, Silent, fanVars, jobVars
    <2>. QED
      BY <2>2, <2>3, <2>4 DEF StreamIInv
  <1>. QED
    BY <1>3, <1>4, <1>5, <1>6, <1>7, <1>8, EvictKeeps DEF StreamNext

LEMMA StreamInvariantHolds == StreamSpec => []StreamIInv
  BY StreamInitIInv, StreamNextIInv, PTL DEF StreamSpec

(* The types of a stream, its job and who cancels it hold for any number of viewers and lines *)
(* (jobs.go, sse.go).                                                                         *)
THEOREM StreamTypeCorrect == StreamSpec => []StreamTypeOK
  <1>1. StreamIInv => StreamTypeOK
    <2> SUFFICES ASSUME StreamIInv PROVE StreamTypeOK
      OBVIOUS
    <2>1. log \in 0 .. MaxWork + 2
      BY StreamAssumption DEF StreamIInv, StreamTypes, Course
    <2>2. ASSUME NEW v \in Viewers
          PROVE  view[v].at \in {"new", "gone", "open", "replay", "live", "over"} /\ view[v].done \in States \cup {"none"}
      BY DEF StreamIInv, StreamTypes, ViewRecord, Doing
    <2>. QED
      BY <2>1, <2>2 DEF StreamIInv, StreamTypes, StreamTypeOK, Answers
  <1>. QED
    BY <1>1, StreamInvariantHolds, PTL

Whole ==
    \A v \in Viewers :
      (view[v].at = "live" /\ view'[v].at = "over" /\ log > 0)
        => Len(view'[v].sent) > 0 /\ Last(view'[v].sent) = log

LEMMA EndsWhole == StreamIInv /\ [StreamNext]_streamVars => Whole
  <1> SUFFICES ASSUME StreamIInv, [StreamNext]_streamVars, NEW v \in Viewers,
                      view[v].at = "live", view'[v].at = "over", log > 0
               PROVE  Len(view'[v].sent) > 0 /\ Last(view'[v].sent) = log
    BY DEF Whole
  <1>1. view \in [Viewers -> ViewRecord] /\ view[v] \in ViewRecord /\ view'[v] # view[v]
    BY DEF StreamIInv, StreamTypes
  <1>2. ASSUME NEW w \in Viewers, NEW x, SetView(w, x) PROVE w = v /\ view'[v] = x
    BY <1>1, <1>2 DEF SetView
  <1>3. CASE DrainBuffer(v)
    BY <1>3, DrainKeeps
  <1>4. ASSUME NEW w \in Viewers, DrainBuffer(w) PROVE w = v
    BY <1>2, <1>4 DEF DrainBuffer
  <1>5. ASSUME NEW w \in Viewers, OpenStream(w) \/ Subscribe(w) \/ Replay(w) PROVE w = v
    BY <1>2, <1>5 DEF OpenStream, Subscribe, Replay
  <1>6. ~OpenStream(v) /\ ~Subscribe(v) /\ ~Replay(v)
    BY DEF OpenStream, Subscribe, Replay, Gone
  <1>7. ASSUME NEW w \in Viewers, Leave(w) PROVE FALSE
    BY <1>2, <1>7, GoneIsAView DEF Leave
  <1>8. ASSUME NEW w \in Viewers, Deliver(w) PROVE FALSE
    BY <1>1, <1>8 DEF Deliver, Enqueue, ViewRecord
  <1>9. ~(view' = view)
    BY <1>1
  <1>10. ~JobStep /\ ~Supersede /\ ~EvictJob /\ ~ReadHearers /\ ~FanOutOver /\ ~UNCHANGED streamVars
    BY <1>9 DEF JobStep, BeginRun, WriteLine, SinkLine, WakeStreams, EmitTerminal, RecordOutcome, Supersede,
                EvictJob, ReadHearers, FanOutOver, streamVars
  <1>11. \A c \in Cancellers : ~LookToCancel(c) /\ ~CancelJob(c)
    BY <1>9 DEF LookToCancel, CancelJob
  <1>. QED
    BY <1>3, <1>4, <1>5, <1>6, <1>7, <1>8, <1>10, <1>11 DEF StreamNext, StreamStep, FanOut

(* A stream has the lines of its job in order and none is left out, a line comes twice at its   *)
(* seam only; who is told the end was told all and how the job ended; nobody who waits for the  *)
(* end has missed it (sse.go:68-160, jobs.go:495-560).                                          *)
THEOREM StreamsAreWhole == StreamSpec => StreamSafety
  <1>1. StreamIInv => LinesInOrder /\ DoneIsTheEnd /\ EndIsNotMissed
    <2> SUFFICES ASSUME StreamIInv PROVE LinesInOrder /\ DoneIsTheEnd /\ EndIsNotMissed
      OBVIOUS
    <2>1. \A v \in Viewers : Sees(v)
      BY DEF StreamIInv
    <2>2. LinesInOrder
      BY <2>1 DEF LinesInOrder, Sees, Seam
    <2>3. DoneIsTheEnd
      BY <2>1 DEF DoneIsTheEnd, Sees, Told
    <2>4. EndIsNotMissed
      <3>1. \A v \in subs : view[v].at \in {"replay", "live"}
        BY DEF StreamIInv, Audience
      <3>2. ASSUME NEW v \in Viewers, view[v].at \in {"replay", "live"}, ~IsOver(view[v].state), phase \in {"announce", "over"}
            PROVE  \/ \E i \in DOMAIN view[v].queue : view[v].queue[i] = Finish
                   \/ frame = <<Finish>> /\ (hearers = <<>> \/ v \in hearers[1])
        <4>1. Ended(view[v].queue) \/ (frame = <<Finish>> /\ Awaits(v))
          BY <2>1, <3>2 DEF Sees, Finishes, Open
        <4>2. view[v].queue \in Seq(Nat)
          BY DEF StreamIInv, StreamTypes, ViewRecord
        <4>3. Ended(view[v].queue) => Len(view[v].queue) \in DOMAIN view[v].queue
          BY <4>2 DEF Ended
        <4>. QED
          BY <4>1, <4>3 DEF Ended, Awaits
      <3>. QED
        BY <3>1, <3>2 DEF EndIsNotMissed
    <2>. QED
      BY <2>2, <2>3, <2>4
  <1>2. StreamSpec => [](LinesInOrder /\ DoneIsTheEnd /\ EndIsNotMissed)
    BY <1>1, StreamInvariantHolds, PTL
  <1>3. StreamSpec => [][Whole]_streamVars
    <2>. HIDE DEF Whole
    <2>. QED
      BY EndsWhole, StreamInvariantHolds, PTL DEF StreamSpec
  <1>4. StreamSpec => DoneIsWhole
    BY <1>3 DEF DoneIsWhole, Whole
  <1>. QED
    BY <1>2, <1>4, PTL DEF StreamSafety
===============================================================================
