------------------------------- MODULE StackLock -------------------------------
(***************************************************************************)
(* What the job registry promises the routes, the scheduler and the wake   *)
(* gateway (the package header of jobs.go): each stack is a lock that at   *)
(* any time is free, belongs to one dispatched job until that job has      *)
(* released it, or is held by a route.  An accepted job waits, runs and    *)
(* ends, or ends without running; at most one job waits for a stack, and   *)
(* none while the stack is held.                                           *)
(***************************************************************************)
EXTENDS Integers

CONSTANTS Stack, Id

VARIABLES
  status,  \* job -> "none", "queued", "running" or "ended"
  home,    \* job -> its stack
  lock     \* stack -> the job it belongs to, Free or Held

Free == 0
Held == -1

abstract == <<status, home, lock>>

Init ==
  /\ status = [i \in Id |-> "none"]
  /\ home \in [Id -> Stack]
  /\ lock = [s \in Stack |-> Free]

Queued(s) == {i \in Id : status[i] = "queued" /\ home[i] = s}

Accept(i, s) ==
  /\ status[i] = "none"
  /\ lock[s] # Held
  /\ status' = [j \in Id |-> CASE j = i -> "queued"
                               [] j \in Queued(s) -> "ended"
                               [] OTHER -> status[j]]
  /\ home' = [home EXCEPT ![i] = s]
  /\ UNCHANGED lock

Drop(i) ==
  /\ status[i] = "queued"
  /\ status' = [status EXCEPT ![i] = "ended"]
  /\ UNCHANGED <<home, lock>>

Dispatch(batch) ==
  /\ \A i \in batch : status[i] = "queued" /\ lock[home[i]] = Free
  /\ status' = [i \in Id |-> IF i \in batch THEN "running" ELSE status[i]]
  /\ \A s \in Stack, i \in batch : home[i] = s => lock'[s] = i
  /\ \A s \in Stack : (\A i \in batch : home[i] # s) => lock'[s] = lock[s]
  /\ DOMAIN lock' = Stack
  /\ UNCHANGED home

Finish(i) ==
  /\ status[i] = "running"
  /\ lock[home[i]] = i
  /\ status' = [status EXCEPT ![i] = "ended"]
  /\ UNCHANGED <<home, lock>>

Release(i) ==
  /\ status[i] = "ended"
  /\ lock[home[i]] = i
  /\ lock' = [lock EXCEPT ![home[i]] = Free]
  /\ UNCHANGED <<status, home>>

Hold(s) ==
  /\ lock[s] = Free
  /\ Queued(s) = {}
  /\ lock' = [lock EXCEPT ![s] = Held]
  /\ UNCHANGED <<status, home>>

Unhold(s) ==
  /\ lock[s] = Held
  /\ lock' = [lock EXCEPT ![s] = Free]
  /\ UNCHANGED <<status, home>>

Next ==
  \/ \E i \in Id : Drop(i) \/ Finish(i) \/ Release(i)
  \/ \E i \in Id, s \in Stack : Accept(i, s)
  \/ \E batch \in SUBSET Id : Dispatch(batch)
  \/ \E s \in Stack : Hold(s) \/ Unhold(s)

Spec == Init /\ [][Next]_abstract
===============================================================================
