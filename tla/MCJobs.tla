-------------------------------- MODULE MCJobs --------------------------------
(***************************************************************************)
(* Small instances of the job registry for TLC.                            *)
(***************************************************************************)
EXTENDS JobsProps, TLC

Symmetry == Permutations(Stack)

(* The two dimensions that matter apart: behaviours whose jobs preempt each *)
(* other, and behaviours whose cap moves, are explored; those with both are *)
(* left out.                                                                *)
OneDimension == maxRunning = DefaultMaxRunning \/ \A i \in 1 .. seq : action[i] # "down"
NarrowSpec == Init /\ [][Next /\ OneDimension']_vars
===============================================================================
