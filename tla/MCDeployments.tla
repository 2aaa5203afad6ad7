----------------------------- MODULE MCDeployments -----------------------------
(* Instances of Deployments for TLC: two texts and one variable, which moves *)
(* the stack of the one and which the other cannot be resolved with.         *)
EXTENDS DeploymentsProps, TLC

CONSTANTS t2, v1, s1, s2

ByVariable(t, x) == CASE x # v1 -> s1 [] t = t2 -> Rejected [] OTHER -> s2
Symmetry == Permutations(Client)
================================================================================
