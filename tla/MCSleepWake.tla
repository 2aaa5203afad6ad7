------------------------------ MODULE MCSleepWake ------------------------------
(***************************************************************************)
(* Instances of SleepWake for TLC; the constants are given in the cfg      *)
(* files.  Either the machine clients run and no operator does (two        *)
(* visitors, or one and the refresh timer), or the                         *)
(* operators run and one visitor at a time does, none of it under way when *)
(* a sleep is posted, and they deploy or they tear down and forget: all of *)
(* them at once are out of reach.                                          *)
(***************************************************************************)
EXTENDS SleepWakeProps, TLC

VARIABLE running  \* who runs

MCVars == <<running, vars>>

AtMostOneVisitor == \A a, b \in Visitor : pc'[a] # "idle" /\ pc'[b] # "idle" => a = b
Asked(act) == \E c \in Operator : about'[c] # about[c] /\ about'[c][2].act = act
Idle(clients) == \A c \in clients : pc'[c] = "idle"
PostsAlone == Asked("sleep") => \A v \in Visitor : pc[v] = "idle"

MCInit == Init /\ running \in {"machines", "deploys", "forgets"}
MCNext ==
    /\ Next
    /\ running = "machines" => Idle(Operator) /\ (Idle(Refresher) \/ AtMostOneVisitor)
    /\ running # "machines" => AtMostOneVisitor /\ PostsAlone /\ Idle(Sweeper \cup Refresher)
    /\ running = "deploys" => ~Asked("forget")
    /\ running = "forgets" => ~Asked("up")
    /\ UNCHANGED running
MCSpec == MCInit /\ [][MCNext]_MCVars

Symmetry == Permutations(Visitor)
================================================================================
