------------------------------ MODULE MCServing ------------------------------
(***************************************************************************)
(* What answers people: the requests that wake a sleeping preview, the     *)
(* deliveries that tell the outside what happened, accounts, and sign-in.  *)
(* They share no state, so a behaviour takes the steps of one of them, and *)
(* what is checked of each is what its own specification says.             *)
(***************************************************************************)
EXTENDS SleepWakeProps, Delivery, Accounts, SignIn
CONSTANTS d1, v1, sw1, refresher, e1

VARIABLE part  \* whose steps this behaviour takes

(* Providers that let everybody in, that fence, and that are switched off; people of one address *)
(* whose provider vouches for it, says nothing of it, or denies it.                              *)
Open == [enabled |-> TRUE, directory |-> "idp", domains |-> {}, usernames |-> {}, groups |-> {}, role |-> ""]
Strict == [enabled |-> TRUE, directory |-> "idp", domains |-> {"a@x"}, usernames |-> {"a"}, groups |-> {"g"}, role |-> "admin"]
Shut == [Open EXCEPT !.enabled = FALSE]
MCConfigs == {Open, Strict, Shut}
Person(s, e, v, g) == [subject |-> s, email |-> e, verified |-> v, username |-> "a", groups |-> g]
MCIdentities == {Person("s1", "a@x", "yes", {"g"}), Person("s2", "a@x", "yes", {}), Person("s3", "a@x", "unsaid", {"g"}),
                 Person("s1", "none", "no", {"g"})}

(* What a request or a sweep does next, once it is under way. *)
ClientStep(c) == pc[c] # "idle" /\ (WakeFor(c) \/ Route(c) \/ Reread(c) \/ SweepIt(c))

ServingVars == <<part, vars, deliveryVars, accountVars, signInVars>>
wakeOnly == UNCHANGED <<part, deliveryVars, accountVars, signInVars>>
deliverOnly == UNCHANGED <<part, vars, accountVars, signInVars>>
accountsOnly == UNCHANGED <<part, vars, deliveryVars, signInVars>>
signinOnly == UNCHANGED <<part, vars, deliveryVars, accountVars>>

ServingInit ==
    /\ part \in {"wake", "deliver", "accounts", "signin"}
    /\ Init
    /\ DeliveryInit
    /\ AccountsInit
    /\ SignInInit
ServingNext ==
    \/ part = "wake" /\ Next /\ wakeOnly
    \/ part = "deliver" /\ DeliveryNext /\ deliverOnly
    \/ part = "accounts" /\ AccountsNext /\ accountsOnly
    \/ part = "signin" /\ SignInNext /\ signinOnly

wakeStep(A) == part = "wake" /\ A /\ wakeOnly
deliverStep(A) == part = "deliver" /\ A /\ deliverOnly
(* The Fairness of SleepWake and DeliveryFairness. Only one part of a behaviour ever takes       *)
(* steps, so a condition of one and one of another are stated as the fairness of either.         *)
ServingFairness ==
    /\ WF_ServingVars(wakeStep(JobStep(d1)) \/ deliverStep(Deliver(1)))
    /\ WF_ServingVars(wakeStep(Settle(d1)) \/ deliverStep(Deliver(2)))
    /\ WF_ServingVars(wakeStep(Reindex(v1) \/ Return(v1)) \/ deliverStep(Deliver(TestLane)))
    /\ WF_ServingVars(wakeStep(Reindex(sw1) \/ Return(sw1)) \/ deliverStep(SenderStep(e1)))
    /\ WF_ServingVars(wakeStep(ClientStep(v1)) \/ deliverStep(SenderStep(AnOperator)))
    /\ WF_ServingVars(wakeStep(ClientStep(sw1)) \/ deliverStep(PumpAfter))
    /\ WF_ServingVars(wakeStep(Reindex(refresher) \/ Return(refresher)))
    /\ WF_ServingVars(wakeStep(Refresh(refresher)))
ServingSpec == ServingInit /\ [][ServingNext]_ServingVars /\ ServingFairness

(* Every variable of every part keeps its type: what their definitions assume of each other. *)
ServingTypes ==
    /\ part = "wake" => TypeOK
    /\ part = "deliver" => DeliveryTypeOK
    /\ part = "accounts" => AccountsTypeOK
    /\ part = "signin" => SignInTypeOK
==============================================================================
