--------------------------- MODULE ControlPlaneProps ---------------------------
(* What installing and replacing the control plane promises (ControlPlane). *)
EXTENDS ControlPlane

(* Every variable keeps its type. *)
ControlPlaneTypeOK ==
    /\ composeYml \in {<<>>} \cup {<<c>> : c \in [challenge : {"http01", "dns01"}, ui : {"basic", "advanced"},
            orch : {"compose", "swarm"}, logging : {"none", "loki"}, hash : 0..(minted + 1)]}
    /\ dotEnv \in {<<>>} \cup {<<e>> : e \in [provider : {"none", "cloudflare"},
            orch : {"compose", "swarm"}, token : 0..minted, loki : 0..minted]}
    /\ dnsEnv \in [provider : {"none", "cloudflare"}, token : {0, 1}]
    /\ nets \in [Nets -> {"none", "bridge", "overlay", "sized"}] /\ attached \subseteq Nets /\ {cut, forced} \subseteq BOOLEAN
    /\ netAt \in Nets \X {"look", "down", "rm", "create"}
    /\ cmd.set \in HostSettings

(* A preview of the running stack keeps its token until somebody decides otherwise: no upgrade, no  *)
(* switch and no init that went through the guard hands CI a new one, whatever stopped before.      *)
TokenStays == [][control # <<>> /\ control' # <<>> /\ ~forced => control'[1].token = control[1].token]_controlVars

(* What an upgrade or a switch did not set out to change is what it read of the host, the DNS   *)
(* credential and Loki's push password included, also when an interrupted command came before it. *)
UpgradeKeeps ==
    AtCommand("done") /\ cmd.kind # "init" =>
        LET was == cmd.was[1] IN
        /\ \A f \in {"challenge", "ui", "logging", "orch"} : cmd.kind # f => control[1][f] = was.set[f]
        /\ control[1].dns = was.dns /\ control[1].token = was.token
        /\ was.loki # 0 => control[1].loki = was.loki

(* An init that finished without force changed nothing on a host that exists but what was typed. *)
NoSilentRevert ==
    AtCommand("done") /\ cmd.kind = "init" /\ ~cmd.force /\ cmd.was # <<>> =>
        LET was == cmd.was[1] IN
        /\ \A f \in {"challenge", "ui", "orch"} \ DOMAIN cmd.typed : control[1][f] = was.set[f]
        /\ "logging" \notin DOMAIN cmd.typed /\ was.set.logging = "loki" => control[1].logging = "loki"
        /\ was.dns # 0 => control[1].dns # 0

(* The push password the containers hold is the one Traefik checks: the hash and the label agree. *)
PasswordMatchesHash ==
    control # <<>> /\ control[1].logging = "loki" => control[1].hash = control[1].loki

(* An upgrade that reports success runs the version it installed, not the one that started it. *)
UpgradeArrives == AtCommand("done") /\ cmd.kind = "upgrade" => control[1].version = cliVersion

(* A control stack that runs is taken down only for a network that has to be replaced, and never  *)
(* for an image that is missing: an optional UI does not cost the host its console and its proxy. *)
StackStaysUp ==
    [][control # <<>> /\ control' = <<>> => \E n \in Nets : nets[n] # "none" /\ ~Fits(nets[n])]_controlVars

(* A control stack runs on both its networks: none is removed under it, whatever `down` answered,  *)
(* and one that could not be made is found out before the stack is touched (init.go:509-513, 552). *)
StackHasNetworks == control # <<>> => \A n \in Nets : nets[n] # "none"

(* The networks of a running preview are never pulled from under it, even when it attaches between *)
(* the look at who is there and the removal.                                                       *)
PreviewsKeepTheirNetworks == [][\A n \in attached \cap attached' : nets'[n] = nets[n]]_controlVars

(* "this is asked BEFORE the control stack goes down — finding out from `network rm` would leave *)
(* the control plane down with the network still there" (initctl/init.go:1294).                  *)
AskedBefore == AtNetwork("rm") => netAt[1] \notin attached

(* "a half-finished install is a refusal, not a default" (upgrade/upgrade.go:138): an upgrade does *)
(* not start from a compose file that was cut short.                                              *)
HalfIsRefused == AtCommand("install") => ~cut

(* "`pstack upgrade` re-runs `init` with every value read back from the host, so it never trips *)
(* this" (cli/initguard.go:24): no command pstack builds itself is refused by its own guard.    *)
OwnInitIsNotRefused == AtCommand("refused") => cmd.kind = "init"

(* "`pstack upgrade --ui advanced` does the same override as part of an upgrade"              *)
(* (docs/usage.md:1455): an upgrade that finished serves the UI that was typed.                *)
OverridesArrive == AtCommand("done") /\ cmd.kind = "upgrade" /\ cmd.ui # <<>> => control[1].ui = cmd.ui[1]

(* What inits, upgrades and switches keep of a host that exists, in any order and cut off anywhere. *)
ControlSafety ==
    /\ [](UpgradeKeeps /\ NoSilentRevert /\ PasswordMatchesHash /\ UpgradeArrives /\ StackHasNetworks)
    /\ TokenStays /\ StackStaysUp /\ PreviewsKeepTheirNetworks
================================================================================
