------------------------------ MODULE ControlPlane ------------------------------
(***************************************************************************)
(* Installing and replacing the control plane: `pstack init` renders the   *)
(* host from its arguments alone (initctl/init.go), refuses what it would  *)
(* revert silently (cli/initguard.go), and `pstack upgrade`, `pstack ui`   *)
(* and `pstack logging` run it again with what they read back from disk    *)
(* (upgrade/upgrade.go, cli/run.go). Every step is a command or a file     *)
(* that may fail, or be the last one before the host dies.                 *)
(***************************************************************************)
EXTENDS Naturals, Sequences, FiniteSets

CONSTANTS
    Asks,           \* what an operator types: [typed, token, dns, loki, sized, force]
    MaxCommands,    \* bound: commands of a behaviour
    MaxBreaks       \* bound: steps that fail, and hosts that die in the middle

Flags == {"challenge", "provider", "ui", "orch", "logging"}
InitDefault == [challenge |-> "http01", provider |-> "none", ui |-> "basic", orch |-> "swarm", logging |-> "none"]
HostSettings == [challenge : {"http01", "dns01"}, provider : {"none", "cloudflare"}, ui : {"basic", "advanced"},
                 orch : {"compose", "swarm"}, logging : {"none", "loki"}]

ASSUME ControlPlaneAssumption ==
    /\ {MaxCommands, MaxBreaks} \subseteq Nat
    /\ \A a \in Asks :
         /\ DOMAIN a.typed \subseteq Flags /\ {a.token, a.dns, a.loki, a.sized, a.force} \subseteq BOOLEAN
         /\ \A f \in DOMAIN a.typed : \E set \in HostSettings : a.typed[f] = set[f]

VARIABLES
    composeYml,     \* control/docker-compose.yml: <<>> or <<[challenge, ui, orch, logging, hash]>>
    dotEnv,         \* control/.env: <<>> or <<[provider, orch, token, loki]>>; TornEnv when cut short
    dnsEnv,         \* control/dns.env: the provider it is for and its credential
    cut,            \* the compose file stopped short of what it was to say
    nets,           \* per network: "none", "bridge", "overlay", or "sized": an overlay of the range asked for
    attached,       \* the networks a preview is attached to
    netAt,          \* the network init is at, and the command it gives docker next
    control,        \* the running control stack: <<>> or <<what it was brought up with>>
    images,         \* the version of the control image, 0 for none, and whether the UI's exists
    cliVersion,     \* the installed binary
    cmd,            \* the command under way
    minted,         \* secrets generated so far
    forced,         \* an init was forced, or .env was lost, since the last up: a new token was a decision
    commands, breaks

controlVars == <<composeYml, dotEnv, dnsEnv, cut, nets, attached, netAt, control, images, cliVersion, cmd, minted, forced,
                 commands, breaks>>

(* A .env that was truncated and not filled again: it says nothing, its token included. *)
TornEnv == [provider |-> "none", orch |-> "swarm", token |-> 0, loki |-> 0]

(* ReadControlState: the challenge, the UI and Loki out of the generated compose file, the rest *)
(* out of .env; nothing at all when either is missing or has no token.                          *)
HostState ==
    IF composeYml = <<>> \/ dotEnv \in {<<>>, <<TornEnv>>} THEN <<>>
    ELSE <<[set |-> [challenge |-> composeYml[1].challenge, ui |-> composeYml[1].ui, logging |-> composeYml[1].logging,
                     provider |-> dotEnv[1].provider, orch |-> dotEnv[1].orch],
            token |-> dotEnv[1].token, loki |-> dotEnv[1].loki,
            dns |-> IF dnsEnv.provider = dotEnv[1].provider THEN dnsEnv.token ELSE 0]>>

InitFlags_DefaultOrch(set) ==
    [f \in {"challenge", "orch"} \cup (IF set.challenge = "dns01" /\ set.provider # "none" THEN {"provider"} ELSE {})
           \cup (IF set.ui = "advanced" THEN {"ui"} ELSE {}) \cup (IF set.logging = "loki" THEN {"logging"} ELSE {})
     |-> IF f = "orch" THEN InitDefault.orch ELSE set[f]]
(* initFlags: what is typed for a host to be rendered as it is. *)
InitFlags(set) ==
    [f \in {"challenge", "orch"} \cup (IF set.challenge = "dns01" /\ set.provider # "none" THEN {"provider"} ELSE {})
           \cup (IF set.ui = "advanced" THEN {"ui"} ELSE {}) \cup (IF set.logging = "loki" THEN {"logging"} ELSE {})
     |-> set[f]]
(* SwitchLogging types `--logging none`, which initFlags leaves off. *)
SwitchFlags(kind, set) ==
    IF kind = "logging" /\ set.logging = "none"
    THEN [f \in DOMAIN InitFlags(set) \cup {"logging"} |-> set[f]] ELSE InitFlags(set)

(* The environment of the init they run: 0 is a variable that is not set. *)
InitEnv(host) == [token |-> host.token, dns |-> host.dns, loki |-> host.loki]

(* What an init renders: what was typed, and the default of every flag that was not. *)
Effective(typed) == [f \in Flags |-> IF f \in DOMAIN typed THEN typed[f] ELSE InitDefault[f]]

(* initReverts: what a run would change about this host without being asked to. *)
Reverts(typed, env) ==
    LET set == Effective(typed) host == HostState[1] IN
    {f \in {"challenge", "provider", "ui", "orch", "logging"} \ DOMAIN typed :
        /\ set[f] # host.set[f]
        /\ f = "provider" => host.set[f] # "none"
        /\ f = "logging" => host.set[f] = "loki"}
    \cup (IF env.token = 0 THEN {"token"} ELSE {})
    \cup (IF env.dns = 0 /\ host.dns # 0 THEN {"dns"} ELSE {})
    \cup (IF env.loki = 0 /\ host.loki # 0 /\ set.logging = "loki" THEN {"loki"} ELSE {})

NoCmd == [kind |-> "none", pc |-> "none", typed |-> <<>>, env |-> [token |-> 0, dns |-> 0, loki |-> 0], force |-> FALSE,
          was |-> <<>>, ui |-> <<>>, orch |-> <<>>, sized |-> FALSE, set |-> InitDefault]
Go(pc) == cmd' = [cmd EXCEPT !.pc = pc]
AtCommand(pc) == cmd.pc = pc
KeepDisk == UNCHANGED <<composeYml, dotEnv, dnsEnv, cut>>
KeepHost == UNCHANGED <<nets, attached, netAt, control>>
KeepBuild == UNCHANGED <<images, cliVersion>>

(* ---- What an operator starts. `held` is the token CI has: that of the running stack. ---- *)
MayCommand == cmd.pc \in {"none", "done", "refused", "failed"} /\ commands < MaxCommands /\ commands' = commands + 1
Held == IF control # <<>> THEN control[1].token ELSE 0
TypeInit(a) ==
    /\ MayCommand
    /\ cmd' = [NoCmd EXCEPT !.kind = "init", !.pc = "guard", !.typed = a.typed, !.force = a.force, !.sized = a.sized, !.was = HostState,
                 !.env = [token |-> IF a.token THEN Held ELSE 0, dns |-> IF a.dns THEN 1 ELSE 0,
                          loki |-> IF a.loki /\ HostState # <<>> THEN HostState[1].loki ELSE 0]]
    /\ UNCHANGED <<minted, forced, breaks>> /\ KeepDisk /\ KeepHost /\ KeepBuild
(* Upgrade, phase install: only what was typed overrides what is read back. *)
TypeUpgrade(ui, orch) ==
    /\ MayCommand /\ HostState # <<>>
    /\ cmd' = [NoCmd EXCEPT !.kind = "upgrade", !.pc = "install", !.was = HostState, !.ui = ui, !.orch = orch]
    /\ UNCHANGED <<minted, forced, breaks>> /\ KeepDisk /\ KeepHost /\ KeepBuild
(* SwitchUI and SwitchLogging: nothing runs when the host is in that mode already. *)
TypeSwitch(flag, value) ==
    /\ MayCommand /\ HostState # <<>> /\ HostState[1].set[flag] # value
    /\ LET set == [HostState[1].set EXCEPT ![flag] = value] IN
       cmd' = [NoCmd EXCEPT !.kind = flag, !.was = HostState, !.env = InitEnv(HostState[1]), !.typed = SwitchFlags(flag, set),
                 !.pc = IF flag = "ui" /\ value = "advanced" THEN "buildUi" ELSE "guard",
                 !.ui = IF flag = "ui" THEN <<value>> ELSE <<>>]
    /\ UNCHANGED <<minted, forced, breaks>> /\ KeepDisk /\ KeepHost /\ KeepBuild

(* ---- Upgrade: install, hand over to the new binary, build what it pins, run init. ---- *)
InstallBinary ==
    /\ AtCommand("install") /\ Go("resume")
    /\ cliVersion' = cliVersion + 1
    /\ UNCHANGED <<minted, forced, commands, breaks, images>> /\ KeepDisk /\ KeepHost
(* `pstack upgrade --resume` reads the host again; the build's version is its own. *)
ResumeUpgrade ==
    /\ AtCommand("resume") /\ HostState # <<>>
    /\ cmd' = [cmd EXCEPT !.pc = IF HostState[1].set.ui = "advanced" THEN "buildUi" ELSE "guard",
                 !.typed = InitFlags(HostState[1].set), !.env = InitEnv(HostState[1])]
    /\ images' = [images EXCEPT !.control = cliVersion]
    /\ UNCHANGED <<cliVersion, minted, forced, commands, breaks>> /\ KeepDisk /\ KeepHost
BuildUi ==
    /\ AtCommand("buildUi") /\ Go("guard")
    /\ images' = [images EXCEPT !.ui = TRUE]
    /\ UNCHANGED <<cliVersion, minted, forced, commands, breaks>> /\ KeepDisk /\ KeepHost

(* ---- init: the guard, the preconditions, the networks, the files in turn, up. ---- *)
InitGuard ==
    /\ AtCommand("guard")
    /\ LET set == Effective(cmd.typed) IN
       IF \/ set.challenge = "dns01" /\ set.provider = "none"
          \/ ~cmd.force /\ HostState # <<>> /\ Reverts(cmd.typed, cmd.env) # {}
       THEN Go("refused") /\ UNCHANGED forced
       ELSE /\ cmd' = [cmd EXCEPT !.pc = "precheck", !.set = set]
            /\ forced' = (forced \/ (cmd.env.token = 0 /\ (cmd.force \/ HostState = <<>>)))
    /\ UNCHANGED <<minted, commands, breaks>> /\ KeepDisk /\ KeepHost /\ KeepBuild
(* Before anything is written: the images (compose would try to pull a missing one, and take the *)
(* whole stack down with it), the directories, the swarm, where previews run, the log plugin.     *)
Precheck ==
    /\ AtCommand("precheck")
    /\ Go(IF images.control # 0 /\ (cmd.set.ui = "advanced" => images.ui) THEN "network" ELSE "failed")
    /\ netAt' = <<"ingress", "look">>
    /\ UNCHANGED <<nets, attached, control, minted, forced, commands, breaks>> /\ KeepDisk /\ KeepBuild

(* The two networks in turn, each by commands of their own. One that exists is kept when its driver *)
(* is the one wanted and no other range was asked for; else it is replaced with the control stack   *)
(* down, unless a preview is on it. What docker does not answer is taken for "could not tell".       *)
Nets == {"ingress", "shared"}
Fits(have) == IF cmd.set.orch = "compose" THEN have = "bridge" ELSE have = "sized" \/ (have = "overlay" /\ ~cmd.sized)
Made == IF cmd.set.orch = "compose" THEN "bridge" ELSE IF cmd.sized THEN "sized" ELSE "overlay"
AtNetwork(step) == AtCommand("network") /\ netAt[2] = step
Then(step) == netAt' = <<netAt[1], step>> /\ UNCHANGED cmd
DockerTells == UNCHANGED breaks
DockerFails == breaks < MaxBreaks /\ breaks' = breaks + 1
LookAtNetwork ==
    /\ AtNetwork("look")
    /\ \/ nets[netAt[1]] = "none" /\ Then("create") /\ DockerTells
       \/ Fits(nets[netAt[1]]) /\ Then("create") /\ DockerTells
       \/ Then("create") /\ DockerFails
       \/ /\ nets[netAt[1]] # "none" /\ ~Fits(nets[netAt[1]])
          /\ \/ netAt[1] \in attached /\ Go("failed") /\ DockerTells /\ UNCHANGED netAt
             \/ netAt[1] \notin attached /\ Then("down") /\ DockerTells
             \/ netAt[1] \in attached /\ Then("down") /\ DockerFails
    /\ UNCHANGED <<nets, attached, control, minted, forced, commands>> /\ KeepDisk /\ KeepBuild
(* `compose down || true`, and `network rm`, which docker refuses while anything is attached. *)
TakeDown ==
    /\ AtNetwork("down") /\ Then("rm")
    /\ \/ control' = <<>> /\ DockerTells
       \/ UNCHANGED control /\ DockerFails
    /\ UNCHANGED <<nets, attached, minted, forced, commands>> /\ KeepDisk /\ KeepBuild
RemoveNetwork ==
    /\ AtNetwork("rm")
    /\ IF netAt[1] \in attached \/ control # <<>> THEN Go("failed") /\ UNCHANGED <<nets, netAt>>
       ELSE Then("create") /\ nets' = [nets EXCEPT ![netAt[1]] = "none"]
    /\ UNCHANGED <<attached, control, minted, forced, commands, breaks>> /\ KeepDisk /\ KeepBuild
(* `network create || true`: one that exists stays as it is, and one that cannot be made is missing. *)
CreateNetwork ==
    /\ AtNetwork("create")
    /\ \/ nets' = [nets EXCEPT ![netAt[1]] = IF @ = "none" THEN Made ELSE @] /\ DockerTells
       \/ UNCHANGED nets /\ DockerFails
    /\ IF netAt[1] = "ingress" THEN netAt' = <<"shared", "look">> /\ UNCHANGED cmd ELSE Go("compose") /\ UNCHANGED netAt
    /\ UNCHANGED <<attached, control, minted, forced, commands>> /\ KeepDisk /\ KeepBuild

(* The secrets of this run, settled before the first write: what was given, or a new one. *)
TokenOf == IF cmd.env.token # 0 THEN cmd.env.token ELSE minted + 1
LokiOf == IF cmd.env.loki # 0 THEN cmd.env.loki ELSE IF cmd.set.logging = "loki" THEN minted + 1 ELSE 0
(* Loki's push router checks the hash of the password of this run; without Loki there is none. *)
PushHash == IF cmd.set.logging = "loki" THEN LokiOf ELSE 0
RenderCompose ==
    [challenge |-> cmd.set.challenge, ui |-> cmd.set.ui, orch |-> cmd.set.orch, logging |-> cmd.set.logging,
     hash |-> PushHash]
RenderEnv == [provider |-> cmd.set.provider, orch |-> cmd.set.orch, token |-> TokenOf, loki |-> LokiOf]
RenderDns == [provider |-> cmd.set.provider, token |-> cmd.env.dns]
Minted == IF cmd.env.token = 0 \/ LokiOf = minted + 1 THEN minted + 1 ELSE minted
WriteCompose ==
    /\ AtCommand("compose") /\ Go("env")
    /\ composeYml' = <<RenderCompose>> /\ cut' = FALSE
    /\ UNCHANGED <<dotEnv, dnsEnv, minted, forced, commands, breaks>> /\ KeepHost /\ KeepBuild
WriteEnv ==
    /\ AtCommand("env") /\ Go("dns")
    /\ dotEnv' = <<RenderEnv>>
    /\ minted' = Minted
    /\ UNCHANGED <<composeYml, dnsEnv, cut, forced, commands, breaks>> /\ KeepHost /\ KeepBuild
WriteDns ==
    /\ AtCommand("dns") /\ Go("up")
    /\ dnsEnv' = RenderDns
    /\ UNCHANGED <<composeYml, dotEnv, cut, minted, forced, commands, breaks>> /\ KeepHost /\ KeepBuild
(* `compose up` reads the files. A network that is missing fails it before it touches anything, a *)
(* missing image with nothing left running.                                                       *)
BringUp ==
    /\ AtCommand("up")
    /\ IF \E n \in Nets : nets[n] = "none" THEN Go("failed") /\ UNCHANGED <<control, forced>>
       ELSE IF composeYml[1].ui = "advanced" /\ ~images.ui THEN Go("failed") /\ control' = <<>> /\ UNCHANGED forced
       ELSE /\ Go("health")
            /\ forced' = FALSE
            /\ control' = <<[challenge |-> composeYml[1].challenge, ui |-> composeYml[1].ui, logging |-> composeYml[1].logging,
                             orch |-> composeYml[1].orch, hash |-> composeYml[1].hash, token |-> dotEnv[1].token,
                             loki |-> dotEnv[1].loki, dns |-> dnsEnv.token, version |-> images.control]>>
    /\ UNCHANGED <<nets, attached, netAt, minted, commands, breaks>> /\ KeepDisk /\ KeepBuild

(* `up -d` answers when the containers exist: done is said once the API reports healthy. *)
AwaitHealthy ==
    /\ AtCommand("health") /\ Go("done")
    /\ UNCHANGED <<minted, forced, commands, breaks>> /\ KeepDisk /\ KeepHost /\ KeepBuild

(* Any step may fail, or the host die in it. A file is truncated before it is filled, and its mode is *)
(* set last: a write that fails leaves the old file, a part of the new one, or all of it. A compose    *)
(* file reads as the defaults from where it ends; the token comes before the password in .env.        *)
TornCompose == [challenge |-> "http01", ui |-> "basic", orch |-> "swarm", logging |-> "none", hash |-> 0]
CutCompose ==
    {TornCompose, [TornCompose EXCEPT !.challenge = RenderCompose.challenge],
     [TornCompose EXCEPT !.challenge = RenderCompose.challenge, !.orch = RenderCompose.orch, !.ui = RenderCompose.ui]}
CutEnv == {TornEnv, [RenderEnv EXCEPT !.loki = 0]}
Cutting(file, before) ==
    IF AtCommand("compose") /\ file = "compose" THEN {before, <<RenderCompose>>} \cup {<<c>> : c \in CutCompose}
    ELSE IF AtCommand("env") /\ file = "env" THEN {before, <<RenderEnv>>} \cup {<<e>> : e \in CutEnv}
    ELSE IF AtCommand("dns") /\ file = "dns" THEN {before, RenderDns, [RenderDns EXCEPT !.token = 0]}
    ELSE {before}
BreakCommand ==
    /\ cmd.pc \notin {"none", "done", "refused", "failed"} /\ breaks < MaxBreaks
    /\ breaks' = breaks + 1 /\ Go("failed")
    /\ composeYml' \in Cutting("compose", composeYml)
    /\ dotEnv' \in Cutting("env", dotEnv) /\ minted' = IF AtCommand("env") THEN Minted ELSE minted
    /\ dnsEnv' \in Cutting("dns", dnsEnv)
    /\ cut' = (composeYml' \notin {composeYml, <<RenderCompose>>} \/ (cut /\ composeYml' = composeYml))
    /\ UNCHANGED <<forced, commands>> /\ KeepHost /\ KeepBuild
(* Previews come and go at any time, and the UI image is pruned between commands. *)
AttachPreview(n) ==
    /\ nets[n] # "none" /\ attached' = IF n \in attached THEN attached \ {n} ELSE attached \cup {n}
    /\ UNCHANGED <<nets, netAt, control, cmd, minted, forced, commands, breaks>> /\ KeepDisk /\ KeepBuild
PruneUiImage ==
    /\ cmd.pc \in {"none", "done", "refused", "failed"} /\ images.ui /\ breaks < MaxBreaks /\ breaks' = breaks + 1
    /\ images' = [images EXCEPT !.ui = FALSE]
    /\ UNCHANGED <<cliVersion, cmd, minted, forced, commands>> /\ KeepDisk /\ KeepHost

ControlPlaneInit ==
    /\ composeYml = <<>> /\ dotEnv = <<>> /\ dnsEnv = [provider |-> "none", token |-> 0]
    /\ cut = FALSE /\ nets = [n \in Nets |-> "none"] /\ attached = {} /\ netAt = <<"ingress", "look">> /\ control = <<>>
    /\ images = [control |-> 1, ui |-> FALSE] /\ cliVersion = 1
    /\ cmd = NoCmd /\ minted = 0 /\ forced = FALSE /\ commands = 0 /\ breaks = 0
ControlPlaneNext ==
    \/ \E a \in Asks : TypeInit(a)
    \/ \E ui \in {<<>>, <<"advanced">>}, orch \in {<<>>, <<"compose">>} : TypeUpgrade(ui, orch)
    \/ \E ui \in {"basic", "advanced"} : TypeSwitch("ui", ui)
    \/ \E logging \in {"none", "loki"} : TypeSwitch("logging", logging)
    \/ InstallBinary \/ ResumeUpgrade \/ BuildUi
    \/ InitGuard \/ Precheck \/ LookAtNetwork \/ TakeDown \/ RemoveNetwork \/ CreateNetwork
    \/ WriteCompose \/ WriteEnv \/ WriteDns \/ BringUp \/ AwaitHealthy
    \/ BreakCommand \/ PruneUiImage \/ \E n \in Nets : AttachPreview(n)
ControlPlaneSpec == ControlPlaneInit /\ [][ControlPlaneNext]_controlVars
================================================================================
