----------------------------- MODULE UpkeepProofs ------------------------------
(***************************************************************************)
(* What holds of the upkeep of a host, proved for every size: installing   *)
(* and replacing the control plane (ControlPlane), the stats tick that     *)
(* prunes and puts to sleep (NodeStats), and the pages that say what runs  *)
(* of a stack (Inspect). No two share a variable.                          *)
(***************************************************************************)
EXTENDS ControlPlaneProps, NodeStats, InspectProps, TLAPS

(***************************************************************************)
(* Installing and replacing the control plane.  A command starts from the  *)
(* host it read (`was`); what it types and brings is what that host had    *)
(* but for what it sets out to change; every step adds one file or the     *)
(* stack, and leaves it agreeing with the command.                         *)
(***************************************************************************)
OneOf(S) == {<<>>} \cup {<<x>> : x \in S}
Commands == {"none", "init", "upgrade", "ui", "logging"}
Prepared == {"install", "resume", "buildUi", "guard", "precheck", "network", "compose"}
Guarded == {"precheck", "network", "compose", "env", "dns", "up", "health", "done"}
Ready == {"buildUi", "guard"} \cup Guarded
Idling == {"none", "done", "refused", "failed"}
Points == Prepared \cup Guarded \cup Idling

Envs == [token : Nat, dns : {0, 1}, loki : Nat]
Hosts == [set : HostSettings, token : Nat \ {0}, loki : Nat, dns : {0, 1}]
ComposeFiles == [challenge : {"http01", "dns01"}, ui : {"basic", "advanced"}, orch : {"compose", "swarm"},
                 logging : {"none", "loki"}, hash : Nat]
EnvFiles == {TornEnv} \cup [provider : {"none", "cloudflare"}, orch : {"compose", "swarm"}, token : Nat \ {0}, loki : Nat]
Stacks == [challenge : {"http01", "dns01"}, ui : {"basic", "advanced"}, orch : {"compose", "swarm"},
           logging : {"none", "loki"}, hash : Nat, token : Nat, loki : Nat, dns : {0, 1}, version : Nat]

DiskTypes ==
    /\ composeYml \in OneOf(ComposeFiles) /\ dotEnv \in OneOf(EnvFiles)
    /\ dnsEnv \in [provider : {"none", "cloudflare"}, token : {0, 1}] /\ cut \in BOOLEAN
HostTypes ==
    /\ nets \in [Nets -> {"none", "bridge", "overlay", "sized"}] /\ attached \subseteq Nets /\ forced \in BOOLEAN
    /\ netAt \in Nets \X {"look", "down", "rm", "create"}
    /\ control \in OneOf(Stacks) /\ images \in [control : Nat, ui : BOOLEAN] /\ cliVersion \in Nat
CmdTypes ==
    /\ cmd.kind \in Commands /\ cmd.pc \in Points /\ cmd.force \in BOOLEAN /\ cmd.env \in Envs
    /\ cmd.set \in HostSettings /\ cmd.was \in OneOf(Hosts) /\ Effective(cmd.typed) \in HostSettings
    /\ cmd = [kind |-> cmd.kind, pc |-> cmd.pc, typed |-> cmd.typed, env |-> cmd.env, force |-> cmd.force,
              was |-> cmd.was, ui |-> cmd.ui, orch |-> cmd.orch, sized |-> cmd.sized, set |-> cmd.set]
Counted ==
    /\ minted \in Nat /\ commands \in Nat /\ breaks \in Nat
    /\ composeYml # <<>> => composeYml[1].hash <= minted + 1
    /\ dotEnv # <<>> => dotEnv[1].token <= minted /\ dotEnv[1].loki <= minted
    /\ control # <<>> => control[1].token <= minted
    /\ cmd.env.token <= minted /\ cmd.env.loki <= minted
ControlTypes == DiskTypes /\ HostTypes /\ CmdTypes /\ Counted

(* What a command was started for: the host it read is the one that it finds. *)
Finds == cmd.pc \in Prepared => HostState = cmd.was
Replaces ==
    /\ cmd.kind = "none" => cmd.pc = "none"
    /\ cmd.pc \in {"install", "resume"} => cmd.kind = "upgrade"
    /\ cmd.kind \in {"upgrade", "ui", "logging"} /\ cmd.pc \in (Prepared \cup Guarded) => cmd.was # <<>>
Brings ==
    cmd.kind \in {"upgrade", "ui", "logging"} /\ cmd.pc \in Ready =>
        /\ cmd.env = InitEnv(cmd.was[1])
        /\ LET set == Effective(cmd.typed)  was == cmd.was[1].set IN
           /\ set.challenge = was.challenge /\ set.orch = was.orch
           /\ cmd.kind # "ui" => set.ui = was.ui
           /\ cmd.kind # "logging" => set.logging = was.logging
(* What the guard let pass. *)
Passed ==
    cmd.pc \in Guarded =>
        /\ cmd.set = Effective(cmd.typed)
        /\ cmd.kind = "init" /\ ~cmd.force /\ cmd.was # <<>> =>
             LET was == cmd.was[1] IN
             /\ "challenge" \notin DOMAIN cmd.typed => cmd.set.challenge = was.set.challenge
             /\ "ui" \notin DOMAIN cmd.typed => cmd.set.ui = was.set.ui
             /\ "orch" \notin DOMAIN cmd.typed => cmd.set.orch = was.set.orch
             /\ "logging" \notin DOMAIN cmd.typed /\ was.set.logging = "loki" => cmd.set.logging = "loki"
             /\ was.dns # 0 => cmd.env.dns # 0
Asked == Finds /\ Replaces /\ Brings /\ Passed

(* What it wrote so far is what it was asked. *)
Images ==
    /\ cmd.kind = "upgrade" /\ cmd.pc \in Ready \ {"health", "done"} => images.control = cliVersion
    /\ cmd.pc \in {"network", "compose", "env", "dns", "up"} /\ cmd.set.ui = "advanced" => images.ui
Composed ==
    cmd.pc \in {"env", "dns", "up"} =>
        /\ composeYml # <<>> /\ composeYml[1].challenge = cmd.set.challenge /\ composeYml[1].ui = cmd.set.ui
        /\ composeYml[1].orch = cmd.set.orch /\ composeYml[1].logging = cmd.set.logging
        /\ cmd.pc = "env" => composeYml[1].hash = PushHash
Given(of) == (cmd.env.token # 0 => of.token = cmd.env.token) /\ (cmd.env.loki # 0 => of.loki = cmd.env.loki)
Filled ==
    cmd.pc \in {"dns", "up"} =>
        /\ dotEnv # <<>> /\ dotEnv # <<TornEnv>> /\ Given(dotEnv[1])
        /\ composeYml[1].logging = "loki" => composeYml[1].hash = dotEnv[1].loki
        /\ cmd.pc = "up" => dnsEnv.token = cmd.env.dns
RunsAsWritten ==
    cmd.pc \in {"health", "done"} =>
        /\ control # <<>> /\ Given(control[1])
        /\ control[1].challenge = cmd.set.challenge /\ control[1].ui = cmd.set.ui
        /\ control[1].orch = cmd.set.orch /\ control[1].logging = cmd.set.logging
        /\ control[1].dns = cmd.env.dns
        /\ cmd.kind = "upgrade" => control[1].version = cliVersion
Written == Images /\ Composed /\ Filled /\ RunsAsWritten

(* The token of the running stack is the one .env has and the one that the command brings. *)
TokenIsHeld ==
    control # <<>> /\ ~forced =>
        /\ dotEnv # <<>> => dotEnv[1].token \in {0, control[1].token}
        /\ cmd.pc \in {"buildUi", "guard"} => cmd.env.token \in {0, control[1].token}
        /\ cmd.pc \in {"precheck", "network", "compose", "env"} => cmd.env.token # 0 /\ cmd.env.token = control[1].token
AttachedTo == \A n \in attached : nets[n] # "none"
Host == TokenIsHeld /\ AttachedTo /\ PasswordMatchesHash

ControlIInv == ControlTypes /\ Asked /\ Written /\ Host
--------------------------------------------------------------------------------
(* What is typed for a host renders it. *)
LEMMA OneOfNone == ASSUME NEW S PROVE <<>> \in OneOf(S)
  BY DEF OneOf

LEMMA OneOfHas ==
  ASSUME NEW S, NEW x \in S
  PROVE  <<>> \in OneOf(S) /\ <<x>> \in OneOf(S)
  BY DEF OneOf

LEMMA OneOfAre ==
  ASSUME NEW S, NEW x \in OneOf(S), x # <<>>
  PROVE  x[1] \in S /\ x = <<x[1]>>
  BY DEF OneOf

LEMMA EffectiveOf ==
  ASSUME NEW typed
  PROVE  LET set == Effective(typed) IN
         /\ set.challenge = IF "challenge" \in DOMAIN typed THEN typed.challenge ELSE "http01"
         /\ set.ui = IF "ui" \in DOMAIN typed THEN typed.ui ELSE "basic"
         /\ set.orch = IF "orch" \in DOMAIN typed THEN typed.orch ELSE "swarm"
         /\ set.logging = IF "logging" \in DOMAIN typed THEN typed.logging ELSE "none"
         /\ set.provider = IF "provider" \in DOMAIN typed THEN typed.provider ELSE "none"
  BY DEF Effective, Flags, InitDefault

LEMMA AskedFits ==
  ASSUME NEW a \in Asks
  PROVE  Effective(a.typed) \in HostSettings
  BY ControlPlaneAssumption DEF Effective, HostSettings, InitDefault, Flags

LEMMA FlagsFit ==
  ASSUME NEW set \in HostSettings, NEW kind \in Commands
  PROVE  LET typed == SwitchFlags(kind, set) IN
         /\ Effective(typed) \in HostSettings
         /\ Effective(typed).challenge = set.challenge /\ Effective(typed).orch = set.orch
         /\ Effective(typed).ui = set.ui /\ Effective(typed).logging = set.logging
  BY DEF SwitchFlags, InitFlags, Effective, HostSettings, InitDefault, Flags

LEMMA InitFlagsFit ==
  ASSUME NEW set \in HostSettings
  PROVE  LET typed == InitFlags(set) IN
         /\ Effective(typed) \in HostSettings
         /\ Effective(typed).challenge = set.challenge /\ Effective(typed).orch = set.orch
         /\ Effective(typed).ui = set.ui /\ Effective(typed).logging = set.logging
  BY DEF InitFlags, Effective, HostSettings, InitDefault, Flags

LEMMA HostStateFits ==
  ASSUME DiskTypes
  PROVE  /\ HostState \in OneOf(Hosts)
         /\ HostState # <<>> => /\ composeYml # <<>> /\ dotEnv # <<>> /\ dotEnv # <<TornEnv>>
                                /\ HostState[1].token = dotEnv[1].token /\ HostState[1].loki = dotEnv[1].loki
         /\ HostState # <<>> => HostState[1].token # 0
  <1>1. CASE composeYml = <<>> \/ dotEnv \in {<<>>, <<TornEnv>>}
    BY <1>1 DEF HostState, OneOf
  <1>2. CASE ~(composeYml = <<>> \/ dotEnv \in {<<>>, <<TornEnv>>})
    <2>1. composeYml[1] \in ComposeFiles /\ dotEnv[1] \in EnvFiles /\ dotEnv = <<dotEnv[1]>>
      BY <1>2, OneOfAre DEF DiskTypes
    <2>2. dotEnv[1] \in [provider : {"none", "cloudflare"}, orch : {"compose", "swarm"}, token : Nat \ {0}, loki : Nat]
      BY <1>2, <2>1 DEF EnvFiles
    <2> DEFINE h == [set |-> [challenge |-> composeYml[1].challenge, ui |-> composeYml[1].ui, logging |-> composeYml[1].logging,
                     provider |-> dotEnv[1].provider, orch |-> dotEnv[1].orch],
            token |-> dotEnv[1].token, loki |-> dotEnv[1].loki,
            dns |-> IF dnsEnv.provider = dotEnv[1].provider THEN dnsEnv.token ELSE 0]
    <2>3. h \in Hosts
      BY <2>1, <2>2 DEF Hosts, HostSettings, ComposeFiles, DiskTypes
    <2>4. HostState = <<h>>
      BY <1>2 DEF HostState
    <2>5. h.token = dotEnv[1].token /\ h.loki = dotEnv[1].loki /\ h.token # 0
      BY <2>2
    <2> HIDE DEF h
    <2>. QED
      BY <1>2, <2>3, <2>4, <2>5, OneOfHas
  <1>. QED
    BY <1>1, <1>2

(* A step of a command keeps what it was started with. *)
LEMMA Moves ==
  ASSUME CmdTypes, NEW pc \in Points, Go(pc)
  PROVE  /\ CmdTypes' /\ cmd'.pc = pc /\ cmd'.kind = cmd.kind /\ cmd'.typed = cmd.typed /\ cmd'.env = cmd.env
         /\ cmd'.force = cmd.force /\ cmd'.was = cmd.was /\ cmd'.set = cmd.set
  BY DEF CmdTypes, Go

LEMMA SameHost ==
  ASSUME KeepDisk
  PROVE  HostState' = HostState
  BY DEF KeepDisk, HostState

LEMMA NoCmdFits ==
  /\ NoCmd.kind = "none" /\ NoCmd.pc = "none" /\ NoCmd.env = [token |-> 0, dns |-> 0, loki |-> 0]
  /\ NoCmd.env \in Envs /\ NoCmd.was = <<>> /\ NoCmd.set = InitDefault /\ NoCmd.force = FALSE /\ NoCmd.typed = <<>>
  /\ InitDefault \in HostSettings
  BY DEF NoCmd, InitDefault, HostSettings, Envs

LEMMA NothingTyped == Effective(<<>>) \in HostSettings
  BY DEF Effective, HostSettings, InitDefault, Flags

LEMMA ControlStarts == ControlPlaneInit => ControlIInv
  <1> SUFFICES ASSUME ControlPlaneInit PROVE ControlIInv
    OBVIOUS
  <1>1. cmd.kind = "none" /\ cmd.pc = "none" /\ cmd.env = [token |-> 0, dns |-> 0, loki |-> 0] /\ cmd.was = <<>>
        /\ cmd.set \in HostSettings /\ cmd.force = FALSE /\ Effective(cmd.typed) \in HostSettings
    BY NoCmdFits, NothingTyped DEF ControlPlaneInit
  <1>2. cmd = [kind |-> cmd.kind, pc |-> cmd.pc, typed |-> cmd.typed, env |-> cmd.env, force |-> cmd.force,
              was |-> cmd.was, ui |-> cmd.ui, orch |-> cmd.orch, sized |-> cmd.sized, set |-> cmd.set]
    BY DEF ControlPlaneInit, NoCmd
  <1>3. CmdTypes
    BY <1>1, <1>2, NoCmdFits, OneOfNone DEF CmdTypes, Commands, Points, Idling, ControlPlaneInit
  <1>4. DiskTypes /\ HostTypes /\ Counted
    <2>1. DiskTypes
      BY OneOfNone DEF ControlPlaneInit, DiskTypes
    <2>2. HostTypes
      BY OneOfNone DEF ControlPlaneInit, HostTypes, Nets
    <2>3. Counted
      BY <1>1 DEF ControlPlaneInit, Counted
    <2>. QED
      BY <2>1, <2>2, <2>3
  <1>5. Asked /\ Written
    BY <1>1 DEF Asked, Finds, Replaces, Brings, Passed, Written, Images, Composed, Filled, RunsAsWritten, Prepared, Guarded, Ready
  <1>6. Host
    BY DEF ControlPlaneInit, Host, TokenIsHeld, AttachedTo, PasswordMatchesHash
  <1>. QED
    BY <1>3, <1>4, <1>5, <1>6 DEF ControlIInv, ControlTypes
--------------------------------------------------------------------------------
(* What an operator starts finds the host it read. *)
LEMMA InitStarts ==
  ASSUME ControlIInv, NEW a \in Asks, TypeInit(a)
  PROVE  ControlIInv'
  <1> USE DEF ControlIInv
  <1> DEFINE e == [token |-> IF a.token THEN Held ELSE 0, dns |-> IF a.dns THEN 1 ELSE 0,
                   loki |-> IF a.loki /\ HostState # <<>> THEN HostState[1].loki ELSE 0]
  <1>1. /\ cmd'.kind = "init" /\ cmd'.pc = "guard" /\ cmd'.typed = a.typed /\ cmd'.force = a.force /\ cmd'.was = HostState
        /\ cmd'.env = e /\ cmd'.set = InitDefault
        /\ cmd' = [kind |-> cmd'.kind, pc |-> cmd'.pc, typed |-> cmd'.typed, env |-> cmd'.env, force |-> cmd'.force,
              was |-> cmd'.was, ui |-> cmd'.ui, orch |-> cmd'.orch, sized |-> cmd'.sized, set |-> cmd'.set]
    BY DEF TypeInit, NoCmd
  <1>2. /\ UNCHANGED <<composeYml, dotEnv, dnsEnv, nets, attached, netAt, cut, control, images, cliVersion, minted, forced, breaks>>
        /\ HostState' = HostState /\ commands' = commands + 1
    BY SameHost DEF TypeInit, KeepDisk, KeepHost, KeepBuild, MayCommand
  <1>3. HostState \in OneOf(Hosts) /\ (HostState # <<>> => HostState[1] \in Hosts)
    BY HostStateFits, OneOfAre DEF ControlTypes
  <1>4. Held \in Nat /\ Held <= minted /\ (control # <<>> => Held = control[1].token)
    <2>1. control # <<>> => control[1] \in Stacks
      BY OneOfAre DEF ControlTypes, HostTypes
    <2>2. control # <<>> => control[1].token \in Nat
      BY <2>1 DEF Stacks
    <2>. QED
      BY <2>2 DEF Held, ControlTypes, Counted
  <1>5. e \in Envs /\ e.token \in {0, Held}
    BY <1>3, <1>4 DEF Envs, Hosts
  <1>6. e.loki <= minted /\ e.token <= minted
    BY <1>3, <1>4, HostStateFits DEF ControlTypes, Counted
  <1> HIDE DEF e
  <1>7. CmdTypes'
    BY <1>1, <1>3, <1>5, AskedFits, NoCmdFits, ControlPlaneAssumption DEF CmdTypes, Commands, Points, Prepared
  <1>8. (DiskTypes /\ HostTypes /\ Counted)'
    BY <1>1, <1>2, <1>6 DEF ControlTypes, DiskTypes, HostTypes, Counted
  <1>9. Asked'
    BY <1>1, <1>2 DEF Asked, Finds, Replaces, Brings, Passed, Guarded
  <1>10. Written'
    BY <1>1 DEF Written, Images, Composed, Filled, RunsAsWritten
  <1>11. Host'
    BY <1>1, <1>2, <1>4, <1>5 DEF Host, TokenIsHeld, AttachedTo, PasswordMatchesHash
  <1>. QED
    BY <1>7, <1>8, <1>9, <1>10, <1>11 DEF ControlTypes

LEMMA UpgradeStarts ==
  ASSUME ControlIInv, NEW ui, NEW manager, TypeUpgrade(ui, manager)
  PROVE  ControlIInv'
  <1> USE DEF ControlIInv
  <1>1. /\ cmd'.kind = "upgrade" /\ cmd'.pc = "install" /\ cmd'.typed = <<>> /\ cmd'.force = FALSE /\ cmd'.was = HostState
        /\ cmd'.env = [token |-> 0, dns |-> 0, loki |-> 0] /\ cmd'.set = InitDefault /\ HostState # <<>>
        /\ cmd' = [kind |-> cmd'.kind, pc |-> cmd'.pc, typed |-> cmd'.typed, env |-> cmd'.env, force |-> cmd'.force,
              was |-> cmd'.was, ui |-> cmd'.ui, orch |-> cmd'.orch, sized |-> cmd'.sized, set |-> cmd'.set]
    BY DEF TypeUpgrade, NoCmd
  <1>2. /\ UNCHANGED <<composeYml, dotEnv, dnsEnv, nets, attached, netAt, cut, control, images, cliVersion, minted, forced, breaks>>
        /\ HostState' = HostState /\ commands' = commands + 1
    BY SameHost DEF TypeUpgrade, KeepDisk, KeepHost, KeepBuild, MayCommand
  <1>3. HostState \in OneOf(Hosts)
    BY HostStateFits DEF ControlTypes
  <1>7. CmdTypes'
    <2>1. cmd'.env \in Envs
      BY <1>1 DEF Envs
    <2>. QED
      BY <1>1, <1>3, <2>1, NothingTyped, NoCmdFits DEF CmdTypes, Commands, Points, Prepared
  <1>8. (DiskTypes /\ HostTypes /\ Counted)'
    BY <1>1, <1>2 DEF ControlTypes, DiskTypes, HostTypes, Counted
  <1>9. Asked'
    BY <1>1, <1>2 DEF Asked, Finds, Replaces, Brings, Passed, Guarded, Ready
  <1>10. Written'
    BY <1>1 DEF Written, Images, Composed, Filled, RunsAsWritten, Ready, Guarded
  <1>11. Host'
    BY <1>1, <1>2 DEF Host, TokenIsHeld, AttachedTo, PasswordMatchesHash
  <1>. QED
    BY <1>7, <1>8, <1>9, <1>10, <1>11 DEF ControlTypes

LEMMA SwitchStarts ==
  ASSUME ControlIInv, NEW flag \in {"ui", "logging"}, NEW value,
         value \in IF flag = "ui" THEN {"basic", "advanced"} ELSE {"none", "loki"}, TypeSwitch(flag, value)
  PROVE  ControlIInv'
  <1> USE DEF ControlIInv
  <1> DEFINE was == HostState[1]
             set == [was.set EXCEPT ![flag] = value]
  <1>1. /\ cmd'.kind = flag /\ cmd'.pc \in {"buildUi", "guard"} /\ cmd'.typed = SwitchFlags(flag, set) /\ cmd'.force = FALSE
        /\ cmd'.was = HostState /\ cmd'.env = InitEnv(was) /\ cmd'.set = InitDefault /\ HostState # <<>>
        /\ cmd' = [kind |-> cmd'.kind, pc |-> cmd'.pc, typed |-> cmd'.typed, env |-> cmd'.env, force |-> cmd'.force,
              was |-> cmd'.was, ui |-> cmd'.ui, orch |-> cmd'.orch, sized |-> cmd'.sized, set |-> cmd'.set]
    BY DEF TypeSwitch, NoCmd
  <1>2. /\ UNCHANGED <<composeYml, dotEnv, dnsEnv, nets, attached, netAt, cut, control, images, cliVersion, minted, forced, breaks>>
        /\ HostState' = HostState /\ commands' = commands + 1
    BY SameHost DEF TypeSwitch, KeepDisk, KeepHost, KeepBuild, MayCommand
  <1>3. HostState \in OneOf(Hosts) /\ was \in Hosts /\ was.token # 0 /\ was.token = dotEnv[1].token /\ dotEnv # <<>>
        /\ was.loki = dotEnv[1].loki
    BY <1>1, HostStateFits, OneOfAre DEF ControlTypes
  <1>4. set \in HostSettings /\ set.challenge = was.set.challenge /\ set.orch = was.set.orch
        /\ (flag # "ui" => set.ui = was.set.ui) /\ (flag # "logging" => set.logging = was.set.logging)
    BY <1>3 DEF Hosts, HostSettings
  <1>5. InitEnv(was) \in Envs /\ InitEnv(was).token = was.token /\ InitEnv(was).loki = was.loki
    BY <1>3 DEF InitEnv, Envs, Hosts
  <1>. HIDE DEF set, was
  <1>6. flag \in Commands
    BY DEF Commands
  <1>7. CmdTypes'
    BY <1>1, <1>3, <1>4, <1>5, <1>6, FlagsFit, NoCmdFits DEF CmdTypes, Points, Prepared
  <1>8. (DiskTypes /\ HostTypes /\ Counted)'
    BY <1>1, <1>2, <1>3, <1>5 DEF ControlTypes, DiskTypes, HostTypes, Counted
  <1>9. Asked'
    <2>1. cmd'.was[1] = was
      BY <1>1 DEF was
    <2>. QED
      BY <1>1, <1>2, <1>4, <1>6, <2>1, FlagsFit DEF Asked, Finds, Replaces, Brings, Passed, Guarded, Ready, Prepared
  <1>10. Written'
    BY <1>1 DEF Written, Images, Composed, Filled, RunsAsWritten
  <1>11. Host'
    BY <1>1, <1>2, <1>3, <1>5 DEF Host, TokenIsHeld, AttachedTo, PasswordMatchesHash
  <1>. QED
    BY <1>7, <1>8, <1>9, <1>10, <1>11 DEF ControlTypes
--------------------------------------------------------------------------------
(* A step that writes no file and starts no stack keeps what was asked, whatever place it goes to. *)
Untouched == UNCHANGED <<composeYml, dotEnv, dnsEnv, nets, attached, netAt, cut, control, minted, commands, breaks>>

LEMMA TypesOfMove ==
  ASSUME ControlTypes, NEW pc \in Points, Go(pc), UNCHANGED <<composeYml, dotEnv, dnsEnv, cut, control, minted, commands>>,
         breaks' \in Nat, HostTypes'
  PROVE  ControlTypes'
  <1>1. CmdTypes' /\ cmd'.env = cmd.env
    BY Moves DEF ControlTypes
  <1>. QED
    BY <1>1 DEF ControlTypes, DiskTypes, Counted

LEMMA Installs ==
  ASSUME ControlIInv, InstallBinary
  PROVE  ControlIInv'
  <1> USE DEF ControlIInv
  <1>1. /\ cmd.pc = "install" /\ Go("resume") /\ cliVersion' = cliVersion + 1 /\ Untouched /\ UNCHANGED <<images, forced>>
        /\ HostState' = HostState
    BY SameHost DEF InstallBinary, AtCommand, Untouched, KeepDisk, KeepHost
  <1>2. "resume" \in Points
    BY DEF Points, Prepared
  <1>3. HostTypes'
    BY <1>1 DEF ControlTypes, HostTypes, Untouched
  <1>4. ControlTypes'
    BY <1>1, <1>2, <1>3, TypesOfMove DEF Untouched, ControlTypes, Counted
  <1>5. /\ cmd'.pc = "resume" /\ cmd'.kind = cmd.kind /\ cmd'.typed = cmd.typed /\ cmd'.env = cmd.env
        /\ cmd'.force = cmd.force /\ cmd'.was = cmd.was /\ cmd'.set = cmd.set
    BY <1>1, <1>2, Moves DEF ControlTypes
  <1>6. Asked'
    BY <1>1, <1>5 DEF Asked, Finds, Replaces, Brings, Passed, Prepared, Guarded, Ready
  <1>7. Written'
    BY <1>5 DEF Written, Images, Composed, Filled, RunsAsWritten, Ready, Guarded
  <1>8. Host'
    BY <1>1, <1>5 DEF Host, TokenIsHeld, AttachedTo, PasswordMatchesHash, Untouched
  <1>. QED
    BY <1>4, <1>6, <1>7, <1>8

LEMMA Resumes ==
  ASSUME ControlIInv, ResumeUpgrade
  PROVE  ControlIInv'
  <1> USE DEF ControlIInv
  <1> DEFINE was == HostState[1]
  <1>1. /\ cmd.pc = "resume" /\ HostState # <<>> /\ cmd'.pc \in {"buildUi", "guard"}
        /\ cmd' = [cmd EXCEPT !.pc = cmd'.pc, !.typed = InitFlags(was.set), !.env = InitEnv(was)]
        /\ images' = [images EXCEPT !.control = cliVersion] /\ Untouched /\ UNCHANGED <<cliVersion, forced>>
        /\ HostState' = HostState
    BY SameHost DEF ResumeUpgrade, AtCommand, Untouched, KeepDisk, KeepHost, ControlTypes, CmdTypes
  <1>2. /\ cmd.kind = "upgrade" /\ cmd'.kind = "upgrade" /\ cmd'.typed = InitFlags(was.set) /\ cmd'.env = InitEnv(was) /\ cmd'.force = cmd.force
        /\ cmd'.was = cmd.was /\ cmd'.set = cmd.set
        /\ cmd' = [kind |-> cmd'.kind, pc |-> cmd'.pc, typed |-> cmd'.typed, env |-> cmd'.env, force |-> cmd'.force,
              was |-> cmd'.was, ui |-> cmd'.ui, orch |-> cmd'.orch, sized |-> cmd'.sized, set |-> cmd'.set]
    BY <1>1 DEF ControlTypes, CmdTypes, Asked, Replaces
  <1>3. /\ was \in Hosts /\ was.token # 0 /\ was.token = dotEnv[1].token /\ dotEnv # <<>> /\ was.loki = dotEnv[1].loki
        /\ cmd.was = HostState
    BY <1>1, HostStateFits, OneOfAre DEF ControlTypes, Asked, Finds, Prepared
  <1>4. InitEnv(was) \in Envs /\ InitEnv(was).token = was.token /\ InitEnv(was).loki = was.loki
    BY <1>3 DEF InitEnv, Envs, Hosts
  <1>5. was.set \in HostSettings
    BY <1>3 DEF Hosts
  <1>6. cmd'.was[1] = was
    BY <1>2, <1>3
  <1>. HIDE DEF was
  <1>7. CmdTypes'
    BY <1>1, <1>2, <1>4, <1>5, InitFlagsFit DEF ControlTypes, CmdTypes, Points, Prepared
  <1>8. HostTypes'
    BY <1>1 DEF ControlTypes, HostTypes, Untouched
  <1>9. (DiskTypes /\ Counted)'
    BY <1>1, <1>2, <1>3, <1>4 DEF ControlTypes, DiskTypes, Counted, Untouched
  <1>10. Asked'
    BY <1>1, <1>2, <1>3, <1>5, <1>6, InitFlagsFit DEF Asked, Finds, Replaces, Brings, Passed, Prepared, Guarded, Ready
  <1>11. Written'
    <2>1. images'.control = cliVersion
      BY <1>1 DEF ControlTypes, HostTypes
    <2>. QED
      BY <1>1, <2>1 DEF Written, Images, Composed, Filled, RunsAsWritten
  <1>12. Host'
    BY <1>1, <1>2, <1>3, <1>4 DEF Host, TokenIsHeld, AttachedTo, PasswordMatchesHash, Untouched
  <1>. QED
    BY <1>7, <1>8, <1>9, <1>10, <1>11, <1>12 DEF ControlTypes

LEMMA Builds ==
  ASSUME ControlIInv, BuildUi
  PROVE  ControlIInv'
  <1> USE DEF ControlIInv
  <1>1. /\ cmd.pc = "buildUi" /\ Go("guard") /\ images' = [images EXCEPT !.ui = TRUE] /\ Untouched /\ UNCHANGED <<cliVersion, forced>>
        /\ HostState' = HostState
    BY SameHost DEF BuildUi, AtCommand, Untouched, KeepDisk, KeepHost
  <1>2. "guard" \in Points
    BY DEF Points, Prepared
  <1>3. HostTypes' /\ images'.control = images.control
    BY <1>1 DEF ControlTypes, HostTypes, Untouched
  <1>4. ControlTypes'
    BY <1>1, <1>2, <1>3, TypesOfMove DEF Untouched, ControlTypes, Counted
  <1>5. /\ cmd'.pc = "guard" /\ cmd'.kind = cmd.kind /\ cmd'.typed = cmd.typed /\ cmd'.env = cmd.env
        /\ cmd'.force = cmd.force /\ cmd'.was = cmd.was /\ cmd'.set = cmd.set
    BY <1>1, <1>2, Moves DEF ControlTypes
  <1>6. Asked'
    BY <1>1, <1>5 DEF Asked, Finds, Replaces, Brings, Passed, Prepared, Guarded, Ready
  <1>7. Written'
    BY <1>1, <1>3, <1>5 DEF Written, Images, Composed, Filled, RunsAsWritten, Ready, Guarded
  <1>8. Host'
    BY <1>1, <1>5 DEF Host, TokenIsHeld, AttachedTo, PasswordMatchesHash, Untouched
  <1>. QED
    BY <1>4, <1>6, <1>7, <1>8

(* A command that ends keeps a host whose files are still of their kind, and whose .env has no other *)
(* token than the stack.                                                                             *)
TokenAtRest == control # <<>> /\ ~forced /\ dotEnv # <<>> => dotEnv[1].token \in {0, control[1].token}

LEMMA Ends ==
  ASSUME ControlIInv, NEW pc \in {"refused", "failed"}, Go(pc), cmd.pc # "none", DiskTypes', HostTypes', Counted',
         AttachedTo', PasswordMatchesHash', TokenAtRest'
  PROVE  ControlIInv'
  <1> USE DEF ControlIInv
  <1>1. pc \in Points
    BY DEF Points, Idling
  <1>2. CmdTypes' /\ cmd'.pc = pc /\ cmd'.kind = cmd.kind /\ cmd'.env = cmd.env
    BY <1>1, Moves DEF ControlTypes
  <1>3. Asked'
    BY <1>2 DEF Asked, Finds, Replaces, Brings, Passed, Prepared, Guarded, Ready
  <1>4. Written'
    BY <1>2 DEF Written, Images, Composed, Filled, RunsAsWritten, Ready, Guarded
  <1>5. Host'
    BY <1>2 DEF Host, TokenIsHeld, TokenAtRest
  <1>. QED
    BY <1>2, <1>3, <1>4, <1>5 DEF ControlTypes

LEMMA Fails ==
  ASSUME ControlIInv, NEW pc \in {"refused", "failed"}, Go(pc), cmd.pc # "none",
         UNCHANGED <<composeYml, dotEnv, dnsEnv, cut, minted, commands, nets, attached, netAt, control, images, cliVersion, forced>>,
         breaks' \in Nat
  PROVE  ControlIInv'
  <1> USE DEF ControlIInv
  <1>1. cmd'.env = cmd.env
    BY DEF Go, ControlTypes, CmdTypes
  <1>2. DiskTypes' /\ HostTypes' /\ Counted'
    BY <1>1 DEF ControlTypes, DiskTypes, HostTypes, Counted
  <1>3. AttachedTo' /\ PasswordMatchesHash' /\ TokenAtRest'
    BY DEF Host, TokenIsHeld, AttachedTo, PasswordMatchesHash, TokenAtRest
  <1>. QED
    BY <1>2, <1>3, Ends

LEMMA Guards ==
  ASSUME ControlIInv, InitGuard
  PROVE  ControlIInv'
  <1> USE DEF ControlIInv
  <1> DEFINE set == Effective(cmd.typed)
             no == \/ set.challenge = "dns01" /\ set.provider = "none"
                   \/ ~cmd.force /\ HostState # <<>> /\ Reverts(cmd.typed, cmd.env) # {}
  <1>1. cmd.pc = "guard" /\ Untouched /\ UNCHANGED <<images, cliVersion>> /\ HostState' = HostState
    BY SameHost DEF InitGuard, AtCommand, Untouched, KeepDisk, KeepHost, KeepBuild
  <1>2. CASE no
    <2>1. Go("refused") /\ UNCHANGED forced
      BY <1>2 DEF InitGuard
    <2>. QED
      BY <1>1, <2>1, Fails DEF Untouched, ControlTypes, Counted
  <1>3. CASE ~no
    <2>1. cmd' = [cmd EXCEPT !.pc = "precheck", !.set = set] /\ forced' = (forced \/ (cmd.env.token = 0 /\ (cmd.force \/ HostState = <<>>)))
      BY <1>3 DEF InitGuard
    <2>2. ~cmd.force /\ HostState # <<>> => Reverts(cmd.typed, cmd.env) = {}
      BY <1>3
    <2>3. set \in HostSettings
      BY DEF ControlTypes, CmdTypes
    <2>4. cmd.was = HostState
      BY <1>1 DEF Asked, Finds, Prepared
    <2>5. ~cmd.force /\ HostState # <<>> =>
            LET was == HostState[1] IN
             /\ "challenge" \notin DOMAIN cmd.typed => set.challenge = was.set.challenge
             /\ "ui" \notin DOMAIN cmd.typed => set.ui = was.set.ui
             /\ "orch" \notin DOMAIN cmd.typed => set.orch = was.set.orch
             /\ "logging" \notin DOMAIN cmd.typed /\ was.set.logging = "loki" => set.logging = "loki"
             /\ was.dns # 0 => cmd.env.dns # 0
             /\ cmd.env.token # 0
      BY <2>2 DEF Reverts
    <2> HIDE DEF set, no
    <2>6. /\ cmd'.pc = "precheck" /\ cmd'.set = set /\ cmd'.kind = cmd.kind /\ cmd'.typed = cmd.typed /\ cmd'.env = cmd.env
          /\ cmd'.force = cmd.force /\ cmd'.was = cmd.was
          /\ cmd' = [kind |-> cmd'.kind, pc |-> cmd'.pc, typed |-> cmd'.typed, env |-> cmd'.env, force |-> cmd'.force,
              was |-> cmd'.was, ui |-> cmd'.ui, orch |-> cmd'.orch, sized |-> cmd'.sized, set |-> cmd'.set]
      BY <2>1 DEF ControlTypes, CmdTypes
    <2>7. CmdTypes'
      BY <2>3, <2>6 DEF ControlTypes, CmdTypes, Points, Prepared
    <2>8. forced' \in BOOLEAN /\ (forced => forced')
      BY <2>1 DEF ControlTypes, HostTypes
    <2>9. (DiskTypes /\ HostTypes /\ Counted)'
      BY <1>1, <2>6, <2>8 DEF ControlTypes, DiskTypes, HostTypes, Counted, Untouched
    <2>10. Asked'
      <3>1. (Finds /\ Replaces /\ Brings)'
        BY <1>1, <2>6 DEF Asked, Finds, Replaces, Brings, Prepared, Guarded, Ready
      <3>2. Passed'
        BY <1>1, <2>4, <2>5, <2>6 DEF Passed, set
      <3>. QED
        BY <3>1, <3>2 DEF Asked
    <2>11. Written'
      BY <1>1, <2>6 DEF Written, Images, Composed, Filled, RunsAsWritten, Ready, Guarded
    <2>12. ~forced' => cmd.env.token # 0
      BY <2>1, <2>5
    <2>13. Host'
      BY <1>1, <2>6, <2>8, <2>12 DEF Host, TokenIsHeld, AttachedTo, PasswordMatchesHash, Untouched
    <2>. QED
      BY <2>7, <2>9, <2>10, <2>11, <2>13 DEF ControlTypes
  <1>. QED
    BY <1>2, <1>3
--------------------------------------------------------------------------------
(* What the init that the guard let pass does, step by step. *)
LEMMA Prechecks ==
  ASSUME ControlIInv, Precheck
  PROVE  ControlIInv'
  <1> USE DEF ControlIInv
  <1> DEFINE fits == images.control # 0 /\ (cmd.set.ui = "advanced" => images.ui)
  <1>1. /\ cmd.pc = "precheck" /\ HostState' = HostState /\ netAt' \in Nets \X {"look", "down", "rm", "create"}
        /\ UNCHANGED <<composeYml, dotEnv, dnsEnv, cut, nets, attached, control, images, cliVersion, minted, forced, commands, breaks>>
    BY SameHost DEF Precheck, AtCommand, KeepDisk, KeepBuild, Nets
  <1>2. CASE ~fits
    <2>1. Go("failed") /\ cmd'.env = cmd.env
      BY <1>2 DEF Precheck, Go, ControlTypes, CmdTypes
    <2>2. DiskTypes' /\ HostTypes' /\ Counted'
      BY <1>1, <2>1 DEF ControlTypes, DiskTypes, HostTypes, Counted
    <2>3. AttachedTo' /\ PasswordMatchesHash' /\ TokenAtRest'
      BY <1>1 DEF Host, TokenIsHeld, AttachedTo, PasswordMatchesHash, TokenAtRest
    <2>. QED
      BY <1>1, <2>1, <2>2, <2>3, Ends
  <1>3. CASE fits
    <2>1. Go("network") /\ "network" \in Points
      BY <1>3 DEF Precheck, Points, Prepared
    <2>2. ControlTypes'
      BY <1>1, <2>1, TypesOfMove DEF ControlTypes, Counted, HostTypes
    <2>3. /\ cmd'.pc = "network" /\ cmd'.kind = cmd.kind /\ cmd'.typed = cmd.typed /\ cmd'.env = cmd.env
          /\ cmd'.force = cmd.force /\ cmd'.was = cmd.was /\ cmd'.set = cmd.set
      BY <2>1, Moves DEF ControlTypes
    <2>4. Asked'
      BY <1>1, <2>3 DEF Asked, Finds, Replaces, Brings, Passed, Prepared, Guarded, Ready
    <2>5. Written'
      BY <1>1, <1>3, <2>3 DEF Written, Images, Composed, Filled, RunsAsWritten, Ready, Guarded
    <2>6. Host'
      BY <1>1, <2>3 DEF Host, TokenIsHeld, AttachedTo, PasswordMatchesHash
    <2>. QED
      BY <2>2, <2>4, <2>5, <2>6
  <1>. QED
    BY <1>2, <1>3

(* The networks are settled before any file is written: init stays where it is or goes on to them. *)
LEMMA NetworkMoves ==
  ASSUME ControlIInv, cmd.pc = "network", cmd' = cmd \/ Go("compose"),
         UNCHANGED <<composeYml, dotEnv, dnsEnv, cut, attached, minted, forced, commands, images, cliVersion>>,
         breaks' \in Nat, nets' \in [Nets -> {"none", "bridge", "overlay", "sized"}],
         netAt' \in Nets \X {"look", "down", "rm", "create"}, control' \in {control, <<>>}, AttachedTo'
  PROVE  ControlIInv'
  <1> USE DEF ControlIInv
  <1>1. "compose" \in Points /\ <<>> \in OneOf(Stacks) /\ HostState' = HostState
    BY OneOfNone DEF Points, Prepared, HostState
  <1>2. /\ cmd'.pc \in {"network", "compose"} /\ cmd'.kind = cmd.kind /\ cmd'.typed = cmd.typed /\ cmd'.env = cmd.env
        /\ cmd'.force = cmd.force /\ cmd'.was = cmd.was /\ cmd'.set = cmd.set /\ CmdTypes'
    <2>1. CASE cmd' = cmd
      BY <2>1 DEF ControlTypes, CmdTypes
    <2>2. CASE Go("compose")
      BY <1>1, <2>2, Moves DEF ControlTypes
    <2>. QED
      BY <2>1, <2>2
  <1>3. (DiskTypes /\ HostTypes /\ Counted)'
    BY <1>1, <1>2 DEF ControlTypes, DiskTypes, HostTypes, Counted
  <1>4. Asked'
    BY <1>1, <1>2 DEF Asked, Finds, Replaces, Brings, Passed, Prepared, Guarded, Ready
  <1>5. Written'
    BY <1>2 DEF Written, Images, Composed, Filled, RunsAsWritten, Ready, Guarded
  <1>6. Host'
    BY <1>1, <1>2 DEF Host, TokenIsHeld, PasswordMatchesHash
  <1>. QED
    BY <1>2, <1>3, <1>4, <1>5, <1>6 DEF ControlTypes

LEMMA NetPlaces ==
  ASSUME ControlIInv, NEW step \in {"look", "down", "rm", "create"}, Then(step)
  PROVE  netAt' \in Nets \X {"look", "down", "rm", "create"} /\ cmd' = cmd
  BY DEF ControlIInv, ControlTypes, HostTypes, Then

LEMMA Networks ==
  ASSUME ControlIInv, LookAtNetwork \/ TakeDown \/ RemoveNetwork \/ CreateNetwork
  PROVE  ControlIInv'
  <1> USE DEF ControlIInv
  <1>1. /\ cmd.pc = "network" /\ netAt[1] \in Nets /\ breaks' \in Nat
        /\ UNCHANGED <<composeYml, dotEnv, dnsEnv, cut, attached, minted, forced, commands, images, cliVersion>>
    BY DEF LookAtNetwork, TakeDown, RemoveNetwork, CreateNetwork, AtNetwork, AtCommand, DockerTells, DockerFails, KeepDisk, KeepBuild,
           ControlTypes, HostTypes, Counted
  <1>2. CASE Go("failed")
    <2>1. UNCHANGED <<nets, netAt, control>>
      <3>1. Go("failed") => cmd'.pc = "failed"
        BY DEF Go, ControlTypes, CmdTypes
      <3>2. cmd' # cmd /\ ~Go("compose")
        BY <1>1, <1>2, <3>1 DEF Go, ControlTypes, CmdTypes
      <3>. QED
        BY <3>2 DEF LookAtNetwork, TakeDown, RemoveNetwork, CreateNetwork, Then
    <2>. QED
      BY <1>1, <1>2, <2>1, Fails
  <1>3. CASE ~Go("failed")
    <2>1. CASE LookAtNetwork
      <3>1. UNCHANGED <<nets, control>> /\ (Then("create") \/ Then("down"))
        BY <1>3, <2>1 DEF LookAtNetwork
      <3>2. AttachedTo' /\ nets' \in [Nets -> {"none", "bridge", "overlay", "sized"}]
        BY <1>1, <3>1 DEF Host, AttachedTo, ControlTypes, HostTypes
      <3>. QED
        BY <1>1, <3>1, <3>2, NetPlaces, NetworkMoves
    <2>2. CASE TakeDown
      <3>1. UNCHANGED nets /\ Then("rm") /\ control' \in {control, <<>>}
        BY <2>2 DEF TakeDown
      <3>2. AttachedTo' /\ nets' \in [Nets -> {"none", "bridge", "overlay", "sized"}]
        BY <1>1, <3>1 DEF Host, AttachedTo, ControlTypes, HostTypes
      <3>. QED
        BY <1>1, <3>1, <3>2, NetPlaces, NetworkMoves
    <2>3. CASE RemoveNetwork
      <3>1. /\ netAt[1] \notin attached /\ control' = control /\ Then("create")
            /\ nets' = [nets EXCEPT ![netAt[1]] = "none"]
        BY <1>3, <2>3 DEF RemoveNetwork
      <3>2. AttachedTo' /\ nets' \in [Nets -> {"none", "bridge", "overlay", "sized"}]
        BY <1>1, <3>1 DEF Host, AttachedTo, ControlTypes, HostTypes
      <3>. QED
        BY <1>1, <3>1, <3>2, NetPlaces, NetworkMoves
    <2>4. CASE CreateNetwork
      <3>1. \/ nets' = [nets EXCEPT ![netAt[1]] = IF nets[netAt[1]] = "none" THEN Made ELSE nets[netAt[1]]]
            \/ nets' = nets
        BY <2>4 DEF CreateNetwork
      <3>2. Made \in {"bridge", "overlay", "sized"}
        BY DEF Made
      <3>3. AttachedTo' /\ nets' \in [Nets -> {"none", "bridge", "overlay", "sized"}]
        BY <1>1, <3>1, <3>2 DEF Host, AttachedTo, ControlTypes, HostTypes
      <3>4. netAt' \in Nets \X {"look", "down", "rm", "create"} /\ (cmd' = cmd \/ Go("compose")) /\ control' = control
        BY <2>4 DEF CreateNetwork, ControlTypes, HostTypes, Nets
      <3>. QED
        BY <1>1, <3>3, <3>4, NetworkMoves
    <2>. QED
      BY <2>1, <2>2, <2>3, <2>4
  <1>. QED
    BY <1>2, <1>3

LEMMA SecretsFit ==
  ASSUME ControlTypes
  PROVE  /\ TokenOf \in Nat \ {0} /\ TokenOf <= minted + 1 /\ (cmd.env.token # 0 => TokenOf = cmd.env.token)
         /\ LokiOf \in Nat /\ LokiOf <= minted + 1 /\ (cmd.env.loki # 0 => LokiOf = cmd.env.loki)
         /\ PushHash \in Nat /\ PushHash <= minted + 1
         /\ TokenOf = minted + 1 => cmd.env.token = 0
         /\ cmd.set.logging = "loki" => PushHash = LokiOf
  <1>1. minted \in Nat /\ cmd.env.token \in Nat /\ cmd.env.loki \in Nat /\ cmd.env.token <= minted /\ cmd.env.loki <= minted
    BY DEF ControlTypes, CmdTypes, Counted, Envs
  <1>. QED
    BY <1>1 DEF TokenOf, LokiOf, PushHash

(* What is rendered is of its kind, and carries the settings and the secrets of the command. *)
LEMMA RendersFit ==
  ASSUME ControlTypes
  PROVE  /\ RenderCompose.challenge = cmd.set.challenge /\ RenderCompose.ui = cmd.set.ui /\ RenderCompose.orch = cmd.set.orch
         /\ RenderCompose.logging = cmd.set.logging /\ RenderCompose.hash = PushHash /\ RenderCompose \in ComposeFiles
         /\ RenderEnv.token = TokenOf /\ RenderEnv.loki = LokiOf
         /\ RenderEnv \in [provider : {"none", "cloudflare"}, orch : {"compose", "swarm"}, token : Nat \ {0}, loki : Nat]
         /\ RenderDns \in [provider : {"none", "cloudflare"}, token : {0, 1}] /\ RenderDns.token = cmd.env.dns
         /\ Minted \in Nat /\ minted <= Minted /\ TokenOf <= Minted /\ LokiOf <= Minted
  <1>1. /\ RenderCompose.challenge = cmd.set.challenge /\ RenderCompose.ui = cmd.set.ui /\ RenderCompose.orch = cmd.set.orch
        /\ RenderCompose.logging = cmd.set.logging /\ RenderCompose.hash = PushHash /\ RenderCompose \in ComposeFiles
    BY SecretsFit DEF RenderCompose, ComposeFiles, ControlTypes, CmdTypes, HostSettings
  <1>2. /\ RenderEnv.token = TokenOf /\ RenderEnv.loki = LokiOf
        /\ RenderEnv \in [provider : {"none", "cloudflare"}, orch : {"compose", "swarm"}, token : Nat \ {0}, loki : Nat]
    BY SecretsFit DEF RenderEnv, ControlTypes, CmdTypes, HostSettings
  <1>3. RenderDns \in [provider : {"none", "cloudflare"}, token : {0, 1}] /\ RenderDns.token = cmd.env.dns
    BY DEF RenderDns, ControlTypes, CmdTypes, HostSettings, Envs
  <1>4. Minted \in Nat /\ minted <= Minted /\ TokenOf <= Minted /\ LokiOf <= Minted
    BY SecretsFit DEF Minted, ControlTypes, Counted
  <1>. QED
    BY <1>1, <1>2, <1>3, <1>4

LEMMA AskedOnward ==
  ASSUME Asked, cmd.pc \in Guarded, cmd'.pc \in {"env", "dns", "up", "health", "done"}, cmd'.kind = cmd.kind, cmd'.typed = cmd.typed,
         cmd'.env = cmd.env, cmd'.force = cmd.force, cmd'.was = cmd.was, cmd'.set = cmd.set
  PROVE  Asked'
  <1>1. Finds'
    BY DEF Finds, Prepared
  <1>2. Replaces'
    BY DEF Asked, Replaces, Guarded
  <1>3. Brings'
    BY DEF Asked, Brings, Ready
  <1>4. Passed'
    BY DEF Asked, Passed
  <1>. QED
    BY <1>1, <1>2, <1>3, <1>4 DEF Asked

LEMMA Composes ==
  ASSUME ControlIInv, WriteCompose
  PROVE  ControlIInv'
  <1> USE DEF ControlIInv
  <1>1. /\ cmd.pc = "compose" /\ Go("env") /\ composeYml' = <<RenderCompose>>
        /\ cut' \in BOOLEAN
        /\ UNCHANGED <<dotEnv, dnsEnv, nets, attached, netAt, control, minted, commands, breaks, images, cliVersion, forced>>
    BY DEF WriteCompose, AtCommand, KeepHost, KeepBuild
  <1>2. /\ RenderCompose.challenge = cmd.set.challenge /\ RenderCompose.ui = cmd.set.ui /\ RenderCompose.orch = cmd.set.orch
        /\ RenderCompose.logging = cmd.set.logging /\ RenderCompose.hash = PushHash /\ RenderCompose \in ComposeFiles
    BY RendersFit DEF ControlTypes
  <1>3. composeYml' \in OneOf(ComposeFiles) /\ composeYml' # <<>> /\ composeYml'[1] = RenderCompose
    BY <1>1, <1>2, OneOfHas
  <1>4. /\ cmd'.pc = "env" /\ cmd'.kind = cmd.kind /\ cmd'.typed = cmd.typed /\ cmd'.env = cmd.env
        /\ cmd'.force = cmd.force /\ cmd'.was = cmd.was /\ cmd'.set = cmd.set /\ CmdTypes'
    BY <1>1, Moves DEF ControlTypes, Points, Guarded
  <1>5. (DiskTypes /\ HostTypes /\ Counted)'
    BY <1>1, <1>2, <1>3, <1>4, SecretsFit DEF ControlTypes, DiskTypes, HostTypes, Counted
  <1>6. Asked'
    BY <1>1, <1>4, AskedOnward DEF Guarded
  <1>7. PushHash' = PushHash
    BY <1>1, <1>4 DEF PushHash, LokiOf
  <1>8. Written'
    BY <1>1, <1>2, <1>3, <1>4, <1>7 DEF Written, Images, Composed, Filled, RunsAsWritten, Ready, Guarded
  <1>9. Host'
    BY <1>1, <1>4 DEF Host, TokenIsHeld, AttachedTo, PasswordMatchesHash
  <1>. QED
    BY <1>4, <1>5, <1>6, <1>8, <1>9 DEF ControlTypes

LEMMA Fills ==
  ASSUME ControlIInv, WriteEnv
  PROVE  ControlIInv'
  <1> USE DEF ControlIInv
  <1>1. /\ cmd.pc = "env" /\ Go("dns") /\ dotEnv' = <<RenderEnv>>
        /\ minted' = Minted
        /\ UNCHANGED <<composeYml, dnsEnv, nets, attached, netAt, cut, control, commands, breaks, images, cliVersion, forced>>
    BY DEF WriteEnv, AtCommand, KeepHost, KeepBuild
  <1>2. /\ RenderEnv.token = TokenOf /\ RenderEnv.loki = LokiOf
        /\ RenderEnv \in [provider : {"none", "cloudflare"}, orch : {"compose", "swarm"}, token : Nat \ {0}, loki : Nat]
    BY RendersFit
  <1>3. RenderEnv # TornEnv /\ RenderEnv \in EnvFiles
    <2>1. RenderEnv.token # TornEnv.token
      BY <1>2, SecretsFit DEF TornEnv
    <2>. QED
      BY <1>2, <2>1 DEF EnvFiles
  <1>4. dotEnv' \in OneOf(EnvFiles) /\ dotEnv' # <<>> /\ dotEnv'[1] = RenderEnv /\ dotEnv' # <<TornEnv>>
    BY <1>1, <1>3, OneOfHas
  <1>5. /\ cmd'.pc = "dns" /\ cmd'.kind = cmd.kind /\ cmd'.typed = cmd.typed /\ cmd'.env = cmd.env
        /\ cmd'.force = cmd.force /\ cmd'.was = cmd.was /\ cmd'.set = cmd.set /\ CmdTypes'
    BY <1>1, Moves DEF ControlTypes, Points, Guarded
  <1>6. minted' \in Nat /\ minted <= minted' /\ TokenOf <= minted' /\ LokiOf <= minted'
    BY <1>1, RendersFit
  <1>7. Counted'
    <2>1. composeYml # <<>> => composeYml[1].hash \in Nat
      BY OneOfAre DEF ControlTypes, DiskTypes, ComposeFiles
    <2>2. control # <<>> => control[1].token \in Nat
      BY OneOfAre DEF ControlTypes, HostTypes, Stacks
    <2>3. cmd.env.token \in Nat /\ cmd.env.loki \in Nat
      BY DEF ControlTypes, CmdTypes, Envs
    <2>. QED
      BY <1>1, <1>2, <1>4, <1>5, <1>6, <2>1, <2>2, <2>3 DEF ControlTypes, Counted
  <1>8. (DiskTypes /\ HostTypes)'
    BY <1>1, <1>4 DEF ControlTypes, DiskTypes, HostTypes
  <1>9. Asked'
    BY <1>1, <1>5, AskedOnward DEF Guarded
  <1>10. Written'
    BY <1>1, <1>2, <1>4, <1>5, SecretsFit DEF Written, Images, Composed, Filled, RunsAsWritten, Ready, Guarded, Given
  <1>11. Host'
    BY <1>1, <1>2, <1>4, <1>5, SecretsFit DEF Host, TokenIsHeld, AttachedTo, PasswordMatchesHash
  <1>. QED
    BY <1>5, <1>7, <1>8, <1>9, <1>10, <1>11 DEF ControlTypes

LEMMA WritesDns ==
  ASSUME ControlIInv, WriteDns
  PROVE  ControlIInv'
  <1> USE DEF ControlIInv
  <1>1. /\ cmd.pc = "dns" /\ Go("up") /\ dnsEnv' = RenderDns
        /\ UNCHANGED <<composeYml, dotEnv, nets, attached, netAt, cut, control, minted, commands, breaks, images, cliVersion, forced>>
    BY DEF WriteDns, AtCommand, KeepHost, KeepBuild
  <1>2. RenderDns \in [provider : {"none", "cloudflare"}, token : {0, 1}] /\ RenderDns.token = cmd.env.dns
    BY RendersFit
  <1>3. /\ cmd'.pc = "up" /\ cmd'.kind = cmd.kind /\ cmd'.typed = cmd.typed /\ cmd'.env = cmd.env
        /\ cmd'.force = cmd.force /\ cmd'.was = cmd.was /\ cmd'.set = cmd.set /\ CmdTypes'
    BY <1>1, Moves DEF ControlTypes, Points, Guarded
  <1>4. (DiskTypes /\ HostTypes /\ Counted)'
    BY <1>1, <1>2, <1>3 DEF ControlTypes, DiskTypes, HostTypes, Counted
  <1>5. Asked'
    BY <1>1, <1>3, AskedOnward DEF Guarded
  <1>6. Written'
    BY <1>1, <1>2, <1>3 DEF Written, Images, Composed, Filled, RunsAsWritten, Ready, Guarded, Given
  <1>7. Host'
    BY <1>1, <1>3 DEF Host, TokenIsHeld, AttachedTo, PasswordMatchesHash
  <1>. QED
    BY <1>3, <1>4, <1>5, <1>6, <1>7 DEF ControlTypes

(* The UI's image is there: precheck saw it, and nobody prunes while a command runs. *)
UpStack ==
    [challenge |-> composeYml[1].challenge, ui |-> composeYml[1].ui, logging |-> composeYml[1].logging,
     orch |-> composeYml[1].orch, hash |-> composeYml[1].hash, token |-> dotEnv[1].token,
     loki |-> dotEnv[1].loki, dns |-> dnsEnv.token, version |-> images.control]
LEMMA UpComesUp ==
  ASSUME ControlIInv, BringUp, \A n \in Nets : nets[n] # "none"
  PROVE  cmd.pc = "up" /\ Go("health") /\ forced' = FALSE /\ control' = <<UpStack>>
  BY DEF ControlIInv, BringUp, AtCommand, UpStack, Written, Images, Composed

LEMMA UpsNot ==
  ASSUME ControlIInv, BringUp, \E n \in Nets : nets[n] = "none"
  PROVE  ControlIInv' /\ UNCHANGED <<control, nets>>
  <1>1. /\ cmd.pc = "up" /\ Go("failed")
        /\ UNCHANGED <<composeYml, dotEnv, dnsEnv, cut, minted, commands, nets, attached, netAt, control, images, cliVersion, forced, breaks>>
    BY DEF BringUp, AtCommand, KeepDisk, KeepBuild
  <1>2. breaks' \in Nat
    BY <1>1 DEF ControlIInv, ControlTypes, Counted
  <1>. QED
    BY <1>1, <1>2, Fails

LEMMA Ups ==
  ASSUME ControlIInv, BringUp, \A n \in Nets : nets[n] # "none"
  PROVE  ControlIInv'
  <1> USE DEF ControlIInv
  <1>1. /\ cmd.pc = "up" /\ Go("health") /\ forced' = FALSE /\ control' = <<UpStack>>
        /\ UNCHANGED <<composeYml, dotEnv, dnsEnv, cut, nets, attached, netAt, minted, commands, breaks, images, cliVersion>>
    BY UpComesUp DEF BringUp, KeepDisk, KeepBuild
  <1>2. /\ composeYml[1] \in ComposeFiles /\ dotEnv[1] \in EnvFiles /\ dotEnv[1] # TornEnv /\ composeYml # <<>> /\ dotEnv # <<>>
    <2>1. dotEnv # <<>> /\ dotEnv # <<TornEnv>> /\ composeYml # <<>>
      BY <1>1 DEF Written, Filled, Composed
    <2>. QED
      BY <2>1, OneOfAre DEF ControlTypes, DiskTypes
  <1>3. dotEnv[1].token \in Nat \ {0} /\ dotEnv[1].loki \in Nat
    BY <1>2 DEF EnvFiles
  <1>4. /\ UpStack.challenge = composeYml[1].challenge /\ UpStack.ui = composeYml[1].ui /\ UpStack.orch = composeYml[1].orch
        /\ UpStack.logging = composeYml[1].logging /\ UpStack.hash = composeYml[1].hash /\ UpStack.token = dotEnv[1].token
        /\ UpStack.loki = dotEnv[1].loki /\ UpStack.dns = dnsEnv.token /\ UpStack.version = images.control
    BY DEF UpStack
  <1>5. UpStack \in Stacks
    BY <1>2, <1>3 DEF UpStack, Stacks, ComposeFiles, ControlTypes, DiskTypes, HostTypes
  <1>6. control' \in OneOf(Stacks) /\ control' # <<>> /\ control'[1] = UpStack
    BY <1>1, <1>5, OneOfHas
  <1> HIDE DEF UpStack
  <1>7. /\ cmd'.pc = "health" /\ cmd'.kind = cmd.kind /\ cmd'.typed = cmd.typed /\ cmd'.env = cmd.env
        /\ cmd'.force = cmd.force /\ cmd'.was = cmd.was /\ cmd'.set = cmd.set /\ CmdTypes'
    BY <1>1, Moves DEF ControlTypes, Points, Guarded
  <1>8. (DiskTypes /\ HostTypes /\ Counted)'
    BY <1>1, <1>2, <1>4, <1>6, <1>7 DEF ControlTypes, DiskTypes, HostTypes, Counted
  <1>9. Asked'
    BY <1>1, <1>7, AskedOnward DEF Guarded
  <1>10. Written'
    <2>1. RunsAsWritten'
      BY <1>1, <1>4, <1>6, <1>7 DEF Written, Images, Composed, Filled, RunsAsWritten, Given, Ready, Guarded
    <2>. QED
      BY <1>7, <2>1 DEF Written, Images, Composed, Filled, Ready, Guarded
  <1>11. Host'
    BY <1>1, <1>4, <1>6, <1>7 DEF Host, TokenIsHeld, AttachedTo, PasswordMatchesHash, Written, Filled
  <1>. QED
    BY <1>7, <1>8, <1>9, <1>10, <1>11 DEF ControlTypes

LEMMA Awaits ==
  ASSUME ControlIInv, AwaitHealthy
  PROVE  ControlIInv'
  <1> USE DEF ControlIInv
  <1>1. cmd.pc = "health" /\ Go("done") /\ Untouched /\ UNCHANGED <<images, cliVersion, forced>>
    BY DEF AwaitHealthy, AtCommand, Untouched, KeepDisk, KeepHost, KeepBuild
  <1>2. ControlTypes'
    BY <1>1, TypesOfMove DEF Untouched, ControlTypes, Counted, HostTypes, Points, Guarded
  <1>3. /\ cmd'.pc = "done" /\ cmd'.kind = cmd.kind /\ cmd'.typed = cmd.typed /\ cmd'.env = cmd.env
        /\ cmd'.force = cmd.force /\ cmd'.was = cmd.was /\ cmd'.set = cmd.set
    BY <1>1, Moves DEF ControlTypes, Points, Guarded
  <1>4. Asked'
    BY <1>1, <1>3, AskedOnward DEF Guarded
  <1>5. Written'
    BY <1>1, <1>3 DEF Written, Images, Composed, Filled, RunsAsWritten, Ready, Guarded, Given, Untouched
  <1>6. Host'
    BY <1>1, <1>3 DEF Host, TokenIsHeld, AttachedTo, PasswordMatchesHash, Untouched
  <1>. QED
    BY <1>2, <1>4, <1>5, <1>6

LEMMA Between ==
  ASSUME ControlIInv, (\E n \in Nets : AttachPreview(n)) \/ PruneUiImage \/ UNCHANGED controlVars
  PROVE  ControlIInv'
  <1> USE DEF ControlIInv
  <1>1. /\ UNCHANGED <<composeYml, dotEnv, dnsEnv, cut, nets, netAt, control, cmd, cliVersion, minted, forced, commands>>
        /\ attached' \subseteq Nets /\ breaks' \in Nat /\ (\A n \in attached' : nets[n] # "none")
        /\ images'.control = images.control /\ images' \in [control : Nat, ui : BOOLEAN]
        /\ images' = images \/ cmd.pc \in Idling
    <2>1. CASE \E n \in Nets : AttachPreview(n)
      <3>1. PICK n \in Nets : AttachPreview(n)
        BY <2>1
      <3>2. attached' \subseteq Nets /\ (\A k \in attached' : nets[k] # "none")
        BY <3>1 DEF AttachPreview, ControlTypes, HostTypes, Host, AttachedTo
      <3>. QED
        BY <3>1, <3>2 DEF AttachPreview, KeepDisk, KeepBuild, ControlTypes, HostTypes, Counted
    <2>2. CASE PruneUiImage
      <3>1. /\ UNCHANGED <<composeYml, dotEnv, dnsEnv, cut, nets, attached, netAt, control, cmd, cliVersion, minted, forced, commands>>
            /\ images' = [images EXCEPT !.ui = FALSE] /\ breaks' = breaks + 1 /\ cmd.pc \in Idling
        BY <2>2 DEF PruneUiImage, KeepDisk, KeepHost, Idling
      <3>2. images' \in [control : Nat, ui : BOOLEAN] /\ images'.control = images.control
        BY <3>1 DEF ControlTypes, HostTypes
      <3>3. breaks' \in Nat /\ attached \subseteq Nets /\ (\A n \in attached : nets[n] # "none")
        BY <3>1 DEF ControlTypes, HostTypes, Counted, Host, AttachedTo
      <3>. QED
        BY <3>1, <3>2, <3>3
    <2>3. CASE UNCHANGED controlVars
      BY <2>3 DEF controlVars, ControlTypes, HostTypes, Counted, Host, AttachedTo
    <2>. QED
      BY <2>1, <2>2, <2>3
  <1>2. ControlTypes'
    BY <1>1 DEF ControlTypes, DiskTypes, HostTypes, CmdTypes, Counted
  <1>3. Asked'
    BY <1>1 DEF Asked, Finds, Replaces, Brings, Passed, HostState
  <1>4. Written'
    BY <1>1 DEF Written, Images, Composed, Filled, RunsAsWritten, Given, PushHash, LokiOf, Idling
  <1>5. Host'
    BY <1>1 DEF Host, TokenIsHeld, AttachedTo, PasswordMatchesHash
  <1>. QED
    BY <1>2, <1>3, <1>4, <1>5

LEMMA CutsFit ==
  ASSUME ControlTypes
  PROVE  /\ \A c \in CutCompose : c \in ComposeFiles /\ c.hash = 0
         /\ \A e \in CutEnv : e \in EnvFiles /\ e.token \in {0, TokenOf} /\ e.loki = 0
  <1>1. TornCompose \in ComposeFiles /\ TornCompose.hash = 0 /\ RenderCompose \in ComposeFiles
    BY RendersFit DEF TornCompose, ComposeFiles
  <1>2. \A c \in CutCompose : c \in ComposeFiles /\ c.hash = 0
    BY <1>1 DEF CutCompose, ComposeFiles
  <1>3. TornEnv \in EnvFiles /\ TornEnv.token = 0 /\ TornEnv.loki = 0
    BY DEF EnvFiles, TornEnv
  <1>4. [RenderEnv EXCEPT !.loki = 0] \in EnvFiles /\ [RenderEnv EXCEPT !.loki = 0].token = TokenOf
        /\ [RenderEnv EXCEPT !.loki = 0].loki = 0
    BY RendersFit DEF EnvFiles
  <1>. QED
    BY <1>2, <1>3, <1>4 DEF CutEnv

LEMMA Breaks ==
  ASSUME ControlIInv, BreakCommand
  PROVE  ControlIInv'
  <1> USE DEF ControlIInv
  <1>1. /\ Go("failed") /\ cmd.pc # "none" /\ breaks' = breaks + 1 /\ cut' \in BOOLEAN
        /\ composeYml' \in Cutting("compose", composeYml) /\ dotEnv' \in Cutting("env", dotEnv)
        /\ dnsEnv' \in Cutting("dns", dnsEnv) /\ minted' = IF cmd.pc = "env" THEN Minted ELSE minted
        /\ UNCHANGED <<nets, attached, netAt, control, images, cliVersion, forced, commands>>
    BY DEF BreakCommand, AtCommand, KeepHost, KeepBuild
  <1>2. cmd'.env = cmd.env
    BY <1>1 DEF Go, ControlTypes, CmdTypes
  <1>3. \/ composeYml' = composeYml
        \/ \E c \in ComposeFiles : composeYml' = <<c>> /\ c.hash <= minted + 1
    <2>1. RenderCompose \in ComposeFiles /\ RenderCompose.hash <= minted + 1
      BY RendersFit, SecretsFit DEF ControlTypes
    <2>2. \A c \in CutCompose : c \in ComposeFiles /\ c.hash <= minted + 1
      <3>1. 0 <= minted + 1
        BY DEF ControlTypes, Counted
      <3>. QED
        BY <3>1, CutsFit
    <2>. QED
      BY <1>1, <2>1, <2>2 DEF Cutting, AtCommand
  <1>4. \/ dotEnv' = dotEnv
        \/ cmd.pc = "env" /\ \E e \in EnvFiles : dotEnv' = <<e>> /\ e.token \in {0, TokenOf} /\ e.loki \in {0, LokiOf}
    <2>1. RenderEnv \in EnvFiles /\ RenderEnv.token = TokenOf /\ RenderEnv.loki = LokiOf
      BY RendersFit DEF EnvFiles
    <2>. QED
      BY <1>1, <2>1, CutsFit DEF Cutting, AtCommand
  <1>5. minted' \in Nat /\ minted <= minted' /\ (cmd.pc = "env" => TokenOf <= minted' /\ LokiOf <= minted')
    BY <1>1, RendersFit DEF ControlTypes, Counted
  <1>6. dnsEnv' \in [provider : {"none", "cloudflare"}, token : {0, 1}]
    <2>1. RenderDns \in [provider : {"none", "cloudflare"}, token : {0, 1}]
      BY RendersFit
    <2>2. [RenderDns EXCEPT !.token = 0] \in [provider : {"none", "cloudflare"}, token : {0, 1}]
      BY <2>1
    <2>. QED
      BY <1>1, <2>1, <2>2 DEF Cutting, AtCommand, ControlTypes, DiskTypes
  <1>7. DiskTypes' /\ HostTypes'
    <2>1. composeYml' \in OneOf(ComposeFiles) /\ dotEnv' \in OneOf(EnvFiles)
      BY <1>3, <1>4, OneOfHas DEF ControlTypes, DiskTypes
    <2>. QED
      BY <1>1, <1>6, <2>1 DEF ControlTypes, DiskTypes, HostTypes
  <1>8. Counted'
    <2>1. composeYml' # <<>> => composeYml'[1].hash <= minted' + 1
      <3>1. composeYml' # <<>> => composeYml'[1].hash \in Nat
        BY <1>7, OneOfAre DEF DiskTypes, ComposeFiles
      <3>2. composeYml' # <<>> => composeYml'[1].hash <= minted + 1
        BY <1>3 DEF ControlTypes, Counted
      <3>. QED
        BY <1>5, <3>1, <3>2 DEF ControlTypes, Counted
    <2>2. dotEnv' # <<>> => dotEnv'[1].token <= minted' /\ dotEnv'[1].loki <= minted'
      <3>1. CASE dotEnv' = dotEnv
        <4>1. dotEnv # <<>> => dotEnv[1].token \in Nat /\ dotEnv[1].loki \in Nat
          BY OneOfAre DEF ControlTypes, DiskTypes, EnvFiles, TornEnv
        <4>. QED
          BY <1>5, <3>1, <4>1 DEF ControlTypes, Counted
      <3>2. CASE dotEnv' # dotEnv
        BY <1>4, <1>5, <3>2
      <3>. QED
        BY <3>1, <3>2
    <2>3. control # <<>> => control[1].token \in Nat
      BY OneOfAre DEF ControlTypes, HostTypes, Stacks
    <2>4. cmd.env.token \in Nat /\ cmd.env.loki \in Nat
      BY DEF ControlTypes, CmdTypes, Envs
    <2>. QED
      BY <1>1, <1>2, <1>5, <2>1, <2>2, <2>3, <2>4 DEF ControlTypes, Counted
  <1>9. TokenAtRest'
    <2>1. CASE dotEnv' = dotEnv
      BY <1>1, <2>1 DEF Host, TokenIsHeld, TokenAtRest
    <2>2. CASE dotEnv' # dotEnv
      BY <1>1, <1>4, <2>2, SecretsFit DEF Host, TokenIsHeld, TokenAtRest, ControlTypes
    <2>. QED
      BY <2>1, <2>2
  <1>10. AttachedTo' /\ PasswordMatchesHash'
    BY <1>1 DEF Host, AttachedTo, PasswordMatchesHash
  <1>. QED
    BY <1>1, <1>7, <1>8, <1>9, <1>10, Ends

LEMMA ControlSteps == ControlIInv /\ [ControlPlaneNext]_controlVars => ControlIInv'
  BY InitStarts, UpgradeStarts, SwitchStarts, Installs, Resumes, Builds, Guards, Prechecks, Networks, Composes, Fills, WritesDns,
     Ups, UpsNot, Awaits, Between, Breaks DEF ControlPlaneNext

LEMMA ControlHolds == ControlPlaneSpec => []ControlIInv
  BY ControlStarts, ControlSteps, PTL DEF ControlPlaneSpec
--------------------------------------------------------------------------------
(* The files, the stack and the command keep their types, and no secret is one that was not minted. *)
THEOREM ControlTypeCorrect == ControlPlaneSpec => []ControlPlaneTypeOK
  <1>1. ControlIInv => ControlPlaneTypeOK
    <2> SUFFICES ASSUME ControlIInv PROVE ControlPlaneTypeOK
      OBVIOUS
    <2> USE DEF ControlIInv
    <2>2. composeYml \in {<<>>} \cup {<<c>> : c \in [challenge : {"http01", "dns01"}, ui : {"basic", "advanced"},
            orch : {"compose", "swarm"}, logging : {"none", "loki"}, hash : 0..(minted + 1)]}
      <3>1. CASE composeYml = <<>>
        BY <3>1
      <3>2. CASE composeYml # <<>>
        <4>1. composeYml[1] \in ComposeFiles /\ composeYml = <<composeYml[1]>> /\ composeYml[1].hash <= minted + 1 /\ minted \in Nat
          BY <3>2, OneOfAre DEF ControlTypes, DiskTypes, Counted
        <4>2. composeYml[1] \in [challenge : {"http01", "dns01"}, ui : {"basic", "advanced"},
                orch : {"compose", "swarm"}, logging : {"none", "loki"}, hash : 0..(minted + 1)]
          BY <4>1 DEF ComposeFiles
        <4>. QED
          BY <4>1, <4>2
      <3>. QED
        BY <3>1, <3>2
    <2>3. dotEnv \in {<<>>} \cup {<<e>> : e \in [provider : {"none", "cloudflare"},
            orch : {"compose", "swarm"}, token : 0..minted, loki : 0..minted]}
      <3>1. CASE dotEnv = <<>>
        BY <3>1
      <3>2. CASE dotEnv # <<>>
        <4>1. dotEnv[1] \in EnvFiles /\ dotEnv = <<dotEnv[1]>> /\ dotEnv[1].token <= minted /\ dotEnv[1].loki <= minted /\ minted \in Nat
          BY <3>2, OneOfAre DEF ControlTypes, DiskTypes, Counted
        <4>2. dotEnv[1] \in [provider : {"none", "cloudflare"}, orch : {"compose", "swarm"}, token : 0..minted, loki : 0..minted]
          BY <4>1 DEF EnvFiles, TornEnv
        <4>. QED
          BY <4>1, <4>2
      <3>. QED
        BY <3>1, <3>2
    <2>. QED
      BY <2>2, <2>3 DEF ControlTypes, DiskTypes, HostTypes, CmdTypes, ControlPlaneTypeOK
  <1>. QED
    BY <1>1, ControlHolds, PTL

(* A network is taken down for what was seen of it: it does not fit the command. *)
Replacing == AtNetwork("down") => nets[netAt[1]] # "none" /\ ~Fits(nets[netAt[1]])

StackStep == control # <<>> /\ control' = <<>> => \E n \in Nets : nets[n] # "none" /\ ~Fits(nets[n])
TokenStep == control # <<>> /\ control' # <<>> /\ ~forced => control'[1].token = control[1].token
NetworkStep == \A n \in attached \cap attached' : nets'[n] = nets[n]

LEMMA StackMoves ==
  ASSUME ControlIInv, [ControlPlaneNext]_controlVars
  PROVE  \/ UNCHANGED <<control, nets>>
         \/ TakeDown \/ RemoveNetwork \/ CreateNetwork
         \/ cmd.pc = "up" /\ control' = <<UpStack>> /\ UNCHANGED nets /\ \A n \in Nets : nets[n] # "none"
  <1>1. CASE BringUp
    BY <1>1, UpComesUp, UpsNot DEF BringUp
  <1>2. CASE InstallBinary \/ ResumeUpgrade \/ BuildUi \/ InitGuard \/ Precheck \/ LookAtNetwork
             \/ WriteCompose \/ WriteEnv \/ WriteDns \/ AwaitHealthy \/ BreakCommand \/ PruneUiImage \/ \E n \in Nets : AttachPreview(n)
    BY <1>2 DEF InstallBinary, ResumeUpgrade, BuildUi, InitGuard, Precheck, LookAtNetwork, WriteCompose, WriteEnv, WriteDns,
         AwaitHealthy, BreakCommand, AttachPreview, PruneUiImage, KeepHost
  <1>3. CASE UNCHANGED controlVars
    BY <1>3 DEF controlVars
  <1>4. CASE \/ \E a \in Asks : TypeInit(a)
             \/ \E ui \in {<<>>, <<"advanced">>}, manager \in {<<>>, <<"compose">>} : TypeUpgrade(ui, manager)
             \/ \E ui \in {"basic", "advanced"} : TypeSwitch("ui", ui)
             \/ \E logging \in {"none", "loki"} : TypeSwitch("logging", logging)
    BY <1>4 DEF TypeInit, TypeUpgrade, TypeSwitch, KeepHost
  <1>. QED
    BY <1>1, <1>2, <1>3, <1>4 DEF ControlPlaneNext

LEMMA ReplacingStays ==
  ASSUME ControlIInv, Replacing, [ControlPlaneNext]_controlVars
  PROVE  Replacing'
  <1>1. CASE LookAtNetwork
    <2>1. CASE Then("down") /\ UNCHANGED nets /\ nets[netAt[1]] # "none" /\ ~Fits(nets[netAt[1]])
      BY <2>1 DEF Then, Replacing, Fits
    <2>2. CASE Then("create")
      BY <2>2 DEF Then, Replacing, AtNetwork
    <2>3. CASE Go("failed")
      BY <2>3 DEF Go, Replacing, AtNetwork, AtCommand, ControlIInv, ControlTypes, CmdTypes
    <2>. QED
      BY <1>1, <2>1, <2>2, <2>3 DEF LookAtNetwork
  <1>2. CASE TakeDown
    BY <1>2 DEF TakeDown, Then, Replacing, AtNetwork
  <1>3. CASE RemoveNetwork
    <2>1. CASE Then("create")
      BY <2>1 DEF Then, Replacing, AtNetwork
    <2>2. CASE Go("failed")
      BY <2>2 DEF Go, Replacing, AtNetwork, AtCommand, ControlIInv, ControlTypes, CmdTypes
    <2>. QED
      BY <1>3, <2>1, <2>2 DEF RemoveNetwork
  <1>4. CASE CreateNetwork
    <2>1. CASE netAt' = <<"shared", "look">>
      BY <2>1 DEF Replacing, AtNetwork
    <2>2. CASE Go("compose")
      BY <2>2 DEF Go, Replacing, AtNetwork, AtCommand, ControlIInv, ControlTypes, CmdTypes
    <2>. QED
      BY <1>4, <2>1, <2>2 DEF CreateNetwork
  <1>5. CASE Precheck
    BY <1>5 DEF Precheck, Replacing, AtNetwork
  <1>6. CASE (\E n \in Nets : AttachPreview(n)) \/ PruneUiImage \/ UNCHANGED controlVars
    <2>1. UNCHANGED <<cmd, netAt, nets>>
      BY <1>6 DEF AttachPreview, PruneUiImage, KeepHost, controlVars
    <2>. QED
      BY <2>1 DEF Replacing, AtNetwork, AtCommand, Fits
  <1>7. CASE cmd'.pc # "network"
    BY <1>7 DEF Replacing, AtNetwork, AtCommand
  <1>8. CASE \/ InstallBinary \/ ResumeUpgrade \/ BuildUi \/ InitGuard \/ WriteCompose \/ WriteEnv \/ WriteDns \/ BringUp
             \/ AwaitHealthy \/ BreakCommand
    <2>1. cmd'.pc # "network"
      BY <1>8 DEF InstallBinary, ResumeUpgrade, BuildUi, InitGuard, WriteCompose, WriteEnv, WriteDns, BringUp, AwaitHealthy,
         BreakCommand, Go, ControlIInv, ControlTypes, CmdTypes
    <2>. QED
      BY <1>7, <2>1
  <1>9. CASE \/ \E a \in Asks : TypeInit(a)
             \/ \E ui \in {<<>>, <<"advanced">>}, manager \in {<<>>, <<"compose">>} : TypeUpgrade(ui, manager)
             \/ \E ui \in {"basic", "advanced"} : TypeSwitch("ui", ui)
             \/ \E logging \in {"none", "loki"} : TypeSwitch("logging", logging)
    <2>1. cmd'.pc # "network"
      BY <1>9 DEF TypeInit, TypeUpgrade, TypeSwitch, NoCmd
    <2>. QED
      BY <1>7, <2>1
  <1>. QED
    BY <1>1, <1>2, <1>3, <1>4, <1>5, <1>6, <1>8, <1>9 DEF ControlPlaneNext

LEMMA NetworksStay ==
  ASSUME ControlIInv, StackHasNetworks, [ControlPlaneNext]_controlVars
  PROVE  StackHasNetworks'
  <1>1. CASE TakeDown
    BY <1>1 DEF TakeDown, StackHasNetworks
  <1>2. CASE RemoveNetwork
    BY <1>2 DEF RemoveNetwork, StackHasNetworks
  <1>3. CASE CreateNetwork
    <2>1. control' = control /\ netAt[1] \in Nets /\ nets \in [Nets -> {"none", "bridge", "overlay", "sized"}]
      BY <1>3 DEF CreateNetwork, ControlIInv, ControlTypes, HostTypes
    <2>2. \A n \in Nets : nets[n] # "none" => nets'[n] # "none"
      BY <1>3, <2>1 DEF CreateNetwork
    <2>. QED
      BY <2>1, <2>2 DEF StackHasNetworks
  <1>. QED
    BY <1>1, <1>2, <1>3, StackMoves DEF StackHasNetworks

LEMMA NetworksHold == ControlPlaneSpec => [](ControlIInv /\ Replacing /\ StackHasNetworks)
  <1>1. ControlPlaneInit => Replacing /\ StackHasNetworks
    BY DEF ControlPlaneInit, Replacing, AtNetwork, StackHasNetworks
  <1>. QED
    BY <1>1, ControlStarts, ControlSteps, ReplacingStays, NetworksStay, PTL DEF ControlPlaneSpec

(* What inits, upgrades and switches promise of a host that exists, in any order and cut off or      *)
(* failing anywhere: nothing is reverted that was not typed, the token stays and is that of .env,    *)
(* the stack goes down only to replace a network and runs on both, and those of a preview are never  *)
(* replaced.                                                                                         *)
THEOREM ControlIsSafe == ControlPlaneSpec => ControlSafety
  <1>1. ControlIInv => UpgradeKeeps /\ NoSilentRevert /\ PasswordMatchesHash /\ UpgradeArrives
    <2> SUFFICES ASSUME ControlIInv PROVE UpgradeKeeps /\ NoSilentRevert /\ PasswordMatchesHash /\ UpgradeArrives
      OBVIOUS
    <2> USE DEF ControlIInv
    <2>1. UpgradeKeeps
      <3> SUFFICES ASSUME cmd.pc = "done", cmd.kind # "init"
                   PROVE  LET was == cmd.was[1] IN
                          /\ \A f \in {"challenge", "ui", "logging", "orch"} : cmd.kind # f => control[1][f] = was.set[f]
                          /\ control[1].dns = was.dns /\ control[1].token = was.token
                          /\ was.loki # 0 => control[1].loki = was.loki
        BY DEF UpgradeKeeps, AtCommand
      <3>1. cmd.kind \in {"upgrade", "ui", "logging"}
        BY DEF ControlTypes, CmdTypes, Commands, Asked, Replaces
      <3>2. cmd.was # <<>> /\ cmd.was[1] \in Hosts /\ cmd.was[1].token # 0
        BY <3>1, OneOfAre DEF ControlTypes, CmdTypes, Asked, Replaces, Guarded, Hosts
      <3>. QED
        BY <3>1, <3>2 DEF Asked, Brings, Passed, Ready, Guarded, Written, RunsAsWritten, Given, InitEnv
    <2>2. NoSilentRevert
      BY DEF NoSilentRevert, AtCommand, Asked, Passed, Written, RunsAsWritten, Guarded
    <2>3. UpgradeArrives
      BY DEF UpgradeArrives, AtCommand, Written, RunsAsWritten
    <2>. QED
      BY <2>1, <2>2, <2>3 DEF Host
  <1>2. ControlIInv /\ Replacing /\ [ControlPlaneNext]_controlVars => StackStep /\ TokenStep /\ NetworkStep
    <2> SUFFICES ASSUME ControlIInv, Replacing, [ControlPlaneNext]_controlVars PROVE StackStep /\ TokenStep /\ NetworkStep
      OBVIOUS
    <2>1. CASE UNCHANGED <<control, nets>>
      BY <2>1 DEF StackStep, TokenStep, NetworkStep
    <2>2. CASE TakeDown
      <3>1. netAt[1] \in Nets
        BY DEF ControlIInv, ControlTypes, HostTypes
      <3>2. TokenStep /\ NetworkStep
        BY <2>2 DEF TakeDown, TokenStep, NetworkStep
      <3>3. StackStep
        BY <2>2, <3>1 DEF TakeDown, Replacing, StackStep
      <3>. QED
        BY <3>2, <3>3
    <2>4. CASE RemoveNetwork
      <3>1. nets \in [Nets -> {"none", "bridge", "overlay", "sized"}] /\ netAt[1] \in Nets /\ attached \subseteq Nets
        BY DEF ControlIInv, ControlTypes, HostTypes
      <3>. QED
        BY <2>4, <3>1 DEF RemoveNetwork, StackStep, TokenStep, NetworkStep
    <2>5. CASE CreateNetwork
      <3>1. /\ nets \in [Nets -> {"none", "bridge", "overlay", "sized"}] /\ netAt[1] \in Nets /\ attached \subseteq Nets
            /\ \A n \in attached : nets[n] # "none"
        BY DEF ControlIInv, ControlTypes, HostTypes, Host, AttachedTo
      <3>. QED
        BY <2>5, <3>1 DEF CreateNetwork, StackStep, TokenStep, NetworkStep
    <2>3. CASE cmd.pc = "up" /\ control' = <<UpStack>> /\ UNCHANGED nets
      <3>1. control # <<>> /\ ~forced => dotEnv[1].token \in {0, control[1].token}
        BY <2>3 DEF ControlIInv, Host, TokenIsHeld, Written, Filled
      <3>2. dotEnv[1].token # 0
        <4>1. dotEnv # <<>> /\ dotEnv # <<TornEnv>>
          BY <2>3 DEF ControlIInv, Written, Filled
        <4>2. dotEnv[1] \in EnvFiles /\ dotEnv[1] # TornEnv
          BY <4>1, OneOfAre DEF ControlIInv, ControlTypes, DiskTypes
        <4>. QED
          BY <4>2 DEF EnvFiles
      <3>3. UpStack.token = dotEnv[1].token
        BY DEF UpStack
      <3>. QED
        BY <2>3, <3>1, <3>2, <3>3 DEF StackStep, TokenStep, NetworkStep
    <2>. QED
      BY <2>1, <2>2, <2>3, <2>4, <2>5, StackMoves
  <1> HIDE DEF StackStep, TokenStep, NetworkStep, ControlIInv, Replacing, StackHasNetworks
  <1>3. ControlPlaneSpec => [](UpgradeKeeps /\ NoSilentRevert /\ PasswordMatchesHash /\ UpgradeArrives /\ StackHasNetworks)
    BY <1>1, NetworksHold, PTL
  <1>4. ControlPlaneSpec => [][StackStep]_controlVars /\ [][TokenStep]_controlVars /\ [][NetworkStep]_controlVars
    BY <1>2, NetworksHold, PTL DEF ControlPlaneSpec
  <1>. QED
    BY <1>3, <1>4 DEF ControlSafety, StackStep, TokenStep, NetworkStep, TokenStays, StackStaysUp, PreviewsKeepTheirNetworks
--------------------------------------------------------------------------------
(***************************************************************************)
(* The stats tick.  What the last event of a node said is what it is in,   *)
(* and the reading it was sent with is past its line, or clear of it by    *)
(* the margin; a prune has a job only between its create and its removal.  *)
(***************************************************************************)
Kinds == {"disk", "memory", "cpu"}
Maybe(S) == {<<>>} \cup {<<x>> : x \in S}
Turns == Nat \X (StatNodes \cup {Others, LocalDocker})
Prunes == [step : {"begin", "next", "rm"}, reason : {"pressure", "scheduled"}, keys : SUBSET StatNodes, todo : SUBSET Turns]
Batches == [reading : Readings, ctrs : SUBSET PressureStacks]
Aged == [reading : Readings, ctrs : SUBSET PressureStacks, age : 0 .. Stale + 1]
Edges == [event : {"node.pressure", "node.recovered"}, kinds : SUBSET Kinds, reading : Readings, limits : ThresholdSets]
NodeStates == {"no", "down", "active", "ready"}

BatchTypes ==
    /\ window \in [StatNodes -> Maybe(Batches)] /\ entries \in [StatNodes -> Maybe(Aged)]
    /\ pressure \in [StatNodes -> SUBSET Kinds] /\ said \in [StatNodes -> Maybe(Edges)]
    /\ limits \in ThresholdSets
SwarmTypes ==
    /\ listed \in [StatNodes -> NodeStates] /\ onSwarm \in BOOLEAN
    /\ tick.step \in Steps /\ tick = [step |-> tick.step, best |-> tick.best]
PruneTypes ==
    /\ prune \in {Idle} \cup Prunes
    /\ emergency \in [StatNodes -> Maybe(0 .. EmergencyEvery)] /\ scheduled \in Maybe(0 .. ScheduledEvery)
    /\ jobsLeft \subseteq (StatNodes \cup {Others}) \X {"made", "asked"}
StackTypes ==
    /\ stack \in [PressureStacks -> {"up", "busy", "sleeping", "asleep"}] /\ unused \in [PressureStacks -> Nat]
    /\ died \in BOOLEAN /\ statEvents \in Nat
StatsTypes == BatchTypes /\ SwarmTypes /\ PruneTypes /\ StackTypes

(* What was said of a node, with the reading that it was said of. *)
Known == \A n \in StatNodes : pressure[n] # {} => entries[n] # <<>>
EdgeIsSo(e) ==
    \A k \in e.kinds :
        IF e.event = "node.pressure" THEN On(k, e.limits) /\ Past(k, e.reading, e.limits, 0)
        ELSE ~On(k, e.limits) \/ ~Past(k, e.reading, e.limits, Margin[k])
SaidIsSo == \A n \in StatNodes : said[n] # <<>> => EdgeIsSo(said[n][1])
Told == Known /\ ToldIsHeld /\ SaidIsSo

(* A prune takes its turns one by one, and has a job only in the middle of one. *)
OneByOne == prune.step \in {"next", "rm"} => \A p, q \in prune.todo : p[1] = q[1] => p = q
JobOfTurn ==
    ~died => \A job \in jobsLeft : job[2] = "asked" \/ (prune.step = "rm" /\ \A turn \in FirstOf(prune.todo) : job = <<turn[2], "made">>)
Pruning == OneByOne /\ JobOfTurn

(* The sleep that is about to start is the answer to a node that it can help. *)
Helps == \E n \in StatNodes : pressure[n] \cap {"memory", "cpu"} # {}
SleepAnswers == tick.step = "start" => Helps

StatsIInv == StatsTypes /\ Told /\ Pruning /\ SleepAnswers
--------------------------------------------------------------------------------
LEMMA Lines ==
  /\ NumNodes \in Nat /\ Stale \in Nat /\ Stale > 0 /\ EmergencyEvery \in Nat /\ ScheduledEvery \in Nat /\ MaxUnused \in Nat
  /\ SelfNode \in StatNodes /\ StatNodes \subseteq Nat /\ 0 \notin StatNodes
  /\ \A r \in Readings : r.ok \in BOOLEAN /\ r.disk \in Nat /\ r.free \in Nat /\ r.load \in Nat
  /\ \A t \in ThresholdSets : t.disk \in Nat /\ t.free \in Nat /\ t.load \in Nat /\ t.idle \in Nat /\ t.after \in Nat
  BY NodeStatsAssumption DEF StatNodes

LEMMA MaybeHas ==
  ASSUME NEW S
  PROVE  <<>> \in Maybe(S) /\ \A x \in S : <<x>> \in Maybe(S)
  BY DEF Maybe

LEMMA MaybeAre ==
  ASSUME NEW S, NEW x \in Maybe(S), x # <<>>
  PROVE  x[1] \in S /\ x = <<x[1]>>
  BY DEF Maybe

LEMMA EvaluateIs ==
  ASSUME NEW prev, NEW r, NEW t
  PROVE  /\ Evaluate(prev, r, t) \subseteq Kinds
         /\ \A k \in Kinds : k \in Evaluate(prev, r, t) <=> On(k, t) /\ Holds(prev, k, r, t)
  BY DEF Evaluate, Kinds

(* The two edges: entered from nothing, every kind is past its line; left for nothing, every kind  *)
(* is off or clear of its margin.                                                                  *)
LEMMA EdgesAreSo ==
  ASSUME NEW prev \in SUBSET Kinds, NEW r, NEW t
  PROVE  /\ prev = {} => \A k \in Evaluate(prev, r, t) : On(k, t) /\ Past(k, r, t, 0)
         /\ Evaluate(prev, r, t) = {} => \A k \in prev : ~On(k, t) \/ ~Past(k, r, t, Margin[k])
  BY EvaluateIs DEF Holds

(* Past the line and clear of the margin are a margin apart. *)
LEMMA MarginApart ==
  ASSUME NEW k \in Kinds, NEW r \in Readings, NEW q \in Readings, NEW t \in ThresholdSets,
         Past(k, r, t, 0), ~Past(k, q, t, Margin[k])
  PROVE  Moved(k, r, q) /\ Moved(k, q, r)
  <1>1. /\ r.disk \in Nat /\ r.free \in Nat /\ r.load \in Nat /\ q.disk \in Nat /\ q.free \in Nat /\ q.load \in Nat
        /\ t.disk \in Nat /\ t.free \in Nat /\ t.load \in Nat
    BY Lines
  <1>2. Margin["disk"] = 5 /\ Margin["memory"] = 5 /\ Margin["cpu"] = 25
    BY DEF Margin
  <1>3. CASE k = "disk"
    BY <1>1, <1>2, <1>3 DEF Past, Moved
  <1>4. CASE k = "memory"
    BY <1>1, <1>2, <1>4 DEF Past, Moved
  <1>5. CASE k = "cpu"
    BY <1>1, <1>2, <1>5 DEF Past, Moved
  <1>. QED
    BY <1>3, <1>4, <1>5 DEF Kinds

LEMMA StatsStarts == NodeStatsInit => StatsIInv
  <1> SUFFICES ASSUME NodeStatsInit PROVE StatsIInv
    OBVIOUS
  <1>1. BatchTypes
    BY MaybeHas DEF NodeStatsInit, BatchTypes
  <1>2. SwarmTypes
    BY DEF NodeStatsInit, SwarmTypes, NoTick, NodeStates, Steps
  <1>3. PruneTypes
    BY MaybeHas DEF NodeStatsInit, PruneTypes
  <1>4. StackTypes
    BY DEF NodeStatsInit, StackTypes
  <1>5. Told
    BY DEF NodeStatsInit, Told, Known, ToldIsHeld, SaidIsSo
  <1>6. Pruning /\ SleepAnswers
    BY DEF NodeStatsInit, Pruning, OneByOne, JobOfTurn, SleepAnswers, NoTick, Idle
  <1>. QED
    BY <1>1, <1>2, <1>3, <1>4, <1>5, <1>6 DEF StatsIInv, StatsTypes
--------------------------------------------------------------------------------
(* What is left alone keeps its part of the invariant. *)
LEMMA SaidStaysSo ==
  ASSUME \A n \in StatNodes : said'[n] # <<>> => EdgeIsSo(said'[n][1])
  PROVE  SaidIsSo'
  BY DEF SaidIsSo, EdgeIsSo, On, Past

LEMMA ToldStays ==
  ASSUME Told, UNCHANGED <<entries, pressure, said>>
  PROVE  Told'
  <1>1. Known' /\ ToldIsHeld'
    BY DEF Told, Known, ToldIsHeld
  <1>2. \A n \in StatNodes : said'[n] # <<>> => EdgeIsSo(said'[n][1])
    BY DEF Told, SaidIsSo
  <1>. QED
    BY <1>1, <1>2, SaidStaysSo DEF Told

LEMMA PruningStays ==
  ASSUME Pruning, UNCHANGED <<prune, jobsLeft, died>>
  PROVE  Pruning'
  BY DEF Pruning, OneByOne, JobOfTurn, FirstOf

LEMMA PruneTypesStay ==
  ASSUME PruneTypes, UNCHANGED pruneVars
  PROVE  PruneTypes'
  BY DEF PruneTypes, pruneVars

LEMMA BatchTypesStay ==
  ASSUME BatchTypes, UNCHANGED <<window, entries, pressure, said, limits>>
  PROVE  BatchTypes'
  BY DEF BatchTypes

LEMMA SwarmTypesStay ==
  ASSUME SwarmTypes, UNCHANGED <<listed, onSwarm, tick>>
  PROVE  SwarmTypes'
  BY DEF SwarmTypes

LEMMA StackTypesStay ==
  ASSUME StackTypes, UNCHANGED <<stack, unused, died, statEvents>>
  PROVE  StackTypes'
  BY DEF StackTypes

LEMMA Stores ==
  ASSUME StatsIInv, NEW a \in Dockers, Store(a)
  PROVE  StatsIInv'
  <1> USE DEF StatsIInv, StatsTypes
  <1>1. /\ UNCHANGED <<pressure, said, limits, stack, unused, died, statEvents, prune, emergency, scheduled, jobsLeft>>
        /\ tick' = [tick EXCEPT !.step = "judge"] /\ DockerSaid(a)
        /\ entries' = [n \in StatNodes |-> Record(n)] /\ window' = [n \in StatNodes |-> <<>>]
    BY DEF Store, judgedVars, pruneVars, workVars, boundVars
  <1>2. \A n \in StatNodes : Record(n) \in Maybe(Aged) /\ (entries[n] # <<>> => Record(n) # <<>>)
    <2> SUFFICES ASSUME NEW n \in StatNodes PROVE Record(n) \in Maybe(Aged) /\ (entries[n] # <<>> => Record(n) # <<>>)
      OBVIOUS
    <2>1. CASE window[n] = <<>>
      BY <2>1 DEF Record, BatchTypes
    <2>2. CASE window[n] # <<>>
      <3>1. window[n] \in Maybe(Batches)
        BY DEF BatchTypes
      <3>2. window[n][1] \in Batches
        BY <2>2, <3>1, MaybeAre
      <3>3. [reading |-> window[n][1].reading, ctrs |-> window[n][1].ctrs, age |-> 0] \in Aged
        BY <3>2, Lines DEF Batches, Aged
      <3>. QED
        BY <2>2, <3>3, MaybeHas DEF Record
    <2>. QED
      BY <2>1, <2>2
  <1>3. BatchTypes'
    BY <1>1, <1>2, MaybeHas DEF BatchTypes
  <1>4. listed' \in [StatNodes -> NodeStates] /\ onSwarm' \in BOOLEAN
    <2>1. a = <<>> \/ a = <<"compose">> \/ \E nodes \in [StatNodes -> NodeStates] : a = <<"swarm", nodes>>
      BY NodeStatsAssumption DEF StatNodes, NodeStates
    <2>2. CASE a = <<>>
      BY <1>1, <2>2 DEF DockerSaid, SwarmTypes
    <2>3. CASE a = <<"compose">>
      BY <1>1, <2>3 DEF DockerSaid, NodeStates
    <2>4. CASE \E nodes \in [StatNodes -> NodeStates] : a = <<"swarm", nodes>>
      BY <1>1, <2>4 DEF DockerSaid
    <2>. QED
      BY <2>1, <2>2, <2>3, <2>4
  <1>5. SwarmTypes'
    BY <1>1, <1>4 DEF SwarmTypes, Steps
  <1>6. PruneTypes' /\ StackTypes'
    BY <1>1, PruneTypesStay, StackTypesStay DEF pruneVars
  <1>7. Told'
    <2>1. Known' /\ ToldIsHeld'
      BY <1>1, <1>2 DEF Told, Known, ToldIsHeld
    <2>2. SaidIsSo'
      <3>1. \A n \in StatNodes : said'[n] # <<>> => EdgeIsSo(said'[n][1])
        BY <1>1 DEF Told, SaidIsSo
      <3>. QED
        BY <3>1, SaidStaysSo
    <2>. QED
      BY <2>1, <2>2 DEF Told
  <1>8. Pruning'
    BY <1>1, PruningStays
  <1>9. SleepAnswers'
    BY <1>1 DEF SleepAnswers, SwarmTypes
  <1>. QED
    BY <1>3, <1>5, <1>6, <1>7, <1>8, <1>9

LEMMA Judges ==
  ASSUME StatsIInv, EvaluatePressure
  PROVE  StatsIInv'
  <1> USE DEF StatsIInv, StatsTypes
  <1> DEFINE kinds(n) == KindsOf(n)
             held(n) == IF n \in Listed \/ entries[n] # <<>> THEN KindsOf(n) ELSE {}
  <1>1. /\ UNCHANGED <<window, entries, listed, onSwarm, limits, stack, unused, died, statEvents, prune, emergency, scheduled, jobsLeft>>
        /\ tick.step = "judge" /\ tick' = [tick EXCEPT !.step = "prune"]
        /\ pressure' = [n \in StatNodes |-> held(n)] /\ said' = [n \in StatNodes |-> EdgeOf(n, KindsOf(n))]
    BY DEF EvaluatePressure, dockerVars, pruneVars, workVars, boundVars, AtTick
  <1>2. ASSUME NEW n \in StatNodes
        PROVE  /\ held(n) \in SUBSET Kinds /\ EdgeOf(n, KindsOf(n)) \in Maybe(Edges)
               /\ held(n) # {} => entries[n] # <<>>
               /\ (EdgeOf(n, KindsOf(n)) # <<>> /\ EdgeOf(n, KindsOf(n))[1].event = "node.pressure") <=> held(n) # {}
               /\ EdgeOf(n, KindsOf(n)) # <<>> => EdgeIsSo(EdgeOf(n, KindsOf(n))[1])
    <2>1. CASE n \notin Judged
      <3>1. KindsOf(n) = pressure[n] /\ EdgeOf(n, KindsOf(n)) = said[n]
        BY <2>1 DEF KindsOf, EdgeOf
      <3>2. held(n) = pressure[n]
        BY <3>1 DEF Told, Known
      <3>. QED
        BY <3>1, <3>2 DEF BatchTypes, Told, Known, ToldIsHeld, SaidIsSo
    <2>2. CASE n \in Judged
      <3> DEFINE r == entries[n][1].reading
      <3>1. entries[n] # <<>> /\ entries[n] \in Maybe(Aged)
        BY <2>2 DEF Judged, Fresh, BatchTypes
      <3>2. entries[n][1] \in Aged
        BY <3>1, MaybeAre
      <3>3. r \in Readings
        BY <3>2 DEF Aged
      <3>4. KindsOf(n) = Evaluate(pressure[n], r, limits) /\ held(n) = KindsOf(n)
        BY <2>2, <3>1 DEF KindsOf
      <3>5. pressure[n] \in SUBSET Kinds /\ KindsOf(n) \in SUBSET Kinds /\ limits \in ThresholdSets
        BY <3>4, EvaluateIs DEF BatchTypes
      <3>6. \A event \in {"node.pressure", "node.recovered"}, of \in SUBSET Kinds :
              /\ Edge(event, n, of) \in Edges /\ Edge(event, n, of).event = event /\ Edge(event, n, of).kinds = of
              /\ Edge(event, n, of).reading = r /\ Edge(event, n, of).limits = limits
        BY <3>3, <3>5 DEF Edge, Edges
      <3> HIDE DEF r
      <3>7. CASE pressure[n] = {} /\ KindsOf(n) # {}
        <4>1. EdgeOf(n, KindsOf(n)) = <<Edge("node.pressure", n, KindsOf(n))>>
          BY <2>2, <3>7 DEF EdgeOf
        <4>2. EdgeIsSo(Edge("node.pressure", n, KindsOf(n)))
          BY <3>4, <3>5, <3>6, <3>7, EdgesAreSo DEF EdgeIsSo
        <4>. QED
          BY <3>1, <3>4, <3>5, <3>6, <3>7, <4>1, <4>2, MaybeHas
      <3>8. CASE pressure[n] # {} /\ KindsOf(n) = {}
        <4>1. EdgeOf(n, KindsOf(n)) = <<Edge("node.recovered", n, pressure[n])>>
          BY <2>2, <3>8 DEF EdgeOf
        <4>2. EdgeIsSo(Edge("node.recovered", n, pressure[n]))
          <5>1. \A k \in pressure[n] : ~On(k, limits) \/ ~Past(k, r, limits, Margin[k])
            BY <3>4, <3>5, <3>8, EdgesAreSo
          <5>. QED
            BY <3>5, <3>6, <5>1 DEF EdgeIsSo
        <4>. QED
          BY <3>1, <3>4, <3>5, <3>6, <3>8, <4>1, <4>2, MaybeHas
      <3>9. CASE pressure[n] = {} <=> KindsOf(n) = {}
        <4>1. EdgeOf(n, KindsOf(n)) = said[n]
          BY <2>2, <3>9 DEF EdgeOf
        <4>. QED
          BY <3>1, <3>4, <3>5, <3>9, <4>1 DEF BatchTypes, Told, ToldIsHeld, SaidIsSo
      <3>. QED
        BY <3>7, <3>8, <3>9
    <2>. QED
      BY <2>1, <2>2
  <1> HIDE DEF held
  <1>3. BatchTypes'
    BY <1>1, <1>2 DEF BatchTypes
  <1>4. SwarmTypes'
    BY <1>1 DEF SwarmTypes, Steps
  <1>5. PruneTypes' /\ StackTypes'
    BY <1>1, PruneTypesStay, StackTypesStay DEF pruneVars
  <1>6. Told'
    <2>1. Known' /\ ToldIsHeld'
      BY <1>1, <1>2 DEF Known, ToldIsHeld
    <2>2. SaidIsSo'
      <3>1. \A n \in StatNodes : said'[n] # <<>> => EdgeIsSo(said'[n][1])
        BY <1>1, <1>2
      <3>. QED
        BY <3>1, SaidStaysSo
    <2>. QED
      BY <2>1, <2>2 DEF Told
  <1>7. Pruning'
    BY <1>1, PruningStays
  <1>8. SleepAnswers'
    BY <1>1 DEF SleepAnswers, SwarmTypes
  <1>. QED
    BY <1>3, <1>4, <1>5, <1>6, <1>7, <1>8

LEMMA IdleIs ==
  ASSUME PruneTypes
  PROVE  /\ prune.step = "idle" <=> prune = Idle
         /\ prune.step \in {"begin", "next", "rm"} => prune \in Prunes
         /\ prune.step \in {"idle", "begin", "next", "rm"}
  BY DEF PruneTypes, Idle, Prunes

LEMMA ClaimsPrunes ==
  ASSUME StatsIInv, MaybePrune
  PROVE  StatsIInv'
  <1> USE DEF StatsIInv, StatsTypes
  <1>1. /\ UNCHANGED <<window, entries, pressure, said, listed, onSwarm, limits, stack, unused, died, statEvents, jobsLeft>>
        /\ tick.step = "prune" /\ tick' = [tick EXCEPT !.step = "sleep"]
    BY DEF MaybePrune, judgedVars, dockerVars, workVars, boundVars, AtTick
  <1>2. BatchTypes' /\ StackTypes' /\ Told'
    BY <1>1, BatchTypesStay, StackTypesStay, ToldStays
  <1>3. SwarmTypes' /\ SleepAnswers'
    BY <1>1 DEF SwarmTypes, Steps, SleepAnswers
  <1>4. CASE ~ClaimsPrune
    <2>1. UNCHANGED <<prune, emergency, scheduled>>
      BY <1>4 DEF MaybePrune
    <2>. QED
      BY <1>1, <1>2, <1>3, <2>1, PruneTypesStay, PruningStays DEF pruneVars
  <1>5. CASE ClaimsPrune
    <2> DEFINE since == IF scheduled = <<>> THEN <<0>> ELSE scheduled
               turn == EmergencyKeys = {} /\ limits.after > 0 /\ since[1] >= ScheduledEvery
               urgent == [step |-> "begin", reason |-> "pressure", keys |-> EmergencyKeys, todo |-> {}]
               inTurn == [step |-> "begin", reason |-> "scheduled", keys |-> {}, todo |-> {}]
    <2>1. prune = Idle /\ prune.step = "idle"
      BY <1>5 DEF ClaimsPrune, Running, Idle
    <2>2. /\ emergency' = [n \in StatNodes |-> IF n \in EmergencyKeys THEN <<0>> ELSE emergency[n]]
          /\ scheduled' = IF turn THEN <<0>> ELSE since
          /\ prune' = CASE EmergencyKeys # {} -> urgent [] turn -> inTurn [] OTHER -> Idle
      BY <1>5, <2>1 DEF MaybePrune, ClaimsPrune, Running
    <2>3. urgent \in Prunes /\ inTurn \in Prunes
      BY DEF Prunes, EmergencyKeys
    <2>4. prune' \in {urgent, inTurn, Idle}
      BY <2>2
    <2>5. prune'.step \in {"begin", "idle"}
      BY <2>4 DEF Idle
    <2>6. 0 \in 0 .. EmergencyEvery /\ 0 \in 0 .. ScheduledEvery
      BY Lines
    <2>7. scheduled' \in Maybe(0 .. ScheduledEvery)
      <3> HIDE DEF turn
      <3>. QED
        BY <2>2, <2>6, MaybeHas DEF PruneTypes
    <2>8. emergency' \in [StatNodes -> Maybe(0 .. EmergencyEvery)]
      BY <2>2, <2>6, MaybeHas DEF PruneTypes
    <2> HIDE DEF urgent, inTurn
    <2>9. PruneTypes'
      BY <1>1, <2>3, <2>4, <2>7, <2>8 DEF PruneTypes
    <2>10. Pruning'
      BY <1>1, <2>1, <2>5 DEF Pruning, OneByOne, JobOfTurn
    <2>. QED
      BY <1>2, <1>3, <2>9, <2>10
  <1>. QED
    BY <1>4, <1>5

LEMMA AcuteIs ==
  ASSUME NEW n, Acute(n)
  PROVE  pressure[n] \cap {"memory", "cpu"} # {}
  BY DEF Acute, InPressure

LEMMA Ranks ==
  ASSUME StatsIInv, NEW ok \in BOOLEAN, RankStacks(ok)
  PROVE  StatsIInv'
  <1> USE DEF StatsIInv, StatsTypes
  <1>1. /\ UNCHANGED <<window, entries, pressure, said, listed, onSwarm, limits, stack, unused, died, statEvents, prune, emergency, scheduled, jobsLeft>>
        /\ tick' = IF ok /\ Eligible # {} THEN [tick EXCEPT !.step = "start", !.best = <<BestToSleep>>] ELSE [tick EXCEPT !.step = "idle"]
    BY DEF RankStacks, judgedVars, dockerVars, pruneVars, workVars, boundVars
  <1>2. BatchTypes' /\ StackTypes' /\ Told' /\ PruneTypes' /\ Pruning'
    BY <1>1, BatchTypesStay, StackTypesStay, ToldStays, PruneTypesStay, PruningStays DEF pruneVars
  <1>3. CASE ok /\ Eligible # {}
    <2>1. tick' = [tick EXCEPT !.step = "start", !.best = <<BestToSleep>>]
      BY <1>1, <1>3
    <2>2. \E n \in StatNodes : Acute(n)
      BY <1>3 DEF Eligible, Reasoned
    <2>3. Helps'
      BY <1>1, <2>2, AcuteIs DEF Helps
    <2>. QED
      BY <1>1, <1>2, <2>1, <2>3 DEF SwarmTypes, Steps, SleepAnswers
  <1>4. CASE ~(ok /\ Eligible # {})
    <2>1. tick' = [tick EXCEPT !.step = "idle"]
      BY <1>1, <1>4
    <2>. QED
      BY <1>1, <1>2, <2>1 DEF SwarmTypes, Steps, SleepAnswers
  <1>. QED
    BY <1>3, <1>4

LEMMA Sleeps ==
  ASSUME StatsIInv, PressureSleep
  PROVE  StatsIInv'
  <1> USE DEF StatsIInv, StatsTypes
  <1>1. /\ UNCHANGED <<window, entries, pressure, said, listed, onSwarm, limits, unused, died, statEvents, prune, emergency, scheduled, jobsLeft>>
        /\ tick' = [tick EXCEPT !.step = "idle", !.best = <<>>]
        /\ stack' \in {stack, [stack EXCEPT ![tick.best[1]] = "sleeping"]}
    BY DEF PressureSleep, judgedVars, dockerVars, pruneVars, boundVars
  <1>2. BatchTypes' /\ Told' /\ PruneTypes' /\ Pruning'
    BY <1>1, BatchTypesStay, ToldStays, PruneTypesStay, PruningStays DEF pruneVars
  <1>3. StackTypes'
    BY <1>1 DEF StackTypes
  <1>4. SwarmTypes' /\ SleepAnswers'
    BY <1>1 DEF SwarmTypes, Steps, SleepAnswers
  <1>. QED
    BY <1>2, <1>3, <1>4
--------------------------------------------------------------------------------
(* The prune's goroutine. *)
LEMMA TurnsFit ==
  ASSUME StatsTypes
  PROVE  /\ Scheduled \in SUBSET Turns /\ \A p, q \in Scheduled : p[1] = q[1] => p = q
         /\ \A keys \in SUBSET StatNodes :
              Pinned(keys) \in SUBSET Turns /\ \A p, q \in Pinned(keys) : p[1] = q[1] => p = q
  <1>1. Scheduled \subseteq {<<1, LocalDocker>>, <<2, Others>>}
    BY DEF Scheduled
  <1>2. <<1, LocalDocker>> \in Turns /\ <<2, Others>> \in Turns
    BY DEF Turns
  <1>3. ASSUME NEW keys \in SUBSET StatNodes
        PROVE  Pinned(keys) \in SUBSET Turns /\ \A p, q \in Pinned(keys) : p[1] = q[1] => p = q
    <2>1. \A p \in Pinned(keys) : \E n \in StatNodes : p = <<n, Target(n)>>
      BY DEF Pinned
    <2>2. \A n \in StatNodes : <<n, Target(n)>> \in Turns
      BY Lines DEF Target, Turns
    <2>. QED
      BY <2>1, <2>2
  <1>. QED
    BY <1>1, <1>2, <1>3

LEMMA AfterFits ==
  ASSUME prune \in Prunes, NEW turn \in prune.todo
  PROVE  After(turn) = Idle \/ (/\ After(turn) \in Prunes /\ After(turn).step = "next" /\ After(turn).todo = prune.todo \ {turn})
  BY DEF After, Prunes

LEMMA PrunesOn ==
  ASSUME StatsIInv, PruneStep
  PROVE  StatsIInv'
  <1> USE DEF StatsIInv, StatsTypes
  <1>1. /\ UNCHANGED <<window, entries, pressure, said, listed, onSwarm, limits, tick, stack, unused, died, emergency, scheduled>>
        /\ BeginPrune \/ PruneLocal \/ CreateJob \/ RemoveJob
        /\ statEvents' \in {statEvents, statEvents + 1}
    BY DEF PruneStep, BeginPrune, PruneLocal, CreateJob, RemoveJob, StatEvent, judgedVars, dockerVars, workVars, boundVars
  <1>2. BatchTypes' /\ SwarmTypes' /\ StackTypes' /\ Told'
    <2>1. StackTypes'
      BY <1>1 DEF StackTypes
    <2>. QED
      BY <1>1, <2>1, BatchTypesStay, SwarmTypesStay, ToldStays
  <1>3. SleepAnswers'
    BY <1>1 DEF SleepAnswers, Helps
  <1>4. PruneTypes' /\ Pruning'
    <2>1. prune.step \in {"begin", "next", "rm"} /\ prune \in Prunes
      BY <1>1, IdleIs DEF BeginPrune, PruneLocal, CreateJob, RemoveJob
    <2>2. prune.keys \in SUBSET StatNodes /\ prune.todo \in SUBSET Turns /\ Idle.step = "idle"
      BY <2>1 DEF Prunes, Idle
    <2>3. CASE BeginPrune
      <3> DEFINE todo == IF prune.reason = "scheduled" THEN Scheduled ELSE Pinned(prune.keys)
      <3>1. /\ prune.step = "begin" /\ UNCHANGED jobsLeft
            /\ prune' = IF todo = {} THEN Idle ELSE [prune EXCEPT !.step = "next", !.keys = {}, !.todo = todo]
        BY <2>3 DEF BeginPrune
      <3>2. todo \in SUBSET Turns /\ \A p, q \in todo : p[1] = q[1] => p = q
        BY <2>2, TurnsFit
      <3> HIDE DEF todo
      <3>3. prune' = Idle \/ (prune' \in Prunes /\ prune'.step = "next" /\ prune'.todo = todo)
        BY <2>1, <3>1, <3>2 DEF Prunes
      <3>4. PruneTypes'
        BY <1>1, <3>1, <3>3 DEF PruneTypes
      <3>5. ~died => \A job \in jobsLeft : job[2] = "asked"
        BY <3>1 DEF Pruning, JobOfTurn
      <3>. QED
        BY <1>1, <2>2, <3>1, <3>2, <3>3, <3>4, <3>5 DEF Pruning, OneByOne, JobOfTurn
    <2>4. CASE PruneLocal
      <3>1. PICK turn \in FirstOf(prune.todo) : prune' = After(turn)
        BY <2>4 DEF PruneLocal
      <3>2. turn \in prune.todo /\ prune.step = "next" /\ UNCHANGED jobsLeft
        BY <2>4 DEF FirstOf, PruneLocal
      <3>3. prune' = Idle \/ (prune' \in Prunes /\ prune'.step = "next" /\ prune'.todo = prune.todo \ {turn})
        BY <2>1, <3>1, <3>2, AfterFits
      <3>4. PruneTypes'
        BY <1>1, <3>2, <3>3 DEF PruneTypes
      <3>5. ~died => \A job \in jobsLeft : job[2] = "asked"
        BY <3>2 DEF Pruning, JobOfTurn
      <3>. QED
        BY <1>1, <2>2, <3>2, <3>3, <3>4, <3>5 DEF Pruning, OneByOne, JobOfTurn
    <2>5. CASE CreateJob
      <3>1. PICK turn \in FirstOf(prune.todo), made \in BOOLEAN, ok \in BOOLEAN :
              /\ turn[2] # LocalDocker /\ jobsLeft' = IF made THEN jobsLeft \cup {<<turn[2], "made">>} ELSE jobsLeft
              /\ prune' = AfterCreate(turn, ok)
        BY <2>5 DEF CreateJob
      <3>2. turn \in prune.todo /\ prune.step = "next" /\ turn \in Turns
        BY <2>2, <2>5, <3>1 DEF FirstOf, CreateJob
      <3>3. prune' \in Prunes /\ prune'.step = "rm" /\ prune'.todo = prune.todo
        BY <2>1, <3>1 DEF AfterCreate, Prunes
      <3>4. turn[2] \in StatNodes \cup {Others}
        BY <3>1, <3>2 DEF Turns
      <3>5. PruneTypes'
        BY <1>1, <3>1, <3>3, <3>4 DEF PruneTypes
      <3>6. \A other \in FirstOf(prune.todo) : other = turn
        <4>1. \A p, q \in prune.todo : p[1] = q[1] => p = q
          BY <3>2 DEF Pruning, OneByOne
        <4>2. \A p \in prune.todo : p[1] \in Nat
          BY <2>2 DEF Turns
        <4>. QED
          BY <3>1, <4>1, <4>2 DEF FirstOf
      <3>7. ~died => \A job \in jobsLeft' : job[2] = "asked" \/ job = <<turn[2], "made">>
        BY <3>1, <3>2 DEF Pruning, JobOfTurn
      <3>. QED
        BY <1>1, <3>2, <3>3, <3>5, <3>6, <3>7 DEF Pruning, OneByOne, JobOfTurn
    <2>6. CASE RemoveJob
      <3>1. PICK turn \in FirstOf(prune.todo) :
              prune' = After(turn) /\ jobsLeft' \in {jobsLeft \ {<<turn[2], "made">>}, AskedRemoved(turn[2])}
        BY <2>6 DEF RemoveJob
      <3>2. turn \in prune.todo /\ prune.step = "rm"
        BY <2>6, <3>1 DEF FirstOf, RemoveJob
      <3>3. prune' = Idle \/ (prune' \in Prunes /\ prune'.step = "next" /\ prune'.todo = prune.todo \ {turn})
        BY <2>1, <3>1, <3>2, AfterFits
      <3>4. \A job \in jobsLeft' : job \in jobsLeft \/ \E old \in jobsLeft : old = <<turn[2], "made">> /\ job = <<turn[2], "asked">>
        BY <3>1 DEF AskedRemoved
      <3>5. PruneTypes'
        <4>1. jobsLeft' \subseteq (StatNodes \cup {Others}) \X {"made", "asked"}
          BY <3>4 DEF PruneTypes
        <4>. QED
          BY <1>1, <3>3, <4>1 DEF PruneTypes
      <3>6. <<turn[2], "made">> \notin jobsLeft'
        BY <3>1, <3>4 DEF AskedRemoved
      <3>7. ~died => \A job \in jobsLeft' : job[2] = "asked"
        <4>1. ~died => \A job \in jobsLeft : job[2] = "asked" \/ job = <<turn[2], "made">>
          BY <3>1, <3>2 DEF Pruning, JobOfTurn
        <4>. QED
          BY <3>4, <3>6, <4>1
      <3>. QED
        BY <1>1, <2>2, <3>2, <3>3, <3>5, <3>7 DEF Pruning, OneByOne, JobOfTurn
    <2>. QED
      BY <1>1, <2>3, <2>4, <2>5, <2>6
  <1>. QED
    BY <1>2, <1>3, <1>4
--------------------------------------------------------------------------------
(* Around the tick: jobs and visitors, agents, the clock, settings and a restart. *)
LEMMA Works ==
  ASSUME StatsIInv, StackWork
  PROVE  StatsIInv'
  <1> USE DEF StatsIInv, StatsTypes
  <1>1. UNCHANGED <<window, entries, pressure, said, listed, onSwarm, limits, tick, died, statEvents, prune, emergency, scheduled, jobsLeft>>
    BY DEF StackWork, judgedVars, dockerVars, pruneVars, boundVars
  <1>2. PICK s \in PressureStacks : EndWork(s) \/ Visit(s) \/ \E o \in {"swarm", "compose"} : StartWork(s, o)
    BY DEF StackWork
  <1>3. StackTypes'
    BY <1>1, <1>2 DEF EndWork, Visit, StartWork, StackTypes
  <1>4. BatchTypes' /\ SwarmTypes' /\ PruneTypes' /\ Told' /\ Pruning'
    BY <1>1, BatchTypesStay, SwarmTypesStay, PruneTypesStay, ToldStays, PruningStays DEF pruneVars
  <1>5. SleepAnswers'
    BY <1>1 DEF SleepAnswers, Helps
  <1>. QED
    BY <1>3, <1>4, <1>5

LEMMA AgesFit ==
  ASSUME NEW bound \in Nat, NEW x \in Maybe(0 .. bound)
  PROVE  AgeOf(x, bound) \in Maybe(0 .. bound)
  <1>1. CASE x = <<>>
    BY <1>1, MaybeHas DEF AgeOf
  <1>2. CASE x # <<>>
    <2>1. x[1] \in 0 .. bound
      BY <1>2, MaybeAre
    <2>2. Capped(x[1], bound) \in 0 .. bound
      BY <2>1 DEF Capped
    <2>. QED
      BY <1>2, <2>2, MaybeHas DEF AgeOf
  <1>. QED
    BY <1>1, <1>2

LEMMA Passes ==
  ASSUME StatsIInv, Pass
  PROVE  StatsIInv'
  <1> USE DEF StatsIInv, StatsTypes
  <1> DEFINE older(n) == IF entries[n] = <<>> THEN <<>> ELSE <<[entries[n][1] EXCEPT !.age = Capped(@, Stale + 1)]>>
  <1>1. /\ UNCHANGED <<pressure, said, listed, onSwarm, limits, tick, prune, jobsLeft, stack, died, statEvents>>
        /\ entries' = [n \in StatNodes |-> older(n)] /\ window' = [n \in StatNodes |-> <<>>]
        /\ emergency' = [n \in StatNodes |-> AgeOf(emergency[n], EmergencyEvery)] /\ scheduled' = AgeOf(scheduled, ScheduledEvery)
        /\ unused' = [s \in PressureStacks |-> Capped(unused[s], MaxUnused)]
    BY DEF Pass, judgedVars, dockerVars, boundVars
  <1>2. \A n \in StatNodes : older(n) \in Maybe(Aged) /\ (older(n) = <<>> <=> entries[n] = <<>>)
    <2> SUFFICES ASSUME NEW n \in StatNodes PROVE older(n) \in Maybe(Aged) /\ (older(n) = <<>> <=> entries[n] = <<>>)
      OBVIOUS
    <2>1. CASE entries[n] = <<>>
      BY <2>1, MaybeHas
    <2>2. CASE entries[n] # <<>>
      <3>1. entries[n][1] \in Aged
        BY <2>2, MaybeAre DEF BatchTypes
      <3>2. [entries[n][1] EXCEPT !.age = Capped(@, Stale + 1)] \in Aged
        BY <3>1, Lines DEF Aged, Capped
      <3>. QED
        BY <2>2, <3>2, MaybeHas
    <2>. QED
      BY <2>1, <2>2
  <1> HIDE DEF older
  <1>3. BatchTypes'
    BY <1>1, <1>2, MaybeHas DEF BatchTypes
  <1>4. PruneTypes'
    BY <1>1, AgesFit, Lines DEF PruneTypes
  <1>5. StackTypes'
    BY <1>1, Lines DEF StackTypes, Capped
  <1>6. SwarmTypes' /\ Pruning'
    BY <1>1, SwarmTypesStay, PruningStays
  <1>7. Told'
    <2>1. Known' /\ ToldIsHeld'
      BY <1>1, <1>2 DEF Told, Known, ToldIsHeld
    <2>2. SaidIsSo'
      <3>1. \A n \in StatNodes : said'[n] # <<>> => EdgeIsSo(said'[n][1])
        BY <1>1 DEF Told, SaidIsSo
      <3>. QED
        BY <3>1, SaidStaysSo
    <2>. QED
      BY <2>1, <2>2 DEF Told
  <1>8. SleepAnswers'
    BY <1>1 DEF SleepAnswers, Helps
  <1>. QED
    BY <1>3, <1>4, <1>5, <1>6, <1>7, <1>8

LEMMA Restarts ==
  ASSUME StatsIInv, RestartStats
  PROVE  StatsIInv'
  <1> USE DEF StatsIInv, StatsTypes
  <1>1. BatchTypes'
    BY MaybeHas DEF RestartStats, BatchTypes
  <1>2. SwarmTypes'
    BY DEF RestartStats, SwarmTypes, NoTick, NodeStates, Steps
  <1>3. PruneTypes'
    BY MaybeHas DEF RestartStats, PruneTypes
  <1>4. StackTypes'
    BY DEF RestartStats, StatEvent, StackTypes
  <1>5. Told'
    BY DEF RestartStats, Told, Known, ToldIsHeld, SaidIsSo
  <1>6. Pruning' /\ SleepAnswers'
    BY DEF RestartStats, Pruning, OneByOne, JobOfTurn, SleepAnswers, NoTick, Idle
  <1>. QED
    BY <1>1, <1>2, <1>3, <1>4, <1>5, <1>6

LEMMA Reports ==
  ASSUME StatsIInv, NEW n \in StatNodes, NEW r \in Readings, Report(n, r)
  PROVE  StatsIInv'
  <1> USE DEF StatsIInv, StatsTypes
  <1> DEFINE batch == [reading |-> r, ctrs |-> {s \in PressureStacks : n \in Placed[s] /\ stack[s] # "asleep"}]
  <1>1. /\ UNCHANGED <<entries, pressure, said, listed, onSwarm, limits, tick, prune, emergency, scheduled, jobsLeft, stack, unused, died>>
        /\ statEvents' = statEvents + 1 /\ window' = [window EXCEPT ![n] = <<batch>>]
    BY DEF Report, StatEvent, judgedVars, dockerVars, pruneVars, workVars
  <1>2. batch \in Batches
    BY DEF Batches
  <1> HIDE DEF batch
  <1>3. BatchTypes'
    BY <1>1, <1>2, MaybeHas DEF BatchTypes
  <1>4. StackTypes'
    BY <1>1 DEF StackTypes
  <1>5. SwarmTypes' /\ PruneTypes' /\ Told' /\ Pruning'
    BY <1>1, SwarmTypesStay, PruneTypesStay, ToldStays, PruningStays DEF pruneVars
  <1>6. SleepAnswers'
    BY <1>1 DEF SleepAnswers, Helps
  <1>. QED
    BY <1>3, <1>4, <1>5, <1>6

LEMMA Settles ==
  ASSUME StatsIInv, (\E t \in ThresholdSets : PutSettings(t)) \/ UNCHANGED statVars
  PROVE  StatsIInv'
  <1> USE DEF StatsIInv, StatsTypes
  <1>1. /\ UNCHANGED <<window, entries, pressure, said, listed, onSwarm, tick, prune, emergency, scheduled, jobsLeft, stack, unused, died>>
        /\ statEvents' \in Nat /\ limits' \in ThresholdSets
    BY DEF PutSettings, StatEvent, statVars, judgedVars, dockerVars, pruneVars, workVars, StackTypes, BatchTypes
  <1>2. BatchTypes' /\ StackTypes'
    BY <1>1 DEF BatchTypes, StackTypes
  <1>3. SwarmTypes' /\ PruneTypes' /\ Told' /\ Pruning'
    BY <1>1, SwarmTypesStay, PruneTypesStay, ToldStays, PruningStays DEF pruneVars
  <1>4. SleepAnswers'
    BY <1>1 DEF SleepAnswers, Helps
  <1>. QED
    BY <1>2, <1>3, <1>4

LEMMA StatsSteps == StatsIInv /\ [NodeStatsNext]_statVars => StatsIInv'
  BY Stores, Judges, ClaimsPrunes, Ranks, Sleeps, PrunesOn, Works, Passes, Restarts, Reports, Settles DEF NodeStatsNext, Tick

LEMMA StatsHold == NodeStatsSpec => []StatsIInv
  BY StatsStarts, StatsSteps, PTL DEF NodeStatsSpec
--------------------------------------------------------------------------------
(* The tick, the prune and what they judge keep their types. *)
THEOREM StatsTypeCorrect == NodeStatsSpec => []NodeStatsTypeOK
  <1>1. StatsIInv => NodeStatsTypeOK
    <2> SUFFICES ASSUME StatsIInv PROVE NodeStatsTypeOK
      OBVIOUS
    <2> USE DEF StatsIInv, StatsTypes
    <2>1. \A n \in StatNodes : entries[n] # <<>> => entries[n][1].reading \in Readings /\ entries[n][1].age \in 0 .. (Stale + 1)
      <3>1. \A n \in StatNodes : entries[n] # <<>> => entries[n][1] \in Aged
        BY MaybeAre DEF BatchTypes
      <3>. QED
        BY <3>1 DEF Aged
    <2>2. Running => prune.todo \subseteq Nat \X (StatNodes \cup {Others, LocalDocker})
      BY DEF Running, PruneTypes, Prunes, Turns
    <2>3. \A n \in StatNodes : emergency[n] # <<>> => emergency[n][1] \in 0 .. EmergencyEvery
      BY MaybeAre DEF PruneTypes
    <2>. QED
      BY <2>1, <2>2, <2>3 DEF NodeStatsTypeOK, BatchTypes, SwarmTypes, PruneTypes, StackTypes, Kinds, NodeStates
  <1>. QED
    BY <1>1, StatsHold, PTL

(* The listeners know what a node is in, a value on a line does not flap, guards act on what is      *)
(* fresh, emergencies of a node are spaced, prunes exclude each other and leave no job, and a sleep  *)
(* answers what it can help: for every host, settings and sequence of readings.                      *)
SpacedStep == \A n \in StatNodes : prune'.step = "begin" /\ prune.step # "begin" /\ n \in prune'.keys =>
                emergency[n] = <<>> \/ emergency[n][1] >= EmergencyEvery
OneStep == prune.step # "idle" /\ prune'.step = "begin" => prune = prune'
HelpStep == \A s \in PressureStacks : stack[s] # "sleeping" /\ stack'[s] = "sleeping" =>
              /\ stack[s] # "busy"
              /\ \E n \in StatNodes : pressure[n] \cap {"memory", "cpu"} # {}
FlapStep == \A n \in StatNodes : said[n] # <<>> /\ said'[n] # <<>> /\ said'[n] # said[n] =>
              LET was == said[n][1]  is == said'[n][1] IN
              was.limits = is.limits => \A k \in was.kinds \cap is.kinds : Moved(k, was.reading, is.reading)

LEMMA PruneMoves ==
  ASSUME StatsIInv, [NodeStatsNext]_statVars
  PROVE  SpacedStep /\ OneStep
  <1>1. CASE MaybePrune
    <2>1. CASE ~ClaimsPrune
      BY <1>1, <2>1 DEF MaybePrune, SpacedStep, OneStep
    <2>2. CASE ClaimsPrune
      <3>1. prune = Idle /\ Idle.step = "idle"
        BY <2>2 DEF ClaimsPrune, Running, Idle
      <3>2. prune'.step = "begin" => prune'.keys \subseteq EmergencyKeys
        BY <1>1, <2>2, <3>1 DEF MaybePrune, ClaimsPrune, Running
      <3>3. \A n \in EmergencyKeys : emergency[n] = <<>> \/ emergency[n][1] >= EmergencyEvery
        BY DEF EmergencyKeys, Due
      <3>. QED
        BY <3>1, <3>2, <3>3 DEF SpacedStep, OneStep
    <2>. QED
      BY <2>1, <2>2
  <1>2. CASE PruneStep
    <2>1. prune.step \in {"begin", "next", "rm"} /\ prune \in Prunes /\ Idle.step = "idle"
      BY <1>2, IdleIs DEF PruneStep, BeginPrune, PruneLocal, CreateJob, RemoveJob, StatsIInv, StatsTypes, Idle
    <2>2. prune'.step \in {"idle", "next", "rm"}
      <3>1. CASE BeginPrune
        BY <2>1, <3>1 DEF BeginPrune, Prunes
      <3>2. CASE PruneLocal \/ RemoveJob
        BY <2>1, <3>2, AfterFits DEF PruneLocal, RemoveJob, FirstOf
      <3>3. CASE CreateJob
        BY <2>1, <3>3 DEF CreateJob, AfterCreate, Prunes
      <3>. QED
        BY <1>2, <3>1, <3>2, <3>3 DEF PruneStep
    <2>. QED
      BY <2>2 DEF SpacedStep, OneStep
  <1>3. CASE RestartStats
    BY <1>3 DEF RestartStats, Idle, SpacedStep, OneStep
  <1>4. CASE UNCHANGED prune
    BY <1>4 DEF SpacedStep, OneStep
  <1>. QED
    BY <1>1, <1>2, <1>3, <1>4 DEF NodeStatsNext, Tick, Store, EvaluatePressure, PressureSleep, RankStacks, StackWork, Pass, Report,
       PutSettings, statVars, pruneVars

LEMMA StackSleeps ==
  ASSUME StatsIInv, [NodeStatsNext]_statVars
  PROVE  HelpStep
  <1>1. CASE PressureSleep
    <2>1. Helps /\ (stack' = stack \/ (stack[tick.best[1]] # "busy" /\ stack' = [stack EXCEPT ![tick.best[1]] = "sleeping"]))
      BY <1>1 DEF PressureSleep, AtTick, StatsIInv, SleepAnswers, MayStart
    <2>. QED
      BY <2>1 DEF HelpStep, Helps, StatsIInv, StatsTypes, StackTypes
  <1>2. CASE StackWork
    <2>1. PICK s \in PressureStacks : EndWork(s) \/ Visit(s) \/ \E o \in {"swarm", "compose"} : StartWork(s, o)
      BY <1>2 DEF StackWork
    <2>2. \A t \in PressureStacks : stack'[t] \in {stack[t], "busy", "up", "asleep"}
      BY <2>1 DEF EndWork, Visit, StartWork, StatsIInv, StatsTypes, StackTypes
    <2>. QED
      BY <2>2 DEF HelpStep
  <1>3. CASE RestartStats
    BY <1>3 DEF RestartStats, HelpStep
  <1>4. CASE UNCHANGED stack
    BY <1>4 DEF HelpStep
  <1>. QED
    BY <1>1, <1>2, <1>3, <1>4 DEF NodeStatsNext, Tick, Store, EvaluatePressure, MaybePrune, RankStacks, PruneStep, Pass, Report,
       PutSettings, statVars, workVars

LEMMA SaysAMarginApart ==
  ASSUME StatsIInv, [NodeStatsNext]_statVars
  PROVE  FlapStep
  <1>1. CASE EvaluatePressure
    <2> SUFFICES ASSUME NEW n \in StatNodes, said[n] # <<>>, said'[n] # <<>>, said'[n] # said[n],
                        said[n][1].limits = said'[n][1].limits, NEW k \in said[n][1].kinds \cap said'[n][1].kinds
                 PROVE  Moved(k, said[n][1].reading, said'[n][1].reading)
      BY DEF FlapStep
    <2> DEFINE was == said[n][1]
               is == said'[n][1]
    <2>1. StatsIInv'
      BY StatsSteps
    <2>2. was \in Edges /\ is \in Edges
      BY <2>1, MaybeAre DEF StatsIInv, StatsTypes, BatchTypes
    <2>3. EdgeIsSo(was) /\ EdgeIsSo(is)
      <3>1. EdgeIsSo(was)
        BY DEF StatsIInv, Told, SaidIsSo
      <3>2. SaidIsSo'
        BY <2>1 DEF StatsIInv, Told
      <3>3. EdgeIsSo(is)
        BY <3>2 DEF SaidIsSo, EdgeIsSo, On, Past
      <3>. QED
        BY <3>1, <3>3
    <2>4. was.event # is.event
      <3>1. said'[n] = EdgeOf(n, KindsOf(n))
        BY <1>1 DEF EvaluatePressure
      <3>2. \/ pressure[n] = {} /\ is.event = "node.pressure"
            \/ pressure[n] # {} /\ is.event = "node.recovered"
        BY <3>1 DEF EdgeOf, Edge
      <3>3. was.event = "node.pressure" <=> pressure[n] # {}
        BY DEF StatsIInv, Told, ToldIsHeld
      <3>. QED
        BY <3>2, <3>3
    <2>5. /\ k \in Kinds /\ was.reading \in Readings /\ is.reading \in Readings /\ was.limits \in ThresholdSets
          /\ k \in was.kinds /\ k \in is.kinds /\ was.limits = is.limits
          /\ was.event \in {"node.pressure", "node.recovered"} /\ is.event \in {"node.pressure", "node.recovered"}
      BY <2>2 DEF Edges
    <2> HIDE DEF was, is
    <2>6. CASE was.event = "node.pressure"
      BY <2>3, <2>4, <2>5, <2>6, MarginApart DEF EdgeIsSo, was, is
    <2>7. CASE is.event = "node.pressure"
      BY <2>3, <2>4, <2>5, <2>7, MarginApart DEF EdgeIsSo, was, is
    <2>. QED
      BY <2>4, <2>5, <2>6, <2>7
  <1>2. CASE RestartStats
    BY <1>2 DEF RestartStats, FlapStep
  <1>3. CASE UNCHANGED said
    BY <1>3 DEF FlapStep
  <1>. QED
    BY <1>1, <1>2, <1>3 DEF NodeStatsNext, Tick, Store, MaybePrune, PressureSleep, RankStacks, PruneStep, StackWork, Pass, Report,
       PutSettings, statVars, judgedVars

THEOREM StatsAreSafe == NodeStatsSpec => StatsSafety
  <1>1. StatsIInv => ToldIsHeld /\ QuietNodesRefuseNothing /\ RemovalIsAsked
    <2> SUFFICES ASSUME StatsIInv PROVE ToldIsHeld /\ QuietNodesRefuseNothing /\ RemovalIsAsked
      OBVIOUS
    <2>1. QuietNodesRefuseNothing
      BY DEF QuietNodesRefuseNothing, CapacityRefusal, InPressure, Fresh
    <2>2. RemovalIsAsked
      BY DEF RemovalIsAsked, StatsIInv, Pruning, JobOfTurn
    <2>. QED
      BY <2>1, <2>2 DEF StatsIInv, Told
  <1>2. StatsIInv /\ [NodeStatsNext]_statVars => SpacedStep /\ OneStep /\ HelpStep /\ FlapStep
    BY PruneMoves, StackSleeps, SaysAMarginApart
  <1> HIDE DEF StatsIInv, SpacedStep, OneStep, HelpStep, FlapStep
  <1>3. NodeStatsSpec => [](ToldIsHeld /\ QuietNodesRefuseNothing /\ RemovalIsAsked)
    BY <1>1, StatsHold, PTL
  <1>4. NodeStatsSpec => /\ [][SpacedStep]_statVars /\ [][OneStep]_statVars
                         /\ [][HelpStep]_statVars /\ [][FlapStep]_statVars
    BY <1>2, StatsHold, PTL DEF NodeStatsSpec
  <1>5. NodeStatsSpec => EmergenciesAreSpaced
    BY <1>4 DEF EmergenciesAreSpaced, SpacedStep
  <1>6. NodeStatsSpec => OnePrune
    BY <1>4 DEF OnePrune, OneStep
  <1>7. NodeStatsSpec => SleepHelps
    BY <1>4 DEF SleepHelps, HelpStep
  <1>8. NodeStatsSpec => FlapsTakeAMargin
    BY <1>4 DEF FlapsTakeAMargin, FlapStep
  <1>. QED
    BY <1>3, <1>5, <1>6, <1>7, <1>8 DEF StatsSafety

--------------------------------------------------------------------------------
(* Pages: what a read has in hand, and what is on a page once it is published.                    *)

Lives == {"none", "preparing", "running", "sick", "failed", "complete"}
Tasks == [life : Lives, wanted : BOOLEAN, box : BOOLEAN]

World(o, here, tasks, done, n) ==
    /\ o \in {"compose", "swarm"} /\ here \subseteq Services /\ tasks \in [Units -> Tasks]
    /\ n \in 0 .. MaxChanges /\ done \in [Services -> 0 .. n]
    /\ \A t \in Units : tasks[t].box \/ tasks[t].wanted => tasks[t].life # "none"
\* What was answered was so when it was asked, and completions are only ever added.
Answers(g, done) ==
    /\ g = [challenge |-> g.challenge, owners |-> g.owners, ids |-> g.ids, infos |-> g.infos,
            services |-> g.services, jobs |-> g.jobs, named |-> g.named, details |-> g.details]
    /\ g.ids \subseteq Here /\ g.details \subseteq g.services /\ g.services \subseteq Services
    /\ \A t \in DOMAIN g.infos : t \in Here /\ g.infos[t] \in Lives \ {"none"}
    /\ DOMAIN g.jobs \subseteq Services
    /\ \A s \in DOMAIN g.jobs :
         g.jobs[s].total \in {0, Declared[s].total} /\ g.jobs[s].completed \in Nat /\ g.jobs[s].completed <= done[s]
Places == {"idle", "ps", "inspect", "services", "networks", "details", "tasks"}
Course(where, o, g) ==
    /\ where \in Places /\ (where \in {"services", "networks", "details", "tasks"} => o = "swarm")
    /\ where # "tasks" => g.details = {}

Rows(rows, done) ==
    /\ \A r \in rows : r.state \in States /\ r.service \in Services
    /\ \A r \in rows : r.job => (r.state = "exited" => done[r.service] >= Declared[r.service].total)
                               /\ {x \in rows : x.service = r.service} = {r}
Measured(r) ==
    LET s == IF r.of \in Services THEN r.of ELSE ServiceOf[r.of] IN
    /\ r.reason = "not-on-ingress" => ~OnIngress(s)
    /\ r.target => OnIngress(s) /\ Declared[s].port /\ r.reason = ""
Published(p, done) == p.reachable \in BOOLEAN /\ Rows(p.rows, done) /\ \A r \in p.routes : Measured(r)
PageIInv ==
    /\ World(orch, there, task, completed, changes) /\ Course(at, orch, got) /\ Answers(got, completed)
    /\ Published(page, completed)

LEMMA PageConstants ==
  /\ ServiceOf \in [Units -> Services] /\ Here \subseteq Units /\ Services \cap Units = {}
  /\ MaxChanges \in Nat /\ MaxUnanswered \in Nat
  /\ \A s \in Services : Declared[s].total \in Nat
  BY InspectAssumption

\* What a row says: of a task (or a container), of a finished or unfinished job.
TaskRow(r, t) ==
    /\ r.id = t /\ r.service = ServiceOf[t] /\ r.state \in States /\ ~r.job
    /\ r.ip => OnIngress(ServiceOf[t])
VerdictRow(r, s, read) ==
    /\ r.id = s /\ r.service = s /\ r.state \in States /\ r.job /\ ~r.ip
    /\ r.state = "exited" => read.total > 0 /\ read.completed >= read.total

LEMMA ContainerFields ==
  ASSUME NEW t, NEW life \in Lives \ {"none"}
  PROVE  TaskRow(ToContainer(t, life), t)
  <1> DEFINE ip == OnIngress(ServiceOf[t]) /\ life \in {"running", "sick"}
             r == Row(t, ServiceOf[t], ContainerState(life), ExitOf(life), ip, FALSE, FALSE)
  <1>1. r = ToContainer(t, life)
    BY DEF ToContainer
  <1>2. ContainerState(life) \in States
    BY DEF ContainerState, StateOf, States, Lives
  <1>3. ip => OnIngress(ServiceOf[t])
    OBVIOUS
  <1> HIDE DEF ip
  <1>4. r.id = t /\ r.service = ServiceOf[t] /\ r.state = ContainerState(life) /\ r.ip = ip /\ ~r.job
    BY DEF Row
  <1> HIDE DEF r
  <1>5. TaskRow(r, t)
    BY <1>2, <1>3, <1>4 DEF TaskRow
  <1> QED
    BY <1>1, <1>5

\* A task without a container here.
Afar(t, life) == Row(t, ServiceOf[t], StateOf(life), IF life = "complete" THEN "0" ELSE "none", FALSE, TRUE, FALSE)
LEMMA AfarFields ==
  ASSUME NEW t, NEW life \in Lives \ {"none"}
  PROVE  TaskRow(Afar(t, life), t)
  <1> DEFINE r == Afar(t, life)
  <1>1. r.id = t /\ r.service = ServiceOf[t] /\ r.state = StateOf(life) /\ ~r.ip /\ ~r.job
    BY DEF Afar, Row
  <1>2. StateOf(life) \in States
    BY DEF StateOf, States, Lives
  <1> HIDE DEF r
  <1>3. TaskRow(r, t)
    BY <1>1, <1>2 DEF TaskRow
  <1> QED
    BY <1>3 DEF r

LEMMA JobRows ==
  ASSUME NEW s, NEW read
  PROVE  VerdictRow(JobRow(s, read), s, read)
  <1>1. CASE read.total > 0 /\ read.completed >= read.total
    BY <1>1 DEF JobRow, Row, VerdictRow, States
  <1>2. CASE ~(read.total > 0 /\ read.completed >= read.total)
    BY <1>2 DEF JobRow, Row, VerdictRow, States
  <1> QED
    BY <1>1, <1>2

--------------------------------------------------------------------------------
(* The rows of a swarm page.                                                                      *)

TaskLine(t, infos, tasks) == IF t \in DOMAIN infos THEN ToContainer(t, infos[t]) ELSE Afar(t, tasks[t])
SwarmRows(g, tasks) == WithVerdicts(Local(g.infos, tasks) \cup Remote(g.infos, tasks), g.jobs, g.details)
Legible(g, tasks) ==
    /\ DOMAIN tasks \subseteq Units /\ \A t \in DOMAIN tasks : tasks[t] \in Lives \ {"none"}
    /\ \A t \in DOMAIN g.infos : g.infos[t] \in Lives \ {"none"}
    /\ DOMAIN g.jobs \subseteq Services
WithVerdict(g) == DOMAIN g.jobs \cap g.details

LEMMA TaskLines ==
  ASSUME NEW g, NEW tasks, Legible(g, tasks), NEW t \in DOMAIN tasks
  PROVE  TaskRow(TaskLine(t, g.infos, tasks), t)
  <1>1. CASE t \in DOMAIN g.infos
    <2>1. TaskRow(ToContainer(t, g.infos[t]), t)
      BY <1>1, ContainerFields DEF Legible
    <2> QED
      BY <1>1, <2>1 DEF TaskLine
  <1>2. CASE t \notin DOMAIN g.infos
    <2>1. TaskRow(Afar(t, tasks[t]), t)
      BY AfarFields DEF Legible
    <2> QED
      BY <1>2, <2>1 DEF TaskLine
  <1> QED
    BY <1>1, <1>2

LEMMA BothLines ==
  ASSUME NEW infos, NEW tasks
  PROVE  Local(infos, tasks) \cup Remote(infos, tasks) = {TaskLine(t, infos, tasks) : t \in DOMAIN tasks}
  BY DEF Local, Remote, TaskLine, Afar

\* Rows of tasks and rows of verdicts: each is of one thing, and no service has both.
LEMMA SwarmRowsAre ==
  ASSUME NEW g, NEW tasks, Legible(g, tasks), NEW r \in SwarmRows(g, tasks)
  PROVE  \/ \E t \in DOMAIN tasks : r = TaskLine(t, g.infos, tasks) /\ TaskRow(r, t) /\ ServiceOf[t] \notin WithVerdict(g)
         \/ \E s \in WithVerdict(g) : r = JobRow(s, g.jobs[s]) /\ VerdictRow(r, s, g.jobs[s])
  <1>1. \/ r \in Local(g.infos, tasks) \cup Remote(g.infos, tasks) /\ r.service \notin WithVerdict(g)
        \/ \E s \in WithVerdict(g) : r = JobRow(s, g.jobs[s])
    BY DEF SwarmRows, WithVerdicts, WithVerdict
  <1>2. CASE r \in Local(g.infos, tasks) \cup Remote(g.infos, tasks) /\ r.service \notin WithVerdict(g)
    <2>1. PICK t \in DOMAIN tasks : r = TaskLine(t, g.infos, tasks)
      BY <1>2, BothLines
    <2>2. TaskRow(r, t)
      BY <2>1, TaskLines
    <2>3. r.service = ServiceOf[t]
      BY <2>2 DEF TaskRow
    <2> QED
      BY <1>2, <2>1, <2>2, <2>3
  <1>3. CASE \E s \in WithVerdict(g) : r = JobRow(s, g.jobs[s])
    BY <1>3, JobRows
  <1> QED
    BY <1>1, <1>2, <1>3

\* No row of a swarm page is of what another is of.
LEMMA SwarmRowsOnce ==
  ASSUME NEW g, NEW tasks, Legible(g, tasks), NEW r \in SwarmRows(g, tasks), NEW x \in SwarmRows(g, tasks), x.id = r.id
  PROVE  x = r
  <1> DEFINE OfTask(y) == y.id \in DOMAIN tasks /\ y = TaskLine(y.id, g.infos, tasks)
             OfJob(y) == y.id \in WithVerdict(g) /\ y = JobRow(y.id, g.jobs[y.id])
  <1>1. ASSUME NEW y \in SwarmRows(g, tasks)
        PROVE  OfTask(y) \/ OfJob(y)
    <2>1. CASE \E t \in DOMAIN tasks : y = TaskLine(t, g.infos, tasks) /\ TaskRow(y, t)
      BY <2>1 DEF TaskRow
    <2>2. CASE \E s \in WithVerdict(g) : y = JobRow(s, g.jobs[s]) /\ VerdictRow(y, s, g.jobs[s])
      BY <2>2 DEF VerdictRow
    <2> QED
      BY <2>1, <2>2, SwarmRowsAre
  <1>2. WithVerdict(g) \cap DOMAIN tasks = {}
    BY PageConstants DEF Legible, WithVerdict
  <1>3. CASE OfTask(r)
    <2>1. OfTask(x)
      BY <1>1, <1>2, <1>3
    <2> QED
      BY <1>3, <2>1
  <1>4. CASE OfJob(r)
    <2>1. OfJob(x)
      BY <1>1, <1>2, <1>4
    <2> QED
      BY <1>4, <2>1
  <1> QED
    BY <1>1, <1>3, <1>4

--------------------------------------------------------------------------------
(* What is published of what was answered.                                                        *)

LEMMA RoutesAreMeasured ==
  ASSUME NEW who, NEW s \in Services, NEW ip, NEW whether, ip => OnIngress(s), whether = "no" => ~OnIngress(s),
         s = (IF who \in Services THEN who ELSE ServiceOf[who]), NEW r \in RouteOf(who, s, ip, whether)
  PROVE  Measured(r)
  <1> DEFINE d == Declared[s]
             reason == CASE ip /\ d.port -> "" [] ~d.port -> "no-port" [] whether = "no" -> "not-on-ingress" [] OTHER -> "unknown-node"
  <1>1. r = [router |-> d.router, of |-> who, rule |-> d.rule, port |-> d.port, tls |-> d.tls, resolver |-> d.resolver,
             target |-> ip /\ d.port, reason |-> reason]
    BY DEF RouteOf
  <1>2. /\ reason = "not-on-ingress" => whether = "no"
        /\ ip /\ d.port => reason = ""
    OBVIOUS
  <1> HIDE DEF reason
  <1>3. r.of = who /\ r.reason = reason /\ r.target = (ip /\ d.port)
    BY <1>1
  <1> QED
    BY <1>2, <1>3 DEF Measured

LEMMA ComposeIsTrue ==
  ASSUME NEW g, NEW infos, \A t \in DOMAIN infos : t \in Units /\ infos[t] \in Lives \ {"none"}, NEW done
  PROVE  LET p == ComposePage(g, infos)
         IN  /\ Published(p, done) /\ \A r \in p.rows : r.id \in DOMAIN infos /\ \A x \in p.rows : x.id = r.id => x = r
  <1> DEFINE rows == {ToContainer(t, infos[t]) : t \in DOMAIN infos}
             p == ComposePage(g, infos)
             found == Findings(rows, RoutesOfContainers(rows), {r.service : r \in rows}, TRUE, NoJobs, g.challenge, g.owners)
  <1>1. p = [reachable |-> TRUE, rows |-> rows, routes |-> RoutesOfContainers(rows), findings |-> found]
    BY DEF ComposePage, Reached
  <1> HIDE DEF found
  <1>2. p.reachable = TRUE /\ p.rows = rows /\ p.routes = RoutesOfContainers(rows)
    BY <1>1
  <1> HIDE DEF p
  <1>3. ASSUME NEW r \in rows
        PROVE  r.id \in DOMAIN infos /\ r = ToContainer(r.id, infos[r.id]) /\ TaskRow(r, r.id)
    <2>1. PICK t \in DOMAIN infos : r = ToContainer(t, infos[t])
      BY <1>3
    <2>2. TaskRow(r, t)
      BY <2>1, ContainerFields
    <2>3. r.id = t
      BY <2>2 DEF TaskRow
    <2> QED
      BY <2>1, <2>2, <2>3
  <1> HIDE DEF rows
  <1>4. ASSUME NEW r \in rows
        PROVE  /\ r.id \in Units /\ r.id \notin Services /\ r.service \in Services /\ r.service = ServiceOf[r.id]
               /\ r.state \in States /\ ~r.job /\ (r.ip => OnIngress(r.service))
    <2>1. r.id \in Units /\ TaskRow(r, r.id)
      BY <1>3
    <2> QED
      BY <2>1, PageConstants DEF TaskRow
  <1>5. Rows(rows, done)
    BY <1>4 DEF Rows
  <1>6. ASSUME NEW q \in RoutesOfContainers(rows)
        PROVE  Measured(q)
    <2>1. PICK r \in rows : q \in RouteOf(r.id, r.service, r.ip, Attached(r.service, TRUE))
      BY <1>6 DEF RoutesOfContainers
    <2>2. Attached(r.service, TRUE) = "no" => ~OnIngress(r.service)
      BY DEF Attached
    <2>3. r.service = (IF r.id \in Services THEN r.id ELSE ServiceOf[r.id])
      BY <1>4
    <2> QED
      BY <1>4, <2>1, <2>2, <2>3, RoutesAreMeasured
  <1>7. Published(p, done)
    BY <1>2, <1>5, <1>6 DEF Published
  <1>8. \A r, x \in rows : x.id = r.id => x = r
    BY <1>3
  <1> QED
    BY <1>2, <1>3, <1>7, <1>8 DEF p

LEMMA SwarmIsTrue ==
  ASSUME NEW g, NEW done, Answers(g, done), done \in [Services -> Nat], NEW tasks, Legible(g, tasks)
  PROVE  Published(SwarmPage(g, tasks), done) /\ SwarmPage(g, tasks).rows = SwarmRows(g, tasks)
  <1> DEFINE rows == SwarmRows(g, tasks)
             p == SwarmPage(g, tasks)
             found == Findings(rows, RoutesOfServices(g.details, g.named, rows), g.details, g.named, g.jobs, g.challenge, g.owners)
  <1>1. p = [reachable |-> TRUE, rows |-> rows, routes |-> RoutesOfServices(g.details, g.named, rows), findings |-> found]
    BY DEF SwarmPage, Reached, SwarmRows
  <1> HIDE DEF found
  <1>2. p.reachable = TRUE /\ p.rows = rows /\ p.routes = RoutesOfServices(g.details, g.named, rows)
    BY <1>1
  <1> HIDE DEF p
  <1>3. g.details \subseteq Services /\ WithVerdict(g) \subseteq Services
    BY DEF Answers, WithVerdict
  <1>4. ASSUME NEW r \in rows
        PROVE  /\ r.state \in States /\ r.service \in Services /\ (r.ip => OnIngress(r.service))
               /\ r.job => r.service \in WithVerdict(g) /\ r = JobRow(r.service, g.jobs[r.service])
               /\ ~r.job => r.service \notin WithVerdict(g)
    <2>1. CASE \E t \in DOMAIN tasks : TaskRow(r, t) /\ ServiceOf[t] \notin WithVerdict(g)
      <3>1. PICK t \in DOMAIN tasks : TaskRow(r, t) /\ ServiceOf[t] \notin WithVerdict(g)
        BY <2>1
      <3>2. ServiceOf[t] \in Services
        BY PageConstants DEF Legible
      <3> QED
        BY <3>1, <3>2 DEF TaskRow
    <2>2. CASE \E s \in WithVerdict(g) : r = JobRow(s, g.jobs[s]) /\ VerdictRow(r, s, g.jobs[s])
      BY <1>3, <2>2 DEF VerdictRow
    <2> QED
      BY <2>1, <2>2, SwarmRowsAre
  <1> HIDE DEF rows
  <1>5. ASSUME NEW r \in rows, r.job
        PROVE  /\ r.state = "exited" => done[r.service] >= Declared[r.service].total
               /\ {x \in rows : x.service = r.service} = {r}
    <2>1. r.service \in DOMAIN g.jobs /\ r = JobRow(r.service, g.jobs[r.service])
      BY <1>4, <1>5 DEF WithVerdict
    <2> DEFINE read == g.jobs[r.service]
    <2>2. VerdictRow(r, r.service, read)
      BY <2>1, JobRows
    <2>3. r.state = "exited" => read.total > 0 /\ read.completed >= read.total
      BY <2>2 DEF VerdictRow
    <2>4. read.total \in {0, Declared[r.service].total} /\ read.completed \in Nat /\ read.completed <= done[r.service]
      BY <2>1 DEF Answers
    <2>5. Declared[r.service].total \in Nat /\ done[r.service] \in Nat
      BY <1>4, PageConstants
    <2> HIDE DEF read
    <2>6. r.state = "exited" => done[r.service] >= Declared[r.service].total
      BY <2>3, <2>4, <2>5
    <2>7. \A x \in rows : x.service = r.service => x = r
      BY <1>4, <1>5
    <2> QED
      BY <2>6, <2>7
  <1>6. Rows(rows, done)
    BY <1>4, <1>5 DEF Rows
  <1>7. ASSUME NEW q \in RoutesOfServices(g.details, g.named, rows)
        PROVE  Measured(q)
    <2>1. PICK s \in g.details : q \in RouteOf(s, s, ServiceAddress(s, g.named, rows), Attached(s, g.named))
      BY <1>7 DEF RoutesOfServices
    <2>2. ServiceAddress(s, g.named, rows) => OnIngress(s)
      BY <1>4 DEF ServiceAddress
    <2>3. Attached(s, g.named) = "no" => ~OnIngress(s)
      BY DEF Attached
    <2>4. s \in Services /\ s = (IF s \in Services THEN s ELSE ServiceOf[s])
      BY <1>3
    <2> QED
      BY <2>1, <2>2, <2>3, <2>4, RoutesAreMeasured
  <1>8. Published(p, done)
    BY <1>2, <1>6, <1>7 DEF Published
  <1> QED
    BY <1>2, <1>8 DEF p, rows

LEMMA NothingIsTrue ==
  ASSUME NEW done
  PROVE  /\ Published(Unreached, done) /\ Unreached.rows = {} /\ Unreached.reachable = FALSE
         /\ Answers(Nothing, done)
  BY DEF Unreached, Published, Rows, Nothing, Answers, NoTasks, NoJobs

LEMMA MoreDone ==
  ASSUME NEW g, NEW p, NEW done \in [Services -> Nat], NEW more \in [Services -> Nat],
         \A s \in Services : done[s] <= more[s]
  PROVE  (Answers(g, done) => Answers(g, more)) /\ (Published(p, done) => Published(p, more))
  <1>1. ASSUME Answers(g, done)
        PROVE  Answers(g, more)
    <2>1. ASSUME NEW s \in DOMAIN g.jobs
          PROVE  g.jobs[s].completed \in Nat /\ g.jobs[s].completed <= more[s]
      <3>1. s \in Services /\ g.jobs[s].completed \in Nat /\ g.jobs[s].completed <= done[s]
        BY <1>1 DEF Answers
      <3>2. done[s] \in Nat /\ more[s] \in Nat /\ done[s] <= more[s]
        BY <3>1, PageConstants
      <3> QED
        BY <3>1, <3>2
    <2> QED
      BY <1>1, <2>1 DEF Answers
  <1>2. ASSUME Published(p, done)
        PROVE  Published(p, more)
    <2>1. ASSUME NEW r \in p.rows, r.job, r.state = "exited"
          PROVE  more[r.service] >= Declared[r.service].total
      <3>1. r.service \in Services /\ done[r.service] >= Declared[r.service].total
        BY <1>2, <2>1 DEF Published, Rows
      <3>2. done[r.service] \in Nat /\ more[r.service] \in Nat /\ done[r.service] <= more[r.service] /\ Declared[r.service].total \in Nat
        BY <3>1, PageConstants
      <3> QED
        BY <3>1, <3>2
    <2> QED
      BY <1>2, <2>1 DEF Published, Rows
  <1> QED
    BY <1>1, <1>2

--------------------------------------------------------------------------------
(* The steps.                                                                                     *)

LEMMA PageStarts == PageInit => PageIInv
  <1> SUFFICES ASSUME PageInit
               PROVE  PageIInv
    OBVIOUS
  <1>1. /\ orch \in {"compose", "swarm"} /\ there = Services /\ task \in [Units -> Found]
        /\ completed = [s \in Services |-> 0] /\ changes = 0 /\ at = "idle" /\ got = Nothing /\ page = Unreached
    BY DEF PageInit, InspectInit
  <1>2. World(orch, there, task, completed, changes)
    <2>1. \A x \in Found : x \in Tasks /\ (x.box \/ x.wanted => x.life # "none")
      <3>1. [life |-> "none", wanted |-> FALSE, box |-> FALSE] \in Tasks /\ [life |-> "running", wanted |-> TRUE, box |-> TRUE] \in Tasks
        BY DEF Tasks, Lives
      <3>2. [life |-> "running", wanted |-> TRUE, box |-> TRUE].life # "none"
        OBVIOUS
      <3>3. ~([life |-> "none", wanted |-> FALSE, box |-> FALSE].box \/ [life |-> "none", wanted |-> FALSE, box |-> FALSE].wanted)
        OBVIOUS
      <3> QED
        BY <3>1, <3>2, <3>3, Zenon DEF Found
    <2>2. task \in [Units -> Tasks] /\ \A t \in Units : task[t].box \/ task[t].wanted => task[t].life # "none"
      BY <1>1, <2>1
    <2>3. 0 \in 0 .. MaxChanges /\ [s \in Services |-> 0] \in [Services -> 0 .. 0]
      BY PageConstants
    <2> QED
      BY <1>1, <2>2, <2>3 DEF World
  <1>3. Course("idle", orch, Nothing)
    BY DEF Course, Places, Nothing
  <1> QED
    BY <1>1, <1>2, <1>3, NothingIsTrue DEF PageIInv

\* What docker does leaves what was answered and what was published as it is.
LEMMA DockerKeeps ==
  ASSUME PageIInv, DockerStep
  PROVE  /\ World(orch', there', task', completed', changes') /\ UNCHANGED <<orch, readVars>>
         /\ \A s \in Services : completed[s] <= completed'[s]
  <1>1. /\ orch \in {"compose", "swarm"} /\ there \subseteq Services /\ task \in [Units -> Tasks]
        /\ changes \in 0 .. MaxChanges /\ completed \in [Services -> 0 .. changes]
        /\ \A t \in Units : task[t].box \/ task[t].wanted => task[t].life # "none"
    BY DEF PageIInv, World
  <1>2. /\ changes' = changes + 1 /\ changes < MaxChanges /\ UNCHANGED <<orch, readVars>>
        /\ there' \subseteq Services
        /\ \/ UNCHANGED completed
           \/ \E t \in Units : completed' = [completed EXCEPT ![ServiceOf[t]] = @ + 1]
    BY <1>1 DEF DockerStep, Create, Run, Sicken, TaskFails, Complete, Reap, Life, RemoveService
  <1>3. /\ changes' \in 0 .. MaxChanges /\ completed' \in [Services -> 0 .. changes']
        /\ \A s \in Services : completed[s] <= completed'[s]
    <2>1. CASE UNCHANGED completed
      <3>1. \A s \in Services : completed[s] \in 0 .. changes + 1 /\ completed[s] <= completed[s]
        BY <1>1, PageConstants
      <3> QED
        BY <1>1, <1>2, <2>1, <3>1, PageConstants
    <2>2. CASE \E t \in Units : completed' = [completed EXCEPT ![ServiceOf[t]] = @ + 1]
      <3>1. PICK t \in Units : completed' = [completed EXCEPT ![ServiceOf[t]] = @ + 1]
        BY <2>2
      <3>2. ServiceOf[t] \in Services
        BY PageConstants
      <3>3. \A s \in Services : completed'[s] = IF s = ServiceOf[t] THEN completed[s] + 1 ELSE completed[s]
        BY <1>1, <3>1, <3>2
      <3>4. completed' = [s \in Services |-> completed'[s]]
        BY <1>1, <3>1, <3>2
      <3>5. \A s \in Services : completed[s] \in 0 .. changes
        BY <1>1
      <3>6. \A s \in Services : completed'[s] \in 0 .. changes + 1 /\ completed[s] <= completed'[s]
        BY <1>1, <3>3, <3>5, PageConstants
      <3> QED
        BY <1>1, <1>2, <3>4, <3>6, PageConstants
    <2> QED
      BY <1>2, <2>1, <2>2
  <1>4. task' \in [Units -> Tasks] /\ \A t \in Units : task'[t].box \/ task'[t].wanted => task'[t].life # "none"
    <2>1. CASE \E t \in Units : Create(t) \/ Run(t) \/ Sicken(t) \/ TaskFails(t) \/ Complete(t) \/ Reap(t)
      <3>1. PICK t \in Units : Create(t) \/ Run(t) \/ Sicken(t) \/ TaskFails(t) \/ Complete(t) \/ Reap(t)
        BY <2>1
      <3>2. PICK life \in Lives \ {"none"}, wanted \in BOOLEAN, box \in BOOLEAN :
              task' = [task EXCEPT ![t] = [life |-> life, wanted |-> wanted, box |-> box]]
        <4>1. task[t].life \in Lives
          BY <1>1 DEF Tasks
        <4> QED
          BY <3>1, <4>1 DEF Create, Run, Sicken, TaskFails, Complete, Reap, Life, Lives
      <3>3. [life |-> life, wanted |-> wanted, box |-> box] \in Tasks /\ [life |-> life, wanted |-> wanted, box |-> box].life # "none"
        BY DEF Tasks
      <3> QED
        BY <1>1, <3>2, <3>3
    <2>2. CASE \E s \in Services : RemoveService(s)
      <3>1. PICK s \in Services : RemoveService(s)
        BY <2>2
      <3>2. task' = [t \in Units |-> IF ServiceOf[t] = s /\ task[t].life # "none"
                                     THEN [life |-> "failed", wanted |-> FALSE, box |-> task[t].box /\ orch = "swarm"]
                                     ELSE task[t]]
        BY <3>1 DEF RemoveService
      <3>3. ASSUME NEW t \in Units
            PROVE  [life |-> "failed", wanted |-> FALSE, box |-> task[t].box /\ orch = "swarm"] \in Tasks
        BY DEF Tasks, Lives
      <3> QED
        BY <1>1, <3>2, <3>3
    <2> QED
      BY <2>1, <2>2 DEF DockerStep
  <1> QED
    BY <1>1, <1>2, <1>3, <1>4 DEF World

\* A step of the reader learns something, or publishes nothing, or one of the two pages.
Learns(g, next) == Learn(g, next) /\ Answers(g, completed) /\ Course(next, orch, g)
OfBoxes(p) ==
    /\ orch = "compose"
    /\ \E infos : p = ComposePage(got, infos) /\ \A t \in DOMAIN infos : t \in Boxed /\ infos[t] \in Lives \ {"none"}
OfTasks(p) ==
    /\ orch = "swarm"
    /\ \E g, tasks : /\ p = SwarmPage(g, tasks) /\ Answers(g, completed) /\ DOMAIN tasks \subseteq Wanted
                     /\ \A t \in DOMAIN tasks : tasks[t] \in Lives \ {"none"}
                     /\ there = {} \/ DOMAIN tasks = Wanted
Publishes(p) == Publish(p) /\ (p = Unreached \/ OfBoxes(p) \/ OfTasks(p))
Reads == UNCHANGED worldVars /\ ((\E g, next : next # "idle" /\ Learns(g, next)) \/ (at # "idle" /\ \E p : Publishes(p)))

LEMMA Alive ==
  ASSUME PageIInv
  PROVE  /\ \A t \in Boxed \cup Wanted : t \in Units /\ task[t].life \in Lives \ {"none"}
         /\ Boxed \subseteq Here /\ Wanted \subseteq Units
  <1>1. /\ task \in [Units -> Tasks] /\ \A t \in Units : task[t].box \/ task[t].wanted => task[t].life # "none"
    BY DEF PageIInv, World
  <1>2. \A t \in Units : task[t].life \in Lives
    BY <1>1 DEF Tasks
  <1> QED
    BY <1>1, <1>2, PageConstants DEF Boxed, Wanted

LEMMA AsksRouters ==
  ASSUME PageIInv, NEW challenge, NEW answered \in BOOLEAN, AllTraefikRouters(challenge, answered)
  PROVE  Reads
  <1> DEFINE owners == IF answered THEN [r \in DOMAIN Elsewhere |-> Declarers(r)] ELSE Nothing.owners
  <1>1. Learn([Nothing EXCEPT !.challenge = challenge, !.owners = owners], "ps") /\ UNCHANGED worldVars
    BY DEF AllTraefikRouters, Command
  <1> HIDE DEF owners
  <1> DEFINE n == [Nothing EXCEPT !.challenge = challenge]
             g == [n EXCEPT !.owners = owners]
  <1>2. Answers(Nothing, completed) /\ Nothing.details = {}
    BY NothingIsTrue DEF Nothing
  <1>3. Answers(n, completed) /\ n.details = {}
    BY <1>2 DEF Answers
  <1> HIDE DEF n
  <1>4. Answers(g, completed) /\ g.details = {}
    BY <1>3 DEF Answers
  <1>5. [Nothing EXCEPT !.challenge = challenge, !.owners = owners] = g
    BY DEF n
  <1> HIDE DEF g
  <1>6. Course("ps", orch, g)
    BY <1>4 DEF Course, Places
  <1> QED
    BY <1>1, <1>4, <1>5, <1>6 DEF Reads, Learns

LEMMA AsksContainers ==
  ASSUME PageIInv, NEW answered \in BOOLEAN, ListContainers(answered)
  PROVE  Reads
  <1>1. UNCHANGED worldVars /\ at = "ps" /\ (Learn([got EXCEPT !.ids = Boxed], "inspect") \/ Publish(Unreached))
    BY DEF ListContainers, Command
  <1>2. Answers(got, completed) /\ Course("ps", orch, got)
    BY <1>1 DEF PageIInv
  <1>3. Answers([got EXCEPT !.ids = Boxed], completed) /\ Course("inspect", orch, [got EXCEPT !.ids = Boxed])
    BY <1>2, Alive DEF Answers, Course, Places
  <1> QED
    BY <1>1, <1>3 DEF Reads, Learns, Publishes

LEMMA AsksInfos ==
  ASSUME PageIInv, NEW answered \in BOOLEAN, InspectContainers(answered)
  PROVE  Reads
  <1> DEFINE infos == IF answered /\ got.ids \subseteq Boxed THEN [t \in got.ids |-> task[t].life] ELSE NoTasks
  <1>1. /\ UNCHANGED worldVars /\ at = "inspect"
        /\ IF orch = "compose" THEN Publish(ComposePage(got, infos)) ELSE Learn([got EXCEPT !.infos = infos], "services")
    BY DEF InspectContainers, Command
  <1>2. \A t \in DOMAIN infos : t \in Boxed /\ infos[t] \in Lives \ {"none"}
    BY Alive DEF NoTasks
  <1> HIDE DEF infos
  <1>3. CASE orch = "compose"
    BY <1>1, <1>2, <1>3 DEF Reads, Publishes, OfBoxes
  <1>4. CASE orch # "compose"
    <2>1. Answers(got, completed) /\ Course("inspect", orch, got) /\ orch \in {"compose", "swarm"}
      BY <1>1 DEF PageIInv, World
    <2>2. Answers([got EXCEPT !.infos = infos], completed)
      BY <1>2, <2>1, Alive DEF Answers
    <2>3. Course("services", orch, [got EXCEPT !.infos = infos])
      BY <1>4, <2>1 DEF Course, Places, Answers
    <2> QED
      BY <1>1, <1>4, <2>2, <2>3 DEF Reads, Learns
  <1> QED
    BY <1>3, <1>4

LEMMA AsksServices ==
  ASSUME PageIInv, NEW answered \in BOOLEAN, ListServices(answered)
  PROVE  Reads
  <1> DEFINE jobs == [s \in {x \in there : IsJob(x)} |-> Progress(s)]
             found == [got EXCEPT !.services = there]
             g == [found EXCEPT !.jobs = jobs]
  <1>1. /\ UNCHANGED worldVars /\ at = "services"
        /\ Publish(Unreached) \/ (there = {} /\ Publish(SwarmPage([got EXCEPT !.services = there, !.jobs = jobs], NoTasks)))
           \/ Learn([got EXCEPT !.services = there, !.jobs = jobs], "networks")
    BY DEF ListServices, Command
  <1>2. Answers(got, completed) /\ Course("services", orch, got) /\ there \subseteq Services /\ completed \in [Services -> 0 .. changes] /\ changes \in Nat
    BY <1>1 DEF PageIInv, World
  <1>3. DOMAIN jobs \subseteq Services
    BY <1>2
  <1>4. ASSUME NEW s \in DOMAIN jobs
        PROVE  jobs[s].total \in {0, Declared[s].total} /\ jobs[s].completed \in Nat /\ jobs[s].completed <= completed[s]
    <2>1. s \in Services /\ jobs[s] = [completed |-> completed[s], total |-> IF Declared[s].readable THEN Declared[s].total ELSE 0]
      BY <1>2 DEF Progress
    <2>2. completed[s] \in Nat
      BY <1>2, <2>1
    <2> HIDE DEF jobs
    <2>3. jobs[s].completed = completed[s] /\ jobs[s].total \in {0, Declared[s].total}
      BY <2>1
    <2> QED
      BY <2>2, <2>3
  <1> HIDE DEF jobs
  <1>5. got.details = {}
    BY <1>2 DEF Course
  <1>6. Answers(found, completed) /\ found.details = {}
    BY <1>2, <1>5 DEF Answers
  <1>7. g = [got EXCEPT !.services = there, !.jobs = jobs]
    BY <1>2 DEF Answers
  <1> HIDE DEF found
  <1>8. Answers(g, completed) /\ g.details = {}
    BY <1>3, <1>4, <1>6 DEF Answers
  <1>9. orch = "swarm" /\ Course("networks", orch, g)
    BY <1>2, <1>8 DEF Course, Places
  <1> HIDE DEF g
  <1>10. DOMAIN NoTasks = {}
    BY DEF NoTasks
  <1> QED
    BY <1>1, <1>7, <1>8, <1>9, <1>10 DEF Reads, Learns, Publishes, OfTasks

LEMMA AsksNetworks ==
  ASSUME PageIInv, NEW answered \in BOOLEAN, ListNetworks(answered)
  PROVE  Reads
  <1>1. UNCHANGED worldVars /\ at = "networks" /\ Learn([got EXCEPT !.named = answered], "details")
    BY DEF ListNetworks, Command
  <1>2. Answers(got, completed) /\ Course("networks", orch, got)
    BY <1>1 DEF PageIInv
  <1>3. Answers([got EXCEPT !.named = answered], completed) /\ Course("details", orch, [got EXCEPT !.named = answered])
    BY <1>2 DEF Answers, Course, Places
  <1> QED
    BY <1>1, <1>3 DEF Reads, Learns

LEMMA AsksDetails ==
  ASSUME PageIInv, NEW answered \in BOOLEAN, InspectServices(answered)
  PROVE  Reads
  <1> DEFINE details == IF answered /\ got.services \subseteq there THEN got.services ELSE {}
  <1>1. UNCHANGED worldVars /\ at = "details" /\ Learn([got EXCEPT !.details = details], "tasks")
    BY DEF InspectServices, Command
  <1>2. Answers(got, completed) /\ Course("details", orch, got) /\ details \subseteq got.services
    BY <1>1 DEF PageIInv
  <1> HIDE DEF details
  <1>3. Answers([got EXCEPT !.details = details], completed) /\ Course("tasks", orch, [got EXCEPT !.details = details])
    BY <1>2 DEF Answers, Course, Places
  <1> QED
    BY <1>1, <1>3 DEF Reads, Learns

LEMMA AsksTasks ==
  ASSUME PageIInv, NEW answered \in BOOLEAN, StackTasks(answered)
  PROVE  Reads
  <1> DEFINE tasks == [t \in Wanted |-> task[t].life]
  <1>1. UNCHANGED worldVars /\ at = "tasks" /\ (Publish(SwarmPage(got, tasks)) \/ Publish(Unreached))
    BY DEF StackTasks, Command
  <1>2. Answers(got, completed) /\ Course("tasks", orch, got)
    BY <1>1 DEF PageIInv
  <1>3. DOMAIN tasks = Wanted /\ \A t \in DOMAIN tasks : tasks[t] \in Lives \ {"none"}
    BY Alive
  <1> HIDE DEF tasks
  <1>4. orch = "swarm"
    BY <1>2 DEF Course
  <1> QED
    BY <1>1, <1>2, <1>3, <1>4 DEF Reads, Publishes, OfTasks

LEMMA ReaderReads == PageIInv /\ ReadStep => Reads
  BY AsksRouters, AsksContainers, AsksInfos, AsksServices, AsksNetworks, AsksDetails, AsksTasks DEF ReadStep

\* What is published is true, of what was there.
LEMMA PublishedIsTrue ==
  ASSUME PageIInv, NEW p, p = Unreached \/ OfBoxes(p) \/ OfTasks(p)
  PROVE  /\ Published(p, completed)
         /\ \A r \in p.rows : (~r.job => r.id \in Live) /\ \A x \in p.rows : x.id = r.id => x = r
         /\ orch = "swarm" /\ p.reachable => \A t \in Live : ServiceOf[t] \in there =>
               \E r \in p.rows : r.id = t \/ (r.job /\ r.service = ServiceOf[t])
  <1>1. CASE p = Unreached
    BY <1>1, NothingIsTrue
  <1>2. CASE OfBoxes(p)
    <2>1. PICK infos : p = ComposePage(got, infos) /\ \A t \in DOMAIN infos : t \in Boxed /\ infos[t] \in Lives \ {"none"}
      BY <1>2 DEF OfBoxes
    <2>2. orch = "compose" /\ Live = Boxed
      BY <1>2 DEF OfBoxes, Live
    <2>3. \A t \in DOMAIN infos : t \in Units /\ infos[t] \in Lives \ {"none"}
      BY <2>1, Alive
    <2>4. Published(p, completed) /\ \A r \in p.rows : r.id \in DOMAIN infos /\ \A x \in p.rows : x.id = r.id => x = r
      BY <2>1, <2>3, ComposeIsTrue
    <2> QED
      BY <2>1, <2>2, <2>4
  <1>3. CASE OfTasks(p)
    <2>1. PICK g, tasks : /\ p = SwarmPage(g, tasks) /\ Answers(g, completed) /\ DOMAIN tasks \subseteq Wanted
                          /\ \A t \in DOMAIN tasks : tasks[t] \in Lives \ {"none"}
                          /\ there = {} \/ DOMAIN tasks = Wanted
      BY <1>3 DEF OfTasks
    <2>2. orch = "swarm" /\ Live = Wanted
      BY <1>3 DEF OfTasks, Live
    <2>3. completed \in [Services -> Nat]
      <3>1. completed \in [Services -> 0 .. changes]
        BY DEF PageIInv, World
      <3> QED
        BY <3>1
    <2>4. Legible(g, tasks)
      BY <2>1, Alive DEF Answers, Legible
    <2>5. Published(p, completed) /\ p.rows = SwarmRows(g, tasks)
      BY <2>1, <2>3, <2>4, SwarmIsTrue
    <2>6. ASSUME NEW r \in p.rows, ~r.job
          PROVE  r.id \in Live
      <3>1. ~\E s \in WithVerdict(g) : VerdictRow(r, s, g.jobs[s])
        BY <2>6 DEF VerdictRow
      <3>2. PICK t \in DOMAIN tasks : TaskRow(r, t)
        BY <2>4, <2>5, <3>1, SwarmRowsAre
      <3>3. r.id = t
        BY <3>2 DEF TaskRow
      <3> QED
        BY <2>1, <2>2, <3>3
    <2>7. \A r, x \in p.rows : x.id = r.id => x = r
      BY <2>4, <2>5, SwarmRowsOnce
    <2>8. ASSUME NEW t \in Live, ServiceOf[t] \in there
          PROVE  \E r \in p.rows : r.id = t \/ (r.job /\ r.service = ServiceOf[t])
      <3>1. t \in DOMAIN tasks /\ t \in Units
        BY <2>1, <2>2, <2>8, Alive
      <3>2. CASE ServiceOf[t] \in WithVerdict(g)
        <4> DEFINE r == JobRow(ServiceOf[t], g.jobs[ServiceOf[t]])
        <4>1. r \in p.rows
          BY <2>5, <3>2 DEF SwarmRows, WithVerdicts, WithVerdict
        <4>2. VerdictRow(r, ServiceOf[t], g.jobs[ServiceOf[t]])
          BY JobRows
        <4> HIDE DEF r
        <4>3. r.job /\ r.service = ServiceOf[t]
          BY <4>2 DEF VerdictRow
        <4> QED
          BY <4>1, <4>3
      <3>3. CASE ServiceOf[t] \notin WithVerdict(g)
        <4> DEFINE r == TaskLine(t, g.infos, tasks)
        <4>1. r \in Local(g.infos, tasks) \cup Remote(g.infos, tasks)
          BY <3>1, BothLines
        <4>2. TaskRow(r, t)
          BY <2>4, <3>1, TaskLines
        <4> HIDE DEF r
        <4>3. r.id = t /\ r.service = ServiceOf[t]
          BY <4>2 DEF TaskRow
        <4>4. r \in p.rows
          BY <2>5, <3>3, <4>1, <4>3 DEF SwarmRows, WithVerdicts, WithVerdict
        <4> QED
          BY <4>3, <4>4
      <3> QED
        BY <3>2, <3>3
    <2> QED
      BY <2>5, <2>6, <2>7, <2>8
  <1> QED
    BY <1>1, <1>2, <1>3

LEMMA PageSteps == PageIInv /\ [PageNext]_pageVars => PageIInv'
  <1> SUFFICES ASSUME PageIInv, [PageNext]_pageVars
               PROVE  PageIInv'
    OBVIOUS
  <1>1. CASE UNCHANGED pageVars
    BY <1>1 DEF PageIInv, pageVars, inspectVars, worldVars, readVars
  <1>2. CASE DockerStep
    <2>1. /\ World(orch', there', task', completed', changes') /\ UNCHANGED <<orch, at, got, page>>
          /\ \A s \in Services : completed[s] <= completed'[s]
      BY <1>2, DockerKeeps DEF readVars
    <2>2. completed \in [Services -> Nat] /\ completed' \in [Services -> Nat]
      <3>1. completed \in [Services -> 0 .. changes] /\ completed' \in [Services -> 0 .. changes']
        BY <2>1 DEF PageIInv, World
      <3> QED
        BY <3>1
    <2>3. Answers(got, completed) /\ Published(page, completed) /\ Course(at, orch, got)
      BY DEF PageIInv
    <2>4. Answers(got', completed') /\ Published(page', completed')
      BY <2>1, <2>2, <2>3, MoreDone
    <2> QED
      BY <2>1, <2>3, <2>4 DEF PageIInv
  <1>3. CASE ReadStep
    <2>1. Reads
      BY <1>3, ReaderReads
    <2>2. UNCHANGED <<orch, there, task, completed, changes>> /\ World(orch, there, task, completed, changes)
      BY <2>1 DEF Reads, worldVars, PageIInv
    <2>3. CASE \E g, next : next # "idle" /\ Learns(g, next)
      <3>1. PICK g, next : Learns(g, next)
        BY <2>3
      <3>2. got' = g /\ at' = next /\ page' = Unreached /\ Answers(g, completed) /\ Course(next, orch, g)
        BY <3>1 DEF Learns, Learn
      <3> QED
        BY <2>2, <3>2, NothingIsTrue DEF PageIInv
    <2>4. CASE \E p : Publishes(p)
      <3>1. PICK p : Publishes(p)
        BY <2>4
      <3>2. page' = p /\ at' = "idle" /\ got' = Nothing
        BY <3>1 DEF Publishes, Publish
      <3>3. Published(p, completed)
        BY <3>1, PublishedIsTrue DEF Publishes
      <3>4. Course("idle", orch, Nothing)
        BY DEF Course, Places, Nothing
      <3> QED
        BY <2>2, <3>2, <3>3, <3>4, NothingIsTrue DEF PageIInv
    <2> QED
      BY <2>1, <2>3, <2>4 DEF Reads
  <1> QED
    BY <1>1, <1>2, <1>3 DEF PageNext, InspectNext

LEMMA PageInvariant == PageSpec => []PageIInv
  BY PageStarts, PageSteps, PTL DEF PageSpec

(* The types of a page and of what is read for it, for any services, tasks and placements.        *)
THEOREM PageTypeCorrect == PageSpec => []InspectTypeOK
  <1>1. PageIInv => InspectTypeOK
    <2> SUFFICES ASSUME PageIInv
                 PROVE  InspectTypeOK
      OBVIOUS
    <2>1. /\ orch \in {"compose", "swarm"} /\ there \subseteq Services /\ task \in [Units -> Tasks]
          /\ changes \in 0 .. MaxChanges /\ completed \in [Services -> 0 .. changes]
          /\ \A t \in Units : task[t].box \/ task[t].wanted => task[t].life # "none"
      BY DEF PageIInv, World
    <2>2. completed \in [Services -> 0 .. MaxChanges]
      BY <2>1, PageConstants
    <2>3. \A t \in Units : task[t].wanted \in BOOLEAN /\ (task[t].box => task[t].life # "none")
      BY <2>1 DEF Tasks
    <2>4. at \in Places /\ got.ids \subseteq Here /\ got.details \subseteq got.services /\ got.services \subseteq Services
      BY DEF PageIInv, Course, Answers
    <2>5. page.reachable \in BOOLEAN /\ \A r \in page.rows : r.state \in States /\ r.service \in Services
      BY DEF PageIInv, Published, Rows
    <2> QED
      BY <2>1, <2>2, <2>3, <2>4, <2>5 DEF InspectTypeOK, Places
  <1> QED
    BY <1>1, PageInvariant, PTL

LEMMA ReadIsNoted ==
  ASSUME PageIInv, PageNext, JustRead
  PROVE  /\ everTasks' = everTasks \cup Live' /\ steadyTasks' = steadyTasks \cap Live' /\ steadyServices' = steadyServices \cap there'
         /\ UNCHANGED worldVars /\ Live' = Live /\ \E p : page' = p /\ (p = Unreached \/ OfBoxes(p) \/ OfTasks(p))
  <1>1. at # "idle" /\ at' = "idle"
    BY DEF JustRead
  <1>2. Reads
    BY <1>1, DockerKeeps, ReaderReads DEF PageNext, InspectNext, readVars
  <1>3. PICK p : Publishes(p)
    BY <1>1, <1>2 DEF Reads, Learns, Learn
  <1>4. UNCHANGED worldVars
    BY <1>2 DEF Reads
  <1>5. Live' = Live
    BY <1>4 DEF worldVars, Live, Boxed, Wanted
  <1>6. everTasks' = everTasks \cup Live' /\ steadyTasks' = steadyTasks \cap Live' /\ steadyServices' = steadyServices \cap there'
    BY <1>1 DEF PageNext, Note
  <1> QED
    BY <1>3, <1>4, <1>5, <1>6 DEF Publishes, Publish

(* A page is true of the stack it was read from, whatever changes and goes unanswered meanwhile:  *)
(* no row is of what was not there and each is there once, no task that ran all along is missing, *)
(* a verdict of a one-shot was earned and is alone, "not on the ingress" was looked up.           *)
THEOREM PagesAreTrue == PageSpec => PageSafety
  <1>1. PageIInv /\ [PageNext]_pageVars =>
          [JustRead => \A r \in page'.rows : /\ ~r.job => r.id \in everTasks'
                                             /\ \A x \in page'.rows : x.id = r.id => x = r]_pageVars
    <2> SUFFICES ASSUME PageIInv, PageNext, JustRead
                 PROVE  \A r \in page'.rows : /\ ~r.job => r.id \in everTasks'
                                              /\ \A x \in page'.rows : x.id = r.id => x = r
      OBVIOUS
    <2>1. everTasks' = everTasks \cup Live
      BY ReadIsNoted
    <2>2. PICK p : page' = p /\ (p = Unreached \/ OfBoxes(p) \/ OfTasks(p))
      BY ReadIsNoted
    <2>3. \A r \in p.rows : (~r.job => r.id \in Live) /\ \A x \in p.rows : x.id = r.id => x = r
      BY <2>2, PublishedIsTrue
    <2> QED
      BY <2>1, <2>2, <2>3
  <1>2. PageIInv /\ [PageNext]_pageVars =>
          [JustRead /\ orch = "swarm" /\ page'.reachable =>
            \A t \in steadyTasks' \cap {x \in Units : ServiceOf[x] \in steadyServices'} :
                \E r \in page'.rows : r.id = t \/ (r.job /\ r.service = ServiceOf[t])]_pageVars
    <2> SUFFICES ASSUME PageIInv, PageNext, JustRead, orch = "swarm", page'.reachable,
                        NEW t \in steadyTasks' \cap {x \in Units : ServiceOf[x] \in steadyServices'}
                 PROVE  \E r \in page'.rows : r.id = t \/ (r.job /\ r.service = ServiceOf[t])
      OBVIOUS
    <2>1. t \in Live /\ ServiceOf[t] \in there
      BY ReadIsNoted DEF worldVars
    <2>2. PICK p : page' = p /\ (p = Unreached \/ OfBoxes(p) \/ OfTasks(p))
      BY ReadIsNoted
    <2> QED
      BY <2>1, <2>2, PublishedIsTrue
  <1>3. PageIInv => VerdictIsEarned /\ TargetsAreMeasured
    BY DEF PageIInv, Published, Rows, Measured, VerdictIsEarned, TargetsAreMeasured, SeedDone, RowsOf
  <1>4. PageSpec => RowsAreReal
    BY <1>1, PageInvariant, PTL DEF PageSpec, RowsAreReal
  <1>5. PageSpec => NothingIsLost
    BY <1>2, PageInvariant, PTL DEF PageSpec, NothingIsLost
  <1>6. PageSpec => [](VerdictIsEarned /\ TargetsAreMeasured)
    BY <1>3, PageInvariant, PTL
  <1> QED
    BY <1>4, <1>5, <1>6, PTL DEF PageSafety
================================================================================
