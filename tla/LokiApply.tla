------------------------------- MODULE LokiApply -------------------------------
(***************************************************************************)
(* How a saved logging configuration reaches Loki: api/routes_logging.go   *)
(* accepts a save, api/loki_apply.go applies it in a job (render, verify,  *)
(* commit, swap, restart, ready, finish), undoes it, and resumes it after  *)
(* pstack stopped in the middle; loki/loki.go keeps the row.               *)
(*                                                                         *)
(* A configuration is how long logs are kept, the day its S3 period begins *)
(* (0 for none) and the key of its credentials.                            *)
(***************************************************************************)
EXTENDS Naturals, Sequences, FiniteSets

CONSTANTS
    Days,           \* retention periods an operator may save
    Cutovers,       \* days an S3 period may begin
    Keys,           \* credentials an operator may give
    Savers,         \* PUT requests in progress
    Lead,           \* what a restart and its ready wait may take
    LastDay,        \* bound: where the calendar of a behaviour ends
    MaxSaves,       \* bound: saves accepted
    MaxStops,       \* bound: times pstack stops
    MaxMishaps,     \* bound: steps of an apply that fail, and cancels
    LokiFaults      \* which of "find", "verify", "swap", "restart", "ready", "store" may

ASSUME LokiAssumption ==
    /\ Days \subseteq Nat /\ Days # {} /\ 0 \notin Days
    /\ Cutovers \subseteq Nat \ {0} /\ Keys \subseteq Nat \ {0}
    /\ Lead \in Nat \ {0} /\ {LastDay, MaxSaves, MaxStops, MaxMishaps} \subseteq Nat
    /\ LokiFaults \subseteq {"find", "verify", "swap", "restart", "ready", "store"}

VARIABLES
    lokiRow,        \* the table: what is saved, and what it replaced while an apply is unfinished
    lokiDisk,       \* config.yaml and s3-credentials
    unread,         \* which of the two were written since Loki last started
    today,
    apply,          \* the running job
    queuedApply,    \* the gen of the waiting job, if there is one
    pendingSaves,   \* per section the save no job has taken
    lokiGen,
    saver,          \* what a PUT has read of the row, and the gen of its save once it has one
    pstack,         \* is it up, and how often it stopped
    mishaps,        \* how many steps failed and cancels came so far
    stranded        \* gens whose waiting job was refused, cancelled or overtaken

lokiVars == <<lokiRow, lokiDisk, unread, today, apply, queuedApply, pendingSaves, lokiGen, saver, pstack, mishaps, stranded>>

Defaults == [days |-> 0, cutover |-> 0, key |-> 0]
LokiSettings == [days : Days \cup {0}, cutover : Cutovers \cup {0}, key : Keys \cup {0}]

(* What a configuration writes: the config and the credentials file, absent without S3. *)
Render(set) == [config |-> [days |-> set.days, cutover |-> set.cutover], creds |-> set.key]

(* The period guard: a period about to begin is not dropped, and none is added too late. *)
KeepsPeriods(loaded, next) ==
    loaded.cutover = 0 \/ loaded.cutover > today + Lead \/ next.cutover = loaded.cutover
CheckPeriods(loaded, next, adding) ==
    /\ KeepsPeriods(loaded, next)
    /\ adding /\ next.cutover \notin {0, loaded.cutover} => next.cutover > today + 2 * Lead

(* A save over what is stored: S3 is one-way, and only its key changes. *)
MayMerge(base, storage) ==
    storage # <<>> => IF base.cutover = 0 THEN storage[1].cutover = 0 \/ storage[1].cutover > today + 2 * Lead
                      ELSE storage[1].cutover = base.cutover
LokiMerged(base, chunks, storage) ==
    [days |-> IF chunks = <<>> THEN base.days ELSE chunks[1],
     cutover |-> IF storage = <<>> THEN base.cutover ELSE storage[1].cutover,
     key |-> IF storage = <<>> THEN base.key ELSE storage[1].key]

(* The row: Save keeps what it replaces until Finish or Revert. *)
InFlight(row) == row.before # <<>>
SaveRow_NoTrace(set) == lokiRow' = [set |-> set, before |-> <<>>]
SaveRow(set) == lokiRow' = [set |-> set, before |-> <<apply.row.set>>]
FinishRow == lokiRow' = [lokiRow EXCEPT !.before = <<>>]
RevertRow == lokiRow' = IF InFlight(lokiRow) THEN [set |-> lokiRow.before[1], before |-> <<>>] ELSE lokiRow

NoRow == [set |-> Defaults, before |-> <<>>]
NoApply == [pc |-> "none", g |-> 0, chunks |-> <<>>, storage |-> <<>>, row |-> NoRow, set |-> Defaults,
            way |-> "forward", checked |-> 0, cancelled |-> FALSE]
Unsettled == apply.pc # "none" \/ queuedApply # <<>> \/ pendingSaves.chunks # <<>> \/ pendingSaves.storage # <<>>
Loaded == unread = {}

LokiAt(pc) == pstack.up /\ apply.pc = pc
Goto(pc) == apply' = [apply EXCEPT !.pc = pc]
EndApply == apply' = NoApply
Fails(what) == what \in LokiFaults /\ mishaps < MaxMishaps /\ mishaps' = mishaps + 1
Works == UNCHANGED mishaps
RequestsRest == UNCHANGED <<queuedApply, pendingSaves, lokiGen, saver, stranded>>

LokiInit ==
    /\ lokiRow = NoRow
    /\ lokiDisk = Render(Defaults)
    /\ unread = {}
    /\ today = 0
    /\ apply = NoApply
    /\ queuedApply = <<>>
    /\ pendingSaves = [chunks |-> <<>>, storage |-> <<>>]
    /\ lokiGen = 0
    /\ saver = [r \in Savers |-> <<>>]
    /\ pstack = [up |-> TRUE, stops |-> 0]
    /\ mishaps = 0
    /\ stranded = {}

(***************************************************************************)
(* A PUT reads the row, with a queued storage save over it, and decides;   *)
(* it hands its patch over, and then, with no lock held, starts a job for  *)
(* every patch up to its own.                                              *)
(***************************************************************************)
ReadRow(r) ==
    /\ pstack.up /\ saver[r] = <<>> /\ lokiGen < MaxSaves
    /\ LET storage == IF pendingSaves.storage = <<>> THEN <<>> ELSE <<pendingSaves.storage[1].patch>>
           base == IF MayMerge(lokiRow.set, storage) THEN LokiMerged(lokiRow.set, <<>>, storage) ELSE lokiRow.set
       IN saver' = [saver EXCEPT ![r] = <<[row |-> lokiRow.set, base |-> base, gen |-> 0]>>]
    /\ UNCHANGED <<lokiRow, lokiDisk, unread, today, apply, queuedApply, pendingSaves, lokiGen, pstack, stranded, mishaps>>

LokiPut(section, patch) ==
    /\ lokiGen' = lokiGen + 1
    /\ pendingSaves' = [pendingSaves EXCEPT ![section] = <<[gen |-> lokiGen + 1, patch |-> patch]>>]

LokiSave(r) ==
    /\ pstack.up /\ saver[r] # <<>> /\ saver[r][1].gen = 0
    /\ \/ saver' = [saver EXCEPT ![r] = <<>>] /\ UNCHANGED <<pendingSaves, lokiGen>>      \* refused, or nothing to change
       \/ \E section \in {"chunks", "storage"} :
          \E patch \in IF section = "chunks" THEN Days
                       ELSE [cutover : Cutovers, key : Keys] \cup {[cutover |-> 0, key |-> 0]} :
             LET chunks == IF section = "chunks" THEN <<patch>> ELSE <<>>
                 storage == IF section = "storage" THEN <<patch>> ELSE <<>>
                 set == LokiMerged(saver[r][1].base, chunks, storage)
             IN /\ lokiGen < MaxSaves
                /\ MayMerge(saver[r][1].base, storage)
                /\ Unsettled \/ set # saver[r][1].row
                /\ LokiPut(section, patch)
                /\ saver' = [saver EXCEPT ![r][1].gen = lokiGen + 1]
    /\ UNCHANGED <<lokiRow, lokiDisk, unread, today, apply, queuedApply, pstack, stranded, mishaps>>

(* What the waiting job was to take and one for the gens up to g, in its place, does not. *)
Overtaken(g) == {x \in {pendingSaves[s][1].gen : s \in {t \in {"chunks", "storage"} : pendingSaves[t] # <<>>}} :
                  queuedApply # <<>> /\ g < x /\ x <= queuedApply[1]}

(* The registry keeps one waiting job: the one started last takes its place, be its gen older. *)
StartApply(r) ==
    /\ pstack.up /\ saver[r] # <<>> /\ saver[r][1].gen # 0
    /\ saver' = [saver EXCEPT ![r] = <<>>]
    /\ LET g == saver[r][1].gen
       IN \/ queuedApply' = <<g>> /\ stranded' = stranded \cup Overtaken(g)
          \/ stranded' = stranded \cup {g} /\ UNCHANGED queuedApply    \* a teardown waits
    /\ UNCHANGED <<lokiRow, lokiDisk, unread, today, apply, pendingSaves, lokiGen, pstack, mishaps>>

(* A job that waits is cancelled, or the running one is told to stop. *)
CancelApply ==
    /\ pstack.up /\ mishaps < MaxMishaps /\ mishaps' = mishaps + 1
    /\ \/ /\ queuedApply # <<>> /\ queuedApply' = <<>>
          /\ stranded' = stranded \cup Overtaken(0)
          /\ UNCHANGED apply
       \/ /\ apply.pc \in {"find", "render", "verify"} /\ ~apply.cancelled
          /\ apply' = [apply EXCEPT !.cancelled = TRUE] /\ UNCHANGED <<queuedApply, stranded>>
    /\ UNCHANGED <<lokiRow, lokiDisk, unread, today, pendingSaves, lokiGen, saver, pstack>>

(***************************************************************************)
(* The job.  It takes the saves up to its gen and looks for Loki.          *)
(***************************************************************************)
LokiTaken(section, g) == IF pendingSaves[section] # <<>> /\ pendingSaves[section][1].gen <= g
                     THEN <<pendingSaves[section][1].patch>> ELSE <<>>
Remaining(section, g) == IF LokiTaken(section, g) # <<>> THEN <<>> ELSE pendingSaves[section]

TakeSaves ==
    /\ LokiAt("none") /\ queuedApply # <<>>
    /\ LET g == queuedApply[1]
       IN /\ apply' = [NoApply EXCEPT !.pc = "find", !.g = g, !.chunks = LokiTaken("chunks", g), !.storage = LokiTaken("storage", g)]
          /\ pendingSaves' = [s \in {"chunks", "storage"} |-> Remaining(s, g)]
    /\ queuedApply' = <<>>
    /\ UNCHANGED <<lokiRow, lokiDisk, unread, today, lokiGen, saver, pstack, stranded, mishaps>>

FindLoki ==
    /\ LokiAt("find")
    /\ \/ (IF apply.cancelled THEN EndApply ELSE Goto("render")) /\ Works
       \/ Fails("find") /\ EndApply
    /\ UNCHANGED <<lokiRow, lokiDisk, unread, today, pstack>> /\ RequestsRest

(* The saves over the row as it is now, unless an unfinished apply comes first. *)
RenderSaves ==
    /\ LokiAt("render") /\ ~InFlight(lokiRow)
    /\ LET set == LokiMerged(lokiRow.set, apply.chunks, apply.storage)
           allowed == /\ MayMerge(lokiRow.set, apply.storage)
                      /\ CheckPeriods(lokiDisk.config, Render(set).config, TRUE)
           changes == lokiDisk # Render(set) \/ set # lokiRow.set
       IN IF allowed /\ changes
          THEN apply' = [apply EXCEPT !.pc = "verify", !.row = lokiRow, !.set = set, !.way = "forward", !.checked = today]
          ELSE EndApply
    /\ UNCHANGED <<lokiRow, lokiDisk, unread, today, pstack, mishaps>> /\ RequestsRest

(* Forward to the row, or back when the row's period came too close before Loki ever read it. *)
LokiAlive == IF Loaded THEN lokiDisk.config ELSE Render(lokiRow.before[1]).config
Resume ==
    /\ LokiAt("render") /\ InFlight(lokiRow)
    /\ LET next == Render(lokiRow.set)
           resumed == [apply EXCEPT !.row = [set |-> lokiRow.before[1], before |-> <<>>], !.set = lokiRow.set,
                                    !.way = "resume", !.checked = today]
       IN IF CheckPeriods(LokiAlive, next.config, TRUE)
          THEN apply' = [resumed EXCEPT !.pc = IF lokiDisk # next THEN "verify" ELSE IF Loaded THEN "ready" ELSE "restart"]
          ELSE IF Loaded \/ ~CheckPeriods(LokiAlive, next.config, FALSE) THEN EndApply
          ELSE apply' = [resumed EXCEPT !.pc = "swap", !.way = "putback", !.set = lokiRow.before[1]]
    /\ UNCHANGED <<lokiRow, lokiDisk, unread, today, pstack, mishaps>> /\ RequestsRest

Verify ==
    /\ LokiAt("verify")
    /\ \/ /\ ~apply.cancelled /\ Works
          /\ Goto(IF apply.way = "forward" THEN "commit" ELSE "swap")
       \/ ((apply.cancelled /\ Works) \/ Fails("verify")) /\ EndApply
    /\ UNCHANGED <<lokiRow, lokiDisk, unread, today, pstack>> /\ RequestsRest

Commit ==
    /\ LokiAt("commit")
    /\ \/ SaveRow(apply.set) /\ Goto("swap") /\ Works
       \/ Fails("store") /\ EndApply /\ UNCHANGED lokiRow
    /\ UNCHANGED <<lokiDisk, unread, today, pstack>> /\ RequestsRest

(* A failed step of a forward pass is undone; a failed undo leaves the row as it is. *)
StepFails == IF apply.way \in {"forward", "resume"} THEN Goto("rollback") ELSE EndApply

(* Credentials first, or they go first when the configuration has none; then the config. *)
SwapCreds ==
    /\ LokiAt("swap")
    /\ \/ /\ lokiDisk' = [lokiDisk EXCEPT !.creds = apply.set.key]
          /\ unread' = IF apply.set.key = 0 THEN unread \ {"creds"} ELSE unread \cup {"creds"}
          /\ Goto("swapped") /\ Works
       \/ Fails("swap") /\ StepFails /\ UNCHANGED <<lokiDisk, unread>>
    /\ UNCHANGED <<lokiRow, today, pstack>> /\ RequestsRest
SwapConfig ==
    /\ LokiAt("swapped")
    /\ \/ /\ lokiDisk' = [lokiDisk EXCEPT !.config = Render(apply.set).config]
          /\ unread' = unread \cup {"config"}
          /\ Goto(IF apply.way \in {"forward", "resume"} THEN "restart" ELSE "revert") /\ Works
       \/ Fails("swap") /\ StepFails /\ UNCHANGED <<lokiDisk, unread>>
    /\ UNCHANGED <<lokiRow, today, pstack>> /\ RequestsRest

RestartLoki ==
    /\ LokiAt("restart")
    /\ \/ /\ unread' = {}
          /\ Goto("ready") /\ Works
       \/ /\ Fails("restart") /\ StepFails
          /\ UNCHANGED unread
    /\ UNCHANGED <<lokiRow, lokiDisk, today, pstack>> /\ RequestsRest

LokiReady ==
    /\ LokiAt("ready")
    /\ \/ (IF apply.way = "rollback" THEN EndApply ELSE Goto("finish")) /\ Works
       \/ Fails("ready") /\ StepFails
    /\ UNCHANGED <<lokiRow, lokiDisk, unread, today, pstack>> /\ RequestsRest

(* A resumed apply is finished and the job's own saves follow. *)
FinishApply ==
    /\ LokiAt("finish")
    /\ \/ FinishRow /\ (IF apply.way = "resume" THEN Goto("render") ELSE EndApply) /\ Works
       \/ Fails("store") /\ EndApply /\ UNCHANGED lokiRow
    /\ UNCHANGED <<lokiDisk, unread, today, pstack>> /\ RequestsRest

(* The replaced configuration goes back, unless that drops a period about to begin. *)
Rollback ==
    /\ LokiAt("rollback")
    /\ IF CheckPeriods(lokiDisk.config, Render(apply.row.set).config, FALSE)
       THEN /\ apply' = [apply EXCEPT !.pc = "swap", !.way = "rollback", !.set = apply.row.set, !.checked = today]
            /\ Works /\ UNCHANGED lokiRow
       ELSE /\ (FinishRow /\ Works) \/ (Fails("store") /\ UNCHANGED lokiRow)
            /\ EndApply
    /\ UNCHANGED <<lokiDisk, unread, today, pstack>> /\ RequestsRest
Revert ==
    /\ LokiAt("revert")
    /\ \/ RevertRow /\ (IF apply.way = "rollback" THEN Goto("restart") ELSE EndApply) /\ Works
       \/ Fails("store") /\ EndApply /\ UNCHANGED lokiRow
    /\ UNCHANGED <<lokiDisk, unread, today, pstack>> /\ RequestsRest

(***************************************************************************)
(* pstack stops between any two steps, and starts again with what the row  *)
(* and the files say; Loki may be restarted while no apply runs; time      *)
(* passes, no further than the lead between the guard and the restart.     *)
(***************************************************************************)
Stop ==
    /\ pstack.up /\ pstack.stops < MaxStops
    /\ pstack' = [up |-> FALSE, stops |-> pstack.stops + 1]
    /\ apply' = NoApply /\ queuedApply' = <<>> /\ stranded' = {}
    /\ pendingSaves' = [chunks |-> <<>>, storage |-> <<>>]
    /\ saver' = [r \in Savers |-> <<>>]
    /\ UNCHANGED <<lokiRow, lokiDisk, unread, today, lokiGen, mishaps>>
Unfinished == InFlight(lokiRow) \/ lokiDisk # Render(lokiRow.set)
ReconcileLoki ==
    /\ ~pstack.up
    /\ pstack' = [pstack EXCEPT !.up = TRUE]
    /\ queuedApply' = IF Unfinished THEN <<0>> ELSE <<>>
    /\ UNCHANGED <<lokiRow, lokiDisk, unread, today, apply, pendingSaves, lokiGen, saver, stranded, mishaps>>
LokiRestarts ==
    /\ apply.pc = "none" /\ unread # {}
    /\ unread' = {}
    /\ UNCHANGED <<lokiRow, lokiDisk, today, apply, pstack, mishaps>> /\ RequestsRest
Guarded == {"verify", "commit", "swap", "swapped", "restart", "revert"}
DayPasses ==
    /\ today < LastDay /\ (apply.pc \in Guarded => today < apply.checked + Lead)
    /\ today' = today + 1
    /\ UNCHANGED <<lokiRow, lokiDisk, unread, apply, pstack, mishaps>> /\ RequestsRest

ApplyStep == \/ TakeSaves \/ FindLoki \/ RenderSaves \/ Resume \/ Verify \/ Commit \/ SwapCreds \/ SwapConfig
             \/ RestartLoki \/ LokiReady \/ FinishApply \/ Rollback \/ Revert
LokiNext ==
    \/ \E r \in Savers : ReadRow(r) \/ LokiSave(r) \/ StartApply(r)
    \/ CancelApply
    \/ ApplyStep
    \/ Stop \/ ReconcileLoki \/ LokiRestarts \/ DayPasses

LokiSpec == LokiInit /\ [][LokiNext]_lokiVars /\ WF_lokiVars(ApplyStep) /\ WF_lokiVars(ReconcileLoki)
--------------------------------------------------------------------------------
(* What an apply promises, whatever stops it (LokiApply). *)

(* Every variable keeps its type. *)
LokiTypeOK ==
    /\ lokiRow.set \in LokiSettings /\ lokiRow.before \in {<<>>} \cup {<<s>> : s \in LokiSettings}
    /\ lokiDisk.config \in [days : Days \cup {0}, cutover : Cutovers \cup {0}] /\ lokiDisk.creds \in Keys \cup {0}
    /\ unread \subseteq {"config", "creds"}
    /\ today \in 0..LastDay
    /\ apply.set \in LokiSettings /\ apply.row.set \in LokiSettings /\ apply.g \in 0..MaxSaves
    /\ queuedApply \in {<<>>} \cup {<<g>> : g \in 0..MaxSaves}
    /\ stranded \subseteq 1..MaxSaves

(* What cut an apply off or failed in it so far. *)
Interruptions == mishaps + pstack.stops

(* A pstack that dies in the middle leaves its own record: whenever the files are not what the row *)
(* says, the row says an apply is unfinished (loki.go:375-376, loki_apply.go:507-509). Three        *)
(* interruptions can leave the credentials aside: an undo cut off half way, and a resume of it      *)
(* whose swap fails when it is too late to undo.                                                    *)
UnfinishedIsRecorded ==
    ~InFlight(lokiRow) =>
        /\ lokiDisk.config = Render(lokiRow.set).config
        /\ lokiDisk.creds = lokiRow.set.key \/ Interruptions >= 3

(* The save that waits for a job has one, or its request is about to start one: a superseded save *)
(* is carried by the job that took its place (loki_apply.go:48-49). One whose job was refused,     *)
(* cancelled, or overtaken by the job of an older save that was started later waits for the next.  *)
SavesAreCarried ==
    \A s \in {"chunks", "storage"} : pendingSaves[s] # <<>> =>
        \/ pendingSaves[s][1].gen \in stranded
        \/ queuedApply # <<>> /\ queuedApply[1] >= pendingSaves[s][1].gen
        \/ \E r \in Savers : saver[r] # <<>> /\ saver[r][1].gen = pendingSaves[s][1].gen

(* "every loaded period starting at or before now+lead stays" (periods.go:59-62), and "the one way *)
(* back is when rule 2 refuses and Loki never loaded the files" (loki_apply.go:509): no period that *)
(* has begun, and that Loki has read, is ever dropped from config.yaml.                             *)
Drops == /\ Loaded /\ lokiDisk.config.cutover # 0 /\ lokiDisk.config.cutover <= today
         /\ lokiDisk'.config.cutover # lokiDisk.config.cutover
LivePeriodsStay == [][~Drops]_lokiVars

(* Not by a save, an undo or a resume, however long pstack was down; and to put files back that     *)
(* Loki did read takes three interruptions.                                                         *)
OnlyLatePutBacksDrop == [][Drops => apply.way = "putback" /\ Interruptions >= 3]_lokiVars

(* A config that names S3 lands only where its credentials are (loki_apply.go:176-177), in a pass *)
(* that fails half way and in the pass that undoes it.                                            *)
LandsWithCredentials ==
    [][lokiDisk'.config # lokiDisk.config /\ lokiDisk'.config.cutover # 0 => lokiDisk'.creds # 0]_lokiVars

(* Rule 2 refuses a resume and Loki never read the new files: they are put back, so that saving *)
(* again helps (docs/control-plane.md:1132-1134). No job that found Loki leaves the apply as    *)
(* unfinished as it was, when nothing it called failed and nobody cancelled it.                 *)
SaveAgainHelps ==
    [][LokiAt("render") /\ InFlight(lokiRow) /\ KeepsPeriods(LokiAlive, Render(lokiRow.set).config) /\ ~apply.cancelled
          => apply'.pc # "none" \/ apply' = apply]_lokiVars

(* After a stop an unfinished apply is finished or undone, unless a step of it fails, somebody *)
(* cancels it, or its period has come too close (loki_apply.go:507-509).                       *)
UnfinishedIsFinished ==
    []<>(\/ ~InFlight(lokiRow) \/ mishaps > 0
         \/ lokiRow.set.cutover # 0 /\ lokiRow.set.cutover <= today + 2 * Lead)

(* What an apply keeps to whatever stops it or undoes it (loki_apply.go, periods.go). *)
LokiSafety ==
    /\ [](UnfinishedIsRecorded /\ SavesAreCarried)
    /\ OnlyLatePutBacksDrop /\ LandsWithCredentials
================================================================================
