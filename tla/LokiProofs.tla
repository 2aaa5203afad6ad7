------------------------------ MODULE LokiProofs ------------------------------
(***************************************************************************)
(* LokiApply keeps its promises for all days, cutovers, keys and requests, *)
(* and for every number of stops and mishaps.                              *)
(*                                                                         *)
(* The inductive invariant says what a pass has done so far (PassSoFar):   *)
(* which of two settings the files and the row have at each pc, and that   *)
(* the guard it passed still holds; what the row and the files may look    *)
(* like between passes (Between); and how many interruptions it took to    *)
(* get two states that one crash alone cannot leave: the files of a new    *)
(* period with the credentials of the old (HalfBack), and credentials that *)
(* were written after Loki read that period (Touched).                     *)
(***************************************************************************)
EXTENDS LokiApply, TLAPS

Options(S) == {<<>>} \cup {<<x>> : x \in S}
Storages == [cutover : Cutovers, key : Keys] \cup {[cutover |-> 0, key |-> 0]}
Configs == [days : Days \cup {0}, cutover : Cutovers \cup {0}]
LokiRows == [set : LokiSettings, before : Options(LokiSettings)]
Passes == {"forward", "resume", "rollback", "putback"}
Places == {"none", "find", "render", "verify", "commit", "swap", "swapped", "restart", "ready", "finish", "rollback", "revert"}
Applies == [pc : Places, g : 0 .. MaxSaves, chunks : Options(Days), storage : Options(Storages), row : LokiRows,
            set : LokiSettings, way : Passes, checked : 0 .. LastDay, cancelled : BOOLEAN]
Waiting == [chunks : Options([gen : 1 .. MaxSaves, patch : Days]), storage : Options([gen : 1 .. MaxSaves, patch : Storages])]

LokiTypes ==
    /\ lokiRow \in LokiRows
    /\ lokiDisk \in [config : Configs, creds : Keys \cup {0}]
    /\ unread \subseteq {"config", "creds"}
    /\ today \in 0 .. LastDay
    /\ apply \in Applies
    /\ queuedApply \in Options(0 .. MaxSaves)
    /\ pendingSaves \in Waiting
    /\ lokiGen \in 0 .. MaxSaves
    /\ saver \in [Savers -> Options([row : LokiSettings, base : LokiSettings, gen : 0 .. MaxSaves])]
    /\ pstack \in [up : BOOLEAN, stops : 0 .. MaxStops]
    /\ mishaps \in 0 .. MaxMishaps
    /\ stranded \subseteq 1 .. MaxSaves

(* Credentials come with S3 and only with it; a period once saved is kept by the next save. *)
Matched(set) == set.cutover = 0 <=> set.key = 0
Follows(old, new) == old.cutover # 0 => new.cutover = old.cutover
AllMatched ==
    /\ Matched(lokiRow.set) /\ Matched(apply.set) /\ Matched(apply.row.set)
    /\ InFlight(lokiRow) => Matched(lokiRow.before[1]) /\ Follows(lokiRow.before[1], lokiRow.set)
    /\ \A r \in Savers : saver[r] # <<>> => Matched(saver[r][1].base)

Stopped == ~pstack.up => apply = NoApply /\ queuedApply = <<>> /\ pendingSaves = [chunks |-> <<>>, storage |-> <<>>]

(* An unfinished row's files are those of one of its settings, and it was interrupted or is under way. *)
Between ==
    InFlight(lokiRow) =>
        /\ lokiDisk.config \in {Render(lokiRow.set).config, Render(lokiRow.before[1]).config}
        /\ Interruptions >= 1 \/ (apply.way = "forward" /\ apply.pc \in {"swap", "swapped", "restart", "ready", "finish"})

(* The period that the unfinished apply adds is in config.yaml. *)
NewPeriod == InFlight(lokiRow) /\ lokiDisk.config.cutover # lokiRow.before[1].cutover
Undoing == apply.way \in {"rollback", "putback"}
HalfBack ==
    NewPeriod /\ lokiDisk.creds # lokiRow.set.key =>
        /\ Interruptions >= 2 \/ (Interruptions >= 1 /\ Undoing /\ apply.pc = "swapped")
        /\ apply.pc = "rollback" => Interruptions >= 3
Touched ==
    NewPeriod /\ unread = {"creds"} =>
        Interruptions >= 3 \/ (Interruptions >= 2 /\ apply.way = "resume" /\ apply.pc = "swapped")

(* Under way between the two settings: forward to the row, or back to what it replaced. *)
Forth == InFlight(lokiRow) /\ lokiRow.before = <<apply.row.set>> /\ apply.set = lokiRow.set
Back == InFlight(lokiRow) /\ lokiRow.before = <<apply.row.set>> /\ apply.set = apply.row.set
Held ==
    /\ today <= apply.checked + Lead
    /\ \/ lokiDisk.config.cutover \in {0, apply.set.cutover} \/ lokiDisk.config.cutover > apply.checked + Lead
       \/ apply.way = "putback" /\ ("config" \in unread \/ Interruptions >= 3)
PassSoFar ==
    /\ apply.pc \in {"verify", "commit"} /\ apply.way = "forward" =>
         /\ ~InFlight(lokiRow) /\ apply.row.set = lokiRow.set /\ Follows(apply.row.set, apply.set) /\ Held
    /\ apply.pc = "verify" => apply.way \in {"forward", "resume"}
    /\ apply.pc = "commit" => apply.way = "forward"
    /\ apply.pc = "verify" /\ apply.way = "resume" => Forth /\ Held
    /\ apply.pc \in {"verify", "swap"} /\ apply.way = "resume" => lokiDisk # Render(lokiRow.set)
    /\ apply.pc \in {"swap", "swapped"} => Held /\ IF Undoing THEN Back ELSE Forth
    /\ apply.pc \in {"swap", "swapped"} /\ apply.way = "forward" => ~NewPeriod
    /\ apply.pc = "swapped" => lokiDisk.creds = apply.set.key
    /\ apply.pc \in {"restart", "ready", "finish"} /\ ~Undoing => Forth /\ lokiDisk = Render(lokiRow.set)
    /\ apply.pc \in {"restart", "ready"} /\ Undoing => ~InFlight(lokiRow) /\ apply.way = "rollback"
    /\ apply.pc \in {"finish", "rollback"} => ~Undoing
    /\ apply.pc = "rollback" => Forth
    /\ apply.pc = "revert" => Undoing /\ Back /\ lokiDisk = Render(apply.set)
    /\ apply.pc = "rollback" \/ (apply.pc \in {"swap", "swapped", "revert"} /\ Undoing) => Interruptions >= 1

(* The row, the files and the pass over them; and the saves that wait. *)
Files == AllMatched /\ UnfinishedIsRecorded /\ Between /\ HalfBack /\ Touched /\ PassSoFar
Numbered == \A s \in {"chunks", "storage"} : pendingSaves[s] # <<>> => pendingSaves[s][1].gen <= lokiGen
Requests == Stopped /\ Numbered /\ SavesAreCarried
LokiIInv == LokiTypes /\ Requests /\ Files
-----------------------------------------------------------------------------
(***************************************************************************)
(* Lemmas about the operators.                                             *)
(***************************************************************************)
LEMMA Bounds ==
  /\ Lead \in Nat /\ Lead > 0 /\ LastDay \in Nat /\ MaxSaves \in Nat /\ MaxStops \in Nat /\ MaxMishaps \in Nat
  /\ Days \subseteq Nat /\ Cutovers \subseteq Nat /\ Keys \subseteq Nat
  /\ 0 \notin Days /\ 0 \notin Cutovers /\ 0 \notin Keys
  BY LokiAssumption

LEMMA OptionsHave ==
  ASSUME NEW S, NEW x \in S
  PROVE  <<>> \in Options(S) /\ <<x>> \in Options(S)
  BY DEF Options

LEMMA OptionsAre ==
  ASSUME NEW S, NEW x \in Options(S), x # <<>>
  PROVE  x[1] \in S /\ x = <<x[1]>>
  BY DEF Options

LEMMA DefaultsAreSettings == Defaults \in LokiSettings /\ Matched(Defaults) /\ NoRow \in LokiRows /\ NoRow.set = Defaults
  BY DEF Defaults, LokiSettings, Matched, NoRow, LokiRows, Options

LEMMA NoApplyFits ==
  /\ NoApply \in Applies
  /\ NoApply.pc = "none" /\ NoApply.set = Defaults /\ NoApply.row = NoRow /\ NoApply.way = "forward"
  BY Bounds, DefaultsAreSettings DEF NoApply, Applies, Places, Passes, Options

(* Files are what a setting renders when both of them are. *)
LEMMA DiskIs ==
  ASSUME NEW disk \in [config : Configs, creds : Keys \cup {0}], NEW s \in LokiSettings
  PROVE  /\ disk = Render(s) <=> disk.config = Render(s).config /\ disk.creds = s.key
         /\ Render(s).config \in Configs /\ Render(s).config.cutover = s.cutover
         /\ disk.config = Render(s).config => disk.config.cutover = s.cutover
  BY DEF Render, Configs, LokiSettings

(* A step of the job keeps its task; a pass that ends forgets it. *)
LEMMA Moves ==
  ASSUME LokiTypes, NEW p \in Places, Goto(p)
  PROVE  /\ apply' \in Applies /\ apply'.pc = p /\ apply'.way = apply.way
         /\ apply'.set = apply.set /\ apply'.row = apply.row /\ apply'.checked = apply.checked
  BY DEF LokiTypes, Goto, Applies

LEMMA Ends ==
  ASSUME EndApply
  PROVE  /\ apply' \in Applies /\ apply'.pc = "none" /\ apply'.way = "forward"
         /\ apply'.set = Defaults /\ apply'.row.set = Defaults
  BY NoApplyFits, DefaultsAreSettings DEF EndApply

(* A setting's numbers. *)
LEMMA Numbers ==
  ASSUME NEW s \in LokiSettings
  PROVE  s.cutover \in Nat /\ s.key \in Nat
  <1>1. s.cutover \in Cutovers \cup {0} /\ s.key \in Keys \cup {0}
    BY DEF LokiSettings
  <1>2. \A x \in Cutovers \cup Keys \cup {0} : x \in Nat
    BY Bounds
  <1>. QED
    BY <1>1, <1>2

(* The parts of the state the properties read. *)
LEMMA Parts ==
  ASSUME LokiTypes
  PROVE  /\ lokiRow.set \in LokiSettings
         /\ InFlight(lokiRow) => lokiRow.before[1] \in LokiSettings /\ lokiRow.before = <<lokiRow.before[1]>>
         /\ apply.set \in LokiSettings /\ apply.row \in LokiRows /\ apply.row.set \in LokiSettings
         /\ apply.pc \in Places /\ apply.way \in Passes
         /\ lokiDisk.config \in Configs /\ lokiDisk.creds \in Keys \cup {0} /\ lokiDisk.config.cutover \in Nat
         /\ today \in Nat /\ apply.checked \in Nat
         /\ mishaps \in Nat /\ pstack.stops \in Nat /\ Interruptions \in Nat
  <1>1. lokiRow.before \in Options(LokiSettings)
    BY DEF LokiTypes, LokiRows
  <1>2. lokiDisk.config.cutover \in Cutovers \cup {0}
    BY DEF LokiTypes, Configs
  <1>3. lokiDisk.config.cutover \in Nat
    BY <1>2, Bounds
  <1>. QED
    BY <1>1, <1>3, OptionsAre, Bounds DEF LokiTypes, LokiRows, Applies, InFlight, Interruptions

-----------------------------------------------------------------------------
(***************************************************************************)
(* Types.                                                                  *)
(***************************************************************************)
LEMMA MergedFits ==
  ASSUME NEW base \in LokiSettings, NEW chunks \in Options(Days), NEW storage \in Options(Storages)
  PROVE  LokiMerged(base, chunks, storage) \in LokiSettings
  <1>1. chunks # <<>> => chunks[1] \in Days
    BY OptionsAre
  <1>2. storage # <<>> => storage[1] \in Storages
    BY OptionsAre
  <1>3. storage # <<>> => storage[1].cutover \in Cutovers \cup {0} /\ storage[1].key \in Keys \cup {0}
    BY <1>2 DEF Storages
  <1>. QED
    BY <1>1, <1>3 DEF LokiMerged, LokiSettings

LEMMA WaitingFits ==
  ASSUME LokiTypes
  PROVE  /\ pendingSaves.chunks \in Options([gen : 1 .. MaxSaves, patch : Days])
         /\ pendingSaves.storage \in Options([gen : 1 .. MaxSaves, patch : Storages])
         /\ pendingSaves = [chunks |-> pendingSaves.chunks, storage |-> pendingSaves.storage]
  BY DEF LokiTypes, Waiting

(* A pass begins, forward or back. *)
LEMMA PassFits ==
  ASSUME LokiTypes, NEW p \in Places, NEW w \in Passes, NEW row \in LokiRows, NEW s \in LokiSettings
  PROVE  /\ [apply EXCEPT !.pc = p, !.row = row, !.set = s, !.way = w, !.checked = today] \in Applies
         /\ [apply EXCEPT !.row = row, !.set = s, !.way = w, !.checked = today, !.pc = p] \in Applies
         /\ [apply EXCEPT !.pc = p, !.way = w, !.set = s, !.checked = today] \in Applies
  BY DEF LokiTypes, Applies

(* A save that waits has a gen, and a PUT has read settings and may have a gen. *)
LEMMA GensFit ==
  ASSUME LokiTypes, NEW s \in {"chunks", "storage"}, pendingSaves[s] # <<>>
  PROVE  pendingSaves[s][1].gen \in 1 .. MaxSaves
  <1>1. CASE s = "chunks"
    <2>1. pendingSaves[s][1] \in [gen : 1 .. MaxSaves, patch : Days]
      BY <1>1, WaitingFits, OptionsAre
    <2>. QED
      BY <2>1
  <1>2. CASE s = "storage"
    <2>1. pendingSaves[s][1] \in [gen : 1 .. MaxSaves, patch : Storages]
      BY <1>2, WaitingFits, OptionsAre
    <2>. QED
      BY <2>1
  <1>. QED
    BY <1>1, <1>2

LEMMA SaverReads ==
  ASSUME LokiTypes, NEW r \in Savers, saver[r] # <<>>
  PROVE  \E read \in [row : LokiSettings, base : LokiSettings, gen : 0 .. MaxSaves] :
           saver[r] = <<read>> /\ saver[r][1] = read /\ saver[r][1].gen \in 0 .. MaxSaves
  <1>1. saver[r] \in Options([row : LokiSettings, base : LokiSettings, gen : 0 .. MaxSaves])
    BY DEF LokiTypes
  <1>2. PICK read \in [row : LokiSettings, base : LokiSettings, gen : 0 .. MaxSaves] : saver[r] = <<read>>
    BY <1>1 DEF Options
  <1>. QED
    BY <1>2

LEMMA SaverSteps ==
  ASSUME LokiTypes, NEW r \in Savers, saver[r] # <<>>, NEW g \in 0 .. MaxSaves, saver' = [saver EXCEPT ![r][1].gen = g]
  PROVE  /\ saver' \in [Savers -> Options([row : LokiSettings, base : LokiSettings, gen : 0 .. MaxSaves])]
         /\ saver'[r] # <<>> /\ saver'[r][1].gen = g /\ saver'[r][1].base = saver[r][1].base
         /\ \A q \in Savers \ {r} : saver'[q] = saver[q]
  <1>1. PICK read \in [row : LokiSettings, base : LokiSettings, gen : 0 .. MaxSaves] : saver[r] = <<read>>
    BY SaverReads
  <1>2. saver \in [Savers -> Options([row : LokiSettings, base : LokiSettings, gen : 0 .. MaxSaves])]
    BY DEF LokiTypes
  <1>3. saver'[r] = <<[read EXCEPT !.gen = g]>> /\ \A q \in Savers \ {r} : saver'[q] = saver[q]
    BY <1>1, <1>2
  <1>4. [read EXCEPT !.gen = g] \in [row : LokiSettings, base : LokiSettings, gen : 0 .. MaxSaves]
    OBVIOUS
  <1>5. saver'[r] \in Options([row : LokiSettings, base : LokiSettings, gen : 0 .. MaxSaves])
    BY <1>3, <1>4 DEF Options
  <1>6. saver' = [q \in Savers |-> saver'[q]]
    BY <1>2
  <1>7. saver' \in [Savers -> Options([row : LokiSettings, base : LokiSettings, gen : 0 .. MaxSaves])]
    BY <1>2, <1>3, <1>5, <1>6
  <1>8. saver'[r] # <<>> /\ saver'[r][1].gen = g /\ saver'[r][1].base = saver[r][1].base
    BY <1>1, <1>3
  <1>. QED
    BY <1>3, <1>7, <1>8

LEMMA TypesKept ==
  ASSUME LokiTypes, LokiNext
  PROVE  LokiTypes'
  <1> USE Bounds
  <1>1. ASSUME NEW r \in Savers, ReadRow(r) PROVE LokiTypes'
    <2> DEFINE storage == IF pendingSaves.storage = <<>> THEN <<>> ELSE <<pendingSaves.storage[1].patch>>
               base == IF MayMerge(lokiRow.set, storage) THEN LokiMerged(lokiRow.set, <<>>, storage) ELSE lokiRow.set
    <2>1. storage \in Options(Storages) /\ <<>> \in Options(Days)
      BY WaitingFits, OptionsAre, OptionsHave DEF Options
    <2>2. base \in LokiSettings /\ lokiRow.set \in LokiSettings
      BY <2>1, MergedFits, Parts
    <2>3. saver' = [saver EXCEPT ![r] = <<[row |-> lokiRow.set, base |-> base, gen |-> 0]>>]
      BY <1>1 DEF ReadRow
    <2> HIDE DEF base
    <2>6. [row |-> lokiRow.set, base |-> base, gen |-> 0] \in [row : LokiSettings, base : LokiSettings, gen : 0 .. MaxSaves]
      BY <2>2
    <2>4. <<[row |-> lokiRow.set, base |-> base, gen |-> 0]>> \in Options([row : LokiSettings, base : LokiSettings, gen : 0 .. MaxSaves])
      BY <2>6, OptionsHave
    <2>5. saver' \in [Savers -> Options([row : LokiSettings, base : LokiSettings, gen : 0 .. MaxSaves])]
      BY <2>3, <2>4 DEF LokiTypes
    <2>. QED
      BY <1>1, <2>5 DEF ReadRow, LokiTypes
  <1>2. ASSUME NEW r \in Savers, LokiSave(r) PROVE LokiTypes'
    <2>1. CASE saver' = [saver EXCEPT ![r] = <<>>] /\ UNCHANGED <<pendingSaves, lokiGen>>
      <3>1. saver' \in [Savers -> Options([row : LokiSettings, base : LokiSettings, gen : 0 .. MaxSaves])]
        BY <2>1 DEF LokiTypes, Options
      <3>. QED
        BY <1>2, <2>1, <3>1 DEF LokiSave, LokiTypes
    <2>2. CASE ~(saver' = [saver EXCEPT ![r] = <<>>] /\ UNCHANGED <<pendingSaves, lokiGen>>)
      <3>1. PICK section \in {"chunks", "storage"} :
              \E patch \in IF section = "chunks" THEN Days
                           ELSE [cutover : Cutovers, key : Keys] \cup {[cutover |-> 0, key |-> 0]} :
                /\ lokiGen < MaxSaves
                /\ LokiPut(section, patch)
                /\ saver' = [saver EXCEPT ![r][1].gen = lokiGen + 1]
        BY <1>2, <2>2 DEF LokiSave
      <3>2. PICK patch \in IF section = "chunks" THEN Days ELSE Storages :
                /\ lokiGen < MaxSaves
                /\ LokiPut(section, patch)
        BY <3>1 DEF Storages
      <3>3. lokiGen' \in 1 .. MaxSaves /\ lokiGen' = lokiGen + 1 /\ lokiGen \in Nat /\ lokiGen' \in 0 .. MaxSaves
        BY <3>2 DEF LokiPut, LokiTypes
      <3>4. [gen |-> lokiGen + 1, patch |-> patch]
              \in [gen : 1 .. MaxSaves, patch : IF section = "chunks" THEN Days ELSE Storages]
        BY <3>2, <3>3
      <3>5. pendingSaves' \in Waiting
        BY <3>1, <3>2, <3>4, WaitingFits DEF LokiPut, LokiTypes, Waiting, Options
      <3>6. saver' \in [Savers -> Options([row : LokiSettings, base : LokiSettings, gen : 0 .. MaxSaves])]
        BY <1>2, <3>1, <3>3, SaverSteps DEF LokiSave
      <3>. QED
        BY <1>2, <3>3, <3>5, <3>6 DEF LokiSave, LokiTypes
    <2>. QED
      BY <2>1, <2>2
  <1>29. ASSUME NEW r \in Savers, StartApply(r) PROVE LokiTypes'
    <2>1. saver[r][1].gen \in 1 .. MaxSaves
      BY <1>29, SaverReads DEF StartApply
    <2>2. Overtaken(saver[r][1].gen) \subseteq 1 .. MaxSaves
      BY GensFit DEF Overtaken
    <2>5. <<saver[r][1].gen>> \in Options(0 .. MaxSaves)
      BY <2>1, OptionsHave
    <2>3. queuedApply' \in Options(0 .. MaxSaves) /\ stranded' \subseteq 1 .. MaxSaves
      BY <1>29, <2>1, <2>2, <2>5 DEF StartApply, LokiTypes
    <2>4. saver' \in [Savers -> Options([row : LokiSettings, base : LokiSettings, gen : 0 .. MaxSaves])]
      BY <1>29 DEF StartApply, LokiTypes, Options
    <2>. QED
      BY <1>29, <2>3, <2>4 DEF StartApply, LokiTypes
  <1>3. CASE CancelApply
    <2>1. apply' \in Applies
      <3>1. apply' = apply \/ apply' = [apply EXCEPT !.cancelled = TRUE]
        BY <1>3 DEF CancelApply
      <3>. QED
        BY <3>1 DEF LokiTypes, Applies
    <2>2. Overtaken(0) \subseteq 1 .. MaxSaves
      BY GensFit DEF Overtaken
    <2>3. queuedApply' \in Options(0 .. MaxSaves) /\ stranded' \subseteq 1 .. MaxSaves
      BY <1>3, <2>2 DEF CancelApply, LokiTypes, Options
    <2>4. mishaps' \in 0 .. MaxMishaps
      BY <1>3 DEF CancelApply, LokiTypes
    <2>. QED
      BY <1>3, <2>1, <2>3, <2>4 DEF CancelApply, LokiTypes
  <1>4. CASE TakeSaves
    <2>1. queuedApply[1] \in 0 .. MaxSaves
      BY <1>4, OptionsAre DEF TakeSaves, LokiTypes
    <2>2. LokiTaken("chunks", queuedApply[1]) \in Options(Days) /\ LokiTaken("storage", queuedApply[1]) \in Options(Storages)
      BY WaitingFits, OptionsAre DEF LokiTaken, Options
    <2>3. apply' \in Applies
      BY <1>4, <2>1, <2>2, NoApplyFits DEF TakeSaves, Applies, Places
    <2>4. pendingSaves' = [s \in {"chunks", "storage"} |-> Remaining(s, queuedApply[1])]
      BY <1>4 DEF TakeSaves
    <2>5. pendingSaves' \in Waiting
      BY <2>4, WaitingFits DEF Remaining, Waiting, Options
    <2>6. queuedApply' \in Options(0 .. MaxSaves)
      BY <1>4 DEF TakeSaves, Options
    <2>. QED
      BY <1>4, <2>3, <2>5, <2>6 DEF TakeSaves, LokiTypes
  <1>5. ASSUME apply' \in Applies, lokiRow' \in LokiRows, lokiDisk' \in [config : Configs, creds : Keys \cup {0}],
               unread' \subseteq {"config", "creds"}, UNCHANGED <<today, pstack>>, RequestsRest,
               mishaps' \in 0 .. MaxMishaps
        PROVE  LokiTypes'
    BY <1>5 DEF LokiTypes, RequestsRest
  <1>6. ASSUME NEW what, Fails(what) PROVE mishaps' \in 0 .. MaxMishaps
    BY <1>6 DEF Fails, LokiTypes
  <1>7. Works => mishaps' \in 0 .. MaxMishaps
    BY DEF Works, LokiTypes
  <1>8. ASSUME NEW p \in {"render", "verify", "commit", "swap", "swapped", "restart", "ready", "finish", "rollback", "revert"},
               Goto(p) \/ EndApply \/ StepFails
        PROVE  apply' \in Applies
    <2>1. p \in Places /\ "rollback" \in Places
      BY DEF Places
    <2>. QED
      BY <1>8, <2>1, Moves, Ends DEF StepFails
  <1>9. UNCHANGED lokiRow => lokiRow' \in LokiRows
    BY DEF LokiTypes
  <1>10. UNCHANGED lokiDisk => lokiDisk' \in [config : Configs, creds : Keys \cup {0}]
    BY DEF LokiTypes
  <1>11. UNCHANGED unread => unread' \subseteq {"config", "creds"}
    BY DEF LokiTypes
  <1>12. FinishRow \/ RevertRow => lokiRow' \in LokiRows
    <2>1. FinishRow => lokiRow' \in LokiRows
      BY DEF FinishRow, LokiTypes, LokiRows, Options
    <2>2. RevertRow => lokiRow' \in LokiRows
      BY Parts DEF RevertRow, LokiTypes, LokiRows, Options
    <2>. QED
      BY <2>1, <2>2
  <1>13. CASE FindLoki
    BY <1>13, <1>5, <1>6, <1>7, <1>8, <1>9, <1>10, <1>11 DEF FindLoki
  <1>14. CASE RenderSaves
    <2>1. apply.chunks \in Options(Days) /\ apply.storage \in Options(Storages)
      BY DEF LokiTypes, Applies
    <2> DEFINE set == LokiMerged(lokiRow.set, apply.chunks, apply.storage)
    <2>2. set \in LokiSettings
      BY <2>1, MergedFits, Parts
    <2>3. \/ EndApply
          \/ apply' = [apply EXCEPT !.pc = "verify", !.row = lokiRow, !.set = set, !.way = "forward", !.checked = today]
      BY <1>14 DEF RenderSaves
    <2> HIDE DEF set
    <2>4. apply' \in Applies
      <3>1. "verify" \in Places /\ "forward" \in Passes /\ lokiRow \in LokiRows
        BY DEF Places, Passes, LokiTypes
      <3>2. [apply EXCEPT !.pc = "verify", !.row = lokiRow, !.set = set, !.way = "forward", !.checked = today] \in Applies
        BY <2>2, <3>1, PassFits
      <3>. QED
        BY <2>3, <3>2, Ends
    <2>. QED
      BY <1>14, <2>4 DEF RenderSaves, LokiTypes, RequestsRest
  <1>15. CASE Resume
    <2>1. lokiRow.before[1] \in LokiSettings /\ lokiRow.set \in LokiSettings
      BY <1>15, Parts DEF Resume
    <2>2. [set |-> lokiRow.before[1], before |-> <<>>] \in LokiRows
      BY <2>1 DEF LokiRows, Options
    <2>3. \/ EndApply
          \/ \E p \in {"verify", "ready", "restart"} :
               apply' = [apply EXCEPT !.row = [set |-> lokiRow.before[1], before |-> <<>>], !.set = lokiRow.set,
                                      !.way = "resume", !.checked = today, !.pc = p]
          \/ apply' = [apply EXCEPT !.row = [set |-> lokiRow.before[1], before |-> <<>>], !.set = lokiRow.before[1],
                                    !.way = "putback", !.checked = today, !.pc = "swap"]
      BY <1>15 DEF Resume, LokiTypes, Applies
    <2>4. apply' \in Applies
      <3>1. "resume" \in Passes /\ "putback" \in Passes /\ {"verify", "ready", "restart", "swap"} \subseteq Places
        BY DEF Passes, Places
      <3>. QED
        <4>1. \A p \in {"verify", "ready", "restart"} :
                [apply EXCEPT !.row = [set |-> lokiRow.before[1], before |-> <<>>], !.set = lokiRow.set,
                              !.way = "resume", !.checked = today, !.pc = p] \in Applies
          BY <2>1, <2>2, <3>1, PassFits
        <4>2. [apply EXCEPT !.row = [set |-> lokiRow.before[1], before |-> <<>>], !.set = lokiRow.before[1],
                            !.way = "putback", !.checked = today, !.pc = "swap"] \in Applies
          BY <2>1, <2>2, <3>1, PassFits
        <4>. QED
          BY <2>3, <4>1, <4>2, Ends
    <2>. QED
      BY <1>15, <2>4 DEF Resume, LokiTypes, RequestsRest
  <1>16. CASE Verify
    BY <1>16, <1>5, <1>6, <1>7, <1>8, <1>9, <1>10, <1>11 DEF Verify
  <1>17. CASE Commit
    <2>1. SaveRow(apply.set) => lokiRow' \in LokiRows
      BY Parts DEF SaveRow, LokiRows, Options
    <2>. QED
      BY <1>17, <2>1, <1>5, <1>6, <1>7, <1>8, <1>9, <1>10, <1>11 DEF Commit
  <1>18. CASE SwapCreds
    <2>1. lokiDisk' \in [config : Configs, creds : Keys \cup {0}] /\ unread' \subseteq {"config", "creds"}
      BY <1>18, Parts DEF SwapCreds, LokiTypes, LokiSettings
    <2>. QED
      BY <1>18, <2>1, <1>5, <1>6, <1>7, <1>8, <1>9 DEF SwapCreds
  <1>19. CASE SwapConfig
    <2>1. Render(apply.set).config \in Configs
      BY Parts, DiskIs DEF LokiTypes
    <2>2. lokiDisk' \in [config : Configs, creds : Keys \cup {0}] /\ unread' \subseteq {"config", "creds"}
      BY <1>19, <2>1 DEF SwapConfig, LokiTypes
    <2>. QED
      BY <1>19, <2>2, <1>5, <1>6, <1>7, <1>8, <1>9 DEF SwapConfig
  <1>20. CASE RestartLoki
    BY <1>20, <1>5, <1>6, <1>7, <1>8, <1>9, <1>10, <1>11 DEF RestartLoki
  <1>21. CASE LokiReady
    BY <1>21, <1>5, <1>6, <1>7, <1>8, <1>9, <1>10, <1>11 DEF LokiReady
  <1>22. CASE FinishApply
    BY <1>22, <1>5, <1>6, <1>7, <1>8, <1>9, <1>10, <1>11, <1>12 DEF FinishApply
  <1>23. CASE Rollback
    <2>1. \/ EndApply
          \/ apply' = [apply EXCEPT !.pc = "swap", !.way = "rollback", !.set = apply.row.set, !.checked = today]
      BY <1>23 DEF Rollback
    <2>2. apply' \in Applies
      <3>1. "swap" \in Places /\ "rollback" \in Passes /\ apply.row.set \in LokiSettings
        BY Parts DEF Places, Passes
      <3>2. [apply EXCEPT !.pc = "swap", !.way = "rollback", !.set = apply.row.set, !.checked = today] \in Applies
        <4>1. \A s \in LokiSettings :
                [apply EXCEPT !.pc = "swap", !.way = "rollback", !.set = s, !.checked = today] \in Applies
          BY <3>1, DefaultsAreSettings, PassFits
        <4>. QED
          BY <3>1, <4>1
      <3>. QED
        BY <2>1, <3>2, Ends
    <2>3. lokiRow' \in LokiRows /\ mishaps' \in 0 .. MaxMishaps
      BY <1>23, <1>6, <1>7, <1>9, <1>12 DEF Rollback
    <2>. QED
      BY <1>23, <2>2, <2>3, <1>5, <1>10, <1>11 DEF Rollback
  <1>24. CASE Revert
    BY <1>24, <1>5, <1>6, <1>7, <1>8, <1>9, <1>10, <1>11, <1>12 DEF Revert
  <1>25. CASE Stop
    <2>1. pstack' \in [up : BOOLEAN, stops : 0 .. MaxStops]
      BY <1>25 DEF Stop, LokiTypes
    <2>2. saver' \in [Savers -> Options([row : LokiSettings, base : LokiSettings, gen : 0 .. MaxSaves])]
      BY <1>25 DEF Stop, Options
    <2>. QED
      BY <1>25, <2>1, <2>2, NoApplyFits DEF Stop, LokiTypes, Waiting, Options
  <1>26. CASE ReconcileLoki
    <2>1. pstack' \in [up : BOOLEAN, stops : 0 .. MaxStops]
      BY <1>26 DEF ReconcileLoki, LokiTypes
    <2>2. 0 \in 0 .. MaxSaves
      OBVIOUS
    <2>3. queuedApply' \in Options(0 .. MaxSaves)
      BY <1>26, <2>2, OptionsHave DEF ReconcileLoki
    <2>. QED
      BY <1>26, <2>1, <2>3 DEF ReconcileLoki, LokiTypes
  <1>27. CASE LokiRestarts
    BY <1>27 DEF LokiRestarts, LokiTypes, RequestsRest
  <1>28. CASE DayPasses
    <2>1. today' \in 0 .. LastDay
      BY <1>28 DEF DayPasses, LokiTypes
    <2>. QED
      BY <1>28, <2>1 DEF DayPasses, LokiTypes, RequestsRest
  <1>. QED
    BY <1>1, <1>2, <1>3, <1>4, <1>13, <1>14, <1>15, <1>16, <1>17, <1>18, <1>19, <1>20, <1>21, <1>22, <1>23, <1>24,
       <1>25, <1>26, <1>27, <1>28, <1>29 DEF LokiNext, ApplyStep
-----------------------------------------------------------------------------
(***************************************************************************)
(* How a pass ends, goes on and fails.                                     *)
(***************************************************************************)
(* Nobody but a reader of the row puts a setting into `saver`. *)
Readers == \A r \in Savers : saver'[r] # <<>> => saver[r] # <<>> /\ saver'[r][1].base = saver[r][1].base

LEMMA MatchedStays ==
  ASSUME AllMatched, Readers, UNCHANGED lokiRow, Matched(apply'.set), Matched(apply'.row.set)
  PROVE  AllMatched'
  BY DEF AllMatched, Readers, InFlight

(* A pass that ends leaves an unfinished row only after an interruption, and one more where it was *)
(* half way through the files.                                                                     *)
LEMMA PassEnds ==
  ASSUME LokiTypes, Files, EndApply, Readers, UNCHANGED <<lokiRow, lokiDisk, unread>>, Interruptions' \in Nat,
         \/ Interruptions' > Interruptions
         \/ Interruptions' = Interruptions /\ (~InFlight(lokiRow) \/ apply.pc \in {"find", "render", "verify"})
  PROVE  Files'
  <1>1. apply'.pc = "none" /\ apply'.way = "forward" /\ apply'.set = Defaults /\ apply'.row.set = Defaults
    BY Ends
  <1>2. Interruptions \in Nat
    BY Parts
  <1>3. AllMatched'
    BY <1>1, MatchedStays, DefaultsAreSettings DEF Files
  <1>4. UnfinishedIsRecorded'
    BY <1>2 DEF Files, UnfinishedIsRecorded, InFlight
  <1>5. Between'
    BY <1>1, <1>2 DEF Files, Between, InFlight
  <1>6. HalfBack'
    BY <1>1, <1>2 DEF Files, HalfBack, NewPeriod, Undoing, InFlight
  <1>7. Touched'
    BY <1>1, <1>2 DEF Files, Touched, NewPeriod, InFlight
  <1>8. PassSoFar'
    BY <1>1 DEF PassSoFar
  <1>. QED
    BY <1>3, <1>4, <1>5, <1>6, <1>7, <1>8 DEF Files

(* A pass goes on and neither the row nor the files change. *)
Under == {"swap", "swapped", "restart", "ready", "finish"}
LEMMA PassGoesOn ==
  ASSUME LokiTypes, Files, NEW p \in Places, Goto(p), UNCHANGED <<lokiRow, lokiDisk, saver>>, unread' \in {unread, {}},
         Interruptions' \in Nat, Interruptions' >= Interruptions,
         Interruptions' > Interruptions \/ apply.pc # "swapped",
         apply.pc \in Under => (p \in Under \/ Interruptions' > Interruptions),
         (p = "rollback" /\ NewPeriod /\ lokiDisk.creds # lokiRow.set.key) => Interruptions' >= 3
  PROVE  AllMatched' /\ UnfinishedIsRecorded' /\ Between' /\ HalfBack' /\ Touched'
  <1>1. apply'.pc = p /\ apply'.way = apply.way /\ apply'.set = apply.set /\ apply'.row = apply.row
    BY Moves
  <1>2. Interruptions \in Nat
    BY Parts
  <1>3. AllMatched'
    BY <1>1 DEF Files, AllMatched, InFlight
  <1>4. UnfinishedIsRecorded'
    BY <1>2 DEF Files, UnfinishedIsRecorded, InFlight
  <1>5. Between'
    BY <1>1, <1>2 DEF Files, Between, InFlight, Under
  <1>6. HalfBack'
    BY <1>1, <1>2 DEF Files, HalfBack, NewPeriod, Undoing, InFlight
  <1>7. Touched'
    BY <1>1, <1>2 DEF Files, Touched, NewPeriod, InFlight
  <1>. QED
    BY <1>3, <1>4, <1>5, <1>6, <1>7

(* A step that fails: undone after a pass forward, and the end of an undo. *)
LEMMA PassFails ==
  ASSUME LokiTypes, Files, apply.pc \in {"swap", "swapped", "restart", "ready"}, StepFails,
         UNCHANGED <<lokiRow, lokiDisk, unread, saver>>, Interruptions' = Interruptions + 1
  PROVE  Files'
  <1>1. Interruptions \in Nat /\ Interruptions' \in Nat /\ Interruptions' > Interruptions /\ lokiRow.set \in LokiSettings
    BY Parts
  <1>2. CASE apply.way \in {"forward", "resume"}
    <2>1. Goto("rollback") /\ "rollback" \in Places
      BY <1>2 DEF StepFails, Places
    <2>2. apply'.pc = "rollback" /\ apply'.way = apply.way /\ apply'.set = apply.set /\ apply'.row = apply.row
      BY <2>1, Moves
    <2>3. ~Undoing /\ Forth
      BY <1>2 DEF Undoing, Files, PassSoFar
    <2>4. NewPeriod /\ lokiDisk.creds # lokiRow.set.key => Interruptions' >= 3
      <3>1. CASE apply.pc = "swap"
        BY <1>1, <1>2, <2>3, <3>1 DEF Files, PassSoFar, HalfBack, Undoing
      <3>2. CASE apply.pc = "swapped"
        BY <2>3, <3>2 DEF Files, PassSoFar, Forth
      <3>3. CASE apply.pc \in {"restart", "ready"}
        BY <2>3, <3>3 DEF Files, PassSoFar, Render
      <3>. QED
        BY <3>1, <3>2, <3>3
    <2>5. AllMatched' /\ UnfinishedIsRecorded' /\ Between' /\ HalfBack' /\ Touched'
      BY <1>1, <2>1, <2>4, PassGoesOn
    <2>6. PassSoFar'
      BY <1>1, <1>2, <2>2, <2>3 DEF PassSoFar, Forth, InFlight, Undoing
    <2>. QED
      BY <2>5, <2>6 DEF Files
  <1>3. CASE apply.way \notin {"forward", "resume"}
    BY <1>1, <1>3, PassEnds DEF StepFails, Readers
  <1>. QED
    BY <1>2, <1>3

(* What failed counts. *)
LEMMA FailuresCount ==
  ASSUME LokiTypes, UNCHANGED pstack
  PROVE  /\ Interruptions \in Nat
         /\ Works => Interruptions' = Interruptions
         /\ \A what : Fails(what) => Interruptions' = Interruptions + 1
  <1>1. mishaps \in Nat /\ pstack.stops \in Nat
    BY Parts
  <1>2. Works => Interruptions' = Interruptions
    BY DEF Works, Interruptions
  <1>3. ASSUME NEW what, Fails(what) PROVE Interruptions' = Interruptions + 1
    BY <1>1, <1>3 DEF Fails, Interruptions
  <1>. QED
    BY <1>1, <1>2, <1>3 DEF Interruptions
-----------------------------------------------------------------------------
(***************************************************************************)
(* Every step of the job.                                                  *)
(***************************************************************************)
LEMMA TakeSavesKeeps ==
  ASSUME LokiTypes, Files, TakeSaves
  PROVE  Files'
  <1>1. apply'.pc = "find" /\ apply'.way = "forward" /\ apply'.set = Defaults /\ apply'.row.set = Defaults
    BY NoApplyFits, DefaultsAreSettings DEF TakeSaves, Applies
  <1>2. apply.pc = "none" /\ UNCHANGED <<lokiRow, lokiDisk, unread, saver, Interruptions>>
    BY DEF TakeSaves, LokiAt, Interruptions
  <1>3. AllMatched'
    BY <1>1, <1>2, MatchedStays, DefaultsAreSettings DEF Files, Readers
  <1>4. UnfinishedIsRecorded'
    BY <1>2 DEF Files, UnfinishedIsRecorded, InFlight
  <1>5. Between' /\ HalfBack' /\ Touched'
    BY <1>1, <1>2 DEF Files, Between, HalfBack, Touched, NewPeriod, Undoing, InFlight
  <1>6. PassSoFar'
    BY <1>1 DEF PassSoFar
  <1>. QED
    BY <1>3, <1>4, <1>5, <1>6 DEF Files

LEMMA FindLokiKeeps ==
  ASSUME LokiTypes, Files, FindLoki
  PROVE  Files'
  <1>1. UNCHANGED <<lokiRow, lokiDisk, unread, saver, pstack>> /\ apply.pc = "find"
    BY DEF FindLoki, RequestsRest, LokiAt
  <1>2. /\ Interruptions \in Nat /\ Interruptions' \in Nat
        /\ (Interruptions' = Interruptions \/ Interruptions' = Interruptions + 1)
    BY <1>1, FailuresCount DEF FindLoki
  <1>3. CASE EndApply
    BY <1>1, <1>2, <1>3, PassEnds DEF Readers
  <1>4. CASE Goto("render")
    <2>1. "render" \in Places /\ apply.pc \notin Under /\ Interruptions' >= Interruptions
      BY <1>1, <1>2 DEF Places, Under
    <2>2. AllMatched' /\ UnfinishedIsRecorded' /\ Between' /\ HalfBack' /\ Touched'
      BY <1>1, <1>2, <1>4, <2>1, PassGoesOn
    <2>3. apply'.pc = "render"
      BY <1>4, <2>1, Moves
    <2>. QED
      BY <2>2, <2>3 DEF Files, PassSoFar
  <1>. QED
    BY <1>3, <1>4 DEF FindLoki

LEMMA RenderSavesKeeps ==
  ASSUME LokiTypes, Files, RenderSaves
  PROVE  Files'
  <1> DEFINE set == LokiMerged(lokiRow.set, apply.chunks, apply.storage)
  <1>1. UNCHANGED <<lokiRow, lokiDisk, unread, today, saver, Interruptions>> /\ apply.pc = "render" /\ ~InFlight(lokiRow)
    BY DEF RenderSaves, RequestsRest, LokiAt, Interruptions
  <1>2. CASE EndApply
    BY <1>1, <1>2, PassEnds, Parts DEF Readers
  <1>3. CASE ~EndApply
    <2>1. /\ MayMerge(lokiRow.set, apply.storage)
          /\ CheckPeriods(lokiDisk.config, Render(set).config, TRUE)
          /\ apply' = [apply EXCEPT !.pc = "verify", !.row = lokiRow, !.set = set, !.way = "forward", !.checked = today]
      BY <1>3 DEF RenderSaves
    <2>2. apply'.pc = "verify" /\ apply'.row = lokiRow /\ apply'.set = set /\ apply'.way = "forward" /\ apply'.checked = today
      BY <2>1 DEF LokiTypes, Applies
    <2>3. lokiRow.set \in LokiSettings /\ apply.chunks \in Options(Days) /\ apply.storage \in Options(Storages)
      BY Parts DEF LokiTypes, Applies
    <2>4. set \in LokiSettings
      BY <2>3, MergedFits
    <2>5. Matched(lokiRow.set)
      BY DEF Files, AllMatched
    <2>6. Matched(set) /\ Follows(lokiRow.set, set)
      <3>1. apply.storage # <<>> => apply.storage[1] \in Storages
        BY <2>3, OptionsAre
      <3>2. apply.storage # <<>> => (apply.storage[1].cutover = 0 <=> apply.storage[1].key = 0)
        BY <3>1, Bounds DEF Storages
      <3>. QED
        BY <2>1, <2>5, <3>2 DEF Matched, Follows, MayMerge, LokiMerged
    <2>7. Render(set).config.cutover = set.cutover
      BY DEF Render
    <2>8. today \in Nat /\ lokiDisk.config.cutover \in Nat
      BY Parts
    <2> HIDE DEF set
    <2>9. Held'
      BY <1>1, <2>1, <2>2, <2>7, <2>8, Bounds DEF Held, CheckPeriods, KeepsPeriods
    <2>10. AllMatched'
      BY <1>1, <2>2, <2>5, <2>6, MatchedStays DEF Files, Readers
    <2>11. PassSoFar'
      BY <1>1, <2>2, <2>6, <2>9 DEF PassSoFar, InFlight
    <2>12. UnfinishedIsRecorded' /\ Between' /\ HalfBack' /\ Touched'
      BY <1>1 DEF Files, UnfinishedIsRecorded, Between, HalfBack, Touched, NewPeriod, InFlight
    <2>. QED
      BY <2>10, <2>11, <2>12 DEF Files
  <1>. QED
    BY <1>2, <1>3

LEMMA ResumeKeeps ==
  ASSUME LokiTypes, Files, Resume
  PROVE  Files'
  <1> DEFINE old == lokiRow.before[1]
  <1>1. UNCHANGED <<lokiRow, lokiDisk, unread, today, saver, Interruptions>> /\ apply.pc = "render" /\ InFlight(lokiRow)
    BY DEF Resume, RequestsRest, LokiAt, Interruptions
  <1>2. old \in LokiSettings /\ lokiRow.set \in LokiSettings /\ lokiRow.before = <<old>> /\ Interruptions \in Nat
    BY <1>1, Parts
  <1>3. Matched(old) /\ Matched(lokiRow.set) /\ Follows(old, lokiRow.set)
    BY <1>1 DEF Files, AllMatched
  <1>4. /\ Render(lokiRow.set).config.cutover = lokiRow.set.cutover /\ Render(old).config.cutover = old.cutover
        /\ lokiDisk.config \in {Render(lokiRow.set).config, Render(old).config} /\ Interruptions >= 1
    BY <1>1 DEF Render, Files, Between
  <1>5. today \in Nat /\ lokiDisk.config.cutover \in Nat /\ old.cutover \in Nat /\ lokiRow.set.cutover \in Nat
    BY <1>2, Parts, Numbers
  <1>6. CASE EndApply
    BY <1>1, <1>2, <1>6, PassEnds DEF Readers
  <1>7. CASE ~EndApply /\ CheckPeriods(LokiAlive, Render(lokiRow.set).config, TRUE)
    <2>1. /\ apply'.pc \in {"verify", "ready", "restart"} /\ apply'.row.set = old /\ apply'.set = lokiRow.set
          /\ apply'.way = "resume" /\ apply'.checked = today
          /\ apply'.pc = "verify" <=> lokiDisk # Render(lokiRow.set)
      <3>1. apply' = [apply EXCEPT !.row = [set |-> old, before |-> <<>>], !.set = lokiRow.set, !.way = "resume",
                                   !.checked = today,
                                   !.pc = IF lokiDisk # Render(lokiRow.set) THEN "verify" ELSE IF Loaded THEN "ready" ELSE "restart"]
        BY <1>7, Zenon DEF Resume
      <3>. QED
        BY <3>1 DEF LokiTypes, Applies
    <2>2. KeepsPeriods(LokiAlive, Render(lokiRow.set).config)
      BY <1>7 DEF CheckPeriods
    <2>3. lokiDisk.config.cutover \in {0, lokiRow.set.cutover} \/ lokiDisk.config.cutover > today + Lead
      BY <1>2, <1>4, <1>5, <2>2 DEF KeepsPeriods, LokiAlive
    <2>4. Held'
      BY <1>1, <1>5, <2>1, <2>3, Bounds DEF Held
    <2>5. Forth'
      BY <1>1, <1>2, <2>1 DEF Forth, InFlight
    <2>6. PassSoFar'
      BY <1>1, <2>1, <2>4, <2>5 DEF PassSoFar, Undoing
    <2>7. AllMatched'
      BY <1>1, <1>3, <2>1, MatchedStays DEF Files, Readers
    <2>8. UnfinishedIsRecorded' /\ Between' /\ HalfBack' /\ Touched'
      BY <1>1, <1>4, <2>1 DEF Files, UnfinishedIsRecorded, Between, HalfBack, Touched, NewPeriod, InFlight
    <2>. QED
      BY <2>6, <2>7, <2>8 DEF Files
  <1>8. CASE ~EndApply /\ ~CheckPeriods(LokiAlive, Render(lokiRow.set).config, TRUE)
    <2>1. /\ apply'.pc = "swap" /\ apply'.row.set = old /\ apply'.set = old
          /\ apply'.way = "putback" /\ apply'.checked = today /\ ~Loaded
      <3>1. apply' = [apply EXCEPT !.row = [set |-> old, before |-> <<>>], !.set = old, !.way = "putback",
                                   !.checked = today, !.pc = "swap"] /\ ~Loaded
        BY <1>8 DEF Resume
      <3>. QED
        BY <3>1 DEF LokiTypes, Applies
    <2>2. unread \subseteq {"config", "creds"} /\ unread # {}
      BY <2>1 DEF Loaded, LokiTypes
    <2>3. "config" \in unread => Held'
      BY <1>1, <1>5, <2>1, Bounds DEF Held
    <2>4. lokiDisk.config.cutover = old.cutover => Held'
      BY <1>1, <1>5, <2>1, Bounds DEF Held
    <2>5. ASSUME "config" \notin unread, lokiDisk.config.cutover # old.cutover PROVE Held'
      <3>1. unread = {"creds"} /\ NewPeriod
        BY <1>1, <2>2, <2>5 DEF NewPeriod
      <3>2. Interruptions >= 3
        BY <1>1, <1>2, <3>1 DEF Files, Touched
      <3>. QED
        BY <1>1, <1>2, <1>5, <2>1, <3>2, Bounds DEF Held
    <2>6. Held'
      BY <2>3, <2>4, <2>5
    <2>7. Back'
      BY <1>1, <1>2, <2>1 DEF Back, InFlight
    <2>8. PassSoFar'
      BY <1>1, <1>4, <2>1, <2>6, <2>7 DEF PassSoFar, Undoing
    <2>9. AllMatched'
      BY <1>1, <1>3, <2>1, MatchedStays DEF Files, Readers
    <2>10. UnfinishedIsRecorded' /\ Between' /\ HalfBack' /\ Touched'
      BY <1>1, <1>4, <2>1 DEF Files, UnfinishedIsRecorded, Between, HalfBack, Touched, NewPeriod, InFlight
    <2>. QED
      BY <2>8, <2>9, <2>10 DEF Files
  <1>. QED
    BY <1>6, <1>7, <1>8

LEMMA VerifyKeeps ==
  ASSUME LokiTypes, Files, Verify
  PROVE  Files'
  <1>1. UNCHANGED <<lokiRow, lokiDisk, unread, today, saver, pstack>> /\ apply.pc = "verify"
    BY DEF Verify, RequestsRest, LokiAt
  <1>2. /\ Interruptions \in Nat /\ Interruptions' \in Nat
        /\ (Interruptions' = Interruptions \/ Interruptions' = Interruptions + 1)
    BY <1>1, FailuresCount DEF Verify
  <1>3. CASE EndApply
    BY <1>1, <1>2, <1>3, PassEnds DEF Readers
  <1>4. CASE ~EndApply
    <2> DEFINE p == IF apply.way = "forward" THEN "commit" ELSE "swap"
    <2>1. p \in Places /\ Goto(p) /\ p \in {"commit", "swap"}
      BY <1>4 DEF Verify, Places
    <2>2. /\ apply'.pc = p /\ apply'.way = apply.way /\ apply'.set = apply.set /\ apply'.row = apply.row
          /\ apply'.checked = apply.checked
      BY <2>1, Moves
    <2>3. AllMatched' /\ UnfinishedIsRecorded' /\ Between' /\ HalfBack' /\ Touched'
      <3>1. apply.pc \notin Under /\ apply.pc # "swapped" /\ p # "rollback" /\ Interruptions' >= Interruptions
        BY <1>1, <1>2, <2>1 DEF Under
      <3> HIDE DEF p
      <3>. QED
        BY <1>1, <1>2, <2>1, <3>1, PassGoesOn
    <2>4. apply.way \in {"forward", "resume"}
      BY <1>1 DEF Files, PassSoFar
    <2>5. Held'
      BY <1>1, <1>2, <2>2 DEF Held, Files, PassSoFar, Undoing
    <2>6. PassSoFar'
      BY <1>1, <2>2, <2>4, <2>5 DEF PassSoFar, Files, Forth, InFlight, Undoing
    <2>. QED
      BY <2>3, <2>6 DEF Files
  <1>. QED
    BY <1>3, <1>4

LEMMA CommitKeeps ==
  ASSUME LokiTypes, Files, Commit
  PROVE  Files'
  <1>1. UNCHANGED <<lokiDisk, unread, today, saver, pstack>> /\ apply.pc = "commit"
    BY DEF Commit, RequestsRest, LokiAt
  <1>2. /\ apply.way = "forward" /\ ~InFlight(lokiRow) /\ apply.row.set = lokiRow.set
        /\ Follows(apply.row.set, apply.set) /\ Held
    BY <1>1 DEF Files, PassSoFar
  <1>3. CASE EndApply /\ UNCHANGED lokiRow /\ Fails("store")
    BY <1>1, <1>2, <1>3, FailuresCount, PassEnds DEF Readers
  <1>4. CASE SaveRow(apply.set) /\ Goto("swap") /\ Works
    <2>1. lokiRow'.set = apply.set /\ lokiRow'.before = <<apply.row.set>> /\ lokiRow'.before[1] = apply.row.set
      BY <1>4 DEF SaveRow
    <2>2. /\ apply'.pc = "swap" /\ apply'.way = "forward" /\ apply'.set = apply.set /\ apply'.row = apply.row
          /\ apply'.checked = apply.checked /\ Interruptions' = Interruptions
      BY <1>1, <1>2, <1>4, Moves, FailuresCount DEF Places
    <2>3. lokiDisk.config = Render(apply.row.set).config /\ Render(apply.row.set).config.cutover = apply.row.set.cutover
      BY <1>2 DEF Files, UnfinishedIsRecorded, Render
    <2>4. AllMatched'
      BY <1>1, <1>2, <2>1, <2>2 DEF Files, AllMatched, InFlight
    <2>5. UnfinishedIsRecorded' /\ Between'
      BY <1>1, <2>1, <2>2, <2>3 DEF UnfinishedIsRecorded, Between, InFlight
    <2>6. ~NewPeriod'
      BY <1>1, <2>1, <2>3 DEF NewPeriod
    <2>7. Held'
      BY <1>1, <1>2, <2>2 DEF Held
    <2>8. PassSoFar'
      BY <2>1, <2>2, <2>6, <2>7 DEF PassSoFar, Forth, InFlight, Undoing
    <2>. QED
      BY <2>4, <2>5, <2>6, <2>8 DEF Files, HalfBack, Touched
  <1>. QED
    BY <1>3, <1>4 DEF Commit

(* The credentials land: of the new period, or back to those of the old. *)
LEMMA CredsKeep ==
  ASSUME LokiTypes, Files, SwapCreds, Goto("swapped"), Works,
         lokiDisk' = [lokiDisk EXCEPT !.creds = apply.set.key],
         unread' = IF apply.set.key = 0 THEN unread \ {"creds"} ELSE unread \cup {"creds"}
  PROVE  Files'
  <1>1. UNCHANGED <<lokiRow, today, saver, pstack>> /\ apply.pc = "swap" /\ UNCHANGED Interruptions
    BY DEF SwapCreds, RequestsRest, LokiAt, Works, Interruptions
  <1>2. lokiDisk'.config = lokiDisk.config /\ lokiDisk'.creds = apply.set.key
    BY DEF LokiTypes
  <1>3. /\ apply'.pc = "swapped" /\ apply'.way = apply.way /\ apply'.set = apply.set /\ apply'.row = apply.row
        /\ apply'.checked = apply.checked
    BY Moves DEF Places
  <1>4. Held /\ (IF Undoing THEN Back ELSE Forth) /\ (Undoing => Interruptions >= 1)
    BY <1>1 DEF Files, PassSoFar
  <1>5. InFlight(lokiRow) /\ lokiRow.before = <<apply.row.set>> /\ lokiRow.before[1] = apply.row.set
    BY <1>4 DEF Forth, Back
  <1>6. AllMatched'
    BY <1>1, <1>3 DEF Files, AllMatched, InFlight
  <1>7. UnfinishedIsRecorded' /\ Between'
    BY <1>1, <1>2, <1>3, <1>5 DEF Files, UnfinishedIsRecorded, Between, InFlight
  <1>8. NewPeriod' <=> NewPeriod
    BY <1>1, <1>2 DEF NewPeriod, InFlight
  <1>9. HalfBack'
    BY <1>1, <1>2, <1>3, <1>4, <1>8 DEF HalfBack, Undoing, Forth
  <1>10. Touched'
    <2>1. CASE apply.way = "forward"
      BY <1>1, <1>8, <2>1 DEF Touched, Files, PassSoFar
    <2>2. CASE apply.way = "resume" /\ NewPeriod
      <3>1. Forth /\ lokiDisk # Render(lokiRow.set)
        BY <1>1, <1>4, <2>2 DEF Undoing, Files, PassSoFar
      <3>2. lokiDisk.config = Render(lokiRow.set).config
        BY <1>5, <2>2 DEF Files, Between, NewPeriod, Render
      <3>3. lokiDisk.creds # lokiRow.set.key
        BY <3>1, <3>2, DiskIs, Parts DEF LokiTypes
      <3>4. Interruptions >= 2
        BY <1>1, <2>2, <3>3, Parts DEF Files, HalfBack, Undoing
      <3>. QED
        BY <1>1, <1>3, <2>2, <3>4 DEF Touched
    <2>3. CASE Undoing /\ NewPeriod /\ unread' = {"creds"}
      <3>1. apply.set.key # 0 /\ apply.set = apply.row.set
        BY <1>4, <2>3 DEF Back
      <3>2. apply.row.set.cutover # 0 /\ lokiRow.set.cutover = apply.row.set.cutover
        BY <1>5, <3>1 DEF Files, AllMatched, Matched, Follows
      <3>3. lokiDisk.config.cutover = apply.row.set.cutover
        BY <1>5, <3>2 DEF Files, Between, Render
      <3>. QED
        BY <1>5, <2>3, <3>3 DEF NewPeriod
    <2>4. apply.way = "forward" \/ apply.way = "resume" \/ Undoing
      BY Parts DEF Passes, Undoing
    <2>. QED
      BY <1>8, <2>1, <2>2, <2>3, <2>4 DEF Touched
  <1>11. Held'
    BY <1>1, <1>2, <1>3, <1>4 DEF Held
  <1>12. PassSoFar'
    BY <1>1, <1>2, <1>3, <1>4, <1>8, <1>11 DEF Files, PassSoFar, Undoing, Forth, Back, InFlight
  <1>. QED
    BY <1>6, <1>7, <1>9, <1>10, <1>12 DEF Files

LEMMA SwapCredsKeeps ==
  ASSUME LokiTypes, Files, SwapCreds
  PROVE  Files'
  <1>1. UNCHANGED <<lokiRow, saver, pstack>> /\ apply.pc = "swap"
    BY DEF SwapCreds, RequestsRest, LokiAt
  <1>2. CASE Fails("swap") /\ StepFails /\ UNCHANGED <<lokiDisk, unread>>
    BY <1>1, <1>2, PassFails, FailuresCount
  <1>3. CASE ~(Fails("swap") /\ StepFails /\ UNCHANGED <<lokiDisk, unread>>)
    BY <1>3, CredsKeep DEF SwapCreds
  <1>. QED
    BY <1>2, <1>3

(* The config lands, beside credentials that are its own. *)
LEMMA ConfigKeeps ==
  ASSUME LokiTypes, Files, SwapConfig, Works,
         lokiDisk' = [lokiDisk EXCEPT !.config = Render(apply.set).config],
         unread' = unread \cup {"config"},
         Goto(IF apply.way \in {"forward", "resume"} THEN "restart" ELSE "revert")
  PROVE  Files'
  <1> DEFINE p == IF apply.way \in {"forward", "resume"} THEN "restart" ELSE "revert"
  <1>1. UNCHANGED <<lokiRow, today, saver, pstack>> /\ apply.pc = "swapped" /\ UNCHANGED Interruptions
    BY DEF SwapConfig, RequestsRest, LokiAt, Works, Interruptions
  <1>2. lokiDisk'.config = Render(apply.set).config /\ lokiDisk'.creds = lokiDisk.creds /\ lokiDisk.creds = apply.set.key
    BY <1>1 DEF LokiTypes, Files, PassSoFar
  <1>3. lokiDisk' = Render(apply.set)
    BY <1>2 DEF Render, LokiTypes
  <1>4. p \in Places /\ p \in {"restart", "revert"} /\ Goto(p)
    BY DEF Places
  <1>5. apply'.pc = p /\ apply'.way = apply.way /\ apply'.set = apply.set /\ apply'.row = apply.row
    BY <1>4, Moves
  <1>6. /\ (IF Undoing THEN Back ELSE Forth) /\ (Undoing => Interruptions >= 1)
        /\ Undoing <=> apply.way \notin {"forward", "resume"}
    BY <1>1, Parts DEF Files, PassSoFar, Undoing, Passes
  <1>7. InFlight(lokiRow) /\ lokiRow.before = <<apply.row.set>> /\ lokiRow.before[1] = apply.row.set
    BY <1>6 DEF Forth, Back
  <1>8. AllMatched'
    BY <1>1, <1>5 DEF Files, AllMatched, InFlight
  <1>9. UnfinishedIsRecorded' /\ Touched'
    BY <1>1, <1>7 DEF UnfinishedIsRecorded, InFlight, Touched
  <1>10. CASE Undoing
    <2>1. p = "revert" /\ Back
      BY <1>6, <1>10
    <2>2. Between'
      BY <1>1, <1>2, <1>6, <1>7, <1>10, <2>1 DEF Between, Back, InFlight
    <2>3. HalfBack'
      BY <1>1, <1>2, <1>7, <2>1 DEF HalfBack, NewPeriod, Back, Render
    <2>4. PassSoFar'
      BY <1>1, <1>3, <1>5, <1>6, <1>10, <2>1 DEF PassSoFar, Undoing, Back, InFlight
    <2>. QED
      BY <1>8, <1>9, <2>2, <2>3, <2>4 DEF Files
  <1>11. CASE ~Undoing
    <2>1. p = "restart" /\ Forth
      BY <1>6, <1>11
    <2>2. Between'
      BY <1>1, <1>2, <1>5, <1>7, <2>1, <1>11 DEF Files, Between, Forth, InFlight
    <2>3. HalfBack'
      BY <1>1, <1>2, <2>1 DEF HalfBack, Forth
    <2>4. PassSoFar'
      BY <1>1, <1>3, <1>5, <1>11, <2>1 DEF PassSoFar, Undoing, Forth, InFlight
    <2>. QED
      BY <1>8, <1>9, <2>2, <2>3, <2>4 DEF Files
  <1>. QED
    BY <1>10, <1>11

LEMMA SwapConfigKeeps ==
  ASSUME LokiTypes, Files, SwapConfig
  PROVE  Files'
  <1>1. UNCHANGED <<lokiRow, saver, pstack>> /\ apply.pc = "swapped"
    BY DEF SwapConfig, RequestsRest, LokiAt
  <1>2. CASE Fails("swap") /\ StepFails /\ UNCHANGED <<lokiDisk, unread>>
    BY <1>1, <1>2, PassFails, FailuresCount
  <1>3. CASE ~(Fails("swap") /\ StepFails /\ UNCHANGED <<lokiDisk, unread>>)
    BY <1>3, ConfigKeeps DEF SwapConfig
  <1>. QED
    BY <1>2, <1>3

(* Loki restarts and becomes ready; nothing of the record changes. *)
LEMMA RestartsKeep ==
  ASSUME LokiTypes, Files, RestartLoki \/ LokiReady
  PROVE  Files'
  <1>1. UNCHANGED <<lokiRow, lokiDisk, saver, pstack>> /\ apply.pc \in {"restart", "ready"}
    BY DEF RestartLoki, LokiReady, RequestsRest, LokiAt
  <1>2. CASE StepFails /\ UNCHANGED unread /\ \E what : Fails(what)
    BY <1>1, <1>2, PassFails, FailuresCount
  <1>3. CASE LokiReady /\ Works /\ EndApply /\ apply.way = "rollback"
    <2>1. apply.way = "rollback" /\ apply.pc = "ready" /\ UNCHANGED unread
      BY <1>3 DEF LokiReady, LokiAt
    <2>2. ~InFlight(lokiRow) /\ Interruptions' = Interruptions /\ Interruptions \in Nat
      BY <1>1, <1>3, <2>1, FailuresCount DEF Files, PassSoFar, Undoing
    <2>. QED
      BY <1>1, <1>3, <2>1, <2>2, PassEnds DEF Readers
  <1>4. ASSUME NEW p \in {"ready", "finish"}, Goto(p), Works, unread' \in {unread, {}},
               p = "finish" => apply.way # "rollback"
        PROVE  Files'
    <2>1. p \in Places /\ p \in Under /\ apply.pc # "swapped" /\ p # "rollback"
      BY <1>1, <1>4 DEF Places, Under
    <2>2. apply'.pc = p /\ apply'.way = apply.way /\ apply'.set = apply.set /\ apply'.row = apply.row
      BY <1>4, <2>1, Moves
    <2>3. Interruptions' = Interruptions /\ Interruptions \in Nat /\ Interruptions' >= Interruptions
      BY <1>1, <1>4, FailuresCount
    <2>4. AllMatched' /\ UnfinishedIsRecorded' /\ Between' /\ HalfBack' /\ Touched'
      BY <1>1, <1>4, <2>1, <2>3, PassGoesOn
    <2>5. (~Undoing /\ Forth /\ lokiDisk = Render(lokiRow.set)) \/ (Undoing /\ ~InFlight(lokiRow) /\ apply.way = "rollback")
      BY <1>1 DEF Files, PassSoFar
    <2>6. PassSoFar'
      BY <1>1, <1>4, <2>2, <2>5 DEF PassSoFar, Undoing, Forth, InFlight
    <2>. QED
      BY <2>4, <2>6 DEF Files
  <1>5. CASE RestartLoki
    BY <1>2, <1>4, <1>5 DEF RestartLoki
  <1>6. CASE LokiReady
    BY <1>2, <1>3, <1>4, <1>6 DEF LokiReady
  <1>. QED
    BY <1>5, <1>6

LEMMA FinishApplyKeeps ==
  ASSUME LokiTypes, Files, FinishApply
  PROVE  Files'
  <1>1. UNCHANGED <<lokiDisk, unread, saver, pstack>> /\ apply.pc = "finish"
    BY DEF FinishApply, RequestsRest, LokiAt
  <1>2. CASE EndApply /\ UNCHANGED lokiRow /\ Fails("store")
    BY <1>1, <1>2, FailuresCount, PassEnds DEF Readers
  <1>3. CASE FinishRow
    <2>1. lokiRow'.set = lokiRow.set /\ lokiRow'.before = <<>>
      BY <1>3 DEF FinishRow, LokiTypes, LokiRows
    <2>2. lokiDisk = Render(lokiRow.set)
      BY <1>1 DEF Files, PassSoFar
    <2>3. \/ apply'.pc = "none" /\ apply'.set = Defaults /\ apply'.row.set = Defaults
          \/ apply'.pc = "render" /\ apply'.set = apply.set /\ apply'.row = apply.row
          \/ UNCHANGED lokiRow
      BY Ends, Moves DEF FinishApply, Places
    <2>4. CASE ~UNCHANGED lokiRow
      <3>1. AllMatched'
        BY <1>1, <2>1, <2>3, <2>4, DefaultsAreSettings DEF Files, AllMatched, InFlight
      <3>2. UnfinishedIsRecorded'
        BY <1>1, <2>1, <2>2 DEF UnfinishedIsRecorded, Render
      <3>3. Between' /\ HalfBack' /\ Touched'
        BY <2>1 DEF Between, HalfBack, Touched, NewPeriod, InFlight
      <3>4. PassSoFar'
        BY <2>3, <2>4 DEF PassSoFar
      <3>. QED
        BY <3>1, <3>2, <3>3, <3>4 DEF Files
    <2>5. CASE UNCHANGED lokiRow
      BY <1>1, <2>1, <2>5 DEF Files, PassSoFar, Forth, InFlight
    <2>. QED
      BY <2>4, <2>5
  <1>. QED
    BY <1>2, <1>3 DEF FinishApply

LEMMA RollbackKeeps ==
  ASSUME LokiTypes, Files, Rollback
  PROVE  Files'
  <1>1. UNCHANGED <<lokiDisk, unread, today, saver, pstack>> /\ apply.pc = "rollback"
    BY DEF Rollback, RequestsRest, LokiAt
  <1>2. ~Undoing /\ Forth /\ Interruptions >= 1 /\ Interruptions \in Nat
    BY <1>1, Parts DEF Files, PassSoFar
  <1>3. /\ InFlight(lokiRow) /\ lokiRow.before[1] = apply.row.set /\ apply.row.set \in LokiSettings
        /\ lokiDisk.config \in {Render(lokiRow.set).config, Render(apply.row.set).config}
        /\ Render(apply.row.set).config.cutover = apply.row.set.cutover
    BY <1>2, Parts DEF Forth, Files, Between, Render
  <1>4. today \in Nat /\ lokiDisk.config.cutover \in Nat
    BY Parts
  <1>5. CASE CheckPeriods(lokiDisk.config, Render(apply.row.set).config, FALSE)
    <2>1. /\ apply'.pc = "swap" /\ apply'.way = "rollback" /\ apply'.set = apply.row.set /\ apply'.row = apply.row
          /\ apply'.checked = today /\ UNCHANGED <<lokiRow, Interruptions>>
      BY <1>1, <1>5 DEF Rollback, LokiTypes, Applies, Works, Interruptions
    <2>2. Held'
      BY <1>1, <1>3, <1>4, <1>5, <2>1, Bounds DEF Held, CheckPeriods, KeepsPeriods
    <2>3. Back'
      BY <1>2, <2>1 DEF Forth, Back, InFlight
    <2>4. PassSoFar'
      BY <1>2, <2>1, <2>2, <2>3 DEF PassSoFar, Undoing
    <2>5. AllMatched'
      BY <1>1, <2>1, MatchedStays DEF Files, AllMatched, Readers
    <2>6. UnfinishedIsRecorded' /\ Between'
      BY <1>1, <1>2, <1>3, <2>1 DEF Files, UnfinishedIsRecorded, Between, InFlight
    <2>7. HalfBack' /\ Touched'
      BY <1>1, <1>2, <2>1 DEF Files, HalfBack, Touched, NewPeriod, InFlight
    <2>. QED
      BY <2>4, <2>5, <2>6, <2>7 DEF Files
  <1>6. CASE ~CheckPeriods(lokiDisk.config, Render(apply.row.set).config, FALSE) /\ FinishRow /\ Works
    <2>1. EndApply /\ UNCHANGED Interruptions
      BY <1>1, <1>6 DEF Rollback, Works, Interruptions
    <2>2. lokiRow'.set = lokiRow.set /\ lokiRow'.before = <<>>
      BY <1>6 DEF FinishRow, LokiTypes, LokiRows
    <2>3. apply'.pc = "none" /\ apply'.set = Defaults /\ apply'.row.set = Defaults
      BY <2>1, Ends
    <2>4. NewPeriod
      BY <1>3, <1>4, <1>6 DEF NewPeriod, CheckPeriods, KeepsPeriods
    <2>5. lokiDisk.config = Render(lokiRow.set).config
      BY <1>3, <2>4 DEF NewPeriod
    <2>6. lokiDisk.creds = lokiRow.set.key \/ Interruptions >= 3
      BY <1>1, <2>4 DEF Files, HalfBack
    <2>7. UnfinishedIsRecorded'
      BY <1>1, <2>1, <2>2, <2>5, <2>6 DEF UnfinishedIsRecorded
    <2>8. AllMatched'
      BY <1>1, <2>2, <2>3, DefaultsAreSettings DEF Files, AllMatched, InFlight
    <2>9. Between' /\ HalfBack' /\ Touched' /\ PassSoFar'
      BY <2>2, <2>3 DEF Between, HalfBack, Touched, NewPeriod, InFlight, PassSoFar
    <2>. QED
      BY <2>7, <2>8, <2>9 DEF Files
  <1>7. CASE EndApply /\ UNCHANGED lokiRow /\ Fails("store")
    BY <1>1, <1>7, FailuresCount, PassEnds DEF Readers
  <1>. QED
    BY <1>5, <1>6, <1>7 DEF Rollback

LEMMA RevertKeeps ==
  ASSUME LokiTypes, Files, Revert
  PROVE  Files'
  <1>1. UNCHANGED <<lokiDisk, unread, saver, pstack>> /\ apply.pc = "revert"
    BY DEF Revert, RequestsRest, LokiAt
  <1>2. Undoing /\ Back /\ lokiDisk = Render(apply.set) /\ Interruptions >= 1 /\ Interruptions \in Nat
    BY <1>1, Parts DEF Files, PassSoFar
  <1>3. CASE EndApply /\ UNCHANGED lokiRow /\ Fails("store")
    BY <1>1, <1>3, FailuresCount, PassEnds DEF Readers
  <1>4. CASE RevertRow /\ (IF apply.way = "rollback" THEN Goto("restart") ELSE EndApply) /\ Works
    <2>1. lokiRow'.set = apply.set /\ lokiRow'.before = <<>>
      BY <1>2, <1>4 DEF RevertRow, Back
    <2>2. \/ apply'.pc = "none" /\ apply'.set = Defaults /\ apply'.row.set = Defaults
          \/ apply'.pc = "restart" /\ apply'.way = "rollback" /\ apply'.set = apply.set /\ apply'.row = apply.row
      BY <1>4, Ends, Moves DEF Places
    <2>3. AllMatched'
      BY <1>1, <2>1, <2>2, DefaultsAreSettings DEF Files, AllMatched, InFlight
    <2>4. UnfinishedIsRecorded'
      BY <1>1, <1>2, <2>1 DEF UnfinishedIsRecorded, Render
    <2>5. Between' /\ HalfBack' /\ Touched'
      BY <2>1 DEF Between, HalfBack, Touched, NewPeriod, InFlight
    <2>6. PassSoFar'
      BY <2>1, <2>2 DEF PassSoFar, Undoing, InFlight
    <2>. QED
      BY <2>3, <2>4, <2>5, <2>6 DEF Files
  <1>. QED
    BY <1>3, <1>4 DEF Revert
-----------------------------------------------------------------------------
(***************************************************************************)
(* Everybody else.                                                         *)
(***************************************************************************)
LEMMA ReadRowKeeps ==
  ASSUME LokiTypes, Files, NEW r \in Savers, ReadRow(r)
  PROVE  Files'
  <1> DEFINE storage == IF pendingSaves.storage = <<>> THEN <<>> ELSE <<pendingSaves.storage[1].patch>>
             base == IF MayMerge(lokiRow.set, storage) THEN LokiMerged(lokiRow.set, <<>>, storage) ELSE lokiRow.set
  <1>1. UNCHANGED <<lokiRow, lokiDisk, unread, today, apply, pstack, mishaps>>
    BY DEF ReadRow
  <1>2. saver' = [saver EXCEPT ![r] = <<[row |-> lokiRow.set, base |-> base, gen |-> 0]>>]
    BY DEF ReadRow
  <1>3. storage # <<>> => storage[1] \in Storages
    BY WaitingFits, OptionsAre
  <1>4. storage # <<>> => (storage[1].cutover = 0 <=> storage[1].key = 0)
    BY <1>3, Bounds DEF Storages
  <1>5. Matched(lokiRow.set)
    BY DEF Files, AllMatched
  <1> HIDE DEF storage
  <1>6. Matched(base)
    BY <1>4, <1>5 DEF Matched, LokiMerged
  <1> HIDE DEF base
  <1>7. AllMatched'
    BY <1>1, <1>2, <1>6 DEF Files, AllMatched, InFlight, LokiTypes
  <1>. QED
    BY <1>1, <1>7 DEF Files, UnfinishedIsRecorded, Between, HalfBack, Touched, PassSoFar, Held, Forth, Back, Undoing, NewPeriod,
       Interruptions, InFlight

(* Those that leave the row, the files and the pass alone. *)
LEMMA BystandersKeep ==
  ASSUME LokiTypes, Files, Readers, UNCHANGED <<lokiRow, lokiDisk, unread, today, apply>>, Interruptions' \in Nat,
         Interruptions' >= Interruptions
  PROVE  Files'
  <1>1. Interruptions \in Nat
    BY Parts
  <1>2. AllMatched'
    BY MatchedStays DEF Files, AllMatched
  <1>3. UnfinishedIsRecorded' /\ Between'
    BY <1>1 DEF Files, UnfinishedIsRecorded, Between, InFlight
  <1>4. HalfBack' /\ Touched'
    BY <1>1 DEF Files, HalfBack, Touched, NewPeriod, InFlight, Undoing
  <1>5. Held => Held'
    BY <1>1 DEF Held
  <1>6. PassSoFar'
    BY <1>1, <1>5 DEF Files, PassSoFar, Forth, Back, Undoing, NewPeriod, InFlight
  <1>. QED
    BY <1>2, <1>3, <1>4, <1>6 DEF Files

LEMMA CancelApplyKeeps ==
  ASSUME LokiTypes, Files, CancelApply
  PROVE  Files'
  <1>1. UNCHANGED <<lokiRow, lokiDisk, unread, today, saver, pstack>> /\ Readers
    BY DEF CancelApply, Readers
  <1>2. Interruptions' \in Nat /\ Interruptions' >= Interruptions /\ Interruptions \in Nat
    BY <1>1, Parts DEF CancelApply, Interruptions
  <1>3. CASE UNCHANGED apply
    BY <1>1, <1>2, <1>3, BystandersKeep
  <1>4. CASE apply' = [apply EXCEPT !.cancelled = TRUE]
    <2>1. /\ apply'.pc = apply.pc /\ apply'.way = apply.way /\ apply'.set = apply.set /\ apply'.row = apply.row
          /\ apply'.checked = apply.checked
      BY <1>4 DEF LokiTypes, Applies
    <2>2. AllMatched'
      BY <1>1, <2>1 DEF Files, AllMatched, InFlight
    <2>3. UnfinishedIsRecorded' /\ Between'
      BY <1>1, <1>2, <2>1 DEF Files, UnfinishedIsRecorded, Between, InFlight
    <2>4. HalfBack' /\ Touched'
      BY <1>1, <1>2, <2>1 DEF Files, HalfBack, Touched, NewPeriod, InFlight, Undoing
    <2>5. Held => Held'
      BY <1>1, <1>2, <2>1 DEF Held
    <2>6. PassSoFar'
      BY <1>1, <1>2, <2>1, <2>5 DEF Files, PassSoFar, Forth, Back, Undoing, NewPeriod, InFlight
    <2>. QED
      BY <2>2, <2>3, <2>4, <2>6 DEF Files
  <1>. QED
    BY <1>3, <1>4 DEF CancelApply

LEMMA StopKeeps ==
  ASSUME LokiTypes, Files, Stop
  PROVE  Files'
  <1>1. UNCHANGED <<lokiRow, lokiDisk, unread, today, mishaps>> /\ EndApply
    BY DEF Stop, EndApply
  <1>2. Readers
    BY DEF Stop, Readers
  <1>3. Interruptions' \in Nat /\ Interruptions' > Interruptions
    BY Parts DEF Stop, Interruptions
  <1>. QED
    BY <1>1, <1>2, <1>3, PassEnds

LEMMA LokiRestartsKeeps ==
  ASSUME LokiTypes, Files, LokiRestarts
  PROVE  Files'
  <1>1. UNCHANGED <<lokiRow, lokiDisk, apply, saver, Interruptions>> /\ apply.pc = "none" /\ unread' = {}
    BY DEF LokiRestarts, RequestsRest, Interruptions
  <1>2. AllMatched' /\ UnfinishedIsRecorded' /\ Between'
    BY <1>1 DEF Files, AllMatched, UnfinishedIsRecorded, Between, InFlight
  <1>3. HalfBack' /\ Touched'
    BY <1>1 DEF Files, HalfBack, Touched, NewPeriod, InFlight, Undoing
  <1>4. PassSoFar'
    BY <1>1 DEF PassSoFar
  <1>. QED
    BY <1>2, <1>3, <1>4 DEF Files

LEMMA DayPassesKeeps ==
  ASSUME LokiTypes, Files, DayPasses
  PROVE  Files'
  <1>1. UNCHANGED <<lokiRow, lokiDisk, unread, apply, saver, Interruptions>> /\ today' = today + 1
    BY DEF DayPasses, RequestsRest, Interruptions
  <1>2. AllMatched' /\ UnfinishedIsRecorded' /\ Between'
    BY <1>1 DEF Files, AllMatched, UnfinishedIsRecorded, Between, InFlight
  <1>3. HalfBack' /\ Touched'
    BY <1>1 DEF Files, HalfBack, Touched, NewPeriod, InFlight, Undoing
  <1>4. Held /\ apply.pc \in {"verify", "commit", "swap", "swapped"} => Held'
    <2>1. apply.pc \in {"verify", "commit", "swap", "swapped"} => today < apply.checked + Lead
      BY DEF DayPasses, Guarded
    <2>. QED
      BY <1>1, <2>1, Parts, Bounds DEF Held
  <1>5. PassSoFar'
    BY <1>1, <1>4 DEF Files, PassSoFar, Forth, Back, Undoing, NewPeriod, InFlight
  <1>. QED
    BY <1>2, <1>3, <1>5 DEF Files

LEMMA FilesKept ==
  ASSUME LokiTypes, Files, LokiNext
  PROVE  Files'
  <1>1. ASSUME NEW r \in Savers, LokiSave(r) PROVE Files'
    <2>1. UNCHANGED <<lokiRow, lokiDisk, unread, today, apply, Interruptions>>
      BY <1>1 DEF LokiSave, Interruptions
    <2>2. CASE saver' = [saver EXCEPT ![r] = <<>>]
      <3>1. Readers
        BY <2>2 DEF Readers, LokiTypes
      <3>. QED
        BY <2>1, <3>1, Parts, BystandersKeep
    <2>3. CASE lokiGen < MaxSaves /\ saver' = [saver EXCEPT ![r][1].gen = lokiGen + 1]
      <3>1. lokiGen + 1 \in 0 .. MaxSaves /\ saver[r] # <<>>
        BY <1>1, <2>3, Bounds DEF LokiSave, LokiTypes
      <3>2. Readers
        BY <2>3, <3>1, SaverSteps DEF Readers
      <3>. QED
        BY <2>1, <3>2, Parts, BystandersKeep
    <2>. QED
      BY <1>1, <2>2, <2>3 DEF LokiSave
  <1>3. ASSUME NEW r \in Savers, StartApply(r) PROVE Files'
    <2>1. Readers /\ UNCHANGED <<lokiRow, lokiDisk, unread, today, apply, Interruptions>>
      BY <1>3 DEF StartApply, Readers, Interruptions, LokiTypes
    <2>. QED
      BY <2>1, Parts, BystandersKeep
  <1>2. CASE ReconcileLoki
    <2>1. Readers /\ UNCHANGED <<lokiRow, lokiDisk, unread, today, apply, Interruptions>>
      BY <1>2 DEF ReconcileLoki, Readers, Interruptions, LokiTypes
    <2>. QED
      BY <2>1, Parts, BystandersKeep
  <1>. QED
    BY <1>1, <1>2, <1>3, ReadRowKeeps, CancelApplyKeeps, TakeSavesKeeps, FindLokiKeeps, RenderSavesKeeps, ResumeKeeps, VerifyKeeps,
       CommitKeeps, SwapCredsKeeps, SwapConfigKeeps, RestartsKeep, FinishApplyKeeps, RollbackKeeps, RevertKeeps, StopKeeps,
       LokiRestartsKeeps, DayPassesKeeps DEF LokiNext, ApplyStep
-----------------------------------------------------------------------------
(***************************************************************************)
(* The saves that wait.                                                    *)
(***************************************************************************)
LEMMA RequestsKept ==
  ASSUME LokiTypes, Requests, LokiNext
  PROVE  Requests'
  <1>1. ASSUME NEW r \in Savers, ReadRow(r) PROVE Requests'
    <2>1. saver[r] = <<>> /\ (\A q \in Savers \ {r} : saver'[q] = saver[q])
          /\ UNCHANGED <<apply, queuedApply, pendingSaves, lokiGen, pstack, stranded>>
      BY <1>1 DEF ReadRow, LokiTypes
    <2>2. \A q \in Savers : saver[q] # <<>> => saver'[q] = saver[q]
      BY <2>1
    <2>. QED
      BY <2>1, <2>2 DEF Requests, Stopped, Numbered, SavesAreCarried
  <1>2. ASSUME NEW r \in Savers, LokiSave(r) PROVE Requests'
    <2>1. saver[r] # <<>> /\ saver[r][1].gen = 0 /\ pstack.up /\ UNCHANGED <<apply, queuedApply, pstack, stranded>>
      BY <1>2 DEF LokiSave
    <2>2. Stopped'
      BY <2>1 DEF Requests, Stopped
    <2>3. ASSUME NEW s \in {"chunks", "storage"}, pendingSaves[s] # <<>>
          PROVE  \/ pendingSaves[s][1].gen \in stranded
                 \/ queuedApply # <<>> /\ queuedApply[1] >= pendingSaves[s][1].gen
                 \/ \E q \in Savers \ {r} : saver[q] # <<>> /\ saver[q][1].gen = pendingSaves[s][1].gen
      <3>1. pendingSaves[s][1].gen # 0
        BY <2>3, GensFit, Bounds
      <3>. QED
        BY <2>1, <2>3, <3>1 DEF Requests, SavesAreCarried
    <2>4. CASE saver' = [saver EXCEPT ![r] = <<>>] /\ UNCHANGED <<pendingSaves, lokiGen>>
      <3>1. \A q \in Savers \ {r} : saver'[q] = saver[q]
        BY <2>4 DEF LokiTypes
      <3>2. SavesAreCarried'
        BY <2>1, <2>3, <2>4, <3>1 DEF SavesAreCarried
      <3>. QED
        BY <2>2, <2>4, <3>2 DEF Requests, Numbered
    <2>5. CASE ~(saver' = [saver EXCEPT ![r] = <<>>] /\ UNCHANGED <<pendingSaves, lokiGen>>)
      <3>1. PICK section \in {"chunks", "storage"} :
              \E patch : lokiGen < MaxSaves /\ LokiPut(section, patch) /\ saver' = [saver EXCEPT ![r][1].gen = lokiGen + 1]
        BY <1>2, <2>5 DEF LokiSave
      <3>2. PICK patch :
              lokiGen' = lokiGen + 1 /\ pendingSaves' = [pendingSaves EXCEPT ![section] = <<[gen |-> lokiGen + 1, patch |-> patch]>>]
        BY <3>1 DEF LokiPut
      <3>3. DOMAIN pendingSaves = {"chunks", "storage"}
        BY WaitingFits
      <3>4. lokiGen \in Nat /\ lokiGen + 1 \in 0 .. MaxSaves
        BY <3>1, Bounds DEF LokiTypes
      <3>5. saver'[r] # <<>> /\ saver'[r][1].gen = lokiGen + 1 /\ \A q \in Savers \ {r} : saver'[q] = saver[q]
        BY <2>1, <3>1, <3>4, SaverSteps
      <3>6. \A s \in {"chunks", "storage"} : s # section => pendingSaves'[s] = pendingSaves[s]
        BY <3>2, <3>3
      <3>7. pendingSaves'[section][1].gen = lokiGen + 1
        BY <3>2, <3>3
      <3>8. ASSUME NEW s \in {"chunks", "storage"}, pendingSaves'[s] # <<>> PROVE pendingSaves'[s][1].gen <= lokiGen'
        <4>1. CASE s = section
          BY <3>2, <3>4, <3>7, <4>1
        <4>2. CASE s # section
          <5>1. pendingSaves[s][1].gen \in 1 .. MaxSaves /\ pendingSaves[s][1].gen <= lokiGen
            BY <3>6, <3>8, <4>2, GensFit DEF Requests, Numbered
          <5>. QED
            BY <3>2, <3>4, <3>6, <4>2, <5>1, Bounds
        <4>. QED
          BY <4>1, <4>2
      <3>9. SavesAreCarried'
        BY <2>1, <2>3, <3>5, <3>6, <3>7 DEF SavesAreCarried
      <3>. QED
        BY <2>2, <3>8, <3>9 DEF Requests, Numbered
    <2>. QED
      BY <2>4, <2>5
  <1>9. ASSUME NEW r \in Savers, StartApply(r) PROVE Requests'
    <2>1. pstack.up /\ UNCHANGED <<apply, pendingSaves, lokiGen, pstack>> /\ \A q \in Savers \ {r} : saver'[q] = saver[q]
      BY <1>9 DEF StartApply, LokiTypes
    <2>2. Stopped' /\ Numbered'
      BY <2>1 DEF Requests, Stopped, Numbered
    <2>3. ASSUME NEW s \in {"chunks", "storage"}, pendingSaves[s] # <<>>
          PROVE  \/ pendingSaves[s][1].gen \in stranded'
                 \/ queuedApply' # <<>> /\ queuedApply'[1] >= pendingSaves[s][1].gen
                 \/ \E q \in Savers \ {r} : saver[q] # <<>> /\ saver[q][1].gen = pendingSaves[s][1].gen
      <3> DEFINE g == saver[r][1].gen
                 x == pendingSaves[s][1].gen
      <3>1. g \in Nat /\ x \in Nat
        BY <1>9, <2>3, GensFit, SaverReads, Bounds DEF StartApply
      <3>2. CASE queuedApply' = <<g>> /\ stranded' = stranded \cup Overtaken(g)
        <4>1. CASE x \in stranded \/ x = g
          BY <3>1, <3>2, <4>1
        <4>2. CASE queuedApply # <<>> /\ queuedApply[1] >= x
          <5>1. queuedApply[1] \in Nat
            BY <4>2, OptionsAre, Bounds DEF LokiTypes
          <5>2. CASE x <= g
            BY <3>2, <5>2, <3>1
          <5>3. CASE g < x
            BY <2>3, <3>1, <3>2, <4>2, <5>1, <5>3 DEF Overtaken
          <5>. QED
            BY <3>1, <5>2, <5>3
        <4>3. CASE \E q \in Savers \ {r} : saver[q] # <<>> /\ saver[q][1].gen = x
          BY <4>3
        <4>. QED
          BY <2>3, <4>1, <4>2, <4>3 DEF Requests, SavesAreCarried
      <3>3. CASE stranded' = stranded \cup {g} /\ UNCHANGED queuedApply
        BY <2>3, <3>3 DEF Requests, SavesAreCarried
      <3>. QED
        BY <1>9, <3>2, <3>3 DEF StartApply
    <2>4. SavesAreCarried'
      BY <2>1, <2>3 DEF SavesAreCarried
    <2>. QED
      BY <2>2, <2>4 DEF Requests
  <1>3. CASE CancelApply
    <2>1. \A s \in {"chunks", "storage"} : pendingSaves[s] # <<>> => 0 < pendingSaves[s][1].gen
      BY GensFit, Bounds
    <2>2. \A s \in {"chunks", "storage"} :
            pendingSaves[s] # <<>> /\ queuedApply # <<>> /\ queuedApply[1] >= pendingSaves[s][1].gen
              => pendingSaves[s][1].gen \in Overtaken(0)
      <3>1. ASSUME NEW s \in {"chunks", "storage"}, pendingSaves[s] # <<>>, queuedApply # <<>>,
                   queuedApply[1] >= pendingSaves[s][1].gen
            PROVE  pendingSaves[s][1].gen \in Overtaken(0)
        <4>1. queuedApply[1] \in Nat
          BY <3>1, OptionsAre, Bounds DEF LokiTypes
        <4>2. pendingSaves[s][1].gen \in Nat
          BY <3>1, GensFit, Bounds
        <4>. QED
          BY <2>1, <3>1, <4>1, <4>2 DEF Overtaken
      <3>. QED
        BY <3>1
    <2>3. UNCHANGED <<pendingSaves, lokiGen, saver, pstack>> /\ pstack.up
      BY <1>3 DEF CancelApply
    <2>4. \/ UNCHANGED <<queuedApply, stranded>>
          \/ queuedApply # <<>> /\ queuedApply' = <<>> /\ stranded' = stranded \cup Overtaken(0)
      BY <1>3 DEF CancelApply
    <2>5. SavesAreCarried'
      BY <2>2, <2>3, <2>4 DEF Requests, SavesAreCarried
    <2>. QED
      BY <2>3, <2>5 DEF Requests, Stopped, Numbered
  <1>4. CASE TakeSaves
    BY <1>4 DEF TakeSaves, LokiAt, Requests, Stopped, Numbered, SavesAreCarried, Remaining, LokiTaken
  <1>5. CASE ApplyStep /\ ~TakeSaves
    <2>1. pstack.up /\ UNCHANGED pstack /\ RequestsRest
      BY <1>5 DEF ApplyStep, LokiAt, FindLoki, RenderSaves, Resume, Verify, Commit, SwapCreds, SwapConfig, RestartLoki,
                  LokiReady, FinishApply, Rollback, Revert
    <2>. QED
      BY <2>1 DEF RequestsRest, Requests, Stopped, Numbered, SavesAreCarried
  <1>6. CASE Stop
    BY <1>6 DEF Stop, Requests, Stopped, Numbered, SavesAreCarried
  <1>7. CASE ReconcileLoki
    BY <1>7 DEF ReconcileLoki, Requests, Stopped, Numbered, SavesAreCarried
  <1>8. CASE LokiRestarts \/ DayPasses
    BY <1>8 DEF LokiRestarts, DayPasses, RequestsRest, Requests, Stopped, Numbered, SavesAreCarried
  <1>. QED
    BY <1>1, <1>2, <1>3, <1>4, <1>5, <1>6, <1>7, <1>8, <1>9 DEF LokiNext
-----------------------------------------------------------------------------
(***************************************************************************)
(* The theorems.                                                           *)
(***************************************************************************)
LEMMA StartsSo ==
  ASSUME LokiInit
  PROVE  LokiIInv
  <1>1. LokiTypes
    BY Bounds, DefaultsAreSettings, NoApplyFits, DiskIs
       DEF LokiInit, LokiTypes, Render, Configs, Defaults, Options, Waiting
  <1>2. Requests
    BY DEF LokiInit, Requests, Stopped, Numbered, SavesAreCarried
  <1>3. AllMatched /\ UnfinishedIsRecorded /\ Between /\ HalfBack /\ Touched
    BY DefaultsAreSettings, NoApplyFits
       DEF LokiInit, AllMatched, UnfinishedIsRecorded, Between, HalfBack, Touched, NewPeriod, InFlight, NoRow, Render
  <1>4. PassSoFar
    BY NoApplyFits DEF LokiInit, PassSoFar
  <1>. QED
    BY <1>1, <1>2, <1>3, <1>4 DEF LokiIInv, Files

LEMMA StepsKeep ==
  ASSUME LokiIInv, [LokiNext]_lokiVars
  PROVE  LokiIInv'
  <1>1. CASE LokiNext
    BY <1>1, TypesKept, RequestsKept, FilesKept DEF LokiIInv
  <1>2. CASE UNCHANGED lokiVars
    <2>1. LokiTypes'
      BY <1>2 DEF lokiVars, LokiIInv, LokiTypes
    <2>2. Requests'
      BY <1>2 DEF lokiVars, LokiIInv, Requests, Stopped, Numbered, SavesAreCarried
    <2>3. AllMatched' /\ UnfinishedIsRecorded' /\ Between' /\ HalfBack' /\ Touched'
      BY <1>2 DEF lokiVars, LokiIInv, Files, AllMatched, UnfinishedIsRecorded, Between, HalfBack, Touched, Undoing, NewPeriod,
                  Interruptions, InFlight
    <2>4. (Held' <=> Held) /\ (Forth' <=> Forth) /\ (Back' <=> Back) /\ (NewPeriod' <=> NewPeriod) /\ (Undoing' <=> Undoing)
          /\ Interruptions' = Interruptions
      BY <1>2 DEF lokiVars, Held, Forth, Back, Undoing, NewPeriod, Interruptions, InFlight
    <2>5. PassSoFar'
      BY <1>2, <2>4 DEF lokiVars, LokiIInv, Files, PassSoFar, InFlight
    <2>. QED
      BY <2>1, <2>2, <2>3, <2>5 DEF LokiIInv, Files
  <1>. QED
    BY <1>1, <1>2

LEMMA LokiInvariantHolds == LokiSpec => []LokiIInv
  BY StartsSo, StepsKeep, PTL DEF LokiSpec

(* Only SwapConfig writes config.yaml, beside credentials that are those of what it writes. *)
LEMMA ConfigIsSwapped ==
  ASSUME LokiIInv, LokiNext, lokiDisk'.config # lokiDisk.config
  PROVE  /\ apply.pc = "swapped"
         /\ lokiDisk'.config.cutover = apply.set.cutover /\ lokiDisk'.creds = apply.set.key
         /\ Held /\ Matched(apply.set)
  <1>1. ~UNCHANGED lokiDisk
    OBVIOUS
  <1>2. CASE SwapCreds
    BY <1>2 DEF SwapCreds, LokiIInv, LokiTypes
  <1>3. CASE SwapConfig
    <2>1. lokiDisk' = [lokiDisk EXCEPT !.config = Render(apply.set).config] /\ apply.pc = "swapped"
      BY <1>1, <1>3 DEF SwapConfig, LokiAt
    <2>2. lokiDisk'.config.cutover = apply.set.cutover /\ lokiDisk'.creds = lokiDisk.creds
      BY <2>1 DEF LokiIInv, LokiTypes, Render
    <2>3. lokiDisk.creds = apply.set.key /\ Held /\ Matched(apply.set)
      BY <2>1 DEF LokiIInv, Files, PassSoFar, AllMatched
    <2>. QED
      BY <2>1, <2>2, <2>3
  <1>. QED
    BY <1>1, <1>2, <1>3 DEF LokiNext, ApplyStep, ReadRow, LokiSave, StartApply, CancelApply, TakeSaves, FindLoki, RenderSaves, Resume, Verify,
         Commit, RestartLoki, LokiReady, FinishApply, Rollback, Revert, Stop, ReconcileLoki, LokiRestarts, DayPasses

LEMMA DropsAreLatePutBacks ==
  ASSUME LokiIInv, LokiNext, Drops
  PROVE  apply.way = "putback" /\ Interruptions >= 3
  <1>1. lokiDisk'.config # lokiDisk.config
    BY DEF Drops
  <1>2. lokiDisk'.config.cutover = apply.set.cutover /\ Held
    BY <1>1, ConfigIsSwapped
  <1>3. unread = {} /\ lokiDisk.config.cutover # 0 /\ lokiDisk.config.cutover <= today
        /\ lokiDisk.config.cutover # apply.set.cutover
    BY <1>2 DEF Drops, Loaded
  <1>4. today \in Nat /\ apply.checked \in Nat /\ lokiDisk.config.cutover \in Nat
    BY Parts DEF LokiIInv
  <1>. QED
    BY <1>2, <1>3, <1>4, Bounds DEF Held

(* Every variable keeps its type, for all days, cutovers and keys and every number of stops. *)
THEOREM LokiTypeCorrect == LokiSpec => []LokiTypeOK
  <1>1. LokiIInv => LokiTypeOK
    <2>1. LokiTypes => LokiTypeOK
      BY Bounds, Parts DEF LokiTypes, LokiTypeOK, LokiRows, Applies, Options, Configs, InFlight
    <2>. QED
      BY <2>1 DEF LokiIInv
  <1>. QED
    BY <1>1, LokiInvariantHolds, PTL

(* What an apply keeps to whatever stops it or undoes it: the row records what is unfinished, saves *)
(* are carried, a period in use is dropped by nothing but a late put-back after three interruptions *)
(* (loki_apply.go:507-509, periods.go:59-62), and a config lands with its credentials (176-177).    *)
THEOREM LokiIsSafe == LokiSpec => LokiSafety
  <1> DEFINE Recorded == UnfinishedIsRecorded /\ SavesAreCarried
             LateOnly == Drops => apply.way = "putback" /\ Interruptions >= 3
             Lands == lokiDisk'.config # lokiDisk.config /\ lokiDisk'.config.cutover # 0 => lokiDisk'.creds # 0
  <1>1. LokiIInv => Recorded
    BY DEF LokiIInv, Files, Requests
  <1>2. LokiIInv /\ [LokiNext]_lokiVars => [LateOnly]_lokiVars
    BY DropsAreLatePutBacks
  <1>3. LokiIInv /\ [LokiNext]_lokiVars => [Lands]_lokiVars
    BY ConfigIsSwapped DEF Matched
  <1> HIDE DEF Recorded, LateOnly, Lands
  <1>4. LokiSpec => []Recorded /\ [][LateOnly]_lokiVars /\ [][Lands]_lokiVars
    BY <1>1, <1>2, <1>3, LokiInvariantHolds, PTL DEF LokiSpec
  <1>. QED
    BY <1>4 DEF Recorded, LateOnly, Lands, LokiSafety, OnlyLatePutBacksDrop, LandsWithCredentials
================================================================================
