------------------------------ MODULE HostProofs ------------------------------
(***************************************************************************)
(* What keeps a host in order, proved for every size: Traefik's watched    *)
(* directory (RoutingFiles), docker's credentials (Registries), the watch  *)
(* over the swarm (Signals), the configuration that moves between hosts    *)
(* (ConfigTravel) and the derived compose file (Materialize).  They share  *)
(* no variable, and each section below has the inductive invariant of one. *)
(***************************************************************************)
EXTENDS RoutingFiles, Registries, Signals, ConfigTravel, Materialize, FiniteSetTheorems, TLAPS

(***************************************************************************)
(* Traefik's watched directory.  What a request has done to the pair so    *)
(* far says which half is where; a key without a pointer is one that a     *)
(* request is about to point to or to sweep, or that a fault left behind.  *)
(***************************************************************************)
PairAt(pc) == pc \in {"check", "cert", "key", "rename", "pointer"}
ZoneFiles == {<<>>, <<"torn">>} \cup ((SUBSET Zones) \X BOOLEAN)
WildcardPlaces == {"none", "check", "cert", "key", "rename", "pointer", "unpoint", "uncert", "unkey", "deleted"}
WildcardRequests == [pc : WildcardPlaces, pair : Pairs \cup {0}, covers : SUBSET Zones, first : BOOLEAN]
FileTypes ==
    /\ {certFile, keyFile} \subseteq Pairs \cup {0} /\ pointer \in BOOLEAN /\ halfDone \in BOOLEAN
    /\ keyPart \subseteq {"own", "old"}
    /\ wildcard \in WildcardRequests
    /\ zonesFile \in ZoneFiles /\ tmpFile \in ZoneFiles
    /\ put \in [DomainPuts -> [pc : {"none", "remove", "open", "fill", "rename"}, zones : SUBSET Zones, persist : BOOLEAN]]
    /\ tlsFaults \in Nat
WrittenSoFar ==
    /\ PairAt(wildcard.pc) => wildcard.pair # 0
    /\ wildcard.pc = "cert" => wildcard.covers \subseteq Covers[wildcard.pair]
    /\ wildcard.pc \in {"key", "rename", "pointer"} => certFile = wildcard.pair
    /\ wildcard.pc = "pointer" => keyFile = wildcard.pair
    /\ wildcard.pc \in {"cert", "key", "rename", "pointer"} /\ wildcard.first => ~pointer
SweptSoFar ==
    /\ wildcard.pc \in {"uncert", "unkey", "deleted"} => ~pointer
    /\ wildcard.pc \in {"unkey", "deleted"} => certFile = 0
    /\ wildcard.pc = "deleted" => keyFile = 0
PartIsWatched ==
    /\ ~tlsUp => tlsFaults > 0
    /\ "old" \in keyPart => tlsFaults > 0
    /\ "own" \in keyPart => tlsFaults > 0 \/ wildcard.pc = "rename"
KeyIsWatched == ~pointer /\ keyFile # 0 => tlsFaults > 0 \/ wildcard.pc \in {"pointer", "uncert", "unkey"}
PairIsKept == PointerHasPair /\ PairMatches /\ WrittenSoFar /\ SweptSoFar /\ KeyIsWatched /\ PartIsWatched
FilesIInv == FileTypes /\ PairIsKept

LEMMA NoFileRequests ==
  /\ NoWild = [pc |-> "none", pair |-> 0, covers |-> {}, first |-> FALSE]
  /\ NoPut = [pc |-> "none", zones |-> {}, persist |-> FALSE]
  /\ 0 \notin Pairs /\ MaxTlsFaults \in Nat
  BY RoutingFilesAssumption DEF NoWild, NoPut

LEMMA ZonesRead ==
  ASSUME FileTypes
  PROVE  ReadZones \subseteq Zones
  BY DEF FileTypes, ZoneFiles, ReadZones

(* The requests for domains write their own two files and no more. *)
ZoneStep == \E r \in DomainPuts :
    (\E zones \in SUBSET Zones : DomainsPut(r, zones)) \/ RemoveZones(r) \/ OpenTmp(r) \/ FillTmp(r) \/ RenameTmp(r)

LEMMA ZoneStepTypes ==
  ASSUME FileTypes, ZoneStep
  PROVE  FileTypes' /\ UNCHANGED <<wildVars, tlsUp, tlsFaults>>
  <1>1. PICK r \in DomainPuts :
          (\E zones \in SUBSET Zones : DomainsPut(r, zones)) \/ RemoveZones(r) \/ OpenTmp(r) \/ FillTmp(r) \/ RenameTmp(r)
    BY DEF ZoneStep
  <1>2. UNCHANGED <<wildVars, tlsUp, tlsFaults>>
    BY <1>1 DEF DomainsPut, RemoveZones, OpenTmp, FillTmp, RenameTmp, wildVars
  <1>3. <<>> \in ZoneFiles /\ <<"torn">> \in ZoneFiles
    BY DEF ZoneFiles
  <1>4. <<put[r].zones, put[r].persist>> \in ZoneFiles
    BY DEF FileTypes, ZoneFiles
  <1>5. zonesFile' \in ZoneFiles /\ tmpFile' \in ZoneFiles
    BY <1>1, <1>3, <1>4 DEF FileTypes, DomainsPut, RemoveZones, OpenTmp, FillTmp, RenameTmp
  <1> DEFINE Puts == [pc : {"none", "remove", "open", "fill", "rename"}, zones : SUBSET Zones, persist : BOOLEAN]
  <1>6. \E p \in Puts : put' = [put EXCEPT ![r] = p]
    <2>1. CASE \E zones \in SUBSET Zones : DomainsPut(r, zones)
      <3>1. PICK zones \in SUBSET Zones : DomainsPut(r, zones)
        BY <2>1
      <3>2. [pc |-> IF zones = {} THEN "remove" ELSE "open", zones |-> zones, persist |-> WildcardActive] \in Puts
        BY DEF FileTypes, WildcardActive
      <3>. QED
        BY <3>1, <3>2 DEF DomainsPut
    <2>2. CASE RemoveZones(r) \/ RenameTmp(r)
      <3>1. NoPut \in Puts
        BY NoFileRequests
      <3>. QED
        BY <2>2, <3>1 DEF RemoveZones, RenameTmp
    <2>3. CASE OpenTmp(r) \/ FillTmp(r)
      <3>1. \A pc \in {"fill", "rename"} : [put[r] EXCEPT !.pc = pc] \in Puts
        BY DEF FileTypes
      <3>2. (\E pc \in {"fill", "rename"} : put' = [put EXCEPT ![r].pc = pc])
        BY <2>3 DEF OpenTmp, FillTmp
      <3>. QED
        BY <3>1, <3>2
    <2>. QED
      BY <1>1, <2>1, <2>2, <2>3
  <1>7. put' \in [DomainPuts -> Puts]
    BY <1>6 DEF FileTypes
  <1>. QED
    BY <1>2, <1>5, <1>7 DEF FileTypes, wildVars

LEMMA RequestsFit ==
  ASSUME FileTypes
  PROVE  /\ NoWild \in WildcardRequests /\ [NoWild EXCEPT !.pc = "unpoint"] \in WildcardRequests
         /\ \A pc \in WildcardPlaces : FileStep(pc) => wildcard' \in WildcardRequests
         /\ \A b \in BOOLEAN : [wildcard EXCEPT !.pc = "cert", !.first = b] \in WildcardRequests
         /\ wildcard.pair \in Pairs \cup {0}
  <1>1. "none" \in WildcardPlaces /\ "unpoint" \in WildcardPlaces /\ "cert" \in WildcardPlaces
    BY DEF WildcardPlaces
  <1>. QED
    BY <1>1, NoFileRequests DEF FileTypes, WildcardRequests, FileStep

LEMMA FileTypesKept ==
  ASSUME FileTypes, RoutingFilesNext
  PROVE  FileTypes'
  <1> USE NoFileRequests
  <1>1. CASE \E p \in Pairs : WildcardPut(p)
    <2>1. PICK p \in Pairs : WildcardPut(p)
      BY <1>1
    <2>2. [pc |-> "check", pair |-> p, covers |-> ReadZones, first |-> FALSE] \in WildcardRequests
      BY ZonesRead DEF WildcardRequests, WildcardPlaces
    <2>. QED
      BY <2>1, <2>2 DEF WildcardPut, FileTypes, zoneVars
  <1>2. CASE CheckPair
    <2>1. (~WildcardActive) \in BOOLEAN
      BY DEF FileTypes, WildcardActive
    <2>2. wildcard' \in WildcardRequests
      BY <1>2, <2>1, RequestsFit DEF CheckPair
    <2>. QED
      BY <1>2, <2>2 DEF CheckPair, FileTypes, zoneVars
  <1>3. CASE WriteCert \/ StageKey \/ WriteKey
    <2>1. wildcard' \in WildcardRequests
      <3>1. wildcard' = NoWild \/ FileStep("key") \/ FileStep("rename") \/ FileStep("pointer")
        BY <1>3 DEF WriteCert, StageKey, WriteKey
      <3>. QED
        BY <3>1, RequestsFit DEF WildcardPlaces
    <2>2. tlsFaults' \in Nat
      BY <1>3 DEF WriteCert, StageKey, WriteKey, TlsFault, FileTypes
    <2>. QED
      BY <1>3, <2>1, <2>2, RequestsFit DEF WriteCert, StageKey, WriteKey, FileTypes, zoneVars
  <1>4. CASE WritePointer
    <2>1. wildcard' \in WildcardRequests
      BY <1>4, RequestsFit DEF WritePointer
    <2>2. tlsFaults' \in Nat
      BY <1>4 DEF WritePointer, TlsFault, FileTypes
    <2>. QED
      BY <1>4, <2>1, <2>2 DEF WritePointer, FileTypes, zoneVars
  <1>5. CASE WildcardDelete \/ AnswerDelete
    <2>1. wildcard' \in WildcardRequests
      BY <1>5, RequestsFit DEF WildcardDelete, AnswerDelete
    <2>. QED
      BY <1>5, <2>1 DEF WildcardDelete, AnswerDelete, FileTypes, zoneVars
  <1>6. CASE Unpoint \/ Uncert \/ Unkey
    <2>1. wildcard' \in WildcardRequests
      <3>1. wildcard' = NoWild \/ \E pc \in WildcardPlaces : FileStep(pc)
        BY <1>6 DEF Unpoint, Uncert, Unkey, WildcardPlaces
      <3>. QED
        BY <3>1, RequestsFit
    <2>2. tlsFaults' \in Nat
      BY <1>6 DEF Unpoint, Uncert, Unkey, TlsFault, FileTypes
    <2>. QED
      BY <1>6, <2>1, <2>2 DEF Unpoint, Uncert, Unkey, FileTypes, zoneVars
  <1>7. CASE StopTls
    <2>1. put' \in [DomainPuts -> [pc : {"none", "remove", "open", "fill", "rename"}, zones : SUBSET Zones, persist : BOOLEAN]]
      BY <1>7 DEF StopTls
    <2>2. wildcard' \in WildcardRequests
      BY <1>7, RequestsFit DEF StopTls
    <2>3. tlsFaults' \in Nat
      BY <1>7 DEF StopTls, TlsFault, FileTypes
    <2>. QED
      BY <1>7, <2>1, <2>2, <2>3 DEF StopTls, FileTypes
  <1>8. CASE BootTls
    <2>1. <<ReadZones, WildcardActive>> \in ZoneFiles
      BY ZonesRead DEF ZoneFiles, WildcardActive, FileTypes
    <2>. QED
      BY <1>8, <2>1 DEF BootTls, FileTypes, wildVars
  <1>. QED
    BY <1>1, <1>2, <1>3, <1>4, <1>5, <1>6, <1>7, <1>8, ZoneStepTypes DEF RoutingFilesNext, ZoneStep

LEMMA PairIsKeptOn ==
  ASSUME FileTypes, PairIsKept, RoutingFilesNext
  PROVE  PairIsKept'
  <1> USE NoFileRequests DEF PairIsKept, PointerHasPair, PairMatches, WrittenSoFar, SweptSoFar, KeyIsWatched, PartIsWatched, PairAt
  <1>1. CASE UNCHANGED <<wildVars, tlsUp, tlsFaults>>
    BY <1>1 DEF wildVars
  <1>2. CASE \E p \in Pairs : WildcardPut(p)
    BY <1>2 DEF WildcardPut
  <1>3. CASE CheckPair
    BY <1>3 DEF CheckPair, FileTypes, WildcardRequests, WildcardActive
  <1>4. CASE WriteCert
    BY <1>4 DEF WriteCert, FileStep, TlsFault, FileTypes, WildcardRequests
  <1>5. CASE StageKey \/ WriteKey
    <2>1. CASE StageKey
      BY <2>1 DEF StageKey, FileStep, TlsFault, FileTypes, WildcardRequests
    <2>2. CASE WriteKey
      <3>1. PartIsWatched'
        BY <2>2 DEF WriteKey, TlsFault, FileTypes
      <3>2. PairIsKept'
        BY <2>2, <3>1 DEF WriteKey, FileStep, TlsFault, FileTypes, WildcardRequests
      <3>. QED
        BY <3>2
    <2>. QED
      BY <1>5, <2>1, <2>2
  <1>6. CASE WritePointer
    BY <1>6 DEF WritePointer, TlsFault, FileTypes, WildcardRequests
  <1>7. CASE WildcardDelete \/ AnswerDelete
    BY <1>7 DEF WildcardDelete, AnswerDelete
  <1>8. CASE Unpoint
    BY <1>8 DEF Unpoint, FileStep, TlsFault, FileTypes, WildcardRequests
  <1>9. CASE Uncert
    BY <1>9 DEF Uncert, FileStep, TlsFault, FileTypes, WildcardRequests
  <1>10. CASE Unkey
    BY <1>10 DEF Unkey, FileStep, TlsFault, FileTypes, WildcardRequests
  <1>11. CASE StopTls
    BY <1>11 DEF StopTls, TlsFault, FileTypes, WildcardRequests
  <1>12. CASE BootTls
    BY <1>12 DEF BootTls, FileTypes
  <1>13. CASE ZoneStep
    BY <1>13, <1>1, ZoneStepTypes
  <1>. QED
    BY <1>2, <1>3, <1>4, <1>5, <1>6, <1>7, <1>8, <1>9, <1>10, <1>11, <1>12, <1>13 DEF RoutingFilesNext, ZoneStep

LEMMA FilesInvariantHolds == RoutingFilesSpec => []FilesIInv
  <1>1. RoutingFilesInit => FilesIInv
    <2>1. RoutingFilesInit => FileTypes
      <3>1. NoWild \in WildcardRequests /\ <<>> \in ZoneFiles /\ 0 \in Nat
        BY NoFileRequests DEF WildcardRequests, WildcardPlaces, ZoneFiles
      <3>2. NoPut \in [pc : {"none", "remove", "open", "fill", "rename"}, zones : SUBSET Zones, persist : BOOLEAN]
        BY NoFileRequests
      <3>. QED
        BY <3>1, <3>2 DEF RoutingFilesInit, FileTypes
    <2>2. RoutingFilesInit => PairIsKept
      BY NoFileRequests
         DEF RoutingFilesInit, PairIsKept, PointerHasPair, PairMatches, WrittenSoFar, SweptSoFar, KeyIsWatched,
             PartIsWatched, PairAt
    <2>. QED
      BY <2>1, <2>2 DEF FilesIInv
  <1>2. FilesIInv /\ [RoutingFilesNext]_tlsVars => FilesIInv'
    <2>1. ASSUME FilesIInv, UNCHANGED tlsVars PROVE FilesIInv'
      <3>1. FileTypes'
        BY <2>1 DEF tlsVars, wildVars, zoneVars, FilesIInv, FileTypes
      <3>2. PairIsKept'
        BY <2>1 DEF tlsVars, wildVars, FilesIInv, PairIsKept, PointerHasPair, PairMatches, WrittenSoFar, SweptSoFar,
                    KeyIsWatched, PartIsWatched, PairAt
      <3>. QED
        BY <3>1, <3>2 DEF FilesIInv
    <2>. QED
      BY <2>1, FileTypesKept, PairIsKeptOn DEF FilesIInv
  <1>. QED
    BY <1>1, <1>2, PTL DEF RoutingFilesSpec

(* The files of the watched directory keep their types. *)
THEOREM FilesTypeCorrect == RoutingFilesSpec => []RoutingFilesTypeOK
  <1>1. FilesIInv => RoutingFilesTypeOK
    BY DEF FilesIInv, FileTypes, ZoneFiles, WildcardRequests, RoutingFilesTypeOK
  <1>. QED
    BY <1>1, FilesInvariantHolds, PTL

(* Through every order of stores, removals, failures and crashes: Traefik is never pointed at a   *)
(* half that is not there nor at two halves that do not belong together, a removal that is        *)
(* confirmed left no key but the temporary file of a fault, and a pair that is stored covers the  *)
(* domains the request read (routing/wildcard.go).                                                *)
THEOREM FilesAreSafe == RoutingFilesSpec => FilesSafety
  <1> DEFINE Kept == PointerHasPair /\ PairMatches /\ GoneMeansGone /\ NoSecretKey
             Covering == certFile' \notin {0, certFile} => wildcard.covers \subseteq Covers[certFile']
  <1>1. FilesIInv => Kept
    BY DEF FilesIInv, FileTypes, PairIsKept, SweptSoFar, KeyIsWatched, PartIsWatched, GoneMeansGone, NoSecretKey
  <1>2. FilesIInv /\ [RoutingFilesNext]_tlsVars => [Covering]_tlsVars
    <2>1. ASSUME FilesIInv, RoutingFilesNext PROVE Covering
      <3>1. CASE WriteCert
        BY <2>1, <3>1 DEF WriteCert, FilesIInv, PairIsKept, WrittenSoFar
      <3>2. CASE ZoneStep
        BY <2>1, <3>2, ZoneStepTypes DEF FilesIInv, wildVars
      <3>. QED
        BY <2>1, <3>1, <3>2 DEF RoutingFilesNext, ZoneStep, WildcardPut, CheckPair, StageKey, WriteKey, WritePointer, WildcardDelete,
           Unpoint, Uncert, Unkey, AnswerDelete, StopTls, BootTls, wildVars
    <2>. QED
      BY <2>1
  <1> HIDE DEF Kept, Covering
  <1>3. RoutingFilesSpec => []Kept /\ [][Covering]_tlsVars
    BY <1>1, <1>2, FilesInvariantHolds, PTL DEF RoutingFilesSpec
  <1>. QED
    BY <1>3 DEF Kept, Covering, FilesSafety, StoredIsCovering

--------------------------------------------------------------------------------
(***************************************************************************)
(* The docker client's config.json.  A request that no other overlaps is   *)
(* the only one under way, so that the temporary file is the one it opened *)
(* and holds what it asked for; the two names never share a file.          *)
(***************************************************************************)
UnderWay(r) == call[r].at \in {"probe", "open", "fill", "chmod", "rename"}
Asked(r) == [Parsed(config) EXCEPT ![call[r].registry] = call[r].credential]
Single(file) == file = {} \/ \E i \in Inodes : file = {i}
StoredSoFar(r) ==
    /\ call[r].at \in {"open", "fill", "chmod", "rename"} => call[r].cfg = Asked(r)
    /\ call[r].at \in {"fill", "chmod", "rename"} =>
         \E i \in Inodes : /\ tmp = {i} /\ call[r].fd = {i}
                           /\ inode[i].data = IF call[r].at = "fill" THEN HalfWritten ELSE call[r].cfg
                           /\ call[r].at = "rename" => inode[i].closed
AloneIsAlone == \A r \in Savers : UnderWay(r) /\ call[r].alone => \A q \in Savers \ {r} : call[q] = Returned
AloneSoFar == \A r \in Savers : UnderWay(r) /\ call[r].alone => StoredSoFar(r)
NamesApart == config \cap tmp = {} /\ Single(config) /\ Single(tmp)
RegistryRequests == [at : {"probe", "open", "fill", "chmod", "rename"}, fd : SUBSET Inodes, registry : Registry,
                     credential : Credential \cup {NoCredential}, cfg : Documents, alone : BOOLEAN]
InodeTypes == [data : Documents \cup {HalfWritten}, closed : BOOLEAN]
RegistryTypes ==
    /\ call \in [Savers -> {Returned} \cup RegistryRequests]
    /\ inode \in [Inodes -> InodeTypes]
RegistriesIInv == RegistryTypes /\ NamesApart /\ AloneIsAlone /\ AloneSoFar

(* What docker would read does not change as long as the file does not. *)
LEMMA ParsedStays ==
  ASSUME UNCHANGED config, \A i \in config : inode'[i] = inode[i]
  PROVE  Parsed(config)' = Parsed(config)
  <1>1. CASE config = {}
    BY <1>1 DEF Parsed
  <1>2. CASE config # {}
    <2> DEFINE i == CHOOSE x \in config : TRUE
    <2>1. i \in config
      BY <1>2
    <2>2. inode'[i] = inode[i]
      BY <2>1
    <2> HIDE DEF i
    <2>3. Parsed(config) = IF inode[i].data = HalfWritten THEN NoEntries ELSE inode[i].data
      BY <1>2 DEF Parsed, i
    <2>4. Parsed(config)' = IF inode'[i].data = HalfWritten THEN NoEntries ELSE inode'[i].data
      BY <1>2 DEF Parsed, i
    <2>. QED
      BY <2>2, <2>3, <2>4
  <1>. QED
    BY <1>1, <1>2

LEMMA ReturnedIsDone == Returned.at = "done" /\ Returned.fd = {}
  BY DEF Returned

LEMMA DocumentsRead ==
  ASSUME RegistryTypes, NamesApart
  PROVE  Parsed(config) \in Documents /\ NoEntries \in Documents
  <1>1. NoEntries \in Documents
    BY DEF NoEntries, Documents
  <1>2. CASE config = {}
    BY <1>1, <1>2 DEF Parsed
  <1>3. CASE config # {}
    <2> DEFINE i == CHOOSE x \in config : TRUE
    <2>1. i \in config
      BY <1>3
    <2>2. i \in Inodes
      BY <2>1 DEF NamesApart, Single
    <2> HIDE DEF i
    <2>3. Parsed(config) = IF inode[i].data = HalfWritten THEN NoEntries ELSE inode[i].data
      BY <1>3 DEF Parsed, i
    <2>. QED
      BY <1>1, <2>2, <2>3 DEF RegistryTypes, InodeTypes
  <1>. QED
    BY <1>1, <1>2, <1>3

LEMMA CallsAre ==
  ASSUME RegistryTypes, NEW r \in Savers
  PROVE  /\ call[r] = Returned \/ call[r] \in RegistryRequests
         /\ UnderWay(r) <=> call[r] # Returned
         /\ UnderWay(r) => call[r] \in RegistryRequests
  BY ReturnedIsDone DEF RegistryTypes, RegistryRequests, UnderWay

(* A step of a request that is under way: nobody else can be alone. *)
LEMMA OneActs ==
  ASSUME RegistryTypes, AloneIsAlone, NEW r \in Savers, UnderWay(r),
         NEW new, call' = [call EXCEPT ![r] = new],
         new = Returned \/ (new.alone = call[r].alone /\ (call[r].alone => StoredSoFar(r)'))
  PROVE  AloneIsAlone' /\ AloneSoFar'
  <1>1. call'[r] = new /\ \A q \in Savers \ {r} : call'[q] = call[q]
    BY DEF RegistryTypes
  <1>2. \A q \in Savers \ {r} : ~(UnderWay(q) /\ call[q].alone)
    BY CallsAre DEF AloneIsAlone
  <1>3. \A q \in Savers \ {r} : ~(UnderWay(q)' /\ call'[q].alone)
    BY <1>1, <1>2 DEF UnderWay
  <1>4. UnderWay(r)' /\ call'[r].alone => call[r].alone /\ StoredSoFar(r)'
    BY <1>1, ReturnedIsDone DEF UnderWay
  <1>5. AloneIsAlone'
    BY <1>1, <1>3, <1>4 DEF AloneIsAlone
  <1>. QED
    BY <1>3, <1>4, <1>5 DEF AloneSoFar

LEMMA StartKeeps ==
  ASSUME RegistriesIInv, NEW r \in Savers, NEW registry \in Registry, NEW credential \in Credential \cup {NoCredential},
         Start(r, registry, credential)
  PROVE  RegistriesIInv'
  <1> DEFINE others == {q \in Savers \ {r} : call[q] # Returned}
             new == [at |-> "probe", fd |-> {}, registry |-> registry, credential |-> credential, cfg |-> NoEntries,
                     alone |-> others = {}]
  <1>1. /\ call'[r] = new
        /\ \A q \in others : call'[q] = [call[q] EXCEPT !.alone = FALSE]
        /\ \A q \in Savers : q \notin others /\ q # r => call'[q] = Returned
        /\ DOMAIN call' = Savers /\ call' = [q \in Savers |-> call'[q]]
        /\ UNCHANGED <<inode, config, tmp>>
    BY DEF Start
  <1>2. new \in RegistryRequests /\ new.at = "probe" /\ (new.alone <=> others = {})
    BY DocumentsRead DEF RegistryRequests, RegistriesIInv
  <1> HIDE DEF new
  <1>3. ASSUME NEW q \in others PROVE call'[q] \in RegistryRequests /\ call'[q].alone = FALSE
    <2>1. call[q] \in RegistryRequests
      BY CallsAre DEF RegistriesIInv
    <2>2. call'[q] = [call[q] EXCEPT !.alone = FALSE]
      BY <1>1
    <2>. QED
      BY <2>1, <2>2 DEF RegistryRequests
  <1> HIDE DEF others
  <1>4. RegistryTypes'
    <2>1. \A q \in Savers : call'[q] \in {Returned} \cup RegistryRequests
      BY <1>1, <1>2, <1>3
    <2>. QED
      BY <1>1, <2>1 DEF RegistryTypes, RegistriesIInv
  <1>5. NamesApart'
    BY <1>1 DEF NamesApart, Single, RegistriesIInv
  <1>6. \A q \in Savers : UnderWay(q)' /\ call'[q].alone => q = r /\ others = {}
    BY <1>1, <1>2, <1>3, ReturnedIsDone DEF UnderWay
  <1>7. AloneIsAlone'
    BY <1>1, <1>6 DEF AloneIsAlone
  <1>8. AloneSoFar'
    BY <1>1, <1>2, <1>6 DEF AloneSoFar, StoredSoFar
  <1>. QED
    BY <1>4, <1>5, <1>7, <1>8 DEF RegistriesIInv

LEMMA ReadKeeps ==
  ASSUME RegistriesIInv, NEW r \in Savers, Read(r)
  PROVE  RegistriesIInv'
  <1>1. UnderWay(r) /\ UNCHANGED <<inode, config, tmp>> /\ call[r].at = "probe"
    BY DEF Read, UnderWay
  <1>2. call[r] \in RegistryRequests /\ Parsed(config) \in Documents
    BY <1>1, CallsAre, DocumentsRead DEF RegistriesIInv
  <1> DEFINE new == [call[r] EXCEPT !.at = "open", !.cfg = Asked(r)]
  <1>3. call' = [call EXCEPT ![r] = Returned] \/ call' = [call EXCEPT ![r] = new]
    BY DEF Read, Asked
  <1>4. Asked(r) \in Documents
    BY <1>2 DEF Asked, Documents, RegistryRequests
  <1>5. /\ new \in RegistryRequests /\ new.at = "open" /\ new.cfg = Asked(r) /\ new.alone = call[r].alone
        /\ new.registry = call[r].registry /\ new.credential = call[r].credential
    BY <1>2, <1>4 DEF RegistryRequests
  <1> HIDE DEF new
  <1>6. RegistryTypes'
    BY <1>1, <1>3, <1>5 DEF RegistryTypes, RegistriesIInv
  <1>7. call' = [call EXCEPT ![r] = new] => StoredSoFar(r)'
    <2>1. ASSUME call' = [call EXCEPT ![r] = new] PROVE StoredSoFar(r)'
      <3>1. call'[r] = new
        BY <2>1 DEF RegistryTypes, RegistriesIInv
      <3>2. Parsed(config)' = Parsed(config)
        BY <1>1, ParsedStays
      <3>3. Asked(r)' = Asked(r)
        BY <1>5, <3>1, <3>2 DEF Asked
      <3>. QED
        BY <1>5, <3>1, <3>3 DEF StoredSoFar
    <2>. QED
      BY <2>1
  <1>8. AloneIsAlone' /\ AloneSoFar'
    BY <1>1, <1>3, <1>5, <1>7, OneActs DEF RegistriesIInv
  <1>9. NamesApart'
    BY <1>1 DEF NamesApart, Single, RegistriesIInv
  <1>. QED
    BY <1>6, <1>8, <1>9 DEF RegistriesIInv

LEMMA OpenKeeps ==
  ASSUME RegistriesIInv, NEW r \in Savers, Open(r)
  PROVE  RegistriesIInv'
  <1>1. UnderWay(r) /\ UNCHANGED config /\ call[r].at = "open"
    BY DEF Open, UnderWay
  <1>2. call[r] \in RegistryRequests
    BY <1>1, CallsAre DEF RegistriesIInv
  <1>3. PICK i \in Inodes :
          /\ IF tmp = {} THEN Free(i) /\ inode' = [inode EXCEPT ![i] = Blank]
                         ELSE i \in tmp /\ inode' = [inode EXCEPT ![i].data = HalfWritten]
          /\ tmp' = {i}
          /\ call' = [call EXCEPT ![r].at = "fill", ![r].fd = {i}]
    BY DEF Open
  <1> DEFINE new == [call[r] EXCEPT !.at = "fill", !.fd = {i}]
  <1>4. call' = [call EXCEPT ![r] = new]
    BY <1>2, <1>3 DEF RegistriesIInv, RegistryTypes
  <1>5. /\ new \in RegistryRequests /\ new.at = "fill" /\ new.fd = {i} /\ new.alone = call[r].alone /\ new.cfg = call[r].cfg
        /\ new.registry = call[r].registry /\ new.credential = call[r].credential
    BY <1>2 DEF RegistryRequests
  <1> HIDE DEF new
  <1>6. i \notin config
    BY <1>3 DEF Free, RegistriesIInv, NamesApart
  <1>7. inode' \in [Inodes -> InodeTypes] /\ inode'[i].data = HalfWritten /\ \A j \in Inodes \ {i} : inode'[j] = inode[j]
    <2>1. Blank \in InodeTypes /\ Blank.data = HalfWritten
      BY DEF Blank, InodeTypes
    <2>2. inode \in [Inodes -> InodeTypes]
      BY DEF RegistriesIInv, RegistryTypes
    <2>3. [inode[i] EXCEPT !.data = HalfWritten] \in InodeTypes /\ [inode[i] EXCEPT !.data = HalfWritten].data = HalfWritten
      BY <2>2 DEF InodeTypes
    <2>4. inode' = [inode EXCEPT ![i] = Blank] \/ inode' = [inode EXCEPT ![i] = [inode[i] EXCEPT !.data = HalfWritten]]
      BY <1>3, <2>2
    <2>. QED
      BY <2>1, <2>2, <2>3, <2>4
  <1>8. RegistryTypes'
    BY <1>4, <1>5, <1>7 DEF RegistryTypes, RegistriesIInv
  <1>9. call[r].alone => StoredSoFar(r)'
    <2>1. ASSUME call[r].alone PROVE StoredSoFar(r)'
      <3>1. call[r].cfg = Asked(r)
        BY <1>1, <2>1 DEF RegistriesIInv, AloneSoFar, StoredSoFar
      <3>2. \A j \in config : inode'[j] = inode[j]
        BY <1>6, <1>7 DEF RegistriesIInv, NamesApart, Single
      <3>3. Parsed(config)' = Parsed(config)
        BY <1>1, <3>2, ParsedStays
      <3>4. call'[r] = new
        BY <1>4 DEF RegistriesIInv, RegistryTypes
      <3>5. Asked(r)' = Asked(r)
        BY <1>5, <3>3, <3>4 DEF Asked
      <3>. QED
        BY <1>3, <1>5, <1>7, <3>1, <3>4, <3>5 DEF StoredSoFar
    <2>. QED
      BY <2>1
  <1>10. AloneIsAlone' /\ AloneSoFar'
    BY <1>1, <1>4, <1>5, <1>9, OneActs DEF RegistriesIInv
  <1>11. NamesApart'
    BY <1>1, <1>3, <1>6 DEF NamesApart, Single, RegistriesIInv
  <1>. QED
    BY <1>8, <1>10, <1>11 DEF RegistriesIInv

(* A request that fails, or that is over, leaves the file of nobody else. *)
LEMMA EndKeeps ==
  ASSUME RegistriesIInv, NEW r \in Savers, UnderWay(r), call' = [call EXCEPT ![r] = Returned], UNCHANGED inode,
         tmp' = {}, config' = config \/ config' = tmp
  PROVE  RegistriesIInv'
  <1>1. RegistryTypes'
    BY DEF RegistryTypes, RegistriesIInv
  <1>2. NamesApart'
    BY DEF NamesApart, Single, RegistriesIInv
  <1>. QED
    BY <1>1, <1>2, OneActs DEF RegistriesIInv

LEMMA WriteTmpKeeps ==
  ASSUME RegistriesIInv, NEW r \in Savers, WriteTmp(r)
  PROVE  RegistriesIInv'
  <1>1. UnderWay(r) /\ UNCHANGED <<config, tmp>> /\ call[r].at = "fill"
    BY DEF WriteTmp, UnderWay
  <1>2. call[r] \in RegistryRequests
    BY <1>1, CallsAre DEF RegistriesIInv
  <1>3. PICK i \in call[r].fd :
          \E data \in {call[r].cfg} \cup (IF inode[i].data \in {HalfWritten, call[r].cfg} THEN {} ELSE {HalfWritten}) :
            inode' = [inode EXCEPT ![i].data = data]
    BY DEF WriteTmp
  <1>4. PICK data \in {call[r].cfg} \cup (IF inode[i].data \in {HalfWritten, call[r].cfg} THEN {} ELSE {HalfWritten}) :
            inode' = [inode EXCEPT ![i].data = data]
    BY <1>3
  <1> DEFINE new == [call[r] EXCEPT !.at = "chmod"]
  <1>5. call' = [call EXCEPT ![r] = new]
    BY <1>2 DEF RegistriesIInv, RegistryTypes, WriteTmp, Advance
  <1>6. /\ new \in RegistryRequests /\ new.at = "chmod" /\ new.fd = call[r].fd /\ new.alone = call[r].alone
        /\ new.cfg = call[r].cfg /\ new.registry = call[r].registry /\ new.credential = call[r].credential
    BY <1>2 DEF RegistryRequests
  <1> HIDE DEF new
  <1>7. i \in Inodes /\ data \in Documents \cup {HalfWritten}
    BY <1>2 DEF RegistryRequests
  <1>8. inode' \in [Inodes -> InodeTypes] /\ inode'[i].data = data /\ \A j \in Inodes \ {i} : inode'[j] = inode[j]
    BY <1>4, <1>7 DEF RegistriesIInv, RegistryTypes, InodeTypes
  <1>9. RegistryTypes'
    BY <1>5, <1>6, <1>8 DEF RegistryTypes, RegistriesIInv
  <1>10. call[r].alone => StoredSoFar(r)'
    <2>1. ASSUME call[r].alone PROVE StoredSoFar(r)'
      <3>1. call[r].cfg = Asked(r) /\ tmp = {i} /\ call[r].fd = {i} /\ inode[i].data = HalfWritten
        BY <1>1, <2>1 DEF RegistriesIInv, AloneSoFar, StoredSoFar
      <3>2. \A j \in config : inode'[j] = inode[j]
        BY <1>8, <3>1 DEF RegistriesIInv, NamesApart, Single
      <3>3. Parsed(config)' = Parsed(config)
        BY <1>1, <3>2, ParsedStays
      <3>4. call'[r] = new
        BY <1>5 DEF RegistriesIInv, RegistryTypes
      <3>5. Asked(r)' = Asked(r)
        BY <1>6, <3>3, <3>4 DEF Asked
      <3>6. data = call[r].cfg
        BY <3>1
      <3>. QED
        BY <1>1, <1>6, <1>7, <1>8, <3>1, <3>4, <3>5, <3>6 DEF StoredSoFar
    <2>. QED
      BY <2>1
  <1>11. AloneIsAlone' /\ AloneSoFar'
    BY <1>1, <1>5, <1>6, <1>10, OneActs DEF RegistriesIInv
  <1>12. NamesApart'
    BY <1>1 DEF NamesApart, Single, RegistriesIInv
  <1>. QED
    BY <1>9, <1>11, <1>12 DEF RegistriesIInv

LEMMA ChmodKeeps ==
  ASSUME RegistriesIInv, NEW r \in Savers, ChmodTmp(r)
  PROVE  RegistriesIInv'
  <1>1. UnderWay(r) /\ UNCHANGED config /\ call[r].at = "chmod"
    BY DEF ChmodTmp, UnderWay, GiveUp
  <1>2. CASE tmp = {}
    BY <1>1, <1>2, EndKeeps DEF ChmodTmp, GiveUp
  <1>3. CASE tmp # {}
    <2>1. call[r] \in RegistryRequests
      BY <1>1, CallsAre DEF RegistriesIInv
    <2> DEFINE new == [call[r] EXCEPT !.at = "rename"]
    <2>2. /\ inode' = [i \in Inodes |-> IF i \in tmp THEN [inode[i] EXCEPT !.closed = TRUE] ELSE inode[i]]
          /\ call' = [call EXCEPT ![r] = new] /\ UNCHANGED tmp
      BY <1>3, <2>1 DEF ChmodTmp, Advance, RegistriesIInv, RegistryTypes
    <2>3. /\ new \in RegistryRequests /\ new.at = "rename" /\ new.fd = call[r].fd /\ new.alone = call[r].alone
          /\ new.cfg = call[r].cfg /\ new.registry = call[r].registry /\ new.credential = call[r].credential
      BY <2>1 DEF RegistryRequests
    <2> HIDE DEF new
    <2>4. \A i \in Inodes : /\ inode'[i] \in InodeTypes /\ inode'[i].data = inode[i].data
                            /\ i \in tmp => inode'[i].closed
                            /\ i \notin tmp => inode'[i] = inode[i]
      BY <2>2 DEF RegistriesIInv, RegistryTypes, InodeTypes
    <2>5. RegistryTypes'
      BY <2>2, <2>3, <2>4 DEF RegistryTypes, RegistriesIInv
    <2>6. call[r].alone => StoredSoFar(r)'
      <3>1. ASSUME call[r].alone PROVE StoredSoFar(r)'
        <4>1. PICK i \in Inodes : tmp = {i} /\ call[r].fd = {i} /\ inode[i].data = call[r].cfg
          BY <1>1, <3>1 DEF RegistriesIInv, AloneSoFar, StoredSoFar
        <4>2. call[r].cfg = Asked(r)
          BY <1>1, <3>1 DEF RegistriesIInv, AloneSoFar, StoredSoFar
        <4>3. \A j \in config : inode'[j] = inode[j]
          BY <2>4, <4>1 DEF RegistriesIInv, NamesApart, Single
        <4>4. Parsed(config)' = Parsed(config)
          BY <1>1, <4>3, ParsedStays
        <4>5. call'[r] = new
          BY <2>2 DEF RegistriesIInv, RegistryTypes
        <4>6. Asked(r)' = Asked(r)
          BY <2>3, <4>4, <4>5 DEF Asked
        <4>. QED
          BY <2>2, <2>3, <2>4, <4>1, <4>2, <4>5, <4>6 DEF StoredSoFar
      <3>. QED
        BY <3>1
    <2>7. AloneIsAlone' /\ AloneSoFar'
      BY <1>1, <2>2, <2>3, <2>6, OneActs DEF RegistriesIInv
    <2>8. NamesApart'
      BY <1>1, <2>2 DEF NamesApart, Single, RegistriesIInv
    <2>. QED
      BY <2>5, <2>7, <2>8 DEF RegistriesIInv
  <1>. QED
    BY <1>2, <1>3

LEMMA RenameKeeps ==
  ASSUME RegistriesIInv, NEW r \in Savers, Rename(r) \/ WriteTmpFails(r)
  PROVE  RegistriesIInv'
  <1>1. UnderWay(r) /\ tmp' = {} /\ UNCHANGED inode /\ call' = [call EXCEPT ![r] = Returned]
    BY DEF Rename, WriteTmpFails, GiveUp, UnderWay
  <1>2. config' = config \/ config' = tmp
    BY DEF Rename, WriteTmpFails, GiveUp
  <1>. QED
    BY <1>1, <1>2, EndKeeps

LEMMA RegistriesInvariantHolds == RegistriesSpec => []RegistriesIInv
  <1>1. ASSUME RegistriesInit PROVE RegistriesIInv
    <2>1. PICK first \in Inodes, known \in {NoEntries} \cup [Registry -> Credential] :
            /\ config \in {{}, {first}}
            /\ inode = [i \in Inodes |-> IF i = first THEN [data |-> known, closed |-> TRUE] ELSE Blank]
      BY <1>1 DEF RegistriesInit
    <2>2. known \in Documents
      BY DEF NoEntries, Documents
    <2>3. inode \in [Inodes -> InodeTypes]
      BY <2>1, <2>2 DEF InodeTypes, Blank
    <2>4. RegistryTypes
      BY <1>1, <2>3 DEF RegistriesInit, RegistryTypes
    <2>5. NamesApart
      BY <1>1, <2>1 DEF RegistriesInit, NamesApart, Single
    <2>6. \A r \in Savers : ~UnderWay(r)
      BY <1>1, ReturnedIsDone DEF RegistriesInit, UnderWay
    <2>. QED
      BY <2>4, <2>5, <2>6 DEF RegistriesIInv, AloneIsAlone, AloneSoFar
  <1>2. ASSUME RegistriesIInv, [RegistriesNext]_registriesVars PROVE RegistriesIInv'
    <2>1. CASE UNCHANGED registriesVars
      BY <1>2, <2>1 DEF registriesVars, RegistriesIInv, RegistryTypes, NamesApart, Single, AloneIsAlone, AloneSoFar, StoredSoFar,
                        UnderWay, Asked, Parsed
    <2>2. CASE RegistriesNext
      BY <1>2, <2>2, StartKeeps, ReadKeeps, OpenKeeps, WriteTmpKeeps, ChmodKeeps, RenameKeeps DEF RegistriesNext
    <2>. QED
      BY <1>2, <2>1, <2>2
  <1>. QED
    BY <1>1, <1>2, PTL DEF RegistriesSpec

(* The two names, the files and the requests keep their types. *)
THEOREM RegistriesTypeCorrect == RegistriesSpec => []RegistriesTypeOK
  <1>1. ASSUME RegistriesIInv PROVE RegistriesTypeOK
    <2>1. \A file : Single(file) => file \subseteq Inodes /\ Cardinality(file) <= 1
      <3>1. Cardinality({}) = 0 /\ \A i : Cardinality({i}) = 1
        BY FS_EmptySet, FS_Singleton
      <3>. QED
        BY <3>1 DEF Single
    <2>2. \A r \in Savers : call[r].fd \subseteq Inodes
      BY <1>1, CallsAre, ReturnedIsDone DEF RegistriesIInv, RegistryRequests
    <2>. QED
      BY <1>1, <2>1, <2>2 DEF RegistriesIInv, NamesApart, RegistryTypes, InodeTypes, RegistriesTypeOK
  <1>. QED
    BY <1>1, RegistriesInvariantHolds, PTL

(* A credential that is stored or removed while no other request is under way changes its own       *)
(* entry and no other one, and leaves a whole file that is closed to others, for any number of      *)
(* requests and whatever an earlier overlap left behind (registries.go:195-200, 265-268).           *)
THEOREM AloneKeepsOthers == RegistriesSpec => AloneKeeps
  <1> DEFINE Ends(r) == call[r].at \in {"fill", "chmod", "rename"} /\ call[r].alone /\ call'[r] = Returned
             Kept == config' = config /\ \A i \in config : inode'[i] = inode[i]
             Stored(r) == \A i \in config' : inode'[i].closed /\ inode'[i].data = Asked(r)
             Step == \A r \in Savers :
                       call[r].at \in {"fill", "chmod", "rename"} /\ call[r].alone /\ call'[r] = Returned =>
                         \/ config' = config /\ \A i \in config : inode'[i] = inode[i]
                         \/ \A i \in config' :
                              /\ inode'[i].closed
                              /\ inode'[i].data = [Parsed(config) EXCEPT ![call[r].registry] = call[r].credential]
  <1>1. ASSUME RegistriesIInv, RegistriesNext, NEW r \in Savers, Ends(r) PROVE Kept \/ Stored(r)
    <2>1. UnderWay(r) /\ call[r] # Returned /\ call'[r] # call[r]
      BY <1>1, ReturnedIsDone DEF UnderWay
    <2>2. \A q \in Savers \ {r} : call[q] = Returned
      BY <1>1, <2>1 DEF RegistriesIInv, AloneIsAlone
    <2>3. PICK q \in Savers :
            \/ \E registry \in Registry, credential \in Credential \cup {NoCredential} : Start(q, registry, credential)
            \/ Read(q) \/ Open(q) \/ WriteTmp(q) \/ WriteTmpFails(q) \/ ChmodTmp(q) \/ Rename(q)
      BY <1>1 DEF RegistriesNext
    <2>4. CASE \E registry \in Registry, credential \in Credential \cup {NoCredential} : Start(q, registry, credential)
      BY <2>4 DEF Start
    <2>5. CASE ~\E registry \in Registry, credential \in Credential \cup {NoCredential} : Start(q, registry, credential)
      <3>1. q = r
        BY <2>2, <2>3, <2>5, ReturnedIsDone DEF Read, Open, WriteTmp, WriteTmpFails, ChmodTmp, Rename
      <3>2. CASE Rename(r) /\ tmp # {}
        <4>1. PICK i \in Inodes : tmp = {i} /\ inode[i].data = call[r].cfg /\ inode[i].closed
          BY <1>1, <2>1, <3>2 DEF Rename, RegistriesIInv, AloneSoFar, StoredSoFar
        <4>2. call[r].cfg = Asked(r)
          BY <1>1, <2>1, <3>2 DEF Rename, RegistriesIInv, AloneSoFar, StoredSoFar
        <4>. QED
          BY <3>2, <4>1, <4>2 DEF Rename
      <3>3. CASE WriteTmp(r) \/ (ChmodTmp(r) /\ tmp # {})
        <4>1. \E at \in {"chmod", "rename"} : call' = [call EXCEPT ![r].at = at]
          BY <3>3 DEF WriteTmp, ChmodTmp, Advance
        <4>2. call[r] \in RegistryRequests
          BY <1>1, <2>1, CallsAre DEF RegistriesIInv
        <4>3. call'[r].at \in {"chmod", "rename"}
          BY <1>1, <4>1, <4>2 DEF RegistriesIInv, RegistryTypes, RegistryRequests
        <4>. QED
          BY <1>1, <4>3, ReturnedIsDone
      <3>4. CASE GiveUp(r)
        BY <3>4 DEF GiveUp
      <3>5. ~Read(r) /\ ~Open(r)
        BY <1>1 DEF Read, Open
      <3>6. WriteTmp(r) \/ WriteTmpFails(r) \/ ChmodTmp(r) \/ Rename(r)
        BY <2>3, <2>5, <3>1, <3>5
      <3>7. (ChmodTmp(r) /\ tmp # {}) \/ (Rename(r) /\ tmp # {}) \/ WriteTmp(r) \/ GiveUp(r)
        BY <3>6 DEF WriteTmpFails, ChmodTmp, Rename
      <3>. QED
        BY <3>2, <3>3, <3>4, <3>7
    <2>. QED
      BY <2>4, <2>5
  <1>2. RegistriesIInv /\ [RegistriesNext]_registriesVars => [Step]_registriesVars
    BY <1>1 DEF Asked
  <1> HIDE DEF Step
  <1>3. RegistriesSpec => [][Step]_registriesVars
    BY <1>2, RegistriesInvariantHolds, PTL DEF RegistriesSpec
  <1>. QED
    BY <1>3 DEF Step, AloneKeeps

--------------------------------------------------------------------------------
(***************************************************************************)
(* Watching the swarm.  Between the difference and its events, what is     *)
(* still to be said is exactly where what listeners heard and what is held *)
(* differ; and what a manager saw drained is drained, and took on nothing,  *)
(* unless somebody undrained it.                                           *)
(***************************************************************************)
Views == [reachable : BOOLEAN, nodes : SUBSET Workers, busy : SUBSET Workers, stuck : SUBSET Tasks]
Clocking == [step : {"clock"}, view : Views, full : Views]
Comparing == [step : {"compare"}, view : Views, empty : SUBSET Workers, full : Views]
Emitting == [step : {"emit"}, raised : SUBSET Ids, cleared : SUBSET Ids, full : Views]
Machines == [known : BOOLEAN, state : {"ready", "down"}, availability : {"active", "drain"}]
Acting ==
    [step : {"act"}, node : Workers, state : {"ready", "down"}, availability : {"active", "drain"},
     there : SUBSET Tasks, undrained : BOOLEAN]
Events == {"nothing", "signal.raised", "signal.cleared"}

SwarmTypes ==
    /\ place \in [Tasks -> Workers \cup {"manager", "pending", "new", "gone"}]
    /\ machine \in [Workers -> Machines]
StillDrained(s) ==
    s.step = "act" /\ s.availability = "drain" =>
        \/ s.undrained
        \/ /\ machine[s.node].availability = "drain"
           /\ \A t \in Tasks : place[t] = s.node => t \in s.there
TakesNothing == \A a \in Managers : StillDrained(actor[a])
Swarm == SwarmTypes /\ TakesNothing

WatchTypes ==
    /\ emptySince \subseteq Workers /\ sent \subseteq Ids /\ told \in [Ids -> Events]
    /\ actor \in [Looking \cup Managers -> {Rest} \cup Clocking \cup Comparing \cup Emitting \cup Acting]
    /\ \A a \in Looking : actor[a] \in {Rest} \cup Clocking \cup (IF a = Ticker THEN Comparing \cup Emitting ELSE {})
    /\ \A a \in Managers : actor[a] \in {Rest} \cup Acting
ComparesWhatItSaw ==
    actor[Ticker].step = "compare" =>
        actor[Ticker].view.reachable /\ actor[Ticker].empty = actor[Ticker].view.nodes \ actor[Ticker].view.busy
ToldSoFar ==
    IF actor[Ticker].step = "emit"
    THEN \A id \in Ids :
           /\ id \in actor[Ticker].raised => told[id] # "signal.raised" /\ id \in sent
           /\ id \in actor[Ticker].cleared => told[id] = "signal.raised" /\ id \notin sent
           /\ id \notin actor[Ticker].raised \cup actor[Ticker].cleared => (told[id] = "signal.raised" <=> id \in sent)
    ELSE \A id \in Ids : told[id] = "signal.raised" <=> id \in sent
Watch == WatchTypes /\ ComparesWhatItSaw /\ ToldSoFar
SignalsIInv == Swarm /\ Watch

LEMMA StepsAre ==
  /\ Ticker \in Looking /\ Looking \cap Managers = {} /\ Pollers \subseteq Looking
  /\ Workers \cap {"manager", "pending", "new", "gone"} = {}
  /\ Rest.step = "idle"
  BY SignalsAssumption DEF Looking, Rest

LEMMA ViewsAreSeen ==
  ASSUME SwarmTypes, NEW q
  PROVE  View(q) \in Views
  BY DEF View, Views, NodesOf, KnownNodes, Stuck

(* A step of one actor leaves the others where they are. *)
LEMMA ActorMoves ==
  ASSUME WatchTypes, NEW a \in Looking \cup Managers, NEW s, SetActor(a, s)
  PROVE  /\ actor'[a] = s /\ DOMAIN actor' = Looking \cup Managers
         /\ actor' = [actor EXCEPT ![a] = s]
         /\ \A b \in (Looking \cup Managers) \ {a} : actor'[b] = actor[b]
  BY DEF WatchTypes, SetActor

LEMMA LookerMoves ==
  ASSUME WatchTypes, NEW a \in Looking, NEW s, SetActor(a, s), emptySince' \subseteq Workers, sent' \subseteq Ids,
         told' \in [Ids -> Events],
         s \in {Rest} \cup Clocking \cup (IF a = Ticker THEN Comparing \cup Emitting ELSE {})
  PROVE  WatchTypes'
  <1>1. actor' = [actor EXCEPT ![a] = s] /\ actor'[a] = s /\ \A b \in (Looking \cup Managers) \ {a} : actor'[b] = actor[b]
    BY ActorMoves
  <1>2. actor' \in [Looking \cup Managers -> {Rest} \cup Clocking \cup Comparing \cup Emitting \cup Acting]
    BY <1>1 DEF WatchTypes
  <1>3. \A b \in Managers : b # a
    BY StepsAre
  <1>4. \A b \in Managers : actor'[b] \in {Rest} \cup Acting
    BY <1>1, <1>3 DEF WatchTypes
  <1>5. \A b \in Looking : actor'[b] \in {Rest} \cup Clocking \cup (IF b = Ticker THEN Comparing \cup Emitting ELSE {})
    BY <1>1 DEF WatchTypes
  <1>. QED
    BY <1>2, <1>4, <1>5 DEF WatchTypes

LEMMA ManagersMove ==
  ASSUME Watch, UNCHANGED clockVars, DOMAIN actor' = Looking \cup Managers, actor' = [b \in DOMAIN actor' |-> actor'[b]],
         \A b \in Looking : actor'[b] = actor[b], \A b \in Managers : actor'[b] \in {Rest} \cup Acting
  PROVE  Watch'
  <1>1. actor' \in [Looking \cup Managers -> {Rest} \cup Clocking \cup Comparing \cup Emitting \cup Acting]
    BY DEF Watch, WatchTypes
  <1>2. WatchTypes'
    BY <1>1 DEF Watch, WatchTypes, clockVars
  <1>3. actor'[Ticker] = actor[Ticker]
    BY StepsAre
  <1>. QED
    BY <1>2, <1>3 DEF Watch, ComparesWhatItSaw, ToldSoFar, clockVars

LEMMA ManagerMoves ==
  ASSUME Watch, NEW a \in Managers, NEW s, SetActor(a, s), UNCHANGED clockVars, s \in {Rest} \cup Acting
  PROVE  Watch'
  <1>1. actor' = [actor EXCEPT ![a] = s] /\ actor'[a] = s /\ \A b \in (Looking \cup Managers) \ {a} : actor'[b] = actor[b]
    BY ActorMoves DEF Watch
  <1>2. \A b \in Looking : actor'[b] = actor[b]
    BY <1>1, StepsAre
  <1>3. DOMAIN actor' = Looking \cup Managers /\ actor' = [b \in DOMAIN actor' |-> actor'[b]]
    BY <1>1 DEF Watch, WatchTypes
  <1>4. \A b \in Managers : actor'[b] \in {Rest} \cup Acting
    BY <1>1 DEF Watch, WatchTypes
  <1>. QED
    BY <1>2, <1>3, <1>4, ManagersMove

LEMMA SwarmStays ==
  ASSUME SignalsIInv, NEW a \in Looking, NEW s, SetActor(a, s), UNCHANGED <<place, machine>>
  PROVE  Swarm'
  <1>1. \A b \in Managers : actor'[b] = actor[b]
    BY ActorMoves, StepsAre DEF SignalsIInv, Watch
  <1>2. TakesNothing'
    BY <1>1 DEF SignalsIInv, Swarm, TakesNothing, StillDrained
  <1>. QED
    BY <1>2 DEF SignalsIInv, Swarm, SwarmTypes

(* What the ticker holds while it is not between the difference and its events. *)
LEMMA Quietly ==
  ASSUME Watch, WatchTypes', UNCHANGED <<sent, told>>, actor[Ticker].step # "emit", actor'[Ticker].step # "emit", ComparesWhatItSaw'
  PROVE  Watch'
  BY DEF Watch, ToldSoFar

LEMMA LookKeeps ==
  ASSUME SignalsIInv, NEW a \in Looking, LookAtSwarm(a)
  PROVE  SignalsIInv'
  <1>1. UNCHANGED <<place, machine, emptySince, sent, told>> /\ actor[a] = Rest
    BY DEF LookAtSwarm, clusterVars, clockVars
  <1>2. PICK q : SetActor(a, [step |-> "clock", view |-> View(q), full |-> View("nothing")])
    BY DEF LookAtSwarm
  <1> DEFINE s == [step |-> "clock", view |-> View(q), full |-> View("nothing")]
  <1>3. s \in Clocking /\ s.step = "clock"
    BY ViewsAreSeen DEF Clocking, SignalsIInv, Swarm
  <1> HIDE DEF s
  <1>4. SetActor(a, s)
    BY <1>2 DEF s
  <1>5. WatchTypes'
    BY <1>1, <1>3, <1>4, LookerMoves DEF SignalsIInv, Watch, WatchTypes
  <1>6. actor'[a] = s /\ \A b \in Looking \ {a} : actor'[b] = actor[b]
    BY <1>4, ActorMoves DEF SignalsIInv, Watch
  <1>0. Swarm'
    BY <1>1, <1>4, SwarmStays
  <1>7. CASE a = Ticker
    BY <1>0, <1>1, <1>3, <1>5, <1>6, <1>7, StepsAre, Quietly DEF ComparesWhatItSaw, SignalsIInv
  <1>8. CASE a # Ticker
    BY <1>0, <1>1, <1>5, <1>6, <1>8, StepsAre DEF Watch, ComparesWhatItSaw, ToldSoFar, SignalsIInv
  <1>. QED
    BY <1>7, <1>8

LEMMA ClockKeeps ==
  ASSUME SignalsIInv, NEW a \in Looking, Clock(a)
  PROVE  SignalsIInv'
  <1>1. UNCHANGED <<place, machine, sent, told>> /\ actor[a].step = "clock"
    BY DEF Clock, clusterVars
  <1>2. actor[a] \in Clocking
    BY <1>1, StepsAre DEF SignalsIInv, Watch, WatchTypes, Clocking, Comparing, Emitting
  <1>3. actor[a].view \in Views /\ actor[a].full \in Views
    BY <1>2 DEF Clocking
  <1>4. emptySince' = actor[a].view.nodes \ actor[a].view.busy /\ emptySince' \subseteq Workers
    BY <1>3 DEF Clock, ClocksOf, Views
  <1> DEFINE c == [step |-> "compare", view |-> actor[a].view, empty |-> emptySince', full |-> actor[a].full]
  <1>5. c \in Comparing /\ c.step = "compare" /\ c.view = actor[a].view /\ c.empty = emptySince'
    BY <1>3, <1>4 DEF Comparing
  <1> HIDE DEF c
  <1>6. SetActor(a, Rest) \/ (a = Ticker /\ actor[a].view.reachable /\ SetActor(a, c))
    BY DEF Clock, Answered, c
  <1>0. Swarm'
    BY <1>1, <1>6, SwarmStays
  <1>7. WatchTypes'
    <2>1. sent' \subseteq Ids /\ told' \in [Ids -> Events]
      BY <1>1 DEF SignalsIInv, Watch, WatchTypes
    <2>. QED
      BY <1>4, <1>5, <1>6, <2>1, LookerMoves DEF SignalsIInv, Watch
  <1>8. CASE a = Ticker
    <2>1. actor'[Ticker] = Rest \/ (actor[a].view.reachable /\ actor'[Ticker] = c)
      BY <1>6, <1>8, ActorMoves DEF SignalsIInv, Watch
    <2>2. actor'[Ticker].step # "emit" /\ ComparesWhatItSaw'
      BY <1>4, <1>5, <1>8, <2>1, StepsAre DEF ComparesWhatItSaw
    <2>. QED
      BY <1>0, <1>1, <1>7, <1>8, <2>2, Quietly DEF SignalsIInv
  <1>9. CASE a # Ticker
    <2>1. actor'[Ticker] = actor[Ticker]
      BY <1>6, <1>9, ActorMoves, StepsAre DEF SignalsIInv, Watch
    <2>. QED
      BY <1>0, <1>1, <1>7, <2>1 DEF Watch, ComparesWhatItSaw, ToldSoFar, SignalsIInv
  <1>. QED
    BY <1>8, <1>9

(* What the ticker holds to be true now are ids. *)
LEMMA NowIsIds ==
  ASSUME NEW view \in Views, NEW empty \in SUBSET Workers
  PROVE  Now(view, empty) \subseteq Ids
  BY DEF Now, Ids, Views

LEMMA CompareKeeps ==
  ASSUME SignalsIInv, Compare
  PROVE  SignalsIInv'
  <1> DEFINE now == Now(actor[Ticker].view, actor[Ticker].empty)
             s == [step |-> "emit", raised |-> now \ sent, cleared |-> sent \ now, full |-> actor[Ticker].full]
  <1>1. UNCHANGED <<place, machine, emptySince, told>> /\ actor[Ticker].step = "compare" /\ SetActor(Ticker, s) /\ sent' = now
    BY DEF Compare, clusterVars, Raised, Remember
  <1>2. actor[Ticker] \in Comparing /\ sent \subseteq Ids
    BY <1>1, StepsAre DEF SignalsIInv, Watch, WatchTypes, Clocking, Comparing, Emitting
  <1>3. now \subseteq Ids
    BY <1>2, NowIsIds DEF Comparing
  <1> HIDE DEF now
  <1>4. s \in Emitting /\ s.step = "emit" /\ s.raised = now \ sent /\ s.cleared = sent \ now
    BY <1>2, <1>3 DEF Emitting, Comparing
  <1> HIDE DEF s
  <1>5. WatchTypes'
    BY <1>1, <1>3, <1>4, LookerMoves, StepsAre DEF SignalsIInv, Watch, WatchTypes
  <1>6. actor'[Ticker] = s
    BY <1>1, ActorMoves, StepsAre DEF SignalsIInv, Watch
  <1>7. \A id \in Ids : told[id] = "signal.raised" <=> id \in sent
    BY <1>1 DEF SignalsIInv, Watch, ToldSoFar
  <1>0. Swarm'
    BY <1>1, StepsAre, SwarmStays
  <1>8. ToldSoFar' /\ ComparesWhatItSaw'
    BY <1>1, <1>4, <1>6, <1>7 DEF ToldSoFar, ComparesWhatItSaw
  <1>. QED
    BY <1>0, <1>1, <1>5, <1>8 DEF SignalsIInv, Watch

LEMMA EmitKeeps ==
  ASSUME SignalsIInv, Emit
  PROVE  SignalsIInv'
  <1>1. UNCHANGED <<place, machine, emptySince, sent>> /\ actor[Ticker].step = "emit" /\ SetActor(Ticker, Rest)
    BY DEF Emit, clusterVars
  <1>2. told \in [Ids -> Events]
    BY DEF SignalsIInv, Watch, WatchTypes
  <1>3. told' = [id \in Ids |-> Says(id)]
    BY <1>2 DEF Emit
  <1>4. \A id \in Ids : Says(id) \in Events
    BY <1>2 DEF Says, Events
  <1>5. WatchTypes'
    BY <1>1, <1>3, <1>4, LookerMoves, StepsAre DEF SignalsIInv, Watch, WatchTypes
  <1>6. actor'[Ticker] = Rest
    BY <1>1, ActorMoves, StepsAre DEF SignalsIInv, Watch
  <1>7. \A id \in Ids : told'[id] = "signal.raised" <=> id \in sent
    BY <1>1, <1>3 DEF Says, SignalsIInv, Watch, ToldSoFar
  <1>0. Swarm'
    BY <1>1, StepsAre, SwarmStays
  <1>8. ToldSoFar' /\ ComparesWhatItSaw'
    BY <1>1, <1>6, <1>7, StepsAre DEF ToldSoFar, ComparesWhatItSaw
  <1>. QED
    BY <1>0, <1>1, <1>5, <1>8 DEF SignalsIInv, Watch

(* What pstack changes of a node is whether it is drained, and whether docker knows it. *)
LEMMA ManagersKeep ==
  ASSUME SignalsIInv, NEW a \in Managers,
         \/ \E n \in Workers : LookAtNode(a, n)
         \/ \E v \in {"drain", "active"} : SetAvailability(a, v)
         \/ RemoveNode(a) \/ RefuseRemoval(a)
  PROVE  SignalsIInv'
  <1>1. UNCHANGED <<place, clockVars>>
    BY DEF LookAtNode, SetAvailability, RemoveNode, RefuseRemoval, clusterVars
  <1>2. machine \in [Workers -> Machines] /\ Watch /\ WatchTypes /\ TakesNothing
        /\ \A b \in Managers : actor[b] \in {Rest} \cup Acting
    BY DEF SignalsIInv, Swarm, SwarmTypes, Watch, WatchTypes
  <1>3. actor[a].step = "act" => actor[a] \in Acting /\ actor[a].node \in Workers
    BY <1>2, StepsAre DEF Acting
  <1>5. CASE \E n \in Workers : LookAtNode(a, n)
    <2>1. PICK n \in Workers : LookAtNode(a, n)
      BY <1>5
    <2>2. Seen(n) \in Acting /\ SetActor(a, Seen(n)) /\ UNCHANGED machine
      BY <1>2, <2>1 DEF Seen, Acting, Machines, LookAtNode, clusterVars
    <2>3. StillDrained(Seen(n))
      BY DEF StillDrained, Seen
    <2>4. \A b \in Managers : actor'[b] = Seen(n) \/ actor'[b] = actor[b]
      BY <1>2, <2>2, ActorMoves
    <2>5. TakesNothing'
      BY <1>1, <1>2, <2>2, <2>3, <2>4 DEF TakesNothing, StillDrained
    <2>6. Watch'
      BY <1>1, <1>2, <2>2, ManagerMoves
    <2>. QED
      BY <1>1, <1>2, <2>2, <2>5, <2>6 DEF SignalsIInv, Swarm, SwarmTypes
  <1>6. ASSUME SetActor(a, Rest), machine' \in [Workers -> Machines],
               \A n \in Workers : machine'[n].availability \in {machine[n].availability, "drain"}
        PROVE  SignalsIInv'
    <2>1. \A b \in Managers : actor'[b] = Rest \/ actor'[b] = actor[b]
      BY <1>2, <1>6, ActorMoves
    <2>2. TakesNothing'
      <3> SUFFICES ASSUME NEW b \in Managers PROVE StillDrained(actor[b])'
        BY DEF TakesNothing
      <3>1. CASE actor'[b] = Rest
        BY <3>1, StepsAre DEF StillDrained
      <3>2. CASE actor'[b] = actor[b] /\ actor[b] \in Acting
        <4>1. actor[b].node \in Workers
          BY <3>2 DEF Acting
        <4>. QED
          BY <1>1, <1>2, <1>6, <3>2, <4>1 DEF TakesNothing, StillDrained
      <3>. QED
        BY <1>2, <2>1, <3>1, <3>2
    <2>3. Watch'
      BY <1>1, <1>2, <1>6, ManagerMoves
    <2>. QED
      BY <1>1, <1>6, <2>2, <2>3 DEF SignalsIInv, Swarm, SwarmTypes
  <1>7. CASE RemoveNode(a) \/ RefuseRemoval(a)
    <2>1. SetActor(a, Rest) /\ (machine' = machine \/ (machine' = NodeRm(actor[a].node) /\ actor[a].node \in Workers))
      BY <1>3, <1>7 DEF RemoveNode, RefuseRemoval, clusterVars
    <2>2. CASE machine' = machine
      BY <1>2, <1>6, <2>1, <2>2
    <2>3. CASE machine' # machine
      <3>1. machine' = [machine EXCEPT ![actor[a].node] = [machine[actor[a].node] EXCEPT !.known = FALSE]] /\ actor[a].node \in Workers
        BY <1>2, <2>1, <2>3 DEF NodeRm
      <3>2. /\ [machine[actor[a].node] EXCEPT !.known = FALSE] \in Machines
            /\ [machine[actor[a].node] EXCEPT !.known = FALSE].availability = machine[actor[a].node].availability
        BY <1>2, <3>1 DEF Machines
      <3>3. machine' \in [Workers -> Machines] /\ \A n \in Workers : machine'[n].availability = machine[n].availability
        BY <1>2, <3>1, <3>2
      <3>. QED
        BY <1>6, <2>1, <3>3
    <2>. QED
      BY <2>2, <2>3
  <1>8. ASSUME NEW v \in {"drain", "active"}, SetAvailability(a, v) PROVE SignalsIInv'
    <2>1. actor[a].step = "act" /\ actor[a].node \in Workers
      BY <1>3, <1>8 DEF SetAvailability
    <2> DEFINE n == actor[a].node
    <2>2. CASE SetActor(a, Rest) /\ UNCHANGED machine
      BY <1>2, <1>6, <2>2
    <2>3. CASE ~(SetActor(a, Rest) /\ UNCHANGED machine)
      <3>1. /\ machine' = [machine EXCEPT ![n] = [machine[n] EXCEPT !.availability = v]]
            /\ actor' = [(IF v = "active" THEN Undrained(n) ELSE actor) EXCEPT ![a] = Rest]
        BY <1>2, <1>8, <2>1, <2>3 DEF SetAvailability
      <3>2. [machine[n] EXCEPT !.availability = v] \in Machines /\ [machine[n] EXCEPT !.availability = v].availability = v
        BY <1>2, <2>1 DEF Machines
      <3>3. /\ machine' \in [Workers -> Machines] /\ machine'[n].availability = v
            /\ \A m \in Workers \ {n} : machine'[m] = machine[m]
        BY <1>2, <2>1, <3>1, <3>2
      <3>4. CASE v = "drain"
        <4>1. SetActor(a, Rest)
          BY <3>1, <3>4 DEF SetActor
        <4>2. \A m \in Workers : machine'[m].availability \in {machine[m].availability, "drain"}
          BY <2>1, <3>3, <3>4
        <4>. QED
          BY <1>6, <3>3, <4>1, <4>2
      <3>5. CASE v = "active"
        <4>1. /\ DOMAIN actor = Looking \cup Managers /\ \A b \in Looking : actor[b].step # "act"
              /\ a \in Looking \cup Managers /\ a \notin Looking
          BY <1>2, StepsAre DEF WatchTypes, Clocking, Comparing, Emitting
        <4>2. /\ DOMAIN actor' = Looking \cup Managers /\ actor' = [b \in DOMAIN actor' |-> actor'[b]] /\ actor'[a] = Rest
              /\ \A b \in (Looking \cup Managers) \ {a} : actor'[b] = Undrained(n)[b]
          BY <3>1, <3>5, <4>1 DEF Undrained
        <4>3. \A b \in Looking : actor'[b] = actor[b]
          BY <4>1, <4>2 DEF Undrained
        <4>4. ASSUME NEW b \in Managers \ {a}, actor[b].step = "act", actor[b].node = n
              PROVE  actor'[b] \in Acting /\ actor'[b].undrained
          <5>1. actor'[b] = [actor[b] EXCEPT !.undrained = TRUE] /\ actor[b] \in Acting
            BY <1>2, <4>1, <4>2, <4>4, StepsAre DEF Undrained
          <5>. QED
            BY <5>1 DEF Acting
        <4>5. ASSUME NEW b \in Managers \ {a}, ~(actor[b].step = "act" /\ actor[b].node = n)
              PROVE  actor'[b] = actor[b]
          BY <4>1, <4>2, <4>5 DEF Undrained
        <4>6. Watch'
          <5>1. \A b \in Managers : actor'[b] \in {Rest} \cup Acting
            BY <1>2, <4>2, <4>4, <4>5
          <5>. QED
            BY <1>1, <1>2, <4>2, <4>3, <5>1, ManagersMove
        <4>7. TakesNothing'
          <5> SUFFICES ASSUME NEW b \in Managers PROVE StillDrained(actor[b])'
            BY DEF TakesNothing
          <5>1. CASE b = a
            BY <4>2, <5>1, StepsAre DEF StillDrained
          <5>2. CASE b # a /\ actor[b].step = "act" /\ actor[b].node = n
            BY <4>4, <5>2 DEF StillDrained
          <5>3. CASE b # a /\ ~(actor[b].step = "act" /\ actor[b].node = n)
            <6>1. actor'[b] = actor[b] /\ (actor[b].step = "act" => actor[b].node \in Workers \ {n})
              BY <1>2, <4>5, <5>3, StepsAre DEF Acting
            <6>. QED
              BY <1>1, <1>2, <3>3, <6>1 DEF TakesNothing, StillDrained
          <5>. QED
            BY <5>1, <5>2, <5>3
        <4>. QED
          BY <1>1, <1>2, <3>3, <4>6, <4>7 DEF SignalsIInv, Swarm, SwarmTypes
      <3>. QED
        BY <3>4, <3>5
    <2>. QED
      BY <2>2, <2>3
  <1>. QED
    BY <1>5, <1>7, <1>8

LEMMA WorldKeeps ==
  ASSUME SignalsIInv, (\E t \in Tasks : TaskMoves(t) \/ Evict(t)) \/ \E n \in Workers : MachineMoves(n)
  PROVE  SignalsIInv'
  <1>1. UNCHANGED actor
    BY DEF TaskMoves, Evict, MachineMoves, Move
  <1>2. Watch'
    BY DEF TaskMoves, Evict, MachineMoves, Move, clockVars, SignalsIInv, Watch, WatchTypes, ComparesWhatItSaw, ToldSoFar
  <1>3. /\ machine \in [Workers -> Machines] /\ SwarmTypes /\ TakesNothing
        /\ \A b \in Managers : actor[b].step = "act" => actor[b].node \in Workers
    BY StepsAre DEF SignalsIInv, Swarm, SwarmTypes, Watch, WatchTypes, Acting
  <1>4. Swarm'
    <2>1. ASSUME NEW t \in Tasks, NEW p, place' = [place EXCEPT ![t] = p], UNCHANGED machine,
                 p \in {"gone", "new", "pending", "manager"} \cup {n \in Workers : machine[n].availability = "active"}
          PROVE  Swarm'
      <3>1. \A u \in Tasks : place'[u] = place[u] \/ (u = t /\ place'[u] = p)
        BY <1>3, <2>1 DEF SwarmTypes
      <3>2. ASSUME NEW b \in Managers PROVE StillDrained(actor[b])'
        <4>1. CASE actor[b].step = "act" /\ actor[b].node \in Workers /\ machine[actor[b].node].availability = "drain"
          <5>1. \A u \in Tasks : place'[u] = actor[b].node => place[u] = actor[b].node
            BY <2>1, <3>1, <4>1, StepsAre
          <5>. QED
            BY <1>1, <1>3, <2>1, <5>1 DEF TakesNothing, StillDrained
        <4>. QED
          BY <1>1, <1>3, <2>1, <4>1 DEF TakesNothing, StillDrained
      <3>3. SwarmTypes'
        BY <1>3, <2>1 DEF SwarmTypes
      <3>. QED
        BY <3>2, <3>3 DEF Swarm, TakesNothing
    <2>2. ASSUME NEW t \in Tasks, TaskMoves(t) PROVE Swarm'
      BY <2>1, <2>2 DEF TaskMoves, Takes
    <2>3. ASSUME NEW t \in Tasks, Evict(t) PROVE Swarm'
      BY <2>1, <2>3 DEF Evict
    <2>4. ASSUME NEW n \in Workers, MachineMoves(n) PROVE Swarm'
      <3>1. PICK s \in {"ready", "down"} : machine' = [machine EXCEPT ![n].state = s] /\ UNCHANGED place
        BY <2>4 DEF MachineMoves
      <3>2. [machine[n] EXCEPT !.state = s] \in Machines /\ [machine[n] EXCEPT !.state = s].availability = machine[n].availability
        BY <1>3 DEF Machines
      <3>3. machine' = [machine EXCEPT ![n] = [machine[n] EXCEPT !.state = s]]
        BY <1>3, <3>1
      <3>4. machine' \in [Workers -> Machines] /\ \A m \in Workers : machine'[m].availability = machine[m].availability
        BY <1>3, <3>2, <3>3
      <3>. QED
        BY <1>1, <1>3, <3>1, <3>4 DEF Swarm, SwarmTypes, TakesNothing, StillDrained
    <2>. QED
      BY <2>2, <2>3, <2>4
  <1>. QED
    BY <1>2, <1>4 DEF SignalsIInv

LEMMA SignalsInvariantHolds == SignalsSpec => []SignalsIInv
  <1>1. ASSUME SignalsInit PROVE SignalsIInv
    <2>1. machine \in [Workers -> Machines] /\ TakesNothing
      BY <1>1, StepsAre DEF SignalsInit, Machines, TakesNothing, StillDrained
    <2>2. WatchTypes
      BY <1>1, StepsAre DEF SignalsInit, WatchTypes, Events
    <2>3. ComparesWhatItSaw /\ ToldSoFar
      BY <1>1, StepsAre DEF SignalsInit, ComparesWhatItSaw, ToldSoFar
    <2>. QED
      BY <1>1, <2>1, <2>2, <2>3 DEF SignalsInit, SignalsIInv, Swarm, SwarmTypes, Watch
  <1>2. ASSUME SignalsIInv, [SignalsNext]_signalVars PROVE SignalsIInv'
    <2>1. CASE UNCHANGED signalVars
      BY <1>2, <2>1 DEF signalVars, SignalsIInv, Swarm, SwarmTypes, TakesNothing, StillDrained, Watch, WatchTypes, ComparesWhatItSaw, ToldSoFar
    <2>2. CASE SignalsNext
      BY <1>2, <2>2, LookKeeps, ClockKeeps, CompareKeeps, EmitKeeps, ManagersKeep, WorldKeeps DEF SignalsNext
    <2>. QED
      BY <1>2, <2>1, <2>2
  <1>. QED
    BY <1>1, <1>2, PTL DEF SignalsSpec

(* Clocks belong to workers, signals to tasks and workers, and a silent docker is not compared. *)
THEOREM SignalsTypeCorrect == SignalsSpec => []SignalsTypeOK
  <1>1. ASSUME SignalsIInv PROVE SignalsTypeOK
    <2>1. \A a \in Looking : actor[a].step \in {"idle", "clock", "compare", "emit"}
      BY <1>1, StepsAre DEF SignalsIInv, Watch, WatchTypes, Clocking, Comparing, Emitting
    <2>2. \A a \in Managers : actor[a].step \in {"idle", "act"}
      BY <1>1, StepsAre DEF SignalsIInv, Watch, WatchTypes, Acting
    <2>. QED
      BY <1>1, <2>1, <2>2 DEF SignalsIInv, Swarm, SwarmTypes, Watch, WatchTypes, Events, ComparesWhatItSaw, SignalsTypeOK
  <1>. QED
    BY <1>1, SignalsInvariantHolds, PTL

(* For any number of polls, managers, tasks and machines: whoever kept the last event of an id      *)
(* knows what pstack holds, nothing is said twice, a worker is called empty by a look that saw it   *)
(* empty, and no node is forgotten with work it was given since it was looked at, unless somebody   *)
(* undrained it (api/routes_signals.go:112-121, 241-242).                                           *)
THEOREM SignalsAreSafe == SignalsSpec => SignalsSafety
  <1> DEFINE Agree == ListenersAgree /\ EmptyWasSeen
             NoRepeat == actor[Ticker].step = "emit" /\ actor'[Ticker].step = "idle" =>
                           /\ \A id \in actor[Ticker].raised : told[id] # "signal.raised"
                           /\ \A id \in actor[Ticker].cleared : told[id] = "signal.raised"
             NoOrphan == \A n \in Workers : machine[n].known /\ ~machine'[n].known =>
                           /\ machine[n].state = "down"
                           /\ \E a \in Managers :
                                /\ actor[a].step = "act" /\ actor[a].node = n /\ actor'[a] = Rest
                                /\ actor[a].undrained \/ \A t \in Tasks : place[t] = n => t \in actor[a].there
  <1>1. SignalsIInv => Agree
    BY DEF SignalsIInv, Watch, ToldSoFar, ComparesWhatItSaw, ListenersAgree, EmptyWasSeen
  <1>2. ASSUME SignalsIInv, SignalsNext PROVE NoRepeat
    <2>1. ASSUME actor[Ticker].step = "emit" PROVE actor[Ticker] \in Emitting
      BY <1>2, <2>1, StepsAre DEF SignalsIInv, Watch, WatchTypes, Clocking, Comparing
    <2>. QED
      BY <1>2, <2>1 DEF SignalsIInv, Watch, ToldSoFar, Emitting
  <1>3. ASSUME SignalsIInv, SignalsNext PROVE NoOrphan
    <2> SUFFICES ASSUME NEW n \in Workers, machine[n].known, ~machine'[n].known
                 PROVE  /\ machine[n].state = "down"
                        /\ \E a \in Managers :
                             /\ actor[a].step = "act" /\ actor[a].node = n /\ actor'[a] = Rest
                             /\ actor[a].undrained \/ \A t \in Tasks : place[t] = n => t \in actor[a].there
      OBVIOUS
    <2>1. machine \in [Workers -> Machines]
      BY <1>3 DEF SignalsIInv, Swarm, SwarmTypes
    <2>2. CASE \E a \in Managers : RemoveNode(a)
      <3>1. PICK a \in Managers : RemoveNode(a)
        BY <2>2
      <3>2. machine' = NodeRm(actor[a].node) /\ actor[a].step = "act" /\ actor[a].availability = "drain" /\ SetActor(a, Rest)
        BY <3>1 DEF RemoveNode, MayRemove
      <3>3. machine[n].state = "down" /\ actor[a].node = n
        BY <2>1, <3>2 DEF NodeRm
      <3>4. StillDrained(actor[a])
        BY <1>3 DEF SignalsIInv, Swarm, TakesNothing
      <3>5. actor'[a] = Rest
        BY <1>3, <3>2, ActorMoves DEF SignalsIInv, Watch
      <3>. QED
        BY <3>2, <3>3, <3>4, <3>5 DEF StillDrained
    <2>3. CASE \E a \in Managers, v \in {"drain", "active"} : SetAvailability(a, v)
      BY <2>1, <2>3 DEF SetAvailability, Machines
    <2>4. CASE \E m \in Workers : MachineMoves(m)
      BY <2>1, <2>4 DEF MachineMoves, Machines
    <2>5. CASE UNCHANGED machine
      BY <2>5
    <2>. QED
      BY <1>3, <2>2, <2>3, <2>4, <2>5
         DEF SignalsNext, LookAtSwarm, Clock, Compare, Emit, LookAtNode, RefuseRemoval, TaskMoves, Evict, clusterVars
  <1>4. SignalsIInv /\ [SignalsNext]_signalVars => [NoRepeat]_signalVars /\ [NoOrphan]_signalVars
    BY <1>2, <1>3
  <1> HIDE DEF Agree, NoRepeat, NoOrphan
  <1>5. SignalsSpec => []Agree /\ [][NoRepeat]_signalVars /\ [][NoOrphan]_signalVars
    BY <1>1, <1>4, SignalsInvariantHolds, PTL DEF SignalsSpec
  <1>. QED
    BY <1>5 DEF Agree, NoRepeat, NoOrphan, SignalsSafety, NothingRepeats, RemovalOrphansNothing

(***************************************************************************)
(* Moving a configuration.  An import has left behind nothing of the       *)
(* sections it is past, what it listed stays there, and what it is about   *)
(* to write was not there or another import is writing it too.             *)
(***************************************************************************)
Sections == {SectionOrder[n] : n \in DOMAIN SectionOrder}
ConfigValues == Nat \cup {Half, Foreign}
Lines == Things \X ConfigValues
ImportPlaces == {"new", "refused", "previewed", "look", "write", "meta", "done", "failed", "cut"}
ImportRecords ==
    [at : ImportPlaces, sec : 0 .. 8, left : SUBSET Lines, here : SUBSET Things, todo : {<<>>} \cup {<<e>> : e \in Lines},
     wrote : SUBSET Things, skipped : SUBSET Things, opened : SUBSET Envelopes]
ConfigTypes ==
    /\ host \in [{"old", "new"} -> [Things -> ConfigValues]]
    /\ export \in [next : 1 .. 9, doc : SUBSET Lines, roleless : SUBSET Things]
    /\ import \in [Imports -> ImportRecords]

HostsAreSane ==
    \A t \in Things :
        /\ host["new"][t] = Half => t.sec = "spec"
        /\ t.sec = "notifier" => host["new"][t] \in Nat
DocCanTravel == \A e \in export.doc : e[1] \notin Reserved /\ e[2] \notin {0, Half, Foreign}
Untaken == {"new", "refused"}
WholeOrNothing == ~Sealed \/ export.roleless # {} => \A i \in Imports : import[i].at \in Untaken

(* An entry the new host has, or will never have: an operator removes it, or no account of its    *)
(* owner is there or can still come from the document.                                            *)
Spared(t) == \E d \in Dropped : t \in Gone(d)
Kept(t) == Spared(t) \/ host["new"][t] \notin {0, Half}
Comes(u) == u \notin Unusable /\ \E e \in export.doc : e[1] = u
Orphan(t) == t.sec = "token" /\ \A u \in In("user") : u.name = t.owner => ~Has("new", u) /\ ~Comes(u)
Settled(t) == t \in Unusable \/ Kept(t) \/ Orphan(t)

Busy(i) == import[i].at \in {"look", "write", "meta"}
Reported(i, t) == t \in import[i].skipped /\ t.sec \in SkippingSections
Passed(i) ==
    /\ Busy(i) => \A e \in export.doc : \A n \in 1 .. import[i].sec :
                    e[1].sec = SectionOrder[n] => e \in import[i].left \/ Settled(e[1]) \/ Reported(i, e[1])
    /\ import[i].at = "done" => \A e \in export.doc : Settled(e[1]) \/ Reported(i, e[1])
Placed(i) ==
    /\ import[i].left \subseteq export.doc
    /\ import[i].at \in {"new", "refused", "previewed"} => import[i].wrote = {} /\ import[i].todo = <<>>
    /\ import[i].at = "look" => import[i].todo = <<>>
    /\ import[i].left # {} => import[i].sec # 0 /\ \A e \in import[i].left : e[1].sec = SectionOrder[import[i].sec]
    /\ import[i].at \in {"write", "meta"} =>
         \E e \in import[i].left : import[i].todo = <<e>> /\ e[1] \notin Unusable /\ (import[i].at = "meta" => e[1].sec = "spec")
HereIsKept(i) == Busy(i) => \A t \in import[i].here : Kept(t)
(* What was not there when it was looked for, and is now, another import put there. *)
PutIn(r, t) == t \in r.wrote \/ (r.at \in {"meta", "failed"} /\ r.todo # <<>> /\ r.todo[1][1] = t)
PutBy(j, t) == PutIn(import[j], t)
Listing(i, t) == Busy(i) /\ import[i].sec # 0 /\ t.sec = SectionOrder[import[i].sec] /\ t.sec \in ListedSections /\ t \notin import[i].here
About(i, t) == import[i].at = "write" /\ import[i].todo[1][1] = t
ComesFromOthers(i) == \A t \in Things : (Listing(i, t) \/ About(i, t)) /\ Has("new", t) => \E j \in Imports \ {i} : PutBy(j, t)
Affordable(i) == \A e \in import[i].opened : CheckKDF(e.kdf)
ImportSoFar(i) == Passed(i) /\ Placed(i) /\ HereIsKept(i) /\ ComesFromOthers(i) /\ Affordable(i)
ConfigIInv ==
    /\ ConfigTypes /\ HostsAreSane /\ TokensHaveUsers /\ DocCanTravel /\ WholeOrNothing
    /\ \A i \in Imports : ImportSoFar(i)

--------------------------------------------------------------------------------
LEMMA SectionsAre ==
  /\ DOMAIN SectionOrder = 1 .. 8 /\ Len(SectionOrder) = 8
  /\ \A n \in 1 .. 8 : (SectionOrder[n] = "user" <=> n = 1) /\ (SectionOrder[n] = "token" <=> n = 2) /\ (SectionOrder[n] = "spec" <=> n = 8)
  /\ ListedSections \cap {"user", "token", "spec", "notifier"} = {}
  BY DEF SectionOrder, ListedSections

LEMMA ThingsAre ==
  /\ \A t \in Things : t.sec \in Sections /\ t.name \in Nat /\ t.owner \in Nat
  /\ \A t \in Things : \E n \in 1 .. 8 : t.sec = SectionOrder[n]
  /\ Edited \subseteq Things /\ Dropped \subseteq Things
  BY ConfigAssumption, SectionsAre DEF Sections

LEMMA LinesAre ==
  \A e \in Lines : e[1] \in Things /\ e[2] \in ConfigValues /\ e = <<e[1], e[2]>>
  BY DEF Lines

(* Who put a thing on the new host is one of those who write it. *)
LEMMA PuttersWrite ==
  ASSUME NEW i \in Imports, import[i] \in ImportRecords, NEW t, PutBy(i, t)
  PROVE  i \in Writers(t)
  BY DEF Writers, ImportRecords, PutBy, PutIn

LEMMA ImportMoves ==
  ASSUME ConfigTypes, NEW i \in Imports, NEW r \in ImportRecords, SetImport(i, r)
  PROVE  /\ import' \in [Imports -> ImportRecords] /\ import'[i] = r
         /\ \A j \in Imports \ {i} : import'[j] = import[j]
  BY DEF ConfigTypes, SetImport

(* What a step keeps of an import it does not touch. *)
Onwards ==
    /\ \A t \in Things : Kept(t) => Kept(t)'
    /\ \A e \in export.doc : Settled(e[1]) => Settled(e[1])'
LEMMA OthersKeep ==
  ASSUME ConfigIInv, ConfigTypes', NEW i \in Imports, import'[i] = import[i], UNCHANGED export, Onwards,
         \A t \in Things, j \in Imports \ {i} : PutBy(j, t) => PutBy(j, t)',
         \A t \in Things : Has("new", t)' /\ ~Has("new", t) => \E j \in Imports \ {i} : PutBy(j, t)'
  PROVE  ImportSoFar(i)'
  <1>1. export.doc \subseteq Lines /\ import[i] \in ImportRecords
    BY DEF ConfigIInv, ConfigTypes
  <1>2. ImportSoFar(i)
    BY DEF ConfigIInv
  <1>3. Passed(i)'
    BY <1>2 DEF ImportSoFar, Passed, Busy, Onwards, Reported
  <1>4. Placed(i)' /\ Affordable(i)'
    BY <1>2 DEF ImportSoFar, Placed, Affordable
  <1>5. HereIsKept(i)'
    BY <1>1, <1>2 DEF ImportSoFar, HereIsKept, Busy, Onwards, ImportRecords
  <1>6. ComesFromOthers(i)'
    <2>1. \A t : (Listing(i, t) <=> Listing(i, t)') /\ (About(i, t) <=> About(i, t)')
      BY DEF Listing, About, Busy
    <2>2. ComesFromOthers(i)
      BY <1>2 DEF ImportSoFar
    <2>. QED
      BY <2>1, <2>2 DEF ComesFromOthers
  <1>. QED
    BY <1>3, <1>4, <1>5, <1>6 DEF ImportSoFar

(* Something is written to the new host, by an import. *)
Puts(t, v) == host' = [host EXCEPT !["new"][t] = v]
LEMMA PutsKeep ==
  ASSUME ConfigIInv, NEW t \in Things, NEW v \in ConfigValues \ {0}, Puts(t, v), UNCHANGED export,
         v = Half => t.sec = "spec" /\ ~Has("new", t),
         t.sec = "notifier" => v \in Nat,
         t.sec = "token" => \E u \in In("user") : u.name = t.owner /\ Has("new", u),
         Comes(t)
  PROVE  /\ host' \in [{"old", "new"} -> [Things -> ConfigValues]]
         /\ host'["new"][t] = v /\ \A u \in Things \ {t} : host'["new"][u] = host["new"][u]
         /\ HostsAreSane' /\ TokensHaveUsers' /\ DocCanTravel' /\ Onwards
  <1>1. /\ host' \in [{"old", "new"} -> [Things -> ConfigValues]]
        /\ host'["new"][t] = v /\ \A u \in Things \ {t} : host'["new"][u] = host["new"][u]
        /\ host'["old"] = host["old"]
    BY DEF Puts, ConfigIInv, ConfigTypes
  <1>2. HostsAreSane' /\ DocCanTravel'
    BY <1>1 DEF ConfigIInv, HostsAreSane, DocCanTravel
  <1>3. TokensHaveUsers'
    BY <1>1 DEF ConfigIInv, TokensHaveUsers, Has, In
  <1>4. \A u \in Things : Kept(u) => Kept(u)'
    BY <1>1 DEF Kept, Spared, Gone, Has
  <1>5. \A u \in Things : Comes(u) <=> Comes(u)'
    BY DEF Comes
  <1>6. \A u \in Things : Orphan(u) => Orphan(u)'
    BY <1>1, <1>5 DEF Orphan, Has, In
  <1>7. \A e \in export.doc : e[1] \in Things
    BY LinesAre DEF ConfigIInv, ConfigTypes
  <1>8. Onwards
    BY <1>4, <1>6, <1>7 DEF Onwards, Settled
  <1>. QED
    BY <1>1, <1>2, <1>3, <1>8

LEMMA ExportKeeps ==
  ASSUME ConfigIInv, ExportSection
  PROVE  ConfigIInv'
  <1> DEFINE new == AssembleNext(SectionOrder[export.next])
  <1>1. export' = [export EXCEPT !.next = @ + 1, !.doc = @ \cup new] /\ UNCHANGED <<host, import>> /\ export.next \in 1 .. 8
    BY SectionsAre DEF ExportSection, ConfigIInv, ConfigTypes
  <1>2. \A e \in new : e \in Lines /\ Travels(e[1], e[2])
    BY DEF AssembleNext, In, ConfigIInv, ConfigTypes, Lines
  <1> HIDE DEF new
  <1>3. export' \in [next : 1 .. 9, doc : SUBSET Lines, roleless : SUBSET Things] /\ export'.doc = export.doc \cup new
        /\ export'.roleless = export.roleless
    <2>1. export.next + 1 \in 1 .. 9 /\ export.doc \cup new \in SUBSET Lines
      BY <1>1, <1>2 DEF ConfigIInv, ConfigTypes
    <2>2. export \in [next : 1 .. 9, doc : SUBSET Lines, roleless : SUBSET Things]
      BY DEF ConfigIInv, ConfigTypes
    <2>. QED
      BY <1>1, <2>1, <2>2
  <1>4. \A i \in Imports : import[i].at \in Untaken
    BY <1>1, SectionsAre DEF ConfigIInv, WholeOrNothing, Sealed
  <1>5. ASSUME NEW i \in Imports PROVE ImportSoFar(i)'
    <2>1. ~Busy(i) /\ import[i].at \notin {"done", "look", "write", "meta"} /\ ImportSoFar(i)
      BY <1>4 DEF Busy, Untaken, ConfigIInv
    <2>. QED
      BY <1>1, <1>3, <2>1 DEF ImportSoFar, Passed, Placed, HereIsKept, ComesFromOthers, Affordable, Listing, About, Busy
  <1>6. DocCanTravel'
    BY <1>2, <1>3 DEF ConfigIInv, DocCanTravel, Travels
  <1>7. ConfigTypes' /\ HostsAreSane' /\ TokensHaveUsers' /\ WholeOrNothing'
    BY <1>1, <1>3, <1>4 DEF ConfigIInv, ConfigTypes, HostsAreSane, TokensHaveUsers, WholeOrNothing, Has
  <1>. QED
    BY <1>5, <1>6, <1>7 DEF ConfigIInv

LEMMA EditDocumentKeeps ==
  ASSUME ConfigIInv, NEW e \in export.doc, EditDocument(e)
  PROVE  ConfigIInv'
  <1>1. export' = [export EXCEPT !.roleless = @ \cup {e[1]}] /\ UNCHANGED <<host, import>> /\ e[1] \in Things
    BY LinesAre DEF EditDocument, ConfigIInv, ConfigTypes
  <1>2. export' \in [next : 1 .. 9, doc : SUBSET Lines, roleless : SUBSET Things] /\ export'.doc = export.doc /\ export'.next = export.next
    BY <1>1 DEF ConfigIInv, ConfigTypes
  <1>3. \A i \in Imports : import[i].at = "new"
    BY DEF EditDocument
  <1>4. ASSUME NEW i \in Imports PROVE ImportSoFar(i)'
    <2>1. ~Busy(i) /\ import[i].at \notin {"done", "look", "write", "meta"} /\ ImportSoFar(i)
      BY <1>3 DEF Busy, ConfigIInv
    <2>. QED
      BY <1>1, <1>2, <2>1 DEF ImportSoFar, Passed, Placed, HereIsKept, ComesFromOthers, Affordable, Listing, About, Busy
  <1>5. ConfigTypes' /\ HostsAreSane' /\ TokensHaveUsers' /\ WholeOrNothing' /\ DocCanTravel'
    BY <1>1, <1>2, <1>3 DEF ConfigIInv, ConfigTypes, HostsAreSane, TokensHaveUsers, WholeOrNothing, Has, DocCanTravel, Untaken
  <1>. QED
    BY <1>4, <1>5 DEF ConfigIInv

LEMMA EditOldKeeps ==
  ASSUME ConfigIInv, NEW t \in Things, NEW v \in {0, 1}, EditOld(t, v)
  PROVE  ConfigIInv'
  <1> DEFINE old == [u \in Things |-> IF u = t THEN v ELSE IF v = 0 /\ u \in Gone(t) THEN 0 ELSE host["old"][u]]
  <1>1. host' = [host EXCEPT !["old"] = old] /\ UNCHANGED <<export, import>>
        /\ (t.sec = "token" /\ v # 0 => \E u \in In("user") : u.name = t.owner /\ Has("old", u))
    BY DEF EditOld
  <1>2. old \in [Things -> ConfigValues] /\ (\A u \in Things : old[u] # 0 => u = t \/ host["old"][u] # 0)
        /\ (\A u \in Things : u # t /\ ~(v = 0 /\ u \in Gone(t)) => old[u] = host["old"][u]) /\ old[t] = v
        /\ (\A u \in Things : u # t /\ v = 0 /\ u \in Gone(t) => old[u] = 0)
    BY DEF ConfigIInv, ConfigTypes, ConfigValues
  <1> HIDE DEF old
  <1>3. host' \in [{"old", "new"} -> [Things -> ConfigValues]] /\ host'["new"] = host["new"] /\ host'["old"] = old
    BY <1>1, <1>2 DEF ConfigIInv, ConfigTypes
  <1>4. TokensHaveUsers'
    <2>1. ASSUME NEW k \in In("token"), old[k] # 0 PROVE \E u \in In("user") : u.name = k.owner /\ old[u] # 0
      <3>1. CASE k = t
        <4>1. PICK u \in In("user") : u.name = k.owner /\ Has("old", u) /\ v # 0
          BY <1>1, <1>2, <2>1, <3>1 DEF In
        <4>. QED
          BY <1>2, <2>1, <3>1, <4>1 DEF In, Has
      <3>2. CASE k # t
        <4>1. PICK u \in In("user") : u.name = k.owner /\ Has("old", u)
          BY <1>2, <2>1, <3>2 DEF ConfigIInv, TokensHaveUsers, Has, In
        <4>2. u \in Things /\ u.sec = "user" /\ k \in Things /\ k.sec = "token"
          BY <2>1 DEF In
        <4>3. ~(v = 0 /\ u = t)
          BY <1>2, <2>1, <3>2, <4>1, <4>2 DEF Gone
        <4>4. u # t => u \notin Gone(t)
          BY <4>2 DEF Gone
        <4>. QED
          BY <1>2, <4>1, <4>2, <4>3, <4>4 DEF Has
      <3>. QED
        BY <3>1, <3>2
    <2>. QED
      BY <1>3, <2>1 DEF TokensHaveUsers, Has, ConfigIInv
  <1>5. ASSUME NEW i \in Imports PROVE ImportSoFar(i)'
    BY <1>1, <1>3 DEF ConfigIInv, ImportSoFar, Passed, Placed, HereIsKept, ComesFromOthers, Affordable, Listing, About, Busy,
       Settled, Reported, Kept, Spared, Orphan, Comes, Has, PutBy
  <1>6. ConfigTypes' /\ HostsAreSane' /\ WholeOrNothing' /\ DocCanTravel'
    BY <1>1, <1>3 DEF ConfigIInv, ConfigTypes, HostsAreSane, WholeOrNothing, DocCanTravel, Sealed
  <1>. QED
    BY <1>4, <1>5, <1>6 DEF ConfigIInv

LEMMA DropNewKeeps ==
  ASSUME ConfigIInv, NEW t \in Dropped, DropNew(t)
  PROVE  ConfigIInv'
  <1> DEFINE new == [u \in Things |-> IF u \in Gone(t) THEN 0 ELSE host["new"][u]]
  <1>1. host' = [host EXCEPT !["new"] = new] /\ UNCHANGED <<export, import>>
    BY DEF DropNew
  <1>2. new \in [Things -> ConfigValues] /\ \A u \in Things : new[u] = IF u \in Gone(t) THEN 0 ELSE host["new"][u]
    BY DEF ConfigIInv, ConfigTypes, ConfigValues
  <1> HIDE DEF new
  <1>3. host' \in [{"old", "new"} -> [Things -> ConfigValues]] /\ host'["old"] = host["old"]
        /\ \A u \in Things : host'["new"][u] = IF u \in Gone(t) THEN 0 ELSE host["new"][u]
    BY <1>1, <1>2 DEF ConfigIInv, ConfigTypes
  <1>4. TokensHaveUsers'
    <2>1. ASSUME NEW k \in In("token"), Has("new", k)' PROVE \E u \in In("user") : u.name = k.owner /\ Has("new", u)'
      <3>1. k \in Things /\ k.sec = "token" /\ k \notin Gone(t) /\ Has("new", k)
        BY <1>3, <2>1 DEF In, Has
      <3>2. PICK u \in In("user") : u.name = k.owner /\ Has("new", u)
        BY <2>1, <3>1 DEF ConfigIInv, TokensHaveUsers
      <3>3. u \notin Gone(t)
        BY <3>1, <3>2 DEF Gone, In
      <3>. QED
        BY <1>3, <3>2, <3>3 DEF Has, In
    <2>. QED
      BY <1>3, <2>1 DEF TokensHaveUsers, Has, ConfigIInv
  <1>5. Onwards
    <2>1. \A u \in Things : Kept(u) => Kept(u)'
      BY <1>3 DEF Kept, Spared
    <2>2. \A u \in Things : Orphan(u) => Orphan(u)'
      BY <1>1, <1>3 DEF Orphan, Comes, Has, In
    <2>3. \A e \in export.doc : e[1] \in Things
      BY LinesAre DEF ConfigIInv, ConfigTypes
    <2>. QED
      BY <2>1, <2>2, <2>3 DEF Onwards, Settled
  <1>6. ConfigTypes' /\ HostsAreSane' /\ WholeOrNothing' /\ DocCanTravel'
    <2>1. ConfigTypes' /\ WholeOrNothing' /\ DocCanTravel'
      BY <1>1, <1>3 DEF ConfigIInv, ConfigTypes, WholeOrNothing, DocCanTravel, Sealed
    <2>2. \A u \in Things : host'["new"][u] \in {0, host["new"][u]}
      BY <1>3
    <2>3. HostsAreSane'
      BY <2>2 DEF ConfigIInv, HostsAreSane, Half
    <2>. QED
      BY <2>1, <2>3
  <1>7. ASSUME NEW i \in Imports PROVE ImportSoFar(i)'
    <2>1. \A u \in Things : Has("new", u)' => Has("new", u)
      BY <1>3 DEF Has
    <2>2. \A u \in Things, j \in Imports \ {i} : PutBy(j, u) => PutBy(j, u)'
      BY <1>1 DEF PutBy
    <2>. QED
      BY <1>1, <1>5, <1>6, <2>1, <2>2, OthersKeep
  <1>. QED
    BY <1>4, <1>6, <1>7 DEF ConfigIInv

(* An import moves, and the hosts stay. *)
LEMMA OneImportMoves ==
  ASSUME ConfigIInv, UNCHANGED <<host, export>>, NEW i \in Imports, NEW r \in ImportRecords, SetImport(i, r),
         \A t \in Things : PutBy(i, t) => PutIn(r, t),
         ~Sealed \/ export.roleless # {} => r.at \in Untaken,
         ImportSoFar(i)'
  PROVE  ConfigIInv'
  <1>1. /\ import' \in [Imports -> ImportRecords] /\ import'[i] = r
        /\ \A j \in Imports \ {i} : import'[j] = import[j]
    BY ImportMoves DEF ConfigIInv
  <1>2. ConfigTypes' /\ HostsAreSane' /\ TokensHaveUsers' /\ DocCanTravel'
    BY <1>1 DEF ConfigIInv, ConfigTypes, HostsAreSane, TokensHaveUsers, DocCanTravel, Has
  <1>3. WholeOrNothing'
    BY <1>1 DEF ConfigIInv, WholeOrNothing, Sealed
  <1>4. \A t \in Things, j \in Imports : PutBy(j, t) => PutBy(j, t)'
    <2>1. ASSUME NEW t \in Things, NEW j \in Imports, PutBy(j, t) PROVE PutBy(j, t)'
      <3>1. CASE j = i
        BY <1>1, <2>1, <3>1 DEF PutBy
      <3>2. CASE j # i
        BY <1>1, <2>1, <3>2 DEF PutBy
      <3>. QED
        BY <3>1, <3>2
    <2>. QED
      BY <2>1
  <1>5. Onwards
    BY DEF Onwards, Kept, Settled, Orphan, Comes, Has, Spared
  <1>6. ASSUME NEW j \in Imports \ {i} PROVE ImportSoFar(j)'
    BY <1>1, <1>2, <1>4, <1>5, OthersKeep DEF Has
  <1>. QED
    BY <1>2, <1>3, <1>6 DEF ConfigIInv

LEMMA OpenImportKeeps ==
  ASSUME ConfigIInv, NEW i \in Imports, OpenImport(i)
  PROVE  ConfigIInv'
  <1> DEFINE fresh == [at |-> "look", sec |-> 0, left |-> {}, here |-> {}, todo |-> <<>>, wrote |-> {}, skipped |-> {}, opened |-> {}]
             Begun(r) == /\ r \in ImportRecords /\ r.at \in {"look", "refused", "previewed"} /\ r.sec = 0 /\ r.left = {}
                         /\ r.here = {} /\ r.todo = <<>> /\ r.wrote = {} /\ \A e \in r.opened : CheckKDF(e.kdf)
                         /\ (export.roleless # {} => r.at = "refused")
  <1>1. import[i].at = "new" /\ Sealed /\ UNCHANGED <<host, export>>
    BY DEF OpenImport
  <1>2. fresh \in ImportRecords
    <2>1. {"look"} \subseteq ImportPlaces /\ 0 \in 0 .. 8 /\ {} \in SUBSET Lines /\ {} \in SUBSET Things /\ {} \in SUBSET Envelopes
      BY DEF ImportPlaces
    <2>. QED
      BY <2>1 DEF ImportRecords
  <1>3. ASSUME NEW at \in {"look", "refused", "previewed"}, NEW o \in SUBSET Envelopes, \A e \in o : CheckKDF(e.kdf),
               export.roleless # {} => at = "refused"
        PROVE  Begun([fresh EXCEPT !.at = at, !.opened = o])
    <2> DEFINE r == [fresh EXCEPT !.at = at, !.opened = o]
    <2>1. r.at = at /\ r.sec = 0 /\ r.left = {} /\ r.here = {} /\ r.todo = <<>> /\ r.wrote = {} /\ r.opened = o
      OBVIOUS
    <2>2. r \in ImportRecords
      <3>1. at \in ImportPlaces
        BY DEF ImportPlaces
      <3> HIDE DEF fresh
      <3>. QED
        BY <1>2, <3>1 DEF ImportRecords
    <2> HIDE DEF r
    <2>3. Begun(r)
      BY <1>3, <2>1, <2>2
    <2>. QED
      BY <2>3 DEF r
  <1>3a. Begun([fresh EXCEPT !.at = "refused"])
    <2> DEFINE r == [fresh EXCEPT !.at = "refused"]
    <2>1. r.at = "refused" /\ r.sec = 0 /\ r.left = {} /\ r.here = {} /\ r.todo = <<>> /\ r.wrote = {} /\ r.opened = {}
      OBVIOUS
    <2>2. r \in ImportRecords
      <3>1. "refused" \in ImportPlaces
        BY DEF ImportPlaces
      <3> HIDE DEF fresh
      <3>. QED
        BY <1>2, <3>1 DEF ImportRecords
    <2> HIDE DEF r
    <2>3. Begun(r)
      BY <2>1, <2>2
    <2>. QED
      BY <2>3 DEF r
  <1>3b. ParseDocument => Begun(fresh)
    BY <1>2 DEF ParseDocument
  <1>4. \A e \in Envelopes : DerivesKey(e) \/ Unseal(e) = "opened" => CheckKDF(e.kdf)
    BY DEF DerivesKey, Unseal
  <1>5. PICK r : SetImport(i, r) /\ Begun(r)
    <2>1. CASE \E who \in {"root", "admin", "viewer"} :
                 SetImport(i, IF MayMove(who) /\ ParseDocument THEN fresh ELSE [fresh EXCEPT !.at = "refused"])
      <3>1. Begun([fresh EXCEPT !.at = "refused"]) /\ (ParseDocument => Begun(fresh))
        <4> HIDE DEF Begun, fresh
        <4>. QED
          BY <1>3a, <1>3b
      <3> HIDE DEF fresh, Begun
      <3>. QED
        BY <2>1, <3>1
    <2>2. CASE \E who \in {"root", "admin", "viewer"}, e \in Envelopes, preview \in BOOLEAN :
                 SetImport(i, IF ~MayApplySealed(who) \/ Unseal(e) # "opened" \/ ~ParseDocument
                              THEN [fresh EXCEPT !.at = "refused", !.opened = IF MayApplySealed(who) /\ DerivesKey(e) THEN {e} ELSE {}]
                              ELSE IF preview THEN [fresh EXCEPT !.at = "previewed", !.opened = {e}] ELSE fresh)
      <3>1. PICK who \in {"root", "admin", "viewer"}, e \in Envelopes, preview \in BOOLEAN :
                 SetImport(i, IF ~MayApplySealed(who) \/ Unseal(e) # "opened" \/ ~ParseDocument
                              THEN [fresh EXCEPT !.at = "refused", !.opened = IF MayApplySealed(who) /\ DerivesKey(e) THEN {e} ELSE {}]
                              ELSE IF preview THEN [fresh EXCEPT !.at = "previewed", !.opened = {e}] ELSE fresh)
        BY <2>2
      <3>2. Begun([fresh EXCEPT !.at = "refused", !.opened = IF MayApplySealed(who) /\ DerivesKey(e) THEN {e} ELSE {}])
        <4>1. CASE MayApplySealed(who) /\ DerivesKey(e)
          <5>1. {e} \in SUBSET Envelopes /\ \A x \in {e} : CheckKDF(x.kdf)
            BY <1>4, <4>1
          <5>2. Begun([fresh EXCEPT !.at = "refused", !.opened = {e}])
            BY <1>3, <5>1
          <5> HIDE DEF Begun, fresh
          <5>. QED
            BY <4>1, <5>2
        <4>2. CASE ~(MayApplySealed(who) /\ DerivesKey(e))
          <5>1. Begun([fresh EXCEPT !.at = "refused", !.opened = {}])
            BY <1>3
          <5> HIDE DEF Begun, fresh
          <5>. QED
            BY <4>2, <5>1
        <4>. QED
          BY <4>1, <4>2
      <3>3. Unseal(e) = "opened" /\ ParseDocument => Begun([fresh EXCEPT !.at = "previewed", !.opened = {e}]) /\ Begun(fresh)
        <4>1. ASSUME Unseal(e) = "opened", ParseDocument PROVE Begun([fresh EXCEPT !.at = "previewed", !.opened = {e}])
          <5>1. {e} \in SUBSET Envelopes /\ (\A x \in {e} : CheckKDF(x.kdf)) /\ export.roleless = {}
            BY <1>4, <4>1 DEF ParseDocument
          <5>. QED
            BY <1>3, <5>1
        <4> HIDE DEF Begun, fresh
        <4>. QED
          BY <1>3b, <4>1
      <3> HIDE DEF fresh, Begun
      <3>. QED
        BY <3>1, <3>2, <3>3
    <2>. QED
      BY <2>1, <2>2 DEF OpenImport
  <1>6. import'[i] = r
    BY <1>5, ImportMoves DEF ConfigIInv
  <1>7. ImportSoFar(i)'
    <2>1. Passed(i)' /\ Placed(i)' /\ HereIsKept(i)' /\ Affordable(i)'
      BY <1>1, <1>5, <1>6 DEF Passed, Placed, HereIsKept, Affordable, Busy
    <2>2. ComesFromOthers(i)'
      BY <1>5, <1>6 DEF ComesFromOthers, Listing, About, Busy
    <2>. QED
      BY <2>1, <2>2 DEF ImportSoFar
  <1>8. \A t \in Things : ~PutBy(i, t)
    BY <1>1 DEF ConfigIInv, ConfigTypes, ImportSoFar, Placed, PutBy, PutIn
  <1>9. ~Sealed \/ export.roleless # {} => r.at \in Untaken
    BY <1>1, <1>5 DEF Untaken
  <1>. QED
    BY <1>1, <1>5, <1>7, <1>8, <1>9, OneImportMoves

(* While an import is at work the document is whole. *)
LEMMA BusyIsWhole ==
  ASSUME ConfigIInv, NEW i \in Imports, Busy(i)
  PROVE  Sealed /\ export.roleless = {} /\ import[i] \in ImportRecords /\ ImportSoFar(i) /\ export.doc \subseteq Lines
  BY DEF ConfigIInv, ConfigTypes, WholeOrNothing, Busy, Untaken

LEMMA EndedIs ==
  ASSUME NEW i \in Imports, import[i] \in ImportRecords, NEW how \in {"done", "failed", "cut"}
  PROVE  /\ Ended(i, how) \in ImportRecords /\ Ended(i, how).at = how /\ Ended(i, how).left = {}
         /\ Ended(i, how).todo = import[i].todo /\ Ended(i, how).wrote = import[i].wrote /\ Ended(i, how).opened = import[i].opened
         /\ Ended(i, how).skipped = import[i].skipped
  BY DEF Ended, ImportRecords, ImportPlaces

LEMMA EndingIs ==
  ASSUME ConfigIInv, NEW i \in Imports, import[i].at = "look"
  PROVE  import[i].todo = <<>>
  BY BusyIsWhole DEF Busy, ImportSoFar, Placed

LEMMA EndingKeeps ==
  ASSUME ConfigIInv, NEW i \in Imports, Busy(i), NEW how \in {"done", "failed"}, SetImport(i, Ended(i, how)), UNCHANGED <<host, export>>,
         how = "done" => import[i].at = "look" /\ \A e \in export.doc : Settled(e[1]) \/ Reported(i, e[1])
  PROVE  ConfigIInv'
  <1> DEFINE r == Ended(i, how)
  <1>1. /\ r \in ImportRecords /\ r.at = how /\ r.left = {} /\ r.todo = import[i].todo /\ r.wrote = import[i].wrote
        /\ r.opened = import[i].opened /\ r.skipped = import[i].skipped
    BY EndedIs, BusyIsWhole
  <1>2. import'[i] = r
    BY <1>1, ImportMoves DEF ConfigIInv
  <1> HIDE DEF r
  <1>3. Passed(i)' /\ Placed(i)' /\ HereIsKept(i)' /\ Affordable(i)' /\ ComesFromOthers(i)'
    BY <1>1, <1>2, BusyIsWhole DEF Passed, Placed, HereIsKept, Affordable, ComesFromOthers, Listing, About, Busy, ImportSoFar,
       Settled, Reported, Kept, Spared, Orphan, Comes, Has
  <1>4. \A t \in Things : PutBy(i, t) => PutIn(r, t)
    BY <1>1, EndingIs DEF PutBy, PutIn, Busy
  <1>5. Sealed /\ export.roleless = {} /\ SetImport(i, r)
    BY BusyIsWhole DEF r
  <1>. QED
    BY <1>1, <1>3, <1>4, <1>5, OneImportMoves DEF ImportSoFar

LEMMA EnterKeeps ==
  ASSUME ConfigIInv, NEW i \in Imports, EnterSection(i)
  PROVE  ConfigIInv'
  <1>1. import[i].at = "look" /\ import[i].left = {} /\ Busy(i) /\ UNCHANGED <<host, export>>
    BY DEF EnterSection, Busy
  <1>2. /\ Sealed /\ export.roleless = {} /\ import[i] \in ImportRecords /\ export.doc \subseteq Lines
        /\ Passed(i) /\ Placed(i) /\ Affordable(i)
    BY <1>1, BusyIsWhole DEF ImportSoFar
  <1>3. \A e \in export.doc : \A n \in 1 .. import[i].sec : e[1].sec = SectionOrder[n] => Settled(e[1]) \/ Reported(i, e[1])
    BY <1>1, <1>2 DEF Passed
  <1>4. CASE import[i].sec = 8
    <2>1. \A e \in export.doc : Settled(e[1]) \/ Reported(i, e[1])
      BY <1>2, <1>3, <1>4, ThingsAre, LinesAre
    <2>2. SetImport(i, Ended(i, "done"))
      BY <1>4, SectionsAre DEF EnterSection
    <2>. QED
      BY <1>1, <2>1, <2>2, EndingKeeps
  <1>5. CASE import[i].sec # 8
    <2> DEFINE n == import[i].sec + 1
               sec == SectionOrder[n]
               here == IF sec \in ListedSections THEN NamesOf(sec) ELSE {}
               r == [import[i] EXCEPT !.sec = n, !.left = Entries(sec), !.here = here]
    <2>1. n \in 1 .. 8 /\ import[i].sec \in 0 .. 7
      BY <1>2, <1>5 DEF ImportRecords
    <2>2. SetImport(i, r)
      BY <1>5, SectionsAre DEF EnterSection
    <2>3. here \subseteq Things /\ Entries(sec) \subseteq export.doc /\ (\A e \in Entries(sec) : e[1].sec = sec)
          /\ (\A t \in here : host["new"][t] # 0 /\ t.sec = sec /\ sec \in ListedSections)
          /\ (\A e \in export.doc : e[1].sec = sec => e \in Entries(sec))
          /\ (sec \in ListedSections => \A t \in Things \ here : t.sec = sec => ~Has("new", t))
      BY DEF NamesOf, Entries, In, Has
    <2> HIDE DEF here
    <2>4. r \in ImportRecords /\ r.at = "look" /\ r.sec = n /\ r.left = Entries(sec) /\ r.here = here
          /\ r.todo = import[i].todo /\ r.wrote = import[i].wrote /\ r.opened = import[i].opened /\ r.skipped = import[i].skipped
      <3>1. Entries(sec) \in SUBSET Lines /\ n \in 0 .. 8 /\ here \in SUBSET Things
        BY <1>2, <2>1, <2>3
      <3> HIDE DEF n, sec
      <3>. QED
        BY <1>1, <1>2, <3>1 DEF ImportRecords
    <2> HIDE DEF r
    <2>5. import'[i] = r
      BY <2>2, <2>4, ImportMoves DEF ConfigIInv
    <2>6. Passed(i)'
      <3>1. \A e \in export.doc : \A m \in 1 .. n : e[1].sec = SectionOrder[m] => e \in Entries(sec) \/ Settled(e[1]) \/ Reported(i, e[1])
        <4>1. \A m \in 1 .. n : m = n \/ m \in 1 .. import[i].sec
          BY <2>1
        <4>. QED
          BY <1>3, <2>3, <4>1
      <3>2. \A e \in export.doc : (Settled(e[1]) => Settled(e[1])') /\ (Reported(i, e[1]) => Reported(i, e[1])')
        BY <1>1, <2>4, <2>5 DEF Settled, Reported, Kept, Spared, Orphan, Comes, Has
      <3>. QED
        BY <1>1, <2>4, <2>5, <3>1, <3>2 DEF Passed
    <2>7. Placed(i)' /\ Affordable(i)'
      BY <1>1, <1>2, <2>1, <2>3, <2>4, <2>5 DEF Placed, Affordable
    <2>8. HereIsKept(i)'
      <3>1. \A t \in here : Kept(t)
        <4>1. \A t \in here : host["new"][t] # Half
          BY <2>3, SectionsAre DEF ConfigIInv, HostsAreSane
        <4>. QED
          BY <2>3, <4>1 DEF Kept
      <3>. QED
        BY <1>1, <2>4, <2>5, <3>1 DEF HereIsKept, Kept, Spared
    <2>9. ComesFromOthers(i)'
      BY <1>1, <2>3, <2>4, <2>5 DEF ComesFromOthers, Listing, About, Has
    <2>10. \A t \in Things : PutBy(i, t) => PutIn(r, t)
      BY <1>1, <2>4 DEF PutBy, PutIn
    <2>. QED
      BY <1>1, <1>2, <2>2, <2>4, <2>6, <2>7, <2>8, <2>9, <2>10, OneImportMoves DEF ImportSoFar
  <1>. QED
    BY <1>4, <1>5

(* A step of an import that moves nobody else keeps what stands of entries and of the hosts. *)
LEMMA StillSettled ==
  ASSUME UNCHANGED <<host, export>>
  PROVE  \A t : (Settled(t) <=> Settled(t)') /\ (Kept(t) <=> Kept(t)') /\ (Has("new", t) <=> Has("new", t)')
  BY DEF Settled, Kept, Spared, Orphan, Comes, Has

LEMMA SkipIsSettled ==
  ASSUME ConfigIInv, NEW i \in Imports, import[i].at = "look", NEW e \in import[i].left, ~Creates(i, e[1]),
         ~(e[1].sec = "spec" /\ host["new"][e[1]] = Half)
  PROVE  Settled(e[1])
  <1> DEFINE t == e[1]
  <1>1. /\ Busy(i) /\ Passed(i) /\ Placed(i) /\ HereIsKept(i) /\ import[i] \in ImportRecords /\ export.doc \subseteq Lines
    BY BusyIsWhole DEF ImportSoFar, Busy
  <1>2. t \in Things /\ e \in export.doc /\ t.sec = SectionOrder[import[i].sec] /\ import[i].sec \in 1 .. 8
    BY <1>1, LinesAre DEF Placed, ImportRecords
  <1>3. host["new"][t] # Half
    BY <1>2 DEF ConfigIInv, HostsAreSane
  <1>4. CASE t \in Unusable
    BY <1>4 DEF Settled
  <1>5. CASE IsHere(i, t)
    BY <1>1, <1>3, <1>5 DEF IsHere, Settled, HereIsKept, Kept, Has
  <1>6. CASE t.sec = "token" /\ ~\E u \in In("user") : u.name = t.owner /\ Has("new", u)
    <2>1. ASSUME NEW u \in In("user"), u.name = t.owner, Comes(u) PROVE Spared(t)
      <3>1. PICK f \in export.doc : f[1] = u
        BY <2>1 DEF Comes
      <3>2. import[i].sec = 2
        BY <1>2, <1>6, SectionsAre
      <3>3. f \notin import[i].left /\ u.sec = SectionOrder[1] /\ u \in Things /\ u.sec = "user"
        BY <1>1, <2>1, <3>1, <3>2, SectionsAre DEF Placed, In
      <3>4. Settled(u)
        <4>1. 1 \in 1 .. import[i].sec /\ f[1].sec = SectionOrder[1]
          BY <3>1, <3>2, <3>3
        <4>2. ~Reported(i, u)
          BY <3>3 DEF Reported, SkippingSections
        <4>. QED
          BY <1>1, <3>1, <3>3, <4>1, <4>2 DEF Passed
      <3>5. Spared(u)
        BY <1>6, <2>1, <3>3, <3>4 DEF Settled, Comes, Kept, Orphan, Has
      <3>6. u \in Dropped
        BY <3>3, <3>5 DEF Spared, Gone
      <3>. QED
        BY <1>2, <1>6, <2>1, <3>3, <3>6 DEF Spared, Gone
    <2>. QED
      BY <1>6, <2>1 DEF Settled, Kept, Orphan
  <1>. QED
    BY <1>4, <1>5, <1>6 DEF Creates

LEMMA LookKeepsConfig ==
  ASSUME ConfigIInv, NEW i \in Imports, NEW e \in import[i].left, LookAt(i, e)
  PROVE  ConfigIInv'
  <1> DEFINE t == e[1]
  <1>1. import[i].at = "look" /\ Busy(i) /\ UNCHANGED <<host, export>>
    BY DEF LookAt, Busy
  <1>2. /\ Sealed /\ export.roleless = {} /\ import[i] \in ImportRecords /\ export.doc \subseteq Lines
        /\ Passed(i) /\ Placed(i) /\ HereIsKept(i) /\ ComesFromOthers(i) /\ Affordable(i)
    BY <1>1, BusyIsWhole DEF ImportSoFar
  <1>3. t \in Things /\ e \in export.doc /\ e \in Lines /\ t.sec = SectionOrder[import[i].sec] /\ import[i].sec # 0
    BY <1>2, LinesAre DEF Placed
  <1>4. import[i].todo = <<>>
    BY <1>1, <1>2 DEF Placed
  <1>5. CASE t.sec = "spec" /\ host["new"][t] = Half
    BY <1>1, <1>5, EndingKeeps DEF LookAt
  <1>6. CASE ~(t.sec = "spec" /\ host["new"][t] = Half) /\ Creates(i, t)
    <2> DEFINE r == [import[i] EXCEPT !.at = "write", !.todo = <<e>>]
    <2>1. SetImport(i, r)
      BY <1>6 DEF LookAt
    <2>2. r \in ImportRecords /\ r.at = "write" /\ r.todo = <<e>> /\ r.sec = import[i].sec /\ r.left = import[i].left
          /\ r.here = import[i].here /\ r.wrote = import[i].wrote /\ r.opened = import[i].opened /\ r.skipped = import[i].skipped
      <3>1. <<e>> \in {<<>>} \cup {<<x>> : x \in Lines} /\ "write" \in ImportPlaces
        BY <1>3 DEF ImportPlaces
      <3>. QED
        BY <1>2, <3>1 DEF ImportRecords
    <2> HIDE DEF r
    <2>3. import'[i] = r /\ \A j \in Imports \ {i} : import'[j] = import[j]
      BY <2>1, <2>2, ImportMoves DEF ConfigIInv
    <2>4. Passed(i)' /\ HereIsKept(i)' /\ Affordable(i)'
      BY <1>1, <1>2, <2>2, <2>3, StillSettled DEF Passed, Reported, HereIsKept, Affordable, Busy
    <2>5. Placed(i)'
      BY <1>1, <1>2, <1>6, <2>2, <2>3 DEF Placed, Creates
    <2>6. ComesFromOthers(i)'
      <3>1. ASSUME NEW u \in Things, Listing(i, u)' \/ About(i, u)', Has("new", u) PROVE \E j \in Imports \ {i} : PutBy(j, u)
        <4>1. Listing(i, u)' => Listing(i, u)
          BY <1>1, <2>2, <2>3 DEF Listing, Busy
        <4>2. About(i, u)' => u = t
          BY <2>2, <2>3 DEF About
        <4>3. About(i, u)' => Listing(i, u)
          BY <1>1, <1>3, <1>6, <3>1, <4>2 DEF Creates, IsHere, Listing
        <4>. QED
          BY <1>2, <3>1, <4>1, <4>3 DEF ComesFromOthers
      <3>2. \A u \in Things, j \in Imports \ {i} : PutBy(j, u) => PutBy(j, u)'
        BY <2>3 DEF PutBy
      <3>3. ASSUME NEW u \in Things, Listing(i, u)' \/ About(i, u)', Has("new", u)' PROVE \E j \in Imports \ {i} : PutBy(j, u)'
        <4>1. Has("new", u)
          BY <1>1, <3>3, StillSettled
        <4>2. PICK j \in Imports \ {i} : PutBy(j, u)
          BY <3>1, <3>3, <4>1
        <4>. QED
          BY <3>2, <4>2
      <3>. QED
        BY <3>3 DEF ComesFromOthers
    <2>7. \A u \in Things : PutBy(i, u) => PutIn(r, u)
      BY <1>1, <2>2 DEF PutBy, PutIn
    <2>. QED
      BY <1>1, <1>2, <2>1, <2>2, <2>4, <2>5, <2>6, <2>7, OneImportMoves DEF ImportSoFar
  <1>7. CASE ~(t.sec = "spec" /\ host["new"][t] = Half) /\ ~Creates(i, t)
    <2> DEFINE r == [import[i] EXCEPT !.left = @ \ {e}]
    <2>1. SetImport(i, r)
      BY <1>7 DEF LookAt
    <2>2. r \in ImportRecords /\ r.at = "look" /\ r.todo = <<>> /\ r.sec = import[i].sec /\ r.left = import[i].left \ {e}
          /\ r.here = import[i].here /\ r.wrote = import[i].wrote /\ r.opened = import[i].opened /\ r.skipped = import[i].skipped
      BY <1>1, <1>2, <1>4 DEF ImportRecords
    <2> HIDE DEF r
    <2>3. import'[i] = r /\ \A j \in Imports \ {i} : import'[j] = import[j]
      BY <2>1, <2>2, ImportMoves DEF ConfigIInv
    <2>4. Settled(t)
      BY <1>1, <1>7, SkipIsSettled
    <2>5. Passed(i)'
      BY <1>1, <1>2, <2>2, <2>3, <2>4, StillSettled DEF Passed, Reported, Busy
    <2>6. Placed(i)' /\ HereIsKept(i)' /\ Affordable(i)'
      BY <1>1, <1>2, <2>2, <2>3, StillSettled DEF Placed, HereIsKept, Affordable, Busy
    <2>7. ComesFromOthers(i)'
      <3>1. \A u : ~About(i, u)' /\ (Listing(i, u)' => Listing(i, u))
        BY <1>1, <2>2, <2>3 DEF Listing, Busy, About
      <3>2. \A u \in Things, j \in Imports \ {i} : PutBy(j, u) => PutBy(j, u)'
        BY <2>3 DEF PutBy
      <3>3. ASSUME NEW u \in Things, Listing(i, u)' \/ About(i, u)', Has("new", u)' PROVE \E j \in Imports \ {i} : PutBy(j, u)'
        <4>1. Has("new", u) /\ Listing(i, u)
          BY <1>1, <3>1, <3>3, StillSettled
        <4>2. PICK j \in Imports \ {i} : PutBy(j, u)
          BY <1>2, <3>3, <4>1 DEF ComesFromOthers
        <4>. QED
          BY <3>2, <4>2
      <3>. QED
        BY <3>3 DEF ComesFromOthers
    <2>8. \A u \in Things : PutBy(i, u) => PutIn(r, u)
      BY <1>1, <2>2 DEF PutBy, PutIn
    <2>. QED
      BY <1>1, <1>2, <2>1, <2>2, <2>5, <2>6, <2>7, <2>8, OneImportMoves DEF ImportSoFar
  <1>. QED
    BY <1>5, <1>6, <1>7

(* An import puts a thing on the new host, and is one of its writers from then on. *)
LEMMA OneImportPuts ==
  ASSUME ConfigIInv, NEW i \in Imports, Busy(i), NEW t \in Things, NEW v \in ConfigValues \ {0}, Puts(t, v), UNCHANGED export,
         v = Half => t.sec = "spec" /\ ~Has("new", t),
         t.sec = "notifier" => v \in Nat,
         t.sec = "token" => \E u \in In("user") : u.name = t.owner /\ Has("new", u),
         Comes(t),
         NEW r \in ImportRecords, SetImport(i, r),
         \A u \in Things : PutBy(i, u) \/ u = t => PutIn(r, u),
         ImportSoFar(i)'
  PROVE  ConfigIInv'
  <1>1. /\ import' \in [Imports -> ImportRecords] /\ import'[i] = r
        /\ \A j \in Imports \ {i} : import'[j] = import[j]
    BY ImportMoves DEF ConfigIInv
  <1>2. /\ host' \in [{"old", "new"} -> [Things -> ConfigValues]]
        /\ host'["new"][t] = v /\ \A u \in Things \ {t} : host'["new"][u] = host["new"][u]
        /\ HostsAreSane' /\ TokensHaveUsers' /\ DocCanTravel' /\ Onwards
    BY PutsKeep
  <1>3. ConfigTypes'
    BY <1>1, <1>2 DEF ConfigIInv, ConfigTypes
  <1>4. WholeOrNothing'
    BY BusyIsWhole DEF WholeOrNothing, Sealed
  <1>5. ASSUME NEW u \in Things, NEW j \in Imports, PutBy(j, u) \/ (j = i /\ u = t) PROVE PutBy(j, u)'
    <2>1. CASE j = i
      BY <1>1, <1>5, <2>1 DEF PutBy
    <2>2. CASE j # i
      BY <1>1, <1>5, <2>2 DEF PutBy
    <2>. QED
      BY <2>1, <2>2
  <1>6. ASSUME NEW j \in Imports \ {i} PROVE ImportSoFar(j)'
    <2>1. \A u \in Things, k \in Imports \ {j} : PutBy(k, u) => PutBy(k, u)'
      BY <1>5
    <2>2. \A u \in Things : Has("new", u)' /\ ~Has("new", u) => \E k \in Imports \ {j} : PutBy(k, u)'
      <3>1. i \in Imports \ {j} /\ PutBy(i, t)'
        BY <1>5, <1>6
      <3>. QED
        BY <1>2, <3>1 DEF Has
    <2>. QED
      BY <1>1, <1>2, <1>3, <2>1, <2>2, OthersKeep
  <1>. QED
    BY <1>2, <1>3, <1>4, <1>6 DEF ConfigIInv

(* What an import that writes is about to write. *)
LEMMA WritingIs ==
  ASSUME ConfigIInv, NEW i \in Imports, import[i].at \in {"write", "meta"}
  PROVE  /\ Busy(i) /\ import[i] \in ImportRecords
         /\ \E e \in import[i].left :
              /\ import[i].todo = <<e>> /\ import[i].todo[1] = e /\ e \in export.doc /\ e[1] \in Things /\ Comes(e[1])
              /\ e[2] \in ConfigValues \ {0, Half, Foreign} /\ e[2] \in Nat
              /\ e[1].sec = SectionOrder[import[i].sec] /\ (import[i].at = "meta" => e[1].sec = "spec")
  <1>1. Busy(i) /\ import[i] \in ImportRecords /\ Placed(i) /\ export.doc \subseteq Lines
    BY BusyIsWhole DEF ImportSoFar, Busy
  <1>2. PICK e \in import[i].left : import[i].todo = <<e>> /\ e[1] \notin Unusable /\ (import[i].at = "meta" => e[1].sec = "spec")
    BY <1>1 DEF Placed
  <1>3. e \in export.doc /\ e[1] \in Things /\ e[2] \in ConfigValues \ {0, Half, Foreign}
    BY <1>1, LinesAre DEF Placed, ConfigIInv, DocCanTravel
  <1>4. Comes(e[1])
    BY <1>2, <1>3 DEF Comes
  <1>5. e[2] \in Nat
    BY <1>3 DEF ConfigValues
  <1>. QED
    BY <1>1, <1>2, <1>3, <1>4, <1>5 DEF Placed

LEMMA WroteIs ==
  ASSUME NEW i \in Imports, import[i] \in ImportRecords, NEW e \in Lines, import[i].todo[1] = e
  PROVE  /\ Wrote(i) \in ImportRecords /\ Wrote(i).at = "look" /\ Wrote(i).sec = import[i].sec /\ Wrote(i).todo = <<>>
         /\ Wrote(i).left = import[i].left \ {e} /\ Wrote(i).wrote = import[i].wrote \cup {e[1]}
         /\ Wrote(i).here = IF e[1].sec \in ListedSections THEN import[i].here \cup {e[1]} ELSE {}
         /\ Wrote(i).opened = import[i].opened /\ Wrote(i).skipped = import[i].skipped
  <1> DEFINE here == IF e[1].sec \in ListedSections THEN import[i].here \cup {e[1]} ELSE {}
  <1>1. e[1] \in Things
    BY LinesAre
  <1>2. here \in SUBSET Things /\ import[i].left \ {e} \in SUBSET Lines /\ import[i].wrote \cup {e[1]} \in SUBSET Things
        /\ "look" \in ImportPlaces
    BY <1>1 DEF ImportRecords, ImportPlaces
  <1>3. here = IF e[1].sec \in ListedSections THEN import[i].here \cup {e[1]} ELSE {}
    OBVIOUS
  <1>4. Wrote(i) = [import[i] EXCEPT !.at = "look", !.todo = <<>>, !.left = @ \ {e}, !.wrote = @ \cup {e[1]}, !.here = here]
    BY DEF Wrote, ImportRecords
  <1> HIDE DEF here
  <1>5. /\ Wrote(i).at = "look" /\ Wrote(i).sec = import[i].sec /\ Wrote(i).todo = <<>>
        /\ Wrote(i).left = import[i].left \ {e} /\ Wrote(i).wrote = import[i].wrote \cup {e[1]} /\ Wrote(i).here = here
        /\ Wrote(i).opened = import[i].opened /\ Wrote(i).skipped = import[i].skipped
    BY <1>4 DEF ImportRecords
  <1>6. Wrote(i) \in ImportRecords
    BY <1>2, <1>4 DEF ImportRecords
  <1>. QED
    BY <1>3, <1>5, <1>6

(* An entry is written whole. *)
LEMMA WholeEntryKeeps ==
  ASSUME ConfigIInv, NEW i \in Imports, import[i].at \in {"write", "meta"}, NEW v \in Nat \ {0},
         Puts(import[i].todo[1][1], v), SetImport(i, Wrote(i)), UNCHANGED export,
         import[i].todo[1][1].sec = "token" => \E u \in In("user") : u.name = import[i].todo[1][1].owner /\ Has("new", u)
  PROVE  ConfigIInv'
  <1>1. PICK e \in import[i].left :
          /\ import[i].todo = <<e>> /\ import[i].todo[1] = e /\ e \in export.doc /\ e[1] \in Things /\ Comes(e[1])
          /\ e[1].sec = SectionOrder[import[i].sec]
    BY WritingIs
  <1> DEFINE t == e[1]
             r == Wrote(i)
  <1>2. Busy(i) /\ import[i] \in ImportRecords /\ Passed(i) /\ Placed(i) /\ HereIsKept(i) /\ ComesFromOthers(i) /\ Affordable(i)
        /\ export.doc \subseteq Lines
    BY WritingIs, BusyIsWhole DEF ImportSoFar
  <1>3. /\ r \in ImportRecords /\ r.at = "look" /\ r.sec = import[i].sec /\ r.todo = <<>> /\ r.left = import[i].left \ {e}
        /\ r.wrote = import[i].wrote \cup {t} /\ r.opened = import[i].opened /\ r.skipped = import[i].skipped
        /\ r.here = IF t.sec \in ListedSections THEN import[i].here \cup {t} ELSE {}
    BY <1>1, <1>2, WroteIs
  <1>4. v \in ConfigValues \ {0} /\ v # Half /\ Puts(t, v) /\ SetImport(i, r)
    BY <1>1 DEF ConfigValues, Half
  <1> HIDE DEF r
  <1>5. import'[i] = r /\ \A j \in Imports \ {i} : import'[j] = import[j]
    BY <1>3, <1>4, ImportMoves DEF ConfigIInv
  <1>6. host'["new"][t] = v /\ (\A u \in Things \ {t} : host'["new"][u] = host["new"][u]) /\ Onwards
    BY <1>1, <1>4, PutsKeep
  <1>7. Kept(t)' /\ Settled(t)'
    BY <1>4, <1>6 DEF Kept, Settled
  <1>8. Passed(i)'
    BY <1>2, <1>3, <1>5, <1>6, <1>7 DEF Passed, Reported, Busy, Onwards
  <1>9. Placed(i)' /\ Affordable(i)'
    BY <1>2, <1>3, <1>5 DEF Placed, Affordable
  <1>10. HereIsKept(i)'
    <2>1. \A u \in r.here : u \in Things /\ (u \in import[i].here \/ u = t)
      BY <1>1, <1>2, <1>3 DEF ImportRecords
    <2>. QED
      BY <1>2, <1>5, <1>6, <1>7, <2>1 DEF HereIsKept, Onwards
  <1>11. ComesFromOthers(i)'
    <2>1. ASSUME NEW u \in Things, Listing(i, u)' \/ About(i, u)', Has("new", u)' PROVE \E j \in Imports \ {i} : PutBy(j, u)'
      <3>1. ~About(i, u)'
        BY <1>3, <1>5 DEF About
      <3>2. u # t /\ Listing(i, u)
        BY <1>1, <1>2, <1>3, <1>5, <2>1, <3>1 DEF Listing, Busy
      <3>3. Has("new", u)
        BY <1>6, <2>1, <3>2 DEF Has
      <3>4. PICK j \in Imports \ {i} : PutBy(j, u)
        BY <1>2, <3>2, <3>3 DEF ComesFromOthers
      <3>. QED
        BY <1>5, <3>4 DEF PutBy
    <2>. QED
      BY <2>1 DEF ComesFromOthers
  <1>12. \A u \in Things : PutBy(i, u) \/ u = t => PutIn(r, u)
    BY <1>1, <1>2, <1>3 DEF PutBy, PutIn
  <1>13. ImportSoFar(i)'
    BY <1>8, <1>9, <1>10, <1>11 DEF ImportSoFar
  <1>. QED
    BY <1>1, <1>2, <1>3, <1>4, <1>12, <1>13, OneImportPuts

LEMMA HalfEntryKeeps ==
  ASSUME ConfigIInv, NEW i \in Imports, import[i].at = "write", import[i].todo[1][1].sec = "spec", ~Has("new", import[i].todo[1][1]),
         Puts(import[i].todo[1][1], Half), SetImport(i, [import[i] EXCEPT !.at = "meta"]), UNCHANGED export
  PROVE  ConfigIInv'
  <1>1. PICK e \in import[i].left :
          /\ import[i].todo = <<e>> /\ import[i].todo[1] = e /\ e \in export.doc /\ e[1] \in Things /\ Comes(e[1])
          /\ e[1].sec = SectionOrder[import[i].sec]
    BY WritingIs
  <1> DEFINE t == e[1]
             r == [import[i] EXCEPT !.at = "meta"]
  <1>2. Busy(i) /\ import[i] \in ImportRecords /\ Passed(i) /\ Placed(i) /\ HereIsKept(i) /\ ComesFromOthers(i) /\ Affordable(i)
        /\ export.doc \subseteq Lines
    BY WritingIs, BusyIsWhole DEF ImportSoFar
  <1>3. /\ r \in ImportRecords /\ r.at = "meta" /\ r.sec = import[i].sec /\ r.todo = <<e>> /\ r.left = import[i].left
        /\ r.wrote = import[i].wrote /\ r.opened = import[i].opened /\ r.here = import[i].here /\ r.skipped = import[i].skipped
    <2>1. "meta" \in ImportPlaces
      BY DEF ImportPlaces
    <2>. QED
      BY <1>1, <1>2, <2>1 DEF ImportRecords
  <1>4. Half \in ConfigValues \ {0} /\ Puts(t, Half) /\ SetImport(i, r) /\ t.sec = "spec" /\ ~Has("new", t)
    BY <1>1 DEF ConfigValues, Half
  <1> HIDE DEF r
  <1>5. import'[i] = r /\ \A j \in Imports \ {i} : import'[j] = import[j]
    BY <1>3, <1>4, ImportMoves DEF ConfigIInv
  <1>6. Onwards
    BY <1>1, <1>4, PutsKeep
  <1>7. Passed(i)'
    BY <1>2, <1>3, <1>5, <1>6 DEF Passed, Reported, Busy, Onwards
  <1>8. Placed(i)' /\ Affordable(i)'
    BY <1>1, <1>2, <1>3, <1>4, <1>5 DEF Placed, Affordable, Comes
  <1>9. HereIsKept(i)'
    BY <1>2, <1>3, <1>5, <1>6 DEF HereIsKept, Onwards, ImportRecords
  <1>10. ComesFromOthers(i)'
    <2>1. \A u : ~Listing(i, u)' /\ ~About(i, u)'
      <3>1. SectionOrder[import[i].sec] = "spec"
        BY <1>1, <1>4
      <3>2. import'[i].sec = import[i].sec /\ import'[i].at = "meta"
        BY <1>3, <1>5
      <3>3. "spec" \notin ListedSections
        BY DEF ListedSections
      <3>4. SectionOrder[import'[i].sec] \notin ListedSections /\ import'[i].at # "write"
        BY <3>1, <3>2, <3>3
      <3>. QED
        BY <3>4 DEF Listing, About
    <2>. QED
      BY <2>1 DEF ComesFromOthers
  <1>11. \A u \in Things : PutBy(i, u) \/ u = t => PutIn(r, u)
    BY <1>1, <1>2, <1>3 DEF PutBy, PutIn
  <1>12. ImportSoFar(i)'
    BY <1>7, <1>8, <1>9, <1>10 DEF ImportSoFar
  <1>. QED
    BY <1>1, <1>2, <1>3, <1>4, <1>11, <1>12, OneImportPuts

LEMMA SkippedIs ==
  ASSUME NEW i \in Imports, import[i] \in ImportRecords, NEW e \in Lines, import[i].todo[1] = e
  PROVE  /\ Skipped(i) \in ImportRecords /\ Skipped(i).at = "look" /\ Skipped(i).sec = import[i].sec /\ Skipped(i).todo = <<>>
         /\ Skipped(i).left = import[i].left \ {e} /\ Skipped(i).wrote = import[i].wrote
         /\ Skipped(i).here = import[i].here /\ Skipped(i).opened = import[i].opened
         /\ Skipped(i).skipped = import[i].skipped \cup {e[1]}
  <1>1. /\ import[i].left \ {e} \in SUBSET Lines /\ import[i].skipped \cup {e[1]} \in SUBSET Things /\ "look" \in ImportPlaces
    BY LinesAre DEF ImportRecords, ImportPlaces
  <1>2. Skipped(i) = [import[i] EXCEPT !.at = "look", !.todo = <<>>, !.left = @ \ {e}, !.skipped = @ \cup {e[1]}]
    BY DEF Skipped, ImportRecords
  <1>. QED
    BY <1>1, <1>2 DEF ImportRecords

(* An entry that cannot be written is left out, and said to be. *)
LEMMA SkippingKeeps ==
  ASSUME ConfigIInv, NEW i \in Imports, import[i].at = "write", import[i].todo[1][1].sec \in SkippingSections,
         SetImport(i, Skipped(i)), UNCHANGED <<host, export>>
  PROVE  ConfigIInv'
  <1>1. PICK e \in import[i].left :
          /\ import[i].todo = <<e>> /\ import[i].todo[1] = e /\ e \in export.doc /\ e[1] \in Things
          /\ e[1].sec = SectionOrder[import[i].sec]
    BY WritingIs
  <1> DEFINE t == e[1]
             r == Skipped(i)
  <1>2. Busy(i) /\ import[i] \in ImportRecords /\ Passed(i) /\ Placed(i) /\ HereIsKept(i) /\ ComesFromOthers(i) /\ Affordable(i)
        /\ export.doc \subseteq Lines /\ Sealed /\ export.roleless = {}
    BY WritingIs, BusyIsWhole DEF ImportSoFar
  <1>3. /\ r \in ImportRecords /\ r.at = "look" /\ r.sec = import[i].sec /\ r.todo = <<>> /\ r.left = import[i].left \ {e}
        /\ r.wrote = import[i].wrote /\ r.opened = import[i].opened /\ r.here = import[i].here
        /\ r.skipped = import[i].skipped \cup {t}
    BY <1>1, <1>2, SkippedIs
  <1>4. SetImport(i, r) /\ t.sec \in SkippingSections
    BY <1>1
  <1> HIDE DEF r
  <1>5. import'[i] = r /\ \A j \in Imports \ {i} : import'[j] = import[j]
    BY <1>3, <1>4, ImportMoves DEF ConfigIInv
  <1>6. Passed(i)'
    BY <1>2, <1>3, <1>4, <1>5, StillSettled DEF Passed, Reported, Busy
  <1>7. Placed(i)' /\ HereIsKept(i)' /\ Affordable(i)'
    BY <1>2, <1>3, <1>5, StillSettled DEF Placed, HereIsKept, Affordable, Busy
  <1>8. \A u \in Things : PutBy(i, u) => PutIn(r, u)
    BY <1>3 DEF PutBy, PutIn
  <1>9. ComesFromOthers(i)'
    <2>1. \A u : ~About(i, u)' /\ (Listing(i, u)' => Listing(i, u))
      BY <1>2, <1>3, <1>5 DEF Listing, About, Busy
    <2>2. ASSUME NEW u \in Things, Listing(i, u)', Has("new", u)' PROVE \E j \in Imports \ {i} : PutBy(j, u)'
      <3>1. Listing(i, u) /\ Has("new", u)
        BY <2>1, <2>2, StillSettled
      <3>2. PICK j \in Imports \ {i} : PutBy(j, u)
        BY <1>2, <3>1 DEF ComesFromOthers
      <3>. QED
        BY <1>5, <3>2 DEF PutBy
    <2>. QED
      BY <2>1, <2>2 DEF ComesFromOthers
  <1>. QED
    BY <1>2, <1>3, <1>4, <1>6, <1>7, <1>8, <1>9, OneImportMoves DEF ImportSoFar

LEMMA WriteEntryKeeps ==
  ASSUME ConfigIInv, NEW i \in Imports, WriteEntry(i)
  PROVE  ConfigIInv'
  <1> DEFINE e == import[i].todo[1]
             t == e[1]
  <1>1. import[i].at = "write" /\ Busy(i) /\ UNCHANGED export
    BY DEF WriteEntry, Busy
  <1>2. t \in Things /\ e[2] \in Nat \ {0} /\ (t.sec = "notifier" => host["new"][t] + 1 \in Nat \ {0})
    <2>1. t \in Things /\ e[2] \in Nat \ {0}
      BY <1>1, WritingIs
    <2>2. t.sec = "notifier" => host["new"][t] \in Nat
      BY <2>1 DEF ConfigIInv, HostsAreSane
    <2> HIDE DEF e
    <2>. QED
      BY <2>1, <2>2
  <1>3. CASE SetImport(i, Ended(i, "failed")) /\ UNCHANGED host
    BY <1>1, <1>3, EndingKeeps
  <1>3a. CASE t.sec \in SkippingSections /\ SetImport(i, Skipped(i)) /\ UNCHANGED host
    BY <1>1, <1>3a, SkippingKeeps
  <1>4. CASE ~Refused(t) /\ t.sec = "spec" /\ ~Has("new", t) /\ SetImport(i, [import[i] EXCEPT !.at = "meta"])
             /\ host' = [host EXCEPT !["new"][t] = Half]
    BY <1>1, <1>4, HalfEntryKeeps DEF Puts
  <1>5. CASE ~Refused(t) /\ SetImport(i, Wrote(i)) /\ host' = [host EXCEPT !["new"][t] = IF t.sec = "notifier" THEN @ + 1 ELSE e[2]]
    <2> DEFINE v == IF t.sec = "notifier" THEN host["new"][t] + 1 ELSE e[2]
    <2>1. v \in Nat \ {0}
      BY <1>2
    <2>2. Puts(t, v)
      BY <1>2, <1>5 DEF Puts, ConfigIInv, ConfigTypes
    <2>3. t.sec = "token" => \E u \in In("user") : u.name = t.owner /\ Has("new", u)
      BY <1>5 DEF Refused
    <2> HIDE DEF v
    <2>. QED
      BY <1>1, <1>5, <2>1, <2>2, <2>3, WholeEntryKeeps
  <1>. QED
    BY <1>3, <1>3a, <1>4, <1>5 DEF WriteEntry

LEMMA WriteMetaKeeps ==
  ASSUME ConfigIInv, NEW i \in Imports, WriteMeta(i)
  PROVE  ConfigIInv'
  <1> DEFINE e == import[i].todo[1]
  <1>1. import[i].at = "meta" /\ Busy(i) /\ UNCHANGED export
    BY DEF WriteMeta, Busy
  <1>2. e[2] \in Nat \ {0} /\ e[1].sec = "spec"
    BY <1>1, WritingIs
  <1>3. CASE SetImport(i, Ended(i, "failed")) /\ UNCHANGED host
    BY <1>1, <1>3, EndingKeeps
  <1>4. CASE SetImport(i, Wrote(i)) /\ Puts(e[1], e[2])
    BY <1>1, <1>2, <1>4, WholeEntryKeeps
  <1>. QED
    BY <1>3, <1>4 DEF WriteMeta, Puts

LEMMA RestartKeepsConfig ==
  ASSUME ConfigIInv, Restart
  PROVE  ConfigIInv'
  <1>1. UNCHANGED <<host, export>>
    BY DEF Restart
  <1>2. Sealed /\ export.roleless = {}
    BY BusyIsWhole DEF Restart, Busy
  <1>3. \A i \in Imports : import'[i] = IF Busy(i) THEN [Ended(i, "cut") EXCEPT !.todo = <<>>] ELSE import[i]
    BY DEF Restart, Busy
  <1>4. ASSUME NEW i \in Imports PROVE import'[i] \in ImportRecords /\ ImportSoFar(i)'
    <2>1. import[i] \in ImportRecords /\ ImportSoFar(i)
      BY DEF ConfigIInv, ConfigTypes
    <2>2. CASE Busy(i)
      <3> DEFINE r == [Ended(i, "cut") EXCEPT !.todo = <<>>]
      <3>1. r \in ImportRecords /\ r.at = "cut" /\ r.left = {} /\ r.opened = import[i].opened
        BY <2>1, EndedIs DEF ImportRecords
      <3>2. import'[i] = r
        BY <1>3, <2>2
      <3> HIDE DEF r
      <3>. QED
        BY <1>1, <2>1, <3>1, <3>2 DEF ImportSoFar, Passed, Placed, HereIsKept, ComesFromOthers, Affordable, Listing, About, Busy
    <2>3. CASE ~Busy(i)
      <3>1. import'[i] = import[i]
        BY <1>3, <2>3
      <3>. QED
        BY <1>1, <2>1, <2>3, <3>1, StillSettled
           DEF ImportSoFar, Passed, Reported, Placed, HereIsKept, ComesFromOthers, Affordable, Listing, About, Busy
    <2>. QED
      BY <2>2, <2>3
  <1>5. ConfigTypes' /\ HostsAreSane' /\ TokensHaveUsers' /\ WholeOrNothing' /\ DocCanTravel'
    <2>1. import' = [i \in Imports |-> import'[i]]
      BY DEF Restart
    <2>. QED
      BY <1>1, <1>2, <1>4, <2>1 DEF ConfigIInv, ConfigTypes, HostsAreSane, TokensHaveUsers, WholeOrNothing, Has, DocCanTravel, Sealed
  <1>. QED
    BY <1>4, <1>5 DEF ConfigIInv

LEMMA ConfigInvariantHolds == ConfigSpec => []ConfigIInv
  <1>1. ASSUME NEW old \in Hosts, NEW new \in Hosts, ConfigInit(old, new) PROVE ConfigIInv
    <2>1. host["old"] = old /\ host["new"] = new /\ host \in [{"old", "new"} -> [Things -> ConfigValues]]
      BY <1>1 DEF ConfigInit, Hosts, ConfigValues
    <2>2. export.next = 1 /\ export.doc = {} /\ export.roleless = {} /\ export \in [next : 1 .. 9, doc : SUBSET Lines, roleless : SUBSET Things]
      BY <1>1 DEF ConfigInit
    <2> DEFINE r == [at |-> "new", sec |-> 0, left |-> {}, here |-> {}, todo |-> <<>>, wrote |-> {}, skipped |-> {}, opened |-> {}]
    <2>3. r \in ImportRecords /\ r.at = "new" /\ r.left = {} /\ r.wrote = {} /\ r.todo = <<>> /\ r.opened = {}
      <3>1. {"new"} \subseteq ImportPlaces /\ 0 \in 0 .. 8 /\ {} \in SUBSET Lines /\ {} \in SUBSET Things /\ {} \in SUBSET Envelopes
        BY DEF ImportPlaces
      <3>. QED
        BY <3>1 DEF ImportRecords
    <2>4. import = [i \in Imports |-> r]
      BY <1>1 DEF ConfigInit
    <2> HIDE DEF r
    <2>5. HostsAreSane /\ TokensHaveUsers
      BY <2>1 DEF Hosts, HostsAreSane, TokensHaveUsers, Has, In
    <2>6. ASSUME NEW i \in Imports PROVE ImportSoFar(i)
      BY <2>2, <2>3, <2>4 DEF ImportSoFar, Passed, Placed, HereIsKept, ComesFromOthers, Affordable, Listing, About, Busy
    <2>. QED
      BY <2>1, <2>2, <2>3, <2>4, <2>5, <2>6 DEF ConfigIInv, ConfigTypes, DocCanTravel, WholeOrNothing, Untaken
  <1>2. ASSUME ConfigIInv, [ConfigNext]_configVars PROVE ConfigIInv'
    <2>1. CASE UNCHANGED configVars
      <3>1. UNCHANGED <<host, export, import>>
        BY <2>1 DEF configVars
      <3>2. \A t : (Has("new", t)' <=> Has("new", t)) /\ (Kept(t)' <=> Kept(t)) /\ (Comes(t)' <=> Comes(t)) /\ \A j \in Imports : PutBy(j, t)' <=> PutBy(j, t)
        BY <3>1 DEF Has, Kept, Spared, Comes, PutBy
      <3>3. \A t : Settled(t)' <=> Settled(t)
        BY <3>2 DEF Settled, Orphan
      <3>4. ASSUME NEW i \in Imports PROVE ImportSoFar(i)'
        <4>1. ImportSoFar(i) /\ \A t : (Listing(i, t)' <=> Listing(i, t)) /\ (About(i, t)' <=> About(i, t))
          BY <1>2, <3>1 DEF ConfigIInv, Listing, About, Busy
        <4>2. Passed(i)' /\ Placed(i)' /\ HereIsKept(i)' /\ Affordable(i)'
          BY <3>1, <3>2, <3>3, <4>1 DEF ImportSoFar, Passed, Reported, Placed, HereIsKept, Affordable, Busy
        <4>3. ComesFromOthers(i)'
          BY <3>2, <4>1 DEF ImportSoFar, ComesFromOthers
        <4>. QED
          BY <4>2, <4>3 DEF ImportSoFar
      <3>. QED
        BY <1>2, <3>1, <3>4 DEF ConfigIInv, ConfigTypes, HostsAreSane, TokensHaveUsers, DocCanTravel, WholeOrNothing, Has, Sealed
    <2>2. CASE \E i \in Imports : OpenImport(i) \/ ImportStep(i)
      BY <1>2, <2>2, OpenImportKeeps, EnterKeeps, LookKeepsConfig, WriteEntryKeeps, WriteMetaKeeps DEF ImportStep
    <2>3. CASE ExportSection \/ Restart \/ (\E e \in export.doc : EditDocument(e))
      BY <1>2, <2>3, ExportKeeps, RestartKeepsConfig, EditDocumentKeeps
    <2>4. CASE (\E t \in Edited, v \in {0, 1} : EditOld(t, v)) \/ \E t \in Dropped : DropNew(t)
      BY <1>2, <2>4, ThingsAre, EditOldKeeps, DropNewKeeps
    <2>. QED
      BY <1>2, <2>1, <2>2, <2>3, <2>4 DEF ConfigNext
  <1>3. (\E old \in Hosts, new \in Hosts : ConfigInit(old, new)) => ConfigIInv
    BY <1>1
  <1>. QED
    BY <1>2, <1>3, PTL DEF ConfigSpec

(* The hosts, the document and the imports keep their types. *)
THEOREM ConfigTypeCorrect == ConfigSpec => []ConfigTypeOK
  <1>1. ASSUME ConfigIInv PROVE ConfigTypeOK
    <2>1. ASSUME NEW i \in Imports PROVE import[i] \in ImportRecords /\ import[i].left \subseteq export.doc
      BY <1>1 DEF ConfigIInv, ConfigTypes, ImportSoFar, Placed
    <2>. QED
      BY <1>1, <2>1, SectionsAre DEF ConfigIInv, ConfigTypes, ConfigValues, ImportRecords, ImportPlaces, ConfigTypeOK
  <1>. QED
    BY <1>1, ConfigInvariantHolds, PTL

(* For any hosts, any number of imports of one document at once, any writes that fail and any       *)
(* restart: an import writes over nothing that no other import put there, one that is answered left *)
(* nothing behind this host can take, a document with an account without a role adds nothing, no    *)
(* token is without its account, and no file costs more than its key may (config.go:36-48, 575-579, *)
(* 618-619, seal.go:198-200).                                                                       *)
THEOREM ConfigTravelsSafely == ConfigSpec => ConfigSafety
  <1> DEFINE Always == DoneIsThere /\ RolelessAddsNothing /\ TokensHaveUsers /\ KeyIsAffordable /\ ExportIsPortable
             Older == \A t \in Things, i \in Imports :
                        (import[i].at = "write" /\ import[i].todo[1][1] = t /\ Has("new", t) /\ import'[i].at = "look" /\ t \in import'[i].wrote)
                          => Writers(t) \ {i} # {}
  <1>1. ASSUME ConfigIInv PROVE Always
    <2>1. DoneIsThere
      <3>1. ASSUME NEW i \in Imports, import[i].at = "done", NEW e \in export.doc
            PROVE  \/ e[1] \in Unusable \/ \E t \in Dropped : e[1] \in Gone(t)
                   \/ e[1].sec = "token" /\ ~\E u \in In("user") : u.name = e[1].owner /\ Has("new", u)
                   \/ host["new"][e[1]] \notin {0, Half}
                   \/ e[1] \in import[i].skipped /\ e[1].sec \in SkippingSections
        <4>1. Settled(e[1]) \/ Reported(i, e[1])
          BY <1>1, <3>1 DEF ConfigIInv, ImportSoFar, Passed
        <4>. QED
          BY <4>1 DEF Settled, Reported, Kept, Spared, Orphan
      <3>. QED
        BY <3>1 DEF DoneIsThere
    <2>2. RolelessAddsNothing
      BY <1>1 DEF ConfigIInv, WholeOrNothing, Untaken, ImportSoFar, Placed, RolelessAddsNothing
    <2>3. KeyIsAffordable
      BY <1>1 DEF ConfigIInv, ImportSoFar, Affordable, CheckKDF, KeyIsAffordable
    <2>. QED
      BY <1>1, <2>1, <2>2, <2>3 DEF ConfigIInv, DocCanTravel, ExportIsPortable
  <1>2. ConfigIInv => Older
    <2>1. ASSUME ConfigIInv, NEW t \in Things, NEW i \in Imports, import[i].at = "write", import[i].todo[1][1] = t, Has("new", t)
          PROVE  Writers(t) \ {i} # {}
      <3>1. About(i, t)
        BY <2>1 DEF About
      <3>2. ComesFromOthers(i) /\ \A j \in Imports : import[j] \in ImportRecords
        BY <2>1 DEF ConfigIInv, ConfigTypes, ImportSoFar
      <3>. QED
        BY <2>1, <3>1, <3>2, PuttersWrite DEF ComesFromOthers
    <2>. QED
      BY <2>1
  <1> HIDE DEF Always, Older
  <1>3. ConfigSpec => []Always /\ [][Older]_configVars
    BY <1>1, <1>2, ConfigInvariantHolds, PTL DEF ConfigSpec
  <1>. QED
    BY <1>3 DEF Always, Older, ConfigSafety, OlderIsKept

(***************************************************************************)
(* The derived compose file.  What the derivation makes of one service is  *)
(* a matter of its functions; that docker reads that derivation is one of  *)
(* who has truncated and who has filled the file that they share.          *)
(***************************************************************************)
SubmittedTexts == {s.doc : s \in Submissions}
ResolvedSpecs == {s.spec : s \in Submissions}
CommandPlaces == {"asked", "read", "logging", "challenge", "build", "truncate", "fill", "chmod", "run"}
Commands(c) ==
    [at : CommandPlaces, verb : Verbs(c), spec : ResolvedSpecs, text : SubmittedTexts, push : BOOLEAN,
     mode : Modes \cup {"unknown"}, file : {"none", "original", "generated"}, alone : BOOLEAN, overtaken : BOOLEAN]
MaterializeTypes ==
    /\ submitted \in Submissions
    /\ generated.secret \in BOOLEAN /\ generated.closed \in BOOLEAN /\ generated.cut \in BOOLEAN
    /\ DOMAIN generated = {"doc", "secret", "closed", "cut"}
    /\ project.volumes \in BOOLEAN
    /\ setup \in [loki : BOOLEAN, plugin : BOOLEAN, mode : Modes]
    /\ DOMAIN op = Callers
    /\ \A c \in Callers : op[c] = NoCommand \/ op[c] \in Commands(c)

(* The password was written by a caller that closes the file next, or by one that could not; a    *)
(* caller that goes on has closed it.                                                             *)
LateClosing == generated.secret /\ ~generated.closed => generated.cut \/ \E c \in Callers : op[c].at = "chmod"
Settles(c) ==
    /\ op[c].at = "chmod" => op[c].push
    /\ op[c].at \in {"truncate", "fill", "chmod"} => op[c].file = "generated"
    /\ op[c].at = "run" /\ op[c].verb = "up" => op[c].file # "none"
    /\ op[c].at = "run" /\ op[c].file = "generated" /\ op[c].push => generated.closed
    /\ op[c].at = "asked" => op[c].file = "none"
(* Alone means that nobody reads: what the job truncates only the job fills. The text is read when *)
(* the job has the stack, the spec was resolved before it had.                                     *)
HasText(r) == r.at \in {"logging", "challenge", "build", "truncate", "fill", "chmod"} \/ (r.at = "run" /\ r.file = "generated")
JobAlone ==
    LET j == op[StackJob] IN
    j # NoCommand =>
      /\ HasText(j) => j.text = submitted.doc
      /\ j.spec = submitted.spec \/ j.overtaken
      /\ j.alone => j.at # "asked" /\ \A v \in Viewers : op[v] = NoCommand
      /\ j.alone /\ j.at = "fill" => generated.doc = Empty
      /\ j.alone /\ j.at \in {"chmod", "run"} /\ j.file = "generated" => generated.doc = Mine(StackJob)
MaterializeIInv ==
    MaterializeTypes /\ LateClosing /\ JobAlone /\ \A c \in Callers : Settles(c)

--------------------------------------------------------------------------------
(* What the derivation makes of one service. *)
MadeOf(doc, networks, d) == d = [services |-> d.services, networks |-> networks, broken |-> doc.broken, mentionsRouting |-> doc.mentionsRouting]
WrittenLabels == SUBSET (STRING \cup Traefik)
WrittenNetworks == SUBSET (STRING \cup {"default", Ingress})
WrittenShape ==
    [labels : WrittenLabels, deployLabels : WrittenLabels, port : {"none", "ok", "bad"}, alias : STRING, host : STRING,
     logging : {"none", "own", "loki", "capped"}, profiles : SUBSET STRING, networks : WrittenNetworks, restart : STRING,
     policy : STRING, limits : SUBSET STRING, keys : SUBSET STRING]
LEMMA ServicesAreWritten == ServiceShape \subseteq WrittenShape
  BY DEF ServiceShape, WrittenShape, WrittenLabels, WrittenNetworks

LEMMA TextsAre ==
  ASSUME NEW doc \in SubmittedTexts
  PROVE  /\ doc.services = [n \in DOMAIN doc.services |-> doc.services[n]]
         /\ \A n \in DOMAIN doc.services : doc.services[n] \in ServiceShape
         /\ doc = [services |-> doc.services, networks |-> doc.networks, broken |-> doc.broken, mentionsRouting |-> doc.mentionsRouting]
         /\ \A n \in DOMAIN doc.services : AsksRouting(doc.services[n]) => doc.mentionsRouting
  <1>1. DocumentShape(doc)
    BY MaterializeAssumption DEF SubmittedTexts
  <1>. QED
    BY <1>1 DEF DocumentShape, AsksRouting

LEMMA WithRouteIs ==
  ASSUME NEW n, NEW s \in ServiceShape, NEW sp, NEW mode, NEW w, w = WithRoute(n, s, sp, mode)
  PROVE
         /\ w \in WrittenShape /\ w.logging = s.logging /\ w.profiles = s.profiles
         /\ IsSwarm(sp) => w.labels = s.labels /\ w.deployLabels = s.deployLabels \cup Added(n, s, sp, mode)
         /\ ~IsSwarm(sp) => w.labels = s.labels \cup Added(n, s, sp, mode) /\ w.deployLabels = s.deployLabels
         /\ Ingress \in w.networks /\ w.networks \subseteq s.networks \cup {"default", Ingress}
  <1> DEFINE added == Added(n, s, sp, mode)
             networks == (IF s.networks = {} THEN {"default"} ELSE s.networks) \cup {Ingress}
  <1>1. added \in WrittenLabels
    BY DEF Added, NetworkKey, Traefik, RouteLabels, WrittenLabels
  <1>2. networks \in WrittenNetworks
    BY DEF ServiceShape, WrittenNetworks
  <1>3. Ingress \in networks /\ networks \subseteq s.networks \cup {"default", Ingress}
    OBVIOUS
  <1>4. WithRoute(n, s, sp, mode) = IF IsSwarm(sp) THEN [s EXCEPT !.deployLabels = @ \cup added, !.networks = networks]
                                    ELSE [s EXCEPT !.labels = @ \cup added, !.networks = networks]
    BY DEF WithRoute, ServiceShape
  <1> HIDE DEF added, networks
  <1>5. CASE IsSwarm(sp)
    <2> DEFINE r == [s EXCEPT !.deployLabels = @ \cup added, !.networks = networks]
    <2>0. s.labels \in WrittenLabels
      BY DEF ServiceShape, WrittenLabels
    <2>1. s.deployLabels \cup added \in WrittenLabels
      BY <1>1 DEF ServiceShape, WrittenLabels
    <2>2. r \in WrittenShape /\ r.logging = s.logging /\ r.profiles = s.profiles /\ r.labels = s.labels /\ r.networks = networks
          /\ r.deployLabels = s.deployLabels \cup added
      BY <1>2, <2>1, <2>0 DEF ServiceShape, WrittenShape
    <2>. QED
      BY <1>3, <1>4, <1>5, <2>2 DEF added
  <1>6. CASE ~IsSwarm(sp)
    <2> DEFINE r == [s EXCEPT !.labels = @ \cup added, !.networks = networks]
    <2>0. s.deployLabels \in WrittenLabels
      BY DEF ServiceShape, WrittenLabels
    <2>1. s.labels \cup added \in WrittenLabels
      BY <1>1 DEF ServiceShape, WrittenLabels
    <2>2. r \in WrittenShape /\ r.logging = s.logging /\ r.profiles = s.profiles /\ r.labels = s.labels \cup added /\ r.networks = networks
          /\ r.deployLabels = s.deployLabels
      BY <1>2, <2>1, <2>0 DEF ServiceShape, WrittenShape
    <2>. QED
      BY <1>3, <1>4, <1>6, <2>2 DEF added
  <1>. QED
    BY <1>5, <1>6

(* The service as it is labelled, and as it is logged: with a driver where it had none. *)
AsLabelled(n, s, sp, mode) == IF AsksRouting(s) THEN WithRoute(n, s, sp, mode) ELSE s
AsLogged(n, s, sp, push, mode) ==
    LET w == AsLabelled(n, s, sp, mode)
    IN  IF w.logging = "none" THEN [w EXCEPT !.logging = IF push THEN "loki" ELSE "capped"] ELSE w

LEMMA LabelledIs ==
  ASSUME NEW doc \in SubmittedTexts, NEW sp, NEW mode, NEW l, l = Labelled(doc, sp, mode)
  PROVE
         /\ l.services = [n \in DOMAIN doc.services |-> AsLabelled(n, doc.services[n], sp, mode)]
         /\ doc.networks \subseteq l.networks
         /\ \A n \in DOMAIN doc.services : AsksRouting(doc.services[n]) => {"default", Ingress} \subseteq l.networks
         /\ MadeOf(doc, l.networks, l)
  <1>1. CASE doc.mentionsRouting
    <2> DEFINE routed == {n \in DOMAIN doc.services : AsksRouting(doc.services[n])}
               services == [n \in DOMAIN doc.services |-> IF n \in routed THEN WithRoute(n, doc.services[n], sp, mode) ELSE doc.services[n]]
               networks == doc.networks \cup (IF routed = {} THEN {} ELSE {"default", Ingress, "preview-shared"})
    <2>1. services = [n \in DOMAIN doc.services |-> AsLabelled(n, doc.services[n], sp, mode)]
      BY DEF AsLabelled
    <2>2. doc.networks \subseteq networks /\ \A n \in DOMAIN doc.services : AsksRouting(doc.services[n]) => {"default", Ingress} \subseteq networks
      OBVIOUS
    <2>3. Labelled(doc, sp, mode) = [doc EXCEPT !.services = services, !.networks = networks]
      BY <1>1, TextsAre DEF Labelled, Augmented
    <2> HIDE DEF routed, services, networks
    <2>4. Labelled(doc, sp, mode) = [services |-> services, networks |-> networks, broken |-> doc.broken, mentionsRouting |-> doc.mentionsRouting]
      BY <2>3, TextsAre
    <2>. QED
      BY <2>1, <2>2, <2>4 DEF MadeOf
  <1>2. CASE ~doc.mentionsRouting
    <2>1. Labelled(doc, sp, mode) = doc /\ \A n \in DOMAIN doc.services : ~AsksRouting(doc.services[n])
      BY <1>2, TextsAre DEF Labelled
    <2>. QED
      BY <2>1, TextsAre DEF MadeOf, AsLabelled
  <1>. QED
    BY <1>1, <1>2

LEMMA LoggedIs ==
  ASSUME NEW doc \in SubmittedTexts, NEW sp, NEW mode, NEW push \in BOOLEAN,
         NEW l, l = Labelled(doc, sp, mode), NEW g, g = Logged(l, push)
  PROVE
         /\ g.services = [n \in DOMAIN doc.services |-> AsLogged(n, doc.services[n], sp, push, mode)]
         /\ MadeOf(doc, l.networks, g)
  <1> DEFINE driver == IF push THEN "loki" ELSE "capped"
             services == [n \in DOMAIN doc.services |-> IF l.services[n].logging = "none" THEN [l.services[n] EXCEPT !.logging = driver]
                                                        ELSE l.services[n]]
  <1>1. DOMAIN l.services = DOMAIN doc.services
        /\ l = [services |-> l.services, networks |-> l.networks, broken |-> doc.broken, mentionsRouting |-> doc.mentionsRouting]
    <2>1. l.services = [n \in DOMAIN doc.services |-> AsLabelled(n, doc.services[n], sp, mode)]
      BY LabelledIs
    <2>2. MadeOf(doc, l.networks, l)
      BY LabelledIs
    <2>. QED
      BY <2>1, <2>2 DEF MadeOf
  <1>2. Logged(l, push) = WithLogging(l, driver)
    BY DEF Logged, InjectLogging, CapLogs
  <1> HIDE DEF driver
  <1>3. WithLogging(l, driver) = [l EXCEPT !.services = services]
    BY <1>1 DEF WithLogging
  <1> HIDE DEF services
  <1>4. Logged(l, push) = [services |-> services, networks |-> l.networks, broken |-> doc.broken, mentionsRouting |-> doc.mentionsRouting]
    BY <1>1, <1>2, <1>3
  <1>5. services = [n \in DOMAIN doc.services |-> AsLogged(n, doc.services[n], sp, push, mode)]
    <2>1. l.services = [n \in DOMAIN doc.services |-> AsLabelled(n, doc.services[n], sp, mode)]
      BY LabelledIs
    <2>. QED
      BY <2>1 DEF services, driver, AsLogged
  <1>. QED
    BY <1>4, <1>5 DEF MadeOf

LEMMA AsLoggedIs ==
  ASSUME NEW n, NEW s \in ServiceShape, NEW sp, NEW mode, NEW push \in BOOLEAN,
         NEW g, g = AsLogged(n, s, sp, push, mode), NEW w, w = AsLabelled(n, s, sp, mode)
  PROVE
         /\ g \in WrittenShape /\ g.labels = w.labels /\ g.deployLabels = w.deployLabels /\ g.networks = w.networks
         /\ g.profiles = s.profiles
         /\ (g.logging = "own" <=> s.logging = "own") /\ (g.logging = "loki" <=> push /\ s.logging = "none")
  <1> DEFINE driver == IF push THEN "loki" ELSE "capped"
  <1>1. w \in WrittenShape /\ w.logging = s.logging /\ s.logging \in {"none", "own"} /\ w.profiles = s.profiles
    <2>1. s \in WrittenShape /\ s.logging \in {"none", "own"}
      BY ServicesAreWritten DEF ServiceShape
    <2>2. WithRoute(n, s, sp, mode) \in WrittenShape
      BY WithRouteIs
    <2>3. WithRoute(n, s, sp, mode).logging = s.logging
      BY WithRouteIs
    <2>4. WithRoute(n, s, sp, mode).profiles = s.profiles
      BY WithRouteIs
    <2>. QED
      BY <2>1, <2>2, <2>3, <2>4 DEF AsLabelled
  <1>2. driver \in {"none", "own", "loki", "capped"}
    OBVIOUS
  <1>3. AsLogged(n, s, sp, push, mode) = IF w.logging = "none" THEN [w EXCEPT !.logging = driver] ELSE w
    BY DEF AsLogged
  <1>4. driver = IF push THEN "loki" ELSE "capped"
    OBVIOUS
  <1> HIDE DEF driver
  <1> DEFINE r == [w EXCEPT !.logging = driver]
  <1>5. r \in WrittenShape /\ r.labels = w.labels /\ r.deployLabels = w.deployLabels /\ r.networks = w.networks /\ r.logging = driver
        /\ r.profiles = w.profiles
    BY <1>1, <1>2 DEF WrittenShape
  <1>. QED
    BY <1>1, <1>3, <1>4, <1>5

LEMMA ForSwarmIs ==
  ASSUME NEW s \in WrittenShape
  PROVE  LET moved == s.deployLabels \cup (s.labels \cap Traefik) IN
         /\ ForSwarm(s).labels = s.labels \ Traefik
         /\ ForSwarm(s).deployLabels = (moved \ {"docker.network"}) \cup {l \in {"swarm.network"} : "docker.network" \in moved}
         /\ ForSwarm(s).networks = s.networks /\ ForSwarm(s).logging = s.logging
  BY DEF ForSwarm, WrittenShape

LEMMA DerivedIs ==
  ASSUME NEW doc \in SubmittedTexts, NEW sp, NEW mode, NEW push \in BOOLEAN, NEW d, d = Derived(doc, sp, push, mode)
  PROVE
         /\ \A n : n \in DOMAIN d.services <=> n \in DOMAIN doc.services /\ (IsSwarm(sp) => InProfiles(doc.services[n], sp.profiles))
         /\ \A l : l = Labelled(doc, sp, mode) => d.networks = l.networks
         /\ IsSwarm(sp) => \A n \in DOMAIN d.services : d.services[n] = ForSwarm(AsLogged(n, doc.services[n], sp, push, mode))
         /\ ~IsSwarm(sp) => \A n \in DOMAIN d.services : d.services[n] = AsLogged(n, doc.services[n], sp, push, mode)
  <1> DEFINE l == Labelled(doc, sp, mode)
             g == Logged(l, push)
             as(n) == AsLogged(n, doc.services[n], sp, push, mode)
  <1>2. g.services = [n \in DOMAIN doc.services |-> as(n)]
    BY LoggedIs
  <1>3. MadeOf(doc, l.networks, g)
    BY LoggedIs
  <1>4. Derived(doc, sp, push, mode) = IF IsSwarm(sp) THEN Swarmify(g, sp.profiles) ELSE g
    BY DEF Derived
  <1> HIDE DEF l, g, as
  <1>5. \A n \in DOMAIN doc.services : g.services[n] = as(n)
    BY <1>2
  <1>6. DOMAIN g.services = DOMAIN doc.services /\ g.networks = l.networks
    BY <1>2, <1>3 DEF MadeOf
  <1>7. \A n \in DOMAIN doc.services : g.services[n].profiles = doc.services[n].profiles
    <2>1. ASSUME NEW n \in DOMAIN doc.services PROVE as(n).profiles = doc.services[n].profiles
      <3>1. doc.services[n] \in ServiceShape
        BY TextsAre
      <3>. QED
        BY <3>1, AsLoggedIs DEF as
    <2>. QED
      BY <1>5, <2>1
  <1>8. CASE ~IsSwarm(sp)
    <2>1. Derived(doc, sp, push, mode) = g
      BY <1>4, <1>8
    <2>. QED
      BY <1>5, <1>6, <1>8, <2>1 DEF l, as
  <1>9. CASE IsSwarm(sp)
    <2> DEFINE taken == {n \in DOMAIN g.services : InProfiles(g.services[n], sp.profiles)}
               services == [n \in taken |-> ForSwarm(g.services[n])]
    <2>1. taken = {n \in DOMAIN doc.services : InProfiles(doc.services[n], sp.profiles)}
      BY <1>6, <1>7 DEF InProfiles
    <2>2. \A n \in taken : services[n] = ForSwarm(as(n))
      BY <1>5, <1>6
    <2>3. DOMAIN services = taken
      OBVIOUS
    <2>4. Derived(doc, sp, push, mode) = [g EXCEPT !.services = services]
      BY <1>4, <1>9 DEF Swarmify
    <2> HIDE DEF taken, services
    <2>5. Derived(doc, sp, push, mode).services = services /\ Derived(doc, sp, push, mode).networks = g.networks
      BY <1>3, <2>4 DEF MadeOf
    <2>. QED
      BY <1>6, <1>9, <2>1, <2>2, <2>3, <2>5 DEF l, as
  <1>. QED
    BY <1>8, <1>9

(* Labels of one's own, where they are and where the conversion to swarm puts them. *)
RouteKept(s, r) ==
    /\ (r.labels \cup r.deployLabels) \cap (RouteLabels \cup {"own.rule"}) = (s.labels \cup s.deployLabels) \cap (RouteLabels \cup {"own.rule"})
    /\ r.networks = s.networks
LogsFollow(s, r, push) == (s.logging = "own" => r.logging = "own") /\ (r.logging = "loki" <=> push /\ s.logging = "none")
LEMMA OwnStays ==
  ASSUME NEW doc \in SubmittedTexts, NEW sp, NEW mode, NEW push \in BOOLEAN, NEW d, d = Derived(doc, sp, push, mode),
         NEW n \in DOMAIN d.services
  PROVE  /\ HasTraefik(doc.services[n]) => RouteKept(doc.services[n], d.services[n])
         /\ n \in DOMAIN doc.services /\ LogsFollow(doc.services[n], d.services[n], push)
  <1> DEFINE s == doc.services[n]
             g == AsLogged(n, s, sp, push, mode)
             w == AsLabelled(n, s, sp, mode)
  <1>1. n \in DOMAIN doc.services /\ s \in ServiceShape
    <2>1. n \in DOMAIN doc.services
      BY DerivedIs
    <2>. QED
      BY <2>1, TextsAre
  <1>2. g \in WrittenShape /\ g.labels = w.labels /\ g.deployLabels = w.deployLabels /\ g.networks = w.networks
        /\ (g.logging = "own" <=> s.logging = "own") /\ (g.logging = "loki" <=> push /\ s.logging = "none")
    BY <1>1, AsLoggedIs
  <1>3. HasTraefik(s) => w = s
    BY DEF AsLabelled, AsksRouting
  <1>4. (IsSwarm(sp) => d.services[n] = ForSwarm(g)) /\ (~IsSwarm(sp) => d.services[n] = g)
    BY DerivedIs
  <1> HIDE DEF s, g, w
  <1>5. CASE ~IsSwarm(sp)
    BY <1>1, <1>2, <1>3, <1>4, <1>5 DEF s, RouteKept, LogsFollow
  <1>6. CASE IsSwarm(sp)
    <2> DEFINE r == ForSwarm(g)
               moved == g.deployLabels \cup (g.labels \cap Traefik)
    <2>1. /\ r.labels = g.labels \ Traefik
          /\ r.deployLabels = (moved \ {"docker.network"}) \cup {l \in {"swarm.network"} : "docker.network" \in moved}
          /\ r.networks = g.networks /\ r.logging = g.logging
      BY <1>2, ForSwarmIs
    <2> HIDE DEF r
    <2>2. (r.labels \cup r.deployLabels) \cap (RouteLabels \cup {"own.rule"}) = (g.labels \cup g.deployLabels) \cap (RouteLabels \cup {"own.rule"})
      BY <2>1 DEF RouteLabels, Traefik
    <2>3. d.services[n] = r
      BY <1>4, <1>6 DEF r
    <2>. QED
      BY <1>1, <1>2, <1>3, <2>1, <2>2, <2>3 DEF s, RouteKept, LogsFollow
  <1>. QED
    BY <1>5, <1>6

(* A service that asked is enabled where its provider looks, and nowhere else. *)
LEMMA RouteIsThere ==
  ASSUME NEW doc \in SubmittedTexts, NEW sp, NEW mode, NEW push \in BOOLEAN, NEW d, d = Derived(doc, sp, push, mode),
         NEW n \in DOMAIN d.services, AsksRouting(doc.services[n]),
         NEW seen, seen = IF IsSwarm(sp) THEN d.services[n].deployLabels ELSE d.services[n].labels,
         NEW other, other = IF IsSwarm(sp) THEN d.services[n].labels ELSE d.services[n].deployLabels
  PROVE  /\ {"enable", "rule", NetworkKey(sp)} \subseteq seen /\ other \cap Traefik = {}
         /\ Ingress \in d.services[n].networks
         /\ d.services[n].networks \subseteq d.networks \cup doc.services[n].networks
         /\ ("resolver" \in seen) = ~WildcardMode(mode)
  <1> DEFINE s == doc.services[n]
             added == Added(n, s, sp, mode)
             w == WithRoute(n, s, sp, mode)
             g == AsLogged(n, s, sp, push, mode)
             l == Labelled(doc, sp, mode)
  <1>1. n \in DOMAIN doc.services /\ s \in ServiceShape /\ AsLabelled(n, s, sp, mode) = w
    <2>1. n \in DOMAIN doc.services
      BY OwnStays
    <2>. QED
      BY <2>1, TextsAre DEF AsLabelled
  <1>2. {"default", Ingress} \subseteq l.networks /\ d.networks = l.networks
    <2>1. d.networks = l.networks
      BY DerivedIs
    <2>. QED
      BY <1>1, <2>1, LabelledIs
  <1>3. /\ IsSwarm(sp) => w.labels = s.labels /\ w.deployLabels = s.deployLabels \cup added
        /\ ~IsSwarm(sp) => w.labels = s.labels \cup added /\ w.deployLabels = s.deployLabels
        /\ Ingress \in w.networks /\ w.networks \subseteq s.networks \cup {"default", Ingress}
    <2> HIDE DEF s
    <2>1. IsSwarm(sp) => w.labels = s.labels /\ w.deployLabels = s.deployLabels \cup added
      BY <1>1, WithRouteIs
    <2>2. ~IsSwarm(sp) => w.labels = s.labels \cup added /\ w.deployLabels = s.deployLabels
      BY <1>1, WithRouteIs
    <2>3. Ingress \in w.networks /\ w.networks \subseteq s.networks \cup {"default", Ingress}
      BY <1>1, WithRouteIs
    <2>. QED
      BY <2>1, <2>2, <2>3
  <1>5. g \in WrittenShape /\ g.labels = w.labels /\ g.deployLabels = w.deployLabels /\ g.networks = w.networks
    BY <1>1, AsLoggedIs
  <1>6. (IsSwarm(sp) => d.services[n] = ForSwarm(g)) /\ (~IsSwarm(sp) => d.services[n] = g)
    BY DerivedIs
  <1>7. s.labels \cap Traefik = {} /\ s.deployLabels \cap Traefik = {}
    BY DEF AsksRouting, HasTraefik
  <1>8. /\ {"enable", "rule", NetworkKey(sp)} \subseteq added /\ added \subseteq Traefik /\ ("resolver" \in added <=> ~WildcardMode(mode))
        /\ "docker.network" \in added <=> ~IsSwarm(sp)
    BY DEF Added, NetworkKey, Traefik, RouteLabels
  <1>9. NetworkKey(sp) = (IF IsSwarm(sp) THEN "swarm.network" ELSE "docker.network") /\ {"enable", "rule", "resolver"} \subseteq Traefik
    BY DEF NetworkKey, Traefik, RouteLabels
  <1> HIDE DEF s, g, w, l, added
  <1>10. CASE ~IsSwarm(sp)
    <2>1. d.services[n] = g /\ seen = s.labels \cup added /\ other = s.deployLabels
      BY <1>3, <1>5, <1>6, <1>10
    <2>2. "resolver" \in seen <=> ~WildcardMode(mode)
      BY <1>7, <1>8, <1>9, <2>1
    <2>. QED
      BY <1>2, <1>3, <1>5, <1>7, <1>8, <2>1, <2>2 DEF s
  <1>11. CASE IsSwarm(sp)
    <2> DEFINE moved == g.deployLabels \cup (g.labels \cap Traefik)
               r == ForSwarm(g)
    <2>1. /\ r.labels = g.labels \ Traefik
          /\ r.deployLabels = (moved \ {"docker.network"}) \cup {k \in {"swarm.network"} : "docker.network" \in moved}
          /\ r.networks = g.networks
      BY <1>5, ForSwarmIs
    <2> HIDE DEF r
    <2>2. d.services[n] = r /\ seen = r.deployLabels /\ other = r.labels
      BY <1>6, <1>11 DEF r
    <2>3. moved = s.deployLabels \cup added /\ "docker.network" \notin moved
      BY <1>3, <1>5, <1>7, <1>8, <1>11 DEF Traefik
    <2> HIDE DEF moved
    <2>4. seen = s.deployLabels \cup added
      BY <2>1, <2>2, <2>3
    <2>5. "resolver" \in seen <=> ~WildcardMode(mode)
      BY <1>7, <1>8, <1>9, <2>4
    <2>. QED
      BY <1>2, <1>3, <1>5, <1>8, <2>1, <2>2, <2>4, <2>5 DEF s
  <1>. QED
    BY <1>10, <1>11

NamedWhenHanded(doc, sp, d) ==
    \A n : n \in LoggedServices(doc, sp.profiles) <=>
            n \in DOMAIN d.services /\ d.services[n].logging = "loki" /\ InProfiles(doc.services[n], sp.profiles)
LEMMA LogsAreNamed ==
  ASSUME NEW doc \in SubmittedTexts, NEW sp, NEW mode, NEW push \in BOOLEAN, push = TRUE,
         NEW d, d = Derived(doc, sp, push, mode)
  PROVE  NamedWhenHanded(doc, sp, d)
  <1>1. \A n : n \in DOMAIN d.services <=> n \in DOMAIN doc.services /\ (IsSwarm(sp) => InProfiles(doc.services[n], sp.profiles))
    BY DerivedIs
  <1>2. ASSUME NEW n \in DOMAIN d.services PROVE d.services[n].logging = "loki" <=> doc.services[n].logging = "none"
    <2>1. LogsFollow(doc.services[n], d.services[n], push)
      BY OwnStays
    <2>. QED
      BY <2>1 DEF LogsFollow
  <1>. QED
    BY <1>1, <1>2 DEF LoggedServices, Unlogged, NamedWhenHanded

(* Without a push nothing is handed to Loki. *)
LEMMA CappedPushesNothing ==
  ASSUME NEW doc \in SubmittedTexts, NEW sp, NEW mode, NEW push \in BOOLEAN, push = FALSE
  PROVE  ~PushesLoki(Derived(doc, sp, push, mode))
  <1> DEFINE d == Derived(doc, sp, push, mode)
  <1>1. ASSUME NEW n \in DOMAIN d.services PROVE LogsFollow(doc.services[n], d.services[n], push)
    BY OwnStays
  <1> HIDE DEF d
  <1>2. \A n \in DOMAIN d.services : d.services[n].logging # "loki"
    BY <1>1 DEF LogsFollow
  <1>. QED
    BY <1>2 DEF d, PushesLoki

--------------------------------------------------------------------------------
LEMMA IdleIsNoCommand ==
  ASSUME NEW c, NEW r \in Commands(c)
  PROVE  r # NoCommand /\ r.at # "idle"
  BY DEF Commands, CommandPlaces, NoCommand

LEMMA CommandMoves ==
  ASSUME MaterializeTypes, NEW c \in Callers, NEW r, op' = [op EXCEPT ![c] = r]
  PROVE  DOMAIN op' = Callers /\ op'[c] = r /\ \A d \in Callers \ {c} : op'[d] = op[d]
  BY DEF MaterializeTypes

(* A caller gets on with what it reads: nothing is written, and what it is about to do is its own. *)
LEMMA ReadingKeeps ==
  ASSUME MaterializeIInv, NEW c \in Callers, op[c] # NoCommand, op[c].at \notin {"chmod", "asked"}, NEW r, op' = [op EXCEPT ![c] = r],
         r = NoCommand \/ (/\ r \in Commands(c) /\ r.at \in {"logging", "challenge", "build", "truncate", "run"}
                           /\ r.at = "truncate" => r.file = "generated"
                           /\ r.at = "run" => r.file = "original"
                           /\ r.spec = op[c].spec /\ r.alone = op[c].alone /\ r.overtaken = op[c].overtaken
                           /\ (c = StackJob /\ r.at # "run" => r.text = submitted.doc)),
         UNCHANGED <<submitted, generated, setup, project>>
  PROVE  MaterializeIInv'
  <1>1. DOMAIN op' = Callers /\ op'[c] = r /\ \A d \in Callers \ {c} : op'[d] = op[d]
    BY CommandMoves DEF MaterializeIInv
  <1>2. MaterializeTypes'
    BY <1>1 DEF MaterializeIInv, MaterializeTypes
  <1>3. LateClosing'
    BY <1>1 DEF MaterializeIInv, LateClosing
  <1>4. \A d \in Callers : Settles(d)'
    <2>1. NoCommand.at = "idle"
      BY DEF NoCommand
    <2>. QED
      BY <1>1, <2>1 DEF MaterializeIInv, Settles
  <1>5. JobAlone'
    <2>1. CASE c = StackJob
      <3>1. op'[StackJob] = r /\ \A v \in Viewers : op'[v] = op[v]
        BY <1>1, <2>1, MaterializeAssumption DEF Callers
      <3>. QED
        BY <2>1, <3>1 DEF MaterializeIInv, JobAlone, HasText
    <2>2. CASE c # StackJob
      <3>1. op'[StackJob] = op[StackJob] /\ c \in Viewers
        BY <1>1, <2>2 DEF Callers
      <3>2. op[StackJob] # NoCommand => ~op[StackJob].alone
        BY <3>1 DEF MaterializeIInv, JobAlone
      <3>. QED
        BY <3>1, <3>2 DEF MaterializeIInv, JobAlone
    <2>. QED
      BY <2>1, <2>2
  <1>. QED
    BY <1>2, <1>3, <1>4, <1>5 DEF MaterializeIInv

LEMMA CommandIs ==
  ASSUME MaterializeTypes, NEW c \in Callers, op[c].at # "idle"
  PROVE  op[c] # NoCommand /\ op[c] \in Commands(c)
  BY DEF MaterializeTypes, NoCommand

LEMMA ReadSourceKeeps ==
  ASSUME MaterializeIInv, NEW c \in Callers, ReadSource(c)
  PROVE  MaterializeIInv'
  <1>1. op[c] # NoCommand /\ op[c] \in Commands(c) /\ op[c].at = "read" /\ submitted.doc \in SubmittedTexts
    BY CommandIs DEF MaterializeIInv, MaterializeTypes, ReadSource, SubmittedTexts
  <1>2. UNCHANGED <<submitted, generated, setup, project>>
    BY DEF ReadSource
  <1>3. CASE op' = [op EXCEPT ![c].at = "run", ![c].file = "original"]
    <2> DEFINE r == [op[c] EXCEPT !.at = "run", !.file = "original"]
    <2>1. r \in Commands(c) /\ r.at = "run" /\ r.file = "original" /\ r.spec = op[c].spec /\ r.alone = op[c].alone /\ r.overtaken = op[c].overtaken /\ r.text = op[c].text
      BY <1>1 DEF Commands, CommandPlaces
    <2>2. op' = [op EXCEPT ![c] = r]
      BY <1>1, <1>3 DEF Commands
    <2> HIDE DEF r
    <2>. QED
      BY <1>1, <1>2, <2>1, <2>2, ReadingKeeps
  <1>4. CASE op' = [op EXCEPT ![c] = NoCommand]
    BY <1>1, <1>2, <1>4, ReadingKeeps
  <1>5. CASE op' = [op EXCEPT ![c].at = "logging", ![c].text = submitted.doc]
    <2> DEFINE r == [op[c] EXCEPT !.at = "logging", !.text = submitted.doc]
    <2>1. r \in Commands(c) /\ r.at = "logging" /\ r.spec = op[c].spec /\ r.alone = op[c].alone /\ r.overtaken = op[c].overtaken /\ r.text = submitted.doc
      BY <1>1 DEF Commands, CommandPlaces
    <2>2. op' = [op EXCEPT ![c] = r]
      BY <1>1, <1>5 DEF Commands
    <2> HIDE DEF r
    <2>. QED
      BY <1>1, <1>2, <2>1, <2>2, ReadingKeeps
  <1>. QED
    BY <1>3, <1>4, <1>5 DEF ReadSource

LEMMA DetectLoggingKeeps ==
  ASSUME MaterializeIInv, NEW c \in Callers, DetectLogging(c)
  PROVE  MaterializeIInv'
  <1> DEFINE at == IF op[c].text.mentionsRouting THEN "challenge" ELSE "build"
             r == [op[c] EXCEPT !.push = setup.loki, !.at = at]
  <1>1. op[c] # NoCommand /\ op[c] \in Commands(c) /\ op[c].at = "logging" /\ setup.loki \in BOOLEAN
    BY CommandIs DEF MaterializeIInv, MaterializeTypes, DetectLogging
  <1>2. UNCHANGED <<submitted, generated, setup, project>> /\ op' = [op EXCEPT ![c] = r]
    BY <1>1 DEF DetectLogging, Commands
  <1>3. at \in {"challenge", "build"}
    OBVIOUS
  <1> HIDE DEF at
  <1>4. r \in Commands(c) /\ r.at = at /\ r.spec = op[c].spec /\ r.alone = op[c].alone /\ r.overtaken = op[c].overtaken /\ r.text = op[c].text
    BY <1>1, <1>3 DEF Commands, CommandPlaces
  <1>5. c = StackJob => op[c].text = submitted.doc
    BY <1>1 DEF MaterializeIInv, JobAlone, HasText
  <1> HIDE DEF r
  <1>. QED
    BY <1>1, <1>2, <1>3, <1>4, <1>5, ReadingKeeps

LEMMA DetectChallengeKeeps ==
  ASSUME MaterializeIInv, NEW c \in Callers, DetectChallenge(c)
  PROVE  MaterializeIInv'
  <1>1. op[c] # NoCommand /\ op[c] \in Commands(c) /\ op[c].at = "challenge" /\ setup.mode \in Modes
    BY CommandIs DEF MaterializeIInv, MaterializeTypes, DetectChallenge
  <1>2. PICK mode \in Modes \cup {"unknown"} : op' = [op EXCEPT ![c].mode = mode, ![c].at = "build"]
    BY <1>1 DEF DetectChallenge
  <1> DEFINE r == [op[c] EXCEPT !.mode = mode, !.at = "build"]
  <1>3. UNCHANGED <<submitted, generated, setup, project>> /\ op' = [op EXCEPT ![c] = r]
    BY <1>1, <1>2 DEF DetectChallenge, Commands
  <1>4. r \in Commands(c) /\ r.at = "build" /\ r.spec = op[c].spec /\ r.alone = op[c].alone /\ r.overtaken = op[c].overtaken /\ r.text = op[c].text
    BY <1>1, <1>2 DEF Commands, CommandPlaces
  <1>5. c = StackJob => op[c].text = submitted.doc
    BY <1>1 DEF MaterializeIInv, JobAlone, HasText
  <1> HIDE DEF r
  <1>. QED
    BY <1>1, <1>3, <1>4, <1>5, ReadingKeeps

LEMMA BuildKeeps ==
  ASSUME MaterializeIInv, NEW c \in Callers, Build(c)
  PROVE  MaterializeIInv'
  <1>1. op[c] # NoCommand /\ op[c] \in Commands(c) /\ op[c].at = "build"
    BY CommandIs DEF MaterializeIInv, Build
  <1>2. UNCHANGED <<submitted, generated, setup, project>>
    BY DEF Build
  <1>3. c = StackJob => op[c].text = submitted.doc
    BY <1>1 DEF MaterializeIInv, JobAlone, HasText
  <1>4. CASE op' = [op EXCEPT ![c] = NoCommand]
    BY <1>1, <1>2, <1>4, ReadingKeeps
  <1>5. CASE op' = [op EXCEPT ![c].at = "run", ![c].file = "original"]
    <2> DEFINE r == [op[c] EXCEPT !.at = "run", !.file = "original"]
    <2>1. r \in Commands(c) /\ r.at = "run" /\ r.file = "original" /\ r.spec = op[c].spec /\ r.alone = op[c].alone /\ r.overtaken = op[c].overtaken /\ r.text = op[c].text
      BY <1>1 DEF Commands, CommandPlaces
    <2>2. op' = [op EXCEPT ![c] = r]
      BY <1>1, <1>5 DEF Commands
    <2> HIDE DEF r
    <2>. QED
      BY <1>1, <1>2, <1>3, <2>1, <2>2, ReadingKeeps
  <1>6. CASE op' = [op EXCEPT ![c].at = "truncate", ![c].file = "generated"]
    <2> DEFINE r == [op[c] EXCEPT !.at = "truncate", !.file = "generated"]
    <2>1. r \in Commands(c) /\ r.at = "truncate" /\ r.file = "generated" /\ r.spec = op[c].spec /\ r.alone = op[c].alone /\ r.overtaken = op[c].overtaken /\ r.text = op[c].text
      BY <1>1 DEF Commands, CommandPlaces
    <2>2. op' = [op EXCEPT ![c] = r]
      BY <1>1, <1>6 DEF Commands
    <2> HIDE DEF r
    <2>. QED
      BY <1>1, <1>2, <1>3, <2>1, <2>2, ReadingKeeps
  <1>. QED
    BY <1>4, <1>5, <1>6 DEF Build

(* Who goes to `at` keeps the rest of its command. *)
LEMMA GoesTo ==
  ASSUME MaterializeTypes, NEW c \in Callers, op[c].at # "idle", NEW at \in CommandPlaces, Goto(c, at)
  PROVE  /\ DOMAIN op' = Callers /\ \A d \in Callers \ {c} : op'[d] = op[d]
         /\ op'[c] \in Commands(c) /\ op'[c] = [op[c] EXCEPT !.at = at]
         /\ op'[c].at = at /\ op'[c].verb = op[c].verb /\ op'[c].spec = op[c].spec /\ op'[c].text = op[c].text
         /\ op'[c].push = op[c].push /\ op'[c].mode = op[c].mode /\ op'[c].file = op[c].file /\ op'[c].alone = op[c].alone
        /\ op'[c].overtaken = op[c].overtaken
  <1> DEFINE r == [op[c] EXCEPT !.at = at]
  <1>1. op[c] \in Commands(c)
    BY CommandIs
  <1>2. r \in Commands(c)
    BY <1>1 DEF Commands
  <1>3. /\ r.at = at /\ r.verb = op[c].verb /\ r.spec = op[c].spec /\ r.text = op[c].text
        /\ r.push = op[c].push /\ r.mode = op[c].mode /\ r.file = op[c].file /\ r.alone = op[c].alone
        /\ r.overtaken = op[c].overtaken
    BY <1>1 DEF Commands
  <1>4. op' = [op EXCEPT ![c] = r]
    BY DEF Goto
  <1>5. r = [op[c] EXCEPT !.at = at]
    OBVIOUS
  <1> HIDE DEF r
  <1>. QED
    BY <1>2, <1>3, <1>4, <1>5, CommandMoves

(* What a viewer does is not the job's, and the job is not alone while it does. *)
LEMMA ViewersSpoilAlone ==
  ASSUME MaterializeIInv, NEW c \in Callers, c # StackJob, op[c] # NoCommand, op'[StackJob] = op[StackJob], UNCHANGED submitted
  PROVE  JobAlone'
  <1>1. c \in Viewers
    BY DEF Callers
  <1>2. op[StackJob] # NoCommand => ~op[StackJob].alone
    BY <1>1 DEF MaterializeIInv, JobAlone
  <1>. QED
    BY <1>2 DEF MaterializeIInv, JobAlone

LEMMA MineStays ==
  ASSUME NEW c, op'[c].text = op[c].text, op'[c].spec = op[c].spec, op'[c].push = op[c].push, op'[c].mode = op[c].mode
  PROVE  Mine(c)' = Mine(c)
  BY DEF Mine

(* A command that stops is nobody's any more. *)
LEMMA StoppingKeeps ==
  ASSUME MaterializeIInv, NEW c \in Callers, op[c] # NoCommand, Fails(c), UNCHANGED <<submitted, setup, project>>,
         DOMAIN generated' = {"doc", "secret", "closed", "cut"}, generated'.closed = generated.closed,
         generated'.secret \in BOOLEAN, generated'.cut \in BOOLEAN, generated'.cut \/ (generated' = generated /\ op[c].at # "chmod")
  PROVE  MaterializeIInv'
  <1>1. op' = [op EXCEPT ![c] = NoCommand] /\ NoCommand.at = "idle"
    BY DEF Fails, NoCommand
  <1>2. DOMAIN op' = Callers /\ op'[c] = NoCommand /\ \A d \in Callers \ {c} : op'[d] = op[d]
    BY <1>1, CommandMoves DEF MaterializeIInv
  <1>3. MaterializeTypes'
    BY <1>2 DEF MaterializeIInv, MaterializeTypes
  <1>4. LateClosing'
    BY <1>2 DEF MaterializeIInv, LateClosing
  <1>5. \A d \in Callers : Settles(d)'
    BY <1>1, <1>2 DEF MaterializeIInv, Settles
  <1>6. JobAlone'
    <2>1. CASE c = StackJob
      BY <1>2, <2>1 DEF JobAlone
    <2>2. CASE c # StackJob
      BY <1>2, <2>2, ViewersSpoilAlone DEF Callers
    <2>. QED
      BY <2>1, <2>2
  <1>. QED
    BY <1>3, <1>4, <1>5, <1>6 DEF MaterializeIInv

LEMMA EmptyingKeeps ==
  ASSUME MaterializeIInv, NEW c \in Callers, op[c].at = "truncate", Goto(c, "fill"), UNCHANGED <<submitted, setup, project>>,
         generated' = [generated EXCEPT !.doc = Empty, !.secret = FALSE]
  PROVE  MaterializeIInv'
  <1>1. op[c].at = "truncate" /\ Goto(c, "fill") /\ UNCHANGED <<submitted, setup, project>>
    OBVIOUS
  <1>2. "fill" \in CommandPlaces /\ op[c] # NoCommand
    BY <1>1 DEF CommandPlaces, NoCommand
  <1>3. generated'.doc = Empty /\ generated'.closed = generated.closed /\ generated'.cut = generated.cut
        /\ generated'.secret = FALSE /\ DOMAIN generated' = {"doc", "secret", "closed", "cut"}
    BY DEF MaterializeIInv, MaterializeTypes
  <1>4. DOMAIN op' = Callers /\ (\A d \in Callers \ {c} : op'[d] = op[d]) /\ op'[c] \in Commands(c)
        /\ op'[c].at = "fill" /\ op'[c].verb = op[c].verb /\ op'[c].spec = op[c].spec /\ op'[c].text = op[c].text
        /\ op'[c].file = op[c].file /\ op'[c].alone = op[c].alone
        /\ op'[c].overtaken = op[c].overtaken
    BY <1>1, <1>2, GoesTo DEF MaterializeIInv
  <1>5. MaterializeTypes'
    BY <1>1, <1>3, <1>4 DEF MaterializeIInv, MaterializeTypes
  <1>6. LateClosing'
    BY <1>3 DEF LateClosing
  <1>7. \A d \in Callers : Settles(d)'
    BY <1>1, <1>3, <1>4 DEF MaterializeIInv, Settles
  <1>8. JobAlone'
    <2>1. CASE c = StackJob
      <3>1. \A v \in Viewers : op'[v] = op[v]
        BY <1>4, <2>1, MaterializeAssumption DEF Callers
      <3>. QED
        BY <1>1, <1>2, <1>3, <1>4, <2>1, <3>1 DEF MaterializeIInv, JobAlone, HasText
    <2>2. CASE c # StackJob
      BY <1>1, <1>2, <1>4, <2>2, ViewersSpoilAlone DEF Callers
    <2>. QED
      BY <2>1, <2>2
  <1>. QED
    BY <1>5, <1>6, <1>7, <1>8 DEF MaterializeIInv

LEMMA TruncateKeeps ==
  ASSUME MaterializeIInv, NEW c \in Callers, Truncate(c)
  PROVE  MaterializeIInv'
  <1>1. op[c].at = "truncate" /\ op[c] # NoCommand /\ UNCHANGED <<submitted, setup, project>>
    BY DEF Truncate, NoCommand
  <1>2. CASE Goto(c, "fill") /\ generated' = [generated EXCEPT !.doc = Empty, !.secret = FALSE]
    BY <1>1, <1>2, EmptyingKeeps
  <1>3. CASE Fails(c) /\ UNCHANGED generated
    BY <1>1, <1>3, StoppingKeeps DEF MaterializeIInv, MaterializeTypes
  <1>. QED
    BY <1>2, <1>3 DEF Truncate

LEMMA FillingKeeps ==
  ASSUME MaterializeIInv, NEW c \in Callers, op[c].at = "fill", NEW at, at = IF op[c].push THEN "chmod" ELSE "run", Goto(c, at),
         UNCHANGED <<submitted, setup, project>>,
         NEW doc \in {Mine(c)} \cup (IF generated.doc \in {Empty, Mine(c)} THEN {} ELSE {Torn}),
         generated' = [generated EXCEPT !.doc = doc, !.secret = PushesLoki(Mine(c)) \/ (doc = Torn /\ @)]
  PROVE  MaterializeIInv'
  <1>1. op[c].at = "fill" /\ Goto(c, at) /\ UNCHANGED <<submitted, setup, project>>
    OBVIOUS
  <1>2. doc \in {Mine(c)} \cup (IF generated.doc \in {Empty, Mine(c)} THEN {} ELSE {Torn})
    OBVIOUS
  <1>3. op[c] # NoCommand /\ op[c] \in Commands(c)
    BY <1>1, CommandIs DEF MaterializeIInv
  <1>4. at \in CommandPlaces /\ (op[c].push => at = "chmod") /\ (~op[c].push => at = "run") /\ at \in {"chmod", "run"}
    BY DEF CommandPlaces
  <1>5. DOMAIN op' = Callers /\ (\A d \in Callers \ {c} : op'[d] = op[d]) /\ op'[c] \in Commands(c)
        /\ op'[c].at = at /\ op'[c].verb = op[c].verb /\ op'[c].spec = op[c].spec /\ op'[c].text = op[c].text
        /\ op'[c].push = op[c].push /\ op'[c].mode = op[c].mode /\ op'[c].file = op[c].file /\ op'[c].alone = op[c].alone
        /\ op'[c].overtaken = op[c].overtaken
    BY <1>1, <1>4, GoesTo DEF MaterializeIInv
  <1>6. /\ generated'.doc = doc /\ generated'.closed = generated.closed /\ generated'.cut = generated.cut
        /\ DOMAIN generated' = {"doc", "secret", "closed", "cut"} /\ generated'.secret \in BOOLEAN
        /\ (generated'.secret => generated.secret \/ PushesLoki(Mine(c)))
    <2> DEFINE secret == PushesLoki(Mine(c)) \/ (doc = Torn /\ generated.secret)
    <2>1. secret \in BOOLEAN /\ (secret => generated.secret \/ PushesLoki(Mine(c)))
      OBVIOUS
    <2>2. generated' = [generated EXCEPT !.doc = doc, !.secret = secret]
      OBVIOUS
    <2> HIDE DEF secret
    <2>. QED
      BY <2>1, <2>2 DEF MaterializeIInv, MaterializeTypes
  <1>7. MaterializeTypes'
    BY <1>1, <1>5, <1>6 DEF MaterializeIInv, MaterializeTypes
  <1>8. \A d \in Callers : Settles(d)'
    BY <1>1, <1>4, <1>5, <1>6 DEF MaterializeIInv, Settles
  <1>9. LateClosing'
    <2>1. CASE op[c].push
      <3>1. op'[c].at = "chmod"
        BY <1>4, <1>5, <2>1
      <3>. QED
        BY <3>1 DEF LateClosing
    <2>2. CASE ~op[c].push
      <3>1. op[c].text \in SubmittedTexts /\ op[c].push = FALSE
        BY <1>3, <2>2 DEF Commands
      <3>2. ~PushesLoki(Mine(c))
        BY <3>1, CappedPushesNothing DEF Mine
      <3>3. \A d \in Callers : op[d].at = "chmod" => op'[d].at = "chmod"
        BY <1>1, <1>5
      <3>. QED
        BY <1>6, <3>2, <3>3 DEF MaterializeIInv, LateClosing
    <2>. QED
      BY <2>1, <2>2
  <1>10. JobAlone'
    <2>1. CASE c = StackJob
      <3>1. \A v \in Viewers : op'[v] = op[v]
        BY <1>5, <2>1, MaterializeAssumption DEF Callers
      <3>2. op[c].alone => doc = Mine(c)
        BY <1>1, <1>2, <1>3, <2>1 DEF MaterializeIInv, JobAlone
      <3>3. Mine(c)' = Mine(c)
        BY <1>5, MineStays
      <3>. QED
        BY <1>1, <1>3, <1>4, <1>5, <1>6, <2>1, <3>1, <3>2, <3>3 DEF MaterializeIInv, JobAlone, HasText
    <2>2. CASE c # StackJob
      BY <1>1, <1>3, <1>5, <2>2, ViewersSpoilAlone DEF Callers
    <2>. QED
      BY <2>1, <2>2
  <1>. QED
    BY <1>7, <1>8, <1>9, <1>10 DEF MaterializeIInv

LEMMA FillKeeps ==
  ASSUME MaterializeIInv, NEW c \in Callers, Fill(c)
  PROVE  MaterializeIInv'
  <1>1. op[c].at = "fill" /\ op[c] # NoCommand /\ UNCHANGED <<submitted, setup, project>>
    <2>1. op[c].at = "fill" /\ submitted' = submitted /\ setup' = setup /\ project' = project
      BY Zenon DEF Fill
    <2>. QED
      BY <2>1 DEF NoCommand
  <1>2. CASE /\ Goto(c, IF op[c].push THEN "chmod" ELSE "run")
             /\ \E doc \in {Mine(c)} \cup (IF generated.doc \in {Empty, Mine(c)} THEN {} ELSE {Torn}) :
                   generated' = [generated EXCEPT !.doc = doc, !.secret = PushesLoki(Mine(c)) \/ (doc = Torn /\ @)]
    <2>1. PICK doc \in {Mine(c)} \cup (IF generated.doc \in {Empty, Mine(c)} THEN {} ELSE {Torn}) :
                   generated' = [generated EXCEPT !.doc = doc, !.secret = PushesLoki(Mine(c)) \/ (doc = Torn /\ @)]
      BY <1>2
    <2>. QED
      BY <1>1, <1>2, <2>1, FillingKeeps
  <1>3. CASE Fails(c) /\ \E secret \in {generated.secret, PushesLoki(Mine(c))} :
                            generated' = [generated EXCEPT !.doc = Torn, !.secret = secret, !.cut = TRUE]
    <2>1. PICK secret \in {generated.secret, PushesLoki(Mine(c))} : generated' = [generated EXCEPT !.doc = Torn, !.secret = secret, !.cut = TRUE]
      BY <1>3
    <2>2. secret \in BOOLEAN
      BY DEF PushesLoki, MaterializeIInv, MaterializeTypes
    <2>3. generated'.closed = generated.closed /\ generated'.secret = secret /\ generated'.cut = TRUE
          /\ DOMAIN generated' = {"doc", "secret", "closed", "cut"}
      BY <2>1 DEF MaterializeIInv, MaterializeTypes
    <2>. QED
      BY <1>1, <1>3, <2>2, <2>3, StoppingKeeps
  <1>. QED
    BY <1>2, <1>3 DEF Fill

LEMMA ClosingKeeps ==
  ASSUME MaterializeIInv, NEW c \in Callers, op[c].at = "chmod", Goto(c, "run"), UNCHANGED <<submitted, setup, project>>,
         generated' = [generated EXCEPT !.closed = TRUE]
  PROVE  MaterializeIInv'
  <1>1. op[c].at = "chmod" /\ Goto(c, "run") /\ UNCHANGED <<submitted, setup, project>>
    OBVIOUS
  <1>2. "run" \in CommandPlaces /\ op[c] # NoCommand
    BY <1>1 DEF CommandPlaces, NoCommand
  <1>3. generated'.doc = generated.doc /\ generated'.closed = TRUE /\ generated'.secret = generated.secret /\ generated'.cut = generated.cut
        /\ DOMAIN generated' = {"doc", "secret", "closed", "cut"}
    BY DEF MaterializeIInv, MaterializeTypes
  <1>4. DOMAIN op' = Callers /\ (\A d \in Callers \ {c} : op'[d] = op[d]) /\ op'[c] \in Commands(c)
        /\ op'[c].at = "run" /\ op'[c].verb = op[c].verb /\ op'[c].spec = op[c].spec /\ op'[c].text = op[c].text
        /\ op'[c].push = op[c].push /\ op'[c].mode = op[c].mode /\ op'[c].file = op[c].file /\ op'[c].alone = op[c].alone
        /\ op'[c].overtaken = op[c].overtaken
    BY <1>1, <1>2, GoesTo DEF MaterializeIInv
  <1>5. MaterializeTypes'
    BY <1>1, <1>3, <1>4 DEF MaterializeIInv, MaterializeTypes
  <1>6. LateClosing'
    BY <1>3 DEF LateClosing
  <1>7. \A d \in Callers : Settles(d)'
    BY <1>1, <1>3, <1>4 DEF MaterializeIInv, Settles
  <1>8. JobAlone'
    <2>1. CASE c = StackJob
      <3>1. \A v \in Viewers : op'[v] = op[v]
        BY <1>4, <2>1, MaterializeAssumption DEF Callers
      <3>2. Mine(c)' = Mine(c)
        BY <1>4, MineStays
      <3>. QED
        BY <1>1, <1>2, <1>3, <1>4, <2>1, <3>1, <3>2 DEF MaterializeIInv, JobAlone, HasText
    <2>2. CASE c # StackJob
      BY <1>1, <1>2, <1>4, <2>2, ViewersSpoilAlone DEF Callers
    <2>. QED
      BY <2>1, <2>2
  <1>. QED
    BY <1>5, <1>6, <1>7, <1>8 DEF MaterializeIInv

LEMMA FileChmodKeeps ==
  ASSUME MaterializeIInv, NEW c \in Callers, Chmod(c)
  PROVE  MaterializeIInv'
  <1>1. op[c].at = "chmod" /\ op[c] # NoCommand /\ UNCHANGED <<submitted, setup, project>>
    BY DEF Chmod, NoCommand
  <1>2. CASE Goto(c, "run") /\ generated' = [generated EXCEPT !.closed = TRUE]
    BY <1>1, <1>2, ClosingKeeps
  <1>3. CASE Fails(c) /\ generated' = [generated EXCEPT !.cut = TRUE]
    <2>1. generated'.closed = generated.closed /\ generated'.secret = generated.secret /\ generated'.cut = TRUE
          /\ DOMAIN generated' = {"doc", "secret", "closed", "cut"} /\ generated.secret \in BOOLEAN
      BY <1>3 DEF MaterializeIInv, MaterializeTypes
    <2>. QED
      BY <1>1, <1>3, <2>1, StoppingKeeps
  <1>. QED
    BY <1>2, <1>3 DEF Chmod

LEMMA RunDockerKeeps ==
  ASSUME MaterializeIInv, NEW c \in Callers, RunDocker(c)
  PROVE  MaterializeIInv'
  <1>1. op[c].at = "run" /\ op' = [op EXCEPT ![c] = NoCommand] /\ UNCHANGED <<submitted, generated, setup>>
    BY DEF RunDocker
  <1>2. op[c] # NoCommand /\ NoCommand.at = "idle"
    BY <1>1 DEF NoCommand
  <1>3. DOMAIN op' = Callers /\ op'[c] = NoCommand /\ \A d \in Callers \ {c} : op'[d] = op[d]
    BY <1>1, CommandMoves DEF MaterializeIInv
  <1>4. project'.volumes \in BOOLEAN
    <2>1. project' = project \/ project' = [runs |-> ReadByDocker(c), volumes |-> TRUE] \/ project' = [runs |-> Missing, volumes |-> FALSE]
          \/ project' = [project EXCEPT !.runs = Missing]
      BY DEF RunDocker
    <2>2. project.volumes \in BOOLEAN
      BY DEF MaterializeIInv, MaterializeTypes
    <2>3. [project EXCEPT !.runs = Missing].volumes = project.volumes
      OBVIOUS
    <2>4. project' = project => project'.volumes \in BOOLEAN
      BY <2>2
    <2>5. ASSUME NEW runs, NEW volumes \in BOOLEAN, project' = [runs |-> runs, volumes |-> volumes] PROVE project'.volumes \in BOOLEAN
      BY <2>5
    <2>6. project' = [project EXCEPT !.runs = Missing] => project'.volumes \in BOOLEAN
      BY <2>2, <2>3
    <2>. QED
      BY <2>1, <2>4, <2>5, <2>6
  <1>5. MaterializeTypes'
    BY <1>1, <1>3, <1>4 DEF MaterializeIInv, MaterializeTypes
  <1>6. LateClosing'
    BY <1>1, <1>3 DEF MaterializeIInv, LateClosing
  <1>7. \A d \in Callers : Settles(d)'
    BY <1>1, <1>2, <1>3 DEF MaterializeIInv, Settles
  <1>8. JobAlone'
    <2>1. CASE c = StackJob
      BY <1>3, <2>1 DEF JobAlone
    <2>2. CASE c # StackJob
      BY <1>1, <1>2, <1>3, <2>2, ViewersSpoilAlone DEF Callers
    <2>. QED
      BY <2>1, <2>2
  <1>. QED
    BY <1>5, <1>6, <1>7, <1>8 DEF MaterializeIInv

LEMMA BeginKeeps ==
  ASSUME MaterializeIInv, NEW c \in Callers, NEW verb \in Verbs(c), Begin(c, verb)
  PROVE  MaterializeIInv'
  <1> DEFINE sp == submitted.spec
             at == IF c = StackJob THEN "asked" ELSE FirstStep(verb, sp)
             mine == [at |-> at, verb |-> verb, spec |-> sp, text |-> submitted.doc, push |-> FALSE, mode |-> "unknown",
                      file |-> "none", alone |-> FALSE, overtaken |-> FALSE]
  <1>1. op[c] = NoCommand /\ UNCHANGED <<submitted, generated, setup, project>>
    BY DEF Begin
  <1>2. op' = [d \in Callers |-> IF d = c THEN mine ELSE IF op[d] # NoCommand THEN [op[d] EXCEPT !.alone = FALSE] ELSE op[d]]
    BY DEF Begin
  <1>3. at \in {"asked", "read", "run"} /\ (verb = "up" => at # "run") /\ (c = StackJob => at = "asked")
    BY DEF NeedsFile, FirstStep
  <1>4. sp \in ResolvedSpecs /\ submitted.doc \in SubmittedTexts /\ at \in CommandPlaces
    BY <1>3 DEF MaterializeIInv, MaterializeTypes, ResolvedSpecs, SubmittedTexts, CommandPlaces
  <1> HIDE DEF at
  <1>6. mine \in Commands(c) /\ mine # NoCommand /\ mine.at = at /\ mine.verb = verb /\ mine.spec = sp /\ mine.text = submitted.doc
        /\ mine.file = "none" /\ mine.alone = FALSE
    <2>1. mine \in Commands(c)
      BY <1>3, <1>4 DEF Commands
    <2>. QED
      BY <2>1, IdleIsNoCommand
  <1> HIDE DEF mine, sp
  <1>7. DOMAIN op' = Callers /\ op'[c] = mine
    BY <1>2
  <1>8. ASSUME NEW d \in Callers \ {c}
        PROVE  (op[d] = NoCommand <=> op'[d] = NoCommand) /\ op'[d].at = op[d].at
               /\ (op[d] # NoCommand => /\ op'[d] \in Commands(d) /\ op'[d].alone = FALSE
                                        /\ op'[d].text = op[d].text /\ op'[d].spec = op[d].spec
                                        /\ op'[d].push = op[d].push /\ op'[d].file = op[d].file /\ op'[d].verb = op[d].verb
                                        /\ op'[d].overtaken = op[d].overtaken)
    <2>1. CASE op[d] = NoCommand
      BY <1>2, <2>1
    <2>2. CASE op[d] # NoCommand
      <3> DEFINE r == [op[d] EXCEPT !.alone = FALSE]
      <3>1. op[d] \in Commands(d)
        BY <2>2 DEF MaterializeIInv, MaterializeTypes
      <3>2. r \in Commands(d) /\ r.at = op[d].at /\ r.alone = FALSE /\ r.text = op[d].text /\ r.spec = op[d].spec
            /\ r.push = op[d].push /\ r.file = op[d].file /\ r.verb = op[d].verb /\ r.overtaken = op[d].overtaken
        BY <3>1 DEF Commands
      <3>3. op'[d] = r
        BY <1>2, <2>2
      <3> HIDE DEF r
      <3>. QED
        BY <2>2, <3>2, <3>3, IdleIsNoCommand
    <2>. QED
      BY <2>1, <2>2
  <1>9. MaterializeTypes'
    BY <1>1, <1>6, <1>7, <1>8 DEF MaterializeIInv, MaterializeTypes
  <1>10. LateClosing'
    <2>1. NoCommand.at # "chmod"
      BY DEF NoCommand
    <2>. QED
      BY <1>1, <1>8, <2>1 DEF MaterializeIInv, LateClosing
  <1>11. \A d \in Callers : Settles(d)'
    <2>1. Settles(c)'
      BY <1>3, <1>6, <1>7 DEF Settles
    <2>2. ASSUME NEW d \in Callers \ {c} PROVE Settles(d)'
      <3>1. CASE op[d] = NoCommand
        <4>1. NoCommand.at = "idle" /\ op'[d] = NoCommand
          BY <1>8, <3>1 DEF NoCommand
        <4>. QED
          BY <4>1 DEF Settles
      <3>2. CASE op[d] # NoCommand
        <4>1. Settles(d)
          BY DEF MaterializeIInv
        <4>2. UNCHANGED generated /\ op'[d].at = op[d].at /\ op'[d].push = op[d].push /\ op'[d].file = op[d].file /\ op'[d].verb = op[d].verb
          BY <1>1, <1>8, <3>2
        <4>. QED
          BY <4>1, <4>2 DEF Settles
      <3>. QED
        BY <3>1, <3>2
    <2>. QED
      BY <2>1, <2>2
  <1>12. JobAlone'
    <2>1. CASE c = StackJob
      BY <1>1, <1>3, <1>6, <1>7, <2>1 DEF JobAlone, HasText, sp
    <2>2. CASE c # StackJob
      <3>1. StackJob \in Callers \ {c}
        BY <2>2 DEF Callers
      <3>. QED
        BY <1>1, <1>8, <3>1 DEF MaterializeIInv, JobAlone, HasText
    <2>. QED
      BY <2>1, <2>2
  <1>. QED
    BY <1>9, <1>10, <1>11, <1>12 DEF MaterializeIInv

LEMMA StartJobKeeps ==
  ASSUME MaterializeIInv, StartJob
  PROVE  MaterializeIInv'
  <1> DEFINE j == op[StackJob]
             at == FirstStep(j.verb, j.spec)
             alone == \A v \in Viewers : op[v] = NoCommand
             r == [j EXCEPT !.at = at, !.alone = alone]
  <1>1. j.at = "asked" /\ UNCHANGED <<submitted, generated, setup, project>> /\ StackJob \in Callers
    BY DEF StartJob, Callers
  <1>2. j \in Commands(StackJob) /\ j # NoCommand
    BY <1>1, CommandIs DEF MaterializeIInv
  <1>3. at \in {"read", "run"} /\ (j.verb = "up" => at = "read") /\ alone \in BOOLEAN
    BY DEF FirstStep, NeedsFile
  <1>4. op' = [op EXCEPT ![StackJob] = r]
    <2>1. op' = [op EXCEPT ![StackJob].at = at, ![StackJob].alone = alone]
      BY DEF StartJob
    <2> HIDE DEF at, alone
    <2>. QED
      BY <1>2, <2>1 DEF Commands, MaterializeIInv, MaterializeTypes
  <1>5. alone => \A v \in Viewers : op[v] = NoCommand
    OBVIOUS
  <1> HIDE DEF at, alone
  <1>6. r \in Commands(StackJob) /\ r.at = at /\ r.alone = alone /\ r.verb = j.verb /\ r.spec = j.spec /\ r.file = j.file
        /\ r.overtaken = j.overtaken
    BY <1>2, <1>3 DEF Commands, CommandPlaces
  <1> HIDE DEF r
  <1>7. DOMAIN op' = Callers /\ op'[StackJob] = r /\ \A d \in Callers \ {StackJob} : op'[d] = op[d]
    BY <1>1, <1>4, CommandMoves DEF MaterializeIInv
  <1>8. MaterializeTypes'
    BY <1>1, <1>6, <1>7 DEF MaterializeIInv, MaterializeTypes
  <1>9. LateClosing'
    BY <1>1, <1>7 DEF MaterializeIInv, LateClosing
  <1>10. j.file = "none"
    BY <1>1 DEF MaterializeIInv, Settles
  <1>11. \A d \in Callers : Settles(d)'
    BY <1>1, <1>3, <1>6, <1>7, <1>10 DEF MaterializeIInv, Settles
  <1>12. JobAlone'
    <2>1. r # NoCommand /\ \A v \in Viewers : op'[v] = op[v]
      BY <1>6, <1>7, IdleIsNoCommand, MaterializeAssumption DEF Callers
    <2>2. ~HasText(r) /\ r.at \notin {"asked", "fill"} /\ r.file = "none"
      BY <1>3, <1>6, <1>10 DEF HasText
    <2>. QED
      BY <1>1, <1>2, <1>5, <1>6, <1>7, <2>1, <2>2 DEF MaterializeIInv, JobAlone
  <1>. QED
    BY <1>8, <1>9, <1>11, <1>12 DEF MaterializeIInv

LEMMA SubmitKeeps ==
  ASSUME MaterializeIInv, Submit
  PROVE  MaterializeIInv'
  <1> DEFINE r == [op[StackJob] EXCEPT !.overtaken = TRUE]
  <1>1. submitted' \in Submissions /\ UNCHANGED <<generated, setup, project>> /\ StackJob \in Callers
    BY DEF Submit, Callers
  <1>2. CASE op[StackJob] = NoCommand
    <2>1. UNCHANGED op
      BY <1>2 DEF Submit
    <2>. QED
      BY <1>1, <1>2, <2>1 DEF MaterializeIInv, MaterializeTypes, LateClosing, Settles, JobAlone
  <1>3. CASE op[StackJob] # NoCommand
    <2>1. op[StackJob] \in Commands(StackJob) /\ op' = [op EXCEPT ![StackJob].overtaken = TRUE]
      BY <1>1, <1>3 DEF Submit, MaterializeIInv, MaterializeTypes
    <2>2. op[StackJob].at = "asked"
      BY <2>1, IdleIsNoCommand DEF Submit
    <2>3. op' = [op EXCEPT ![StackJob] = r]
      BY <2>1
    <2>4. r \in Commands(StackJob) /\ r.overtaken = TRUE /\ r.at = "asked" /\ r.alone = op[StackJob].alone /\ r.file = op[StackJob].file
      BY <2>1, <2>2 DEF Commands
    <2> HIDE DEF r
    <2>5. DOMAIN op' = Callers /\ op'[StackJob] = r /\ \A d \in Callers \ {StackJob} : op'[d] = op[d]
      BY <1>1, <2>3, CommandMoves DEF MaterializeIInv
    <2>6. MaterializeTypes'
      BY <1>1, <2>4, <2>5 DEF MaterializeIInv, MaterializeTypes
    <2>7. LateClosing'
      BY <1>1, <2>2, <2>5, <2>4 DEF MaterializeIInv, LateClosing
    <2>8. \A d \in Callers : Settles(d)'
      BY <1>1, <2>2, <2>4, <2>5 DEF MaterializeIInv, Settles
    <2>9. JobAlone'
      BY <1>3, <2>2, <2>4, <2>5 DEF MaterializeIInv, JobAlone, HasText
    <2>. QED
      BY <2>6, <2>7, <2>8, <2>9 DEF MaterializeIInv
  <1>. QED
    BY <1>2, <1>3

LEMMA CrashKeeps ==
  ASSUME MaterializeIInv, Crash
  PROVE  MaterializeIInv'
  <1> DEFINE cut == generated.cut \/ \E c \in Callers : op[c].at \in {"fill", "chmod"}
  <1>1. op' = [c \in Callers |-> NoCommand] /\ UNCHANGED <<submitted, setup, project>> /\ generated' = [generated EXCEPT !.cut = cut]
    BY DEF Crash
  <1>2. cut \in BOOLEAN /\ ((\E c \in Callers : op[c].at = "chmod") => cut) /\ (generated.cut => cut)
    OBVIOUS
  <1> HIDE DEF cut
  <1>3. generated'.closed = generated.closed /\ generated'.secret = generated.secret /\ generated'.cut = cut
        /\ DOMAIN generated' = {"doc", "secret", "closed", "cut"}
    BY <1>1 DEF MaterializeIInv, MaterializeTypes
  <1>4. NoCommand.at = "idle" /\ StackJob \in Callers
    BY DEF NoCommand, Callers
  <1>5. MaterializeTypes'
    BY <1>1, <1>2, <1>3 DEF MaterializeIInv, MaterializeTypes
  <1>6. LateClosing'
    BY <1>2, <1>3 DEF MaterializeIInv, LateClosing
  <1>7. JobAlone' /\ \A c \in Callers : Settles(c)'
    BY <1>1, <1>4 DEF JobAlone, Settles
  <1>. QED
    BY <1>5, <1>6, <1>7 DEF MaterializeIInv

LEMMA MaterializeInvariantHolds == MaterializeSpec => []MaterializeIInv
  <1>1. MaterializeInit => MaterializeIInv
    <2>1. SUFFICES ASSUME MaterializeInit PROVE MaterializeIInv
      OBVIOUS
    <2>2. submitted \in Submissions /\ generated = [doc |-> Missing, secret |-> FALSE, closed |-> FALSE, cut |-> FALSE] /\ op = [c \in Callers |-> NoCommand]
          /\ setup \in [loki : BOOLEAN, plugin : {TRUE}, mode : Modes] /\ project = [runs |-> Missing, volumes |-> FALSE]
      BY <2>1 DEF MaterializeInit
    <2>3. MaterializeTypes
      BY <2>2 DEF MaterializeTypes
    <2>4. LateClosing
      BY <2>2 DEF LateClosing
    <2>5. \A c \in Callers : Settles(c)
      BY <2>2 DEF Settles, NoCommand
    <2>6. JobAlone
      BY <2>2 DEF JobAlone, Callers
    <2>. QED
      BY <2>3, <2>4, <2>5, <2>6 DEF MaterializeIInv
  <1>2. MaterializeIInv /\ [MaterializeNext]_materializeVars => MaterializeIInv'
    <2>1. SUFFICES ASSUME MaterializeIInv, [MaterializeNext]_materializeVars PROVE MaterializeIInv'
      OBVIOUS
    <2>2. ASSUME UNCHANGED <<generated, op, submitted>>,
                 setup' \in [loki : BOOLEAN, plugin : BOOLEAN, mode : Modes], UNCHANGED project
          PROVE  MaterializeIInv'
      <3>1. MaterializeTypes' /\ LateClosing' /\ \A c \in Callers : Settles(c)'
        BY <2>1, <2>2 DEF MaterializeIInv, MaterializeTypes, LateClosing, Settles
      <3>2. JobAlone'
        BY <2>1, <2>2 DEF MaterializeIInv, JobAlone, Mine
      <3>. QED
        BY <3>1, <3>2 DEF MaterializeIInv
    <2>3. submitted \in Submissions /\ setup \in [loki : BOOLEAN, plugin : BOOLEAN, mode : Modes]
      BY <2>1 DEF MaterializeIInv, MaterializeTypes
    <2>4. CASE UNCHANGED materializeVars
      BY <2>2, <2>3, <2>4 DEF materializeVars
    <2>5. CASE Submit
      BY <2>1, <2>5, SubmitKeeps
    <2>5a. CASE StartJob
      BY <2>1, <2>5a, StartJobKeeps
    <2>5b. CASE Crash
      BY <2>1, <2>5b, CrashKeeps
    <2>6. CASE HostMoves
      <3>1. setup' \in [loki : BOOLEAN, plugin : BOOLEAN, mode : Modes]
        BY <2>3, <2>6 DEF HostMoves
      <3>. QED
        BY <2>2, <2>3, <2>6, <3>1 DEF HostMoves
    <2>7. ASSUME NEW c \in Callers, NEW verb \in Verbs(c), Begin(c, verb) PROVE MaterializeIInv'
      BY <2>1, <2>7, BeginKeeps
    <2>8. ASSUME NEW c \in Callers,
                 ReadSource(c) \/ DetectLogging(c) \/ DetectChallenge(c) \/ Build(c) \/ Truncate(c) \/ Fill(c) \/ Chmod(c) \/ RunDocker(c)
          PROVE  MaterializeIInv'
      BY <2>1, <2>8, ReadSourceKeeps, DetectLoggingKeeps, DetectChallengeKeeps, BuildKeeps, TruncateKeeps, FillKeeps, FileChmodKeeps,
         RunDockerKeeps
    <2>. QED
      BY <2>1, <2>4, <2>5, <2>5a, <2>5b, <2>6, <2>7, <2>8 DEF MaterializeNext
  <1>. QED
    BY <1>1, <1>2, PTL DEF MaterializeSpec

(* The submission, the derived file and every command keep their types. *)
THEOREM MaterializeTypeCorrect == MaterializeSpec => []MaterializeTypeOK
  <1>1. MaterializeIInv => MaterializeTypeOK
    <2>1. SUFFICES ASSUME MaterializeIInv PROVE MaterializeTypeOK
      OBVIOUS
    <2>2. ASSUME NEW c \in Callers, op[c] # NoCommand
          PROVE  op[c].verb \in Verbs(c) /\ op[c].push \in BOOLEAN /\ op[c].file \in {"none", "original", "generated"}
      BY <2>1, <2>2 DEF MaterializeIInv, MaterializeTypes, Commands
    <2>. QED
      BY <2>1, <2>2 DEF MaterializeIInv, MaterializeTypes, MaterializeTypeOK
  <1>. QED
    BY <1>1, MaterializeInvariantHolds, PTL

(* For any submissions, any readers beside the job and any changes of the host: the labels and the     *)
(* logging an author wrote are what the derived file has, who asked for a route has one where this      *)
(* host's Traefik looks, the services named to Loki are those handed to it, the file with the password  *)
(* is open only on the way to its chmod or after a fault, and never to a command that goes on to docker *)
(* with it, and a job nobody read beside brings up the text that is submitted, under its own spec       *)
(* unless a PUT came before the job's start (autolabel.go:274-283, 313-321, 367-399, 431-444, 552-577,  *)
(* 701-711, compose.go:55-78, routes_deploy.go:464).                                                    *)
THEOREM DerivationIsSafe == MaterializeSpec => MaterializeSafety
  <1> DEFINE Always == OwnIsUntouched /\ RoutedIsServed /\ LoggedAgrees /\ PasswordIsClosed
             Exact == \A c \in {StackJob} : RunDocker(c) /\ op[c].verb = "up" /\ op[c].alone /\ project' # project =>
                        /\ project'.runs \in {submitted.doc, Derived(submitted.doc, op[c].spec, op[c].push, op[c].mode)}
                        /\ op[c].file = "generated" => project'.runs = Mine(c)
                        /\ op[c].spec = submitted.spec \/ op[c].overtaken
  <1>1. MaterializeIInv => Always
    <2>1. SUFFICES ASSUME MaterializeIInv PROVE Always
      OBVIOUS
    <2>2. ASSUME NEW c \in Writing
          PROVE  c \in Callers /\ op[c].text \in SubmittedTexts /\ op[c].push \in BOOLEAN /\ Mine(c) = Derived(op[c].text, op[c].spec, op[c].push, op[c].mode)
      <3>1. c \in Callers /\ op[c].at # "idle"
        BY DEF Writing
      <3>2. op[c] \in Commands(c)
        BY <2>1, <3>1, CommandIs DEF MaterializeIInv
      <3>. QED
        BY <3>1, <3>2 DEF Commands, Mine
    <2>3. OwnIsUntouched
      <3>1. ASSUME NEW c \in Writing, NEW n \in DOMAIN Mine(c).services
            PROVE  (HasTraefik(Source(c, n)) => RouteKept(Source(c, n), Result(c, n)))
                   /\ LogsFollow(Source(c, n), Result(c, n), op[c].push)
        BY <2>2, OwnStays DEF Source, Result
      <3>. QED
        BY <3>1 DEF OwnIsUntouched, RouteKept, LogsFollow
    <2>4. RoutedIsServed
      <3>1. ASSUME NEW c \in Writing, NEW n \in DOMAIN Mine(c).services, AsksRouting(Source(c, n)),
                   NEW s, s = Result(c, n),
                   NEW seen, seen = IF IsSwarm(op[c].spec) THEN s.deployLabels ELSE s.labels,
                   NEW other, other = IF IsSwarm(op[c].spec) THEN s.labels ELSE s.deployLabels
            PROVE  /\ {"enable", "rule", NetworkKey(op[c].spec)} \subseteq seen /\ other \cap Traefik = {}
                   /\ Ingress \in s.networks /\ s.networks \subseteq Mine(c).networks \cup Source(c, n).networks
                   /\ ("resolver" \in seen) = ~WildcardMode(op[c].mode)
        BY <2>2, <3>1, RouteIsThere DEF Source, Result
      <3>. QED
        BY <3>1 DEF RoutedIsServed
    <2>5. LoggedAgrees
      <3>1. ASSUME NEW c \in Writing, op[c].push
            PROVE  LoggedServices(op[c].text, op[c].spec.profiles) =
                     {n \in DOMAIN Mine(c).services : Result(c, n).logging = "loki" /\ InProfiles(Source(c, n), op[c].spec.profiles)}
        <4>1. op[c].text \in SubmittedTexts /\ op[c].push \in BOOLEAN /\ Mine(c) = Derived(op[c].text, op[c].spec, op[c].push, op[c].mode)
          BY <2>2
        <4>2. NamedWhenHanded(op[c].text, op[c].spec, Mine(c))
          BY <3>1, <4>1, LogsAreNamed
        <4>. QED
          BY <4>2 DEF Source, Result, NamedWhenHanded
      <3>. QED
        BY <3>1 DEF LoggedAgrees
    <2>6. PasswordIsClosed
      BY <2>1 DEF MaterializeIInv, LateClosing, Settles, PasswordIsClosed
    <2>. QED
      BY <2>3, <2>4, <2>5, <2>6
  <1>2. MaterializeIInv => Exact
    <2>1. SUFFICES ASSUME MaterializeIInv, RunDocker(StackJob), op[StackJob].verb = "up", op[StackJob].alone, project' # project
                   PROVE  /\ project'.runs \in {submitted.doc, Derived(submitted.doc, op[StackJob].spec, op[StackJob].push, op[StackJob].mode)}
                          /\ op[StackJob].file = "generated" => project'.runs = Mine(StackJob)
                          /\ op[StackJob].spec = submitted.spec \/ op[StackJob].overtaken
      OBVIOUS
    <2>2. StackJob \in Callers /\ op[StackJob].at = "run" /\ project'.runs = ReadByDocker(StackJob)
      BY <2>1 DEF RunDocker, Callers
    <2>3. op[StackJob] # NoCommand /\ op[StackJob] \in Commands(StackJob)
      BY <2>1, <2>2, CommandIs DEF MaterializeIInv
    <2>4. /\ op[StackJob].spec = submitted.spec \/ op[StackJob].overtaken
          /\ op[StackJob].file = "generated" => op[StackJob].text = submitted.doc /\ generated.doc = Mine(StackJob)
      BY <2>1, <2>2, <2>3 DEF MaterializeIInv, JobAlone, HasText
    <2>5. op[StackJob].file \in {"original", "generated"}
      BY <2>1, <2>2, <2>3 DEF MaterializeIInv, Settles, Commands
    <2>6. CASE op[StackJob].file = "original"
      BY <2>2, <2>4, <2>6 DEF ReadByDocker
    <2>7. CASE op[StackJob].file = "generated"
      BY <2>2, <2>4, <2>7 DEF ReadByDocker, Mine
    <2>. QED
      BY <2>5, <2>6, <2>7
  <1> HIDE DEF Always, Exact
  <1>3. MaterializeSpec => []Always /\ [][Exact]_materializeVars
    BY <1>1, <1>2, MaterializeInvariantHolds, PTL DEF MaterializeSpec
  <1>. QED
    BY <1>3 DEF Always, Exact, MaterializeSafety, AloneIsExact
================================================================================
