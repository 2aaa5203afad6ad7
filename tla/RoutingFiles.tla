------------------------------ MODULE RoutingFiles ------------------------------
(***************************************************************************)
(* Traefik's watched directory (routing/routing.go, wildcard.go,           *)
(* domains.go; api/routes_tls.go, routes_domains.go): the stored wildcard, *)
(* whose certificate, key and pointer are three files written in turn, the *)
(* key through a temporary file of its own, and the additional domains,    *)
(* one derived file written through a temporary one. pstack may die        *)
(* between any two of the writes, and any may fail.                        *)
(***************************************************************************)
EXTENDS Naturals, Sequences, FiniteSets

CONSTANTS
    Zones,          \* domains an operator may add
    Pairs,          \* certificate and key pairs: positive numbers
    Covers,         \* [Pairs -> the zones a pair covers]; every pair covers the primary
    DomainPuts,     \* PUT /api/domains requests under way at once
    MaxTlsWrites,   \* bound: requests of a behaviour
    MaxTlsFaults    \* bound: crashes and failed writes

ASSUME RoutingFilesAssumption ==
    /\ Pairs \subseteq Nat \ {0} /\ Covers \in [Pairs -> SUBSET Zones]
    /\ {MaxTlsWrites, MaxTlsFaults} \subseteq Nat

VARIABLES
    certFile, keyFile,  \* certs/: 0 for no file, else whose half it holds
    keyPart,            \* certs/.pstack-tmp-<pid>-wildcard.key.part: "own", or "old" of an earlier pid
    pointer,            \* pstack-wildcard.yml exists: the host is in dns-persist-01
    wildcard,           \* the request holding wildcardMu, and the one in front of it
    zonesFile,          \* pstack-domains.yml: <<>> none, <<"torn">> or <<zones, persist>>
    tmpFile,            \* .pstack-tmp-<pid>-pstack-domains.yml.part, the same for every writer
    put,                \* per PUT /api/domains what it has left to do
    halfDone,           \* the last write of the pair stopped in the middle
    tlsUp, tlsWrites, tlsFaults

wildVars == <<certFile, keyFile, keyPart, pointer, wildcard, halfDone>>
zoneVars == <<zonesFile, tmpFile, put>>
tlsVars == <<wildVars, zoneVars, tlsUp, tlsWrites, tlsFaults>>

ReadZones_Torn == IF Len(zonesFile) >= 1 THEN {zonesFile[1]} ELSE {}
(* WildcardActive; Domains reads the list back out of the file. *)
WildcardActive == pointer
ReadZones == IF Len(zonesFile) = 2 THEN zonesFile[1] ELSE {}

NoWild == [pc |-> "none", pair |-> 0, covers |-> {}, first |-> FALSE]
NoPut == [pc |-> "none", zones |-> {}, persist |-> FALSE]

TlsFault == tlsFaults < MaxTlsFaults /\ tlsFaults' = tlsFaults + 1
FileStep(next) == wildcard' = [wildcard EXCEPT !.pc = next]

(* PUT /api/tls/wildcard reads the domains before it takes wildcardMu. *)
WildcardPut(p) ==
    /\ tlsUp /\ wildcard.pc = "none" /\ tlsWrites < MaxTlsWrites
    /\ tlsWrites' = tlsWrites + 1
    /\ wildcard' = [pc |-> "check", pair |-> p, covers |-> ReadZones, first |-> FALSE]
    /\ UNCHANGED <<certFile, keyFile, keyPart, pointer, halfDone, zoneVars, tlsUp, tlsFaults>>
(* SetWildcard: a pair that does not cover every domain is refused before any write. *)
CheckPair ==
    /\ tlsUp /\ wildcard.pc = "check"
    /\ wildcard' = IF wildcard.covers \subseteq Covers[wildcard.pair]
                   THEN [wildcard EXCEPT !.pc = "cert", !.first = ~WildcardActive] ELSE NoWild
    /\ UNCHANGED <<certFile, keyFile, keyPart, pointer, halfDone, zoneVars, tlsUp, tlsWrites, tlsFaults>>
(* Each half goes to a temporary file that is then renamed; the certificate's holds no secret, and *)
(* only its rename shows. A write that fails removes the temporary file and ignores whether it did.  *)
WriteCert ==
    /\ tlsUp /\ wildcard.pc = "cert"
    /\ \/ FileStep("key") /\ certFile' = wildcard.pair /\ halfDone' = (wildcard.pair # keyFile) /\ UNCHANGED tlsFaults
       \/ TlsFault /\ wildcard' = NoWild /\ UNCHANGED <<certFile, halfDone>>
    /\ UNCHANGED <<keyFile, keyPart, pointer, zoneVars, tlsUp, tlsWrites>>
StageKey ==
    /\ tlsUp /\ wildcard.pc = "key"
    /\ \/ FileStep("rename") /\ keyPart' = keyPart \cup {"own"} /\ UNCHANGED tlsFaults
       \/ TlsFault /\ wildcard' = NoWild /\ keyPart' \in {keyPart \ {"own"}, keyPart \cup {"own"}}
    /\ UNCHANGED <<certFile, keyFile, pointer, halfDone, zoneVars, tlsUp, tlsWrites>>
WriteKey ==
    /\ tlsUp /\ wildcard.pc = "rename"
    /\ \/ FileStep("pointer") /\ keyFile' = wildcard.pair /\ keyPart' = keyPart \ {"own"} /\ halfDone' = FALSE /\ UNCHANGED tlsFaults
       \/ TlsFault /\ wildcard' = NoWild /\ keyPart' \in {keyPart \ {"own"}, keyPart} /\ UNCHANGED <<keyFile, halfDone>>
    /\ UNCHANGED <<certFile, pointer, zoneVars, tlsUp, tlsWrites>>
(* The pointer last. When it fails on a first store the pair is taken out again, or left as well. *)
WritePointer ==
    /\ tlsUp /\ wildcard.pc = "pointer"
    /\ wildcard' = NoWild
    /\ \/ pointer' = TRUE /\ UNCHANGED <<certFile, keyFile, tlsFaults>>
       \/ /\ TlsFault /\ UNCHANGED pointer
          /\ certFile' \in {certFile} \cup (IF wildcard.first THEN {0} ELSE {})
          /\ keyFile' \in {keyFile} \cup (IF wildcard.first THEN {0} ELSE {})
    /\ UNCHANGED <<keyPart, halfDone, zoneVars, tlsUp, tlsWrites>>

(* RemoveWildcard: the pointer first, then each half; it sweeps a pair without a pointer too. *)
WildcardDelete ==
    /\ tlsUp /\ wildcard.pc = "none" /\ tlsWrites < MaxTlsWrites
    /\ tlsWrites' = tlsWrites + 1
    /\ wildcard' = [NoWild EXCEPT !.pc = "unpoint"]
    /\ UNCHANGED <<certFile, keyFile, keyPart, pointer, halfDone, zoneVars, tlsUp, tlsFaults>>
Unpoint_PairFirst ==
    /\ tlsUp /\ wildcard.pc = "unpoint"
    /\ FileStep("uncert") /\ certFile' = 0
    /\ UNCHANGED <<pointer, tlsFaults, keyFile, keyPart, halfDone, zoneVars, tlsUp, tlsWrites>>
Unpoint ==
    /\ tlsUp /\ wildcard.pc = "unpoint"
    /\ \/ FileStep("uncert") /\ pointer' = FALSE /\ UNCHANGED tlsFaults
       \/ pointer /\ TlsFault /\ wildcard' = NoWild /\ UNCHANGED pointer
    /\ UNCHANGED <<certFile, keyFile, keyPart, halfDone, zoneVars, tlsUp, tlsWrites>>
Uncert ==
    /\ tlsUp /\ wildcard.pc = "uncert"
    /\ \/ FileStep("unkey") /\ certFile' = 0 /\ halfDone' = FALSE /\ UNCHANGED tlsFaults
       \/ certFile # 0 /\ TlsFault /\ wildcard' = NoWild /\ UNCHANGED <<certFile, halfDone>>
    /\ UNCHANGED <<keyFile, keyPart, pointer, zoneVars, tlsUp, tlsWrites>>
Unkey ==
    /\ tlsUp /\ wildcard.pc = "unkey"
    /\ \/ FileStep("deleted") /\ keyFile' = 0 /\ UNCHANGED tlsFaults
       \/ keyFile # 0 /\ TlsFault /\ wildcard' = NoWild /\ UNCHANGED keyFile
    /\ UNCHANGED <<certFile, keyPart, pointer, halfDone, zoneVars, tlsUp, tlsWrites>>
(* The answer of a DELETE: removed, or "no wildcard is stored". *)
AnswerDelete ==
    /\ tlsUp /\ wildcard.pc = "deleted"
    /\ wildcard' = NoWild
    /\ UNCHANGED <<certFile, keyFile, keyPart, pointer, halfDone, zoneVars, tlsUp, tlsWrites, tlsFaults>>

(* PUT /api/domains: the list replaces what is stored; the mode is read with it. No lock. *)
DomainsPut(r, zones) ==
    /\ tlsUp /\ put[r].pc = "none" /\ tlsWrites < MaxTlsWrites
    /\ tlsWrites' = tlsWrites + 1
    /\ put' = [put EXCEPT ![r] = [pc |-> IF zones = {} THEN "remove" ELSE "open", zones |-> zones, persist |-> WildcardActive]]
    /\ UNCHANGED <<wildVars, zonesFile, tmpFile, tlsUp, tlsFaults>>
RemoveZones(r) ==
    /\ tlsUp /\ put[r].pc = "remove"
    /\ put' = [put EXCEPT ![r] = NoPut] /\ zonesFile' = <<>>
    /\ UNCHANGED <<wildVars, tmpFile, tlsUp, tlsWrites, tlsFaults>>
(* write: os.WriteFile truncates the temporary file and fills it, then renames it. *)
OpenTmp(r) ==
    /\ tlsUp /\ put[r].pc = "open"
    /\ put' = [put EXCEPT ![r].pc = "fill"] /\ tmpFile' = <<"torn">>
    /\ UNCHANGED <<wildVars, zonesFile, tlsUp, tlsWrites, tlsFaults>>
(* The bytes go to the file that was opened, renamed in between or not. *)
FillTmp(r) ==
    /\ tlsUp /\ put[r].pc = "fill"
    /\ put' = [put EXCEPT ![r].pc = "rename"]
    /\ IF tmpFile # <<>> THEN tmpFile' = <<put[r].zones, put[r].persist>> /\ UNCHANGED zonesFile
       ELSE zonesFile' = <<put[r].zones, put[r].persist>> /\ UNCHANGED tmpFile
    /\ UNCHANGED <<wildVars, tlsUp, tlsWrites, tlsFaults>>
(* A rename that finds no temporary file answers an error. *)
RenameTmp(r) ==
    /\ tlsUp /\ put[r].pc = "rename"
    /\ put' = [put EXCEPT ![r] = NoPut] /\ tmpFile' = <<>>
    /\ zonesFile' = IF tmpFile = <<>> THEN zonesFile ELSE tmpFile
    /\ UNCHANGED <<wildVars, tlsUp, tlsWrites, tlsFaults>>

StopTls ==
    /\ tlsUp /\ TlsFault
    /\ tlsUp' = FALSE /\ wildcard' = NoWild /\ put' = [r \in DomainPuts |-> NoPut]
    /\ UNCHANGED <<certFile, keyFile, keyPart, pointer, halfDone, zonesFile, tmpFile, tlsWrites>>
(* reconcileDomains: at boot the file is rendered again for the mode the host is in now. The new *)
(* process may have the pid of the last one, as in a container, or another.                      *)
BootTls ==
    /\ ~tlsUp /\ tlsUp' = TRUE
    /\ zonesFile' = IF ReadZones = {} THEN zonesFile ELSE <<ReadZones, WildcardActive>>
    /\ keyPart' \in {keyPart, IF keyPart = {} THEN {} ELSE {"old"}}
    /\ UNCHANGED <<certFile, keyFile, pointer, wildcard, halfDone, tmpFile, put, tlsWrites, tlsFaults>>

RoutingFilesInit ==
    /\ certFile = 0 /\ keyFile = 0 /\ keyPart = {} /\ pointer = FALSE /\ wildcard = NoWild /\ halfDone = FALSE
    /\ zonesFile = <<>> /\ tmpFile = <<>> /\ put = [r \in DomainPuts |-> NoPut]
    /\ tlsUp = TRUE /\ tlsWrites = 0 /\ tlsFaults = 0
RoutingFilesNext ==
    \/ \E p \in Pairs : WildcardPut(p)
    \/ CheckPair \/ WriteCert \/ StageKey \/ WriteKey \/ WritePointer
    \/ WildcardDelete \/ Unpoint \/ Uncert \/ Unkey \/ AnswerDelete
    \/ \E r \in DomainPuts :
          \/ \E zones \in SUBSET Zones : DomainsPut(r, zones)
          \/ RemoveZones(r) \/ OpenTmp(r) \/ FillTmp(r) \/ RenameTmp(r)
    \/ StopTls \/ BootTls
RoutingFilesSpec == RoutingFilesInit /\ [][RoutingFilesNext]_tlsVars
--------------------------------------------------------------------------------
(* What the watched directory promises (RoutingFiles). *)

(* Every variable keeps its type. *)
RoutingFilesTypeOK ==
    /\ {certFile, keyFile} \subseteq Pairs \cup {0} /\ pointer \in BOOLEAN /\ keyPart \subseteq {"own", "old"}
    /\ wildcard.pair \in Pairs \cup {0} /\ wildcard.covers \subseteq Zones
    /\ zonesFile \in {<<>>, <<"torn">>} \cup ((SUBSET Zones) \X BOOLEAN)
    /\ tmpFile \in {<<>>, <<"torn">>} \cup ((SUBSET Zones) \X BOOLEAN)

(* What the pointer names is there: whatever fails or dies, Traefik is never pointed at a *)
(* certificate or a key that is not on disk.                                              *)
PointerHasPair == pointer => certFile # 0 /\ keyFile # 0

(* The two halves Traefik would load belong together, unless a rotation stopped in the middle. *)
PairMatches == pointer /\ ~halfDone => certFile = keyFile

(* "No wildcard is stored" is never said, nor a removal confirmed, while the stored key sits on  *)
(* disk: a DELETE sweeps what a crash or a failed first store left behind (wildcard.go:228-231). *)
(* What it does not sweep is a temporary file, which only a fault can have left.                 *)
GoneMeansGone ==
    wildcard.pc = "deleted" => ~pointer /\ certFile = 0 /\ keyFile = 0 /\ (keyPart # {} => tlsFaults > 0)

(* The API denies holding a wildcard only when no key is on disk, under its name or a temporary  *)
(* one, a crash between two writes or a write that failed aside.                                  *)
NoSecretKey == ~pointer /\ (keyFile # 0 \/ keyPart # {}) /\ wildcard.pc = "none" => tlsFaults > 0

(* "Every call sweeps both halves" (wildcard.go:231): after a DELETE no byte of a key is left. *)
KeyIsSwept == wildcard.pc = "deleted" => keyPart = {}

(* A pair that is stored covers the domains the request read. *)
StoredIsCovering ==
    [][certFile' \notin {0, certFile} => wildcard.covers \subseteq Covers[certFile']]_tlsVars

(* "the stored wildcard already covers it (PUT /api/tls/wildcard refuses a pair that does not)" *)
(* (routing/domains.go:193): in dns-persist-01 every additional domain has a certificate.       *)
WildcardCovers ==
    pointer /\ ~halfDone /\ wildcard.pc = "none" => ReadZones \subseteq Covers[certFile]

(* "the watcher only ever sees a whole file" (routing/routing.go:27), whoever writes it at once. *)
WatcherSeesWholeFiles == zonesFile # <<"torn">>

(* What Traefik's directory keeps through stores, removals, failures and crashes. *)
FilesSafety == [](PointerHasPair /\ PairMatches /\ GoneMeansGone /\ NoSecretKey) /\ StoredIsCovering
================================================================================
