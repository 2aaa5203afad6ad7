------------------------------ MODULE ConfigTravel ------------------------------
(***************************************************************************)
(* The portable configuration (config/config.go, config/seal.go,           *)
(* api/routes_config.go): the document is assembled on one host, sealed,   *)
(* and applied to another, entry by entry, creating or skipping.           *)
(*                                                                         *)
(* A thing has a section and a name, and a token an owner; what a host     *)
(* says of it is a value, 0 when it is not there. Half is a named spec     *)
(* whose text is on disk and whose meta.json is not, Foreign a value that  *)
(* the document cannot carry (a registry served by a credential helper).   *)
(***************************************************************************)
EXTENDS Integers, Sequences, FiniteSets

CONSTANTS
    Things,    \* records [sec, name, owner]; owner is the user of a token
    Unusable,  \* things whose name or value the other host refuses
    Reserved,  \* routing files that are derived, and stay behind
    Imports,   \* requests that apply the document
    Envelopes, \* sealed files, as records; a plain import takes none
    Faults,    \* things whose write may fail, that of a spec halfway
    Edited,    \* things an operator may set on the old host meanwhile
    Dropped    \* things an operator may remove from the new one

VARIABLES
    host,   \* what each host has: "old" or "new" -> thing -> value
    export, \* the document: the sections read so far and the entries they gave
    import  \* by request

configVars == <<host, export, import>>

Half == -1
Foreign == -2
SectionOrder_TokensFirst == <<"token", "user", "var", "notifier", "sso", "registry", "routing", "spec">>
SectionOrder == <<"user", "token", "var", "notifier", "sso", "registry", "routing", "spec">>
In(sec) == {t \in Things : t.sec = sec}
Has(h, t) == host[h][t] # 0

ASSUME ConfigAssumption ==
    /\ Things \subseteq [sec : {SectionOrder[n] : n \in DOMAIN SectionOrder}, name : Nat, owner : Nat]
    /\ Edited \cup Dropped \subseteq Things

(* What a host may have: halves are of specs, notifiers are counted, and a token has its account. *)
Hosts ==
    {h \in [Things -> Nat \cup {Half, Foreign}] :
        \A t \in Things :
            /\ h[t] = Half => t.sec = "spec"
            /\ t.sec = "notifier" => h[t] \in Nat
            /\ t.sec = "token" /\ h[t] # 0 => \E u \in In("user") : u.name = t.owner /\ h[u] # 0}
--------------------------------------------------------------------------------
(* Assemble: one read per section, in order; what cannot be rebuilt is left    *)
(* out, and so is a spec without its meta.json.                                *)

Travels(t, v) == v \notin {0, Half, Foreign} /\ t \notin Reserved

AssembleNext(sec) == {<<t, host["old"][t]>> : t \in {u \in In(sec) : Travels(u, host["old"][u])}}

ExportSection ==
    /\ export.next <= Len(SectionOrder)
    /\ export' = [export EXCEPT !.next = @ + 1, !.doc = @ \cup AssembleNext(SectionOrder[export.next])]
    /\ UNCHANGED <<host, import>>

Sealed == export.next > Len(SectionOrder)
Entries(sec) == {e \in export.doc : e[1].sec = sec}

(* The document may be written by hand as well, and name accounts without a role. *)
EditDocument(e) ==
    /\ Sealed /\ e \in Entries("user") /\ \A i \in Imports : import[i].at = "new"
    /\ export' = [export EXCEPT !.roleless = @ \cup {e[1]}]
    /\ UNCHANGED <<host, import>>
--------------------------------------------------------------------------------
(* Unseal: what can be told before the key is derived is, the rest is one      *)
(* answer. An envelope asks for kdf costs and has a defect, or none.           *)

PowersOfTwo == {2^i : i \in 0 .. 30}
CheckKDF(k) ==
    /\ k.n \in 2^14 .. 2^20 /\ k.n \in PowersOfTwo /\ k.r \in 1 .. 16 /\ k.p \in 1 .. 4
    /\ 128 * k.n * k.r <= 2^30

Unseal(e) ==
    CASE e.defect \in {"json", "version", "scheme"} -> "refused"
      [] ~CheckKDF(e.kdf) -> "refused"
      [] e.defect \in {"base64", "nonce", "short"} -> "refused"
      [] e.defect \in {"passphrase", "modified"} -> "passphrase"
      [] OTHER -> "opened"

DerivesKey(e) == e.defect \notin {"json", "version", "scheme", "base64", "nonce", "short"} /\ CheckKDF(e.kdf)

(* mayMoveConfig and mayApplySealedConfig. *)
MayMove(who) == who = "root"
MayApplySealed(who) == who \in {"root", "admin"}

(* Parse refuses the document whole: another version, or an account without a role. *)
ParseDocument == export.roleless = {}
--------------------------------------------------------------------------------
(* Apply: section by section, and in one by name.                              *)

Ended(i, how) == [import[i] EXCEPT !.at = how, !.left = {}, !.here = {}]
SetImport(i, r) == import' = [import EXCEPT ![i] = r]
NamesOf(sec) == {t \in In(sec) : Has("new", t)}

(* The route: who may, is it open, is it a document; a preview goes no further. *)
OpenImport(i) ==
    LET fresh == [at |-> "look", sec |-> 0, left |-> {}, here |-> {}, todo |-> <<>>, wrote |-> {}, skipped |-> {}, opened |-> {}] IN
    /\ import[i].at = "new" /\ Sealed
    /\ \/ \E who \in {"root", "admin", "viewer"} :
            SetImport(i, IF MayMove(who) /\ ParseDocument THEN fresh ELSE [fresh EXCEPT !.at = "refused"])
       \/ \E who \in {"root", "admin", "viewer"}, e \in Envelopes, preview \in BOOLEAN :
            SetImport(i, IF ~MayApplySealed(who) \/ Unseal(e) # "opened" \/ ~ParseDocument
                         THEN [fresh EXCEPT !.at = "refused", !.opened = IF MayApplySealed(who) /\ DerivesKey(e) THEN {e} ELSE {}]
                         ELSE IF preview THEN [fresh EXCEPT !.at = "previewed", !.opened = {e}] ELSE fresh)
    /\ UNCHANGED <<host, export>>

(* Host variables, registries and routing files are listed once, before the first of them is looked at. *)
ListedSections == {"var", "registry", "routing"}

EnterSection(i) ==
    /\ import[i].at = "look" /\ import[i].left = {}
    /\ SetImport(i, IF import[i].sec = Len(SectionOrder) THEN Ended(i, "done")
                    ELSE LET sec == SectionOrder[import[i].sec + 1] IN
                         [import[i] EXCEPT !.sec = @ + 1, !.left = Entries(sec), !.here = IF sec \in ListedSections THEN NamesOf(sec) ELSE {}])
    /\ UNCHANGED <<host, export>>

(* Is it usable, and is there none yet? A spec without its meta.json is an error, and so the end. *)
IsHere(i, t) == IF t.sec \in ListedSections THEN t \in import[i].here ELSE Has("new", t)
Creates(i, t) ==
    /\ t \notin Unusable /\ ~IsHere(i, t)
    /\ t.sec = "token" => \E u \in In("user") : u.name = t.owner /\ Has("new", u)

LookAt(i, e) ==
    LET t == e[1] IN
    /\ import[i].at = "look" /\ e \in import[i].left /\ \A o \in import[i].left : t.name <= o[1].name
    /\ SetImport(i,
         IF t.sec = "spec" /\ host["new"][t] = Half THEN Ended(i, "failed")
         ELSE IF Creates(i, t) THEN [import[i] EXCEPT !.at = "write", !.todo = <<e>>]
         ELSE [import[i] EXCEPT !.left = @ \ {e}])
    /\ UNCHANGED <<host, export>>

(* An INSERT finds the name taken, or the account gone; that of a notifier, which no column keeps  *)
(* from being the second of its name, is counted; a Put replaces what is there by now.             *)
Refused(t) ==
    \/ t.sec \in {"user", "token"} /\ Has("new", t)
    \/ t.sec = "token" /\ ~\E u \in In("user") : u.name = t.owner /\ Has("new", u)

Wrote(i) ==
    LET e == import[i].todo[1]  r == import[i] IN
    [r EXCEPT !.at = "look", !.todo = <<>>, !.left = @ \ {e}, !.wrote = @ \cup {e[1]},
              !.here = IF e[1].sec \in ListedSections THEN @ \cup {e[1]} ELSE {}]

(* A registry or a routing file that cannot be written is a fault of the entry to its package: the *)
(* entry is skipped, and named in the answer of an import that goes on.                            *)
SkippingSections == {"registry", "routing"}
Skipped(i) ==
    LET e == import[i].todo[1] IN
    [import[i] EXCEPT !.at = "look", !.todo = <<>>, !.left = @ \ {e}, !.skipped = @ \cup {e[1]}]

WriteEntry(i) ==
    LET e == import[i].todo[1]  t == e[1]  IN
    /\ import[i].at = "write"
    /\ \/ Refused(t) /\ SetImport(i, Ended(i, "failed")) /\ UNCHANGED host
       \/ t \in Faults \cup export.roleless /\ t.sec \notin SkippingSections /\ SetImport(i, Ended(i, "failed")) /\ UNCHANGED host
       \/ t \in Faults /\ t.sec \in SkippingSections /\ SetImport(i, Skipped(i)) /\ UNCHANGED host
       \/ ~Refused(t) /\ t.sec = "spec" /\ ~Has("new", t)
            /\ SetImport(i, [import[i] EXCEPT !.at = "meta"]) /\ host' = [host EXCEPT !["new"][t] = Half]
       \/ ~Refused(t) /\ t \notin export.roleless /\ (t.sec = "spec" => Has("new", t))
            /\ SetImport(i, Wrote(i)) /\ host' = [host EXCEPT !["new"][t] = IF t.sec = "notifier" THEN @ + 1 ELSE e[2]]
    /\ UNCHANGED export

(* specs.Put: the meta.json that makes the text a spec comes last. *)
WriteMeta(i) ==
    LET e == import[i].todo[1] IN
    /\ import[i].at = "meta"
    /\ \/ e[1] \in Faults /\ SetImport(i, Ended(i, "failed")) /\ UNCHANGED host
       \/ SetImport(i, Wrote(i)) /\ host' = [host EXCEPT !["new"][e[1]] = e[2]]
    /\ UNCHANGED export

ImportStep(i) ==
    \/ EnterSection(i) \/ WriteEntry(i) \/ WriteMeta(i)
    \/ \E e \in import[i].left : LookAt(i, e)

(* The server stops; a request that was not answered is sent again. *)
Restart ==
    /\ \E i \in Imports : import[i].at \in {"look", "write", "meta"}
    /\ import' = [i \in Imports |-> IF import[i].at \in {"look", "write", "meta"}
                                    THEN [Ended(i, "cut") EXCEPT !.todo = <<>>] ELSE import[i]]
    /\ UNCHANGED <<host, export>>
--------------------------------------------------------------------------------
(* Operators, meanwhile, through the routes of each thing. A user takes its tokens along. *)

Gone(t) == {t} \cup {k \in Things : k.sec = "token" /\ t.sec = "user" /\ k.owner = t.name}

EditOld(t, v) ==
    /\ ~Sealed /\ host["old"][t] # Half
    /\ t.sec = "token" /\ v # 0 => \E u \in In("user") : u.name = t.owner /\ Has("old", u)
    /\ host' = [host EXCEPT !["old"] = [u \in Things |-> IF u = t THEN v ELSE IF v = 0 /\ u \in Gone(t) THEN 0 ELSE host["old"][u]]]
    /\ UNCHANGED <<export, import>>

DropNew(t) ==
    /\ Has("new", t) /\ host["new"][t] # Half
    /\ host' = [host EXCEPT !["new"] = [u \in Things |-> IF u \in Gone(t) THEN 0 ELSE host["new"][u]]]
    /\ UNCHANGED <<export, import>>
--------------------------------------------------------------------------------
ConfigInit(old, new) ==
    /\ host = [h \in {"old", "new"} |-> IF h = "old" THEN old ELSE new]
    /\ export = [next |-> 1, doc |-> {}, roleless |-> {}]
    /\ import = [i \in Imports |-> [at |-> "new", sec |-> 0, left |-> {}, here |-> {}, todo |-> <<>>, wrote |-> {}, skipped |-> {}, opened |-> {}]]

ConfigNext ==
    \/ ExportSection \/ Restart
    \/ \E i \in Imports : OpenImport(i) \/ ImportStep(i)
    \/ \E e \in export.doc : EditDocument(e)
    \/ \E t \in Edited, v \in {0, 1} : EditOld(t, v)
    \/ \E t \in Dropped : DropNew(t)
ConfigSpec == (\E old \in Hosts, new \in Hosts : ConfigInit(old, new)) /\ [][ConfigNext]_configVars
--------------------------------------------------------------------------------
(* What moving the configuration of a host promises (ConfigTravel). *)

(* Every variable keeps its type. *)
ConfigTypeOK ==
    /\ \A h \in {"old", "new"}, t \in Things : host[h][t] \in Nat \cup {Half, Foreign}
    /\ export.next \in 1 .. Len(SectionOrder) + 1
    /\ \A i \in Imports :
         /\ import[i].at \in {"new", "refused", "previewed", "look", "write", "meta", "done", "failed", "cut"}
         /\ import[i].sec \in 0 .. Len(SectionOrder) /\ import[i].left \subseteq export.doc
         /\ import[i].here \subseteq Things /\ import[i].wrote \cup import[i].skipped \subseteq Things

Writers(t) == {i \in Imports : t \in import[i].wrote \/ \E k \in DOMAIN import[i].todo : import[i].todo[k][1] = t}

(* An import replaces and removes nothing that was there before the imports (config.go:36-48): all it *)
(* may write over is what another import put there between its look and its write.                    *)
OlderIsKept ==
    [][ \A t \in Things, i \in Imports :
          (import[i].at = "write" /\ import[i].todo[1][1] = t /\ Has("new", t) /\ import'[i].at = "look" /\ t \in import'[i].wrote)
            => Writers(t) \ {i} # {} ]_configVars

(* An answered import left nothing of the document behind that this host can take, but what its own  *)
(* answer says was skipped because it could not be written, and that is a registry or a routing file  *)
(* and no other thing (config.go:917-922, 942-947): users come before the tokens that need them,      *)
(* whatever was cut short before (config.go:45-48, 618-619).                                          *)
DoneIsThere ==
    \A i \in Imports : import[i].at = "done" =>
        \A e \in export.doc :
            \/ e[1] \in Unusable \/ \E t \in Dropped : e[1] \in Gone(t)
            \/ e[1].sec = "token" /\ ~\E u \in In("user") : u.name = e[1].owner /\ Has("new", u)
            \/ host["new"][e[1]] \notin {0, Half}
            \/ e[1] \in import[i].skipped /\ e[1].sec \in SkippingSections

(* A document that names an account without a role adds nothing, not even the accounts before it     *)
(* (config.go:575-579).                                                                              *)
RolelessAddsNothing == export.roleless # {} => \A i \in Imports : import[i].wrote = {}

(* No token is left without its account, on either host. *)
TokensHaveUsers ==
    \A h \in {"old", "new"}, t \in In("token") : Has(h, t) => \E u \in In("user") : u.name = t.owner /\ Has(h, u)

(* No file makes this host derive a key at more than 1 GiB (seal.go:198-200). *)
KeyIsAffordable == \A i \in Imports : \A e \in import[i].opened : 128 * e.kdf.n * e.kdf.r <= 2^30

(* What is derived from other state stays on its host, and so does what a document cannot rebuild. *)
ExportIsPortable == \A e \in export.doc : e[1] \notin Reserved /\ e[2] \notin {Half, Foreign}

ConfigSafety ==
    /\ OlderIsKept
    /\ [](DoneIsThere /\ RolelessAddsNothing /\ TokensHaveUsers /\ KeyIsAffordable /\ ExportIsPortable)

(* Stated of an import that fails halfway (config.go:45-48): sending it again completes it. A spec    *)
(* whose meta.json was not written fails every later import, and no route replaces or deletes it.     *)
NoSpecIsStuck == \A t \in In("spec") : host["new"][t] = Half => \E i \in Imports : import[i].at = "meta"
================================================================================
