------------------------------- MODULE MCDoors -------------------------------
(***************************************************************************)
(* The ways to a stack: the visitors that wake it, the operators that      *)
(* bring it up and down under them, the identity provider they sign in     *)
(* with and the gate every request of theirs passes. They share no state   *)
(* here, so a behaviour takes the steps of one of them, and what is        *)
(* checked of each is what its own specification says.                     *)
(***************************************************************************)
EXTENDS MCSleepWake, SsoClient, FrontDoor
CONSTANTS o1, k3, u1, b1, dep

VARIABLE part  \* whose steps this behaviour takes

(* A preset that names itself, one whose userinfo is spelled otherwise, and one that an operator  *)
(* has of its own, with a rule for the groups.                                                    *)
NoForm == [provider |-> "", mode |-> "", clientId |-> TRUE, patterns |-> "fine", issuer |-> "", authorize |-> "",
           token |-> "", userInfo |-> "", emails |-> "", groups |-> "", scopes |-> {}, rule |-> FALSE]
Of(provider) == [NoForm EXCEPT !.provider = provider]
Own(form) == [form EXCEPT !.authorize = "own", !.token = "own", !.userInfo = "own"]
MCForms == {Of("google"), [Of("github") EXCEPT !.userInfo = "GITHUB"],
            [Own(Of("gitlab")) EXCEPT !.groups = "own", !.scopes = {"api"}, !.rule = TRUE]}

(* Of the provider either its documents are raced for, and no token is verified, or its keys are:  *)
(* then one request at a time is on its way to them, the provider stays where it is, what is saved *)
(* is discovered and nothing is deleted.                                                           *)
AtKeys(c) == asking'[c].at \in {"verify", "keys", "jwks"}
OnTheWay(c) == asking'[c].at \in {"doc", "docs", "exchange"}
Keeps(c) == asking'[c].at \in {"put", "forget", "delete"}
FarFromKeys == \A c \in SsoCallers : ~AtKeys(c)
NearKeys ==
    /\ doc' = doc
    /\ \A c \in SsoCallers : asking'[c].at # "delete" /\ (asking'[c].at = "put" => asking[c].at \in {"docs", "put"})
    /\ \A c, e \in SsoCallers : c # e /\ (Keeps(c) \/ OnTheWay(c)) => asking'[e].at = "idle" \/ AtKeys(e)
DoorsSymmetry == Permutations(Visitor) \cup Permutations(SsoCallers)

(* Somebody signs in to Grafana where no link is minted and one request is made.                  *)
NotBoth == states' = 0 \/ (links' = {} /\ calls' < 2)

(* An admin, and a developer whose role and password it changes; a personal token; the link of a   *)
(* deployment in a query and as a bearer, on a page it opens and on one it does not; a ruled route *)
(* that nothing serves.                                                                           *)
To(method, route, subject) == [host |-> "control", method |-> method, route |-> route, about |-> subject,
                             bearer |-> "", query |-> "", browser |-> b1]
Seats == [u \in Users |-> IF u = u1 THEN "admin" ELSE "developer"]
Second == CHOOSE u \in Users : u # u1
MCRequests == {
    To("PATCH", "user", Second), To("PUT", "user/password", Second), [To("DELETE", "user", Second) EXCEPT !.bearer = "secret"],
    [To("POST", "users", dep) EXCEPT !.bearer = "token"],
    [To("POST", "share", dep) EXCEPT !.bearer = "junk"], [To("GET", "logs", dep) EXCEPT !.query = "link"],
    [To("PUT", "spec", dep) EXCEPT !.bearer = "link"], [To("GET", "config", dep) EXCEPT !.host = "preview"],
    [To("PUT", "sso/provider", dep) EXCEPT !.bearer = "secret"]}

DoorsVars == <<part, MCVars, ssoVars, doorVars>>
sleepOnly == UNCHANGED <<part, ssoVars, doorVars>>
documentsOnly == UNCHANGED <<part, MCVars, doorVars>>
keysOnly == UNCHANGED <<part, MCVars, doorVars>>
doorOnly == UNCHANGED <<part, MCVars, ssoVars>>

DoorsInit ==
    /\ part \in {"sleep", "documents", "keys", "door"}
    /\ MCInit /\ (part # "sleep" => running = "machines")
    /\ SsoInit /\ doc = o1 /\ keys = {k3}
    /\ FrontDoorInit /\ role = Seats /\ (part # "door" => secret = 0)
DoorsNext ==
    \/ part = "sleep" /\ MCNext /\ sleepOnly
    \/ part = "documents" /\ SsoNext /\ FarFromKeys /\ documentsOnly
    \/ part = "keys" /\ SsoNext /\ NearKeys /\ keysOnly
    \/ part = "door" /\ FrontDoorNext /\ NotBoth /\ doorOnly

DoorsSpec == DoorsInit /\ [][DoorsNext]_DoorsVars

(* Every variable of every part keeps its type: what their definitions assume of each other. *)
DoorsTypes ==
    /\ part = "sleep" => TypeOK
    /\ part = "documents" => SsoTypeOK
    /\ part = "keys" => SsoTypeOK
    /\ part = "door" => FrontDoorTypeOK
==============================================================================
