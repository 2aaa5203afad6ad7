------------------------------- MODULE SsoClient -------------------------------
(* What a host keeps of an identity provider: the config an operator submitted (sso/sso.go) and   *)
(* two caches, of the provider's discovery document and of its keys (sso/client.go), which are    *)
(* filled by requests that run under no lock while the provider moves and rotates. Times are the  *)
(* ages of things, up to the age from which nothing depends on them. The provider is one; of an   *)
(* URL only whose it is counts, and whether it is the text the table has or another spelling.     *)
EXTENDS Naturals, FiniteSets
CONSTANTS Forms,      \* what an operator may type
          Kids, Docs, \* the provider's keys and discovery documents
          SsoCallers,    \* requests of the host: sign-ins, saves
          CacheTime, Cooldown, Timeout,
          Unnamed, Unknown,  \* no kid in a token, and a kid or a key of nobody
          MaxIdpMoves    \* what the provider changes

\* What may be typed of a provider; an absent field is "", an absent list {}.
FormFields == [provider : STRING, mode : STRING, clientId : BOOLEAN, patterns : STRING, issuer : STRING, authorize : STRING,
               token : STRING, userInfo : STRING, emails : STRING, groups : STRING, scopes : SUBSET STRING, rule : BOOLEAN]
ASSUME SsoAssumption ==
    /\ Forms \subseteq FormFields
    /\ CacheTime \in Nat \ {0} /\ Cooldown \in Nat \ {0} /\ Timeout \in Nat /\ MaxIdpMoves \in Nat
    /\ {Unnamed, Unknown} \cap Kids = {}

VARIABLES stored,     \* {} or the one config of the host
          discovery,  \* {} or the document cached and its age
          jwks,       \* {} or the keys cached and their age
          asking,       \* where each request is
          doc, keys,  \* what the provider answers
          shown,      \* key -> how long every answer has had it
          gone,       \* key -> how long no answer has
          left,       \* document -> how long it has not been the provider's
          idpMoved
ssoVars == <<stored, discovery, jwks, asking, doc, keys, shown, gone, left, idpMoved>>
--------------------------------------------------------------------------------
(* From what was typed to a config.                                                               *)

Preset(mode, site, emails, groups, sufficient, scopes) ==
    [mode |-> mode, site |-> site, emails |-> emails, groups |-> groups, sufficient |-> sufficient, scopes |-> scopes]
OAuth2(site, emails, groups, sufficient, scopes) == Preset("oauth2", site, emails, groups, sufficient, scopes)
Oidc(site) == Preset("oidc", site, "", "", {}, {"openid", "profile", "email"})
NoPreset == Preset("", "", "", "", {}, {})
\* Some have an issuer of their own for each tenant: a placeholder.
Presets == [
    github |-> OAuth2("github", "github", "github", {"read:org", "user", "write:org", "admin:org"}, {"read:user", "user:email"}),
    gitlab |-> OAuth2("gitlab", "", "gitlab", {"read_api", "api"}, {"read_user"}),
    bitbucket |-> OAuth2("bitbucket", "bitbucket", "", {}, {"account", "email"}),
    google |-> Oidc("google"), microsoft |-> Oidc("<tenant>"), okta |-> Oidc("<domain>"),
    auth0 |-> Oidc("<tenant>"), keycloak |-> Oidc("<realm>")]

PresetFor(provider) == IF provider \in DOMAIN Presets THEN Presets[provider] ELSE NoPreset
Typed(typed, otherwise) == IF typed # "" THEN typed ELSE otherwise
Scoped(typed, otherwise) == IF typed # {} THEN typed ELSE otherwise
\* httpsURL: another spelling becomes the text of the table.
Respelled == [GITHUB |-> "github", GITLAB |-> "gitlab"]
Normal(url) == IF url \in DOMAIN Respelled THEN Respelled[url] ELSE url
Insecure == {"http", "not a url"}
Placeholders == {"<tenant>", "<domain>", "<realm>"}

ModeOf(form) == Typed(form.mode, Typed(PresetFor(form.provider).mode, "oidc"))
Url(form, part) == Typed(form[part], PresetFor(form.provider).site)
\* The emails and groups endpoints are the preset's only while the userinfo endpoint is.
Inherited(form, part, presets) ==
    Typed(form[part], IF Url(form, "userInfo") = PresetFor(form.provider).site THEN presets ELSE "")

\* ParseConfig: what is kept has the shape of what was typed, and is read back through the same.
ParseConfig(form) ==
    LET preset == PresetFor(form.provider)
        oidc == ModeOf(form) = "oidc"
        only(value, other) == IF oidc THEN value ELSE other
    IN  [form EXCEPT !.mode = ModeOf(form),
           !.provider = only(IF preset = NoPreset THEN "" ELSE @, Typed(@, "custom")),
           !.issuer = only(Normal(Url(form, "issuer")), ""),
           !.authorize = only("", Normal(Url(form, "authorize"))), !.token = only("", Normal(Url(form, "token"))),
           !.userInfo = only("", Normal(Url(form, "userInfo"))),
           !.emails = only("", Normal(Inherited(form, "emails", preset.emails))),
           !.groups = only("", Normal(Inherited(form, "groups", preset.groups))),
           !.scopes = Scoped(Scoped(@, preset.scopes), only({"openid", "profile", "email"}, {}))]

\* A group rule that no sign-in could meet is refused while somebody reads the sentence.
RuleIsAnswered(form) ==
    LET preset == PresetFor(form.provider)
        cfg == ParseConfig(form)
    IN  /\ preset.groups # "" /\ cfg.groups # ""
        /\ preset.sufficient # {} => cfg.scopes \cap preset.sufficient # {}
AcceptedForm(form) ==
    LET preset == PresetFor(form.provider)
        cfg == ParseConfig(form)
    IN  /\ form.provider \in {"", "custom"} \cup DOMAIN Presets
        /\ cfg.mode \in {"oidc", "oauth2"} /\ (preset = NoPreset \/ cfg.mode = preset.mode)
        /\ form.clientId /\ form.patterns # "malformed"
        /\ {cfg.issuer, cfg.authorize, cfg.token, cfg.userInfo, cfg.emails, cfg.groups} \cap Insecure = {}
        /\ IF cfg.mode = "oidc" THEN cfg.issuer \notin {""} \cup Placeholders /\ ~form.rule
           ELSE cfg.authorize # "" /\ cfg.token # "" /\ (form.rule => RuleIsAnswered(form))
--------------------------------------------------------------------------------
(* The two caches.                                                                                *)

SsoIdle == [at |-> "idle"]
Verdicts == {"in", "no key"}
Ready(c) == asking[c].at \in {"idle"} \cup Verdicts
Becomes(c, what) == asking' = [asking EXCEPT ![c] = what]
Provider == <<doc, keys, shown, gone, left, idpMoved>>
\* A sign-in that has its endpoints goes to exchange its code; a save carries what it will keep.
Endpoints(d) == [at |-> "exchange", doc |-> d]
SsoAsk(at, cfgs) == [at |-> at, wait |-> 0, saves |-> cfgs]

\* Discover for a sign-in: from the cache, if it is young.
Login(c) ==
    /\ Ready(c)
    /\ \E cfg \in stored :
         /\ cfg.mode = "oidc"
         /\ IF \E hit \in discovery : hit.age < CacheTime
            THEN \E hit \in discovery : Becomes(c, Endpoints(hit.doc))
            ELSE Becomes(c, SsoAsk("doc", {}))
    /\ UNCHANGED <<stored, discovery, jwks, Provider>>
\* PUT: what parses is tried at the provider, whatever the cache has, before it is kept.
Save(c, form) ==
    /\ Ready(c) /\ AcceptedForm(form)
    /\ LET cfg == ParseConfig(form)
       IN  Becomes(c, SsoAsk(IF cfg.mode = "oidc" THEN "doc" ELSE "put", {cfg}))
    /\ UNCHANGED <<stored, discovery, jwks, Provider>>

\* The answer is of the moment the provider gave it, and is kept when it has arrived.
AnswerDoc(c) ==
    /\ asking[c].at = "doc"
    /\ Becomes(c, [at |-> "docs", wait |-> asking[c].wait, saves |-> asking[c].saves, doc |-> doc])
    /\ UNCHANGED <<stored, discovery, jwks, Provider>>
StoreDoc(c) ==
    /\ asking[c].at = "docs" /\ discovery' = {[doc |-> asking[c].doc, age |-> 0]}
    /\ Becomes(c, IF asking[c].saves = {} THEN Endpoints(asking[c].doc) ELSE SsoAsk("put", asking[c].saves))
    /\ UNCHANGED <<stored, jwks, Provider>>
PutConfig(c) ==
    /\ asking[c].at = "put" /\ stored' = asking[c].saves /\ Becomes(c, [at |-> "forget"])
    /\ UNCHANGED <<discovery, jwks, Provider>>
ForgetCaches(c) ==
    /\ asking[c].at = "forget" /\ discovery' = {} /\ jwks' = {} /\ Becomes(c, SsoIdle)
    /\ UNCHANGED <<stored, Provider>>
\* DELETE forgets before the row is gone.
ForgetFirst(c) ==
    /\ Ready(c) /\ stored # {} /\ discovery' = {} /\ jwks' = {} /\ Becomes(c, [at |-> "delete"])
    /\ UNCHANGED <<stored, Provider>>
DeleteConfig(c) ==
    /\ asking[c].at = "delete" /\ stored' = {} /\ Becomes(c, SsoIdle)
    /\ UNCHANGED <<discovery, jwks, Provider>>

\* ExchangeCode: an id token of the issuer there is now, signed with a key of the provider, be it
\* one it has no more, and naming it, none or nobody's.
Tokens(c) == {[kid |-> named[1], signer |-> named[2], ours |-> doc = asking[c].doc] : named \in
                ({Unnamed} \X Kids) \cup {<<k, k>> : k \in Kids} \cup {<<Unknown, Unknown>>}}
Verifying(token, again) == [at |-> "verify", token |-> token, again |-> again]
Exchange(c) ==
    /\ asking[c].at = "exchange" /\ \E token \in Tokens(c) : Becomes(c, Verifying(token, FALSE))
    /\ UNCHANGED <<stored, discovery, jwks, Provider>>

\* pick, and the verdict over what it leaves: the signature, the issuer, and whether the token is
\* fit (its algorithm, audience and times). Keys that have not the kid are asked for once more.
Candidates(token, served) == IF token.kid = Unnamed THEN served ELSE served \cap {token.kid}
Verifies(token, served) == token.signer \in Candidates(token, served) /\ token.ours
TokenVerdict(v, served, fit) ==
    IF Candidates(v.token, served) = {} /\ ~v.again THEN Verifying(v.token, TRUE)
    ELSE IF v.token.signer \notin served THEN [at |-> "no key"]
    ELSE IF Verifies(v.token, served) /\ fit THEN [at |-> "in"] ELSE SsoIdle
MayUse_Forever(hit, again) == ~again \/ hit.age < Cooldown
MayUse(hit, again) == hit.age < CacheTime /\ (~again \/ hit.age < Cooldown)
FetchJwks(c) ==
    /\ asking[c].at = "verify"
    /\ IF \E hit \in jwks : MayUse(hit, asking[c].again)
       THEN \E hit \in jwks, fit \in BOOLEAN : Becomes(c, TokenVerdict(asking[c], hit.keys, fit))
       ELSE Becomes(c, [at |-> "keys", wait |-> 0, verify |-> asking[c]])
    /\ UNCHANGED <<stored, discovery, jwks, Provider>>
AnswerKeys(c) ==
    /\ asking[c].at = "keys"
    /\ Becomes(c, [at |-> "jwks", wait |-> asking[c].wait, verify |-> asking[c].verify, keys |-> keys])
    /\ UNCHANGED <<stored, discovery, jwks, Provider>>
\* A body that is no key set is one with no keys, and is kept like any.
AnswerJunk(c) ==
    /\ asking[c].at = "keys" /\ idpMoved < MaxIdpMoves /\ idpMoved' = idpMoved + 1
    /\ Becomes(c, [at |-> "jwks", wait |-> asking[c].wait, verify |-> asking[c].verify, keys |-> {}])
    /\ shown' = [k \in Kids |-> 0]
    /\ UNCHANGED <<stored, discovery, jwks, doc, keys, gone, left>>
StoreKeys(c) ==
    /\ asking[c].at = "jwks" /\ jwks' = {[keys |-> asking[c].keys, age |-> 0]}
    /\ \E fit \in BOOLEAN : Becomes(c, TokenVerdict(asking[c].verify, asking[c].keys, fit))
    /\ UNCHANGED <<stored, discovery, Provider>>
\* A request that fails leaves the caches as they are: nothing is kept of a failure.
Fails(c) ==
    /\ asking[c].at \in {"doc", "docs", "exchange", "keys", "jwks"} /\ Becomes(c, SsoIdle)
    /\ UNCHANGED <<stored, discovery, jwks, Provider>>
--------------------------------------------------------------------------------
(* The provider, and time: no request outlives its timeout.                                       *)

IdpMoves == idpMoved < MaxIdpMoves /\ idpMoved' = idpMoved + 1 /\ UNCHANGED <<stored, discovery, jwks, asking>>
Rotate(served) ==
    /\ IdpMoves /\ served \notin {keys, {}} /\ keys' = served
    /\ gone' = [k \in Kids |-> IF k \in served THEN 0 ELSE gone[k]]
    /\ shown' = [k \in Kids |-> IF k \in served THEN shown[k] ELSE 0]
    /\ UNCHANGED <<doc, left>>
MoveIdp(d) ==
    /\ IdpMoves /\ d # doc /\ doc' = d /\ left' = [left EXCEPT ![d] = 0]
    /\ UNCHANGED <<keys, shown, gone>>

Longest == IF CacheTime < Cooldown THEN Cooldown ELSE CacheTime
Oldest == Longest + Timeout
Older(age, most) == IF age < most THEN age + 1 ELSE age
SsoTick ==
    /\ \A c \in SsoCallers : asking[c].at \in {"doc", "docs", "keys", "jwks"} => asking[c].wait < Timeout
    /\ asking' = [c \in SsoCallers |->
         IF asking[c].at \in {"doc", "docs", "keys", "jwks"} THEN [asking[c] EXCEPT !.wait = @ + 1] ELSE asking[c]]
    /\ discovery' = {[hit EXCEPT !.age = Older(@, Longest)] : hit \in discovery}
    /\ jwks' = {[hit EXCEPT !.age = Older(@, Longest)] : hit \in jwks}
    /\ shown' = [k \in Kids |-> IF k \in keys THEN Older(shown[k], Oldest) ELSE 0]
    /\ gone' = [k \in Kids |-> IF k \in keys THEN 0 ELSE Older(gone[k], Oldest)]
    /\ left' = [d \in Docs |-> IF d = doc THEN 0 ELSE Older(left[d], Oldest)]
    /\ UNCHANGED <<stored, doc, keys, idpMoved>>

SsoInit ==
    /\ stored = {} /\ discovery = {} /\ jwks = {} /\ asking = [c \in SsoCallers |-> SsoIdle] /\ idpMoved = 0
    /\ doc \in Docs /\ \E k \in Kids : keys = {k}
    /\ shown = [k \in Kids |-> IF k \in keys THEN Oldest ELSE 0]
    /\ gone = [k \in Kids |-> IF k \in keys THEN 0 ELSE Oldest]
    /\ left = [d \in Docs |-> IF d = doc THEN 0 ELSE Oldest]
SsoNext ==
    \/ \E c \in SsoCallers :
         \/ Login(c) \/ AnswerDoc(c) \/ StoreDoc(c) \/ PutConfig(c) \/ ForgetCaches(c) \/ ForgetFirst(c) \/ DeleteConfig(c)
         \/ Exchange(c) \/ FetchJwks(c) \/ AnswerKeys(c) \/ AnswerJunk(c) \/ StoreKeys(c) \/ Fails(c)
         \/ \E form \in Forms : Save(c, form)
    \/ \E served \in SUBSET Kids : Rotate(served)
    \/ \E d \in Docs : MoveIdp(d)
    \/ SsoTick
SsoSpec == SsoInit /\ [][SsoNext]_ssoVars
--------------------------------------------------------------------------------
(* What a host may rely on of what it keeps.                                                      *)

SsoTypeOK ==
    /\ Cardinality(stored) <= 1 /\ Cardinality(discovery) <= 1 /\ Cardinality(jwks) <= 1
    /\ \A hit \in discovery : hit.doc \in Docs /\ hit.age \in 0 .. Longest
    /\ \A hit \in jwks : hit.keys \subseteq Kids /\ hit.age \in 0 .. Longest
    /\ keys \subseteq Kids /\ doc \in Docs /\ idpMoved \in 0 .. MaxIdpMoves
    /\ \A k \in Kids : shown[k] \in 0 .. Oldest /\ gone[k] \in 0 .. Oldest

\* The row is parsed again at every read (auth.go:591-604) and a row that does not validate is
\* skipped: what was accepted is accepted again, and says what it said, but for the endpoints of
\* the preset it turned out to be of.
ReadsBack ==
    \A cfg \in stored :
      /\ AcceptedForm(cfg)
      /\ LET read == ParseConfig(cfg)
         IN  \A part \in DOMAIN cfg : read[part] = cfg[part] \/ (part \in {"emails", "groups"} /\ cfg[part] = "")

\* Nobody's access token goes to the preset's site when the operator moved the provider to one of
\* their own and typed nothing that says otherwise (sso.go:637-650).
TokensStayHome ==
    \A cfg \in stored :
      cfg.userInfo = "own" => \A part \in {"emails", "groups"} : cfg[part] \in {"", "own"}

OnBehalf(c) == IF asking[c].at = "jwks" THEN asking[c].verify ELSE asking[c]
SsoJudged(c, verdict) == asking[c].at \in {"verify", "jwks"} /\ asking'[c].at = verdict
\* A rotation heals: a token signed by a key is not refused for want of it once every answer has had
\* the key for as long as a refetch is refused, or, for a token that names none, as long as the
\* cache is trusted, and one request (client.go:62-66, 612-619).
RotationHeals ==
    [][\A c \in SsoCallers, k \in Kids :
         SsoJudged(c, "no key") /\ OnBehalf(c).token.signer = k /\ OnBehalf(c).token.kid # Unknown =>
           shown[k] < (IF OnBehalf(c).token.kid = Unnamed \/ CacheTime < Cooldown THEN CacheTime ELSE Cooldown) + Timeout
       ]_ssoVars

\* And lapses: nobody signs in with a key, or is sent to endpoints, that the provider left longer
\* ago than a cache is trusted and one request (client.go:57-60), whatever slow answer is kept late.
LeftLapses ==
    [][\A c \in SsoCallers :
         /\ SsoJudged(c, "in") => gone[OnBehalf(c).token.signer] < CacheTime + Timeout
         /\ asking[c].at # "exchange" /\ asking'[c].at = "exchange" => left[asking'[c].doc] < CacheTime + Timeout
       ]_ssoVars

SsoSafety == [](ReadsBack /\ TokensStayHome) /\ RotationHeals /\ LeftLapses
================================================================================
