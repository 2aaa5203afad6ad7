-------------------------------- MODULE SpecFile --------------------------------
(* What a spec resolves to: spec.Parse and its subdomains (spec/spec.go, spec/subdomains.go), as a *)
(* function of the text, the environment it is read in and the variables of the host. A scalar is *)
(* a sequence of pieces, words and references; a value is a sequence of words, <<>> being "". A   *)
(* word ends at a dash, an underscore or a dot and between letters and digits, so that            *)
(* <<"1", "h", "30", "m">> is 1h30m. YAML itself and the wording of errors and warnings are left  *)
(* out; durations are in seconds, without spaces around them, and have no ceiling.                *)
EXTENDS Integers, Sequences
CONSTANTS VarNames,    \* of variables
          PlainWords,  \* words of [a-z0-9] alone
          OtherWords,  \* any others
          Capital,     \* word -> the word in capitals
          Digits       \* the words that are numbers -> what they say
CONSTANTS NotThere,    \* a key that is not there
          Malformed,   \* a value of a type that is refused: null, a list where a mapping belongs, ...
          NoHost       \* no control plane: the bare command line

Marks == {"-", "_"}
Words == PlainWords \cup OtherWords \cup Marks
Values == Seq(Words)
Environments == UNION {[names -> Values] : names \in SUBSET VarNames}
Hosts == [vars : Environments, secrets : Environments] \cup {NoHost}

ASSUME SpecAssumption ==
    /\ Marks \cap (PlainWords \cup OtherWords) = {} /\ PlainWords \cap OtherWords = {}
    /\ Capital \in [PlainWords \cup OtherWords -> PlainWords \cup OtherWords]
    /\ DOMAIN Digits \subseteq PlainWords /\ \A w \in DOMAIN Digits : Digits[w] \in Nat

Pieces == ({"word"} \X Words) \cup ({"env", "vars", "secrets"} \X VarNames)
Texts == Seq(Pieces)
Scalars == Texts \cup {NotThere, Malformed}

--------------------------------------------------------------------------------
(* Interpolation. An unknown variable and an empty one are errors alike.                          *)

\* What a piece stands for, <<>> when it stands for nothing.
Lookup(name, env) == IF name \in DOMAIN env THEN env[name] ELSE <<>>
Meaning(piece, env, host) ==
    IF piece[1] = "word" THEN <<piece[2]>> ELSE IF piece[1] = "env" THEN Lookup(piece[2], env)
    ELSE IF host = NoHost THEN <<>> ELSE Lookup(piece[2], IF piece[1] = "vars" THEN host.vars ELSE host.secrets)
Fills(text, env, host) == \A i \in DOMAIN text : Meaning(text[i], env, host) # <<>>
Filled(text, env, host) ==
    LET upTo[i \in 0 .. Len(text)] == IF i = 0 THEN <<>> ELSE upTo[i - 1] \o Meaning(text[i], env, host)
    IN  upTo[Len(text)]

\* A scalar field that is refused, one that may be left out, one that may not; and what it says.
Reads(field, env, host) == field = NotThere \/ (field # Malformed /\ Fills(field, env, host))
Required(field, env, host) == field # NotThere /\ Reads(field, env, host)
Says(field, env, host) == IF field = NotThere THEN <<>> ELSE Filled(field, env, host)
EntriesOf(list) == IF list = NotThere THEN <<>> ELSE list
ReadsAll(list, env, host) ==
    list # Malformed /\ \A i \in DOMAIN EntriesOf(list) : Required(EntriesOf(list)[i], env, host)
AllSay(list, env, host) == [i \in DOMAIN EntriesOf(list) |-> Filled(EntriesOf(list)[i], env, host)]

--------------------------------------------------------------------------------
(* The environment: the ambient one, then the spec's own entry by entry, then the name it gives.  *)

Bind(env, name, value) == [n \in DOMAIN env \cup {name} |-> IF n = name THEN value ELSE env[n]]
Layers(entries, base, host) ==
    LET upTo[i \in 0 .. Len(entries)] ==
          IF i = 0 THEN base ELSE Bind(upTo[i - 1], entries[i].name, Filled(entries[i].value, upTo[i - 1], host))
    IN  upTo
EnvReads(raw, base, host) ==
    /\ raw.env # Malformed
    /\ LET entries == EntriesOf(raw.env)
       IN  \A i \in DOMAIN entries : Required(entries[i].value, Layers(entries, base, host)[i - 1], host)
Layered(raw, base, host) == Layers(EntriesOf(raw.env), base, host)[Len(EntriesOf(raw.env))]
Declared(raw) == {EntriesOf(raw.env)[i].name : i \in DOMAIN EntriesOf(raw.env)}

\* The name is identity: it is in every log line, and a secret may not be referred to in it.
Slug(value) == value # <<>> /\ value[1] \in PlainWords /\ \A i \in DOMAIN value : value[i] \in PlainWords \cup Marks
StackReads(raw, env, host) ==
    /\ Required(raw.stack, env, host)
    /\ \A i \in DOMAIN raw.stack : raw.stack[i][1] # "secrets"
    /\ Slug(Filled(raw.stack, env, host))
Variables(raw, base, host) ==
    LET env == Layered(raw, base, host) IN Bind(env, "STACK", Filled(raw.stack, env, host))

--------------------------------------------------------------------------------
(* compose: and its wildcards.                                                                    *)

Orchestrator(compose, env, host) ==
    IF compose.orchestrator # NotThere THEN Filled(compose.orchestrator, env, host)
    ELSE IF Lookup("PSTACK_ORCHESTRATOR", env) = <<>> THEN <<"compose">> ELSE env["PSTACK_ORCHESTRATOR"]
\* What is declared comes before what is ambient, and "" is an answer too.
PreviewDomain(env, declared) ==
    IF "PREVIEW_DOMAIN" \in declared THEN env["PREVIEW_DOMAIN"] ELSE IF "DOMAIN" \in declared THEN env["DOMAIN"]
    ELSE IF "PREVIEW_DOMAIN" \in DOMAIN env THEN env["PREVIEW_DOMAIN"] ELSE Lookup("DOMAIN", env)

\* PSTACK_WILD_<PROFILE>: capitals, and a dash is an underscore.
SubdomainVarName(profile) == [i \in DOMAIN profile |-> IF profile[i] \in Marks THEN "_" ELSE Capital[profile[i]]]
\* An entry is a profile, of a list or as the key of a mapping, with a depth and a host. It is read
\* without the variables of the host.
SubdomainsRead(compose, env) ==
    /\ compose.subdomains # Malformed
    /\ \A i \in DOMAIN EntriesOf(compose.subdomains) :
         LET entry == EntriesOf(compose.subdomains)[i]
         IN  entry # Malformed /\ Fills(entry.profile, env, NoHost) /\ Reads(entry.host, env, NoHost)
             /\ entry.depth \in {NotThere, "one", "any"} /\ ~entry.unknown
Wildcards(compose, env, name, domain) ==
    LET entries == EntriesOf(compose.subdomains)
    IN  [i \in DOMAIN entries |->
           LET profile == Filled(entries[i].profile, env, NoHost)
           IN  [profile |-> profile, varName |-> SubdomainVarName(profile),
                depth |-> IF entries[i].depth = NotThere THEN "one" ELSE entries[i].depth,
                host |-> IF entries[i].host = NotThere THEN profile \o <<"-">> \o name \o <<".">> \o domain
                         ELSE Filled(entries[i].host, env, NoHost)]]
\* One rule never overwrites another, and each is of a profile that is started.
SubdomainsResolve(routes, profiles, domain) ==
    routes # <<>> =>
      /\ domain # <<>>
      /\ \A i \in DOMAIN routes :
           /\ \E k \in DOMAIN profiles : profiles[k] = routes[i].profile
           /\ \A j \in 1 .. i - 1 : routes[j].varName # routes[i].varName

ComposeReads(raw, env, host, domain) ==
    raw.compose # NotThere =>
      /\ raw.compose # Malformed
      /\ Required(raw.compose.file, env, host) /\ Reads(raw.compose.orchestrator, env, host)
      /\ ReadsAll(raw.compose.profiles, env, host) /\ ReadsAll(raw.compose.overlays, env, host)
      /\ Orchestrator(raw.compose, env, host) \in {<<"compose">>, <<"swarm">>}
      /\ SubdomainsRead(raw.compose, env)
      /\ SubdomainsResolve(Wildcards(raw.compose, env, env["STACK"], domain), AllSay(raw.compose.profiles, env, host), domain)
ComposeOf(raw, env, host, domain) ==
    IF raw.compose = NotThere THEN NotThere
    ELSE [file |-> Filled(raw.compose.file, env, host), orchestrator |-> Orchestrator(raw.compose, env, host)[1],
          profiles |-> AllSay(raw.compose.profiles, env, host), overlays |-> AllSay(raw.compose.overlays, env, host),
          subdomains |-> Wildcards(raw.compose, env, env["STACK"], domain)]

--------------------------------------------------------------------------------
(* sleep: durations are pairs of a number and a unit; a bare number is none.                      *)

Units == [s |-> 1, m |-> 60, h |-> 3600, d |-> 86400]
IsDuration(value) ==
    /\ value # <<>> /\ Len(value) % 2 = 0
    /\ \A i \in DOMAIN value : IF i % 2 = 1 THEN value[i] \in DOMAIN Digits ELSE value[i] \in DOMAIN Units
ParseDuration(value) ==
    LET upTo[k \in 0 .. Len(value) \div 2] ==
          IF k = 0 THEN 0 ELSE upTo[k - 1] + Digits[value[2 * k - 1]] * Units[value[2 * k]]
    IN  IF IsDuration(value) THEN upTo[Len(value) \div 2] ELSE 0
DurationReads(field, env, host) ==
    Reads(field, env, host) /\ (field = NotThere \/ ParseDuration(Filled(field, env, host)) > 0)
Span(field, env, host) == IF field = NotThere THEN 0 ELSE ParseDuration(Filled(field, env, host))
SleepReads(raw, env, host) ==
    raw.sleep # NotThere =>
      /\ raw.sleep # Malformed /\ ~raw.sleep.unknown
      /\ DurationReads(raw.sleep.idle, env, host) /\ DurationReads(raw.sleep.after, env, host)
      /\ raw.sleep.idle # NotThere \/ raw.sleep.after # NotThere
SleepOf(raw, env, host) ==
    IF raw.sleep = NotThere THEN NotThere
    ELSE [idle |-> Span(raw.sleep.idle, env, host), after |-> Span(raw.sleep.after, env, host)]

--------------------------------------------------------------------------------
(* requires: and axes:, whose names are not interpolated. A null name is no name.                 *)

HasName(entry) == entry # Malformed /\ entry.name \notin {<<>>, Malformed}
RequiresRead(raw, env, host) ==
    /\ raw.requires # Malformed
    /\ \A i \in DOMAIN EntriesOf(raw.requires) :
         LET r == EntriesOf(raw.requires)[i]
         IN  HasName(r) /\ Required(r.assert, env, host) /\ Reads(r.hint, env, host)
RequiresOf(raw, env, host) ==
    [i \in DOMAIN EntriesOf(raw.requires) |->
       LET r == EntriesOf(raw.requires)[i]
       IN  [name |-> r.name, assert |-> Filled(r.assert, env, host), hint |-> Says(r.hint, env, host)]]

AxisHooks == {"up", "down", "assert_gone", "assert_live"}
\* A hook that says nothing is not there.
HooksOf(axis, env, host) == {k \in AxisHooks : Says(axis[k], env, host) # <<>>}
AxesRead(raw, env, host) ==
    /\ raw.axes # Malformed
    /\ LET axes == EntriesOf(raw.axes)
       IN  \A i \in DOMAIN axes :
             /\ HasName(axes[i]) /\ \A j \in 1 .. i - 1 : axes[j].name # axes[i].name
             /\ \A k \in AxisHooks : Reads(axes[i][k], env, host)
             /\ HooksOf(axes[i], env, host) # {}
AxesOf(raw, env, host) ==
    [i \in DOMAIN EntriesOf(raw.axes) |->
       LET axis == EntriesOf(raw.axes)[i] IN [name |-> axis.name, hooks |-> HooksOf(axis, env, host)]]

--------------------------------------------------------------------------------
KindOf(raw) == IF raw.kind = NotThere THEN "isolated" ELSE raw.kind
\* Parse: what is refused, and what the rest resolves to.
Parses(raw, base, host) ==
    LET env == Variables(raw, base, host)
        domain == PreviewDomain(env, Declared(raw))
    IN  /\ raw.version \in {NotThere, 1} /\ KindOf(raw) \in {"shared", "isolated"}
        /\ EnvReads(raw, base, host) /\ StackReads(raw, Layered(raw, base, host), host)
        /\ ComposeReads(raw, env, host, domain) /\ SleepReads(raw, env, host)
        /\ RequiresRead(raw, env, host) /\ AxesRead(raw, env, host)
        /\ KindOf(raw) = "shared" => EntriesOf(raw.axes) = <<>>
Parse(raw, base, host) ==
    LET env == Variables(raw, base, host)
    IN  [kind |-> KindOf(raw), stack |-> env["STACK"], env |-> env, declared |-> Declared(raw),
         compose |-> ComposeOf(raw, env, host, PreviewDomain(env, Declared(raw))), sleep |-> SleepOf(raw, env, host),
         requires |-> RequiresOf(raw, env, host), axes |-> AxesOf(raw, env, host)]

\* What the rest of the program takes a stack to be.
SoundSpec(s) ==
    /\ Slug(s.stack) /\ s.env["STACK"] = s.stack /\ s.kind \in {"shared", "isolated"}
    /\ s.kind = "shared" => s.axes = <<>>
    /\ \A i \in DOMAIN s.axes : s.axes[i].hooks # {} /\ s.axes[i].hooks \subseteq AxisHooks
    /\ \A i, j \in DOMAIN s.axes : s.axes[i].name = s.axes[j].name => i = j
    /\ s.sleep # NotThere => s.sleep.idle > 0 \/ s.sleep.after > 0
    /\ s.compose # NotThere =>
         LET routes == s.compose.subdomains
         IN  /\ \A i \in DOMAIN routes : \E k \in DOMAIN s.compose.profiles : s.compose.profiles[k] = routes[i].profile
             /\ \A i, j \in DOMAIN routes : routes[i].varName = routes[j].varName => i = j
\* What an operation on the stack walks over (stack/stack.go); whether its services log is the host's.
Resolved(st, logged) ==
    [requires |-> Len(st.requires), axes |-> [i \in DOMAIN st.axes |-> st.axes[i].hooks], compose |-> st.compose # NotThere,
     swarm |-> st.compose # NotThere /\ st.compose.orchestrator = "swarm", logged |-> logged, shared |-> st.kind = "shared"]
================================================================================
