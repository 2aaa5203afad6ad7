---- MODULE MCControlPlane ----
EXTENDS ControlPlaneProps

Ask(typed, given, force) ==
    [typed |-> typed, token |-> given, dns |-> given, loki |-> given, force |-> force, sized |-> "ui" \in DOMAIN typed]
MCAsks == {
    Ask([challenge |-> "http01"], FALSE, FALSE),
    Ask([challenge |-> "dns01", provider |-> "cloudflare"], TRUE, FALSE),
    Ask([ui |-> "advanced"], TRUE, FALSE),
    Ask([orch |-> "compose", logging |-> "loki"], TRUE, FALSE),
    Ask([logging |-> "none", challenge |-> "http01"], TRUE, TRUE)}
====
