----------------------------- MODULE MCUpstream -----------------------------
(***************************************************************************)
(* An instance of Upstream for TLC: two callers, one permit, and profiles  *)
(* that between them take every path.                                      *)
(***************************************************************************)
EXTENDS Upstream

CONSTANTS a, b

P(protocol, smart, zone, transport, policy, auth) ==
    [protocol |-> protocol, smart |-> smart, zone |-> zone, transport |-> transport,
     policy |-> policy, auth |-> auth]

MCProfiles ==
    {P("ssh", FALSE, FALSE, "direct", "tofu", "password"), P("ssh", FALSE, FALSE, "direct", "ask", "agent"),
     P("ssh", FALSE, FALSE, "wss", "strict", "key"), P("ssh", FALSE, TRUE, "tls", "tofu", "password"),
     P("ssh", TRUE, FALSE, "direct", "tofu", "none"), P("shadowsocks", FALSE, FALSE, "ws", "strict", "password"),
     P("vless", FALSE, FALSE, "direct", "strict", "none")}
MCHosts == <<[http |-> TRUE, https |-> TRUE], [http |-> FALSE, https |-> TRUE]>>
MCKeys == {[alg |-> "ed25519", id |-> 1], [alg |-> "ed25519", id |-> 2], [alg |-> "rsa", id |-> 3]}
=============================================================================
