----------------------------- MODULE Networking -----------------------------
(***************************************************************************)
(* What becomes of a packet while a full or a split tunnel is up: from the *)
(* profile and the dashboard's setting, through start_full_tunnel's        *)
(* listeners and ApplySpec and the helper's nftables table, to the         *)
(* intercept that takes the packet.                                        *)
(*                                                                         *)
(* A packet is one that opens a flow: family, kind and class of its        *)
(* destination.  The classes are disjoint; an address of the server or of  *)
(* a bypass network exists in the families that the specification lists.   *)
(* "server" is the endpoint that the session is connected to, "api" the    *)
(* host that gives a Smart Config profile its endpoint.                    *)
(***************************************************************************)
EXTENDS Naturals, Sequences, FiniteSetsExt

CONSTANT Profiles  \* profiles that are connected, each with the dashboard's setting

Fams == {"v4", "v6"}
Packets == [fam : Fams,
            kind : {"tcp", "dns", "udp", "other"},  \* dns: UDP to port 53
            to : {"lo", "tun", "server", "api", "private", "split", "public"}]

\* A connected profile: what ConnectionConfig, the dashboard's setting and the
\* resolution of its host say about packets.
ASSUME NetworkingAssumption ==
    Profiles \subseteq
      [protocol : STRING, host : {"server", "api"}, dns : STRING, resolvers : SUBSET STRING,
       mode : {"proxy", "full", "split"}, servers : SUBSET Fams, private : BOOLEAN,
       extra : SUBSET Fams, ipv6 : BOOLEAN, kill : BOOLEAN, udpgw : BOOLEAN]

VARIABLES
    profile,  \* the profile that is connected
    step,     \* the point start_full_tunnel and Apply have reached
    udpgw,    \* the UDPGW client runs
    bound,    \* the intercept sockets that are read: <<kind, family>>
    cmsg,     \* families whose UDP socket is told the address before the redirect
    spec,     \* ApplySpec
    table     \* table inet easy: its two chains

netVars == <<profile, step, udpgw, bound, cmsg, spec, table>>

NoSpec == [host |-> "none", servers |-> {}, private |-> FALSE, extra |-> {}, ipv6 |-> FALSE, kill |-> FALSE,
           udp |-> FALSE, resolvers |-> {}]
NoTable == [nat |-> <<>>, filter |-> <<>>]

NetInit ==
    /\ profile \in Profiles
    /\ step = "idle"
    /\ udpgw = FALSE
    /\ bound = {}
    /\ cmsg = {}
    /\ spec = NoSpec
    /\ table = NoTable

-----------------------------------------------------------------------------
(* AppController::connect and start_full_tunnel.                           *)

\* effective_policy: in a tunnel the system's resolver gives way
EffectivePolicy(tunnel, configured) ==
    IF tunnel /\ configured = "system" THEN "tunnel" ELSE configured

\* resolve_servers: the configured ones, else the defaults
ResolveServers(policy, configured) ==
    CASE policy = "system" -> {}
      [] policy # "system" /\ configured # {} -> configured
      [] OTHER -> {"default"}

\* Stopping the intercepts: the token is cancelled or the last owner is gone.
StopIntercepts ==
    /\ bound' = {}
    /\ cmsg' = {}
    /\ udpgw' = FALSE

\* Mutant of SessionHost: the profile keeps the host of the config API.
SessionHostApi(p) == p

\* After open_upstream the endpoint of the session replaces the profile's host.
SessionHost(p) == [p EXCEPT !.host = "server"]

\* The dashboard's setting has replaced the profile's routing mode.  Without a
\* tunnel nothing more happens.
ConnectProfile ==
    /\ step = "idle"
    /\ profile' = SessionHost(profile)
    /\ step' = IF profile.mode = "proxy" THEN "proxy" ELSE "bind"
    /\ UNCHANGED <<udpgw, bound, cmsg, spec, table>>

\* The helper, the server's addresses and the IPv4 sockets for TCP and DNS:
\* without them there is no tunnel.
BindRequired ==
    /\ step = "bind"
    /\ \/ bound = {} /\ bound' = {<<"tcp", "v4">>, <<"dns", "v4">>} /\ step' = "udpgw"
       \/ step' = "failed" /\ UNCHANGED bound
    /\ UNCHANGED <<profile, udpgw, cmsg, spec, table>>

\* start_udpgw_client, for SSH only; disabled or unreachable is no error
StartUdpgw ==
    /\ step = "udpgw"
    /\ udpgw' \in {FALSE, profile.udpgw /\ profile.protocol = "ssh"}
    /\ step' = "optional"
    /\ UNCHANGED <<profile, bound, cmsg, spec, table>>

\* The IPv6 sockets and those for UDP: one that cannot be bound is only warned
\* about.  Which destination the kernel reports for UDP is left open.
BindOptional ==
    /\ step = "optional"
    /\ LET wanted == {<<k, "v6">> : k \in IF profile.ipv6 THEN {"tcp", "dns"} ELSE {}}
                     \cup {<<"udp", f>> : f \in IF ~udpgw THEN {} ELSE
                                               IF profile.ipv6 THEN Fams ELSE {"v4"}}
       IN  \E some \in SUBSET wanted : bound' = bound \cup some
    /\ cmsg' \in SUBSET {f \in Fams : <<"udp", f>> \in bound'}
    /\ step' = "spec"
    /\ UNCHANGED <<profile, udpgw, spec, table>>

\* ApplySpec
MakeSpec ==
    /\ step = "spec"
    /\ spec' = [host |-> profile.host,
                servers |-> profile.servers,
                private |-> profile.private \/ profile.mode = "split",
                extra |-> profile.extra,
                ipv6 |-> profile.ipv6,
                kill |-> profile.kill,
                udp |-> udpgw,
                resolvers |-> ResolveServers(EffectivePolicy(TRUE, profile.dns), profile.resolvers)]
    /\ step' = "apply"
    /\ UNCHANGED <<profile, udpgw, bound, cmsg, table>>

-----------------------------------------------------------------------------
(* The helper: validate and render_table.                                  *)

\* The servers are those resolve_server_ips found; the rest are constants.
Validate == spec.servers # {}

\* A rule is the set of packets it matches and its verdict; the first match
\* decides, and the policy of both chains is accept.
Rule(match, verdict) == [match |-> match, do |-> verdict]
To(class, fams) == {p \in Packets : p.to = class /\ p.fam \in fams}
Kinds(kinds, fams) == {p \in Packets : p.kind \in kinds /\ p.fam \in fams}

\* What both chains let through: loopback, the TUN, the server, the bypass.
Exempt(s, verdict) ==
    <<Rule(To("lo", Fams), verdict), Rule(To("tun", Fams), verdict),
      Rule(To(s.host, s.servers), verdict), Rule(To("split", s.extra), verdict),
      Rule(To("private", IF s.private THEN Fams ELSE {}), verdict)>>

\* Mutant of NatChain: TCP and UDP first, then the exceptions.
NatChainFirst(s) ==
    <<Rule(Kinds({"tcp"}, Fams), "tcp")>> \o Exempt(s, "accept")
      \o <<Rule(Kinds({"dns"}, Fams), "dns"), Rule(Kinds({"udp"}, IF s.udp THEN Fams ELSE {}), "udp")>>

\* `ip protocol` matches IPv4 only, `meta l4proto` both families.
NatChain(s) ==
    LET fams == IF s.ipv6 THEN Fams ELSE {"v4"} IN
    Exempt(s, "accept")
      \o <<Rule(Kinds({"dns"}, fams), "dns"), Rule(Kinds({"tcp"}, fams), "tcp")>>
      \o IF s.udp THEN <<Rule(Kinds({"udp", "dns"}, fams), "udp")>> ELSE <<>>

FilterChain(s) ==
    Exempt(s, "accept")
      \o (IF s.ipv6 THEN <<>> ELSE <<Rule({p \in Packets : p.fam = "v6"}, "reject")>>)
      \o (IF s.udp THEN <<>> ELSE <<Rule(Kinds({"udp", "dns"}, Fams), "reject")>>)
      \o (IF s.kill THEN <<Rule(Packets, "reject")>> ELSE <<>>)

RenderTable(s) == [nat |-> NatChain(s), filter |-> FilterChain(s)]

\* The rules are loaded at once, or the tunnel does not come up.
Apply ==
    /\ step = "apply"
    /\ \/ Validate /\ table' = RenderTable(spec) /\ step' = "tun" /\ UNCHANGED <<spec, bound, cmsg, udpgw>>
       \/ step' = "failed" /\ StopIntercepts /\ spec' = NoSpec /\ UNCHANGED table
    /\ UNCHANGED profile

\* TunIo::from_owned_fd: an error returns without cancelling the intercepts,
\* which then keep their ports; dropping the client makes the helper restore.
OpenTun ==
    /\ step = "tun"
    /\ \/ step' = "up" /\ UNCHANGED table
       \/ step' = "abandoned" /\ table' = NoTable
    /\ UNCHANGED <<profile, udpgw, bound, cmsg, spec>>

\* The user connects again after an error.
Retry ==
    /\ step = "failed"
    /\ step' = "idle"
    /\ UNCHANGED <<profile, udpgw, bound, cmsg, spec, table>>

\* accept or recv fails: the loop of an intercept ends and its socket closes,
\* while the rules stay.
InterceptEnds ==
    /\ step \in {"tun", "up"}
    /\ \E l \in bound : bound' = bound \ {l}
    /\ UNCHANGED <<profile, step, udpgw, cmsg, spec, table>>

NetNext ==
    \/ ConnectProfile \/ BindRequired \/ StartUdpgw \/ BindOptional \/ MakeSpec \/ Apply
    \/ OpenTun \/ Retry \/ InterceptEnds

NetSpec == NetInit /\ [][NetNext]_netVars

-----------------------------------------------------------------------------
(* The path of a packet.                                                   *)

Verdict(chain, p) ==
    LET hits == {i \in DOMAIN chain : p \in chain[i].match}
    IN  IF hits = {} THEN "accept" ELSE chain[Min(hits)].do

\* output_nat at priority -100 comes first; what it redirects is then a packet
\* to the loopback address and passes output_filter at priority 0.
Path(p) ==
    LET nat == Verdict(table.nat, p)
        filter == Verdict(table.filter, IF nat = "accept" THEN p ELSE [p EXCEPT !.to = "lo"])
    IN  IF filter = "reject" THEN "reject" ELSE IF nat = "accept" THEN "direct" ELSE nat

\* Where run_udp_intercept takes a datagram to be going: the address of the
\* control message, which may be the one that REDIRECT put into the packet.
RecvUdpOrigdst(p) == IF p.fam \in cmsg THEN p ELSE [p EXCEPT !.to = "lo"]

\* Mutant of Fate: the datagram for the loopback address is sent.
FateLoops(p) ==
    LET path == Path(p) IN
    CASE path \in {"direct", "reject"} -> path
      [] path \notin {"direct", "reject"} /\ <<path, p.fam>> \notin bound -> "refused"
      [] OTHER -> "tunnel"

\* run_udp_intercept drops a datagram that seems to be for the loopback address.
Fate(p) ==
    LET path == Path(p) IN
    CASE path \in {"direct", "reject"} -> path
      [] path \notin {"direct", "reject"} /\ <<path, p.fam>> \notin bound -> "refused"
      [] path = "udp" /\ <<path, p.fam>> \in bound /\ RecvUdpOrigdst(p).to = "lo" -> "dropped"
      [] OTHER -> "tunnel"

-----------------------------------------------------------------------------
(* Properties.                                                             *)

Bypassed(p) ==
    \/ p.to \in {"lo", "tun"}
    \/ p.to = profile.host /\ p.fam \in profile.servers
    \/ p.to = "split" /\ p.fam \in profile.extra
    \/ p.to = "private" /\ (profile.private \/ profile.mode = "split")

\* What NETWORKING.md says render_table does, for every packet and profile, and
\* whichever sockets are missing: TCP and DNS go to the intercepts, other UDP
\* too when UDPGW is connected and else is rejected, IPv6 is rejected when the
\* profile has it off, and with the kill switch nothing else leaves.  This
\* depends on the order of the rules in both chains and on what the redirect
\* makes of a packet.
RulesMatchPolicy ==
    table # NoTable => \A p \in Packets :
      Path(p) = CASE Bypassed(p) -> "direct"
                  [] ~Bypassed(p) /\ p.fam = "v6" /\ ~profile.ipv6 -> "reject"
                  [] ~Bypassed(p) /\ (p.fam = "v4" \/ profile.ipv6) ->
                       CASE p.kind \in {"tcp", "dns"} -> p.kind
                         [] p.kind = "udp" -> IF udpgw THEN "udp" ELSE "reject"
                         [] p.kind = "other" -> IF profile.kill THEN "reject" ELSE "direct"

\* The tunnel does not swallow itself: packets to the endpoint that the session
\* is connected to leave directly, for a Smart Config profile too, whose own
\* host is another one.
EndpointIsExempt ==
    table # NoTable => \A p \in Packets :
      p.to = "server" /\ p.fam \in profile.servers => Path(p) = "direct"

\* A datagram that UDPGW carries goes where the application sent it, and a DNS
\* query that is intercepted finds a server to ask, whatever the profile's DNS
\* mode: effective_policy never leaves the intercept without one.
TunnelledIsAimed ==
    table # NoTable => \A p \in Packets :
      /\ Fate(p) = "tunnel" /\ Path(p) = "udp" => RecvUdpOrigdst(p) = p
      /\ Fate(p) = "tunnel" /\ Path(p) = "dns" => spec.resolvers # {}

=============================================================================
