---------------------------- MODULE MCNetworking ----------------------------
(***************************************************************************)
(* Networking with every profile there is, up to the names of servers.     *)
(***************************************************************************)
EXTENDS Networking

Dns == {[dns |-> "system", resolvers |-> {}], [dns |-> "system", resolvers |-> {"custom"}],
        [dns |-> "tunnel", resolvers |-> {}], [dns |-> "custom", resolvers |-> {"custom"}]}
Upstreams == {[protocol |-> "ssh", host |-> "server"], [protocol |-> "ssh", host |-> "api"],
              [protocol |-> "shadowsocks", host |-> "server"]}

AllProfiles ==
    {[protocol |-> u.protocol, host |-> u.host, dns |-> d.dns, resolvers |-> d.resolvers,
      mode |-> r.mode, servers |-> r.servers, private |-> r.private, extra |-> r.extra,
      ipv6 |-> r.ipv6, kill |-> r.kill, udpgw |-> r.udpgw] :
        u \in Upstreams, d \in Dns,
        r \in [mode : {"proxy", "full", "split"}, servers : {{"v4"}, {"v4", "v6"}},
              private : BOOLEAN, extra : {{}, {"v4", "v6"}}, ipv6 : BOOLEAN, kill : BOOLEAN,
              udpgw : BOOLEAN]}
=============================================================================
