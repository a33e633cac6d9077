------------------------------ MODULE Upstream ------------------------------
(***************************************************************************)
(* open_upstream: how a profile becomes a connector.  SSH directly, over a *)
(* transport or from a Smart Config, with the check of the host key and    *)
(* the authentication; Shadowsocks; VLESS with an external engine.         *)
(*                                                                         *)
(* Every await is a point of pc.  What the other side does there is not    *)
(* fair: it may stay silent, and only a timeout of the code gets past it.  *)
(* Returning with an error drops what the task holds, so that Fail gives   *)
(* back the permit, kills the engine and removes its configuration.        *)
(***************************************************************************)
EXTENDS Naturals, Sequences, FiniteSets

CONSTANTS
    Callers,   \* tasks that open an upstream: connects, of this or another process
    Profiles,  \* the profiles they open
    Hosts,     \* hosts of the Smart Config link: a sequence of [http, https]
    Keys,      \* host keys [alg, id] the server may present
    Permits,   \* HANDSHAKES
    Engines,   \* how many VLESS engines are tried, Xray and sing-box
    Agent,     \* identities of the SSH agent
    MaxOpens   \* bound on the number of opens

ASSUME UpstreamAssumption ==
    /\ IsFiniteSet(Callers)
    /\ Permits \in Nat \ {0}
    /\ Engines \in Nat \ {0}
    /\ Agent \in Nat
    /\ MaxOpens \in Nat

VARIABLES
    pc,       \* where each caller is
    prof,     \* its profile
    at,       \* the host, engine or identity it is trying
    key,      \* the host key of its session
    permits,  \* free permits of HANDSHAKES
    known,    \* the known_hosts file, entries for this host
    raced,    \* two callers were between the check and the entry of a key
    child,    \* the engine process a caller started
    config,   \* its temporary configuration file exists
    litter,   \* a configuration file nobody will remove exists
    opens

vars == <<pc, prof, at, key, permits, known, raced, child, config, litter, opens>>

NoKey == [alg |-> "none", id |-> 0]
NoProfile == [protocol |-> "none", smart |-> FALSE, zone |-> FALSE, transport |-> "direct",
              policy |-> "strict", auth |-> "none"]

Init ==
    /\ pc = [c \in Callers |-> "idle"]
    /\ prof = [c \in Callers |-> NoProfile]
    /\ at = [c \in Callers |-> 0]
    /\ key = [c \in Callers |-> NoKey]
    /\ permits = Permits
    /\ known = <<>>
    /\ raced = FALSE
    /\ child = [c \in Callers |-> "none"]
    /\ config = [c \in Callers |-> FALSE]
    /\ litter = FALSE
    /\ opens = 0

Goto(c, l) == pc' = [pc EXCEPT ![c] = l]
Try(c, n) == at' = [at EXCEPT ![c] = n]

\* dial_unlocked, for a transport or for a Smart Config fetched over HTTPS
Dialling == {"tcp", "tls", "upgrade"}
Holding == Dialling \cup {"fetchtls"}
Returned(c) == IF pc[c] \in Holding THEN permits + 1 ELSE permits

\* Mutant of Fail: an error of dial_unlocked returns before drop(permit).
FailKeeps(c) ==
    /\ Goto(c, "idle")
    /\ prof' = [prof EXCEPT ![c] = NoProfile]
    /\ key' = [key EXCEPT ![c] = NoKey]
    /\ Try(c, 0)
    /\ child' = [child EXCEPT ![c] = "none"]
    /\ config' = [config EXCEPT ![c] = FALSE]
    /\ UNCHANGED permits

\* The error is returned and what the task holds is dropped.
Fail(c) ==
    /\ Goto(c, "idle")
    /\ prof' = [prof EXCEPT ![c] = NoProfile]
    /\ key' = [key EXCEPT ![c] = NoKey]
    /\ Try(c, 0)
    /\ child' = [child EXCEPT ![c] = "none"]
    /\ config' = [config EXCEPT ![c] = FALSE]
    /\ permits' = Returned(c)

Error(c) == Fail(c) /\ UNCHANGED <<known, raced, litter, opens>>

\* open_upstream: the profile's protocol.  A plain direct SSH profile with a
\* saved zone is refused before anything is sent.
Open(c) ==
    /\ pc[c] = "idle" /\ opens < MaxOpens
    /\ opens' = opens + 1
    /\ \E p \in Profiles :
          /\ prof' = [prof EXCEPT ![c] = p]
          /\ \/ p.protocol = "ssh" /\ p.smart /\ Goto(c, "fetch") /\ Try(c, 1)
             \/ /\ p.protocol = "ssh" /\ ~p.smart /\ p.transport # "direct"
                /\ Goto(c, "permit") /\ UNCHANGED at
             \/ /\ p.protocol = "ssh" /\ ~p.smart /\ p.transport = "direct" /\ ~p.zone
                /\ Goto(c, "connect") /\ UNCHANGED at
             \/ p.protocol = "shadowsocks" /\ Goto(c, "up") /\ UNCHANGED at
             \/ p.protocol = "vless" /\ Goto(c, "reserve") /\ Try(c, 1)
    /\ UNCHANGED <<key, permits, known, raced, child, config, litter>>

\* Refused before anything is sent: SOCKS, a saved zone on a direct profile, a
\* method this build lacks, a secret that is not in the vault.
OpenRefused(c) ==
    /\ pc[c] = "idle" /\ opens < MaxOpens
    /\ opens' = opens + 1
    /\ UNCHANGED <<pc, prof, at, key, permits, known, raced, child, config, litter>>

-----------------------------------------------------------------------------
(* rt_tls::dial.                                                           *)

\* handshake_permit
Acquire(c) ==
    /\ pc[c] = "permit" /\ permits > 0
    /\ permits' = permits - 1
    /\ Goto(c, "tcp")
    /\ UNCHANGED <<prof, at, key, known, raced, child, config, litter, opens>>

\* dial_unlocked: TCP, then TLS, then the upgrade, as the transport has them;
\* HttpUpgrade is like ws, or like wss when the profile has an SNI or ALPN
After(layer, transport) ==
    IF layer = "tcp" /\ transport \in {"tls", "wss"} THEN "tls"
    ELSE IF layer # "upgrade" /\ transport \in {"ws", "wss"} THEN "upgrade"
    ELSE "session"

\* The other side completes the layer: the next one, or drop(permit) and on
\* to connect_over_transport_inner.
Layered(c) ==
    LET next == After(pc[c], prof[c].transport) IN
    /\ pc[c] \in Dialling
    /\ Goto(c, next)
    /\ permits' = IF next = "session" THEN permits + 1 ELSE permits
    /\ UNCHANGED <<prof, at, key, known, raced, child, config, litter, opens>>

\* A status other than 101, a missing header or a wrong accept key; a reset.
Refused(c) ==
    /\ pc[c] \in Dialling \cup {"connect", "kex", "auth", "shim"}
    /\ Error(c)

\* connect_over_transport_inner refuses a saved zone only now.
Session(c) ==
    /\ pc[c] = "session"
    /\ IF prof[c].zone THEN Error(c)
       ELSE Goto(c, "kex") /\ UNCHANGED <<prof, at, key, permits, known, raced, child, config, litter, opens>>

\* connect_once: the TCP connection of a direct profile
Connected(c) ==
    /\ pc[c] = "connect"
    /\ Goto(c, "kex")
    /\ UNCHANGED <<prof, at, key, permits, known, raced, child, config, litter, opens>>

\* Mutant of TimesOut: the key exchange has no timeout.
TimesOutLess(c) ==
    /\ pc[c] \in {"permit", "tcp", "tls", "connect", "shim"}
    /\ Error(c)

\* The waits that have a timeout: 20 s for a permit, 8 s for TCP, 12 s for TLS,
\* connect_timeout_secs for a direct connection and for the key exchange, 15 s
\* for the shim.
TimesOut(c) ==
    /\ pc[c] \in {"permit", "tcp", "tls", "connect", "kex", "shim"}
    /\ Error(c)

-----------------------------------------------------------------------------
(* connect_smart_profile.                                                  *)

\* zone_hosts: for every host of the link the schemes its flags allow, HTTP
\* before HTTPS
ZoneHosts ==
    LET UpTo[n \in 0 .. Len(Hosts)] ==
          IF n = 0 THEN <<>>
          ELSE UpTo[n - 1]
               \o (IF Hosts[n].http THEN <<[host |-> n, https |-> FALSE]>> ELSE <<>>)
               \o (IF Hosts[n].https THEN <<[host |-> n, https |-> TRUE]>> ELSE <<>>)
    IN  UpTo[Len(Hosts)]

\* open_zone_stream: HTTPS is a dial, with a permit
FetchDials(c) ==
    /\ pc[c] = "fetch" /\ at[c] <= Len(ZoneHosts)
    /\ \/ ~ZoneHosts[at[c]].https /\ Goto(c, "reply") /\ UNCHANGED permits
       \/ ZoneHosts[at[c]].https /\ permits > 0 /\ Goto(c, "fetchtls") /\ permits' = permits - 1
    /\ UNCHANGED <<prof, at, key, known, raced, child, config, litter, opens>>

FetchDialled(c) ==
    /\ pc[c] = "fetchtls"
    /\ Goto(c, "reply")
    /\ permits' = permits + 1
    /\ UNCHANGED <<prof, at, key, known, raced, child, config, litter, opens>>

\* get_smart_config_body fails, or takes longer than 8 s with the wait for a
\* permit: the next host, and an error after the last.
FetchFails(c) ==
    /\ pc[c] \in {"fetch", "fetchtls", "reply"}
    /\ IF at[c] < Len(ZoneHosts)
       THEN /\ Try(c, at[c] + 1) /\ Goto(c, "fetch") /\ permits' = Returned(c)
            /\ UNCHANGED <<prof, key, known, raced, child, config, litter, opens>>
       ELSE Error(c)

\* A body that decrypt_response authenticates and parse_endpoint accepts.
Fetched(c) ==
    /\ pc[c] = "reply"
    /\ Goto(c, "shim")
    /\ Try(c, 0)
    /\ UNCHANGED <<prof, key, permits, known, raced, child, config, litter, opens>>

\* A body that either of them rejects, such as one that split_http let through
\* cut off: no other host is asked.
FetchedUnusable(c) == pc[c] = "reply" /\ Error(c)

\* open_shim found the marker; it stays in front of the stream.
ShimOpened(c) ==
    /\ pc[c] = "shim"
    /\ Goto(c, "kex")
    /\ UNCHANGED <<prof, at, key, permits, known, raced, child, config, litter, opens>>

-----------------------------------------------------------------------------
(* HostKeyVerifier::verify and authenticate.                               *)

\* check_known_hosts_path: the first entry of the key's algorithm decides.
Entries == 1 .. Len(known)
First(i) == \A j \in 1 .. i - 1 : known[j].alg # known[i].alg
CheckKnownHosts(k) ==
    CASE \A i \in Entries : known[i].alg # k.alg -> "unknown"
      [] \E i \in Entries : known[i] = k /\ First(i) -> "known"
      [] OTHER -> "changed"

Trust(c, k) ==
    /\ key' = [key EXCEPT ![c] = k]
    /\ Goto(c, "auth") /\ Try(c, 1)
    /\ UNCHANGED <<prof, permits, known, raced, child, config, litter, opens>>

Enter(c, k) ==
    /\ key' = [key EXCEPT ![c] = k]
    /\ Goto(c, "learn")
    /\ raced' = (raced \/ \E d \in Callers \ {c} : pc[d] = "learn")
    /\ UNCHANGED <<prof, at, permits, known, child, config, litter, opens>>

\* Mutant of Verify: a changed key is entered like a new one.
VerifyChanged(c) ==
    /\ pc[c] = "kex"
    /\ \E k \in Keys : LET found == CheckKnownHosts(k) IN
          \/ found = "known" /\ Trust(c, k)
          \/ found # "known" /\ prof[c].policy = "tofu" /\ Enter(c, k)

\* verify: the server's key is known, or unknown and to be entered (TOFU), or
\* refused (Strict, Ask, a changed key).  The entry is a second access to the
\* file.
Verify(c) ==
    /\ pc[c] = "kex"
    /\ \E k \in Keys : LET found == CheckKnownHosts(k) IN
          \/ found = "known" /\ Trust(c, k)
          \/ found = "unknown" /\ prof[c].policy = "tofu" /\ Enter(c, k)
          \/ found = "unknown" /\ prof[c].policy \in {"strict", "ask"} /\ Error(c)
          \/ found = "changed" /\ Error(c)

\* Mutant of Learn: the session goes on although the entry was not written.
LearnNever(c) ==
    /\ pc[c] = "learn"
    /\ Goto(c, "auth") /\ Try(c, 1)
    /\ UNCHANGED <<prof, key, permits, known, raced, child, config, litter, opens>>

\* learn_known_hosts_path appends, or fails and with it the connection.
Learn(c) ==
    /\ pc[c] = "learn"
    /\ \/ /\ known' = Append(known, key[c])
          /\ Goto(c, "auth") /\ Try(c, 1)
          /\ UNCHANGED <<prof, key, permits, raced, child, config, litter, opens>>
       \/ Error(c)

\* authenticate: accepted, whatever the method
Accepted(c) ==
    /\ pc[c] = "auth"
    /\ prof[c].auth = "agent" => at[c] <= Agent
    /\ Goto(c, "up") /\ Try(c, 0)
    /\ UNCHANGED <<prof, key, permits, known, raced, child, config, litter, opens>>

\* Rejected: the agent's next identity, or AuthenticationFailed.
Rejected(c) ==
    /\ pc[c] = "auth"
    /\ IF prof[c].auth = "agent" /\ at[c] < Agent
       THEN Try(c, at[c] + 1) /\ UNCHANGED <<pc, prof, key, permits, known, raced, child, config, litter, opens>>
       ELSE Error(c)

-----------------------------------------------------------------------------
(* VlessConnector::start.                                                  *)

\* A free port is found and given up again, and the configuration is written.
Reserve(c) ==
    /\ pc[c] = "reserve"
    /\ Goto(c, "spawn")
    /\ config' = [config EXCEPT ![c] = TRUE]
    /\ UNCHANGED <<prof, at, key, permits, known, raced, child, litter, opens>>

\* write_engine_config fails after it created the file, before there is a
\* TemporaryConfig to remove it.
WriteFails(c) ==
    /\ pc[c] = "reserve"
    /\ litter' = TRUE
    /\ IF at[c] < Engines THEN Try(c, at[c] + 1) /\ UNCHANGED <<pc, prof, key, permits, child, config>>
       ELSE Fail(c)
    /\ UNCHANGED <<known, raced, opens>>

Spawn(c) ==
    /\ pc[c] = "spawn"
    /\ Goto(c, "poll")
    /\ child' = [child EXCEPT ![c] = "running"]
    /\ UNCHANGED <<prof, at, key, permits, known, raced, config, litter, opens>>

\* Something listens on the port: start_engine returns, and the file goes.
EngineListens(c) ==
    /\ pc[c] = "poll" /\ child[c] = "running"
    /\ Goto(c, "up") /\ Try(c, 0)
    /\ config' = [config EXCEPT ![c] = FALSE]
    /\ UNCHANGED <<prof, key, permits, known, raced, child, litter, opens>>

\* Mutant of EngineFails: the engine that never listened is left to itself.
EngineFailsKeeps(c) ==
    /\ pc[c] \in {"reserve", "spawn", "poll"}
    /\ IF at[c] < Engines
       THEN /\ Try(c, at[c] + 1) /\ Goto(c, "reserve")
            /\ config' = [config EXCEPT ![c] = FALSE]
            /\ UNCHANGED <<prof, key, permits, known, raced, child, litter, opens>>
       ELSE Error(c)

\* No configuration for this engine, no binary, it exits, or 5 s pass: the
\* process is killed, the file removed and the next engine tried.
EngineFails(c) ==
    /\ pc[c] \in {"reserve", "spawn", "poll"}
    /\ IF at[c] < Engines
       THEN /\ Try(c, at[c] + 1) /\ Goto(c, "reserve")
            /\ config' = [config EXCEPT ![c] = FALSE]
            /\ child' = [child EXCEPT ![c] = "none"]
            /\ UNCHANGED <<prof, key, permits, known, raced, litter, opens>>
       ELSE Error(c)

\* An engine may stop at any time.
EngineExits(c) ==
    /\ child[c] = "running"
    /\ child' = [child EXCEPT ![c] = "exited"]
    /\ UNCHANGED <<pc, prof, at, key, permits, known, raced, config, litter, opens>>

-----------------------------------------------------------------------------

\* disconnect drops the connector, which sessions that still run keep alive.
Disconnect(c) ==
    /\ pc[c] = "up"
    /\ Error(c) \/ (Goto(c, "lingers") /\ UNCHANGED <<prof, at, key, permits, known, raced, child, config, litter, opens>>)

LastSessionEnds(c) == pc[c] = "lingers" /\ Error(c)

Dial(c) == Acquire(c) \/ Layered(c) \/ Refused(c) \/ TimesOut(c)
Smart(c) == FetchDials(c) \/ FetchDialled(c) \/ FetchFails(c) \/ Fetched(c) \/ FetchedUnusable(c) \/ ShimOpened(c)
Ssh(c) == Session(c) \/ Connected(c) \/ Verify(c) \/ Learn(c) \/ Accepted(c) \/ Rejected(c)
Vless(c) == Reserve(c) \/ WriteFails(c) \/ Spawn(c) \/ EngineListens(c) \/ EngineFails(c) \/ EngineExits(c)

Next ==
    \E c \in Callers :
       \/ Open(c) \/ OpenRefused(c) \/ Dial(c) \/ Smart(c) \/ Ssh(c) \/ Vless(c)
       \/ Disconnect(c) \/ LastSessionEnds(c)

Spec == Init /\ [][Next]_vars

\* The caller's own steps and the timers are fair, the other side is not.
FairSpec ==
    Spec /\ \A c \in Callers :
              WF_vars(TimesOut(c) \/ FetchFails(c) \/ Session(c) \/ Learn(c) \/ EngineFails(c))

-----------------------------------------------------------------------------
(* Properties.                                                             *)

\* A permit is out exactly while its dial is under way, on every error path:
\* otherwise the limiter would close for good after 64 errors.  And no more
\* dials are under way than there are permits.
PermitsAreReturned ==
    /\ permits >= 0
    /\ permits + Cardinality({c \in Callers : pc[c] \in Holding}) = Permits

\* The host that an SSH session is authenticated to is one whose key is in
\* known_hosts, whatever the policy, the path and the other callers do.
SessionsAreTrusted ==
    \A c \in Callers :
       prof[c].protocol = "ssh" /\ pc[c] \in {"auth", "up", "lingers"} =>
          \E i \in Entries : known[i] = key[c]

\* known_hosts never holds two keys of an algorithm, so that a key that is
\* trusted once stays the only one, unless two callers entered one at the same
\* time.
TrustIsKept ==
    ~raced => \A i, j \in Entries : known[i].alg = known[j].alg => i = j

\* An engine process belongs to a connector or to the start that polls it, and
\* its configuration file is gone when the start is over: neither an error nor
\* the fallback to the other engine leaves one behind, but for the file whose
\* write failed.
EngineIsTied ==
    \A c \in Callers :
       /\ child[c] # "none" => pc[c] \in {"poll", "up", "lingers"} /\ prof[c].protocol = "vless"
       /\ config[c] => pc[c] \in {"spawn", "poll"}

\* Every wait ends, whatever the other side does, but two: the answer to the
\* upgrade request and the one to the authentication have no timeout of this
\* code.
OpenEnds ==
    \A c \in Callers : (pc[c] # "idle") ~> (pc[c] \in {"idle", "upgrade", "auth", "up", "lingers"})
=============================================================================
