---------------------------- MODULE ProxyServer ----------------------------
(***************************************************************************)
(* The local proxies, crates/socks: two listeners (SOCKS and HTTP CONNECT) *)
(* with an accept task each, one task per accepted connection, a semaphore *)
(* the two listeners share, the statistics and ProxyHandles::stop.         *)
(*                                                                         *)
(* A connection is used once.  at[c] is the point it has reached, from the *)
(* listener's backlog through the handshake to the relay.  What a client   *)
(* sends is chosen where it is read; a client may leave wherever the       *)
(* handler reads from it or writes to it.  Sessions are spawned and never  *)
(* joined: only the accept tasks are.                                      *)
(***************************************************************************)
EXTENDS Naturals, FiniteSets, Sequences

CONSTANTS
    Conns,     \* client connections
    Capacity   \* MAX_CONCURRENT_PROXY_SESSIONS

ASSUME ProxyAssumption ==
    /\ IsFiniteSet(Conns)
    /\ "none" \notin Conns
    /\ Capacity \in Nat \ {0}

Loops == {"socks", "http"}

VARIABLES
    phase,     \* ProxyServer::start and ProxyHandles::stop
    auth,      \* Socks5Auth: are a user name and a password required?
    bound,     \* the listeners that hold their port
    loop,      \* the accept tasks
    got,       \* the connection an accept task is handling
    woken,     \* its notified() future has seen notify_waiters
    permits,   \* the semaphore
    accepted, active, relayed,   \* ProxyStats; relayed: the relays recorded
    at,        \* the point a connection has reached
    via,       \* the listener it came through
    sent,      \* what was written to the client before the relay
    up         \* the upstream stream of the session is open

server  == <<phase, auth, bound, loop, got, woken>>
counts  == <<permits, accepted, active>>
session == <<at, via, sent, up, relayed>>
vars == <<phase, auth, bound, loop, got, woken, permits, accepted, active,
          relayed, at, via, sent, up>>

Init ==
    /\ phase = "off"
    /\ auth \in BOOLEAN
    /\ bound = {}
    /\ loop = [l \in Loops |-> "none"]
    /\ got = [l \in Loops |-> "none"]
    /\ woken = [l \in Loops |-> FALSE]
    /\ permits = Capacity
    /\ accepted = 0 /\ active = 0 /\ relayed = {}
    /\ at = [c \in Conns |-> "none"]
    /\ via = [c \in Conns |-> "socks"]
    /\ sent = [c \in Conns |-> <<>>]
    /\ up = [c \in Conns |-> FALSE]

-----------------------------------------------------------------------------
(* start and stop.                                                         *)

\* TcpListener::bind of the SOCKS port; an error is returned at once.
BindSocks ==
    /\ phase = "off"
    /\ \/ phase' = "binding" /\ bound' = {"socks"}
       \/ phase' = "failed" /\ UNCHANGED bound
    /\ UNCHANGED <<auth, loop, got, woken, counts, session>>

\* Both ports are bound: the accept tasks are spawned.  The error of the
\* second bind drops the first listener.
BindHttp ==
    /\ phase = "binding"
    /\ \/ /\ phase' = "running" /\ bound' = Loops
          /\ loop' = [l \in Loops |-> "waiting"]
       \/ phase' = "failed" /\ bound' = {} /\ UNCHANGED loop
    /\ UNCHANGED <<auth, got, woken, counts, session>>

\* notify_waiters reaches the tasks that are in their select! at this moment.
Stop ==
    /\ phase = "running"
    /\ phase' = "joining"
    /\ woken' = [l \in Loops |-> loop[l] = "waiting"]
    /\ UNCHANGED <<auth, bound, loop, got, counts, session>>

\* Mutant of Joined: only the first task is awaited.
JoinedOne ==
    /\ phase = "joining"
    /\ loop["socks"] = "ended"
    /\ phase' = "stopped"
    /\ UNCHANGED <<auth, bound, loop, got, woken, counts, session>>

\* Mutant of Joined: the sessions are awaited as well.
JoinedSessions ==
    /\ phase = "joining"
    /\ \A l \in Loops : loop[l] = "ended"
    /\ \A c \in Conns : at[c] \in {"none", "closed"}
    /\ phase' = "stopped"
    /\ UNCHANGED <<auth, bound, loop, got, woken, counts, session>>

\* Both JoinHandles were awaited: stop returns.
Joined ==
    /\ phase = "joining"
    /\ \A l \in Loops : loop[l] = "ended"
    /\ phase' = "stopped"
    /\ UNCHANGED <<auth, bound, loop, got, woken, counts, session>>

-----------------------------------------------------------------------------
(* An accept task.                                                         *)

\* Leaving the loop drops the listener: its port is free and the connections
\* of its backlog are reset.
LeaveLoop(l) ==
    /\ loop' = [loop EXCEPT ![l] = "ended"]
    /\ bound' = bound \ {l}
    /\ at' = [c \in Conns |-> IF at[c] = "queued" /\ via[c] = l THEN "closed" ELSE at[c]]
    /\ UNCHANGED <<phase, auth, got, woken, counts, via, sent, up, relayed>>

\* shutdown.notified() => break, or accept fails.
LoopEnds(l) ==
    /\ loop[l] = "waiting"
    /\ woken[l]
    /\ LeaveLoop(l)

AcceptFails(l) ==
    /\ loop[l] = "waiting"
    /\ LeaveLoop(l)

\* A client connects to a listening port.
Arrive(c, l) ==
    /\ at[c] = "none"
    /\ l \in bound
    /\ at' = [at EXCEPT ![c] = "queued"]
    /\ via' = [via EXCEPT ![c] = l]
    /\ UNCHANGED <<server, counts, sent, up, relayed>>

\* The accept branch of select!: with both branches ready it may win, and
\* the notification is dropped with its future.
Accept(l, c) ==
    /\ loop[l] = "waiting"
    /\ at[c] = "queued" /\ via[c] = l
    /\ at' = [at EXCEPT ![c] = "accepted"]
    /\ got' = [got EXCEPT ![l] = c]
    /\ loop' = [loop EXCEPT ![l] = "admit"]
    /\ woken' = [woken EXCEPT ![l] = FALSE]
    /\ UNCHANGED <<phase, auth, bound, counts, via, sent, up, relayed>>

\* try_acquire_owned
Admit(l) ==
    /\ loop[l] = "admit"
    /\ permits > 0
    /\ permits' = permits - 1
    /\ loop' = [loop EXCEPT ![l] = "count"]
    /\ UNCHANGED <<phase, auth, bound, got, woken, accepted, active, session>>

\* No permit: the connection is dropped without a word.
Refuse(l) ==
    /\ loop[l] = "admit"
    /\ permits = 0
    /\ at' = [at EXCEPT ![got[l]] = "closed"]
    /\ got' = [got EXCEPT ![l] = "none"]
    /\ loop' = [loop EXCEPT ![l] = "waiting"]
    /\ UNCHANGED <<phase, auth, bound, woken, counts, via, sent, up, relayed>>

\* The statistics are counted and the session is spawned with its permit.
Count(l) ==
    /\ loop[l] = "count"
    /\ accepted' = accepted + 1
    /\ active' = active + 1
    /\ at' = [at EXCEPT ![got[l]] = IF l = "socks" THEN "version" ELSE "http"]
    /\ got' = [got EXCEPT ![l] = "none"]
    /\ loop' = [loop EXCEPT ![l] = "waiting"]
    /\ UNCHANGED <<phase, auth, bound, woken, permits, via, sent, up, relayed>>

AcceptTask(l) ==
    \/ LoopEnds(l) \/ AcceptFails(l) \/ \E c \in Conns : Accept(l, c)
    \/ Admit(l) \/ Refuse(l) \/ Count(l)
SocksTask == AcceptTask("socks")
HttpTask  == AcceptTask("http")

-----------------------------------------------------------------------------
(* The handshakes.                                                         *)

\* The handler of c goes on at point p, having written the messages of out.
Continue(c, p, out) ==
    /\ at' = [at EXCEPT ![c] = p]
    /\ sent' = [sent EXCEPT ![c] = @ \o out]
    /\ UNCHANGED <<server, counts, via, up, relayed>>

\* dispatch_socks reads the version byte and puts it back in front of the
\* stream (VersionPrefixed), where the handler reads it again.
Dispatch(c) ==
    /\ at[c] = "version"
    /\ \E first \in {4, 5, 71} :
          Continue(c, CASE first = 5 -> "greeting" [] first = 4 -> "socks4" [] OTHER -> "uncount", <<>>)

\* The method the server selects from those offered.
Selected(offered) ==
    LET wanted == IF auth THEN "userpass" ELSE "anonymous"
    IN  IF wanted \in offered THEN wanted ELSE "no_acceptable"

Greeting(c) ==
    /\ at[c] = "greeting"
    /\ \E offered \in SUBSET {"anonymous", "userpass"} :
          LET m == Selected(offered) IN
          Continue(c, CASE m = "no_acceptable" -> "uncount"
                        [] m = "userpass" -> "userpass"
                        [] OTHER -> "request", <<m>>)

\* RFC 1929: both must match
UserPass(c) ==
    /\ at[c] = "userpass"
    /\ \E ok \in BOOLEAN :
          IF ok THEN Continue(c, "request", <<"auth_ok">>)
                ELSE Continue(c, "uncount", <<"auth_failed">>)

\* read_address: an unknown address type or a domain that is not UTF-8 is an
\* error that is not answered.
AddressTypes == {"ipv4", "domain", "ipv6", "not_utf8", "unknown"}
ReadAddress(atyp) == atyp \in {"ipv4", "domain", "ipv6"}

\* The address is read before the command is looked at.
Request(c) ==
    /\ at[c] = "request"
    /\ \E atyp \in AddressTypes, cmd \in {"connect", "bind"} :
          CASE ~ReadAddress(atyp)  -> Continue(c, "uncount", <<>>)
            [] ReadAddress(atyp) /\ cmd # "connect" -> Continue(c, "uncount", <<"unsupported">>)
            [] OTHER -> Continue(c, "dial", <<>>)

\* SOCKS4 and 4a: the command first, then user id and domain with their limits
Request4(c) ==
    /\ at[c] = "socks4"
    /\ \E cmd \in {"connect", "bind"}, fits \in BOOLEAN :
          CASE cmd # "connect" -> Continue(c, "uncount", <<"refused">>)
            [] cmd = "connect" /\ ~fits -> Continue(c, "uncount", <<>>)
            [] OTHER -> Continue(c, "dial", <<>>)

\* split_host_port of the CONNECT target
SplitHostPort(target) == target \in {"host:port", "[v6]:port"}

\* The request line and the headers up to an empty line or the end of the
\* stream; anything else ends the session without an answer.
HttpConnect(c) ==
    /\ at[c] = "http"
    /\ \E method \in {"CONNECT", "GET"},
          target \in {"host:port", "[v6]:port", "host"}, headers \in {"read", "too_long"} :
          IF method = "CONNECT" /\ SplitHostPort(target) /\ headers = "read"
          THEN Continue(c, "dial", <<>>)
          ELSE Continue(c, "uncount", <<>>)

\* Mutant of Dial: the client is told before the upstream has answered.
DialOptimistic(c) ==
    /\ at[c] = "dial"
    /\ at' = [at EXCEPT ![c] = "relay"]
    /\ sent' = [sent EXCEPT ![c] = Append(@, "granted")]
    /\ UNCHANGED <<server, counts, via, up, relayed>>

\* upstream.connect
Dial(c) ==
    /\ at[c] = "dial"
    /\ \/ at' = [at EXCEPT ![c] = "grant"] /\ up' = [up EXCEPT ![c] = TRUE]
       \/ at' = [at EXCEPT ![c] = "reject"] /\ UNCHANGED up
    /\ UNCHANGED <<server, counts, via, sent, relayed>>

\* The reply of each protocol: REP_SUCCESS, REP_GRANTED, 200 ...
Grant(c) ==
    /\ at[c] = "grant"
    /\ Continue(c, "relay", <<"granted">>)

\* ... and REP_GENERAL, REP_REJECTED, 502.
Reject(c) ==
    /\ at[c] = "reject"
    /\ Continue(c, "uncount", <<"refused">>)

\* relay_both: a reset or a broken pipe is recorded as an empty relay, any
\* other error is not recorded.
Relay(c) ==
    /\ at[c] = "relay"
    /\ relayed' \in {relayed, relayed \cup {c}}
    /\ at' = [at EXCEPT ![c] = "uncount"]
    /\ up' = [up EXCEPT ![c] = FALSE]
    /\ UNCHANGED <<server, counts, via, sent>>

\* read_exact or write_all fails: the handler returns its error.
Talking == {"version", "greeting", "userpass", "request", "socks4", "http", "grant", "reject"}
ClientLeaves(c) ==
    /\ at[c] \in Talking
    /\ at' = [at EXCEPT ![c] = "uncount"]
    /\ up' = [up EXCEPT ![c] = FALSE]
    /\ UNCHANGED <<server, counts, via, sent, relayed>>

\* Mutant of Uncount: an early return skips the statistics.
UncountSkipped(c) ==
    /\ at[c] = "uncount"
    /\ active' = IF sent[c] = <<>> THEN active ELSE active - 1
    /\ at' = [at EXCEPT ![c] = "release"]
    /\ UNCHANGED <<server, permits, accepted, via, sent, up, relayed>>

\* stats.active.fetch_sub, whatever the handler returned
Uncount(c) ==
    /\ at[c] = "uncount"
    /\ active' = active - 1
    /\ at' = [at EXCEPT ![c] = "release"]
    /\ UNCHANGED <<server, permits, accepted, via, sent, up, relayed>>

\* The task ends: the permit goes back.
Release(c) ==
    /\ at[c] = "release"
    /\ permits' = permits + 1
    /\ at' = [at EXCEPT ![c] = "closed"]
    /\ UNCHANGED <<server, accepted, active, via, sent, up, relayed>>

Session(c) ==
    \/ Dispatch(c) \/ Greeting(c) \/ UserPass(c) \/ Request(c) \/ Request4(c)
    \/ HttpConnect(c) \/ Dial(c) \/ Grant(c) \/ Reject(c) \/ Relay(c)
    \/ ClientLeaves(c) \/ Uncount(c) \/ Release(c)

Next ==
    \/ BindSocks \/ BindHttp \/ Stop \/ Joined
    \/ SocksTask \/ HttpTask
    \/ \E c \in Conns : Session(c) \/ \E l \in Loops : Arrive(c, l)

Spec == Init /\ [][Next]_vars

\* A task that is ready runs.  Clients come, stay and go as they like, and a
\* listener need not fail.
Fairness ==
    /\ WF_vars(Joined)
    /\ \A l \in Loops : WF_vars(LoopEnds(l) \/ Admit(l) \/ Refuse(l) \/ Count(l))

FairSpec == Spec /\ Fairness

-----------------------------------------------------------------------------
(* Properties.                                                             *)

Counted == Talking \cup {"dial", "relay", "uncount"}

Running == {c \in Conns : at[c] \in Counted}
Holding == {c \in Conns : at[c] \in Counted \cup {"release"}}
Admitting == {l \in Loops : loop[l] = "count"}

\* The permits are exactly those no session and no accept task holds, and
\* stats.active is exactly the sessions that run: no error path of the three
\* handlers loses a permit or a count, so the proxy never refuses clients for
\* sessions that are long gone.
PermitsAreExact ==
    /\ permits >= 0
    /\ permits + Cardinality(Holding) + Cardinality(Admitting) = Capacity
    /\ active = Cardinality(Running)

Finals == {"granted", "refused", "unsupported", "auth_failed", "no_acceptable"}

\* A client is answered once: nothing follows a final answer, bytes are
\* relayed only after "granted" and with the upstream open, and a SOCKS5
\* client reaches the upstream only past the method the server selected.
AnswersAreFinal ==
    \A c \in Conns :
      /\ \A i \in 1 .. Len(sent[c]) : sent[c][i] \in Finals => i = Len(sent[c])
      /\ at[c] = "relay" => up[c] /\ sent[c] # <<>> /\ sent[c][Len(sent[c])] = "granted"
      /\ \A i \in 1 .. Len(sent[c]) :
            up[c] /\ sent[c][i] = "userpass" => i < Len(sent[c]) /\ sent[c][i + 1] = "auth_ok"

\* When stop has returned, and when start has failed, both local ports are
\* free: the next connect binds the same ones.
PortsAreFreed == phase \in {"stopped", "failed"} => bound = {}

Settled == \A l \in Loops : loop[l] = "ended" \/ woken[l]

\* stop returns once its notification has reached both accept tasks, unless a
\* task then takes an accepted connection and drops the notification.
StopReturnsIfHeard ==
    (phase = "joining" /\ Settled) ~> (phase = "stopped" \/ ~Settled)
=============================================================================
