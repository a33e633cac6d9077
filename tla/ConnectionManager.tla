------------------------- MODULE ConnectionManager -------------------------
(***************************************************************************)
(* The connection manager of the application, crates/tunnel/src/manager.rs *)
(* with the state it publishes (crates/tunnel/src/state.rs).               *)
(*                                                                         *)
(* connect and disconnect are async methods that nothing serialises: the   *)
(* window's commands and the tray's menu call them on the same manager.    *)
(* A call is a task; it runs in steps that end where another thread can    *)
(* see or change what it shares: at an await, at a publish, at the end of  *)
(* the lock on `active`.                                                   *)
(*                                                                         *)
(* Every connect that passes its first check works on a session of its     *)
(* own, numbered from 1; 0 is no session.  What the session holds (the SSH *)
(* connection, the local proxy ports, the tasks that listen on the         *)
(* intercept ports, the poller, the connection to the helper) is kept per  *)
(* session, so that a leak shows.  The helper is the abstract one that     *)
(* start_full_tunnel sees: at most one session applied, an owner whose     *)
(* connection ends is torn down.                                           *)
(***************************************************************************)
EXTENDS Naturals, FiniteSets

CONSTANTS
    Calls,         \* who calls the manager: the window, the tray
    Ops,           \* Ops[t]: the methods t calls
    Profiles,      \* the profiles connect is called with
    MaxConnects,   \* bound: connects that pass the first check
    TunIoCanFail   \* may TunIo::from_owned_fd fail (epoll or fcntl error)?

Sessions == 1 .. MaxConnects

ASSUME ManagerAssumption ==
    /\ Profiles # {}
    /\ Ops \in [Calls -> SUBSET {"connect", "disconnect"}]
    /\ \A p \in Profiles : p.ssh \in BOOLEAN /\ p.tun \in BOOLEAN /\ p.udpgw \in BOOLEAN
    /\ MaxConnects \in Nat
    /\ TunIoCanFail \in BOOLEAN

VARIABLES
    pc,        \* the point a call has reached
    mine,      \* the session the call works on
    connects,  \* sessions begun so far
    prof,      \* prof[s]: the profile of session s
    snap,      \* the published ConnectionSnapshot: state and phase
    active,    \* Mutex<Option<ActiveSession>>
    ssh,       \* ssh[s]: the SSH connection: none, open, or lost
    proxies,   \* proxies[s]: the SOCKS and HTTP listeners are bound
    tasks,     \* tasks[s]: the tasks that end with the session's token
    stop,      \* stop[s]: the session's cancellation tokens are cancelled
    poll,      \* the stats poller: none, asleep, or the state it has read
    link,      \* link[s]: the helper sees s as an owner, or its connection end
    net        \* the session whose networking the helper has applied

res  == <<ssh, proxies, tasks, stop, poll, link, net>>
vars == <<pc, mine, connects, prof, snap, active, ssh, proxies, tasks, stop,
          poll, link, net>>

Snapshot(st, ph) == [state |-> st, phase |-> ph]
Up == {"Connected", "Degraded"}

Init ==
    /\ pc = [t \in Calls |-> "idle"]
    /\ mine = [t \in Calls |-> 0]
    /\ connects = 0
    /\ prof = [s \in Sessions |-> CHOOSE p \in Profiles : TRUE]
    /\ snap = Snapshot("Disconnected", "Idle")
    /\ active = 0
    /\ ssh = [s \in Sessions |-> "none"]
    /\ proxies = [s \in Sessions |-> FALSE]
    /\ tasks = [s \in Sessions |-> {}]
    /\ stop = [s \in Sessions |-> FALSE]
    /\ poll = [s \in Sessions |-> "none"]
    /\ link = [s \in Sessions |-> "none"]
    /\ net = 0

Goto(t, l) ==
    /\ pc' = [pc EXCEPT ![t] = l]
    /\ UNCHANGED mine

\* The call returns.
Return(t) ==
    /\ pc' = [pc EXCEPT ![t] = "idle"]
    /\ mine' = [mine EXCEPT ![t] = 0]

\* publish: the snapshot every reader sees from now on.  set_phase keeps the
\* other fields of the snapshot and is the same write here.
Publish(st, ph) == snap' = Snapshot(st, ph)

-----------------------------------------------------------------------------
(* connect.                                                                *)

\* The first lock: no active session.  The lock is released here; a call
\* that finds a session returns AlreadyConnected and changes nothing, as
\* does one with a SOCKS profile.
StartConnect(t) ==
    /\ pc[t] = "idle"
    /\ "connect" \in Ops[t]
    /\ active = 0
    /\ connects < MaxConnects
    /\ connects' = connects + 1
    /\ \E p \in Profiles : prof' = [prof EXCEPT ![connects'] = p]
    /\ pc' = [pc EXCEPT ![t] = "resolve"]
    /\ mine' = [mine EXCEPT ![t] = connects']
    /\ UNCHANGED <<snap, active, res>>

\* The three publications before the upstream is opened.
Announce(t) ==
    /\ \/ pc[t] = "resolve" /\ Publish("Connecting", "ResolvingServer") /\ Goto(t, "tcp")
       \/ pc[t] = "tcp" /\ Publish("Connecting", "EstablishingTcp") /\ Goto(t, "auth")
       \/ pc[t] = "auth" /\ Publish("Authenticating", "Authenticating") /\ Goto(t, "open")
    /\ UNCHANGED <<connects, prof, active, res>>

\* open_upstream succeeds: only an SSH profile has a session of its own, and
\* only then the first snapshot is published again.
OpenUpstream(t) ==
    /\ pc[t] = "open"
    /\ IF prof[mine[t]].ssh
       THEN ssh' = [ssh EXCEPT ![mine[t]] = "open"] /\ Goto(t, "republish")
       ELSE UNCHANGED ssh /\ Goto(t, "tunnel")
    /\ UNCHANGED <<connects, prof, snap, active, proxies, tasks, stop, poll, link, net>>

OpenFails(t) ==
    /\ pc[t] = "open"
    /\ Publish("Error", "Failed")
    /\ Return(t)
    /\ UNCHANGED <<connects, prof, active, res>>

\* snap still has the state it was created with.
Republish(t) ==
    /\ pc[t] = "republish"
    /\ Publish("Connecting", "ResolvingServer")
    /\ Goto(t, "tunnel")
    /\ UNCHANGED <<connects, prof, active, res>>

EnterTunnel(t) ==
    /\ pc[t] = "tunnel"
    /\ Publish("EstablishingTunnel", "EstablishingTunnel")
    /\ Goto(t, "proxies")
    /\ UNCHANGED <<connects, prof, active, res>>

PortFree(p) == \A s \in Sessions : proxies[s] => prof[s].port # p.port

\* Mutant of StartProxies: the sockets are bound with SO_REUSEPORT.
StartProxiesShared(t) ==
    /\ pc[t] = "proxies"
    /\ proxies' = [proxies EXCEPT ![mine[t]] = TRUE]
    /\ Goto(t, IF prof[mine[t]].tun THEN "routes" ELSE "udpgw")
    /\ UNCHANGED <<connects, prof, snap, active, ssh, tasks, stop, poll, link, net>>

\* ProxyServer::start binds the two local ports.
StartProxies(t) ==
    /\ pc[t] = "proxies"
    /\ PortFree(prof[mine[t]])
    /\ proxies' = [proxies EXCEPT ![mine[t]] = TRUE]
    /\ Goto(t, IF prof[mine[t]].tun THEN "routes" ELSE "udpgw")
    /\ UNCHANGED <<connects, prof, snap, active, ssh, tasks, stop, poll, link, net>>

\* A port is taken, by a session of ours or by another program: the SSH
\* session is closed and the error returned, with nothing published.
ProxiesFail(t) ==
    /\ pc[t] = "proxies"
    /\ ssh' = [ssh EXCEPT ![mine[t]] = "none"]
    /\ Return(t)
    /\ UNCHANGED <<connects, prof, snap, active, proxies, tasks, stop, poll, link, net>>

-----------------------------------------------------------------------------
(* start_full_tunnel.                                                      *)

EnterRoutes(t) ==
    /\ pc[t] = "routes"
    /\ Publish("EstablishingTunnel", "ConfiguringRoutes")
    /\ Goto(t, "bind")
    /\ UNCHANGED <<connects, prof, active, res>>

\* The tasks a session spawns: its UDPGW client may or may not connect.
Spawned(s, ts) ==
    \E gw \in SUBSET {"udpgw"} :
        /\ gw # {} => prof[s].udpgw /\ prof[s].ssh
        /\ tasks' = [tasks EXCEPT ![s] = ts \cup gw]

InterceptPortsFree == \A s \in Sessions : "listeners" \notin tasks[s]

\* The helper answers, TRANSPROXY_PORT and DNS_PROXY_PORT are bound, the
\* UDPGW client is started and the listeners are spawned.
BindIntercept(t) ==
    /\ pc[t] = "bind"
    /\ InterceptPortsFree
    /\ Spawned(mine[t], {"listeners"})
    /\ Goto(t, "apply")
    /\ UNCHANGED <<connects, prof, snap, active, ssh, proxies, stop, poll, link, net>>

\* No helper, no address for the server, or a port is taken.
BindFails(t) ==
    /\ pc[t] = "bind"
    /\ Goto(t, "rb_proxies")
    /\ UNCHANGED <<connects, prof, snap, active, res>>

\* Mutant of Apply: the helper is not asked whether it has a session.
ApplyUnasked(t) ==
    /\ pc[t] = "apply"
    /\ net' = mine[t]
    /\ link' = [link EXCEPT ![mine[t]] = "owner"]
    /\ Goto(t, "tunio")
    /\ UNCHANGED <<connects, prof, snap, active, ssh, proxies, tasks, stop, poll>>

\* helper.apply: the helper refuses while it has a session.
Apply(t) ==
    /\ pc[t] = "apply"
    /\ net = 0
    /\ net' = mine[t]
    /\ link' = [link EXCEPT ![mine[t]] = "owner"]
    /\ Goto(t, "tunio")
    /\ UNCHANGED <<connects, prof, snap, active, ssh, proxies, tasks, stop, poll>>

\* Mutant of ApplyFails: the listeners are not told to stop.
ApplyFailsQuietly(t) ==
    /\ pc[t] = "apply"
    /\ Goto(t, "rb_proxies")
    /\ UNCHANGED <<connects, prof, snap, active, res>>

ApplyFails(t) ==
    /\ pc[t] = "apply"
    /\ stop' = [stop EXCEPT ![mine[t]] = TRUE]
    /\ Goto(t, "rb_proxies")
    /\ UNCHANGED <<connects, prof, snap, active, ssh, proxies, tasks, poll, link, net>>

\* TunIo::from_owned_fd, then drain_tun is spawned.
OpenTun(t) ==
    /\ pc[t] = "tunio"
    /\ Goto(t, "ready")
    /\ UNCHANGED <<connects, prof, snap, active, res>>

\* The error is returned with `?`: the HelperClient is dropped, the token is
\* not cancelled.
OpenTunFails(t) ==
    /\ pc[t] = "tunio"
    /\ TunIoCanFail
    /\ link' = [link EXCEPT ![mine[t]] = "dropped"]
    /\ Goto(t, "rb_proxies")
    /\ UNCHANGED <<connects, prof, snap, active, ssh, proxies, tasks, stop, poll, net>>

\* "full tunnel failed; rolling back": proxies.stop().await
RollbackProxies(t) ==
    /\ pc[t] = "rb_proxies"
    /\ proxies' = [proxies EXCEPT ![mine[t]] = FALSE]
    /\ Goto(t, "rb_ssh")
    /\ UNCHANGED <<connects, prof, snap, active, ssh, tasks, stop, poll, link, net>>

\* ssh.disconnect().await, then the error is published.
RollbackSsh(t) ==
    /\ pc[t] = "rb_ssh"
    /\ ssh' = [ssh EXCEPT ![mine[t]] = "none"]
    /\ Goto(t, "rb_error")
    /\ UNCHANGED <<connects, prof, snap, active, proxies, tasks, stop, poll, link, net>>

RollbackError(t) ==
    /\ pc[t] = "rb_error"
    /\ Publish("Error", "Failed")
    /\ Return(t)
    /\ UNCHANGED <<connects, prof, active, res>>

-----------------------------------------------------------------------------
(* The end of connect.                                                     *)

\* Without a TUN the UDPGW client is started here, for an SSH profile that
\* enables it.
StartUdpgw(t) ==
    /\ pc[t] = "udpgw"
    /\ Spawned(mine[t], {})
    /\ Goto(t, "ready")
    /\ UNCHANGED <<connects, prof, snap, active, ssh, proxies, stop, poll, link, net>>

\* Degraded when the profile wants UDPGW and has none; then the poller is
\* spawned.
Ready(t) ==
    LET s == mine[t] IN
    /\ pc[t] = "ready"
    /\ Publish(IF prof[s].udpgw /\ "udpgw" \notin tasks[s] THEN "Degraded" ELSE "Connected",
               "Ready")
    /\ poll' = [poll EXCEPT ![s] = "asleep"]
    /\ Goto(t, "store")
    /\ UNCHANGED <<connects, prof, active, ssh, proxies, tasks, stop, link, net>>

\* *self.active.lock().await = Some(..): whatever was there is dropped.  The
\* proxy and poller tasks are detached, not stopped; a HelperClient that is
\* dropped closes its connection.
Store(t) ==
    /\ pc[t] = "store"
    /\ active' = mine[t]
    /\ link' = [s \in Sessions |-> IF s = active /\ link[s] = "owner" THEN "dropped"
                                   ELSE link[s]]
    /\ Return(t)
    /\ UNCHANGED <<connects, prof, snap, ssh, proxies, tasks, stop, poll, net>>

Connect(t) ==
    \/ StartConnect(t) \/ Announce(t) \/ OpenUpstream(t) \/ OpenFails(t)
    \/ Republish(t) \/ EnterTunnel(t) \/ StartProxies(t) \/ ProxiesFail(t)
    \/ EnterRoutes(t) \/ BindIntercept(t) \/ BindFails(t) \/ Apply(t) \/ ApplyFails(t)
    \/ OpenTun(t) \/ OpenTunFails(t) \/ RollbackProxies(t) \/ RollbackSsh(t)
    \/ RollbackError(t) \/ StartUdpgw(t) \/ Ready(t) \/ Store(t)

-----------------------------------------------------------------------------
(* disconnect.                                                             *)

StartDisconnect(t) ==
    /\ pc[t] = "idle"
    /\ "disconnect" \in Ops[t]
    /\ Publish("Disconnecting", "Idle")
    /\ Goto(t, "take")
    /\ UNCHANGED <<connects, prof, active, res>>

\* Mutant of Take: the session stays in `active` while it is stopped.
TakeCopy(t) ==
    /\ pc[t] = "take"
    /\ mine' = [mine EXCEPT ![t] = active]
    /\ stop' = [s \in Sessions |-> stop[s] \/ s = active]
    /\ pc' = [pc EXCEPT ![t] = IF active = 0 THEN "done" ELSE "teardown"]
    /\ UNCHANGED <<connects, prof, snap, active, ssh, proxies, tasks, poll, link, net>>

\* active.lock().await.take(); the tokens are cancelled and the poller and
\* the TUN task aborted.  An abort, too, waits for the task's next await.
Take(t) ==
    /\ pc[t] = "take"
    /\ mine' = [mine EXCEPT ![t] = active]
    /\ active' = 0
    /\ stop' = [s \in Sessions |-> stop[s] \/ s = active]
    /\ pc' = [pc EXCEPT ![t] = IF active = 0 THEN "done" ELSE "teardown"]
    /\ UNCHANGED <<connects, prof, snap, ssh, proxies, tasks, poll, link, net>>

\* Mutant of Teardown: a HelperClient whose teardown failed is kept nowhere
\* and its connection is not closed either.
TeardownForgets(t) ==
    /\ pc[t] = "teardown"
    /\ \/ link[mine[t]] = "none" /\ UNCHANGED <<link, net>>
       \/ /\ link[mine[t]] = "owner"
          /\ link' = [link EXCEPT ![mine[t]] = "none"]
          /\ net' \in {0, net}
    /\ Goto(t, "stop")
    /\ UNCHANGED <<connects, prof, snap, active, ssh, proxies, tasks, stop, poll>>

\* helper.teardown().await when the session has a helper; the HelperClient is
\* dropped afterwards.  An error is only logged: then the helper learns of
\* the disconnect from the end of the connection.
Teardown(t) ==
    /\ pc[t] = "teardown"
    /\ \/ link[mine[t]] = "none" /\ UNCHANGED <<link, net>>
       \/ /\ link[mine[t]] = "owner"
          /\ link' = [link EXCEPT ![mine[t]] = "none"]
          /\ net' = 0
       \/ /\ link[mine[t]] = "owner"
          /\ link' = [link EXCEPT ![mine[t]] = "dropped"]
          /\ UNCHANGED net
    /\ Goto(t, "stop")
    /\ UNCHANGED <<connects, prof, snap, active, ssh, proxies, tasks, stop, poll>>

StopProxies(t) ==
    /\ pc[t] = "stop"
    /\ proxies' = [proxies EXCEPT ![mine[t]] = FALSE]
    /\ Goto(t, "hangup")
    /\ UNCHANGED <<connects, prof, snap, active, ssh, tasks, stop, poll, link, net>>

HangUp(t) ==
    /\ pc[t] = "hangup"
    /\ ssh' = [ssh EXCEPT ![mine[t]] = "none"]
    /\ Goto(t, "done")
    /\ UNCHANGED <<connects, prof, snap, active, proxies, tasks, stop, poll, link, net>>

\* The default snapshot is published, also when there was no session.
Done(t) ==
    /\ pc[t] = "done"
    /\ Publish("Disconnected", "Idle")
    /\ Return(t)
    /\ UNCHANGED <<connects, prof, active, res>>

Disconnect(t) ==
    \/ StartDisconnect(t) \/ Take(t) \/ Teardown(t) \/ StopProxies(t)
    \/ HangUp(t) \/ Done(t)

-----------------------------------------------------------------------------
(* The tasks of a session, and what happens around it.                     *)

\* spawn_stats_poller: the snapshot is cloned under the read lock; a state
\* other than Connected and Degraded ends the round.
PollRead(s) ==
    /\ poll[s] = "asleep"
    /\ ~stop[s]
    /\ snap.state \in Up
    /\ poll' = [poll EXCEPT ![s] = snap.state]
    /\ UNCHANGED <<pc, mine, connects, prof, snap, active, ssh, proxies, tasks, stop, link, net>>

\* The clone, with new statistics, is written back under the write lock.
PollWrite(s) ==
    /\ poll[s] \in Up
    /\ Publish(poll[s], "Ready")
    /\ poll' = [poll EXCEPT ![s] = "asleep"]
    /\ UNCHANGED <<pc, mine, connects, prof, active, ssh, proxies, tasks, stop, link, net>>

PollEnds(s) ==
    /\ poll[s] = "asleep"
    /\ stop[s]
    /\ poll' = [poll EXCEPT ![s] = "none"]
    /\ UNCHANGED <<pc, mine, connects, prof, snap, active, ssh, proxies, tasks, stop, link, net>>

\* The listeners and the UDPGW client see the cancelled token.  The DNS
\* listener's socket closes once its last query in flight is answered or has
\* timed out.
TasksEnd(s) ==
    /\ tasks[s] # {}
    /\ stop[s]
    /\ tasks' = [tasks EXCEPT ![s] = {}]
    /\ UNCHANGED <<pc, mine, connects, prof, snap, active, ssh, proxies, stop, poll, link, net>>

\* The helper sees the connection of an owner end: teardown_session.
HelperNotices(s) ==
    /\ link[s] = "dropped"
    /\ link' = [link EXCEPT ![s] = "none"]
    /\ net' = 0
    /\ UNCHANGED <<pc, mine, connects, prof, snap, active, ssh, proxies, tasks, stop, poll>>

\* The server, or the network, ends the SSH connection.
UpstreamLost(s) ==
    /\ ssh[s] = "open"
    /\ ssh' = [ssh EXCEPT ![s] = "lost"]
    /\ UNCHANGED <<pc, mine, connects, prof, snap, active, proxies, tasks, stop, poll, link, net>>

\* The application quits (the tray's app.exit) or dies, and is started again.
AppEnds ==
    /\ connects > 0
    /\ pc' = [t \in Calls |-> "idle"]
    /\ mine' = [t \in Calls |-> 0]
    /\ snap' = Snapshot("Disconnected", "Idle")
    /\ active' = 0
    /\ ssh' = [s \in Sessions |-> "none"]
    /\ proxies' = [s \in Sessions |-> FALSE]
    /\ tasks' = [s \in Sessions |-> {}]
    /\ stop' = [s \in Sessions |-> FALSE]
    /\ poll' = [s \in Sessions |-> "none"]
    /\ link' = [s \in Sessions |-> IF link[s] = "none" THEN "none" ELSE "dropped"]
    /\ UNCHANGED <<connects, prof, net>>

SessionStep(s) ==
    PollRead(s) \/ PollWrite(s) \/ PollEnds(s) \/ TasksEnd(s) \/ HelperNotices(s)

Next ==
    \/ \E t \in Calls : Connect(t) \/ Disconnect(t)
    \/ \E s \in Sessions : SessionStep(s) \/ UpstreamLost(s)
    \/ AppEnds

Spec == Init /\ [][Next]_vars

\* A call that has started goes on: tokio runs every ready task, the SSH and
\* helper requests it awaits are answered or fail.  Cancelled tasks end and
\* the helper reads the end of a connection.
Fairness ==
    /\ \A t \in Calls : WF_vars(pc[t] # "idle" /\ (Connect(t) \/ Disconnect(t)))
    /\ \A s \in Sessions : /\ WF_vars(PollWrite(s) \/ PollEnds(s))
                           /\ WF_vars(TasksEnd(s))
                           /\ WF_vars(HelperNotices(s))

FairSpec == Spec /\ Fairness

-----------------------------------------------------------------------------
(* Properties.                                                             *)

ConnectPoints ==
    {"resolve", "tcp", "auth", "open", "republish", "tunnel", "proxies", "routes",
     "bind", "apply", "tunio", "rb_proxies", "rb_ssh", "rb_error", "udpgw", "ready",
     "store"}
DisconnectPoints == {"take", "teardown", "stop", "hangup", "done"}

States == {"Disconnected", "Connecting", "Authenticating", "EstablishingTunnel",
           "Disconnecting", "Error"} \cup Up
Phases == {"Idle", "ResolvingServer", "EstablishingTcp", "Authenticating",
            "EstablishingTunnel", "ConfiguringRoutes", "Ready", "Failed"}

\* Every variable of the manager has its type, a call in connect works on a
\* session that was begun, and the helper's session is one whose connection
\* it knows: start_full_tunnel and disconnect never lose the HelperClient of
\* an applied session.
TypeOK ==
    /\ pc \in [Calls -> {"idle"} \cup ConnectPoints \cup DisconnectPoints]
    /\ mine \in [Calls -> 0 .. connects]
    /\ \A t \in Calls : pc[t] \in ConnectPoints => mine[t] # 0
    /\ connects \in 0 .. MaxConnects
    /\ prof \in [Sessions -> Profiles]
    /\ snap.state \in States /\ snap.phase \in Phases
    /\ active \in 0 .. connects
    /\ ssh \in [Sessions -> {"none", "open", "lost"}]
    /\ proxies \in [Sessions -> BOOLEAN]
    /\ tasks \in [Sessions -> SUBSET {"listeners", "udpgw"}]
    /\ stop \in [Sessions -> BOOLEAN]
    /\ poll \in [Sessions -> {"none", "asleep"} \cup Up]
    /\ link \in [Sessions -> {"none", "owner", "dropped"}]
    /\ net \in 0 .. connects
    /\ net # 0 => link[net] # "none"

\* Nobody will stop session s any more: it is not in `active` and no call
\* works on it.
Unowned(s) == active # s /\ \A t \in Calls : mine[t] # s

Released(s) ==
    /\ ssh[s] = "none"
    /\ ~proxies[s]
    /\ tasks[s] = {}
    /\ poll[s] = "none"
    /\ link[s] = "none"
    /\ net # s

\* What is in `active` is a whole session: its listeners, its SSH session and,
\* for a full tunnel, the helper's networking, the intercept listeners and
\* the helper connection belong to it, so that the one disconnect that takes
\* it can stop all of it.  connect stores it last and disconnect takes it
\* first, whatever the other callers do in between.
SessionIsWhole ==
    active # 0 =>
        /\ proxies[active]
        /\ ssh[active] # "none" <=> prof[active].ssh
        /\ poll[active] # "none"
        /\ ~stop[active]
        /\ prof[active].tun => /\ net = active
                               /\ link[active] = "owner"
                               /\ "listeners" \in tasks[active]

\* Whatever a session holds can still be stopped: once no call works on it
\* and it is not active, its SSH session and ports are closed, its tasks have
\* been told to stop and the helper connection is closed.  Two connects in
\* flight keep it because both bind the same local ports.
NoOrphan ==
    \A s \in Sessions : Unowned(s) =>
        /\ ssh[s] = "none"
        /\ ~proxies[s]
        /\ tasks[s] # {} => stop[s]
        /\ poll[s] # "none" => stop[s]
        /\ link[s] # "owner"

\* A session that was disconnected, failed or lost its application ends with
\* everything it held released: ports, SSH, tasks, the helper's networking.
UnownedIsReleased ==
    \A s \in Sessions : (s <= connects /\ Unowned(s)) ~> Released(s)

\* The networking is lent as TunnelLease says, whatever calls, rollbacks and
\* restarts of the application overlap: connect never takes it from a session
\* that still has it, and a HelperClient once dropped is not used again.
Lease == INSTANCE TunnelLease WITH
    Owners <- Sessions, NoOwner <- 0,
    holder <- net, alive <- (net # 0 /\ link[net] = "owner")
LeaseIsKept == Lease!Spec
=============================================================================
