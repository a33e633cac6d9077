---------------------- MODULE ConnectionManagerProofs ----------------------
(***************************************************************************)
(* The session in `active` is whole, for every number of callers and of    *)
(* connects and whatever profiles they use.                                *)
(*                                                                         *)
(* The argument: no two calls work on the same session and none works on   *)
(* the active one (Exclusive), so a call changes what its own session      *)
(* holds and nothing else; a connect collects the parts of its session in  *)
(* the order of its steps (Collected); and the helper's networking belongs *)
(* to the one session whose connection it still knows (OneOwner).          *)
(***************************************************************************)
EXTENDS ConnectionManager, TLAPS

Exclusive ==
    /\ \A t, u \in Calls : mine[t] # 0 /\ mine[t] = mine[u] => t = u
    /\ \A t \in Calls : mine[t] # 0 => mine[t] # active

OneOwner == \A s \in Sessions : link[s] # "none" <=> net = s

\* A session that has not begun holds nothing.
Fresh(s) == ssh[s] = "none" /\ ~stop[s]

\* The points of connect by what its session has by then.
Before    == {"resolve", "tcp", "auth", "open"}
Opened    == {"republish", "tunnel", "proxies"}
Listening == {"routes", "bind", "apply", "tunio", "udpgw", "ready", "store"}

\* What session s, worked on by a connect at point l, has collected.
Collected(s, l) ==
    /\ l \in Before => Fresh(s)
    /\ l \in Opened \cup Listening => ~stop[s] /\ (ssh[s] # "none" <=> prof[s].ssh)
    /\ l \in Listening => proxies[s]
    /\ l \in {"routes", "bind", "apply", "tunio"} => prof[s].tun
    /\ l = "udpgw" => ~prof[s].tun
    /\ l \in {"apply", "tunio"} => "listeners" \in tasks[s]
    /\ l = "tunio" => link[s] = "owner"
    /\ l \in {"ready", "store"} /\ prof[s].tun =>
            link[s] = "owner" /\ "listeners" \in tasks[s]
    /\ l = "store" => poll[s] # "none"

\* The same for the active session; SessionIsWhole without net, which
\* OneOwner gives.
Whole(s) ==
    /\ proxies[s]
    /\ ssh[s] # "none" <=> prof[s].ssh
    /\ poll[s] # "none"
    /\ ~stop[s]
    /\ prof[s].tun => link[s] = "owner" /\ "listeners" \in tasks[s]

\* A call works on a session exactly where it uses one; a disconnect that
\* found none has none at its end.
Working ==
    \A t \in Calls :
        /\ pc[t] \in {"idle", "take"} => mine[t] = 0
        /\ pc[t] \in {"teardown", "stop", "hangup"} => mine[t] # 0

ManagerInv ==
    /\ TypeOK
    /\ Exclusive
    /\ OneOwner
    /\ Working
    /\ \A s \in Sessions : s > connects => Fresh(s)
    /\ \A t \in Calls : pc[t] \in ConnectPoints => Collected(mine[t], pc[t])
    /\ active # 0 => Whole(active)
-----------------------------------------------------------------------------
(* What a call may change.                                                 *)

\* The step leaves what session s holds alone.
Same(s) ==
    /\ ssh'[s] = ssh[s]
    /\ proxies'[s] = proxies[s]
    /\ tasks'[s] = tasks[s]
    /\ stop'[s] = stop[s]
    /\ poll'[s] = poll[s]
    /\ link'[s] = link[s]
    /\ prof'[s] = prof[s]

\* How a step of call t moves sessions between `active` and the call.
Moves(t) ==
    \/ mine'[t] = mine[t] /\ UNCHANGED <<active, connects>>
    \/ mine'[t] = 0 /\ UNCHANGED <<active, connects>>
    \/ mine'[t] = 0 /\ active' = mine[t] /\ mine[t] # 0 /\ UNCHANGED connects
    \/ mine'[t] = active /\ active' = 0 /\ UNCHANGED connects
    \/ /\ mine'[t] = connects + 1 /\ connects' = connects + 1
       /\ connects < MaxConnects /\ UNCHANGED active

\* A call changes its own session only, and the active one when it replaces
\* or takes it.
LEMMA CallFrame ==
  ASSUME TypeOK, Working, NEW t \in Calls, Connect(t) \/ Disconnect(t)
  PROVE  /\ \A u \in Calls : u # t => pc'[u] = pc[u] /\ mine'[u] = mine[u]
         /\ Moves(t)
         /\ \A s \in Sessions :
              s # mine[t] /\ s # mine'[t] /\ (s = active => active' = active) => Same(s)
<1>1. /\ pc \in [Calls -> {"idle"} \cup ConnectPoints \cup DisconnectPoints]
      /\ mine \in [Calls -> 0 .. connects]
      /\ pc[t] \in ConnectPoints => mine[t] # 0
      /\ pc[t] = "take" => mine[t] = 0
      /\ connects \in 0 .. MaxConnects /\ MaxConnects \in Nat
      /\ active \in 0 .. connects
      /\ prof \in [Sessions -> Profiles]
      /\ ssh \in [Sessions -> {"none", "open", "lost"}]
      /\ proxies \in [Sessions -> BOOLEAN]
      /\ tasks \in [Sessions -> SUBSET {"listeners", "udpgw"}]
      /\ stop \in [Sessions -> BOOLEAN]
      /\ poll \in [Sessions -> {"none", "asleep"} \cup Up]
      /\ link \in [Sessions -> {"none", "owner", "dropped"}]
  BY Zenon, ManagerAssumption DEF TypeOK, Working
<1>2. CASE StartConnect(t)
  BY Zenon, <1>1, <1>2 DEF StartConnect, Moves, Same, res
<1>3. CASE \/ Announce(t) \/ OpenFails(t) \/ Republish(t) \/ EnterTunnel(t)
           \/ EnterRoutes(t) \/ BindFails(t) \/ OpenTun(t) \/ RollbackError(t)
           \/ StartDisconnect(t) \/ Done(t)
  BY Zenon, <1>1, <1>3 DEF Announce, OpenFails, Republish, EnterTunnel, EnterRoutes,
     BindFails, OpenTun, RollbackError, StartDisconnect, Done, Goto, Return,
     Moves, Same, res
<1>4. CASE OpenUpstream(t) \/ ProxiesFail(t) \/ RollbackSsh(t) \/ HangUp(t)
  BY Zenon, <1>1, <1>4 DEF OpenUpstream, ProxiesFail, RollbackSsh, HangUp, Goto, Return,
     Moves, Same
<1>5. CASE StartProxies(t) \/ RollbackProxies(t) \/ StopProxies(t)
  BY Zenon, <1>1, <1>5 DEF StartProxies, RollbackProxies, StopProxies, Goto, Moves, Same
<1>6. CASE BindIntercept(t) \/ StartUdpgw(t)
  BY Zenon, <1>1, <1>6 DEF BindIntercept, StartUdpgw, Spawned, Goto, Moves, Same
<1>7. CASE Apply(t) \/ ApplyFails(t) \/ OpenTunFails(t)
  BY <1>1, <1>7 DEF Apply, ApplyFails, OpenTunFails, Goto, Moves, Same
<1>8. CASE Ready(t)
  BY Zenon, <1>1, <1>8 DEF Ready, Goto, Moves, Same
<1>9. CASE Teardown(t)
  BY Zenon, <1>1, <1>9 DEF Teardown, Goto, Moves, Same
<1>10. CASE Store(t)
  BY Zenon, <1>1, <1>10 DEF Store, Return, Moves, Same, ConnectPoints
<1>11. CASE Take(t)
  BY Zenon, <1>1, <1>11 DEF Take, Moves, Same
<1> QED
  BY Zenon, <1>2, <1>3, <1>4, <1>5, <1>6, <1>7, <1>8, <1>9, <1>10, <1>11
     DEF Connect, Disconnect

\* No two calls share a session afterwards either: a session begun is new, a
\* session taken leaves `active`, a session stored leaves its call.
LEMMA ExclusiveStep ==
  ASSUME TypeOK, Working, Exclusive, NEW t \in Calls, Connect(t) \/ Disconnect(t)
  PROVE  Exclusive'
<1>1. /\ \A u \in Calls : mine[u] \in 0 .. connects
      /\ active \in 0 .. connects /\ connects \in Nat
  BY ManagerAssumption DEF TypeOK
<1>2. /\ \A u \in Calls : u # t => mine'[u] = mine[u]
      /\ Moves(t)
  BY Zenon, CallFrame
<1> QED
  BY <1>1, <1>2 DEF Exclusive, Moves

\* The points of a call go with the session it has.
LEMMA WorkingStep ==
  ASSUME TypeOK, Working, NEW t \in Calls, Connect(t) \/ Disconnect(t)
  PROVE  /\ Working'
         /\ pc' \in [Calls -> {"idle"} \cup ConnectPoints \cup DisconnectPoints]
         /\ \A u \in Calls : pc'[u] \in ConnectPoints => mine'[u] # 0
<1>1. /\ pc \in [Calls -> {"idle"} \cup ConnectPoints \cup DisconnectPoints]
      /\ mine \in [Calls -> 0 .. connects]
      /\ pc[t] \in ConnectPoints => mine[t] # 0
      /\ pc[t] \in {"idle", "take"} => mine[t] = 0
      /\ pc[t] \in {"teardown", "stop", "hangup"} => mine[t] # 0
      /\ connects \in Nat
  BY ManagerAssumption DEF TypeOK, Working
<1>2. \A u \in Calls : u # t => pc'[u] = pc[u] /\ mine'[u] = mine[u]
  BY Zenon, CallFrame
<1>3. /\ pc' = [pc EXCEPT ![t] = pc'[t]]
      /\ pc'[t] \in {"idle"} \cup ConnectPoints \cup DisconnectPoints
      /\ pc'[t] \in ConnectPoints => mine'[t] # 0
      /\ pc'[t] \in {"idle", "take"} => mine'[t] = 0
      /\ pc'[t] \in {"teardown", "stop", "hangup"} => mine'[t] # 0
  <2>1. CASE \/ StartConnect(t) \/ Announce(t) \/ OpenUpstream(t) \/ Republish(t)
             \/ EnterTunnel(t) \/ StartProxies(t) \/ EnterRoutes(t)
             \/ BindIntercept(t) \/ BindFails(t)
    BY <1>1, <2>1 DEF StartConnect, Announce, OpenUpstream, Republish, EnterTunnel,
       StartProxies, EnterRoutes, BindIntercept, BindFails, Goto, ConnectPoints,
       DisconnectPoints
  <2>2. CASE \/ Apply(t) \/ ApplyFails(t) \/ OpenTun(t) \/ OpenTunFails(t)
             \/ RollbackProxies(t) \/ RollbackSsh(t) \/ StartUdpgw(t) \/ Ready(t)
    BY Zenon, <1>1, <2>2 DEF Apply, ApplyFails, OpenTun, OpenTunFails, RollbackProxies,
       RollbackSsh, StartUdpgw, Ready, Goto, ConnectPoints, DisconnectPoints
  <2>3. CASE OpenFails(t) \/ ProxiesFail(t) \/ RollbackError(t) \/ Store(t) \/ Done(t)
    BY Zenon, <1>1, <2>3 DEF OpenFails, ProxiesFail, RollbackError, Store, Done, Return,
       ConnectPoints, DisconnectPoints
  <2>4. CASE StartDisconnect(t) \/ Take(t) \/ Teardown(t) \/ StopProxies(t) \/ HangUp(t)
    BY Zenon, <1>1, <2>4 DEF StartDisconnect, Take, Teardown, StopProxies, HangUp, Goto,
       ConnectPoints, DisconnectPoints
  <2> QED
    BY Zenon, <2>1, <2>2, <2>3, <2>4 DEF Connect, Disconnect
<1>4. Working'
  BY Zenon, <1>2, <1>3 DEF Working
<1>5. \A u \in Calls : pc'[u] \in ConnectPoints => mine'[u] # 0
  BY Zenon, <1>2, <1>3 DEF TypeOK
<1> QED
  BY Zenon, <1>1, <1>3, <1>4, <1>5

\* The types of what the sessions hold.
Resources ==
    /\ prof \in [Sessions -> Profiles]
    /\ ssh \in [Sessions -> {"none", "open", "lost"}]
    /\ proxies \in [Sessions -> BOOLEAN]
    /\ tasks \in [Sessions -> SUBSET {"listeners", "udpgw"}]
    /\ stop \in [Sessions -> BOOLEAN]
    /\ poll \in [Sessions -> {"none", "asleep"} \cup Up]
    /\ link \in [Sessions -> {"none", "owner", "dropped"}]

LEMMA ResourcesStep ==
  ASSUME TypeOK, NEW t \in Calls, Connect(t) \/ Disconnect(t)
  PROVE  Resources'
<1>1. Resources
  BY Zenon DEF TypeOK, Resources
<1>2. CASE StartConnect(t)
  <2>1. PICK p \in Profiles : prof' = [prof EXCEPT ![connects'] = p]
    BY Zenon, <1>2 DEF StartConnect
  <2>2. prof' \in [Sessions -> Profiles]
    BY Zenon, <1>1, <2>1 DEF Resources
  <2> QED
    BY Zenon, <1>1, <1>2, <2>2 DEF StartConnect, Resources, res
<1>3. CASE \/ Announce(t) \/ OpenFails(t) \/ Republish(t) \/ EnterTunnel(t)
           \/ EnterRoutes(t) \/ BindFails(t) \/ OpenTun(t) \/ RollbackError(t)
           \/ StartDisconnect(t) \/ Done(t)
  BY Zenon, <1>1, <1>3 DEF Announce, OpenFails, Republish, EnterTunnel, EnterRoutes,
     BindFails, OpenTun, RollbackError, StartDisconnect, Done, Resources, res
<1>4. CASE OpenUpstream(t) \/ ProxiesFail(t) \/ RollbackSsh(t) \/ HangUp(t)
  BY Zenon, <1>1, <1>4 DEF OpenUpstream, ProxiesFail, RollbackSsh, HangUp, Resources
<1>5. CASE StartProxies(t) \/ RollbackProxies(t) \/ StopProxies(t)
  BY Zenon, <1>1, <1>5 DEF StartProxies, RollbackProxies, StopProxies, Resources
<1>6. CASE BindIntercept(t) \/ StartUdpgw(t)
  <2>1. PICK ts \in SUBSET {"listeners"}, gw \in SUBSET {"udpgw"} :
           tasks' = [tasks EXCEPT ![mine[t]] = ts \cup gw]
    BY Zenon, <1>6 DEF BindIntercept, StartUdpgw, Spawned
  <2>2. tasks' \in [Sessions -> SUBSET {"listeners", "udpgw"}]
    <3>1. ts \cup gw \in SUBSET {"listeners", "udpgw"}
      BY Zenon
    <3> QED
      BY Zenon, <1>1, <2>1, <3>1 DEF Resources
  <2> QED
    BY Zenon, <1>1, <1>6, <2>2 DEF BindIntercept, StartUdpgw, Resources
<1>7. CASE Apply(t) \/ OpenTunFails(t)
  BY Zenon, <1>1, <1>7 DEF Apply, OpenTunFails, Resources
<1>8. CASE ApplyFails(t) \/ Take(t)
  BY Zenon, <1>1, <1>8 DEF ApplyFails, Take, Resources
<1>9. CASE Teardown(t)
  BY Zenon, <1>1, <1>9 DEF Teardown, Resources
<1>10. CASE Ready(t)
  BY Zenon, <1>1, <1>10 DEF Ready, Resources
<1>11. CASE Store(t)
  BY Zenon, <1>1, <1>11 DEF Store, Resources
<1> QED
  BY Zenon, <1>2, <1>3, <1>4, <1>5, <1>6, <1>7, <1>8, <1>9, <1>10, <1>11
     DEF Connect, Disconnect

\* The helper's networking follows the connection of its owner.
LEMMA OwnerStep ==
  ASSUME ManagerInv, NEW t \in Calls, Connect(t) \/ Disconnect(t)
  PROVE  /\ OneOwner'
         /\ net' \in {0, net, mine[t]}
<1>1. /\ link \in [Sessions -> {"none", "owner", "dropped"}]
      /\ mine[t] \in 0 .. MaxConnects /\ MaxConnects \in Nat
      /\ pc[t] \in ConnectPoints \cup {"teardown"} => mine[t] \in Sessions
      /\ net \in 0 .. MaxConnects
      /\ OneOwner
      /\ pc[t] = "tunio" => link[mine[t]] = "owner"
  BY ManagerAssumption DEF ManagerInv, Collected, ConnectPoints, TypeOK, Working, Sessions
<1>2. CASE Apply(t)
  BY <1>1, <1>2 DEF Apply, OneOwner, ConnectPoints, Sessions
<1>3. CASE OpenTunFails(t)
  <2>1. mine[t] \in Sessions
    BY Zenon, <1>1, <1>3 DEF OpenTunFails, ConnectPoints
  <2> QED
    BY Zenon, <1>1, <1>3, <2>1 DEF OpenTunFails, OneOwner
<1>4. CASE Teardown(t)
  BY <1>1, <1>4 DEF Teardown, OneOwner, Sessions
<1>5. CASE Store(t)
  BY Zenon, <1>1, <1>5 DEF Store, OneOwner
<1>6. CASE UNCHANGED <<link, net>>
  BY Zenon, <1>1, <1>6 DEF OneOwner
<1>7. \/ Apply(t) \/ OpenTunFails(t) \/ Teardown(t) \/ Store(t)
      \/ UNCHANGED <<link, net>>
  BY Zenon DEF Connect, Disconnect, StartConnect, Announce, OpenUpstream, OpenFails,
     Republish, EnterTunnel, StartProxies, ProxiesFail, EnterRoutes, BindIntercept,
     BindFails, ApplyFails, OpenTun, RollbackProxies, RollbackSsh, RollbackError,
     StartUdpgw, Ready, StartDisconnect, Take, StopProxies, HangUp, Done, res
<1> QED
  BY Zenon, <1>2, <1>3, <1>4, <1>5, <1>6, <1>7

\* The connect that moves has collected what its new point says.
LEMMA OwnStep ==
  ASSUME ManagerInv, NEW t \in Calls, Connect(t) \/ Disconnect(t),
         pc'[t] \in ConnectPoints
  PROVE  Collected(mine[t], pc[t])'
<1>1. /\ pc \in [Calls -> {"idle"} \cup ConnectPoints \cup DisconnectPoints]
      /\ mine \in [Calls -> 0 .. connects]
      /\ pc[t] \in ConnectPoints => mine[t] \in Sessions /\ Collected(mine[t], pc[t])
      /\ connects \in 0 .. MaxConnects /\ MaxConnects \in Nat
      /\ \A s \in Sessions : s > connects => Fresh(s)
      /\ Resources
  BY ManagerAssumption DEF ManagerInv, TypeOK, Resources, Sessions
<1>2. \A s \in Sessions : prof[s].ssh \in BOOLEAN /\ prof[s].tun \in BOOLEAN
  BY Zenon, <1>1, ManagerAssumption DEF Resources
<1>3. CASE StartConnect(t)
  BY <1>1, <1>3 DEF StartConnect, Collected, Fresh, Before, Opened, Listening, res,
     Sessions
<1>4. CASE Announce(t) \/ Republish(t) \/ EnterTunnel(t)
  BY Zenon, <1>1, <1>4 DEF Announce, Republish, EnterTunnel, Goto, Collected, Fresh, Before,
     Opened, Listening, ConnectPoints, res
<1>5. CASE OpenUpstream(t)
  BY <1>1, <1>2, <1>5 DEF OpenUpstream, Goto, Collected, Fresh, Before, Opened,
     Listening, ConnectPoints, Resources
<1>6. CASE StartProxies(t)
  BY Zenon, <1>1, <1>2, <1>6 DEF StartProxies, Goto, Collected, Before, Opened, Listening,
     ConnectPoints, Resources
<1>7. CASE EnterRoutes(t) \/ OpenTun(t)
  BY Zenon, <1>1, <1>7 DEF EnterRoutes, OpenTun, Goto, Collected, Before, Opened, Listening,
     ConnectPoints, res
<1>8. CASE BindIntercept(t)
  BY <1>1, <1>8 DEF BindIntercept, Spawned, Goto, Collected, Before, Opened,
     Listening, ConnectPoints, Resources
<1>9. CASE Apply(t)
  BY Zenon, <1>1, <1>9 DEF Apply, Goto, Collected, Before, Opened, Listening, ConnectPoints,
     Resources
<1>10. CASE StartUdpgw(t)
  BY Zenon, <1>1, <1>10 DEF StartUdpgw, Spawned, Goto, Collected, Before, Opened, Listening,
     ConnectPoints, Resources
<1>11. CASE Ready(t)
  BY Zenon, <1>1, <1>11 DEF Ready, Goto, Collected, Before, Opened, Listening,
     ConnectPoints, Resources
<1>12. CASE BindFails(t) \/ ApplyFails(t) \/ OpenTunFails(t) \/ RollbackProxies(t)
            \/ RollbackSsh(t)
  BY Zenon, <1>1, <1>12 DEF BindFails, ApplyFails, OpenTunFails, RollbackProxies,
     RollbackSsh, Goto, Collected, Before, Opened, Listening
<1>13. CASE \/ OpenFails(t) \/ ProxiesFail(t) \/ RollbackError(t) \/ Store(t)
            \/ Disconnect(t)
  BY Zenon, <1>1, <1>13 DEF OpenFails, ProxiesFail, RollbackError, Store, Disconnect,
     StartDisconnect, Take, Teardown, StopProxies, HangUp, Done, Return, Goto,
     ConnectPoints
<1> QED
  BY Zenon, <1>3, <1>4, <1>5, <1>6, <1>7, <1>8, <1>9, <1>10, <1>11, <1>12, <1>13
     DEF Connect

\* A step of a call keeps the invariant.
LEMMA CallStep ==
  ASSUME ManagerInv, NEW t \in Calls, Connect(t) \/ Disconnect(t)
  PROVE  ManagerInv'
<1>1. /\ TypeOK /\ Working /\ Exclusive
      /\ \A u \in Calls : mine[u] \in 0 .. connects
      /\ active \in 0 .. connects /\ net \in 0 .. connects
      /\ connects \in 0 .. MaxConnects /\ MaxConnects \in Nat
  BY Zenon, ManagerAssumption DEF ManagerInv, TypeOK
<1>2. /\ \A u \in Calls : u # t => pc'[u] = pc[u] /\ mine'[u] = mine[u]
      /\ Moves(t)
      /\ \A s \in Sessions :
           s # mine[t] /\ s # mine'[t] /\ (s = active => active' = active) => Same(s)
  BY Zenon, <1>1, CallFrame
<1>3. Exclusive'
  BY Zenon, <1>1, ExclusiveStep
<1>4. /\ Working'
      /\ pc' \in [Calls -> {"idle"} \cup ConnectPoints \cup DisconnectPoints]
      /\ \A u \in Calls : pc'[u] \in ConnectPoints => mine'[u] # 0
  BY Zenon, <1>1, WorkingStep
<1>5. OneOwner' /\ net' \in {0, net, mine[t]}
  BY Zenon, OwnerStep
<1>6. TypeOK'
  <2>1. Resources'
    BY Zenon, <1>1, ResourcesStep
  <2>2. /\ connects' \in 0 .. MaxConnects
        /\ connects <= connects'
        /\ active' \in 0 .. connects'
        /\ mine'[t] \in 0 .. connects'
        /\ net' \in 0 .. connects'
    BY SMTT(30), <1>1, <1>2, <1>5 DEF Moves
  <2>3. mine' = [mine EXCEPT ![t] = mine'[t]]
    BY Zenon DEF ManagerInv, TypeOK, Connect, Disconnect, StartConnect, Announce,
       OpenUpstream, OpenFails, Republish, EnterTunnel, StartProxies, ProxiesFail,
       EnterRoutes, BindIntercept, BindFails, Apply, ApplyFails, OpenTun,
       OpenTunFails, RollbackProxies, RollbackSsh, RollbackError, StartUdpgw, Ready,
       Store, StartDisconnect, Take, Teardown, StopProxies, HangUp, Done, Goto, Return
  <2>4. mine' \in [Calls -> 0 .. connects']
    BY <1>1, <2>2, <2>3 DEF TypeOK
  <2>5. snap'.state \in States /\ snap'.phase \in Phases
    <3>1. \/ UNCHANGED snap
          \/ \E st \in States, ph \in Phases : Publish(st, ph)
      <4>1. CASE \/ StartConnect(t) \/ OpenUpstream(t) \/ StartProxies(t)
                 \/ ProxiesFail(t) \/ BindIntercept(t) \/ BindFails(t) \/ Apply(t)
                 \/ ApplyFails(t) \/ OpenTun(t) \/ OpenTunFails(t)
                 \/ RollbackProxies(t) \/ RollbackSsh(t) \/ StartUdpgw(t) \/ Store(t)
                 \/ Take(t) \/ Teardown(t) \/ StopProxies(t) \/ HangUp(t)
        BY Zenon, <4>1 DEF StartConnect, OpenUpstream, StartProxies, ProxiesFail,
           BindIntercept, BindFails, Apply, ApplyFails, OpenTun, OpenTunFails,
           RollbackProxies, RollbackSsh, StartUdpgw, Store, Take, Teardown,
           StopProxies, HangUp
      <4>2. CASE Announce(t) \/ OpenFails(t) \/ Republish(t) \/ EnterTunnel(t)
        BY Zenon, <4>2 DEF Announce, OpenFails, Republish, EnterTunnel, States, Phases
      <4>3. CASE EnterRoutes(t) \/ RollbackError(t) \/ StartDisconnect(t) \/ Done(t)
        BY Zenon, <4>3 DEF EnterRoutes, RollbackError, StartDisconnect, Done, States, Phases
      <4>4. CASE Ready(t)
        BY Zenon, <4>4 DEF Ready, States, Phases, Up
      <4> QED
        BY ZenonT(40), <4>1, <4>2, <4>3, <4>4 DEF Connect, Disconnect
    <3> QED
      BY <1>1, <3>1 DEF TypeOK, Publish, Snapshot
  <2>6. net' # 0 => link'[net'] # "none"
    BY <1>1, <1>5, <2>2 DEF OneOwner, Sessions
  <2> QED
    BY Zenon, <1>4, <2>1, <2>2, <2>4, <2>5, <2>6 DEF TypeOK, Resources
<1>7. \A s \in Sessions : s > connects' => Fresh(s)'
  <2> SUFFICES ASSUME NEW s \in Sessions, s > connects'
               PROVE  Fresh(s)'
    BY Zenon
  <2>1. s > connects /\ s # mine[t] /\ s # mine'[t] /\ s # active
    BY <1>1, <1>2 DEF Moves, Sessions
  <2> QED
    BY Zenon, <1>2, <2>1 DEF ManagerInv, Fresh, Same
<1>8. \A u \in Calls : pc'[u] \in ConnectPoints => Collected(mine[u], pc[u])'
  <2> SUFFICES ASSUME NEW u \in Calls, pc'[u] \in ConnectPoints
               PROVE  Collected(mine[u], pc[u])'
    BY Zenon
  <2>1. CASE u = t
    BY Zenon, <2>1, OwnStep
  <2>2. CASE u # t
    <3>1. pc'[u] = pc[u] /\ mine'[u] = mine[u] /\ Collected(mine[u], pc[u])
      BY Zenon, <1>2, <2>2 DEF ManagerInv
    <3>2. /\ mine[u] \in Sessions /\ mine[u] # mine[t] /\ mine[u] # mine'[t]
          /\ mine[u] # active
      BY SMTT(30), <1>1, <1>3, <1>4, <2>2, <3>1 DEF Exclusive, Sessions, TypeOK
    <3>3. Same(mine[u])
      BY Zenon, <1>2, <3>2
    <3> QED
      BY Zenon, <3>1, <3>3 DEF Same, Collected, Fresh
  <2> QED
    BY Zenon, <2>1, <2>2
<1>9. active' # 0 => Whole(active)'
  <2> SUFFICES ASSUME active' # 0
               PROVE  Whole(active)'
    BY Zenon
  <2>1. CASE active' = active
    <3>1. active \in Sessions /\ active # mine[t] /\ active # mine'[t]
      BY <1>1, <1>3, <2>1 DEF Exclusive, Sessions
    <3>2. Same(active) /\ Whole(active)
      BY Zenon, <1>2, <2>1, <3>1 DEF ManagerInv
    <3> QED
      BY Zenon, <2>1, <3>2 DEF Same, Whole
  <2>2. CASE active' # active
    <3>1. Store(t)
      BY Zenon, <2>2 DEF Connect, Disconnect, StartConnect, Announce, OpenUpstream,
         OpenFails, Republish, EnterTunnel, StartProxies, ProxiesFail, EnterRoutes,
         BindIntercept, BindFails, Apply, ApplyFails, OpenTun, OpenTunFails,
         RollbackProxies, RollbackSsh, RollbackError, StartUdpgw, Ready,
         StartDisconnect, Take, Teardown, StopProxies, HangUp, Done
    <3>2. mine[t] # 0 /\ mine[t] # active /\ Collected(mine[t], "store")
      BY Zenon, <1>1, <3>1 DEF Store, ManagerInv, TypeOK, ConnectPoints, Exclusive
    <3>3. mine[t] \in Sessions
      BY <1>1, <3>2 DEF Sessions
    <3> QED
      BY Zenon, <3>1, <3>2, <3>3 DEF Store, Collected, Whole, Opened, Listening
  <2> QED
    BY Zenon, <2>1, <2>2
<1> QED
  BY Zenon, <1>3, <1>4, <1>5, <1>6, <1>7, <1>8, <1>9 DEF ManagerInv
-----------------------------------------------------------------------------
(* The tasks of a session, the environment and the end of the application. *)

\* A session that was not told to stop keeps all it has collected, and keeps
\* its helper connection while it holds it.
Kept(s) ==
    /\ ssh'[s] # "none" <=> ssh[s] # "none"
    /\ ~stop[s] => /\ tasks'[s] = tasks[s]
                   /\ poll'[s] # "none" <=> poll[s] # "none"
    /\ link[s] = "owner" => link'[s] = "owner"

LEMMA SessionKeeps ==
  ASSUME ManagerInv, NEW s \in Sessions, SessionStep(s) \/ UpstreamLost(s)
  PROVE  /\ UNCHANGED <<pc, mine, connects, prof, active, proxies, stop>>
         /\ \A r \in Sessions : Kept(r)
         /\ Resources'
         /\ OneOwner' /\ net' \in {0, net}
         /\ snap'.state \in States /\ snap'.phase \in Phases
<1>1. /\ Resources /\ OneOwner
      /\ snap.state \in States /\ snap.phase \in Phases
      /\ net \in Nat /\ 0 \notin Sessions
  BY ManagerAssumption DEF ManagerInv, TypeOK, Resources, Sessions
<1>2. CASE PollRead(s)
  BY Zenon, <1>1, <1>2 DEF PollRead, Kept, Resources, OneOwner, Up
<1>3. CASE PollWrite(s)
  BY Zenon, <1>1, <1>3 DEF PollWrite, Publish, Snapshot, Kept, Resources, OneOwner, Up,
     States, Phases
<1>4. CASE PollEnds(s)
  BY Zenon, <1>1, <1>4 DEF PollEnds, Kept, Resources, OneOwner
<1>5. CASE TasksEnd(s)
  BY Zenon, <1>1, <1>5 DEF TasksEnd, Kept, Resources, OneOwner
<1>6. CASE HelperNotices(s)
  BY Zenon, <1>1, <1>6 DEF HelperNotices, Kept, Resources, OneOwner
<1>7. CASE UpstreamLost(s)
  BY Zenon, <1>1, <1>7 DEF UpstreamLost, Kept, Resources, OneOwner
<1> QED
  BY Zenon, <1>2, <1>3, <1>4, <1>5, <1>6, <1>7 DEF SessionStep

LEMMA SessionStepKeepsInv ==
  ASSUME ManagerInv, NEW s \in Sessions, SessionStep(s) \/ UpstreamLost(s)
  PROVE  ManagerInv'
<1>1. /\ UNCHANGED <<pc, mine, connects, prof, active, proxies, stop>>
      /\ \A r \in Sessions : Kept(r)
      /\ Resources'
      /\ OneOwner' /\ net' \in {0, net}
      /\ snap'.state \in States /\ snap'.phase \in Phases
  BY Zenon, SessionKeeps
<1>2. TypeOK'
  <2>1. net' # 0 => link'[net'] # "none"
    BY <1>1, ManagerAssumption DEF OneOwner, ManagerInv, TypeOK, Sessions
  <2> QED
    BY <1>1, <2>1 DEF ManagerInv, TypeOK, Resources
<1>3. Exclusive' /\ Working'
  BY Zenon, <1>1 DEF ManagerInv, Exclusive, Working
<1>4. \A r \in Sessions : r > connects' => Fresh(r)'
  BY Zenon, <1>1 DEF ManagerInv, Fresh, Kept
<1>5. \A t \in Calls : pc'[t] \in ConnectPoints => Collected(mine[t], pc[t])'
  <2> SUFFICES ASSUME NEW t \in Calls, pc[t] \in ConnectPoints
               PROVE  Collected(mine[t], pc[t])'
    BY Zenon, <1>1
  <2>1. mine[t] \in Sessions /\ Collected(mine[t], pc[t])
    BY ManagerAssumption DEF ManagerInv, TypeOK, Sessions
  <2>2. Kept(mine[t])
    BY Zenon, <1>1, <2>1
  <2> QED
    BY Zenon, <1>1, <2>1, <2>2 DEF Collected, Fresh, Kept, Opened, Listening
<1>6. active' # 0 => Whole(active)'
  <2> SUFFICES ASSUME active # 0
               PROVE  Whole(active)'
    BY Zenon, <1>1
  <2>1. active \in Sessions /\ Whole(active)
    BY ManagerAssumption DEF ManagerInv, TypeOK, Sessions
  <2>2. Kept(active)
    BY Zenon, <1>1, <2>1
  <2> QED
    BY Zenon, <1>1, <2>1, <2>2 DEF Whole, Kept
<1> QED
  BY Zenon, <1>1, <1>2, <1>3, <1>4, <1>5, <1>6 DEF ManagerInv

LEMMA AppEndsKeepsInv ==
  ASSUME ManagerInv, AppEnds
  PROVE  ManagerInv'
<1>1. /\ link \in [Sessions -> {"none", "owner", "dropped"}]
      /\ connects \in 0 .. MaxConnects /\ MaxConnects \in Nat
      /\ net \in 0 .. connects /\ OneOwner
  BY Zenon, ManagerAssumption DEF ManagerInv, TypeOK
<1>2. OneOwner'
  BY Zenon, <1>1 DEF AppEnds, OneOwner
<1>3. net' # 0 => link'[net'] # "none"
  BY <1>1, <1>2 DEF AppEnds, OneOwner, Sessions
<1>4. TypeOK'
  <2>1. /\ pc' \in [Calls -> {"idle"} \cup ConnectPoints \cup DisconnectPoints]
        /\ mine' \in [Calls -> 0 .. connects']
        /\ \A t \in Calls : pc'[t] \in ConnectPoints => mine'[t] # 0
        /\ connects' \in 0 .. MaxConnects /\ active' \in 0 .. connects'
        /\ net' \in 0 .. connects'
        /\ snap'.state \in States /\ snap'.phase \in Phases
    BY <1>1 DEF AppEnds, Snapshot, States, Phases, ConnectPoints
  <2>2. Resources'
    BY Zenon, <1>1 DEF AppEnds, Resources, ManagerInv, TypeOK
  <2> QED
    BY Zenon, <1>3, <2>1, <2>2 DEF TypeOK, Resources
<1>5. Exclusive' /\ Working'
  BY Zenon DEF AppEnds, Exclusive, Working
<1>6. \A s \in Sessions : s > connects' => Fresh(s)'
  BY Zenon DEF AppEnds, Fresh
<1>7. /\ \A t \in Calls : pc'[t] \notin ConnectPoints
      /\ active' = 0
  BY Zenon DEF AppEnds, ConnectPoints
<1> QED
  BY Zenon, <1>2, <1>4, <1>5, <1>6, <1>7 DEF ManagerInv
-----------------------------------------------------------------------------
LEMMA ManagerInit == Init => ManagerInv
<1> SUFFICES ASSUME Init
             PROVE  ManagerInv
  BY Zenon
<1>1. MaxConnects \in Nat /\ Profiles # {}
  BY Zenon, ManagerAssumption
<1>2. (CHOOSE p \in Profiles : TRUE) \in Profiles
  BY Zenon, <1>1
<1>3. TypeOK
  BY <1>1, <1>2 DEF Init, TypeOK, Snapshot, States, Phases, ConnectPoints
<1>4. Exclusive /\ OneOwner /\ Working
  BY <1>1 DEF Init, Exclusive, OneOwner, Working, Sessions
<1>5. \A s \in Sessions : Fresh(s)
  BY Zenon DEF Init, Fresh
<1>6. /\ \A t \in Calls : pc[t] \notin ConnectPoints
      /\ active = 0
  BY Zenon DEF Init, ConnectPoints
<1> QED
  BY Zenon, <1>3, <1>4, <1>5, <1>6 DEF ManagerInv

LEMMA ManagerStep == ManagerInv /\ [Next]_vars => ManagerInv'
<1> SUFFICES ASSUME ManagerInv, [Next]_vars
             PROVE  ManagerInv'
  BY Zenon
<1>1. CASE \E t \in Calls : Connect(t) \/ Disconnect(t)
  BY Zenon, <1>1, CallStep
<1>2. CASE \E s \in Sessions : SessionStep(s) \/ UpstreamLost(s)
  BY Zenon, <1>2, SessionStepKeepsInv
<1>3. CASE AppEnds
  BY Zenon, <1>3, AppEndsKeepsInv
<1>4. CASE UNCHANGED vars
  BY Zenon, <1>4 DEF vars, ManagerInv, TypeOK, Exclusive, OneOwner, Working, Fresh,
     Collected, Whole
<1> QED
  BY Zenon, <1>1, <1>2, <1>3, <1>4 DEF Next

LEMMA ManagerInvariant == Spec => []ManagerInv
<1> QED
  BY ManagerInit, ManagerStep, PTL DEF Spec

\* TypeOK, with the part that is not typing: start_full_tunnel and disconnect
\* never lose the helper connection of the session the helper has applied.
THEOREM ManagerTypeCorrect == Spec => []TypeOK
<1>1. ManagerInv => TypeOK
  BY Zenon DEF ManagerInv
<1> QED
  BY <1>1, ManagerInvariant, PTL

\* For any callers, connects and profiles, the session that disconnect would
\* take from `active` has every part it has to stop.
THEOREM ActiveIsWhole == Spec => []SessionIsWhole
<1>1. ManagerInv => SessionIsWhole
  <2> SUFFICES ASSUME ManagerInv, active # 0
               PROVE  SessionIsWhole
    BY Zenon DEF SessionIsWhole
  <2>1. active \in Sessions /\ Whole(active) /\ OneOwner
    BY ManagerAssumption DEF ManagerInv, TypeOK, Sessions
  <2> QED
    BY Zenon, <2>1 DEF Whole, OneOwner, SessionIsWhole
<1> QED
  BY <1>1, ManagerInvariant, PTL

-----------------------------------------------------------------------------
(* The manager implements TunnelLease.                                     *)

Alive == net # 0 /\ link[net] = "owner"

\* The three ways in which a step of the manager may change the lease.
LeaseMove ==
    \/ net' = net /\ (Alive' => Alive)
    \/ net = 0 /\ net' \in Sessions
    \/ net' = 0

\* Every such change is a step of TunnelLease.
LEMMA LeaseMoves == LeaseMove => [Lease!Next]_(Lease!lease)
<1> SUFFICES ASSUME LeaseMove
             PROVE  [Lease!Next]_(Lease!lease)
  BY Zenon
<1>1. CASE net' = net /\ (Alive' => Alive)
  <2>1. CASE Alive' <=> Alive
    <3>1. (net' # 0 /\ link'[net'] = "owner") = (net # 0 /\ link[net] = "owner")
      BY Zenon, <2>1 DEF Alive
    <3> QED
      BY Zenon, <1>1, <3>1 DEF Lease!lease
  <2>2. CASE Alive /\ ~Alive'
    <3>1. (net' # 0 /\ link'[net'] = "owner") = FALSE /\ net # 0 /\ link[net] = "owner"
      BY Zenon, <2>2 DEF Alive
    <3>2. Lease!Lose
      BY Zenon, <1>1, <3>1 DEF Lease!Lose
    <3> QED
      BY Zenon, <3>2 DEF Lease!Next
  <2> QED
    BY Zenon, <1>1, <2>1, <2>2
<1>2. CASE net = 0 /\ net' \in Sessions
  <2>1. (net' # 0 /\ link'[net'] = "owner") \in BOOLEAN
    BY Zenon
  <2>2. Lease!Grant(net')
    BY Zenon, <1>2, <2>1 DEF Lease!Grant
  <2> QED
    BY Zenon, <1>2, <2>2 DEF Lease!Next
<1>3. CASE net' = 0
  <2>1. (net' # 0 /\ link'[net'] = "owner") = FALSE
    BY Zenon, <1>3
  <2>2. CASE net = 0
    <3>1. (net # 0 /\ link[net] = "owner") = FALSE
      BY Zenon, <2>2
    <3> QED
      BY Zenon, <1>3, <2>1, <2>2, <3>1 DEF Lease!lease
  <2>3. CASE net # 0
    <3>1. Lease!End
      BY Zenon, <1>3, <2>1, <2>3 DEF Lease!End
    <3> QED
      BY Zenon, <3>1 DEF Lease!Next
  <2> QED
    BY Zenon, <2>2, <2>3
<1> QED
  BY Zenon, <1>1, <1>2, <1>3 DEF LeaseMove

LEMMA CallLease ==
  ASSUME TypeOK, NEW t \in Calls, Connect(t) \/ Disconnect(t)
  PROVE  LeaseMove
<1>1. /\ link \in [Sessions -> {"none", "owner", "dropped"}]
      /\ net \in 0 .. connects /\ mine[t] \in 0 .. connects
      /\ connects \in 0 .. MaxConnects /\ MaxConnects \in Nat
      /\ net # 0 => net \in Sessions
      /\ pc[t] \in ConnectPoints => mine[t] \in Sessions
  BY ManagerAssumption DEF TypeOK, Sessions
<1>2. CASE Apply(t)
  <2>1. mine[t] \in Sessions
    BY Zenon, <1>1, <1>2 DEF Apply, ConnectPoints
  <2> QED
    BY Zenon, <1>2, <2>1 DEF Apply, LeaseMove
<1>3. CASE OpenTunFails(t)
  BY Zenon, <1>1, <1>3 DEF OpenTunFails, LeaseMove, Alive
<1>4. CASE Store(t)
  BY Zenon, <1>1, <1>4 DEF Store, LeaseMove, Alive
<1>5. CASE Teardown(t)
  BY Zenon, <1>1, <1>5 DEF Teardown, LeaseMove, Alive
<1>6. CASE UNCHANGED <<net, link>>
  BY Zenon, <1>6 DEF LeaseMove, Alive
<1>7. Connect(t) => Apply(t) \/ OpenTunFails(t) \/ Store(t) \/ UNCHANGED <<net, link>>
  BY Zenon DEF Connect, StartConnect, Announce, OpenUpstream, OpenFails, Republish, EnterTunnel,
     StartProxies, ProxiesFail, EnterRoutes, BindIntercept, BindFails, ApplyFails, OpenTun,
     RollbackProxies, RollbackSsh, RollbackError, StartUdpgw, Ready, res
<1>8. Disconnect(t) => Teardown(t) \/ UNCHANGED <<net, link>>
  BY Zenon DEF Disconnect, StartDisconnect, Take, StopProxies, HangUp, Done, res
<1> QED
  BY Zenon, <1>2, <1>3, <1>4, <1>5, <1>6, <1>7, <1>8

LEMMA LeaseStep == TypeOK /\ [Next]_vars => LeaseMove
<1> SUFFICES ASSUME TypeOK, [Next]_vars
             PROVE  LeaseMove
  BY Zenon
<1>1. CASE \E t \in Calls : Connect(t) \/ Disconnect(t)
  BY Zenon, <1>1, CallLease
<1>2. ASSUME NEW s \in Sessions, SessionStep(s) \/ UpstreamLost(s)
      PROVE  LeaseMove
  BY Zenon, <1>2 DEF SessionStep, UpstreamLost, PollRead, PollWrite, PollEnds, TasksEnd, HelperNotices,
     LeaseMove, Alive
<1>3. CASE AppEnds
  <2>1. link \in [Sessions -> {"none", "owner", "dropped"}] /\ (net # 0 => net \in Sessions)
    BY ManagerAssumption DEF TypeOK, Sessions
  <2> QED
    BY Zenon, <1>3, <2>1 DEF AppEnds, LeaseMove, Alive
<1>4. CASE UNCHANGED vars
  BY Zenon, <1>4 DEF vars, LeaseMove, Alive
<1> QED
  BY Zenon, <1>1, <1>2, <1>3, <1>4 DEF Next

\* With any number of callers, sessions and profiles the manager uses the
\* helper as TunnelLease allows: start_full_tunnel, its rollback, disconnect
\* and a restart of the application never put one session's networking in
\* place of another's.
THEOREM ManagerImplementsLease == Spec => LeaseIsKept
<1>1. Init => Lease!Init
  <2> SUFFICES ASSUME Init
               PROVE  Lease!Init
    BY Zenon
  <2>1. net = 0 /\ (net # 0 /\ link[net] = "owner") = FALSE
    BY Zenon DEF Init
  <2> QED
    BY Zenon, <2>1 DEF Lease!Init
<1>2. TypeOK /\ [Next]_vars => [Lease!Next]_(Lease!lease)
  BY Zenon, LeaseStep, LeaseMoves
<1> QED
  BY <1>1, <1>2, ManagerTypeCorrect, PTL DEF Spec, LeaseIsKept, Lease!Spec

-----------------------------------------------------------------------------
(* No session is left behind with something only its owner could stop,     *)
(* when all profiles use the same local ports and opening the TUN device   *)
(* does not fail.                                                          *)
(*                                                                         *)
(* The ports are what serialises two connects: the one that binds them     *)
(* holds them until its session is stopped (OneListener), so the store of  *)
(* a second session never drops a first.                                   *)

OneListener == \A s, r \in Sessions : proxies[s] /\ proxies[r] => s = r

\* What a session s may still hold when its call is at point l; the rollback
\* and disconnect release it in this order.
Holds(s, l) ==
    /\ l \in Before \cup Opened \cup {"rb_ssh", "rb_error", "hangup", "done"} => ~proxies[s]
    /\ l \in Before \cup Opened \cup {"routes", "bind", "udpgw"} => tasks[s] = {}
    /\ l \in ConnectPoints \ {"store"} => poll[s] = "none"
    /\ l \in ConnectPoints \ {"tunio", "ready", "store"} => link[s] # "owner"
    /\ l \in {"rb_proxies", "rb_ssh", "rb_error"} => tasks[s] = {} \/ stop[s]
    /\ l \in {"rb_error", "done"} => ssh[s] = "none"
    /\ l \in {"teardown", "stop", "hangup", "done"} => stop[s]
    /\ l \in {"stop", "hangup", "done"} => link[s] # "owner"

Idle(s) ==
    /\ ssh[s] = "none"
    /\ ~proxies[s]
    /\ tasks[s] # {} => stop[s]
    /\ poll[s] # "none" => stop[s]
    /\ link[s] # "owner"

ReleaseInv ==
    /\ ManagerInv
    /\ OneListener
    /\ \A t \in Calls : mine[t] # 0 => Holds(mine[t], pc[t])
    /\ \A s \in Sessions : Unowned(s) => Idle(s)

\* Every profile uses the same local port, as the default profiles do.
SamePorts == \A p, q \in Profiles : p.port = q.port
-----------------------------------------------------------------------------
LEMMA ListenerStep ==
  ASSUME SamePorts, ReleaseInv, NEW t \in Calls, Connect(t) \/ Disconnect(t)
  PROVE  OneListener'
<1>1. /\ proxies \in [Sessions -> BOOLEAN] /\ prof \in [Sessions -> Profiles]
      /\ OneListener
      /\ pc[t] = "proxies" => mine[t] \in Sessions
  BY SMTT(30), ManagerAssumption DEF ReleaseInv, ManagerInv, TypeOK, ConnectPoints, Sessions
<1>2. CASE StartProxies(t)
  <2>1. mine[t] \in Sessions /\ PortFree(prof[mine[t]])
    BY Zenon, <1>1, <1>2 DEF StartProxies
  <2>2. \A s \in Sessions : ~proxies[s]
    BY <1>1, <2>1 DEF PortFree, SamePorts
  <2> QED
    BY Zenon, <1>1, <1>2, <2>1, <2>2 DEF StartProxies, OneListener
<1>3. CASE RollbackProxies(t) \/ StopProxies(t)
  BY Zenon, <1>1, <1>3 DEF RollbackProxies, StopProxies, OneListener
<1>4. CASE UNCHANGED proxies
  BY Zenon, <1>1, <1>4 DEF OneListener
<1>5. StartProxies(t) \/ RollbackProxies(t) \/ StopProxies(t) \/ UNCHANGED proxies
  BY Zenon DEF Connect, Disconnect, StartConnect, Announce, OpenUpstream, OpenFails,
     Republish, EnterTunnel, ProxiesFail, EnterRoutes, BindIntercept, BindFails,
     Apply, ApplyFails, OpenTun, OpenTunFails, RollbackSsh, RollbackError,
     StartUdpgw, Ready, Store, StartDisconnect, Take, Teardown, HangUp, Done, res
<1> QED
  BY Zenon, <1>2, <1>3, <1>4, <1>5

\* The session of the call that moves holds at most what its new point says.
LEMMA HoldsOwn ==
  ASSUME ReleaseInv, ~TunIoCanFail, NEW t \in Calls, Connect(t) \/ Disconnect(t),
         mine'[t] # 0
  PROVE  Holds(mine[t], pc[t])'
<1>1. /\ pc \in [Calls -> {"idle"} \cup ConnectPoints \cup DisconnectPoints]
      /\ mine \in [Calls -> 0 .. connects]
      /\ connects \in 0 .. MaxConnects /\ MaxConnects \in Nat
      /\ active \in 0 .. connects
      /\ mine[t] # 0 => mine[t] \in Sessions /\ Holds(mine[t], pc[t])
      /\ pc[t] \in {"idle", "take"} => mine[t] = 0
      /\ Resources
  BY ManagerAssumption DEF ReleaseInv, ManagerInv, Working, TypeOK, Resources, Sessions
<1>2. CASE StartConnect(t)
  <2>1. /\ connects + 1 \in Sessions /\ Unowned(connects + 1)
        /\ mine'[t] = connects + 1 /\ pc'[t] = "resolve"
        /\ UNCHANGED res
    BY <1>1, <1>2 DEF StartConnect, Unowned, Sessions
  <2>2. Idle(connects + 1) /\ ~stop[connects + 1]
    BY SMTT(30), <1>1, <2>1 DEF ReleaseInv, ManagerInv, Fresh
  <2> QED
    BY Zenon, <2>1, <2>2 DEF Holds, Idle, Before, Opened, ConnectPoints, res
<1>3. CASE Announce(t) \/ Republish(t) \/ EnterTunnel(t) \/ EnterRoutes(t)
  BY Zenon, <1>1, <1>3 DEF Announce, Republish, EnterTunnel, EnterRoutes, Goto, Holds,
     Before, Opened, ConnectPoints, res
<1>4. CASE OpenUpstream(t)
  BY ZenonT(40), <1>1, <1>4 DEF OpenUpstream, Goto, Holds, Before, Opened, ConnectPoints
<1>5. CASE StartProxies(t)
  BY ZenonT(40), <1>1, <1>5 DEF StartProxies, Goto, Holds, Before, Opened, ConnectPoints
<1>6. CASE BindIntercept(t) \/ StartUdpgw(t)
  BY Zenon, <1>1, <1>6 DEF BindIntercept, StartUdpgw, Goto, Holds, Before, Opened,
     ConnectPoints
<1>7. CASE BindFails(t) \/ OpenTun(t)
  BY Zenon, <1>1, <1>7 DEF BindFails, OpenTun, Goto, Holds, Before, Opened, ConnectPoints,
     res
<1>8. CASE Apply(t)
  BY Zenon, <1>1, <1>8 DEF Apply, Goto, Holds, Before, Opened, ConnectPoints
<1>9. CASE ApplyFails(t)
  BY Zenon, <1>1, <1>9 DEF ApplyFails, Goto, Holds, Before, Opened, ConnectPoints, Resources
<1>10. CASE RollbackProxies(t) \/ RollbackSsh(t)
  BY SMTT(30), <1>1, <1>10 DEF RollbackProxies, RollbackSsh, Goto, Holds, Before, Opened,
     ConnectPoints, Resources
<1>11. CASE Ready(t)
  BY Zenon, <1>1, <1>11 DEF Ready, Goto, Holds, Before, Opened, ConnectPoints
<1>12. CASE StartDisconnect(t)
  BY ZenonT(40), <1>1, <1>12 DEF StartDisconnect, Goto, Holds, Before, Opened, ConnectPoints
<1>13. CASE Take(t)
  <2>1. active \in Sessions /\ mine'[t] = active /\ pc'[t] = "teardown"
    BY <1>1, <1>13 DEF Take, Sessions
  <2> QED
    BY ZenonT(40), <1>13, <2>1 DEF Take, Holds, Before, Opened, ConnectPoints
<1>14. CASE Teardown(t)
  BY Zenon, <1>1, <1>14 DEF Teardown, Goto, Holds, Before, Opened, ConnectPoints, Resources
<1>15. CASE StopProxies(t) \/ HangUp(t)
  BY <1>1, <1>15 DEF StopProxies, HangUp, Goto, Holds, Before, Opened, ConnectPoints,
     Resources
<1>16. CASE OpenTunFails(t)
  BY Zenon, <1>16 DEF OpenTunFails
<1>17. CASE OpenFails(t) \/ ProxiesFail(t) \/ RollbackError(t) \/ Store(t) \/ Done(t)
  BY Zenon, <1>1, <1>17 DEF OpenFails, ProxiesFail, RollbackError, Store, Done, Return
<1> QED
  BY Zenon, <1>2, <1>3, <1>4, <1>5, <1>6, <1>7, <1>8, <1>9, <1>10, <1>11, <1>12,
     <1>13, <1>14, <1>15, <1>16, <1>17 DEF Connect, Disconnect

\* A call that returns without storing its session leaves it idle.
LEMMA ReturnIsIdle ==
  ASSUME ReleaseInv, NEW t \in Calls, NEW s \in Sessions, s = mine[t],
         OpenFails(t) \/ ProxiesFail(t) \/ RollbackError(t) \/ Done(t)
  PROVE  Idle(s)'
<1>1. /\ Resources /\ s # 0
      /\ Holds(s, pc[t])
      /\ pc[t] \in ConnectPoints => Collected(s, pc[t])
  BY SMTT(30), ManagerAssumption DEF ReleaseInv, ManagerInv, TypeOK, Resources, Sessions
<1>2. CASE OpenFails(t)
  BY ZenonT(40), <1>1, <1>2 DEF OpenFails, Holds, Collected, Fresh, Idle, Before, ConnectPoints, res
<1>3. CASE ProxiesFail(t)
  BY ZenonT(40), <1>1, <1>3 DEF ProxiesFail, Holds, Idle, Opened, ConnectPoints, Resources
<1>4. CASE RollbackError(t)
  BY ZenonT(40), <1>1, <1>4 DEF RollbackError, Holds, Idle, ConnectPoints, res
<1>5. CASE Done(t)
  BY ZenonT(40), <1>1, <1>5 DEF Done, Holds, Idle, res
<1> QED
  BY Zenon, <1>2, <1>3, <1>4, <1>5

\* With the ports held by one session, a store finds `active` empty.
LEMMA StoreReplacesNothing ==
  ASSUME ReleaseInv, NEW t \in Calls, Store(t)
  PROVE  active = 0
<1>1. /\ mine[t] \in Sessions /\ mine[t] # active
      /\ proxies[mine[t]]
  BY ManagerAssumption DEF ReleaseInv, ManagerInv, TypeOK, Exclusive, Collected,
     Listening, Store, ConnectPoints, Sessions
<1>2. active # 0 => active \in Sessions /\ proxies[active]
  BY SMTT(30), ManagerAssumption DEF ReleaseInv, ManagerInv, TypeOK, Whole, Sessions
<1> QED
  BY Zenon, <1>1, <1>2 DEF ReleaseInv, OneListener

\* A call loses a session only where it returns or stores it, and `active`
\* only where a session is taken or stored.
LEMMA CallLoses ==
  ASSUME TypeOK, NEW t \in Calls, Connect(t) \/ Disconnect(t)
  PROVE  \/ mine'[t] = mine[t] /\ active' = active
         \/ StartConnect(t) \/ Take(t) \/ Store(t)
         \/ OpenFails(t) \/ ProxiesFail(t) \/ RollbackError(t) \/ Done(t)
<1> QED
  BY ZenonT(40) DEF TypeOK, Connect, Disconnect, Announce, OpenUpstream, Republish,
     EnterTunnel, StartProxies, EnterRoutes, BindIntercept, BindFails, Apply,
     ApplyFails, OpenTun, OpenTunFails, RollbackProxies, RollbackSsh, StartUdpgw,
     Ready, StartDisconnect, Teardown, StopProxies, HangUp, Goto

LEMMA ReleaseCallStep ==
  ASSUME SamePorts, ~TunIoCanFail, ReleaseInv, NEW t \in Calls,
         Connect(t) \/ Disconnect(t)
  PROVE  ReleaseInv'
<1>1. /\ ManagerInv /\ TypeOK /\ Working /\ Exclusive
      /\ mine \in [Calls -> 0 .. connects] /\ active \in 0 .. connects
      /\ connects \in 0 .. MaxConnects /\ MaxConnects \in Nat
  BY Zenon, ManagerAssumption DEF ReleaseInv, ManagerInv, TypeOK
<1>2. ManagerInv' /\ OneListener'
  BY Zenon, <1>1, CallStep, ListenerStep
<1>3. /\ \A u \in Calls : u # t => pc'[u] = pc[u] /\ mine'[u] = mine[u]
      /\ \A s \in Sessions :
           s # mine[t] /\ s # mine'[t] /\ (s = active => active' = active) => Same(s)
  BY Zenon, <1>1, CallFrame
<1>4. \A u \in Calls : mine'[u] # 0 => Holds(mine[u], pc[u])'
  <2> SUFFICES ASSUME NEW u \in Calls, mine'[u] # 0
               PROVE  Holds(mine[u], pc[u])'
    BY Zenon
  <2>1. CASE u = t
    BY Zenon, <2>1, HoldsOwn
  <2>2. CASE u # t
    <3>1. pc'[u] = pc[u] /\ mine'[u] = mine[u] /\ Holds(mine[u], pc[u])
      BY Zenon, <1>3, <2>2 DEF ReleaseInv
    <3>2. /\ mine[u] \in Sessions /\ mine[u] # mine[t] /\ mine[u] # mine'[t]
          /\ mine[u] # active
      BY <1>1, <1>2, <2>2, <3>1 DEF ManagerInv, Exclusive, Sessions
    <3>3. Same(mine[u])
      BY Zenon, <1>3, <3>2
    <3> QED
      BY Zenon, <3>1, <3>3 DEF Same, Holds
  <2> QED
    BY Zenon, <2>1, <2>2
<1>5. \A s \in Sessions : Unowned(s)' => Idle(s)'
  <2> SUFFICES ASSUME NEW s \in Sessions, Unowned(s)'
               PROVE  Idle(s)'
    BY Zenon
  <2>1. s # 0 /\ s # mine'[t] /\ s # active' /\ \A u \in Calls : u # t => s # mine[u]
    BY SMTT(30), <1>1, <1>3 DEF Unowned, Sessions
  <2>2. CASE s # mine[t] /\ s # active
    <3>1. Unowned(s)
      BY Zenon, <2>1, <2>2 DEF Unowned
    <3>2. Idle(s) /\ Same(s)
      BY Zenon, <1>3, <2>1, <2>2, <3>1 DEF ReleaseInv
    <3> QED
      BY Zenon, <3>2 DEF Same, Idle
  <2>3. CASE s = mine[t]
    <3>1. ~StartConnect(t) /\ ~Take(t) /\ ~Store(t)
      BY Zenon, <1>1, <2>1, <2>3 DEF StartConnect, Take, Store, Working
    <3>2. OpenFails(t) \/ ProxiesFail(t) \/ RollbackError(t) \/ Done(t)
      BY Zenon, <1>1, <2>1, <2>3, <3>1, CallLoses
    <3> QED
      BY Zenon, <2>3, <3>2, ReturnIsIdle
  <2>4. CASE s = active
    <3>1. ~Take(t) /\ ~Store(t)
      BY Zenon, <1>1, <2>1, <2>4, StoreReplacesNothing DEF Take
    <3>2. active' = active
      BY Zenon, <1>1, <3>1, CallLoses DEF StartConnect, OpenFails, ProxiesFail,
         RollbackError, Done
    <3> QED
      BY Zenon, <2>1, <2>4, <3>2
  <2> QED
    BY Zenon, <2>2, <2>3, <2>4
<1> QED
  BY Zenon, <1>2, <1>4, <1>5 DEF ReleaseInv
-----------------------------------------------------------------------------
\* A session's tasks and its environment only ever release.
LEMMA ReleaseSessionStep ==
  ASSUME ReleaseInv, NEW s \in Sessions, SessionStep(s) \/ UpstreamLost(s)
  PROVE  ReleaseInv'
<1>1. ManagerInv /\ Resources /\ \A t \in Calls : mine[t] \in 0 .. MaxConnects
  BY SMTT(30), ManagerAssumption DEF ReleaseInv, ManagerInv, TypeOK, Resources
<1>2. /\ UNCHANGED <<pc, mine, active, proxies, stop>>
      /\ \A r \in Sessions : ssh'[r] # "none" <=> ssh[r] # "none"
  BY Zenon, <1>1, SessionKeeps DEF Kept
<1>3. \A r \in Sessions : /\ tasks'[r] \in {{}, tasks[r]}
                          /\ poll[r] = "none" => poll'[r] = "none"
                          /\ link[r] # "owner" => link'[r] # "owner"
  BY Zenon, <1>1 DEF SessionStep, PollRead, PollWrite, PollEnds, TasksEnd, HelperNotices,
     UpstreamLost, Resources, Up
<1>4. ManagerInv' /\ OneListener'
  BY Zenon, <1>1, <1>2, SessionStepKeepsInv DEF ReleaseInv, OneListener
<1>5. \A t \in Calls : mine'[t] # 0 => Holds(mine[t], pc[t])'
  <2> SUFFICES ASSUME NEW t \in Calls, mine[t] # 0
               PROVE  Holds(mine[t], pc[t])'
    BY Zenon, <1>2
  <2>1. mine[t] \in Sessions /\ Holds(mine[t], pc[t])
    BY SMTT(30), <1>1, ManagerAssumption DEF ReleaseInv, Sessions
  <2> QED
    BY Zenon, <1>2, <1>3, <2>1 DEF Holds
<1>6. \A r \in Sessions : Unowned(r)' => Idle(r)'
  BY Zenon, <1>2, <1>3 DEF ReleaseInv, Unowned, Idle
<1> QED
  BY Zenon, <1>4, <1>5, <1>6 DEF ReleaseInv

LEMMA ReleaseStep ==
  ASSUME SamePorts, ~TunIoCanFail
  PROVE  ReleaseInv /\ [Next]_vars => ReleaseInv'
<1> SUFFICES ASSUME ReleaseInv, [Next]_vars
             PROVE  ReleaseInv'
  BY Zenon
<1>1. CASE \E t \in Calls : Connect(t) \/ Disconnect(t)
  BY Zenon, <1>1, ReleaseCallStep
<1>2. CASE \E s \in Sessions : SessionStep(s) \/ UpstreamLost(s)
  BY Zenon, <1>2, ReleaseSessionStep
<1>3. CASE AppEnds
  <2>1. ManagerInv'
    BY Zenon, <1>3, AppEndsKeepsInv DEF ReleaseInv
  <2>2. OneListener' /\ \A t \in Calls : mine'[t] = 0
    BY Zenon, <1>3 DEF AppEnds, OneListener
  <2>3. \A s \in Sessions : Idle(s)'
    BY Zenon, <1>3 DEF AppEnds, Idle
  <2> QED
    BY Zenon, <2>1, <2>2, <2>3 DEF ReleaseInv
<1>4. CASE UNCHANGED vars
  <2>1. ManagerInv'
    BY Zenon, ManagerStep DEF ReleaseInv
  <2> QED
    BY Zenon, <1>4, <2>1 DEF vars, ReleaseInv, OneListener, Holds, Unowned, Idle
<1> QED
  BY Zenon, <1>1, <1>2, <1>3, <1>4 DEF Next

LEMMA ReleaseInit == Init => ReleaseInv
<1> SUFFICES ASSUME Init
             PROVE  ReleaseInv
  BY Zenon
<1>1. ManagerInv
  BY Zenon, ManagerInit
<1>2. OneListener /\ \A t \in Calls : mine[t] = 0
  BY Zenon DEF Init, OneListener
<1>3. \A s \in Sessions : Idle(s)
  BY Zenon DEF Init, Idle
<1> QED
  BY Zenon, <1>1, <1>2, <1>3 DEF ReleaseInv

\* For any callers and connects on the same local ports, a session that no
\* call works on and that is not active has closed its SSH session and its
\* ports, told its tasks to stop and closed its helper connection.
THEOREM SessionsAreReleased ==
  ASSUME SamePorts, ~TunIoCanFail
  PROVE  Spec => []NoOrphan
<1>1. ReleaseInv => NoOrphan
  BY Zenon DEF ReleaseInv, NoOrphan, Idle
<1>2. ReleaseInv /\ [Next]_vars => ReleaseInv'
  BY Zenon, ReleaseStep
<1> QED
  BY <1>1, <1>2, ReleaseInit, PTL DEF Spec
=============================================================================
