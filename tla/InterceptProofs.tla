-------------------------- MODULE InterceptProofs --------------------------
(***************************************************************************)
(* Who gets which reply, in Udpgw and in Intercept, for any number of      *)
(* tasks, UDP flows, calls, servers and connection ids: 2^16 in the code.  *)
(* The last part is about the way of a packet to the intercept             *)
(* (Networking), for every profile.                                        *)
(***************************************************************************)
EXTENDS Intercept, Networking, TLAPS

Ids == 0 .. ConIds - 1
Requests == [kind : {"none", "dns", "udp"}, who : Callers \cup Peers \cup {"none"}, n : Nat]

GwTypes ==
    /\ next \in Ids /\ allocs \in Nat
    /\ flows \in [Ids -> Requests]
    /\ keys \in [Peers -> 0 .. ConIds]
    /\ wire \subseteq [id : Ids, of : Requests]
    /\ call \in [Callers -> {"idle", "insert", "write", "wait", "expired"}]
    /\ try \in [Callers -> Nat]
    /\ cid \in [Callers -> Ids]
    /\ chan \in [Callers -> {"none", "closed", "reply", "empty"}]
    /\ reply \in [Callers -> Requests]

\* The ids are given out in the order 1, 2, .., ConIds - 1, 0.
Age(i) == IF i = 0 THEN ConIds ELSE i
NextInv == allocs < ConIds => Age(next) = allocs + 1

\* Request r goes under id i: a call works on it, it is on the wire, or one of
\* the two tables has it.
Uses(i, r) ==
    \/ \E t \in Callers : call[t] # "idle" /\ cid[t] = i /\ r = Dns(t)
    \/ \E m \in wire : m.id = i /\ m.of = r
    \/ \E p \in Peers : keys[p] = i /\ r = Udp(p)
    \/ flows[i] = r /\ r.kind # "none"

OneUse == \A i \in Ids : \A r, s \in Requests : Uses(i, r) /\ Uses(i, s) => r = s
Issued == \A i \in Ids : \A r \in Requests : Uses(i, r) => Age(i) <= allocs

\* A channel that is filled or closed has no flow any more.
Filled ==
    \A t \in Callers : call[t] # "idle" /\ chan[t] # "none" =>
        call[t] # "insert" /\ flows[cid[t]] # Dns(t)

-----------------------------------------------------------------------------

LEMMA Modulo ==
  ASSUME NEW n \in Nat \ {0}, NEW x \in 0 .. n
  PROVE  x % n = IF x = n THEN 0 ELSE x
OBVIOUS

LEMMA ModuloType ==
  ASSUME NEW n \in Nat \ {0}, NEW x \in Nat
  PROVE  x % n \in 0 .. n - 1
OBVIOUS

LEMMA RequestTypes ==
  ASSUME GwTypes
  PROVE  /\ NoFlow \in Requests
         /\ \A t \in Callers : Dns(t) \in Requests /\ Dns(t).kind = "dns" /\ Dns(t).who = t
         /\ \A p \in Peers : Udp(p) \in Requests /\ Udp(p).kind = "udp" /\ Udp(p).who = p
BY Zenon DEF GwTypes, NoFlow, Dns, Udp, Request, Requests

LEMMA AllocTypes ==
  ASSUME GwTypes, Alloc
  PROVE  next' \in Ids /\ allocs' \in Nat
BY ModuloType, UdpgwAssumption DEF GwTypes, Alloc, Ids

LEMMA FlowTypes ==
  ASSUME GwTypes, NEW i \in Ids, NEW f \in Requests, SetFlow(i, f)
  PROVE  /\ flows' \in [Ids -> Requests]
         /\ chan' \in [Callers -> {"none", "closed", "reply", "empty"}]
BY Zenon DEF GwTypes, SetFlow

\* The steps of a caller, and those of the gateway.
Caller(t) ==
    \/ QueryDns(t) \/ InsertQuery(t) \/ WriteQuery(t) \/ WriteFails(t) \/ Received(t)
    \/ Expire(t) \/ Forget(t)

LEMMA CallerTypes ==
  ASSUME GwTypes, NEW t \in Callers, Caller(t)
  PROVE  GwTypes'
<1>1. CASE QueryDns(t)
  BY <1>1, RequestTypes, AllocTypes DEF QueryDns, GwTypes
<1>2. CASE InsertQuery(t)
  <2>1. cid[t] \in Ids /\ Dns(t) \in Requests
    BY Zenon, RequestTypes DEF GwTypes
  <2> QED
    BY Zenon, <1>2, <2>1, FlowTypes DEF InsertQuery, GwTypes
<1>3. CASE WriteQuery(t)
  <2>1. [id |-> cid[t], of |-> Dns(t)] \in [id : Ids, of : Requests]
    BY Zenon, RequestTypes DEF GwTypes
  <2> QED
    BY Zenon, <1>3, <2>1 DEF WriteQuery, GwTypes
<1>4. CASE WriteFails(t) \/ Forget(t)
  <2>1. cid[t] \in Ids /\ NoFlow \in Requests /\ 0 \in Ids
    BY RequestTypes, UdpgwAssumption DEF GwTypes, Ids
  <2> QED
    BY <1>4, <2>1, FlowTypes DEF WriteFails, Forget, Return, GwTypes
<1>5. CASE Received(t) \/ Expire(t)
  <2>1. 0 \in Ids
    BY UdpgwAssumption DEF Ids
  <2> QED
    BY <1>5, <2>1, RequestTypes DEF Received, Expire, Return, gateway, GwTypes
<1> QED
  BY Zenon, <1>1, <1>2, <1>3, <1>4, <1>5 DEF Caller

LEMMA StepTypes ==
  ASSUME GwTypes, GwStep
  PROVE  GwTypes'
<1>1. ASSUME NEW p \in Peers, SendUdp(p)
      PROVE  GwTypes'
  <2> DEFINE id == IF keys[p] = NoKey THEN next ELSE keys[p]
  <2>1. id \in Ids /\ Udp(p) \in Requests /\ next \in 0 .. ConIds
    BY RequestTypes, UdpgwAssumption DEF GwTypes, Ids, NoKey
  <2>2. [id |-> id, of |-> Udp(p)] \in [id : Ids, of : Requests]
    BY Zenon, <2>1
  <2>3. wire' \subseteq [id : Ids, of : Requests]
    BY Zenon, <1>1, <2>2 DEF SendUdp, GwTypes
  <2>4. CASE keys[p] = NoKey
    BY Zenon, <1>1, <2>1, <2>3, <2>4, AllocTypes, FlowTypes DEF SendUdp, GwTypes
  <2>5. CASE keys[p] # NoKey
    BY Zenon, <1>1, <2>3, <2>5 DEF SendUdp, GwTypes
  <2> QED
    BY Zenon, <2>4, <2>5
<1>2. ASSUME NEW m \in wire, Receive(m)
      PROVE  GwTypes'
  <2>1. m.id \in Ids /\ m.of \in Requests /\ NoFlow \in Requests
    BY Zenon, RequestTypes DEF GwTypes
  <2> QED
    BY Zenon, <1>2, <2>1 DEF Receive, GwTypes
<1> QED
  BY Zenon, <1>1, <1>2 DEF GwStep

-----------------------------------------------------------------------------
(* An id has one request.  A step that gives out no id brings an id no new  *)
(* request; one that does brings the next id its first.                    *)

LEMMA KeepStep ==
  ASSUME OneUse, Issued, allocs' = allocs,
         \A i \in Ids : \A r \in Requests : Uses(i, r)' => Uses(i, r)
  PROVE  OneUse' /\ Issued'
<1>1. OneUse'
  BY Zenon DEF OneUse
<1>2. Issued'
  BY Zenon DEF Issued
<1> QED
  BY Zenon, <1>1, <1>2

LEMMA NextIsFree ==
  ASSUME GwTypes, NextInv, Issued, Alloc, ~Wrapped'
  PROVE  /\ \A r \in Requests : ~Uses(next, r)
         /\ allocs < ConIds /\ Age(next) = allocs + 1
<1>1. allocs < ConIds
  BY UdpgwAssumption DEF Wrapped, Alloc, GwTypes
<1>2. Age(next) = allocs + 1
  BY Zenon, <1>1 DEF NextInv
<1> QED
  BY <1>1, <1>2 DEF Issued, GwTypes

LEMMA AllocStep ==
  ASSUME GwTypes, NextInv, OneUse, Issued, Alloc, ~Wrapped', NEW q \in Requests,
         \A i \in Ids : \A r \in Requests : Uses(i, r)' => Uses(i, r) \/ (i = next /\ r = q)
  PROVE  OneUse' /\ Issued'
<1>1. /\ \A r \in Requests : ~Uses(next, r)
      /\ Age(next) = allocs + 1 /\ allocs' = allocs + 1 /\ allocs \in Nat
  BY Zenon, NextIsFree DEF Alloc, GwTypes
<1>2. OneUse'
  BY <1>1 DEF OneUse
<1>3. Issued'
  <2> SUFFICES ASSUME NEW i \in Ids, NEW r \in Requests, Uses(i, r)'
               PROVE  Age(i) <= allocs'
    BY Zenon DEF Issued, Age
  <2>1. Age(i) \in Nat
    BY UdpgwAssumption DEF Age, Ids
  <2>2. Age(i) <= allocs \/ i = next
    BY Zenon DEF Issued
  <2> QED
    BY <1>1, <2>1, <2>2
<1> QED
  BY Zenon, <1>2, <1>3

LEMMA NextStep ==
  ASSUME GwTypes, NextInv, Alloc
  PROVE  NextInv'
<1> SUFFICES ASSUME allocs + 1 < ConIds
             PROVE  Age(next)' = allocs + 2
  BY DEF NextInv, Alloc, GwTypes
<1>1. allocs \in Nat /\ next \in Ids /\ ConIds \in Nat \ {0} /\ Age(next) = allocs + 1
  BY UdpgwAssumption DEF GwTypes, NextInv
<1>2. next = allocs + 1 /\ allocs + 2 \in 0 .. ConIds
  BY <1>1 DEF Age, Ids
<1>3. next' = (allocs + 2) % ConIds
  BY <1>1, <1>2 DEF Alloc
<1>4. next' = IF allocs + 2 = ConIds THEN 0 ELSE allocs + 2
  BY Zenon, <1>1, <1>2, <1>3, Modulo
<1> QED
  BY <1>1, <1>4 DEF Age

LEMMA CallerUses ==
  ASSUME GwTypes, NextInv, OneUse, Issued, NEW t \in Callers, Caller(t), ~Wrapped'
  PROVE  OneUse' /\ Issued'
<1> DEFINE Kept == \A i \in Ids : \A r \in Requests : Uses(i, r)' => Uses(i, r)
<1>1. CASE QueryDns(t)
  <2> DEFINE q == Request("dns", t, try[t] + 1)
  <2>1. /\ q \in Requests /\ call[t] = "idle" /\ cid'[t] = next /\ Dns(t)' = q
        /\ \A u \in Callers \ {t} : call'[u] = call[u] /\ cid'[u] = cid[u] /\ Dns(u)' = Dns(u)
        /\ UNCHANGED <<flows, keys, wire>>
    BY <1>1 DEF QueryDns, GwTypes, Dns, Request, Requests
  <2>2. \A i \in Ids : \A r \in Requests : Uses(i, r)' => Uses(i, r) \/ (i = next /\ r = q)
    <3> HIDE DEF q
    <3> QED
      BY Zenon, <2>1 DEF Uses, Udp
  <2> QED
    BY Zenon, <1>1, <2>1, <2>2, AllocStep DEF QueryDns
<1>2. CASE InsertQuery(t)
  <2>1. /\ call[t] = "insert" /\ call'[t] = "write" /\ cid[t] \in Ids
        /\ \A u \in Callers \ {t} : call'[u] = call[u]
        /\ \A i \in Ids : i # cid[t] => flows'[i] = flows[i]
        /\ flows'[cid[t]] = Dns(t) /\ allocs' = allocs
        /\ UNCHANGED <<keys, wire, cid, try>>
    BY Zenon, <1>2 DEF InsertQuery, SetFlow, GwTypes
  <2>2. Kept
    BY Zenon, <2>1 DEF Uses, Udp, Dns
  <2> QED
    BY Zenon, <2>1, <2>2, KeepStep
<1>3. CASE WriteQuery(t)
  <2>1. /\ call[t] = "write" /\ call'[t] = "wait"
        /\ \A u \in Callers \ {t} : call'[u] = call[u]
        /\ wire' = wire \cup {[id |-> cid[t], of |-> Dns(t)]} /\ allocs' = allocs
        /\ UNCHANGED <<flows, keys, cid, try>>
    BY Zenon, <1>3 DEF WriteQuery, GwTypes
  <2>2. Kept
    BY <2>1 DEF Uses, Udp, Dns
  <2> QED
    BY Zenon, <2>1, <2>2, KeepStep
<1>4. CASE WriteFails(t) \/ Forget(t)
  <2>1. /\ call'[t] = "idle" /\ cid[t] \in Ids
        /\ \A u \in Callers \ {t} : call'[u] = call[u] /\ cid'[u] = cid[u]
        /\ \A i \in Ids : i # cid[t] => flows'[i] = flows[i]
        /\ flows'[cid[t]] = NoFlow /\ allocs' = allocs
        /\ UNCHANGED <<keys, wire, try>>
    BY <1>4 DEF WriteFails, Forget, Return, SetFlow, GwTypes
  <2>2. NoFlow.kind = "none"
    BY Zenon DEF NoFlow, Request
  <2>3. Kept
    BY Zenon, <2>1, <2>2 DEF Uses, Udp, Dns
  <2> QED
    BY Zenon, <2>1, <2>3, KeepStep
<1>5. CASE Received(t) \/ Expire(t)
  <2>1. /\ call[t] = "wait" /\ call'[t] # "wait" /\ allocs' = allocs
        /\ call'[t] # "idle" => cid'[t] = cid[t]
        /\ \A u \in Callers \ {t} : call'[u] = call[u] /\ cid'[u] = cid[u]
        /\ UNCHANGED <<flows, keys, wire, try>>
    BY Zenon, <1>5 DEF Received, Expire, Return, gateway, GwTypes
  <2>2. Kept
    BY Zenon, <2>1 DEF Uses, Udp, Dns
  <2> QED
    BY Zenon, <2>1, <2>2, KeepStep
<1> QED
  BY Zenon, <1>1, <1>2, <1>3, <1>4, <1>5 DEF Caller

LEMMA StepUses ==
  ASSUME GwTypes, NextInv, OneUse, Issued, GwStep, ~Wrapped'
  PROVE  OneUse' /\ Issued'
<1> DEFINE Kept == \A i \in Ids : \A r \in Requests : Uses(i, r)' => Uses(i, r)
<1>1. ASSUME NEW p \in Peers, SendUdp(p), keys[p] = NoKey
      PROVE  OneUse' /\ Issued'
  <2>1. /\ Alloc /\ Udp(p) \in Requests /\ next \in Ids
        /\ keys'[p] = next /\ \A o \in Peers \ {p} : keys'[o] = keys[o]
        /\ \A i \in Ids : i # next => flows'[i] = flows[i]
        /\ flows'[next] = Udp(p)
        /\ wire' \subseteq wire \cup {[id |-> next, of |-> Udp(p)]}
        /\ UNCHANGED <<call, cid, try>>
    BY <1>1, RequestTypes DEF SendUdp, SetFlow, GwTypes
  <2>2. \A i \in Ids : \A r \in Requests : Uses(i, r)' => Uses(i, r) \/ (i = next /\ r = Udp(p))
    BY <2>1 DEF Uses, Udp, Dns
  <2> QED
    BY Zenon, <2>1, <2>2, AllocStep
<1>2. ASSUME NEW p \in Peers, SendUdp(p), keys[p] # NoKey
      PROVE  OneUse' /\ Issued'
  <2>1. /\ allocs' = allocs
        /\ wire' \subseteq wire \cup {[id |-> keys[p], of |-> Udp(p)]}
        /\ UNCHANGED <<keys, flows, call, cid, try>>
    BY Zenon, <1>2 DEF SendUdp, GwTypes
  <2>2. Kept
    BY <2>1 DEF Uses, Udp, Dns
  <2> QED
    BY Zenon, <2>1, <2>2, KeepStep
<1>3. ASSUME NEW m \in wire, Receive(m)
      PROVE  OneUse' /\ Issued'
  <2>1. /\ m.id \in Ids /\ allocs' = allocs
        /\ \A i \in Ids : i # m.id => flows'[i] = flows[i]
        /\ flows'[m.id] = NoFlow
        /\ UNCHANGED <<keys, wire, call, cid, try>>
    BY Zenon, <1>3 DEF Receive, GwTypes
  <2>2. NoFlow.kind = "none"
    BY Zenon DEF NoFlow, Request
  <2>3. Kept
    BY Zenon, <2>1, <2>2 DEF Uses, Udp, Dns
  <2> QED
    BY Zenon, <2>1, <2>3, KeepStep
<1> QED
  BY Zenon, <1>1, <1>2, <1>3 DEF GwStep

-----------------------------------------------------------------------------
(* The table of flows and the channels.                                    *)

OwnedDns ==
    \A i \in Ids : flows[i].kind = "dns" => \E t \in Callers :
        flows[i] = Dns(t) /\ cid[t] = i /\ call[t] \in {"write", "wait", "expired"}
OwnedUdp == \A i \in Ids : \A p \in Peers : keys[p] = i <=> flows[i] = Udp(p)
Matches == \A t \in Callers : chan[t] = "reply" => reply[t] = Dns(t)
Tables == OwnedDns /\ OwnedUdp /\ Filled /\ Matches

\* Dns(t) of different callers differ, and no Udp(p) is one of them.
LEMMA Apart ==
  ASSUME GwTypes
  PROVE  /\ \A t, u \in Callers : Dns(t) = Dns(u) => t = u
         /\ \A p, o \in Peers : Udp(p) = Udp(o) => p = o
         /\ \A t \in Callers, p \in Peers : Dns(t) # Udp(p)
         /\ \A t \in Callers : Dns(t) # NoFlow
         /\ \A p \in Peers : Udp(p) # NoFlow
         /\ NoFlow.kind = "none"
<1>1. NoFlow.kind = "none"
  BY Zenon DEF NoFlow, Request
<1> QED
  BY <1>1, RequestTypes

\* An id a call works on is no UDP flow's.
LEMMA NoKeyOfCall ==
  ASSUME GwTypes, OneUse, NEW t \in Callers, call[t] # "idle", NEW p \in Peers
  PROVE  keys[p] # cid[t]
<1> SUFFICES ASSUME keys[p] = cid[t]
             PROVE  FALSE
  BY Zenon
<1>1. Uses(cid[t], Dns(t)) /\ Uses(cid[t], Udp(p))
  BY Zenon DEF Uses
<1>2. cid[t] \in Ids /\ Dns(t) \in Requests /\ Udp(p) \in Requests /\ Dns(t) # Udp(p)
  BY Zenon, RequestTypes, Apart DEF GwTypes
<1> QED
  BY Zenon, <1>1, <1>2 DEF OneUse

LEMMA QueryTables ==
  ASSUME GwTypes, Tables, NEW t \in Callers, QueryDns(t)
  PROVE  Tables'
<1>1. /\ call[t] = "idle" /\ chan'[t] = "none"
      /\ \A u \in Callers \ {t} : /\ call'[u] = call[u] /\ cid'[u] = cid[u] /\ Dns(u)' = Dns(u)
                                  /\ chan'[u] = chan[u] /\ reply'[u] = reply[u]
      /\ UNCHANGED <<flows, keys>>
  BY Zenon DEF QueryDns, GwTypes, Dns
<1>2. OwnedDns'
  BY <1>1 DEF Tables, OwnedDns
<1>3. OwnedUdp'
  BY Zenon, <1>1 DEF Tables, OwnedUdp, Udp
<1>4. Filled'
  BY Zenon, <1>1 DEF Tables, Filled
<1>5. Matches'
  BY Zenon, <1>1 DEF Tables, Matches
<1> QED
  BY Zenon, <1>2, <1>3, <1>4, <1>5 DEF Tables

\* The channel of a flow that is taken out of the table is closed.
LEMMA Closing ==
  ASSUME GwTypes, Tables, NEW i \in Ids, NEW f \in Requests, SetFlow(i, f)
  PROVE  /\ flows'[i] = f /\ \A j \in Ids \ {i} : flows'[j] = flows[j]
         /\ \A u \in Callers :
              \/ chan'[u] = chan[u]
              \/ /\ chan'[u] = "closed" /\ f # Dns(u)
                 /\ cid[u] = i /\ call[u] \in {"write", "wait", "expired"}
<1>1. flows'[i] = f /\ \A j \in Ids \ {i} : flows'[j] = flows[j]
  BY Zenon DEF SetFlow, GwTypes
<1>2. ASSUME NEW u \in Callers, chan'[u] # chan[u]
      PROVE  /\ chan'[u] = "closed" /\ f # Dns(u)
             /\ cid[u] = i /\ call[u] \in {"write", "wait", "expired"}
  <2>1. chan'[u] = "closed" /\ f # Dns(u) /\ flows[i] = Dns(u)
    BY Zenon, <1>2 DEF SetFlow
  <2>2. PICK v \in Callers : flows[i] = Dns(v) /\ cid[v] = i /\ call[v] \in {"write", "wait", "expired"}
    BY <2>1, RequestTypes DEF Tables, OwnedDns
  <2>3. v = u
    BY Zenon, <2>1, <2>2, Apart
  <2> QED
    BY Zenon, <2>1, <2>2, <2>3
<1> QED
  BY Zenon, <1>1, <1>2

LEMMA InsertTables ==
  ASSUME GwTypes, OneUse, Tables, NEW t \in Callers, InsertQuery(t)
  PROVE  Tables'
<1>1. /\ call[t] = "insert" /\ call'[t] = "write" /\ cid[t] \in Ids /\ Dns(t) \in Requests
      /\ \A u \in Callers \ {t} : call'[u] = call[u]
      /\ UNCHANGED <<keys, cid, try, reply>>
      /\ \A u \in Callers : Dns(u)' = Dns(u)
  BY RequestTypes DEF InsertQuery, GwTypes, Dns
<1>2. /\ flows'[cid[t]] = Dns(t) /\ \A j \in Ids \ {cid[t]} : flows'[j] = flows[j]
      /\ \A u \in Callers :
           \/ chan'[u] = chan[u]
           \/ /\ chan'[u] = "closed" /\ Dns(t) # Dns(u)
              /\ cid[u] = cid[t] /\ call[u] \in {"write", "wait", "expired"}
  BY Zenon, <1>1, Closing DEF InsertQuery
<1>3. OwnedDns'
  BY <1>1, <1>2 DEF Tables, OwnedDns
<1>4. OwnedUdp'
  <2>1. \A p \in Peers : keys[p] # cid[t] /\ Dns(t) # Udp(p)
    BY Zenon, <1>1, NoKeyOfCall, Apart
  <2> QED
    BY <1>1, <1>2, <2>1 DEF Tables, OwnedUdp, Udp
<1>5. Filled'
  <2> SUFFICES ASSUME NEW u \in Callers, call'[u] # "idle", chan'[u] # "none"
               PROVE  call'[u] # "insert" /\ flows'[cid'[u]] # Dns(u)'
    BY Zenon DEF Filled
  <2>1. CASE chan'[u] = chan[u]
    <3>1. u # t /\ call[u] # "insert" /\ flows[cid[u]] # Dns(u) /\ cid[u] \in Ids
      BY Zenon, <1>1, <2>1 DEF Tables, Filled, GwTypes
    <3> QED
      BY <1>1, <1>2, <3>1, Apart
  <2>2. CASE chan'[u] # chan[u]
    BY Zenon, <1>1, <1>2, <2>2
  <2> QED
    BY Zenon, <2>1, <2>2
<1>6. Matches'
  BY Zenon, <1>1, <1>2 DEF Tables, Matches
<1> QED
  BY Zenon, <1>3, <1>4, <1>5, <1>6 DEF Tables

LEMMA RemoveTables ==
  ASSUME GwTypes, OneUse, Tables, NEW t \in Callers, WriteFails(t) \/ Forget(t)
  PROVE  Tables'
<1>1. /\ call[t] # "idle" /\ call'[t] = "idle" /\ cid[t] \in Ids /\ NoFlow \in Requests
      /\ \A u \in Callers \ {t} : call'[u] = call[u] /\ cid'[u] = cid[u]
      /\ UNCHANGED <<keys, try, reply>>
      /\ \A u \in Callers : Dns(u)' = Dns(u)
  BY SMTT(30), RequestTypes DEF WriteFails, Forget, Return, GwTypes, Dns
<1>2. /\ flows'[cid[t]] = NoFlow /\ \A j \in Ids \ {cid[t]} : flows'[j] = flows[j]
      /\ \A u \in Callers :
           \/ chan'[u] = chan[u]
           \/ /\ chan'[u] = "closed" /\ NoFlow # Dns(u)
              /\ cid[u] = cid[t] /\ call[u] \in {"write", "wait", "expired"}
  BY Zenon, <1>1, Closing DEF WriteFails, Forget
<1>3. OwnedDns'
  BY <1>1, <1>2, Apart DEF Tables, OwnedDns
<1>4. OwnedUdp'
  <2>1. \A p \in Peers : keys[p] # cid[t] /\ NoFlow # Udp(p)
    BY Zenon, <1>1, NoKeyOfCall, Apart
  <2> QED
    BY <1>1, <1>2, <2>1 DEF Tables, OwnedUdp, Udp
<1>5. Filled'
  <2> SUFFICES ASSUME NEW u \in Callers, call'[u] # "idle", chan'[u] # "none"
               PROVE  call'[u] # "insert" /\ flows'[cid'[u]] # Dns(u)'
    BY Zenon DEF Filled
  <2>1. u # t
    BY Zenon, <1>1
  <2>2. CASE chan'[u] = chan[u]
    <3>1. call[u] # "insert" /\ flows[cid[u]] # Dns(u) /\ cid[u] \in Ids
      BY Zenon, <1>1, <2>1, <2>2 DEF Tables, Filled, GwTypes
    <3> QED
      BY SMTT(30), <1>1, <1>2, <2>1, <3>1, Apart
  <2>3. CASE chan'[u] # chan[u]
    BY <1>1, <1>2, <2>1, <2>3
  <2> QED
    BY Zenon, <2>2, <2>3
<1>6. Matches'
  BY Zenon, <1>1, <1>2 DEF Tables, Matches
<1> QED
  BY Zenon, <1>3, <1>4, <1>5, <1>6 DEF Tables

\* The other steps of a call leave the table alone.
LEMMA WaitTables ==
  ASSUME GwTypes, Tables, NEW t \in Callers, WriteQuery(t) \/ Received(t) \/ Expire(t)
  PROVE  Tables'
<1>1. /\ call[t] \in {"write", "wait"} /\ call'[t] \in {"wait", "expired", "idle"}
      /\ call'[t] = "idle" => chan[t] # "none" /\ chan'[t] = "none"
      /\ call'[t] # "idle" => chan'[t] = chan[t] /\ cid'[t] = cid[t] /\ reply'[t] = reply[t]
      /\ \A u \in Callers \ {t} : /\ call'[u] = call[u] /\ cid'[u] = cid[u]
                                  /\ chan'[u] = chan[u] /\ reply'[u] = reply[u]
      /\ UNCHANGED <<flows, keys, try>>
      /\ \A u \in Callers : Dns(u)' = Dns(u)
  BY Zenon DEF WriteQuery, Received, Expire, Return, gateway, GwTypes, Dns
<1>2. OwnedDns'
  BY SMTT(30), <1>1 DEF Tables, OwnedDns, Filled
<1>3. OwnedUdp'
  BY Zenon, <1>1 DEF Tables, OwnedUdp, Udp
<1>4. Filled'
  BY <1>1 DEF Tables, Filled
<1>5. Matches'
  BY Zenon, <1>1 DEF Tables, Matches
<1> QED
  BY Zenon, <1>2, <1>3, <1>4, <1>5 DEF Tables

LEMMA SendTables ==
  ASSUME GwTypes, NextInv, Issued, Tables, NEW p \in Peers, SendUdp(p), ~Wrapped'
  PROVE  Tables'
<1>1. CASE keys[p] # NoKey
  <2>1. UNCHANGED <<flows, keys, call, cid, try, chan, reply>>
    BY Zenon, <1>1 DEF SendUdp
  <2> QED
    BY <2>1 DEF Tables, OwnedDns, OwnedUdp, Filled, Matches, Dns, Udp
<1>2. CASE keys[p] = NoKey
  <2>1. /\ Alloc /\ SetFlow(next, Udp(p)) /\ next \in Ids /\ Udp(p) \in Requests
        /\ keys'[p] = next /\ \A o \in Peers \ {p} : keys'[o] = keys[o]
        /\ UNCHANGED <<call, cid, try, reply>>
        /\ \A u \in Callers : Dns(u)' = Dns(u)
    BY SMTT(30), <1>2, RequestTypes DEF SendUdp, GwTypes, Dns
  <2>2. /\ \A o \in Peers : keys[o] # next
        /\ flows[next].kind = "none"
    <3>1. \A r \in Requests : ~Uses(next, r)
      BY Zenon, <2>1, NextIsFree
    <3> QED
      BY SMTT(30), <2>1, <3>1, RequestTypes DEF Uses, GwTypes
  <2>3. /\ flows'[next] = Udp(p) /\ \A j \in Ids \ {next} : flows'[j] = flows[j]
        /\ UNCHANGED chan
    <3>1. \A u \in Callers : flows[next] # Dns(u)
      BY Zenon, <2>2, RequestTypes
    <3> QED
      BY Zenon, <2>1, <3>1 DEF SetFlow, GwTypes
  <2>4. OwnedDns'
    BY <2>1, <2>3, RequestTypes DEF Tables, OwnedDns
  <2>5. OwnedUdp'
    <3>1. \A i \in Ids : keys[p] # i
      BY <1>2, UdpgwAssumption DEF NoKey, Ids
    <3>2. \A i \in Ids : \A o \in Peers : keys'[o] = i <=> flows'[i] = Udp(o)
      BY SMTT(30), <2>1, <2>2, <2>3, <3>1, Apart DEF Tables, OwnedUdp
    <3> QED
      BY Zenon, <3>2 DEF OwnedUdp, Udp
  <2>6. Filled'
    BY SMTT(30), <2>1, <2>3, Apart DEF Tables, Filled, GwTypes
  <2>7. Matches'
    BY Zenon, <2>1, <2>3 DEF Tables, Matches
  <2> QED
    BY Zenon, <2>4, <2>5, <2>6, <2>7 DEF Tables
<1> QED
  BY Zenon, <1>1, <1>2

LEMMA ReceiveTables ==
  ASSUME GwTypes, OneUse, Tables, NEW m \in wire, Receive(m)
  PROVE  Tables'
<1> DEFINE f == flows[m.id]
<1>1. /\ m.id \in Ids /\ m.of \in Requests /\ f \in Requests /\ f.kind = "dns"
      /\ flows'[m.id] = NoFlow /\ \A j \in Ids \ {m.id} : flows'[j] = flows[j]
      /\ UNCHANGED <<keys, call, cid, try>>
      /\ \A u \in Callers : Dns(u)' = Dns(u)
      /\ \A u \in Callers : \/ chan'[u] = chan[u] /\ reply'[u] = reply[u]
                            \/ f = Dns(u) /\ reply'[u] = m.of
  BY Zenon DEF Receive, GwTypes, Dns
<1>2. m.of = f
  <2>1. Uses(m.id, m.of) /\ Uses(m.id, f)
    BY Zenon, <1>1 DEF Uses
  <2> QED
    BY Zenon, <1>1, <2>1 DEF OneUse
<1>3. PICK v \in Callers : f = Dns(v) /\ cid[v] = m.id /\ call[v] \in {"write", "wait", "expired"}
  BY Zenon, <1>1 DEF Tables, OwnedDns
<1> HIDE DEF f
<1>4. OwnedDns'
  BY <1>1, Apart DEF Tables, OwnedDns
<1>5. OwnedUdp'
  <2>1. \A p \in Peers : keys[p] # m.id
    BY <1>1, <1>3, Apart DEF Tables, OwnedUdp, f
  <2> QED
    BY <1>1, <2>1, Apart DEF Tables, OwnedUdp, Udp
<1>6. Filled'
  <2> SUFFICES ASSUME NEW u \in Callers, call'[u] # "idle", chan'[u] # "none"
               PROVE  call'[u] # "insert" /\ flows'[cid'[u]] # Dns(u)'
    BY Zenon DEF Filled
  <2>1. CASE chan'[u] = chan[u]
    <3>1. call[u] # "insert" /\ flows[cid[u]] # Dns(u) /\ cid[u] \in Ids
      BY Zenon, <1>1, <2>1 DEF Tables, Filled, GwTypes
    <3> QED
      BY Zenon, <1>1, <3>1, Apart
  <2>2. CASE chan'[u] # chan[u]
    <3>1. u = v
      BY Zenon, <1>1, <1>3, <2>2, Apart
    <3> QED
      BY Zenon, <1>1, <1>3, <3>1, Apart
  <2> QED
    BY Zenon, <2>1, <2>2
<1>7. Matches'
  BY Zenon, <1>1, <1>2 DEF Tables, Matches
<1> QED
  BY Zenon, <1>4, <1>5, <1>6, <1>7 DEF Tables

-----------------------------------------------------------------------------
(* The client as a whole.                                                  *)

GwMove == GwStep \/ \E t \in Callers : Caller(t)

LEMMA Allocates ==
  ASSUME GwTypes, GwMove
  PROVE  Alloc \/ UNCHANGED <<next, allocs>>
BY Zenon DEF GwMove, GwStep, Caller, QueryDns, InsertQuery, WriteQuery, WriteFails, Received, Expire,
   Forget, SendUdp, Receive, gateway

LEMMA TablesStep ==
  ASSUME GwTypes, NextInv, OneUse, Issued, Tables, GwMove, ~Wrapped'
  PROVE  Tables'
<1>1. CASE GwStep
  BY Zenon, <1>1, SendTables, ReceiveTables DEF GwStep
<1>2. ASSUME NEW t \in Callers, Caller(t)
      PROVE  Tables'
  BY Zenon, <1>2, QueryTables, InsertTables, RemoveTables, WaitTables DEF Caller
<1> QED
  BY Zenon, <1>1, <1>2 DEF GwMove

\* A reply on the wire is for the UDP flow under its id.
WireMatches == \A m \in wire : flows[m.id].kind = "udp" => m.of = flows[m.id]
LEMMA OneUseMatches == GwTypes /\ OneUse => WireMatches
<1> SUFFICES ASSUME GwTypes, OneUse, NEW m \in wire, flows[m.id].kind = "udp"
             PROVE  m.of = flows[m.id]
  BY Zenon DEF WireMatches
<1>1. m.id \in Ids /\ m.of \in Requests /\ flows[m.id] \in Requests
  BY Zenon DEF GwTypes
<1>2. Uses(m.id, m.of) /\ Uses(m.id, flows[m.id])
  BY Zenon DEF Uses
<1> QED
  BY Zenon, <1>1, <1>2 DEF OneUse

\* FlowsAreOwned and RepliesMatch in the terms of this proof.
LEMMA InvMeans ==
  /\ FlowsAreOwned <=> (~Wrapped => OwnedDns /\ OwnedUdp)
  /\ RepliesMatch <=> (~Wrapped => Matches /\ WireMatches)
<1>1. FlowsAreOwned <=> (~Wrapped => OwnedDns /\ OwnedUdp)
  BY Zenon DEF FlowsAreOwned, OwnedDns, OwnedUdp, Ids
<1>2. RepliesMatch <=> (~Wrapped => Matches /\ WireMatches)
  BY Zenon DEF RepliesMatch, Matches, WireMatches
<1> QED
  BY Zenon, <1>1, <1>2

GwInv == GwTypes /\ NextInv /\ (~Wrapped => OneUse /\ Issued /\ Tables)

LEMMA GwInitInv == GwInit => GwInv
<1> SUFFICES ASSUME GwInit
             PROVE  GwInv
  BY Zenon
<1>1. 1 % ConIds \in Ids /\ 0 \in Ids
  BY ModuloType, UdpgwAssumption DEF Ids
<1>2. NoFlow \in Requests /\ NoFlow.kind = "none"
  BY Zenon DEF NoFlow, Request, Requests
<1>3. GwTypes
  BY <1>1, <1>2, UdpgwAssumption DEF GwInit, GwTypes, NoKey, Ids
<1>4. NextInv
  <2>1. 1 \in 0 .. ConIds /\ ConIds \in Nat \ {0}
    BY UdpgwAssumption
  <2>2. next = IF 1 = ConIds THEN 0 ELSE 1
    BY Zenon, <2>1, Modulo DEF GwInit
  <2> QED
    BY <2>1, <2>2 DEF GwInit, NextInv, Age
<1>5. /\ \A i \in Ids : flows[i] = NoFlow
      /\ \A t \in Callers : call[t] = "idle" /\ chan[t] = "none"
      /\ \A p \in Peers : keys[p] \notin Ids
      /\ wire = {}
  BY UdpgwAssumption DEF GwInit, NoKey, Ids
<1>6. \A i \in Ids : \A r \in Requests : ~Uses(i, r)
  BY Zenon, <1>2, <1>5 DEF Uses
<1>7. OneUse /\ Issued
  BY Zenon, <1>6 DEF OneUse, Issued
<1>8. Tables
  BY Zenon, <1>2, <1>3, <1>5, Apart DEF Tables, OwnedDns, OwnedUdp, Filled, Matches
<1> QED
  BY Zenon, <1>3, <1>4, <1>7, <1>8 DEF GwInv

LEMMA GwMoveInv ==
  ASSUME GwInv, GwMove
  PROVE  GwInv'
<1>1. GwTypes /\ NextInv
  BY Zenon DEF GwInv
<1>2. GwTypes'
  BY Zenon, <1>1, CallerTypes, StepTypes DEF GwMove
<1>3. NextInv'
  <2>1. CASE Alloc
    BY Zenon, <1>1, <2>1, NextStep
  <2>2. CASE UNCHANGED <<next, allocs>>
    BY Zenon, <1>1, <2>2 DEF NextInv, Age
  <2> QED
    BY Zenon, <1>1, <2>1, <2>2, Allocates
<1>4. ASSUME ~Wrapped'
      PROVE  OneUse' /\ Issued' /\ Tables'
  <2>1. ~Wrapped
    BY <1>1, <1>4, Allocates, UdpgwAssumption DEF Wrapped, Alloc, GwTypes
  <2>2. OneUse /\ Issued /\ Tables
    BY Zenon, <2>1 DEF GwInv
  <2>3. OneUse' /\ Issued'
    BY Zenon, <1>1, <1>4, <2>2, CallerUses, StepUses DEF GwMove
  <2> QED
    BY Zenon, <1>1, <1>4, <2>2, <2>3, TablesStep
<1> QED
  BY Zenon, <1>2, <1>3, <1>4 DEF GwInv

LEMMA GwStays ==
  ASSUME GwInv, UNCHANGED gwVars
  PROVE  GwInv'
BY DEF GwInv, gwVars, GwTypes, NextInv, Age, Wrapped, OneUse, Issued, Uses, Tables, OwnedDns,
   OwnedUdp, Filled, Matches, Dns, Udp

\* Until the ids come round, for any number of callers, flows, calls and ids:
\* the table of UDPGW has no flow nobody waits for, and every reply that is
\* passed on answers the request of the one who gets it.
THEOREM UdpgwMatches == GwSpec => [](FlowsAreOwned /\ RepliesMatch)
<1>1. GwInv /\ [GwNext]_gwVars => GwInv'
  <2>1. GwNext => GwMove
    BY Zenon DEF GwNext, GwMove, Caller, QueryStep, QueryFails
  <2> QED
    BY Zenon, <2>1, GwMoveInv, GwStays
<1>2. GwInv => FlowsAreOwned /\ RepliesMatch
  BY Zenon, InvMeans, OneUseMatches DEF GwInv, Tables
<1> QED
  BY <1>1, <1>2, GwInitInv, PTL DEF GwSpec

-----------------------------------------------------------------------------
(* The intercept.  A stream has no unread answers but the one of the task  *)
(* that reads it.                                                          *)

Streams == [host : Nat, unread : Seq(Callers)]
TaskTypes ==
    /\ task \in [Callers -> {None, "gw", "asked", "pool", "reuse", "reuse_read", "connect",
                             "fresh", "fresh_read", "store", "done"}]
    /\ srv \in [Callers -> Nat]
    /\ slot \in Streams
    /\ own \in [Callers -> Streams]
    /\ lock \in Callers \cup {None}

UnreadInv ==
    /\ \A t \in Callers : task[t] \in {"reuse", "reuse_read"} <=> lock = t
    /\ lock = None => slot.unread = <<>>
    /\ \A t \in Callers : task[t] = "reuse" => slot.unread = <<>>
    /\ \A t \in Callers : task[t] = "reuse_read" => slot.unread = <<t>>
    /\ \A t \in Callers : task[t] \in {"fresh", "store"} => own[t].unread = <<>>
    /\ \A t \in Callers : task[t] = "fresh_read" => own[t].unread = <<t>>

\* A task is inside query_dns exactly while it asks, and has no answer but
\* its own.
AnswerInv ==
    /\ \A t \in Callers : call[t] # "idle" => task[t] = "asked"
    /\ answer \in [Callers -> Callers \cup Peers \cup {None}]
    /\ ~Wrapped => \A t \in Callers : answer[t] \in {None, t}

TaskInv == TaskTypes /\ UnreadInv

\* What a stream is after a write of t, and after a read of the one answer.
LEMMA StreamMoves ==
  ASSUME NEW s \in Streams, NEW t \in Callers
  PROVE  /\ s.unread = <<>> => /\ [s EXCEPT !.unread = Append(@, t)] \in Streams
                              /\ [s EXCEPT !.unread = Append(@, t)].unread = <<t>>
         /\ s.unread = <<t>> => /\ [s EXCEPT !.unread = Tail(@)] \in Streams
                               /\ [s EXCEPT !.unread = Tail(@)].unread = <<>>
<1>1. \A u \in Seq(Callers) : /\ [s EXCEPT !.unread = u] \in Streams
                              /\ [s EXCEPT !.unread = u].unread = u
  BY Zenon DEF Streams
<1>2. Append(<<>>, t) = <<t>> /\ Tail(<<t>>) = <<>> /\ <<t>> \in Seq(Callers) /\ <<>> \in Seq(Callers)
  OBVIOUS
<1> QED
  BY Zenon, <1>1, <1>2

Outside == {None, "gw", "asked", "pool", "connect", "done"}

\* A task that moves between points at which it has no stream.
LEMMA OutsideStep ==
  ASSUME TaskInv, NEW t \in Callers, task[t] \in Outside, NEW l \in Outside, Goto(t, l),
         srv' \in [Callers -> Nat], UNCHANGED <<lock, slot, own>>
  PROVE  TaskInv'
<1>1. TaskTypes'
  BY Zenon DEF TaskInv, TaskTypes, Goto, Outside
<1>2. task'[t] = l /\ \A u \in Callers \ {t} : task'[u] = task[u]
  BY Zenon DEF TaskInv, TaskTypes, Goto
<1>3. UnreadInv'
  BY Zenon, <1>2 DEF TaskInv, UnreadInv, Outside, None
<1> QED
  BY Zenon, <1>1, <1>3 DEF TaskInv

LEMMA StartsTcp ==
  ASSUME TaskTypes, NEW t \in Callers, StartTcp(t)
  PROVE  (\E l \in Outside : Goto(t, l)) /\ srv' \in [Callers -> Nat]
BY Zenon DEF StartTcp, TaskTypes, Outside

LEMMA NextsServer ==
  ASSUME TaskTypes, NEW t \in Callers, NextServer(t)
  PROVE  (\E l \in Outside : Goto(t, l)) /\ srv' \in [Callers -> Nat]
BY DEF NextServer, TaskTypes, Outside

LEMMA AskTask ==
  ASSUME TaskInv, AnswerInv, NEW t \in Callers, GwTypes,
         Arrive(t) \/ Ask(t) \/ Answered(t) \/ Unanswered(t)
  PROVE  TaskInv'
<1>1. TaskTypes
  BY Zenon DEF TaskInv
<1>2. task[t] \in Outside /\ UNCHANGED <<lock, slot, own>>
  <2>1. CASE Arrive(t) \/ Ask(t)
    BY Zenon, <2>1 DEF Arrive, Ask, Outside, tcpVars
  <2>2. CASE Answered(t) \/ Unanswered(t)
    <3>1. call[t] # "idle"
      BY Zenon, <2>2 DEF Answered, Unanswered, QueryFails, WriteFails, Forget, Received
    <3> QED
      BY Zenon, <2>2, <3>1 DEF AnswerInv, Answered, Unanswered, Outside, tcpVars
  <2> QED
    BY Zenon, <2>1, <2>2
<1>3. (\E l \in Outside : Goto(t, l)) /\ srv' \in [Callers -> Nat]
  <2>1. CASE Arrive(t)
    <3>1. CASE via.gw
      <4>1. Goto(t, "gw") /\ srv' = [srv EXCEPT ![t] = 1]
        BY Zenon, <2>1, <3>1 DEF Arrive
      <4> QED
        BY Zenon, <1>1, <4>1 DEF TaskTypes, Outside
    <3>2. CASE ~via.gw
      BY Zenon, <1>1, <2>1, <3>2, StartsTcp DEF Arrive
    <3> QED
      BY Zenon, <3>1, <3>2
  <2>2. CASE Ask(t) \/ Answered(t)
    BY Zenon, <1>1, <2>2 DEF Ask, Answered, TaskTypes, Outside
  <2>3. CASE Unanswered(t)
    BY <1>1, <2>3, StartsTcp DEF Unanswered, TaskTypes, Outside
  <2> QED
    BY Zenon, <2>1, <2>2, <2>3
<1> QED
  BY Zenon, <1>2, <1>3, OutsideStep

\* One task uses the pooled stream at a time.
LEMMA OneReuses ==
  ASSUME TaskInv, NEW t \in Callers, task[t] \in {"reuse", "reuse_read"}
  PROVE  lock = t /\ t # None /\ \A u \in Callers \ {t} : task[u] \notin {"reuse", "reuse_read"}
BY Zenon, InterceptAssumption DEF TaskInv, UnreadInv

LEMMA ReuseTask ==
  ASSUME TaskInv, NEW t \in Callers,
         Lookup(t) \/ ReuseWrite(t) \/ ReuseFails(t) \/ ReuseRead(t)
  PROVE  TaskInv'
<1>1. TaskTypes /\ UnreadInv /\ None \notin Callers
  BY Zenon, InterceptAssumption DEF TaskInv
<1>2. NoStream \in Streams /\ NoStream.unread = <<>>
  BY DEF NoStream, Stream, Streams
<1>3. CASE Lookup(t)
  <2>1. CASE slot.host = srv[t]
    <3>1. /\ task[t] = "pool" /\ lock = None /\ lock' = t /\ UNCHANGED <<slot, own, srv>>
          /\ task' = [task EXCEPT ![t] = "reuse"]
      BY Zenon, <1>3, <2>1 DEF Lookup, Goto
    <3>2. TaskTypes'
      BY Zenon, <1>1, <3>1 DEF TaskTypes
    <3>3. task'[t] = "reuse" /\ \A u \in Callers \ {t} : task'[u] = task[u]
      BY Zenon, <1>1, <3>1 DEF TaskTypes
    <3>4. UnreadInv'
      BY Zenon, <1>1, <3>1, <3>3 DEF UnreadInv
    <3> QED
      BY Zenon, <3>2, <3>4 DEF TaskInv
  <2>2. CASE slot.host # srv[t]
    <3>1. /\ task[t] = "pool" /\ lock = None /\ slot' = NoStream /\ UNCHANGED <<lock, own, srv>>
          /\ task' = [task EXCEPT ![t] = "connect"]
      BY Zenon, <1>3, <2>2 DEF Lookup, Goto
    <3>2. TaskTypes'
      BY Zenon, <1>1, <1>2, <3>1 DEF TaskTypes
    <3>3. task'[t] = "connect" /\ \A u \in Callers \ {t} : task'[u] = task[u]
      BY Zenon, <1>1, <3>1 DEF TaskTypes
    <3>4. UnreadInv'
      BY Zenon, <1>1, <1>2, <3>1, <3>3 DEF UnreadInv
    <3> QED
      BY Zenon, <3>2, <3>4 DEF TaskInv
  <2> QED
    BY Zenon, <2>1, <2>2
<1>4. CASE ReuseWrite(t)
  <2>1. /\ task[t] = "reuse" /\ slot.unread = <<>> /\ UNCHANGED <<lock, own, srv>>
        /\ task' = [task EXCEPT ![t] = "reuse_read"]
        /\ slot' = [slot EXCEPT !.unread = Append(@, t)]
    BY Zenon, <1>1, <1>4 DEF ReuseWrite, Goto, UnreadInv
  <2>2. lock = t /\ \A u \in Callers \ {t} : task[u] \notin {"reuse", "reuse_read"}
    BY Zenon, <2>1, OneReuses
  <2>3. slot'.unread = <<t>> /\ slot' \in Streams
    BY ZenonT(40), <1>1, <2>1, StreamMoves DEF TaskTypes
  <2>4. TaskTypes'
    BY Zenon, <1>1, <2>1, <2>3 DEF TaskTypes
  <2>5. task'[t] = "reuse_read" /\ \A u \in Callers \ {t} : task'[u] = task[u]
    BY Zenon, <1>1, <2>1 DEF TaskTypes
  <2>6. UnreadInv'
    BY Zenon, <1>1, <2>1, <2>2, <2>3, <2>5 DEF UnreadInv
  <2> QED
    BY Zenon, <2>4, <2>6 DEF TaskInv
<1>5. CASE ReuseFails(t) \/ ReuseRead(t)
  <2>1. /\ task[t] \in {"reuse", "reuse_read"} /\ lock' = None /\ UNCHANGED <<own, srv>>
        /\ \E l \in {"connect", "done"} : task' = [task EXCEPT ![t] = l]
    BY Zenon, <1>5 DEF ReuseFails, ReuseRead, Goto
  <2>2. lock = t /\ \A u \in Callers \ {t} : task[u] \notin {"reuse", "reuse_read"}
    BY Zenon, <2>1, OneReuses
  <2>3. slot'.unread = <<>> /\ slot' \in Streams
    <3>1. CASE ReuseFails(t)
      BY Zenon, <1>2, <3>1 DEF ReuseFails
    <3>2. CASE ReuseRead(t)
      <4>1. slot.unread = <<t>> /\ slot' = [slot EXCEPT !.unread = Tail(@)]
        BY Zenon, <1>1, <3>2 DEF ReuseRead, UnreadInv
      <4> QED
        BY Zenon, <1>1, <4>1, StreamMoves DEF TaskTypes
    <3> QED
      BY Zenon, <1>5, <3>1, <3>2
  <2>4. TaskTypes'
    BY Zenon, <1>1, <2>1, <2>3 DEF TaskTypes
  <2>5. task'[t] \in {"connect", "done"} /\ \A u \in Callers \ {t} : task'[u] = task[u]
    BY Zenon, <1>1, <2>1 DEF TaskTypes
  <2>6. UnreadInv'
    BY ZenonT(40), <1>1, <2>1, <2>2, <2>3, <2>5 DEF UnreadInv
  <2> QED
    BY Zenon, <2>4, <2>6 DEF TaskInv
<1> QED
  BY Zenon, <1>3, <1>4, <1>5

LEMMA FreshTask ==
  ASSUME TaskInv, NEW t \in Callers,
         Connect(t) \/ FreshWrite(t) \/ FreshFails(t) \/ FreshRead(t) \/ Store(t)
  PROVE  TaskInv'
<1> DEFINE Other == \A u \in Callers \ {t} : task'[u] = task[u] /\ own'[u] = own[u]
<1>1. TaskTypes /\ UnreadInv /\ None \notin Callers
  BY Zenon, InterceptAssumption DEF TaskInv
<1>2. NoStream \in Streams /\ NoStream.unread = <<>>
  BY DEF NoStream, Stream, Streams
<1>3. CASE Connect(t) /\ NextServer(t) /\ UNCHANGED own
  <2>1. task[t] = "connect" /\ UNCHANGED <<lock, slot, own>>
    BY Zenon, <1>3 DEF Connect
  <2> QED
    BY Zenon, <1>1, <1>3, <2>1, NextsServer, OutsideStep DEF Outside
<1>4. CASE /\ Connect(t) /\ Goto(t, "fresh")
           /\ own' = [own EXCEPT ![t] = Stream(srv[t], <<>>)] /\ UNCHANGED srv
  <2>1. /\ task[t] = "connect" /\ task' = [task EXCEPT ![t] = "fresh"]
        /\ own' = [own EXCEPT ![t] = Stream(srv[t], <<>>)] /\ UNCHANGED <<srv, lock, slot>>
    BY Zenon, <1>4 DEF Connect, Goto
  <2>2. Stream(srv[t], <<>>) \in Streams /\ Stream(srv[t], <<>>).unread = <<>>
    <3>1. srv[t] \in Nat /\ <<>> \in Seq(Callers)
      BY <1>1 DEF TaskTypes
    <3> QED
      BY Zenon, <3>1 DEF Stream, Streams
  <2>3. TaskTypes'
    BY Zenon, <1>1, <2>1, <2>2 DEF TaskTypes
  <2>4. task'[t] = "fresh" /\ own'[t].unread = <<>> /\ Other
    BY Zenon, <1>1, <2>1, <2>2 DEF TaskTypes
  <2>5. UnreadInv'
    BY <1>1, <2>1, <2>4 DEF UnreadInv
  <2> QED
    BY Zenon, <2>3, <2>5 DEF TaskInv
<1>5. CASE FreshWrite(t)
  <2>1. /\ task[t] = "fresh" /\ task' = [task EXCEPT ![t] = "fresh_read"]
        /\ own' = [own EXCEPT ![t] = [own[t] EXCEPT !.unread = Append(@, t)]]
        /\ UNCHANGED <<srv, lock, slot>>
    BY Zenon, <1>5 DEF FreshWrite, Goto
  <2>2. own[t] \in Streams /\ own[t].unread = <<>>
    BY Zenon, <1>1, <2>1 DEF TaskTypes, UnreadInv
  <2>3. TaskTypes'
    BY Zenon, <1>1, <2>1, <2>2, StreamMoves DEF TaskTypes
  <2>4. task'[t] = "fresh_read" /\ own'[t].unread = <<t>> /\ Other
    BY Zenon, <1>1, <2>1, <2>2, StreamMoves DEF TaskTypes
  <2>5. UnreadInv'
    BY <1>1, <2>1, <2>4 DEF UnreadInv
  <2> QED
    BY Zenon, <2>3, <2>5 DEF TaskInv
<1>6. CASE FreshFails(t)
  <2>1. /\ task[t] \in {"fresh", "fresh_read"} /\ NextServer(t)
        /\ own' = [own EXCEPT ![t] = NoStream] /\ UNCHANGED <<lock, slot>>
    BY Zenon, <1>6 DEF FreshFails
  <2>2. srv' \in [Callers -> Nat] /\ \E l \in Outside : Goto(t, l)
    BY Zenon, <1>1, <2>1, NextsServer
  <2>3. PICK l \in Outside : task' = [task EXCEPT ![t] = l]
    BY Zenon, <2>2 DEF Goto
  <2>4. TaskTypes'
    BY Zenon, <1>1, <1>2, <2>1, <2>2, <2>3 DEF TaskTypes, Outside
  <2>5. task'[t] = l /\ Other
    BY Zenon, <1>1, <2>1, <2>3 DEF TaskTypes
  <2>6. UnreadInv'
    BY Zenon, <1>1, <2>1, <2>5 DEF UnreadInv, Outside, None
  <2> QED
    BY Zenon, <2>4, <2>6 DEF TaskInv
<1>7. CASE FreshRead(t)
  <2>1. /\ task[t] = "fresh_read" /\ task' = [task EXCEPT ![t] = "store"]
        /\ own' = [own EXCEPT ![t] = [own[t] EXCEPT !.unread = Tail(@)]]
        /\ UNCHANGED <<srv, lock, slot>>
    BY Zenon, <1>7 DEF FreshRead, Goto
  <2>2. own[t] \in Streams /\ own[t].unread = <<t>>
    BY Zenon, <1>1, <2>1 DEF TaskTypes, UnreadInv
  <2>3. TaskTypes'
    BY Zenon, <1>1, <2>1, <2>2, StreamMoves DEF TaskTypes
  <2>4. task'[t] = "store" /\ own'[t].unread = <<>> /\ Other
    BY Zenon, <1>1, <2>1, <2>2, StreamMoves DEF TaskTypes
  <2>5. UnreadInv'
    BY Zenon, <1>1, <2>1, <2>4 DEF UnreadInv
  <2> QED
    BY Zenon, <2>3, <2>5 DEF TaskInv
<1>8. CASE Store(t)
  <2>1. /\ task[t] = "store" /\ task' = [task EXCEPT ![t] = "done"] /\ lock = None
        /\ slot' = own[t] /\ own' = [own EXCEPT ![t] = NoStream] /\ UNCHANGED <<srv, lock>>
    BY Zenon, <1>8 DEF Store, Goto
  <2>2. own[t] \in Streams /\ own[t].unread = <<>>
    BY Zenon, <1>1, <2>1 DEF TaskTypes, UnreadInv
  <2>3. TaskTypes'
    BY Zenon, <1>1, <1>2, <2>1, <2>2 DEF TaskTypes
  <2>4. task'[t] = "done" /\ slot'.unread = <<>> /\ Other
    BY Zenon, <1>1, <2>1, <2>2 DEF TaskTypes
  <2>5. UnreadInv'
    BY Zenon, <1>1, <2>1, <2>4 DEF UnreadInv
  <2> QED
    BY Zenon, <2>3, <2>5 DEF TaskInv
<1> QED
  BY Zenon, <1>3, <1>4, <1>5, <1>6, <1>7, <1>8 DEF Connect

\* The side of a step that UDPGW sees.
LEMMA GwSide ==
  ASSUME Next
  PROVE  GwMove \/ UNCHANGED gwVars
<1>1. CASE Gateway
  BY Zenon, <1>1 DEF Gateway, GwMove
<1>2. ASSUME NEW t \in Callers, Ask(t) \/ Call(t) \/ Answered(t) \/ Unanswered(t)
      PROVE  Caller(t)
  BY Zenon, <1>2 DEF Ask, Call, Answered, Unanswered, QueryStep, QueryFails, Caller
<1>3. ASSUME NEW t \in Callers,
             \/ Arrive(t) \/ Lookup(t) \/ ReuseWrite(t) \/ FreshWrite(t) \/ Store(t)
             \/ Network(t)
      PROVE  UNCHANGED gwVars
  BY Zenon, <1>3 DEF Arrive, Lookup, ReuseWrite, FreshWrite, Store, Network, ReuseRead, ReuseFails,
     Connect, FreshRead, FreshFails, gwVars
<1> QED
  BY Zenon, <1>1, <1>2, <1>3 DEF Next, Step, GwMove

LEMMA WrapStays ==
  ASSUME GwTypes, GwMove \/ UNCHANGED gwVars, ~Wrapped'
  PROVE  ~Wrapped
<1>1. Alloc \/ UNCHANGED allocs
  BY Zenon, Allocates DEF gwVars
<1> QED
  BY <1>1, UdpgwAssumption DEF Wrapped, Alloc, GwTypes

LEMMA TaskStep ==
  ASSUME GwTypes, TaskInv, AnswerInv, Next
  PROVE  TaskInv'
<1>1. CASE Gateway \/ \E t \in Callers : Call(t)
  <2>1. UNCHANGED <<task, srv, lock, slot, own>>
    BY Zenon, <1>1 DEF Gateway, Call, tcpVars
  <2> QED
    BY Zenon, <2>1 DEF TaskInv, TaskTypes, UnreadInv
<1>2. ASSUME NEW t \in Callers, Arrive(t) \/ Ask(t) \/ Answered(t) \/ Unanswered(t)
      PROVE  TaskInv'
  BY Zenon, <1>2, AskTask
<1>3. ASSUME NEW t \in Callers, Lookup(t) \/ ReuseWrite(t) \/ ReuseFails(t) \/ ReuseRead(t)
      PROVE  TaskInv'
  BY Zenon, <1>3, ReuseTask
<1>4. ASSUME NEW t \in Callers,
             Connect(t) \/ FreshWrite(t) \/ FreshFails(t) \/ FreshRead(t) \/ Store(t)
      PROVE  TaskInv'
  BY Zenon, <1>4, FreshTask
<1> QED
  BY Zenon, <1>1, <1>2, <1>3, <1>4 DEF Next, Step, Network

\* The answer of a task is its own or stays as it is.
Kept(t) == answer' = [answer EXCEPT ![t] = t] \/ UNCHANGED answer

LEMMA TcpAnswer ==
  ASSUME TaskInv, AnswerInv, NEW t \in Callers,
         \/ Arrive(t) \/ Lookup(t) \/ ReuseWrite(t) \/ FreshWrite(t) \/ Store(t) \/ Network(t)
  PROVE  Kept(t) /\ UNCHANGED call /\ task[t] # "asked" /\ \E l : Goto(t, l)
<1>1. CASE Arrive(t) \/ Lookup(t) \/ ReuseWrite(t) \/ FreshWrite(t) \/ Store(t)
  BY Zenon, <1>1 DEF Arrive, Lookup, ReuseWrite, FreshWrite, Store, StartTcp, gwVars, Kept, None
<1>2. CASE ReuseFails(t) \/ Connect(t) \/ FreshFails(t)
  BY Zenon, <1>2 DEF ReuseFails, Connect, FreshFails, NextServer, gwVars, Kept
<1>3. CASE ReuseRead(t)
  <2>1. Head(slot.unread) = t
    BY <1>3 DEF ReuseRead, TaskInv, UnreadInv
  <2> QED
    BY Zenon, <1>3, <2>1 DEF ReuseRead, gwVars, Kept
<1>4. CASE FreshRead(t)
  <2>1. Head(own[t].unread) = t
    BY <1>4 DEF FreshRead, TaskInv, UnreadInv
  <2> QED
    BY Zenon, <1>4, <2>1 DEF FreshRead, gwVars, Kept
<1> QED
  BY Zenon, <1>1, <1>2, <1>3, <1>4 DEF Network

\* query_dns returns the reply to t's query, and who asked is in it.
LEMMA GwAnswer ==
  ASSUME GwInv, NEW t \in Callers, Answered(t), ~Wrapped
  PROVE  Kept(t)
<1>1. reply[t] = Dns(t)
  BY Zenon DEF Answered, GwInv, Tables, Matches
<1>2. Dns(t).who = t
  BY Zenon DEF Dns, Request
<1> QED
  BY Zenon, <1>1, <1>2 DEF Answered, Kept

LEMMA KeptAnswers ==
  ASSUME NEW t \in Callers, Kept(t),
         answer \in [Callers -> Callers \cup Peers \cup {None}],
         \A u \in Callers : answer[u] \in {None, u}
  PROVE  \A u \in Callers : answer'[u] \in {None, u}
BY Zenon DEF Kept

LEMMA AnswerStep ==
  ASSUME GwInv, TaskInv, AnswerInv, Next
  PROVE  AnswerInv'
<1>1. GwTypes /\ TaskTypes /\ (~Wrapped' => ~Wrapped)
  BY Zenon, GwSide, WrapStays DEF GwInv, TaskInv
<1>2. CASE Gateway
  <2>1. UNCHANGED <<task, answer>> /\ UNCHANGED call
    BY Zenon, <1>2 DEF Gateway, GwStep, SendUdp, Receive
  <2> QED
    BY Zenon, <1>1, <2>1 DEF AnswerInv
<1>3. ASSUME NEW t \in Callers, Ask(t) \/ Call(t)
      PROVE  AnswerInv'
  <2>1. /\ UNCHANGED answer /\ \A u \in Callers \ {t} : call'[u] = call[u] /\ task'[u] = task[u]
    BY ZenonT(40), <1>1, <1>3 DEF Ask, Call, QueryDns, QueryStep, InsertQuery, WriteQuery, Expire, Goto,
       GwTypes, TaskTypes
  <2>2. call[t] # "idle" \/ Ask(t)
    BY Zenon, <1>3 DEF Call, QueryStep, InsertQuery, WriteQuery, Expire
  <2>3. task'[t] = "asked"
    BY Zenon, <1>1, <1>3, <2>2 DEF Ask, Call, Goto, TaskTypes, AnswerInv
  <2> QED
    BY Zenon, <1>1, <2>1, <2>3 DEF AnswerInv
<1>4. ASSUME NEW t \in Callers, Answered(t) \/ Unanswered(t)
      PROVE  AnswerInv'
  <2>1. call'[t] = "idle" /\ \A u \in Callers \ {t} : call'[u] = call[u]
    BY Zenon, <1>1, <1>4 DEF Answered, Unanswered, Received, QueryFails, WriteFails, Forget, Return, GwTypes
  <2>2. \E l : Goto(t, l)
    BY Zenon, <1>4 DEF Answered, Unanswered, StartTcp
  <2>3. \A u \in Callers \ {t} : task'[u] = task[u]
    BY Zenon, <1>1, <2>2 DEF Goto, TaskTypes
  <2>4. reply[t].who \in Callers \cup Peers \cup {None}
    BY Zenon, <1>1 DEF GwTypes, Requests, None
  <2>5. answer' \in [Callers -> Callers \cup Peers \cup {None}]
    BY Zenon, <1>4, <2>4 DEF Answered, Unanswered, AnswerInv
  <2>6. ~Wrapped => Kept(t)
    BY Zenon, <1>4, GwAnswer DEF Unanswered, Kept
  <2>7. ~Wrapped' => \A u \in Callers : answer'[u] \in {None, u}
    BY Zenon, <1>1, <2>6, KeptAnswers DEF AnswerInv
  <2> QED
    BY Zenon, <2>1, <2>3, <2>5, <2>7 DEF AnswerInv
<1>5. ASSUME NEW t \in Callers,
             \/ Arrive(t) \/ Lookup(t) \/ ReuseWrite(t) \/ FreshWrite(t) \/ Store(t)
             \/ Network(t)
      PROVE  AnswerInv'
  <2>1. Kept(t) /\ UNCHANGED call /\ task[t] # "asked" /\ \E l : Goto(t, l)
    BY Zenon, <1>5, TcpAnswer
  <2>2. \A u \in Callers \ {t} : task'[u] = task[u]
    BY Zenon, <1>1, <2>1 DEF Goto, TaskTypes
  <2>3. answer' \in [Callers -> Callers \cup Peers \cup {None}]
    BY Zenon, <2>1 DEF Kept, AnswerInv
  <2>4. ~Wrapped' => \A u \in Callers : answer'[u] \in {None, u}
    BY Zenon, <1>1, <2>1, KeptAnswers DEF AnswerInv
  <2> QED
    BY Zenon, <2>1, <2>2, <2>3, <2>4 DEF AnswerInv
<1> QED
  BY Zenon, <1>2, <1>3, <1>4, <1>5 DEF Next, Step

LEMMA InterceptInvariant == Spec => [](FlowsAreOwned /\ RepliesMatch /\ AnswersMatch)
<1> DEFINE Inv == GwInv /\ TaskInv /\ AnswerInv
<1>1. Init => Inv
  <2> SUFFICES ASSUME Init PROVE Inv
    BY Zenon
  <2>1. GwInv
    BY Zenon, GwInitInv DEF Init
  <2>2. NoStream \in Streams /\ NoStream.unread = <<>>
    BY DEF NoStream, Stream, Streams
  <2>3. TaskTypes
    BY Zenon, <2>2 DEF Init, TaskTypes
  <2>4. UnreadInv
    BY Zenon, <2>2, InterceptAssumption DEF Init, UnreadInv, None
  <2>5. AnswerInv
    BY Zenon DEF Init, GwInit, AnswerInv
  <2> QED
    BY Zenon, <2>1, <2>3, <2>4, <2>5 DEF TaskInv
<1>2. Inv /\ [Next]_vars => Inv'
  <2>1. ASSUME Inv, Next
        PROVE  Inv'
    <3>1. GwInv'
      BY Zenon, <2>1, GwSide, GwMoveInv, GwStays
    <3>2. TaskInv' /\ AnswerInv'
      BY Zenon, <2>1, TaskStep, AnswerStep DEF GwInv
    <3> QED
      BY Zenon, <3>1, <3>2
  <2>2. ASSUME Inv, UNCHANGED vars
        PROVE  Inv'
    <3>1. GwInv'
      BY Zenon, <2>2, GwStays DEF vars
    <3>2. UNCHANGED <<task, srv, answer, lock, slot, own, call, allocs>>
      BY Zenon, <2>2 DEF vars, gwVars
    <3>3. TaskInv'
      BY Zenon, <2>2, <3>2 DEF TaskInv, TaskTypes, UnreadInv
    <3>4. AnswerInv'
      BY Zenon, <2>2, <3>2 DEF AnswerInv, Wrapped
    <3> QED
      BY Zenon, <3>1, <3>3, <3>4
  <2> QED
    BY Zenon, <2>1, <2>2
<1>3. Inv => FlowsAreOwned /\ RepliesMatch /\ AnswersMatch
  <2> SUFFICES ASSUME Inv PROVE FlowsAreOwned /\ RepliesMatch /\ AnswersMatch
    BY Zenon
  <2>1. FlowsAreOwned /\ RepliesMatch
    BY Zenon, InvMeans, OneUseMatches DEF GwInv, Tables
  <2>2. AnswersMatch
    BY Zenon DEF AnswersMatch, AnswerInv
  <2> QED
    BY Zenon, <2>1, <2>2
<1> QED
  BY <1>1, <1>2, <1>3, PTL DEF Spec

\* Every query of resolve_dns_query is answered, if it is, with the answer to
\* itself, over UDPGW as over the pooled TCP stream, for any number of tasks,
\* servers, peers and connection ids, as long as the ids have not come round.
THEOREM AnswersAreRight == Spec => []AnswersMatch
BY InterceptInvariant, PTL

\* Until the ids come round the table of UDPGW has no flow nobody waits for,
\* whichever query of the intercept times out, is dropped or is answered late.
THEOREM FlowsHaveOwners == Spec => []FlowsAreOwned
BY InterceptInvariant, PTL

\* The same queries beside the UDP flows of the intercept: a reply that UDPGW
\* passes on answers the request of the one who gets it.
THEOREM RepliesAreRight == Spec => []RepliesMatch
BY InterceptInvariant, PTL

-----------------------------------------------------------------------------
(***************************************************************************)
(* Networking: what the nftables table does with a packet before the       *)
(* intercept takes it, for every profile.                                  *)
(*                                                                         *)
(* The state part is short: the table that is loaded is rendered from an   *)
(* ApplySpec that still says what the profile says (NetInv).  The rest is  *)
(* about the two chains.  The verdict on a packet is that of the first     *)
(* part of a chain with a rule for it (InParts), and the five exceptions   *)
(* at the front are exactly the packets that bypass the tunnel.            *)
(***************************************************************************)

(* Chains.                                                                 *)

Rules == [match : SUBSET Packets, do : {"accept", "reject", "tcp", "dns", "udp"}]

\* No rule of the chain is for p, or the first that is says v.
Misses(chain, p) == \A i \in DOMAIN chain : p \notin chain[i].match
Says(chain, p, v) ==
    \E i \in DOMAIN chain : /\ p \in chain[i].match /\ chain[i].do = v
                            /\ \A j \in 1 .. i - 1 : p \notin chain[j].match

LEMMA VerdictIs ==
  ASSUME NEW chain \in Seq(Rules), NEW p, NEW v
  PROVE  /\ Says(chain, p, v) => Verdict(chain, p) = v
         /\ Misses(chain, p) => Verdict(chain, p) = "accept"
<1> DEFINE hits == {j \in DOMAIN chain : p \in chain[j].match}
<1>1. DOMAIN chain = 1 .. Len(chain) /\ Len(chain) \in Nat
  OBVIOUS
<1>2. ASSUME NEW i \in DOMAIN chain, p \in chain[i].match, chain[i].do = v,
             \A j \in 1 .. i - 1 : p \notin chain[j].match
      PROVE  Verdict(chain, p) = v
  <2>1. i \in hits /\ \A j \in hits : i <= j
    BY <1>1, <1>2
  <2>2. \A k \in hits : (\A j \in hits : k <= j) => k = i
    BY <1>1, <2>1
  <2> HIDE DEF hits
  <2>3. Min(hits) = i
    BY Zenon, <2>1, <2>2 DEF Min
  <2> QED
    BY Zenon, <1>2, <2>1, <2>3 DEF Verdict, hits
<1>3. Misses(chain, p) => Verdict(chain, p) = "accept"
  BY Zenon DEF Misses, Verdict
<1> QED
  BY Zenon, <1>2, <1>3 DEF Says

\* A chain in two parts
LEMMA InParts ==
  ASSUME NEW c \in Seq(Rules), NEW d \in Seq(Rules), NEW p, NEW v
  PROVE  /\ c \o d \in Seq(Rules)
         /\ Says(c, p, v) => Says(c \o d, p, v)
         /\ Misses(c, p) /\ Says(d, p, v) => Says(c \o d, p, v)
         /\ Misses(c, p) /\ Misses(d, p) => Misses(c \o d, p)
<1> DEFINE e == c \o d
<1>1. /\ e \in Seq(Rules) /\ DOMAIN e = 1 .. (Len(c) + Len(d))
      /\ DOMAIN c = 1 .. Len(c) /\ DOMAIN d = 1 .. Len(d) /\ Len(c) \in Nat /\ Len(d) \in Nat
      /\ \A i \in 1 .. Len(c) : e[i] = c[i]
      /\ \A i \in 1 .. Len(d) : e[Len(c) + i] = d[i]
  OBVIOUS
<1> HIDE DEF e
<1>2. Says(c, p, v) => Says(e, p, v)
  <2> SUFFICES ASSUME NEW i \in DOMAIN c, p \in c[i].match, c[i].do = v,
                      \A j \in 1 .. i - 1 : p \notin c[j].match
               PROVE  Says(e, p, v)
    BY Zenon DEF Says
  <2> QED
    BY <1>1 DEF Says
<1>3. Misses(c, p) /\ Says(d, p, v) => Says(e, p, v)
  <2> SUFFICES ASSUME Misses(c, p), NEW i \in DOMAIN d, p \in d[i].match, d[i].do = v,
                      \A j \in 1 .. i - 1 : p \notin d[j].match
               PROVE  Says(e, p, v)
    BY Zenon DEF Says
  <2>1. Len(c) + i \in DOMAIN e /\ e[Len(c) + i] = d[i]
    BY <1>1
  <2>2. ASSUME NEW j \in 1 .. Len(c) + i - 1
        PROVE  p \notin e[j].match
    <3>1. CASE j <= Len(c)
      BY <1>1, <2>2, <3>1 DEF Misses
    <3>2. CASE j > Len(c)
      <4>1. j - Len(c) \in 1 .. i - 1 /\ j = Len(c) + (j - Len(c)) /\ j - Len(c) \in 1 .. Len(d)
        BY <1>1, <2>2, <3>2
      <4> QED
        BY Zenon, <1>1, <4>1
    <3> QED
      BY <1>1, <2>2, <3>1, <3>2
  <2> QED
    BY <2>1, <2>2 DEF Says
<1>4. Misses(c, p) /\ Misses(d, p) => Misses(e, p)
  <2> SUFFICES ASSUME Misses(c, p), Misses(d, p), NEW j \in DOMAIN e
               PROVE  p \notin e[j].match
    BY Zenon DEF Misses
  <2>1. CASE j <= Len(c)
    BY <1>1, <2>1 DEF Misses
  <2>2. CASE j > Len(c)
    <3>1. j - Len(c) \in 1 .. Len(d) /\ j = Len(c) + (j - Len(c))
      BY <1>1, <2>2
    <3> QED
      BY Zenon, <1>1, <3>1 DEF Misses
  <2> QED
    BY <1>1, <2>1, <2>2
<1> QED
  BY Zenon, <1>1, <1>2, <1>3, <1>4 DEF e

\* One rule, and none
LEMMA OneRule ==
  ASSUME NEW r \in Rules, NEW p
  PROVE  /\ <<r>> \in Seq(Rules)
         /\ p \in r.match => Says(<<r>>, p, r.do)
         /\ p \notin r.match => Misses(<<r>>, p)
BY DEF Says, Misses

LEMMA NoRule ==
  ASSUME NEW p
  PROVE  <<>> \in Seq(Rules) /\ Misses(<<>>, p)
BY DEF Misses

-----------------------------------------------------------------------------
(* The table of an ApplySpec s.                                            *)

SpecOK(s) ==
    /\ s.host = "server"
    /\ s.servers \subseteq Fams /\ s.extra \subseteq Fams
    /\ s.private \in BOOLEAN /\ s.ipv6 \in BOOLEAN /\ s.kill \in BOOLEAN /\ s.udp \in BOOLEAN

Exempted(s, p) ==
    \/ p.to \in {"lo", "tun"}
    \/ p.to = s.host /\ p.fam \in s.servers
    \/ p.to = "split" /\ p.fam \in s.extra
    \/ p.to = "private" /\ s.private

Carried(s) == IF s.ipv6 THEN Fams ELSE {"v4"}

LEMMA RuleTypes ==
  ASSUME NEW v \in {"accept", "reject", "tcp", "dns", "udp"}
  PROVE  /\ \A match \in SUBSET Packets : Rule(match, v) \in Rules /\ Rule(match, v).do = v
                                          /\ Rule(match, v).match = match
         /\ \A c, fams : To(c, fams) \in SUBSET Packets
         /\ \A kinds, fams : Kinds(kinds, fams) \in SUBSET Packets
BY Zenon DEF Rule, Rules, To, Kinds

\* The five exceptions at the front of both chains
LEMMA ExemptFirst ==
  ASSUME NEW s, SpecOK(s), NEW p \in Packets
  PROVE  /\ Exempt(s, "accept") \in Seq(Rules)
         /\ Exempted(s, p) => Says(Exempt(s, "accept"), p, "accept")
         /\ ~Exempted(s, p) => Misses(Exempt(s, "accept"), p)
<1> DEFINE lo == Rule(To("lo", Fams), "accept")
           tun == Rule(To("tun", Fams), "accept")
           ends == Rule(To(s.host, s.servers), "accept")
           ext == Rule(To("split", s.extra), "accept")
           pri == Rule(To("private", IF s.private THEN Fams ELSE {}), "accept")
           all == <<lo, tun, ends, ext, pri>>
<1>1. lo \in Rules /\ tun \in Rules /\ ends \in Rules /\ ext \in Rules /\ pri \in Rules
  BY Zenon, RuleTypes
<1>2. lo.do = "accept" /\ tun.do = "accept" /\ ends.do = "accept" /\ ext.do = "accept"
      /\ pri.do = "accept"
  BY Zenon DEF Rule
<1>3. p.fam \in Fams
  BY Zenon DEF Packets
<1>4. /\ p \in lo.match <=> p.to = "lo"
      /\ p \in tun.match <=> p.to = "tun"
      /\ p \in ends.match <=> p.to = s.host /\ p.fam \in s.servers
      /\ p \in ext.match <=> p.to = "split" /\ p.fam \in s.extra
      /\ p \in pri.match <=> p.to = "private" /\ s.private
  BY Zenon, <1>3 DEF Rule, To, SpecOK
<1> HIDE DEF lo, tun, ends, ext, pri
<1>5. all \in Seq(Rules) /\ DOMAIN all = 1 .. 5
  BY <1>1
<1>6. all[1] = lo /\ all[2] = tun /\ all[3] = ends /\ all[4] = ext /\ all[5] = pri
  BY Zenon
<1> HIDE DEF all
<1>7. ~Exempted(s, p) => Misses(all, p)
  BY <1>4, <1>5, <1>6 DEF Exempted, Misses
<1>8. ASSUME Exempted(s, p)
      PROVE  Says(all, p, "accept")
  <2>1. ASSUME NEW i \in 1 .. 5, p \in all[i].match, \A j \in 1 .. i - 1 : p \notin all[j].match
        PROVE  Says(all, p, "accept")
    <3>1. all[i].do = "accept"
      BY <1>2, <1>6
    <3> QED
      BY Zenon, <1>5, <2>1, <3>1 DEF Says
  <2>2. CASE p \in lo.match
    BY <1>6, <2>1, <2>2
  <2>3. CASE p \in tun.match /\ p \notin lo.match
    BY <1>6, <2>1, <2>3
  <2>4. CASE p \in ends.match /\ p \notin lo.match /\ p \notin tun.match
    BY <1>6, <2>1, <2>4
  <2>5. CASE p \in ext.match /\ p \notin lo.match /\ p \notin tun.match /\ p \notin ends.match
    BY <1>6, <2>1, <2>5
  <2>6. CASE p \in pri.match /\ p \notin lo.match /\ p \notin tun.match /\ p \notin ends.match
             /\ p \notin ext.match
    BY <1>6, <2>1, <2>6
  <2> QED
    BY Zenon, <1>4, <1>8, <2>2, <2>3, <2>4, <2>5, <2>6 DEF Exempted
<1> QED
  BY Zenon, <1>5, <1>7, <1>8 DEF Exempt, all, lo, tun, ends, ext, pri

\* output_nat
NatVerdict(s, p) ==
    IF Exempted(s, p) \/ p.fam \notin Carried(s) THEN "accept"
    ELSE CASE p.kind = "dns" -> "dns"
           [] p.kind = "tcp" -> "tcp"
           [] p.kind = "udp" -> IF s.udp THEN "udp" ELSE "accept"
           [] p.kind = "other" -> "accept"

LEMMA NatDecides ==
  ASSUME NEW s, SpecOK(s), NEW p \in Packets
  PROVE  Verdict(NatChain(s), p) = NatVerdict(s, p)
<1> DEFINE front == Exempt(s, "accept")
           dns == Rule(Kinds({"dns"}, Carried(s)), "dns")
           tcp == Rule(Kinds({"tcp"}, Carried(s)), "tcp")
           udp == Rule(Kinds({"udp", "dns"}, Carried(s)), "udp")
           mid == <<dns, tcp>>
           last == IF s.udp THEN <<udp>> ELSE <<>>
<1>1. /\ dns \in Rules /\ tcp \in Rules /\ udp \in Rules
      /\ dns.do = "dns" /\ tcp.do = "tcp" /\ udp.do = "udp"
  BY Zenon, RuleTypes DEF Rule
<1>2. /\ p \in dns.match <=> p.kind = "dns" /\ p.fam \in Carried(s)
      /\ p \in tcp.match <=> p.kind = "tcp" /\ p.fam \in Carried(s)
      /\ p \in udp.match <=> p.kind \in {"udp", "dns"} /\ p.fam \in Carried(s)
  BY Zenon DEF Rule, Kinds
<1>3. /\ front \in Seq(Rules)
      /\ Exempted(s, p) => Says(front, p, "accept")
      /\ ~Exempted(s, p) => Misses(front, p)
  BY Zenon, ExemptFirst
<1>4. NatChain(s) = (front \o mid) \o last
  BY Zenon DEF NatChain, Carried
<1>5. p.kind \in {"tcp", "dns", "udp", "other"} /\ s.udp \in BOOLEAN
  BY Zenon DEF Packets, SpecOK
<1> HIDE DEF front, dns, tcp, udp
<1>6. mid \in Seq(Rules) /\ DOMAIN mid = 1 .. 2 /\ mid[1] = dns /\ mid[2] = tcp
  BY <1>1
<1>7. /\ last \in Seq(Rules)
      /\ s.udp /\ p \in udp.match => Says(last, p, "udp")
      /\ ~(s.udp /\ p \in udp.match) => Misses(last, p)
  BY Zenon, <1>1, <1>5, OneRule, NoRule
<1> HIDE DEF mid, last
<1>8. p \in dns.match => Says(mid, p, "dns")
  BY <1>1, <1>6 DEF Says
<1>9. p \in tcp.match => Says(mid, p, "tcp")
  BY <1>1, <1>2, <1>6 DEF Says
<1>10. p \notin dns.match /\ p \notin tcp.match => Misses(mid, p)
  BY <1>6 DEF Misses
<1> DEFINE two == front \o mid
<1>11. /\ two \in Seq(Rules)
       /\ Exempted(s, p) => Says(two, p, "accept")
       /\ ~Exempted(s, p) /\ p \in dns.match => Says(two, p, "dns")
       /\ ~Exempted(s, p) /\ p \in tcp.match => Says(two, p, "tcp")
       /\ ~Exempted(s, p) /\ p \notin dns.match /\ p \notin tcp.match => Misses(two, p)
  BY Zenon, <1>3, <1>6, <1>8, <1>9, <1>10, InParts
<1> HIDE DEF two
<1> DEFINE chain == two \o last
<1>12. /\ chain \in Seq(Rules)
       /\ Exempted(s, p) => Says(chain, p, "accept")
       /\ ~Exempted(s, p) /\ p \in dns.match => Says(chain, p, "dns")
       /\ ~Exempted(s, p) /\ p \in tcp.match => Says(chain, p, "tcp")
       /\ ~Exempted(s, p) /\ p \notin dns.match /\ p \notin tcp.match =>
            IF s.udp /\ p \in udp.match THEN Says(chain, p, "udp") ELSE Misses(chain, p)
  BY Zenon, <1>7, <1>11, InParts
<1> HIDE DEF chain
<1>13. Verdict(chain, p) = NatVerdict(s, p)
  BY Zenon, <1>2, <1>5, <1>12, VerdictIs DEF NatVerdict
<1> QED
  BY Zenon, <1>4, <1>13 DEF chain, two

\* output_filter
FilterVerdict(s, p) ==
    IF ~Exempted(s, p) /\ (p.fam \notin Carried(s) \/ (p.kind \in {"udp", "dns"} /\ ~s.udp) \/ s.kill)
    THEN "reject" ELSE "accept"

LEMMA FilterDecides ==
  ASSUME NEW s, SpecOK(s), NEW p \in Packets
  PROVE  Verdict(FilterChain(s), p) = FilterVerdict(s, p)
<1> DEFINE front == Exempt(s, "accept")
           six == Rule({q \in Packets : q.fam = "v6"}, "reject")
           udp == Rule(Kinds({"udp", "dns"}, Fams), "reject")
           any == Rule(Packets, "reject")
           c1 == IF s.ipv6 THEN <<>> ELSE <<six>>
           c2 == IF s.udp THEN <<>> ELSE <<udp>>
           c3 == IF s.kill THEN <<any>> ELSE <<>>
<1>1. /\ six \in Rules /\ udp \in Rules /\ any \in Rules
      /\ six.do = "reject" /\ udp.do = "reject" /\ any.do = "reject"
  BY RuleTypes DEF Rule, Rules
<1>2. p.fam \in Fams /\ s.ipv6 \in BOOLEAN /\ s.udp \in BOOLEAN /\ s.kill \in BOOLEAN
  BY Zenon DEF Packets, SpecOK
<1>3. /\ p \in six.match <=> p.fam = "v6"
      /\ p \in udp.match <=> p.kind \in {"udp", "dns"}
      /\ p \in any.match
  BY Zenon, <1>2 DEF Rule, Kinds
<1>4. /\ front \in Seq(Rules)
      /\ Exempted(s, p) => Says(front, p, "accept")
      /\ ~Exempted(s, p) => Misses(front, p)
  BY Zenon, ExemptFirst
<1>5. FilterChain(s) = ((front \o c1) \o c2) \o c3
  BY Zenon DEF FilterChain
<1> HIDE DEF front, six, udp, any
<1>6. c1 \in Seq(Rules) /\ IF ~s.ipv6 /\ p.fam = "v6" THEN Says(c1, p, "reject") ELSE Misses(c1, p)
  BY Zenon, <1>1, <1>2, <1>3, OneRule, NoRule
<1>7. c2 \in Seq(Rules) /\ IF ~s.udp /\ p.kind \in {"udp", "dns"} THEN Says(c2, p, "reject")
                                                             ELSE Misses(c2, p)
  BY Zenon, <1>1, <1>2, <1>3, OneRule, NoRule
<1>8. c3 \in Seq(Rules) /\ IF s.kill THEN Says(c3, p, "reject") ELSE Misses(c3, p)
  BY Zenon, <1>1, <1>2, <1>3, OneRule, NoRule
<1> HIDE DEF c1, c2, c3
<1> DEFINE D1 == ~s.ipv6 /\ p.fam = "v6"
           D2 == D1 \/ (~s.udp /\ p.kind \in {"udp", "dns"})
           D3 == D2 \/ s.kill
           b1 == front \o c1
           b2 == b1 \o c2
           b3 == b2 \o c3
<1>9. /\ b1 \in Seq(Rules)
      /\ Exempted(s, p) => Says(b1, p, "accept")
      /\ ~Exempted(s, p) => IF D1 THEN Says(b1, p, "reject") ELSE Misses(b1, p)
  BY Zenon, <1>4, <1>6, InParts
<1> HIDE DEF b1
<1>10. /\ b2 \in Seq(Rules)
       /\ Exempted(s, p) => Says(b2, p, "accept")
       /\ ~Exempted(s, p) => IF D2 THEN Says(b2, p, "reject") ELSE Misses(b2, p)
  BY Zenon, <1>7, <1>9, InParts
<1> HIDE DEF b2
<1>11. /\ b3 \in Seq(Rules)
       /\ Exempted(s, p) => Says(b3, p, "accept")
       /\ ~Exempted(s, p) => IF D3 THEN Says(b3, p, "reject") ELSE Misses(b3, p)
  BY Zenon, <1>8, <1>10, InParts
<1> HIDE DEF b3
<1>12. Verdict(b3, p) = IF ~Exempted(s, p) /\ D3 THEN "reject" ELSE "accept"
  BY Zenon, <1>11, VerdictIs
<1>13. D3 <=> \/ p.fam \notin Carried(s) \/ (p.kind \in {"udp", "dns"} /\ ~s.udp) \/ s.kill
  BY Zenon, <1>2 DEF Carried, Fams
<1> QED
  BY Zenon, <1>5, <1>12, <1>13 DEF FilterVerdict, b1, b2, b3

\* Both hooks in turn; what output_nat redirects is exempt in output_filter.
LEMMA PathIs ==
  ASSUME SpecOK(spec), table = RenderTable(spec), NEW p \in Packets
  PROVE  Path(p) = IF NatVerdict(spec, p) # "accept" THEN NatVerdict(spec, p)
                   ELSE IF FilterVerdict(spec, p) = "reject" THEN "reject" ELSE "direct"
<1>1. table.nat = NatChain(spec) /\ table.filter = FilterChain(spec)
  BY Zenon DEF RenderTable
<1>2. Verdict(table.nat, p) = NatVerdict(spec, p)
  BY Zenon, <1>1, NatDecides
<1>3. CASE NatVerdict(spec, p) = "accept"
  <2>1. Verdict(table.filter, p) = FilterVerdict(spec, p)
    BY Zenon, <1>1, FilterDecides
  <2> QED
    BY Zenon, <1>2, <1>3, <2>1 DEF Path
<1>4. CASE NatVerdict(spec, p) # "accept"
  <2> DEFINE q == [p EXCEPT !.to = "lo"]
  <2>1. q \in Packets /\ q.to = "lo"
    BY Zenon DEF Packets
  <2> HIDE DEF q
  <2>2. FilterVerdict(spec, q) = "accept"
    BY Zenon, <2>1 DEF FilterVerdict, Exempted
  <2>3. Verdict(table.filter, q) = "accept"
    BY Zenon, <1>1, <2>1, <2>2, FilterDecides
  <2> QED
    BY Zenon, <1>2, <1>4, <2>3 DEF Path, q
<1> QED
  BY Zenon, <1>3, <1>4

-----------------------------------------------------------------------------
(* The state.                                                              *)

\* The ApplySpec of the profile as it is now
Wanted ==
    [host |-> profile.host,
     servers |-> profile.servers,
     private |-> profile.private \/ profile.mode = "split",
     extra |-> profile.extra,
     ipv6 |-> profile.ipv6,
     kill |-> profile.kill,
     udp |-> udpgw,
     resolvers |-> ResolveServers(EffectivePolicy(TRUE, profile.dns), profile.resolvers)]

NetInv ==
    /\ profile \in [protocol : STRING, host : {"server", "api"}, dns : STRING, resolvers : SUBSET STRING,
                    mode : {"proxy", "full", "split"}, servers : SUBSET Fams, private : BOOLEAN,
                    extra : SUBSET Fams, ipv6 : BOOLEAN, kill : BOOLEAN, udpgw : BOOLEAN]
    /\ udpgw \in BOOLEAN
    /\ step \notin {"idle"} => profile.host = "server"
    /\ step \in {"apply", "tun", "up"} => spec = Wanted
    /\ IF step \in {"tun", "up"} THEN table = RenderTable(spec) ELSE table = NoTable

LEMMA NetInitial == NetInit => NetInv
BY Zenon, NetworkingAssumption DEF NetInit, NetInv

LEMMA HostReplaced ==
  ASSUME NEW S, NEW H, NEW R, NEW M, NEW F, NEW B,
         NEW p \in [protocol : S, host : H, dns : S, resolvers : R, mode : M, servers : F,
                    private : B, extra : F, ipv6 : B, kill : B, udpgw : B],
         NEW h \in H
  PROVE  /\ [p EXCEPT !.host = h] \in [protocol : S, host : H, dns : S, resolvers : R, mode : M,
               servers : F, private : B, extra : F, ipv6 : B, kill : B, udpgw : B]
         /\ [p EXCEPT !.host = h].host = h
BY Zenon

LEMMA SpecFields ==
  ASSUME NEW h, NEW s, NEW p, NEW e, NEW i, NEW k, NEW u, NEW r
  PROVE  LET w == [host |-> h, servers |-> s, private |-> p, extra |-> e, ipv6 |-> i,
                   kill |-> k, udp |-> u, resolvers |-> r]
         IN  w.ipv6 = i /\ w.kill = k /\ w.udp = u
BY Zenon

LEMMA NetStep == NetInv /\ [NetNext]_netVars => NetInv'
<1> SUFFICES ASSUME NetInv, [NetNext]_netVars PROVE NetInv'
  BY Zenon
<1>1. CASE ConnectProfile
  <2> DEFINE S == STRING
             H == {"server", "api"}
             R == SUBSET STRING
             M == {"proxy", "full", "split"}
             F == SUBSET Fams
             B == BOOLEAN
             T == [protocol : S, host : H, dns : S, resolvers : R, mode : M, servers : F,
                   private : B, extra : F, ipv6 : B, kill : B, udpgw : B]
  <2>0. profile \in T
    BY Zenon DEF NetInv
  <2>1. "server" \in H
    BY Zenon
  <2> HIDE DEF S, H, R, M, F, B
  <2>2. SessionHost(profile) \in T /\ SessionHost(profile).host = "server"
    BY Zenon, <2>0, <2>1, HostReplaced DEF SessionHost
  <2>3. profile' \in T /\ profile'.host = "server"
    BY Zenon, <1>1, <2>2 DEF ConnectProfile
  <2> HIDE DEF T
  <2>4. /\ step = "idle" /\ step' \in {"proxy", "bind"}
        /\ udpgw' = udpgw /\ spec' = spec /\ table' = table
    BY Zenon, <1>1 DEF ConnectProfile
  <2>5. udpgw \in BOOLEAN /\ table = NoTable
    BY Zenon, <2>4 DEF NetInv
  <2> QED
    BY Zenon, <2>3, <2>4, <2>5 DEF NetInv, S, H, R, M, F, B, T, NoTable
<1>2. CASE BindRequired \/ Retry \/ BindOptional
  BY Zenon, <1>2 DEF BindRequired, Retry, BindOptional, NetInv, Wanted
<1>3. CASE StartUdpgw
  BY Zenon, <1>3 DEF StartUdpgw, NetInv
<1>4. CASE MakeSpec
  BY Zenon, <1>4 DEF MakeSpec, NetInv, Wanted
<1>5. CASE Apply
  BY Zenon, <1>5 DEF Apply, StopIntercepts, NetInv, Wanted
<1>6. CASE OpenTun \/ InterceptEnds
  BY Zenon, <1>6 DEF OpenTun, InterceptEnds, NetInv, Wanted
<1>7. CASE UNCHANGED netVars
  BY Zenon, <1>7 DEF netVars, NetInv, Wanted
<1> QED
  BY <1>1, <1>2, <1>3, <1>4, <1>5, <1>6, <1>7 DEF NetNext

\* A table that is loaded is that of the profile.
LEMMA TableIsWanted ==
  ASSUME NetInv, table # NoTable
  PROVE  /\ SpecOK(spec) /\ table = RenderTable(spec) /\ spec = Wanted
         /\ \A p : Exempted(spec, p) <=> Bypassed(p)
<1>1. table = RenderTable(spec) /\ spec = Wanted /\ profile.host = "server"
  BY Zenon DEF NetInv
<1>2. SpecOK(spec)
  BY Zenon, <1>1 DEF NetInv, SpecOK, Wanted
<1>3. \A p : Exempted(spec, p) <=> Bypassed(p)
  BY Zenon, <1>1 DEF Exempted, Bypassed, Wanted
<1> QED
  BY Zenon, <1>1, <1>2, <1>3

\* For every profile and every packet the two chains that render_table writes,
\* in the order of their rules, do what NETWORKING.md says of them.
THEOREM TableMatchesPolicy == NetSpec => []RulesMatchPolicy
<1>1. NetInv => RulesMatchPolicy
  <2> SUFFICES ASSUME NetInv, table # NoTable PROVE RulesMatchPolicy
    BY Zenon DEF RulesMatchPolicy
  <2>1. /\ SpecOK(spec) /\ table = RenderTable(spec)
        /\ \A p : Exempted(spec, p) <=> Bypassed(p)
    BY Zenon, TableIsWanted
  <2>2. /\ spec.ipv6 = profile.ipv6 /\ spec.kill = profile.kill /\ spec.udp = udpgw
        /\ profile.ipv6 \in BOOLEAN /\ profile.kill \in BOOLEAN /\ udpgw \in BOOLEAN
    <3>1. profile.ipv6 \in BOOLEAN /\ profile.kill \in BOOLEAN /\ udpgw \in BOOLEAN
      BY Zenon DEF NetInv
    <3>2. spec.ipv6 = profile.ipv6 /\ spec.kill = profile.kill /\ spec.udp = udpgw
      <4> DEFINE pv == profile.private \/ profile.mode = "split"
                 rs == ResolveServers(EffectivePolicy(TRUE, profile.dns), profile.resolvers)
      <4>1. spec = [host |-> profile.host, servers |-> profile.servers, private |-> pv,
                    extra |-> profile.extra, ipv6 |-> profile.ipv6, kill |-> profile.kill,
                    udp |-> udpgw, resolvers |-> rs]
        BY Zenon, TableIsWanted DEF Wanted
      <4> HIDE DEF pv, rs
      <4> QED
        BY <4>1, SpecFields, Zenon
    <3> QED
      BY Zenon, <3>1, <3>2
  <2>3. ASSUME NEW p \in Packets
        PROVE  Path(p) = CASE Bypassed(p) -> "direct"
                  [] ~Bypassed(p) /\ p.fam = "v6" /\ ~profile.ipv6 -> "reject"
                  [] ~Bypassed(p) /\ (p.fam = "v4" \/ profile.ipv6) ->
                       CASE p.kind \in {"tcp", "dns"} -> p.kind
                         [] p.kind = "udp" -> IF udpgw THEN "udp" ELSE "reject"
                         [] p.kind = "other" -> IF profile.kill THEN "reject" ELSE "direct"
    <3>1. p.fam \in {"v4", "v6"} /\ p.kind \in {"tcp", "dns", "udp", "other"}
      BY Zenon DEF Packets, Fams
    <3>2. Path(p) = IF NatVerdict(spec, p) # "accept" THEN NatVerdict(spec, p)
                    ELSE IF FilterVerdict(spec, p) = "reject" THEN "reject" ELSE "direct"
      BY Zenon, <2>1, PathIs
    <3>3. p.fam \in Carried(spec) <=> p.fam = "v4" \/ profile.ipv6
      BY Zenon, <2>2, <3>1 DEF Carried, Fams
    <3>4. CASE Bypassed(p)
      BY Zenon, <2>1, <3>2, <3>4 DEF NatVerdict, FilterVerdict
    <3>5. CASE ~Bypassed(p) /\ p.fam \notin Carried(spec)
      BY Zenon, <2>1, <3>1, <3>2, <3>3, <3>5 DEF NatVerdict, FilterVerdict
    <3>6. CASE ~Bypassed(p) /\ p.fam \in Carried(spec)
      <4>1. CASE p.kind \in {"tcp", "dns"}
        BY Zenon, <2>1, <3>2, <3>3, <3>6, <4>1 DEF NatVerdict
      <4>2. CASE p.kind = "udp"
        BY Zenon, <2>1, <2>2, <3>2, <3>3, <3>6, <4>2 DEF NatVerdict, FilterVerdict
      <4>3. CASE p.kind = "other"
        BY Zenon, <2>1, <2>2, <3>2, <3>3, <3>6, <4>3 DEF NatVerdict, FilterVerdict
      <4> QED
        BY Zenon, <3>1, <4>1, <4>2, <4>3
    <3> QED
      BY Zenon, <3>4, <3>5, <3>6
  <2> QED
    BY Zenon, <2>3 DEF RulesMatchPolicy
<1> QED
  BY <1>1, NetInitial, NetStep, PTL DEF NetSpec

\* Whatever host the profile names, the endpoint of the session is in the
\* specification that the table is rendered from, and its packets leave directly.
THEOREM EndpointStaysExempt == NetSpec => []EndpointIsExempt
<1>1. NetInv => EndpointIsExempt
  <2> SUFFICES ASSUME NetInv, table # NoTable, NEW p \in Packets,
                      p.to = "server", p.fam \in profile.servers
               PROVE  Path(p) = "direct"
    BY Zenon DEF EndpointIsExempt
  <2>1. SpecOK(spec) /\ table = RenderTable(spec) /\ spec = Wanted
    BY Zenon, TableIsWanted
  <2>2. Exempted(spec, p)
    BY Zenon, <2>1 DEF Exempted, SpecOK, Wanted
  <2> QED
    BY Zenon, <2>1, <2>2, PathIs DEF NatVerdict, FilterVerdict
<1> QED
  BY <1>1, NetInitial, NetStep, PTL DEF NetSpec

\* A datagram that reaches UDPGW is for the address the application sent it to,
\* and an intercepted DNS query has a server to go to, for every DNS mode.
THEOREM TunnelledStaysAimed == NetSpec => []TunnelledIsAimed
<1>1. NetInv => TunnelledIsAimed
  <2> SUFFICES ASSUME NetInv, table # NoTable, NEW p \in Packets, Fate(p) = "tunnel"
               PROVE  /\ Path(p) = "udp" => RecvUdpOrigdst(p) = p
                      /\ spec.resolvers # {}
    BY Zenon DEF TunnelledIsAimed
  <2>1. ASSUME Path(p) = "udp"
        PROVE  RecvUdpOrigdst(p) = p
    <3>1. [p EXCEPT !.to = "lo"].to = "lo"
      BY Zenon DEF Packets
    <3> QED
      BY Zenon, <2>1, <3>1 DEF Fate, RecvUdpOrigdst
  <2>2. spec.resolvers # {}
    BY TableIsWanted DEF Wanted, ResolveServers, EffectivePolicy
  <2> QED
    BY Zenon, <2>1, <2>2
<1> QED
  BY <1>1, NetInitial, NetStep, PTL DEF NetSpec
=============================================================================
