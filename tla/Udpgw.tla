------------------------------- MODULE Udpgw -------------------------------
(***************************************************************************)
(* The UDPGW client, crates/udpgw: UDP datagrams and DNS queries           *)
(* multiplexed by connection id over one stream to a badvpn-udpgw daemon.  *)
(*                                                                         *)
(* Callers run query_dns, one call at a time; Peers are the (from, dest)   *)
(* pairs of UDP flows.  Each lock section and each await of a call is a    *)
(* step.  A request is named by who made it and by the number of the call, *)
(* and a reply by the request it answers: the daemon may answer a request  *)
(* late, never or several times, and in any order.                         *)
(***************************************************************************)
EXTENDS Naturals

CONSTANTS
    Callers,  \* tasks that call query_dns
    Peers,    \* UDP flows
    ConIds,   \* the number of connection ids, 2^16
    MaxCalls  \* bound: calls of query_dns per caller

ASSUME UdpgwAssumption ==
    /\ Callers \cap Peers = {}
    /\ ConIds \in Nat \ {0}
    /\ MaxCalls \in Nat

VARIABLES
    next,     \* next_conid: AtomicU16
    allocs,   \* ids given out so far
    flows,    \* flows: HashMap<u16, Flow>, NoFlow for an id that is not there
    keys,     \* keys: the id of a UDP flow, ConIds for a flow that has none
    wire,     \* the packets written to the stream so far
    broken,   \* a write has failed: so does every later one
    call,     \* the point a call has reached
    try,      \* the number of the call
    cid,      \* its connection id
    chan,     \* its oneshot channel
    reply     \* the request the received reply answers

gateway == <<next, allocs, flows, keys, wire, broken>>
gwVars == <<next, allocs, flows, keys, wire, broken, call, try, cid, chan, reply>>

\* Flow::Dns { tx } of a call, Flow::Udp { from } of a peer
Request(kind, who, n) == [kind |-> kind, who |-> who, n |-> n]
NoFlow == Request("none", "none", 0)
Dns(t) == Request("dns", t, try[t])
Udp(p) == Request("udp", p, 0)
NoKey == ConIds

GwInit ==
    /\ next = 1 % ConIds
    /\ allocs = 0
    /\ flows = [i \in 0 .. ConIds - 1 |-> NoFlow]
    /\ keys = [p \in Peers |-> NoKey]
    /\ wire = {}
    /\ broken = FALSE
    /\ call = [t \in Callers |-> "idle"]
    /\ try = [t \in Callers |-> 0]
    /\ cid = [t \in Callers |-> 0]
    /\ chan = [t \in Callers |-> "none"]
    /\ reply = [t \in Callers |-> NoFlow]

\* alloc_conid: fetch_add of a u16
Alloc ==
    /\ next' = (next + 1) % ConIds
    /\ allocs' = allocs + 1

\* flows.insert and flows.remove at id i.  A sender that is dropped closes
\* the channel of the call that waits on it.
SetFlow(i, f) ==
    /\ flows' = [flows EXCEPT ![i] = f]
    /\ chan' = [t \in Callers |->
                  IF flows[i] = Dns(t) /\ chan[t] = "none" /\ f # Dns(t) THEN "closed" ELSE chan[t]]

-----------------------------------------------------------------------------
(* query_dns.                                                              *)

QueryDns(t) ==
    /\ call[t] = "idle"
    /\ try[t] < MaxCalls
    /\ Alloc
    /\ call' = [call EXCEPT ![t] = "insert"]
    /\ try' = [try EXCEPT ![t] = @ + 1]
    /\ cid' = [cid EXCEPT ![t] = next]
    /\ chan' = [chan EXCEPT ![t] = "none"]
    /\ reply' = [reply EXCEPT ![t] = NoFlow]
    /\ UNCHANGED <<flows, keys, wire, broken>>

\* The flow is inserted under the lock; one with the same id is dropped.
InsertQuery(t) ==
    /\ call[t] = "insert"
    /\ SetFlow(cid[t], Dns(t))
    /\ call' = [call EXCEPT ![t] = "write"]
    /\ UNCHANGED <<next, allocs, keys, wire, broken, try, cid, reply>>

\* write_packet: encode_frame and write_all
WriteQuery(t) ==
    /\ call[t] = "write"
    /\ ~broken
    /\ wire' = wire \cup {[id |-> cid[t], of |-> Dns(t)]}
    /\ call' = [call EXCEPT ![t] = "wait"]
    /\ UNCHANGED <<next, allocs, flows, keys, broken, try, cid, chan, reply>>

\* The call returns.
Return(t) ==
    /\ call' = [call EXCEPT ![t] = "idle"]
    /\ cid' = [cid EXCEPT ![t] = 0]

\* write_all fails: the flow is removed.
WriteFails(t) ==
    /\ call[t] = "write"
    /\ broken' = TRUE
    /\ SetFlow(cid[t], NoFlow)
    /\ Return(t)
    /\ UNCHANGED <<next, allocs, keys, wire, try, reply>>

\* The channel has a reply, or its sender is gone.
Received(t) ==
    /\ call[t] = "wait"
    /\ chan[t] # "none"
    /\ Return(t)
    /\ chan' = [chan EXCEPT ![t] = "none"]
    /\ reply' = [reply EXCEPT ![t] = NoFlow]
    /\ UNCHANGED <<next, allocs, flows, keys, wire, broken, try>>

\* Mutant of Expire: the wait has no timeout.
ExpireNever(t) ==
    /\ call[t] = "wait"
    /\ chan[t] # "none"
    /\ call' = [call EXCEPT ![t] = "expired"]
    /\ UNCHANGED <<gateway, try, cid, chan, reply>>

\* DNS_TIMEOUT: the flow is removed once the lock is free.
Expire(t) ==
    /\ call[t] = "wait"
    /\ chan[t] = "none"
    /\ call' = [call EXCEPT ![t] = "expired"]
    /\ UNCHANGED <<gateway, try, cid, chan, reply>>

\* Mutant of Forget: the flow of a query that timed out stays.
ForgetNothing(t) ==
    /\ call[t] = "expired"
    /\ Return(t)
    /\ UNCHANGED <<gateway, try, chan, reply>>

Forget(t) ==
    /\ call[t] = "expired"
    /\ SetFlow(cid[t], NoFlow)
    /\ Return(t)
    /\ UNCHANGED <<next, allocs, keys, wire, broken, try, reply>>

\* The steps inside a call, and those that end it without a reply.
QueryStep(t) == InsertQuery(t) \/ WriteQuery(t) \/ Expire(t)
QueryFails(t) == WriteFails(t) \/ Forget(t)

-----------------------------------------------------------------------------
(* send_udp and the reader.                                                *)

\* A flow that has no id gets one, under the lock of keys, and the datagram
\* is written with the flow's id.
SendUdp(p) ==
    LET id == IF keys[p] = NoKey THEN next ELSE keys[p] IN
    /\ IF keys[p] = NoKey
       THEN /\ Alloc
            /\ keys' = [keys EXCEPT ![p] = id]
            /\ SetFlow(id, Udp(p))
       ELSE UNCHANGED <<next, allocs, keys, flows, chan>>
    /\ wire' = IF broken THEN wire ELSE wire \cup {[id |-> id, of |-> Udp(p)]}
    /\ UNCHANGED <<broken, call, try, cid, reply>>

\* Mutant of Receive: the reply goes to a query in flight, not to the id's.
ReceiveByOrder(m) ==
    /\ flows[m.id].kind = "dns"
    /\ \E t \in Callers :
          /\ flows[cid[t]] = Dns(t) /\ chan[t] = "none"
          /\ flows' = [flows EXCEPT ![cid[t]] = NoFlow]
          /\ chan' = [chan EXCEPT ![t] = "reply"]
          /\ reply' = [reply EXCEPT ![t] = m.of]
    /\ UNCHANGED <<next, allocs, keys, wire, broken, call, try, cid>>

\* read_loop: a packet for a DNS flow takes the flow and fills the channel.
\* One for a UDP flow goes to the flow's peer and the flow is put back, and
\* one for an unknown id is dropped, as a keepalive is: nothing changes.  When
\* the loop ends (the token, the end of the stream, a frame that cannot be
\* decoded) the flows stay, no more packets are read and queries time out.
Receive(m) ==
    LET f == flows[m.id]
        mine == {t \in Callers : f = Dns(t) /\ chan[t] = "none"}
    IN
    /\ f.kind = "dns"
    /\ flows' = [flows EXCEPT ![m.id] = NoFlow]
    /\ \E filled \in {"reply", "empty"} :
          chan' = [t \in Callers |-> IF t \in mine THEN filled ELSE chan[t]]
    /\ reply' = [t \in Callers |-> IF t \in mine THEN m.of ELSE reply[t]]
    /\ UNCHANGED <<next, allocs, keys, wire, broken, call, try, cid>>

GwStep ==
    \/ \E p \in Peers : SendUdp(p)
    \/ \E m \in wire : Receive(m)

GwNext ==
    GwStep \/ \E t \in Callers : QueryDns(t) \/ QueryStep(t) \/ QueryFails(t) \/ Received(t)

GwSpec == GwInit /\ [][GwNext]_gwVars

-----------------------------------------------------------------------------
(* Properties.                                                             *)

\* The counter has come round: it gives out ids of flows that may be open.
Wrapped == allocs > ConIds

\* A DNS flow in the table belongs to a call in progress, the one that
\* allocated its id: neither a timeout nor a failed write leaves one behind.
\* A UDP flow stays under the id that keys has for it.
FlowsAreOwned ==
    ~Wrapped =>
      \A i \in 0 .. ConIds - 1 :
        /\ flows[i].kind = "dns" => \E t \in Callers :
              /\ flows[i] = Dns(t)
              /\ cid[t] = i
              /\ call[t] \in {"write", "wait", "expired"}
        /\ \A p \in Peers : keys[p] = i <=> flows[i] = Udp(p)

\* Until the ids come round, query_dns returns the reply to the query it sent
\* in this very call and never the late reply to an earlier or another one,
\* and a reply that read_loop passes on to a UDP peer answers that peer.
RepliesMatch ==
    ~Wrapped =>
      /\ \A t \in Callers : chan[t] = "reply" => reply[t] = Dns(t)
      /\ \A m \in wire : flows[m.id].kind = "udp" => m.of = flows[m.id]
=============================================================================
