----------------------------- MODULE Intercept -----------------------------
(***************************************************************************)
(* The DNS intercept of the full tunnel, crates/tunnel/src/transproxy.rs,  *)
(* on top of the UDPGW client.                                             *)
(*                                                                         *)
(* run_dns_intercept spawns a task for every query that nftables redirects *)
(* to it.  resolve_dns_query asks the servers in turn through UDPGW, then  *)
(* over TCP, where DnsTcpPool keeps one stream between queries.  The tasks *)
(* interleave at every await; they are never cancelled, so the end of      *)
(* run_dns_intercept only means that no more queries arrive.               *)
(***************************************************************************)
EXTENDS Udpgw, Sequences, FiniteSets

CONSTANTS
    Servers,    \* how many DNS servers are asked, at least 1: an empty list is replaced
    MaxQueries  \* bound: queries that arrive, with and without a UDPGW handle

None == "none"

ASSUME InterceptAssumption ==
    /\ None \notin Callers
    /\ Servers \in Nat \ {0}
    /\ MaxCalls = Servers
    /\ MaxQueries \in [BOOLEAN -> Nat]

VARIABLES
    via,      \* what there is: a UDPGW handle, DNS over TCP
    task,     \* the point each task has reached
    srv,      \* the server it asks
    answer,   \* the task whose query the answer it sends belongs to
    lock,     \* the task that holds DnsTcpPool.inner
    slot,     \* the stream in it
    own       \* the stream a task has opened

tcpVars == <<lock, slot, own>>
vars == <<gwVars, via, task, srv, answer, lock, slot, own>>

\* A stream to a server: the queries whose answers are not read yet, in the
\* order the server answers them.
Stream(k, queries) == [host |-> k, unread |-> queries]
NoStream == Stream(0, <<>>)

Init ==
    /\ GwInit
    /\ via \in [gw : BOOLEAN, tcp : BOOLEAN]
    /\ task = [t \in Callers |-> None]
    /\ srv = [t \in Callers |-> 0]
    /\ answer = [t \in Callers |-> None]
    /\ lock = None
    /\ slot = NoStream
    /\ own = [t \in Callers |-> NoStream]

Goto(t, l) == task' = [task EXCEPT ![t] = l]

\* The first server of dns_over_tcp_query; nothing with DnsOverTcp::Off
StartTcp(t) ==
    /\ Goto(t, IF via.tcp THEN "pool" ELSE "done")
    /\ srv' = [srv EXCEPT ![t] = 1]

\* The next server of dns_over_tcp_query, if there is one
NextServer(t) ==
    /\ Goto(t, IF srv[t] < Servers THEN "pool" ELSE "done")
    /\ srv' = [srv EXCEPT ![t] = IF @ < Servers THEN @ + 1 ELSE @]

\* recv_from and spawn: resolve_dns_query starts.  The tasks are alike, so it
\* does not matter which one a query gets.
Arrive(t) ==
    /\ task[t] = None
    /\ t = CHOOSE u \in Callers : task[u] = None
    /\ Cardinality({u \in Callers : task[u] # None}) < MaxQueries[via.gw]
    /\ IF via.gw THEN Goto(t, "gw") /\ srv' = [srv EXCEPT ![t] = 1] ELSE StartTcp(t)
    /\ UNCHANGED <<gwVars, via, answer, tcpVars>>

\* gw.query_dns for the server
Ask(t) ==
    /\ task[t] = "gw"
    /\ QueryDns(t)
    /\ Goto(t, "asked")
    /\ UNCHANGED <<via, srv, answer, tcpVars>>

Call(t) ==
    /\ QueryStep(t)
    /\ UNCHANGED <<via, task, srv, answer, tcpVars>>

\* An answer ends the task; an error or an empty answer is followed by the
\* next server and, after the last, by DNS over TCP.
Answered(t) ==
    /\ Received(t)
    /\ chan[t] = "reply"
    /\ answer' = [answer EXCEPT ![t] = reply[t].who]
    /\ Goto(t, "done")
    /\ UNCHANGED <<via, srv, tcpVars>>

Unanswered(t) ==
    /\ QueryFails(t) \/ (Received(t) /\ chan[t] # "reply")
    /\ IF srv[t] < Servers
       THEN Goto(t, "gw") /\ srv' = [srv EXCEPT ![t] = @ + 1]
       ELSE StartTcp(t)
    /\ UNCHANGED <<via, answer, tcpVars>>

-----------------------------------------------------------------------------
(* DnsTcpPool::exchange.                                                   *)

\* The lock is taken.  A stream to the server is used under the lock; one to
\* another server is dropped, and the lock released.
Lookup(t) ==
    /\ task[t] = "pool"
    /\ lock = None
    /\ IF slot.host = srv[t]
       THEN lock' = t /\ Goto(t, "reuse") /\ UNCHANGED slot
       ELSE slot' = NoStream /\ Goto(t, "connect") /\ UNCHANGED lock
    /\ UNCHANGED <<gwVars, via, srv, answer, own>>

\* exchange_over_tcp on the stream of the slot: the query is written, then
\* one answer is read.  The answer ends the task; an error clears the slot.
ReuseWrite(t) ==
    /\ task[t] = "reuse"
    /\ slot' = [slot EXCEPT !.unread = Append(@, t)]
    /\ Goto(t, "reuse_read")
    /\ UNCHANGED <<gwVars, via, srv, answer, lock, own>>

\* Mutant of ReuseFails: the stream stays in the slot, as with a timeout
\* around the exchange.
ReuseAbandoned(t) ==
    /\ task[t] \in {"reuse", "reuse_read"}
    /\ lock' = None
    /\ Goto(t, "connect")
    /\ UNCHANGED <<gwVars, via, srv, answer, slot, own>>

ReuseFails(t) ==
    /\ task[t] \in {"reuse", "reuse_read"}
    /\ slot' = NoStream
    /\ lock' = None
    /\ Goto(t, "connect")
    /\ UNCHANGED <<gwVars, via, srv, answer, own>>

ReuseRead(t) ==
    /\ task[t] = "reuse_read"
    /\ answer' = [answer EXCEPT ![t] = Head(slot.unread)]
    /\ slot' = [slot EXCEPT !.unread = Tail(@)]
    /\ lock' = None
    /\ Goto(t, "done")
    /\ UNCHANGED <<gwVars, via, srv, own>>

\* upstream.connect, outside the lock
Connect(t) ==
    /\ task[t] = "connect"
    /\ \/ /\ own' = [own EXCEPT ![t] = Stream(srv[t], <<>>)]
          /\ Goto(t, "fresh")
          /\ UNCHANGED srv
       \/ NextServer(t) /\ UNCHANGED own
    /\ UNCHANGED <<gwVars, via, answer, lock, slot>>

FreshWrite(t) ==
    /\ task[t] = "fresh"
    /\ own' = [own EXCEPT ![t].unread = Append(@, t)]
    /\ Goto(t, "fresh_read")
    /\ UNCHANGED <<gwVars, via, srv, answer, lock, slot>>

FreshFails(t) ==
    /\ task[t] \in {"fresh", "fresh_read"}
    /\ own' = [own EXCEPT ![t] = NoStream]
    /\ NextServer(t)
    /\ UNCHANGED <<gwVars, via, answer, lock, slot>>

FreshRead(t) ==
    /\ task[t] = "fresh_read"
    /\ answer' = [answer EXCEPT ![t] = Head(own[t].unread)]
    /\ own' = [own EXCEPT ![t].unread = Tail(@)]
    /\ Goto(t, "store")
    /\ UNCHANGED <<gwVars, via, srv, lock, slot>>

\* The stream goes into the slot, in place of the one that is there.
Store(t) ==
    /\ task[t] = "store"
    /\ lock = None
    /\ slot' = own[t]
    /\ own' = [own EXCEPT ![t] = NoStream]
    /\ Goto(t, "done")
    /\ UNCHANGED <<gwVars, via, srv, answer, lock>>

-----------------------------------------------------------------------------
\* What the program does by itself, and what only a server's answer brings.
Step(t) ==
    \/ Ask(t) \/ Call(t) \/ Answered(t) \/ Unanswered(t)
    \/ Lookup(t) \/ ReuseWrite(t) \/ FreshWrite(t) \/ Store(t)
Network(t) == ReuseRead(t) \/ ReuseFails(t) \/ Connect(t) \/ FreshRead(t) \/ FreshFails(t)

Gateway == via.gw /\ GwStep /\ UNCHANGED <<via, task, srv, answer, tcpVars>>

Next == Gateway \/ \E t \in Callers : Arrive(t) \/ Step(t) \/ Network(t)

Spec == Init /\ [][Next]_vars

\* The runtime runs a task that is ready, and the timer of query_dns fires.
\* Nothing makes a server answer on a TCP stream: there is no timeout there.
FairSpec == Spec /\ \A t \in Callers : WF_vars(Step(t))

-----------------------------------------------------------------------------
(* Properties.                                                             *)

\* The asker gets the answer to its own query, by whichever of UDPGW and TCP it
\* came, until the connection ids have come round.  exchange_over_tcp does not
\* compare ids: over TCP this rests on the pooled stream being used under the
\* lock and thrown away on every error.
AnswersMatch ==
    ~Wrapped => \A t \in Callers : task[t] = "done" => answer[t] \in {None, t}

\* The points at which only the network brings a task on.
Waiting == {"reuse_read", "connect", "fresh_read"}

\* A query ends unless some task waits for ever for a server on a TCP stream:
\* UDPGW, the timeouts and the lock of the pool hold no query up for good.
QueriesEnd ==
    []<>(\A t \in Callers : task[t] \notin Waiting)
      => []<>(\A t \in Callers : task[t] \in {None, "done"})
=============================================================================
