------------------------- MODULE ProxyServerProofs -------------------------
(***************************************************************************)
(* Theorems about ProxyServer: permits and statistics are exact, a stopped *)
(* proxy holds no port, and clients get consistent answers, for any number *)
(* of connections and permits.                                             *)
(***************************************************************************)
EXTENDS ProxyServer, FiniteSetTheorems, TLAPS

Points == Counted \cup {"none", "queued", "accepted", "release", "closed"}

Types ==
    /\ bound \subseteq Loops
    /\ loop \in [Loops -> {"none", "waiting", "admit", "count", "ended"}]
    /\ got \in [Loops -> Conns \cup {"none"}]
    /\ permits \in Nat /\ active \in Nat
    /\ at \in [Conns -> Points]
    /\ via \in [Conns -> Loops]

\* An accept task that handles a connection has it for itself.
GotInv ==
    \A l \in Loops : loop[l] \in {"admit", "count"} =>
       got[l] \in Conns /\ at[got[l]] = "accepted" /\ via[got[l]] = l

\* The ports that are bound at each phase of start and stop
PortInv ==
    /\ phase \in {"off", "binding", "failed", "running", "joining", "stopped"}
    /\ phase \in {"off", "failed"} => bound = {}
    /\ phase \in {"off", "binding", "failed"} => \A l \in Loops : loop[l] = "none"
    /\ phase \in {"running", "joining", "stopped"} =>
          \A l \in Loops : loop[l] # "none" /\ (l \in bound => loop[l] # "ended")
    /\ phase = "stopped" => \A l \in Loops : loop[l] = "ended"

-----------------------------------------------------------------------------
(* The steps, by what they do to a connection.                             *)

\* A session goes on, uncounts itself, or gives its permit back.
GoesOn(c) == at[c] \in Counted /\ at'[c] \in Counted /\ UNCHANGED <<permits, active>>
Leaves(c) ==
    at[c] = "uncount" /\ at'[c] = "release" /\ active' = active - 1 /\ UNCHANGED permits
Returns(c) ==
    at[c] = "release" /\ at'[c] = "closed" /\ permits' = permits + 1 /\ UNCHANGED active

Moves(c) ==
    /\ at' \in [Conns -> Points]
    /\ \A d \in Conns \ {c} : at'[d] = at[d]
    /\ UNCHANGED <<server, via>>

LEMMA SessionMoves ==
  ASSUME Types, NEW c \in Conns, Session(c)
  PROVE  Moves(c) /\ (GoesOn(c) \/ Leaves(c) \/ Returns(c))
<1>1. CASE Uncount(c) \/ Release(c)
  BY Zenon, <1>1 DEF Uncount, Release, Types, Moves, Leaves, Returns, Points, server
<1>2. CASE Dial(c) \/ Relay(c) \/ ClientLeaves(c)
  <2>1. at[c] \in Counted /\ UNCHANGED <<server, via, permits, active>>
    BY Zenon, <1>2 DEF Dial, Relay, ClientLeaves, Counted, counts
  <2>2. \E p \in Counted : at' = [at EXCEPT ![c] = p]
    BY Zenon, <1>2 DEF Dial, Relay, ClientLeaves, Counted, Talking
  <2> QED
    BY Zenon, <2>1, <2>2 DEF Types, Moves, GoesOn, Points
<1> DEFINE To == \E p \in Counted : at' = [at EXCEPT ![c] = p]
           Rest == UNCHANGED <<server, counts, via>>
<1>3. ASSUME at[c] \in Counted, To, Rest
      PROVE  Moves(c) /\ GoesOn(c)
  BY Zenon, <1>3 DEF Types, Moves, GoesOn, Points, counts
<1>4. CASE Dispatch(c) \/ Greeting(c) \/ UserPass(c)
  <2>1. at[c] \in Counted
    BY Zenon, <1>4 DEF Dispatch, Greeting, UserPass, Counted, Talking
  <2>2. To /\ Rest
    <3>1. CASE Dispatch(c)
      BY Zenon, <3>1 DEF Dispatch, Counted, Talking, Continue
    <3>2. CASE Greeting(c)
      BY Zenon, <3>2 DEF Greeting, Selected, Counted, Talking, Continue
    <3>3. CASE UserPass(c)
      BY Zenon, <3>3 DEF UserPass, Counted, Talking, Continue
    <3> QED
      BY Zenon, <1>4, <3>1, <3>2, <3>3
  <2> QED
    BY Zenon, <1>3, <2>1, <2>2
<1>5. CASE Request(c) \/ Request4(c) \/ HttpConnect(c) \/ Grant(c) \/ Reject(c)
  <2>1. at[c] \in Counted
    BY Zenon, <1>5 DEF Request, Request4, HttpConnect, Grant, Reject, Counted, Talking
  <2>2. To /\ Rest
    <3>1. CASE Request(c)
      BY Zenon, <3>1 DEF Request, Counted, Continue
    <3>2. CASE Request4(c)
      BY Zenon, <3>2 DEF Request4, Counted, Continue
    <3>3. CASE HttpConnect(c)
      BY Zenon, <3>3 DEF HttpConnect, Counted, Continue
    <3>4. CASE Grant(c) \/ Reject(c)
      BY Zenon, <3>4 DEF Grant, Reject, Counted, Continue
    <3> QED
      BY Zenon, <1>5, <3>1, <3>2, <3>3, <3>4
  <2> QED
    BY Zenon, <1>3, <2>1, <2>2
<1> QED
  BY Zenon, <1>1, <1>2, <1>4, <1>5 DEF Session

-----------------------------------------------------------------------------
(* Permits and statistics.                                                 *)

LEMMA FiniteSets ==
  ASSUME Types
  PROVE  /\ IsFiniteSet(Running) /\ IsFiniteSet(Holding) /\ IsFiniteSet(Admitting)
         /\ Cardinality(Running) \in Nat /\ Cardinality(Holding) \in Nat
         /\ Cardinality(Admitting) \in Nat
<1>1. IsFiniteSet(Running) /\ IsFiniteSet(Holding)
  BY Zenon, ProxyAssumption, FS_Subset DEF Running, Holding
<1>2. IsFiniteSet({"socks"} \cup {"http"})
  BY Zenon, FS_Singleton, FS_Union
<1>3. Admitting \subseteq {"socks"} \cup {"http"}
  BY Zenon DEF Admitting, Loops
<1>4. IsFiniteSet(Admitting)
  BY Zenon, <1>2, <1>3, FS_Subset
<1> QED
  BY Zenon, <1>1, <1>4, FS_CardinalityType

\* What a step does to the three sets and the two counters
Same == /\ Running' = Running /\ Holding' = Holding /\ Admitting' = Admitting
        /\ UNCHANGED <<permits, active>>
Admits == \E l \in Loops : /\ l \notin Admitting /\ Admitting' = Admitting \cup {l}
                           /\ Running' = Running /\ Holding' = Holding
                           /\ permits > 0 /\ permits' = permits - 1 /\ active' = active
Starts == \E l \in Loops, c \in Conns :
             /\ l \in Admitting /\ Admitting' = Admitting \ {l}
             /\ c \notin Running /\ Running' = Running \cup {c}
             /\ c \notin Holding /\ Holding' = Holding \cup {c}
             /\ permits' = permits /\ active' = active + 1
Finishes == \E c \in Conns : /\ c \in Running /\ Running' = Running \ {c}
                             /\ Holding' = Holding /\ Admitting' = Admitting
                             /\ permits' = permits /\ active' = active - 1
GivesBack == \E c \in Conns : /\ c \in Holding /\ Holding' = Holding \ {c}
                              /\ Running' = Running /\ Admitting' = Admitting
                              /\ permits' = permits + 1 /\ active' = active

LEMMA CountsKept ==
  ASSUME Types, PermitsAreExact, Same \/ Admits \/ Starts \/ Finishes \/ GivesBack
  PROVE  PermitsAreExact' /\ permits' \in Nat /\ active' \in Nat
<1> DEFINE R == Cardinality(Running)  H == Cardinality(Holding)  A == Cardinality(Admitting)
<1>1. /\ IsFiniteSet(Running) /\ IsFiniteSet(Holding) /\ IsFiniteSet(Admitting)
      /\ R \in Nat /\ H \in Nat /\ A \in Nat
  BY Zenon, FiniteSets
<1>2. Capacity \in Nat /\ permits \in Nat /\ active \in Nat /\ permits + H + A = Capacity /\ active = R
  BY Zenon, ProxyAssumption DEF Types, PermitsAreExact
<1>3. CASE Same
  BY Zenon, <1>2, <1>3 DEF Same, PermitsAreExact
<1>4. CASE Admits
  <2>1. A' = A + 1
    BY Zenon, <1>1, <1>4, FS_AddElement DEF Admits
  <2>2. R' = R /\ H' = H /\ permits > 0 /\ permits' = permits - 1 /\ active' = active
    BY Zenon, <1>4 DEF Admits
  <2> HIDE DEF R, H, A
  <2>3. permits' \in Nat /\ permits' >= 0 /\ permits' + H' + A' = Capacity /\ active' = R' /\ active' \in Nat
    BY <1>1, <1>2, <2>1, <2>2
  <2> QED
    BY Zenon, <2>3 DEF PermitsAreExact, R, H, A
<1>5. CASE Starts
  <2>1. PICK l \in Loops, c \in Conns :
             /\ l \in Admitting /\ Admitting' = Admitting \ {l}
             /\ c \notin Running /\ Running' = Running \cup {c}
             /\ c \notin Holding /\ Holding' = Holding \cup {c}
             /\ permits' = permits /\ active' = active + 1
    BY Zenon, <1>5 DEF Starts
  <2>2. R' = R + 1 /\ H' = H + 1
    BY Zenon, <1>1, <2>1, FS_AddElement
  <2>3. A' = A - 1
    BY Zenon, <1>1, <2>1, FS_RemoveElement
  <2> HIDE DEF R, H, A
  <2>4. permits' \in Nat /\ permits' >= 0 /\ permits' + H' + A' = Capacity /\ active' = R' /\ active' \in Nat
    BY <1>1, <1>2, <2>1, <2>2, <2>3
  <2> QED
    BY Zenon, <2>4 DEF PermitsAreExact, R, H, A
<1>6. CASE Finishes
  <2>1. PICK c \in Conns : /\ c \in Running /\ Running' = Running \ {c}
                           /\ Holding' = Holding /\ Admitting' = Admitting
                           /\ permits' = permits /\ active' = active - 1
    BY Zenon, <1>6 DEF Finishes
  <2>2. R' = R - 1 /\ R' \in Nat
    <3>1. R' = R - 1
      BY Zenon, <1>1, <2>1, FS_RemoveElement
    <3>2. IsFiniteSet(Running \ {c})
      BY Zenon, <1>1, FS_Subset
    <3>3. R' \in Nat
      BY Zenon, <2>1, <3>2, FS_CardinalityType
    <3> QED
      BY Zenon, <3>1, <3>3
  <2>3. H' = H /\ A' = A
    BY Zenon, <2>1
  <2> HIDE DEF R, H, A
  <2>4. permits' \in Nat /\ permits' >= 0 /\ permits' + H' + A' = Capacity /\ active' = R' /\ active' \in Nat
    BY <1>1, <1>2, <2>1, <2>2, <2>3
  <2> QED
    BY Zenon, <2>4 DEF PermitsAreExact, R, H, A
<1>7. CASE GivesBack
  <2>1. PICK c \in Conns : /\ c \in Holding /\ Holding' = Holding \ {c}
                           /\ Running' = Running /\ Admitting' = Admitting
                           /\ permits' = permits + 1 /\ active' = active
    BY Zenon, <1>7 DEF GivesBack
  <2>2. H' = H - 1
    BY Zenon, <1>1, <2>1, FS_RemoveElement
  <2>3. R' = R /\ A' = A
    BY Zenon, <2>1
  <2> HIDE DEF R, H, A
  <2>4. permits' \in Nat /\ permits' >= 0 /\ permits' + H' + A' = Capacity /\ active' = R' /\ active' \in Nat
    BY <1>1, <1>2, <2>1, <2>2, <2>3
  <2> QED
    BY Zenon, <2>4 DEF PermitsAreExact, R, H, A
<1> QED
  BY Zenon, <1>3, <1>4, <1>5, <1>6, <1>7

-----------------------------------------------------------------------------
(* Every step keeps the shape and moves the three sets.                    *)

Shape ==
    /\ bound \subseteq Loops
    /\ loop \in [Loops -> {"none", "waiting", "admit", "count", "ended"}]
    /\ got \in [Loops -> Conns \cup {"none"}]
    /\ at \in [Conns -> Points]
    /\ via \in [Conns -> Loops]

Balance == Same \/ Admits \/ Starts \/ Finishes \/ GivesBack

\* The sets after a step that moves one connection
LEMMA MovedSets ==
  ASSUME Types, NEW c \in Conns, \A d \in Conns \ {c} : at'[d] = at[d]
  PROVE  /\ Running' = IF at'[c] \in Counted THEN Running \cup {c} ELSE Running \ {c}
         /\ Holding' = IF at'[c] \in Counted \cup {"release"} THEN Holding \cup {c}
                                                              ELSE Holding \ {c}
         /\ c \in Running <=> at[c] \in Counted
         /\ c \in Holding <=> at[c] \in Counted \cup {"release"}
<1>1. \A d \in Conns : d # c => (d \in Running' <=> d \in Running) /\ (d \in Holding' <=> d \in Holding)
  BY Zenon DEF Running, Holding
<1>2. /\ c \in Running' <=> at'[c] \in Counted
      /\ c \in Holding' <=> at'[c] \in Counted \cup {"release"}
      /\ c \in Running <=> at[c] \in Counted
      /\ c \in Holding <=> at[c] \in Counted \cup {"release"}
  BY Zenon DEF Running, Holding
<1>3. Running \subseteq Conns /\ Running' \subseteq Conns /\ Holding \subseteq Conns /\ Holding' \subseteq Conns
  BY Zenon DEF Running, Holding
<1>4. Running' = IF at'[c] \in Counted THEN Running \cup {c} ELSE Running \ {c}
  BY Zenon, <1>1, <1>2, <1>3
<1>5. Holding' = IF at'[c] \in Counted \cup {"release"} THEN Holding \cup {c} ELSE Holding \ {c}
  BY Zenon, <1>1, <1>2, <1>3
<1> QED
  BY Zenon, <1>2, <1>4, <1>5

LEMMA SessionStep ==
  ASSUME Types, GotInv, PortInv, NEW c \in Conns, Session(c)
  PROVE  Shape' /\ GotInv' /\ PortInv' /\ Balance
<1>1. Moves(c) /\ (GoesOn(c) \/ Leaves(c) \/ Returns(c))
  BY Zenon, SessionMoves
<1>2. UNCHANGED <<phase, bound, loop, got, via>> /\ \A d \in Conns \ {c} : at'[d] = at[d]
  BY Zenon, <1>1 DEF Moves, server
<1>3. Shape'
  BY Zenon, <1>1, <1>2 DEF Types, Shape, Moves
<1>4. at[c] # "accepted"
  BY Zenon, <1>1 DEF GoesOn, Leaves, Returns, Counted, Talking
<1>5. GotInv'
  BY Zenon, <1>2, <1>4 DEF GotInv
<1>6. PortInv'
  BY Zenon, <1>2 DEF PortInv
<1>7. Admitting' = Admitting
  BY Zenon, <1>2 DEF Admitting
<1>8. /\ Running' = IF at'[c] \in Counted THEN Running \cup {c} ELSE Running \ {c}
      /\ Holding' = IF at'[c] \in Counted \cup {"release"} THEN Holding \cup {c} ELSE Holding \ {c}
      /\ c \in Running <=> at[c] \in Counted
      /\ c \in Holding <=> at[c] \in Counted \cup {"release"}
  BY Zenon, <1>2, MovedSets
<1>9. "uncount" \in Counted /\ "release" \notin Counted /\ "closed" \notin Counted
  BY Zenon DEF Counted, Talking
<1>10. CASE GoesOn(c)
  <2>1. Running' = Running /\ Holding' = Holding
    BY Zenon, <1>8, <1>10 DEF GoesOn
  <2> QED
    BY Zenon, <1>3, <1>5, <1>6, <1>7, <1>10, <2>1 DEF Balance, Same, GoesOn
<1>11. CASE Leaves(c)
  <2>1. c \in Running /\ Running' = Running \ {c} /\ Holding' = Holding
    BY Zenon, <1>8, <1>9, <1>11 DEF Leaves
  <2> QED
    BY Zenon, <1>3, <1>5, <1>6, <1>7, <1>11, <2>1 DEF Balance, Finishes, Leaves
<1>12. CASE Returns(c)
  <2>1. c \in Holding /\ Holding' = Holding \ {c} /\ Running' = Running
    BY Zenon, <1>8, <1>9, <1>12 DEF Returns
  <2> QED
    BY Zenon, <1>3, <1>5, <1>6, <1>7, <1>12, <2>1 DEF Balance, GivesBack, Returns
<1> QED
  BY Zenon, <1>1, <1>10, <1>11, <1>12

LEMMA StartStopStep ==
  ASSUME Types, GotInv, PortInv, BindSocks \/ BindHttp \/ Stop \/ Joined
  PROVE  Shape' /\ GotInv' /\ PortInv' /\ Balance
<1>1. UNCHANGED <<at, via, got, permits, active>>
  BY Zenon DEF BindSocks, BindHttp, Stop, Joined, counts, session
<1>2. \/ loop' = loop
      \/ phase = "binding" /\ loop' = [l \in Loops |-> "waiting"]
  BY Zenon DEF BindSocks, BindHttp, Stop, Joined
<1>3. bound' \subseteq Loops
  BY Zenon DEF BindSocks, BindHttp, Stop, Joined, Types, Loops
<1>4. Shape'
  BY Zenon, <1>1, <1>2, <1>3 DEF Types, Shape
<1>5. \A l \in Loops : \/ loop'[l] = loop[l]
                       \/ loop[l] = "none" /\ loop'[l] = "waiting"
  BY Zenon, <1>2 DEF PortInv
<1>6. GotInv'
  BY Zenon, <1>1, <1>5 DEF GotInv
<1>7. Running' = Running /\ Holding' = Holding /\ Admitting' = Admitting
  BY Zenon, <1>1, <1>5 DEF Running, Holding, Admitting
<1>8. PortInv'
  BY Zenon DEF PortInv, BindSocks, BindHttp, Stop, Joined, Types, Loops
<1> QED
  BY Zenon, <1>1, <1>4, <1>6, <1>7, <1>8 DEF Balance, Same

LEMMA ArriveStep ==
  ASSUME Types, GotInv, PortInv, NEW c \in Conns, NEW l \in Loops, Arrive(c, l)
  PROVE  Shape' /\ GotInv' /\ PortInv' /\ Balance
<1>1. /\ at[c] = "none" /\ at' = [at EXCEPT ![c] = "queued"] /\ via' = [via EXCEPT ![c] = l]
      /\ UNCHANGED <<phase, bound, loop, got, permits, active>>
  BY Zenon DEF Arrive, server, counts
<1>2. at'[c] = "queued" /\ \A d \in Conns \ {c} : at'[d] = at[d] /\ via'[d] = via[d]
  BY Zenon, <1>1 DEF Types
<1>3. Shape'
  BY Zenon, <1>1 DEF Types, Shape, Points
<1>4. GotInv'
  BY <1>1, <1>2 DEF GotInv
<1>5. PortInv'
  BY Zenon, <1>1 DEF PortInv
<1>6. Running' = Running /\ Holding' = Holding
  BY Zenon, <1>1, <1>2 DEF Running, Holding, Counted, Talking
<1>7. Admitting' = Admitting
  BY Zenon, <1>1 DEF Admitting
<1> QED
  BY Zenon, <1>1, <1>3, <1>4, <1>5, <1>6, <1>7 DEF Balance, Same

\* A task of the accept loop that goes from one point to another keeps the
\* ports as they are.
LEMMA LoopPorts ==
  ASSUME Types, PortInv, NEW l \in Loops, NEW p \in {"waiting", "admit", "count", "ended"},
         loop[l] \notin {"none", "ended"}, loop' = [loop EXCEPT ![l] = p],
         bound' = IF p = "ended" THEN bound \ {l} ELSE bound, phase' = phase
  PROVE  PortInv'
<1>1. loop'[l] = p /\ \A k \in Loops \ {l} : loop'[k] = loop[k]
  BY Zenon DEF Types
<1>2. phase \in {"running", "joining"}
  BY Zenon DEF PortInv
<1> QED
  BY Zenon, <1>1, <1>2 DEF PortInv

LEMMA LeaveStep ==
  ASSUME Types, GotInv, PortInv, NEW l \in Loops, LoopEnds(l) \/ AcceptFails(l)
  PROVE  Shape' /\ GotInv' /\ PortInv' /\ Balance
<1>1. /\ loop[l] = "waiting" /\ loop' = [loop EXCEPT ![l] = "ended"] /\ bound' = bound \ {l}
      /\ at' = [c \in Conns |-> IF at[c] = "queued" /\ via[c] = l THEN "closed" ELSE at[c]]
      /\ UNCHANGED <<phase, got, via, permits, active>>
  BY Zenon DEF LoopEnds, AcceptFails, LeaveLoop, counts
<1>2. loop'[l] = "ended" /\ \A k \in Loops \ {l} : loop'[k] = loop[k]
  BY Zenon, <1>1 DEF Types
<1>3. Shape'
  BY Zenon, <1>1 DEF Types, Shape, Points
<1>4. \A c \in Conns : at'[c] = at[c] \/ (at[c] = "queued" /\ at'[c] = "closed")
  BY Zenon, <1>1
<1>5. GotInv'
  BY <1>1, <1>2, <1>4 DEF GotInv
<1>6. PortInv'
  BY Zenon, <1>1, LoopPorts
<1>7. Running' = Running /\ Holding' = Holding
  BY Zenon, <1>4 DEF Running, Holding, Counted, Talking
<1>8. Admitting' = Admitting
  BY Zenon, <1>1, <1>2 DEF Admitting
<1> QED
  BY Zenon, <1>1, <1>3, <1>5, <1>6, <1>7, <1>8 DEF Balance, Same

LEMMA AcceptStep ==
  ASSUME Types, GotInv, PortInv, NEW l \in Loops, NEW c \in Conns, Accept(l, c)
  PROVE  Shape' /\ GotInv' /\ PortInv' /\ Balance
<1>1. /\ loop[l] = "waiting" /\ loop' = [loop EXCEPT ![l] = "admit"]
      /\ at[c] = "queued" /\ via[c] = l /\ at' = [at EXCEPT ![c] = "accepted"]
      /\ got' = [got EXCEPT ![l] = c]
      /\ UNCHANGED <<phase, bound, via, permits, active>>
  BY Zenon DEF Accept, counts
<1>2. /\ loop'[l] = "admit" /\ got'[l] = c /\ at'[c] = "accepted"
      /\ \A k \in Loops \ {l} : loop'[k] = loop[k] /\ got'[k] = got[k]
      /\ \A d \in Conns \ {c} : at'[d] = at[d]
  BY Zenon, <1>1 DEF Types
<1>3. Shape'
  BY Zenon, <1>1 DEF Types, Shape, Points
<1>4. GotInv'
  BY <1>1, <1>2 DEF GotInv
<1>5. PortInv'
  BY Zenon, <1>1, LoopPorts
<1>6. Running' = Running /\ Holding' = Holding
  BY <1>1, <1>2 DEF Running, Holding, Counted, Talking
<1>7. Admitting' = Admitting
  BY Zenon, <1>1, <1>2 DEF Admitting
<1> QED
  BY Zenon, <1>1, <1>3, <1>4, <1>5, <1>6, <1>7 DEF Balance, Same

LEMMA AdmitStep ==
  ASSUME Types, GotInv, PortInv, NEW l \in Loops, Admit(l)
  PROVE  Shape' /\ GotInv' /\ PortInv' /\ Balance
<1>1. /\ loop[l] = "admit" /\ loop' = [loop EXCEPT ![l] = "count"]
      /\ permits > 0 /\ permits' = permits - 1
      /\ UNCHANGED <<phase, bound, got, at, via, active>>
  BY Zenon DEF Admit, session
<1>2. loop'[l] = "count" /\ \A k \in Loops \ {l} : loop'[k] = loop[k]
  BY Zenon, <1>1 DEF Types
<1>3. Shape'
  BY Zenon, <1>1 DEF Types, Shape
<1>4. GotInv'
  BY Zenon, <1>1, <1>2 DEF GotInv
<1>5. PortInv'
  BY Zenon, <1>1, LoopPorts
<1>6. Running' = Running /\ Holding' = Holding
  BY Zenon, <1>1 DEF Running, Holding
<1>7. l \notin Admitting /\ Admitting' = Admitting \cup {l}
  BY Zenon, <1>1, <1>2 DEF Admitting
<1> QED
  BY Zenon, <1>1, <1>3, <1>4, <1>5, <1>6, <1>7 DEF Balance, Admits

LEMMA RefuseStep ==
  ASSUME Types, GotInv, PortInv, NEW l \in Loops, Refuse(l)
  PROVE  Shape' /\ GotInv' /\ PortInv' /\ Balance
<1> DEFINE g == got[l]
<1>1. /\ loop[l] = "admit" /\ loop' = [loop EXCEPT ![l] = "waiting"]
      /\ at' = [at EXCEPT ![g] = "closed"] /\ got' = [got EXCEPT ![l] = "none"]
      /\ UNCHANGED <<phase, bound, via, permits, active>>
  BY Zenon DEF Refuse, counts
<1>2. g \in Conns /\ at[g] = "accepted" /\ via[g] = l
  BY Zenon, <1>1 DEF GotInv
<1> HIDE DEF g
<1>3. /\ loop'[l] = "waiting" /\ at'[g] = "closed"
      /\ \A k \in Loops \ {l} : loop'[k] = loop[k] /\ got'[k] = got[k]
      /\ \A d \in Conns \ {g} : at'[d] = at[d]
  BY Zenon, <1>1, <1>2 DEF Types
<1>4. Shape'
  BY Zenon, <1>1, <1>2 DEF Types, Shape, Points
<1>5. GotInv'
  BY <1>1, <1>2, <1>3 DEF GotInv
<1>6. PortInv'
  BY Zenon, <1>1, LoopPorts
<1>7. Running' = Running /\ Holding' = Holding
  BY Zenon, <1>2, <1>3 DEF Running, Holding, Counted, Talking
<1>8. Admitting' = Admitting
  BY Zenon, <1>1, <1>3 DEF Admitting
<1> QED
  BY Zenon, <1>1, <1>4, <1>5, <1>6, <1>7, <1>8 DEF Balance, Same

LEMMA CountStep ==
  ASSUME Types, GotInv, PortInv, NEW l \in Loops, Count(l)
  PROVE  Shape' /\ GotInv' /\ PortInv' /\ Balance
<1> DEFINE g == got[l]  p == IF l = "socks" THEN "version" ELSE "http"
<1>1. /\ loop[l] = "count" /\ loop' = [loop EXCEPT ![l] = "waiting"]
      /\ at' = [at EXCEPT ![g] = p] /\ got' = [got EXCEPT ![l] = "none"]
      /\ active' = active + 1 /\ UNCHANGED <<phase, bound, via, permits>>
  BY Zenon DEF Count
<1>2. g \in Conns /\ at[g] = "accepted" /\ via[g] = l
  BY Zenon, <1>1 DEF GotInv
<1>3. p \in Counted
  BY Zenon DEF Counted, Talking
<1> HIDE DEF g, p
<1>4. /\ loop'[l] = "waiting" /\ at'[g] = p
      /\ \A k \in Loops \ {l} : loop'[k] = loop[k] /\ got'[k] = got[k]
      /\ \A d \in Conns \ {g} : at'[d] = at[d]
  BY Zenon, <1>1, <1>2 DEF Types
<1>5. Shape'
  BY Zenon, <1>1, <1>2, <1>3 DEF Types, Shape, Points
<1>6. GotInv'
  BY <1>1, <1>2, <1>4 DEF GotInv
<1>7. PortInv'
  BY Zenon, <1>1, LoopPorts
<1>8. at[g] \notin Counted \cup {"release"}
  BY Zenon, <1>2 DEF Counted, Talking
<1>9. /\ g \notin Running /\ Running' = Running \cup {g}
      /\ g \notin Holding /\ Holding' = Holding \cup {g}
  BY Zenon, <1>2, <1>3, <1>4, <1>8, MovedSets
<1>10. l \in Admitting /\ Admitting' = Admitting \ {l}
  BY Zenon, <1>1, <1>4 DEF Admitting
<1> QED
  BY Zenon, <1>1, <1>2, <1>5, <1>6, <1>7, <1>9, <1>10 DEF Balance, Starts

ProxyInv == Types /\ GotInv /\ PortInv /\ PermitsAreExact

LEMMA ProxyInit == Init => ProxyInv
<1> SUFFICES ASSUME Init PROVE ProxyInv
  BY Zenon
<1>1. Types
  BY Zenon, ProxyAssumption DEF Init, Types, Points, Loops
<1>2. GotInv /\ PortInv
  BY Zenon DEF Init, GotInv, PortInv
<1>3. Running = {} /\ Holding = {} /\ Admitting = {}
  BY Zenon DEF Init, Running, Holding, Admitting, Counted, Talking
<1>4. Cardinality(Running) = 0 /\ Cardinality(Holding) = 0 /\ Cardinality(Admitting) = 0
  BY Zenon, <1>3, FS_EmptySet
<1>5. PermitsAreExact
  BY <1>4, ProxyAssumption DEF Init, PermitsAreExact
<1> QED
  BY Zenon, <1>1, <1>2, <1>5 DEF ProxyInv

LEMMA ProxyStep == ProxyInv /\ [Next]_vars => ProxyInv'
<1> SUFFICES ASSUME ProxyInv, [Next]_vars PROVE ProxyInv'
  BY Zenon
<1>1. Types /\ GotInv /\ PortInv /\ PermitsAreExact
  BY Zenon DEF ProxyInv
<1>2. "socks" \in Loops /\ "http" \in Loops
  BY Zenon DEF Loops
<1>3. ASSUME NEW l \in Loops, AcceptTask(l)
      PROVE  Shape' /\ GotInv' /\ PortInv' /\ Balance
  BY Zenon, <1>1, <1>3, LeaveStep, AcceptStep, AdmitStep, RefuseStep, CountStep DEF AcceptTask
<1>4. CASE Next
  <2>1. Shape' /\ GotInv' /\ PortInv' /\ Balance
    BY Zenon, <1>1, <1>2, <1>3, <1>4, StartStopStep, SessionStep, ArriveStep DEF Next, SocksTask, HttpTask
  <2>2. PermitsAreExact' /\ permits' \in Nat /\ active' \in Nat
    BY Zenon, <1>1, <2>1, CountsKept DEF Balance
  <2> QED
    BY Zenon, <2>1, <2>2 DEF ProxyInv, Shape, Types
<1>5. CASE UNCHANGED vars
  <2>1. Running' = Running /\ Holding' = Holding /\ Admitting' = Admitting
    BY Zenon, <1>5 DEF vars, Running, Holding, Admitting
  <2>2. Same /\ UNCHANGED <<phase, bound, loop, got, at, via, permits, active>>
    BY Zenon, <1>5, <2>1 DEF vars, Same
  <2>3. PermitsAreExact'
    BY Zenon, <1>1, <2>2, CountsKept
  <2>4. Types' /\ GotInv' /\ PortInv'
    BY Zenon, <1>1, <2>2 DEF Types, GotInv, PortInv
  <2> QED
    BY Zenon, <2>3, <2>4 DEF ProxyInv
<1> QED
  BY Zenon, <1>4, <1>5

\* No path of the three handlers and the accept loops loses or invents a
\* permit or a count of stats.active, for any number of connections and permits.
THEOREM PermitsAreKept == Spec => []PermitsAreExact
<1>1. ProxyInv => PermitsAreExact
  BY Zenon DEF ProxyInv
<1> QED
  BY <1>1, ProxyInit, ProxyStep, PTL DEF Spec

\* When stop has returned or start has failed neither listener holds its port.
THEOREM PortsGetFree == Spec => []PortsAreFreed
<1>1. ProxyInv => PortsAreFreed
  <2> SUFFICES ASSUME ProxyInv, phase \in {"stopped", "failed"} PROVE bound = {}
    BY Zenon DEF PortsAreFreed
  <2>1. bound \subseteq Loops
    BY Zenon DEF ProxyInv, Types
  <2> QED
    BY Zenon, <2>1 DEF ProxyInv, PortInv
<1> QED
  BY <1>1, ProxyInit, ProxyStep, PTL DEF Spec

-----------------------------------------------------------------------------
(* What a client is told: s is what was sent to it; is its upstream open?  *)

Words == Finals \cup {"anonymous", "userpass", "auth_ok"}

NoFinal(s) == \A i \in 1 .. Len(s) : s[i] \notin Finals
FinalLast(s) == \A i \in 1 .. Len(s) : s[i] \in Finals => i = Len(s)
Checked(s) == \A i \in 1 .. Len(s) : s[i] = "userpass" => i < Len(s) /\ s[i + 1] = "auth_ok"

Early == {"none", "queued", "accepted", "version", "greeting", "socks4", "http"}

ClientOK(p, s, open) ==
    /\ s \in Seq(Words) /\ open \in BOOLEAN
    /\ FinalLast(s)
    /\ p \in Early => s = <<>>
    /\ p = "userpass" => Len(s) = 1 /\ s[1] = "userpass"
    /\ p \in {"userpass", "request", "dial", "grant", "reject"} => NoFinal(s)
    /\ p \in {"request", "dial", "grant", "reject", "relay"} => Checked(s)
    /\ open <=> p \in {"grant", "relay"}
    /\ p = "relay" => s # <<>> /\ s[Len(s)] = "granted"

AnswerInv ==
    /\ sent \in [Conns -> Seq(Words)] /\ up \in [Conns -> BOOLEAN]
    /\ \A c \in Conns : ClientOK(at[c], sent[c], up[c])

LEMMA AddWord ==
  ASSUME NEW S, NEW s \in Seq(S), NEW m \in S
  PROVE  /\ s \o <<m>> \in Seq(S) /\ s \o <<m>> # <<>>
         /\ Len(s) \in Nat /\ Len(s \o <<m>>) = Len(s) + 1
         /\ (s \o <<m>>)[Len(s) + 1] = m
         /\ \A i \in 1 .. Len(s) : (s \o <<m>>)[i] = s[i]
<1>1. s \o <<m>> \in Seq(S) /\ Len(s) \in Nat /\ Len(s \o <<m>>) = Len(s) + 1
  OBVIOUS
<1>2. (s \o <<m>>)[Len(s) + 1] = m /\ \A i \in 1 .. Len(s) : (s \o <<m>>)[i] = s[i]
  OBVIOUS
<1>3. s \o <<m>> # <<>>
  BY <1>1
<1> QED
  BY Zenon, <1>1, <1>2, <1>3

LEMMA AddNothing == ASSUME NEW S, NEW s \in Seq(S) PROVE s \o <<>> = s
OBVIOUS

\* A word after words none of which is final
LEMMA AddFinal ==
  ASSUME NEW s \in Seq(Words), NEW m \in Words, NoFinal(s)
  PROVE  /\ FinalLast(s \o <<m>>)
         /\ m \notin Finals => NoFinal(s \o <<m>>)
<1> DEFINE r == s \o <<m>>
<1>1. Len(s) \in Nat /\ Len(r) = Len(s) + 1 /\ r[Len(s) + 1] = m /\ \A i \in 1 .. Len(s) : r[i] = s[i]
  BY AddWord
<1> HIDE DEF r
<1>2. \A i \in 1 .. Len(r) : i = Len(s) + 1 \/ i \in 1 .. Len(s)
  BY <1>1
<1>3. FinalLast(r)
  BY Zenon, <1>1, <1>2 DEF NoFinal, FinalLast
<1>4. m \notin Finals => NoFinal(r)
  BY Zenon, <1>1, <1>2 DEF NoFinal
<1> QED
  BY Zenon, <1>3, <1>4 DEF r

LEMMA AddChecked ==
  ASSUME NEW s \in Seq(Words), NEW m \in Words, m # "userpass",
         Checked(s) \/ (Len(s) = 1 /\ m = "auth_ok")
  PROVE  Checked(s \o <<m>>)
<1> DEFINE r == s \o <<m>>
<1>1. Len(s) \in Nat /\ Len(r) = Len(s) + 1 /\ r[Len(s) + 1] = m /\ \A i \in 1 .. Len(s) : r[i] = s[i]
  BY AddWord
<1> HIDE DEF r
<1>2. \A i \in 1 .. Len(r) : i = Len(s) + 1 \/ i \in 1 .. Len(s)
  BY <1>1
<1>3. CASE Checked(s)
  <2> SUFFICES ASSUME NEW i \in 1 .. Len(r), r[i] = "userpass"
               PROVE  i < Len(r) /\ r[i + 1] = "auth_ok"
    BY Zenon DEF Checked, r
  <2>1. i \in 1 .. Len(s) /\ s[i] = "userpass"
    BY Zenon, <1>1, <1>2
  <2>2. i < Len(s) /\ s[i + 1] = "auth_ok"
    BY Zenon, <1>3, <2>1 DEF Checked
  <2>3. i + 1 \in 1 .. Len(s)
    BY <1>1, <2>1, <2>2
  <2> QED
    BY <1>1, <2>2, <2>3
<1>4. CASE Len(s) = 1 /\ m = "auth_ok"
  BY <1>1, <1>2, <1>4 DEF Checked, r
<1> QED
  BY Zenon, <1>3, <1>4

Ended == {"uncount", "release", "closed"}

\* What the handlers write, and where they are before and after it
Tells(p, m, q) ==
    \/ p = "greeting" /\ m = "anonymous" /\ q = "request"
    \/ p = "greeting" /\ m = "userpass" /\ q = "userpass"
    \/ p = "greeting" /\ m = "no_acceptable" /\ q = "uncount"
    \/ p = "userpass" /\ m = "auth_ok" /\ q = "request"
    \/ p = "userpass" /\ m = "auth_failed" /\ q = "uncount"
    \/ p \in {"request", "socks4", "reject"} /\ m \in {"unsupported", "refused"} /\ q = "uncount"
    \/ p = "grant" /\ m = "granted" /\ q = "relay"

\* The moves that write nothing; open and stays: is the upstream open?
Quiet(p, open, q, stays) ==
    \/ q \in Ended /\ ~stays
    \/ p \in Early /\ q \in Early /\ stays = open
    \/ p \in Early \cup {"request"} /\ q = "dial" /\ stays = open
    \/ p = "dial" /\ q = "grant" /\ stays
    \/ p = "dial" /\ q = "reject" /\ stays = open

LEMMA NothingSaid ==
  ASSUME NEW s, s = <<>>
  PROVE  NoFinal(s) /\ Checked(s) /\ FinalLast(s)
BY DEF NoFinal, Checked, FinalLast

LEMMA QuietOK ==
  ASSUME NEW p, NEW s, NEW open, NEW q, NEW stays \in BOOLEAN,
         ClientOK(p, s, open), Quiet(p, open, q, stays)
  PROVE  ClientOK(q, s, stays)
<1>1. s = <<>> => NoFinal(s) /\ Checked(s)
  BY Zenon, NothingSaid
<1>2. CASE q \in Ended /\ ~stays
  BY Zenon, <1>2 DEF ClientOK, Ended, Early
<1>3. CASE p \in Early /\ q \in Early /\ stays = open
  BY Zenon, <1>3 DEF ClientOK, Early
<1>4. CASE p \in Early \cup {"request"} /\ q = "dial" /\ stays = open
  BY Zenon, <1>1, <1>4 DEF ClientOK, Early
<1>5. CASE p = "dial" /\ q = "grant" /\ stays
  BY Zenon, <1>5 DEF ClientOK, Early
<1>6. CASE p = "dial" /\ q = "reject" /\ stays = open
  BY Zenon, <1>6 DEF ClientOK, Early
<1> QED
  BY Zenon, <1>2, <1>3, <1>4, <1>5, <1>6 DEF Quiet

LEMMA TellsOK ==
  ASSUME NEW p, NEW s, NEW open, NEW m, NEW q,
         ClientOK(p, s, open), Tells(p, m, q)
  PROVE  ClientOK(q, s \o <<m>>, open) /\ m \in Words
<1> DEFINE r == s \o <<m>>
<1>1. s \in Seq(Words) /\ open \in BOOLEAN
  BY Zenon DEF ClientOK
<1>2. m \in Words
  BY Zenon DEF Tells, Words, Finals
<1>3. /\ r \in Seq(Words) /\ r # <<>> /\ Len(s) \in Nat /\ Len(r) = Len(s) + 1
      /\ r[Len(s) + 1] = m
  BY <1>1, <1>2, AddWord
<1>4. s = <<>> => NoFinal(s) /\ Checked(s) /\ Len(s) = 0
  BY Zenon, NothingSaid
<1>5. NoFinal(s)
  BY Zenon, <1>4 DEF ClientOK, Tells, Early
<1>6. FinalLast(r) /\ (m \notin Finals => NoFinal(r))
  BY Zenon, <1>1, <1>2, <1>5, AddFinal
<1>7. m # "userpass" /\ (Checked(s) \/ (Len(s) = 1 /\ m = "auth_ok")) => Checked(r)
  BY Zenon, <1>1, <1>2, AddChecked
<1> HIDE DEF r
<1>8. CASE p = "greeting"
  <2>1. s = <<>> /\ ~open
    BY Zenon, <1>8 DEF ClientOK, Early
  <2>2. m \in {"anonymous", "userpass"} => NoFinal(r)
    BY Zenon, <1>6 DEF Finals
  <2>6. Len(r) = 1 /\ r[1] = m
    BY <1>3, <1>4, <2>1
  <2>3. CASE m = "anonymous" /\ q = "request"
    <3>1. Checked(r) /\ NoFinal(r)
      BY Zenon, <1>4, <1>7, <2>1, <2>2, <2>3
    <3> QED
      BY <1>1, <1>3, <1>6, <2>1, <2>3, <3>1 DEF ClientOK, Early
  <2>4. CASE m = "userpass" /\ q = "userpass"
    BY <1>1, <1>3, <1>6, <2>1, <2>2, <2>4, <2>6 DEF ClientOK, Early
  <2>5. CASE m = "no_acceptable" /\ q = "uncount"
    BY <1>1, <1>3, <1>6, <2>1, <2>5 DEF ClientOK, Early
  <2> QED
    BY Zenon, <1>2, <1>8, <2>3, <2>4, <2>5 DEF Tells, r
<1>9. CASE p = "userpass"
  <2>1. Len(s) = 1
    BY Zenon, <1>9 DEF ClientOK
  <2>2. open = FALSE
    BY Zenon, <1>1, <1>9 DEF ClientOK
  <2>3. CASE m = "auth_ok" /\ q = "request"
    <3>1. Checked(r)
      BY Zenon, <1>7, <2>1, <2>3
    <3>2. NoFinal(r)
      BY Zenon, <1>6, <2>3 DEF Finals
    <3> QED
      BY <1>3, <1>6, <2>2, <2>3, <3>1, <3>2 DEF ClientOK, Early, r
  <2>4. CASE m = "auth_failed" /\ q = "uncount"
    BY <1>3, <1>6, <2>2, <2>4 DEF ClientOK, Early, r
  <2> QED
    BY Zenon, <1>2, <1>9, <2>3, <2>4 DEF Tells, r
<1>10. CASE p \in {"request", "socks4", "reject"}
  <2>1. ~open /\ q = "uncount"
    BY Zenon, <1>10 DEF ClientOK, Tells
  <2> QED
    BY Zenon, <1>1, <1>2, <1>3, <1>6, <2>1 DEF ClientOK, Early, r
<1>11. CASE p = "grant"
  <2>1. open = TRUE /\ q = "relay" /\ m = "granted" /\ Checked(s)
    BY Zenon, <1>1, <1>11 DEF ClientOK, Tells
  <2> QED
    BY Zenon, <1>2, <1>3, <1>6, <1>7, <2>1 DEF ClientOK, Early, r
<1> QED
  BY Zenon, <1>8, <1>9, <1>10, <1>11 DEF Tells

-----------------------------------------------------------------------------
(* The steps, by what they tell a client.                                  *)

\* c is told m and goes on, or goes on in silence
Speaks(c) == \E m, q : /\ Tells(at[c], m, q) /\ at' = [at EXCEPT ![c] = q]
                       /\ sent' = [sent EXCEPT ![c] = sent[c] \o <<m>>] /\ up' = up
Passes(c) == \E q : \E b \in BOOLEAN :
                /\ Quiet(at[c], up[c], q, b)
                /\ at' = [at EXCEPT ![c] = q] /\ up' = [up EXCEPT ![c] = b] /\ sent' = sent

LEMMA SpeaksOrPasses ==
  ASSUME Types, AnswerInv, NEW c \in Conns, Session(c)
  PROVE  Speaks(c) \/ Passes(c)
<1>1. /\ sent \in [Conns -> Seq(Words)] /\ up \in [Conns -> BOOLEAN] /\ at \in [Conns -> Points]
      /\ ClientOK(at[c], sent[c], up[c])
  BY Zenon DEF AnswerInv, Types
<1>2. up[c] <=> at[c] \in {"grant", "relay"}
  BY Zenon, <1>1 DEF ClientOK
<1>3. ASSUME NEW m, NEW q, Continue(c, q, <<m>>), Tells(at[c], m, q)
      PROVE  Speaks(c)
  BY Zenon, <1>1, <1>3 DEF Continue, Speaks
<1>4. ASSUME NEW q, Continue(c, q, <<>>), Quiet(at[c], up[c], q, up[c])
      PROVE  Passes(c)
  <2>1. sent[c] \o <<>> = sent[c]
    BY Zenon, <1>1, AddNothing
  <2>2. sent' = sent /\ up' = [up EXCEPT ![c] = up[c]] /\ at' = [at EXCEPT ![c] = q]
    BY Zenon, <1>1, <1>4, <2>1 DEF Continue
  <2> QED
    BY Zenon, <1>1, <1>4, <2>2 DEF Passes
<1>5. ASSUME NEW q, NEW b \in BOOLEAN, Quiet(at[c], up[c], q, b),
             at' = [at EXCEPT ![c] = q], up' = [up EXCEPT ![c] = b], sent' = sent
      PROVE  Passes(c)
  BY Zenon, <1>5 DEF Passes
<1>6. CASE Dispatch(c)
  <2>1. \E q \in {"greeting", "socks4", "uncount"} : Continue(c, q, <<>>)
    BY Zenon, <1>6 DEF Dispatch
  <2> QED
    BY Zenon, <1>1, <1>2, <1>4, <1>6, <2>1 DEF Dispatch, Quiet, Early, Ended
<1>7. CASE Greeting(c)
  <2>1. \E m \in {"anonymous", "userpass", "no_acceptable"} :
           Continue(c, CASE m = "no_acceptable" -> "uncount"
                         [] m = "userpass" -> "userpass"
                         [] OTHER -> "request", <<m>>)
    BY Zenon, <1>7 DEF Greeting, Selected
  <2>2. \/ Continue(c, "request", <<"anonymous">>)
        \/ Continue(c, "userpass", <<"userpass">>)
        \/ Continue(c, "uncount", <<"no_acceptable">>)
    BY Zenon, <2>1
  <2> QED
    BY Zenon, <1>3, <1>7, <2>2 DEF Greeting, Tells
<1>8. CASE UserPass(c)
  BY Zenon, <1>3, <1>8 DEF UserPass, Tells
<1>9. CASE Request(c)
  <2>1. \/ Continue(c, "uncount", <<>>) \/ Continue(c, "uncount", <<"unsupported">>)
        \/ Continue(c, "dial", <<>>)
    BY Zenon, <1>9 DEF Request
  <2> QED
    BY Zenon, <1>1, <1>2, <1>3, <1>4, <1>9, <2>1 DEF Request, Tells, Quiet, Ended, Early
<1>10. CASE Request4(c)
  <2>1. \/ Continue(c, "uncount", <<>>) \/ Continue(c, "uncount", <<"refused">>)
        \/ Continue(c, "dial", <<>>)
    BY Zenon, <1>10 DEF Request4
  <2> QED
    BY Zenon, <1>1, <1>2, <1>3, <1>4, <1>10, <2>1 DEF Request4, Tells, Quiet, Ended, Early
<1>11. CASE HttpConnect(c)
  <2>1. Continue(c, "uncount", <<>>) \/ Continue(c, "dial", <<>>)
    BY Zenon, <1>11 DEF HttpConnect
  <2> QED
    BY Zenon, <1>1, <1>2, <1>4, <1>11, <2>1 DEF HttpConnect, Quiet, Ended, Early
<1>12. CASE Grant(c) \/ Reject(c)
  BY Zenon, <1>3, <1>12 DEF Grant, Reject, Tells
<1>13. CASE Dial(c)
  BY Zenon, <1>1, <1>2, <1>5, <1>13 DEF Dial, Quiet
<1>14. CASE Relay(c) \/ ClientLeaves(c)
  BY Zenon, <1>1, <1>5, <1>14 DEF Relay, ClientLeaves, Quiet, Ended
<1>15. CASE Uncount(c) \/ Release(c)
  BY Zenon, <1>1, <1>2, <1>5, <1>15 DEF Uncount, Release, Quiet, Ended
<1> QED
  BY Zenon, <1>6, <1>7, <1>8, <1>9, <1>10, <1>11, <1>12, <1>13, <1>14, <1>15 DEF Session

\* The accept tasks and the listeners tell nobody anything.
Drifts ==
    /\ sent' = sent /\ up' = up
    /\ \A c \in Conns : \/ at'[c] = at[c]
                        \/ at[c] \in Early /\ at'[c] \in Early \cup {"closed"}

LEMMA OthersDrift ==
  ASSUME Types, GotInv, BindSocks \/ BindHttp \/ Stop \/ Joined \/ SocksTask \/ HttpTask
                        \/ \E c \in Conns, l \in Loops : Arrive(c, l)
  PROVE  Drifts
<1>1. at \in [Conns -> Points]
  BY Zenon DEF Types
<1>2. CASE BindSocks \/ BindHttp \/ Stop \/ Joined
  BY Zenon, <1>2 DEF BindSocks, BindHttp, Stop, Joined, session, Drifts
<1>3. ASSUME NEW c \in Conns, NEW l \in Loops, Arrive(c, l)
      PROVE  Drifts
  BY Zenon, <1>1, <1>3 DEF Arrive, Drifts, Early
<1>4. ASSUME NEW l \in Loops, AcceptTask(l)
      PROVE  Drifts
  <2>1. CASE LoopEnds(l) \/ AcceptFails(l)
    BY Zenon, <1>1, <2>1 DEF LoopEnds, AcceptFails, LeaveLoop, Drifts, Early
  <2>2. CASE \E c \in Conns : Accept(l, c)
    BY Zenon, <1>1, <2>2 DEF Accept, Drifts, Early
  <2>3. CASE Admit(l)
    BY Zenon, <2>3 DEF Admit, session, Drifts
  <2>4. CASE Refuse(l) \/ Count(l)
    <3>1. got[l] \in Conns /\ at[got[l]] = "accepted"
      BY Zenon, <2>4 DEF GotInv, Refuse, Count
    <3>2. \E q \in Early \cup {"closed"} : at' = [at EXCEPT ![got[l]] = q]
      BY Zenon, <2>4 DEF Refuse, Count, Early
    <3>3. sent' = sent /\ up' = up
      BY Zenon, <2>4 DEF Refuse, Count
    <3> QED
      BY Zenon, <1>1, <3>1, <3>2, <3>3 DEF Drifts, Early
  <2> QED
    BY Zenon, <1>4, <2>1, <2>2, <2>3, <2>4 DEF AcceptTask
<1> QED
  BY Zenon, <1>2, <1>3, <1>4 DEF SocksTask, HttpTask, Loops

LEMMA AnswerStep ==
  ASSUME Types, GotInv, AnswerInv, [Next]_vars
  PROVE  AnswerInv'
<1>1. /\ sent \in [Conns -> Seq(Words)] /\ up \in [Conns -> BOOLEAN] /\ at \in [Conns -> Points]
      /\ \A c \in Conns : ClientOK(at[c], sent[c], up[c])
  BY Zenon DEF AnswerInv, Types
<1>2. ASSUME Drifts
      PROVE  AnswerInv'
  <2> SUFFICES ASSUME NEW c \in Conns
               PROVE  ClientOK(at'[c], sent[c], up[c])
    BY Zenon, <1>1, <1>2 DEF AnswerInv, Drifts
  <2>1. CASE at'[c] = at[c]
    BY Zenon, <1>1, <2>1
  <2>2. CASE at[c] \in Early /\ at'[c] \in Early \cup {"closed"}
    <3>1. ~up[c]
      BY Zenon, <1>1, <2>2 DEF ClientOK, Early
    <3>2. Quiet(at[c], up[c], at'[c], up[c])
      BY Zenon, <2>2, <3>1 DEF Quiet, Ended
    <3> QED
      BY <1>1, <3>2, QuietOK
  <2> QED
    BY Zenon, <1>2, <2>1, <2>2 DEF Drifts
<1>3. ASSUME NEW c \in Conns, Speaks(c)
      PROVE  AnswerInv'
  <2>1. PICK m, q : /\ Tells(at[c], m, q) /\ at' = [at EXCEPT ![c] = q]
                    /\ sent' = [sent EXCEPT ![c] = sent[c] \o <<m>>] /\ up' = up
    BY Zenon, <1>3 DEF Speaks
  <2>2. ClientOK(q, sent[c] \o <<m>>, up[c])
    BY Zenon, <1>1, <2>1, TellsOK
  <2>3. sent[c] \o <<m>> \in Seq(Words)
    BY Zenon, <2>2 DEF ClientOK
  <2>4. sent' \in [Conns -> Seq(Words)] /\ up' \in [Conns -> BOOLEAN]
    BY Zenon, <1>1, <2>1, <2>3
  <2>5. /\ at'[c] = q /\ sent'[c] = sent[c] \o <<m>> /\ up'[c] = up[c]
        /\ \A d \in Conns \ {c} : at'[d] = at[d] /\ sent'[d] = sent[d] /\ up'[d] = up[d]
    BY Zenon, <1>1, <2>1
  <2>6. \A d \in Conns : ClientOK(at'[d], sent'[d], up'[d])
    BY Zenon, <1>1, <2>2, <2>5
  <2> QED
    BY Zenon, <2>4, <2>6 DEF AnswerInv
<1>4. ASSUME NEW c \in Conns, Passes(c)
      PROVE  AnswerInv'
  <2>1. PICK q : \E b \in BOOLEAN :
           /\ Quiet(at[c], up[c], q, b)
           /\ at' = [at EXCEPT ![c] = q] /\ up' = [up EXCEPT ![c] = b] /\ sent' = sent
    BY Zenon, <1>4 DEF Passes
  <2>2. PICK b \in BOOLEAN :
           /\ Quiet(at[c], up[c], q, b)
           /\ at' = [at EXCEPT ![c] = q] /\ up' = [up EXCEPT ![c] = b] /\ sent' = sent
    BY Zenon, <2>1
  <2>3. ClientOK(q, sent[c], b)
    BY Zenon, <1>1, <2>2, QuietOK
  <2>4. sent' \in [Conns -> Seq(Words)] /\ up' \in [Conns -> BOOLEAN]
    BY Zenon, <1>1, <2>2
  <2>5. /\ at'[c] = q /\ sent'[c] = sent[c] /\ up'[c] = b
        /\ \A d \in Conns \ {c} : at'[d] = at[d] /\ sent'[d] = sent[d] /\ up'[d] = up[d]
    BY Zenon, <1>1, <2>2
  <2>6. \A d \in Conns : ClientOK(at'[d], sent'[d], up'[d])
    BY Zenon, <1>1, <2>3, <2>5
  <2> QED
    BY Zenon, <2>4, <2>6 DEF AnswerInv
<1>5. CASE UNCHANGED vars
  BY Zenon, <1>2, <1>5 DEF vars, Drifts
<1>6. CASE \E c \in Conns : Session(c)
  BY Zenon, <1>3, <1>4, <1>6, SpeaksOrPasses
<1>7. CASE Next /\ ~\E c \in Conns : Session(c)
  BY Zenon, <1>2, <1>7, OthersDrift DEF Next
<1> QED
  BY Zenon, <1>5, <1>6, <1>7

\* A client is answered once: nothing follows a final answer, the relay starts
\* only after "granted" with the upstream open, and no SOCKS5 client that must
\* authenticate gets an upstream before it has.
THEOREM AnswersStayFinal == Spec => []AnswersAreFinal
<1>1. Init => AnswerInv
  <2> SUFFICES ASSUME Init PROVE AnswerInv
    BY Zenon
  <2>1. <<>> \in Seq(Words) /\ FinalLast(<<>>)
    BY NothingSaid
  <2> QED
    BY Zenon, <2>1 DEF Init, AnswerInv, ClientOK, Early
<1>2. ProxyInv /\ AnswerInv /\ [Next]_vars => AnswerInv'
  BY Zenon, AnswerStep DEF ProxyInv
<1>3. AnswerInv => AnswersAreFinal
  <2> SUFFICES ASSUME AnswerInv, NEW c \in Conns
               PROVE  /\ FinalLast(sent[c])
                      /\ at[c] = "relay" => /\ up[c] /\ sent[c] # <<>>
                                            /\ sent[c][Len(sent[c])] = "granted"
                      /\ up[c] => Checked(sent[c])
    BY Zenon DEF AnswersAreFinal, FinalLast, Checked
  <2>1. ClientOK(at[c], sent[c], up[c])
    BY Zenon DEF AnswerInv
  <2> QED
    BY Zenon, <2>1 DEF ClientOK
<1> QED
  BY <1>1, <1>2, <1>3, ProxyInit, ProxyStep, PTL DEF Spec
=============================================================================
