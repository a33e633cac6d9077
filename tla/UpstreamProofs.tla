--------------------------- MODULE UpstreamProofs ---------------------------
(***************************************************************************)
(* Permits, host keys and engines of Upstream, for any number of callers,  *)
(* profiles, keys, permits and engines.                                    *)
(*                                                                         *)
(* Every step is the step of one caller.  Frame says what it may change of *)
(* what the callers share; the invariant is a conjunction over the callers *)
(* (CallerOK) with two facts about known_hosts and the permits.            *)
(***************************************************************************)
EXTENDS Upstream, FiniteSetTheorems, TLAPS

Points ==
    {"idle", "permit", "tcp", "tls", "upgrade", "session", "connect", "fetch", "fetchtls", "reply",
     "shim", "kex", "learn", "auth", "reserve", "spawn", "poll", "up", "lingers"}

Types ==
    /\ pc \in [Callers -> Points]
    /\ prof \in [Callers -> Profiles \cup {NoProfile}]
    /\ key \in [Callers -> Keys \cup {NoKey}]
    /\ child \in [Callers -> {"none", "running", "exited"}]
    /\ config \in [Callers -> BOOLEAN]
    /\ permits \in Nat
    /\ known \in Seq(Keys)

IsKnown(k) == \E i \in Entries : known[i] = k

CallerOK(c) ==
    /\ pc[c] \in {"reserve", "spawn", "poll"} => prof[c].protocol = "vless"
    /\ child[c] # "none" => pc[c] \in {"poll", "up", "lingers"} /\ prof[c].protocol = "vless"
    /\ config[c] => pc[c] \in {"spawn", "poll"}
    /\ pc[c] = "learn" => prof[c].policy = "tofu" /\ key[c] \in Keys
    /\ prof[c].protocol = "ssh" /\ pc[c] \in {"auth", "up", "lingers"} => IsKnown(key[c])

\* Between the check and the entry of a key, the key's algorithm has no entry
\* and nobody else is there.
TrustInv ==
    ~raced =>
      /\ \A i, j \in Entries : known[i].alg = known[j].alg => i = j
      /\ \A c \in Callers : pc[c] = "learn" => \A i \in Entries : known[i].alg # key[c].alg
      /\ \A c, d \in Callers : pc[c] = "learn" /\ pc[d] = "learn" => c = d

UpstreamInv ==
    /\ Types
    /\ \A c \in Callers : CallerOK(c)
    /\ TrustInv
    /\ PermitsAreReturned

-----------------------------------------------------------------------------
(* What a step of one caller leaves alone.                                 *)

\* The permit is taken and given back with the point a caller is at.
PermitMoves(c) ==
    \/ (pc[c] \in Holding <=> pc'[c] \in Holding) /\ permits' = permits
    \/ pc[c] \in Holding /\ pc'[c] \notin Holding /\ permits' = permits + 1
    \/ pc[c] \notin Holding /\ pc'[c] \in Holding /\ permits > 0 /\ permits' = permits - 1

Others(c) ==
    \A d \in Callers : d # c => /\ pc'[d] = pc[d] /\ prof'[d] = prof[d] /\ key'[d] = key[d]
                                /\ child'[d] = child[d] /\ config'[d] = config[d]

Frame(c) == Types' /\ Others(c) /\ PermitMoves(c)

\* Returning with an error is the same from everywhere.
LEMMA FailFrame ==
  ASSUME Types, NEW c \in Callers, Fail(c), UNCHANGED known
  PROVE  /\ Frame(c)
         /\ pc'[c] = "idle" /\ child'[c] = "none" /\ ~config'[c]
<1>1. /\ pc' \in [Callers -> Points] /\ prof' \in [Callers -> Profiles \cup {NoProfile}]
      /\ key' \in [Callers -> Keys \cup {NoKey}]
      /\ child' \in [Callers -> {"none", "running", "exited"}] /\ config' \in [Callers -> BOOLEAN]
  BY Zenon DEF Types, Fail, Goto, Points
<1>2. Others(c) /\ pc'[c] = "idle" /\ child'[c] = "none" /\ ~config'[c]
  BY Zenon DEF Types, Fail, Goto, Others
<1>3. permits' \in Nat /\ PermitMoves(c)
  BY <1>2 DEF Types, Fail, Returned, PermitMoves, Holding, Dialling
<1> QED
  BY Zenon, <1>1, <1>2, <1>3 DEF Frame, Types

\* So is a move of one caller that changes nothing but where it is.
LEMMA MoveFrame ==
  ASSUME Types, NEW c \in Callers, NEW p \in Points, Goto(c, p), PermitMoves(c),
         UNCHANGED <<prof, key, known, child, config>>
  PROVE  Frame(c) /\ pc'[c] = p
<1>1. pc' \in [Callers -> Points] /\ pc'[c] = p /\ Others(c)
  BY Zenon DEF Types, Goto, Others
<1>2. permits' \in Nat
  BY DEF Types, PermitMoves
<1> QED
  BY Zenon, <1>1, <1>2 DEF Frame, Types

\* Knowing more keys and moving somebody else keeps CallerOK.
LEMMA OtherOK ==
  ASSUME NEW c \in Callers, Others(c), NEW d \in Callers, d # c, CallerOK(d),
         IsKnown(key[d]) => IsKnown(key[d])'
  PROVE  CallerOK(d)'
BY Zenon DEF Others, CallerOK

-----------------------------------------------------------------------------
(* The steps that leave known_hosts alone and enter no key.                *)

Quiet(c) ==
    /\ Frame(c)
    /\ UNCHANGED <<known, raced>>
    /\ pc'[c] # "learn"
    /\ CallerOK(c)'

\* An error leaves nothing.
LEMMA ErrorQuiet ==
  ASSUME Types, NEW c \in Callers, Error(c)
  PROVE  Quiet(c)
<1>1. /\ Frame(c) /\ pc'[c] = "idle" /\ child'[c] = "none" /\ ~config'[c]
      /\ UNCHANGED <<known, raced>>
  BY Zenon, FailFrame DEF Error
<1> QED
  BY Zenon, <1>1 DEF Quiet, CallerOK

\* A move between points at which no engine, file or session exists
Early == {"permit", "tcp", "tls", "upgrade", "session", "connect", "fetch", "fetchtls", "reply",
          "shim", "kex"}
LEMMA EarlyQuiet ==
  ASSUME Types, NEW c \in Callers, CallerOK(c), pc[c] \in Early, NEW p \in Early, Goto(c, p),
         PermitMoves(c), UNCHANGED <<prof, key, known, raced, child, config>>
  PROVE  Quiet(c)
<1>1. p \in Points
  BY Zenon DEF Early, Points
<1>2. Frame(c) /\ pc'[c] = p
  BY Zenon, <1>1, MoveFrame
<1> QED
  BY Zenon, <1>2 DEF Quiet, CallerOK, Early

LEMMA OpenQuiet ==
  ASSUME Types, NEW c \in Callers, CallerOK(c), Open(c) \/ OpenRefused(c)
  PROVE  Quiet(c)
<1>1. CASE OpenRefused(c)
  <2>1. Frame(c)
    BY Zenon, <1>1 DEF OpenRefused, Frame, Types, Others, PermitMoves
  <2>2. CallerOK(c)'
    BY Zenon, <1>1 DEF OpenRefused, CallerOK, IsKnown, Entries
  <2> QED
    BY Zenon, <1>1, <2>1, <2>2 DEF Quiet, OpenRefused
<1>2. CASE Open(c)
  <2>1. PICK p \in Profiles :
           /\ prof' = [prof EXCEPT ![c] = p]
           /\ \/ p.protocol = "ssh" /\ \E l \in {"fetch", "permit", "connect"} : Goto(c, l)
              \/ p.protocol = "shadowsocks" /\ Goto(c, "up")
              \/ p.protocol = "vless" /\ Goto(c, "reserve")
    BY Zenon, <1>2 DEF Open
  <2>2. /\ pc[c] = "idle" /\ pc'[c] \in {"fetch", "permit", "connect", "up", "reserve"}
        /\ pc' \in [Callers -> Points] /\ prof' \in [Callers -> Profiles \cup {NoProfile}]
        /\ prof'[c] = p
        /\ UNCHANGED <<key, permits, known, raced, child, config>>
    BY <1>2, <2>1 DEF Open, Goto, Types, Points
  <2>3. Others(c)
    BY Zenon, <2>1, <2>2 DEF Others, Types, Goto
  <2>4. Frame(c)
    BY Zenon, <2>2, <2>3 DEF Frame, Types, PermitMoves, Holding, Dialling
  <2>5. /\ pc'[c] = "reserve" => p.protocol = "vless"
        /\ pc'[c] = "up" => p.protocol = "shadowsocks"
    BY Zenon, <2>1, <2>2 DEF Types, Goto
  <2>6. CallerOK(c)'
    BY Zenon, <2>2, <2>5 DEF CallerOK
  <2> QED
    BY Zenon, <2>2, <2>4, <2>6 DEF Quiet
<1> QED
  BY Zenon, <1>1, <1>2

LEMMA DialQuiet ==
  ASSUME Types, NEW c \in Callers, CallerOK(c), Dial(c)
  PROVE  Quiet(c)
<1>1. CASE Acquire(c)
  <2>1. Goto(c, "tcp") /\ UNCHANGED <<prof, key, known, raced, child, config>> /\ pc[c] \in Early
    BY Zenon, <1>1 DEF Acquire, Early
  <2>2. pc'[c] = "tcp"
    BY Zenon, <2>1 DEF Goto, Types
  <2>3. PermitMoves(c)
    BY Zenon, <1>1, <2>2 DEF Acquire, PermitMoves, Holding, Dialling
  <2> QED
    BY Zenon, <2>1, <2>3, EarlyQuiet DEF Early
<1>2. CASE Layered(c)
  <2> DEFINE p == After(pc[c], prof[c].transport)
  <2>1. /\ Goto(c, p) /\ pc[c] \in Dialling
        /\ permits' = IF p = "session" THEN permits + 1 ELSE permits
        /\ UNCHANGED <<prof, key, known, raced, child, config>>
    BY Zenon, <1>2 DEF Layered
  <2>2. p \in {"tls", "upgrade", "session"}
    BY Zenon DEF After
  <2> HIDE DEF p
  <2>3. pc'[c] = p /\ pc[c] \in Early /\ p \in Early
    BY Zenon, <2>1, <2>2 DEF Goto, Types, Early, Dialling
  <2>4. PermitMoves(c)
    BY Zenon, <2>1, <2>2, <2>3 DEF PermitMoves, Holding, Dialling
  <2> QED
    BY Zenon, <2>1, <2>3, <2>4, EarlyQuiet
<1>3. CASE Refused(c) \/ TimesOut(c)
  BY Zenon, <1>3, ErrorQuiet DEF Refused, TimesOut
<1> QED
  BY Zenon, <1>1, <1>2, <1>3 DEF Dial

LEMMA SmartQuiet ==
  ASSUME Types, NEW c \in Callers, CallerOK(c), Smart(c)
  PROVE  Quiet(c)
<1>1. CASE FetchDials(c)
  <2>1. PICK p \in {"reply", "fetchtls"} :
           /\ Goto(c, p)
           /\ p = "reply" => permits' = permits
           /\ p = "fetchtls" => permits > 0 /\ permits' = permits - 1
    BY Zenon, <1>1 DEF FetchDials
  <2>2. pc[c] = "fetch" /\ UNCHANGED <<prof, key, known, raced, child, config>> /\ pc'[c] = p
    BY Zenon, <1>1, <2>1 DEF FetchDials, Goto, Types
  <2>3. PermitMoves(c)
    BY Zenon, <2>1, <2>2 DEF PermitMoves, Holding, Dialling
  <2>4. pc[c] \in Early /\ p \in Early
    BY Zenon, <2>2 DEF Early
  <2> QED
    BY Zenon, <2>1, <2>2, <2>3, <2>4, EarlyQuiet
<1>2. CASE FetchDialled(c)
  <2>1. /\ Goto(c, "reply") /\ pc[c] = "fetchtls" /\ permits' = permits + 1
        /\ UNCHANGED <<prof, key, known, raced, child, config>>
    BY Zenon, <1>2 DEF FetchDialled
  <2>2. pc'[c] = "reply"
    BY Zenon, <2>1 DEF Goto, Types
  <2>3. PermitMoves(c)
    BY Zenon, <2>1, <2>2 DEF PermitMoves, Holding, Dialling
  <2>4. pc[c] \in Early /\ "reply" \in Early
    BY Zenon, <2>1 DEF Early
  <2> QED
    BY Zenon, <2>1, <2>3, <2>4, EarlyQuiet
<1>3. CASE FetchFails(c)
  <2>1. CASE Error(c)
    BY Zenon, <2>1, ErrorQuiet
  <2>2. CASE ~Error(c)
    <3>1. /\ Goto(c, "fetch") /\ pc[c] \in {"fetch", "fetchtls", "reply"}
          /\ permits' = Returned(c)
          /\ UNCHANGED <<prof, key, known, raced, child, config>>
      BY Zenon, <1>3, <2>2 DEF FetchFails
    <3>2. pc'[c] = "fetch"
      BY Zenon, <3>1 DEF Goto, Types
    <3>3. PermitMoves(c)
      BY Zenon, <3>1, <3>2 DEF PermitMoves, Returned, Holding, Dialling
    <3>4. pc[c] \in Early /\ "fetch" \in Early
      BY Zenon, <3>1 DEF Early
    <3> QED
      BY Zenon, <3>1, <3>3, <3>4, EarlyQuiet
  <2> QED
    BY Zenon, <2>1, <2>2
<1>4. CASE Fetched(c) \/ ShimOpened(c)
  <2>1. PICK p \in {"shim", "kex"} :
           /\ Goto(c, p) /\ pc[c] \in {"reply", "shim"}
           /\ UNCHANGED <<permits, prof, key, known, raced, child, config>>
    BY Zenon, <1>4 DEF Fetched, ShimOpened
  <2>2. pc'[c] = p
    BY Zenon, <2>1 DEF Goto, Types
  <2>3. PermitMoves(c)
    BY Zenon, <2>1, <2>2 DEF PermitMoves, Holding, Dialling
  <2>4. pc[c] \in Early /\ p \in Early
    BY Zenon, <2>1 DEF Early
  <2> QED
    BY Zenon, <2>1, <2>3, <2>4, EarlyQuiet
<1>5. CASE FetchedUnusable(c)
  BY Zenon, <1>5, ErrorQuiet DEF FetchedUnusable
<1> QED
  BY Zenon, <1>1, <1>2, <1>3, <1>4, <1>5 DEF Smart

\* A connector that is up, or that sessions keep, is left as it is.
LEMMA DropQuiet ==
  ASSUME Types, NEW c \in Callers, CallerOK(c), Disconnect(c) \/ LastSessionEnds(c)
  PROVE  Quiet(c)
<1>1. CASE Error(c)
  BY Zenon, <1>1, ErrorQuiet
<1>2. CASE ~Error(c)
  <2>1. /\ Goto(c, "lingers") /\ pc[c] = "up"
        /\ UNCHANGED <<permits, prof, key, known, raced, child, config>>
    BY Zenon, <1>2 DEF Disconnect, LastSessionEnds
  <2>2. pc'[c] = "lingers"
    BY Zenon, <2>1 DEF Goto, Types
  <2>3. PermitMoves(c) /\ "lingers" \in Points
    BY Zenon, <2>1, <2>2 DEF PermitMoves, Holding, Dialling, Points
  <2>4. Frame(c)
    BY Zenon, <2>1, <2>3, MoveFrame
  <2> QED
    BY Zenon, <2>1, <2>2, <2>4 DEF Quiet, CallerOK, IsKnown, Entries
<1> QED
  BY Zenon, <1>1, <1>2

LEMMA VlessQuiet ==
  ASSUME Types, NEW c \in Callers, CallerOK(c), Vless(c)
  PROVE  Quiet(c)
<1>1. CASE Reserve(c)
  <2>1. /\ pc[c] = "reserve" /\ pc'[c] = "spawn" /\ pc' \in [Callers -> Points]
        /\ config'[c] = TRUE /\ config' \in [Callers -> BOOLEAN]
        /\ UNCHANGED <<permits, prof, key, known, raced, child>>
    BY Zenon, <1>1 DEF Reserve, Goto, Types, Points
  <2>2. Others(c)
    BY Zenon, <1>1 DEF Reserve, Goto, Types, Others
  <2>3. Frame(c)
    BY Zenon, <2>1, <2>2 DEF Frame, Types, PermitMoves, Holding, Dialling
  <2> QED
    BY Zenon, <2>1, <2>3 DEF Quiet, CallerOK
<1>2. CASE WriteFails(c)
  <2>1. CASE Fail(c)
    <3>1. Frame(c) /\ pc'[c] = "idle" /\ child'[c] = "none" /\ ~config'[c]
      BY Zenon, <1>2, <2>1, FailFrame DEF WriteFails
    <3> QED
      BY Zenon, <1>2, <3>1 DEF WriteFails, Quiet, CallerOK
  <2>2. CASE ~Fail(c)
    <3>1. pc[c] = "reserve" /\ UNCHANGED <<pc, permits, prof, key, known, raced, child, config>>
      BY Zenon, <1>2, <2>2 DEF WriteFails
    <3>2. Frame(c)
      BY Zenon, <3>1 DEF Frame, Types, Others, PermitMoves
    <3> QED
      BY Zenon, <3>1, <3>2 DEF Quiet, CallerOK
  <2> QED
    BY Zenon, <2>1, <2>2
<1>3. CASE Spawn(c)
  <2>1. /\ pc[c] = "spawn" /\ pc'[c] = "poll" /\ pc' \in [Callers -> Points]
        /\ child' \in [Callers -> {"none", "running", "exited"}]
        /\ UNCHANGED <<permits, prof, key, known, raced, config>>
    BY Zenon, <1>3 DEF Spawn, Goto, Types, Points
  <2>2. Others(c)
    BY Zenon, <1>3 DEF Spawn, Goto, Types, Others
  <2>3. Frame(c)
    BY Zenon, <2>1, <2>2 DEF Frame, Types, PermitMoves, Holding, Dialling
  <2> QED
    BY Zenon, <2>1, <2>3 DEF Quiet, CallerOK
<1>4. CASE EngineListens(c)
  <2>1. /\ pc[c] = "poll" /\ pc'[c] = "up" /\ pc' \in [Callers -> Points]
        /\ ~config'[c] /\ config' \in [Callers -> BOOLEAN]
        /\ UNCHANGED <<permits, prof, key, known, raced, child>>
    BY Zenon, <1>4 DEF EngineListens, Goto, Types, Points
  <2>2. Others(c)
    BY Zenon, <1>4 DEF EngineListens, Goto, Types, Others
  <2>3. Frame(c)
    BY Zenon, <2>1, <2>2 DEF Frame, Types, PermitMoves, Holding, Dialling
  <2> QED
    BY Zenon, <2>1, <2>3 DEF Quiet, CallerOK
<1>5. CASE EngineFails(c)
  <2>1. CASE Error(c)
    BY Zenon, <2>1, ErrorQuiet
  <2>2. CASE ~Error(c)
    <3>1. /\ pc[c] \in {"reserve", "spawn", "poll"} /\ Goto(c, "reserve")
          /\ config' = [config EXCEPT ![c] = FALSE] /\ child' = [child EXCEPT ![c] = "none"]
          /\ UNCHANGED <<permits, prof, key, known, raced>>
      BY Zenon, <1>5, <2>2 DEF EngineFails
    <3>2. /\ pc'[c] = "reserve" /\ pc' \in [Callers -> Points]
          /\ ~config'[c] /\ config' \in [Callers -> BOOLEAN]
          /\ child'[c] = "none" /\ child' \in [Callers -> {"none", "running", "exited"}]
      BY Zenon, <3>1 DEF Goto, Types, Points
    <3>3. Others(c)
      BY Zenon, <3>1 DEF Goto, Types, Others
    <3>4. Frame(c)
      BY Zenon, <3>1, <3>2, <3>3 DEF Frame, Types, PermitMoves, Holding, Dialling
    <3> QED
      BY Zenon, <3>1, <3>2, <3>4 DEF Quiet, CallerOK
  <2> QED
    BY Zenon, <2>1, <2>2
<1>6. CASE EngineExits(c)
  <2>1. /\ child[c] = "running" /\ child' \in [Callers -> {"none", "running", "exited"}]
        /\ UNCHANGED <<pc, permits, prof, key, known, raced, config>>
    BY Zenon, <1>6 DEF EngineExits, Types
  <2>2. Others(c)
    BY Zenon, <1>6 DEF EngineExits, Types, Others
  <2>3. Frame(c)
    BY Zenon, <2>1, <2>2 DEF Frame, Types, PermitMoves
  <2> QED
    BY Zenon, <2>1, <2>3 DEF Quiet, CallerOK, IsKnown, Entries
<1> QED
  BY Zenon, <1>1, <1>2, <1>3, <1>4, <1>5, <1>6 DEF Vless

-----------------------------------------------------------------------------
(* The steps of SSH, which may enter a key.                                *)

\* A key that check_known_hosts_path accepts has an entry; one it does not
\* know has none of its algorithm.
LEMMA CheckMeans ==
  ASSUME NEW k
  PROVE  /\ CheckKnownHosts(k) = "known" => IsKnown(k)
         /\ CheckKnownHosts(k) = "unknown" => \A i \in Entries : known[i].alg # k.alg
BY Zenon DEF CheckKnownHosts, IsKnown

\* c has the key k and waits to enter it.
Enters(c) ==
    /\ Frame(c) /\ UNCHANGED known
    /\ pc'[c] = "learn" /\ CallerOK(c)'
    /\ \A i \in Entries : known[i].alg # key'[c].alg
    /\ raced' = (raced \/ \E d \in Callers \ {c} : pc[d] = "learn")

\* c enters its key.
Learns(c) ==
    /\ Frame(c) /\ UNCHANGED raced
    /\ pc[c] = "learn" /\ pc'[c] # "learn"
    /\ known' = Append(known, key[c]) /\ CallerOK(c)'

LEMMA VerifyStep ==
  ASSUME Types, NEW c \in Callers, CallerOK(c), Verify(c)
  PROVE  Quiet(c) \/ Enters(c)
<1>1. PICK k \in Keys :
         \/ CheckKnownHosts(k) = "known" /\ Trust(c, k)
         \/ CheckKnownHosts(k) = "unknown" /\ prof[c].policy = "tofu" /\ Enter(c, k)
         \/ Error(c)
  BY Zenon DEF Verify
<1>2. pc[c] = "kex"
  BY Zenon DEF Verify
<1>3. CASE Error(c)
  BY Zenon, <1>3, ErrorQuiet
<1>4. CASE CheckKnownHosts(k) = "known" /\ Trust(c, k)
  <2>1. /\ pc'[c] = "auth" /\ pc' \in [Callers -> Points]
        /\ key'[c] = k /\ key' \in [Callers -> Keys \cup {NoKey}]
        /\ UNCHANGED <<permits, prof, known, raced, child, config>>
    BY Zenon, <1>4 DEF Trust, Goto, Types, Points
  <2>2. Others(c)
    BY Zenon, <1>4 DEF Trust, Goto, Types, Others
  <2>3. Frame(c)
    BY Zenon, <1>2, <2>1, <2>2 DEF Frame, Types, PermitMoves, Holding, Dialling
  <2>4. IsKnown(key[c])'
    BY Zenon, <1>4, <2>1, CheckMeans DEF IsKnown, Entries
  <2> QED
    BY Zenon, <1>2, <2>1, <2>3, <2>4 DEF Quiet, CallerOK
<1>5. CASE CheckKnownHosts(k) = "unknown" /\ prof[c].policy = "tofu" /\ Enter(c, k)
  <2>1. /\ pc'[c] = "learn" /\ pc' \in [Callers -> Points]
        /\ key'[c] = k /\ key' \in [Callers -> Keys \cup {NoKey}]
        /\ raced' = (raced \/ \E d \in Callers \ {c} : pc[d] = "learn")
        /\ UNCHANGED <<permits, prof, known, child, config>>
    BY Zenon, <1>5 DEF Enter, Goto, Types, Points
  <2>2. Others(c)
    BY Zenon, <1>5 DEF Enter, Goto, Types, Others
  <2>3. Frame(c)
    BY Zenon, <1>2, <2>1, <2>2 DEF Frame, Types, PermitMoves, Holding, Dialling
  <2>4. \A i \in Entries : known[i].alg # key'[c].alg
    BY Zenon, <1>5, <2>1, CheckMeans
  <2>5. CallerOK(c)'
    BY Zenon, <1>2, <1>5, <2>1 DEF CallerOK
  <2> QED
    BY Zenon, <2>1, <2>3, <2>4, <2>5 DEF Enters
<1> QED
  BY Zenon, <1>1, <1>3, <1>4, <1>5

LEMMA LearnStep ==
  ASSUME Types, NEW c \in Callers, CallerOK(c), Learn(c)
  PROVE  Quiet(c) \/ Learns(c)
<1>1. CASE Error(c)
  BY Zenon, <1>1, ErrorQuiet
<1>2. CASE ~Error(c)
  <2>1. /\ pc[c] = "learn" /\ Goto(c, "auth")
        /\ known' = Append(known, key[c])
        /\ UNCHANGED <<prof, key, permits, raced, child, config>>
    BY Zenon, <1>2 DEF Learn
  <2>2. key[c] \in Keys
    BY Zenon, <2>1 DEF CallerOK
  <2>3. pc'[c] = "auth" /\ pc' \in [Callers -> Points] /\ Others(c)
    BY Zenon, <2>1 DEF Goto, Types, Points, Others
  <2>4. /\ known' \in Seq(Keys) /\ Len(known') = Len(known) + 1 /\ Len(known) \in Nat
        /\ known'[Len(known) + 1] = key[c]
    BY <2>1, <2>2 DEF Types
  <2>5. IsKnown(key[c])'
    BY <2>1, <2>4 DEF IsKnown, Entries
  <2>6. Frame(c)
    BY Zenon, <2>1, <2>3, <2>4 DEF Frame, Types, PermitMoves, Holding, Dialling
  <2>7. CallerOK(c)'
    BY Zenon, <2>1, <2>3, <2>5 DEF CallerOK
  <2> QED
    BY Zenon, <2>1, <2>3, <2>6, <2>7 DEF Learns
<1> QED
  BY Zenon, <1>1, <1>2

LEMMA SshStep ==
  ASSUME Types, NEW c \in Callers, CallerOK(c), Ssh(c)
  PROVE  Quiet(c) \/ Enters(c) \/ Learns(c)
<1>1. CASE Error(c)
  BY Zenon, <1>1, ErrorQuiet
<1>2. CASE (Session(c) \/ Connected(c)) /\ ~Error(c)
  <2>1. /\ pc[c] \in {"session", "connect"} /\ Goto(c, "kex")
        /\ UNCHANGED <<prof, key, permits, known, raced, child, config>>
    BY Zenon, <1>2 DEF Session, Connected
  <2>2. pc'[c] = "kex"
    BY Zenon, <2>1 DEF Goto, Types
  <2>3. PermitMoves(c)
    BY Zenon, <2>1, <2>2 DEF PermitMoves, Holding, Dialling
  <2>4. pc[c] \in Early /\ "kex" \in Early
    BY Zenon, <2>1 DEF Early
  <2> QED
    BY Zenon, <2>1, <2>3, <2>4, EarlyQuiet
<1>3. CASE Verify(c)
  BY Zenon, <1>3, VerifyStep
<1>4. CASE Learn(c)
  BY Zenon, <1>4, LearnStep
<1>5. CASE Accepted(c)
  <2>1. /\ pc[c] = "auth" /\ Goto(c, "up")
        /\ UNCHANGED <<prof, key, permits, known, raced, child, config>>
    BY Zenon, <1>5 DEF Accepted
  <2>2. pc'[c] = "up"
    BY Zenon, <2>1 DEF Goto, Types
  <2>3. PermitMoves(c) /\ "up" \in Points
    BY Zenon, <2>1, <2>2 DEF PermitMoves, Holding, Dialling, Points
  <2>4. Frame(c)
    BY Zenon, <2>1, <2>3, MoveFrame
  <2> QED
    BY Zenon, <2>1, <2>2, <2>4 DEF Quiet, CallerOK, IsKnown, Entries
<1>6. CASE Rejected(c) /\ ~Error(c)
  <2>1. pc[c] = "auth" /\ UNCHANGED <<pc, prof, key, permits, known, raced, child, config>>
    BY Zenon, <1>6 DEF Rejected
  <2>2. Frame(c)
    BY Zenon, <2>1 DEF Frame, Types, Others, PermitMoves
  <2> QED
    BY Zenon, <2>1, <2>2 DEF Quiet, CallerOK, IsKnown, Entries
<1> QED
  BY Zenon, <1>1, <1>2, <1>3, <1>4, <1>5, <1>6 DEF Ssh

\* Every step is quiet, enters a key or learns one.
LEMMA CallerStep ==
  ASSUME Types, \A c \in Callers : CallerOK(c), Next
  PROVE  \E c \in Callers : Quiet(c) \/ Enters(c) \/ Learns(c)
<1>1. PICK c \in Callers :
         \/ Open(c) \/ OpenRefused(c) \/ Dial(c) \/ Smart(c) \/ Ssh(c) \/ Vless(c)
         \/ Disconnect(c) \/ LastSessionEnds(c)
  BY Zenon DEF Next
<1>2. CallerOK(c)
  BY Zenon
<1>3. Quiet(c) \/ Enters(c) \/ Learns(c)
  BY Zenon, <1>1, <1>2, OpenQuiet, DialQuiet, SmartQuiet, SshStep, VlessQuiet, DropQuiet
<1> QED
  BY Zenon, <1>3

-----------------------------------------------------------------------------
(* The invariant.                                                          *)

\* The permits and the callers that hold one move together.
LEMMA PermitStep ==
  ASSUME Types, PermitsAreReturned, NEW c \in Callers, Frame(c)
  PROVE  PermitsAreReturned'
<1> DEFINE H == {d \in Callers : pc[d] \in Holding}
           G == {d \in Callers : pc'[d] \in Holding}
<1>1. /\ IsFiniteSet(H) /\ Cardinality(H) \in Nat /\ permits + Cardinality(H) = Permits
      /\ permits \in Nat /\ Permits \in Nat
  BY Zenon, UpstreamAssumption, FS_Subset, FS_CardinalityType DEF Types, PermitsAreReturned
<1>2. \A d \in Callers : d # c => (d \in G <=> d \in H)
  BY Zenon DEF Frame, Others
<1>3. CASE (pc[c] \in Holding <=> pc'[c] \in Holding) /\ permits' = permits
  <2>1. G = H
    BY Zenon, <1>2, <1>3
  <2> QED
    BY Zenon, <1>1, <1>3, <2>1 DEF PermitsAreReturned
<1>4. CASE pc[c] \in Holding /\ pc'[c] \notin Holding /\ permits' = permits + 1
  <2>1. G = H \ {c} /\ c \in H
    BY Zenon, <1>2, <1>4
  <2>2. Cardinality(G) = Cardinality(H) - 1
    BY Zenon, <1>1, <2>1, FS_RemoveElement
  <2> HIDE DEF G, H
  <2>3. permits' >= 0 /\ permits' + Cardinality(G) = Permits
    BY <1>1, <1>4, <2>2
  <2> QED
    BY Zenon, <2>3 DEF PermitsAreReturned, G, Holding, Dialling
<1>5. CASE pc[c] \notin Holding /\ pc'[c] \in Holding /\ permits > 0 /\ permits' = permits - 1
  <2>1. G = H \cup {c} /\ c \notin H
    BY Zenon, <1>2, <1>5
  <2>2. Cardinality(G) = Cardinality(H) + 1
    BY Zenon, <1>1, <2>1, FS_AddElement
  <2> HIDE DEF G, H
  <2>3. permits' >= 0 /\ permits' + Cardinality(G) = Permits
    BY <1>1, <1>5, <2>2
  <2> QED
    BY Zenon, <2>3 DEF PermitsAreReturned, G, Holding, Dialling
<1> QED
  BY Zenon, <1>3, <1>4, <1>5 DEF Frame, PermitMoves

\* Appending a key keeps the entries there are.
LEMMA KnownGrows ==
  ASSUME Types, NEW c \in Callers, key[c] \in Keys, known' = Append(known, key[c])
  PROVE  /\ Len(known) \in Nat /\ Len(known') = Len(known) + 1
         /\ \A i \in Entries : known'[i] = known[i]
         /\ known'[Len(known) + 1] = key[c]
         /\ \A k : IsKnown(k) => IsKnown(k)'
<1>1. /\ Len(known) \in Nat /\ Len(known') = Len(known) + 1
      /\ \A i \in 1 .. Len(known) : known'[i] = known[i]
      /\ known'[Len(known) + 1] = key[c]
  BY DEF Types
<1> QED
  BY <1>1 DEF IsKnown, Entries

LEMMA TrustStep ==
  ASSUME Types, TrustInv, NEW c \in Callers, CallerOK(c),
         Quiet(c) \/ Enters(c) \/ Learns(c)
  PROVE  TrustInv'
<1> SUFFICES ASSUME ~raced'
             PROVE  TrustInv'
  BY Zenon DEF TrustInv
<1>1. \A d \in Callers : d # c => pc'[d] = pc[d] /\ key'[d] = key[d]
  BY Zenon DEF Quiet, Enters, Learns, Frame, Others
<1>2. CASE Quiet(c)
  <2>1. known' = known /\ ~raced /\ pc'[c] # "learn"
    BY Zenon, <1>2 DEF Quiet
  <2>2. \A d \in Callers : pc'[d] = "learn" => pc[d] = "learn" /\ key'[d] = key[d]
    BY Zenon, <1>1, <2>1
  <2>3. \A i, j \in Entries' : known'[i].alg = known'[j].alg => i = j
    BY Zenon, <2>1 DEF TrustInv, Entries
  <2>4. \A d \in Callers : pc'[d] = "learn" => \A i \in Entries' : known'[i].alg # key'[d].alg
    BY <2>1, <2>2 DEF TrustInv, Entries
  <2>5. \A d, e \in Callers : pc'[d] = "learn" /\ pc'[e] = "learn" => d = e
    BY Zenon, <2>1, <2>2 DEF TrustInv
  <2> QED
    BY Zenon, <2>3, <2>4, <2>5 DEF TrustInv
<1>3. CASE Enters(c)
  <2>1. ~raced /\ known' = known /\ \A d \in Callers \ {c} : pc[d] # "learn"
    BY Zenon, <1>3 DEF Enters
  <2>2. \A i \in Entries : known[i].alg # key'[c].alg
    BY Zenon, <1>3 DEF Enters
  <2>3. \A d \in Callers : pc'[d] = "learn" => d = c
    BY Zenon, <1>1, <2>1
  <2>4. \A i, j \in Entries' : known'[i].alg = known'[j].alg => i = j
    BY Zenon, <2>1 DEF TrustInv, Entries
  <2>5. \A d \in Callers : pc'[d] = "learn" => \A i \in Entries' : known'[i].alg # key'[d].alg
    BY Zenon, <2>1, <2>2, <2>3 DEF Entries
  <2> QED
    BY Zenon, <2>3, <2>4, <2>5 DEF TrustInv
<1>4. CASE Learns(c)
  <2>1. ~raced /\ pc[c] = "learn" /\ pc'[c] # "learn" /\ known' = Append(known, key[c])
    BY Zenon, <1>4 DEF Learns
  <2>2. \A d \in Callers : pc'[d] # "learn"
    BY Zenon, <1>1, <2>1 DEF TrustInv
  <2>3. /\ Len(known) \in Nat /\ Len(known') = Len(known) + 1
        /\ \A i \in Entries : known'[i] = known[i]
        /\ known'[Len(known) + 1] = key[c]
    BY Zenon, <2>1, KnownGrows DEF CallerOK
  <2>4. /\ \A i, j \in Entries : known[i].alg = known[j].alg => i = j
        /\ \A i \in Entries : known[i].alg # key[c].alg
    BY Zenon, <2>1 DEF TrustInv
  <2>5. \A i, j \in Entries' : known'[i].alg = known'[j].alg => i = j
    BY <2>3, <2>4 DEF Entries
  <2> QED
    BY Zenon, <2>2, <2>5 DEF TrustInv
<1> QED
  BY Zenon, <1>2, <1>3, <1>4

LEMMA UpstreamInit == Init => UpstreamInv
<1> SUFFICES ASSUME Init
             PROVE  UpstreamInv
  BY Zenon
<1>1. Types
  BY UpstreamAssumption DEF Init, Types, Points
<1>2. \A c \in Callers : CallerOK(c)
  BY Zenon DEF Init, CallerOK
<1>3. TrustInv
  BY DEF Init, TrustInv, Entries
<1>4. PermitsAreReturned
  <2>1. {c \in Callers : pc[c] \in Holding} = {}
    BY Zenon DEF Init, Holding, Dialling
  <2>2. Cardinality({c \in Callers : pc[c] \in Holding}) = 0
    BY Zenon, <2>1, FS_EmptySet
  <2> QED
    BY <2>2, UpstreamAssumption DEF Init, PermitsAreReturned
<1> QED
  BY Zenon, <1>1, <1>2, <1>3, <1>4 DEF UpstreamInv

LEMMA UpstreamStep == UpstreamInv /\ [Next]_vars => UpstreamInv'
<1> SUFFICES ASSUME UpstreamInv, [Next]_vars
             PROVE  UpstreamInv'
  BY Zenon
<1>1. CASE UNCHANGED vars
  BY <1>1 DEF vars, UpstreamInv, Types, CallerOK, IsKnown, Entries, TrustInv,
     PermitsAreReturned, Holding, Dialling
<1>2. CASE Next
  <2>1. Types /\ TrustInv /\ PermitsAreReturned /\ \A c \in Callers : CallerOK(c)
    BY Zenon DEF UpstreamInv
  <2>2. PICK c \in Callers : Quiet(c) \/ Enters(c) \/ Learns(c)
    BY Zenon, <1>2, <2>1, CallerStep
  <2>3. Frame(c) /\ CallerOK(c)'
    BY Zenon, <2>2 DEF Quiet, Enters, Learns
  <2>4. \A k : IsKnown(k) => IsKnown(k)'
    <3>1. CASE known' = known
      BY Zenon, <3>1 DEF IsKnown, Entries
    <3>2. CASE Learns(c)
      BY Zenon, <2>1, <3>2, KnownGrows DEF Learns, CallerOK
    <3> QED
      BY Zenon, <2>2, <3>1, <3>2 DEF Quiet, Enters
  <2>5. ASSUME NEW d \in Callers
        PROVE  CallerOK(d)'
    <3>1. CASE d = c
      BY Zenon, <2>3, <3>1
    <3>2. CASE d # c
      <4>1. Others(c) /\ CallerOK(d) /\ key'[d] = key[d]
        BY Zenon, <2>1, <2>3, <3>2 DEF Frame, Others
      <4>2. IsKnown(key[d]) => IsKnown(key[d])'
        BY Zenon, <2>4, <4>1 DEF IsKnown, Entries
      <4> QED
        BY Zenon, <3>2, <4>1, <4>2, OtherOK
    <3> QED
      BY Zenon, <3>1, <3>2
  <2>6. TrustInv'
    BY Zenon, <2>1, <2>2, TrustStep
  <2>7. PermitsAreReturned'
    BY Zenon, <2>1, <2>3, PermitStep
  <2>8. Types'
    BY Zenon, <2>3 DEF Frame
  <2> QED
    BY Zenon, <2>5, <2>6, <2>7, <2>8 DEF UpstreamInv
<1> QED
  BY Zenon, <1>1, <1>2

LEMMA UpstreamInvariant == Spec => []UpstreamInv
<1> QED
  BY UpstreamInit, UpstreamStep, PTL DEF Spec

-----------------------------------------------------------------------------

\* For any number of callers and permits no path of dial or of the fetch over
\* HTTPS, ended by an answer, an error or a timeout, loses or invents a permit
\* of HANDSHAKES.
THEOREM PermitsReturn == Spec => []PermitsAreReturned
<1>1. UpstreamInv => PermitsAreReturned
  BY Zenon DEF UpstreamInv
<1> QED
  BY <1>1, UpstreamInvariant, PTL

\* authenticate is reached, and a session handed out, only for a server whose
\* key is in known_hosts, whatever other callers add to it meanwhile.
THEOREM HostKeysAreTrusted == Spec => []SessionsAreTrusted
<1>1. UpstreamInv => SessionsAreTrusted
  BY Zenon DEF UpstreamInv, CallerOK, IsKnown, SessionsAreTrusted
<1> QED
  BY <1>1, UpstreamInvariant, PTL

\* known_hosts has one key of an algorithm for a host, for any number of callers,
\* unless two of them were between the read and the write of verify at once.
THEOREM KnownHostsAgree == Spec => []TrustIsKept
<1>1. UpstreamInv => TrustIsKept
  BY Zenon DEF UpstreamInv, TrustInv, TrustIsKept
<1> QED
  BY <1>1, UpstreamInvariant, PTL

\* No failure of start_engine, of the other engine or of the connector leaves
\* a process or its configuration file behind.
THEOREM EnginesAreTied == Spec => []EngineIsTied
<1>1. UpstreamInv => EngineIsTied
  BY Zenon DEF UpstreamInv, CallerOK, EngineIsTied
<1> QED
  BY <1>1, UpstreamInvariant, PTL
=============================================================================
