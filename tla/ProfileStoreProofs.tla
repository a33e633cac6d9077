------------------------- MODULE ProfileStoreProofs -------------------------
(***************************************************************************)
(* Proofs about ProfileStore.  What a command still has to do matters only *)
(* through the operation it is at and the ones that may follow it, so the  *)
(* programs of the actors are summed up by their heads; the invariants say *)
(* what an actor at each operation may hold.                               *)
(***************************************************************************)
EXTENDS ProfileStore, TLAPS

-----------------------------------------------------------------------------
(* The inductive invariant.                                                *)

Boot == {"version", "meta", "settings", "vault"}

Ops == Boot \cup {"build", "put_pw", "save", "put_link", "save_link", "drop_link", "get", "edit",
                  "set_pw", "delete", "copy", "clone_pw", "clone_link", "read_link", "await",
                  "read_settings"}

\* The operations that come after x in some command
Follows(x, y) ==
    \/ x = "version" /\ y = "meta"
    \/ x = "meta" /\ y = "settings"
    \/ x = "settings" /\ y = "vault"
    \/ x = "build" /\ y \in {"put_pw", "put_link", "save"}
    \/ x \in {"put_pw", "set_pw", "edit", "await", "clone_link"} /\ y = "save"
    \/ x = "put_link" /\ y = "save_link"
    \/ x = "save" /\ y = "get"
    \/ x = "get" /\ y \in {"edit", "delete", "copy", "read_link", "save", "set_pw", "read_settings"}
    \/ x = "delete" /\ y = "drop_link"
    \/ x = "copy" /\ y = "clone_pw"
    \/ x = "clone_pw" /\ y = "clone_link"
    \/ x = "read_link" /\ y = "await"

\* The operations a command can end with
Last == {"vault", "save", "save_link", "drop_link", "read_settings"}

Shape(p) ==
    /\ p \in Seq(Ops)
    /\ \A k \in 1 .. Len(p) : k < Len(p) => Follows(p[k], p[k + 1])
    /\ p # <<>> => p[Len(p)] \in Last

\* The operation a is at
H(a) == IF prog[a] = <<>> THEN "end" ELSE Head(prog[a])

Names == Refs \cup {None}
Rows == [live : BOOLEAN, host : Hosts \cup {None}, pw : Names, link : Names, zones : BOOLEAN]
Files == [st : {None, "whole", "partial"}, has : SUBSET Names]

TypeOK ==
    /\ db \in [Ids -> Rows]
    /\ meta \in BOOLEAN /\ settings \in BOOLEAN
    /\ vault \in Files /\ tmp \in Files
    /\ ready \in SUBSET Actors
    /\ prog \in [Actors -> Seq(Ops)]
    /\ id \in [Actors -> Ids]
    /\ read \in [Actors -> Rows] /\ mem \in [Actors -> Rows]
    /\ vp \in [Actors -> {"idle", "loaded", "opened", "written"}]
    /\ buf \in [Actors -> SUBSET Names]
    /\ fd \in [Actors -> {None, "tmp", "bin"}]
    /\ used \in SUBSET Refs
    /\ crashes \in Nat
    /\ overlap \in BOOLEAN /\ raced \in BOOLEAN

\* Every program is the rest of a command, and a change of the vault is under
\* way only at an operation that changes it.
ProgsOK ==
    \A a \in Actors :
      /\ Shape(prog[a])
      /\ vp[a] # "idle" => H(a) \in {"put_pw", "set_pw", "put_link", "clone_pw", "clone_link",
                                     "drop_link", "vault"}

\* A process is starting or has started.
BootOK ==
    /\ \A a \in Actors :
         /\ H(a) \in Boot => a \notin ready /\ a # "bg"
         /\ a \notin ready => H(a) \in Boot \cup {"end"}
         /\ H(a) \in {"settings", "vault"} => meta
    /\ ready # {} => vault.st # None /\ meta
    /\ meta => settings \/ crashes > 0 \/ \E a \in Actors : H(a) = "settings"

\* One change of the vault at a time, and where its file is
PersistOK ==
    /\ vault.st = None => vault.has = {}
    /\ ~overlap =>
         /\ vault.st # "partial"
         /\ \A a, b \in Actors : vp[a] # "idle" /\ vp[b] # "idle" => a = b
         /\ \A a \in Actors :
              /\ vp[a] = "opened" => fd[a] = "tmp" /\ tmp.st = "partial"
              /\ vp[a] = "written" => fd[a] = "tmp" /\ tmp = File(buf[a])

\* An actor that is at none of these has a profile in memory.
Without == Boot \cup {"end", "get", "build"}

\* The references in memory that belong to the profile an actor works on, at
\* operation h and point v of the vault: a copy still has its source's until
\* they are cloned.
OwnOf(h, v, m) ==
    ((IF h \in Without \/ (h = "clone_pw" /\ v = "idle") THEN {} ELSE {m.pw})
     \cup (IF h \in Without \/ h = "clone_pw" \/ (h = "clone_link" /\ v = "idle") THEN {}
           ELSE {m.link})) \ {None}
Own(a) == OwnOf(H(a), vp[a], mem[a])

\* Rows that are there, and profiles in memory
RowsOK ==
    /\ \A i \in Ids : db[i].live \/ db[i] = NoRow
    /\ \A a \in Actors : H(a) \notin Without => mem[a].live

\* A profile that is being made has no row and nobody else works on it.
NewOK ==
    \A a \in Actors :
      /\ H(a) \in {"build", "put_link", "save_link"} => read[a] = NoRow
      /\ H(a) \notin Without /\ read[a] = NoRow =>
           /\ db[id[a]] = NoRow
           /\ \A b \in Actors : b # a /\ H(b) \notin Without => id[b] # id[a]

\* References belong to one profile, in the database or in memory.
SharedOK ==
    /\ \A i, j \in Ids : i # j => RefsOf(db[i]) \cap RefsOf(db[j]) = {}
    /\ \A a \in Actors, i \in Ids : i # id[a] => Own(a) \cap RefsOf(db[i]) = {}
    /\ \A a, b \in Actors : id[a] # id[b] => Own(a) \cap Own(b) = {}
    /\ \A i \in Ids : RefsOf(db[i]) \subseteq used
    /\ \A a \in Actors : Own(a) \subseteq used

\* The vault: a change keeps what it does not drop, a link is dropped only
\* when its row is gone, and what a profile in memory names beyond the row
\* that was read is stored, unless the row has been deleted meanwhile.
StoredBy(a) ==
    /\ vp[a] # "idle" =>
         vault.has \ (IF H(a) = "drop_link" THEN {mem[a].link} ELSE {}) \subseteq buf[a]
    /\ H(a) = "drop_link" => db[id[a]] = NoRow
    /\ db[id[a]] # NoRow \/ read[a] = NoRow =>
         Own(a) \subseteq RefsOf(read[a]) \cup vault.has \cup (IF vp[a] = "idle" THEN {} ELSE buf[a])

StoredOK ==
    ~overlap /\ ~raced => /\ \A i \in Ids : RefsOf(db[i]) \subseteq vault.has
                          /\ \A a \in Actors : StoredBy(a)

-----------------------------------------------------------------------------
(* Programs.                                                               *)

\* What is left of a program after its first operation has its shape.
LEMMA ShapeTail ==
    ASSUME NEW p, Shape(p), p # <<>>
    PROVE  /\ Shape(Tail(p))
           /\ Head(p) \in Ops
           /\ Tail(p) # <<>> => Head(Tail(p)) \in Ops /\ Follows(Head(p), Head(Tail(p)))
           /\ Head(p) \notin Last => Tail(p) # <<>>
<1>1. p \in Seq(Ops) /\ Len(p) \in Nat /\ Len(p) >= 1
    BY DEF Shape
<1>2. Tail(p) \in Seq(Ops) /\ Len(Tail(p)) = Len(p) - 1
    BY <1>1
<1>3. \A k \in 1 .. Len(Tail(p)) : Tail(p)[k] = p[k + 1]
    BY <1>1, <1>2
<1>4. Head(p) = p[1] /\ p[1] \in Ops
    BY <1>1
<1>5. ASSUME Tail(p) # <<>>
      PROVE  /\ Len(Tail(p)) >= 1
             /\ Head(Tail(p)) = p[2] /\ p[2] \in Ops
             /\ Tail(p)[Len(Tail(p))] = p[Len(p)]
    BY <1>1, <1>2, <1>3, <1>5
<1>6. Shape(Tail(p))
  <2>1. ASSUME NEW k \in 1 .. Len(Tail(p)), k < Len(Tail(p))
        PROVE  Follows(Tail(p)[k], Tail(p)[k + 1])
    <3>1. k + 1 \in 1 .. Len(p) /\ k + 1 < Len(p) /\ k + 1 \in 1 .. Len(Tail(p))
        BY <1>1, <1>2, <2>1
    <3>2. Follows(p[k + 1], p[k + 1 + 1])
        BY Zenon, <3>1 DEF Shape
    <3> QED
        BY Zenon, <3>1, <3>2, <1>3, <2>1
  <2> QED
      BY Zenon, <1>2, <1>5, <2>1 DEF Shape
<1>7. Tail(p) # <<>> => Follows(Head(p), Head(Tail(p)))
  <2>1. ASSUME Tail(p) # <<>> PROVE 1 \in 1 .. Len(p) /\ 1 < Len(p) /\ 1 + 1 = 2
      BY <1>1, <1>2, <1>5, <2>1
  <2>2. ASSUME Tail(p) # <<>> PROVE Follows(p[1], p[1 + 1])
      BY Zenon, <2>1, <2>2 DEF Shape
  <2> QED
      BY Zenon, <2>1, <2>2, <1>4, <1>5
<1>8. Head(p) \notin Last => Tail(p) # <<>>
  <2>1. Len(p) = 1 => Head(p) \in Last
      BY Zenon, <1>1, <1>4 DEF Shape
  <2>2. Len(p) # 1 => Len(Tail(p)) # 0
      BY <1>1, <1>2
  <2>3. Len(<<>>) = 0
      BY Zenon
  <2> QED
      BY <2>1, <2>2, <2>3, Zenon
<1> QED
    BY Zenon, <1>4, <1>5, <1>6, <1>7, <1>8

\* Programs of one to six operations
LEMMA Shape1 ==
    ASSUME NEW x \in Ops, x \in Last
    PROVE  Shape(<<x>>) /\ <<x>> # <<>> /\ Head(<<x>>) = x
BY DEF Shape

LEMMA Shape2 ==
    ASSUME NEW x \in Ops, NEW y \in Ops, Follows(x, y), y \in Last
    PROVE  Shape(<<x, y>>) /\ <<x, y>> # <<>> /\ Head(<<x, y>>) = x
<1> DEFINE p == <<x, y>>
<1>1. p \in Seq(Ops) /\ Len(p) = 2 /\ p[1] = x /\ p[2] = y
    OBVIOUS
<1> HIDE DEF p
<1>2. \A k \in 1 .. Len(p) : k < Len(p) => k = 1
    BY <1>1
<1> QED
    BY <1>1, <1>2 DEF Shape, p

LEMMA Shape3 ==
    ASSUME NEW x \in Ops, NEW y \in Ops, NEW z \in Ops, Follows(x, y), Follows(y, z), z \in Last
    PROVE  Shape(<<x, y, z>>) /\ <<x, y, z>> # <<>> /\ Head(<<x, y, z>>) = x
<1> DEFINE p == <<x, y, z>>
<1>1. p \in Seq(Ops) /\ Len(p) = 3 /\ p[1] = x /\ p[2] = y /\ p[3] = z
    OBVIOUS
<1>2. Head(p) = x /\ p # <<>>
    OBVIOUS
<1> HIDE DEF p
<1>3. \A k \in 1 .. Len(p) : k < Len(p) => (k = 1 /\ k + 1 = 2) \/ (k = 2 /\ k + 1 = 3)
    BY <1>1
<1>4. \A k \in 1 .. Len(p) : k < Len(p) => Follows(p[k], p[k + 1])
    BY Zenon, <1>1, <1>3
<1>5. Shape(p)
    BY Zenon, <1>1, <1>4 DEF Shape
<1> QED
    BY Zenon, <1>2, <1>5 DEF p

LEMMA Shape4 ==
    ASSUME NEW v \in Ops, NEW w \in Ops, NEW x \in Ops, NEW y \in Ops,
           Follows(v, w), Follows(w, x), Follows(x, y), y \in Last
    PROVE  Shape(<<v, w, x, y>>) /\ <<v, w, x, y>> # <<>> /\ Head(<<v, w, x, y>>) = v
<1> DEFINE p == <<v, w, x, y>>
<1>1. p \in Seq(Ops) /\ Len(p) = 4 /\ p[1] = v /\ p[2] = w /\ p[3] = x /\ p[4] = y
    OBVIOUS
<1>2. Head(p) = v /\ p # <<>>
    OBVIOUS
<1> HIDE DEF p
<1>3. \A k \in 1 .. Len(p) : k < Len(p) =>
        (k = 1 /\ k + 1 = 2) \/ (k = 2 /\ k + 1 = 3) \/ (k = 3 /\ k + 1 = 4)
    BY <1>1
<1>4. \A k \in 1 .. Len(p) : k < Len(p) => Follows(p[k], p[k + 1])
    BY Zenon, <1>1, <1>3
<1>5. Shape(p)
    BY Zenon, <1>1, <1>4 DEF Shape
<1> QED
    BY Zenon, <1>2, <1>5 DEF p

LEMMA Shape5 ==
    ASSUME NEW v \in Ops, NEW w \in Ops, NEW x \in Ops, NEW y \in Ops, NEW z \in Ops,
           Follows(v, w), Follows(w, x), Follows(x, y), Follows(y, z), z \in Last
    PROVE  Shape(<<v, w, x, y, z>>) /\ <<v, w, x, y, z>> # <<>> /\ Head(<<v, w, x, y, z>>) = v
<1> DEFINE p == <<v, w, x, y, z>>
<1>1. p \in Seq(Ops) /\ Len(p) = 5 /\ p[1] = v /\ p[2] = w /\ p[3] = x /\ p[4] = y /\ p[5] = z
    OBVIOUS
<1>2. Head(p) = v /\ p # <<>>
    OBVIOUS
<1> HIDE DEF p
<1>3. \A k \in 1 .. Len(p) : k < Len(p) =>
        (k = 1 /\ k + 1 = 2) \/ (k = 2 /\ k + 1 = 3) \/ (k = 3 /\ k + 1 = 4) \/ (k = 4 /\ k + 1 = 5)
    BY <1>1
<1>4. \A k \in 1 .. Len(p) : k < Len(p) => Follows(p[k], p[k + 1])
    BY Zenon, <1>1, <1>3
<1>5. Shape(p)
    BY Zenon, <1>1, <1>4 DEF Shape
<1> QED
    BY Zenon, <1>2, <1>5 DEF p

\* Two programs one after the other
LEMMA ShapeJoin ==
    ASSUME NEW p, NEW q, Shape(p), Shape(q), p # <<>>, q # <<>>,
           Follows(p[Len(p)], q[1])
    PROVE  Shape(p \o q) /\ p \o q # <<>> /\ Head(p \o q) = Head(p)
<1> DEFINE c == p \o q
<1>1. /\ p \in Seq(Ops) /\ q \in Seq(Ops)
      /\ Len(p) \in Nat /\ Len(q) \in Nat /\ Len(p) >= 1 /\ Len(q) >= 1
    BY DEF Shape
<1>2. /\ c \in Seq(Ops) /\ Len(c) = Len(p) + Len(q)
      /\ \A k \in 1 .. Len(c) : c[k] = IF k <= Len(p) THEN p[k] ELSE q[k - Len(p)]
    BY <1>1
<1>3. Head(c) = Head(p) /\ c # <<>>
    BY <1>1, <1>2
<1> HIDE DEF c
<1>4. ASSUME NEW k \in 1 .. Len(c), k < Len(c)
      PROVE  Follows(c[k], c[k + 1])
  <2>1. CASE k < Len(p)
    <3>1. k \in 1 .. Len(p) /\ c[k] = p[k] /\ c[k + 1] = p[k + 1]
        BY <1>1, <1>2, <1>4, <2>1
    <3> QED
        BY Zenon, <2>1, <3>1 DEF Shape
  <2>2. CASE k = Len(p)
    <3>1. c[k] = p[Len(p)] /\ c[k + 1] = q[1]
        BY <1>1, <1>2, <1>4, <2>2
    <3> QED
        BY Zenon, <3>1
  <2>3. CASE k > Len(p)
    <3>1. /\ k - Len(p) \in 1 .. Len(q) /\ k - Len(p) < Len(q)
          /\ c[k] = q[k - Len(p)] /\ c[k + 1] = q[k - Len(p) + 1]
        BY <1>1, <1>2, <1>4, <2>3
    <3> QED
        BY Zenon, <3>1 DEF Shape
  <2> QED
      BY <1>1, <1>2, <1>4, <2>1, <2>2, <2>3
<1>5. c[Len(c)] \in Last
  <2>1. c[Len(c)] = q[Len(q)]
      BY <1>1, <1>2
  <2> QED
      BY Zenon, <2>1 DEF Shape
<1>6. Shape(c)
    BY Zenon, <1>2, <1>4, <1>5 DEF Shape
<1> QED
    BY Zenon, <1>3, <1>6 DEF c

\* Every command starts with "get" or "build".
LEMMA CommandShape ==
    ASSUME NEW a \in Actors, NEW c \in Commands(a)
    PROVE  Shape(c) /\ c # <<>> /\ Head(c) \in {"get", "build"}
<1> DEFINE Good(p) == Shape(p) /\ p # <<>> /\ Head(p) \in {"get", "build"}
<1>1. Good(<<"build", "put_pw", "save">>)
    BY Zenon, Shape3 DEF Ops, Boot, Follows, Last
<1>2. Good(<<"build", "save">>) /\ Good(<<"get", "save">>)
    BY Zenon, Shape2 DEF Ops, Boot, Follows, Last
<1>3. Good(<<"build", "put_link", "save_link">>)
    BY Zenon, Shape3 DEF Ops, Boot, Follows, Last
<1>4. Good(<<"get", "edit", "save">>) /\ Good(<<"get", "set_pw", "save">>)
    BY Zenon, Shape3 DEF Ops, Boot, Follows, Last
<1>5. Good(<<"get", "delete", "drop_link">>)
    BY Zenon, Shape3 DEF Ops, Boot, Follows, Last
<1>6. Good(<<"get", "copy", "clone_pw", "clone_link", "save">>)
    BY Shape5 DEF Ops, Boot, Follows, Last
<1>7. Good(<<"get", "read_link", "await", "save">>)
    BY Zenon, Shape4 DEF Ops, Boot, Follows, Last
<1>8. Good(<<"get", "read_settings">>)
    BY Zenon, Shape2 DEF Ops, Boot, Follows, Last
<1>9. Good(UpdatePassword)
  <2> DEFINE p == <<"get", "edit", "save">>
             q == <<"get", "set_pw", "save">>
  <2>1. p[Len(p)] = "save" /\ q[1] = "get"
      BY Zenon
  <2>2. Follows(p[Len(p)], q[1])
      BY Zenon, <2>1 DEF Follows
  <2>3. UpdatePassword = p \o q
      BY Zenon DEF UpdatePassword, UpdateProfile
  <2> HIDE DEF p, q
  <2>4. Shape(p \o q) /\ p \o q # <<>> /\ Head(p \o q) = Head(p)
      BY <1>4, <2>2, ShapeJoin, Zenon DEF p, q
  <2> QED
      BY Zenon, <1>4, <2>3, <2>4 DEF p
<1> HIDE DEF Good
<1>10. a \in {"gui", "bg", "cli"}
    BY Zenon, StoreAssumption
<1>11. c \in {AddSsh, AddSs, AddVless, ImportText, ImportSmartLink, UpdateProfile, UpdatePassword,
              DeleteProfile, DuplicateProfile, FetchZones, SetSelectedZone, Connect}
    BY Zenon, <1>10 DEF Commands
<1>12. Good(c)
    BY Zenon, <1>1, <1>2, <1>3, <1>4, <1>5, <1>6, <1>7, <1>8, <1>9, <1>11
    DEF AddSsh, AddSs, AddVless, ImportText, ImportSmartLink, UpdateProfile, DeleteProfile,
        DuplicateProfile, FetchZones, SetSelectedZone, Connect
<1> QED
    BY Zenon, <1>12 DEF Good

-----------------------------------------------------------------------------
(* Steps.                                                                  *)

LEMMA Values ==
    /\ SomeId \in Ids
    /\ NoRow \in Rows /\ ~NoRow.live /\ RefsOf(NoRow) = {}
    /\ NoFile \in Files /\ NoFile.st = None /\ NoFile.has = {}
    /\ None \notin Refs /\ None \notin Hosts
<1>1. SomeId \in Ids
    BY Zenon, StoreAssumption DEF SomeId
<1>2. NoRow \in Rows /\ ~NoRow.live /\ NoRow.pw = None /\ NoRow.link = None
    BY Zenon DEF NoRow, Rows, Names
<1>3. RefsOf(NoRow) = {}
    BY Zenon, <1>2 DEF RefsOf
<1>4. NoFile \in Files /\ NoFile.st = None /\ NoFile.has = {}
    BY Zenon DEF NoFile, Files
<1> QED
    BY Zenon, <1>1, <1>2, <1>3, <1>4, StoreAssumption DEF None

\* b is where it was.
Same(b) ==
    /\ prog'[b] = prog[b] /\ id'[b] = id[b] /\ read'[b] = read[b] /\ mem'[b] = mem[b]
    /\ vp'[b] = vp[b] /\ buf'[b] = buf[b]

LEMMA SameOwn ==
    ASSUME NEW b, Same(b)
    PROVE  H(b)' = H(b) /\ Own(b)' = Own(b)
<1>1. H(b)' = H(b)
    BY Zenon DEF Same, H
<1> QED
    BY Zenon, <1>1 DEF Same, Own

LEMMA OwnCases ==
    ASSUME NEW h, NEW v, NEW m
    PROVE  /\ h \in Without => OwnOf(h, v, m) = {}
           /\ h \notin Without \cup {"clone_pw", "clone_link"} => OwnOf(h, v, m) = RefsOf(m)
           /\ OwnOf("clone_pw", "idle", m) = {}
           /\ v # "idle" => OwnOf("clone_pw", v, m) = {m.pw} \ {None}
           /\ OwnOf("clone_link", "idle", m) = {m.pw} \ {None}
           /\ v # "idle" => OwnOf("clone_link", v, m) = RefsOf(m)
BY Zenon DEF OwnOf, RefsOf, Without, Boot

\* What Continue leaves an actor with, and the others
LEMMA ContinueEffect ==
    ASSUME TypeOK, NEW a \in Actors, NEW ops, Shape(ops), NEW i \in Ids, NEW r \in Rows,
           NEW m \in Rows, Continue(a, ops, i, r, m)
    PROVE  /\ prog' \in [Actors -> Seq(Ops)] /\ id' \in [Actors -> Ids]
           /\ read' \in [Actors -> Rows] /\ mem' \in [Actors -> Rows]
           /\ \A b \in Actors : b # a =>
                prog'[b] = prog[b] /\ id'[b] = id[b] /\ read'[b] = read[b] /\ mem'[b] = mem[b]
           /\ prog'[a] = ops
           /\ H(a)' = IF ops = <<>> THEN "end" ELSE Head(ops)
           /\ ops # <<>> => id'[a] = i /\ read'[a] = r /\ mem'[a] = m
<1>1. ops \in Seq(Ops)
    BY Zenon DEF Shape
<1> DEFINE i2 == IF ops = <<>> THEN SomeId ELSE i
           r2 == IF ops = <<>> THEN NoRow ELSE r
           m2 == IF ops = <<>> THEN NoRow ELSE m
<1>2. i2 \in Ids /\ r2 \in Rows /\ m2 \in Rows
    BY Zenon, Values
<1>3. /\ prog' = [prog EXCEPT ![a] = ops] /\ id' = [id EXCEPT ![a] = i2]
      /\ read' = [read EXCEPT ![a] = r2] /\ mem' = [mem EXCEPT ![a] = m2]
    BY Zenon DEF Continue
<1>4. ops # <<>> => i2 = i /\ r2 = r /\ m2 = m
    BY Zenon
<1> HIDE DEF i2, r2, m2
<1>5. /\ prog' \in [Actors -> Seq(Ops)] /\ prog'[a] = ops
      /\ \A b \in Actors : b # a => prog'[b] = prog[b]
    BY Zenon, <1>1, <1>3 DEF TypeOK
<1>6. /\ id' \in [Actors -> Ids] /\ id'[a] = i2
      /\ \A b \in Actors : b # a => id'[b] = id[b]
    BY Zenon, <1>2, <1>3 DEF TypeOK
<1>7. /\ read' \in [Actors -> Rows] /\ read'[a] = r2
      /\ \A b \in Actors : b # a => read'[b] = read[b]
    BY Zenon, <1>2, <1>3 DEF TypeOK
<1>8. /\ mem' \in [Actors -> Rows] /\ mem'[a] = m2
      /\ \A b \in Actors : b # a => mem'[b] = mem[b]
    BY Zenon, <1>2, <1>3 DEF TypeOK
<1>9. H(a)' = IF ops = <<>> THEN "end" ELSE Head(ops)
    BY Zenon, <1>5 DEF H
<1> QED
    BY Zenon, <1>4, <1>5, <1>6, <1>7, <1>8, <1>9

\* The new rows an actor makes
LEMMA RowEdit ==
    ASSUME NEW m \in Rows, NEW h \in Hosts, NEW z \in BOOLEAN
    PROVE  LET n == [m EXCEPT !.host = h, !.zones = z] IN
           n \in Rows /\ n.pw = m.pw /\ n.link = m.link /\ n.live = m.live
BY Zenon DEF Rows

LEMMA RowZones ==
    ASSUME NEW m \in Rows
    PROVE  LET n == [m EXCEPT !.zones = TRUE] IN
           n \in Rows /\ n.pw = m.pw /\ n.link = m.link /\ n.live = m.live
BY Zenon DEF Rows

LEMMA RowNew ==
    LET n == Row(CHOOSE h \in Hosts : TRUE, None, None, FALSE) IN
    n \in Rows /\ n.pw = None /\ n.link = None /\ n.live
<1>1. (CHOOSE h \in Hosts : TRUE) \in Hosts
    BY Zenon, StoreAssumption
<1> QED
    BY Zenon, <1>1 DEF Row, Rows, Names

\* A step of a alone that leaves it outside the vault
LEMMA ProgsAlone ==
    ASSUME ProgsOK, NEW a \in Actors, Shape(prog'[a]), vp'[a] = "idle",
           \A b \in Actors : b # a => prog'[b] = prog[b] /\ vp'[b] = vp[b]
    PROVE  ProgsOK'
<1> SUFFICES ASSUME NEW b \in Actors
             PROVE  /\ Shape(prog'[b])
                    /\ vp'[b] # "idle" => H(b)' \in {"put_pw", "set_pw", "put_link", "clone_pw",
                                                     "clone_link", "drop_link", "vault"}
    BY Zenon DEF ProgsOK, Shape
<1>1. CASE b = a
    BY Zenon, <1>1
<1>2. CASE b # a
  <2>1. prog'[b] = prog[b] /\ vp'[b] = vp[b] /\ H(b)' = H(b)
      BY Zenon, <1>2 DEF H
  <2> QED
      BY Zenon, <2>1 DEF ProgsOK
<1> QED
    BY Zenon, <1>1, <1>2

\* A step that only goes on with the program
LEMMA PlainType ==
    ASSUME TypeOK, ProgsOK, NEW a \in Actors, vp[a] = "idle", NEW ops, Shape(ops),
           NEW i \in Ids, NEW r \in Rows, NEW m \in Rows, Continue(a, ops, i, r, m),
           UNCHANGED <<dbVars, files, ready, vaultVars, used, crashes, overlap, raced>>
    PROVE  TypeOK' /\ ProgsOK'
<1>1. /\ db' = db /\ meta' = meta /\ settings' = settings /\ vault' = vault /\ tmp' = tmp
      /\ ready' = ready /\ vp' = vp /\ buf' = buf /\ fd' = fd /\ used' = used
      /\ crashes' = crashes /\ overlap' = overlap /\ raced' = raced
    BY Zenon DEF dbVars, files, vaultVars
<1>2. TypeOK'
    BY Zenon, <1>1, ContinueEffect DEF TypeOK
<1>3. Shape(prog'[a]) /\ \A b \in Actors : b # a => prog'[b] = prog[b] /\ vp'[b] = vp[b]
    BY Zenon, <1>1, ContinueEffect
<1>4. ProgsOK'
    BY Zenon, <1>1, <1>3, ProgsAlone
<1> QED
    BY Zenon, <1>2, <1>4

\* At an operation: what may come next
LEMMA AtHead ==
    ASSUME ProgsOK, NEW a \in Actors, NEW op, At(a, op)
    PROVE  /\ prog[a] # <<>> /\ H(a) = op /\ vp[a] = "idle"
           /\ Shape(Tail(prog[a]))
           /\ Tail(prog[a]) # <<>> =>
                Head(Tail(prog[a])) \in Ops /\ Follows(op, Head(Tail(prog[a])))
           /\ op \notin Last => Tail(prog[a]) # <<>>
<1>1. prog[a] # <<>> /\ Head(prog[a]) = op /\ vp[a] = "idle" /\ H(a) = op
    BY Zenon DEF At, H
<1>2. Shape(prog[a])
    BY Zenon DEF ProgsOK
<1> QED
    BY Zenon, <1>1, <1>2, ShapeTail

LEMMA ShapeEmpty == Shape(<<>>)
<1>1. <<>> \in Seq(Ops) /\ Len(<<>>) = 0
    OBVIOUS
<1> QED
    BY <1>1 DEF Shape

LEMMA ShapeBoot ==
    /\ Shape(Bootstrap) /\ Bootstrap # <<>> /\ Head(Bootstrap) = "version"
    /\ Shape(<<"vault">>) /\ <<"vault">> # <<>> /\ Head(<<"vault">>) = "vault"
    /\ Shape(<<"drop_link">>) /\ <<"drop_link">> # <<>> /\ Head(<<"drop_link">>) = "drop_link"
<1>1. Shape(Bootstrap) /\ Bootstrap # <<>> /\ Head(Bootstrap) = "version"
    BY Zenon, Shape4 DEF Bootstrap, Ops, Boot, Follows, Last
<1>2. Shape(<<"vault">>) /\ <<"vault">> # <<>> /\ Head(<<"vault">>) = "vault"
    BY Zenon, Shape1 DEF Ops, Boot, Last
<1>3. Shape(<<"drop_link">>) /\ <<"drop_link">> # <<>> /\ Head(<<"drop_link">>) = "drop_link"
    BY Zenon, Shape1 DEF Ops, Boot, Last
<1> QED
    BY Zenon, <1>1, <1>2, <1>3

\* Rows and profiles have their types.
LEMMA RowTypes ==
    ASSUME TypeOK, NEW a \in Actors
    PROVE  id[a] \in Ids /\ read[a] \in Rows /\ mem[a] \in Rows /\ db[id[a]] \in Rows
BY Zenon DEF TypeOK

\* What an edit leaves as it was
LEMMA EditEffect ==
    ASSUME TypeOK, NEW a \in Actors
    PROVE  Edit(a) => \/ Abort(a)
                      \/ \E m \in Rows : /\ AdvanceWith(a, m)
                                        /\ m.pw = mem[a].pw /\ m.link = mem[a].link
                                        /\ m.live = mem[a].live
<1>1. ASSUME NEW h \in Hosts
      PROVE  \E m \in Rows :
               /\ m = [mem[a] EXCEPT !.host = h, !.zones = @ /\ mem[a].host = h]
               /\ m.pw = mem[a].pw /\ m.link = mem[a].link /\ m.live = mem[a].live
  <2> DEFINE z == mem[a].zones /\ mem[a].host = h
             n == [mem[a] EXCEPT !.host = h, !.zones = z]
  <2>1. z \in BOOLEAN
      BY Zenon
  <2>2. mem[a] \in Rows
      BY Zenon, RowTypes
  <2>3. n = [mem[a] EXCEPT !.host = h, !.zones = @ /\ mem[a].host = h]
      BY Zenon
  <2> HIDE DEF z
  <2>4. n \in Rows /\ n.pw = mem[a].pw /\ n.link = mem[a].link /\ n.live = mem[a].live
      BY <2>1, <2>2, RowEdit, Zenon
  <2> HIDE DEF n
  <2> QED
      BY <2>3, <2>4, Zenon
<1>2. Edit(a) => \/ Abort(a)
                 \/ \E h \in Hosts :
                      AdvanceWith(a, [mem[a] EXCEPT !.host = h, !.zones = @ /\ mem[a].host = h])
    BY Zenon DEF Edit
<1>3. ASSUME NEW h \in Hosts,
             AdvanceWith(a, [mem[a] EXCEPT !.host = h, !.zones = @ /\ mem[a].host = h])
      PROVE  \E m \in Rows : /\ AdvanceWith(a, m)
                             /\ m.pw = mem[a].pw /\ m.link = mem[a].link
                             /\ m.live = mem[a].live
  <2>1. PICK m \in Rows :
          /\ m = [mem[a] EXCEPT !.host = h, !.zones = @ /\ mem[a].host = h]
          /\ m.pw = mem[a].pw /\ m.link = mem[a].link /\ m.live = mem[a].live
      BY <1>1, Zenon
  <2>2. AdvanceWith(a, m)
      BY <1>3, <2>1, Zenon
  <2> QED
      BY <2>1, <2>2, Zenon
<1> QED
    BY <1>2, <1>3, Zenon

\* The steps that leave the database, the files and the vault alone
LEMMA QuietSteps ==
    ASSUME NEW a
    PROVE  \/ Start(a) \/ MigrateVersion(a) \/ GetProfile(a) \/ GetSettings(a) \/ Build(a) \/ Edit(a)
           \/ Copy(a) \/ Await(a) \/ GetSecret(a) \/ Skip(a)
           => UNCHANGED <<dbVars, files, ready, vaultVars, used, history>>
BY Zenon DEF Start, MigrateVersion, GetProfile, GetSettings, Build, Edit, Copy, Await, GetSecret, Skip

\* The typing of the steps that only go on with the program
LEMMA AdvanceType ==
    ASSUME TypeOK, ProgsOK, NEW a \in Actors, NEW op, At(a, op),
           UNCHANGED <<dbVars, files, ready, vaultVars, used, history>>,
           \/ \E m \in Rows : AdvanceWith(a, m)
           \/ Abort(a)
           \/ \E i \in Ids, r \in Rows, m \in Rows : Continue(a, Tail(prog[a]), i, r, m)
    PROVE  TypeOK' /\ ProgsOK'
<1>1. UNCHANGED <<dbVars, files, ready, vaultVars, used, crashes, overlap, raced>>
    BY Zenon DEF history
<1>2. CASE \E m \in Rows : AdvanceWith(a, m)
    BY Zenon, <1>1, <1>2, AtHead, RowTypes, PlainType DEF AdvanceWith
<1>3. CASE Abort(a)
    BY Zenon, <1>1, <1>3, AtHead, ShapeEmpty, Values, PlainType DEF Abort
<1>4. CASE \E i \in Ids, r \in Rows, m \in Rows : Continue(a, Tail(prog[a]), i, r, m)
    BY Zenon, <1>1, <1>4, AtHead, PlainType
<1> QED
    BY Zenon, <1>2, <1>3, <1>4

LEMMA PlainActions ==
    ASSUME TypeOK, ProgsOK, NEW a \in Actors
    PROVE  \/ MigrateVersion(a) \/ GetProfile(a) \/ GetSettings(a) \/ Build(a) \/ Edit(a)
           \/ Copy(a) \/ Await(a) \/ GetSecret(a) \/ Skip(a)
           => TypeOK' /\ ProgsOK'
<1>types. id[a] \in Ids /\ read[a] \in Rows /\ mem[a] \in Rows /\ db[id[a]] \in Rows
    BY Zenon, RowTypes
<1> USE <1>types, Values
<1>1. CASE MigrateVersion(a)
  <2>1. At(a, "version") /\ UNCHANGED <<dbVars, files, ready, vaultVars, used, crashes, overlap, raced>>
      BY Zenon, <1>1 DEF MigrateVersion, history
  <2> DEFINE ops == IF meta THEN <<"vault">> ELSE Tail(prog[a])
  <2>2. Shape(ops) /\ vp[a] = "idle"
      BY Zenon, <2>1, AtHead, ShapeBoot
  <2>3. Continue(a, ops, SomeId, NoRow, NoRow)
      BY Zenon, <1>1 DEF MigrateVersion
  <2> HIDE DEF ops
  <2> QED
      BY Zenon, <2>1, <2>2, <2>3, PlainType
<1>2. CASE GetProfile(a)
    BY Zenon, <1>2, AdvanceType DEF GetProfile
<1>3. CASE GetSettings(a)
    BY Zenon, <1>3, AdvanceType DEF GetSettings, Advance
<1>4. CASE Build(a)
    BY <1>4, AdvanceType, RowNew, Zenon DEF Build
<1>5. CASE Edit(a)
  <2>1. At(a, "edit")
      BY <1>5, Zenon DEF Edit
  <2> QED
      BY Zenon, <1>5, <2>1, EditEffect, QuietSteps, AdvanceType
<1>6. CASE Copy(a)
    BY Zenon, <1>6, AdvanceType DEF Copy
<1>7. CASE Await(a)
    BY Zenon, <1>7, AdvanceType, RowZones DEF Await
<1>8. CASE GetSecret(a)
    BY Zenon, <1>8, AdvanceType DEF GetSecret, Advance
<1>9. CASE Skip(a)
  <2>1. At(a, "clone_pw") \/ At(a, "clone_link")
      BY Zenon, <1>9 DEF Skip, Cloning
  <2> QED
      BY Zenon, <1>9, <2>1, AdvanceType DEF Skip, Advance
<1> QED
    BY Zenon, <1>1, <1>2, <1>3, <1>4, <1>5, <1>6, <1>7, <1>8, <1>9

\* Going on with the program, whatever else the step does
LEMMA ContinueType ==
    ASSUME TypeOK, ProgsOK, NEW a \in Actors, NEW ops, Shape(ops),
           NEW i \in Ids, NEW r \in Rows, NEW m \in Rows, Continue(a, ops, i, r, m),
           vp' \in [Actors -> {"idle", "loaded", "opened", "written"}],
           vp'[a] = "idle", \A b \in Actors : b # a => vp'[b] = vp[b]
    PROVE  /\ prog' \in [Actors -> Seq(Ops)] /\ id' \in [Actors -> Ids]
           /\ read' \in [Actors -> Rows] /\ mem' \in [Actors -> Rows]
           /\ ProgsOK'
<1>1. Shape(prog'[a]) /\ \A b \in Actors : b # a => prog'[b] = prog[b] /\ vp'[b] = vp[b]
    BY ContinueEffect
<1>2. ProgsOK'
    BY Zenon, <1>1, ProgsAlone
<1> QED
    BY Zenon, <1>2, ContinueEffect

LEMMA DatabaseActions ==
    ASSUME TypeOK, ProgsOK, NEW a \in Actors
    PROVE  MigrateMeta(a) \/ MigrateSettings(a) \/ Upsert(a) \/ DeleteRow(a)
           => TypeOK' /\ ProgsOK'
<1>types. id[a] \in Ids /\ read[a] \in Rows /\ mem[a] \in Rows /\ db[id[a]] \in Rows
    BY Zenon, RowTypes
<1> USE <1>types, Values
<1>0. ASSUME NEW op, At(a, op), Advance(a) \/ Abort(a), vp' = vp
      PROVE  /\ prog' \in [Actors -> Seq(Ops)] /\ id' \in [Actors -> Ids]
             /\ read' \in [Actors -> Rows] /\ mem' \in [Actors -> Rows]
             /\ ProgsOK'
  <2>1. /\ vp[a] = "idle" /\ Shape(Tail(prog[a]))
        /\ vp' \in [Actors -> {"idle", "loaded", "opened", "written"}]
        /\ vp'[a] = "idle" /\ \A b \in Actors : b # a => vp'[b] = vp[b]
      BY Zenon, <1>0, AtHead DEF TypeOK
  <2>2. CASE Advance(a)
      BY Zenon, <2>1, <2>2, ContinueType DEF Advance, AdvanceWith
  <2>3. CASE Abort(a)
      BY Zenon, <2>1, <2>3, ContinueType, ShapeEmpty DEF Abort
  <2> QED
      BY Zenon, <1>0, <2>2, <2>3
<1>1. CASE MigrateMeta(a)
  <2>1. /\ db' = db /\ meta' = TRUE /\ settings' = settings /\ vault' = vault /\ tmp' = tmp
        /\ ready' = ready /\ vp' = vp /\ buf' = buf /\ fd' = fd /\ used' = used
        /\ crashes' = crashes /\ overlap' = overlap /\ raced' = raced
        /\ At(a, "meta") /\ (Advance(a) \/ Abort(a))
      BY Zenon, <1>1 DEF MigrateMeta, files, vaultVars, history
  <2>2. /\ prog' \in [Actors -> Seq(Ops)] /\ id' \in [Actors -> Ids]
        /\ read' \in [Actors -> Rows] /\ mem' \in [Actors -> Rows] /\ ProgsOK'
      BY Zenon, <1>0, <2>1
  <2> QED
      BY Zenon, <2>1, <2>2 DEF TypeOK
<1>2. CASE MigrateSettings(a)
  <2>1. /\ db' = db /\ meta' = meta /\ settings' = TRUE /\ vault' = vault /\ tmp' = tmp
        /\ ready' = ready /\ vp' = vp /\ buf' = buf /\ fd' = fd /\ used' = used
        /\ crashes' = crashes /\ overlap' = overlap /\ raced' = raced
        /\ At(a, "settings") /\ (Advance(a) \/ Abort(a))
      BY Zenon, <1>2 DEF MigrateSettings, files, vaultVars, history
  <2>2. /\ prog' \in [Actors -> Seq(Ops)] /\ id' \in [Actors -> Ids]
        /\ read' \in [Actors -> Rows] /\ mem' \in [Actors -> Rows] /\ ProgsOK'
      BY Zenon, <1>0, <2>1
  <2> QED
      BY Zenon, <2>1, <2>2 DEF TypeOK
<1>3. CASE Upsert(a)
  <2>1. /\ meta' = meta /\ settings' = settings /\ vault' = vault /\ tmp' = tmp
        /\ ready' = ready /\ vp' = vp /\ buf' = buf /\ fd' = fd /\ used' = used
        /\ crashes' = crashes /\ overlap' = overlap
        /\ At(a, "save") \/ At(a, "save_link")
      BY Zenon, <1>3 DEF Upsert, files, vaultVars
  <2>2. CASE /\ db' = [db EXCEPT ![id[a]] = mem[a]] /\ raced' = (raced \/ db[id[a]] # read[a])
             /\ Advance(a)
    <3>1. /\ prog' \in [Actors -> Seq(Ops)] /\ id' \in [Actors -> Ids]
          /\ read' \in [Actors -> Rows] /\ mem' \in [Actors -> Rows] /\ ProgsOK'
        BY Zenon, <1>0, <2>1, <2>2
    <3>2. db' \in [Ids -> Rows]
        BY Zenon, <2>2 DEF TypeOK
    <3>3. raced' \in BOOLEAN
        BY Zenon, <2>2
    <3> QED
        BY Zenon, <2>1, <3>1, <3>2, <3>3 DEF TypeOK
  <2>3. CASE /\ Continue(a, IF At(a, "save_link") THEN <<"drop_link">> ELSE <<>>, id[a], read[a], mem[a])
             /\ UNCHANGED <<db, raced>>
    <3> DEFINE ops == IF At(a, "save_link") THEN <<"drop_link">> ELSE <<>>
    <3>1. Shape(ops) /\ vp[a] = "idle"
        BY Zenon, <2>1, AtHead, ShapeBoot, ShapeEmpty
    <3>2. UNCHANGED <<dbVars, files, ready, vaultVars, used, crashes, overlap, raced>>
        BY Zenon, <2>1, <2>3 DEF dbVars, files, vaultVars
    <3> HIDE DEF ops
    <3>3. Continue(a, ops, id[a], read[a], mem[a])
        BY Zenon, <2>3 DEF ops
    <3> QED
        BY Zenon, <3>1, <3>2, <3>3, PlainType
  <2> QED
      BY Zenon, <1>3, <2>2, <2>3 DEF Upsert
<1>4. CASE DeleteRow(a)
  <2>1. /\ meta' = meta /\ settings' = settings /\ vault' = vault /\ tmp' = tmp
        /\ ready' = ready /\ vp' = vp /\ buf' = buf /\ fd' = fd /\ used' = used
        /\ crashes' = crashes /\ overlap' = overlap /\ raced' = raced
        /\ At(a, "delete") /\ (Advance(a) \/ Abort(a))
        /\ db' = [db EXCEPT ![id[a]] = NoRow]
      BY Zenon, <1>4 DEF DeleteRow, files, vaultVars, history
  <2>2. /\ prog' \in [Actors -> Seq(Ops)] /\ id' \in [Actors -> Ids]
        /\ read' \in [Actors -> Rows] /\ mem' \in [Actors -> Rows] /\ ProgsOK'
      BY Zenon, <1>0, <2>1
  <2>3. db' \in [Ids -> Rows]
      BY Zenon, <2>1 DEF TypeOK
  <2> QED
      BY Zenon, <2>1, <2>2, <2>3 DEF TypeOK
<1> QED
    BY Zenon, <1>1, <1>2, <1>3, <1>4

ChangeOps == {"put_pw", "set_pw", "put_link", "clone_pw", "clone_link", "drop_link"}

\* The change in memory: a new reference is one that was never given out.
LEMMA LoadEffect ==
    ASSUME TypeOK, ProgsOK, NEW a \in Actors, Load(a)
    PROVE  /\ vp[a] = "idle" /\ H(a) \in ChangeOps
           /\ \/ Abort(a) /\ vp' = vp /\ used' = used /\ buf' = buf /\ overlap' = overlap
              \/ /\ vp' = [vp EXCEPT ![a] = "loaded"]
                 /\ prog' = prog /\ id' = id /\ read' = read
                 /\ mem' \in [Actors -> Rows]
                 /\ \A b \in Actors : b # a => mem'[b] = mem[b]
                 /\ mem'[a].live = mem[a].live
                 /\ overlap' = (overlap \/ \E b \in Actors \ {a} : vp[b] # "idle")
                 /\ \/ /\ H(a) \in {"put_pw", "set_pw", "clone_pw", "put_link", "clone_link"}
                       /\ Fresh \in Refs /\ Fresh \notin used
                       /\ used' = used \cup {Fresh}
                       /\ buf' = [buf EXCEPT ![a] = vault.has \cup {Fresh}]
                       /\ IF H(a) \in {"put_link", "clone_link"}
                          THEN mem'[a].link = Fresh /\ mem'[a].pw = mem[a].pw
                          ELSE mem'[a].pw = Fresh /\ mem'[a].link = mem[a].link
                    \/ /\ H(a) = "set_pw" /\ used' = used
                       /\ mem'[a].pw = mem[a].pw /\ mem'[a].link = mem[a].link
                       /\ buf' = [buf EXCEPT ![a] = vault.has \cup {mem[a].pw}]
                    \/ /\ H(a) = "drop_link" /\ used' = used
                       /\ mem'[a].pw = mem[a].pw /\ mem'[a].link = mem[a].link
                       /\ buf' = [buf EXCEPT ![a] = vault.has \ {mem[a].link}]
<1>1. vp[a] = "idle" /\ prog[a] # <<>> /\ H(a) = Head(prog[a]) /\ H(a) \in ChangeOps
    BY Zenon DEF Load, Changes, H, ChangeOps
<1>2. /\ At(a, "put_pw") <=> H(a) = "put_pw"
      /\ At(a, "set_pw") <=> H(a) = "set_pw"
      /\ At(a, "clone_pw") <=> H(a) = "clone_pw"
      /\ At(a, "put_link") <=> H(a) = "put_link"
      /\ At(a, "clone_link") <=> H(a) = "clone_link"
      /\ At(a, "drop_link") <=> H(a) = "drop_link"
    BY Zenon, <1>1 DEF At
<1> DEFINE W == vault.st = "whole" /\ (Cloning(a) => Source(a) \in vault.has)
<1>3. CASE ~W
    BY Zenon, <1>1, <1>3 DEF Load
<1>4. CASE W
  <2> DEFINE n == NewPw(a) \/ NewLink(a)
             P == IF NewPw(a) THEN Fresh ELSE mem[a].pw
             L == IF NewLink(a) THEN Fresh ELSE mem[a].link
  <2>1. /\ vp' = [vp EXCEPT ![a] = "loaded"]
        /\ prog' = prog /\ id' = id /\ read' = read
        /\ overlap' = (overlap \/ \E b \in Actors \ {a} : vp[b] # "idle")
      BY Zenon, <1>4 DEF Load
  <2>2. /\ used' = IF n THEN used \cup {Fresh} ELSE used
        /\ buf' = [buf EXCEPT ![a] = IF At(a, "drop_link") THEN vault.has \ {mem[a].link}
                                     ELSE vault.has \cup {IF n THEN Fresh ELSE mem[a].pw}]
        /\ n => Refs \ used # {}
      BY Zenon, <1>4 DEF Load
  <2>3. mem' = [mem EXCEPT ![a].pw = IF NewPw(a) THEN Fresh ELSE @,
                           ![a].link = IF NewLink(a) THEN Fresh ELSE @]
      BY Zenon, <1>4 DEF Load
  <2>4. n => Fresh \in Refs /\ Fresh \notin used
      BY Zenon, <2>2 DEF Fresh
  <2>5. mem[a] \in Rows /\ mem[a].pw \in Names /\ mem[a].link \in Names
      BY Zenon DEF TypeOK, Rows
  <2>6. P \in Names /\ L \in Names
      BY Zenon, <2>4, <2>5 DEF Names
  <2>7. mem' = [mem EXCEPT ![a] = [mem[a] EXCEPT !.pw = P, !.link = L]]
      BY <2>3, <2>5, Zenon DEF TypeOK
  <2>8. /\ NewPw(a) <=> H(a) \in {"put_pw", "clone_pw"} \/ (H(a) = "set_pw" /\ mem[a].pw = None)
        /\ NewLink(a) <=> H(a) \in {"put_link", "clone_link"}
      BY Zenon, <1>2 DEF NewPw, NewLink
  <2> HIDE DEF P, L
  <2> DEFINE r == [mem[a] EXCEPT !.pw = P, !.link = L]
  <2>9. r \in Rows /\ r.pw = P /\ r.link = L /\ r.live = mem[a].live
      BY <2>5, <2>6, Zenon DEF Rows
  <2> HIDE DEF r
  <2>10. mem' = [mem EXCEPT ![a] = r]
      BY Zenon, <2>7 DEF r
  <2>11. mem' \in [Actors -> Rows] /\ mem'[a] = r /\ \A b \in Actors : b # a => mem'[b] = mem[b]
      BY Zenon, <2>9, <2>10 DEF TypeOK
  <2>12. mem'[a].live = mem[a].live /\ mem'[a].pw = P /\ mem'[a].link = L
      BY Zenon, <2>9, <2>11
  <2> HIDE DEF n
  <2>13. CASE H(a) \in {"put_link", "clone_link"}
    <3>1. NewLink(a) /\ ~NewPw(a) /\ n /\ ~At(a, "drop_link")
        BY Zenon, <1>2, <2>8, <2>13 DEF n
    <3>2. P = mem[a].pw /\ L = Fresh
        BY Zenon, <3>1 DEF P, L
    <3>3. used' = used \cup {Fresh} /\ buf' = [buf EXCEPT ![a] = vault.has \cup {Fresh}]
        BY Zenon, <3>1, <2>2
    <3> QED
        BY Zenon, <1>1, <2>1, <2>4, <2>11, <2>12, <2>13, <3>1, <3>2, <3>3
  <2>14. CASE H(a) \in {"put_pw", "clone_pw"} \/ (H(a) = "set_pw" /\ mem[a].pw = None)
    <3>1. NewPw(a) /\ ~NewLink(a) /\ n /\ ~At(a, "drop_link")
        BY Zenon, <1>2, <2>8, <2>14 DEF n
    <3>2. P = Fresh /\ L = mem[a].link
        BY Zenon, <3>1 DEF P, L
    <3>3. used' = used \cup {Fresh} /\ buf' = [buf EXCEPT ![a] = vault.has \cup {Fresh}]
        BY Zenon, <3>1, <2>2
    <3> QED
        BY Zenon, <1>1, <2>1, <2>4, <2>11, <2>12, <2>14, <3>1, <3>2, <3>3
  <2>15. CASE H(a) = "set_pw" /\ mem[a].pw # None
    <3>1. ~NewPw(a) /\ ~NewLink(a) /\ ~n /\ ~At(a, "drop_link")
        BY Zenon, <1>2, <2>8, <2>15 DEF n
    <3>2. P = mem[a].pw /\ L = mem[a].link
        BY Zenon, <3>1 DEF P, L
    <3>3. used' = used /\ buf' = [buf EXCEPT ![a] = vault.has \cup {mem[a].pw}]
        BY Zenon, <3>1, <2>2
    <3> QED
        BY Zenon, <1>1, <2>1, <2>11, <2>12, <2>15, <3>2, <3>3
  <2>16. CASE H(a) = "drop_link"
    <3>1. ~NewPw(a) /\ ~NewLink(a) /\ ~n /\ At(a, "drop_link")
        BY Zenon, <1>2, <2>8, <2>16 DEF n
    <3>2. P = mem[a].pw /\ L = mem[a].link
        BY Zenon, <3>1 DEF P, L
    <3>3. used' = used /\ buf' = [buf EXCEPT ![a] = vault.has \ {mem[a].link}]
        BY Zenon, <3>1, <2>2
    <3> QED
        BY Zenon, <1>1, <2>1, <2>11, <2>12, <2>16, <3>2, <3>3
  <2> QED
      BY Zenon, <1>1, <2>13, <2>14, <2>15, <2>16 DEF ChangeOps
<1> QED
    BY Zenon, <1>3, <1>4

\* In the middle of a change of the vault
LEMMA InVault ==
    ASSUME ProgsOK, NEW a \in Actors, vp[a] # "idle"
    PROVE  /\ prog[a] # <<>> /\ H(a) = Head(prog[a]) /\ H(a) \in ChangeOps \cup {"vault"}
           /\ Shape(Tail(prog[a]))
           /\ Tail(prog[a]) # <<>> =>
                Head(Tail(prog[a])) \in Ops /\ Follows(H(a), Head(Tail(prog[a])))
<1>1. H(a) \in ChangeOps \cup {"vault"}
    BY Zenon DEF ProgsOK, ChangeOps
<1>2. prog[a] # <<>> /\ H(a) = Head(prog[a])
    BY Zenon, <1>1 DEF H, ChangeOps
<1> QED
    BY Zenon, <1>1, <1>2, ShapeTail DEF ProgsOK

LEMMA VaultActions ==
    ASSUME TypeOK, ProgsOK, NEW a \in Actors
    PROVE  Load(a) \/ OpenVault(a) \/ OpenTmp(a) \/ WriteTmp(a) \/ Rename(a)
           => TypeOK' /\ ProgsOK'
<1>types. id[a] \in Ids /\ read[a] \in Rows /\ mem[a] \in Rows /\ db[id[a]] \in Rows
    BY Zenon, RowTypes
<1> USE <1>types, Values
<1>0. ASSUME prog' = prog, NEW v \in {"loaded", "opened", "written"},
             vp' = [vp EXCEPT ![a] = v], H(a) \in ChangeOps \cup {"vault"}
      PROVE  ProgsOK' /\ vp' \in [Actors -> {"idle", "loaded", "opened", "written"}]
  <2>1. /\ vp' \in [Actors -> {"idle", "loaded", "opened", "written"}]
        /\ \A b \in Actors : b # a => vp'[b] = vp[b]
      BY Zenon, <1>0 DEF TypeOK
  <2>2. \A b \in Actors : H(b)' = H(b)
      BY Zenon, <1>0 DEF H
  <2>3. ASSUME NEW b \in Actors
        PROVE  /\ Shape(prog'[b])
               /\ vp'[b] # "idle" => H(b)' \in {"put_pw", "set_pw", "put_link", "clone_pw",
                                                "clone_link", "drop_link", "vault"}
    <3>1. Shape(prog'[b])
        BY Zenon, <1>0 DEF ProgsOK
    <3>2. CASE b = a
        BY Zenon, <1>0, <2>2, <3>1, <3>2 DEF ChangeOps
    <3>3. CASE b # a
        BY Zenon, <2>1, <2>2, <3>1, <3>3 DEF ProgsOK
    <3> QED
        BY Zenon, <3>2, <3>3
  <2>4. ProgsOK'
      BY Zenon, <2>3 DEF ProgsOK, Shape
  <2> QED
      BY Zenon, <2>1, <2>4
<1>1. CASE Load(a)
  <2>1. /\ db' = db /\ meta' = meta /\ settings' = settings /\ vault' = vault /\ tmp' = tmp
        /\ ready' = ready /\ fd' = fd /\ crashes' = crashes /\ raced' = raced
      BY Zenon, <1>1 DEF Load, dbVars, files
  <2>2. CASE Abort(a) /\ vp' = vp /\ used' = used /\ buf' = buf /\ overlap' = overlap
    <3>1. UNCHANGED <<dbVars, files, ready, vaultVars, used, crashes, overlap, raced>>
        BY Zenon, <2>1, <2>2 DEF dbVars, files, vaultVars
    <3> QED
        BY Zenon, <1>1, <2>2, <3>1, LoadEffect, ShapeEmpty, PlainType DEF Abort
  <2>3. CASE vp' = [vp EXCEPT ![a] = "loaded"]
    <3>1. /\ prog' = prog /\ id' = id /\ read' = read /\ mem' \in [Actors -> Rows]
          /\ H(a) \in ChangeOps /\ overlap' \in BOOLEAN /\ vp[a] = "idle"
      <4>1. vp' # vp
          BY <1>1, <2>3, LoadEffect DEF TypeOK
      <4> QED
          BY <1>1, <4>1, LoadEffect, Zenon DEF TypeOK
    <3>2. used' \in SUBSET Refs /\ buf' \in [Actors -> SUBSET Names]
      <4>1. vp' # vp
          BY <1>1, <2>3, LoadEffect DEF TypeOK
      <4>2. vault.has \in SUBSET Names /\ mem[a].pw \in Names
          BY Zenon DEF TypeOK, Files, Rows
      <4>3. \/ Fresh \in Refs /\ used' = used \cup {Fresh}
               /\ buf' = [buf EXCEPT ![a] = vault.has \cup {Fresh}]
            \/ used' = used /\ buf' = [buf EXCEPT ![a] = vault.has \cup {mem[a].pw}]
            \/ used' = used /\ buf' = [buf EXCEPT ![a] = vault.has \ {mem[a].link}]
          BY Zenon, <1>1, <4>1, LoadEffect
      <4>4. used' \in SUBSET Refs
          BY Zenon, <4>3 DEF TypeOK
      <4>5. \E e \in SUBSET Names : buf' = [buf EXCEPT ![a] = e]
        <5>1. /\ Fresh \in Refs => vault.has \cup {Fresh} \in SUBSET Names
              /\ vault.has \cup {mem[a].pw} \in SUBSET Names
              /\ vault.has \ {mem[a].link} \in SUBSET Names
            BY Zenon, <4>2 DEF Names
        <5> QED
            BY Zenon, <4>3, <5>1
      <4> QED
          BY <4>4, <4>5 DEF TypeOK
    <3>3. ProgsOK' /\ vp' \in [Actors -> {"idle", "loaded", "opened", "written"}]
        BY Zenon, <1>0, <2>3, <3>1
    <3> QED
        BY Zenon, <2>1, <3>1, <3>2, <3>3 DEF TypeOK
  <2> QED
      BY Zenon, <1>1, <2>2, <2>3, LoadEffect
<1>2. CASE OpenVault(a)
  <2>1. /\ db' = db /\ meta' = meta /\ settings' = settings /\ vault' = vault /\ tmp' = tmp
        /\ fd' = fd /\ used' = used /\ crashes' = crashes /\ raced' = raced
        /\ At(a, "vault")
      BY Zenon, <1>2 DEF OpenVault, dbVars, files
  <2>2. CASE ready' = ready \cup Process(a) /\ Advance(a) /\ UNCHANGED <<vp, buf, overlap>>
    <3>1. /\ prog' \in [Actors -> Seq(Ops)] /\ id' \in [Actors -> Ids]
          /\ read' \in [Actors -> Rows] /\ mem' \in [Actors -> Rows] /\ ProgsOK'
      <4>1. /\ vp[a] = "idle" /\ Shape(Tail(prog[a])) /\ vp' = vp
            /\ vp' \in [Actors -> {"idle", "loaded", "opened", "written"}]
          BY Zenon, <2>1, <2>2, AtHead DEF TypeOK
      <4> QED
          BY Zenon, <2>2, <4>1, ContinueType DEF Advance, AdvanceWith
    <3>2. ready' \in SUBSET Actors
        BY Zenon, <2>2 DEF Process, TypeOK
    <3> QED
        BY Zenon, <2>1, <2>2, <3>1, <3>2 DEF TypeOK
  <2>3. CASE /\ vp' = [vp EXCEPT ![a] = "loaded"] /\ buf' = [buf EXCEPT ![a] = {}]
             /\ overlap' = (overlap \/ \E b \in Actors \ {a} : vp[b] # "idle")
             /\ UNCHANGED <<ready, prog, local>>
    <3>1. prog' = prog /\ id' = id /\ read' = read /\ mem' = mem /\ ready' = ready
        BY Zenon, <2>3 DEF local
    <3>2. ProgsOK' /\ vp' \in [Actors -> {"idle", "loaded", "opened", "written"}]
        BY Zenon, <1>0, <2>1, <2>3, <3>1, AtHead
    <3>3. buf' \in [Actors -> SUBSET Names] /\ overlap' \in BOOLEAN
        BY Zenon, <2>3 DEF TypeOK
    <3> QED
        BY Zenon, <2>1, <3>1, <3>2, <3>3 DEF TypeOK
  <2> QED
      BY Zenon, <1>2, <2>2, <2>3 DEF OpenVault
<1>3. CASE OpenTmp(a)
  <2>1. /\ db' = db /\ meta' = meta /\ settings' = settings /\ vault' = vault /\ ready' = ready
        /\ prog' = prog /\ id' = id /\ read' = read /\ mem' = mem /\ buf' = buf /\ used' = used
        /\ crashes' = crashes /\ overlap' = overlap /\ raced' = raced
        /\ vp[a] = "loaded" /\ vp' = [vp EXCEPT ![a] = "opened"]
        /\ fd' = [fd EXCEPT ![a] = "tmp"] /\ tmp' = [st |-> "partial", has |-> {}]
      BY Zenon, <1>3 DEF OpenTmp, dbVars, local, history
  <2>2. ProgsOK' /\ vp' \in [Actors -> {"idle", "loaded", "opened", "written"}]
      BY Zenon, <1>0, <2>1, InVault
  <2>3. tmp' \in Files /\ fd' \in [Actors -> {None, "tmp", "bin"}]
      BY Zenon, <2>1 DEF TypeOK, Files
  <2> QED
      BY Zenon, <2>1, <2>2, <2>3 DEF TypeOK
<1>4. CASE WriteTmp(a)
  <2>1. /\ db' = db /\ meta' = meta /\ settings' = settings /\ ready' = ready
        /\ prog' = prog /\ id' = id /\ read' = read /\ mem' = mem /\ buf' = buf /\ fd' = fd
        /\ used' = used /\ crashes' = crashes /\ overlap' = overlap /\ raced' = raced
        /\ vp[a] = "opened" /\ vp' = [vp EXCEPT ![a] = "written"]
      BY Zenon, <1>4 DEF WriteTmp, dbVars, local, history
  <2>2. ProgsOK' /\ vp' \in [Actors -> {"idle", "loaded", "opened", "written"}]
      BY Zenon, <1>0, <2>1, InVault
  <2>3. \A old : Written(old, buf[a]) \subseteq Files
    <3>1. buf[a] \in SUBSET Names
        BY Zenon DEF TypeOK
    <3> QED
        BY <3>1 DEF Written, File, Files
  <2>4. tmp' \in Files /\ vault' \in Files
      BY Zenon, <1>4, <2>3 DEF WriteTmp, TypeOK, files
  <2> QED
      BY Zenon, <2>1, <2>2, <2>4 DEF TypeOK
<1>5. CASE Rename(a)
  <2>1. /\ db' = db /\ meta' = meta /\ settings' = settings /\ used' = used
        /\ crashes' = crashes /\ overlap' = overlap /\ raced' = raced
        /\ vp[a] = "written" /\ vp' = [vp EXCEPT ![a] = "idle"] /\ buf' = [buf EXCEPT ![a] = {}]
      BY Zenon, <1>5 DEF Rename, dbVars, history
  <2>2. /\ vp' \in [Actors -> {"idle", "loaded", "opened", "written"}]
        /\ vp'[a] = "idle" /\ \A b \in Actors : b # a => vp'[b] = vp[b]
        /\ buf' \in [Actors -> SUBSET Names]
      BY Zenon, <2>1 DEF TypeOK
  <2>3. /\ vault' \in Files /\ tmp' \in Files /\ fd' \in [Actors -> {None, "tmp", "bin"}]
        /\ ready' \in SUBSET Actors
      BY <1>5, Zenon DEF Rename, TypeOK, files, Process
  <2>4. /\ prog' \in [Actors -> Seq(Ops)] /\ id' \in [Actors -> Ids]
        /\ read' \in [Actors -> Rows] /\ mem' \in [Actors -> Rows] /\ ProgsOK'
    <3>1. Advance(a) \/ Abort(a)
        BY Zenon, <1>5 DEF Rename
    <3>2. Shape(Tail(prog[a]))
        BY Zenon, <2>1, InVault
    <3>3. CASE Advance(a)
        BY Zenon, <2>2, <3>2, <3>3, ContinueType DEF Advance, AdvanceWith
    <3>4. CASE Abort(a)
        BY Zenon, <2>2, <3>4, ContinueType, ShapeEmpty DEF Abort
    <3> QED
        BY Zenon, <3>1, <3>3, <3>4
  <2> QED
      BY Zenon, <2>1, <2>2, <2>3, <2>4 DEF TypeOK
<1> QED
    BY Zenon, <1>1, <1>2, <1>3, <1>4, <1>5

\* A killed process, and the actors of the other one
LEMMA CrashEffect ==
    ASSUME TypeOK, NEW a \in Actors, Crash(a)
    PROVE  /\ db' = db /\ meta' = meta /\ settings' = settings /\ vault' = vault /\ tmp' = tmp
           /\ used' = used /\ overlap' = overlap /\ raced' = raced
           /\ crashes' = crashes + 1 /\ ready' = ready \ Process(a)
           /\ \A b \in Actors :
                IF b \in Process(a)
                THEN /\ prog'[b] = <<>> /\ H(b)' = "end" /\ id'[b] = SomeId
                     /\ read'[b] = NoRow /\ mem'[b] = NoRow
                     /\ vp'[b] = "idle" /\ buf'[b] = {} /\ fd'[b] = None
                ELSE Same(b) /\ fd'[b] = fd[b]
           /\ prog' \in [Actors -> Seq(Ops)] /\ id' \in [Actors -> Ids]
           /\ read' \in [Actors -> Rows] /\ mem' \in [Actors -> Rows]
           /\ vp' \in [Actors -> {"idle", "loaded", "opened", "written"}]
           /\ buf' \in [Actors -> SUBSET Names] /\ fd' \in [Actors -> {None, "tmp", "bin"}]
<1>1. /\ db' = db /\ meta' = meta /\ settings' = settings /\ vault' = vault /\ tmp' = tmp
      /\ used' = used /\ overlap' = overlap /\ raced' = raced
      /\ crashes' = crashes + 1 /\ ready' = ready \ Process(a)
    BY Zenon DEF Crash, dbVars, files
<1>2. /\ prog' = [b \in Actors |-> IF b \in Process(a) THEN <<>> ELSE prog[b]]
      /\ id' = [b \in Actors |-> IF b \in Process(a) THEN SomeId ELSE id[b]]
      /\ read' = [b \in Actors |-> IF b \in Process(a) THEN NoRow ELSE read[b]]
      /\ mem' = [b \in Actors |-> IF b \in Process(a) THEN NoRow ELSE mem[b]]
      /\ vp' = [b \in Actors |-> IF b \in Process(a) THEN "idle" ELSE vp[b]]
      /\ buf' = [b \in Actors |-> IF b \in Process(a) THEN {} ELSE buf[b]]
      /\ fd' = [b \in Actors |-> IF b \in Process(a) THEN None ELSE fd[b]]
    BY Zenon DEF Crash
<1>3. ASSUME NEW b \in Actors, b \in Process(a)
      PROVE  /\ prog'[b] = <<>> /\ H(b)' = "end" /\ id'[b] = SomeId
             /\ read'[b] = NoRow /\ mem'[b] = NoRow
             /\ vp'[b] = "idle" /\ buf'[b] = {} /\ fd'[b] = None
    BY Zenon, <1>2, <1>3 DEF H
<1>4. ASSUME NEW b \in Actors, b \notin Process(a)
      PROVE  Same(b) /\ fd'[b] = fd[b]
    BY Zenon, <1>2, <1>4 DEF Same
<1>5. /\ prog' \in [Actors -> Seq(Ops)] /\ id' \in [Actors -> Ids]
      /\ read' \in [Actors -> Rows] /\ mem' \in [Actors -> Rows]
    BY <1>2, Values DEF TypeOK
<1>6. /\ vp' \in [Actors -> {"idle", "loaded", "opened", "written"}]
      /\ buf' \in [Actors -> SUBSET Names] /\ fd' \in [Actors -> {None, "tmp", "bin"}]
    BY Zenon, <1>2 DEF TypeOK
<1> QED
    BY Zenon, <1>1, <1>3, <1>4, <1>5, <1>6

LEMMA TypeInit == Init => TypeOK /\ ProgsOK
<1> SUFFICES ASSUME Init PROVE TypeOK /\ ProgsOK
    BY Zenon
<1>1. /\ db \in [Ids -> Rows] /\ meta \in BOOLEAN /\ settings \in BOOLEAN
      /\ vault \in Files /\ tmp \in Files /\ ready \in SUBSET Actors
      /\ id \in [Actors -> Ids] /\ read \in [Actors -> Rows] /\ mem \in [Actors -> Rows]
    BY Values, Zenon DEF Init
<1>2. /\ vp \in [Actors -> {"idle", "loaded", "opened", "written"}]
      /\ buf \in [Actors -> SUBSET Names] /\ fd \in [Actors -> {None, "tmp", "bin"}]
      /\ used \in SUBSET Refs /\ crashes \in Nat /\ overlap \in BOOLEAN /\ raced \in BOOLEAN
    BY Zenon DEF Init
<1>3. prog \in [Actors -> Seq(Ops)]
    BY DEF Init
<1>4. ProgsOK
    BY Zenon, ShapeEmpty DEF Init, ProgsOK
<1> QED
    BY Zenon, <1>1, <1>2, <1>3, <1>4 DEF TypeOK

LEMMA TypeStep == TypeOK /\ ProgsOK /\ [Next]_vars => TypeOK' /\ ProgsOK'
<1> SUFFICES ASSUME TypeOK, ProgsOK, [Next]_vars
             PROVE  TypeOK' /\ ProgsOK'
    BY Zenon
<1>1. ASSUME NEW a \in Actors, Start(a)
      PROVE  TypeOK' /\ ProgsOK'
  <2>1. /\ db' = db /\ meta' = meta /\ settings' = settings /\ vault' = vault /\ tmp' = tmp
        /\ ready' = ready /\ id' = id /\ read' = read /\ mem' = mem /\ vp' = vp /\ buf' = buf
        /\ fd' = fd /\ used' = used /\ crashes' = crashes /\ overlap' = overlap /\ raced' = raced
        /\ prog[a] = <<>> /\ prog' = [prog EXCEPT ![a] = Bootstrap]
      BY Zenon, <1>1 DEF Start, dbVars, files, local, vaultVars, history
  <2>2. Bootstrap \in Seq(Ops)
      BY Zenon, ShapeBoot DEF Shape
  <2>3. /\ prog' \in [Actors -> Seq(Ops)] /\ prog'[a] = Bootstrap
        /\ \A b \in Actors : b # a => prog'[b] = prog[b] /\ vp'[b] = vp[b]
      BY Zenon, <2>1, <2>2 DEF TypeOK
  <2>4. vp'[a] = "idle"
      BY Zenon, <2>1 DEF ProgsOK, H
  <2>5. ProgsOK'
      BY Zenon, <2>3, <2>4, ShapeBoot, ProgsAlone
  <2> QED
      BY Zenon, <2>1, <2>3, <2>5 DEF TypeOK
<1>2. ASSUME NEW a \in Actors, NEW c \in Commands(a), NEW i \in Ids, Begin(a, c, i)
      PROVE  TypeOK' /\ ProgsOK'
  <2>1. /\ UNCHANGED <<dbVars, files, ready, vaultVars, used, crashes, overlap, raced>>
        /\ Continue(a, c, i, NoRow, NoRow) /\ prog[a] = <<>>
      BY Zenon, <1>2 DEF Begin
  <2>2. vp[a] = "idle"
      BY Zenon, <2>1 DEF ProgsOK, H
  <2> QED
      BY Zenon, <2>1, <2>2, CommandShape, Values, PlainType
<1>3. ASSUME NEW a \in Actors, Crash(a)
      PROVE  TypeOK' /\ ProgsOK'
  <2>1. TypeOK'
    <3>1. crashes' \in Nat /\ ready' \in SUBSET Actors
        BY <1>3, CrashEffect DEF TypeOK
    <3> QED
        BY Zenon, <1>3, <3>1, CrashEffect DEF TypeOK
  <2>2. ASSUME NEW b \in Actors
        PROVE  /\ Shape(prog'[b])
               /\ vp'[b] # "idle" => H(b)' \in {"put_pw", "set_pw", "put_link", "clone_pw",
                                                "clone_link", "drop_link", "vault"}
    <3>1. CASE b \in Process(a)
        BY Zenon, <1>3, <3>1, CrashEffect, ShapeEmpty
    <3>2. CASE b \notin Process(a)
      <4>1. Same(b)
          BY Zenon, <1>3, <3>2, CrashEffect
      <4>2. prog'[b] = prog[b] /\ vp'[b] = vp[b] /\ H(b)' = H(b)
          BY Zenon, <4>1, SameOwn DEF Same
      <4> QED
          BY Zenon, <4>2 DEF ProgsOK
    <3> QED
        BY Zenon, <3>1, <3>2
  <2>3. ProgsOK'
      BY Zenon, <2>2 DEF ProgsOK, Shape
  <2> QED
      BY Zenon, <2>1, <2>3
<1>4. CASE UNCHANGED vars
  <2>1. /\ db' = db /\ meta' = meta /\ settings' = settings /\ vault' = vault /\ tmp' = tmp
        /\ ready' = ready /\ prog' = prog /\ id' = id /\ read' = read /\ mem' = mem /\ vp' = vp
        /\ buf' = buf /\ fd' = fd /\ used' = used /\ crashes' = crashes /\ overlap' = overlap
        /\ raced' = raced
      BY Zenon, <1>4 DEF vars
  <2>2. TypeOK'
      BY Zenon, <2>1 DEF TypeOK
  <2>3. ProgsOK'
      BY Zenon, <2>1 DEF ProgsOK, Shape, H
  <2> QED
      BY Zenon, <2>2, <2>3
<1>5. ASSUME NEW a \in Actors, Step(a)
      PROVE  TypeOK' /\ ProgsOK'
    BY Zenon, <1>5, PlainActions, DatabaseActions, VaultActions DEF Step
<1> QED
    BY Zenon, <1>1, <1>2, <1>3, <1>4, <1>5 DEF Next

-----------------------------------------------------------------------------
(* Starting.                                                               *)

\* The operation an actor is at after a step
LEMMA NextHead ==
    ASSUME TypeOK, ProgsOK, NEW a \in Actors, NEW op, At(a, op) \/ (vp[a] # "idle" /\ H(a) = op),
           \/ \E m \in Rows : AdvanceWith(a, m)
           \/ Abort(a)
           \/ \E i \in Ids, r \in Rows, m \in Rows : Continue(a, Tail(prog[a]), i, r, m)
    PROVE  /\ H(a)' = "end" \/ (H(a)' \in Ops /\ Follows(op, H(a)'))
           /\ \A b \in Actors : b # a => H(b)' = H(b)
<1>1. /\ Shape(Tail(prog[a]))
      /\ Tail(prog[a]) # <<>> => Head(Tail(prog[a])) \in Ops /\ Follows(op, Head(Tail(prog[a])))
    BY Zenon, AtHead, InVault
<1>2. \E i \in Ids, r \in Rows, m \in Rows :
        Continue(a, <<>>, i, r, m) \/ Continue(a, Tail(prog[a]), i, r, m)
    BY Zenon, RowTypes, Values DEF AdvanceWith, Abort
<1>3. PICK i \in Ids, r \in Rows, m \in Rows :
        Continue(a, <<>>, i, r, m) \/ Continue(a, Tail(prog[a]), i, r, m)
    BY Zenon, <1>2
<1>4. CASE Continue(a, <<>>, i, r, m)
  <2>1. (\A b \in Actors : b # a => prog'[b] = prog[b]) /\ H(a)' = "end"
      BY Zenon, <1>4, ShapeEmpty, ContinueEffect
  <2> QED
      BY Zenon, <2>1 DEF H
<1>5. CASE Continue(a, Tail(prog[a]), i, r, m)
  <2>1. /\ \A b \in Actors : b # a => prog'[b] = prog[b]
        /\ H(a)' = IF Tail(prog[a]) = <<>> THEN "end" ELSE Head(Tail(prog[a]))
      BY <1>1, <1>5, ContinueEffect, ZenonT(30)
  <2>2. \A b \in Actors : b # a => H(b)' = H(b)
      BY Zenon, <2>1 DEF H
  <2> QED
      BY Zenon, <1>1, <2>1, <2>2
<1> QED
    BY Zenon, <1>3, <1>4, <1>5

\* A step of a command
Ordinary(a) ==
    /\ H(a) \notin Boot /\ (H(a) # "end" \/ a \in ready) /\ H(a)' \notin Boot
    /\ \A b \in Actors : b # a => H(b)' = H(b)
    /\ meta' = meta /\ settings' = settings /\ crashes' = crashes /\ ready' = ready
    /\ vault'.st = vault.st \/ vault'.st # None

LEMMA BootOrdinary ==
    ASSUME BootOK, NEW a \in Actors, Ordinary(a)
    PROVE  BootOK'
<1>1. a \in ready
    BY Zenon DEF BootOK, Ordinary
<1>2. ASSUME NEW b \in Actors
      PROVE  /\ H(b)' \in Boot => b \notin ready' /\ b # "bg"
             /\ b \notin ready' => H(b)' \in Boot \cup {"end"}
             /\ H(b)' \in {"settings", "vault"} => meta'
    BY Zenon, <1>1 DEF BootOK, Ordinary, Boot
<1>3. ready' # {} => vault'.st # None /\ meta'
    BY Zenon DEF BootOK, Ordinary
<1>4. meta' => settings' \/ crashes' > 0 \/ \E b \in Actors : H(b)' = "settings"
    BY Zenon DEF BootOK, Ordinary, Boot
<1> QED
    BY Zenon, <1>2, <1>3, <1>4 DEF BootOK

LEMMA OrdinarySteps ==
    ASSUME TypeOK, ProgsOK, NEW a \in Actors,
           \/ GetProfile(a) \/ GetSettings(a) \/ Build(a) \/ Edit(a) \/ Copy(a) \/ Await(a)
           \/ GetSecret(a) \/ Skip(a) \/ Upsert(a) \/ DeleteRow(a) \/ Load(a)
    PROVE  Ordinary(a)
<1>types. id[a] \in Ids /\ read[a] \in Rows /\ mem[a] \in Rows /\ db[id[a]] \in Rows
    BY Zenon, RowTypes
<1> USE <1>types, Values
<1>1. meta' = meta /\ settings' = settings /\ crashes' = crashes /\ ready' = ready /\ vault' = vault
  <2>1. CASE GetProfile(a) \/ GetSettings(a) \/ Build(a) \/ Edit(a) \/ Copy(a) \/ Await(a)
             \/ GetSecret(a) \/ Skip(a)
    <3>1. UNCHANGED <<dbVars, files, ready, vaultVars, used, history>>
        BY Zenon, <2>1, QuietSteps
    <3> QED
        BY Zenon, <3>1 DEF dbVars, files, history
  <2>2. CASE Upsert(a) \/ DeleteRow(a) \/ Load(a)
      BY Zenon, <2>2 DEF Upsert, DeleteRow, Load, dbVars, files, history
  <2> QED
      BY Zenon, <2>1, <2>2
<1>2. ASSUME NEW op \in Ops \ Boot, At(a, op),
             \/ \E m \in Rows : AdvanceWith(a, m)
             \/ Abort(a)
             \/ \E i \in Ids, r \in Rows, m \in Rows : Continue(a, Tail(prog[a]), i, r, m)
      PROVE  Ordinary(a)
  <2>1. H(a) = op
      BY Zenon, <1>2, AtHead
  <2>2. /\ H(a)' = "end" \/ (H(a)' \in Ops /\ Follows(op, H(a)'))
        /\ \A b \in Actors : b # a => H(b)' = H(b)
      BY Zenon, <1>2, NextHead
  <2>3. op # "end" /\ op \notin Boot /\ H(a)' \notin Boot
      BY Zenon, <2>2 DEF Ops, Boot, Follows
  <2> QED
      BY Zenon, <1>1, <2>1, <2>2, <2>3 DEF Ordinary
<1>3. \A op \in {"get", "read_settings", "build", "edit", "copy", "await", "read_link", "clone_pw",
                 "clone_link", "save", "save_link", "delete"} : op \in Ops \ Boot
    BY Zenon DEF Ops, Boot
<1>4. CASE GetProfile(a)
    BY Zenon, <1>2, <1>3, <1>4 DEF GetProfile
<1>5. CASE GetSettings(a)
    BY Zenon, <1>2, <1>3, <1>5 DEF GetSettings, Advance
<1>6. CASE Build(a)
    BY <1>2, <1>3, <1>6, RowNew, Zenon DEF Build
<1>7. CASE Edit(a)
  <2>1. At(a, "edit")
      BY <1>7, Zenon DEF Edit
  <2> QED
      BY Zenon, <1>2, <1>3, <1>7, <2>1, EditEffect
<1>8. CASE Copy(a)
    BY Zenon, <1>2, <1>3, <1>8 DEF Copy
<1>9. CASE Await(a)
    BY Zenon, <1>2, <1>3, <1>9, RowZones DEF Await
<1>10. CASE GetSecret(a)
    BY Zenon, <1>2, <1>3, <1>10 DEF GetSecret, Advance
<1>11. CASE Skip(a)
    BY Zenon, <1>2, <1>3, <1>11 DEF Skip, Cloning, Advance
<1>12. CASE DeleteRow(a)
    BY Zenon, <1>2, <1>3, <1>12 DEF DeleteRow, Advance
<1>13. CASE Upsert(a)
  <2>1. At(a, "save") \/ At(a, "save_link")
      BY Zenon, <1>13 DEF Upsert
  <2>2. CASE Advance(a)
      BY Zenon, <1>2, <1>3, <2>1, <2>2 DEF Advance
  <2>3. CASE Continue(a, IF At(a, "save_link") THEN <<"drop_link">> ELSE <<>>, id[a], read[a], mem[a])
    <3> DEFINE ops == IF At(a, "save_link") THEN <<"drop_link">> ELSE <<>>
    <3>1. Shape(ops) /\ (ops # <<>> => Head(ops) = "drop_link")
        BY Zenon, ShapeBoot, ShapeEmpty
    <3> HIDE DEF ops
    <3>2. Continue(a, ops, id[a], read[a], mem[a])
        BY Zenon, <2>3 DEF ops
    <3>3. /\ \A b \in Actors : b # a => prog'[b] = prog[b]
          /\ H(a)' \in {"end", "drop_link"}
        BY Zenon, <3>1, <3>2, ContinueEffect
    <3>4. \A b \in Actors : b # a => H(b)' = H(b)
        BY Zenon, <3>3 DEF H
    <3>5. H(a) \in {"save", "save_link"}
        BY Zenon, <2>1, AtHead
    <3> QED
        BY Zenon, <1>1, <3>3, <3>4, <3>5 DEF Ordinary, Boot
  <2> QED
      BY Zenon, <1>13, <2>2, <2>3 DEF Upsert
<1>14. CASE Load(a)
  <2>1. H(a) \in ChangeOps /\ (Abort(a) \/ prog' = prog)
      BY Zenon, <1>14, LoadEffect
  <2>2. CASE prog' = prog
    <3>1. \A b \in Actors : H(b)' = H(b)
        BY Zenon, <2>2 DEF H
    <3> QED
        BY Zenon, <1>1, <2>1, <3>1 DEF Ordinary, Boot, ChangeOps
  <2>3. CASE Abort(a)
    <3>1. /\ \A b \in Actors : b # a => prog'[b] = prog[b]
          /\ H(a)' = "end"
        BY Zenon, <2>3, ShapeEmpty, ContinueEffect DEF Abort
    <3>2. \A b \in Actors : b # a => H(b)' = H(b)
        BY Zenon, <3>1 DEF H
    <3> QED
        BY Zenon, <1>1, <2>1, <3>1, <3>2 DEF Ordinary, Boot, ChangeOps
  <2> QED
      BY Zenon, <2>1, <2>2, <2>3
<1> QED
    BY Zenon, <1>4, <1>5, <1>6, <1>7, <1>8, <1>9, <1>10, <1>11, <1>12, <1>13, <1>14

\* A step that moves no program
LEMMA BootStays ==
    ASSUME BootOK, \A b \in Actors : H(b)' = H(b),
           meta' = meta, settings' = settings, crashes' = crashes, ready' = ready,
           vault'.st = vault.st \/ vault'.st # None
    PROVE  BootOK'
<1>1. ASSUME NEW b \in Actors
      PROVE  /\ H(b)' \in Boot => b \notin ready' /\ b # "bg"
             /\ b \notin ready' => H(b)' \in Boot \cup {"end"}
             /\ H(b)' \in {"settings", "vault"} => meta'
    BY Zenon DEF BootOK
<1>2. ready' # {} => vault'.st # None /\ meta'
    BY Zenon DEF BootOK
<1>3. meta' => settings' \/ crashes' > 0 \/ \E b \in Actors : H(b)' = "settings"
    BY Zenon DEF BootOK
<1> QED
    BY Zenon, <1>1, <1>2, <1>3 DEF BootOK

\* A step of bootstrap
BootMoves(a) ==
    /\ H(a) \in Boot /\ H(a)' \in Boot \cup {"end"}
    /\ \A b \in Actors : b # a => H(b)' = H(b)
    /\ crashes' = crashes
    /\ (meta => meta') /\ (settings => settings')
    /\ H(a)' \in {"settings", "vault"} => meta'
    /\ H(a) = "settings" => settings'
    /\ meta' /\ ~meta => H(a)' = "settings"
    /\ vault'.st = vault.st \/ vault'.st # None
    /\ \/ ready' = ready
       \/ ready' = ready \cup Process(a) /\ H(a)' = "end" /\ meta' /\ vault'.st # None

LEMMA BootMove ==
    ASSUME BootOK, NEW a \in Actors, BootMoves(a)
    PROVE  BootOK'
<1>1. a \notin ready /\ a # "bg"
    BY Zenon DEF BootOK, BootMoves
<1>2. \A b \in Process(a) : b = a \/ b = "bg"
    BY Zenon, <1>1, StoreAssumption DEF Process
<1>3. ASSUME NEW b \in Actors
      PROVE  /\ H(b)' \in Boot => b \notin ready' /\ b # "bg"
             /\ b \notin ready' => H(b)' \in Boot \cup {"end"}
             /\ H(b)' \in {"settings", "vault"} => meta'
  <2>1. CASE b = a
      BY Zenon, <1>1, <2>1 DEF BootMoves, Boot
  <2>2. CASE b # a
    <3>1. H(b)' = H(b) /\ (b \in ready' => b \in ready \/ b = "bg") /\ (b \in ready => b \in ready')
        BY Zenon, <1>2, <2>2 DEF BootMoves
    <3> QED
        BY Zenon, <3>1 DEF BootOK, BootMoves
  <2> QED
      BY Zenon, <2>1, <2>2
<1>4. ready' # {} => vault'.st # None /\ meta'
    BY Zenon DEF BootOK, BootMoves
<1>5. meta' => settings' \/ crashes' > 0 \/ \E b \in Actors : H(b)' = "settings"
  <2>1. CASE ~meta
      BY Zenon, <2>1 DEF BootMoves
  <2>2. CASE meta
    <3>1. CASE settings \/ crashes > 0
        BY Zenon, <3>1 DEF BootMoves
    <3>2. CASE \E b \in Actors : H(b) = "settings"
      <4>1. PICK b \in Actors : H(b) = "settings"
          BY Zenon, <3>2
      <4> QED
          BY Zenon, <4>1 DEF BootMoves
    <3> QED
        BY Zenon, <2>2, <3>1, <3>2 DEF BootOK
  <2> QED
      BY Zenon, <2>1, <2>2
<1> QED
    BY Zenon, <1>3, <1>4, <1>5 DEF BootOK

LEMMA BootSteps ==
    ASSUME TypeOK, ProgsOK, BootOK, NEW a \in Actors,
           MigrateVersion(a) \/ MigrateMeta(a) \/ MigrateSettings(a) \/ OpenVault(a)
    PROVE  BootOK'
<1>types. id[a] \in Ids /\ read[a] \in Rows /\ mem[a] \in Rows /\ db[id[a]] \in Rows
    BY Zenon, RowTypes
<1> USE <1>types, Values
<1>1. CASE MigrateVersion(a)
  <2>1. /\ At(a, "version") /\ meta' = meta /\ settings' = settings /\ crashes' = crashes
        /\ ready' = ready /\ vault' = vault
      BY Zenon, <1>1 DEF MigrateVersion, dbVars, files, history
  <2> DEFINE ops == IF meta THEN <<"vault">> ELSE Tail(prog[a])
  <2>2. /\ Shape(ops)
        /\ ops # <<>> => (Head(ops) = "vault" /\ meta) \/ Head(ops) = "meta"
      BY Zenon, <2>1, AtHead, ShapeBoot DEF Follows
  <2> HIDE DEF ops
  <2>3. Continue(a, ops, SomeId, NoRow, NoRow)
      BY Zenon, <1>1 DEF MigrateVersion, ops
  <2>4. /\ \A b \in Actors : b # a => prog'[b] = prog[b]
        /\ H(a)' = "end" \/ (H(a)' = "vault" /\ meta) \/ H(a)' = "meta"
      BY Zenon, <2>2, <2>3, ContinueEffect
  <2>5. \A b \in Actors : b # a => H(b)' = H(b)
      BY Zenon, <2>4 DEF H
  <2>6. BootMoves(a)
      BY <2>1, <2>4, <2>5, AtHead DEF BootMoves, Boot
  <2> QED
      BY Zenon, <2>6, BootMove
<1>2. CASE MigrateMeta(a)
  <2>1. /\ At(a, "meta") /\ meta' = TRUE /\ settings' = settings /\ crashes' = crashes
        /\ ready' = ready /\ vault' = vault
        /\ IF meta THEN Abort(a) ELSE Advance(a)
      BY Zenon, <1>2 DEF MigrateMeta, files, history
  <2>2. /\ H(a) = "meta" /\ Shape(Tail(prog[a])) /\ Tail(prog[a]) # <<>>
        /\ Head(Tail(prog[a])) = "settings"
      BY Zenon, <2>1, AtHead DEF Last, Follows
  <2>3. /\ \A b \in Actors : b # a => prog'[b] = prog[b]
        /\ H(a)' = IF meta THEN "end" ELSE "settings"
    <3>1. CASE meta
        BY Zenon, <2>1, <3>1, ShapeEmpty, ContinueEffect DEF Abort
    <3>2. CASE ~meta
        BY <2>1, <2>2, <3>2, ContinueEffect, Zenon DEF Advance, AdvanceWith
    <3> QED
        BY Zenon, <3>1, <3>2
  <2>4. \A b \in Actors : b # a => H(b)' = H(b)
      BY Zenon, <2>3 DEF H
  <2>5. BootMoves(a)
      BY Zenon, <2>1, <2>2, <2>3, <2>4 DEF BootMoves, Boot
  <2> QED
      BY Zenon, <2>5, BootMove
<1>3. CASE MigrateSettings(a)
  <2>1. /\ At(a, "settings") /\ meta' = meta /\ settings' = TRUE /\ crashes' = crashes
        /\ ready' = ready /\ vault' = vault /\ AdvanceWith(a, mem[a])
      BY Zenon, <1>3 DEF MigrateSettings, files, history, Advance
  <2>2. /\ H(a) = "settings"
        /\ H(a)' = "end" \/ H(a)' = "vault"
        /\ \A b \in Actors : b # a => H(b)' = H(b)
      BY <2>1, AtHead, NextHead DEF Follows
  <2>3. meta
      BY Zenon, <2>2 DEF BootOK
  <2>4. BootMoves(a)
      BY Zenon, <2>1, <2>2, <2>3 DEF BootMoves, Boot
  <2> QED
      BY Zenon, <2>4, BootMove
<1>4. CASE OpenVault(a)
  <2>1. /\ At(a, "vault") /\ meta' = meta /\ settings' = settings /\ crashes' = crashes
        /\ vault' = vault
      BY Zenon, <1>4 DEF OpenVault, dbVars, files
  <2>2. H(a) = "vault" /\ meta
      BY Zenon, <2>1, AtHead DEF BootOK
  <2>3. CASE vault.st # None /\ ready' = ready \cup Process(a) /\ Advance(a)
    <3>1. H(a)' = "end" /\ \A b \in Actors : b # a => H(b)' = H(b)
        BY <2>1, <2>3, NextHead DEF Follows, Advance
    <3>2. BootMoves(a)
        BY Zenon, <2>1, <2>2, <2>3, <3>1 DEF BootMoves, Boot
    <3> QED
        BY Zenon, <3>2, BootMove
  <2>4. CASE UNCHANGED <<ready, prog, local>>
    <3>1. ready' = ready /\ \A b \in Actors : H(b)' = H(b)
        BY Zenon, <2>4 DEF H
    <3> QED
        BY Zenon, <2>1, <3>1, BootStays
  <2> QED
      BY Zenon, <1>4, <2>3, <2>4 DEF OpenVault
<1> QED
    BY Zenon, <1>1, <1>2, <1>3, <1>4

LEMMA BootStep ==
    ASSUME TypeOK, ProgsOK, BootOK, [Next]_vars
    PROVE  BootOK'
<1>1. ASSUME NEW a \in Actors, Start(a)
      PROVE  BootOK'
  <2>1. /\ a # "bg" /\ a \notin ready /\ prog[a] = <<>> /\ prog' = [prog EXCEPT ![a] = Bootstrap]
        /\ meta' = meta /\ settings' = settings /\ crashes' = crashes /\ ready' = ready
        /\ vault' = vault
      BY Zenon, <1>1 DEF Start, dbVars, files, history
  <2>2. H(a) = "end" /\ H(a)' = "version" /\ \A b \in Actors : b # a => H(b)' = H(b)
      BY Zenon, <2>1, ShapeBoot DEF H, TypeOK
  <2>3. ASSUME NEW b \in Actors
        PROVE  /\ H(b)' \in Boot => b \notin ready' /\ b # "bg"
               /\ b \notin ready' => H(b)' \in Boot \cup {"end"}
               /\ H(b)' \in {"settings", "vault"} => meta'
    <3>1. CASE b = a
        BY Zenon, <2>1, <2>2, <3>1 DEF Boot
    <3>2. CASE b # a
        BY Zenon, <2>1, <2>2, <3>2 DEF BootOK
    <3> QED
        BY Zenon, <3>1, <3>2
  <2>4. ready' # {} => vault'.st # None /\ meta'
      BY Zenon, <2>1 DEF BootOK
  <2>5. meta' => settings' \/ crashes' > 0 \/ \E b \in Actors : H(b)' = "settings"
      BY Zenon, <2>1, <2>2 DEF BootOK
  <2> QED
      BY Zenon, <2>3, <2>4, <2>5 DEF BootOK
<1>2. ASSUME NEW a \in Actors, NEW c \in Commands(a), NEW i \in Ids, Begin(a, c, i)
      PROVE  BootOK'
  <2>1. /\ a \in ready /\ prog[a] = <<>> /\ Continue(a, c, i, NoRow, NoRow)
        /\ meta' = meta /\ settings' = settings /\ crashes' = crashes /\ ready' = ready
        /\ vault' = vault
      BY Zenon, <1>2 DEF Begin, dbVars, files
  <2>2. /\ \A b \in Actors : b # a => prog'[b] = prog[b]
        /\ H(a)' \in {"get", "build"}
      BY <2>1, CommandShape, Values, ContinueEffect
  <2>3. H(a) = "end" /\ \A b \in Actors : b # a => H(b)' = H(b)
      BY Zenon, <2>1, <2>2 DEF H
  <2>4. Ordinary(a)
      BY Zenon, <2>1, <2>2, <2>3 DEF Ordinary, Boot
  <2> QED
      BY Zenon, <2>4, BootOrdinary
<1>3. ASSUME NEW a \in Actors, Crash(a)
      PROVE  BootOK'
  <2>1. /\ meta' = meta /\ settings' = settings /\ vault' = vault
        /\ crashes' > 0 /\ ready' = ready \ Process(a)
      BY <1>3, CrashEffect DEF TypeOK
  <2>2. \A b \in Actors : IF b \in Process(a) THEN H(b)' = "end" ELSE H(b)' = H(b)
      BY Zenon, <1>3, CrashEffect, SameOwn
  <2>3. ASSUME NEW b \in Actors
        PROVE  /\ H(b)' \in Boot => b \notin ready' /\ b # "bg"
               /\ b \notin ready' => H(b)' \in Boot \cup {"end"}
               /\ H(b)' \in {"settings", "vault"} => meta'
      BY Zenon, <2>1, <2>2 DEF BootOK, Boot
  <2> QED
      BY Zenon, <2>1, <2>3 DEF BootOK
<1>4. ASSUME NEW a \in Actors, OpenTmp(a) \/ WriteTmp(a)
      PROVE  BootOK'
  <2>1. /\ prog' = prog /\ meta' = meta /\ settings' = settings /\ crashes' = crashes
        /\ ready' = ready
      BY Zenon, <1>4 DEF OpenTmp, WriteTmp, dbVars, local, history
  <2>2. vault' = vault \/ vault'.st # None
      BY <1>4 DEF OpenTmp, WriteTmp, Written, File, None, files
  <2>3. \A b \in Actors : H(b)' = H(b)
      BY Zenon, <2>1 DEF H
  <2> QED
      BY Zenon, <2>1, <2>2, <2>3, BootStays
<1>5. ASSUME NEW a \in Actors, Rename(a)
      PROVE  BootOK'
  <2>1. /\ vp[a] # "idle" /\ meta' = meta /\ settings' = settings /\ crashes' = crashes
        /\ Advance(a) \/ Abort(a)
      BY Zenon, <1>5 DEF Rename, dbVars, history
  <2>2. vault' = vault \/ vault'.st # None
      BY Zenon, <1>5 DEF Rename, files
  <2>3. H(a) \in ChangeOps \cup {"vault"} /\ H(a) = Head(prog[a])
      BY Zenon, <2>1, InVault
  <2>4. /\ H(a)' = "end" \/ (H(a)' \in Ops /\ Follows(H(a), H(a)'))
        /\ \A b \in Actors : b # a => H(b)' = H(b)
      BY Zenon, <2>1, RowTypes, NextHead DEF Advance
  <2>5. CASE H(a) = "vault"
    <3>1. H(a)' = "end" /\ meta
        BY Zenon, <2>4, <2>5 DEF Follows, BootOK
    <3>2. ready' = ready \/ (ready' = ready \cup Process(a) /\ vault'.st # None)
        BY Zenon, <1>5, <2>3, <2>5 DEF Rename
    <3>3. BootMoves(a)
        BY Zenon, <2>1, <2>2, <2>4, <2>5, <3>1, <3>2 DEF BootMoves, Boot
    <3> QED
        BY Zenon, <3>3, BootMove
  <2>6. CASE H(a) # "vault"
    <3>1. ready' = ready
        BY Zenon, <1>5, <2>3, <2>6 DEF Rename
    <3>2. H(a) \notin Boot /\ H(a) # "end" /\ H(a)' \notin Boot
        BY Zenon, <2>3, <2>4, <2>6 DEF ChangeOps, Boot, Follows
    <3>3. Ordinary(a)
        BY Zenon, <2>1, <2>2, <2>4, <3>1, <3>2 DEF Ordinary
    <3> QED
        BY Zenon, <3>3, BootOrdinary
  <2> QED
      BY Zenon, <2>5, <2>6
<1>6. CASE UNCHANGED vars
  <2>1. /\ prog' = prog /\ meta' = meta /\ settings' = settings /\ crashes' = crashes
        /\ ready' = ready /\ vault' = vault
      BY Zenon, <1>6 DEF vars
  <2>2. \A b \in Actors : H(b)' = H(b)
      BY Zenon, <2>1 DEF H
  <2> QED
      BY Zenon, <2>1, <2>2, BootStays
<1>7. ASSUME NEW a \in Actors, Step(a)
      PROVE  BootOK'
  <2>1. CASE MigrateVersion(a) \/ MigrateMeta(a) \/ MigrateSettings(a) \/ OpenVault(a)
      BY Zenon, <2>1, BootSteps
  <2>2. CASE \/ GetProfile(a) \/ GetSettings(a) \/ Build(a) \/ Edit(a) \/ Copy(a) \/ Await(a)
             \/ GetSecret(a) \/ Skip(a) \/ Upsert(a) \/ DeleteRow(a) \/ Load(a)
      BY Zenon, <2>2, OrdinarySteps, BootOrdinary
  <2> QED
      BY Zenon, <1>4, <1>5, <1>7, <2>1, <2>2 DEF Step
<1> QED
    BY Zenon, <1>1, <1>2, <1>3, <1>6, <1>7 DEF Next

\* AppController::bootstrap (crates/core/src/app.rs) and migrate
\* (crates/config/src/db.rs): a process that has started finds a vault and a
\* schema, and the settings unless a process was killed or is still starting,
\* in whatever order the two processes run their statements.
THEOREM StartedFindsAll == Spec => []StartedIsComplete
<1>1. Init => TypeOK /\ ProgsOK /\ BootOK
  <2> SUFFICES ASSUME Init PROVE BootOK
      BY Zenon, TypeInit
  <2>1. /\ ready = {} /\ meta = FALSE /\ \A a \in Actors : H(a) = "end"
      BY Zenon DEF Init, H
  <2> QED
      BY Zenon, <2>1 DEF BootOK, Boot
<1>2. TypeOK /\ ProgsOK /\ BootOK /\ [Next]_vars => TypeOK' /\ ProgsOK' /\ BootOK'
    BY Zenon, TypeStep, BootStep
<1>3. BootOK => StartedIsComplete
  <2> SUFFICES ASSUME BootOK, ready # {}
               PROVE  /\ vault.st # None /\ meta
                      /\ settings \/ crashes > 0 \/ \E a \in Actors \ ready : prog[a] # <<>>
      BY Zenon DEF StartedIsComplete
  <2>1. vault.st # None /\ meta
      BY Zenon DEF BootOK
  <2>2. \A a \in Actors : H(a) = "settings" => a \notin ready /\ prog[a] # <<>>
      BY Zenon DEF BootOK, Boot, H
  <2> QED
      BY Zenon, <2>1, <2>2 DEF BootOK
<1> QED
    BY <1>1, <1>2, <1>3, PTL DEF Spec

-----------------------------------------------------------------------------
(* The vault file.                                                         *)

LEMMA PersistStays ==
    ASSUME PersistOK, vault' = vault, tmp' = tmp, vp' = vp, fd' = fd, buf' = buf, overlap' = overlap
    PROVE  PersistOK'
BY Zenon DEF PersistOK

\* An actor enters the vault.
LEMMA PersistLoads ==
    ASSUME TypeOK, PersistOK, NEW a \in Actors, vault' = vault, tmp' = tmp, fd' = fd,
           vp' = [vp EXCEPT ![a] = "loaded"],
           \A b \in Actors : b # a => buf'[b] = buf[b],
           overlap' = (overlap \/ \E b \in Actors \ {a} : vp[b] # "idle")
    PROVE  PersistOK'
<1>1. vp'[a] = "loaded" /\ \A b \in Actors : b # a => vp'[b] = vp[b]
    BY Zenon DEF TypeOK
<1>2. ~overlap' => ~overlap /\ \A b \in Actors : b # a => vp'[b] = "idle"
    BY <1>1, Zenon
<1>3. vault'.st = None => vault'.has = {}
    BY Zenon DEF PersistOK
<1>4. ASSUME ~overlap'
      PROVE  /\ vault'.st # "partial"
             /\ \A b, c \in Actors : vp'[b] # "idle" /\ vp'[c] # "idle" => b = c
             /\ \A b \in Actors :
                  /\ vp'[b] = "opened" => fd'[b] = "tmp" /\ tmp'.st = "partial"
                  /\ vp'[b] = "written" => fd'[b] = "tmp" /\ tmp' = File(buf'[b])
  <2>1. vault'.st # "partial"
      BY Zenon, <1>2, <1>4 DEF PersistOK
  <2>2. \A b \in Actors : vp'[b] = IF b = a THEN "loaded" ELSE "idle"
      BY Zenon, <1>1, <1>2, <1>4
  <2> QED
      BY <2>1, <2>2
<1> QED
    BY Zenon, <1>3, <1>4 DEF PersistOK, File

LEMMA PersistFiles ==
    ASSUME TypeOK, PersistOK, NEW a \in Actors, OpenTmp(a) \/ WriteTmp(a) \/ Rename(a)
    PROVE  PersistOK'
<1>1. overlap' = overlap
    BY Zenon DEF OpenTmp, WriteTmp, Rename, history
<1>2. vault' = vault \/ vault'.st # None
    BY DEF OpenTmp, WriteTmp, Rename, Written, File, None, files
<1>3. vault'.st = None => vault'.has = {}
    BY Zenon, <1>2 DEF PersistOK
<1>4. \A b \in Actors : b # a => vp'[b] = vp[b]
    BY Zenon DEF OpenTmp, WriteTmp, Rename, TypeOK
<1>5. ASSUME ~overlap
      PROVE  /\ vault'.st # "partial"
             /\ \A b \in Actors : b # a => vp'[b] = "idle"
             /\ vp'[a] = "opened" => fd'[a] = "tmp" /\ tmp'.st = "partial"
             /\ vp'[a] = "written" => fd'[a] = "tmp" /\ tmp' = File(buf'[a])
  <2>1. vault.st # "partial"
      BY Zenon, <1>5 DEF PersistOK
  <2>2. vp[a] # "idle"
      BY Zenon DEF OpenTmp, WriteTmp, Rename
  <2>3. \A b \in Actors : b # a => vp'[b] = "idle"
      BY Zenon, <1>4, <1>5, <2>2 DEF PersistOK
  <2>4. CASE OpenTmp(a)
      BY Zenon, <2>1, <2>3, <2>4 DEF OpenTmp, TypeOK
  <2>5. CASE WriteTmp(a)
    <3>1. vp[a] = "opened" /\ vp'[a] = "written" /\ buf' = buf /\ fd' = fd
        BY Zenon, <2>5 DEF WriteTmp, TypeOK
    <3>2. fd[a] = "tmp" /\ tmp.st = "partial"
        BY Zenon, <1>5, <3>1 DEF PersistOK
    <3>3. tmp' \in Written(tmp, buf[a]) /\ vault' = vault
        BY Zenon, <2>5, <3>2 DEF WriteTmp, None
    <3>4. tmp' = File(buf[a])
        BY Zenon, <3>2, <3>3 DEF Written
    <3> QED
        BY Zenon, <2>1, <2>3, <3>1, <3>2, <3>3, <3>4
  <2>6. CASE Rename(a)
    <3>1. vp[a] = "written" /\ vp'[a] = "idle"
        BY Zenon, <2>6 DEF Rename, TypeOK
    <3>2. tmp = File(buf[a]) /\ tmp.st = "whole"
        BY <1>5, <3>1 DEF PersistOK, File
    <3>3. vault' = tmp
        BY Zenon, <2>6, <3>2 DEF Rename, None
    <3> QED
        BY Zenon, <2>3, <3>1, <3>2, <3>3
  <2> QED
      BY Zenon, <2>4, <2>5, <2>6
<1>6. ASSUME ~overlap'
      PROVE  /\ vault'.st # "partial"
             /\ \A b, c \in Actors : vp'[b] # "idle" /\ vp'[c] # "idle" => b = c
             /\ \A b \in Actors :
                  /\ vp'[b] = "opened" => fd'[b] = "tmp" /\ tmp'.st = "partial"
                  /\ vp'[b] = "written" => fd'[b] = "tmp" /\ tmp' = File(buf'[b])
    BY Zenon, <1>1, <1>5, <1>6
<1> QED
    BY Zenon, <1>3, <1>6 DEF PersistOK, File

LEMMA PersistStep ==
    ASSUME TypeOK, ProgsOK, PersistOK, [Next]_vars
    PROVE  PersistOK'
<1>1. ASSUME NEW a \in Actors, Crash(a)
      PROVE  PersistOK'
  <2>1. /\ vault' = vault /\ tmp' = tmp /\ overlap' = overlap
        /\ \A b \in Actors : vp'[b] = "idle" \/ (vp'[b] = vp[b] /\ fd'[b] = fd[b] /\ buf'[b] = buf[b])
      BY Zenon, <1>1, CrashEffect DEF Same
  <2>2. vault'.st = None => vault'.has = {}
      BY Zenon, <2>1 DEF PersistOK
  <2>3. ASSUME ~overlap'
        PROVE  /\ vault'.st # "partial"
               /\ \A b, c \in Actors : vp'[b] # "idle" /\ vp'[c] # "idle" => b = c
               /\ \A b \in Actors :
                    /\ vp'[b] = "opened" => fd'[b] = "tmp" /\ tmp'.st = "partial"
                    /\ vp'[b] = "written" => fd'[b] = "tmp" /\ tmp' = File(buf'[b])
      BY ZenonT(30), <2>1, <2>3 DEF PersistOK
  <2> QED
      BY Zenon, <2>2, <2>3 DEF PersistOK, File
<1>2. ASSUME NEW a \in Actors, Load(a)
      PROVE  PersistOK'
  <2>1. vault' = vault /\ tmp' = tmp /\ fd' = fd
      BY Zenon, <1>2 DEF Load, files
  <2>2. CASE vp' = vp /\ buf' = buf /\ overlap' = overlap
      BY Zenon, <2>1, <2>2, PersistStays
  <2>3. CASE /\ vp' = [vp EXCEPT ![a] = "loaded"]
             /\ overlap' = (overlap \/ \E b \in Actors \ {a} : vp[b] # "idle")
             /\ \A b \in Actors : b # a => buf'[b] = buf[b]
      BY <2>1, <2>3, PersistLoads, Zenon
  <2>4. \A b \in Actors : b # a => buf'[b] = buf[b]
    <3>1. \/ buf' = buf
          \/ buf' = [buf EXCEPT ![a] = vault.has \cup {Fresh}]
          \/ buf' = [buf EXCEPT ![a] = vault.has \cup {mem[a].pw}]
          \/ buf' = [buf EXCEPT ![a] = vault.has \ {mem[a].link}]
        BY Zenon, <1>2, LoadEffect
    <3> QED
        BY Zenon, <3>1 DEF TypeOK
  <2> QED
      BY Zenon, <1>2, <2>2, <2>3, <2>4, LoadEffect
<1>3. ASSUME NEW a \in Actors, OpenVault(a)
      PROVE  PersistOK'
  <2>1. vault' = vault /\ tmp' = tmp /\ fd' = fd
      BY Zenon, <1>3 DEF OpenVault, files
  <2>2. CASE vp' = vp /\ buf' = buf /\ overlap' = overlap
      BY Zenon, <2>1, <2>2, PersistStays
  <2>3. CASE /\ vp' = [vp EXCEPT ![a] = "loaded"] /\ buf' = [buf EXCEPT ![a] = {}]
             /\ overlap' = (overlap \/ \E b \in Actors \ {a} : vp[b] # "idle")
    <3>1. \A b \in Actors : b # a => buf'[b] = buf[b]
        BY Zenon, <2>3 DEF TypeOK
    <3> QED
        BY <2>1, <2>3, <3>1, PersistLoads, Zenon
  <2> QED
      BY Zenon, <1>3, <2>2, <2>3 DEF OpenVault
<1>4. ASSUME NEW a \in Actors,
             \/ Start(a) \/ MigrateVersion(a) \/ GetProfile(a) \/ GetSettings(a) \/ Build(a)
             \/ Edit(a) \/ Copy(a) \/ Await(a) \/ GetSecret(a) \/ Skip(a)
      PROVE  PersistOK'
  <2>1. UNCHANGED <<dbVars, files, ready, vaultVars, used, history>>
      BY Zenon, <1>4, QuietSteps
  <2> QED
      BY Zenon, <2>1, PersistStays DEF files, vaultVars, history
<1>5. ASSUME NEW a \in Actors,
             \/ MigrateMeta(a) \/ MigrateSettings(a) \/ Upsert(a) \/ DeleteRow(a)
             \/ \E c \in Commands(a), i \in Ids : Begin(a, c, i)
      PROVE  PersistOK'
  <2>1. /\ vault' = vault /\ tmp' = tmp /\ vp' = vp /\ fd' = fd /\ buf' = buf
        /\ overlap' = overlap
      BY Zenon, <1>5 DEF MigrateMeta, MigrateSettings, Upsert, DeleteRow, Begin, files, vaultVars, history
  <2> QED
      BY Zenon, <2>1, PersistStays
<1>6. CASE UNCHANGED vars
    BY Zenon, <1>6, PersistStays DEF vars
<1> QED
    BY Zenon, <1>1, <1>2, <1>3, <1>4, <1>5, <1>6, PersistFiles DEF Next, Step

LEMMA PersistInit == Init => PersistOK
BY Zenon, Values DEF Init, PersistOK, None

\* EncryptedFileStore::persist (crates/secrets/src/encrypted_file.rs):
\* wherever the two processes are killed, the vault can be read as long as no
\* two changes of it overlapped, for any number of profiles, references and
\* commands.
THEOREM VaultStaysWhole == Spec => []VaultIsWhole
<1>1. Init => TypeOK /\ ProgsOK /\ PersistOK
    BY Zenon, TypeInit, PersistInit
<1>2. TypeOK /\ ProgsOK /\ PersistOK /\ [Next]_vars => TypeOK' /\ ProgsOK' /\ PersistOK'
    BY Zenon, TypeStep, PersistStep
<1>3. PersistOK => VaultIsWhole
    BY Zenon DEF PersistOK, VaultIsWhole
<1> QED
    BY <1>1, <1>2, <1>3, PTL DEF Spec

-----------------------------------------------------------------------------
(* The kinds of steps, as far as rows and secrets are concerned.           *)

Kept == db' = db /\ vault' = vault /\ used' = used /\ overlap' = overlap /\ raced' = raced

\* b has no profile in memory afterwards.
Ends(b) == H(b)' \in Without /\ vp'[b] = "idle" /\ (H(b)' = "build" => read'[b] = NoRow)

Alone(a) == \A b \in Actors : b # a => Same(b)

Drops == Kept /\ \A b \in Actors : Same(b) \/ Ends(b)

\* a keeps its profile and what belongs to it.
Keeps(a) ==
    /\ H(a) \notin Without /\ H(a)' \notin Without
    /\ id'[a] = id[a] /\ read'[a] = read[a] /\ mem'[a].live = mem[a].live
    /\ Own(a)' \subseteq Own(a)

GoesOn(a) ==
    /\ Alone(a) /\ Kept /\ Keeps(a)
    /\ H(a)' \in {"put_link", "save_link", "drop_link"} => H(a) = "save_link"
    /\ vp[a] = "idle" /\ vp'[a] = "idle"

Gets(a) ==
    /\ Alone(a) /\ Kept
    /\ id'[a] = id[a] /\ db[id[a]].live
    /\ read'[a] = db[id[a]] /\ mem'[a] = db[id[a]]
    /\ H(a)' \in {"edit", "delete", "copy", "read_link", "save", "set_pw", "read_settings"}
    /\ vp'[a] = "idle"

Makes(a) ==
    /\ Alone(a) /\ Kept
    /\ ~db[id'[a]].live /\ \A b \in Actors : b # a => H(b) = "end" \/ id[b] # id'[a]
    /\ read'[a] = NoRow /\ mem'[a].live /\ Own(a)' = {}
    /\ H(a)' \in {"put_pw", "put_link", "save", "clone_pw"}
    /\ vp'[a] = "idle"

Saves(a) ==
    /\ Alone(a) /\ vault' = vault /\ used' = used /\ overlap' = overlap
    /\ H(a) \in {"save", "save_link"} /\ vp[a] = "idle"
    /\ db' = [db EXCEPT ![id[a]] = mem[a]]
    /\ raced' = (raced \/ db[id[a]] # read[a])
    /\ H(a)' \in {"end", "get"} /\ vp'[a] = "idle"

Deletes(a) ==
    /\ Alone(a) /\ vault' = vault /\ used' = used /\ overlap' = overlap /\ raced' = raced
    /\ H(a) = "delete" /\ vp[a] = "idle" /\ vp'[a] = "idle"
    /\ db' = [db EXCEPT ![id[a]] = NoRow]
    /\ H(a)' = "end" \/ (H(a)' = "drop_link" /\ Keeps(a))

\* new: the reference that is given out, if any
Loads(a) ==
    /\ Alone(a) /\ db' = db /\ vault' = vault /\ raced' = raced
    /\ overlap' = (overlap \/ \E b \in Actors \ {a} : vp[b] # "idle")
    /\ vp[a] = "idle" /\ vp'[a] = "loaded"
    /\ H(a)' = H(a) /\ id'[a] = id[a] /\ read'[a] = read[a] /\ mem'[a].live = mem[a].live
    /\ IF H(a) = "drop_link" THEN mem'[a].link = mem[a].link /\ vault.has \ {mem[a].link} \subseteq buf'[a]
       ELSE vault.has \subseteq buf'[a]
    /\ \E new \in SUBSET Refs :
         /\ new \cap used = {} /\ used' = used \cup new
         /\ new \subseteq buf'[a]
         /\ Own(a)' \subseteq Own(a) \cup new

Persists(a) ==
    /\ Alone(a) /\ db' = db /\ used' = used /\ raced' = raced /\ overlap' = overlap
    /\ ~overlap => vault' = vault
    /\ vp[a] # "idle" /\ vp'[a] # "idle"
    /\ prog'[a] = prog[a] /\ id'[a] = id[a] /\ read'[a] = read[a] /\ mem'[a] = mem[a]
    /\ buf'[a] = buf[a]

Renames(a) ==
    /\ Alone(a) /\ db' = db /\ used' = used /\ raced' = raced /\ overlap' = overlap
    /\ ~overlap => vault'.has = buf[a]
    /\ vp[a] # "idle" /\ vp'[a] = "idle"
    /\ \/ H(a)' = "end"
       \/ /\ Keeps(a)
          /\ H(a) # "drop_link" /\ H(a)' \notin {"put_link", "drop_link"}
          /\ H(a)' = "save_link" => H(a) = "put_link"

\* Where the rest of the program leads
LEMMA AdvanceEffect ==
    ASSUME TypeOK, ProgsOK, NEW a \in Actors, NEW op, At(a, op) \/ (vp[a] # "idle" /\ H(a) = op),
           NEW m \in Rows, AdvanceWith(a, m)
    PROVE  /\ \/ H(a)' = "end"
              \/ /\ H(a)' \in Ops /\ Follows(op, H(a)')
                 /\ id'[a] = id[a] /\ read'[a] = read[a] /\ mem'[a] = m
           /\ \A b \in Actors : b # a =>
                prog'[b] = prog[b] /\ id'[b] = id[b] /\ read'[b] = read[b] /\ mem'[b] = mem[b]
<1>1. /\ Shape(Tail(prog[a]))
      /\ Tail(prog[a]) # <<>> => Head(Tail(prog[a])) \in Ops /\ Follows(op, Head(Tail(prog[a])))
    BY Zenon, AtHead, InVault
<1> DEFINE ops == Tail(prog[a])
<1>2. id[a] \in Ids /\ read[a] \in Rows /\ Continue(a, ops, id[a], read[a], m)
    BY Zenon, RowTypes DEF AdvanceWith
<1>3. Shape(ops)
    BY Zenon, <1>1
<1> HIDE DEF ops
<1>4. /\ \A b \in Actors : b # a =>
           prog'[b] = prog[b] /\ id'[b] = id[b] /\ read'[b] = read[b] /\ mem'[b] = mem[b]
      /\ H(a)' = IF ops = <<>> THEN "end" ELSE Head(ops)
      /\ ops # <<>> => id'[a] = id[a] /\ read'[a] = read[a] /\ mem'[a] = m
    BY <1>2, <1>3, ContinueEffect
<1> QED
    BY Zenon, <1>1, <1>4 DEF ops

LEMMA AbortEffect ==
    ASSUME TypeOK, NEW a \in Actors, Abort(a)
    PROVE  /\ H(a)' = "end"
           /\ \A b \in Actors : b # a =>
                prog'[b] = prog[b] /\ id'[b] = id[b] /\ read'[b] = read[b] /\ mem'[b] = mem[b]
BY Zenon, ShapeEmpty, Values, ContinueEffect DEF Abort

LEMMA EndDrops ==
    ASSUME Kept, NEW a \in Actors, Alone(a), H(a)' \in Without, H(a)' # "build", vp'[a] = "idle"
    PROVE  Drops
BY Zenon DEF Drops, Ends, Alone

\* What the steps that only go on with the program leave alone
LEMMA PlainKept ==
    ASSUME UNCHANGED <<dbVars, files, ready, vaultVars, used, history>>,
           NEW a \in Actors, vp[a] = "idle"
    PROVE  /\ Kept /\ vp'[a] = "idle"
           /\ (\A b \in Actors : b # a =>
                prog'[b] = prog[b] /\ id'[b] = id[b] /\ read'[b] = read[b] /\ mem'[b] = mem[b])
              => Alone(a)
BY Zenon DEF dbVars, files, vaultVars, history, Kept, Alone, Same

\* The steps of bootstrap and of reading
LEMMA ReadingKinds ==
    ASSUME TypeOK, ProgsOK, NEW a \in Actors,
           MigrateVersion(a) \/ MigrateMeta(a) \/ MigrateSettings(a) \/ GetSettings(a) \/ GetProfile(a)
    PROVE  Drops \/ Gets(a)
<1>types. id[a] \in Ids /\ read[a] \in Rows /\ mem[a] \in Rows /\ db[id[a]] \in Rows
    BY Zenon, RowTypes
<1> USE <1>types, Values
<1>0. ASSUME NEW op, At(a, op), Kept, vaultVars' = vaultVars, Advance(a) \/ Abort(a),
             \A y : Follows(op, y) => y \in Boot
      PROVE  Drops
  <2>1. /\ H(a)' \in Boot \cup {"end"}
        /\ \A b \in Actors : b # a =>
             prog'[b] = prog[b] /\ id'[b] = id[b] /\ read'[b] = read[b] /\ mem'[b] = mem[b]
      BY Zenon, <1>0, AdvanceEffect, AbortEffect DEF Advance
  <2>2. Alone(a) /\ vp'[a] = "idle"
      BY Zenon, <1>0, <2>1, AtHead DEF vaultVars, Alone, Same
  <2> QED
      BY Zenon, <1>0, <2>1, <2>2, EndDrops DEF Without, Boot
<1>1. CASE MigrateVersion(a)
  <2>1. /\ At(a, "version") /\ UNCHANGED <<dbVars, files, ready, vaultVars, used, history>>
      BY Zenon, <1>1 DEF MigrateVersion
  <2> DEFINE ops == IF meta THEN <<"vault">> ELSE Tail(prog[a])
  <2>2. /\ Shape(ops) /\ vp[a] = "idle"
        /\ ops # <<>> => Head(ops) = "vault" \/ Head(ops) = "meta"
      BY Zenon, <2>1, AtHead, ShapeBoot DEF Follows
  <2> HIDE DEF ops
  <2>3. Continue(a, ops, SomeId, NoRow, NoRow)
      BY Zenon, <1>1 DEF MigrateVersion, ops
  <2>4. /\ \A b \in Actors : b # a =>
             prog'[b] = prog[b] /\ id'[b] = id[b] /\ read'[b] = read[b] /\ mem'[b] = mem[b]
        /\ H(a)' \in {"end", "vault", "meta"}
      BY Zenon, <2>2, <2>3, ContinueEffect
  <2>5. Kept /\ vp'[a] = "idle" /\ Alone(a)
      BY Zenon, <2>1, <2>2, <2>4, PlainKept
  <2> QED
      BY Zenon, <2>4, <2>5, EndDrops DEF Without, Boot
<1>2. CASE MigrateMeta(a)
  <2>1. Kept /\ vaultVars' = vaultVars /\ At(a, "meta") /\ (Advance(a) \/ Abort(a))
      BY Zenon, <1>2 DEF MigrateMeta, Kept, files, history
  <2> QED
      BY Zenon, <1>0, <2>1 DEF Follows, Boot
<1>3. CASE MigrateSettings(a)
  <2>1. Kept /\ vaultVars' = vaultVars /\ At(a, "settings") /\ (Advance(a) \/ Abort(a))
      BY Zenon, <1>3 DEF MigrateSettings, Kept, files, history
  <2> QED
      BY Zenon, <1>0, <2>1 DEF Follows, Boot
<1>4. CASE GetSettings(a)
  <2>1. At(a, "read_settings") /\ (Advance(a) \/ Abort(a)) /\ UNCHANGED <<dbVars, files, ready, vaultVars, used, history>>
      BY Zenon, <1>4 DEF GetSettings
  <2>2. Kept /\ vaultVars' = vaultVars
      BY Zenon, <2>1 DEF Kept, dbVars, files, history
  <2> QED
      BY Zenon, <1>0, <2>1, <2>2 DEF Follows, Boot
<1>5. CASE GetProfile(a)
  <2>1. At(a, "get") /\ UNCHANGED <<dbVars, files, ready, vaultVars, used, history>>
      BY Zenon, <1>5 DEF GetProfile
  <2>2. CASE db[id[a]].live
    <3> DEFINE row == db[id[a]]
    <3>1. Continue(a, Tail(prog[a]), id[a], row, row) /\ row \in Rows
        BY Zenon, <1>5, <2>2 DEF GetProfile
    <3> HIDE DEF row
    <3>2. /\ Shape(Tail(prog[a])) /\ vp[a] = "idle" /\ Tail(prog[a]) # <<>>
          /\ Head(Tail(prog[a])) \in {"edit", "delete", "copy", "read_link", "save", "set_pw",
                                      "read_settings"}
        BY Zenon, <2>1, AtHead DEF Follows, Last
    <3>3. /\ \A b \in Actors : b # a =>
               prog'[b] = prog[b] /\ id'[b] = id[b] /\ read'[b] = read[b] /\ mem'[b] = mem[b]
          /\ H(a)' = Head(Tail(prog[a])) /\ id'[a] = id[a] /\ read'[a] = row /\ mem'[a] = row
      <4> DEFINE ops == Tail(prog[a])
      <4>1. Shape(ops) /\ ops # <<>> /\ id[a] \in Ids /\ Continue(a, ops, id[a], row, row)
          BY Zenon, <3>1, <3>2
      <4> HIDE DEF ops
      <4>2. /\ \A b \in Actors : b # a =>
                 prog'[b] = prog[b] /\ id'[b] = id[b] /\ read'[b] = read[b] /\ mem'[b] = mem[b]
            /\ H(a)' = Head(ops) /\ id'[a] = id[a] /\ read'[a] = row /\ mem'[a] = row
          BY <3>1, <4>1, ContinueEffect
      <4> QED
          BY Zenon, <4>2 DEF ops
    <3>4. Kept /\ vp'[a] = "idle" /\ Alone(a)
        BY Zenon, <2>1, <3>2, <3>3, PlainKept
    <3> QED
        BY Zenon, <2>2, <3>2, <3>3, <3>4 DEF Gets, row
  <2>3. CASE ~db[id[a]].live
    <3>1. Abort(a) /\ vp[a] = "idle"
        BY Zenon, <1>5, <2>1, <2>3, AtHead DEF GetProfile
    <3>2. Kept /\ vp'[a] = "idle" /\ Alone(a) /\ H(a)' = "end"
        BY Zenon, <2>1, <3>1, AbortEffect, PlainKept
    <3> QED
        BY Zenon, <3>2, EndDrops DEF Without
  <2> QED
      BY Zenon, <2>2, <2>3
<1> QED
    BY Zenon, <1>1, <1>2, <1>3, <1>4, <1>5

\* A profile that is changed in memory
LEMMA EditingKinds ==
    ASSUME TypeOK, ProgsOK, NEW a \in Actors,
           Edit(a) \/ Await(a) \/ GetSecret(a) \/ Skip(a)
    PROVE  Drops \/ GoesOn(a)
<1>types. id[a] \in Ids /\ read[a] \in Rows /\ mem[a] \in Rows /\ db[id[a]] \in Rows
    BY Zenon, RowTypes
<1> USE <1>types, Values
<1>1. UNCHANGED <<dbVars, files, ready, vaultVars, used, history>>
    BY Zenon, QuietSteps
<1>2. ASSUME vp[a] = "idle", Abort(a)
      PROVE  Drops
  <2>1. Kept /\ vp'[a] = "idle" /\ Alone(a) /\ H(a)' = "end"
      BY Zenon, <1>1, <1>2, AbortEffect, PlainKept
  <2> QED
      BY Zenon, <2>1, EndDrops DEF Without
<1>3. ASSUME NEW op, At(a, op), NEW m \in Rows, AdvanceWith(a, m),
             m.pw = mem[a].pw, m.link = mem[a].link, m.live = mem[a].live,
             op \in {"edit", "await", "read_link", "clone_pw", "clone_link"},
             op = "clone_pw" => m.pw = None, op = "clone_link" => m.link = None
      PROVE  Drops \/ GoesOn(a)
  <2>1. H(a) = op /\ vp[a] = "idle"
      BY Zenon, <1>3, AtHead
  <2>2. /\ \/ H(a)' = "end"
           \/ /\ H(a)' \in Ops /\ Follows(op, H(a)')
              /\ id'[a] = id[a] /\ read'[a] = read[a] /\ mem'[a] = m
        /\ \A b \in Actors : b # a =>
             prog'[b] = prog[b] /\ id'[b] = id[b] /\ read'[b] = read[b] /\ mem'[b] = mem[b]
      BY Zenon, <1>3, AdvanceEffect
  <2>3. Kept /\ vp'[a] = "idle" /\ Alone(a)
      BY Zenon, <1>1, <2>1, <2>2, PlainKept
  <2>4. CASE H(a)' = "end"
      BY Zenon, <2>3, <2>4, EndDrops DEF Without
  <2>5. CASE /\ H(a)' \in Ops /\ Follows(op, H(a)')
             /\ id'[a] = id[a] /\ read'[a] = read[a] /\ mem'[a] = m
    <3>1. /\ op = "clone_pw" => H(a)' = "clone_link"
          /\ op = "read_link" => H(a)' = "await"
          /\ op \in {"edit", "await", "clone_link"} => H(a)' = "save"
        BY Zenon, <2>5 DEF Follows
    <3>2. RefsOf(m) = RefsOf(mem[a])
        BY Zenon, <1>3 DEF RefsOf
    <3>3. Own(a) = OwnOf(op, "idle", mem[a]) /\ Own(a)' = OwnOf(H(a)', "idle", m)
        BY Zenon, <2>1, <2>3, <2>5 DEF Own
    <3>4. Own(a)' \subseteq Own(a)
      <4>1. CASE op = "clone_pw"
        <5>1. OwnOf(H(a)', "idle", m) = {m.pw} \ {None}
            BY Zenon, <3>1, <4>1, OwnCases
        <5> QED
            BY Zenon, <1>3, <3>3, <4>1, <5>1
      <4>2. CASE op = "clone_link"
        <5>1. OwnOf(op, "idle", mem[a]) = {mem[a].pw} \ {None}
            BY Zenon, <4>2, OwnCases
        <5>2. OwnOf(H(a)', "idle", m) = RefsOf(m)
            BY <3>1, <4>2, OwnCases DEF Without, Boot
        <5> QED
            BY <1>3, <3>3, <4>2, <5>1, <5>2 DEF RefsOf
      <4>3. CASE op \in {"edit", "await", "read_link"}
        <5>1. OwnOf(op, "idle", mem[a]) = RefsOf(mem[a])
            BY <4>3, OwnCases DEF Without, Boot
        <5>2. OwnOf(H(a)', "idle", m) = RefsOf(m)
            BY <3>1, <4>3, OwnCases DEF Without, Boot
        <5> QED
            BY Zenon, <3>2, <3>3, <5>1, <5>2
      <4> QED
          BY Zenon, <1>3, <4>1, <4>2, <4>3
    <3>5. /\ H(a) \notin Without /\ H(a)' \notin Without
          /\ H(a)' \notin {"put_link", "save_link", "drop_link"}
        BY Zenon, <1>3, <2>1, <3>1 DEF Without, Boot
    <3>6. Keeps(a)
        BY Zenon, <1>3, <2>5, <3>4, <3>5 DEF Keeps
    <3> QED
        BY Zenon, <2>1, <2>3, <3>5, <3>6 DEF GoesOn
  <2> QED
      BY Zenon, <2>2, <2>4, <2>5
<1>4. CASE Edit(a)
  <2>1. At(a, "edit")
      BY <1>4, Zenon DEF Edit
  <2>2. vp[a] = "idle"
      BY Zenon, <2>1, AtHead
  <2> QED
      BY <1>2, <1>3, <1>4, <2>1, <2>2, EditEffect
<1>5. CASE Await(a)
  <2>1. At(a, "await") /\ vp[a] = "idle"
      BY Zenon, <1>5, AtHead DEF Await
  <2> DEFINE m == [mem[a] EXCEPT !.zones = TRUE]
  <2>2. m \in Rows /\ m.pw = mem[a].pw /\ m.link = mem[a].link /\ m.live = mem[a].live
      BY Zenon, RowZones
  <2>3. AdvanceWith(a, m) \/ Abort(a)
      BY Zenon, <1>5 DEF Await
  <2> HIDE DEF m
  <2> QED
      BY Zenon, <1>2, <1>3, <2>1, <2>2, <2>3
<1>6. CASE GetSecret(a)
  <2>1. At(a, "read_link") /\ vp[a] = "idle" /\ (AdvanceWith(a, mem[a]) \/ Abort(a))
      BY Zenon, <1>6, AtHead DEF GetSecret, Advance
  <2> QED
      BY <1>2, <1>3, <2>1
<1>7. CASE Skip(a)
  <2>1. AdvanceWith(a, mem[a])
      BY Zenon, <1>7 DEF Skip, Advance
  <2>2. CASE At(a, "clone_pw")
    <3>1. mem[a].pw = None
        BY Zenon, <1>7, <2>2 DEF Skip, Source
    <3> QED
        BY <1>3, <2>1, <2>2, <3>1
  <2>3. CASE At(a, "clone_link")
    <3>1. ~At(a, "clone_pw")
        BY Zenon, <2>3 DEF At
    <3>2. mem[a].link = None
        BY Zenon, <1>7, <3>1 DEF Skip, Source
    <3> QED
        BY <1>3, <2>1, <2>3, <3>2
  <2> QED
      BY Zenon, <1>7, <2>2, <2>3 DEF Skip, Cloning
<1> QED
    BY Zenon, <1>4, <1>5, <1>6, <1>7

\* A profile that is made
LEMMA MakingKinds ==
    ASSUME TypeOK, ProgsOK, RowsOK, NewOK, NEW a \in Actors, Build(a) \/ Copy(a)
    PROVE  Drops \/ Makes(a)
<1>1. UNCHANGED <<dbVars, files, ready, vaultVars, used, history>>
    BY Zenon DEF Build, Copy
<1>2. ASSUME NEW i, NewId(a, i)
      PROVE  ~db[i].live /\ \A b \in Actors : b # a => H(b) = "end" \/ id[b] # i
    BY Zenon, <1>2 DEF NewId, H
<1>3. CASE Build(a)
  <2> DEFINE m == Row(CHOOSE h \in Hosts : TRUE, None, None, FALSE)
  <2>1. /\ At(a, "build") /\ H(a) = "build" /\ vp[a] = "idle" /\ read[a] = NoRow
        /\ (NewId(a, id[a]) /\ AdvanceWith(a, m)) \/ Abort(a)
        /\ m \in Rows /\ m.pw = None /\ m.link = None /\ m.live
      BY <1>3, AtHead, RowNew, Zenon DEF Build, NewOK
  <2> HIDE DEF m
  <2>2. CASE Abort(a)
    <3>1. Kept /\ vp'[a] = "idle" /\ Alone(a) /\ H(a)' = "end"
        BY Zenon, <1>1, <2>1, <2>2, AbortEffect, PlainKept
    <3> QED
        BY Zenon, <3>1, EndDrops DEF Without
  <2>3. CASE NewId(a, id[a]) /\ AdvanceWith(a, m)
    <3>1. /\ \/ H(a)' = "end"
             \/ /\ H(a)' \in Ops /\ Follows("build", H(a)')
                /\ id'[a] = id[a] /\ read'[a] = read[a] /\ mem'[a] = m
          /\ \A b \in Actors : b # a =>
               prog'[b] = prog[b] /\ id'[b] = id[b] /\ read'[b] = read[b] /\ mem'[b] = mem[b]
        BY Zenon, <2>1, <2>3, AdvanceEffect
    <3>2. Kept /\ vp'[a] = "idle" /\ Alone(a)
        BY Zenon, <1>1, <2>1, <3>1, PlainKept
    <3>3. CASE H(a)' = "end"
        BY Zenon, <3>2, <3>3, EndDrops DEF Without
    <3>4. CASE /\ H(a)' \in Ops /\ Follows("build", H(a)')
               /\ id'[a] = id[a] /\ read'[a] = read[a] /\ mem'[a] = m
      <4>1. H(a)' \in {"put_pw", "put_link", "save"}
          BY Zenon, <3>4 DEF Follows
      <4>2. Own(a)' = OwnOf(H(a)', vp'[a], m) /\ RefsOf(m) = {}
          BY Zenon, <2>1, <3>4 DEF Own, RefsOf
      <4>3. Own(a)' = {}
          BY <4>1, <4>2, OwnCases DEF Without, Boot
      <4> QED
          BY Zenon, <1>2, <2>1, <2>3, <3>2, <3>4, <4>1, <4>3 DEF Makes
    <3> QED
        BY Zenon, <3>1, <3>3, <3>4
  <2> QED
      BY Zenon, <2>1, <2>2, <2>3
<1>4. CASE Copy(a)
  <2>1. At(a, "copy") /\ H(a) = "copy" /\ vp[a] = "idle" /\ mem[a].live
      BY <1>4, AtHead DEF Copy, RowsOK, Without, Boot
  <2> DEFINE ops == Tail(prog[a])
  <2>2. PICK i \in Ids : NewId(a, i) /\ Continue(a, ops, i, NoRow, mem[a])
      BY Zenon, <1>4 DEF Copy
  <2>3. Shape(ops) /\ ops # <<>> /\ Head(ops) = "clone_pw"
      BY Zenon, <2>1, AtHead DEF Follows, Last
  <2> HIDE DEF ops
  <2>4. mem[a] \in Rows /\ NoRow \in Rows
      BY Zenon, RowTypes, Values
  <2>5. /\ \A b \in Actors : b # a =>
             prog'[b] = prog[b] /\ id'[b] = id[b] /\ read'[b] = read[b] /\ mem'[b] = mem[b]
        /\ H(a)' = "clone_pw" /\ id'[a] = i /\ read'[a] = NoRow /\ mem'[a] = mem[a]
      BY <2>2, <2>3, <2>4, ContinueEffect
  <2>6. Kept /\ vp'[a] = "idle" /\ Alone(a)
      BY Zenon, <1>1, <2>1, <2>5, PlainKept
  <2>7. Own(a)' = {}
      BY Zenon, <2>5, <2>6, OwnCases DEF Own
  <2> QED
      BY Zenon, <1>2, <2>1, <2>2, <2>5, <2>6, <2>7 DEF Makes
<1> QED
    BY Zenon, <1>3, <1>4

\* A row that is written or deleted
LEMMA WritingKinds ==
    ASSUME TypeOK, ProgsOK, NEW a \in Actors, Upsert(a) \/ DeleteRow(a)
    PROVE  Drops \/ Saves(a) \/ GoesOn(a) \/ Deletes(a)
<1>1. id[a] \in Ids /\ read[a] \in Rows /\ mem[a] \in Rows
    BY Zenon, RowTypes
<1>2. vault' = vault /\ used' = used /\ overlap' = overlap /\ vp' = vp /\ buf' = buf
    BY Zenon DEF Upsert, DeleteRow, files, vaultVars, history
<1>3. CASE Upsert(a)
  <2>1. /\ At(a, "save") \/ At(a, "save_link")
        /\ H(a) \in {"save", "save_link"} /\ vp[a] = "idle" /\ vp'[a] = "idle"
        /\ At(a, "save_link") <=> H(a) = "save_link"
      BY Zenon, <1>2, <1>3, AtHead DEF Upsert, At
  <2>2. CASE /\ db' = [db EXCEPT ![id[a]] = mem[a]] /\ raced' = (raced \/ db[id[a]] # read[a])
             /\ Advance(a)
    <3>1. /\ H(a)' = "end" \/ Follows("save", H(a)') \/ Follows("save_link", H(a)')
          /\ \A b \in Actors : b # a =>
               prog'[b] = prog[b] /\ id'[b] = id[b] /\ read'[b] = read[b] /\ mem'[b] = mem[b]
        BY Zenon, <1>1, <2>1, <2>2, AdvanceEffect DEF Advance
    <3>2. H(a)' \in {"end", "get"}
        BY Zenon, <3>1 DEF Follows
    <3>3. Alone(a)
        BY Zenon, <1>2, <3>1 DEF Alone, Same
    <3> QED
        BY Zenon, <1>2, <2>1, <2>2, <3>2, <3>3 DEF Saves
  <2>3. CASE /\ Continue(a, IF At(a, "save_link") THEN <<"drop_link">> ELSE <<>>, id[a], read[a], mem[a])
             /\ UNCHANGED <<db, raced>>
    <3> DEFINE ops == IF At(a, "save_link") THEN <<"drop_link">> ELSE <<>>
    <3>1. /\ Shape(ops)
          /\ ops # <<>> => Head(ops) = "drop_link" /\ H(a) = "save_link"
        BY Zenon, <2>1, ShapeBoot, ShapeEmpty
    <3> HIDE DEF ops
    <3>2. Continue(a, ops, id[a], read[a], mem[a])
        BY Zenon, <2>3 DEF ops
    <3>3. /\ \A b \in Actors : b # a =>
               prog'[b] = prog[b] /\ id'[b] = id[b] /\ read'[b] = read[b] /\ mem'[b] = mem[b]
          /\ \/ H(a)' = "end"
             \/ /\ H(a)' = "drop_link" /\ H(a) = "save_link"
                /\ id'[a] = id[a] /\ read'[a] = read[a] /\ mem'[a] = mem[a]
        BY <1>1, <3>1, <3>2, ContinueEffect
    <3>4. Alone(a) /\ Kept
        BY Zenon, <1>2, <2>3, <3>3 DEF Alone, Same, Kept
    <3>5. CASE H(a)' = "end"
        BY Zenon, <2>1, <3>4, <3>5, EndDrops DEF Without
    <3>6. CASE /\ H(a)' = "drop_link" /\ H(a) = "save_link"
               /\ id'[a] = id[a] /\ read'[a] = read[a] /\ mem'[a] = mem[a]
      <4>1. Own(a)' = RefsOf(mem[a]) /\ Own(a) = RefsOf(mem[a])
          BY <3>6, OwnCases DEF Own, Without, Boot
      <4>2. Keeps(a)
          BY Zenon, <3>6, <4>1 DEF Keeps, Without, Boot
      <4> QED
          BY Zenon, <2>1, <3>4, <3>6, <4>2 DEF GoesOn
    <3> QED
        BY Zenon, <3>3, <3>5, <3>6
  <2> QED
      BY Zenon, <1>3, <2>2, <2>3 DEF Upsert
<1>4. CASE DeleteRow(a)
  <2>1. /\ At(a, "delete") /\ H(a) = "delete" /\ vp[a] = "idle" /\ vp'[a] = "idle"
        /\ db' = [db EXCEPT ![id[a]] = NoRow] /\ raced' = raced
        /\ AdvanceWith(a, mem[a]) \/ Abort(a)
      BY Zenon, <1>2, <1>4, AtHead DEF DeleteRow, Advance, history
  <2>2. /\ \/ H(a)' = "end"
           \/ /\ H(a)' \in Ops /\ Follows("delete", H(a)')
              /\ id'[a] = id[a] /\ read'[a] = read[a] /\ mem'[a] = mem[a]
        /\ \A b \in Actors : b # a =>
             prog'[b] = prog[b] /\ id'[b] = id[b] /\ read'[b] = read[b] /\ mem'[b] = mem[b]
      BY Zenon, <1>1, <2>1, AdvanceEffect, AbortEffect
  <2>3. Alone(a)
      BY Zenon, <1>2, <2>2 DEF Alone, Same
  <2>4. CASE H(a)' = "end"
      BY Zenon, <1>2, <2>1, <2>3, <2>4 DEF Deletes
  <2>5. CASE /\ H(a)' \in Ops /\ Follows("delete", H(a)')
             /\ id'[a] = id[a] /\ read'[a] = read[a] /\ mem'[a] = mem[a]
    <3>1. H(a)' = "drop_link"
        BY Zenon, <2>5 DEF Follows
    <3>2. Own(a)' = RefsOf(mem[a]) /\ Own(a) = RefsOf(mem[a])
        BY <2>1, <2>5, <3>1, OwnCases DEF Own, Without, Boot
    <3>3. Keeps(a)
        BY Zenon, <2>1, <2>5, <3>1, <3>2 DEF Keeps, Without, Boot
    <3> QED
        BY Zenon, <1>2, <2>1, <2>3, <3>1, <3>3 DEF Deletes
  <2> QED
      BY Zenon, <2>2, <2>4, <2>5
<1> QED
    BY Zenon, <1>3, <1>4

\* Entering the vault
LEMMA LoadingKinds ==
    ASSUME TypeOK, ProgsOK, PersistOK, NEW a \in Actors, Load(a) \/ OpenVault(a)
    PROVE  Drops \/ Loads(a)
<1>1. id[a] \in Ids /\ read[a] \in Rows /\ mem[a] \in Rows
    BY Zenon, RowTypes
<1>2. db' = db /\ vault' = vault /\ raced' = raced
    BY Zenon DEF Load, OpenVault, dbVars, files
<1>3. CASE Load(a)
  <2>1. vp[a] = "idle" /\ H(a) \in ChangeOps
      BY Zenon, <1>3, LoadEffect
  <2>2. CASE Abort(a) /\ vp' = vp /\ used' = used /\ buf' = buf /\ overlap' = overlap
    <3>1. H(a)' = "end" /\ Alone(a) /\ Kept
        BY Zenon, <1>2, <2>2, AbortEffect DEF Alone, Same, Kept
    <3> QED
        BY Zenon, <2>1, <2>2, <3>1, EndDrops DEF Without
  <2>3. CASE ~(Abort(a) /\ vp' = vp /\ used' = used /\ buf' = buf /\ overlap' = overlap)
    <3>1. /\ vp' = [vp EXCEPT ![a] = "loaded"]
          /\ prog' = prog /\ id' = id /\ read' = read
          /\ \A b \in Actors : b # a => mem'[b] = mem[b]
          /\ mem'[a].live = mem[a].live
          /\ overlap' = (overlap \/ \E b \in Actors \ {a} : vp[b] # "idle")
        BY Zenon, <1>3, <2>3, LoadEffect
    <3>2. \/ /\ H(a) \in {"put_pw", "set_pw", "clone_pw", "put_link", "clone_link"}
             /\ Fresh \in Refs /\ Fresh \notin used
             /\ used' = used \cup {Fresh}
             /\ buf' = [buf EXCEPT ![a] = vault.has \cup {Fresh}]
             /\ IF H(a) \in {"put_link", "clone_link"}
                THEN mem'[a].link = Fresh /\ mem'[a].pw = mem[a].pw
                ELSE mem'[a].pw = Fresh /\ mem'[a].link = mem[a].link
          \/ /\ H(a) = "set_pw" /\ used' = used
             /\ mem'[a].pw = mem[a].pw /\ mem'[a].link = mem[a].link
             /\ buf' = [buf EXCEPT ![a] = vault.has \cup {mem[a].pw}]
          \/ /\ H(a) = "drop_link" /\ used' = used
             /\ mem'[a].pw = mem[a].pw /\ mem'[a].link = mem[a].link
             /\ buf' = [buf EXCEPT ![a] = vault.has \ {mem[a].link}]
        BY Zenon, <1>3, <2>3, LoadEffect
    <3>3. vp'[a] = "loaded" /\ \A b \in Actors : b # a => vp'[b] = vp[b]
        BY Zenon, <3>1 DEF TypeOK
    <3>4. \A b \in Actors : b # a => buf'[b] = buf[b]
        BY Zenon, <3>2 DEF TypeOK
    <3>5. Alone(a) /\ H(a)' = H(a)
        BY Zenon, <3>1, <3>3, <3>4 DEF Alone, Same, H
    <3>6. Own(a) = OwnOf(H(a), "idle", mem[a]) /\ Own(a)' = OwnOf(H(a), "loaded", mem'[a])
        BY Zenon, <2>1, <3>3, <3>5 DEF Own
    <3>7. IF H(a) = "drop_link" THEN mem'[a].link = mem[a].link /\ vault.has \ {mem[a].link} \subseteq buf'[a]
          ELSE vault.has \subseteq buf'[a]
        BY <3>2 DEF TypeOK
    <3>8. ASSUME NEW new \in SUBSET Refs, new \cap used = {}, used' = used \cup new,
                 new \subseteq buf'[a], Own(a)' \subseteq Own(a) \cup new
          PROVE  Loads(a)
        BY Zenon, <1>2, <2>1, <3>1, <3>3, <3>5, <3>7, <3>8 DEF Loads
    <3>9. CASE H(a) \in {"set_pw", "drop_link"} /\ used' = used
               /\ mem'[a].pw = mem[a].pw /\ mem'[a].link = mem[a].link
      <4>1. Own(a) = RefsOf(mem[a]) /\ Own(a)' = RefsOf(mem'[a])
          BY <3>6, <3>9, OwnCases DEF Without, Boot
      <4> DEFINE new == {}
      <4>2. /\ new \in SUBSET Refs /\ new \cap used = {} /\ used' = used \cup new
            /\ new \subseteq buf'[a]
          BY Zenon, <3>9
      <4>3. Own(a)' \subseteq Own(a) \cup new
          BY Zenon, <3>9, <4>1 DEF RefsOf
      <4> HIDE DEF new
      <4> QED
          BY Zenon, <3>8, <4>2, <4>3
    <3>10. CASE /\ H(a) \in {"put_pw", "set_pw", "clone_pw", "put_link", "clone_link"}
                /\ Fresh \in Refs /\ Fresh \notin used /\ used' = used \cup {Fresh}
                /\ buf' = [buf EXCEPT ![a] = vault.has \cup {Fresh}]
                /\ IF H(a) \in {"put_link", "clone_link"}
                   THEN mem'[a].link = Fresh /\ mem'[a].pw = mem[a].pw
                   ELSE mem'[a].pw = Fresh /\ mem'[a].link = mem[a].link
      <4>1. {Fresh} \in SUBSET Refs /\ {Fresh} \cap used = {} /\ {Fresh} \subseteq buf'[a]
          BY Zenon, <3>10 DEF TypeOK
      <4>2. Own(a)' \subseteq Own(a) \cup {Fresh}
        <5>1. CASE H(a) = "clone_pw"
          <6>1. Own(a)' = {mem'[a].pw} \ {None}
              BY <3>6, <5>1, OwnCases
          <6> QED
              BY Zenon, <3>10, <5>1, <6>1
        <5>2. CASE H(a) = "clone_link"
          <6>1. Own(a)' = RefsOf(mem'[a]) /\ Own(a) = {mem[a].pw} \ {None}
              BY <3>6, <5>2, OwnCases
          <6> QED
              BY Zenon, <3>10, <5>2, <6>1 DEF RefsOf
        <5>3. CASE H(a) \in {"put_pw", "set_pw", "put_link"}
          <6>1. Own(a) = RefsOf(mem[a]) /\ Own(a)' = RefsOf(mem'[a])
              BY <3>6, <5>3, OwnCases DEF Without, Boot
          <6> QED
              BY Zenon, <3>10, <5>3, <6>1 DEF RefsOf
        <5> QED
            BY Zenon, <3>10, <5>1, <5>2, <5>3
      <4> QED
          BY <3>8, <3>10, <4>1, <4>2, Zenon
    <3> QED
        BY Zenon, <3>2, <3>9, <3>10
  <2> QED
      BY Zenon, <2>2, <2>3
<1>4. CASE OpenVault(a)
  <2>1. At(a, "vault") /\ H(a) = "vault" /\ vp[a] = "idle" /\ used' = used
      BY Zenon, <1>4, AtHead DEF OpenVault
  <2>2. CASE Advance(a) /\ UNCHANGED <<vp, buf, overlap>>
    <3>1. /\ H(a)' = "end" \/ Follows("vault", H(a)')
          /\ \A b \in Actors : b # a =>
               prog'[b] = prog[b] /\ id'[b] = id[b] /\ read'[b] = read[b] /\ mem'[b] = mem[b]
        BY Zenon, <1>1, <2>1, <2>2, AdvanceEffect DEF Advance
    <3>2. H(a)' = "end"
        BY Zenon, <3>1 DEF Follows
    <3>3. Alone(a) /\ Kept /\ vp'[a] = "idle"
        BY Zenon, <1>2, <2>1, <2>2, <3>1 DEF Alone, Same, Kept
    <3> QED
        BY Zenon, <3>2, <3>3, EndDrops DEF Without
  <2>3. CASE /\ vault.st = None
             /\ vp' = [vp EXCEPT ![a] = "loaded"] /\ buf' = [buf EXCEPT ![a] = {}]
             /\ overlap' = (overlap \/ \E b \in Actors \ {a} : vp[b] # "idle")
             /\ UNCHANGED <<ready, prog, local>>
    <3>1. prog' = prog /\ id' = id /\ read' = read /\ mem' = mem
        BY Zenon, <2>3 DEF local
    <3>2. /\ vp'[a] = "loaded" /\ buf'[a] = {}
          /\ \A b \in Actors : b # a => vp'[b] = vp[b] /\ buf'[b] = buf[b]
        BY Zenon, <2>3 DEF TypeOK
    <3>3. Alone(a) /\ H(a)' = H(a)
        BY Zenon, <3>1, <3>2 DEF Alone, Same, H
    <3>4. vault.has = {}
        BY Zenon, <2>3 DEF PersistOK
    <3>5. Own(a)' = {}
        BY Zenon, <2>1, <3>3, OwnCases DEF Own, Without, Boot
    <3> DEFINE new == {}
    <3>6. /\ new \in SUBSET Refs /\ new \cap used = {} /\ used' = used \cup new
          /\ new \subseteq buf'[a] /\ Own(a)' \subseteq Own(a) \cup new
        BY Zenon, <2>1, <3>5
    <3> QED
        BY Zenon, <1>2, <2>1, <2>3, <3>1, <3>2, <3>3, <3>4, <3>6 DEF Loads
  <2> QED
      BY Zenon, <1>4, <2>2, <2>3 DEF OpenVault
<1> QED
    BY Zenon, <1>3, <1>4

\* Persisting
LEMMA PersistingKinds ==
    ASSUME TypeOK, ProgsOK, PersistOK, NEW a \in Actors, OpenTmp(a) \/ WriteTmp(a) \/ Rename(a)
    PROVE  Persists(a) \/ Renames(a)
<1>1. id[a] \in Ids /\ read[a] \in Rows /\ mem[a] \in Rows
    BY Zenon, RowTypes
<1>2. db' = db /\ used' = used /\ raced' = raced /\ overlap' = overlap
    BY Zenon DEF OpenTmp, WriteTmp, Rename, dbVars, history
<1>3. CASE OpenTmp(a) \/ WriteTmp(a)
  <2>1. prog' = prog /\ id' = id /\ read' = read /\ mem' = mem /\ buf' = buf
      BY Zenon, <1>3 DEF OpenTmp, WriteTmp, local
  <2>2. vp[a] # "idle" /\ vp'[a] # "idle" /\ \A b \in Actors : b # a => vp'[b] = vp[b]
      BY Zenon, <1>3 DEF OpenTmp, WriteTmp, TypeOK
  <2>3. ~overlap => vault' = vault
    <3>1. CASE OpenTmp(a)
        BY Zenon, <3>1 DEF OpenTmp
    <3>2. CASE WriteTmp(a)
      <4>1. ~overlap => fd[a] = "tmp"
          BY Zenon, <3>2 DEF PersistOK, WriteTmp
      <4> QED
          BY Zenon, <3>2, <4>1 DEF WriteTmp, None
    <3> QED
        BY Zenon, <1>3, <3>1, <3>2
  <2>4. Alone(a)
      BY Zenon, <2>1, <2>2 DEF Alone, Same
  <2> QED
      BY Zenon, <1>2, <2>1, <2>2, <2>3, <2>4 DEF Persists
<1>4. CASE Rename(a)
  <2>1. /\ vp[a] = "written" /\ vp' = [vp EXCEPT ![a] = "idle"] /\ buf' = [buf EXCEPT ![a] = {}]
        /\ AdvanceWith(a, mem[a]) \/ Abort(a)
      BY Zenon, <1>4 DEF Rename, Advance
  <2>2. /\ vp'[a] = "idle"
        /\ \A b \in Actors : b # a => vp'[b] = vp[b] /\ buf'[b] = buf[b]
      BY Zenon, <2>1 DEF TypeOK
  <2>3. ~overlap => vault'.has = buf[a]
    <3>1. ASSUME ~overlap PROVE tmp = File(buf[a])
        BY Zenon, <2>1, <3>1 DEF PersistOK
    <3>2. ASSUME ~overlap PROVE tmp.st # None /\ tmp.has = buf[a]
        BY <3>1, <3>2 DEF File, None
    <3> QED
        BY Zenon, <1>4, <3>2 DEF Rename
  <2>4. H(a) \in ChangeOps \cup {"vault"} /\ vp[a] # "idle"
      BY Zenon, <2>1, InVault
  <2>5. /\ \/ H(a)' = "end"
           \/ /\ H(a)' \in Ops /\ Follows(H(a), H(a)')
              /\ id'[a] = id[a] /\ read'[a] = read[a] /\ mem'[a] = mem[a]
        /\ \A b \in Actors : b # a =>
             prog'[b] = prog[b] /\ id'[b] = id[b] /\ read'[b] = read[b] /\ mem'[b] = mem[b]
      BY Zenon, <1>1, <2>1, <2>4, AdvanceEffect, AbortEffect
  <2>6. Alone(a)
      BY Zenon, <2>2, <2>5 DEF Alone, Same
  <2>7. CASE H(a)' = "end"
      BY Zenon, <1>2, <2>2, <2>3, <2>4, <2>6, <2>7 DEF Renames
  <2>8. CASE /\ H(a)' \in Ops /\ Follows(H(a), H(a)')
             /\ id'[a] = id[a] /\ read'[a] = read[a] /\ mem'[a] = mem[a]
    <3>1. /\ H(a) \in {"put_pw", "set_pw", "put_link", "clone_pw", "clone_link"}
          /\ H(a) = "put_link" => H(a)' = "save_link"
          /\ H(a) = "clone_pw" => H(a)' = "clone_link"
          /\ H(a) \in {"put_pw", "set_pw", "clone_link"} => H(a)' = "save"
        BY Zenon, <2>4, <2>8 DEF Follows, ChangeOps
    <3>2. Own(a) = OwnOf(H(a), vp[a], mem[a]) /\ Own(a)' = OwnOf(H(a)', "idle", mem[a])
        BY Zenon, <2>2, <2>8 DEF Own
    <3>3. Own(a)' = Own(a)
      <4>1. CASE H(a) = "clone_pw"
        <5>1. Own(a) = {mem[a].pw} \ {None}
            BY <2>4, <3>2, <4>1, OwnCases
        <5>2. Own(a)' = {mem[a].pw} \ {None}
            BY Zenon, <3>1, <3>2, <4>1, OwnCases
        <5> QED
            BY Zenon, <5>1, <5>2
      <4>2. CASE H(a) # "clone_pw"
        <5>1. Own(a) = RefsOf(mem[a])
            BY <2>4, <3>1, <3>2, <4>2, OwnCases DEF Without, Boot
        <5>2. Own(a)' = RefsOf(mem[a])
            BY <3>1, <3>2, <4>2, OwnCases DEF Without, Boot
        <5> QED
            BY Zenon, <5>1, <5>2
      <4> QED
          BY Zenon, <4>1, <4>2
    <3>4. Keeps(a)
        BY Zenon, <2>8, <3>1, <3>3 DEF Keeps, Without, Boot
    <3> QED
        BY Zenon, <1>2, <2>2, <2>3, <2>4, <2>6, <3>1, <3>4 DEF Renames
  <2> QED
      BY Zenon, <2>5, <2>7, <2>8
<1> QED
    BY Zenon, <1>3, <1>4

\* Every step is of one of the kinds.
LEMMA StepKinds ==
    ASSUME TypeOK, ProgsOK, PersistOK, RowsOK, NewOK, [Next]_vars
    PROVE  \/ Drops
           \/ \E a \in Actors : \/ GoesOn(a) \/ Gets(a) \/ Makes(a) \/ Saves(a) \/ Deletes(a)
                                \/ Loads(a) \/ Persists(a) \/ Renames(a)
<1>1. ASSUME NEW a \in Actors, Start(a)
      PROVE  Drops
  <2>1. /\ UNCHANGED <<dbVars, files, ready, vaultVars, used, history>>
        /\ prog[a] = <<>> /\ prog' = [prog EXCEPT ![a] = Bootstrap]
        /\ id' = id /\ read' = read /\ mem' = mem
      BY Zenon, <1>1 DEF Start, dbVars, files, local, vaultVars, history
  <2>2. vp[a] = "idle"
      BY Zenon, <2>1 DEF ProgsOK, H
  <2>3. H(a)' = "version" /\ \A b \in Actors : b # a => prog'[b] = prog[b]
      BY Zenon, <2>1, ShapeBoot DEF H, TypeOK
  <2>4. Kept /\ vp'[a] = "idle" /\ Alone(a)
      BY Zenon, <2>1, <2>2, <2>3, PlainKept
  <2> QED
      BY Zenon, <2>3, <2>4, EndDrops DEF Without, Boot
<1>2. ASSUME NEW a \in Actors, NEW c \in Commands(a), NEW i \in Ids, Begin(a, c, i)
      PROVE  Drops
  <2>1. /\ Continue(a, c, i, NoRow, NoRow) /\ prog[a] = <<>> /\ Kept
        /\ vp' = vp /\ buf' = buf
      BY Zenon, <1>2 DEF Begin, dbVars, files, vaultVars, Kept
  <2>2. vp'[a] = "idle"
      BY Zenon, <2>1 DEF ProgsOK, H
  <2>3. /\ \A b \in Actors : b # a =>
             prog'[b] = prog[b] /\ id'[b] = id[b] /\ read'[b] = read[b] /\ mem'[b] = mem[b]
        /\ H(a)' \in {"get", "build"} /\ read'[a] = NoRow
    <3>1. Shape(c) /\ c # <<>> /\ Head(c) \in {"get", "build"} /\ NoRow \in Rows
        BY Zenon, CommandShape, Values
    <3> QED
        BY ZenonT(30), <2>1, <3>1, ContinueEffect
  <2>4. Alone(a)
      BY Zenon, <2>1, <2>3 DEF Alone, Same
  <2> QED
      BY Zenon, <2>1, <2>2, <2>3, <2>4 DEF Drops, Alone, Ends, Without
<1>3. ASSUME NEW a \in Actors, Crash(a)
      PROVE  Drops
  <2>1. Kept /\ \A b \in Actors : Same(b) \/ (H(b)' = "end" /\ vp'[b] = "idle")
      BY Zenon, <1>3, CrashEffect DEF Kept
  <2> QED
      BY Zenon, <2>1 DEF Drops, Ends, Without
<1>4. CASE UNCHANGED vars
    BY Zenon, <1>4 DEF vars, Drops, Kept, Same
<1>5. ASSUME NEW a \in Actors, Step(a)
      PROVE  \/ Drops \/ GoesOn(a) \/ Gets(a) \/ Makes(a) \/ Saves(a) \/ Deletes(a)
             \/ Loads(a) \/ Persists(a) \/ Renames(a)
  <2>1. CASE MigrateVersion(a) \/ MigrateMeta(a) \/ MigrateSettings(a) \/ GetSettings(a) \/ GetProfile(a)
      BY Zenon, <2>1, ReadingKinds
  <2>2. CASE Edit(a) \/ Await(a) \/ GetSecret(a) \/ Skip(a)
      BY Zenon, <2>2, EditingKinds
  <2>3. CASE Build(a) \/ Copy(a)
      BY Zenon, <2>3, MakingKinds
  <2>4. CASE Upsert(a) \/ DeleteRow(a)
      BY Zenon, <2>4, WritingKinds
  <2>5. CASE Load(a) \/ OpenVault(a)
      BY Zenon, <2>5, LoadingKinds
  <2>6. CASE OpenTmp(a) \/ WriteTmp(a) \/ Rename(a)
      BY Zenon, <2>6, PersistingKinds
  <2> QED
      BY Zenon, <1>5, <2>1, <2>2, <2>3, <2>4, <2>5, <2>6 DEF Step
<1> QED
    BY Zenon, <1>1, <1>2, <1>3, <1>4, <1>5 DEF Next

\* What the others have after a step of a alone
LEMMA AloneFacts ==
    ASSUME NEW a \in Actors, Alone(a), NEW b \in Actors, b # a
    PROVE  /\ H(b)' = H(b) /\ Own(b)' = Own(b) /\ id'[b] = id[b] /\ read'[b] = read[b]
           /\ mem'[b] = mem[b] /\ vp'[b] = vp[b] /\ buf'[b] = buf[b]
BY Zenon, SameOwn DEF Alone, Same
=============================================================================
