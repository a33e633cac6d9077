------------------------ MODULE ProfileSecretsProofs ------------------------
(***************************************************************************)
(* Proofs about the secrets of ProfileStore: no two profiles share one,    *)
(* and the references of the database lead to one.  Every step is one of   *)
(* the kinds of ProfileStoreProofs (StepKinds), so an invariant about rows *)
(* and secrets is shown to survive each kind, not each action.             *)
(***************************************************************************)
EXTENDS ProfileStoreProofs

-----------------------------------------------------------------------------
(* Rows, and profiles that are being made.                                 *)

LEMMA RowsStep ==
    ASSUME TypeOK, RowsOK,
           \/ Drops
           \/ \E a \in Actors : \/ GoesOn(a) \/ Gets(a) \/ Makes(a) \/ Saves(a) \/ Deletes(a)
                                \/ Loads(a) \/ Persists(a) \/ Renames(a)
    PROVE  RowsOK'
<1>1. CASE Drops
  <2>1. ASSUME NEW b \in Actors, H(b)' \notin Without
        PROVE  mem'[b].live
    <3>1. Same(b)
        BY Zenon, <1>1, <2>1 DEF Drops, Ends
    <3>2. H(b)' = H(b) /\ mem'[b] = mem[b]
        BY Zenon, <3>1, SameOwn DEF Same
    <3> QED
        BY Zenon, <2>1, <3>2 DEF RowsOK
  <2>2. db' = db
      BY Zenon, <1>1 DEF Drops, Kept
  <2> QED
      BY Zenon, <2>1, <2>2 DEF RowsOK
<1>2. ASSUME NEW a \in Actors, Alone(a), H(a)' \notin Without => mem'[a].live,
             \A i \in Ids : db'[i] = db[i] \/ db'[i].live \/ db'[i] = NoRow
      PROVE  RowsOK'
  <2>1. ASSUME NEW b \in Actors, H(b)' \notin Without
        PROVE  mem'[b].live
    <3>1. CASE b = a
        BY Zenon, <1>2, <2>1, <3>1
    <3>2. CASE b # a
        BY Zenon, <1>2, <2>1, <3>2, AloneFacts DEF RowsOK
    <3> QED
        BY Zenon, <3>1, <3>2
  <2>2. ASSUME NEW i \in Ids
        PROVE  db'[i].live \/ db'[i] = NoRow
      BY Zenon, <1>2 DEF RowsOK
  <2> QED
      BY <2>1, <2>2, Zenon DEF RowsOK, NoRow
<1>3. ASSUME NEW a \in Actors, Keeps(a)
      PROVE  mem'[a].live
    BY Zenon, <1>3 DEF Keeps, RowsOK
<1>4. ASSUME NEW a \in Actors, GoesOn(a)
      PROVE  RowsOK'
    BY Zenon, <1>2, <1>3, <1>4 DEF GoesOn, Kept
<1>5. ASSUME NEW a \in Actors, Gets(a) \/ Makes(a)
      PROVE  RowsOK'
    BY Zenon, <1>2, <1>5 DEF Gets, Makes, Kept
<1>6. ASSUME NEW a \in Actors, Saves(a)
      PROVE  RowsOK'
  <2>1. Alone(a) /\ H(a)' \in Without /\ mem[a].live
      BY Zenon, <1>6 DEF Saves, RowsOK, Without, Boot
  <2>2. \A i \in Ids : db'[i] = db[i] \/ db'[i] = mem[a]
      BY Zenon, <1>6 DEF Saves, TypeOK
  <2> QED
      BY Zenon, <1>2, <2>1, <2>2
<1>7. ASSUME NEW a \in Actors, Deletes(a)
      PROVE  RowsOK'
  <2>1. Alone(a) /\ (H(a)' \notin Without => mem'[a].live)
      BY Zenon, <1>3, <1>7 DEF Deletes, Without
  <2>2. \A i \in Ids : db'[i] = db[i] \/ db'[i] = NoRow
      BY Zenon, <1>7 DEF Deletes, TypeOK
  <2> QED
      BY Zenon, <1>2, <2>1, <2>2
<1>8. ASSUME NEW a \in Actors, Loads(a) \/ Persists(a)
      PROVE  RowsOK'
  <2>1. Alone(a) /\ db' = db /\ H(a)' = H(a) /\ mem'[a].live = mem[a].live
      BY Zenon, <1>8 DEF Loads, Persists, H
  <2> QED
      BY Zenon, <1>2, <2>1 DEF RowsOK
<1>9. ASSUME NEW a \in Actors, Renames(a)
      PROVE  RowsOK'
  <2>1. Alone(a) /\ db' = db /\ (H(a)' \notin Without => mem'[a].live)
      BY Zenon, <1>3, <1>9 DEF Renames, Without
  <2> QED
      BY Zenon, <1>2, <2>1
<1> QED
    BY Zenon, <1>1, <1>4, <1>5, <1>6, <1>7, <1>8, <1>9

LEMMA NewAlone ==
    ASSUME NewOK, NEW a \in Actors, Alone(a),
           H(a)' \in {"build", "put_link", "save_link"} => read'[a] = NoRow,
           H(a)' \notin Without /\ read'[a] = NoRow =>
             /\ db'[id'[a]] = NoRow
             /\ \A b \in Actors : b # a /\ H(b) \notin Without => id[b] # id'[a],
           \A b \in Actors : b # a /\ H(b) \notin Without /\ read[b] = NoRow =>
             db'[id[b]] = NoRow /\ (H(a)' \notin Without => id'[a] # id[b])
    PROVE  NewOK'
<1>1. ASSUME NEW c \in Actors
      PROVE  H(c)' \in {"build", "put_link", "save_link"} => read'[c] = NoRow
  <2>1. CASE c = a
      BY Zenon, <2>1
  <2>2. CASE c # a
      BY Zenon, <2>2, AloneFacts DEF NewOK
  <2> QED
      BY Zenon, <2>1, <2>2
<1>2. ASSUME NEW c \in Actors, H(c)' \notin Without, read'[c] = NoRow
      PROVE  /\ db'[id'[c]] = NoRow
             /\ \A b \in Actors : b # c /\ H(b)' \notin Without => id'[b] # id'[c]
  <2>1. CASE c = a
      BY Zenon, <1>2, <2>1, AloneFacts
  <2>2. CASE c # a
    <3>1. H(c) \notin Without /\ read[c] = NoRow /\ id'[c] = id[c]
        BY Zenon, <1>2, <2>2, AloneFacts
    <3>2. db'[id[c]] = NoRow /\ (H(a)' \notin Without => id'[a] # id[c])
        BY Zenon, <2>2, <3>1
    <3>3. ASSUME NEW b \in Actors, b # c, H(b)' \notin Without
          PROVE  id'[b] # id'[c]
      <4>1. CASE b = a
          BY Zenon, <3>1, <3>2, <3>3, <4>1
      <4>2. CASE b # a
        <5>1. H(b) \notin Without /\ id'[b] = id[b]
            BY Zenon, <3>3, <4>2, AloneFacts
        <5> QED
            BY ZenonT(30), <3>1, <3>3, <5>1 DEF NewOK
      <4> QED
          BY Zenon, <4>1, <4>2
    <3> QED
        BY Zenon, <3>1, <3>2, <3>3
  <2> QED
      BY Zenon, <2>1, <2>2
<1> QED
    BY <1>1, <1>2, Zenon DEF NewOK, NoRow

\* a goes on with its profile, or drops it.
LEMMA NewKeeps ==
    ASSUME NewOK, NEW a \in Actors, Alone(a),
           \A i : db[i] = NoRow => db'[i] = NoRow,
           H(a)' \notin Without => H(a) \notin Without /\ id'[a] = id[a] /\ read'[a] = read[a],
           H(a)' \in {"build", "put_link", "save_link"} => read'[a] = NoRow
    PROVE  NewOK'
<1>1. H(a)' \notin Without /\ read'[a] = NoRow =>
        /\ db'[id'[a]] = NoRow
        /\ \A b \in Actors : b # a /\ H(b) \notin Without => id[b] # id'[a]
    BY Zenon DEF NewOK
<1>2. \A b \in Actors : b # a /\ H(b) \notin Without /\ read[b] = NoRow =>
        db'[id[b]] = NoRow /\ (H(a)' \notin Without => id'[a] # id[b])
    BY Zenon DEF NewOK
<1> QED
    BY Zenon, <1>1, <1>2, NewAlone

LEMMA NewStep ==
    ASSUME TypeOK, TypeOK', RowsOK, NewOK,
           \/ Drops
           \/ \E a \in Actors : \/ GoesOn(a) \/ Gets(a) \/ Makes(a) \/ Saves(a) \/ Deletes(a)
                                \/ Loads(a) \/ Persists(a) \/ Renames(a)
    PROVE  NewOK'
<1>1. CASE Drops
  <2>1. db' = db
      BY Zenon, <1>1 DEF Drops, Kept
  <2>2. ASSUME NEW c \in Actors
        PROVE  H(c)' \in {"build", "put_link", "save_link"} => read'[c] = NoRow
    <3>1. CASE Same(c)
      <4>1. H(c)' = H(c) /\ read'[c] = read[c]
          BY Zenon, <3>1, SameOwn DEF Same
      <4> QED
          BY Zenon, <4>1 DEF NewOK
    <3>2. CASE Ends(c)
        BY Zenon, <3>2 DEF Ends, Without, Boot
    <3> QED
        BY Zenon, <1>1, <3>1, <3>2 DEF Drops
  <2>3. ASSUME NEW c \in Actors, H(c)' \notin Without
        PROVE  H(c) \notin Without /\ id'[c] = id[c] /\ read'[c] = read[c]
      BY Zenon, <1>1, <2>3, SameOwn DEF Drops, Ends, Same
  <2>4. ASSUME NEW c \in Actors, H(c)' \notin Without, read'[c] = NoRow
        PROVE  /\ db'[id'[c]] = NoRow
               /\ \A b \in Actors : b # c /\ H(b)' \notin Without => id'[b] # id'[c]
      BY Zenon, <2>1, <2>3, <2>4 DEF NewOK
  <2> QED
      BY <2>2, <2>4, Zenon DEF NewOK, NoRow
<1>2. ASSUME NEW a \in Actors, GoesOn(a)
      PROVE  NewOK'
  <2>1. /\ Alone(a) /\ db' = db
        /\ H(a) \notin Without /\ id'[a] = id[a] /\ read'[a] = read[a]
        /\ H(a)' \in {"put_link", "save_link"} => H(a) = "save_link"
        /\ H(a)' # "build"
      BY Zenon, <1>2 DEF GoesOn, Keeps, Kept, Without
  <2>2. H(a)' \in {"build", "put_link", "save_link"} => read'[a] = NoRow
      BY Zenon, <2>1 DEF NewOK
  <2> QED
      BY Zenon, <2>1, <2>2, NewKeeps
<1>3. ASSUME NEW a \in Actors, Gets(a)
      PROVE  NewOK'
  <2>1. /\ Alone(a) /\ db' = db /\ id'[a] = id[a] /\ db[id[a]].live /\ read'[a] = db[id[a]]
        /\ H(a)' \notin {"build", "put_link", "save_link"}
      BY Zenon, <1>3 DEF Gets, Kept
  <2>2. db[id[a]] # NoRow
      BY Zenon, <2>1, Values
  <2>3. \A b \in Actors : b # a /\ H(b) \notin Without /\ read[b] = NoRow =>
          db'[id[b]] = NoRow /\ (H(a)' \notin Without => id'[a] # id[b])
      BY Zenon, <2>1, <2>2 DEF NewOK
  <2> QED
      BY Zenon, <2>1, <2>2, <2>3, NewAlone
<1>4. ASSUME NEW a \in Actors, Makes(a)
      PROVE  NewOK'
  <2>1. /\ Alone(a) /\ db' = db /\ read'[a] = NoRow /\ ~db[id'[a]].live
        /\ \A b \in Actors : b # a => H(b) = "end" \/ id[b] # id'[a]
      BY Zenon, <1>4 DEF Makes, Kept
  <2>2. id'[a] \in Ids => db[id'[a]] = NoRow
      BY Zenon, <2>1 DEF RowsOK
  <2>3. id'[a] \in Ids
      BY Zenon DEF TypeOK
  <2>4. \A b \in Actors : b # a /\ H(b) \notin Without => id[b] # id'[a]
      BY Zenon, <2>1 DEF Without
  <2>5. \A b \in Actors : b # a /\ H(b) \notin Without /\ read[b] = NoRow =>
          db'[id[b]] = NoRow /\ (H(a)' \notin Without => id'[a] # id[b])
      BY Zenon, <2>1, <2>4 DEF NewOK
  <2> QED
      BY Zenon, <2>1, <2>2, <2>3, <2>4, <2>5, NewAlone
<1>5. ASSUME NEW a \in Actors, Saves(a)
      PROVE  NewOK'
  <2>1. /\ Alone(a) /\ H(a) \notin Without /\ H(a)' \in Without
        /\ H(a)' \notin {"build", "put_link", "save_link"}
        /\ db' = [db EXCEPT ![id[a]] = mem[a]]
      BY Zenon, <1>5 DEF Saves, Without, Boot
  <2>2. ASSUME NEW b \in Actors, b # a, H(b) \notin Without, read[b] = NoRow
        PROVE  db'[id[b]] = NoRow
    <3>1. id[a] # id[b] /\ db[id[b]] = NoRow
        BY Zenon, <2>1, <2>2 DEF NewOK
    <3>2. id[b] \in Ids
        BY Zenon, RowTypes
    <3> QED
        BY Zenon, <2>1, <3>1, <3>2 DEF TypeOK
  <2> QED
      BY Zenon, <2>1, <2>2, NewAlone
<1>6. ASSUME NEW a \in Actors, Deletes(a)
      PROVE  NewOK'
  <2>1. /\ Alone(a) /\ db' = [db EXCEPT ![id[a]] = NoRow]
        /\ H(a)' = "end" \/ (H(a)' = "drop_link" /\ Keeps(a))
      BY Zenon, <1>6 DEF Deletes
  <2>2. H(a)' \notin Without => H(a) \notin Without /\ id'[a] = id[a] /\ read'[a] = read[a]
      BY Zenon, <2>1 DEF Keeps, Without
  <2>3. \A i : db[i] = NoRow => db'[i] = NoRow
      BY <2>1 DEF TypeOK
  <2> QED
      BY Zenon, <2>1, <2>2, <2>3, NewKeeps
<1>7. ASSUME NEW a \in Actors, Loads(a) \/ Persists(a)
      PROVE  NewOK'
  <2>1. Alone(a) /\ db' = db /\ H(a)' = H(a) /\ id'[a] = id[a] /\ read'[a] = read[a]
      BY Zenon, <1>7 DEF Loads, Persists, H
  <2>2. H(a)' \in {"build", "put_link", "save_link"} => read'[a] = NoRow
      BY Zenon, <2>1 DEF NewOK
  <2> QED
      BY Zenon, <2>1, <2>2, NewKeeps
<1>8. ASSUME NEW a \in Actors, Renames(a)
      PROVE  NewOK'
  <2>1. /\ Alone(a) /\ db' = db
        /\ \/ H(a)' = "end"
           \/ /\ Keeps(a) /\ H(a)' # "put_link"
              /\ H(a)' = "save_link" => H(a) = "put_link"
      BY Zenon, <1>8 DEF Renames
  <2>2. H(a)' \notin Without => H(a) \notin Without /\ id'[a] = id[a] /\ read'[a] = read[a]
      BY Zenon, <2>1 DEF Keeps, Without
  <2>3. H(a)' \in {"build", "put_link", "save_link"} => read'[a] = NoRow
    <3>1. CASE H(a)' = "end"
        BY Zenon, <3>1
    <3>2. CASE Keeps(a)
        BY Zenon, <2>1, <3>2 DEF Keeps, NewOK, Without
    <3> QED
        BY Zenon, <2>1, <3>1, <3>2
  <2> QED
      BY Zenon, <2>1, <2>2, <2>3, NewKeeps
<1> QED
    BY Zenon, <1>1, <1>2, <1>3, <1>4, <1>5, <1>6, <1>7, <1>8

-----------------------------------------------------------------------------
(* Secrets belong to one profile.                                          *)

\* References are kept or dropped.
LEMMA SharedDrops ==
    ASSUME SharedOK, db' = db, used' = used,
           \A b \in Actors : (Own(b)' = Own(b) /\ id'[b] = id[b]) \/ Own(b)' = {}
    PROVE  SharedOK'
<1>1. \A i, j \in Ids : i # j => RefsOf(db'[i]) \cap RefsOf(db'[j]) = {}
    BY Zenon DEF SharedOK
<1>2. \A b \in Actors, i \in Ids : i # id'[b] => Own(b)' \cap RefsOf(db'[i]) = {}
    BY Zenon DEF SharedOK
<1>3. \A b, c \in Actors : id'[b] # id'[c] => Own(b)' \cap Own(c)' = {}
    BY Zenon DEF SharedOK
<1>4. \A i \in Ids : RefsOf(db'[i]) \subseteq used'
    BY Zenon DEF SharedOK
<1>5. \A b \in Actors : Own(b)' \subseteq used'
    BY Zenon DEF SharedOK
<1> QED
    BY Zenon, <1>1, <1>2, <1>3, <1>4, <1>5 DEF SharedOK, RefsOf

\* A new reference is nobody else's.
LEMMA SharedGrows ==
    ASSUME SharedOK, NEW a \in Actors, Alone(a), db' = db, id'[a] = id[a],
           NEW new, new \cap used = {}, used' = used \cup new, Own(a)' \subseteq Own(a) \cup new
    PROVE  SharedOK'
<1>0. \A b \in Actors : b # a => Own(b)' = Own(b) /\ id'[b] = id[b]
    BY Zenon, AloneFacts
<1>1. \A i, j \in Ids : i # j => RefsOf(db'[i]) \cap RefsOf(db'[j]) = {}
    BY Zenon DEF SharedOK
<1>2. ASSUME NEW b \in Actors, NEW i \in Ids, i # id'[b]
      PROVE  Own(b)' \cap RefsOf(db'[i]) = {}
  <2>1. Own(b) \cap RefsOf(db[i]) = {} /\ RefsOf(db[i]) \subseteq used
      BY Zenon, <1>0, <1>2 DEF SharedOK
  <2>2. Own(b)' \subseteq Own(b) \cup new
      BY Zenon, <1>0
  <2> QED
      BY Zenon, <2>1, <2>2
<1>3. ASSUME NEW b \in Actors, NEW c \in Actors, id'[b] # id'[c]
      PROVE  Own(b)' \cap Own(c)' = {}
  <2>1. Own(b) \cap Own(c) = {} /\ Own(b) \subseteq used /\ Own(c) \subseteq used
      BY Zenon, <1>0, <1>3 DEF SharedOK
  <2>2. b # a \/ c # a
      BY Zenon, <1>3
  <2>3. CASE b # a /\ c # a
      BY Zenon, <1>0, <2>1, <2>3
  <2>4. CASE b = a /\ c # a
      BY Zenon, <1>0, <2>1, <2>4
  <2>5. CASE b # a /\ c = a
      BY Zenon, <1>0, <2>1, <2>5
  <2> QED
      BY Zenon, <2>2, <2>3, <2>4, <2>5
<1>4. \A i \in Ids : RefsOf(db'[i]) \subseteq used'
    BY Zenon DEF SharedOK
<1>5. ASSUME NEW b \in Actors
      PROVE  Own(b)' \subseteq used'
  <2>1. Own(b)' \subseteq Own(b) \cup new /\ Own(b) \subseteq used
      BY Zenon, <1>0 DEF SharedOK
  <2> QED
      BY Zenon, <2>1
<1> QED
    BY Zenon, <1>1, <1>2, <1>3, <1>4, <1>5 DEF SharedOK, RefsOf

\* A row is replaced by what belonged to it.
LEMMA SharedWrites ==
    ASSUME TypeOK, SharedOK, NEW a \in Actors, Alone(a), used' = used, NEW row,
           db' = [db EXCEPT ![id[a]] = row], RefsOf(row) \subseteq Own(a),
           Own(a)' = {} \/ (Own(a)' \subseteq Own(a) /\ id'[a] = id[a])
    PROVE  SharedOK'
<1>0. \A b \in Actors : b # a => Own(b)' = Own(b) /\ id'[b] = id[b]
    BY Zenon, AloneFacts
<1>0a. \A i \in Ids : db'[i] = IF i = id[a] THEN row ELSE db[i]
    BY Zenon DEF TypeOK
<1>1. ASSUME NEW i \in Ids, NEW j \in Ids, i # j
      PROVE  RefsOf(db'[i]) \cap RefsOf(db'[j]) = {}
  <2>1. CASE i # id[a] /\ j # id[a]
      BY Zenon, <1>0a, <1>1, <2>1 DEF SharedOK
  <2>2. CASE i = id[a]
    <3>1. db'[i] = row /\ db'[j] = db[j] /\ Own(a) \cap RefsOf(db[j]) = {}
        BY Zenon, <1>0a, <1>1, <2>2 DEF SharedOK
    <3> QED
        BY Zenon, <3>1
  <2>3. CASE j = id[a]
    <3>1. db'[j] = row /\ db'[i] = db[i] /\ Own(a) \cap RefsOf(db[i]) = {}
        BY Zenon, <1>0a, <1>1, <2>3 DEF SharedOK
    <3> QED
        BY Zenon, <3>1
  <2> QED
      BY Zenon, <2>1, <2>2, <2>3
<1>2. ASSUME NEW b \in Actors, NEW i \in Ids, i # id'[b]
      PROVE  Own(b)' \cap RefsOf(db'[i]) = {}
  <2>1. CASE Own(b)' = {}
      BY Zenon, <2>1
  <2>2. CASE Own(b)' # {}
    <3>1. id'[b] = id[b] /\ Own(b)' \subseteq Own(b) /\ i # id[b]
        BY Zenon, <1>0, <1>2, <2>2
    <3>2. CASE i = id[a]
      <4>1. Own(b) \cap Own(a) = {}
          BY Zenon, <3>1, <3>2 DEF SharedOK
      <4>2. db'[i] = row
          BY Zenon, <1>0a, <3>2
      <4> QED
          BY Zenon, <3>1, <4>1, <4>2
    <3>3. CASE i # id[a]
      <4>1. db'[i] = db[i] /\ Own(b) \cap RefsOf(db[i]) = {}
          BY Zenon, <1>0a, <3>1, <3>3 DEF SharedOK
      <4> QED
          BY Zenon, <3>1, <4>1
    <3> QED
        BY Zenon, <3>2, <3>3
  <2> QED
      BY Zenon, <2>1, <2>2
<1>3. ASSUME NEW b \in Actors, NEW c \in Actors, id'[b] # id'[c]
      PROVE  Own(b)' \cap Own(c)' = {}
  <2>1. CASE Own(b)' = {} \/ Own(c)' = {}
      BY Zenon, <2>1
  <2>2. CASE Own(b)' # {} /\ Own(c)' # {}
    <3>1. /\ id'[b] = id[b] /\ Own(b)' \subseteq Own(b)
          /\ id'[c] = id[c] /\ Own(c)' \subseteq Own(c)
        BY Zenon, <1>0, <2>2
    <3>2. Own(b) \cap Own(c) = {}
        BY Zenon, <1>3, <3>1 DEF SharedOK
    <3> QED
        BY Zenon, <3>1, <3>2
  <2> QED
      BY Zenon, <2>1, <2>2
<1>4. ASSUME NEW i \in Ids
      PROVE  RefsOf(db'[i]) \subseteq used'
  <2>1. RefsOf(db[i]) \subseteq used /\ Own(a) \subseteq used
      BY Zenon DEF SharedOK
  <2> QED
      BY Zenon, <1>0a, <2>1
<1>5. ASSUME NEW b \in Actors
      PROVE  Own(b)' \subseteq used'
  <2>1. Own(b) \subseteq used
      BY Zenon DEF SharedOK
  <2>2. Own(b)' = {} \/ Own(b)' \subseteq Own(b)
      BY Zenon, <1>0
  <2> QED
      BY Zenon, <2>1, <2>2
<1> QED
    BY Zenon, <1>1, <1>2, <1>3, <1>4, <1>5 DEF SharedOK, RefsOf

\* A profile is read.
LEMMA SharedReads ==
    ASSUME TypeOK, SharedOK, NEW a \in Actors, Alone(a), db' = db, used' = used, id'[a] = id[a],
           Own(a)' = RefsOf(db[id[a]])
    PROVE  SharedOK'
<1>0. /\ id[a] \in Ids
      /\ \A b \in Actors : b # a => Own(b)' = Own(b) /\ id'[b] = id[b]
    BY Zenon, AloneFacts, RowTypes
<1>1. \A i, j \in Ids : i # j => RefsOf(db'[i]) \cap RefsOf(db'[j]) = {}
    BY Zenon DEF SharedOK
<1>2. ASSUME NEW b \in Actors, NEW i \in Ids, i # id'[b]
      PROVE  Own(b)' \cap RefsOf(db'[i]) = {}
  <2>1. CASE b = a
      BY Zenon, <1>0, <1>2, <2>1 DEF SharedOK
  <2>2. CASE b # a
      BY Zenon, <1>0, <1>2, <2>2 DEF SharedOK
  <2> QED
      BY Zenon, <2>1, <2>2
<1>3. ASSUME NEW b \in Actors, NEW c \in Actors, id'[b] # id'[c]
      PROVE  Own(b)' \cap Own(c)' = {}
  <2>1. CASE b # a /\ c # a
      BY Zenon, <1>0, <1>3, <2>1 DEF SharedOK
  <2>2. CASE b = a /\ c # a
    <3>1. Own(c) \cap RefsOf(db[id[a]]) = {}
        BY Zenon, <1>0, <1>3, <2>2 DEF SharedOK
    <3> QED
        BY Zenon, <1>0, <2>2, <3>1
  <2>3. CASE b # a /\ c = a
    <3>1. Own(b) \cap RefsOf(db[id[a]]) = {}
        BY Zenon, <1>0, <1>3, <2>3 DEF SharedOK
    <3> QED
        BY Zenon, <1>0, <2>3, <3>1
  <2> QED
      BY Zenon, <1>3, <2>1, <2>2, <2>3
<1>4. \A i \in Ids : RefsOf(db'[i]) \subseteq used'
    BY Zenon DEF SharedOK
<1>5. ASSUME NEW b \in Actors
      PROVE  Own(b)' \subseteq used'
    BY <1>0 DEF SharedOK
<1> QED
    BY <1>1, <1>2, <1>3, <1>4, <1>5, Zenon DEF SharedOK, RefsOf

LEMMA SharedStep ==
    ASSUME TypeOK, SharedOK,
           \/ Drops
           \/ \E a \in Actors : \/ GoesOn(a) \/ Gets(a) \/ Makes(a) \/ Saves(a) \/ Deletes(a)
                                \/ Loads(a) \/ Persists(a) \/ Renames(a)
    PROVE  SharedOK'
<1>1. ASSUME NEW b, H(b)' \in Without
      PROVE  Own(b)' = {}
    BY Zenon, <1>1, OwnCases DEF Own
<1>2. ASSUME NEW a \in Actors, Alone(a), db' = db, used' = used,
             Own(a)' = {} \/ (Own(a)' \subseteq Own(a) /\ id'[a] = id[a])
      PROVE  SharedOK'
  <2>1. CASE Own(a)' = {}
    <3>1. \A b \in Actors : (Own(b)' = Own(b) /\ id'[b] = id[b]) \/ Own(b)' = {}
        BY Zenon, <1>2, <2>1, AloneFacts
    <3> QED
        BY Zenon, <1>2, <3>1, SharedDrops
  <2>2. CASE Own(a)' \subseteq Own(a) /\ id'[a] = id[a]
    <3> DEFINE new == {}
    <3>1. new \cap used = {} /\ used' = used \cup new /\ Own(a)' \subseteq Own(a) \cup new
        BY Zenon, <1>2, <2>2
    <3> HIDE DEF new
    <3> QED
        BY Zenon, <1>2, <2>2, <3>1, SharedGrows
  <2> QED
      BY Zenon, <1>2, <2>1, <2>2
<1>3. CASE Drops
  <2>1. db' = db /\ used' = used
      BY Zenon, <1>3 DEF Drops, Kept
  <2>2. ASSUME NEW b \in Actors
        PROVE  (Own(b)' = Own(b) /\ id'[b] = id[b]) \/ Own(b)' = {}
    <3>1. CASE Same(b)
        BY Zenon, <3>1, SameOwn DEF Same
    <3>2. CASE Ends(b)
        BY Zenon, <1>1, <3>2 DEF Ends
    <3> QED
        BY Zenon, <1>3, <3>1, <3>2 DEF Drops
  <2> QED
      BY Zenon, <2>1, <2>2, SharedDrops
<1>4. ASSUME NEW a \in Actors, GoesOn(a)
      PROVE  SharedOK'
    BY Zenon, <1>2, <1>4 DEF GoesOn, Keeps, Kept
<1>5. ASSUME NEW a \in Actors, Gets(a)
      PROVE  SharedOK'
  <2>1. Own(a)' = RefsOf(db[id[a]])
    <3>1. Own(a)' = OwnOf(H(a)', vp'[a], db[id[a]])
        BY Zenon, <1>5 DEF Own, Gets
    <3>2. H(a)' \notin Without \cup {"clone_pw", "clone_link"}
        BY Zenon, <1>5 DEF Gets, Without, Boot
    <3> QED
        BY Zenon, <3>1, <3>2, OwnCases
  <2> QED
      BY Zenon, <1>5, <2>1, SharedReads DEF Gets, Kept
<1>6. ASSUME NEW a \in Actors, Makes(a)
      PROVE  SharedOK'
    BY Zenon, <1>2, <1>6 DEF Makes, Kept
<1>7. ASSUME NEW a \in Actors, Saves(a)
      PROVE  SharedOK'
  <2>1. Alone(a) /\ used' = used /\ db' = [db EXCEPT ![id[a]] = mem[a]]
      BY Zenon, <1>7 DEF Saves
  <2>2. Own(a) = RefsOf(mem[a])
      BY <1>7, OwnCases DEF Saves, Own, Without, Boot
  <2>3. Own(a)' = {}
      BY Zenon, <1>1, <1>7 DEF Saves, Without
  <2> QED
      BY <2>1, <2>2, <2>3, SharedWrites, Zenon
<1>8. ASSUME NEW a \in Actors, Deletes(a)
      PROVE  SharedOK'
  <2>1. /\ Alone(a) /\ used' = used /\ db' = [db EXCEPT ![id[a]] = NoRow]
        /\ H(a)' = "end" \/ Keeps(a)
      BY Zenon, <1>8 DEF Deletes
  <2>2. Own(a)' = {} \/ (Own(a)' \subseteq Own(a) /\ id'[a] = id[a])
      BY Zenon, <1>1, <2>1 DEF Keeps, Without
  <2>3. RefsOf(NoRow) \subseteq Own(a)
      BY Zenon, Values
  <2> QED
      BY <2>1, <2>2, <2>3, SharedWrites, Zenon
<1>9. ASSUME NEW a \in Actors, Loads(a)
      PROVE  SharedOK'
    BY Zenon, <1>9, SharedGrows DEF Loads
<1>10. ASSUME NEW a \in Actors, Persists(a)
      PROVE  SharedOK'
  <2>1. /\ Alone(a) /\ db' = db /\ used' = used /\ id'[a] = id[a] /\ mem'[a] = mem[a]
        /\ H(a)' = H(a) /\ vp[a] # "idle" /\ vp'[a] # "idle"
      BY Zenon, <1>10 DEF Persists, H
  <2>2. Own(a)' = Own(a)
      BY Zenon, <2>1 DEF Own, OwnOf
  <2> QED
      BY Zenon, <1>2, <2>1, <2>2
<1>11. ASSUME NEW a \in Actors, Renames(a)
      PROVE  SharedOK'
  <2>1. Alone(a) /\ db' = db /\ used' = used /\ (H(a)' = "end" \/ Keeps(a))
      BY Zenon, <1>11 DEF Renames
  <2>2. Own(a)' = {} \/ (Own(a)' \subseteq Own(a) /\ id'[a] = id[a])
      BY Zenon, <1>1, <2>1 DEF Keeps, Without
  <2> QED
      BY Zenon, <1>2, <2>1, <2>2
<1> QED
    BY Zenon, <1>3, <1>4, <1>5, <1>6, <1>7, <1>8, <1>9, <1>10, <1>11

LEMMA RowsInit == Init => RowsOK /\ NewOK /\ SharedOK
<1> SUFFICES ASSUME Init PROVE RowsOK /\ NewOK /\ SharedOK
    BY Zenon
<1>1. \A a \in Actors : H(a) = "end" /\ Own(a) = {}
  <2>1. \A a \in Actors : H(a) = "end"
      BY Zenon DEF Init, H
  <2> QED
      BY Zenon, <2>1, OwnCases DEF Own, Without
<1>2. \A i \in Ids : db[i] = NoRow /\ RefsOf(db[i]) = {}
    BY Zenon, Values DEF Init
<1>3. RowsOK /\ NewOK
    BY Zenon, <1>1, <1>2 DEF RowsOK, NewOK, Without
<1>4. SharedOK
    BY Zenon, <1>1, <1>2 DEF SharedOK
<1> QED
    BY Zenon, <1>3, <1>4

SecretsInv == TypeOK /\ ProgsOK /\ PersistOK /\ RowsOK /\ NewOK /\ SharedOK

LEMMA SecretsStep == SecretsInv /\ [Next]_vars => SecretsInv'
<1> SUFFICES ASSUME SecretsInv, [Next]_vars PROVE SecretsInv'
    BY Zenon
<1>1. TypeOK' /\ ProgsOK' /\ PersistOK'
    BY Zenon, TypeStep, PersistStep DEF SecretsInv
<1>2. \/ Drops
      \/ \E a \in Actors : \/ GoesOn(a) \/ Gets(a) \/ Makes(a) \/ Saves(a) \/ Deletes(a)
                           \/ Loads(a) \/ Persists(a) \/ Renames(a)
    BY Zenon, StepKinds DEF SecretsInv
<1>3. RowsOK'
    BY Zenon, <1>2, RowsStep DEF SecretsInv
<1>4. NewOK'
    BY Zenon, <1>1, <1>2, NewStep DEF SecretsInv
<1>5. SharedOK'
    BY Zenon, <1>2, SharedStep DEF SecretsInv
<1> QED
    BY Zenon, <1>1, <1>3, <1>4, <1>5 DEF SecretsInv

\* duplicate_profile and the controller's other commands
\* (crates/core/src/app.rs): no two profiles name the same secret, whichever
\* commands interleave and whatever row is written back late.
THEOREM SecretsAreOwn == Spec => []SecretsAreNotShared
<1>1. Init => SecretsInv
    BY Zenon, TypeInit, PersistInit, RowsInit DEF SecretsInv
<1>2. SecretsInv => SecretsAreNotShared
    BY Zenon DEF SecretsInv, SharedOK, SecretsAreNotShared
<1> QED
    BY <1>1, <1>2, SecretsStep, PTL DEF Spec

-----------------------------------------------------------------------------
(* References lead to secrets.                                             *)

\* An actor that does nothing, while the vault stays as it is
LEMMA StoredStays ==
    ASSUME NEW b \in Actors, Same(b), StoredBy(b), vault' = vault,
           H(b) = "drop_link" => db'[id[b]] = NoRow,
           db'[id[b]] # NoRow \/ read[b] = NoRow =>
             db[id[b]] # NoRow \/ read[b] = NoRow \/ Own(b) = {}
    PROVE  StoredBy(b)'
<1>1. /\ H(b)' = H(b) /\ Own(b)' = Own(b) /\ id'[b] = id[b] /\ read'[b] = read[b]
      /\ mem'[b] = mem[b] /\ vp'[b] = vp[b] /\ buf'[b] = buf[b]
    BY Zenon, SameOwn DEF Same
<1>2. vp'[b] # "idle" =>
        vault'.has \ (IF H(b)' = "drop_link" THEN {mem'[b].link} ELSE {}) \subseteq buf'[b]
    BY Zenon, <1>1 DEF StoredBy
<1>3. H(b)' = "drop_link" => db'[id'[b]] = NoRow
    BY Zenon, <1>1
<1>4. db'[id'[b]] # NoRow \/ read'[b] = NoRow =>
        Own(b)' \subseteq RefsOf(read'[b]) \cup vault'.has
                          \cup (IF vp'[b] = "idle" THEN {} ELSE buf'[b])
    BY Zenon, <1>1 DEF StoredBy
<1> QED
    BY Zenon, <1>2, <1>3, <1>4 DEF StoredBy, NoRow, RefsOf

\* An actor outside the vault that owns nothing new
LEMMA StoredIdle ==
    ASSUME NEW a \in Actors, vp'[a] = "idle", H(a)' = "drop_link" => db'[id'[a]] = NoRow,
           db'[id'[a]] # NoRow \/ read'[a] = NoRow =>
             Own(a)' \subseteq RefsOf(read'[a]) \cup vault'.has
    PROVE  StoredBy(a)'
BY Zenon DEF StoredBy, NoRow, RefsOf

\* Database and vault stay as they are.
LEMMA StoredLocal ==
    ASSUME NEW a \in Actors, Alone(a), db' = db, vault' = vault,
           \A i \in Ids : RefsOf(db[i]) \subseteq vault.has,
           \A b \in Actors : StoredBy(b), StoredBy(a)'
    PROVE  /\ \A i \in Ids : RefsOf(db'[i]) \subseteq vault'.has
           /\ \A b \in Actors : StoredBy(b)'
<1>1. ASSUME NEW b \in Actors, b # a
      PROVE  StoredBy(b)'
  <2>1. Same(b) /\ StoredBy(b)
      BY Zenon, <1>1 DEF Alone
  <2>2. H(b) = "drop_link" => db'[id[b]] = NoRow
      BY Zenon, <2>1 DEF StoredBy
  <2> QED
      BY Zenon, <2>1, <2>2, StoredStays
<1> QED
    BY Zenon, <1>1

LEMMA StoredLocalSteps ==
    ASSUME TypeOK, NewOK, NEW a \in Actors,
           GoesOn(a) \/ Gets(a) \/ Makes(a) \/ Loads(a),
           StoredBy(a)
    PROVE  StoredBy(a)'
<1>1. CASE GoesOn(a)
  <2>1. /\ db' = db /\ vault' = vault /\ vp[a] = "idle" /\ vp'[a] = "idle"
        /\ H(a) \notin Without /\ id'[a] = id[a] /\ read'[a] = read[a] /\ Own(a)' \subseteq Own(a)
        /\ H(a)' = "drop_link" => H(a) = "save_link"
      BY Zenon, <1>1 DEF GoesOn, Keeps, Kept
  <2>2. H(a)' = "drop_link" => db'[id'[a]] = NoRow
      BY Zenon, <2>1 DEF NewOK
  <2>3. db[id[a]] # NoRow \/ read[a] = NoRow => Own(a) \subseteq RefsOf(read[a]) \cup vault.has
      BY Zenon, <2>1 DEF StoredBy
  <2>4. db'[id'[a]] # NoRow \/ read'[a] = NoRow =>
          Own(a)' \subseteq RefsOf(read'[a]) \cup vault'.has
      BY Zenon, <2>1, <2>3
  <2> QED
      BY Zenon, <2>1, <2>2, <2>4, StoredIdle
<1>2. CASE Gets(a)
  <2>1. /\ read'[a] = db[id[a]] /\ mem'[a] = db[id[a]] /\ vp'[a] = "idle"
        /\ H(a)' # "drop_link" /\ H(a)' \notin Without \cup {"clone_pw", "clone_link"}
      BY Zenon, <1>2 DEF Gets, Without, Boot
  <2>2. Own(a)' = RefsOf(read'[a])
      BY <2>1, OwnCases DEF Own
  <2> QED
      BY Zenon, <2>1, <2>2, StoredIdle
<1>3. CASE Makes(a)
  <2>1. Own(a)' = {} /\ vp'[a] = "idle" /\ H(a)' # "drop_link"
      BY Zenon, <1>3 DEF Makes
  <2> QED
      BY Zenon, <2>1, StoredIdle
<1>4. CASE Loads(a)
  <2>1. /\ db' = db /\ vault' = vault /\ vp[a] = "idle" /\ vp'[a] # "idle"
        /\ H(a)' = H(a) /\ id'[a] = id[a] /\ read'[a] = read[a]
        /\ IF H(a) = "drop_link" THEN mem'[a].link = mem[a].link /\ vault.has \ {mem[a].link} \subseteq buf'[a]
           ELSE vault.has \subseteq buf'[a]
        /\ \E new \in SUBSET Refs : new \subseteq buf'[a] /\ Own(a)' \subseteq Own(a) \cup new
      BY Zenon, <1>4 DEF Loads
  <2>2. vault'.has \ (IF H(a)' = "drop_link" THEN {mem'[a].link} ELSE {}) \subseteq buf'[a]
    <3>1. CASE H(a) = "drop_link"
        BY Zenon, <2>1, <3>1
    <3>2. CASE H(a) # "drop_link"
        BY Zenon, <2>1, <3>2
    <3> QED
        BY Zenon, <3>1, <3>2
  <2>3. H(a)' = "drop_link" => db'[id'[a]] = NoRow
      BY Zenon, <2>1 DEF StoredBy
  <2>4. db[id[a]] # NoRow \/ read[a] = NoRow => Own(a) \subseteq RefsOf(read[a]) \cup vault.has
      BY Zenon, <2>1 DEF StoredBy
  <2>5. Own(a)' \subseteq Own(a) \cup buf'[a]
      BY Zenon, <2>1
  <2>6. db'[id'[a]] # NoRow \/ read'[a] = NoRow =>
          Own(a)' \subseteq RefsOf(read'[a]) \cup vault'.has
                            \cup (IF vp'[a] = "idle" THEN {} ELSE buf'[a])
      BY Zenon, <2>1, <2>4, <2>5
  <2> QED
      BY Zenon, <2>2, <2>3, <2>6 DEF StoredBy, NoRow, RefsOf
<1> QED
    BY Zenon, <1>1, <1>2, <1>3, <1>4

\* The row that is written back names what the vault holds, and nobody is
\* deleting it or making it.
LEMMA StoredSaves ==
    ASSUME TypeOK, NewOK, NEW a \in Actors, Saves(a), ~raced',
           \A i \in Ids : RefsOf(db[i]) \subseteq vault.has,
           \A b \in Actors : StoredBy(b)
    PROVE  /\ \A i \in Ids : RefsOf(db'[i]) \subseteq vault'.has
           /\ \A b \in Actors : StoredBy(b)'
<1>1. /\ Alone(a) /\ vault' = vault /\ H(a) \in {"save", "save_link"} /\ vp[a] = "idle"
      /\ db' = [db EXCEPT ![id[a]] = mem[a]] /\ db[id[a]] = read[a]
      /\ H(a)' \in Without /\ vp'[a] = "idle"
    BY Zenon DEF Saves, Without
<1>2. H(a) \notin Without \cup {"clone_pw", "clone_link"}
    BY Zenon, <1>1 DEF Without, Boot
<1>3. id[a] \in Ids /\ db \in [Ids -> Rows] /\ \A b \in Actors : id[b] \in Ids
    BY Zenon DEF TypeOK
<1>4. RefsOf(mem[a]) \subseteq vault.has
  <2>1. Own(a) = RefsOf(mem[a])
      BY Zenon, <1>2, OwnCases DEF Own
  <2>2. Own(a) \subseteq RefsOf(read[a]) \cup vault.has
      BY Zenon, <1>1 DEF StoredBy
  <2>3. RefsOf(read[a]) \subseteq vault.has
      BY Zenon, <1>1, <1>3
  <2> QED
      BY Zenon, <2>1, <2>2, <2>3
<1>5. \A i \in Ids : RefsOf(db'[i]) \subseteq vault'.has
    BY Zenon, <1>1, <1>3, <1>4
<1>6. StoredBy(a)'
  <2>1. Own(a)' = {} /\ H(a)' # "drop_link"
      BY Zenon, <1>1, OwnCases DEF Own, Without, Boot
  <2> QED
      BY Zenon, <1>1, <2>1, StoredIdle
<1>7. ASSUME NEW b \in Actors, b # a
      PROVE  StoredBy(b)'
  <2>1. Same(b) /\ StoredBy(b)
      BY Zenon, <1>1, <1>7 DEF Alone
  <2>2. CASE id[b] # id[a]
    <3>1. db'[id[b]] = db[id[b]]
        BY Zenon, <1>1, <1>3, <2>2
    <3>2. H(b) = "drop_link" => db'[id[b]] = NoRow
        BY Zenon, <2>1, <3>1 DEF StoredBy
    <3> QED
        BY Zenon, <1>1, <2>1, <3>1, <3>2, StoredStays
  <2>3. CASE id[b] = id[a]
    <3>1. db[id[b]] = NoRow => H(b) \in Without
        BY <1>1, <1>2, <1>7, <2>3, Zenon DEF NewOK
    <3>2. H(b) # "drop_link"
        BY Zenon, <2>1, <3>1 DEF StoredBy, Without, Boot
    <3>3. H(b) \in Without => Own(b) = {}
        BY Zenon, OwnCases DEF Own
    <3>4. db'[id[b]] # NoRow \/ read[b] = NoRow =>
            db[id[b]] # NoRow \/ read[b] = NoRow \/ Own(b) = {}
        BY Zenon, <3>1, <3>3
    <3> QED
        BY Zenon, <1>1, <2>1, <3>2, <3>4, StoredStays
  <2> QED
      BY Zenon, <2>2, <2>3
<1> QED
    BY Zenon, <1>5, <1>6, <1>7

LEMMA StoredDeletes ==
    ASSUME TypeOK, NEW a \in Actors, Deletes(a),
           \A i \in Ids : RefsOf(db[i]) \subseteq vault.has,
           \A b \in Actors : StoredBy(b)
    PROVE  /\ \A i \in Ids : RefsOf(db'[i]) \subseteq vault'.has
           /\ \A b \in Actors : StoredBy(b)'
<1>1. /\ Alone(a) /\ vault' = vault /\ H(a) = "delete" /\ vp[a] = "idle" /\ vp'[a] = "idle"
      /\ db' = [db EXCEPT ![id[a]] = NoRow]
      /\ H(a)' = "end" \/ (H(a)' = "drop_link" /\ Keeps(a))
    BY Zenon DEF Deletes
<1>2. id[a] \in Ids /\ db \in [Ids -> Rows] /\ \A b \in Actors : id[b] \in Ids
    BY Zenon DEF TypeOK
<1>3. RefsOf(NoRow) = {}
    BY Zenon, Values
<1>4. \A i \in Ids : db'[i] = IF i = id[a] THEN NoRow ELSE db[i]
    BY Zenon, <1>1, <1>2
<1>5. \A i \in Ids : RefsOf(db'[i]) \subseteq vault'.has
    BY Zenon, <1>1, <1>3, <1>4
<1>6. StoredBy(a)'
  <2>1. CASE H(a)' = "end"
    <3>1. Own(a)' = {}
        BY Zenon, <2>1, OwnCases DEF Own, Without
    <3> QED
        BY Zenon, <1>1, <2>1, <3>1, StoredIdle
  <2>2. CASE Keeps(a)
    <3>1. id'[a] = id[a] /\ read'[a] = read[a] /\ Own(a)' \subseteq Own(a)
        BY Zenon, <2>2 DEF Keeps
    <3>2. db'[id'[a]] = NoRow
        BY Zenon, <1>2, <1>4, <3>1
    <3>3. read'[a] = NoRow => Own(a)' \subseteq RefsOf(read'[a]) \cup vault'.has
        BY <1>1, <3>1, Zenon DEF StoredBy
    <3> QED
        BY Zenon, <1>1, <3>2, <3>3, StoredIdle
  <2> QED
      BY Zenon, <1>1, <2>1, <2>2
<1>7. ASSUME NEW b \in Actors, b # a
      PROVE  StoredBy(b)'
  <2>1. Same(b) /\ StoredBy(b)
      BY Zenon, <1>1, <1>7 DEF Alone
  <2>2. H(b) = "drop_link" => db'[id[b]] = NoRow
      BY Zenon, <1>2, <1>4, <2>1 DEF StoredBy
  <2>3. db'[id[b]] # NoRow => db[id[b]] # NoRow
      BY Zenon, <1>2, <1>4
  <2> QED
      BY Zenon, <1>1, <2>1, <2>2, <2>3, StoredStays
<1> QED
    BY Zenon, <1>5, <1>6, <1>7

LEMMA StoredPersists ==
    ASSUME NEW a \in Actors, Persists(a), ~overlap, StoredBy(a)
    PROVE  StoredBy(a)'
<1>1. /\ db' = db /\ vault' = vault /\ vp[a] # "idle" /\ vp'[a] # "idle" /\ H(a)' = H(a)
      /\ id'[a] = id[a] /\ read'[a] = read[a] /\ mem'[a] = mem[a] /\ buf'[a] = buf[a]
    BY Zenon DEF Persists, H
<1>2. Own(a)' = Own(a)
    BY Zenon, <1>1 DEF Own, OwnOf
<1>3. vault'.has \ (IF H(a)' = "drop_link" THEN {mem'[a].link} ELSE {}) \subseteq buf'[a]
    BY Zenon, <1>1 DEF StoredBy
<1>4. H(a)' = "drop_link" => db'[id'[a]] = NoRow
    BY Zenon, <1>1 DEF StoredBy
<1>5. db'[id'[a]] # NoRow \/ read'[a] = NoRow =>
        Own(a)' \subseteq RefsOf(read'[a]) \cup vault'.has
                          \cup (IF vp'[a] = "idle" THEN {} ELSE buf'[a])
    BY Zenon, <1>1, <1>2 DEF StoredBy
<1> QED
    BY Zenon, <1>3, <1>4, <1>5 DEF StoredBy, NoRow, RefsOf

\* What the renamed file lacks, no row names and no other profile owns.
LEMMA StoredRenames ==
    ASSUME TypeOK, PersistOK, NewOK, SharedOK, NEW a \in Actors, Renames(a), ~overlap,
           \A i \in Ids : RefsOf(db[i]) \subseteq vault.has,
           \A b \in Actors : StoredBy(b)
    PROVE  /\ \A i \in Ids : RefsOf(db'[i]) \subseteq vault'.has
           /\ \A b \in Actors : StoredBy(b)'
<1>1. /\ Alone(a) /\ db' = db /\ vault'.has = buf[a] /\ vp[a] # "idle" /\ vp'[a] = "idle"
      /\ \/ H(a)' = "end"
         \/ Keeps(a) /\ H(a) # "drop_link" /\ H(a)' # "drop_link"
    BY Zenon DEF Renames
<1> DEFINE gone == IF H(a) = "drop_link" THEN {mem[a].link} \ {None} ELSE {}
<1>2. \A b \in Actors : id[b] \in Ids
    BY Zenon DEF TypeOK
<1>3. gone \subseteq Own(a) /\ (gone # {} => H(a) = "drop_link")
  <2>1. H(a) = "drop_link" => Own(a) = RefsOf(mem[a])
      BY OwnCases DEF Own, Without, Boot
  <2>2. {mem[a].link} \ {None} \subseteq RefsOf(mem[a])
      BY Zenon DEF RefsOf
  <2> QED
      BY Zenon, <2>1, <2>2
<1>4. vault.has \ (IF H(a) = "drop_link" THEN {mem[a].link} ELSE {}) \subseteq buf[a]
    BY Zenon, <1>1 DEF StoredBy
<1>5. ASSUME NEW S, S \subseteq vault.has, None \notin S, S \cap gone = {}
      PROVE  S \subseteq vault'.has
    BY Zenon, <1>1, <1>4, <1>5
<1>6. gone # {} => db[id[a]] = NoRow /\ H(a) \notin Without
    BY Zenon, <1>3 DEF StoredBy, Without, Boot
<1> HIDE DEF gone
<1>7. \A i \in Ids : RefsOf(db'[i]) \subseteq vault'.has
  <2> SUFFICES ASSUME NEW i \in Ids
               PROVE  RefsOf(db[i]) \subseteq vault'.has
      BY Zenon, <1>1
  <2>1. None \notin RefsOf(db[i]) /\ RefsOf(db[i]) \subseteq vault.has
      BY Zenon DEF RefsOf
  <2>2. RefsOf(db[i]) \cap gone = {}
    <3>1. CASE i # id[a]
      <4>1. Own(a) \cap RefsOf(db[i]) = {}
          BY Zenon, <3>1 DEF SharedOK
      <4> QED
          BY Zenon, <1>3, <4>1
    <3>2. CASE i = id[a]
      <4>1. RefsOf(NoRow) = {}
          BY Zenon, Values
      <4> QED
          BY Zenon, <1>6, <3>2, <4>1
    <3> QED
        BY Zenon, <3>1, <3>2
  <2> QED
      BY Zenon, <1>5, <2>1, <2>2
<1>8. StoredBy(a)'
  <2>1. CASE H(a)' = "end"
    <3>1. Own(a)' = {}
        BY Zenon, <2>1, OwnCases DEF Own, Without
    <3> QED
        BY Zenon, <1>1, <2>1, <3>1, StoredIdle
  <2>2. CASE Keeps(a) /\ H(a) # "drop_link" /\ H(a)' # "drop_link"
    <3>1. id'[a] = id[a] /\ read'[a] = read[a] /\ Own(a)' \subseteq Own(a)
        BY Zenon, <2>2 DEF Keeps
    <3>2. vault.has \subseteq buf[a]
        BY Zenon, <1>4, <2>2
    <3>3. db[id[a]] # NoRow \/ read[a] = NoRow =>
            Own(a) \subseteq RefsOf(read[a]) \cup vault.has \cup buf[a]
        BY Zenon, <1>1 DEF StoredBy
    <3>4. db'[id'[a]] # NoRow \/ read'[a] = NoRow =>
            Own(a)' \subseteq RefsOf(read'[a]) \cup vault'.has
        BY Zenon, <1>1, <3>1, <3>2, <3>3
    <3> QED
        BY Zenon, <1>1, <2>2, <3>4, StoredIdle
  <2> QED
      BY Zenon, <1>1, <2>1, <2>2
<1>9. ASSUME NEW b \in Actors, b # a
      PROVE  StoredBy(b)'
  <2>1. /\ H(b)' = H(b) /\ Own(b)' = Own(b) /\ id'[b] = id[b] /\ read'[b] = read[b]
        /\ vp'[b] = vp[b]
      BY Zenon, <1>1, <1>9, AloneFacts
  <2>2. vp[b] = "idle"
      BY Zenon, <1>1, <1>9 DEF PersistOK
  <2>3. H(b)' = "drop_link" => db'[id'[b]] = NoRow
      BY <1>1, <2>1, Zenon DEF StoredBy
  <2>4. ASSUME db[id[b]] # NoRow \/ read[b] = NoRow
        PROVE  Own(b) \cap gone = {}
    <3>1. CASE id[b] # id[a]
      <4>1. Own(a) \cap Own(b) = {}
          BY Zenon, <3>1 DEF SharedOK
      <4> QED
          BY Zenon, <1>3, <4>1
    <3>2. CASE id[b] = id[a] /\ H(b) \in Without
      <4>1. Own(b) = {}
          BY Zenon, <3>2, OwnCases DEF Own
      <4> QED
          BY Zenon, <4>1
    <3>3. CASE id[b] = id[a] /\ H(b) \notin Without
      <4>1. read[b] = NoRow => H(a) \in Without
          BY Zenon, <1>9, <3>3 DEF NewOK
      <4> QED
          BY Zenon, <1>6, <2>4, <3>3, <4>1
    <3> QED
        BY Zenon, <3>1, <3>2, <3>3
  <2>5. ASSUME db[id[b]] # NoRow \/ read[b] = NoRow
        PROVE  Own(b) \subseteq RefsOf(read[b]) \cup vault'.has
    <3>1. Own(b) \subseteq RefsOf(read[b]) \cup vault.has
        BY Zenon, <2>2, <2>5 DEF StoredBy
    <3>2. None \notin Own(b)
        BY Zenon DEF Own, OwnOf, RefsOf
    <3> DEFINE S == Own(b) \cap vault.has
    <3>3. S \subseteq vault.has /\ None \notin S /\ S \cap gone = {}
        BY Zenon, <2>4, <2>5, <3>2
    <3>4. S \subseteq vault'.has
      <4> HIDE DEF S
      <4> QED
          BY Zenon, <1>5, <3>3
    <3> QED
        BY Zenon, <3>1, <3>4
  <2>6. db'[id'[b]] # NoRow \/ read'[b] = NoRow =>
          Own(b)' \subseteq RefsOf(read'[b]) \cup vault'.has
      BY Zenon, <1>1, <2>1, <2>5
  <2> QED
      BY Zenon, <2>1, <2>2, <2>3, <2>6, StoredIdle
<1> QED
    BY Zenon, <1>7, <1>8, <1>9

LEMMA StoredStep ==
    ASSUME TypeOK, PersistOK, NewOK, SharedOK, StoredOK,
           \/ Drops
           \/ \E a \in Actors : \/ GoesOn(a) \/ Gets(a) \/ Makes(a) \/ Saves(a) \/ Deletes(a)
                                \/ Loads(a) \/ Persists(a) \/ Renames(a)
    PROVE  StoredOK'
<1> SUFFICES ASSUME ~overlap', ~raced'
             PROVE  /\ \A i \in Ids : RefsOf(db'[i]) \subseteq vault'.has
                    /\ \A b \in Actors : StoredBy(b)'
    BY Zenon DEF StoredOK, StoredBy, RefsOf, NoRow
<1>1. ~overlap /\ ~raced
  <2>1. ASSUME overlap' = overlap, raced' = raced
        PROVE  ~overlap /\ ~raced
      BY Zenon, <2>1
  <2>2. CASE Drops
      BY Zenon, <2>1, <2>2 DEF Drops, Kept
  <2>3. ASSUME NEW a \in Actors, GoesOn(a) \/ Gets(a) \/ Makes(a)
        PROVE  ~overlap /\ ~raced
      BY Zenon, <2>1, <2>3 DEF GoesOn, Gets, Makes, Kept
  <2>4. ASSUME NEW a \in Actors, Deletes(a) \/ Persists(a) \/ Renames(a)
        PROVE  ~overlap /\ ~raced
      BY Zenon, <2>1, <2>4 DEF Deletes, Persists, Renames
  <2>5. ASSUME NEW a \in Actors, Saves(a)
        PROVE  ~overlap /\ ~raced
    <3>1. overlap' = overlap /\ raced' = (raced \/ db[id[a]] # read[a])
        BY Zenon, <2>5 DEF Saves
    <3> QED
        BY <3>1, Zenon
  <2>6. ASSUME NEW a \in Actors, Loads(a)
        PROVE  ~overlap /\ ~raced
    <3>1. raced' = raced /\ overlap' = (overlap \/ \E b \in Actors \ {a} : vp[b] # "idle")
        BY Zenon, <2>6 DEF Loads
    <3> QED
        BY <3>1, Zenon
  <2> QED
      BY Zenon, <2>2, <2>3, <2>4, <2>5, <2>6
<1>2. (\A i \in Ids : RefsOf(db[i]) \subseteq vault.has) /\ \A b \in Actors : StoredBy(b)
    BY Zenon, <1>1 DEF StoredOK
<1>3. CASE Drops
  <2>1. db' = db /\ vault' = vault /\ \A b \in Actors : Same(b) \/ Ends(b)
      BY Zenon, <1>3 DEF Drops, Kept
  <2>2. ASSUME NEW b \in Actors
        PROVE  StoredBy(b)'
    <3>1. CASE Same(b)
      <4>1. H(b) = "drop_link" => db'[id[b]] = NoRow
          BY Zenon, <1>2, <2>1 DEF StoredBy
      <4> QED
          BY Zenon, <1>2, <2>1, <3>1, <4>1, StoredStays
    <3>2. CASE Ends(b)
      <4>1. Own(b)' = {} /\ H(b)' # "drop_link" /\ vp'[b] = "idle"
          BY Zenon, <3>2, OwnCases DEF Ends, Own, Without, Boot
      <4> QED
          BY Zenon, <4>1, StoredIdle
    <3> QED
        BY Zenon, <2>1, <3>1, <3>2
  <2> QED
      BY Zenon, <1>2, <2>1, <2>2
<1>4. ASSUME NEW a \in Actors, GoesOn(a) \/ Gets(a) \/ Makes(a) \/ Loads(a)
      PROVE  /\ \A i \in Ids : RefsOf(db'[i]) \subseteq vault'.has
             /\ \A b \in Actors : StoredBy(b)'
  <2>1. Alone(a) /\ db' = db /\ vault' = vault
      BY Zenon, <1>4 DEF GoesOn, Gets, Makes, Loads, Kept
  <2>2. StoredBy(a)'
      BY Zenon, <1>2, <1>4, StoredLocalSteps
  <2> QED
      BY Zenon, <1>2, <2>1, <2>2, StoredLocal
<1>5. ASSUME NEW a \in Actors, Saves(a)
      PROVE  /\ \A i \in Ids : RefsOf(db'[i]) \subseteq vault'.has
             /\ \A b \in Actors : StoredBy(b)'
    BY Zenon, <1>2, <1>5, StoredSaves
<1>6. ASSUME NEW a \in Actors, Deletes(a)
      PROVE  /\ \A i \in Ids : RefsOf(db'[i]) \subseteq vault'.has
             /\ \A b \in Actors : StoredBy(b)'
    BY Zenon, <1>2, <1>6, StoredDeletes
<1>7. ASSUME NEW a \in Actors, Persists(a)
      PROVE  /\ \A i \in Ids : RefsOf(db'[i]) \subseteq vault'.has
             /\ \A b \in Actors : StoredBy(b)'
  <2>1. Alone(a) /\ db' = db /\ vault' = vault
      BY Zenon, <1>1, <1>7 DEF Persists
  <2>2. StoredBy(a)'
      BY Zenon, <1>1, <1>2, <1>7, StoredPersists
  <2> QED
      BY Zenon, <1>2, <2>1, <2>2, StoredLocal
<1>8. ASSUME NEW a \in Actors, Renames(a)
      PROVE  /\ \A i \in Ids : RefsOf(db'[i]) \subseteq vault'.has
             /\ \A b \in Actors : StoredBy(b)'
    BY Zenon, <1>1, <1>2, <1>8, StoredRenames
<1> QED
    BY Zenon, <1>3, <1>4, <1>5, <1>6, <1>7, <1>8

LEMMA StoredInit == Init => StoredOK
<1> SUFFICES ASSUME Init PROVE StoredOK
    BY Zenon
<1>1. \A a \in Actors : H(a) = "end" /\ vp[a] = "idle"
    BY Zenon DEF Init, H
<1>2. \A a \in Actors : Own(a) = {}
    BY Zenon, <1>1, OwnCases DEF Own, Without
<1>3. \A i \in Ids : RefsOf(db[i]) = {}
    BY Zenon, Values DEF Init
<1>4. \A a \in Actors : StoredBy(a)
    BY Zenon, <1>1, <1>2 DEF StoredBy
<1> QED
    BY Zenon, <1>3, <1>4 DEF StoredOK

\* The controller's commands store a secret before the row that names it and
\* delete it after the row (crates/core/src/app.rs), and the vault is replaced
\* by a rename (crates/secrets/src/encrypted_file.rs): as long as no two
\* changes of the vault overlap and no row is written over one that changed
\* meanwhile, every reference in the database leads to a secret, wherever a
\* process is killed.
THEOREM SecretsResolve == Spec => []RefsResolve
<1>1. Init => SecretsInv /\ StoredOK
    BY Zenon, TypeInit, PersistInit, RowsInit, StoredInit DEF SecretsInv
<1>2. SecretsInv /\ StoredOK /\ [Next]_vars => SecretsInv' /\ StoredOK'
  <2> SUFFICES ASSUME SecretsInv, StoredOK, [Next]_vars PROVE SecretsInv' /\ StoredOK'
      BY Zenon
  <2>1. SecretsInv'
      BY Zenon, SecretsStep
  <2>2. \/ Drops
        \/ \E a \in Actors : \/ GoesOn(a) \/ Gets(a) \/ Makes(a) \/ Saves(a) \/ Deletes(a)
                             \/ Loads(a) \/ Persists(a) \/ Renames(a)
      BY Zenon, StepKinds DEF SecretsInv
  <2>3. StoredOK'
      BY Zenon, <2>2, StoredStep DEF SecretsInv
  <2> QED
      BY Zenon, <2>1, <2>3
<1>3. StoredOK => RefsResolve
    BY Zenon DEF StoredOK, RefsResolve
<1> QED
    BY <1>1, <1>2, <1>3, PTL DEF Spec
=============================================================================
