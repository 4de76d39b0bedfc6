------------------------- MODULE ReviewPhotos_proofs -------------------------
(* Proofs about ReviewPhotos: no failure, crash or interleaving takes the     *)
(* photo of a visible review away, but for reviews whose photo came with a    *)
(* commit whose answer was lost.                                              *)
EXTENDS ReviewPhotos, TLAPS, FiniteSetTheorems

\* A busy handler has an operation; before the put it holds no new key; a
\* handler that writes a photo has stored it.
OpsOK ==
    \A h \in Handlers :
        /\ pc[h] # "idle" => op[h] # None
        /\ pc[h] \in {"idle", "put"} => newKey[h] = None
        /\ newKey[h] # None => newKey[h] \in drawn /\ op[h].photo
        /\ pc[h] = "put" => op[h].photo
        /\ oldKey[h] # None => oldKey[h] \in drawn
        /\ pc[h] = "write" /\ newKey[h] # None => newKey[h] \in blobs

\* No key is in two rows or with two handlers as new; what a handler may still
\* write no row shows, and what it may delete after an error only an unsure one.
KeysOK ==
    /\ \A r \in Reviews : row[r].key # None =>
          /\ row[r].key \in drawn
          /\ \A s \in Reviews \ {r} : row[s].key # row[r].key
    /\ \A h \in Handlers : newKey[h] # None =>
          /\ \A g \in Handlers \ {h} : newKey[g] # newKey[h]
          /\ pc[h] = "write" => /\ \A r \in Reviews : row[r].key # newKey[h]
                                /\ \A g \in Handlers : oldKey[g] # newKey[h]
          /\ pc[h] = "undo" => \A r \in Reviews \ unsure : row[r].key # newKey[h]
    /\ \A h \in Handlers : oldKey[h] # None =>
          \A r \in Reviews : row[r].key = oldKey[h] => r = op[h].review

\* What a handler is about to delete after its commit, no review shows.
OldUnused ==
    \A h \in Handlers : pc[h] = "clean" =>
        \A r \in WithPhoto : row[r].key \notin OldPhoto(h)

\* Statistics without a request show the newest photo.
PosterOK == ~dirty => draft = {} /\ poster = ShopPhoto

Inv ==
    /\ TypeOK
    /\ OpsOK
    /\ KeysOK
    /\ OldUnused
    /\ PhotoExists
    /\ PosterOK

-----------------------------------------------------------------------------
\* None is no key and no operation.
LEMMA NoneKeys == None \notin Keys /\ None \notin Operation
  BY PhotosAssumption

\* The shop's photo is the photo of a visible review.
LEMMA ShopPhotoShown ==
    ASSUME TypeOK
    PROVE  ShopPhoto = None \/ \E r \in WithPhoto : ShopPhoto = row[r].key
<1>1. CASE WithPhoto = {}
  BY <1>1 DEF ShopPhoto
<1>2. CASE WithPhoto # {}
  <2>1. WithPhoto \in SUBSET Reviews
    BY DEF WithPhoto
  <2>2. \E r \in WithPhoto : NewerThan[r] \cap WithPhoto = {}
    BY <1>2, <2>1, PhotosAssumption
  <2>3. (CHOOSE r \in WithPhoto : NewerThan[r] \cap WithPhoto = {}) \in WithPhoto
    BY <2>2
  <2> QED
    BY <1>2, <2>3 DEF ShopPhoto
<1> QED
  BY <1>1, <1>2

\* The photo a shop shows is a key, or there is none.
LEMMA ShopPhotoType == ASSUME TypeOK PROVE ShopPhoto \in Keys \cup {None}
  BY ShopPhotoShown DEF TypeOK, WithPhoto

\* The shop's photo depends on the rows alone.
LEMMA ShopPhotoSame == ASSUME row' = row PROVE ShopPhoto' = ShopPhoto /\ WithPhoto' = WithPhoto
  BY DEF ShopPhoto, WithPhoto

\* A store without reviews and photos satisfies the invariant.
LEMMA InvInit == Init => Inv
<1> SUFFICES ASSUME Init PROVE Inv
  OBVIOUS
<1>1. WithPhoto = {}
  BY DEF Init, WithPhoto
<1>2. ShopPhoto = None
  BY <1>1 DEF ShopPhoto
<1> QED
  BY <1>1, <1>2, PhotosAssumption
     DEF Init, Inv, TypeOK, OpsOK, KeysOK, OldUnused, PhotoExists, PosterOK

-----------------------------------------------------------------------------
\* Starting an operation keeps the invariant.
LEMMA LoadKeeps ==
    ASSUME Inv, NEW h \in Handlers, NEW o \in Operation, Load(h, o)
    PROVE  Inv'
<1> USE DEF Inv, store, shopVars, handlerVars, historyVars
<1> DEFINE r0 == o.review
<1>1. o # None /\ r0 \in Reviews /\ o.photo \in BOOLEAN
  BY NoneKeys DEF Operation
<1>2. /\ pc' = [pc EXCEPT ![h] = IF o.photo THEN "put" ELSE "write"]
      /\ op' = [op EXCEPT ![h] = o]
      /\ oldKey' = [oldKey EXCEPT ![h] = row[r0].key]
      /\ UNCHANGED <<row, blobs, drawn, poster, draft, dirty, newKey, unsure>>
  BY DEF Load
<1>3. pc[h] = "idle" /\ newKey[h] = None
  BY DEF Load, OpsOK
<1>4. row[r0].key \in Keys \cup {None} /\ (row[r0].key # None => row[r0].key \in drawn)
  BY <1>1 DEF TypeOK, KeysOK
<1>5. TypeOK'
  BY <1>1, <1>2, <1>4 DEF TypeOK, Load
<1>6. OpsOK'
  BY <1>1, <1>2, <1>3, <1>4 DEF TypeOK, OpsOK
<1>7. KeysOK'
  <2>1. \A g \in Handlers : newKey[g] # None /\ pc[g] = "write" => row[r0].key # newKey[g]
    BY <1>1 DEF KeysOK
  <2>2. \A g \in Handlers : newKey[g] # None => g # h /\ pc'[g] = pc[g]
    BY <1>2, <1>3 DEF TypeOK
  <2>3. \A r \in Reviews : row[r].key = row[r0].key /\ row[r0].key # None => r = r0
    BY <1>1 DEF KeysOK
  <2> QED
    BY <1>2, <1>3, <2>1, <2>2, <2>3 DEF KeysOK, TypeOK
<1>8. OldUnused'
  BY <1>2, <1>3 DEF OldUnused, OldPhoto, WithPhoto, TypeOK
<1>9. PhotoExists' /\ PosterOK'
  BY <1>2, ShopPhotoSame DEF PhotoExists, PosterOK
<1> QED
  BY <1>5, <1>6, <1>7, <1>8, <1>9

\* Uploading a photo keeps the invariant.
LEMMA PutKeeps ==
    ASSUME Inv, NEW h \in Handlers, PutPhoto(h)
    PROVE  Inv'
<1> USE DEF Inv, store, shopVars, handlerVars, historyVars
<1>1. PICK k \in Keys \ drawn :
        /\ drawn' = drawn \cup {k} /\ blobs' = blobs \cup {k}
        /\ newKey' = [newKey EXCEPT ![h] = k]
  BY DEF PutPhoto
<1>2. /\ pc[h] = "put" /\ pc' = [pc EXCEPT ![h] = "write"]
      /\ UNCHANGED <<row, poster, draft, dirty, op, oldKey, unsure>>
  BY DEF PutPhoto
<1>3. k # None /\ k \in drawn' /\ k \in blobs'
  BY <1>1, NoneKeys
<1>4. \A g \in Handlers : newKey[g] # k /\ oldKey[g] # k
  BY <1>1, <1>3 DEF OpsOK
<1>5. \A r \in Reviews : row[r].key # k
  BY <1>1, <1>3 DEF KeysOK
<1>6. TypeOK'
  BY <1>1, <1>2 DEF TypeOK, PutPhoto
<1>7. OpsOK'
  BY <1>1, <1>2, <1>3 DEF OpsOK, TypeOK
<1>8. KeysOK'
  BY <1>1, <1>2, <1>3, <1>4, <1>5 DEF KeysOK, TypeOK
<1>9. OldUnused'
  BY <1>2 DEF OldUnused, OldPhoto, WithPhoto, TypeOK
<1>10. PhotoExists' /\ PosterOK'
  BY <1>1, <1>2, ShopPhotoSame DEF PhotoExists, PosterOK
<1> QED
  BY <1>6, <1>7, <1>8, <1>9, <1>10

\* A request that ends may leave a new blob behind, and deletes none.
LEMMA ReturnKeeps ==
    ASSUME Inv, NEW h \in Handlers, Return(h), drawn \subseteq drawn', drawn' \subseteq Keys,
           blobs \subseteq blobs', blobs' \subseteq drawn', faults' \in Nat,
           UNCHANGED <<row, shopVars, historyVars>>
    PROVE  Inv'
<1> USE DEF Inv, shopVars, historyVars
<1>1. TypeOK'
  BY NoneKeys DEF TypeOK, Return
<1>2. OpsOK'
  BY DEF OpsOK, Return, TypeOK
<1>3. KeysOK'
  BY DEF KeysOK, Return, TypeOK
<1>4. OldUnused'
  BY DEF OldUnused, OldPhoto, WithPhoto, Return, TypeOK
<1>5. PhotoExists' /\ PosterOK'
  BY ShopPhotoSame DEF PhotoExists, PosterOK, WithPhoto
<1> QED
  BY <1>1, <1>2, <1>3, <1>4, <1>5

\* A commit, with its answer (to = "clean") or without it (to = "undo").
LEMMA WriteKeeps ==
    ASSUME Inv, NEW h \in Handlers, pc[h] = "write", RowMatches(h), Write(h),
           NEW to \in {"clean", "undo"}, GoTo(h, to), faults' \in Nat,
           UNCHANGED <<blobs, drawn>>,
           unsure' = IF ~op[h].photo THEN unsure
                     ELSE IF to = "clean" THEN unsure \ {op[h].review}
                     ELSE unsure \cup {op[h].review}
    PROVE  Inv'
<1> USE DEF Inv, store, shopVars, handlerVars, historyVars
<1> DEFINE o == op[h]
           r0 == o.review
<1>1. o \in Operation /\ r0 \in Reviews /\ o.photo \in BOOLEAN
  <2>1. op[h] # None
    BY DEF OpsOK
  <2> QED
    BY <2>1 DEF TypeOK, Operation
<1>2. /\ pc[h] = "write" /\ pc' = [pc EXCEPT ![h] = to]
      /\ row' = [row EXCEPT ![r0] = NewRow(h)] /\ dirty' = TRUE
      /\ UNCHANGED <<blobs, drawn, poster, draft, op, newKey, oldKey>>
  BY DEF Write, GoTo
<1>3. row[r0] \in [state : {"absent", "kept", "discarded"}, key : Keys \cup {None}]
  BY <1>1 DEF TypeOK
<1>4. /\ NewRow(h) \in [state : {"absent", "kept", "discarded"}, key : Keys \cup {None}]
      /\ NewRow(h).key \in {row[r0].key, newKey[h]}
      /\ NewRow(h).state = "kept" => o.kind # "delete"
      /\ NewRow(h).state = "kept" /\ NewRow(h).key # None =>
            \/ NewRow(h).key = newKey[h]
            \/ NewRow(h).key = row[r0].key /\ row[r0].state = "kept" /\ ~o.photo
  <2>1. CASE o.kind = "create"
    BY <1>1, <2>1 DEF NewRow, TypeOK
  <2>2. CASE o.kind = "update"
    BY <1>1, <1>3, <2>2 DEF NewRow, TypeOK, RowMatches
  <2>3. CASE o.kind = "delete"
    <3>1. NewRow(h) = [row[r0] EXCEPT !.state = "discarded"]
      BY <2>3 DEF NewRow
    <3> QED
      BY <1>3, <2>3, <3>1
  <2> QED
    BY <1>1, <2>1, <2>2, <2>3 DEF Operation
<1>5. newKey[h] # None => /\ newKey[h] \in blobs /\ newKey[h] \in drawn
                          /\ \A r \in Reviews : row[r].key # newKey[h]
                          /\ \A g \in Handlers : oldKey[g] # newKey[h]
                          /\ \A g \in Handlers \ {h} : newKey[g] # newKey[h]
  BY <1>2 DEF OpsOK, KeysOK
<1>6. TypeOK'
  <2>1. stale' \in Nat
    BY DEF TypeOK, Write
  <2>2. unsure' \subseteq Reviews
    BY <1>1 DEF TypeOK
  <2> QED
    BY <1>1, <1>2, <1>4, <2>1, <2>2 DEF TypeOK
<1>7. OpsOK'
  BY <1>1, <1>2 DEF OpsOK, TypeOK
<1>8. KeysOK'
  <2>1. \A r \in Reviews : row'[r].key # None =>
           /\ row'[r].key \in drawn
           /\ \A s \in Reviews \ {r} : row'[s].key # row'[r].key
    BY <1>1, <1>2, <1>4, <1>5 DEF KeysOK, TypeOK
  <2>2. \A g \in Handlers : pc'[g] = "write" => pc[g] = "write" /\ g # h
    BY <1>2 DEF TypeOK
  <2>3. \A g \in Handlers : newKey[g] # None =>
           /\ \A f \in Handlers \ {g} : newKey[f] # newKey[g]
           /\ pc'[g] = "write" => /\ \A r \in Reviews : row'[r].key # newKey[g]
                                  /\ \A f \in Handlers : oldKey[f] # newKey[g]
    BY <1>1, <1>2, <1>4, <2>2 DEF KeysOK, TypeOK
  <2>5. ASSUME NEW g \in Handlers, newKey[g] # None, pc'[g] = "undo",
               NEW r \in Reviews \ unsure'
        PROVE  row'[r].key # newKey[g]
    <3>1. CASE g = h
      <4>1. o.photo
        BY <2>5, <3>1 DEF OpsOK
      <4>2. to = "undo"
        BY <1>2, <2>5, <3>1 DEF TypeOK
      <4>3. r # r0
        BY <1>1, <2>5, <4>1, <4>2
      <4> QED
        BY <1>1, <1>2, <1>5, <2>5, <3>1, <4>3 DEF TypeOK
    <3>2. CASE g # h
      <4>1. pc[g] = "undo" /\ newKey[g] # newKey[h]
        BY <1>2, <2>5, <3>2 DEF TypeOK, KeysOK
      <4>2. CASE r = r0 /\ NewRow(h).key # row[r0].key
        BY <1>1, <1>2, <1>4, <4>1, <4>2 DEF TypeOK
      <4>3. CASE r \notin unsure
        <5>1. row[r].key # newKey[g]
          BY <2>5, <4>1, <4>3 DEF KeysOK
        <5> QED
          BY <1>1, <1>2, <1>4, <4>1, <5>1 DEF TypeOK
      <4>4. CASE r \in unsure /\ ~(r = r0 /\ NewRow(h).key # row[r0].key)
        <5>1. r = r0 /\ o.photo /\ to = "clean"
          BY <2>5, <4>4
        <5>2. NewRow(h).key = newKey[h]
          BY <1>1, <5>1 DEF NewRow, Operation
        <5> QED
          BY <1>1, <1>2, <4>1, <5>1, <5>2 DEF TypeOK
      <4> QED
        BY <4>2, <4>3, <4>4
    <3> QED
      BY <3>1, <3>2
  <2>4. \A g \in Handlers : oldKey[g] # None =>
           \A r \in Reviews : row'[r].key = oldKey[g] => r = op[g].review
    BY <1>1, <1>2, <1>4, <1>5 DEF KeysOK, TypeOK
  <2> QED
    BY <1>2, <2>1, <2>3, <2>4, <2>5 DEF KeysOK
<1>9. OldUnused'
  <2> SUFFICES ASSUME NEW g \in Handlers, pc'[g] = "clean", NEW r \in Reviews,
                      row'[r].state = "kept", row'[r].key # None, row'[r].key \in OldPhoto(g)'
               PROVE  FALSE
    BY DEF OldUnused, WithPhoto
  <2>1. OldPhoto(g)' = OldPhoto(g) /\ OldPhoto(g) \subseteq {oldKey[g]}
    BY <1>2 DEF OldPhoto
  <2>2. row'[r].key = oldKey[g] /\ oldKey[g] # None /\ r = op[g].review
    BY <1>2, <1>8, <2>1 DEF KeysOK
  <2>3. CASE g # h
    <3>1. pc[g] = "clean"
      BY <1>2, <2>3 DEF TypeOK
    <3>2. CASE r # r0 \/ (NewRow(h).key = row[r0].key /\ row[r0].state = "kept")
      <4>1. row[r].state = "kept" /\ row[r].key = row'[r].key
        BY <1>1, <1>2, <3>2 DEF TypeOK
      <4> QED
        BY <2>1, <3>1, <4>1 DEF OldUnused, WithPhoto
    <3>3. CASE r = r0 /\ NewRow(h).key = newKey[h]
      <4>1. row'[r].key = newKey[h]
        BY <1>1, <1>2, <3>3 DEF TypeOK
      <4> QED
        BY <1>5, <2>2, <4>1
    <3>4. CASE r = r0
      <4>1. row'[r] = NewRow(h)
        BY <1>1, <1>2, <3>4 DEF TypeOK
      <4>2. row'[r].state = "kept" /\ row'[r].key # None
        BY <2>2
      <4>3. NewRow(h).state = "kept" /\ NewRow(h).key # None
        BY <4>1, <4>2
      <4> QED
        BY <1>4, <3>2, <3>3, <3>4, <4>3
    <3> QED
      BY <3>2, <3>4
  <2>4. CASE g = h
    <3>1. r = r0 /\ row'[r] = NewRow(h)
      BY <1>1, <1>2, <2>2, <2>4 DEF TypeOK
    <3>2. OldPhoto(h) # {}
      BY <2>1, <2>4
    <3>3. o.photo
      BY <1>4, <3>1, <3>2 DEF OldPhoto
    <3>4. row'[r].key = newKey[h]
      BY <1>4, <3>1, <3>3
    <3> QED
      BY <1>5, <2>2, <2>4, <3>4
  <2> QED
    BY <2>3, <2>4
<1>10. PhotoExists'
  <2> SUFFICES ASSUME NEW r \in Reviews \ unsure', row'[r].state = "kept", row'[r].key # None
               PROVE  row'[r].key \in blobs
    BY <1>2 DEF PhotoExists, WithPhoto
  <2>1. CASE row'[r].key = newKey[h]
    BY <1>5, <2>1
  <2>2. CASE row[r].state = "kept" /\ row'[r].key = row[r].key /\ r \notin unsure
    BY <2>2 DEF PhotoExists, WithPhoto
  <2>3. CASE r \in unsure
    <3>1. r = r0 /\ o.photo
      BY <2>3
    <3> QED
      BY <1>1, <1>2, <1>4, <2>1, <3>1 DEF TypeOK
  <2> QED
    BY <1>1, <1>2, <1>4, <2>1, <2>2, <2>3 DEF TypeOK
<1>11. PosterOK'
  BY <1>2 DEF PosterOK
<1> QED
  BY <1>6, <1>7, <1>8, <1>9, <1>10, <1>11

\* After an error the handler goes on to delete what it has stored.
LEMMA UndoKeeps ==
    ASSUME Inv, NEW h \in Handlers, pc[h] = "write", GoTo(h, "undo"), faults' \in Nat,
           UNCHANGED <<store, shopVars, historyVars>>
    PROVE  Inv'
<1> USE DEF Inv, store, shopVars, historyVars, GoTo
<1>1. TypeOK'
  BY DEF TypeOK
<1>2. OpsOK' /\ KeysOK'
  BY DEF OpsOK, KeysOK, TypeOK
<1>3. OldUnused'
  BY DEF OldUnused, OldPhoto, WithPhoto, TypeOK
<1>4. PhotoExists' /\ PosterOK'
  BY ShopPhotoSame DEF PhotoExists, PosterOK
<1> QED
  BY <1>1, <1>2, <1>3, <1>4

\* Deleting a replaced photo keeps the invariant.
LEMMA CleanKeeps ==
    ASSUME Inv, NEW h \in Handlers, CleanUp(h)
    PROVE  Inv'
<1> USE DEF Inv, shopVars, handlerVars, historyVars
<1>1. PICK K : /\ blobs' = blobs \ K
               /\ \/ pc[h] = "clean" /\ K = OldPhoto(h)
                  \/ pc[h] = "undo" /\ K = NewPhoto(h)
  BY DEF CleanUp
<1>2. Return(h) /\ UNCHANGED <<row, drawn, poster, draft, dirty, faults, stale, unsure>>
  BY DEF CleanUp
<1>3. \A r \in WithPhoto \ unsure : row[r].key \notin K
  BY <1>1 DEF OldUnused, NewPhoto, KeysOK, WithPhoto
<1>4. \A g \in Handlers \ {h} : pc[g] = "write" /\ newKey[g] # None => newKey[g] \notin K
  BY <1>1 DEF OldPhoto, NewPhoto, KeysOK
<1>5. TypeOK'
  BY <1>1, <1>2, NoneKeys DEF TypeOK, Return
<1>6. OpsOK'
  BY <1>1, <1>2, <1>4 DEF OpsOK, Return, TypeOK
<1>7. KeysOK'
  BY <1>2 DEF KeysOK, Return, TypeOK
<1>8. OldUnused'
  BY <1>2 DEF OldUnused, OldPhoto, WithPhoto, Return, TypeOK
<1>9. PhotoExists'
  BY <1>1, <1>2, <1>3, ShopPhotoSame DEF PhotoExists
<1>10. PosterOK'
  BY <1>2, ShopPhotoSame DEF PosterOK
<1> QED
  BY <1>5, <1>6, <1>7, <1>8, <1>9, <1>10

\* The three steps of the shop's poster keep the invariant.
LEMMA PosterKeeps ==
    ASSUME Inv, ReadPoster \/ StorePoster \/ DropPoster
    PROVE  Inv'
<1> USE DEF Inv, store, handlerVars, historyVars
<1>1. UNCHANGED <<row, blobs, drawn, pc, op, newKey, oldKey, unsure>>
  BY DEF ReadPoster, StorePoster, DropPoster
<1>2. TypeOK'
  <2>1. poster' \in Keys \cup {None} /\ draft' \subseteq Keys \cup {None}
    BY ShopPhotoType DEF TypeOK, ReadPoster, StorePoster, DropPoster
  <2>2. dirty' \in BOOLEAN
    BY DEF TypeOK, ReadPoster, StorePoster, DropPoster
  <2>3. faults' \in Nat /\ stale' = stale
    BY DEF TypeOK, ReadPoster, StorePoster, DropPoster, Fault
  <2> QED
    BY <1>1, <2>1, <2>2, <2>3 DEF TypeOK
<1>3. OpsOK' /\ KeysOK'
  BY <1>1 DEF OpsOK, KeysOK
<1>4. OldUnused' /\ PhotoExists'
  BY <1>1, ShopPhotoSame DEF OldUnused, OldPhoto, PhotoExists
<1>5. PosterOK'
  BY <1>1, ShopPhotoSame DEF PosterOK, ReadPoster, StorePoster, DropPoster, TypeOK
<1> QED
  BY <1>2, <1>3, <1>4, <1>5

\* Every step keeps the invariant.
LEMMA InvNext == Inv /\ [Next]_vars => Inv'
<1> SUFFICES ASSUME Inv, [Next]_vars PROVE Inv'
  OBVIOUS
<1>1. ASSUME NEW h \in Handlers, HandlerNext(h) PROVE Inv'
  <2>1. ASSUME NEW o \in Operation, Load(h, o) PROVE Inv'
    BY <2>1, LoadKeeps
  <2>2. CASE PutPhoto(h)
    BY <2>2, PutKeeps
  <2>3. CASE PutFails(h)
    <3>1. PICK k \in Keys \ drawn : drawn' = drawn \cup {k} /\ blobs' \in {blobs, blobs \cup {k}}
      BY <2>3 DEF PutFails
    <3>2. Return(h) /\ faults' = faults + 1 /\ UNCHANGED <<row, shopVars, historyVars>>
      BY <2>3 DEF PutFails, Fault
    <3>3. /\ drawn \subseteq drawn' /\ drawn' \subseteq Keys
          /\ blobs \subseteq blobs' /\ blobs' \subseteq drawn' /\ faults' \in Nat
      BY <3>1, <3>2 DEF Inv, TypeOK
    <3> QED
      BY <3>2, <3>3, ReturnKeeps
  <2>4. CASE CommitWrite(h)
    <3>1. GoTo(h, "clean") /\ UNCHANGED <<blobs, drawn, faults>>
      BY <2>4 DEF CommitWrite
    <3>2. faults' \in Nat
      BY <3>1 DEF Inv, TypeOK
    <3>3. unsure' = IF op[h].photo THEN unsure \ {op[h].review} ELSE unsure
      BY <2>4 DEF CommitWrite
    <3> QED
      BY <2>4, <3>1, <3>2, <3>3, WriteKeeps DEF CommitWrite
  <2>8. CASE CommitAnswerLost(h)
    <3>1. GoTo(h, "undo") /\ UNCHANGED <<blobs, drawn>> /\ faults' \in Nat
      BY <2>8 DEF CommitAnswerLost, Fault, Inv, TypeOK
    <3>2. unsure' = IF op[h].photo THEN unsure \cup {op[h].review} ELSE unsure
      BY <2>8 DEF CommitAnswerLost
    <3> QED
      BY <2>8, <3>1, <3>2, WriteKeeps DEF CommitAnswerLost
  <2>5. CASE WriteRefused(h) \/ WriteFails(h)
    <3>1. pc[h] = "write" /\ GoTo(h, "undo") /\ faults' \in Nat /\ UNCHANGED <<store, shopVars, historyVars>>
      BY <2>5 DEF WriteRefused, WriteFails, Fault, Inv, TypeOK
    <3> QED
      BY <3>1, UndoKeeps
  <2>6. CASE CleanUp(h)
    BY <2>6, CleanKeeps
  <2>7. CASE Abandon(h)
    <3>1. Return(h) /\ faults' \in Nat /\ UNCHANGED <<store, shopVars, historyVars>>
      BY <2>7 DEF Abandon, Fault, Inv, TypeOK
    <3>2. drawn \subseteq drawn' /\ drawn' \subseteq Keys /\ blobs \subseteq blobs' /\ blobs' \subseteq drawn'
      BY <3>1 DEF store, Inv, TypeOK
    <3> QED
      BY <3>1, <3>2, ReturnKeeps DEF store
  <2> QED
    BY <1>1, <2>1, <2>2, <2>3, <2>4, <2>5, <2>6, <2>7, <2>8 DEF HandlerNext
<1>2. CASE ReadPoster \/ StorePoster \/ DropPoster
  BY <1>2, PosterKeeps
<1>3. CASE UNCHANGED vars
  <2>1. UNCHANGED <<row, blobs, drawn, poster, draft, dirty, pc, op, newKey, oldKey, faults, stale, unsure>>
    BY <1>3 DEF vars, store, shopVars, handlerVars, historyVars
  <2> QED
    BY <2>1, ShopPhotoSame DEF Inv, TypeOK, OpsOK, KeysOK, OldUnused, OldPhoto, PhotoExists, PosterOK
<1> QED
  BY <1>1, <1>2, <1>3 DEF Next

\* The kinds of the variables, for any handlers, reviews and keys.
THEOREM PhotosTypeCorrect == Spec => []TypeOK
<1>1. Inv => TypeOK
  BY DEF Inv
<1> QED
  BY InvInit, InvNext, <1>1, PTL DEF Spec

\* A visible review's photo is in the store, unless the answer to the commit that
\* brought it was lost: neither an edit that failed, nor
\* two edits and a discard that race, delete a blob that a review still shows.
THEOREM PhotosStay == Spec => []PhotoExists
<1>1. Inv => PhotoExists
  BY DEF Inv
<1> QED
  BY InvInit, InvNext, <1>1, PTL DEF Spec

\* A shop whose photo is gone has a recalculation waiting, or shows a review of
\* that kind.
THEOREM PostersStay == Spec => []PosterExists
<1>1. Inv => PosterExists
  BY ShopPhotoShown DEF Inv, PosterExists, PosterOK, PhotoExists
<1> QED
  BY InvInit, InvNext, <1>1, PTL DEF Spec

-----------------------------------------------------------------------------
(* What leaks                                                                *)

\* Before its first commit a create is alone on a review that is not there yet.
CreatesAlone ==
    /\ \A r \in Reviews : row[r].state = "absent" => row[r].key = None
    /\ \A h \in Handlers : pc[h] \in {"put", "write"} /\ op[h].kind = "create" =>
          /\ row[op[h].review].state = "absent"
          /\ \A g \in Handlers \ {h} : op[g] # None => op[g].review # op[h].review

\* The blobs h still has to delete, or to bring into its row.
Due(h) == IF pc[h] \in {"write", "undo"} THEN NewPhoto(h)
          ELSE IF pc[h] = "clean" THEN OldPhoto(h) ELSE {}

\* The orphans no handler will ever care for.
Leaked == {k \in blobs : /\ \A r \in WithPhoto : row[r].key # k
                         /\ \A h \in Handlers : k \notin Due(h)}

\* Each of them is paid for.
Paid == IsFiniteSet(Leaked) /\ Cardinality(Leaked) <= faults + stale

\* An operation's fields.
LEMMA OperationShape ==
    ASSUME NEW o \in Operation
    PROVE  /\ o.review \in Reviews /\ o.photo \in BOOLEAN
           /\ o.kind \in {"create", "update", "delete"}
           /\ o.kind = "delete" => ~o.photo
           /\ o # None
  BY NoneKeys DEF Operation

\* Creates stay alone.
LEMMA AloneNext ==
    ASSUME Inv, CreatesAlone, [Next]_vars
    PROVE  CreatesAlone'
<1>0. /\ row \in [Reviews -> [state : {"absent", "kept", "discarded"}, key : Keys \cup {None}]]
      /\ pc \in [Handlers -> {"idle", "put", "write", "clean", "undo"}]
      /\ op \in [Handlers -> Operation \cup {None}]
      /\ \A h \in Handlers : pc[h] # "idle" => op[h] \in Operation
  BY DEF Inv, TypeOK, OpsOK
<1>1. CASE UNCHANGED <<row, pc, op>>
  BY <1>1 DEF CreatesAlone
<1>2. ASSUME NEW h \in Handlers, NEW o \in Operation, Load(h, o) PROVE CreatesAlone'
  <2>1. /\ UNCHANGED row /\ op' = [op EXCEPT ![h] = o]
        /\ \A g \in Handlers : g # h => pc'[g] = pc[g]
        /\ o.kind = "create" => /\ row[o.review].state = "absent"
                                /\ \A g \in Handlers : op[g] # None => op[g].review # o.review
        /\ o.kind # "create" => row[o.review].state = "kept"
    BY <1>0, <1>2 DEF Load, store
  <2>2. ASSUME NEW f \in Handlers, pc'[f] \in {"put", "write"}, op'[f].kind = "create",
               NEW g \in Handlers \ {f}, op'[g] # None
        PROVE  row[op'[f].review].state = "absent" /\ op'[g].review # op'[f].review
    <3>1. CASE f = h
      BY <1>0, <2>1, <2>2, <3>1
    <3>2. CASE f # h
      <4>1. /\ pc[f] \in {"put", "write"} /\ op[f].kind = "create" /\ op'[f] = op[f]
            /\ op[f] # None /\ g # f
        BY <1>0, <2>1, <2>2, <3>2, OperationShape
      <4>2. /\ row[op[f].review].state = "absent"
            /\ \A e \in Handlers \ {f} : op[e] # None => op[e].review # op[f].review
        BY <4>1 DEF CreatesAlone
      <4>3. CASE g = h
        BY <1>0, <2>1, <4>1, <4>2, <4>3
      <4>4. CASE g # h
        <5>1. op'[g] = op[g]
          BY <1>0, <2>1, <4>4
        <5> QED
          BY <2>2, <4>1, <4>2, <5>1
      <4> QED
        BY <4>3, <4>4
    <3> QED
      BY <3>1, <3>2
  <2>3. ASSUME NEW f \in Handlers, pc'[f] \in {"put", "write"}, op'[f].kind = "create"
        PROVE  row[op'[f].review].state = "absent"
    BY <1>0, <2>1, <2>3 DEF CreatesAlone
  <2> QED
    BY <2>1, <2>2, <2>3 DEF CreatesAlone
<1>3. ASSUME NEW h \in Handlers, PutPhoto(h) PROVE CreatesAlone'
  <2>1. /\ UNCHANGED <<row, op>> /\ pc[h] = "put"
        /\ \A g \in Handlers : pc'[g] \in {"put", "write"} => pc[g] \in {"put", "write"}
    BY <1>0, <1>3 DEF PutPhoto
  <2> QED
    BY <2>1 DEF CreatesAlone
<1>4. ASSUME NEW h \in Handlers, Return(h), UNCHANGED row PROVE CreatesAlone'
  <2>1. \A g \in Handlers : /\ g # h => pc'[g] = pc[g] /\ op'[g] = op[g]
                            /\ pc'[h] = "idle" /\ op'[h] = None
    BY <1>0, <1>4 DEF Return
  <2> QED
    BY <1>4, <2>1 DEF CreatesAlone
<1>5. ASSUME NEW h \in Handlers, NEW to \in {"clean", "undo"}, GoTo(h, to), UNCHANGED row
      PROVE  CreatesAlone'
  <2>1. /\ UNCHANGED op
        /\ \A g \in Handlers : pc'[g] \in {"put", "write"} => g # h /\ pc[g] = pc'[g]
    BY <1>0, <1>5 DEF GoTo
  <2> QED
    BY <1>5, <2>1 DEF CreatesAlone
<1>6. ASSUME NEW h \in Handlers, NEW to \in {"clean", "undo"}, GoTo(h, to),
             pc[h] = "write", RowMatches(h), Write(h)
      PROVE  CreatesAlone'
  <2> DEFINE r0 == op[h].review
  <2>1. /\ UNCHANGED op
        /\ \A g \in Handlers : pc'[g] \in {"put", "write"} => g # h /\ pc[g] = pc'[g]
    BY <1>0, <1>6 DEF GoTo
  <2>2. op[h] \in Operation /\ r0 \in Reviews
    BY <1>0, <1>6, OperationShape
  <2>3. row'[r0].state # "absent" /\ \A r \in Reviews : r # r0 => row'[r] = row[r]
    BY <1>0, <1>6, <2>2, OperationShape DEF Write, NewRow
  <2>4. op[h].kind # "create" => row[r0].state = "kept"
    BY <1>6 DEF RowMatches
  <2>5. ASSUME NEW g \in Handlers, pc'[g] \in {"put", "write"}, op[g].kind = "create"
        PROVE  op[g].review # r0
    <3>1. g # h /\ pc[g] \in {"put", "write"} /\ op[g] # None /\ op[h] # None
      BY <1>0, <2>1, <2>2, <2>5, OperationShape
    <3> QED
      BY <2>5, <3>1 DEF CreatesAlone
  <2>6. \A g \in Handlers : pc'[g] \in {"put", "write"} => op[g].review \in Reviews
    BY <1>0, <2>1, OperationShape
  <2> QED
    BY <2>1, <2>3, <2>5, <2>6 DEF CreatesAlone
<1>7. ASSUME NEW h \in Handlers, HandlerNext(h) PROVE CreatesAlone'
  <2>1. PutFails(h) \/ CleanUp(h) \/ Abandon(h) => Return(h) /\ UNCHANGED row
    BY DEF PutFails, CleanUp, Abandon, store
  <2>2. WriteRefused(h) \/ WriteFails(h) => GoTo(h, "undo") /\ UNCHANGED row
    BY DEF WriteRefused, WriteFails, store
  <2>3. CommitWrite(h) => GoTo(h, "clean") /\ pc[h] = "write" /\ RowMatches(h) /\ Write(h)
    BY DEF CommitWrite
  <2>4. CommitAnswerLost(h) => GoTo(h, "undo") /\ pc[h] = "write" /\ RowMatches(h) /\ Write(h)
    BY DEF CommitAnswerLost
  <2> QED
    BY <1>2, <1>3, <1>4, <1>5, <1>6, <1>7, <2>1, <2>2, <2>3, <2>4 DEF HandlerNext
<1>8. CASE ReadPoster \/ StorePoster \/ DropPoster
  BY <1>1, <1>8 DEF ReadPoster, StorePoster, DropPoster, store, handlerVars
<1> QED
  BY <1>1, <1>7, <1>8 DEF Next, vars, store, handlerVars

\* A subset of a finite set and one more element has at most one more element.
LEMMA OneMore ==
    ASSUME NEW S, IsFiniteSet(S), NEW x, NEW T, T \subseteq S \cup {x}
    PROVE  /\ IsFiniteSet(T) /\ Cardinality(T) \in Nat /\ Cardinality(S) \in Nat
           /\ Cardinality(T) <= Cardinality(S) + 1
           /\ T \subseteq S => Cardinality(T) <= Cardinality(S)
<1>1. IsFiniteSet(S \cup {x}) /\ Cardinality(S \cup {x}) \in Nat /\ Cardinality(S) \in Nat
  BY FS_AddElement, FS_CardinalityType
<1>2. Cardinality(S \cup {x}) <= Cardinality(S) + 1
  BY <1>1, FS_AddElement
<1>3. IsFiniteSet(T) /\ Cardinality(T) \in Nat /\ Cardinality(T) <= Cardinality(S \cup {x})
  BY <1>1, FS_Subset, FS_CardinalityType
<1>4. T \subseteq S => Cardinality(T) <= Cardinality(S)
  BY FS_Subset
<1> QED
  BY <1>1, <1>2, <1>3, <1>4

\* A step that leaks at most one blob, and that only for a fault or a stale
\* replacement, pays for it.
LEMMA PaidKeeps ==
    ASSUME Inv, Inv', Paid, NEW x, Leaked' \subseteq Leaked \cup {x},
           faults' >= faults, stale' >= stale,
           Leaked' \subseteq Leaked \/ faults' > faults \/ stale' > stale
    PROVE  Paid'
<1>1. faults \in Nat /\ stale \in Nat /\ faults' \in Nat /\ stale' \in Nat
  BY DEF Inv, TypeOK
<1>2. \A T : T \subseteq Leaked \cup {x} =>
        /\ IsFiniteSet(T) /\ Cardinality(T) \in Nat /\ Cardinality(Leaked) \in Nat
        /\ Cardinality(T) <= Cardinality(Leaked) + 1
        /\ T \subseteq Leaked => Cardinality(T) <= Cardinality(Leaked)
  BY OneMore DEF Paid
<1>3. /\ IsFiniteSet(Leaked') /\ Cardinality(Leaked') \in Nat /\ Cardinality(Leaked) \in Nat
      /\ Cardinality(Leaked') <= Cardinality(Leaked) + 1
      /\ Leaked' \subseteq Leaked => Cardinality(Leaked') <= Cardinality(Leaked)
  BY <1>2
<1> QED
  BY <1>1, <1>3 DEF Paid

\* What a commit leaves: the replaced photo is the handler's to delete, or it
\* is another one than it had read.
LEMMA CommitLeaks ==
    ASSUME Inv, CreatesAlone, NEW h \in Handlers, NEW to \in {"clean", "undo"},
           pc[h] = "write", RowMatches(h), Write(h), GoTo(h, to), UNCHANGED blobs
    PROVE  /\ Leaked' \subseteq Leaked \cup {row[op[h].review].key}
           /\ to = "clean" => Leaked' \subseteq Leaked \/ stale' > stale
           /\ stale' >= stale
<1> DEFINE r0 == op[h].review
           k0 == row[op[h].review].key
<1>0. /\ row \in [Reviews -> [state : {"absent", "kept", "discarded"}, key : Keys \cup {None}]]
      /\ pc \in [Handlers -> {"idle", "put", "write", "clean", "undo"}]
      /\ blobs \subseteq Keys /\ None \notin Keys
      /\ stale \in Nat
      /\ op[h] \in Operation
      /\ newKey[h] # None => op[h].photo
  BY NoneKeys DEF Inv, TypeOK, OpsOK
<1>1. /\ r0 \in Reviews /\ op[h].photo \in BOOLEAN /\ (op[h].kind = "delete" => ~op[h].photo)
      /\ op[h].kind \in {"create", "update", "delete"}
  BY <1>0, OperationShape
<1>2. /\ UNCHANGED <<op, newKey, oldKey>> /\ pc'[h] = to
      /\ \A g \in Handlers : g # h => pc'[g] = pc[g]
  BY <1>0 DEF GoTo
<1>3. \A r \in Reviews : r # r0 => row'[r] = row[r]
  BY <1>0, <1>1 DEF Write
<1>4. /\ op[h].kind = "create" => row'[r0] = [state |-> "kept", key |-> newKey[h]]
      /\ op[h].kind = "update" /\ op[h].photo => row'[r0] = [state |-> "kept", key |-> newKey[h]]
      /\ op[h].kind = "update" /\ ~op[h].photo => row'[r0].state = "kept" /\ row'[r0].key = k0
  BY <1>0, <1>1 DEF Write, NewRow
<1>5. op[h].kind = "create" => k0 = None
  BY <1>0, <1>1 DEF CreatesAlone
<1>6. op[h].photo => row'[r0].state = "kept" /\ row'[r0].key = newKey[h]
  BY <1>1, <1>4
<1>7. \A g \in Handlers : g # h => Due(g)' = Due(g)
  BY <1>2 DEF Due, OldPhoto, NewPhoto
<1>8. Due(h) = {newKey[h]}
  BY DEF Due, NewPhoto
<1>9. ASSUME NEW k \in blobs', k \in Leaked', k # k0 PROVE k \in Leaked
  <2>1. k \in blobs /\ k # None
    BY <1>0, <1>9
  <2>2. \A r \in WithPhoto : row[r].key # k
    <3>1. ASSUME NEW r \in WithPhoto, row[r].key = k PROVE FALSE
      <4>1. r # r0
        BY <1>9, <3>1
      <4>2. r \in WithPhoto' /\ row'[r].key = k
        BY <1>3, <3>1, <4>1 DEF WithPhoto
      <4> QED
        BY <1>9, <4>2 DEF Leaked
    <3> QED
      BY <3>1
  <2>3. k # newKey[h]
    <3>1. ASSUME k = newKey[h] PROVE FALSE
      <4>1. r0 \in WithPhoto' /\ row'[r0].key = k
        BY <1>0, <1>1, <1>6, <2>1, <3>1 DEF WithPhoto
      <4> QED
        BY <1>9, <4>1 DEF Leaked
    <3> QED
      BY <3>1
  <2>4. \A g \in Handlers : k \notin Due(g)
    <3>1. \A g \in Handlers : k \notin Due(g)'
      BY <1>9 DEF Leaked
    <3> QED
      BY <1>7, <1>8, <2>3, <3>1
  <2> QED
    BY <2>1, <2>2, <2>4 DEF Leaked
<1>10. Leaked' \subseteq blobs'
  BY DEF Leaked
<1>11. stale' >= stale /\ (LeavesAnother(h) => stale' > stale)
  BY <1>0 DEF Write
<1>12. ASSUME to = "clean", ~LeavesAnother(h), k0 \in Leaked' PROVE k0 \in Leaked
  <2>1. k0 \in blobs /\ k0 # None
    BY <1>0, <1>12 DEF Leaked
  <2>2. CASE op[h].photo \/ op[h].kind = "delete"
    <3>1. k0 = oldKey[h] /\ op[h].kind # "create"
      BY <1>5, <1>12, <2>1, <2>2 DEF LeavesAnother
    <3>2. k0 \in Due(h)'
      BY <1>1, <1>2, <1>12, <2>2, <3>1 DEF Due, OldPhoto
    <3> QED
      BY <1>12, <3>2 DEF Leaked
  <2>3. CASE ~op[h].photo /\ op[h].kind # "delete"
    <3>1. row'[r0].state = "kept" /\ row'[r0].key = k0
      BY <1>1, <1>4, <1>5, <2>1, <2>3
    <3>2. r0 \in WithPhoto'
      BY <1>1, <2>1, <3>1 DEF WithPhoto
    <3> QED
      BY <1>12, <3>1, <3>2 DEF Leaked
  <2> QED
    BY <2>2, <2>3
<1> QED
  BY <1>9, <1>10, <1>11, <1>12

\* Every step pays for what it leaks.
LEMMA PaidNext ==
    ASSUME Inv, Inv', CreatesAlone, Paid, [Next]_vars
    PROVE  Paid'
<1>0. /\ pc \in [Handlers -> {"idle", "put", "write", "clean", "undo"}]
      /\ op \in [Handlers -> Operation \cup {None}]
      /\ newKey \in [Handlers -> Keys \cup {None}] /\ oldKey \in [Handlers -> Keys \cup {None}]
      /\ blobs \subseteq drawn /\ drawn \subseteq Keys /\ None \notin Keys
      /\ faults \in Nat /\ stale \in Nat /\ faults' \in Nat
  BY NoneKeys DEF Inv, TypeOK
<1>1. CASE UNCHANGED <<row, blobs, handlerVars, stale>> /\ faults' >= faults
  <2>1. WithPhoto' = WithPhoto /\ \A h \in Handlers : Due(h)' = Due(h)
    BY <1>1 DEF WithPhoto, Due, OldPhoto, NewPhoto, handlerVars
  <2>2. Leaked' = Leaked
    BY <1>1, <2>1 DEF Leaked
  <2> QED
    BY <1>0, <1>1, <2>2, PaidKeeps
<1>2. ASSUME NEW h \in Handlers, UNCHANGED <<row, stale>>,
             \A g \in Handlers : g # h =>
                 pc'[g] = pc[g] /\ op'[g] = op[g] /\ newKey'[g] = newKey[g] /\ oldKey'[g] = oldKey[g],
             faults' >= faults, NEW x,
             \A k \in blobs' \ {x} : k \in blobs /\ (k \in Due(h) => k \in Due(h)'),
             faults' > faults \/ x = None \/ x \notin Leaked'
      PROVE  Paid'
  <2>1. WithPhoto' = WithPhoto
    BY <1>2 DEF WithPhoto
  <2>2. \A g \in Handlers : g # h => Due(g)' = Due(g)
    BY <1>2 DEF Due, OldPhoto, NewPhoto
  <2>3. ASSUME NEW k \in Leaked', k # x PROVE k \in Leaked
    <3>1. k \in blobs' /\ \A g \in Handlers : k \notin Due(g)'
      BY DEF Leaked
    <3>2. k \in blobs /\ \A g \in Handlers : k \notin Due(g)
      BY <1>2, <2>2, <2>3, <3>1
    <3>3. \A r \in WithPhoto : row[r].key # k
      BY <1>2, <2>1 DEF Leaked
    <3> QED
      BY <3>2, <3>3 DEF Leaked
  <2>4. None \notin Leaked'
    BY NoneKeys DEF Leaked, Inv, TypeOK
  <2>5. Leaked' \subseteq Leaked \cup {x} /\ (faults' > faults \/ Leaked' \subseteq Leaked)
    BY <1>2, <2>3, <2>4
  <2> QED
    BY <1>0, <1>2, <2>5, PaidKeeps
<1>3. ASSUME NEW h \in Handlers, Return(h)
      PROVE  \A g \in Handlers : g # h =>
                 pc'[g] = pc[g] /\ op'[g] = op[g] /\ newKey'[g] = newKey[g] /\ oldKey'[g] = oldKey[g]
  BY <1>0, <1>3 DEF Return
<1>4. ASSUME NEW h \in Handlers, HandlerNext(h) PROVE Paid'
  <2>1. ASSUME NEW o \in Operation, Load(h, o) PROVE Paid'
    <3>1. /\ UNCHANGED <<row, blobs, newKey, faults, stale>> /\ pc[h] = "idle"
          /\ \A g \in Handlers : g # h =>
                 pc'[g] = pc[g] /\ op'[g] = op[g] /\ newKey'[g] = newKey[g] /\ oldKey'[g] = oldKey[g]
      BY <1>0, <2>1 DEF Load, store, historyVars
    <3>2. Due(h) = {}
      BY <3>1 DEF Due
    <3> QED
      BY <1>0, <1>2, <3>1, <3>2
  <2>2. CASE PutPhoto(h)
    <3>1. PICK k \in Keys \ drawn : blobs' = blobs \cup {k} /\ newKey' = [newKey EXCEPT ![h] = k]
      BY <2>2 DEF PutPhoto
    <3>2. /\ UNCHANGED <<row, op, oldKey, faults, stale>> /\ pc[h] = "put"
          /\ pc' = [pc EXCEPT ![h] = "write"]
      BY <2>2 DEF PutPhoto, historyVars
    <3>3. Due(h) = {} /\ k \in Due(h)'
      BY <1>0, <3>1, <3>2 DEF Due, NewPhoto
    <3>4. k \notin Leaked'
      BY <3>3 DEF Leaked
    <3> QED
      BY <1>0, <1>2, <3>1, <3>2, <3>3, <3>4
  <2>3. CASE PutFails(h)
    <3>1. PICK k \in Keys \ drawn : blobs' \in {blobs, blobs \cup {k}}
      BY <2>3 DEF PutFails
    <3>2. UNCHANGED <<row, stale>> /\ pc[h] = "put" /\ faults' > faults /\ Return(h)
      BY <1>0, <2>3 DEF PutFails, Fault, historyVars
    <3>3. Due(h) = {}
      BY <3>2 DEF Due
    <3>4. \A b \in blobs' \ {k} : b \in blobs /\ (b \in Due(h) => b \in Due(h)')
      BY <3>1, <3>3
    <3>5. faults' >= faults
      BY <1>0, <3>2
    <3>6. \A g \in Handlers : g # h =>
             pc'[g] = pc[g] /\ op'[g] = op[g] /\ newKey'[g] = newKey[g] /\ oldKey'[g] = oldKey[g]
      BY <1>3, <3>2
    <3> QED
      BY <1>2, <3>2, <3>4, <3>5, <3>6
  <2>4. CASE CommitWrite(h)
    <3>1. /\ Leaked' \subseteq Leaked \cup {row[op[h].review].key}
          /\ Leaked' \subseteq Leaked \/ stale' > stale
          /\ stale' >= stale /\ faults' = faults
      BY <2>4, CommitLeaks DEF CommitWrite
    <3>2. faults' >= faults
      BY <1>0, <3>1
    <3> QED
      BY <3>1, <3>2, PaidKeeps
  <2>5. CASE CommitAnswerLost(h)
    <3>1. /\ Leaked' \subseteq Leaked \cup {row[op[h].review].key}
          /\ stale' >= stale /\ faults' > faults
      BY <1>0, <2>5, CommitLeaks DEF CommitAnswerLost, Fault
    <3>2. faults' >= faults
      BY <1>0, <3>1
    <3> QED
      BY <3>1, <3>2, PaidKeeps
  <2>6. CASE WriteRefused(h) \/ WriteFails(h)
    <3>1. /\ UNCHANGED <<row, blobs, op, newKey, oldKey, stale>> /\ faults' >= faults
          /\ pc[h] = "write" /\ pc' = [pc EXCEPT ![h] = "undo"]
      BY <1>0, <2>6 DEF WriteRefused, WriteFails, Fault, GoTo, store, historyVars
    <3>2. Due(h)' = Due(h)
      BY <1>0, <3>1 DEF Due, NewPhoto
    <3> QED
      BY <1>0, <1>2, <3>1, <3>2
  <2>7. CASE CleanUp(h)
    <3>1. UNCHANGED <<row, faults, stale>> /\ Return(h) /\ blobs' = blobs \ Due(h)
      BY <2>7 DEF CleanUp, Due, historyVars
    <3> QED
      BY <1>0, <1>2, <1>3, <3>1
  <2>8. CASE Abandon(h)
    <3>1. UNCHANGED <<row, blobs, stale>> /\ Return(h) /\ faults' > faults
      BY <1>0, <2>8 DEF Abandon, Fault, store, historyVars
    <3>2. PICK x : Due(h) \subseteq {x}
      BY DEF Due, OldPhoto, NewPhoto
    <3>3. \A b \in blobs' \ {x} : b \in blobs /\ (b \in Due(h) => b \in Due(h)')
      BY <3>1, <3>2
    <3>4. faults' >= faults
      BY <1>0, <3>1
    <3>5. \A g \in Handlers : g # h =>
             pc'[g] = pc[g] /\ op'[g] = op[g] /\ newKey'[g] = newKey[g] /\ oldKey'[g] = oldKey[g]
      BY <1>3, <3>1
    <3> QED
      BY <1>2, <3>1, <3>3, <3>4, <3>5
  <2> QED
    BY <1>4, <2>1, <2>2, <2>3, <2>4, <2>5, <2>6, <2>7, <2>8 DEF HandlerNext
<1>5. CASE ReadPoster \/ StorePoster \/ DropPoster
  BY <1>0, <1>1, <1>5 DEF ReadPoster, StorePoster, DropPoster, Fault, store, historyVars
<1>6. CASE UNCHANGED vars
  BY <1>0, <1>1, <1>6 DEF vars, store, historyVars
<1> QED
  BY <1>4, <1>5, <1>6 DEF Next

\* When nothing is under way, every blob no review shows was paid for by one
\* fault, or by one commit that replaced another photo than the one it had read.
THEOREM LeaksPaid == Spec => []LeaksAccounted
<1>1. Init => CreatesAlone /\ Paid
  <2>1. Init => CreatesAlone
    BY DEF Init, CreatesAlone
  <2>2. Init => Leaked = {} /\ faults + stale = 0
    BY DEF Init, Leaked
  <2> QED
    BY <2>1, <2>2, FS_EmptySet DEF Paid
<1>2. Inv /\ Paid => LeaksAccounted
  <2>1. ASSUME \A h \in Handlers : pc[h] = "idle" PROVE Orphans = Leaked
    BY <2>1 DEF Orphans, Leaked, Due
  <2> QED
    BY <2>1 DEF Paid, LeaksAccounted
<1>3. Inv /\ CreatesAlone /\ Paid /\ [Next]_vars => Inv' /\ CreatesAlone' /\ Paid'
  BY InvNext, AloneNext, PaidNext
<1> QED
  BY InvInit, <1>1, <1>2, <1>3, PTL DEF Spec
=============================================================================
