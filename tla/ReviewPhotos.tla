---------------------------- MODULE ReviewPhotos ----------------------------
(***************************************************************************)
(* The photos of reviews: a blob store with no transactions beside a       *)
(* database.  A handler stores the new blob before its transaction,        *)
(* deletes it again if the transaction fails, and deletes the blob the     *)
(* review had before only after the commit.  The photo a shop shows is a   *)
(* derived value that the statistics worker recalculates (DerivedStats).   *)
(*                                                                         *)
(* A transaction on a review is one step here: it holds the review's row   *)
(* from its first UPDATE to its commit, and nothing else reads what it has *)
(* not committed (StatsPipeline has the steps in between).                 *)
(***************************************************************************)
EXTENDS Naturals, FiniteSets

CONSTANTS
    Reviews,
    Handlers,    \* requests served concurrently
    Keys,        \* the random keys a run may draw; none is drawn twice
    NewerThan,   \* [Reviews -> SUBSET Reviews], by created_at and id
    MaxFaults,   \* bound: errors, crashes and lost answers in a behaviour
    None

Operation == [kind : {"create", "update"}, review : Reviews, photo : BOOLEAN]
        \cup [kind : {"delete"}, review : Reviews, photo : {FALSE}]

ASSUME PhotosAssumption ==
    /\ NewerThan \in [Reviews -> SUBSET Reviews]
    /\ \A S \in SUBSET Reviews : S # {} => \E r \in S : NewerThan[r] \cap S = {}
    /\ MaxFaults \in Nat
    /\ None \notin Keys \cup Operation

VARIABLES
    row,     \* committed reviews: state and photo_key
    blobs,   \* the keys of the objects in the store
    drawn,   \* the keys drawn so far
    poster,  \* shop_stats.photo_key
    draft,   \* the photo a recalculation has read and not stored: none or one
    dirty,   \* a recalculation of the shop is requested
    pc, op, newKey, oldKey,   \* the handlers
    faults,
    stale,   \* history: commits that replaced another key than the one read
    unsure   \* history: reviews whose last photo came with a commit that had no answer

store       == <<row, blobs, drawn>>
shopVars    == <<poster, draft, dirty>>
handlerVars == <<pc, op, newKey, oldKey>>
historyVars == <<stale, unsure>>
vars        == <<store, shopVars, handlerVars, faults, historyVars>>

Init ==
    /\ row = [r \in Reviews |-> [state |-> "absent", key |-> None]]
    /\ blobs = {}
    /\ drawn = {}
    /\ poster = None
    /\ draft = {}
    /\ dirty = FALSE
    /\ pc = [h \in Handlers |-> "idle"]
    /\ op = [h \in Handlers |-> None]
    /\ newKey = [h \in Handlers |-> None]
    /\ oldKey = [h \in Handlers |-> None]
    /\ faults = 0
    /\ stale = 0
    /\ unsure = {}

Fault ==
    /\ faults < MaxFaults
    /\ faults' = faults + 1

\* The request is over: the handler forgets its keys.
Return(h) ==
    /\ pc' = [pc EXCEPT ![h] = "idle"]
    /\ op' = [op EXCEPT ![h] = None]
    /\ newKey' = [newKey EXCEPT ![h] = None]
    /\ oldKey' = [oldKey EXCEPT ![h] = None]

GoTo(h, to) ==
    /\ pc' = [pc EXCEPT ![h] = to]
    /\ UNCHANGED <<op, newKey, oldKey>>

-----------------------------------------------------------------------------
(* Handlers: usecase.Reviews.Create, Update and Delete                     *)

\* Before anything is written: an edit and a discard read the review, and its
\* photo_key with it; a create draws a review id of its own.
Load(h, o) ==
    /\ pc[h] = "idle"
    /\ IF o.kind = "create"
       THEN /\ row[o.review].state = "absent"
            /\ \A g \in Handlers : op[g] # None => op[g].review # o.review
       ELSE row[o.review].state = "kept"
    /\ pc' = [pc EXCEPT ![h] = IF o.photo THEN "put" ELSE "write"]
    /\ op' = [op EXCEPT ![h] = o]
    /\ oldKey' = [oldKey EXCEPT ![h] = row[o.review].key]
    /\ UNCHANGED <<store, shopVars, newKey, faults, historyVars>>

\* putPhoto: the blob is stored under a new random key.
PutPhoto(h) ==
    /\ pc[h] = "put"
    /\ \E k \in Keys \ drawn :
          /\ drawn' = drawn \cup {k}
          /\ blobs' = blobs \cup {k}
          /\ newKey' = [newKey EXCEPT ![h] = k]
    /\ pc' = [pc EXCEPT ![h] = "write"]
    /\ UNCHANGED <<row, shopVars, op, oldKey, faults, historyVars>>

\* Put returns an error: the request fails.  The object may be there all the
\* same (an answer lost on the way), and nobody deletes it.
PutFails(h) ==
    /\ pc[h] = "put"
    /\ Fault
    /\ \E k \in Keys \ drawn :
          /\ drawn' = drawn \cup {k}
          /\ blobs' \in {blobs, blobs \cup {k}}
    /\ Return(h)
    /\ UNCHANGED <<row, shopVars, historyVars>>

\* What the transaction leaves in the row.
NewRow(h) ==
    LET o == op[h] IN
    CASE o.kind = "create" -> [state |-> "kept", key |-> newKey[h]]
      [] o.kind = "update" ->
            [state |-> "kept", key |-> IF o.photo THEN newKey[h] ELSE row[o.review].key]
      [] o.kind = "delete" -> [row[o.review] EXCEPT !.state = "discarded"]

\* Does the row still match "discarded_at IS NULL"?
RowMatches(h) == op[h].kind = "create" \/ row[op[h].review].state = "kept"

\* The step takes a key out of use that the handler did not read.
LeavesAnother(h) ==
    /\ op[h].photo \/ op[h].kind = "delete"
    /\ row[op[h].review].key \notin {None, oldKey[h]}

\* The row, and the request to recalculate the shop, in one transaction.
Write(h) ==
    /\ row' = [row EXCEPT ![op[h].review] = NewRow(h)]
    /\ dirty' = TRUE
    /\ stale' = IF LeavesAnother(h) THEN stale + 1 ELSE stale
    /\ UNCHANGED <<poster, draft>>

CommitWrite(h) ==
    /\ pc[h] = "write"
    /\ RowMatches(h)
    /\ Write(h)
    /\ unsure' = IF op[h].photo THEN unsure \ {op[h].review} ELSE unsure
    /\ GoTo(h, "clean")
    /\ UNCHANGED <<blobs, drawn, faults>>

\* The review was discarded in the meantime: ErrReviewNotFound.
WriteRefused(h) ==
    /\ pc[h] = "write"
    /\ ~RowMatches(h)
    /\ GoTo(h, "undo")
    /\ UNCHANGED <<store, shopVars, faults, historyVars>>

\* A statement or the commit fails: rolled back.
WriteFails(h) ==
    /\ pc[h] = "write"
    /\ Fault
    /\ GoTo(h, "undo")
    /\ UNCHANGED <<store, shopVars, historyVars>>

\* The commit took effect, but Do returns an error: the connection was lost or
\* the request cancelled before the answer came.
CommitAnswerLost(h) ==
    /\ pc[h] = "write"
    /\ RowMatches(h)
    /\ Fault
    /\ Write(h)
    /\ unsure' = IF op[h].photo THEN unsure \cup {op[h].review} ELSE unsure
    /\ GoTo(h, "undo")
    /\ UNCHANGED <<blobs, drawn>>

\* Mutant of OldPhoto: an edit without a new photo deletes the photo, too.
MutOldPhoto(h) == IF op[h].kind \in {"update", "delete"} THEN {oldKey[h]} ELSE {}

\* Mutant of OldPhoto: a discard keeps its blob.
MutOldPhotoKept(h) ==
    IF op[h].kind = "update" /\ op[h].photo THEN {oldKey[h]} ELSE {}

\* The blob to delete after the commit: the one the handler read.
OldPhoto(h) ==
    IF op[h].kind = "delete" \/ (op[h].kind = "update" /\ op[h].photo)
    THEN {oldKey[h]} ELSE {}

\* The blob to delete after an error: the one just stored, if there is one.
NewPhoto(h) == {newKey[h]}

\* deletePhotoBestEffort; deleting a key that is not there is no error.
CleanUp(h) ==
    /\ \/ pc[h] = "clean" /\ blobs' = blobs \ OldPhoto(h)
       \/ pc[h] = "undo" /\ blobs' = blobs \ NewPhoto(h)
    /\ Return(h)
    /\ UNCHANGED <<row, drawn, shopVars, faults, historyVars>>

\* The delete fails and is only logged, or the process dies where it is.
Abandon(h) ==
    /\ pc[h] # "idle"
    /\ Fault
    /\ Return(h)
    /\ UNCHANGED <<store, shopVars, historyVars>>

-----------------------------------------------------------------------------
(* The shop's photo, recalculated as DerivedStats promises                 *)

WithPhoto == {r \in Reviews : row[r].state = "kept" /\ row[r].key # None}

\* Mutant of ShopPhoto: the review, not its key.
MutShopPhoto ==
    IF WithPhoto = {} THEN None
    ELSE CHOOSE r \in WithPhoto : NewerThan[r] \cap WithPhoto = {}

\* CalculateShopStat: the photo of the newest review that has one.
ShopPhoto ==
    IF WithPhoto = {} THEN None
    ELSE row[CHOOSE r \in WithPhoto : NewerThan[r] \cap WithPhoto = {}].key

ReadPoster ==
    /\ draft = {}
    /\ dirty
    /\ draft' = {ShopPhoto}
    /\ UNCHANGED <<store, poster, dirty, handlerVars, faults, historyVars>>

\* Mutant of StorePoster: the request is deleted whatever was written since.
MutStorePoster ==
    \E k \in draft :
        /\ poster' = k
        /\ draft' = {}
        /\ dirty' = FALSE
        /\ UNCHANGED <<store, handlerVars, faults, historyVars>>

\* The request stays if the row changed after the read.
StorePoster ==
    \E k \in draft :
        /\ poster' = k
        /\ draft' = {}
        /\ \/ dirty' = dirty
           \/ k = ShopPhoto /\ dirty' = FALSE
        /\ UNCHANGED <<store, handlerVars, faults, historyVars>>

DropPoster ==
    /\ draft # {}
    /\ Fault
    /\ draft' = {}
    /\ UNCHANGED <<store, poster, dirty, handlerVars, historyVars>>

-----------------------------------------------------------------------------
HandlerNext(h) ==
    \/ \E o \in Operation : Load(h, o)
    \/ PutPhoto(h) \/ PutFails(h)
    \/ CommitWrite(h) \/ WriteRefused(h) \/ WriteFails(h) \/ CommitAnswerLost(h)
    \/ CleanUp(h) \/ Abandon(h)

Next ==
    \/ \E h \in Handlers : HandlerNext(h)
    \/ ReadPoster \/ StorePoster \/ DropPoster

Spec == Init /\ [][Next]_vars

-----------------------------------------------------------------------------
(* Properties                                                              *)

TypeOK ==
    /\ row \in [Reviews -> [state : {"absent", "kept", "discarded"}, key : Keys \cup {None}]]
    /\ blobs \subseteq drawn
    /\ drawn \subseteq Keys
    /\ poster \in Keys \cup {None}
    /\ draft \subseteq Keys \cup {None}
    /\ dirty \in BOOLEAN
    /\ pc \in [Handlers -> {"idle", "put", "write", "clean", "undo"}]
    /\ op \in [Handlers -> Operation \cup {None}]
    /\ newKey \in [Handlers -> Keys \cup {None}]
    /\ oldKey \in [Handlers -> Keys \cup {None}]
    /\ faults \in Nat
    /\ stale \in Nat
    /\ unsure \subseteq Reviews

\* A visible review never points to a photo that is gone, however edits,
\* discards, failures and crashes interleave, except when the answer to the
\* commit of this photo was lost.
PhotoExists ==
    \A r \in WithPhoto \ unsure : row[r].key \in blobs

\* "A failing delete leaks a file, it never breaks the review"
\* (deletePhotoBestEffort): the same without an exception.
NeverBroken == \A r \in WithPhoto : row[r].key \in blobs

\* A shop shows a photo that is gone only while its recalculation is requested,
\* or when it is the photo of such a review.
PosterExists ==
    poster # None /\ poster \notin blobs =>
        dirty \/ \E r \in WithPhoto \cap unsure : row[r].key = poster

Orphans == blobs \ {row[r].key : r \in WithPhoto}

\* When no request is under way, every blob that no review shows is paid for
\* by one failure, or by one edit or discard that met a photo other than the
\* one it had read: nothing else leaks.
LeaksAccounted ==
    (\A h \in Handlers : pc[h] = "idle") =>
        Cardinality(Orphans) <= faults + stale
=============================================================================
