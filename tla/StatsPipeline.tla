--------------------------- MODULE StatsPipeline ---------------------------
(***************************************************************************)
(* The statistics recalculation pipeline.  A request handler writes a      *)
(* review (or withdraws a user) and, in the same READ COMMITTED            *)
(* transaction, registers one recalculation request per affected burger    *)
(* and shop.  Worker loops list the due requests outside any transaction   *)
(* and recalculate each target in a transaction of its own: lock the       *)
(* target's row, read the reviews, store the statistics, and delete the    *)
(* request if its version is still the one taken.                          *)
(*                                                                         *)
(* Burgers and shops have two tables of requests and two workers of the    *)
(* same shape; both are modelled by one function over Targets.             *)
(* The variables review, withdrawn, request and stats hold what is         *)
(* COMMITTED; what a transaction has written but not committed lives in    *)
(* the process (op, pend, taken facts) until its commit.                   *)
(***************************************************************************)
EXTENDS Naturals, FiniteSets

CONSTANTS
    Reviews, Users, Burgers, Shops,
    Ratings,
    Handlers,     \* requests the API server serves concurrently
    Workers,      \* StatsWorkerLoop goroutines (one per instance)
    Author,       \* [Reviews -> Users]
    BurgerOf,     \* [Reviews -> Burgers]
    ShopsOf,      \* [Burgers -> SUBSET Shops], the table shops_burgers
    Posted,       \* reviews already posted, and counted, when the run starts
    Rank,         \* the order of the UUIDs of burgers and of shops
    Batch,        \* StatsWorkerConfig.Batch
    MaxAttempts,  \* StatsWorkerConfig.MaxAttempts
    Overlap,      \* users who may post a review while their own withdrawal runs
    MaxOps,       \* bound: requests served in a behaviour
    MaxFaults,    \* bound: errors, crashes and cancellations in a behaviour
    None

Targets == Burgers \cup Shops

Operation ==
         [kind : {"create", "update"}, review : Reviews, rating : Ratings]
    \cup [kind : {"delete"}, review : Reviews]
    \cup [kind : {"withdraw"}, user : Users]
Request == [version : Nat, attempts : Nat, due : BOOLEAN]
Job     == [target : Targets, version : Nat, attempts : Nat]
Fact    == Reviews \X Ratings

ASSUME PipelineAssumption ==
    /\ Burgers \cap Shops = {}
    /\ Author \in [Reviews -> Users]
    /\ BurgerOf \in [Reviews -> Burgers]
    /\ ShopsOf \in [Burgers -> SUBSET Shops]
    /\ Posted \subseteq Reviews
    /\ Rank \in [Targets -> Nat]
    /\ Overlap \subseteq Users
    /\ Batch \in Nat \ {0}
    /\ MaxAttempts \in Nat \ {0}
    /\ MaxOps \in Nat
    /\ MaxFaults \in Nat
    /\ Ratings # {}

\* Ids are ordered without ties, and finitely many transactions run.
ASSUME OrderAssumption ==
    /\ \A s, t \in Burgers : Rank[s] = Rank[t] => s = t
    /\ \A s, t \in Shops : Rank[s] = Rank[t] => s = t
    /\ IsFiniteSet(Handlers) /\ IsFiniteSet(Workers)
    /\ Handlers \cap Workers = {}

ASSUME NoneAssumption ==
    None \notin Operation \cup Request \cup Job

VARIABLES
    review,     \* committed rows: state and rating of every review
    withdrawn,  \* users whose discarded_at is set
    request,    \* committed rows of the two *_recalc_requests tables
    stats,      \* the reviews the stored statistics of a target were computed from
    seq,        \* the version sequence (nextval survives a rollback)
    hpc, op, todo, pend,            \* the handlers' transactions
    wpc, wlist, wjob, wfacts, whit, \* the workers
    ops, faults

dbVars      == <<review, withdrawn, request, stats>>
handlerVars == <<hpc, op, todo, pend, ops>>
workerVars  == <<wpc, wlist, wjob, wfacts, whit>>
vars        == <<dbVars, seq, handlerVars, workerVars, faults>>

-----------------------------------------------------------------------------
TargetsOf(r) == {BurgerOf[r]} \cup ShopsOf[BurgerOf[r]]

\* The reviews of t that are not discarded, with their ratings.
KeptFacts(t) ==
    {f \in Fact : /\ t \in TargetsOf(f[1])
                  /\ review[f[1]].state = "kept"
                  /\ review[f[1]].rating = f[2]}

\* Mutant of Facts: the statement forgets "u.discarded_at IS NULL".
MutFacts(t) == KeptFacts(t)

\* What a statement run now reads: discarded users' reviews are left out.
Facts(t) == {f \in KeptFacts(t) : Author[f[1]] \notin withdrawn}

\* Mutant of ReviewedBurgers: the query selects the reviews' ids.
MutReviewedBurgers(u) == {r \in Reviews : Author[r] = u /\ review[r].state = "kept"}

ReviewedBurgers(u) ==
    {BurgerOf[r] : r \in {x \in Reviews : Author[x] = u /\ review[x].state = "kept"}}

ShopsOfBurgers(B) == UNION {ShopsOf[b] : b \in B}

-----------------------------------------------------------------------------
(* Row locks, held from the statement that takes them to the end of the    *)
(* transaction.                                                            *)

InTx(h) == hpc[h] \in {"listing", "burgers", "shops"}

\* The row (of reviews or of users) that both transactions update.
SameSubject(g, h) ==
    IF op[h].kind = "withdraw"
    THEN op[g].kind = "withdraw" /\ op[g].user = op[h].user
    ELSE op[g].kind # "withdraw" /\ op[g].review = op[h].review

SubjectLockedByOther(h) ==
    \E g \in Handlers \ {h} : InTx(g) /\ SameSubject(g, h)

HoldsTarget(w, t) ==
    wpc[w] \in {"recalc", "complete", "commit"} /\ wjob[w].target = t

HoldsRequestRow(w, t) ==
    wpc[w] = "commit" /\ whit[w] /\ wjob[w].target = t

RequestRowFree(t) ==
    /\ \A g \in Handlers : pend[g][t] = 0
    /\ \A w \in Workers : ~HoldsRequestRow(w, t)

-----------------------------------------------------------------------------
Init ==
    /\ review = [r \in Reviews |->
                    [state |-> IF r \in Posted THEN "kept" ELSE "absent",
                     rating |-> CHOOSE q \in Ratings : TRUE]]
    /\ withdrawn = {}
    /\ request = [t \in Targets |-> None]
    /\ stats = [t \in Targets |-> Facts(t)]
    /\ seq = 0
    /\ hpc = [h \in Handlers |-> "idle"]
    /\ op = [h \in Handlers |-> None]
    /\ todo = [h \in Handlers |-> {}]
    /\ pend = [h \in Handlers |-> [t \in Targets |-> 0]]
    /\ wpc = [w \in Workers |-> "rest"]
    /\ wlist = [w \in Workers |-> {}]
    /\ wjob = [w \in Workers |-> None]
    /\ wfacts = [w \in Workers |-> {}]
    /\ whit = [w \in Workers |-> FALSE]
    /\ ops = 0
    /\ faults = 0

-----------------------------------------------------------------------------
(* Request handlers                                                        *)

\* An assumption about clients, not a check of the code: a user outside
\* Overlap does not post a review and withdraw at the same time.
NoOverlap(o, u) ==
    /\ o.kind = "withdraw" =>
          \A g \in Handlers : op[g] # None /\ op[g].kind = "create" =>
             Author[op[g].review] # u
    /\ o.kind = "create" =>
          \A g \in Handlers : op[g] # None /\ op[g].kind = "withdraw" =>
             op[g].user # u

EndTx(h) ==
    /\ hpc' = [hpc EXCEPT ![h] = "idle"]
    /\ op' = [op EXCEPT ![h] = None]
    /\ todo' = [todo EXCEPT ![h] = {}]
    /\ pend' = [pend EXCEPT ![h] = [t \in Targets |-> 0]]

\* usecase.Reviews.Create/Update/Delete and usecase.Users.Delete before their
\* transaction: the bearer token names a user who has not withdrawn, and the
\* review to edit or discard is visible.  A review id is new at every create.
Load(h, o) ==
    LET u == IF o.kind = "withdraw" THEN o.user ELSE Author[o.review]
    IN  /\ hpc[h] = "idle"
        /\ ops < MaxOps
        /\ u \notin withdrawn
        /\ o.kind = "create" =>
              /\ review[o.review].state = "absent"
              /\ \A g \in Handlers :
                    op[g] # None /\ op[g].kind = "create" => op[g].review # o.review
        /\ o.kind \in {"update", "delete"} => review[o.review].state = "kept"
        /\ u \notin Overlap => NoOverlap(o, u)
        /\ hpc' = [hpc EXCEPT ![h] = "loaded"]
        /\ op' = [op EXCEPT ![h] = o]
        /\ ops' = ops + 1
        /\ UNCHANGED <<dbVars, seq, todo, pend, workerVars, faults>>

\* WHERE discarded_at IS NULL: what an UPDATE of the subject needs to match.
SubjectExists(h) ==
    /\ op[h].kind \in {"update", "delete"} => review[op[h].review].state = "kept"
    /\ op[h].kind = "withdraw" => op[h].user \notin withdrawn

\* The statement that writes the subject: INSERT, or the column-limited
\* UPDATE.  It waits for the row.
WriteSubject(h) ==
    /\ hpc[h] = "loaded"
    /\ ~SubjectLockedByOther(h)
    /\ SubjectExists(h)
    /\ IF op[h].kind = "withdraw"
       THEN /\ hpc' = [hpc EXCEPT ![h] = "listing"]
            /\ UNCHANGED todo
       ELSE /\ hpc' = [hpc EXCEPT ![h] = "burgers"]
            /\ todo' = [todo EXCEPT ![h] = {BurgerOf[op[h].review]}]
    /\ UNCHANGED <<dbVars, seq, op, pend, ops, workerVars, faults>>

\* The UPDATE matched no row (ErrReviewNotFound, ErrUserNotFound): rollback.
SubjectGone(h) ==
    /\ hpc[h] = "loaded"
    /\ ~SubjectLockedByOther(h)
    /\ ~SubjectExists(h)
    /\ EndTx(h)
    /\ UNCHANGED <<dbVars, seq, ops, workerVars, faults>>

\* RequestRecalculationReviewedBy: the burgers a withdrawing user reviewed,
\* in the snapshot of this statement.
ListReviewedBurgers(h) ==
    /\ hpc[h] = "listing"
    /\ hpc' = [hpc EXCEPT ![h] = "burgers"]
    /\ todo' = [todo EXCEPT ![h] = ReviewedBurgers(op[h].user)]
    /\ UNCHANGED <<dbVars, seq, op, pend, ops, workerVars, faults>>

\* ListBurgerShopIDs of the burgers: for a withdrawal the burgers are listed
\* again, by a later statement than the one above.
ListShops(h) ==
    /\ hpc[h] = "burgers"
    /\ todo[h] = {}
    /\ hpc' = [hpc EXCEPT ![h] = "shops"]
    /\ todo' = [todo EXCEPT ![h] =
                  ShopsOfBurgers(IF op[h].kind = "withdraw"
                                 THEN ReviewedBurgers(op[h].user)
                                 ELSE {BurgerOf[op[h].review]})]
    /\ UNCHANGED <<dbVars, seq, op, pend, ops, workerVars, faults>>

\* Mutant of NextTargets: the requests are registered in any order.
MutNextTargets(h) == todo[h]

\* Requests are registered in ascending order of id (slices.Sort).
NextTargets(h) == {t \in todo[h] : \A s \in todo[h] : Rank[t] <= Rank[s]}

\* The upsert of one request.  It waits for the row
\* and draws a version; the row is locked until the transaction ends.
RequestRecalc(h, t) ==
    /\ hpc[h] \in {"burgers", "shops"}
    /\ t \in NextTargets(h)
    /\ RequestRowFree(t)
    /\ seq' = seq + 1
    /\ pend' = [pend EXCEPT ![h][t] = seq + 1]
    /\ todo' = [todo EXCEPT ![h] = @ \ {t}]
    /\ UNCHANGED <<dbVars, hpc, op, ops, workerVars, faults>>

\* Mutant of CommitWrite: the upsert keeps a request that is already there.
MutCommitWrite(h) ==
    /\ hpc[h] = "shops"
    /\ todo[h] = {}
    /\ review' = IF op[h].kind = "withdraw" THEN review
                 ELSE [review EXCEPT ![op[h].review] =
                         IF op[h].kind = "delete" THEN [@ EXCEPT !.state = "discarded"]
                         ELSE [state |-> "kept", rating |-> op[h].rating]]
    /\ withdrawn' = IF op[h].kind = "withdraw"
                    THEN withdrawn \cup {op[h].user} ELSE withdrawn
    /\ request' = [t \in Targets |->
                     IF pend[h][t] # 0 /\ request[t] = None
                     THEN [version |-> pend[h][t], attempts |-> 0, due |-> TRUE]
                     ELSE request[t]]
    /\ EndTx(h)
    /\ UNCHANGED <<stats, seq, ops, workerVars, faults>>

\* COMMIT: the subject and every registered request become visible at once.
\* An upserted row starts over: attempts 0, due at once.
CommitWrite(h) ==
    /\ hpc[h] = "shops"
    /\ todo[h] = {}
    /\ review' = CASE op[h].kind \in {"create", "update"} ->
                        [review EXCEPT ![op[h].review] =
                            [state |-> "kept", rating |-> op[h].rating]]
                   [] op[h].kind = "delete" ->
                        [review EXCEPT ![op[h].review].state = "discarded"]
                   [] op[h].kind = "withdraw" -> review
    /\ withdrawn' = IF op[h].kind = "withdraw"
                    THEN withdrawn \cup {op[h].user} ELSE withdrawn
    /\ request' = [t \in Targets |->
                     IF pend[h][t] # 0
                     THEN [version |-> pend[h][t], attempts |-> 0, due |-> TRUE]
                     ELSE request[t]]
    /\ EndTx(h)
    /\ UNCHANGED <<stats, seq, ops, workerVars, faults>>

\* An error, a cancelled request or a crash: the transaction is rolled back.
\* The versions it drew stay drawn.
AbortWrite(h) ==
    /\ hpc[h] # "idle"
    /\ faults < MaxFaults
    /\ faults' = faults + 1
    /\ EndTx(h)
    /\ UNCHANGED <<dbVars, seq, ops, workerVars>>

-----------------------------------------------------------------------------
(* Workers                                                                 *)

\* Mutant of Due: requests that failed are not listed.
MutDueNoRetry(kind) ==
    {t \in kind : request[t] # None /\ request[t].attempts = 0 /\ request[t].due}

Due(kind) ==
    {t \in kind : /\ request[t] # None
                  /\ request[t].attempts < MaxAttempts
                  /\ request[t].due}

\* ORDER BY next_attempt_at NULLS FIRST, id: requests that never failed come
\* first, in order of id.  Among the others the due times are not modelled.
Earlier(t, a, s, b) == a = 0 /\ (b # 0 \/ Rank[t] < Rank[s])

\* What the listing statement may return: the first Batch due requests.
DueBatch(kind) ==
    {S \in SUBSET Due(kind) :
        /\ Cardinality(S) <= Batch
        /\ Due(kind) # S => Cardinality(S) = Batch
        /\ \A t \in S, s \in Due(kind) \ S :
              ~Earlier(s, request[s].attempts, t, request[t].attempts)}

JobOf(t) == [target |-> t, version |-> request[t].version,
             attempts |-> request[t].attempts]

\* StatsWorkerLoop starts a cycle: at start-up, then at every tick.
\* StatsWorker.RunOnce lists the due burgers.
RunBurgers(w) ==
    /\ wpc[w] = "rest"
    /\ wpc' = [wpc EXCEPT ![w] = "burgers"]
    /\ \E S \in DueBatch(Burgers) :
          wlist' = [wlist EXCEPT ![w] = {JobOf(t) : t \in S}]
    /\ UNCHANGED <<dbVars, seq, handlerVars, wjob, wfacts, whit, faults>>

\* StatsCycle.RunOnce goes on to the shops; ShopStatsWorker.RunOnce lists them.
RunShops(w) ==
    /\ wpc[w] = "burgers"
    /\ wlist[w] = {}
    /\ wpc' = [wpc EXCEPT ![w] = "shops"]
    /\ \E S \in DueBatch(Shops) :
          wlist' = [wlist EXCEPT ![w] = {JobOf(t) : t \in S}]
    /\ UNCHANGED <<dbVars, seq, handlerVars, wjob, wfacts, whit, faults>>

\* The list could not be read: this RunOnce does nothing, the cycle goes on.
ListFails(w) ==
    /\ faults < MaxFaults
    /\ faults' = faults + 1
    /\ \/ wpc[w] = "rest" /\ wpc' = [wpc EXCEPT ![w] = "burgers"]
       \/ /\ wpc[w] = "burgers"
          /\ wlist[w] = {}
          /\ wpc' = [wpc EXCEPT ![w] = "shops"]
    /\ UNCHANGED <<dbVars, seq, handlerVars, wlist, wjob, wfacts, whit>>

EndCycle(w) ==
    /\ wpc[w] = "shops"
    /\ wlist[w] = {}
    /\ wpc' = [wpc EXCEPT ![w] = "rest"]
    /\ UNCHANGED <<dbVars, seq, handlerVars, wlist, wjob, wfacts, whit, faults>>

\* The loop over the taken requests, in the order of the list.
TakeJob(w) ==
    /\ wpc[w] \in {"burgers", "shops"}
    /\ \E j \in wlist[w] :
          /\ \A i \in wlist[w] : ~Earlier(i.target, i.attempts, j.target, j.attempts)
          /\ wjob' = [wjob EXCEPT ![w] = j]
          /\ wlist' = [wlist EXCEPT ![w] = @ \ {j}]
    /\ wpc' = [wpc EXCEPT ![w] = "lock"]
    /\ UNCHANGED <<dbVars, seq, handlerVars, wfacts, whit, faults>>

\* Mutant of LockTarget: the row is read without FOR NO KEY UPDATE.
MutLockTarget(w) ==
    /\ wpc[w] = "lock"
    /\ wpc' = [wpc EXCEPT ![w] = "recalc"]
    /\ UNCHANGED <<dbVars, seq, handlerVars, wlist, wjob, wfacts, whit, faults>>

\* SELECT id ... FOR NO KEY UPDATE on the burger's or the shop's row.
LockTarget(w) ==
    /\ wpc[w] = "lock"
    /\ \A v \in Workers : ~HoldsTarget(v, wjob[w].target)
    /\ wpc' = [wpc EXCEPT ![w] = "recalc"]
    /\ UNCHANGED <<dbVars, seq, handlerVars, wlist, wjob, wfacts, whit, faults>>

\* Recalculate after the lock: read the facts, calculate, upsert the stats row
\* (uncommitted).
Recalculate(w) ==
    /\ wpc[w] = "recalc"
    /\ wpc' = [wpc EXCEPT ![w] = "complete"]
    /\ wfacts' = [wfacts EXCEPT ![w] = Facts(wjob[w].target)]
    /\ UNCHANGED <<dbVars, seq, handlerVars, wlist, wjob, whit, faults>>

\* Mutant of HasVersion: WHERE burger_id = $1, without the version.
MutHasVersion(t, v) == request[t] # None

HasVersion(t, v) == request[t] # None /\ request[t].version = v

\* DELETE ... WHERE id = $1 AND version = $2, waiting for a writer's upsert.
CompleteRecalc(w) ==
    LET t == wjob[w].target IN
    /\ wpc[w] = "complete"
    /\ RequestRowFree(t)
    /\ wpc' = [wpc EXCEPT ![w] = "commit"]
    /\ whit' = [whit EXCEPT ![w] = HasVersion(t, wjob[w].version)]
    /\ UNCHANGED <<dbVars, seq, handlerVars, wlist, wjob, wfacts, faults>>

\* COMMIT of the recalculation: the statistics and the deletion together.
StoreStats(w) ==
    LET t == wjob[w].target IN
    /\ stats' = [stats EXCEPT ![t] = wfacts[w]]
    /\ request' = IF whit[w] THEN [request EXCEPT ![t] = None] ELSE request
    /\ UNCHANGED <<review, withdrawn>>

\* Back in the loop over the list the job came from; the job is forgotten.
Leave(w, to) ==
    /\ wpc' = [wpc EXCEPT ![w] = to]
    /\ wfacts' = [wfacts EXCEPT ![w] = {}]
    /\ whit' = [whit EXCEPT ![w] = FALSE]

Resume(w) ==
    /\ Leave(w, IF wjob[w].target \in Burgers THEN "burgers" ELSE "shops")
    /\ wjob' = [wjob EXCEPT ![w] = None]

CommitRecalc(w) ==
    /\ wpc[w] = "commit"
    /\ StoreStats(w)
    /\ Resume(w)
    /\ UNCHANGED <<seq, handlerVars, wlist, faults>>

\* COMMIT took effect but its answer was lost: Do returns an error.
CommitAnswerLost(w) ==
    /\ wpc[w] = "commit"
    /\ faults < MaxFaults
    /\ faults' = faults + 1
    /\ StoreStats(w)
    /\ Leave(w, "record")
    /\ UNCHANGED <<seq, handlerVars, wlist, wjob>>

\* Any statement of the recalculation fails: rollback, then recordFailure.
FailRecalc(w) ==
    /\ wpc[w] \in {"lock", "recalc", "complete", "commit"}
    /\ faults < MaxFaults
    /\ faults' = faults + 1
    /\ Leave(w, "record")
    /\ UNCHANGED <<dbVars, seq, handlerVars, wlist, wjob>>

Failed(q) == [version |-> q.version, attempts |-> q.attempts + 1, due |-> FALSE]

\* recordFailure: one more attempt and a later due time, in a transaction of
\* its own, if the request is still the one taken.
RecordFailure(w) ==
    LET t == wjob[w].target IN
    /\ wpc[w] = "record"
    /\ RequestRowFree(t)
    /\ request' = IF HasVersion(t, wjob[w].version)
                  THEN [request EXCEPT ![t] = Failed(@)]
                  ELSE request
    /\ Resume(w)
    /\ UNCHANGED <<review, withdrawn, stats, seq, handlerVars, wlist, faults>>

\* The failure itself could not be recorded: logged, and the loop goes on.
RecordLost(w) ==
    /\ wpc[w] = "record"
    /\ faults < MaxFaults
    /\ faults' = faults + 1
    /\ Resume(w)
    /\ UNCHANGED <<dbVars, seq, handlerVars, wlist>>

\* Stop reached its deadline and cancelled the context, or the process died:
\* the transaction is rolled back, nothing is recorded, the list is forgotten.
\* A restarted instance begins at "rest".
StopWorker(w) ==
    /\ wpc[w] # "rest"
    /\ faults < MaxFaults
    /\ faults' = faults + 1
    /\ Leave(w, "rest")
    /\ wlist' = [wlist EXCEPT ![w] = {}]
    /\ wjob' = [wjob EXCEPT ![w] = None]
    /\ UNCHANGED <<dbVars, seq, handlerVars>>

\* The clock passes next_attempt_at.
BecomeDue(t) ==
    /\ request[t] # None
    /\ ~request[t].due
    /\ request' = [request EXCEPT ![t].due = TRUE]
    /\ UNCHANGED <<review, withdrawn, stats, seq, handlerVars, workerVars, faults>>

-----------------------------------------------------------------------------
HandlerNext(h) ==
    \/ \E o \in Operation : Load(h, o)
    \/ WriteSubject(h) \/ SubjectGone(h)
    \/ ListReviewedBurgers(h) \/ ListShops(h)
    \/ \E t \in Targets : RequestRecalc(h, t)
    \/ CommitWrite(h) \/ AbortWrite(h)

WorkerNext(w) ==
    \/ RunBurgers(w) \/ RunShops(w) \/ ListFails(w) \/ EndCycle(w)
    \/ TakeJob(w) \/ LockTarget(w) \/ Recalculate(w)
    \/ CompleteRecalc(w) \/ CommitRecalc(w) \/ CommitAnswerLost(w)
    \/ FailRecalc(w) \/ RecordFailure(w) \/ RecordLost(w) \/ StopWorker(w)

Next ==
    \/ \E h \in Handlers : HandlerNext(h)
    \/ \E w \in Workers : WorkerNext(w)
    \/ \E t \in Targets : BecomeDue(t)

Spec == Init /\ [][Next]_vars

-----------------------------------------------------------------------------
(* Properties                                                              *)

\* The variables hold values of their kind: rows, transactions, workers.
TypeOK ==
    /\ review \in [Reviews -> [state : {"absent", "kept", "discarded"}, rating : Ratings]]
    /\ withdrawn \subseteq Users
    /\ request \in [Targets -> Request \cup {None}]
    /\ stats \in [Targets -> SUBSET Fact]
    /\ seq \in Nat
    /\ hpc \in [Handlers -> {"idle", "loaded", "listing", "burgers", "shops"}]
    /\ op \in [Handlers -> Operation \cup {None}]
    /\ todo \in [Handlers -> SUBSET Targets]
    /\ pend \in [Handlers -> [Targets -> Nat]]
    /\ wpc \in [Workers -> {"rest", "burgers", "shops", "lock", "recalc",
                            "complete", "commit", "record"}]
    /\ wlist \in [Workers -> SUBSET Job]
    /\ wjob \in [Workers -> Job \cup {None}]
    /\ wfacts \in [Workers -> SUBSET Fact]
    /\ whit \in [Workers -> BOOLEAN]
    /\ ops \in Nat
    /\ faults \in Nat

\* S is what the statistics of t should be computed from: every visible review
\* with its current rating and nothing else, except that a review may remain
\* whose author withdrew while posting it (Overlap).
FreshFor(S, t) ==
    /\ Facts(t) \subseteq S
    /\ \A f \in S : /\ f \in KeptFacts(t)
                    /\ Author[f[1]] \in withdrawn => Author[f[1]] \in Overlap

\* Statistics without a pending request are up to date.  A stored value may
\* lag behind the reviews only while a request for the target is waiting, in
\* whatever order writers, workers, failures and crashes interleave (the
\* result of the shared transaction, the row lock and the versioned delete).
NoRequestMeansFresh ==
    \A t \in Targets : request[t] = None => FreshFor(stats[t], t)

\* "The statistics keep no review of a user who has withdrawn" (the comment
\* of usecase.Users.Delete), once no recalculation is pending.
WithdrawnNotCounted ==
    \A t \in Targets : request[t] = None =>
        \A f \in stats[t] : Author[f[1]] \notin withdrawn

\* A committed change of what a target shows always leaves a request that no
\* worker has taken yet: it resets the failures and cannot be deleted by a
\* recalculation that began before the change.
ChangeIsAnnounced ==
    [][\A r \in Reviews : review'[r] # review[r] =>
          \A t \in TargetsOf(r) :
             /\ request'[t] # None
             /\ request'[t].attempts = 0
             /\ \A w \in Workers : wjob[w] # None /\ wjob[w].target = t =>
                   wjob[w].version # request'[t].version]_vars

\* p waits for q to end its transaction.
WaitsFor(p, q) ==
    \/ /\ p \in Handlers /\ q \in Handlers /\ p # q
       /\ \/ hpc[p] = "loaded" /\ InTx(q) /\ SameSubject(p, q)
          \/ \E t \in NextTargets(p) : pend[q][t] # 0
    \/ /\ p \in Handlers /\ q \in Workers
       /\ \E t \in NextTargets(p) : HoldsRequestRow(q, t)
    \/ /\ p \in Workers /\ q \in Handlers
       /\ wpc[p] \in {"complete", "record"} /\ pend[q][wjob[p].target] # 0
    \/ /\ p \in Workers /\ q \in Workers /\ p # q
       /\ \/ wpc[p] = "lock" /\ HoldsTarget(q, wjob[p].target)
          \/ wpc[p] \in {"complete", "record"} /\ HoldsRequestRow(q, wjob[p].target)

\* No group of writers and workers waits in a circle for row locks, however
\* many reviews and withdrawals touch the same burgers and shops: requests are
\* registered in ascending order, burgers before shops, and a recalculation
\* locks its target's row before its request row.
NoDeadlock ==
    \A S \in SUBSET (Handlers \cup Workers) :
        S # {} => \E p \in S : \A q \in S : ~WaitsFor(p, q)

-----------------------------------------------------------------------------
(* Fairness: a transaction that has begun goes on (its statements return     *)
(* and PostgreSQL grants a row lock to those who wait), the loop of every    *)
(* worker runs, and time passes.  No request need ever arrive.               *)

HandlerStep(h) ==
    \/ WriteSubject(h) \/ SubjectGone(h)
    \/ ListReviewedBurgers(h) \/ ListShops(h)
    \/ \E t \in Targets : RequestRecalc(h, t)
    \/ CommitWrite(h)

WorkerStep(w) ==
    \/ RunBurgers(w) \/ RunShops(w) \/ EndCycle(w)
    \/ TakeJob(w) \/ LockTarget(w) \/ Recalculate(w)
    \/ CompleteRecalc(w) \/ CommitRecalc(w) \/ RecordFailure(w)

Fairness ==
    /\ \A h \in Handlers : SF_vars(HandlerStep(h))
    /\ \A w \in Workers : SF_vars(WorkerStep(w))
    /\ \A t \in Targets : WF_vars(BecomeDue(t))

FairSpec == Spec /\ Fairness

GivenUp(t) == request[t] # None /\ request[t].attempts >= MaxAttempts

\* Statistics catch up: whatever fails or restarts in between, in the end the
\* target's statistics are up to date for good, unless its request was given
\* up after MaxAttempts failures.
CatchUp ==
    \A t \in Targets : <>[](FreshFor(stats[t], t) \/ GivenUp(t))

\* No request waits for ever: it is served or given up.
NoRequestStarves ==
    \A t \in Targets :
        (request[t] # None) ~> (request[t] = None \/ GivenUp(t))

-----------------------------------------------------------------------------
(* The pipeline implements DerivedStats.                                     *)

\* What the workers have read for t and not stored yet.
Drafts(t) == {wfacts[w] : w \in {v \in Workers : /\ wpc[v] \in {"complete", "commit"}
                                                 /\ wjob[v].target = t}}

Published == INSTANCE DerivedStats WITH
    Values <- SUBSET Fact,
    truth <- [t \in Targets |-> Facts(t)],
    shown <- stats,
    draft <- [t \in Targets |-> Drafts(t)],
    dirty <- {t \in Targets : request[t] # None}

\* Statistics are published one recalculation at a time, each with what was
\* true when it was read, so what readers see never goes back in time; and a
\* request is deleted only by a recalculation that stores the present truth.
\* Stated for users who do not post while they withdraw (Overlap = {}).
ImplementsDerivedStats == Published!Spec
=============================================================================
