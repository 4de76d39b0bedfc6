----------------------- MODULE StatsPipeline_proofs -----------------------
(* Proofs about the statistics pipeline, for any number of reviews, burgers, *)
(* shops, handlers and workers, and without the bounds the runs need.        *)
EXTENDS StatsPipeline, FiniteSetTheorems, TLAPS

-----------------------------------------------------------------------------
(* Types, with what a handler or worker has in hand at each control state    *)

\* An idle handler has no operation, and nothing is registered before "burgers".
HandlersOK ==
    \A h \in Handlers :
        /\ hpc[h] = "idle" <=> op[h] = None
        /\ hpc[h] = "listing" => op[h].kind = "withdraw"
        /\ hpc[h] \in {"idle", "loaded", "listing"} =>
              todo[h] = {} /\ \A t \in Targets : pend[h][t] = 0

\* A worker outside its loops has a job; only a commit may delete the request.
WorkersOK ==
    \A w \in Workers :
        /\ wpc[w] \in {"lock", "recalc", "complete", "commit", "record"} => wjob[w] # None
        /\ whit[w] => wpc[w] = "commit"

Basic == TypeOK /\ HandlersOK /\ WorkersOK

\* What the four kinds of operation carry.
LEMMA OperationFields ==
    ASSUME NEW o \in Operation
    PROVE  /\ o # None
           /\ o.kind \in {"create", "update", "delete", "withdraw"}
           /\ o.kind = "withdraw" => o.user \in Users
           /\ o.kind # "withdraw" => o.review \in Reviews
           /\ o.kind \in {"create", "update"} => o.rating \in Ratings
  BY NoneAssumption DEF Operation

\* The targets of a write are targets.
LEMMA TargetTypes ==
    /\ \A b \in Burgers : b \in Targets /\ ShopsOf[b] \subseteq Targets
    /\ \A r \in Reviews : BurgerOf[r] \in Burgers /\ TargetsOf(r) \subseteq Targets
    /\ \A B \in SUBSET Burgers : ShopsOfBurgers(B) \subseteq Targets
    /\ \A u : ReviewedBurgers(u) \subseteq Burgers
  BY PipelineAssumption DEF Targets, TargetsOf, ShopsOfBurgers, ReviewedBurgers

\* The initial states have the types.
LEMMA BasicInit == Init => Basic
<1> SUFFICES ASSUME Init PROVE Basic
  OBVIOUS
<1>1. (CHOOSE q \in Ratings : TRUE) \in Ratings
  BY PipelineAssumption
<1>2. \A t \in Targets : Facts(t) \subseteq Fact
  BY DEF Facts, KeptFacts
<1>3. TypeOK
  BY <1>1, <1>2 DEF Init, TypeOK
<1>4. HandlersOK /\ WorkersOK
  BY DEF Init, HandlersOK, WorkersOK
<1> QED
  BY <1>3, <1>4 DEF Basic

\* EndTx and the actions of a request handler keep Basic.
LEMMA BasicHandler ==
    ASSUME Basic, NEW h \in Handlers, HandlerNext(h) PROVE Basic'
<1> USE DEF Basic, TypeOK, HandlersOK, WorkersOK, dbVars, handlerVars, workerVars
<1>0. op[h] # None => op[h] \in Operation
  OBVIOUS
<1>1. ASSUME NEW o \in Operation, Load(h, o) PROVE Basic'
  BY <1>1, OperationFields DEF Load
<1>2. CASE WriteSubject(h)
  <2>1. op[h].kind # "withdraw" => BurgerOf[op[h].review] \in Targets
    BY <1>0, <1>2, OperationFields, TargetTypes DEF WriteSubject
  <2>2. CASE op[h].kind = "withdraw"
    <3>1. hpc' = [hpc EXCEPT ![h] = "listing"] /\ hpc[h] = "loaded"
      BY <1>2, <2>2 DEF WriteSubject
    <3>2. UNCHANGED <<dbVars, seq, op, todo, pend, ops, workerVars, faults>>
      BY <1>2, <2>2 DEF WriteSubject
    <3>3. HandlersOK'
      BY <2>2, <3>1, <3>2
    <3> QED
      BY <3>1, <3>2, <3>3
  <2>3. CASE op[h].kind # "withdraw"
    <3>1. /\ hpc' = [hpc EXCEPT ![h] = "burgers"] /\ hpc[h] = "loaded"
          /\ todo' = [todo EXCEPT ![h] = {BurgerOf[op[h].review]}]
      BY <1>2, <2>3 DEF WriteSubject
    <3>2. UNCHANGED <<dbVars, seq, op, pend, ops, workerVars, faults>>
      BY <1>2, <2>3 DEF WriteSubject
    <3>3. HandlersOK'
      BY <3>1, <3>2
    <3> QED
      BY <2>1, <2>3, <3>1, <3>2, <3>3
  <2> QED
    BY <2>2, <2>3
<1>3. CASE SubjectGone(h)
  BY <1>3 DEF SubjectGone, EndTx
<1>4. CASE ListReviewedBurgers(h)
  <2>1. ReviewedBurgers(op[h].user) \subseteq Targets
    BY TargetTypes
  <2> QED
    BY <1>4, <2>1 DEF ListReviewedBurgers
<1>5. CASE ListShops(h)
  <2> DEFINE B == IF op[h].kind = "withdraw" THEN ReviewedBurgers(op[h].user)
                  ELSE {BurgerOf[op[h].review]}
  <2>1. B \subseteq Burgers
    BY <1>0, <1>5, OperationFields, TargetTypes DEF ListShops
  <2>2. ShopsOfBurgers(B) \subseteq Targets
    BY <2>1, TargetTypes
  <2> QED
    BY <1>5, <2>2 DEF ListShops
<1>6. ASSUME NEW t \in Targets, RequestRecalc(h, t) PROVE Basic'
  BY <1>6 DEF RequestRecalc
<1>7. CASE CommitWrite(h)
  <2>0. op[h] \in Operation
    BY <1>0, <1>7 DEF CommitWrite
  <2>1. review' \in [Reviews -> [state : {"absent", "kept", "discarded"}, rating : Ratings]]
    <3>1. CASE op[h].kind \in {"create", "update"}
      <4>1. review' = [review EXCEPT ![op[h].review] = [state |-> "kept", rating |-> op[h].rating]]
        BY <1>7, <3>1 DEF CommitWrite
      <4>2. op[h].rating \in Ratings
        BY <2>0, <3>1, OperationFields
      <4> QED
        BY <4>1, <4>2
    <3>2. CASE op[h].kind = "delete"
      <4>1. review' = [review EXCEPT ![op[h].review].state = "discarded"]
        BY <1>7, <3>2 DEF CommitWrite
      <4>2. op[h].review \in Reviews
        BY <2>0, <3>2, NoneAssumption DEF Operation
      <4>3. [review[op[h].review] EXCEPT !.state = "discarded"]
               \in [state : {"absent", "kept", "discarded"}, rating : Ratings]
        BY <4>2
      <4> QED
        BY <4>1, <4>3
    <3>3. CASE op[h].kind = "withdraw"
      BY <1>7, <3>3 DEF CommitWrite
    <3> QED
      BY <2>0, <3>1, <3>2, <3>3, OperationFields
  <2>2. withdrawn' \subseteq Users
    BY <1>0, <1>7, OperationFields DEF CommitWrite
  <2>3. request' \in [Targets -> Request \cup {None}]
    BY <1>7 DEF CommitWrite, Request
  <2> QED
    BY <1>7, <2>1, <2>2, <2>3 DEF CommitWrite, EndTx
<1>8. CASE AbortWrite(h)
  BY <1>8 DEF AbortWrite, EndTx
<1> QED
  BY <1>1, <1>2, <1>3, <1>4, <1>5, <1>6, <1>7, <1>8 DEF HandlerNext

\* A job made of a pending request is a job, and what is read of a target are facts.
LEMMA JobTypes ==
    ASSUME Basic
    PROVE  /\ \A t \in Targets : request[t] # None => JobOf(t) \in Job
           /\ \A w \in Workers : wjob[w] # None => wjob[w] \in Job /\ wjob[w].target \in Targets
           /\ \A t : Facts(t) \subseteq Fact
  BY DEF Basic, TypeOK, JobOf, Job, Request, Facts, KeptFacts

\* A request whose recalculation failed is a request.
LEMMA FailedType ==
    ASSUME NEW q \in Request PROVE Failed(q) \in Request /\ Failed(q) # None
<1>1. Failed(q) \in Request
  BY DEF Failed, Request
<1> QED
  BY <1>1, NoneAssumption

\* The actions of a worker keep Basic.
LEMMA BasicWorker ==
    ASSUME Basic, NEW w \in Workers, WorkerNext(w) PROVE Basic'
<1> USE DEF Basic, TypeOK, HandlersOK, WorkersOK, dbVars, handlerVars, workerVars
<1>0. \A K \in SUBSET Targets : \A S \in DueBatch(K) : {JobOf(t) : t \in S} \subseteq Job
  BY JobTypes DEF DueBatch, Due
<1>1. CASE RunBurgers(w)
  <2>1. PICK S \in DueBatch(Burgers) : wlist' = [wlist EXCEPT ![w] = {JobOf(t) : t \in S}]
    BY <1>1 DEF RunBurgers
  <2>2. {JobOf(t) : t \in S} \subseteq Job
    BY <1>0 DEF Targets
  <2> QED
    BY <1>1, <2>1, <2>2 DEF RunBurgers
<1>2. CASE RunShops(w)
  <2>1. PICK S \in DueBatch(Shops) : wlist' = [wlist EXCEPT ![w] = {JobOf(t) : t \in S}]
    BY <1>2 DEF RunShops
  <2>2. {JobOf(t) : t \in S} \subseteq Job
    BY <1>0 DEF Targets
  <2> QED
    BY <1>2, <2>1, <2>2 DEF RunShops
<1>3. CASE ListFails(w)
  BY <1>3 DEF ListFails
<1>4. CASE EndCycle(w)
  BY <1>4 DEF EndCycle
<1>5. CASE TakeJob(w)
  <2>1. PICK j \in wlist[w] : /\ wjob' = [wjob EXCEPT ![w] = j]
                              /\ wlist' = [wlist EXCEPT ![w] = @ \ {j}]
    BY <1>5 DEF TakeJob
  <2>2. j \in Job /\ j # None
    BY NoneAssumption
  <2> QED
    BY <1>5, <2>1, <2>2 DEF TakeJob
<1>6. CASE LockTarget(w)
  BY <1>6 DEF LockTarget
<1>7. CASE Recalculate(w)
  BY <1>7, JobTypes DEF Recalculate
<1>8. CASE CompleteRecalc(w)
  BY <1>8 DEF CompleteRecalc, HasVersion
<1>9. CASE CommitRecalc(w)
  BY <1>9 DEF CommitRecalc, StoreStats, Resume, Leave
<1>10. CASE CommitAnswerLost(w)
  <2>1. stats' \in [Targets -> SUBSET Fact] /\ request' \in [Targets -> Request \cup {None}]
    BY <1>10, JobTypes DEF CommitAnswerLost, StoreStats
  <2> QED
    BY <1>10, <2>1 DEF CommitAnswerLost, StoreStats, Leave
<1>11. CASE FailRecalc(w)
  BY <1>11 DEF FailRecalc, Leave
<1>12. CASE RecordFailure(w)
  <2>1. request' \in [Targets -> Request \cup {None}]
    BY <1>12, JobTypes DEF RecordFailure, HasVersion, Request, Failed
  <2> QED
    BY <1>12, <2>1 DEF RecordFailure, Resume, Leave
<1>13. CASE RecordLost(w)
  BY <1>13 DEF RecordLost, Resume, Leave
<1>14. CASE StopWorker(w)
  BY <1>14 DEF StopWorker, Leave
<1> QED
  BY <1>1, <1>2, <1>3, <1>4, <1>5, <1>6, <1>7, <1>8, <1>9, <1>10, <1>11, <1>12, <1>13, <1>14
  DEF WorkerNext

\* Every step keeps the types.
LEMMA BasicNext ==
    ASSUME Basic, [Next]_vars PROVE Basic'
<1>1. ASSUME NEW h \in Handlers, HandlerNext(h) PROVE Basic'
  BY <1>1, BasicHandler
<1>2. ASSUME NEW w \in Workers, WorkerNext(w) PROVE Basic'
  BY <1>2, BasicWorker
<1>3. ASSUME NEW t \in Targets, BecomeDue(t) PROVE Basic'
  <2>0. request[t] \in Request
    BY <1>3 DEF BecomeDue, Basic, TypeOK
  <2>1. [request[t] EXCEPT !.due = TRUE] \in Request
    BY <2>0 DEF Request
  <2>2. request' \in [Targets -> Request \cup {None}]
    BY <1>3, <2>1 DEF BecomeDue, Basic, TypeOK
  <2> QED
    BY <1>3, <2>2 DEF BecomeDue, Basic, TypeOK, HandlersOK, WorkersOK, handlerVars, workerVars
<1>4. CASE UNCHANGED vars
  BY <1>4 DEF Basic, TypeOK, HandlersOK, WorkersOK, vars, dbVars, handlerVars, workerVars
<1> QED
  BY <1>1, <1>2, <1>3, <1>4 DEF Next

\* Every variable keeps its kind, whatever the constants are: rows, transactions
\* of the request handlers, and what the workers hold.
THEOREM TypeCorrect == Spec => []TypeOK
<1>1. Init => Basic
  BY BasicInit
<1>2. Basic /\ [Next]_vars => Basic'
  BY BasicNext
<1>3. Basic => TypeOK
  BY DEF Basic
<1> QED
  BY <1>1, <1>2, <1>3, PTL DEF Spec

-----------------------------------------------------------------------------
(* The strengthening of NoRequestMeansFresh                                  *)

\* A row is written by one transaction at a time; what a transaction will
\* insert is not there yet, and what it has locked stays.
SubjectsOK ==
    \A h \in Handlers :
        /\ op[h] # None /\ op[h].kind = "create" =>
              /\ review[op[h].review].state = "absent"
              /\ \A g \in Handlers \ {h} :
                    op[g] # None /\ op[g].kind = "create" => op[g].review # op[h].review
        /\ InTx(h) /\ op[h].kind \in {"update", "delete"} =>
              review[op[h].review].state = "kept"
        /\ InTx(h) => ~SubjectLockedByOther(h)
        /\ op[h] # None /\ op[h].kind = "withdraw" /\ op[h].user \notin Overlap =>
              \A g \in Handlers : op[g] # None /\ op[g].kind = "create" =>
                 Author[op[g].review] # op[h].user

\* The reviews whose targets show something else once h commits, as far as the
\* code promises to announce it.
Touched(h) ==
    IF op[h].kind # "withdraw" THEN {op[h].review}
    ELSE {r \in Reviews : /\ Author[r] = op[h].user
                          /\ review[r].state = "kept"
                          /\ op[h].user \notin Overlap}

Announced(h) == todo[h] \cup {t \in Targets : pend[h][t] # 0}

\* Every touched target is registered or about to be.
CoverageOK ==
    \A h \in Handlers :
        /\ hpc[h] = "burgers" => \A r \in Touched(h) : BurgerOf[r] \in Announced(h)
        /\ hpc[h] = "shops" => \A r \in Touched(h) : TargetsOf(r) \subseteq Announced(h)

JobsOf(w) == wlist[w] \cup ({wjob[w]} \ {None})

\* A version being registered is new: no row and no job has it, and only one
\* transaction registers a target at a time.
VersionsOK ==
    /\ \A t \in Targets : request[t] # None => request[t].version <= seq
    /\ \A w \in Workers : \A j \in JobsOf(w) : j.version <= seq
    /\ \A h \in Handlers, t \in Targets : pend[h][t] # 0 =>
          /\ pend[h][t] <= seq
          /\ request[t] # None => request[t].version # pend[h][t]
          /\ \A g \in Handlers \ {h} : pend[g][t] = 0
          /\ \A w \in Workers : \A j \in JobsOf(w) :
                j.target = t => j.version # pend[h][t]

\* One worker recalculates a target at a time, and while its deletion waits
\* for the commit the request stays the one it took.
LocksOK ==
    \A w \in Workers :
        /\ HoldsTarget(w, wjob[w].target) =>
              \A v \in Workers \ {w} : ~HoldsTarget(v, wjob[w].target)
        /\ whit[w] =>
              /\ HasVersion(wjob[w].target, wjob[w].version)
              /\ \A h \in Handlers : pend[h][wjob[w].target] = 0

\* What a worker is about to store is fresh unless a newer request waits.
FactsOK ==
    \A w \in Workers : wpc[w] \in {"complete", "commit"} =>
        LET t == wjob[w].target IN
        request[t] = None \/ HasVersion(t, wjob[w].version) => FreshFor(wfacts[w], t)

IInv ==
    /\ Basic
    /\ SubjectsOK
    /\ CoverageOK
    /\ VersionsOK
    /\ LocksOK
    /\ FactsOK
    /\ NoRequestMeansFresh

\* What a worker's action leaves alone, and what a handler's does.
LEMMA WorkerFrame ==
    ASSUME NEW w \in Workers, WorkerNext(w)
    PROVE  UNCHANGED <<review, withdrawn, seq, handlerVars>>
  BY DEF WorkerNext, RunBurgers, RunShops, ListFails, EndCycle, TakeJob, LockTarget,
         Recalculate, CompleteRecalc, CommitRecalc, CommitAnswerLost, FailRecalc,
         RecordFailure, RecordLost, StopWorker, StoreStats, dbVars, handlerVars

\* A handler touches no statistics and no worker, and commits in one step only.
LEMMA HandlerFrame ==
    ASSUME NEW h \in Handlers, HandlerNext(h)
    PROVE  /\ UNCHANGED <<stats, workerVars>>
           /\ ~CommitWrite(h) => UNCHANGED <<review, withdrawn, request>>
  BY DEF HandlerNext, Load, WriteSubject, SubjectGone, ListReviewedBurgers, ListShops,
         RequestRecalc, CommitWrite, AbortWrite, dbVars, workerVars

\* A handler that has locked its subject knows how it stands in the store.
LEMMA SubjectsHandler ==
    ASSUME Basic, SubjectsOK, NEW h \in Handlers, HandlerNext(h) PROVE SubjectsOK'
<1> USE DEF Basic, TypeOK, HandlersOK, SubjectsOK, SubjectLockedByOther, SameSubject, InTx,
            dbVars, handlerVars
<1>1. ASSUME NEW o \in Operation, Load(h, o) PROVE SubjectsOK'
  BY <1>1, OperationFields DEF Load, NoOverlap
<1>2. CASE WriteSubject(h)
  BY <1>2 DEF WriteSubject, SubjectExists
<1>3. CASE SubjectGone(h)
  BY <1>3 DEF SubjectGone, EndTx
<1>4. CASE ListReviewedBurgers(h)
  BY <1>4 DEF ListReviewedBurgers
<1>5. CASE ListShops(h)
  BY <1>5 DEF ListShops
<1>6. ASSUME NEW t \in Targets, RequestRecalc(h, t) PROVE SubjectsOK'
  BY <1>6 DEF RequestRecalc
<1>7. CASE CommitWrite(h)
  <2>1. /\ InTx(h) /\ op[h] \in Operation
        /\ InTx(h)' = FALSE /\ op'[h] = None
        /\ \A g \in Handlers \ {h} : op'[g] = op[g] /\ hpc'[g] = hpc[g]
    BY <1>7 DEF CommitWrite, EndTx
  <2>2. \A r \in Reviews : op[h].kind = "withdraw" \/ op[h].review # r => review'[r] = review[r]
    BY <1>7, <2>1, OperationFields DEF CommitWrite
  <2>3. ASSUME NEW g \in Handlers \ {h}, op[g] # None, op[g].kind # "withdraw"
        PROVE  /\ op[g].kind = "create" \/ InTx(g) => review'[op[g].review] = review[op[g].review]
    <3>1. op[g].review \in Reviews
      BY <2>3, OperationFields
    <3>2. CASE op[h].kind = "withdraw"
      BY <2>2, <3>1, <3>2
    <3>3. CASE op[h].kind # "withdraw" /\ op[h].review # op[g].review
      BY <2>2, <3>1, <3>3
    <3>4. CASE op[h].kind # "withdraw" /\ op[h].review = op[g].review
      BY <2>1, <2>3, <3>4, OperationFields
    <3> QED
      BY <3>2, <3>3, <3>4
  <2>4. \A g \in Handlers : hpc'[g] \in {"loaded", "listing", "burgers", "shops"} \/ op'[g] # None =>
          g # h /\ op'[g] = op[g] /\ hpc'[g] = hpc[g] /\ op[g] # None
    BY <1>7, <2>1 DEF CommitWrite, EndTx
  <2>5. ASSUME NEW g \in Handlers, op'[g] # None, op'[g].kind = "create"
        PROVE  /\ review'[op'[g].review].state = "absent"
               /\ \A f \in Handlers \ {g} :
                     op'[f] # None /\ op'[f].kind = "create" => op'[f].review # op'[g].review
    BY <2>3, <2>4, <2>5
  <2>6. ASSUME NEW g \in Handlers, InTx(g)'
        PROVE  /\ op'[g].kind \in {"update", "delete"} => review'[op'[g].review].state = "kept"
               /\ ~SubjectLockedByOther(g)'
    BY <2>3, <2>4, <2>6
  <2>7. ASSUME NEW g \in Handlers, op'[g] # None, op'[g].kind = "withdraw", op'[g].user \notin Overlap
        PROVE  \A f \in Handlers : op'[f] # None /\ op'[f].kind = "create" =>
                  Author[op'[f].review] # op'[g].user
    BY <2>4, <2>7
  <2> QED
    BY <2>5, <2>6, <2>7
<1>8. CASE AbortWrite(h)
  BY <1>8 DEF AbortWrite, EndTx
<1> QED
  BY <1>1, <1>2, <1>3, <1>4, <1>5, <1>6, <1>7, <1>8 DEF HandlerNext

\* A handler goes on collecting the targets its write affects.
LEMMA CoverageHandler ==
    ASSUME Basic, SubjectsOK, CoverageOK, NEW h \in Handlers, HandlerNext(h)
    PROVE  CoverageOK'
<1> USE DEF Basic, TypeOK, HandlersOK, dbVars, handlerVars
<1>0. op[h] # None => op[h] \in Operation
  OBVIOUS
<1>1. /\ \A g \in Handlers \ {h} : /\ hpc'[g] = hpc[g] /\ op'[g] = op[g]
                                   /\ todo'[g] = todo[g] /\ pend'[g] = pend[g]
  BY DEF HandlerNext, Load, WriteSubject, SubjectGone, ListReviewedBurgers, ListShops,
         RequestRecalc, CommitWrite, AbortWrite, EndTx
<1>2. ASSUME NEW g \in Handlers \ {h}, hpc[g] \in {"burgers", "shops"}
      PROVE  Touched(g)' \subseteq Touched(g) /\ Announced(g)' = Announced(g)
  <2>1. Announced(g)' = Announced(g)
    BY <1>1 DEF Announced
  <2>2. CASE ~CommitWrite(h)
    BY <1>1, <2>1, <2>2, HandlerFrame DEF Touched
  <2>3. CASE CommitWrite(h) /\ op[g].kind # "withdraw"
    BY <1>1, <2>1, <2>3 DEF Touched
  <2>4. CASE CommitWrite(h) /\ op[g].kind = "withdraw"
    <3>1. ASSUME NEW r \in Reviews, Author[r] = op[g].user, op[g].user \notin Overlap,
                 review'[r].state = "kept"
          PROVE  review[r].state = "kept"
      <4>1. CASE review'[r] = review[r]
        BY <3>1, <4>1
      <4>2. CASE review'[r] # review[r]
        <5>1. op[h] \in Operation /\ InTx(h)
          BY <2>4, <1>0 DEF CommitWrite, InTx
        <5>2. op[h].kind # "withdraw" /\ op[h].review = r
          BY <2>4, <4>2, <5>1, OperationFields DEF CommitWrite
        <5>3. op[h].kind # "create"
          BY <1>2, <2>4, <3>1, <5>1, <5>2, NoneAssumption DEF SubjectsOK
        <5> QED
          BY <5>1, <5>2, <5>3, <2>4, <3>1, OperationFields DEF SubjectsOK, CommitWrite
      <4> QED
        BY <4>1, <4>2
    <3> QED
      BY <1>1, <2>1, <2>4, <3>1 DEF Touched
  <2> QED
    BY <2>2, <2>3, <2>4
<1>3. ASSUME /\ hpc'[h] = "burgers" => \A r \in Touched(h)' : BurgerOf[r] \in Announced(h)'
             /\ hpc'[h] = "shops" => \A r \in Touched(h)' : TargetsOf(r) \subseteq Announced(h)'
      PROVE  CoverageOK'
  BY <1>1, <1>2, <1>3 DEF CoverageOK, TargetsOf
<1>4. CASE hpc'[h] \notin {"burgers", "shops"}
  BY <1>3, <1>4
<1>5. CASE WriteSubject(h)
  BY <1>3, <1>5 DEF WriteSubject, Touched, Announced
<1>6. CASE ListReviewedBurgers(h)
  BY <1>3, <1>6 DEF ListReviewedBurgers, Touched, Announced, ReviewedBurgers
<1>7. CASE ListShops(h)
  <2>1. \A r \in Touched(h) : pend[h][BurgerOf[r]] # 0
    BY <1>7 DEF ListShops, CoverageOK, Announced
  <2>2. \A r \in Touched(h) : r \in Reviews /\ BurgerOf[r] \in Burgers /\ BurgerOf[r] \in Targets
    BY <1>0, <1>7, OperationFields, TargetTypes DEF ListShops, Touched
  <2>3. \A r \in Touched(h) : ShopsOf[BurgerOf[r]] \subseteq todo'[h]
    BY <1>7, <2>2 DEF ListShops, Touched, ShopsOfBurgers, ReviewedBurgers
  <2>4. Touched(h)' = Touched(h) /\ hpc'[h] = "shops" /\ pend' = pend
    BY <1>7 DEF ListShops, Touched
  <2> QED
    BY <1>3, <2>1, <2>2, <2>3, <2>4 DEF Announced, TargetsOf
<1>8. ASSUME NEW t \in Targets, RequestRecalc(h, t) PROVE CoverageOK'
  <2>1. Touched(h)' = Touched(h) /\ hpc' = hpc
    BY <1>8 DEF RequestRecalc, Touched
  <2>2. pend'[h][t] # 0 /\ todo'[h] = todo[h] \ {t}
        /\ \A s \in Targets \ {t} : pend'[h][s] = pend[h][s]
    BY <1>8 DEF RequestRecalc
  <2>3. Announced(h) \subseteq Announced(h)'
    BY <1>8, <2>2 DEF Announced, RequestRecalc, NextTargets
  <2> QED
    BY <1>3, <2>1, <2>3 DEF CoverageOK
<1>9. CASE \/ \E o \in Operation : Load(h, o)
           \/ SubjectGone(h) \/ CommitWrite(h) \/ AbortWrite(h)
  BY <1>4, <1>9 DEF Load, SubjectGone, CommitWrite, AbortWrite, EndTx
<1> QED
  BY <1>5, <1>6, <1>7, <1>8, <1>9 DEF HandlerNext

\* A handler gives no pending request an old version.
LEMMA VersionsHandler ==
    ASSUME Basic, VersionsOK, NEW h \in Handlers, HandlerNext(h) PROVE VersionsOK'
<1> USE DEF Basic, TypeOK, VersionsOK, dbVars, handlerVars, workerVars
<1>1. \A w \in Workers : JobsOf(w)' = JobsOf(w) /\ JobsOf(w) \subseteq Job
  BY HandlerFrame DEF JobsOf
<1>2. CASE \/ \E o \in Operation : Load(h, o)
           \/ WriteSubject(h) \/ ListReviewedBurgers(h) \/ ListShops(h)
  <2>1. UNCHANGED <<pend, seq, request>>
    BY <1>2 DEF Load, WriteSubject, ListReviewedBurgers, ListShops
  <2> QED
    BY <1>1, <2>1
<1>3. CASE SubjectGone(h) \/ AbortWrite(h)
  <2>1. UNCHANGED <<seq, request>> /\ pend' = [pend EXCEPT ![h] = [t \in Targets |-> 0]]
    BY <1>3 DEF SubjectGone, AbortWrite, EndTx
  <2> QED
    BY <1>1, <2>1
<1>4. ASSUME NEW t \in Targets, RequestRecalc(h, t) PROVE VersionsOK'
  <2>1. /\ seq' = seq + 1 /\ request' = request
        /\ pend' = [pend EXCEPT ![h][t] = seq + 1]
        /\ \A g \in Handlers : pend[g][t] = 0
    BY <1>4 DEF RequestRecalc, RequestRowFree
  <2>2. \A q \in Targets : request[q] # None => request[q].version \in Nat
    BY DEF Request
  <2>3. \A w \in Workers : \A j \in JobsOf(w) : j.version \in Nat
    BY <1>1 DEF Job
  <2>4. ASSUME NEW g \in Handlers, NEW q \in Targets, pend'[g][q] # 0
        PROVE  /\ pend'[g][q] <= seq'
               /\ request[q] # None => request[q].version # pend'[g][q]
               /\ \A f \in Handlers \ {g} : pend'[f][q] = 0
               /\ \A w \in Workers : \A j \in JobsOf(w) : j.target = q => j.version # pend'[g][q]
    <3>1. CASE g = h /\ q = t
      BY <1>1, <2>1, <2>2, <2>3, <3>1
    <3>2. CASE ~(g = h /\ q = t)
      BY <1>1, <2>1, <2>2, <2>3, <2>4, <3>2
    <3> QED
      BY <3>1, <3>2
  <2> QED
    BY <1>1, <2>1, <2>2, <2>3, <2>4
<1>5. CASE CommitWrite(h)
  <2>1. /\ seq' = seq
        /\ pend' = [pend EXCEPT ![h] = [t \in Targets |-> 0]]
        /\ \A t \in Targets : pend[h][t] = 0 => request'[t] = request[t]
        /\ \A t \in Targets : pend[h][t] # 0 => request'[t].version = pend[h][t]
    BY <1>5 DEF CommitWrite, EndTx
  <2> QED
    BY <1>1, <2>1
<1> QED
  BY <1>2, <1>3, <1>4, <1>5 DEF HandlerNext

\* A worker never changes the version of a request.
LEMMA WorkerRequests ==
    ASSUME Basic, NEW w \in Workers, WorkerNext(w), NEW t \in Targets, request'[t] # None
    PROVE  request[t] # None /\ request'[t].version = request[t].version
<1> USE DEF Basic, TypeOK, dbVars
<1>1. CASE request' = request
  BY <1>1
<1>2. CASE wpc[w] = "commit" /\ StoreStats(w)
  BY <1>2 DEF StoreStats
<1>3. CASE RecordFailure(w)
  BY <1>3 DEF RecordFailure, HasVersion, Failed
<1> QED
  BY <1>1, <1>2, <1>3
  DEF WorkerNext, RunBurgers, RunShops, ListFails, EndCycle, TakeJob, LockTarget, Recalculate,
      CompleteRecalc, CommitRecalc, CommitAnswerLost, FailRecalc, RecordLost, StopWorker

\* A worker's jobs are those it had and those it has just listed.
LEMMA WorkerJobs ==
    ASSUME Basic, NEW w \in Workers, WorkerNext(w), NEW v \in Workers, NEW j \in JobsOf(v)'
    PROVE  \/ j \in JobsOf(v)
           \/ j.target \in Targets /\ request[j.target] # None /\ j.version = request[j.target].version
<1> USE DEF Basic, TypeOK, WorkersOK, JobsOf, workerVars
<1>1. CASE RunBurgers(w) \/ RunShops(w)
  <2>1. PICK S \in DueBatch(Burgers) \cup DueBatch(Shops) :
            wlist' = [wlist EXCEPT ![w] = {JobOf(t) : t \in S}] /\ wjob' = wjob
    BY <1>1 DEF RunBurgers, RunShops
  <2>2. \A t \in S : t \in Targets /\ request[t] # None
    BY <2>1 DEF DueBatch, Due, Targets
  <2> QED
    BY <2>1, <2>2 DEF JobOf
<1>2. CASE TakeJob(w)
  BY <1>2 DEF TakeJob
<1>3. CASE UNCHANGED <<wlist, wjob>>
  BY <1>3
<1>4. CASE Resume(w) /\ wlist' = wlist
  BY <1>4 DEF Resume
<1>5. CASE StopWorker(w)
  BY <1>5 DEF StopWorker
<1> QED
  BY <1>1, <1>2, <1>3, <1>4, <1>5
  DEF WorkerNext, ListFails, EndCycle, LockTarget, Recalculate, CompleteRecalc, CommitRecalc,
      CommitAnswerLost, FailRecalc, RecordFailure, RecordLost

\* A worker holds no version newer than the counter.
LEMMA VersionsWorker ==
    ASSUME Basic, VersionsOK, NEW w \in Workers, WorkerNext(w) PROVE VersionsOK'
<1>1. UNCHANGED <<pend, seq>>
  BY WorkerFrame DEF handlerVars
<1>2. \A t \in Targets : request'[t] # None =>
          request[t] # None /\ request'[t].version = request[t].version
  BY WorkerRequests
<1>3. \A v \in Workers : \A j \in JobsOf(v)' :
          \/ j \in JobsOf(v)
          \/ j.target \in Targets /\ request[j.target] # None /\ j.version = request[j.target].version
  BY WorkerJobs
<1> QED
  BY <1>1, <1>2, <1>3 DEF VersionsOK

\* A handler leaves the locks of the workers as they are.
LEMMA LocksHandler ==
    ASSUME Basic, LocksOK, NEW h \in Handlers, HandlerNext(h) PROVE LocksOK'
<1> USE DEF Basic, TypeOK, WorkersOK, HoldsTarget, dbVars, handlerVars, workerVars
<1>1. UNCHANGED <<wpc, wjob, whit>>
  BY HandlerFrame
<1>2. SUFFICES ASSUME NEW w \in Workers, whit[w]
               PROVE  /\ HasVersion(wjob[w].target, wjob[w].version)'
                      /\ \A g \in Handlers : pend'[g][wjob[w].target] = 0
  BY <1>1 DEF LocksOK
<1>3. /\ HasVersion(wjob[w].target, wjob[w].version) /\ wjob[w].target \in Targets
      /\ \A g \in Handlers : pend[g][wjob[w].target] = 0
      /\ HoldsRequestRow(w, wjob[w].target)
  BY <1>2, JobTypes DEF LocksOK, HoldsRequestRow
<1>4. \A g \in Handlers : pend'[g][wjob[w].target] = 0
  <2>1. CASE pend' = pend
    BY <1>3, <2>1
  <2>2. CASE EndTx(h)
    BY <1>3, <2>2 DEF EndTx
  <2>3. ASSUME NEW t \in Targets, RequestRecalc(h, t) PROVE \A g \in Handlers : pend'[g][wjob[w].target] = 0
    <3>1. t # wjob[w].target
      BY <1>3, <2>3 DEF RequestRecalc, RequestRowFree
    <3> QED
      BY <1>3, <2>3, <3>1 DEF RequestRecalc
  <2> QED
    BY <2>1, <2>2, <2>3 DEF HandlerNext, Load, WriteSubject, SubjectGone, ListReviewedBurgers,
                            ListShops, CommitWrite, AbortWrite
<1>5. request'[wjob[w].target] = request[wjob[w].target]
  BY <1>3, HandlerFrame DEF CommitWrite
<1> QED
  BY <1>1, <1>3, <1>4, <1>5 DEF HasVersion

\* A worker respects the locks of the other workers.
LEMMA LocksWorker ==
    ASSUME Basic, LocksOK, NEW w \in Workers, WorkerNext(w) PROVE LocksOK'
<1> USE DEF Basic, TypeOK, WorkersOK, dbVars, handlerVars, workerVars
<1>1. pend' = pend
  BY WorkerFrame
<1>2. \A v \in Workers \ {w} : wpc'[v] = wpc[v] /\ wjob'[v] = wjob[v] /\ whit'[v] = whit[v]
  BY DEF WorkerNext, RunBurgers, RunShops, ListFails, EndCycle, TakeJob, LockTarget, Recalculate,
         CompleteRecalc, CommitRecalc, CommitAnswerLost, FailRecalc, RecordFailure, RecordLost,
         StopWorker, Resume, Leave
<1>3. ASSUME NEW t \in Targets, HoldsTarget(w, t)'
      PROVE  wjob'[w] = wjob[w] /\ (HoldsTarget(w, t) \/ \A v \in Workers : ~HoldsTarget(v, t))
  BY <1>3 DEF WorkerNext, RunBurgers, RunShops, ListFails, EndCycle, TakeJob, LockTarget,
         Recalculate, CompleteRecalc, CommitRecalc, CommitAnswerLost, FailRecalc, RecordFailure,
         RecordLost, StopWorker, Resume, Leave, HoldsTarget
<1>4. ASSUME NEW v \in Workers, HoldsTarget(v, wjob[v].target)', NEW x \in Workers \ {v}
      PROVE  ~HoldsTarget(x, wjob[v].target)'
  <2>1. wjob'[v].target \in Targets
    <3>1. wjob'[v] \in Job \cup {None} /\ wjob'[v] # None
      BY <1>4, BasicWorker DEF HoldsTarget
    <3> QED
      BY <3>1 DEF Job
  <2> QED
    BY <1>2, <1>3, <1>4, <2>1 DEF HoldsTarget, LocksOK
<1>5. ASSUME NEW v \in Workers, whit'[v]
      PROVE  /\ HasVersion(wjob[v].target, wjob[v].version)'
             /\ \A h \in Handlers : pend'[h][wjob'[v].target] = 0
  <2>1. CASE v = w
    <3>1. CompleteRecalc(w)
      BY <1>5, <2>1 DEF WorkerNext, RunBurgers, RunShops, ListFails, EndCycle, TakeJob, LockTarget,
         Recalculate, CompleteRecalc, CommitRecalc, CommitAnswerLost, FailRecalc, RecordFailure,
         RecordLost, StopWorker, Resume, Leave
    <3> QED
      BY <1>1, <1>5, <2>1, <3>1 DEF CompleteRecalc, RequestRowFree, HasVersion
  <2>2. CASE v # w
    <3>1. /\ whit[v] /\ wjob'[v] = wjob[v] /\ wjob[v].target \in Targets
          /\ HasVersion(wjob[v].target, wjob[v].version)
          /\ \A h \in Handlers : pend[h][wjob[v].target] = 0
          /\ ~HoldsTarget(w, wjob[v].target)
      BY <1>2, <1>5, <2>2, JobTypes DEF LocksOK, HoldsTarget
    <3>2. \/ request'[wjob[v].target] = request[wjob[v].target]
          \/ RecordFailure(w)
      BY <3>1 DEF WorkerNext, RunBurgers, RunShops, ListFails, EndCycle, TakeJob, LockTarget,
         Recalculate, CompleteRecalc, CommitRecalc, CommitAnswerLost, FailRecalc,
         RecordLost, StopWorker, StoreStats, HoldsTarget
    <3>3. request'[wjob[v].target] # None
      <4>1. Failed(request[wjob[v].target]) # None
        BY <3>1, FailedType DEF HasVersion
      <4> QED
        BY <3>1, <3>2, <4>1 DEF RecordFailure, HasVersion
    <3> QED
      BY <1>1, <3>1, <3>3, WorkerRequests DEF HasVersion
  <2> QED
    BY <2>1, <2>2
<1> QED
  BY <1>4, <1>5 DEF LocksOK

\* A commit that registers no request for t changes nothing t shows.
LEMMA CommitKeepsFresh ==
    ASSUME Basic, CoverageOK, NEW h \in Handlers, CommitWrite(h),
           NEW t \in Targets, pend[h][t] = 0, NEW S, FreshFor(S, t)
    PROVE  FreshFor(S, t)'
<1> USE DEF Basic, TypeOK, HandlersOK
<1>1. op[h] \in Operation
  BY DEF CommitWrite
<1>2. \A r \in Touched(h) : t \notin TargetsOf(r)
  BY DEF CommitWrite, CoverageOK, Announced
<1>3. KeptFacts(t)' = KeptFacts(t)
  <2>1. \A f \in Fact : t \in TargetsOf(f[1]) => review'[f[1]] = review[f[1]]
    <3> SUFFICES ASSUME NEW f \in Fact, t \in TargetsOf(f[1]) PROVE review'[f[1]] = review[f[1]]
      OBVIOUS
    <3>1. f[1] \in Reviews
      BY DEF Fact
    <3>2. CASE op[h].kind = "withdraw"
      BY <3>2, <1>1, OperationFields DEF CommitWrite
    <3>3. CASE op[h].kind # "withdraw"
      <4>1. f[1] # op[h].review
        BY <1>2, <3>3 DEF Touched
      <4> QED
        BY <1>1, <3>1, <3>3, <4>1, OperationFields DEF CommitWrite
    <3> QED
      BY <3>2, <3>3
  <2> QED
    BY <2>1 DEF KeptFacts, TargetsOf
<1>4. Facts(t)' \subseteq Facts(t)
  BY <1>3 DEF Facts, CommitWrite
<1>5. ASSUME NEW f \in S, Author[f[1]] \in withdrawn' PROVE Author[f[1]] \in Overlap
  <2>1. f \in KeptFacts(t) /\ f[1] \in Reviews
    BY DEF FreshFor, KeptFacts, Fact
  <2>2. CASE Author[f[1]] \in withdrawn
    BY <2>2 DEF FreshFor
  <2>3. CASE Author[f[1]] \notin withdrawn
    <3>1. op[h].kind = "withdraw" /\ Author[f[1]] = op[h].user
      BY <1>5, <2>3 DEF CommitWrite
    <3> QED
      BY <1>2, <2>1, <3>1 DEF Touched, KeptFacts
  <2> QED
    BY <2>2, <2>3
<1> QED
  BY <1>3, <1>4, <1>5 DEF FreshFor

\* A write leaves each target fresh, or requested again.
LEMMA FreshHandler ==
    ASSUME IInv, NEW h \in Handlers, HandlerNext(h)
    PROVE  FactsOK' /\ NoRequestMeansFresh'
<1> USE DEF IInv, Basic, TypeOK, workerVars
<1>1. UNCHANGED <<stats, wpc, wjob, wfacts>>
  BY HandlerFrame
<1>2. CASE ~CommitWrite(h)
  <2>1. UNCHANGED <<review, withdrawn, request>>
    BY <1>2, HandlerFrame
  <2> QED
    BY <1>1, <2>1 DEF FactsOK, NoRequestMeansFresh, FreshFor, Facts, KeptFacts, HasVersion, TargetsOf
<1>3. CASE CommitWrite(h)
  <2>1. ASSUME NEW t \in Targets
        PROVE  /\ pend[h][t] = 0 => request'[t] = request[t]
               /\ pend[h][t] # 0 => request'[t] # None /\ request'[t].version = pend[h][t]
    <3>1. pend[h][t] # 0 =>
            /\ request'[t] = [version |-> pend[h][t], attempts |-> 0, due |-> TRUE]
            /\ request'[t] \in Request
      BY <1>3 DEF CommitWrite, Request
    <3> QED
      BY <1>3, <3>1, NoneAssumption DEF CommitWrite
  <2>2. NoRequestMeansFresh'
    BY <1>1, <1>3, <2>1, CommitKeepsFresh DEF NoRequestMeansFresh
  <2>3. ASSUME NEW w \in Workers, wpc[w] \in {"complete", "commit"},
               request'[wjob[w].target] = None \/ HasVersion(wjob[w].target, wjob[w].version)'
        PROVE  FreshFor(wfacts[w], wjob[w].target)'
    <3>1. wjob[w] \in JobsOf(w) /\ wjob[w].target \in Targets
      BY <2>3, JobTypes DEF JobsOf, WorkersOK
    <3>2. pend[h][wjob[w].target] = 0
      BY <1>1, <2>1, <2>3, <3>1 DEF VersionsOK, HasVersion
    <3>3. FreshFor(wfacts[w], wjob[w].target)
      BY <1>1, <2>1, <2>3, <3>1, <3>2 DEF FactsOK, HasVersion
    <3> QED
      BY <1>1, <1>3, <3>1, <3>2, <3>3, CommitKeepsFresh
  <2> QED
    BY <1>1, <2>2, <2>3 DEF FactsOK
<1> QED
  BY <1>2, <1>3

\* A worker deletes a request only when what it stored is what the store holds.
LEMMA FreshWorker ==
    ASSUME IInv, NEW w \in Workers, WorkerNext(w)
    PROVE  FactsOK' /\ NoRequestMeansFresh'
<1> USE DEF IInv, Basic, TypeOK, WorkersOK, dbVars, workerVars
<1>1. /\ UNCHANGED <<review, withdrawn>>
      /\ \A t, S : FreshFor(S, t)' <=> FreshFor(S, t)
  BY WorkerFrame DEF FreshFor, Facts, KeptFacts, TargetsOf
<1>2. ASSUME wpc[w] = "commit", StoreStats(w)
      PROVE  NoRequestMeansFresh'
  <2> DEFINE t == wjob[w].target
  <2>1. t \in Targets
    BY <1>2, JobTypes
  <2>2. request'[t] = None => FreshFor(stats'[t], t)
    <3>1. request'[t] = None => request[t] = None \/ HasVersion(t, wjob[w].version)
      BY <1>2, <2>1 DEF StoreStats, LocksOK
    <3> QED
      BY <1>2, <2>1, <3>1 DEF StoreStats, FactsOK
  <2>3. \A s \in Targets \ {t} : request'[s] = request[s] /\ stats'[s] = stats[s]
    BY <1>2, <2>1 DEF StoreStats
  <2> QED
    BY <1>1, <2>2, <2>3 DEF NoRequestMeansFresh
<1>3. ASSUME RecordFailure(w) PROVE NoRequestMeansFresh'
  <2>1. \A t \in Targets : request'[t] = None => request[t] = None
    BY <1>3, FailedType DEF RecordFailure, HasVersion
  <2>2. stats' = stats
    BY <1>3 DEF RecordFailure
  <2> QED
    BY <1>1, <2>1, <2>2 DEF NoRequestMeansFresh
<1>4. ASSUME UNCHANGED <<request, stats>> PROVE NoRequestMeansFresh'
  BY <1>1, <1>4 DEF NoRequestMeansFresh
<1>5. NoRequestMeansFresh'
  BY <1>2, <1>3, <1>4
  DEF WorkerNext, RunBurgers, RunShops, ListFails, EndCycle, TakeJob, LockTarget, Recalculate,
      CompleteRecalc, CommitRecalc, CommitAnswerLost, FailRecalc, RecordLost, StopWorker
<1>6. ASSUME NEW v \in Workers, wpc'[v] \in {"complete", "commit"},
             request'[wjob'[v].target] = None \/ HasVersion(wjob[v].target, wjob[v].version)'
      PROVE  FreshFor(wfacts'[v], wjob'[v].target)
  <2>1. CASE v = w /\ Recalculate(w)
    BY <2>1, JobTypes DEF Recalculate, FreshFor, Facts
  <2>2. CASE v = w /\ CompleteRecalc(w)
    BY <1>6, <2>2 DEF CompleteRecalc, FactsOK, HasVersion
  <2>3. CASE v = w /\ ~Recalculate(w) /\ ~CompleteRecalc(w)
    BY <1>6, <2>3
    DEF WorkerNext, RunBurgers, RunShops, ListFails, EndCycle, TakeJob, LockTarget,
        CommitRecalc, CommitAnswerLost, FailRecalc, RecordFailure, RecordLost, StopWorker,
        Resume, Leave
  <2>4. CASE v # w
    <3>1. wpc'[v] = wpc[v] /\ wjob'[v] = wjob[v] /\ wfacts'[v] = wfacts[v]
      BY <2>4 DEF WorkerNext, RunBurgers, RunShops, ListFails, EndCycle, TakeJob, LockTarget,
         Recalculate, CompleteRecalc, CommitRecalc, CommitAnswerLost, FailRecalc, RecordFailure,
         RecordLost, StopWorker, Resume, Leave
    <3>2. wjob[v].target \in Targets /\ ~HoldsTarget(w, wjob[v].target)
      BY <1>6, <2>4, <3>1, JobTypes DEF LocksOK, HoldsTarget
    <3>3. request'[wjob[v].target] = None => request[wjob[v].target] = None
      <4>1. CASE RecordFailure(w)
        BY <4>1, <3>2, FailedType DEF RecordFailure, HasVersion
      <4>2. CASE wpc[w] = "commit" /\ StoreStats(w)
        BY <3>2, <4>2 DEF StoreStats, HoldsTarget
      <4>3. CASE request' = request
        BY <4>3
      <4> QED
        BY <4>1, <4>2, <4>3
        DEF WorkerNext, RunBurgers, RunShops, ListFails, EndCycle, TakeJob, LockTarget,
            Recalculate, CompleteRecalc, CommitRecalc, CommitAnswerLost, FailRecalc,
            RecordLost, StopWorker
    <3>4. HasVersion(wjob[v].target, wjob[v].version)' => HasVersion(wjob[v].target, wjob[v].version)
      BY <3>1, <3>2, WorkerRequests DEF HasVersion
    <3> QED
      BY <1>6, <3>1, <3>3, <3>4 DEF FactsOK
  <2> QED
    BY <2>1, <2>2, <2>3, <2>4
<1>7. FactsOK'
  BY <1>1, <1>6 DEF FactsOK
<1> QED
  BY <1>5, <1>7

\* The initial states satisfy the inductive invariant.
LEMMA IInvInit == Init => IInv
<1> SUFFICES ASSUME Init PROVE IInv
  OBVIOUS
<1>1. Basic
  BY BasicInit
<1>2. SubjectsOK /\ CoverageOK
  BY DEF Init, SubjectsOK, CoverageOK, InTx
<1>3. VersionsOK /\ LocksOK /\ FactsOK
  BY NoneAssumption DEF Init, VersionsOK, LocksOK, FactsOK, HoldsTarget, JobsOf
<1>4. NoRequestMeansFresh
  BY DEF Init, NoRequestMeansFresh, FreshFor, Facts
<1> QED
  BY <1>1, <1>2, <1>3, <1>4 DEF IInv

\* The clock changes only when a request is due.
LEMMA IInvClock ==
    ASSUME IInv, NEW t \in Targets, BecomeDue(t) PROVE IInv'
<1> USE DEF IInv
<1>1. /\ UNCHANGED <<review, withdrawn, stats, seq, hpc, op, todo, pend,
                     wpc, wlist, wjob, wfacts, whit>>
      /\ \A s \in Targets \ {t} : request'[s] = request[s]
      /\ request[t] # None /\ request'[t].version = request[t].version
  <2>0. request[t] # None /\ request[t] \in Request
    BY DEF BecomeDue, Basic, TypeOK
  <2>1. UNCHANGED <<review, withdrawn, stats, seq, hpc, op, todo, pend,
                    wpc, wlist, wjob, wfacts, whit>>
    BY DEF BecomeDue, handlerVars, workerVars
  <2>2. /\ \A s \in Targets \ {t} : request'[s] = request[s]
        /\ request'[t] = [request[t] EXCEPT !.due = TRUE]
    BY DEF BecomeDue, Basic, TypeOK
  <2>3. request'[t].version = request[t].version
    BY <2>0, <2>2 DEF Request
  <2> QED
    BY <2>0, <2>1, <2>2, <2>3
<1>2. Basic'
  <2>1. Next
    BY DEF Next
  <2> QED
    BY <2>1, BasicNext
<1>3. request'[t] # None
  <2>1. request[t] \in Request
    BY <1>1 DEF Basic, TypeOK
  <2>2. [request[t] EXCEPT !.due = TRUE] \in Request
    BY <2>1 DEF Request
  <2> QED
    BY <2>2, NoneAssumption DEF BecomeDue, Basic, TypeOK
<1>4. SubjectsOK' /\ CoverageOK'
  BY <1>1 DEF SubjectsOK, SubjectLockedByOther, SameSubject, InTx, CoverageOK, Touched,
              Announced, TargetsOf
<1>5. \A s \in Targets : /\ request'[s] = None <=> request[s] = None
                         /\ \A v : HasVersion(s, v)' <=> HasVersion(s, v)
  BY <1>1, <1>3 DEF HasVersion
<1>6. VersionsOK'
  BY <1>1, <1>5 DEF VersionsOK, JobsOf
<1>7. \A w \in Workers : wpc[w] \in {"complete", "commit"} => wjob[w].target \in Targets
  BY JobTypes DEF Basic, WorkersOK
<1>8. LocksOK'
  BY <1>1, <1>5, <1>7 DEF LocksOK, HoldsTarget, Basic, WorkersOK
<1>9. FactsOK' /\ NoRequestMeansFresh'
  BY <1>1, <1>5, <1>7 DEF FactsOK, NoRequestMeansFresh, FreshFor, Facts, KeptFacts, TargetsOf
<1> QED
  BY <1>2, <1>4, <1>6, <1>8, <1>9

\* Every step keeps the inductive invariant.
LEMMA IInvNext ==
    ASSUME IInv, [Next]_vars PROVE IInv'
<1>1. Basic'
  BY BasicNext DEF IInv
<1>2. ASSUME NEW h \in Handlers, HandlerNext(h) PROVE IInv'
  BY <1>1, <1>2, SubjectsHandler, CoverageHandler, VersionsHandler, LocksHandler, FreshHandler
  DEF IInv
<1>3. ASSUME NEW w \in Workers, WorkerNext(w) PROVE IInv'
  <2>1. SubjectsOK' /\ CoverageOK'
    BY <1>3, WorkerFrame DEF IInv, SubjectsOK, SubjectLockedByOther, SameSubject, InTx,
       CoverageOK, Touched, Announced, TargetsOf, handlerVars
  <2> QED
    BY <1>1, <1>3, <2>1, VersionsWorker, LocksWorker, FreshWorker DEF IInv
<1>4. ASSUME NEW t \in Targets, BecomeDue(t) PROVE IInv'
  BY <1>4, IInvClock
<1>5. CASE UNCHANGED vars
  <2>1. SubjectsOK' /\ CoverageOK'
    BY <1>5 DEF IInv, SubjectsOK, SubjectLockedByOther, SameSubject, InTx, CoverageOK, Touched,
       Announced, TargetsOf, vars, dbVars, handlerVars
  <2>2. VersionsOK' /\ LocksOK'
    BY <1>5 DEF IInv, VersionsOK, JobsOf, LocksOK, HoldsTarget, HasVersion,
       vars, dbVars, handlerVars, workerVars
  <2>3. FactsOK' /\ NoRequestMeansFresh'
    BY <1>5 DEF IInv, FactsOK, HoldsTarget, HasVersion, NoRequestMeansFresh, FreshFor, Facts,
       KeptFacts, TargetsOf, vars, dbVars, handlerVars, workerVars
  <2> QED
    BY <1>1, <2>1, <2>2, <2>3 DEF IInv
<1> QED
  BY <1>2, <1>3, <1>4, <1>5 DEF Next

-----------------------------------------------------------------------------
(* The results                                                               *)

\* Statistics without a pending request are up to date: for any number of
\* writers, workers, retries, failures and crashes, in any interleaving.
THEOREM Freshness == Spec => []NoRequestMeansFresh
<1>1. IInv => NoRequestMeansFresh
  BY DEF IInv
<1> QED
  BY IInvInit, IInvNext, <1>1, PTL DEF Spec

\* If no user posts a review while withdrawing, settled statistics hold no
\* review of a withdrawn user, as the comment of usecase.Users.Delete says.
THEOREM WithdrawnLeave == Overlap = {} => (Spec => []WithdrawnNotCounted)
<1> SUFFICES ASSUME Overlap = {} PROVE Spec => []WithdrawnNotCounted
  OBVIOUS
<1>1. NoRequestMeansFresh => WithdrawnNotCounted
  BY DEF NoRequestMeansFresh, FreshFor, WithdrawnNotCounted
<1> QED
  BY <1>1, Freshness, PTL

\* Every committed change of a review leaves, for each target that shows it, a
\* request that counts no failure and that no worker has in hand.
THEOREM Announcement == Spec => ChangeIsAnnounced
<1> DEFINE Announce ==
      \A r \in Reviews : review'[r] # review[r] =>
          \A t \in TargetsOf(r) :
             /\ request'[t] # None
             /\ request'[t].attempts = 0
             /\ \A w \in Workers : wjob[w] # None /\ wjob[w].target = t =>
                   wjob[w].version # request'[t].version
<1>1. ASSUME IInv, [Next]_vars PROVE [Announce]_vars
  <2> USE <1>1 DEF IInv, Basic, TypeOK, HandlersOK
  <2>1. ASSUME NEW h \in Handlers, CommitWrite(h),
               NEW r \in Reviews, review'[r] # review[r], NEW t \in TargetsOf(r)
        PROVE  /\ request'[t] = [version |-> pend[h][t], attempts |-> 0, due |-> TRUE]
               /\ pend[h][t] # 0 /\ t \in Targets
    <3>1. op[h] \in Operation
      BY <2>1 DEF CommitWrite
    <3>2. r \in Touched(h)
      BY <2>1, <3>1, OperationFields DEF Touched, CommitWrite
    <3>3. t \in Targets /\ pend[h][t] # 0
      BY <2>1, <3>2, TargetTypes DEF CommitWrite, CoverageOK, Announced
    <3> QED
      BY <2>1, <3>3 DEF CommitWrite
  <2>2. ASSUME NEW h \in Handlers, CommitWrite(h) PROVE Announce
    <3> SUFFICES ASSUME NEW r \in Reviews, review'[r] # review[r], NEW t \in TargetsOf(r)
                 PROVE  /\ request'[t] # None
                        /\ request'[t].attempts = 0
                        /\ \A w \in Workers : wjob[w] # None /\ wjob[w].target = t =>
                              wjob[w].version # request'[t].version
      OBVIOUS
    <3>1. /\ request'[t] = [version |-> pend[h][t], attempts |-> 0, due |-> TRUE]
          /\ pend[h][t] # 0 /\ t \in Targets
      BY <2>1, <2>2
    <3>2. request'[t] \in Request
      BY <3>1 DEF Request
    <3>3. request'[t] # None /\ request'[t].attempts = 0 /\ request'[t].version = pend[h][t]
      <4>1. request'[t] # None
        BY <3>2, NoneAssumption
      <4>2. request'[t].attempts = 0 /\ request'[t].version = pend[h][t]
        BY <3>1
      <4> QED
        BY <4>1, <4>2
    <3>4. \A w \in Workers : wjob[w] # None => wjob[w] \in JobsOf(w)
      BY DEF JobsOf
    <3> QED
      BY <2>2, <3>1, <3>3, <3>4 DEF VersionsOK
  <2>3. CASE review' = review
    BY <2>3
  <2>4. ASSUME NEW h \in Handlers, HandlerNext(h) PROVE [Announce]_vars
    BY <2>2, <2>3, <2>4, HandlerFrame
  <2>5. ASSUME NEW w \in Workers, WorkerNext(w) PROVE [Announce]_vars
    BY <2>3, <2>5, WorkerFrame
  <2> QED
    BY <1>1, <2>3, <2>4, <2>5 DEF Next, BecomeDue, vars, dbVars
<1>2. [][Announce]_vars => ChangeIsAnnounced
  BY DEF ChangeIsAnnounced
<1> QED
  BY IInvInit, IInvNext, <1>1, <1>2, PTL DEF Spec

-----------------------------------------------------------------------------
(* Refinement of DerivedStats                                                *)

Reading(w, t) == wpc[w] \in {"complete", "commit"} /\ wjob[w].target = t

\* A worker that has read is the only one.
LEMMA OneDraft ==
    ASSUME IInv, NEW w \in Workers, NEW t \in Targets, HoldsTarget(w, t)
    PROVE  Drafts(t) = IF Reading(w, t) THEN {wfacts[w]} ELSE {}
<1>1. \A v \in Workers \ {w} : ~Reading(v, t)
  BY DEF IInv, LocksOK, Reading, HoldsTarget
<1>2. Drafts(t) = {wfacts[v] : v \in {x \in Workers : Reading(x, t)}}
  BY DEF Drafts, Reading
<1>3. CASE Reading(w, t)
  <2>1. {x \in Workers : Reading(x, t)} = {w}
    BY <1>1, <1>3
  <2> QED
    BY <1>2, <1>3, <2>1
<1>4. CASE ~Reading(w, t)
  <2>1. {x \in Workers : Reading(x, t)} = {}
    BY <1>1, <1>4
  <2> QED
    BY <1>2, <1>4, <2>1
<1> QED
  BY <1>3, <1>4

\* Where no worker begins or ends reading, the drafts stay.
LEMMA SameDrafts ==
    ASSUME NEW t,
           \A v \in Workers : /\ Reading(v, t)' <=> Reading(v, t)
                              /\ Reading(v, t) => wfacts'[v] = wfacts[v]
    PROVE  Drafts(t)' = Drafts(t)
<1> DEFINE R == {v \in Workers : Reading(v, t)}
<1>1. Drafts(t) = {wfacts[v] : v \in R} /\ Drafts(t)' = {wfacts'[v] : v \in R'}
  BY DEF Drafts, Reading
<1>2. \A v : v \in R' <=> v \in R
  <2>1. \A v : v \in R <=> v \in Workers /\ Reading(v, t)
    OBVIOUS
  <2>2. \A v : v \in R' <=> v \in Workers /\ Reading(v, t)'
    BY DEF Reading
  <2> QED
    BY <2>1, <2>2
<1>3. \A v \in R : wfacts'[v] = wfacts[v]
  OBVIOUS
<1> HIDE DEF R
<1>4. R' = R
  BY <1>2
<1> QED
  BY <1>1, <1>3, <1>4

\* A step of w changes no draft but that of the target it holds.
LEMMA DraftAfter ==
    ASSUME IInv, NEW w \in Workers, NEW t \in Targets, HoldsTarget(w, t),
           \A v \in Workers \ {w} : wpc'[v] = wpc[v] /\ wjob'[v] = wjob[v]
    PROVE  Drafts(t)' = IF Reading(w, t)' THEN {wfacts'[w]} ELSE {}
<1> DEFINE R == {v \in Workers : Reading(v, t)}
<1>1. \A v \in Workers \ {w} : ~Reading(v, t)'
  BY DEF IInv, LocksOK, Reading, HoldsTarget
<1>2. Drafts(t)' = {wfacts'[v] : v \in R'}
  BY DEF Drafts, Reading
<1>3. R' = IF Reading(w, t)' THEN {w} ELSE {}
  BY <1>1
<1> HIDE DEF R
<1> QED
  BY <1>2, <1>3

\* The refinement mapping of truth and dirty follows review, withdrawn, request.
LEMMA SameTruth ==
    ASSUME UNCHANGED <<review, withdrawn>>
    PROVE  \A t : Facts(t)' = Facts(t)
  BY DEF Facts, KeptFacts, TargetsOf

\* A step of a handler is a write of the promise, or none of its steps.
LEMMA RefineHandler ==
    ASSUME Overlap = {}, IInv, IInv', NEW h \in Handlers, HandlerNext(h)
    PROVE  [Published!Next]_(Published!vars)
<1> USE DEF IInv, Basic, TypeOK, workerVars
<1>1. UNCHANGED <<stats, wpc, wjob, wfacts>>
  BY HandlerFrame
<1>2. \A t : Drafts(t)' = Drafts(t)
  BY <1>1 DEF Drafts
<1>3. CASE ~CommitWrite(h)
  <2>1. UNCHANGED <<review, withdrawn, request>>
    BY <1>3, HandlerFrame
  <2> QED
    BY <1>1, <1>2, <2>1, SameTruth DEF Published!vars
<1>4. CASE CommitWrite(h)
  <2> DEFINE T == {t \in Targets : pend[h][t] # 0}
  <2>1. ASSUME NEW t \in Targets \ T PROVE Facts(t)' = Facts(t)
    <3>1. PICK S : S = Facts(t)
      OBVIOUS
    <3>2. FreshFor(S, t)
      BY <3>1 DEF FreshFor, Facts
    <3>3. FreshFor(S, t)'
      BY <1>4, <3>2, CommitKeepsFresh
    <3> QED
      BY <3>1, <3>3 DEF FreshFor, Facts
  <2>2. [t \in Targets |-> Facts(t)]' \in [Targets -> SUBSET Fact]
    BY DEF Facts, KeptFacts
  <2>3. \A t \in Targets : request'[t] # None <=> request[t] # None \/ t \in T
    <3>1. ASSUME NEW t \in T PROVE request'[t] # None
      <4>1. [version |-> pend[h][t], attempts |-> 0, due |-> TRUE] \in Request
        BY DEF Request
      <4> QED
        BY <1>4, <4>1, NoneAssumption DEF CommitWrite
    <3>2. \A t \in Targets \ T : request'[t] = request[t]
      BY <1>4 DEF CommitWrite
    <3> QED
      BY <3>1, <3>2
  <2> PICK S : S = T
    OBVIOUS
  <2>4. Published!Change(S)
    <3>1. \A t \in Targets \ T : [s \in Targets |-> Facts(s)]'[t] = [s \in Targets |-> Facts(s)][t]
      BY <2>1
    <3>2. {t \in Targets : request[t] # None}' = {t \in Targets : request[t] # None} \cup T
      BY <2>3
    <3>3. UNCHANGED <<stats, [t \in Targets |-> Drafts(t)]>>
      BY <1>1, <1>2
    <3> QED
      BY <2>2, <3>1, <3>2, <3>3 DEF Published!Change
  <2> QED
    BY <2>4 DEF Published!Next
<1> QED
  BY <1>3, <1>4

\* A step of a worker is a publication of the promise, or none of its steps.
LEMMA RefineWorker ==
    ASSUME Overlap = {}, IInv, IInv', NEW w \in Workers, WorkerNext(w)
    PROVE  [Published!Next]_(Published!vars)
<1> USE DEF IInv, Basic, TypeOK, WorkersOK, dbVars, workerVars
<1> DEFINE t0 == wjob[w].target
<1>1. \A t : Facts(t)' = Facts(t)
  BY WorkerFrame, SameTruth
<1>2. \A v \in Workers \ {w} : wpc'[v] = wpc[v] /\ wjob'[v] = wjob[v] /\ wfacts'[v] = wfacts[v]
  BY DEF WorkerNext, RunBurgers, RunShops, ListFails, EndCycle, TakeJob, LockTarget, Recalculate,
         CompleteRecalc, CommitRecalc, CommitAnswerLost, FailRecalc, RecordFailure, RecordLost,
         StopWorker, Resume, Leave
<1>3. UNCHANGED [t \in Targets |-> Facts(t)]
  BY <1>1
<1>4. ASSUME \/ RunBurgers(w) \/ RunShops(w) \/ ListFails(w) \/ EndCycle(w) \/ TakeJob(w)
             \/ LockTarget(w) \/ CompleteRecalc(w) \/ RecordFailure(w) \/ RecordLost(w)
      PROVE  UNCHANGED Published!vars
  <2>1. stats' = stats
    BY <1>4 DEF RunBurgers, RunShops, ListFails, EndCycle, TakeJob, LockTarget, CompleteRecalc,
                RecordFailure, RecordLost
  <2>2. \A t \in Targets : request'[t] = None <=> request[t] = None
    <3>1. CASE RecordFailure(w)
      BY <3>1, FailedType DEF RecordFailure, HasVersion
    <3>2. CASE ~RecordFailure(w)
      BY <1>4, <3>2 DEF RunBurgers, RunShops, ListFails, EndCycle, TakeJob, LockTarget,
                        CompleteRecalc, RecordLost
    <3> QED
      BY <3>1, <3>2
  <2>3. \A t : /\ Reading(w, t)' <=> Reading(w, t)
               /\ Reading(w, t) => wfacts'[w] = wfacts[w]
    BY <1>4 DEF RunBurgers, RunShops, ListFails, EndCycle, TakeJob, LockTarget, CompleteRecalc,
                RecordFailure, RecordLost, Resume, Leave, Reading
  <2>4. \A t : Drafts(t)' = Drafts(t)
    <3> SUFFICES ASSUME NEW t PROVE Drafts(t)' = Drafts(t)
      OBVIOUS
    <3>1. ASSUME NEW v \in Workers
          PROVE  /\ Reading(v, t)' <=> Reading(v, t)
                 /\ Reading(v, t) => wfacts'[v] = wfacts[v]
      <4>1. CASE v = w
        BY <2>3, <4>1
      <4>2. CASE v # w
        <5>1. wpc'[v] = wpc[v] /\ wjob'[v] = wjob[v] /\ wfacts'[v] = wfacts[v]
          BY <1>2, <4>2
        <5> QED
          BY <5>1 DEF Reading
      <4> QED
        BY <4>1, <4>2
    <3> QED
      BY <3>1, SameDrafts
  <2> QED
    BY <1>3, <2>1, <2>2, <2>4 DEF Published!vars
<1>5. ASSUME NEW t \in Targets \ {t0}, wpc'[w] \notin {"complete", "commit"} \/ wjob'[w] = wjob[w]
      PROVE  Drafts(t)' = Drafts(t)
  <2>1. \A v \in Workers : /\ Reading(v, t)' <=> Reading(v, t)
                           /\ Reading(v, t) => wfacts'[v] = wfacts[v]
    BY <1>2, <1>5 DEF Reading
  <2> QED
    BY <2>1, SameDrafts
<1>6. ASSUME HoldsTarget(w, t0), t0 \in Targets,
             wpc'[w] \notin {"complete", "commit"} \/ wjob'[w] = wjob[w]
      PROVE  /\ [t \in Targets |-> Drafts(t)]' =
                   [[t \in Targets |-> Drafts(t)] EXCEPT ![t0] =
                       IF wpc'[w] \in {"complete", "commit"} THEN {wfacts'[w]} ELSE {}]
             /\ Drafts(t0) = IF wpc[w] \in {"complete", "commit"} THEN {wfacts[w]} ELSE {}
  <2>1. PICK t1 : t1 = t0
    OBVIOUS
  <2>2. Drafts(t1)' = IF Reading(w, t1)' THEN {wfacts'[w]} ELSE {}
    BY <1>2, <1>6, <2>1, DraftAfter
  <2>3. \A t \in Targets \ {t1} : Drafts(t)' = Drafts(t)
    BY <1>5, <1>6, <2>1
  <2>4. Reading(w, t1)' <=> wpc'[w] \in {"complete", "commit"}
    BY <1>6, <2>1 DEF Reading
  <2>5. Drafts(t0) = IF wpc[w] \in {"complete", "commit"} THEN {wfacts[w]} ELSE {}
    BY <1>6, OneDraft DEF Reading
  <2>6. PICK S : S = IF wpc'[w] \in {"complete", "commit"} THEN {wfacts'[w]} ELSE {}
    OBVIOUS
  <2>7. \A t \in Targets : Drafts(t)' = IF t = t1 THEN S ELSE Drafts(t)
    BY <2>2, <2>3, <2>4, <2>6
  <2>8. [t \in Targets |-> Drafts(t)]' = [[t \in Targets |-> Drafts(t)] EXCEPT ![t1] = S]
    BY <2>7
  <2> QED
    BY <2>1, <2>5, <2>6, <2>8
<1>7. CASE Recalculate(w)
  <2>1. /\ HoldsTarget(w, t0) /\ t0 \in Targets /\ wjob' = wjob /\ wpc[w] = "recalc"
        /\ wpc'[w] = "complete" /\ wfacts'[w] = Facts(t0) /\ UNCHANGED <<request, stats>>
    BY <1>7, JobTypes DEF Recalculate, HoldsTarget
  <2>2. Published!Read(t0)
    BY <1>3, <1>6, <2>1 DEF Published!Read
  <2> QED
    BY <2>1, <2>2 DEF Published!Next
<1>8. ASSUME wpc[w] = "commit", StoreStats(w), wpc'[w] \notin {"complete", "commit"}
      PROVE  Published!Next
  <2> PICK t1 : t1 = t0
    OBVIOUS
  <2>1. HoldsTarget(w, t1) /\ t1 \in Targets /\ stats' = [stats EXCEPT ![t1] = wfacts[w]]
    BY <1>8, JobTypes DEF StoreStats, HoldsTarget
  <2>0. /\ wfacts[w] \in [t \in Targets |-> Drafts(t)][t1]
        /\ [t \in Targets |-> Drafts(t)]' = [[t \in Targets |-> Drafts(t)] EXCEPT ![t1] = {}]
    BY <1>6, <1>8, <2>1
  <2>2. CASE whit[w]
    <3>1. request' = [request EXCEPT ![t1] = None]
      BY <1>8, <2>2 DEF StoreStats
    <3>2. wfacts[w] = Facts(t1)
      <4>1. FreshFor(wfacts[w], t1)
        BY <1>8, <2>2 DEF FactsOK, LocksOK
      <4> QED
        BY <4>1 DEF FreshFor, Facts
    <3>3. {t \in Targets : request[t] # None}' = {t \in Targets : request[t] # None} \ {t1}
      BY <2>1, <3>1
    <3>4. Published!Show(t1)
      BY <1>3, <2>0, <2>1, <3>2, <3>3 DEF Published!Show
    <3> QED
      BY <2>1, <3>4 DEF Published!Next
  <2>3. CASE ~whit[w]
    <3>1. request' = request
      BY <1>8, <2>3 DEF StoreStats
    <3>2. {t \in Targets : request[t] # None}' = {t \in Targets : request[t] # None}
      BY <3>1
    <3>3. Published!Show(t1)
      BY <1>3, <2>0, <2>1, <3>2 DEF Published!Show
    <3> QED
      BY <2>1, <3>3 DEF Published!Next
  <2> QED
    BY <2>2, <2>3
<1>9. ASSUME FailRecalc(w) \/ StopWorker(w) PROVE [Published!Next]_(Published!vars)
  <2>1. UNCHANGED <<request, stats>> /\ wpc'[w] \notin {"complete", "commit"}
    BY <1>9 DEF FailRecalc, StopWorker, Leave
  <2>2. CASE wpc[w] \in {"complete", "commit"}
    <3>1. HoldsTarget(w, t0) /\ t0 \in Targets
      BY <2>2, JobTypes DEF HoldsTarget
    <3>2. Published!Drop(t0)
      BY <1>3, <1>6, <2>1, <3>1 DEF Published!Drop
    <3> QED
      BY <3>1, <3>2 DEF Published!Next
  <2>3. CASE wpc[w] \notin {"complete", "commit"}
    <3>1. \A t : Drafts(t)' = Drafts(t)
      <4> SUFFICES ASSUME NEW t PROVE Drafts(t)' = Drafts(t)
        OBVIOUS
      <4>1. \A v \in Workers : /\ Reading(v, t)' <=> Reading(v, t)
                               /\ Reading(v, t) => wfacts'[v] = wfacts[v]
        BY <1>2, <2>1, <2>3 DEF Reading
      <4> QED
        BY <4>1, SameDrafts
    <3> QED
      BY <1>3, <2>1, <3>1 DEF Published!vars
  <2> QED
    BY <2>2, <2>3
<1>10. CASE CommitRecalc(w) \/ CommitAnswerLost(w)
  BY <1>8, <1>10 DEF CommitRecalc, CommitAnswerLost, Resume, Leave
<1> QED
  BY <1>4, <1>7, <1>9, <1>10 DEF WorkerNext

\* The pipeline publishes each target's statistics one recalculation at a time,
\* each with what was true when it was read, and drops a request only when what
\* it stores is still true, if no user posts a review while withdrawing.
THEOREM Refinement == Overlap = {} => (Spec => ImplementsDerivedStats)
<1> SUFFICES ASSUME Overlap = {} PROVE Spec => ImplementsDerivedStats
  OBVIOUS
<1>1. Init => Published!Init
  <2> SUFFICES ASSUME Init PROVE Published!Init
    OBVIOUS
  <2>1. [t \in Targets |-> Facts(t)] \in [Targets -> SUBSET Fact]
    BY DEF Facts, KeptFacts
  <2>2. \A t : Drafts(t) = {}
    BY DEF Init, Drafts
  <2> QED
    BY <2>1, <2>2 DEF Init, Published!Init
<1>2. ASSUME IInv, [Next]_vars PROVE [Published!Next]_(Published!vars)
  <2>1. IInv'
    BY <1>2, IInvNext
  <2>2. ASSUME NEW h \in Handlers, HandlerNext(h) PROVE [Published!Next]_(Published!vars)
    BY <1>2, <2>1, <2>2, RefineHandler
  <2>3. ASSUME NEW w \in Workers, WorkerNext(w) PROVE [Published!Next]_(Published!vars)
    BY <1>2, <2>1, <2>3, RefineWorker
  <2>4. ASSUME NEW t \in Targets, BecomeDue(t) PROVE UNCHANGED Published!vars
    <3>1. UNCHANGED <<stats, wpc, wjob, wfacts>> /\ \A s : Facts(s)' = Facts(s)
      BY <2>4, SameTruth DEF BecomeDue, workerVars
    <3>2. \A s : Drafts(s)' = Drafts(s)
      BY <3>1 DEF Drafts
    <3>3. \A s \in Targets : request'[s] # None <=> request[s] # None
      <4>1. request[t] \in Request /\ [request[t] EXCEPT !.due = TRUE] \in Request
        <5>1. PICK q : q = request[t]
          OBVIOUS
        <5>2. q \in Request
          BY <1>2, <2>4, <5>1 DEF BecomeDue, IInv, Basic, TypeOK
        <5>3. [q EXCEPT !.due = TRUE] \in Request
          BY <5>2 DEF Request
        <5> QED
          BY <5>1, <5>2, <5>3
      <4>2. request'[t] # None
        BY <1>2, <2>4, <4>1, NoneAssumption DEF BecomeDue, IInv, Basic, TypeOK
      <4>3. \A s \in Targets \ {t} : request'[s] = request[s]
        BY <1>2, <2>4 DEF BecomeDue, IInv, Basic, TypeOK
      <4> QED
        BY <2>4, <4>2, <4>3 DEF BecomeDue
    <3> QED
      BY <3>1, <3>2, <3>3 DEF Published!vars
  <2>5. CASE UNCHANGED vars
    BY <2>5, SameTruth DEF vars, dbVars, workerVars, Published!vars, Drafts
  <2> QED
    BY <1>2, <2>2, <2>3, <2>4, <2>5 DEF Next
<1> QED
  BY IInvInit, IInvNext, <1>1, <1>2, PTL DEF Spec, ImplementsDerivedStats, Published!Spec

-----------------------------------------------------------------------------
(* No circle of waiting transactions                                         *)

\* Burgers are registered before shops, each in ascending order.
OrderOK ==
    \A h \in Handlers :
        /\ hpc[h] = "burgers" => todo[h] \subseteq Burgers /\ \A t \in Shops : pend[h][t] = 0
        /\ hpc[h] = "shops" => todo[h] \subseteq Shops
        /\ \A t \in Targets : \A s \in todo[h] :
              pend[h][t] # 0 /\ (t \in Burgers <=> s \in Burgers) => Rank[t] < Rank[s]

\* The two tables, and that ranks are numbers that tell ids of one table apart.
LEMMA RankTells ==
    /\ Burgers \subseteq Targets /\ Shops \subseteq Targets
    /\ \A t \in Targets : Rank[t] \in Nat /\ (t \in Burgers <=> t \notin Shops)
    /\ \A s, t \in Targets : (s \in Burgers <=> t \in Burgers) /\ Rank[s] = Rank[t] => s = t
  BY PipelineAssumption, OrderAssumption DEF Targets

\* The actions of a request handler keep the order.
LEMMA OrderHandler ==
    ASSUME Basic, OrderOK, NEW h \in Handlers, HandlerNext(h) PROVE OrderOK'
<1> DEFINE Ordered(g) ==
        /\ hpc[g] = "burgers" => todo[g] \subseteq Burgers /\ \A t \in Shops : pend[g][t] = 0
        /\ hpc[g] = "shops" => todo[g] \subseteq Shops
        /\ \A t \in Targets : \A s \in todo[g] :
              pend[g][t] # 0 /\ (t \in Burgers <=> s \in Burgers) => Rank[t] < Rank[s]
<1>0. /\ hpc \in [Handlers -> {"idle", "loaded", "listing", "burgers", "shops"}]
      /\ op \in [Handlers -> Operation \cup {None}]
      /\ todo \in [Handlers -> SUBSET Targets] /\ pend \in [Handlers -> [Targets -> Nat]]
      /\ seq \in Nat
  BY DEF Basic, TypeOK
<1>1. \A g \in Handlers : Ordered(g)
  BY DEF OrderOK
<1>2. hpc[h] \in {"idle", "loaded", "listing"} => todo[h] = {} /\ \A t \in Targets : pend[h][t] = 0
  BY DEF Basic, HandlersOK
<1>3. SUFFICES Ordered(h)' /\ \A g \in Handlers : g # h => Ordered(g)'
  BY DEF OrderOK
<1>4. ASSUME NEW g \in Handlers, g # h PROVE Ordered(g)'
  <2>1. hpc'[g] = hpc[g] /\ todo'[g] = todo[g] /\ pend'[g] = pend[g]
    BY <1>0, <1>4 DEF HandlerNext, Load, WriteSubject, SubjectGone, ListReviewedBurgers, ListShops,
       RequestRecalc, CommitWrite, AbortWrite, EndTx
  <2>2. Ordered(g)
    BY <1>1
  <2> QED
    BY <2>1, <2>2
<1>5. ASSUME NEW o \in Operation, Load(h, o) PROVE Ordered(h)'
  BY <1>0, <1>2, <1>5 DEF Load
<1>6. ASSUME SubjectGone(h) \/ CommitWrite(h) \/ AbortWrite(h) PROVE Ordered(h)'
  BY <1>0, <1>6 DEF SubjectGone, CommitWrite, AbortWrite, EndTx
<1>7. ASSUME WriteSubject(h) PROVE Ordered(h)'
  <2>1. UNCHANGED pend /\ hpc[h] = "loaded"
    BY <1>7 DEF WriteSubject
  <2>2. \A t \in Targets : pend'[h][t] = 0
    BY <1>2, <2>1
  <2>3. \/ hpc'[h] = "listing"
        \/ hpc'[h] = "burgers" /\ todo'[h] = {BurgerOf[op[h].review]} /\ op[h].kind # "withdraw"
    BY <1>0, <1>7 DEF WriteSubject
  <2>4. op[h].kind # "withdraw" => BurgerOf[op[h].review] \in Burgers
    <3>1. op[h] \in Operation
      BY <1>0, <2>1 DEF Basic, HandlersOK
    <3> QED
      BY <3>1, OperationFields, TargetTypes
  <2>5. Shops \subseteq Targets
    BY RankTells
  <2> QED
    BY <2>2, <2>3, <2>4, <2>5
<1>8. ASSUME ListReviewedBurgers(h) PROVE Ordered(h)'
  <2>1. UNCHANGED pend /\ hpc'[h] = "burgers" /\ todo'[h] \subseteq Burgers /\ hpc[h] = "listing"
    BY <1>0, <1>8, TargetTypes DEF ListReviewedBurgers
  <2> QED
    BY <1>2, <2>1, RankTells
<1>9. ASSUME ListShops(h) PROVE Ordered(h)'
  <2> DEFINE B == IF op[h].kind = "withdraw" THEN ReviewedBurgers(op[h].user)
                  ELSE {BurgerOf[op[h].review]}
  <2>1. B \subseteq Burgers
    <3>1. op[h] \in Operation
      BY <1>0, <1>9 DEF Basic, HandlersOK, ListShops
    <3> QED
      BY <3>1, OperationFields, TargetTypes
  <2>2. ShopsOfBurgers(B) \subseteq Shops
    BY <2>1, PipelineAssumption DEF ShopsOfBurgers
  <2>3. hpc[h] = "burgers" /\ hpc'[h] = "shops" /\ todo'[h] = ShopsOfBurgers(B) /\ UNCHANGED pend
    BY <1>0, <1>9 DEF ListShops
  <2> HIDE DEF B
  <2>4. \A t \in Shops : pend[h][t] = 0
    BY <1>1, <2>3
  <2> QED
    BY <2>2, <2>3, <2>4, RankTells
<1>10. ASSUME NEW t \in Targets, RequestRecalc(h, t) PROVE Ordered(h)'
  <2>1. /\ UNCHANGED hpc /\ hpc[h] \in {"burgers", "shops"} /\ t \in todo[h]
        /\ \A s \in todo[h] : Rank[t] <= Rank[s]
        /\ todo'[h] = todo[h] \ {t}
        /\ \A s \in Targets : s # t => pend'[h][s] = pend[h][s]
    BY <1>0, <1>10 DEF RequestRecalc, NextTargets
  <2>2. todo[h] \subseteq Targets
    BY <1>0
  <2>3. ASSUME NEW s \in todo[h], s # t, t \in Burgers <=> s \in Burgers PROVE Rank[t] < Rank[s]
    BY <2>1, <2>2, <2>3, RankTells
  <2>4. Ordered(h)
    BY <1>1
  <2>5. hpc[h] = "burgers" => t \notin Shops
    BY <2>1, <2>4, RankTells
  <2> QED
    BY <2>1, <2>2, <2>3, <2>4, <2>5, RankTells
<1> QED
  BY <1>4, <1>5, <1>6, <1>7, <1>8, <1>9, <1>10 DEF HandlerNext

\* The first states, and every step, keep the order.
LEMMA OrderNext == /\ Init => OrderOK
                   /\ Basic /\ OrderOK /\ [Next]_vars => OrderOK'
<1>1. Init => OrderOK
  BY DEF Init, OrderOK
<1>2. ASSUME Basic, OrderOK, [Next]_vars PROVE OrderOK'
  <2>1. CASE UNCHANGED handlerVars
    BY <1>2, <2>1 DEF OrderOK, handlerVars
  <2>2. ASSUME NEW h \in Handlers, HandlerNext(h) PROVE OrderOK'
    BY <1>2, <2>2, OrderHandler
  <2>3. ASSUME NEW w \in Workers, WorkerNext(w) PROVE UNCHANGED handlerVars
    BY <2>3, WorkerFrame
  <2>4. ASSUME NEW t \in Targets, BecomeDue(t) PROVE UNCHANGED handlerVars
    BY <2>4 DEF BecomeDue
  <2> QED
    BY <1>2, <2>1, <2>2, <2>3, <2>4 DEF Next, vars
<1> QED
  BY <1>1, <1>2

\* The target a handler registers next.
NextOf(h) == CHOOSE t \in NextTargets(h) : TRUE

\* The target at whose request p waits.
At(p) == IF p \in Handlers THEN NextOf(p) ELSE wjob[p].target

\* How far p is: before its first lock, at a burger's request, at a shop's, or
\* where it waits for nobody.
Stage(p) ==
    IF p \in Handlers
    THEN IF hpc[p] \in {"idle", "loaded"} THEN 0
         ELSE IF NextTargets(p) = {} THEN 3
         ELSE IF NextOf(p) \in Burgers THEN 1 ELSE 2
    ELSE IF wpc[p] \in {"rest", "burgers", "shops", "lock"} THEN 0
         ELSE IF wpc[p] \notin {"complete", "record"} THEN 3
         ELSE IF wjob[p].target \in Burgers THEN 1 ELSE 2

\* q is further than p.
Before(p, q) ==
    \/ Stage(p) < Stage(q)
    \/ Stage(p) \in {1, 2} /\ Stage(p) = Stage(q) /\ Rank[At(p)] < Rank[At(q)]

\* Who waits at a request waits at a target of its stage.
LEMMA StageIs ==
    ASSUME Basic, NEW p \in Handlers \cup Workers
    PROVE  /\ Stage(p) \in 0..3
           /\ Stage(p) \in {1, 2} => At(p) \in Targets /\ Rank[At(p)] \in Nat
           /\ Stage(p) = 1 => At(p) \in Burgers
           /\ Stage(p) = 2 => At(p) \notin Burgers
           /\ p \in Handlers /\ Stage(p) \in {1, 2} => At(p) \in NextTargets(p)
<1>1. Stage(p) \in 0..3
  BY DEF Stage
<1>2. CASE p \in Handlers
  <2>1. Stage(p) \in {1, 2} => NextTargets(p) # {}
    BY <1>2 DEF Stage
  <2>2. NextTargets(p) # {} => NextOf(p) \in NextTargets(p)
    BY DEF NextOf
  <2>3. NextTargets(p) \subseteq Targets
    BY <1>2 DEF NextTargets, Basic, TypeOK
  <2> QED
    BY <1>1, <1>2, <2>1, <2>2, <2>3, RankTells DEF Stage, At
<1>3. CASE p \in Workers /\ p \notin Handlers
  <2>1. Stage(p) \in {1, 2} => wjob[p].target \in Targets
    <3>1. Stage(p) \in {1, 2} => wpc[p] \in {"complete", "record"}
      BY <1>3 DEF Stage
    <3>2. wpc[p] \in {"complete", "record"} => wjob[p] # None
      BY <1>3 DEF Basic, WorkersOK
    <3> QED
      BY <1>3, <3>1, <3>2, JobTypes
  <2> QED
    BY <1>1, <1>3, <2>1, RankTells DEF Stage, At
<1> QED
  BY <1>2, <1>3

\* Who keeps the request of a target is further than who waits for it.
LEMMA KeeperIsFurther ==
    ASSUME Basic, OrderOK, NEW p \in Handlers \cup Workers, NEW t \in Targets,
           Stage(p) = (IF t \in Burgers THEN 1 ELSE 2), At(p) = t
    PROVE  /\ \A q \in Handlers : pend[q][t] # 0 => Before(p, q)
           /\ \A q \in Workers : HoldsRequestRow(q, t) => Before(p, q)
<1>1. ASSUME NEW q \in Workers, HoldsRequestRow(q, t) PROVE Before(p, q)
  <2>1. Stage(q) = 3
    BY <1>1, OrderAssumption DEF HoldsRequestRow, Stage
  <2> QED
    BY <2>1 DEF Before
<1>2. ASSUME NEW q \in Handlers, pend[q][t] # 0 PROVE Before(p, q)
  <2>1. hpc[q] \in {"burgers", "shops"} /\ NextTargets(q) \subseteq todo[q] /\ todo[q] \subseteq Targets
    BY <1>2 DEF Basic, HandlersOK, TypeOK, NextTargets
  <2>2. CASE NextTargets(q) = {}
    BY <2>1, <2>2 DEF Stage, Before
  <2>3. CASE NextTargets(q) # {}
    <3>1. NextOf(q) \in NextTargets(q) /\ At(q) = NextOf(q)
      BY <2>3 DEF NextOf, At
    <3>2. Stage(q) = IF At(q) \in Burgers THEN 1 ELSE 2
      BY <2>1, <2>3, <3>1 DEF Stage
    <3>3. At(q) \in todo[q] /\ At(q) \in Targets
      BY <2>1, <3>1
    <3>4. (t \in Burgers <=> At(q) \in Burgers) => Rank[t] < Rank[At(q)]
      BY <1>2, <3>3 DEF OrderOK
    <3>5. t \notin Burgers => At(q) \notin Burgers
      BY <1>2, <2>1, <3>3, RankTells DEF OrderOK
    <3> QED
      BY <3>2, <3>4, <3>5 DEF Before
  <2> QED
    BY <2>2, <2>3
<1> QED
  BY <1>1, <1>2

\* Nobody waits for one who is not further.
LEMMA WaitsForward ==
    ASSUME Basic, OrderOK, NEW p \in Handlers \cup Workers, NEW q \in Handlers \cup Workers,
           WaitsFor(p, q)
    PROVE  Before(p, q)
<1>1. ASSUME p \in Handlers, NEW t \in NextTargets(p)
      PROVE  t \in Targets /\ At(p) = t /\ Stage(p) = IF t \in Burgers THEN 1 ELSE 2
  <2>1. t \in todo[p] /\ todo[p] \subseteq Targets /\ hpc[p] \in {"burgers", "shops"}
    BY <1>1 DEF NextTargets, Basic, HandlersOK, TypeOK
  <2>2. NextOf(p) \in NextTargets(p)
    BY <1>1 DEF NextOf
  <2>3. NextOf(p) \in todo[p] /\ Rank[t] <= Rank[NextOf(p)] /\ Rank[NextOf(p)] <= Rank[t]
    BY <1>1, <2>1, <2>2 DEF NextTargets
  <2>4. t \in Burgers <=> NextOf(p) \in Burgers
    BY <1>1, <2>1, <2>3, RankTells DEF OrderOK
  <2>5. NextOf(p) = t
    BY <2>1, <2>3, <2>4, RankTells
  <2> QED
    BY <1>1, <2>1, <2>5 DEF At, Stage
<1>2. ASSUME p \in Workers, wpc[p] \in {"complete", "record"}
      PROVE  /\ wjob[p].target \in Targets /\ At(p) = wjob[p].target
             /\ Stage(p) = IF wjob[p].target \in Burgers THEN 1 ELSE 2
  <2>1. wjob[p] # None
    BY <1>2 DEF Basic, WorkersOK
  <2> QED
    BY <1>2, <2>1, JobTypes, OrderAssumption DEF At, Stage
<1>3. CASE p \in Handlers /\ q \in Handlers /\ hpc[p] = "loaded" /\ InTx(q)
  <2>1. Stage(p) = 0 /\ Stage(q) # 0
    BY <1>3 DEF Stage, InTx
  <2> QED
    BY <2>1, StageIs DEF Before
<1>4. CASE p \in Handlers /\ q \in Handlers /\ \E t \in NextTargets(p) : pend[q][t] # 0
  BY <1>1, <1>4, KeeperIsFurther
<1>5. CASE p \in Handlers /\ q \in Workers /\ \E t \in NextTargets(p) : HoldsRequestRow(q, t)
  BY <1>1, <1>5, KeeperIsFurther
<1>6. CASE /\ p \in Workers /\ q \in Handlers
           /\ wpc[p] \in {"complete", "record"} /\ pend[q][wjob[p].target] # 0
  BY <1>2, <1>6, KeeperIsFurther
<1>7. CASE p \in Workers /\ q \in Workers /\ wpc[p] = "lock" /\ HoldsTarget(q, wjob[p].target)
  <2>1. Stage(p) = 0 /\ Stage(q) # 0
    BY <1>7, OrderAssumption DEF Stage, HoldsTarget
  <2> QED
    BY <2>1, StageIs DEF Before
<1>8. CASE /\ p \in Workers /\ q \in Workers
           /\ wpc[p] \in {"complete", "record"} /\ HoldsRequestRow(q, wjob[p].target)
  BY <1>2, <1>8, KeeperIsFurther
<1> QED
  BY <1>3, <1>4, <1>5, <1>6, <1>7, <1>8 DEF WaitsFor

\* In a finite set some element is the last one of a strict order.
LEMMA LastOf ==
    ASSUME NEW S, IsFiniteSet(S), S # {}, NEW R,
           \A x \in S : <<x, x>> \notin R,
           \A x, y, z \in S : <<x, y>> \in R /\ <<y, z>> \in R => <<x, z>> \in R
    PROVE  \E x \in S : \A y \in S : <<x, y>> \notin R
<1> DEFINE Up(x) == {y \in S : <<x, y>> \in R}
           T == {Up(x) : x \in S}
<1>1. IsWellFoundedOn(StrictSubsetOrdering(S), SUBSET S)
  BY FS_StrictSubsetOrderingWellFounded, FS_FiniteSubsetsOfFinite
<1>2. T \subseteq SUBSET S /\ T # {}
  <2>1. \A x \in S : Up(x) \in SUBSET S
    OBVIOUS
  <2>2. PICK x \in S : TRUE
    OBVIOUS
  <2>3. Up(x) \in T
    BY <2>2
  <2>4. ASSUME NEW m \in T PROVE m \in SUBSET S
    <3>1. PICK y \in S : m = Up(y)
      OBVIOUS
    <3> QED
      BY <2>1, <3>1
  <2> HIDE DEF T
  <2> QED
    BY <2>3, <2>4
<1> HIDE DEF T
<1>3. PICK m \in T : \A n \in T : <<n, m>> \notin StrictSubsetOrdering(S)
  BY <1>1, <1>2, WFMin
<1>4. PICK x \in S : m = Up(x)
  BY DEF T
<1>5. ASSUME NEW y \in S, <<x, y>> \in R PROVE FALSE
  <2>1. Up(y) \in T
    BY DEF T
  <2>2. Up(y) \subseteq Up(x)
    BY <1>5
  <2>3. y \in Up(x) /\ y \notin Up(y)
    BY <1>5
  <2>4. <<Up(y), Up(x)>> \in StrictSubsetOrdering(S)
    BY <2>2, <2>3 DEF StrictSubsetOrdering
  <2> QED
    BY <1>3, <1>4, <2>1, <2>4
<1> QED
  BY <1>5

\* No group of writers and workers waits in a circle for row locks: burgers
\* before shops, each in ascending order of id, and a recalculation locks its
\* target's row before its request row (RequestRecalculation, Recalculate).
THEOREM NoCircle == Spec => []NoDeadlock
<1>1. ASSUME Basic, OrderOK PROVE NoDeadlock
  <2>1. SUFFICES ASSUME NEW S \in SUBSET (Handlers \cup Workers), S # {}
                 PROVE  \E p \in S : \A q \in S : ~WaitsFor(p, q)
    BY DEF NoDeadlock
  <2>2. IsFiniteSet(S)
    BY OrderAssumption, FS_Union, FS_Subset
  <2> DEFINE R == {x \in S \X S : Before(x[1], x[2])}
  <2>3. \A p, q \in S : <<p, q>> \in R <=> Before(p, q)
    OBVIOUS
  <2>4. \A p \in S : <<p, p>> \notin R
    <3>1. ASSUME NEW p \in S, Before(p, p) PROVE FALSE
      BY <1>1, <3>1, StageIs DEF Before
    <3> QED
      BY <2>3, <3>1
  <2>5. \A p, q, r \in S : <<p, q>> \in R /\ <<q, r>> \in R => <<p, r>> \in R
    <3>1. ASSUME NEW p \in S, NEW q \in S, NEW r \in S, Before(p, q), Before(q, r)
          PROVE  Before(p, r)
      <4>1. Stage(p) \in 0..3 /\ Stage(q) \in 0..3 /\ Stage(r) \in 0..3
        BY <1>1, StageIs
      <4>2. /\ Stage(p) \in {1, 2} => Rank[At(p)] \in Nat
            /\ Stage(q) \in {1, 2} => Rank[At(q)] \in Nat
            /\ Stage(r) \in {1, 2} => Rank[At(r)] \in Nat
        BY <1>1, StageIs
      <4> QED
        BY <3>1, <4>1, <4>2 DEF Before
    <3> QED
      BY <2>3, <3>1
  <2> HIDE DEF R
  <2>6. PICK p \in S : \A q \in S : <<p, q>> \notin R
    BY <2>1, <2>2, <2>4, <2>5, LastOf
  <2> QED
    BY <1>1, <2>3, <2>6, WaitsForward
<1>2. Init => Basic /\ OrderOK
  BY BasicInit, OrderNext
<1>3. Basic /\ OrderOK /\ [Next]_vars => Basic' /\ OrderOK'
  BY BasicNext, OrderNext
<1> QED
  BY <1>1, <1>2, <1>3, PTL DEF Spec
=============================================================================
