----------------------------- MODULE AsyncMailer -----------------------------
(***************************************************************************)
(* The asynchronous mailer of an API server.  A request hands a mail over  *)
(* and returns at once: the mail is put in a bounded queue, or dropped     *)
(* when the queue is full or closed.  A few workers take mails from the    *)
(* queue: insert a record under the mail's idempotency key, deliver only   *)
(* if the insert made a row, and write the result into the row.  Nothing   *)
(* is sent a second time.  Several instances share the table of records    *)
(* and nothing else; a crash forgets the queue and what the workers hold.  *)
(***************************************************************************)
EXTENDS Naturals, Sequences

CONSTANTS
    Keys,        \* idempotency keys: a mail is known by its key
    Instances,   \* API servers
    Workers,
    On,          \* [Workers -> Instances]
    QueueSize,   \* asyncMailerQueueSize
    MaxAsks,     \* bound: mails handed over in a behaviour
    MaxFaults,   \* bound: errors and crashes in a behaviour
    None

ASSUME MailerAssumption ==
    /\ On \in [Workers -> Instances]
    /\ QueueSize \in Nat \ {0}
    /\ MaxAsks \in Nat
    /\ MaxFaults \in Nat
    /\ None \notin Keys \cup {"sent", "failed"}

ASSUME WorkersAssumption == \A i \in Instances : \E w \in Workers : On[w] = i

VARIABLES
    record,    \* status of the row of mail_deliveries, by key
    out,       \* history: how often SMTP accepted the mail
    phase,     \* of each instance: open, closing, closed or down
    queue,     \* of each instance
    wpc, job, result,  \* the workers
    accepted,  \* history: keys that were put in a queue
    asks, faults

instanceVars == <<phase, queue, accepted, asks>>
workerVars   == <<wpc, job, result>>
vars         == <<record, out, instanceVars, workerVars, faults>>

Init ==
    /\ record = [k \in Keys |-> "none"]
    /\ out = [k \in Keys |-> 0]
    /\ phase = [i \in Instances |-> "open"]
    /\ queue = [i \in Instances |-> <<>>]
    /\ wpc = [w \in Workers |-> "idle"]
    /\ job = [w \in Workers |-> None]
    /\ result = [w \in Workers |-> None]
    /\ accepted = {}
    /\ asks = 0
    /\ faults = 0

Fault ==
    /\ faults < MaxFaults
    /\ faults' = faults + 1

-----------------------------------------------------------------------------
\* Mutant of Full: the queue takes one mail too many.
MutFull(i) == Len(queue[i]) > QueueSize

Full(i) == Len(queue[i]) >= QueueSize

\* enqueue, under the lock that Close takes, too: a closed mailer and a full
\* queue drop the mail, and the caller cannot tell.
Enqueue(i, k) ==
    /\ phase[i] # "down"
    /\ asks < MaxAsks
    /\ asks' = asks + 1
    /\ IF phase[i] = "open" /\ ~Full(i)
       THEN /\ queue' = [queue EXCEPT ![i] = Append(@, k)]
            /\ accepted' = accepted \cup {k}
       ELSE UNCHANGED <<queue, accepted>>
    /\ UNCHANGED <<record, out, phase, workerVars, faults>>

\* for job := range m.queue
Take(w) ==
    LET i == On[w] IN
    /\ wpc[w] = "idle"
    /\ queue[i] # <<>>
    /\ job' = [job EXCEPT ![w] = Head(queue[i])]
    /\ queue' = [queue EXCEPT ![i] = Tail(@)]
    /\ wpc' = [wpc EXCEPT ![w] = "record"]
    /\ UNCHANGED <<record, out, phase, result, accepted, asks, faults>>

\* Mutants of Ends: Close wakes only one of the workers that wait; a worker ends
\* as soon as the queue is closed.
MutEnds(w) ==
    /\ phase[On[w]] = "closing"
    /\ queue[On[w]] = <<>>
    /\ \A v \in Workers : On[v] = On[w] => wpc[v] # "exit"
MutEndsEarly(w) == phase[On[w]] = "closing"

\* The queue is closed and empty: the worker's loop ends.
Ends(w) == phase[On[w]] = "closing" /\ queue[On[w]] = <<>>

Exit(w) ==
    /\ wpc[w] = "idle"
    /\ Ends(w)
    /\ wpc' = [wpc EXCEPT ![w] = "exit"]
    /\ UNCHANGED <<record, out, instanceVars, job, result, faults>>

\* Back at the head of the loop.
Finish(w) ==
    /\ wpc' = [wpc EXCEPT ![w] = "idle"]
    /\ job' = [job EXCEPT ![w] = None]
    /\ result' = [result EXCEPT ![w] = None]

\* Mutant of Claimed: any row that is not final is taken on.
MutClaimed(k) == record[k] \in {"sent", "failed"}

\* ON CONFLICT (idempotency_key) DO NOTHING returned no row.
Claimed(k) == record[k] # "none"

Record(w) ==
    /\ wpc[w] = "record"
    /\ IF Claimed(job[w])
       THEN Finish(w) /\ UNCHANGED record
       ELSE /\ record' = [record EXCEPT ![job[w]] = "pending"]
            /\ wpc' = [wpc EXCEPT ![w] = "deliver"]
            /\ UNCHANGED <<job, result>>
    /\ UNCHANGED <<out, instanceVars, faults>>

\* The insert returns an error, whether or not it took effect: not sent.
RecordFails(w) ==
    /\ wpc[w] = "record"
    /\ Fault
    /\ \/ UNCHANGED record
       \/ ~Claimed(job[w]) /\ record' = [record EXCEPT ![job[w]] = "pending"]
    /\ Finish(w)
    /\ UNCHANGED <<out, instanceVars>>

\* The mail server accepts the mail.
Deliver(w) ==
    /\ wpc[w] = "deliver"
    /\ out' = [out EXCEPT ![job[w]] = @ + 1]
    /\ result' = [result EXCEPT ![w] = "sent"]
    /\ wpc' = [wpc EXCEPT ![w] = "mark"]
    /\ UNCHANGED <<record, instanceVars, job, faults>>

\* Deliver returns an error; the mail may have gone out all the same when the
\* answer to the end of the data is lost.
DeliverFails(w) ==
    /\ wpc[w] = "deliver"
    /\ Fault
    /\ out' \in {out, [out EXCEPT ![job[w]] = @ + 1]}
    /\ result' = [result EXCEPT ![w] = "failed"]
    /\ wpc' = [wpc EXCEPT ![w] = "mark"]
    /\ UNCHANGED <<record, instanceVars, job>>

\* Mutant of Mark: the row of a failed mail says sent.
MutMark(w) ==
    /\ wpc[w] = "mark"
    /\ record' = [record EXCEPT ![job[w]] = "sent"]
    /\ Finish(w)
    /\ UNCHANGED <<out, instanceVars, faults>>

\* MarkSent, MarkFailed
Mark(w) ==
    /\ wpc[w] = "mark"
    /\ record' = [record EXCEPT ![job[w]] = result[w]]
    /\ Finish(w)
    /\ UNCHANGED <<out, instanceVars, faults>>

\* The update returns an error, whether or not it took effect; it is not tried
\* again, and the row may stay pending.
MarkFails(w) ==
    /\ wpc[w] = "mark"
    /\ Fault
    /\ record' \in {record, [record EXCEPT ![job[w]] = result[w]]}
    /\ Finish(w)
    /\ UNCHANGED <<out, instanceVars>>

-----------------------------------------------------------------------------
WorkersOf(i) == {w \in Workers : On[w] = i}

\* Close: no mail is accepted from now on.
Close(i) ==
    /\ phase[i] = "open"
    /\ phase' = [phase EXCEPT ![i] = "closing"]
    /\ UNCHANGED <<record, out, queue, accepted, asks, workerVars, faults>>

\* Mutant of Drained: Close does not wait for the workers.
MutDrained(i) == TRUE

\* m.wg.Wait()
Drained(i) == \A w \in WorkersOf(i) : wpc[w] = "exit"

\* Close returns nil, and the server ends.
CloseReturns(i) ==
    /\ phase[i] = "closing"
    /\ Drained(i)
    /\ phase' = [phase EXCEPT ![i] = "closed"]
    /\ UNCHANGED <<record, out, queue, accepted, asks, workerVars, faults>>

\* The process ends: its queue and its workers are gone.
Forget(i) ==
    /\ queue' = [queue EXCEPT ![i] = <<>>]
    /\ wpc' = [w \in Workers |-> IF On[w] = i THEN "idle" ELSE wpc[w]]
    /\ job' = [w \in Workers |-> IF On[w] = i THEN None ELSE job[w]]
    /\ result' = [w \in Workers |-> IF On[w] = i THEN None ELSE result[w]]

\* The process dies, or Close reaches its deadline and the server ends.
Crash(i) ==
    /\ phase[i] \in {"open", "closing"}
    /\ Fault
    /\ phase' = [phase EXCEPT ![i] = "down"]
    /\ Forget(i)
    /\ UNCHANGED <<record, out, accepted, asks>>

Restart(i) ==
    /\ phase[i] \in {"closed", "down"}
    /\ phase' = [phase EXCEPT ![i] = "open"]
    /\ Forget(i)
    /\ UNCHANGED <<record, out, accepted, asks, faults>>

-----------------------------------------------------------------------------
WorkerNext(w) ==
    \/ Take(w) \/ Exit(w)
    \/ Record(w) \/ RecordFails(w)
    \/ Deliver(w) \/ DeliverFails(w)
    \/ Mark(w) \/ MarkFails(w)

InstanceNext(i) == Close(i) \/ CloseReturns(i) \/ Crash(i) \/ Restart(i)

Next ==
    \/ \E i \in Instances : InstanceNext(i) \/ \E k \in Keys : Enqueue(i, k)
    \/ \E w \in Workers : WorkerNext(w)

Spec == Init /\ [][Next]_vars

-----------------------------------------------------------------------------
(* Properties                                                              *)

\* The types; the queue keeps its bound, and a worker holds a mail and a result
\* exactly as long as its step says.
TypeOK ==
    /\ record \in [Keys -> {"none", "pending", "sent", "failed"}]
    /\ out \in [Keys -> Nat]
    /\ phase \in [Instances -> {"open", "closing", "closed", "down"}]
    /\ queue \in [Instances -> Seq(Keys)]
    /\ wpc \in [Workers -> {"idle", "record", "deliver", "mark", "exit"}]
    /\ job \in [Workers -> Keys \cup {None}]
    /\ result \in [Workers -> {"sent", "failed", None}]
    /\ accepted \subseteq Keys
    /\ asks \in Nat
    /\ faults \in Nat
    /\ \A i \in Instances : Len(queue[i]) <= QueueSize
    /\ \A w \in Workers :
          /\ job[w] = None <=> wpc[w] \in {"idle", "exit"}
          /\ result[w] = None <=> wpc[w] # "mark"

\* However often, and at however many instances, a mail is asked for, it goes
\* out at most once, crashes and lost answers included ("better not sent than
\* sent twice", AsyncMailer).
AtMostOnce == \A k \in Keys : out[k] <= 1

Waiting(k) ==
    \/ \E i \in Instances : \E n \in DOMAIN queue[i] : queue[i][n] = k
    \/ \E w \in Workers : job[w] = k

\* Without errors and crashes no accepted mail disappears before it has a
\* record: a Close that returned nil has worked off what was in the queue.
NothingLost ==
    faults = 0 => \A k \in accepted : record[k] # "none" \/ Waiting(k)

Promise == INSTANCE Outbox WITH
    claimed <- {k \in Keys : record[k] # "none"},
    result <- [k \in Keys |-> IF record[k] \in {"sent", "failed"} THEN record[k] ELSE "none"]

\* The mailer implements Outbox: one claim per mail, "sent" only of a mail that
\* went out, and a result that is written is never written over.
ImplementsOutbox == Promise!Spec

-----------------------------------------------------------------------------
(* Fairness: a worker's loop runs on (every step of it has a time limit and  *)
(* ends, well or with an error), and a Close that has no worker to wait for  *)
(* returns.                                                                  *)

Fairness ==
    /\ \A w \in Workers : WF_vars(WorkerNext(w))
    /\ \A i \in Instances : WF_vars(CloseReturns(i))

FairSpec == Spec /\ Fairness

\* Close comes to an end, whatever is still in the queue.
CloseEnds ==
    \A i \in Instances : (phase[i] = "closing") ~> (phase[i] # "closing")

\* No mail is stuck in a queue or with a worker.
EveryMailLeaves == \A k \in Keys : Waiting(k) ~> ~Waiting(k)
=============================================================================
