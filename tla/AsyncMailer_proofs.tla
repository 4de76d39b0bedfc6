------------------------- MODULE AsyncMailer_proofs -------------------------
(***************************************************************************)
(* For any mails, instances, workers and queue size, with any number of    *)
(* errors and crashes: a mail goes out at most once, a shutdown without    *)
(* errors loses nothing, and the mailer implements Outbox.                 *)
(*                                                                         *)
(* The argument is the claim: the row of a mail is inserted once, by one   *)
(* worker, and only that worker sends and writes the result.  MailInv says *)
(* so for every worker between the insert and the result.                  *)
(***************************************************************************)
EXTENDS AsyncMailer, SequenceTheorems, TLAPS

\* Between the insert of a mail's row and the write of its result.
Holds(w) == wpc[w] \in {"deliver", "mark"}

\* The row of a mail somebody holds says pending.
HeldPending == \A w \in Workers : Holds(w) => record[job[w]] = "pending"

\* A mail has one holder.
OneHolder ==
    \A v, w \in Workers : v # w /\ Holds(v) /\ Holds(w) => job[v] # job[w]

\* A mail goes out only between the insert and the result.
OutByHolder ==
    /\ \A k \in Keys : record[k] = "none" => out[k] = 0
    /\ \A w \in Workers : wpc[w] = "deliver" => out[job[w]] = 0
    /\ \A w \in Workers : wpc[w] = "mark" /\ result[w] = "sent" => out[job[w]] = 1

MailInv == TypeOK /\ HeldPending /\ OneHolder /\ OutByHolder /\ AtMostOnce

-----------------------------------------------------------------------------
\* Before the first request nothing is held, out or queued.
LEMMA MailInvInit == Init => MailInv
  BY MailerAssumption
  DEF Init, MailInv, TypeOK, HeldPending, OneHolder, OutByHolder, AtMostOnce, Holds

\* Taking a mail off a queue and putting one on it keep it a queue.
LEMMA QueueEnds ==
  ASSUME NEW q \in Seq(Keys)
  PROVE  /\ \A k \in Keys : Append(q, k) \in Seq(Keys) /\ Len(Append(q, k)) = Len(q) + 1
         /\ q # <<>> => /\ Head(q) \in Keys
                        /\ Tail(q) \in Seq(Keys)
                        /\ Len(Tail(q)) < Len(q)
                        /\ Len(q) \in Nat
  BY HeadTailProperties, AppendProperties

\* TypeOK in its two parts.
Kinds ==
    /\ record \in [Keys -> {"none", "pending", "sent", "failed"}]
    /\ out \in [Keys -> Nat]
    /\ phase \in [Instances -> {"open", "closing", "closed", "down"}]
    /\ queue \in [Instances -> Seq(Keys)]
    /\ wpc \in [Workers -> {"idle", "record", "deliver", "mark", "exit"}]
    /\ job \in [Workers -> Keys \cup {None}]
    /\ result \in [Workers -> {"sent", "failed", None}]
    /\ accepted \subseteq Keys
    /\ asks \in Nat
    /\ faults \in Nat

Bounded == \A i \in Instances : Len(queue[i]) <= QueueSize

WorkersFit ==
    \A w \in Workers : /\ job[w] = None <=> wpc[w] \in {"idle", "exit"}
                       /\ result[w] = None <=> wpc[w] # "mark"

\* The type invariant, in the three parts the step proofs use.
LEMMA TypeParts == TypeOK <=> Kinds /\ Bounded /\ WorkersFit
  BY DEF TypeOK, Kinds, Bounded, WorkersFit

\* Every step of a sender, a worker or the scheduler keeps the types.
LEMMA TypeNext == TypeOK /\ [Next]_vars => TypeOK'
<1> SUFFICES ASSUME Kinds, Bounded, WorkersFit, [Next]_vars
             PROVE  Kinds' /\ Bounded' /\ WorkersFit'
  BY TypeParts, PTL
<1> USE MailerAssumption DEF instanceVars, workerVars
<1>1. ASSUME NEW i \in Instances, NEW k \in Keys, Enqueue(i, k)
      PROVE  Kinds' /\ Bounded' /\ WorkersFit'
  <2>0. Append(queue[i], k) \in Seq(Keys) /\ Len(Append(queue[i], k)) = Len(queue[i]) + 1
    BY QueueEnds DEF Kinds
  <2>1. Kinds'
    <3>1. CASE queue' = queue /\ accepted' = accepted
      BY <1>1, <3>1 DEF Kinds, Enqueue
    <3>2. CASE /\ queue' = [queue EXCEPT ![i] = Append(@, k)]
               /\ accepted' = accepted \cup {k}
      BY <1>1, <2>0, <3>2 DEF Kinds, Enqueue
    <3>3. QED
      BY <1>1, <3>1, <3>2 DEF Enqueue
  <2>2. Bounded'
    <3>1. CASE queue' = queue
      BY <3>1 DEF Bounded
    <3>2. CASE queue' = [queue EXCEPT ![i] = Append(@, k)] /\ ~Full(i)
      BY <2>0, <3>2 DEF Kinds, Bounded, Full
    <3>3. QED
      BY <1>1, <3>1, <3>2 DEF Enqueue
  <2>3. WorkersFit'
    BY <1>1, QueueEnds DEF Kinds, WorkersFit, Enqueue, Full
  <2>4. QED
    BY <2>1, <2>2, <2>3
<1>2. ASSUME NEW w \in Workers, Take(w)
      PROVE  Kinds' /\ Bounded' /\ WorkersFit'
  <2>1. Kinds'
    BY <1>2, QueueEnds DEF Kinds, WorkersFit, Take
  <2>2. Bounded'
    BY <1>2, QueueEnds DEF Kinds, Bounded, Take
  <2>3. WorkersFit'
    BY <1>2, QueueEnds DEF Kinds, WorkersFit, Take
  <2>4. QED
    BY <2>1, <2>2, <2>3
<1>3. ASSUME NEW w \in Workers, Exit(w)
      PROVE  Kinds' /\ Bounded' /\ WorkersFit'
  <2>1. Kinds'
    BY <1>3 DEF Kinds, WorkersFit, Exit
  <2>2. Bounded'
    BY <1>3 DEF Kinds, Bounded, Exit
  <2>3. WorkersFit'
    BY <1>3 DEF Kinds, WorkersFit, Exit
  <2>4. QED
    BY <2>1, <2>2, <2>3
<1>4. ASSUME NEW w \in Workers, Record(w)
      PROVE  Kinds' /\ Bounded' /\ WorkersFit'
  <2>1. Kinds'
    BY <1>4 DEF Kinds, WorkersFit, Record, Finish
  <2>2. Bounded'
    BY <1>4 DEF Kinds, Bounded, Record, Finish
  <2>3. WorkersFit'
    BY <1>4 DEF Kinds, WorkersFit, Record, Finish
  <2>4. QED
    BY <2>1, <2>2, <2>3
<1>5. ASSUME NEW w \in Workers, RecordFails(w)
      PROVE  Kinds' /\ Bounded' /\ WorkersFit'
  <2>0. job[w] \in Keys
    BY <1>5 DEF Kinds, WorkersFit, RecordFails
  <2>1. Kinds'
    BY <1>5, <2>0 DEF Kinds, RecordFails, Finish, Fault
  <2>2. Bounded'
    BY <1>5 DEF Kinds, Bounded, RecordFails, Finish, Fault
  <2>3. WorkersFit'
    BY <1>5 DEF Kinds, WorkersFit, RecordFails, Finish, Fault
  <2>4. QED
    BY <2>1, <2>2, <2>3
<1>6. ASSUME NEW w \in Workers, Deliver(w)
      PROVE  Kinds' /\ Bounded' /\ WorkersFit'
  <2>0. job[w] \in Keys
    BY <1>6 DEF Kinds, WorkersFit, Deliver
  <2>1. Kinds'
    BY <1>6, <2>0 DEF Kinds, Deliver
  <2>2. Bounded'
    BY <1>6 DEF Kinds, Bounded, Deliver
  <2>3. WorkersFit'
    BY <1>6 DEF Kinds, WorkersFit, Deliver
  <2>4. QED
    BY <2>1, <2>2, <2>3
<1>7. ASSUME NEW w \in Workers, DeliverFails(w)
      PROVE  Kinds' /\ Bounded' /\ WorkersFit'
  <2>0. job[w] \in Keys
    BY <1>7 DEF Kinds, WorkersFit, DeliverFails
  <2>1. Kinds'
    BY <1>7, <2>0 DEF Kinds, DeliverFails, Fault
  <2>2. Bounded'
    BY <1>7 DEF Kinds, Bounded, DeliverFails, Fault
  <2>3. WorkersFit'
    BY <1>7 DEF Kinds, WorkersFit, DeliverFails, Fault
  <2>4. QED
    BY <2>1, <2>2, <2>3
<1>8. ASSUME NEW w \in Workers, Mark(w)
      PROVE  Kinds' /\ Bounded' /\ WorkersFit'
  <2>1. Kinds'
    BY <1>8 DEF Kinds, WorkersFit, Mark, Finish
  <2>2. Bounded'
    BY <1>8 DEF Kinds, Bounded, Mark, Finish
  <2>3. WorkersFit'
    BY <1>8 DEF Kinds, WorkersFit, Mark, Finish
  <2>4. QED
    BY <2>1, <2>2, <2>3
<1>9. ASSUME NEW w \in Workers, MarkFails(w)
      PROVE  Kinds' /\ Bounded' /\ WorkersFit'
  <2>1. Kinds'
    BY <1>9 DEF Kinds, WorkersFit, MarkFails, Finish, Fault
  <2>2. Bounded'
    BY <1>9 DEF Kinds, Bounded, MarkFails, Finish, Fault
  <2>3. WorkersFit'
    BY <1>9 DEF Kinds, WorkersFit, MarkFails, Finish, Fault
  <2>4. QED
    BY <2>1, <2>2, <2>3
<1>10. ASSUME NEW i \in Instances, Close(i) \/ CloseReturns(i)
      PROVE  Kinds' /\ Bounded' /\ WorkersFit'
  <2>1. Kinds'
    BY <1>10 DEF Kinds, WorkersFit, Close, CloseReturns
  <2>2. Bounded'
    BY <1>10 DEF Kinds, Bounded, Close, CloseReturns
  <2>3. WorkersFit'
    BY <1>10 DEF Kinds, WorkersFit, Close, CloseReturns
  <2>4. QED
    BY <2>1, <2>2, <2>3
<1>11. ASSUME NEW i \in Instances, Crash(i)
      PROVE  Kinds' /\ Bounded' /\ WorkersFit'
  <2>1. Kinds'
    BY <1>11 DEF Kinds, WorkersFit, Crash, Forget, Fault
  <2>2. Bounded'
    BY <1>11 DEF Kinds, Bounded, Crash, Forget, Fault
  <2>3. WorkersFit'
    BY <1>11 DEF Kinds, WorkersFit, Crash, Forget, Fault
  <2>4. QED
    BY <2>1, <2>2, <2>3
<1>12. ASSUME NEW i \in Instances, Restart(i)
      PROVE  Kinds' /\ Bounded' /\ WorkersFit'
  <2>1. Kinds'
    BY <1>12 DEF Kinds, WorkersFit, Restart, Forget
  <2>2. Bounded'
    BY <1>12 DEF Kinds, Bounded, Restart, Forget
  <2>3. WorkersFit'
    BY <1>12 DEF Kinds, WorkersFit, Restart, Forget
  <2>4. QED
    BY <2>1, <2>2, <2>3
<1>13. CASE UNCHANGED vars
  BY <1>13 DEF vars, Kinds, Bounded, WorkersFit
<1>14. QED
  BY <1>1, <1>2, <1>3, <1>4, <1>5, <1>6, <1>7, <1>8, <1>9, <1>10, <1>11, <1>12, <1>13
  DEF Next, InstanceNext, WorkerNext

\* Every step keeps the bookkeeping of who holds which mail.
LEMMA MailInvNext == MailInv /\ [Next]_vars => MailInv'
<1> SUFFICES ASSUME TypeOK, TypeOK', HeldPending, OneHolder, OutByHolder, AtMostOnce,
                    [Next]_vars
             PROVE  HeldPending' /\ OneHolder' /\ OutByHolder' /\ AtMostOnce'
  BY TypeNext DEF MailInv
<1> DEFINE Goal == HeldPending' /\ OneHolder' /\ OutByHolder' /\ AtMostOnce'
<1> USE MailerAssumption DEF instanceVars, workerVars
<1>1. ASSUME NEW i \in Instances, NEW k \in Keys, Enqueue(i, k) PROVE Goal
  <2>1. HeldPending'
    BY <1>1 DEF TypeOK, HeldPending, OneHolder, Holds, Enqueue
  <2>2. OneHolder'
    BY <1>1 DEF TypeOK, OneHolder, HeldPending, Holds, Enqueue
  <2>3. OutByHolder'
    BY <1>1 DEF TypeOK, OutByHolder, OneHolder, HeldPending, Holds, Enqueue
  <2>4. AtMostOnce'
    BY <1>1 DEF TypeOK, AtMostOnce, OutByHolder, Enqueue
  <2>5. QED
    BY <2>1, <2>2, <2>3, <2>4
<1>2. ASSUME NEW w \in Workers, Take(w) PROVE Goal
  <2>1. HeldPending'
    BY <1>2 DEF TypeOK, HeldPending, OneHolder, Holds, Take
  <2>2. OneHolder'
    BY <1>2 DEF TypeOK, OneHolder, HeldPending, Holds, Take
  <2>3. OutByHolder'
    BY <1>2 DEF TypeOK, OutByHolder, OneHolder, HeldPending, Holds, Take
  <2>4. AtMostOnce'
    BY <1>2 DEF TypeOK, AtMostOnce, OutByHolder, Take
  <2>5. QED
    BY <2>1, <2>2, <2>3, <2>4
<1>3. ASSUME NEW w \in Workers, Exit(w) PROVE Goal
  <2>1. HeldPending'
    BY <1>3 DEF TypeOK, HeldPending, OneHolder, Holds, Exit
  <2>2. OneHolder'
    BY <1>3 DEF TypeOK, OneHolder, HeldPending, Holds, Exit
  <2>3. OutByHolder'
    BY <1>3 DEF TypeOK, OutByHolder, OneHolder, HeldPending, Holds, Exit
  <2>4. AtMostOnce'
    BY <1>3 DEF TypeOK, AtMostOnce, OutByHolder, Exit
  <2>5. QED
    BY <2>1, <2>2, <2>3, <2>4
<1>4. ASSUME NEW w \in Workers, Record(w) PROVE Goal
  <2>0. job[w] \in Keys
    BY <1>4 DEF TypeOK, Record
  <2>00. record[job[w]] = "none" => \A v \in Workers : Holds(v) => job[v] # job[w]
    BY <1>4, <2>0 DEF TypeOK, OneHolder, HeldPending, Holds, Record
  <2>1. CASE Finish(w) /\ record' = record
    <3>1. HeldPending'
      BY <1>4, <2>0, <2>1, <2>00 DEF TypeOK, HeldPending, Holds, Record, Finish
    <3>2. OneHolder'
      BY <1>4, <2>0, <2>1, <2>00 DEF TypeOK, OneHolder, HeldPending, Holds, Record, Finish
    <3>3. OutByHolder'
      BY <1>4, <2>0, <2>1, <2>00 DEF TypeOK, OutByHolder, HeldPending, Holds, Record, Finish
    <3>4. AtMostOnce'
      BY <1>4, <2>0, <2>1, <2>00 DEF TypeOK, AtMostOnce, OutByHolder, Record, Finish
    <3>5. QED
      BY <3>1, <3>2, <3>3, <3>4
  <2>2. CASE record[job[w]] = "none" /\ record' = [record EXCEPT ![job[w]] = "pending"]
    <3>1. HeldPending'
      BY <1>4, <2>0, <2>2, <2>00 DEF TypeOK, HeldPending, Holds, Record, Claimed
    <3>2. OneHolder'
      BY <1>4, <2>0, <2>2, <2>00 DEF TypeOK, OneHolder, HeldPending, Holds, Record, Claimed
    <3>3. OutByHolder'
      BY <1>4, <2>0, <2>2, <2>00 DEF TypeOK, OutByHolder, HeldPending, Holds, Record, Claimed
    <3>4. AtMostOnce'
      BY <1>4, <2>0, <2>2, <2>00 DEF TypeOK, AtMostOnce, OutByHolder, Record, Claimed
    <3>5. QED
      BY <3>1, <3>2, <3>3, <3>4
  <2>3. QED
    BY <1>4, <2>1, <2>2 DEF Record, Claimed
<1>5. ASSUME NEW w \in Workers, RecordFails(w) PROVE Goal
  <2>0. job[w] \in Keys
    BY <1>5 DEF TypeOK, RecordFails
  <2>00. record[job[w]] = "none" => \A v \in Workers : Holds(v) => job[v] # job[w]
    BY <1>5, <2>0 DEF TypeOK, OneHolder, HeldPending, Holds, RecordFails
  <2>1. CASE record' = record
    <3>1. HeldPending'
      BY <1>5, <2>0, <2>1, <2>00 DEF TypeOK, HeldPending, Holds, RecordFails, Finish
    <3>2. OneHolder'
      BY <1>5, <2>0, <2>1, <2>00 DEF TypeOK, OneHolder, HeldPending, Holds, RecordFails, Finish
    <3>3. OutByHolder'
      BY <1>5, <2>0, <2>1, <2>00 DEF TypeOK, OutByHolder, HeldPending, Holds, RecordFails, Finish
    <3>4. AtMostOnce'
      BY <1>5, <2>0, <2>1, <2>00 DEF TypeOK, AtMostOnce, OutByHolder, RecordFails, Finish
    <3>5. QED
      BY <3>1, <3>2, <3>3, <3>4
  <2>2. CASE record[job[w]] = "none" /\ record' = [record EXCEPT ![job[w]] = "pending"]
    <3>1. HeldPending'
      BY <1>5, <2>0, <2>2, <2>00 DEF TypeOK, HeldPending, Holds, RecordFails, Finish
    <3>2. OneHolder'
      BY <1>5, <2>0, <2>2, <2>00 DEF TypeOK, OneHolder, HeldPending, Holds, RecordFails, Finish
    <3>3. OutByHolder'
      BY <1>5, <2>0, <2>2, <2>00 DEF TypeOK, OutByHolder, HeldPending, Holds, RecordFails, Finish
    <3>4. AtMostOnce'
      BY <1>5, <2>0, <2>2, <2>00 DEF TypeOK, AtMostOnce, OutByHolder, RecordFails, Finish
    <3>5. QED
      BY <3>1, <3>2, <3>3, <3>4
  <2>3. QED
    BY <1>5, <2>1, <2>2 DEF RecordFails, Claimed
<1>6. ASSUME NEW w \in Workers, Deliver(w) PROVE Goal
  <2>0. job[w] \in Keys
    BY <1>6 DEF TypeOK, Deliver
  <2>1. HeldPending'
    BY <1>6, <2>0 DEF TypeOK, HeldPending, OneHolder, Holds, Deliver
  <2>2. OneHolder'
    BY <1>6, <2>0 DEF TypeOK, OneHolder, HeldPending, Holds, Deliver
  <2>3. OutByHolder'
    BY <1>6, <2>0 DEF TypeOK, OutByHolder, OneHolder, HeldPending, Holds, Deliver
  <2>4. AtMostOnce'
    BY <1>6, <2>0 DEF TypeOK, AtMostOnce, OutByHolder, Deliver
  <2>5. QED
    BY <2>1, <2>2, <2>3, <2>4
<1>7. ASSUME NEW w \in Workers, DeliverFails(w) PROVE Goal
  <2>0. job[w] \in Keys
    BY <1>7 DEF TypeOK, DeliverFails
  <2>00. \A v \in Workers : v # w /\ Holds(v) => job[v] # job[w]
    BY <1>7, <2>0 DEF TypeOK, OneHolder, HeldPending, Holds, DeliverFails
  <2>1. CASE out' = out
    <3>1. HeldPending'
      BY <1>7, <2>0, <2>1, <2>00 DEF TypeOK, HeldPending, Holds, DeliverFails
    <3>2. OneHolder'
      BY <1>7, <2>0, <2>1, <2>00 DEF TypeOK, OneHolder, HeldPending, Holds, DeliverFails
    <3>3. OutByHolder'
      BY <1>7, <2>0, <2>1, <2>00 DEF TypeOK, OutByHolder, HeldPending, Holds, DeliverFails
    <3>4. AtMostOnce'
      BY <1>7, <2>0, <2>1, <2>00 DEF TypeOK, AtMostOnce, OutByHolder, DeliverFails
    <3>5. QED
      BY <3>1, <3>2, <3>3, <3>4
  <2>2. CASE out' = [out EXCEPT ![job[w]] = @ + 1]
    <3>1. HeldPending'
      BY <1>7, <2>0, <2>2, <2>00 DEF TypeOK, HeldPending, Holds, DeliverFails
    <3>2. OneHolder'
      BY <1>7, <2>0, <2>2, <2>00 DEF TypeOK, OneHolder, HeldPending, Holds, DeliverFails
    <3>3. OutByHolder'
      BY <1>7, <2>0, <2>2, <2>00 DEF TypeOK, OutByHolder, HeldPending, Holds, DeliverFails
    <3>4. AtMostOnce'
      BY <1>7, <2>0, <2>2, <2>00 DEF TypeOK, AtMostOnce, OutByHolder, DeliverFails
    <3>5. QED
      BY <3>1, <3>2, <3>3, <3>4
  <2>3. QED
    BY <1>7, <2>1, <2>2 DEF DeliverFails
<1>8. ASSUME NEW w \in Workers, Mark(w) PROVE Goal
  <2>0. job[w] \in Keys
    BY <1>8 DEF TypeOK, Mark
  <2>1. HeldPending'
    BY <1>8, <2>0 DEF TypeOK, HeldPending, OneHolder, Holds, Mark, Finish
  <2>2. OneHolder'
    BY <1>8, <2>0 DEF TypeOK, OneHolder, HeldPending, Holds, Mark, Finish
  <2>3. OutByHolder'
    BY <1>8, <2>0 DEF TypeOK, OutByHolder, OneHolder, HeldPending, Holds, Mark, Finish
  <2>4. AtMostOnce'
    BY <1>8, <2>0 DEF TypeOK, AtMostOnce, OutByHolder, Mark, Finish
  <2>5. QED
    BY <2>1, <2>2, <2>3, <2>4
<1>9. ASSUME NEW w \in Workers, MarkFails(w) PROVE Goal
  <2>0. job[w] \in Keys
    BY <1>9 DEF TypeOK, MarkFails
  <2>00. \A v \in Workers : v # w /\ Holds(v) => job[v] # job[w]
    BY <1>9, <2>0 DEF TypeOK, OneHolder, HeldPending, Holds, MarkFails
  <2>1. CASE record' = record
    <3>1. HeldPending'
      BY <1>9, <2>0, <2>1, <2>00 DEF TypeOK, HeldPending, Holds, MarkFails, Finish
    <3>2. OneHolder'
      BY <1>9, <2>0, <2>1, <2>00 DEF TypeOK, OneHolder, HeldPending, Holds, MarkFails, Finish
    <3>3. OutByHolder'
      BY <1>9, <2>0, <2>1, <2>00 DEF TypeOK, OutByHolder, HeldPending, Holds, MarkFails, Finish
    <3>4. AtMostOnce'
      BY <1>9, <2>0, <2>1, <2>00 DEF TypeOK, AtMostOnce, OutByHolder, MarkFails, Finish
    <3>5. QED
      BY <3>1, <3>2, <3>3, <3>4
  <2>2. CASE record' = [record EXCEPT ![job[w]] = result[w]]
    <3>1. HeldPending'
      BY <1>9, <2>0, <2>2, <2>00 DEF TypeOK, HeldPending, Holds, MarkFails, Finish
    <3>2. OneHolder'
      BY <1>9, <2>0, <2>2, <2>00 DEF TypeOK, OneHolder, HeldPending, Holds, MarkFails, Finish
    <3>3. OutByHolder'
      BY <1>9, <2>0, <2>2, <2>00 DEF TypeOK, OutByHolder, HeldPending, Holds, MarkFails, Finish
    <3>4. AtMostOnce'
      BY <1>9, <2>0, <2>2, <2>00 DEF TypeOK, AtMostOnce, OutByHolder, MarkFails, Finish
    <3>5. QED
      BY <3>1, <3>2, <3>3, <3>4
  <2>3. QED
    BY <1>9, <2>1, <2>2 DEF MarkFails
<1>10. ASSUME NEW i \in Instances, Close(i) \/ CloseReturns(i) PROVE Goal
  <2>1. HeldPending'
    BY <1>10 DEF TypeOK, HeldPending, OneHolder, Holds, Close, CloseReturns
  <2>2. OneHolder'
    BY <1>10 DEF TypeOK, OneHolder, HeldPending, Holds, Close, CloseReturns
  <2>3. OutByHolder'
    BY <1>10 DEF TypeOK, OutByHolder, OneHolder, HeldPending, Holds, Close, CloseReturns
  <2>4. AtMostOnce'
    BY <1>10 DEF TypeOK, AtMostOnce, OutByHolder, Close, CloseReturns
  <2>5. QED
    BY <2>1, <2>2, <2>3, <2>4
<1>11. ASSUME NEW i \in Instances, Crash(i) \/ Restart(i) PROVE Goal
  <2>1. UNCHANGED <<record, out>> /\ Forget(i)
    BY <1>11 DEF Crash, Restart
  <2>2. \A v \in Workers :
           Holds(v)' => /\ wpc[v] = wpc'[v]
                        /\ job[v] = job'[v]
                        /\ result[v] = result'[v]
    BY <2>1 DEF Forget, Holds, TypeOK
  <2>3. HeldPending' /\ OneHolder'
    BY <2>1, <2>2 DEF HeldPending, OneHolder, Holds
  <2>4. OutByHolder' /\ AtMostOnce'
    BY <2>1, <2>2 DEF OutByHolder, AtMostOnce, Holds
  <2>5. QED
    BY <2>3, <2>4
<1>12. CASE UNCHANGED vars
  BY <1>12 DEF vars, HeldPending, OneHolder, OutByHolder, AtMostOnce, Holds
<1>13. QED
  BY <1>1, <1>2, <1>3, <1>4, <1>5, <1>6, <1>7, <1>8, <1>9, <1>10, <1>11, <1>12
  DEF Next, InstanceNext, WorkerNext

\* The bookkeeping holds in every reachable state.
LEMMA MailInvariant == Spec => []MailInv
  BY MailInvInit, MailInvNext, PTL DEF Spec

\* Every variable keeps its kind, the queue its bound, and a worker holds a
\* mail and a result exactly as long as its step says (AsyncMailer.process).
THEOREM MailerTypeCorrect == Spec => []TypeOK
<1>1. MailInv => TypeOK
  BY DEF MailInv
<1>2. QED
  BY <1>1, MailInvariant, PTL

\* A mail goes out at most once, whichever workers and instances get it and
\* whatever fails (the insert of mail_deliveries decides).
THEOREM SentAtMostOnce == Spec => []AtMostOnce
<1>1. MailInv => AtMostOnce
  BY DEF MailInv
<1>2. QED
  BY <1>1, MailInvariant, PTL
-----------------------------------------------------------------------------
(* The refinement: the insert claims, the mail server's yes sends, and the   *)
(* update reports.                                                           *)

\* What Outbox sees of the rows.
claims  == {k \in Keys : record[k] # "none"}
reports == [k \in Keys |-> IF record[k] \in {"sent", "failed"} THEN record[k] ELSE "none"]

\* Creating a delivery record is a claim of the promise.
LEMMA ClaimStep ==
  ASSUME MailInv, NEW k \in Keys, record[k] = "none",
         record' = [record EXCEPT ![k] = "pending"], UNCHANGED out
  PROVE  Promise!Claim(k)
<1>1. claims' = claims \cup {k} /\ k \notin claims
  BY DEF MailInv, TypeOK, claims
<1>2. reports' = reports
  BY DEF MailInv, TypeOK, reports
<1>3. QED
  BY <1>1, <1>2 DEF Promise!Claim, claims, reports

\* Handing a mail to the provider is a sending of the promise.
LEMMA SendStep ==
  ASSUME MailInv, NEW w \in Workers, wpc[w] = "deliver", UNCHANGED record,
         out' = [out EXCEPT ![job[w]] = @ + 1]
  PROVE  Promise!Send(job[w])
<1>1. job[w] \in Keys /\ record[job[w]] = "pending" /\ out[job[w]] = 0
  BY DEF MailInv, TypeOK, HeldPending, OutByHolder, Holds
<1>2. out' = [out EXCEPT ![job[w]] = 1]
  BY <1>1
<1>3. QED
  BY <1>1, <1>2 DEF Promise!Send

\* Marking the record is the report of the promise.
LEMMA ReportStep ==
  ASSUME MailInv, NEW w \in Workers, wpc[w] = "mark", UNCHANGED out,
         NEW k \in Keys, k = job[w], NEW r, r = result[w],
         record' = [record EXCEPT ![k] = r]
  PROVE  Promise!Report(k, r) /\ r \in {"sent", "failed"}
<1>1. /\ record[k] = "pending"
      /\ r \in {"sent", "failed"}
      /\ r = "sent" => out[k] = 1
  BY DEF MailInv, TypeOK, HeldPending, OutByHolder, Holds
<1>2. claims' = claims /\ k \in claims
  BY <1>1 DEF MailInv, TypeOK, claims
<1>3. reports' = [reports EXCEPT ![k] = r] /\ reports[k] = "none"
  BY <1>1 DEF MailInv, TypeOK, reports
<1>4. QED
  BY <1>1, <1>2, <1>3 DEF Promise!Report, claims, reports

\* Every step of the mailer is a step of the promise, or none of its steps.
LEMMA StepOfOutbox == MailInv /\ [Next]_vars => [Promise!Next]_(Promise!vars)
<1> SUFFICES ASSUME MailInv, [Next]_vars
             PROVE  Promise!Next \/ UNCHANGED <<record, out>>
  BY DEF Promise!vars
<1>1. ASSUME NEW i \in Instances, NEW k \in Keys, Enqueue(i, k)
      PROVE  UNCHANGED <<record, out>>
  BY <1>1 DEF Enqueue
<1>2. ASSUME NEW w \in Workers, Take(w) \/ Exit(w) PROVE UNCHANGED <<record, out>>
  BY <1>2 DEF Take, Exit
<1>3. ASSUME NEW w \in Workers, Record(w) \/ RecordFails(w)
      PROVE  Promise!Next \/ UNCHANGED <<record, out>>
  <2>1. job[w] \in Keys
    BY <1>3 DEF Record, RecordFails, MailInv, TypeOK
  <2>2. CASE record[job[w]] = "none" /\ record' = [record EXCEPT ![job[w]] = "pending"]
    BY <2>1, <2>2, <1>3, ClaimStep DEF Promise!Next, Record, RecordFails
  <2>3. QED
    BY <1>3, <2>2 DEF Record, RecordFails, Claimed
<1>4. ASSUME NEW w \in Workers, Deliver(w) \/ DeliverFails(w)
      PROVE  Promise!Next \/ UNCHANGED <<record, out>>
  <2>1. wpc[w] = "deliver" /\ UNCHANGED record /\ job[w] \in Keys
    BY <1>4 DEF Deliver, DeliverFails, MailInv, TypeOK
  <2>2. CASE out' = [out EXCEPT ![job[w]] = @ + 1]
    BY <2>1, <2>2, SendStep DEF Promise!Next
  <2>3. QED
    BY <1>4, <2>1, <2>2 DEF Deliver, DeliverFails
<1>5. ASSUME NEW w \in Workers, Mark(w) \/ MarkFails(w)
      PROVE  Promise!Next \/ UNCHANGED <<record, out>>
  <2>1. wpc[w] = "mark" /\ UNCHANGED out /\ job[w] \in Keys
    BY <1>5 DEF Mark, MarkFails, MailInv, TypeOK
  <2>2. CASE record' = [record EXCEPT ![job[w]] = result[w]]
    <3>1. PICK k, r : k = job[w] /\ r = result[w]
      BY <2>1
    <3>2. Promise!Report(k, r) /\ r \in {"sent", "failed"}
      BY <2>1, <2>2, <3>1, ReportStep
    <3>3. QED
      BY <2>1, <3>1, <3>2 DEF Promise!Next
  <2>3. QED
    BY <1>5, <2>1, <2>2 DEF Mark, MarkFails
<1>6. ASSUME NEW i \in Instances, InstanceNext(i) PROVE UNCHANGED <<record, out>>
  BY <1>6 DEF InstanceNext, Close, CloseReturns, Crash, Restart
<1>7. QED
  BY <1>1, <1>2, <1>3, <1>4, <1>5, <1>6 DEF Next, WorkerNext, vars

\* The mailer keeps Outbox's promise: one claim per mail, nothing goes out
\* unclaimed or twice, and a result that is written is true and final.
THEOREM MailerIsOutbox == Spec => ImplementsOutbox
<1>1. Init => Promise!Init
  BY DEF Init, Promise!Init
<1>2. QED
  BY <1>1, StepOfOutbox, MailInvariant, PTL DEF Spec, ImplementsOutbox, Promise!Spec

-----------------------------------------------------------------------------
(* A shutdown without errors loses nothing.                                  *)

\* Workers that ended left an empty queue behind; an instance whose Close
\* returned has no other workers, and none died.
Shutdown ==
    /\ \A w \in Workers : wpc[w] = "exit" =>
          phase[On[w]] \in {"closing", "closed"} /\ queue[On[w]] = <<>>
    /\ \A i \in Instances : phase[i] = "closed" =>
          \A w \in Workers : On[w] = i => wpc[w] = "exit"
    /\ \A i \in Instances : phase[i] # "down"


QuietInv == faults = 0 => Shutdown /\ NothingLost

\* What appending to the queue keeps and adds.
LEMMA InAppended ==
  ASSUME NEW q \in Seq(Keys), NEW k \in Keys
  PROVE  /\ \A n \in DOMAIN q : n \in DOMAIN Append(q, k) /\ Append(q, k)[n] = q[n]
         /\ Len(q) + 1 \in DOMAIN Append(q, k)
         /\ Append(q, k)[Len(q) + 1] = k
  BY AppendProperties

\* What is in the queue is taken from its head or stays behind it.
LEMMA InTail ==
  ASSUME NEW q \in Seq(Keys), q # <<>>, NEW n \in DOMAIN q
  PROVE  q[n] = Head(q) \/ (n - 1 \in DOMAIN Tail(q) /\ Tail(q)[n - 1] = q[n])
<1>1. n \in 1 .. Len(q) /\ Len(q) \in Nat /\ Len(Tail(q)) = Len(q) - 1
  BY HeadTailProperties
<1>2. CASE n = 1
  BY <1>2
<1>3. CASE n # 1
  BY <1>1, <1>3, HeadTailProperties
<1>4. QED
  BY <1>2, <1>3

\* While nothing fails, a step keeps what the shutdown has closed.
LEMMA ShutdownNext ==
  ASSUME TypeOK, TypeOK', faults = 0, faults' = 0, Shutdown, [Next]_vars
  PROVE  Shutdown'
<1> USE MailerAssumption DEF TypeOK, Shutdown, instanceVars, workerVars
<1>1. ASSUME NEW i \in Instances, NEW k \in Keys, Enqueue(i, k) PROVE Shutdown'
  BY <1>1 DEF Enqueue
<1>2. ASSUME NEW w \in Workers, Take(w) PROVE Shutdown'
  BY <1>2 DEF Take
<1>3. ASSUME NEW w \in Workers, Exit(w) PROVE Shutdown'
  BY <1>3 DEF Exit, Ends
<1>4. ASSUME NEW w \in Workers, Record(w) \/ Deliver(w) \/ Mark(w) PROVE Shutdown'
  BY <1>4 DEF Record, Deliver, Mark, Finish
<1>5. ASSUME NEW i \in Instances, Close(i) PROVE Shutdown'
  BY <1>5 DEF Close
<1>6. ASSUME NEW i \in Instances, CloseReturns(i) PROVE Shutdown'
  BY <1>6 DEF CloseReturns, Drained, WorkersOf
<1>7. ASSUME NEW i \in Instances, Restart(i) PROVE Shutdown'
  BY <1>7 DEF Restart, Forget
<1>8. CASE Fault
  BY <1>8 DEF Fault
<1>9. CASE UNCHANGED vars
  BY <1>9 DEF vars
<1>10. QED
  BY <1>1, <1>2, <1>3, <1>4, <1>5, <1>6, <1>7, <1>8, <1>9
  DEF Next, InstanceNext, WorkerNext, RecordFails, DeliverFails, MarkFails, Crash

\* While nothing fails, a step leaves every accepted mail recorded or waiting.
LEMMA NothingLostNext ==
  ASSUME TypeOK, TypeOK', faults = 0, faults' = 0, Shutdown, NothingLost, [Next]_vars
  PROVE  NothingLost'
<1> SUFFICES ASSUME NEW c \in accepted', record'[c] = "none" PROVE Waiting(c)'
  BY DEF NothingLost
<1> USE MailerAssumption DEF TypeOK, instanceVars, workerVars
<1>0. c \in accepted /\ record[c] = "none" => Waiting(c)
  BY DEF NothingLost
<1>1. ASSUME NEW i \in Instances, NEW k \in Keys, Enqueue(i, k) PROVE Waiting(c)'
  <2>1. CASE UNCHANGED <<queue, accepted>>
    BY <1>0, <1>1, <2>1 DEF Enqueue, Waiting
  <2>2. CASE /\ queue' = [queue EXCEPT ![i] = Append(@, k)]
             /\ accepted' = accepted \cup {k}
    <3>1. queue'[i] = Append(queue[i], k) /\ \A j \in Instances \ {i} : queue'[j] = queue[j]
      BY <2>2
    <3>2. CASE c = k
      <4>1. Len(queue[i]) + 1 \in DOMAIN queue'[i] /\ queue'[i][Len(queue[i]) + 1] = c
        BY <3>1, <3>2, InAppended
      <4>2. QED
        BY <4>1 DEF Waiting
    <3>3. CASE c # k
      <4>1. Waiting(c)
        BY <1>0, <1>1, <2>2, <3>3 DEF Enqueue
      <4>2. job' = job
        BY <1>1 DEF Enqueue
      <4>3. CASE \E w \in Workers : job[w] = c
        BY <4>2, <4>3 DEF Waiting
      <4>4. ASSUME NEW j \in Instances, NEW n \in DOMAIN queue[j], queue[j][n] = c
            PROVE  n \in DOMAIN queue'[j] /\ queue'[j][n] = c
        <5>1. /\ queue[i] \in Seq(Keys)
              /\ \A m \in DOMAIN queue[i] :
                    /\ m \in DOMAIN Append(queue[i], k)
                    /\ Append(queue[i], k)[m] = queue[i][m]
          BY InAppended
        <5>2. CASE j = i
          BY <3>1, <4>4, <5>1, <5>2
        <5>3. CASE j # i
          BY <3>1, <4>4, <5>3
        <5>4. QED
          BY <5>2, <5>3
      <4>5. QED
        BY <4>1, <4>3, <4>4 DEF Waiting
    <3>4. QED
      BY <3>2, <3>3
  <2>3. QED
    BY <1>1, <2>1, <2>2 DEF Enqueue
<1>2. ASSUME NEW w \in Workers, Take(w) PROVE Waiting(c)'
  <2>1. Waiting(c)
    BY <1>0, <1>2 DEF Take
  <2>2. /\ queue[On[w]] \in Seq(Keys) /\ queue[On[w]] # <<>>
        /\ job[w] = None
        /\ job' = [job EXCEPT ![w] = Head(queue[On[w]])]
        /\ queue' = [queue EXCEPT ![On[w]] = Tail(@)]
    BY <1>2 DEF Take
  <2>3. CASE \E v \in Workers : job[v] = c
    BY <2>2, <2>3 DEF Waiting
  <2>4. ASSUME NEW i \in Instances, NEW n \in DOMAIN queue[i], queue[i][n] = c
        PROVE  Waiting(c)'
    <3>1. CASE i # On[w]
      BY <2>2, <2>4, <3>1 DEF Waiting
    <3>2. CASE i = On[w] /\ c = Head(queue[i])
      BY <2>2, <3>2 DEF Waiting
    <3>3. CASE i = On[w] /\ c # Head(queue[i])
      <4>1. queue'[i] = Tail(queue[i]) /\ queue[i] # <<>> /\ queue[i] \in Seq(Keys)
        BY <2>2, <3>3
      <4>2. n - 1 \in DOMAIN queue'[i] /\ queue'[i][n - 1] = c
        <5>1. PICK q : q = queue[i]
          OBVIOUS
        <5>2. q \in Seq(Keys) /\ q # <<>> /\ n \in DOMAIN q /\ q[n] # Head(q)
          BY <2>4, <3>3, <4>1, <5>1
        <5>3. n - 1 \in DOMAIN Tail(q) /\ Tail(q)[n - 1] = q[n]
          BY <5>2, InTail
        <5>4. QED
          BY <2>4, <4>1, <5>1, <5>3
      <4>3. QED
        BY <4>2 DEF Waiting
    <3>4. QED
      BY <3>1, <3>2, <3>3
  <2>5. QED
    BY <2>1, <2>3, <2>4 DEF Waiting
<1>3. ASSUME NEW w \in Workers, Record(w) \/ Mark(w) PROVE Waiting(c)'
  \* The mail that is put down has a row.
  <2>1. UNCHANGED <<queue, accepted>> /\ c # job[w] /\ record[c] = record'[c]
    BY <1>3 DEF Record, Mark, Claimed, Finish
  <2>2. \A v \in Workers : job[v] = c => job'[v] = c
    BY <1>3, <2>1 DEF Record, Mark, Finish
  <2>3. QED
    BY <1>0, <2>1, <2>2 DEF Waiting
<1>4. ASSUME NEW w \in Workers, Exit(w) \/ Deliver(w) PROVE Waiting(c)'
  BY <1>0, <1>4 DEF Exit, Deliver, Waiting
<1>5. ASSUME NEW i \in Instances, Close(i) \/ CloseReturns(i) PROVE Waiting(c)'
  BY <1>0, <1>5 DEF Close, CloseReturns, Waiting
<1>6. ASSUME NEW i \in Instances, Restart(i) PROVE Waiting(c)'
  \* What the restart forgets was empty.
  <2>1. \A w \in Workers : On[w] = i => job[w] = None
    BY <1>6 DEF Restart, Shutdown
  <2>2. queue[i] = <<>>
    BY <1>6, WorkersAssumption DEF Restart, Shutdown
  <2>3. Waiting(c) /\ c # None
    BY <1>0, <1>6 DEF Restart
  <2>4. QED
    BY <1>6, <2>1, <2>2, <2>3 DEF Restart, Forget, Waiting
<1>7. CASE Fault
  BY <1>7 DEF Fault
<1>8. CASE UNCHANGED vars
  BY <1>0, <1>8 DEF vars, Waiting
<1>9. QED
  BY <1>1, <1>2, <1>3, <1>4, <1>5, <1>6, <1>7, <1>8
  DEF Next, InstanceNext, WorkerNext, RecordFails, DeliverFails, MarkFails, Crash

\* A fault is never forgotten.
LEMMA FaultsStay ==
  ASSUME TypeOK, [Next]_vars, faults' = 0
  PROVE  faults = 0
  BY DEF TypeOK, Next, InstanceNext, WorkerNext, Enqueue, Take, Exit, Record, RecordFails,
         Deliver, DeliverFails, Mark, MarkFails, Close, CloseReturns, Crash, Restart,
         Fault, vars

\* Without errors and crashes an accepted mail has a row before a clean Close
\* lets the server end (AsyncMailer.Close after the server's shutdown).
THEOREM CleanCloseLosesNothing == Spec => []NothingLost
<1>1. Init => QuietInv
  BY MailerAssumption DEF Init, QuietInv, Shutdown, NothingLost
<1>2. MailInv /\ MailInv' /\ QuietInv /\ [Next]_vars => QuietInv'
  BY FaultsStay, ShutdownNext, NothingLostNext DEF MailInv, QuietInv
<1>3. QuietInv => NothingLost
  BY DEF QuietInv, NothingLost
<1>4. QED
  BY <1>1, <1>2, <1>3, MailInvariant, PTL DEF Spec
=============================================================================
