---------------------------- MODULE Signup_proofs ----------------------------
(***************************************************************************)
(* For any requests, handlers and addresses, any intervals and any number  *)
(* of errors, crashes and changes to accounts: an account is what the      *)
(* opened mail asked for, a link makes one account, and of the links of an *)
(* address exactly the newest is alive.                                    *)
(***************************************************************************)
EXTENDS Signup, SequenceTheorems, FiniteSetTheorems, TLAPS

Accounts == [token : Requests, email : Emails, by : Requests, id : Nat]

\* What a notice is.
Notices == [key : [email : Emails, window : Nat], at : Nat]

\* The upsert of r has been answered, or will never be.
Past(r) == rpc[r] \in {"send", "done"}

\* A pending signup is that of the newest request, and was not used yet.
RowsOK ==
    \A e \in Emails : row[e] # None =>
        /\ row[e].token = latest[e] /\ row[e].by = latest[e]
        /\ row[e].sent = since[latest[e]]
        /\ row[e].id < nextId
        /\ latest[e] # None

LatestOK ==
    \A e \in Emails : latest[e] # None =>
        EmailOf[latest[e]] = e /\ Past(latest[e])

\* Ids are not used twice.
IdsOK == \A d, e \in Emails : row[d] # None /\ row[e] # None /\ row[d].id = row[e].id => d = e

\* What a handler has locked stays as it found it, and no other has it.
HeldOK ==
    \A o \in Openers : held[o] # None =>
        /\ row[held[o]] # None
        /\ row[held[o]].token = link[o]
        /\ pend[o] # None => pend[o] = row[held[o]]
        /\ \A p \in Openers : held[p] = held[o] => p = o

\* Only links that were mailed are opened.
MailedOK ==
    /\ \A m \in mails : rpc[m.token] = "done"
    /\ \A o \in Openers : link[o] # None => \E m \in mails : m.token = link[o]

\* No pending signup has the token of an account.
UnusedOK ==
    \A e \in Emails, n \in DOMAIN accounts :
        row[e] # None => row[e].token # accounts[n].token

\* The token of an account was accepted.
SpentOK == \A n \in DOMAIN accounts : Past(accounts[n].token)

SignupInv ==
    /\ RowsOK /\ LatestOK /\ IdsOK /\ HeldOK /\ MailedOK /\ UnusedOK /\ SpentOK
    /\ AccountAsMailed /\ OneAccountPerLink /\ NewestLinkAlive

-----------------------------------------------------------------------------
(* Types                                                                   *)

Kinds ==
    /\ clock \in Nat /\ nextId \in Nat
    /\ row \in [Emails -> Rows \cup {None}]
    /\ users \in [Emails -> {"free", "active", "withdrawn"}]
    /\ rpc \in [Requests -> {"start", "lookup", "begin", "upsert", "send", "done"}]
    /\ since \in [Requests -> Nat]
    /\ receipt \in [Requests -> [id : Nat, gen : Nat] \cup {None}]
    /\ cpc \in [Openers -> {"idle", "lock", "read", "create", "discard"}]
    /\ link \in [Openers -> Requests \cup {None}]
    /\ began \in [Openers -> Nat]
    /\ held \in [Openers -> Emails \cup {None}]
    /\ pend \in [Openers -> Rows \cup {None}]
    /\ latest \in [Emails -> Requests \cup {None}]
    /\ mails \subseteq [token : Requests, email : Emails, at : Nat, id : Nat, gen : Nat]
    /\ accounts \in Seq(Accounts)
    /\ notices \subseteq Notices
    /\ opens \in Nat /\ changes \in Nat /\ faults \in Nat

OpenersFit ==
    \A o \in Openers : /\ link[o] = None <=> cpc[o] = "idle"
                       /\ held[o] = None <=> cpc[o] \in {"idle", "lock"}
                       /\ pend[o] = None <=> cpc[o] \in {"idle", "lock", "read"}

RowsLive == \A e \in Emails : row[e] # None => row[e].expires = row[e].sent + TTL

\* A request that has its answer still to use, has one.
ReceiptsFit == \A r \in Requests : rpc[r] = "send" => receipt[r] # None

Types == Kinds /\ OpenersFit /\ RowsLive /\ ReceiptsFit

\* The types the proofs carry imply the type invariant.
LEMMA TypeParts == Types => TypeOK
  BY DEF Types, TypeOK, Kinds, OpenersFit, RowsLive, Accounts, Notices

\* The row an upsert stores is a row, for a new address and a known one.
LEMMA NewRows ==
  ASSUME Kinds, NEW r \in Requests
  PROVE  /\ EmailOf[r] \in Emails
         /\ Inserted(r) \in Rows
         /\ Inserted(r) # None
         /\ row[EmailOf[r]] # None => Replaced(r) \in Rows /\ Replaced(r) # None
  BY SignupAssumption DEF Kinds, Inserted, Replaced, Rows

\* What an accepted upsert does: v is the row it stores.
Accepts(r, v) ==
    /\ v \in Rows /\ v # None
    /\ v.token = r /\ v.by = r /\ v.sent = since[r] /\ v.expires = since[r] + TTL
    /\ \/ /\ row[EmailOf[r]] = None
          /\ v.id = nextId /\ v.gen = 1 /\ nextId' = nextId + 1
       \/ /\ row[EmailOf[r]] # None /\ ~TooSoon(r)
          /\ v.id = row[EmailOf[r]].id /\ v.gen = row[EmailOf[r]].gen + 1 /\ nextId' = nextId
    /\ row' = [row EXCEPT ![EmailOf[r]] = v]
    /\ latest' = [latest EXCEPT ![EmailOf[r]] = r]

\* An upsert is refused and changes no row, or it is accepted.
LEMMA UpsertEffect ==
  ASSUME Kinds, NEW r \in Requests, Upsert(r) \/ UpsertAnswerLost(r)
  PROVE  \/ UNCHANGED <<row, latest, nextId, receipt>> /\ rpc' = [rpc EXCEPT ![r] = "done"]
         \/ \E v : /\ Accepts(r, v)
                   /\ \/ UNCHANGED receipt /\ rpc' = [rpc EXCEPT ![r] = "done"]
                      \/ /\ receipt' = [receipt EXCEPT ![r] = [id |-> v.id, gen |-> v.gen]]
                         /\ rpc' = [rpc EXCEPT ![r] = "send"]
<1>1. CASE row[EmailOf[r]] = None /\ StoreNew(r)
  <2>1. Accepts(r, Inserted(r))
    BY <1>1, NewRows DEF Accepts, StoreNew, Store, Inserted
  <2>2. Inserted(r).id = nextId /\ Inserted(r).gen = 1
    BY DEF Inserted
  <2>3. QED
    BY <1>1, <2>1, <2>2 DEF Upsert, UpsertAnswerLost
<1>2. CASE row[EmailOf[r]] # None /\ ~TooSoon(r) /\ StoreAgain(r)
  <2>1. Accepts(r, Replaced(r))
    BY <1>2, NewRows DEF Accepts, StoreAgain, Store, Replaced
  <2>2. Replaced(r).id = row[EmailOf[r]].id
    BY DEF Replaced
  <2>3. QED
    BY <1>2, <2>1, <2>2 DEF Upsert, UpsertAnswerLost
<1>3. CASE /\ UNCHANGED <<row, latest, nextId, receipt>>
           /\ rpc' = [rpc EXCEPT ![r] = "done"]
  BY <1>3
<1>4. QED
  BY <1>1, <1>2, <1>3 DEF Upsert, UpsertAnswerLost

\* What a look-up changes: the request goes on or ends, with a notice or without.
LEMMA LookUpEffect ==
  ASSUME NEW r \in Requests, LookUp(r)
  PROVE  /\ UNCHANGED <<clock, row, nextId, users, since, receipt, cpc, link, began, held, pend>>
         /\ UNCHANGED <<latest, mails, accounts, opens, changes, faults>>
         /\ rpc[r] = "lookup"
         /\ \E s \in {"begin", "done"} : rpc' = [rpc EXCEPT ![r] = s]
         /\ \/ UNCHANGED notices
            \/ notices' = notices \cup
                   {[key |-> AlreadyRegisteredMailKey(EmailOf[r], clock), at |-> clock]}
  BY DEF LookUp, Notify, openerVars

\* A notice's key names a window of the clock.
LEMMA NewNotice ==
  ASSUME Kinds, NEW r \in Requests
  PROVE  [key |-> AlreadyRegisteredMailKey(EmailOf[r], clock), at |-> clock] \in Notices
<1>1. EmailOf[r] \in Emails /\ clock \in Nat
  BY SignupAssumption DEF Kinds
<1>2. clock \div Resend \in Nat
  BY <1>1, SignupAssumption
<1>3. QED
  BY <1>1, <1>2 DEF AlreadyRegisteredMailKey, Notices

\* What creating an account keeps and adds.
LEMMA AccountAdded ==
  ASSUME NEW s \in Seq(Accounts), NEW a \in Accounts
  PROVE  /\ Append(s, a) \in Seq(Accounts)
         /\ DOMAIN Append(s, a) = DOMAIN s \cup {Len(s) + 1}
         /\ \A n \in DOMAIN s : Append(s, a)[n] = s[n]
         /\ Append(s, a)[Len(s) + 1] = a
         /\ Len(s) + 1 \notin DOMAIN s
  BY AppendProperties

\* The initial states have the types.
LEMMA TypesInit == Init => Types
  BY SignupAssumption DEF Init, Types, Kinds, OpenersFit, RowsLive, ReceiptsFit, Accounts

\* Every step of a request, of an opener or of the clock keeps the types.
LEMMA TypesNext == Types /\ [Next]_vars => Types'
<1> SUFFICES ASSUME Kinds, OpenersFit, RowsLive, ReceiptsFit, [Next]_vars
             PROVE  Kinds' /\ OpenersFit' /\ RowsLive' /\ ReceiptsFit'
  BY DEF Types
<1> USE SignupAssumption DEF requestVars, openerVars, historyVars
<1>1. ASSUME NEW r \in Requests, DiscardExpired(r)
      PROVE  Kinds' /\ OpenersFit' /\ RowsLive' /\ ReceiptsFit'
  <2>1. Kinds'
    BY <1>1 DEF Kinds, DiscardExpired
  <2>2. OpenersFit'
    BY <1>1 DEF Kinds, OpenersFit, DiscardExpired
  <2>3. RowsLive'
    BY <1>1 DEF Kinds, RowsLive, DiscardExpired
  <2>4. ReceiptsFit'
    BY <1>1 DEF Kinds, ReceiptsFit, DiscardExpired
  <2>5. QED
    BY <2>1, <2>2, <2>3, <2>4
<1>2. ASSUME NEW r \in Requests, DiscardFails(r)
      PROVE  Kinds' /\ OpenersFit' /\ RowsLive' /\ ReceiptsFit'
  <2>1. Kinds'
    BY <1>2 DEF Kinds, DiscardFails, Fault
  <2>2. OpenersFit'
    BY <1>2 DEF Kinds, OpenersFit, DiscardFails, Fault
  <2>3. RowsLive'
    BY <1>2 DEF Kinds, RowsLive, DiscardFails, Fault
  <2>4. ReceiptsFit'
    BY <1>2 DEF Kinds, ReceiptsFit, DiscardFails, Fault
  <2>5. QED
    BY <2>1, <2>2, <2>3, <2>4
<1>3. ASSUME NEW r \in Requests, LookUp(r)
      PROVE  Kinds' /\ OpenersFit' /\ RowsLive' /\ ReceiptsFit'
  <2>1. Kinds'
    <3>1. notices' \subseteq Notices
      <4>1. notices \subseteq Notices
        BY DEF Kinds
      <4>2. [key |-> AlreadyRegisteredMailKey(EmailOf[r], clock), at |-> clock] \in Notices
        BY NewNotice
      <4>3. \/ UNCHANGED notices
            \/ notices' = notices \cup
                   {[key |-> AlreadyRegisteredMailKey(EmailOf[r], clock), at |-> clock]}
        BY <1>3, LookUpEffect
      <4>4. QED
        BY <4>1, <4>2, <4>3, Zenon
    <3>2. rpc' \in [Requests -> {"start", "lookup", "begin", "upsert", "send", "done"}]
      BY <1>3, LookUpEffect DEF Kinds
    <3>3. QED
      BY <1>3, <3>1, <3>2, LookUpEffect DEF Kinds
  <2>2. OpenersFit'
    BY <1>3 DEF Kinds, OpenersFit, LookUp
  <2>3. RowsLive'
    BY <1>3 DEF Kinds, RowsLive, LookUp
  <2>4. ReceiptsFit'
    BY <1>3, LookUpEffect DEF Kinds, ReceiptsFit
  <2>5. QED
    BY <2>1, <2>2, <2>3, <2>4
<1>4. ASSUME NEW r \in Requests, BeginUpsert(r)
      PROVE  Kinds' /\ OpenersFit' /\ RowsLive' /\ ReceiptsFit'
  <2>1. Kinds'
    BY <1>4 DEF Kinds, BeginUpsert
  <2>2. OpenersFit'
    BY <1>4 DEF Kinds, OpenersFit, BeginUpsert
  <2>3. RowsLive'
    BY <1>4 DEF Kinds, RowsLive, BeginUpsert
  <2>4. ReceiptsFit'
    BY <1>4 DEF Kinds, ReceiptsFit, BeginUpsert
  <2>5. QED
    BY <2>1, <2>2, <2>3, <2>4
<1>5. ASSUME NEW r \in Requests, Upsert(r)
      PROVE  Kinds' /\ OpenersFit' /\ RowsLive' /\ ReceiptsFit'
  <2>1. CASE UNCHANGED <<row, latest, nextId, receipt>> /\ rpc' = [rpc EXCEPT ![r] = "done"]
    BY <1>5, <2>1 DEF Kinds, OpenersFit, RowsLive, ReceiptsFit, Upsert
  <2>2. ASSUME NEW v, Accepts(r, v),
               \/ UNCHANGED receipt /\ rpc' = [rpc EXCEPT ![r] = "done"]
               \/ /\ receipt' = [receipt EXCEPT ![r] = [id |-> v.id, gen |-> v.gen]]
                  /\ rpc' = [rpc EXCEPT ![r] = "send"]
        PROVE  Kinds' /\ OpenersFit' /\ RowsLive' /\ ReceiptsFit'
    <3>1. v \in Rows /\ EmailOf[r] \in Emails /\ v.id \in Nat /\ v.gen \in Nat
      BY <2>2 DEF Accepts, Rows
    <3>2. receipt' \in [Requests -> [id : Nat, gen : Nat] \cup {None}]
      <4>1. [id |-> v.id, gen |-> v.gen] \in [id : Nat, gen : Nat]
        BY <3>1
      <4>2. QED
        BY <2>2, <4>1 DEF Kinds
    <3>3. Kinds'
      <4>1. /\ UNCHANGED <<clock, users, since, openerVars, mails, accounts, notices, opens, changes>>
            /\ faults' \in Nat
        BY <1>5 DEF Kinds, Upsert
      <4>2. rpc' \in [Requests -> {"start", "lookup", "begin", "upsert", "send", "done"}]
        BY <2>2 DEF Kinds
      <4>3. nextId' \in Nat
        BY <2>2 DEF Kinds, Accepts
      <4>4. row' \in [Emails -> Rows \cup {None}]
        BY <2>2, <3>1 DEF Kinds, Accepts
      <4>5. latest' \in [Emails -> Requests \cup {None}]
        BY <2>2, <3>1 DEF Kinds, Accepts
      <4>6. QED
        BY <3>2, <4>1, <4>2, <4>3, <4>4, <4>5 DEF Kinds
    <3>4. OpenersFit'
      BY <1>5 DEF OpenersFit, Upsert
    <3>5. RowsLive'
      BY <2>2, <3>1 DEF Kinds, RowsLive, Accepts
    <3>6. ReceiptsFit'
      BY <2>2, <3>1 DEF Kinds, ReceiptsFit
    <3>7. QED
      BY <3>3, <3>4, <3>5, <3>6
  <2>3. QED
    BY <1>5, <2>1, <2>2, UpsertEffect
<1>6. ASSUME NEW r \in Requests, UpsertAnswerLost(r)
      PROVE  Kinds' /\ OpenersFit' /\ RowsLive' /\ ReceiptsFit'
  <2>1. CASE UNCHANGED <<row, latest, nextId, receipt>> /\ rpc' = [rpc EXCEPT ![r] = "done"]
    BY <1>6, <2>1 DEF Kinds, OpenersFit, RowsLive, ReceiptsFit, UpsertAnswerLost, Fault
  <2>2. ASSUME NEW v, Accepts(r, v),
               \/ UNCHANGED receipt /\ rpc' = [rpc EXCEPT ![r] = "done"]
               \/ /\ receipt' = [receipt EXCEPT ![r] = [id |-> v.id, gen |-> v.gen]]
                  /\ rpc' = [rpc EXCEPT ![r] = "send"]
        PROVE  Kinds' /\ OpenersFit' /\ RowsLive' /\ ReceiptsFit'
    <3>1. v \in Rows /\ EmailOf[r] \in Emails /\ v.id \in Nat /\ v.gen \in Nat
      BY <2>2 DEF Accepts, Rows
    <3>2. receipt' \in [Requests -> [id : Nat, gen : Nat] \cup {None}]
      <4>1. [id |-> v.id, gen |-> v.gen] \in [id : Nat, gen : Nat]
        BY <3>1
      <4>2. QED
        BY <2>2, <4>1 DEF Kinds
    <3>3. Kinds'
      <4>1. /\ UNCHANGED <<clock, users, since, openerVars, mails, accounts, notices, opens, changes>>
            /\ faults' \in Nat
        BY <1>6 DEF Kinds, UpsertAnswerLost, Fault
      <4>2. rpc' \in [Requests -> {"start", "lookup", "begin", "upsert", "send", "done"}]
        BY <2>2 DEF Kinds
      <4>3. nextId' \in Nat
        BY <2>2 DEF Kinds, Accepts
      <4>4. row' \in [Emails -> Rows \cup {None}]
        BY <2>2, <3>1 DEF Kinds, Accepts
      <4>5. latest' \in [Emails -> Requests \cup {None}]
        BY <2>2, <3>1 DEF Kinds, Accepts
      <4>6. QED
        BY <3>2, <4>1, <4>2, <4>3, <4>4, <4>5 DEF Kinds
    <3>4. OpenersFit'
      BY <1>6 DEF OpenersFit, UpsertAnswerLost, Fault
    <3>5. RowsLive'
      BY <2>2, <3>1 DEF Kinds, RowsLive, Accepts
    <3>6. ReceiptsFit'
      BY <2>2, <3>1 DEF Kinds, ReceiptsFit
    <3>7. QED
      BY <3>3, <3>4, <3>5, <3>6
  <2>3. QED
    BY <1>6, <2>1, <2>2, UpsertEffect
<1>7. ASSUME NEW r \in Requests, Send(r)
      PROVE  Kinds' /\ OpenersFit' /\ RowsLive' /\ ReceiptsFit'
  <2>1. Kinds'
    <3>1. receipt[r] \in [id : Nat, gen : Nat] /\ EmailOf[r] \in Emails
      BY <1>7, SignupAssumption DEF Kinds, ReceiptsFit, Send
    <3>2. QED
      BY <1>7, <3>1 DEF Kinds, Send
  <2>2. OpenersFit'
    BY <1>7 DEF Kinds, OpenersFit, Send
  <2>3. RowsLive'
    BY <1>7 DEF Kinds, RowsLive, Send
  <2>4. ReceiptsFit'
    BY <1>7 DEF Kinds, ReceiptsFit, Send
  <2>5. QED
    BY <2>1, <2>2, <2>3, <2>4
<1>8. ASSUME NEW r \in Requests, RequestFails(r)
      PROVE  Kinds' /\ OpenersFit' /\ RowsLive' /\ ReceiptsFit'
  <2>1. Kinds'
    BY <1>8 DEF Kinds, RequestFails, Fault
  <2>2. OpenersFit'
    BY <1>8 DEF Kinds, OpenersFit, RequestFails, Fault
  <2>3. RowsLive'
    BY <1>8 DEF Kinds, RowsLive, RequestFails, Fault
  <2>4. ReceiptsFit'
    BY <1>8 DEF Kinds, ReceiptsFit, RequestFails, Fault
  <2>5. QED
    BY <2>1, <2>2, <2>3, <2>4
<1>9. ASSUME NEW o \in Openers, NEW r \in Requests, Open(o, r)
      PROVE  Kinds' /\ OpenersFit' /\ RowsLive' /\ ReceiptsFit'
  <2>1. Kinds'
    <3>1. /\ UNCHANGED <<clock, row, nextId, users, rpc, since, receipt, held, pend>>
          /\ UNCHANGED <<latest, mails, accounts, notices, changes, faults>>
          /\ opens' = opens + 1
          /\ link' = [link EXCEPT ![o] = r]
          /\ began' = [began EXCEPT ![o] = clock]
          /\ cpc' = [cpc EXCEPT ![o] = "lock"]
      BY <1>9 DEF Open
    <3>2. QED
      BY <3>1 DEF Kinds
  <2>2. OpenersFit'
    BY <1>9 DEF Kinds, OpenersFit, Open
  <2>3. RowsLive'
    BY <1>9 DEF Kinds, RowsLive, Open
  <2>4. ReceiptsFit'
    BY <1>9 DEF Kinds, ReceiptsFit, Open
  <2>5. QED
    BY <2>1, <2>2, <2>3, <2>4
<1>10. ASSUME NEW o \in Openers, Lock(o)
      PROVE  Kinds' /\ OpenersFit' /\ RowsLive' /\ ReceiptsFit'
  <2>1. Kinds'
    BY <1>10 DEF Kinds, Lock
  <2>2. OpenersFit'
    BY <1>10 DEF Kinds, OpenersFit, Lock
  <2>3. RowsLive'
    BY <1>10 DEF Kinds, RowsLive, Lock
  <2>4. ReceiptsFit'
    BY <1>10 DEF Kinds, ReceiptsFit, Lock
  <2>5. QED
    BY <2>1, <2>2, <2>3, <2>4
<1>11. ASSUME NEW o \in Openers, Read(o)
      PROVE  Kinds' /\ OpenersFit' /\ RowsLive' /\ ReceiptsFit'
  <2>1. Kinds'
    <3>0. cpc[o] = "read" /\ row[held[o]] # None
      BY <1>11 DEF Read, Found
    <3>1. held[o] # None
      BY <3>0 DEF OpenersFit
    <3>2. held[o] \in Emails
      BY <3>1 DEF Kinds
    <3>3. row[held[o]] \in Rows
      BY <3>0, <3>2 DEF Kinds
    <3>4. QED
      BY <1>11, <3>3 DEF Kinds, Read
  <2>2. OpenersFit'
    <3>0. cpc[o] = "read" /\ row[held[o]] # None
      BY <1>11 DEF Read, Found
    <3>1. link[o] # None /\ held[o] # None
      BY <3>0 DEF OpenersFit
    <3>2. QED
      BY <1>11, <3>0, <3>1 DEF Kinds, OpenersFit, Read
  <2>3. RowsLive'
    BY <1>11 DEF Kinds, RowsLive, Read
  <2>4. ReceiptsFit'
    BY <1>11 DEF Kinds, ReceiptsFit, Read
  <2>5. QED
    BY <2>1, <2>2, <2>3, <2>4
<1>12. ASSUME NEW o \in Openers, NotFound(o)
      PROVE  Kinds' /\ OpenersFit' /\ RowsLive' /\ ReceiptsFit'
  <2>1. Kinds'
    BY <1>12 DEF Kinds, NotFound, End
  <2>2. OpenersFit'
    BY <1>12 DEF Kinds, OpenersFit, NotFound, End
  <2>3. RowsLive'
    BY <1>12 DEF Kinds, RowsLive, NotFound, End
  <2>4. ReceiptsFit'
    BY <1>12 DEF Kinds, ReceiptsFit, NotFound, End
  <2>5. QED
    BY <2>1, <2>2, <2>3, <2>4
<1>13. ASSUME NEW o \in Openers, Create(o)
      PROVE  Kinds' /\ OpenersFit' /\ RowsLive' /\ ReceiptsFit'
  <2>1. Kinds'
    BY <1>13 DEF Kinds, Create
  <2>2. OpenersFit'
    BY <1>13 DEF Kinds, OpenersFit, Create
  <2>3. RowsLive'
    BY <1>13 DEF Kinds, RowsLive, Create
  <2>4. ReceiptsFit'
    BY <1>13 DEF Kinds, ReceiptsFit, Create
  <2>5. QED
    BY <2>1, <2>2, <2>3, <2>4
<1>14. ASSUME NEW o \in Openers, EmailTaken(o)
      PROVE  Kinds' /\ OpenersFit' /\ RowsLive' /\ ReceiptsFit'
  <2>1. Kinds'
    BY <1>14 DEF Kinds, EmailTaken, End
  <2>2. OpenersFit'
    BY <1>14 DEF Kinds, OpenersFit, EmailTaken, End
  <2>3. RowsLive'
    BY <1>14 DEF Kinds, RowsLive, EmailTaken, End
  <2>4. ReceiptsFit'
    BY <1>14 DEF Kinds, ReceiptsFit, EmailTaken, End
  <2>5. QED
    BY <2>1, <2>2, <2>3, <2>4
<1>15. ASSUME NEW o \in Openers, Discard(o)
      PROVE  Kinds' /\ OpenersFit' /\ RowsLive' /\ ReceiptsFit'
  <2>1. Kinds'
    <3>1. held[o] \in Emails /\ link[o] \in Requests /\ pend[o] \in Rows
      BY <1>15 DEF Kinds, OpenersFit, Discard
    <3>2. [token |-> link[o], email |-> held[o], by |-> pend[o].by, id |-> pend[o].id] \in Accounts
      BY <3>1 DEF Accounts, Rows
    <3>3. accounts' \in Seq(Accounts)
      BY <1>15, <3>2, AccountAdded DEF Kinds, Discard
    <3>4. QED
      BY <1>15, <3>1, <3>3 DEF Kinds, Discard, End
  <2>2. OpenersFit'
    BY <1>15 DEF Kinds, OpenersFit, Discard, End
  <2>3. RowsLive'
    BY <1>15 DEF Kinds, RowsLive, Discard, End
  <2>4. ReceiptsFit'
    BY <1>15 DEF Kinds, ReceiptsFit, Discard, End
  <2>5. QED
    BY <2>1, <2>2, <2>3, <2>4
<1>16. ASSUME NEW o \in Openers, ConfirmFails(o)
      PROVE  Kinds' /\ OpenersFit' /\ RowsLive' /\ ReceiptsFit'
  <2>1. Kinds'
    BY <1>16 DEF Kinds, ConfirmFails, End, Fault
  <2>2. OpenersFit'
    BY <1>16 DEF Kinds, OpenersFit, ConfirmFails, End, Fault
  <2>3. RowsLive'
    BY <1>16 DEF Kinds, RowsLive, ConfirmFails, End, Fault
  <2>4. ReceiptsFit'
    BY <1>16 DEF Kinds, ReceiptsFit, ConfirmFails, End, Fault
  <2>5. QED
    BY <2>1, <2>2, <2>3, <2>4
<1>17. ASSUME NEW e \in Emails, TakeAddress(e) \/ LeaveAddress(e) \/ Withdraw(e)
      PROVE  Kinds' /\ OpenersFit' /\ RowsLive' /\ ReceiptsFit'
  <2>1. Kinds'
    <3>1. PICK s \in {"free", "active", "withdrawn"} : Change(e, s)
      BY <1>17 DEF TakeAddress, LeaveAddress, Withdraw
    <3>2. QED
      BY <3>1 DEF Kinds, Change
  <2>2. OpenersFit'
    BY <1>17 DEF Kinds, OpenersFit, TakeAddress, LeaveAddress, Withdraw, Change
  <2>3. RowsLive'
    BY <1>17 DEF Kinds, RowsLive, TakeAddress, LeaveAddress, Withdraw, Change
  <2>4. ReceiptsFit'
    BY <1>17 DEF Kinds, ReceiptsFit, TakeAddress, LeaveAddress, Withdraw, Change
  <2>5. QED
    BY <2>1, <2>2, <2>3, <2>4
<1>18. ASSUME Tick
      PROVE  Kinds' /\ OpenersFit' /\ RowsLive' /\ ReceiptsFit'
  <2>1. Kinds'
    BY <1>18 DEF Kinds, Tick
  <2>2. OpenersFit'
    BY <1>18 DEF Kinds, OpenersFit, Tick
  <2>3. RowsLive'
    BY <1>18 DEF Kinds, RowsLive, Tick
  <2>4. ReceiptsFit'
    BY <1>18 DEF Kinds, ReceiptsFit, Tick
  <2>5. QED
    BY <2>1, <2>2, <2>3, <2>4
<1>19. CASE UNCHANGED vars
  BY <1>19 DEF vars, Kinds, OpenersFit, ReceiptsFit, RowsLive
<1>20. QED
  BY <1>1, <1>2, <1>3, <1>4, <1>5, <1>6, <1>7, <1>8, <1>9, <1>10, <1>11, <1>12, <1>13, <1>14, <1>15, <1>16, <1>17, <1>18, <1>19
  DEF Next, RequestNext, OpenerNext

-----------------------------------------------------------------------------
(* The invariant                                                           *)

\* An empty store satisfies the invariant.
LEMMA SignupInvInit == Init => SignupInv
<1> SUFFICES ASSUME Init PROVE SignupInv
  OBVIOUS
<1>1. DOMAIN accounts = {}
  BY DEF Init
<1>2. QED
  BY <1>1, SignupAssumption
  DEF Init, SignupInv, RowsOK, LatestOK, IdsOK, HeldOK, MailedOK, UnusedOK, SpentOK,
      AccountAsMailed, OneAccountPerLink, NewestLinkAlive

\* An accepted upsert, answered or not, keeps the invariant.
LEMMA AcceptKeeps ==
  ASSUME Types, Types', SignupInv, NEW r \in Requests, NEW v, Accepts(r, v),
         rpc[r] = "upsert", ~Locked(EmailOf[r]), NEW s \in {"send", "done"},
         rpc' = [rpc EXCEPT ![r] = s],
         UNCHANGED <<clock, since, link, held, pend, mails, accounts>>
  PROVE  SignupInv'
<1>0. /\ Kinds /\ RowsOK /\ LatestOK /\ IdsOK /\ HeldOK /\ MailedOK
      /\ UnusedOK /\ SpentOK /\ AccountAsMailed /\ OneAccountPerLink /\ NewestLinkAlive
  BY DEF Types, SignupInv
<1> DEFINE d == EmailOf[r]
<1>1. /\ d \in Emails
      /\ v # None /\ v.token = r /\ v.by = r /\ v.sent = since[r]
      /\ row'[d] = v /\ latest'[d] = r
      /\ \A e \in Emails : e # d => row'[e] = row[e] /\ latest'[e] = latest[e]
  BY <1>0, SignupAssumption DEF Accepts, Kinds
<1>2. \A e \in Emails : row[e] # None => row[e].id \in Nat /\ row[e].id < nextId
  BY <1>0 DEF Kinds, Rows, RowsOK
<1>3. /\ v.id < nextId' /\ nextId <= nextId' /\ nextId \in Nat /\ nextId' \in Nat
      /\ row[d] = None => v.id = nextId
      /\ row[d] # None => v.id = row[d].id
  BY <1>0, <1>1, <1>2 DEF Accepts, Kinds
<1>4. \A t \in Requests : (Past(t) => Past(t)') /\ (rpc[t] = "done" => rpc'[t] = "done")
  BY <1>0 DEF Past, Kinds
<1>5. Past(r)' /\ ~Past(r) /\ r # None
  BY <1>0, SignupAssumption DEF Past, Kinds
<1>6. \A e \in Emails : latest[e] # None => latest[e] \in Requests
  BY <1>0 DEF Kinds
<1>7. LatestOK'
  BY <1>0, <1>1, <1>4, <1>5, <1>6 DEF LatestOK
<1>8. RowsOK'
  <2>1. ASSUME NEW e \in Emails, row'[e] # None
        PROVE  /\ row'[e].token = latest'[e] /\ row'[e].by = latest'[e]
               /\ row'[e].sent = since'[latest'[e]]
               /\ row'[e].id < nextId' /\ latest'[e] # None
    <3>1. CASE e = d
      BY <1>1, <1>3, <1>5, <3>1
    <3>2. CASE e # d
      <4>1. row'[e] = row[e] /\ latest'[e] = latest[e] /\ row[e] # None
        BY <1>1, <2>1, <3>2
      <4>2. row[e].id < nextId'
        BY <1>2, <1>3, <4>1
      <4>3. QED
        BY <1>0, <4>1, <4>2 DEF RowsOK
    <3>3. QED
      BY <3>1, <3>2
  <2>2. QED
    BY <2>1 DEF RowsOK
<1>9. IdsOK'
  <2>1. \A e \in Emails : row[e] # None /\ e # d => row[e].id # v.id
    BY <1>0, <1>1, <1>2, <1>3 DEF IdsOK
  <2>2. ASSUME NEW e \in Emails, NEW f \in Emails, row'[e] # None, row'[f] # None,
               row'[e].id = row'[f].id
        PROVE  e = f
    <3>1. CASE e # d /\ f # d
      BY <1>0, <1>1, <2>2, <3>1 DEF IdsOK
    <3>2. CASE e = d \/ f = d
      BY <1>1, <2>1, <2>2, <3>2
    <3>3. QED
      BY <3>1, <3>2
  <2>3. QED
    BY <2>2 DEF IdsOK
<1>10. HeldOK'
  <2>1. \A o \in Openers : held[o] # d
    BY DEF Locked
  <2>2. \A o \in Openers : held[o] # None => held[o] \in Emails
    BY <1>0 DEF Kinds
  <2>3. QED
    BY <1>0, <1>1, <2>1, <2>2 DEF HeldOK
<1>11. MailedOK'
  <2>1. \A m \in mails : m.token \in Requests
    BY <1>0 DEF Kinds
  <2>2. QED
    BY <1>0, <1>4, <2>1 DEF MailedOK
<1>12. \A n \in DOMAIN accounts : accounts[n].token \in Requests /\ Past(accounts[n].token)
  <2>1. \A n \in DOMAIN accounts : accounts[n] \in Accounts
    BY <1>0, ElementOfSeq DEF Kinds
  <2>2. QED
    BY <1>0, <2>1 DEF SpentOK, Accounts
<1>13. SpentOK'
  BY <1>4, <1>12 DEF SpentOK
<1>14. UnusedOK'
  <2>1. \A n \in DOMAIN accounts : accounts[n].token # r
    BY <1>5, <1>12
  <2>2. ASSUME NEW e \in Emails, NEW n \in DOMAIN accounts, row'[e] # None
        PROVE  row'[e].token # accounts[n].token
    <3>1. CASE e = d
      BY <1>1, <2>1, <3>1
    <3>2. CASE e # d
      BY <1>0, <1>1, <2>2, <3>2 DEF UnusedOK
    <3>3. QED
      BY <3>1, <3>2
  <2>3. QED
    BY <2>2 DEF UnusedOK
<1>15. AccountAsMailed' /\ OneAccountPerLink'
  BY <1>0 DEF AccountAsMailed, OneAccountPerLink
<1>16. NewestLinkAlive'
  <2>1. \A t : Used(t)' <=> Used(t)
    BY DEF Used
  <2>2. QED
    BY <1>0, <1>1, <2>1 DEF NewestLinkAlive
<1>17. QED
  BY <1>7, <1>8, <1>9, <1>10, <1>11, <1>13, <1>14, <1>15, <1>16 DEF SignupInv

\* The end of a transaction gives up its row and no other.
LEMMA EndKeepsHeld ==
  ASSUME Kinds, HeldOK, NEW o \in Openers, End(o), row' = row
  PROVE  HeldOK'
<1>1. held'[o] = None
  BY DEF End, Kinds
<1>2. \A p \in Openers : p # o =>
         held'[p] = held[p] /\ link'[p] = link[p] /\ pend'[p] = pend[p]
  BY DEF End, Kinds
<1>3. QED
  BY <1>1, <1>2 DEF HeldOK

\* A step that stores no signup and makes no account.
LEMMA StoreUntouched ==
  ASSUME Kinds, SignupInv, UNCHANGED <<clock, row, nextId, since, latest, accounts>>,
         \A t \in Requests : Past(t) => Past(t)'
  PROVE  /\ RowsOK' /\ LatestOK' /\ IdsOK' /\ UnusedOK' /\ SpentOK'
         /\ OneAccountPerLink' /\ NewestLinkAlive'
<1>1. RowsOK' /\ IdsOK' /\ UnusedOK'
  BY DEF SignupInv, RowsOK, IdsOK, UnusedOK
<1>2. LatestOK'
  <2>1. \A e \in Emails : latest[e] # None => latest[e] \in Requests
    BY DEF Kinds
  <2>2. QED
    BY <2>1 DEF SignupInv, LatestOK
<1>3. SpentOK'
  <2>1. \A n \in DOMAIN accounts : accounts[n] \in Accounts
    BY ElementOfSeq DEF Kinds
  <2>2. QED
    BY <2>1 DEF SignupInv, SpentOK, Accounts
<1>4. OneAccountPerLink' /\ NewestLinkAlive'
  BY DEF SignupInv, OneAccountPerLink, NewestLinkAlive, Used
<1>5. QED
  BY <1>1, <1>2, <1>3, <1>4

\* The same, and it is a request's or somebody else's.
LEMMA OpenersUntouched ==
  ASSUME Kinds, SignupInv, UNCHANGED <<clock, row, nextId, since, latest, accounts>>,
         UNCHANGED <<link, held, pend, mails>>,
         \A t \in Requests : (Past(t) => Past(t)') /\ (rpc[t] = "done" => rpc'[t] = "done")
  PROVE  SignupInv'
<1>1. HeldOK'
  BY DEF SignupInv, HeldOK
<1>2. MailedOK'
  <2>1. \A m \in mails : m.token \in Requests
    BY DEF Kinds
  <2>2. QED
    BY <2>1 DEF SignupInv, MailedOK
<1>3. AccountAsMailed'
  BY DEF SignupInv, AccountAsMailed
<1>4. QED
  BY <1>1, <1>2, <1>3, StoreUntouched DEF SignupInv

\* Every step keeps the invariant.
LEMMA SignupInvNext == Types /\ SignupInv /\ [Next]_vars => SignupInv'
<1> SUFFICES ASSUME Types, Types', SignupInv, [Next]_vars
             PROVE  SignupInv'
  BY TypesNext
<1>0. /\ Kinds /\ Kinds' /\ OpenersFit /\ RowsLive /\ ReceiptsFit
      /\ RowsOK /\ LatestOK /\ IdsOK /\ HeldOK /\ MailedOK
      /\ UnusedOK /\ SpentOK /\ AccountAsMailed /\ OneAccountPerLink /\ NewestLinkAlive
  BY DEF Types, SignupInv
<1> USE SignupAssumption DEF requestVars, openerVars, historyVars
<1>1. ASSUME NEW r \in Requests, DiscardExpired(r)
      PROVE  SignupInv'
  <2>1. RowsOK'
    BY <1>1, <1>0 DEF Kinds, RowsOK, LatestOK, Past, DiscardExpired
  <2>2. LatestOK'
    BY <1>1, <1>0 DEF Kinds, LatestOK, Past, DiscardExpired
  <2>3. IdsOK'
    BY <1>1, <1>0 DEF Kinds, IdsOK, DiscardExpired
  <2>4. HeldOK'
    BY <1>1, <1>0 DEF Kinds, OpenersFit, HeldOK, Locked, DiscardExpired
  <2>5. MailedOK'
    BY <1>1, <1>0 DEF Kinds, OpenersFit, MailedOK, DiscardExpired
  <2>6. UnusedOK'
    BY <1>1, <1>0 DEF Kinds, UnusedOK, DiscardExpired
  <2>7. SpentOK'
    BY <1>1, <1>0 DEF Kinds, SpentOK, Past, DiscardExpired
  <2>8. AccountAsMailed'
    BY <1>1, <1>0 DEF Kinds, AccountAsMailed, DiscardExpired
  <2>9. OneAccountPerLink'
    BY <1>1, <1>0 DEF Kinds, OneAccountPerLink, DiscardExpired
  <2>10. NewestLinkAlive'
    <3>1. UNCHANGED <<clock, since, latest, accounts>>
      BY <1>1 DEF DiscardExpired
    <3>2. ASSUME NEW e \in Emails, row[e] # None, clock < since[latest[e]] + TTL,
                 row[e].token = latest[e]
          PROVE  row'[e] = row[e]
      <4>1. row[e].expires = since[latest[e]] + TTL /\ latest[e] \in Requests
        <5>1. row[e].expires = row[e].sent + TTL
          BY <1>0, <3>2 DEF RowsLive
        <5>2. row[e].sent = since[latest[e]] /\ latest[e] # None
          BY <1>0, <3>2 DEF RowsOK
        <5>3. QED
          BY <1>0, <5>1, <5>2 DEF Kinds
      <4>2. clock \in Nat /\ since[latest[e]] \in Nat
        BY <1>0, <4>1 DEF Kinds
      <4>3. ~Expired(e)
        BY <3>2, <4>1, <4>2 DEF Expired
      <4>4. QED
        BY <1>1, <4>3 DEF DiscardExpired
    <3>3. QED
      BY <1>0, <3>1, <3>2 DEF NewestLinkAlive, Used
  <2>11. QED
    BY <2>1, <2>2, <2>3, <2>4, <2>5, <2>6, <2>7, <2>8, <2>9, <2>10 DEF SignupInv
<1>2. ASSUME NEW r \in Requests, DiscardFails(r)
      PROVE  SignupInv'
  <2>1. /\ UNCHANGED <<clock, row, nextId, since, latest, accounts, link, held, pend, mails>>
        /\ \A t \in Requests : (Past(t) => Past(t)') /\ (rpc[t] = "done" => rpc'[t] = "done")
    BY <1>2, <1>0 DEF Kinds, Past, DiscardFails, Fault
  <2>2. QED
    BY <1>0, <2>1, OpenersUntouched DEF SignupInv
<1>3. ASSUME NEW r \in Requests, LookUp(r)
      PROVE  SignupInv'
  <2>1. /\ UNCHANGED <<clock, row, nextId, since, latest, accounts, link, held, pend, mails>>
        /\ \A t \in Requests : (Past(t) => Past(t)') /\ (rpc[t] = "done" => rpc'[t] = "done")
    <3>1. UNCHANGED <<clock, row, nextId, since, latest, accounts, link, held, pend, mails>>
      BY <1>3, LookUpEffect
    <3>2. PICK s \in {"begin", "done"} : rpc' = [rpc EXCEPT ![r] = s]
      BY <1>3, LookUpEffect
    <3>3. \A t \in Requests : rpc'[t] = IF t = r THEN s ELSE rpc[t]
      BY <1>0, <3>2 DEF Kinds
    <3>4. rpc[r] = "lookup"
      BY <1>3, LookUpEffect
    <3>5. QED
      BY <3>1, <3>3, <3>4 DEF Past
  <2>2. QED
    BY <1>0, <2>1, OpenersUntouched DEF SignupInv
<1>4. ASSUME NEW r \in Requests, BeginUpsert(r)
      PROVE  SignupInv'
  <2>1. RowsOK'
    <3>1. UNCHANGED <<row, nextId, latest>>
      BY <1>4 DEF BeginUpsert
    <3>2. \A e \in Emails : latest[e] # None => latest[e] # r /\ latest[e] \in Requests
      <4>1. ~Past(r)
        BY <1>4 DEF BeginUpsert, Past
      <4>2. QED
        BY <1>0, <4>1 DEF LatestOK, Kinds
    <3>3. \A t \in Requests : t # r => since'[t] = since[t]
      BY <1>4, <1>0 DEF BeginUpsert, Kinds
    <3>4. QED
      BY <1>0, <3>1, <3>2, <3>3 DEF RowsOK
  <2>2. LatestOK'
    BY <1>4, <1>0 DEF Kinds, LatestOK, Past, BeginUpsert
  <2>3. IdsOK'
    BY <1>4, <1>0 DEF Kinds, IdsOK, BeginUpsert
  <2>4. HeldOK'
    BY <1>4, <1>0 DEF Kinds, OpenersFit, HeldOK, Locked, BeginUpsert
  <2>5. MailedOK'
    BY <1>4, <1>0 DEF Kinds, OpenersFit, MailedOK, BeginUpsert
  <2>6. UnusedOK'
    BY <1>4, <1>0 DEF Kinds, UnusedOK, BeginUpsert
  <2>7. SpentOK'
    BY <1>4, <1>0 DEF Kinds, SpentOK, Past, BeginUpsert
  <2>8. AccountAsMailed'
    BY <1>4, <1>0 DEF Kinds, AccountAsMailed, BeginUpsert
  <2>9. OneAccountPerLink'
    BY <1>4, <1>0 DEF Kinds, OneAccountPerLink, BeginUpsert
  <2>10. NewestLinkAlive'
    <3>1. UNCHANGED <<clock, row, latest, accounts>>
      BY <1>4 DEF BeginUpsert
    <3>2. \A e \in Emails : latest[e] # None => since'[latest[e]] = since[latest[e]]
      <4>1. ~Past(r)
        BY <1>4 DEF BeginUpsert, Past
      <4>2. \A t \in Requests : t # r => since'[t] = since[t]
        BY <1>4, <1>0 DEF BeginUpsert, Kinds
      <4>3. QED
        BY <1>0, <4>1, <4>2 DEF LatestOK, Kinds
    <3>3. QED
      BY <1>0, <3>1, <3>2 DEF NewestLinkAlive, Used
  <2>11. QED
    BY <2>1, <2>2, <2>3, <2>4, <2>5, <2>6, <2>7, <2>8, <2>9, <2>10 DEF SignupInv
<1>5. ASSUME NEW r \in Requests, Upsert(r)
      PROVE  SignupInv'
  <2>1. CASE UNCHANGED <<row, latest, nextId>> /\ rpc' = [rpc EXCEPT ![r] = "done"]
    <3>1. UNCHANGED <<clock, since, link, held, pend, mails, accounts>>
      BY <1>5 DEF Upsert
    <3>2. \A t \in Requests : (Past(t) => Past(t)') /\ (rpc[t] = "done" => rpc'[t] = "done")
      BY <1>0, <2>1 DEF Kinds, Past
    <3>3. QED
      BY <1>0, <2>1, <3>1, <3>2, OpenersUntouched DEF SignupInv
  <2>2. ASSUME NEW v, Accepts(r, v), NEW s \in {"send", "done"}, rpc' = [rpc EXCEPT ![r] = s]
        PROVE  SignupInv'
    BY <1>5, <2>2, AcceptKeeps DEF Upsert
  <2>3. QED
    BY <1>5, <1>0, <2>1, <2>2, UpsertEffect
<1>6. ASSUME NEW r \in Requests, UpsertAnswerLost(r)
      PROVE  SignupInv'
  <2>1. CASE UNCHANGED <<row, latest, nextId>> /\ rpc' = [rpc EXCEPT ![r] = "done"]
    <3>1. UNCHANGED <<clock, since, link, held, pend, mails, accounts>>
      BY <1>6 DEF UpsertAnswerLost
    <3>2. \A t \in Requests : (Past(t) => Past(t)') /\ (rpc[t] = "done" => rpc'[t] = "done")
      BY <1>0, <2>1 DEF Kinds, Past
    <3>3. QED
      BY <1>0, <2>1, <3>1, <3>2, OpenersUntouched DEF SignupInv
  <2>2. ASSUME NEW v, Accepts(r, v), NEW s \in {"send", "done"}, rpc' = [rpc EXCEPT ![r] = s]
        PROVE  SignupInv'
    BY <1>6, <2>2, AcceptKeeps DEF UpsertAnswerLost
  <2>3. QED
    BY <1>6, <1>0, <2>1, <2>2, UpsertEffect
<1>7. ASSUME NEW r \in Requests, Send(r)
      PROVE  SignupInv'
  <2>0. PICK m : m = [token |-> r, email |-> EmailOf[r], at |-> since[r],
                      id |-> receipt[r].id, gen |-> receipt[r].gen]
    OBVIOUS
  <2>8. mails' = mails \cup {m} /\ m.token = r
    BY <1>7, <2>0 DEF Send
  <2>1. /\ UNCHANGED <<clock, row, nextId, since, latest, accounts, link, held, pend>>
        /\ rpc' = [rpc EXCEPT ![r] = "done"]
    BY <1>7 DEF Send
  <2>2. \A t \in Requests : (Past(t) => Past(t)') /\ (rpc[t] = "done" => rpc'[t] = "done")
    BY <2>1, <1>0 DEF Kinds, Past
  <2>3. HeldOK'
    BY <2>1, <1>0 DEF HeldOK
  <2>4. MailedOK'
    <3>1. \A n \in mails : n.token \in Requests
      BY <1>0 DEF Kinds
    <3>2. rpc'[r] = "done"
      BY <2>1, <1>0 DEF Kinds
    <3>3. QED
      BY <2>8, <2>1, <2>2, <3>1, <3>2, <1>0 DEF MailedOK
  <2>5. AccountAsMailed'
    BY <2>8, <2>1, <1>0 DEF AccountAsMailed
  <2>6. QED
    BY <1>0, <2>1, <2>2, <2>3, <2>4, <2>5, StoreUntouched DEF SignupInv
<1>8. ASSUME NEW r \in Requests, RequestFails(r)
      PROVE  SignupInv'
  <2>1. /\ UNCHANGED <<clock, row, nextId, since, latest, accounts, link, held, pend, mails>>
        /\ \A t \in Requests : (Past(t) => Past(t)') /\ (rpc[t] = "done" => rpc'[t] = "done")
    BY <1>8, <1>0 DEF Kinds, Past, RequestFails, Fault
  <2>2. QED
    BY <1>0, <2>1, OpenersUntouched DEF SignupInv
<1>9. ASSUME NEW o \in Openers, NEW r \in Requests, Open(o, r)
      PROVE  SignupInv'
  <2>1. UNCHANGED <<clock, row, nextId, rpc, since, latest, mails, accounts>>
    BY <1>9 DEF Open
  <2>2. \A t \in Requests : Past(t) => Past(t)'
    BY <2>1 DEF Past
  <2>3. HeldOK'
    BY <1>9, <1>0 DEF Kinds, OpenersFit, HeldOK, Open
  <2>4. MailedOK'
    BY <1>9, <1>0, <2>1 DEF Kinds, MailedOK, Open
  <2>5. AccountAsMailed'
    BY <2>1, <1>0 DEF AccountAsMailed
  <2>6. QED
    BY <1>0, <2>1, <2>2, <2>3, <2>4, <2>5, StoreUntouched DEF SignupInv
<1>10. ASSUME NEW o \in Openers, Lock(o)
      PROVE  SignupInv'
  <2>1. UNCHANGED <<clock, row, nextId, rpc, since, latest, mails, accounts>>
    BY <1>10 DEF Lock
  <2>2. \A t \in Requests : Past(t) => Past(t)'
    BY <2>1 DEF Past
  <2>3. HeldOK'
    BY <1>10, <1>0 DEF Kinds, OpenersFit, HeldOK, Locked, Found, Lock
  <2>4. MailedOK'
    BY <1>10, <1>0, <2>1 DEF Kinds, MailedOK, Lock
  <2>5. AccountAsMailed'
    BY <2>1, <1>0 DEF AccountAsMailed
  <2>6. QED
    BY <1>0, <2>1, <2>2, <2>3, <2>4, <2>5, StoreUntouched DEF SignupInv
<1>11. ASSUME NEW o \in Openers, Read(o)
      PROVE  SignupInv'
  <2>1. UNCHANGED <<clock, row, nextId, rpc, since, latest, mails, accounts>>
    BY <1>11 DEF Read
  <2>2. \A t \in Requests : Past(t) => Past(t)'
    BY <2>1 DEF Past
  <2>3. HeldOK'
    BY <1>11, <1>0 DEF Kinds, OpenersFit, HeldOK, Found, Read
  <2>4. MailedOK'
    BY <1>11, <1>0, <2>1 DEF Kinds, MailedOK, Read
  <2>5. AccountAsMailed'
    BY <2>1, <1>0 DEF AccountAsMailed
  <2>6. QED
    BY <1>0, <2>1, <2>2, <2>3, <2>4, <2>5, StoreUntouched DEF SignupInv
<1>12. ASSUME NEW o \in Openers, NotFound(o)
      PROVE  SignupInv'
  <2>1. UNCHANGED <<clock, row, nextId, rpc, since, latest, mails, accounts>>
    BY <1>12 DEF NotFound, End
  <2>2. \A t \in Requests : Past(t) => Past(t)'
    BY <2>1 DEF Past
  <2>3. HeldOK'
    BY <1>12, <1>0, EndKeepsHeld DEF NotFound
  <2>4. MailedOK'
    BY <1>12, <1>0, <2>1 DEF Kinds, MailedOK, NotFound, End
  <2>5. AccountAsMailed'
    BY <2>1, <1>0 DEF AccountAsMailed
  <2>6. QED
    BY <1>0, <2>1, <2>2, <2>3, <2>4, <2>5, StoreUntouched DEF SignupInv
<1>13. ASSUME NEW o \in Openers, Create(o)
      PROVE  SignupInv'
  <2>1. UNCHANGED <<clock, row, nextId, rpc, since, latest, mails, accounts>>
    BY <1>13 DEF Create
  <2>2. \A t \in Requests : Past(t) => Past(t)'
    BY <2>1 DEF Past
  <2>3. HeldOK'
    BY <1>13, <1>0 DEF Kinds, OpenersFit, HeldOK, Create
  <2>4. MailedOK'
    BY <1>13, <1>0, <2>1 DEF Kinds, MailedOK, Create
  <2>5. AccountAsMailed'
    BY <2>1, <1>0 DEF AccountAsMailed
  <2>6. QED
    BY <1>0, <2>1, <2>2, <2>3, <2>4, <2>5, StoreUntouched DEF SignupInv
<1>14. ASSUME NEW o \in Openers, EmailTaken(o)
      PROVE  SignupInv'
  <2>1. UNCHANGED <<clock, row, nextId, rpc, since, latest, mails, accounts>>
    BY <1>14 DEF EmailTaken, End
  <2>2. \A t \in Requests : Past(t) => Past(t)'
    BY <2>1 DEF Past
  <2>3. HeldOK'
    BY <1>14, <1>0, EndKeepsHeld DEF EmailTaken
  <2>4. MailedOK'
    BY <1>14, <1>0, <2>1 DEF Kinds, MailedOK, EmailTaken, End
  <2>5. AccountAsMailed'
    BY <2>1, <1>0 DEF AccountAsMailed
  <2>6. QED
    BY <1>0, <2>1, <2>2, <2>3, <2>4, <2>5, StoreUntouched DEF SignupInv
<1>15. ASSUME NEW o \in Openers, Discard(o)
      PROVE  SignupInv'
  <2>1. /\ held[o] \in Emails /\ link[o] \in Requests /\ link[o] # None
        /\ row[held[o]] # None /\ pend[o] = row[held[o]]
        /\ row[held[o]].token = link[o]
    BY <1>15, <1>0 DEF Discard, Kinds, OpenersFit, HeldOK
  <2>2. /\ link[o] = latest[held[o]] /\ row[held[o]].by = link[o]
        /\ EmailOf[link[o]] = held[o] /\ Past(link[o])
    BY <1>0, <2>1 DEF RowsOK, LatestOK
  <2>3. \A e \in Emails : row'[e] = IF e = held[o] THEN None ELSE row[e]
    BY <1>15, <1>0, <2>1 DEF Discard, IdsOK, Kinds
  <2>4. /\ UNCHANGED <<clock, nextId, rpc, since, latest, mails>>
        /\ link' = [link EXCEPT ![o] = None]
        /\ held' = [held EXCEPT ![o] = None]
        /\ pend' = [pend EXCEPT ![o] = None]
    BY <1>15 DEF Discard, End
  <2>5. PICK a : /\ a = [token |-> link[o], email |-> held[o], by |-> pend[o].by, id |-> pend[o].id]
                 /\ accounts' = Append(accounts, a)
    BY <1>15 DEF Discard
  <2>6. /\ a \in Accounts /\ a.token = link[o] /\ a.email = held[o] /\ a.by = link[o]
    BY <1>0, <2>1, <2>2, <2>5 DEF Kinds, Accounts, Rows
  <2>7. PICK N : /\ DOMAIN accounts' = DOMAIN accounts \cup {N} /\ N \notin DOMAIN accounts
                 /\ accounts'[N] = a
                 /\ \A n \in DOMAIN accounts : accounts'[n] = accounts[n]
    <3>1. accounts \in Seq(Accounts)
      BY <1>0 DEF Kinds
    <3>2. /\ DOMAIN Append(accounts, a) = DOMAIN accounts \cup {Len(accounts) + 1}
          /\ \A n \in DOMAIN accounts : Append(accounts, a)[n] = accounts[n]
          /\ Append(accounts, a)[Len(accounts) + 1] = a
          /\ Len(accounts) + 1 \notin DOMAIN accounts
      BY <2>6, <3>1, AccountAdded
    <3>3. QED
      BY <2>5, <3>2
  <2>8. RowsOK' /\ LatestOK' /\ IdsOK'
    BY <1>0, <2>3, <2>4 DEF RowsOK, LatestOK, IdsOK, Past
  <2>9. HeldOK'
    <3>1. \A p \in Openers : p # o => /\ held'[p] = held[p] /\ link'[p] = link[p]
                                      /\ pend'[p] = pend[p]
      BY <1>0, <2>4 DEF Kinds
    <3>2. held'[o] = None
      BY <1>0, <2>4 DEF Kinds
    <3>3. \A p \in Openers : p # o => held[p] # held[o]
      BY <1>0, <2>1 DEF HeldOK
    <3>4. \A p \in Openers : held[p] # None => held[p] \in Emails
      BY <1>0 DEF Kinds
    <3>5. QED
      BY <1>0, <2>3, <3>1, <3>2, <3>3, <3>4 DEF HeldOK
  <2>10. MailedOK'
    <3>1. \A p \in Openers : link'[p] # None => link'[p] = link[p]
      BY <1>0, <2>4 DEF Kinds
    <3>2. QED
      BY <1>0, <2>4, <3>1 DEF MailedOK
  <2>11. UnusedOK'
    <3>1. \A e \in Emails : e # held[o] /\ row[e] # None => row[e].token # link[o]
      BY <1>0, <2>2 DEF RowsOK, LatestOK
    <3>2. QED
      BY <1>0, <2>3, <2>6, <2>7, <3>1 DEF UnusedOK
  <2>12. SpentOK'
    BY <1>0, <2>2, <2>4, <2>6, <2>7 DEF SpentOK, Past
  <2>13. AccountAsMailed'
    BY <1>0, <2>1, <2>2, <2>4, <2>6, <2>7 DEF AccountAsMailed, MailedOK
  <2>14. OneAccountPerLink'
    <3>1. \A n \in DOMAIN accounts : accounts[n].token # link[o]
      BY <1>0, <2>1 DEF UnusedOK
    <3>2. QED
      BY <1>0, <2>6, <2>7, <3>1 DEF OneAccountPerLink
  <2>15. NewestLinkAlive'
    <3>1. \A t : Used(t)' <=> Used(t) \/ t = link[o]
      BY <2>6, <2>7 DEF Used
    <3>2. QED
      BY <1>0, <2>2, <2>3, <2>4, <3>1 DEF NewestLinkAlive
  <2>16. QED
    BY <2>8, <2>9, <2>10, <2>11, <2>12, <2>13, <2>14, <2>15 DEF SignupInv
<1>16. ASSUME NEW o \in Openers, ConfirmFails(o)
      PROVE  SignupInv'
  <2>1. UNCHANGED <<clock, row, nextId, rpc, since, latest, mails, accounts>>
    BY <1>16 DEF ConfirmFails, End, Fault
  <2>2. \A t \in Requests : Past(t) => Past(t)'
    BY <2>1 DEF Past
  <2>3. HeldOK'
    BY <1>16, <1>0, EndKeepsHeld DEF ConfirmFails
  <2>4. MailedOK'
    BY <1>16, <1>0, <2>1 DEF Kinds, MailedOK, ConfirmFails, End, Fault
  <2>5. AccountAsMailed'
    BY <2>1, <1>0 DEF AccountAsMailed
  <2>6. QED
    BY <1>0, <2>1, <2>2, <2>3, <2>4, <2>5, StoreUntouched DEF SignupInv
<1>17. ASSUME NEW e \in Emails, TakeAddress(e) \/ LeaveAddress(e) \/ Withdraw(e)
      PROVE  SignupInv'
  <2>1. UNCHANGED <<clock, row, nextId, rpc, since, link, held, pend, latest, mails, accounts>>
    BY <1>17 DEF TakeAddress, LeaveAddress, Withdraw, Change
  <2>2. \A t \in Requests : (Past(t) => Past(t)') /\ (rpc[t] = "done" => rpc'[t] = "done")
    BY <2>1 DEF Past
  <2>3. QED
    BY <1>0, <2>1, <2>2, OpenersUntouched DEF SignupInv
<1>18. ASSUME Tick PROVE SignupInv'
  <2>1. RowsOK'
    BY <1>18, <1>0 DEF Kinds, RowsOK, LatestOK, Past, Tick
  <2>2. LatestOK'
    BY <1>18, <1>0 DEF Kinds, LatestOK, Past, Tick
  <2>3. IdsOK'
    BY <1>18, <1>0 DEF Kinds, IdsOK, Tick
  <2>4. HeldOK'
    BY <1>18, <1>0 DEF Kinds, OpenersFit, HeldOK, Locked, Tick
  <2>5. MailedOK'
    BY <1>18, <1>0 DEF Kinds, OpenersFit, MailedOK, Tick
  <2>6. UnusedOK'
    BY <1>18, <1>0 DEF Kinds, UnusedOK, Tick
  <2>7. SpentOK'
    BY <1>18, <1>0 DEF Kinds, SpentOK, Past, Tick
  <2>8. AccountAsMailed'
    BY <1>18, <1>0 DEF Kinds, AccountAsMailed, Tick
  <2>9. OneAccountPerLink'
    BY <1>18, <1>0 DEF Kinds, OneAccountPerLink, Tick
  <2>10. NewestLinkAlive'
    <3>1. UNCHANGED <<row, since, latest, accounts>> /\ clock' = clock + 1
      BY <1>18 DEF Tick
    <3>2. \A e \in Emails : latest[e] # None => since[latest[e]] \in Nat
      BY <1>0 DEF Kinds
    <3>3. clock \in Nat
      BY <1>0 DEF Kinds
    <3>4. QED
      BY <1>0, <3>1, <3>2, <3>3 DEF NewestLinkAlive, Used
  <2>11. QED
    BY <2>1, <2>2, <2>3, <2>4, <2>5, <2>6, <2>7, <2>8, <2>9, <2>10 DEF SignupInv
<1>19. CASE UNCHANGED vars
  BY <1>19, <1>0
  DEF vars, SignupInv, RowsOK, LatestOK, IdsOK, HeldOK, MailedOK, UnusedOK, SpentOK,
      AccountAsMailed, OneAccountPerLink, NewestLinkAlive, Used, Past
<1>20. QED
  BY <1>1, <1>2, <1>3, <1>4, <1>5, <1>6, <1>7, <1>8, <1>9, <1>10, <1>11, <1>12, <1>13, <1>14, <1>15, <1>16, <1>17, <1>18, <1>19
  DEF Next, RequestNext, OpenerNext

\* The types and the invariant hold in every reachable state.
LEMMA Invariant == Spec => [](Types /\ SignupInv)
<1>1. Init => Types /\ SignupInv
  BY TypesInit, SignupInvInit
<1>2. Types /\ SignupInv /\ [Next]_vars => (Types /\ SignupInv)'
  BY TypesNext, SignupInvNext
<1>3. QED
  BY <1>1, <1>2, PTL DEF Spec

-----------------------------------------------------------------------------
(* The theorems                                                            *)

\* Every variable keeps its kind, a handler of a link has locked and read what
\* its step says, and a pending signup lives TTL from its last mail.
THEOREM SignupTypeCorrect == Spec => []TypeOK
<1>1. Types /\ SignupInv => TypeOK
  BY TypeParts
<1>2. QED
  BY <1>1, Invariant, PTL

\* The account a link makes has the name, the password and the address of the
\* request whose mail carried it (Signups.Confirm).
THEOREM AccountIsAsMailed == Spec => []AccountAsMailed
<1>1. Types /\ SignupInv => AccountAsMailed
  BY DEF SignupInv
<1>2. QED
  BY <1>1, Invariant, PTL

\* A link makes at most one account, however many open it, at any time
\* (LockSignupVerification).
THEOREM LinkMakesOneAccount == Spec => []OneAccountPerLink
<1>1. Types /\ SignupInv => OneAccountPerLink
  BY DEF SignupInv
<1>2. QED
  BY <1>1, Invariant, PTL

\* The newest link of an address is alive until it is used or expires: no
\* clean-up and no confirmation of another link takes its row away.
THEOREM NewestLinkLives == Spec => []NewestLinkAlive
<1>1. Types /\ SignupInv => NewestLinkAlive
  BY DEF SignupInv
<1>2. QED
  BY <1>1, Invariant, PTL

\* The account a commit adds is of the newest link of its address.
LEMMA NewAccount ==
  ASSUME Types, SignupInv, NEW o \in Openers, Discard(o),
         NEW n \in DOMAIN accounts' \ DOMAIN accounts
  PROVE  accounts'[n].token = latest[accounts'[n].email]
<1>1. /\ held[o] \in Emails /\ link[o] \in Requests
      /\ pend[o] # None /\ pend[o] = row[held[o]] /\ row[held[o]] # None
      /\ row[held[o]].token = link[o]
  BY SignupAssumption DEF Types, Kinds, OpenersFit, SignupInv, HeldOK, Discard
<1>2. link[o] = latest[held[o]]
  BY <1>1 DEF SignupInv, RowsOK
<1>3. row[held[o]] \in Rows /\ accounts \in Seq(Accounts)
  BY <1>1 DEF Types, Kinds
<1>4. PICK a : a = [token |-> link[o], email |-> held[o], by |-> pend[o].by, id |-> pend[o].id]
  OBVIOUS
<1>5. a \in Accounts /\ a.token = link[o] /\ a.email = held[o]
  BY <1>1, <1>3, <1>4 DEF Accounts, Rows
<1>6. accounts' = Append(accounts, a)
  BY <1>4 DEF Discard
<1>7. accounts'[n] = a
  BY <1>3, <1>5, <1>6, AccountAdded
<1>8. QED
  BY <1>2, <1>5, <1>7

\* Only the newest link of an address makes an account: a link that was replaced
\* is dead, also for a confirmation on its way (UpsertSignupVerification waits
\* for the lock of LockSignupVerification).
THEOREM OnlyNewestLink == Spec => NewestLinkOnly
<1>1. ASSUME Types, SignupInv, [Next]_vars,
             NEW n \in DOMAIN accounts' \ DOMAIN accounts
      PROVE  accounts'[n].token = latest[accounts'[n].email]
  <2>1. CASE \E o \in Openers : Discard(o)
    BY <1>1, <2>1, NewAccount
  <2>2. CASE UNCHANGED accounts
    BY <1>1, <2>2
  <2>3. QED
    BY <1>1, <2>1, <2>2
    DEF Next, RequestNext, OpenerNext, DiscardExpired, DiscardFails, LookUp, BeginUpsert,
        Upsert, UpsertAnswerLost, Send, RequestFails, Open, Lock, Read, NotFound, Create,
        EmailTaken, ConfirmFails, TakeAddress, LeaveAddress, Withdraw, Change, Tick,
        historyVars, vars
<1>2. Types /\ SignupInv /\ [Next]_vars =>
        [\A n \in DOMAIN accounts' \ DOMAIN accounts :
           accounts'[n].token = latest[accounts'[n].email]]_vars
  BY <1>1
<1>3. QED
  BY <1>2, Invariant, PTL DEF Spec, NewestLinkOnly

-----------------------------------------------------------------------------
(* How often an address gets mail                                            *)

\* What a confirmation mail is.
Mailings == [token : Requests, email : Emails, at : Nat, id : Nat, gen : Nat]

\* The mail r hands over once its upsert was accepted.
Outgoing(r) == [token |-> r, email |-> EmailOf[r], at |-> since[r],
                id |-> receipt[r].id, gen |-> receipt[r].gen]

\* The mails handed over, and those that are going to be.
Sendings == mails \cup {Outgoing(r) : r \in {q \in Requests : rpc[q] = "send"}}

\* The pending signup with this id became an account.
Confirmed(i) == \E n \in DOMAIN accounts : accounts[n].id = i

\* The pending signup x was mailed for is there, with the same or a later mail,
\* or it was confirmed, or it has expired.
MailFits(x) ==
    /\ x.id < nextId
    /\ \A e \in Emails : row[e] # None /\ row[e].id = x.id =>
          e = x.email /\ x.at <= row[e].sent /\ x.gen <= row[e].gen
    /\ \/ row[x.email] # None /\ row[x.email].id = x.id
       \/ Confirmed(x.id)
       \/ clock >= x.at + TTL

MailsFit == \A x \in Sendings : MailFits(x)

\* Two mails keep the interval, and one key stands for one mail.
MailsApart ==
    \A x, y \in Sendings :
        /\ TooClose(x, y) => Confirmed(x.id) \/ Confirmed(y.id)
        /\ x.id = y.id /\ x.gen = y.gen => x = y

\* An upsert waits at most MaxWait.
WaitsBounded ==
    \A r \in Requests : rpc[r] = "upsert" => since[r] <= clock /\ clock <= since[r] + MaxWait

\* A notice's key names the window of its time.
NoticesFit == \A n \in notices : n.key.window = n.at \div Resend

RateInv == MailsFit /\ MailsApart /\ WaitsBounded /\ NoticesFit

\* The fields of a mail.
LEMMA SendingTypes == ASSUME Types PROVE Sendings \subseteq Mailings
<1>1. mails \subseteq Mailings
  BY DEF Types, Kinds, Mailings
<1>2. ASSUME NEW r \in Requests, rpc[r] = "send" PROVE Outgoing(r) \in Mailings
  <2>1. receipt[r] \in [id : Nat, gen : Nat] /\ since[r] \in Nat /\ EmailOf[r] \in Emails
    BY <1>2, SignupAssumption DEF Types, Kinds, ReceiptsFit
  <2> QED
    BY <2>1 DEF Outgoing, Mailings
<1> QED
  BY <1>1, <1>2 DEF Sendings

\* Nobody sets out to mail: no mail is added.
LEMMA NoNewSending ==
    ASSUME UNCHANGED <<mails, receipt>>,
           \A q \in Requests : rpc'[q] = "send" => rpc[q] = "send" /\ since'[q] = since[q]
    PROVE  Sendings' \subseteq Sendings
<1>1. ASSUME NEW q \in Requests, rpc'[q] = "send" PROVE Outgoing(q)' = Outgoing(q) /\ rpc[q] = "send"
  BY <1>1 DEF Outgoing
<1> QED
  BY <1>1 DEF Sendings

\* A step that adds no mail and stores no signup, and takes away only those
\* that are confirmed or expired, keeps what is true of mails.
LEMMA QuietKeeps ==
    ASSUME Types, Types', MailsFit, MailsApart, Sendings' \subseteq Sendings, UNCHANGED nextId,
           clock' >= clock,
           \A i \in Nat : Confirmed(i) => Confirmed(i)',
           \A e \in Emails : \/ row'[e] = row[e]
                             \/ row'[e] = None /\ row[e].expires <= clock
                             \/ row'[e] = None /\ \E n \in DOMAIN accounts' : accounts'[n].id = row[e].id
    PROVE  MailsFit' /\ MailsApart'
<1>0. /\ Sendings \subseteq Mailings
      /\ row \in [Emails -> Rows \cup {None}] /\ clock \in Nat /\ clock' \in Nat /\ RowsLive
      /\ TTL \in Nat
  BY SendingTypes, SignupAssumption DEF Types, Kinds
<1>1. ASSUME NEW x \in Sendings' PROVE MailFits(x)'
  <2>1. x \in Sendings /\ MailFits(x) /\ x.at \in Nat /\ x.id \in Nat /\ x.email \in Emails
    BY <1>0, <1>1 DEF MailsFit, Mailings
  <2>2. ASSUME NEW e \in Emails, row'[e] # None, row'[e].id = x.id
        PROVE  e = x.email /\ x.at <= row'[e].sent /\ x.gen <= row'[e].gen
    BY <2>1, <2>2 DEF MailFits
  <2>3. ASSUME row[x.email] # None, row[x.email].id = x.id
        PROVE  \/ row'[x.email] # None /\ row'[x.email].id = x.id
               \/ Confirmed(x.id)'
               \/ clock' >= x.at + TTL
    <3>1. CASE row'[x.email] = row[x.email]
      BY <2>3, <3>1
    <3>2. CASE row[x.email].expires <= clock
      <4>1. /\ x.at <= row[x.email].sent /\ row[x.email].expires = row[x.email].sent + TTL
            /\ row[x.email].sent \in Nat
        BY <1>0, <2>1, <2>3 DEF MailFits, RowsLive, Rows
      <4> QED
        BY <1>0, <2>1, <3>2, <4>1
    <3>3. CASE \E n \in DOMAIN accounts' : accounts'[n].id = row[x.email].id
      BY <2>3, <3>3 DEF Confirmed
    <3> QED
      BY <2>1, <3>1, <3>2, <3>3
  <2>4. clock >= x.at + TTL => clock' >= x.at + TTL
    BY <1>0, <2>1
  <2>5. Confirmed(x.id) => Confirmed(x.id)'
    BY <2>1
  <2> QED
    BY <2>1, <2>2, <2>3, <2>4, <2>5 DEF MailFits
<1>2. ASSUME NEW x \in Sendings', NEW y \in Sendings'
      PROVE  /\ TooClose(x, y) => Confirmed(x.id)' \/ Confirmed(y.id)'
             /\ x.id = y.id /\ x.gen = y.gen => x = y
  <2>1. x \in Sendings /\ y \in Sendings /\ x.id \in Nat /\ y.id \in Nat
    BY <1>0, <1>2 DEF Mailings
  <2> QED
    BY <2>1 DEF MailsApart
<1>3. \A x, y : TooClose(x, y)' <=> TooClose(x, y)
  BY DEF TooClose
<1> QED
  BY <1>1, <1>2, <1>3 DEF MailsFit, MailsApart

\* An accepted upsert comes late enough after every mail to its address, and
\* its key is new.
LEMMA AcceptLate ==
    ASSUME Types, SignupInv, RateInv, NEW r \in Requests, rpc[r] = "upsert", NEW v, Accepts(r, v),
           NEW x \in Sendings
    PROVE  /\ x.email = EmailOf[r] => Confirmed(x.id) \/ x.at + Resend <= since[r]
           /\ x.id = v.id => x.email = EmailOf[r] /\ x.gen < v.gen /\ x.at + Resend <= since[r]
<1> DEFINE e == EmailOf[r]
<1>1. /\ x \in Mailings /\ MailFits(x) /\ e \in Emails
      /\ row \in [Emails -> Rows \cup {None}] /\ clock \in Nat /\ since[r] \in Nat /\ nextId \in Nat
      /\ clock <= since[r] + MaxWait
      /\ TTL \in Nat /\ MaxWait \in Nat /\ Resend \in Nat /\ Resend + MaxWait < TTL
  BY SendingTypes, SignupAssumption DEF Types, Kinds, RateInv, MailsFit, WaitsBounded
<1>2. x.at \in Nat /\ x.id \in Nat /\ x.gen \in Nat /\ x.email \in Emails
  BY <1>1 DEF Mailings
<1>3. clock >= x.at + TTL => x.at + Resend <= since[r]
  BY <1>1, <1>2
<1>4. ASSUME row[e] # None, row[e].id = x.id
      PROVE  x.email = e /\ x.at + Resend <= since[r] /\ x.gen < v.gen
  <2>1. x.email = e /\ x.at <= row[e].sent /\ x.gen <= row[e].gen /\ row[e] \in Rows
    BY <1>1, <1>4 DEF MailFits
  <2>2. row[e].sent \in Nat /\ row[e].gen \in Nat
    BY <2>1 DEF Rows
  <2>3. ~TooSoon(r) /\ v.gen = row[e].gen + 1
    BY <1>4 DEF Accepts
  <2>4. row[e].sent + Resend <= since[r]
    BY <1>1, <2>2, <2>3 DEF TooSoon
  <2> QED
    BY <1>1, <1>2, <2>1, <2>2, <2>3, <2>4
<1>5. ASSUME x.email = e PROVE Confirmed(x.id) \/ x.at + Resend <= since[r]
  BY <1>1, <1>3, <1>4, <1>5 DEF MailFits
<1>6. ASSUME x.id = v.id PROVE row[e] # None /\ row[e].id = x.id
  <2>1. x.id < nextId
    BY <1>1 DEF MailFits
  <2>2. x.id # nextId
    BY <1>1, <1>2, <2>1
  <2> QED
    BY <1>6, <2>2 DEF Accepts
<1> QED
  BY <1>4, <1>5, <1>6

\* An accepted upsert keeps what is true of mails.
LEMMA AcceptFits ==
    ASSUME Types, SignupInv, RateInv, NEW r \in Requests, rpc[r] = "upsert", NEW v, Accepts(r, v),
           UNCHANGED <<clock, accounts>>, NEW y \in Mailings,
           y.email = EmailOf[r], y.at = since[r], y.id = v.id, y.gen = v.gen,
           Sendings' \subseteq Sendings \cup {y}
    PROVE  MailsFit' /\ MailsApart'
<1> DEFINE e0 == EmailOf[r]
<1>1. /\ Sendings \subseteq Mailings /\ e0 \in Emails
      /\ row \in [Emails -> Rows \cup {None}] /\ nextId \in Nat /\ since[r] \in Nat
      /\ Resend \in Nat \ {0}
  BY SendingTypes, SignupAssumption DEF Types, Kinds
<1>2. /\ v # None /\ v.sent = since[r] /\ row' = [row EXCEPT ![e0] = v]
      /\ \/ v.id = nextId /\ nextId' = nextId + 1
         \/ row[e0] # None /\ v.id = row[e0].id /\ nextId' = nextId
  BY DEF Accepts
<1>3. row'[e0] = v /\ \A e \in Emails : e # e0 => row'[e] = row[e]
  BY <1>1, <1>2
<1>4. \A e \in Emails : row[e] # None => row[e].id \in Nat /\ row[e].id < nextId
  BY <1>1 DEF SignupInv, RowsOK, Rows
<1>5. v.id \in Nat /\ v.gen \in Nat /\ v.id < nextId'
  <2>1. v \in Rows
    BY DEF Accepts
  <2> QED
    BY <1>1, <1>2, <1>4, <2>1 DEF Rows
<1>6. \A i : Confirmed(i)' <=> Confirmed(i)
  BY DEF Confirmed
<1>7. ASSUME NEW x \in Sendings PROVE MailFits(x)'
  <2>1. /\ MailFits(x) /\ x.id \in Nat /\ x.gen \in Nat /\ x.at \in Nat /\ x.email \in Emails
    BY <1>1 DEF RateInv, MailsFit, Mailings
  <2>2. x.id < nextId'
    BY <1>1, <1>2, <2>1 DEF MailFits
  <2>3. x.id = v.id => x.email = e0 /\ x.gen < v.gen /\ x.at + Resend <= since[r]
    BY AcceptLate
  <2>4. ASSUME NEW e \in Emails, row'[e] # None, row'[e].id = x.id
        PROVE  e = x.email /\ x.at <= row'[e].sent /\ x.gen <= row'[e].gen
    <3>1. CASE e = e0
      BY <1>1, <1>2, <1>3, <1>5, <2>1, <2>3, <2>4, <3>1
    <3>2. CASE e # e0
      BY <1>3, <2>1, <2>4, <3>2 DEF MailFits
    <3> QED
      BY <3>1, <3>2
  <2>5. ASSUME row[x.email] # None, row[x.email].id = x.id
        PROVE  row'[x.email] # None /\ row'[x.email].id = x.id
    <3>1. CASE x.email = e0
      BY <1>1, <1>2, <1>3, <1>4, <2>1, <2>5, <3>1 DEF Accepts
    <3>2. CASE x.email # e0
      BY <1>3, <2>1, <2>5, <3>2
    <3> QED
      BY <3>1, <3>2
  <2> QED
    BY <1>6, <2>1, <2>2, <2>4, <2>5 DEF MailFits
<1>8. MailFits(y)'
  <2>1. y.id < nextId' /\ row'[y.email] # None /\ row'[y.email].id = y.id
    BY <1>2, <1>3, <1>5
  <2>2. ASSUME NEW e \in Emails, row'[e] # None, row'[e].id = y.id
        PROVE  e = e0
    <3>1. ASSUME e # e0 PROVE FALSE
      <4>1. row[e] # None /\ row[e].id = v.id
        BY <1>3, <2>2, <3>1
      <4>2. row[e0] # None /\ row[e0].id = row[e].id
        BY <1>1, <1>2, <1>4, <4>1
      <4> QED
        BY <1>1, <3>1, <4>1, <4>2 DEF SignupInv, IdsOK
    <3> QED
      BY <3>1
  <2>3. y.at <= v.sent /\ y.gen <= v.gen
    BY <1>1, <1>2, <1>5
  <2> QED
    BY <1>3, <2>1, <2>2, <2>3 DEF MailFits
<1>9. MailsFit'
  BY <1>7, <1>8 DEF MailsFit
<1>10. ASSUME NEW x \in Sendings
       PROVE  /\ TooClose(x, y) \/ TooClose(y, x) => Confirmed(x.id)
              /\ ~(x.id = y.id /\ x.gen = y.gen)
  <2>1. /\ x.email = e0 => Confirmed(x.id) \/ x.at + Resend <= since[r]
        /\ x.id = v.id => x.gen < v.gen
    BY AcceptLate
  <2>2. x.at \in Nat /\ x.gen \in Nat
    BY <1>1 DEF Mailings
  <2> QED
    BY <1>1, <1>5, <2>1, <2>2 DEF TooClose
<1>11. ASSUME NEW x \in Sendings', NEW z \in Sendings'
       PROVE  /\ TooClose(x, z) => Confirmed(x.id) \/ Confirmed(z.id)
              /\ x.id = z.id /\ x.gen = z.gen => x = z
  <2>1. CASE x \in Sendings /\ z \in Sendings
    BY <2>1 DEF RateInv, MailsApart
  <2>2. CASE x \in Sendings /\ z = y
    BY <1>10, <2>2
  <2>3. CASE x = y /\ z \in Sendings
    BY <1>10, <2>3
  <2>4. CASE x = y /\ z = y
    BY <2>4 DEF TooClose
  <2> QED
    BY <1>11, <2>1, <2>2, <2>3, <2>4
<1>12. \A x, z : TooClose(x, z)' <=> TooClose(x, z)
  BY DEF TooClose
<1> QED
  BY <1>6, <1>9, <1>11, <1>12 DEF MailsApart

\* A commit of a confirmation turns the pending signup it deletes into an
\* account.
LEMMA DiscardFits ==
    ASSUME Types, Types', SignupInv, RateInv, NEW o \in Openers, Discard(o)
    PROVE  MailsFit' /\ MailsApart'
<1>1. /\ held[o] \in Emails /\ link[o] \in Requests /\ pend[o] # None /\ pend[o] = row[held[o]]
      /\ accounts \in Seq(Accounts) /\ row[held[o]] \in Rows
  BY SignupAssumption DEF Types, Kinds, OpenersFit, SignupInv, HeldOK, Discard
<1>2. PICK a : a = [token |-> link[o], email |-> held[o], by |-> pend[o].by, id |-> pend[o].id]
  OBVIOUS
<1>3. a \in Accounts /\ a.id = pend[o].id
  BY <1>1, <1>2 DEF Accounts, Rows
<1>4. accounts' = Append(accounts, a)
  BY <1>2 DEF Discard
<1>5. /\ \A n \in DOMAIN accounts : n \in DOMAIN accounts' /\ accounts'[n] = accounts[n]
      /\ \E n \in DOMAIN accounts' : accounts'[n] = a
  BY <1>1, <1>3, <1>4, AccountAdded
<1>6. \A i \in Nat : Confirmed(i) => Confirmed(i)'
  BY <1>5 DEF Confirmed
<1>7. /\ UNCHANGED <<clock, nextId, rpc, since, receipt, mails>>
      /\ row' = [e \in Emails |-> IF row[e] # None /\ row[e].id = pend[o].id THEN None ELSE row[e]]
  BY DEF Discard, requestVars
<1>8. Sendings' \subseteq Sendings
  BY <1>7, NoNewSending
<1>9. \A e \in Emails : \/ row'[e] = row[e]
                        \/ row'[e] = None /\ \E n \in DOMAIN accounts' : accounts'[n].id = row[e].id
  BY <1>3, <1>5, <1>7
<1>10. clock' >= clock
  BY <1>7 DEF Types, Kinds
<1> QED
  BY <1>6, <1>7, <1>8, <1>9, <1>10, QuietKeeps DEF RateInv

\* Every step keeps the rates.
LEMMA RateNext == Types /\ SignupInv /\ RateInv /\ [Next]_vars => RateInv'
<1> SUFFICES ASSUME Types, Types', SignupInv, RateInv, [Next]_vars PROVE RateInv'
  BY TypesNext
<1>0. /\ rpc \in [Requests -> {"start", "lookup", "begin", "upsert", "send", "done"}]
      /\ since \in [Requests -> Nat] /\ receipt \in [Requests -> [id : Nat, gen : Nat] \cup {None}]
      /\ clock \in Nat /\ clock' \in Nat /\ row \in [Emails -> Rows \cup {None}]
      /\ MaxWait \in Nat /\ EmailOf \in [Requests -> Emails]
      /\ MailsFit /\ MailsApart /\ WaitsBounded /\ NoticesFit
  BY SignupAssumption DEF Types, Kinds, RateInv
<1> DEFINE Quiet == /\ UNCHANGED <<nextId, accounts>>
                    /\ Sendings' \subseteq Sendings /\ clock' >= clock
                    /\ \A e \in Emails : row'[e] = row[e] \/ (row'[e] = None /\ row[e].expires <= clock)
<1>1. ASSUME Quiet PROVE MailsFit' /\ MailsApart'
  <2>1. \A i \in Nat : Confirmed(i) => Confirmed(i)'
    BY <1>1 DEF Confirmed
  <2> QED
    BY <1>0, <1>1, <2>1, QuietKeeps
<1>2. ASSUME UNCHANGED <<clock, since>>, \A q \in Requests : rpc'[q] = "upsert" => rpc[q] = "upsert"
      PROVE  WaitsBounded'
  BY <1>0, <1>2 DEF WaitsBounded
<1>3. ASSUME UNCHANGED notices PROVE NoticesFit'
  BY <1>0, <1>3 DEF NoticesFit
<1>4. CASE UNCHANGED <<clock, row, nextId, rpc, since, receipt, mails, accounts, notices>>
  <2>1. Quiet
    BY <1>0, <1>4, NoNewSending
  <2> QED
    BY <1>1, <1>2, <1>3, <1>4, <2>1 DEF RateInv
<1>5. ASSUME NEW r \in Requests, RequestNext(r) PROVE RateInv'
  <2>1. CASE DiscardExpired(r)
    <3>1. /\ UNCHANGED <<clock, nextId, since, receipt, mails, accounts, notices>>
          /\ rpc' = [rpc EXCEPT ![r] = "lookup"]
          /\ \A e \in Emails : row'[e] = row[e] \/ (row'[e] = None /\ row[e].expires <= clock)
      BY <2>1 DEF DiscardExpired, Expired, historyVars
    <3>2. Sendings' \subseteq Sendings /\ \A q \in Requests : rpc'[q] = "upsert" => rpc[q] = "upsert"
      BY <1>0, <3>1, NoNewSending
    <3> QED
      BY <1>0, <1>1, <1>2, <1>3, <3>1, <3>2 DEF RateInv
  <2>2. CASE DiscardFails(r) \/ RequestFails(r)
    <3>1. /\ UNCHANGED <<clock, row, nextId, since, receipt, mails, accounts, notices>>
          /\ \E s \in {"lookup", "done"} : rpc' = [rpc EXCEPT ![r] = s]
      BY <2>2 DEF DiscardFails, RequestFails, historyVars
    <3>2. Sendings' \subseteq Sendings /\ \A q \in Requests : rpc'[q] = "upsert" => rpc[q] = "upsert"
      BY <1>0, <3>1, NoNewSending
    <3> QED
      BY <1>0, <1>1, <1>2, <1>3, <3>1, <3>2 DEF RateInv
  <2>3. CASE LookUp(r)
    <3>1. /\ UNCHANGED <<clock, row, nextId, since, receipt, mails, accounts>>
          /\ \E s \in {"begin", "done"} : rpc' = [rpc EXCEPT ![r] = s]
          /\ \/ UNCHANGED notices
             \/ notices' = notices \cup
                    {[key |-> AlreadyRegisteredMailKey(EmailOf[r], clock), at |-> clock]}
      BY <2>3, LookUpEffect
    <3>2. Sendings' \subseteq Sendings /\ \A q \in Requests : rpc'[q] = "upsert" => rpc[q] = "upsert"
      BY <1>0, <3>1, NoNewSending
    <3>3. NoticesFit'
      BY <1>0, <3>1 DEF NoticesFit, AlreadyRegisteredMailKey
    <3> QED
      BY <1>0, <1>1, <1>2, <3>1, <3>2, <3>3 DEF RateInv
  <2>4. CASE BeginUpsert(r)
    <3>1. /\ UNCHANGED <<clock, row, nextId, receipt, mails, accounts, notices>>
          /\ rpc[r] = "begin" /\ rpc' = [rpc EXCEPT ![r] = "upsert"]
          /\ since' = [since EXCEPT ![r] = clock]
      BY <2>4 DEF BeginUpsert, historyVars
    <3>2. \A q \in Requests : rpc'[q] = "send" => rpc[q] = "send" /\ since'[q] = since[q]
      BY <1>0, <3>1
    <3>3. Sendings' \subseteq Sendings
      BY <3>1, <3>2, NoNewSending
    <3>4. WaitsBounded'
      BY <1>0, <3>1 DEF WaitsBounded
    <3> QED
      BY <1>0, <1>1, <1>3, <3>1, <3>3, <3>4 DEF RateInv
  <2>5. CASE Upsert(r) \/ UpsertAnswerLost(r)
    <3>1. UNCHANGED <<clock, since, mails, accounts, notices>> /\ rpc[r] = "upsert"
      BY <2>5 DEF Upsert, UpsertAnswerLost
    <3>2. CASE UNCHANGED <<row, latest, nextId, receipt>> /\ rpc' = [rpc EXCEPT ![r] = "done"]
      <4>1. Sendings' \subseteq Sendings /\ \A q \in Requests : rpc'[q] = "upsert" => rpc[q] = "upsert"
        BY <1>0, <3>1, <3>2, NoNewSending
      <4> QED
        BY <1>0, <1>1, <1>2, <1>3, <3>1, <3>2, <4>1 DEF RateInv
    <3>3. ASSUME NEW v, Accepts(r, v),
                 \/ UNCHANGED receipt /\ rpc' = [rpc EXCEPT ![r] = "done"]
                 \/ /\ receipt' = [receipt EXCEPT ![r] = [id |-> v.id, gen |-> v.gen]]
                    /\ rpc' = [rpc EXCEPT ![r] = "send"]
          PROVE  RateInv'
      <4>1. PICK y : y = [token |-> r, email |-> EmailOf[r], at |-> since[r], id |-> v.id, gen |-> v.gen]
        OBVIOUS
      <4>2. /\ y \in Mailings
            /\ y.email = EmailOf[r] /\ y.at = since[r] /\ y.id = v.id /\ y.gen = v.gen
        BY <1>0, <3>3, <4>1 DEF Accepts, Mailings, Rows
      <4>3. Outgoing(r)' = y \/ rpc'[r] # "send"
        BY <1>0, <3>1, <3>3, <4>1 DEF Outgoing
      <4>4. ASSUME NEW q \in Requests, q # r, rpc'[q] = "send"
            PROVE  Outgoing(q)' = Outgoing(q) /\ rpc[q] = "send"
        BY <1>0, <3>1, <3>3, <4>4 DEF Outgoing
      <4>5. Sendings' \subseteq Sendings \cup {y}
        BY <3>1, <4>3, <4>4 DEF Sendings
      <4>6. \A q \in Requests : rpc'[q] = "upsert" => rpc[q] = "upsert"
        BY <1>0, <3>3
      <4>7. MailsFit' /\ MailsApart'
        BY <3>1, <3>3, <4>2, <4>5, AcceptFits
      <4> QED
        BY <1>2, <1>3, <3>1, <4>6, <4>7 DEF RateInv
    <3>4. Kinds
      BY DEF Types
    <3> QED
      BY <2>5, <3>2, <3>3, <3>4, UpsertEffect
  <2>6. CASE Send(r)
    <3>1. /\ UNCHANGED <<clock, row, nextId, since, receipt, accounts, notices>>
          /\ rpc[r] = "send" /\ rpc' = [rpc EXCEPT ![r] = "done"]
          /\ mails' = mails \cup {Outgoing(r)}
      BY <2>6 DEF Send, Outgoing
    <3>2. \A q \in Requests : rpc'[q] = "send" => rpc[q] = "send" /\ Outgoing(q)' = Outgoing(q)
      BY <1>0, <3>1 DEF Outgoing
    <3>3. Sendings' \subseteq Sendings
      BY <3>1, <3>2 DEF Sendings
    <3>4. \A q \in Requests : rpc'[q] = "upsert" => rpc[q] = "upsert"
      BY <1>0, <3>1
    <3> QED
      BY <1>0, <1>1, <1>2, <1>3, <3>1, <3>3, <3>4 DEF RateInv
  <2> QED
    BY <1>5, <2>1, <2>2, <2>3, <2>4, <2>5, <2>6 DEF RequestNext
<1>6. ASSUME NEW o \in Openers, Discard(o) PROVE RateInv'
  <2>1. UNCHANGED <<clock, rpc, since, notices>>
    BY <1>6 DEF Discard, requestVars
  <2> QED
    BY <1>2, <1>3, <1>6, <2>1, DiscardFits DEF RateInv
<1>7. ASSUME NEW o \in Openers, OpenerNext(o), ~Discard(o) PROVE RateInv'
  BY <1>4, <1>7 DEF OpenerNext, Open, Lock, Read, NotFound, Create, EmailTaken, ConfirmFails,
     requestVars, historyVars
<1>8. ASSUME NEW e \in Emails, TakeAddress(e) \/ LeaveAddress(e) \/ Withdraw(e) PROVE RateInv'
  BY <1>4, <1>8 DEF TakeAddress, LeaveAddress, Withdraw, Change, requestVars, historyVars
<1>9. CASE Tick
  <2>1. /\ UNCHANGED <<row, nextId, rpc, since, receipt, mails, accounts, notices>>
        /\ clock' = clock + 1
        /\ \A r \in Requests : rpc[r] = "upsert" => clock < since[r] + MaxWait
    BY <1>9 DEF Tick, requestVars, historyVars
  <2>2. Sendings' \subseteq Sendings
    BY <2>1, NoNewSending
  <2>3. WaitsBounded'
    BY <1>0, <2>1 DEF WaitsBounded
  <2> QED
    BY <1>0, <1>1, <1>3, <2>1, <2>2, <2>3 DEF RateInv
<1>10. CASE UNCHANGED vars
  BY <1>4, <1>10 DEF vars, requestVars, historyVars
<1> QED
  BY <1>5, <1>6, <1>7, <1>8, <1>9, <1>10 DEF Next

\* Dividing rounds down.
LEMMA Windows ==
    ASSUME NEW a \in Nat, NEW b \in Nat, NEW R \in Nat \ {0}, a <= b, b < a + R
    PROVE  b \div R \in {a \div R, (a \div R) + 1}
<1> DEFINE p == a \div R
           q == b \div R
<1>1. /\ p \in Nat /\ R * p <= a /\ a < R * p + R
      /\ q \in Nat /\ R * q <= b /\ b < R * q + R
  OBVIOUS
<1> HIDE DEF p, q
<1>2. R * p < R * q + R /\ R * q < R * p + 2 * R
  BY <1>1
<1>3. p < q + 1 /\ q < p + 2
  BY <1>1, <1>2
<1> QED
  BY <1>1, <1>3 DEF p, q

\* In an interval the notices to an address have at most two keys.
LEMMA TwoKeys ==
    ASSUME Types, NoticesFit, NEW e \in Emails, NEW t \in Nat
    PROVE  Cardinality(NoticeKeys(e, t)) <= 2
<1>1. Resend \in Nat \ {0} /\ notices \subseteq Notices
  BY SignupAssumption DEF Types, Kinds
<1> DEFINE w == t \div Resend
           a == [email |-> e, window |-> w]
           b == [email |-> e, window |-> w + 1]
<1>2. NoticeKeys(e, t) \subseteq {a, b}
  <2>1. ASSUME NEW n \in notices, n.key.email = e, t <= n.at, n.at < t + Resend
        PROVE  n.key \in {a, b}
    <3>1. n.at \in Nat /\ n.key \in [email : Emails, window : Nat]
      BY <1>1 DEF Notices
    <3>2. n.key.window \in {w, w + 1}
      BY <1>1, <2>1, <3>1, Windows DEF NoticesFit
    <3> HIDE DEF w
    <3> QED
      BY <2>1, <3>1, <3>2
  <2> QED
    BY <2>1 DEF NoticeKeys
<1>3. IsFiniteSet({a, b}) /\ Cardinality({a, b}) <= 2
  <2>1. IsFiniteSet({a}) /\ Cardinality({a}) = 1
    BY FS_Singleton
  <2>2. /\ IsFiniteSet({a} \cup {b})
        /\ Cardinality({a} \cup {b}) <= 2
    BY <2>1, FS_AddElement
  <2>3. {a, b} = {a} \cup {b}
    OBVIOUS
  <2> QED
    BY <2>2, <2>3
<1> HIDE DEF a, b
<1>4. Cardinality(NoticeKeys(e, t)) <= Cardinality({a, b}) /\ Cardinality(NoticeKeys(e, t)) \in Nat
      /\ Cardinality({a, b}) \in Nat
  BY <1>2, <1>3, FS_Subset, FS_CardinalityType
<1> QED
  BY <1>3, <1>4

\* Mails to an address keep the interval unless a confirmation came between,
\* one idempotency key carries one link, and notices have at most two keys in an
\* interval, for any interval, wait and time to live that fit together.
THEOREM MailRate == Spec => []RateKept
<1>1. Init => RateInv
  <2>1. Init => Sendings = {}
    BY DEF Init, Sendings
  <2> QED
    BY <2>1 DEF Init, RateInv, MailsFit, MailsApart, WaitsBounded, NoticesFit
<1>2. ASSUME Types, RateInv PROVE RateKept
  <2>1. mails \subseteq Sendings
    BY DEF Sendings
  <2>2. ASSUME NEW m \in mails, NEW n \in mails
        PROVE  /\ TooClose(m, n) => \E i \in DOMAIN accounts : accounts[i].id \in {m.id, n.id}
               /\ (m.id = n.id /\ m.gen = n.gen) => m = n
    BY <1>2, <2>1, <2>2 DEF RateInv, MailsApart, Confirmed
  <2>3. \A n \in notices : n.key.email \in Emails /\ n.at \in Nat
    BY <1>2 DEF Types, Kinds, Notices
  <2>4. \A n \in notices : Cardinality(NoticeKeys(n.key.email, n.at)) <= 2
    BY <1>2, <2>3, TwoKeys DEF RateInv
  <2> QED
    BY <2>2, <2>4 DEF RateKept
<1>3. Types /\ SignupInv /\ RateInv /\ [Next]_vars => RateInv'
  BY RateNext
<1> QED
  BY <1>1, <1>2, <1>3, TypesInit, SignupInvInit, TypesNext, SignupInvNext, PTL DEF Spec
=============================================================================
