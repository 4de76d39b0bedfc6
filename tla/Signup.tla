-------------------------------- MODULE Signup --------------------------------
(***************************************************************************)
(* Signing up with a confirmation mail.  A request looks for an account,   *)
(* stores the pending signup of its address, replacing the one before      *)
(* unless a mail went out a moment ago, and hands over a mail with a link. *)
(* Opening a link locks the pending signup, reads it, creates the account  *)
(* and deletes the pending signup, in one transaction.                     *)
(*                                                                         *)
(* A request stands for what it brings: the name and password it asks for  *)
(* and the token it draws, which nobody else draws.                        *)
(***************************************************************************)
EXTENDS Naturals, Sequences, FiniteSets

CONSTANTS
    Requests,
    Openers,      \* handlers of opened links
    Emails,       \* addresses, in lower case
    EmailOf,      \* [Requests -> Emails]
    Resend,       \* SignupResendInterval
    TTL,          \* SignupTokenTTL
    MaxClock,     \* bound: time of a behaviour
    MaxWait,      \* bound: how long the upsert may wait for a lock
    MaxOpens,     \* bound: links opened
    MaxChanges,   \* bound: accounts changed by other parts of the system
    MaxFaults,    \* bound: errors and crashes
    None

\* The rows of signup_verifications, known by their address.
Rows ==
    [id : Nat, gen : Nat, token : Requests, by : Requests, sent : Nat, expires : Nat]

ASSUME SignupAssumption ==
    /\ EmailOf \in [Requests -> Emails]
    /\ Resend \in Nat \ {0}
    /\ TTL \in Nat
    /\ MaxClock \in Nat
    /\ MaxWait \in Nat
    /\ Resend + MaxWait < TTL
    /\ MaxOpens \in Nat
    /\ MaxChanges \in Nat
    /\ MaxFaults \in Nat
    /\ None \notin Requests \cup Emails
    /\ None \notin Rows
    /\ None \notin [id : Nat, gen : Nat]

VARIABLES
    clock,
    row,       \* signup_verifications, by address
    nextId,    \* of a row
    users,     \* by address: free, or the state of the account that has it
    rpc, since, receipt,           \* requests: step, now() of the upsert, its answer
    cpc, link, began, held, pend,  \* openers: step, token, now(), locked row, what was read
    latest,    \* history: by address, the request accepted last
    mails,     \* history: confirmation mails handed over
    accounts,  \* history: accounts made by links, in order
    notices,   \* history: notices to addresses that have an account
    opens, changes, faults

requestVars == <<rpc, since, receipt>>
openerVars  == <<cpc, link, began, held, pend>>
historyVars == <<latest, mails, accounts, notices>>
vars == <<clock, row, nextId, users, requestVars, openerVars, historyVars,
          opens, changes, faults>>

Init ==
    /\ clock = 0
    /\ row = [e \in Emails |-> None]
    /\ nextId = 0
    /\ users = [e \in Emails |-> "free"]
    /\ rpc = [r \in Requests |-> "start"]
    /\ since = [r \in Requests |-> 0]
    /\ receipt = [r \in Requests |-> None]
    /\ cpc = [o \in Openers |-> "idle"]
    /\ link = [o \in Openers |-> None]
    /\ began = [o \in Openers |-> 0]
    /\ held = [o \in Openers |-> None]
    /\ pend = [o \in Openers |-> None]
    /\ latest = [e \in Emails |-> None]
    /\ mails = {}
    /\ accounts = <<>>
    /\ notices = {}
    /\ opens = 0 /\ changes = 0 /\ faults = 0

Fault ==
    /\ faults < MaxFaults
    /\ faults' = faults + 1

\* Mutant of Locked: the confirmation does not lock the row it reads.
MutLocked(e) == FALSE

\* A confirmation has locked the row, from its first statement to its end.
Locked(e) == \E o \in Openers : held[o] = e

-----------------------------------------------------------------------------
(* Signups.Request                                                         *)

\* Mutant of Expired: a pending signup lives as long as a mail may not be
\* sent again.
MutExpired(e) == row[e].sent + Resend <= clock

Expired(e) == row[e].expires <= clock

\* discardExpired: as many as its limit allows, and none that is locked by a
\* confirmation or another clean-up.
DiscardExpired(r) ==
    /\ rpc[r] = "start"
    /\ \E gone \in SUBSET {e \in Emails : row[e] # None /\ ~Locked(e) /\ Expired(e)} :
          row' = [e \in Emails |-> IF e \in gone THEN None ELSE row[e]]
    /\ rpc' = [rpc EXCEPT ![r] = "lookup"]
    /\ UNCHANGED <<clock, nextId, users, since, receipt, openerVars, historyVars,
                   opens, changes, faults>>

\* A failed clean-up is logged and makes no difference.
DiscardFails(r) ==
    /\ rpc[r] = "start"
    /\ Fault
    /\ rpc' = [rpc EXCEPT ![r] = "lookup"]
    /\ UNCHANGED <<clock, row, nextId, users, since, receipt, openerVars, historyVars,
                   opens, changes>>

\* Notices to an address in one window of time have one key.
AlreadyRegisteredMailKey(e, at) == [email |-> e, window |-> at \div Resend]

\* An address with an active account gets a notice, and nothing is stored.
Notify(r) ==
    /\ users[EmailOf[r]] = "active"
    /\ notices' = notices \cup
           {[key |-> AlreadyRegisteredMailKey(EmailOf[r], clock), at |-> clock]}
    /\ rpc' = [rpc EXCEPT ![r] = "done"]

\* The account of a withdrawn user is not found.
LookUp(r) ==
    /\ rpc[r] = "lookup"
    /\ \/ Notify(r)
       \/ /\ users[EmailOf[r]] # "active"
          /\ rpc' = [rpc EXCEPT ![r] = "begin"]
          /\ UNCHANGED notices
    /\ UNCHANGED <<clock, row, nextId, users, since, receipt, openerVars,
                   latest, mails, accounts, opens, changes, faults>>

\* The upsert's now() is the time it begins.
BeginUpsert(r) ==
    /\ rpc[r] = "begin"
    /\ since' = [since EXCEPT ![r] = clock]
    /\ rpc' = [rpc EXCEPT ![r] = "upsert"]
    /\ UNCHANGED <<clock, row, nextId, users, receipt, openerVars, historyVars,
                   opens, changes, faults>>

\* Mutant of TooSoon: the interval counts for mails of the same moment only.
MutTooSoon(r) == row[EmailOf[r]].sent >= since[r]

TooSoon(r) == row[EmailOf[r]].sent + Resend > since[r]

\* Mutants of Replaced: an update keeps the name and the password; it keeps the
\* token; it keeps the expiry.
MutReplacedInput(r) ==
    [row[EmailOf[r]] EXCEPT !.gen = @ + 1, !.token = r, !.sent = since[r],
                            !.expires = since[r] + TTL]
MutReplacedToken(r) ==
    [row[EmailOf[r]] EXCEPT !.gen = @ + 1, !.by = r, !.sent = since[r],
                            !.expires = since[r] + TTL]
MutReplacedTime(r) ==
    [row[EmailOf[r]] EXCEPT !.gen = @ + 1, !.by = r, !.token = r, !.sent = since[r]]

\* ON CONFLICT ... DO UPDATE
Replaced(r) ==
    [id |-> row[EmailOf[r]].id, gen |-> row[EmailOf[r]].gen + 1, token |-> r, by |-> r,
     sent |-> since[r], expires |-> since[r] + TTL]

Inserted(r) ==
    [id |-> nextId, gen |-> 1, token |-> r, by |-> r,
     sent |-> since[r], expires |-> since[r] + TTL]

\* The upsert stores v and counts as the newest signup of its address.
Store(r, v) ==
    /\ row' = [row EXCEPT ![EmailOf[r]] = v]
    /\ latest' = [latest EXCEPT ![EmailOf[r]] = r]

StoreNew(r) == Store(r, Inserted(r)) /\ nextId' = nextId + 1

StoreAgain(r) == Store(r, Replaced(r)) /\ UNCHANGED nextId

\* UpsertSignupVerification, one statement that waits for a row that is locked
\* and then looks at what has become of it.
Upsert(r) ==
    LET e == EmailOf[r] IN
    /\ rpc[r] = "upsert"
    /\ ~Locked(e)
    /\ \/ /\ row[e] = None
          /\ StoreNew(r)
          /\ receipt' = [receipt EXCEPT ![r] = [id |-> nextId, gen |-> 1]]
          /\ rpc' = [rpc EXCEPT ![r] = "send"]
       \/ /\ row[e] # None /\ ~TooSoon(r)
          /\ StoreAgain(r)
          /\ receipt' = [receipt EXCEPT ![r] = [id |-> row[e].id, gen |-> Replaced(r).gen]]
          /\ rpc' = [rpc EXCEPT ![r] = "send"]
       \/ /\ row[e] # None /\ TooSoon(r)
          /\ rpc' = [rpc EXCEPT ![r] = "done"]
          /\ UNCHANGED <<row, nextId, latest, receipt>>
    /\ UNCHANGED <<clock, users, since, openerVars, mails, accounts, notices,
                   opens, changes, faults>>

\* The upsert took effect, and its answer is lost: no mail.
UpsertAnswerLost(r) ==
    LET e == EmailOf[r] IN
    /\ rpc[r] = "upsert"
    /\ ~Locked(e)
    /\ Fault
    /\ \/ row[e] = None /\ StoreNew(r)
       \/ row[e] # None /\ ~TooSoon(r) /\ StoreAgain(r)
    /\ rpc' = [rpc EXCEPT ![r] = "done"]
    /\ UNCHANGED <<clock, users, since, receipt, openerVars, mails, accounts, notices,
                   opens, changes>>

\* mailer.SendSignupConfirmation, which cannot fail here.
Send(r) ==
    /\ rpc[r] = "send"
    /\ mails' = mails \cup {[token |-> r, email |-> EmailOf[r], at |-> since[r],
                             id |-> receipt[r].id, gen |-> receipt[r].gen]}
    /\ rpc' = [rpc EXCEPT ![r] = "done"]
    /\ UNCHANGED <<clock, row, nextId, users, since, receipt, openerVars, latest, accounts,
                   notices, opens, changes, faults>>

\* An error, or the process dies: the request goes no further.
RequestFails(r) ==
    /\ rpc[r] \in {"lookup", "begin", "upsert", "send"}
    /\ Fault
    /\ rpc' = [rpc EXCEPT ![r] = "done"]
    /\ UNCHANGED <<clock, row, nextId, users, since, receipt, openerVars, historyVars,
                   opens, changes>>

-----------------------------------------------------------------------------
(* Signups.Confirm                                                         *)

\* Somebody opens a link that was mailed; now() of the transaction is fixed.
Open(o, r) ==
    /\ cpc[o] = "idle"
    /\ opens < MaxOpens
    /\ opens' = opens + 1
    /\ \E m \in mails : m.token = r
    /\ link' = [link EXCEPT ![o] = r]
    /\ began' = [began EXCEPT ![o] = clock]
    /\ cpc' = [cpc EXCEPT ![o] = "lock"]
    /\ UNCHANGED <<clock, row, nextId, users, requestVars, held, pend, historyVars,
                   changes, faults>>

\* WHERE token_hash = $1 AND expires_at > now()
Found(o, e) ==
    row[e] # None /\ row[e].token = link[o] /\ row[e].expires > began[o]

\* The transaction ends, and with it its lock.
End(o) ==
    /\ cpc' = [cpc EXCEPT ![o] = "idle"]
    /\ link' = [link EXCEPT ![o] = None]
    /\ held' = [held EXCEPT ![o] = None]
    /\ pend' = [pend EXCEPT ![o] = None]
    /\ began' = [began EXCEPT ![o] = 0]

\* SELECT ... FOR UPDATE, which waits for the one who has the row.
Lock(o) ==
    \E e \in Emails :
        /\ cpc[o] = "lock"
        /\ Found(o, e)
        /\ ~Locked(e)
        /\ held' = [held EXCEPT ![o] = e]
        /\ cpc' = [cpc EXCEPT ![o] = "read"]
        /\ UNCHANGED <<clock, row, nextId, users, requestVars, link, began, pend,
                       historyVars, opens, changes, faults>>

Read(o) ==
    /\ cpc[o] = "read"
    /\ Found(o, held[o])
    /\ pend' = [pend EXCEPT ![o] = row[held[o]]]
    /\ cpc' = [cpc EXCEPT ![o] = "create"]
    /\ UNCHANGED <<clock, row, nextId, users, requestVars, link, began, held,
                   historyVars, opens, changes, faults>>

\* ErrSignupTokenInvalid: unknown, expired, used or replaced.
NotFound(o) ==
    /\ cpc[o] \in {"lock", "read"}
    /\ \A e \in Emails : ~Found(o, e)
    /\ End(o)
    /\ UNCHANGED <<clock, row, nextId, users, requestVars, historyVars, opens, changes, faults>>

\* Users.Create: addresses are unique, those of withdrawn users included.
Create(o) ==
    /\ cpc[o] = "create"
    /\ users[held[o]] = "free"
    /\ cpc' = [cpc EXCEPT ![o] = "discard"]
    /\ UNCHANGED <<clock, row, nextId, users, requestVars, link, began, held, pend,
                   historyVars, opens, changes, faults>>

\* ErrEmailTaken, told like an invalid link.
EmailTaken(o) ==
    /\ cpc[o] = "create"
    /\ users[held[o]] # "free"
    /\ End(o)
    /\ UNCHANGED <<clock, row, nextId, users, requestVars, historyVars, opens, changes, faults>>

\* The pending signup is deleted by its id, and the transaction commits.
Discard(o) ==
    /\ cpc[o] = "discard"
    /\ row' = [e \in Emails |->
                 IF row[e] # None /\ row[e].id = pend[o].id THEN None ELSE row[e]]
    /\ users' = [users EXCEPT ![held[o]] = "active"]
    /\ accounts' = Append(accounts, [token |-> link[o], email |-> held[o],
                                     by |-> pend[o].by, id |-> pend[o].id])
    /\ End(o)
    /\ UNCHANGED <<clock, nextId, requestVars, latest, mails, notices, opens, changes, faults>>

\* An error, a cancellation or a crash: everything is taken back.
ConfirmFails(o) ==
    /\ cpc[o] # "idle"
    /\ Fault
    /\ End(o)
    /\ UNCHANGED <<clock, row, nextId, users, requestVars, historyVars, opens, changes>>

-----------------------------------------------------------------------------
(* What other parts do to accounts, and time.                              *)

\* A confirmation has inserted the account of e and not committed yet.
Creating(e) == \E o \in Openers : cpc[o] = "discard" /\ held[o] = e

Change(e, s) ==
    /\ changes < MaxChanges
    /\ changes' = changes + 1
    /\ users' = [users EXCEPT ![e] = s]
    /\ UNCHANGED <<clock, row, nextId, requestVars, openerVars, historyVars, opens, faults>>

\* A first sign-in with Google, or a user who changes to this address.
TakeAddress(e) == users[e] = "free" /\ ~Creating(e) /\ Change(e, "active")

\* The user changes to another address.
LeaveAddress(e) == users[e] = "active" /\ Change(e, "free")

\* Withdrawal keeps the address taken.
Withdraw(e) == users[e] = "active" /\ Change(e, "withdrawn")

Tick ==
    /\ clock < MaxClock
    /\ \A r \in Requests : rpc[r] = "upsert" => clock < since[r] + MaxWait
    /\ clock' = clock + 1
    /\ UNCHANGED <<row, nextId, users, requestVars, openerVars, historyVars,
                   opens, changes, faults>>

-----------------------------------------------------------------------------
RequestNext(r) ==
    \/ DiscardExpired(r) \/ DiscardFails(r) \/ LookUp(r) \/ BeginUpsert(r)
    \/ Upsert(r) \/ UpsertAnswerLost(r) \/ Send(r) \/ RequestFails(r)

OpenerNext(o) ==
    \/ \E r \in Requests : Open(o, r)
    \/ Lock(o) \/ Read(o) \/ NotFound(o) \/ Create(o) \/ EmailTaken(o) \/ Discard(o)
    \/ ConfirmFails(o)

Next ==
    \/ \E r \in Requests : RequestNext(r)
    \/ \E o \in Openers : OpenerNext(o)
    \/ \E e \in Emails : TakeAddress(e) \/ LeaveAddress(e) \/ Withdraw(e)
    \/ Tick

Spec == Init /\ [][Next]_vars

-----------------------------------------------------------------------------
(* Properties                                                              *)

\* The types; an opener holds a row and what it read exactly as long as its
\* step says, and a row lives TTL from its last mail.
TypeOK ==
    /\ clock \in Nat /\ nextId \in Nat
    /\ row \in [Emails -> Rows \cup {None}]
    /\ users \in [Emails -> {"free", "active", "withdrawn"}]
    /\ rpc \in [Requests -> {"start", "lookup", "begin", "upsert", "send", "done"}]
    /\ since \in [Requests -> Nat]
    /\ receipt \in [Requests -> [id : Nat, gen : Nat] \cup {None}]
    /\ cpc \in [Openers -> {"idle", "lock", "read", "create", "discard"}]
    /\ link \in [Openers -> Requests \cup {None}]
    /\ began \in [Openers -> Nat]
    /\ held \in [Openers -> Emails \cup {None}]
    /\ pend \in [Openers -> Rows \cup {None}]
    /\ latest \in [Emails -> Requests \cup {None}]
    /\ mails \subseteq [token : Requests, email : Emails, at : Nat, id : Nat, gen : Nat]
    /\ accounts \in Seq([token : Requests, email : Emails, by : Requests, id : Nat])
    /\ notices \subseteq [key : [email : Emails, window : Nat], at : Nat]
    /\ opens \in Nat /\ changes \in Nat /\ faults \in Nat
    /\ \A o \in Openers : /\ link[o] = None <=> cpc[o] = "idle"
                          /\ held[o] = None <=> cpc[o] \in {"idle", "lock"}
                          /\ pend[o] = None <=> cpc[o] \in {"idle", "lock", "read"}
    /\ \A e \in Emails : row[e] # None => row[e].expires = row[e].sent + TTL

\* An account has the name, the password and the address of the request whose
\* mail carried the opened link, however often the pending signup is replaced
\* (Signups.Confirm).
AccountAsMailed ==
    \A n \in DOMAIN accounts :
        LET a == accounts[n] IN
        /\ a.by = a.token
        /\ a.email = EmailOf[a.token]
        /\ \E m \in mails : m.token = a.token

\* A link makes one account, also when it is opened by two at once and its
\* address becomes free again.
OneAccountPerLink ==
    \A m, n \in DOMAIN accounts : accounts[m].token = accounts[n].token => m = n

\* Only the newest link of an address makes an account: one that was replaced
\* is dead, also for a confirmation that is on its way.
NewestLinkOnly ==
    [][\A n \in DOMAIN accounts' \ DOMAIN accounts :
          accounts'[n].token = latest[accounts'[n].email]]_vars

Used(r) == \E n \in DOMAIN accounts : accounts[n].token = r

\* And the newest link is alive until it is used or expires: neither a
\* clean-up nor the confirmation of an older link takes its row away.
NewestLinkAlive ==
    \A e \in Emails :
        latest[e] # None /\ ~Used(latest[e]) /\ clock < since[latest[e]] + TTL
            => row[e] # None /\ row[e].token = latest[e]

TooClose(m, n) ==
    m # n /\ m.email = n.email /\ m.at <= n.at /\ n.at < m.at + Resend

\* The keys of the notices to e from t on, for an interval.
NoticeKeys(e, t) ==
    {n.key : n \in {k \in notices : k.key.email = e /\ t <= k.at /\ k.at < t + Resend}}

\* Two mails to one address keep the interval, unless one of the two pending
\* signups was confirmed; mails with one idempotency key carry one link, so
\* what the mailer drops as a repetition is one (SignupConfirmationMailKey);
\* and who has an account is not sent more than two notices in any interval
\* (AlreadyRegisteredMailKey).
RateKept ==
    /\ \A m, n \in mails :
          /\ TooClose(m, n) =>
                 \E i \in DOMAIN accounts : accounts[i].id \in {m.id, n.id}
          /\ (m.id = n.id /\ m.gen = n.gen) => m = n
    /\ \A n \in notices : Cardinality(NoticeKeys(n.key.email, n.at)) <= 2

\* "As the check and the write are one statement, concurrent signups do not
\* break the interval either" (signup_verifications.sql): two mails to one
\* address keep it.
IntervalKept == \A m, n \in mails : ~TooClose(m, n)
=============================================================================
