------------------------------ MODULE Accounts ------------------------------
(***************************************************************************)
(* Accounts and the ways to sign in to them.  A user has a password, or a   *)
(* link to an account (a subject) of the identity provider, or both.  A     *)
(* browser starts a flow, comes back from the provider with a verified      *)
(* subject, and the callback signs in, registers or links a user; what was  *)
(* decided waits behind a handoff code, which the browser that ended the    *)
(* flow redeems once.  Meanwhile users log in, change their profile, unlink *)
(* their subject and withdraw.  A request is a sequence of statements, some *)
(* in a transaction; each needs a connection of a pool, and a transaction   *)
(* keeps its connection, while it waits for a row of another one, too.      *)
(***************************************************************************)
EXTENDS Naturals, FiniteSets

CONSTANTS
    Users, Subjects, Mails, Browsers, Flows, Codes,
    Requests,     \* requests that run at the same time
    Registered,   \* users with a password at the start
    MailOf,       \* [Registered -> Mails]
    PoolSize,     \* connections of the pool
    MaxRequests,  \* bound: requests with several steps in a behaviour
    MaxFaults,    \* bound: errors, crashes and lost answers
    None

ASSUME AccountsAssumption ==
    /\ Registered \subseteq Users
    /\ MailOf \in [Registered -> Mails]
    /\ \A u, v \in Registered : MailOf[u] = MailOf[v] => u = v
    /\ Cardinality(Registered) + Cardinality(Codes) <= Cardinality(Users)
    /\ IsFiniteSet(Requests) /\ PoolSize \in Nat \ {0}
    /\ MaxRequests \in Nat /\ MaxFaults \in Nat
    /\ None \notin Users \cup Subjects \cup Mails \cup Browsers \cup Flows \cup Codes

VARIABLES
    user,      \* rows of users
    link,      \* rows of user_identities: the user of a subject
    handoff,   \* rows of login_handoffs
    flow,      \* flows and their sealed cookies
    binder,    \* binder cookies of each browser
    session,   \* the user whose token a browser holds
    req,       \* running requests
    proved,    \* history: users whose password or subject a browser showed
    answered,  \* history: how often a code was answered with a token
    started, faults

rows    == <<user, link, handoff>>
cookies == <<flow, binder, session>>
history == <<proved, answered>>
bounds  == <<started, faults>>
vars    == <<rows, cookies, req, history, bounds>>

Outcomes == {"signed_in", "linked", "account_exists", "identity_taken", "already_linked", "failed"}

NoRequest == [pc |-> "idle", b |-> None, f |-> None, user |-> None, sub |-> None,
              mail |-> None, code |-> None, out |-> "none", flag |-> FALSE]

\* A row of login_handoffs that is no longer there.
Deleted == [at |-> "gone", out |-> "none", user |-> None, browser |-> None]

Init ==
    /\ user = [u \in Users |-> IF u \in Registered
                               THEN [at |-> "active", mail |-> MailOf[u], pw |-> TRUE]
                               ELSE [at |-> "none", mail |-> None, pw |-> FALSE]]
    /\ link = [g \in Subjects |-> None]
    /\ handoff = [c \in Codes |-> [Deleted EXCEPT !.at = "free"]]
    /\ flow = [f \in Flows |-> [at |-> "new", browser |-> None, linker |-> None, spent |-> FALSE]]
    /\ binder = [b \in Browsers |-> {}]
    /\ session = [b \in Browsers |-> None]
    /\ req = [r \in Requests |-> NoRequest]
    /\ proved = [b \in Browsers |-> {}]
    /\ answered = [c \in Codes |-> 0]
    /\ started = 0
    /\ faults = 0

-----------------------------------------------------------------------------
(* The pool.                                                                *)

InTransaction == {"createUser", "createIdentity", "commitNew", "linkInsert", "lock",
                  "redeemUser", "redeemCommit", "discard", "discardLinks", "commitGone"}

Connected(r) == req[r].pc \in InTransaction

\* A connection is free: a statement of its own runs, a transaction begins.
Connection == Cardinality({r \in Requests : Connected(r)}) < PoolSize

\* Request r goes on at pc, everything else it keeps.
Goto(r, pc) == req' = [req EXCEPT ![r].pc = pc]

Done(r) == req' = [req EXCEPT ![r] = NoRequest]

\* Results that come with a user.
NeedsUser(out) == out \in {"signed_in", "linked"}

\* Mutant of Decide: the user is kept whatever the result.
MutDecide(r, out) ==
    req' = [req EXCEPT ![r].pc = "issue", ![r].out = out, ![r].sub = None, ![r].mail = None]

\* A callback has its result; the user stays only where it names one.
Decide(r, out) ==
    req' = [req EXCEPT ![r].pc = "issue", ![r].out = out, ![r].sub = None, ![r].mail = None,
                       ![r].user = IF NeedsUser(out) THEN @ ELSE None]

Arrive(r, q) ==
    /\ req[r].pc = "idle"
    /\ started < MaxRequests
    /\ started' = started + 1
    /\ req' = [req EXCEPT ![r] = q]

-----------------------------------------------------------------------------
(* Rows.                                                                    *)

\* WHERE id = $1 AND discarded_at IS NULL
GetActiveUserByID(u) == u # None /\ user[u].at = "active"

\* A token: signed for a user when it is issued, and good for that user.
IssueToken(b, u) == session' = [session EXCEPT ![b] = u]
Verify(b) == session[b]

\* AuthenticateToken: the user of the token, while active.
Viewer(b) == IF GetActiveUserByID(Verify(b)) THEN Verify(b) ELSE None
RequireAuth(b) == Viewer(b) # None

\* Rows of transactions that have not committed: a new user with its link, and
\* the row that a withdrawal has updated.
NewRow(r)  == req[r].pc \in {"createIdentity", "commitNew"}
GoneRow(r) == req[r].pc \in {"discardLinks", "commitGone"}

\* users_email_key covers withdrawn users, too; an uncommitted row makes wait.
EmailTaken(m) == \E u \in Users : user[u].at # "none" /\ user[u].mail = m
HoldsEmail(s, m) == NewRow(s) /\ req[s].mail = m
EmailHeld(r, m) == \E s \in Requests \ {r} : HoldsEmail(s, m)

\* The two unique keys of user_identities: one user per subject, one subject
\* per user (there is one provider).
IdentityTaken(g) == link[g] # None
ListIdentitiesByUser(u) == {g \in Subjects : link[g] = u}
AlreadyLinked(u) == ListIdentitiesByUser(u) # {}

\* Inserted or deleted in a transaction that has not committed.
HoldsIdentity(s, g, u) ==
    \/ req[s].pc \in {"commitNew", "commitGone"} /\ req[s].sub = g
    \/ req[s].pc = "commitGone" /\ req[s].user = u /\ req[s].sub # None
IdentityHeld(r, g, u) == \E s \in Requests \ {r} : HoldsIdentity(s, g, u)

HoldsUser(s, u) == GoneRow(s) /\ req[s].user = u
UserHeld(r, u) == \E s \in Requests \ {r} : HoldsUser(s, u)

HoldsHandoff(s, c) == req[s].pc \in {"redeemUser", "redeemCommit"} /\ req[s].code = c
HandoffHeld(r, c) == \E s \in Requests \ {r} : HoldsHandoff(s, c)

-----------------------------------------------------------------------------
(* Starting a flow.                                                         *)

\* The cookie of a flow: sealed, for this browser, with the user to link.
Sealed(b, linker) == [at |-> "open", browser |-> b, linker |-> linker, spent |-> FALSE]

\* provider.Begin makes the state of a new flow.
Begin(b, f, linker) ==
    /\ flow[f].at = "new"
    /\ flow' = [flow EXCEPT ![f] = Sealed(b, linker)]
    /\ UNCHANGED <<rows, binder, session, req, history, bounds>>

HandleStart(b, f) == Begin(b, f, None)

\* Behind RequireAuth: the user to link is the one who asks.
HandleLinkStart(b, f) == RequireAuth(b) /\ Begin(b, f, Viewer(b))

\* The browser has no cookie of this flow any more.
Closed(fl) == [fl EXCEPT !.at = "closed", !.browser = None, !.linker = None]

\* The sealed entry is past its time.
FlowExpires(f) ==
    /\ flow[f].at = "open"
    /\ flow' = [flow EXCEPT ![f] = Closed(@)]
    /\ UNCHANGED <<rows, binder, session, req, history, bounds>>

-----------------------------------------------------------------------------
(* The callback.                                                            *)

Callbacks == {r \in Requests : req[r].f # None}

\* The cookie of the flow that the callback names is there, and in its time.
Take(f) == flow[f].at = "open"

\* Only the browser with the cookie of this flow gets here; any other callback
\* stores nothing.  The cookie goes with the answer, so it may be sent twice.
HandleCallback(r, f) ==
    /\ Take(f)
    /\ Cardinality(Callbacks) < Cardinality({c \in Codes : handoff[c].at = "free"})
    /\ Arrive(r, [NoRequest EXCEPT !.pc = "resolve", !.b = flow[f].browser, !.f = f, !.user = flow[f].linker])
    /\ UNCHANGED <<rows, cookies, history, faults>>

\* The provider reports an error, the exchange fails, or Validate refuses the
\* identity (no verified address).
Refuse(r) ==
    /\ req[r].pc = "resolve"
    /\ Decide(r, "failed")
    /\ UNCHANGED <<rows, cookies, history, bounds>>

\* provider.Complete: the provider takes an authorization code once.
Exchange(r, g, m) ==
    /\ req[r].pc = "resolve"
    /\ ~flow[req[r].f].spent
    /\ flow' = [flow EXCEPT ![req[r].f].spent = TRUE]
    /\ req' = [req EXCEPT ![r].pc = IF req[r].user = None THEN "lookup" ELSE "linkUser",
                          ![r].sub = g, ![r].mail = m]
    /\ UNCHANGED <<rows, binder, session, history, bounds>>

\* signInLinked, first read: before the user is created, and once more when
\* creating one met a row of someone else.
SignInLinked(r) ==
    /\ req[r].pc \in {"lookup", "lookupAgain"}
    /\ Connection
    /\ IF IdentityTaken(req[r].sub)
       THEN req' = [req EXCEPT ![r].pc = "linkedUser", ![r].user = link[req[r].sub]]
       ELSE IF req[r].pc = "lookup" THEN Goto(r, "beginNew") ELSE Decide(r, req[r].out)
    /\ UNCHANGED <<rows, cookies, history, bounds>>

\* signInLinked, second read: a withdrawn user is not signed in.
SignInUser(r) ==
    /\ req[r].pc = "linkedUser"
    /\ Connection
    /\ Decide(r, IF GetActiveUserByID(req[r].user) THEN "signed_in" ELSE "failed")
    /\ UNCHANGED <<rows, cookies, history, bounds>>

BeginNew(r) ==
    /\ req[r].pc = "beginNew"
    /\ Connection
    /\ Goto(r, "createUser")
    /\ UNCHANGED <<rows, cookies, history, bounds>>

\* Mutant of Lost: the loser of the race is told what it met.
MutLost(r, out) == Decide(r, out)

\* A unique key was violated: roll back, look for the link again, and keep what
\* to answer if there is none.
Lost(r, out) == req' = [req EXCEPT ![r].pc = "lookupAgain", ![r].out = out, ![r].user = None]

\* The first statement; the address may be taken.
CreateUser(r) ==
    /\ req[r].pc = "createUser"
    /\ ~EmailHeld(r, req[r].mail)
    /\ IF EmailTaken(req[r].mail)
       THEN Lost(r, "account_exists")
       ELSE \E u \in Users :
                /\ user[u].at = "none"
                /\ \A s \in Requests : NewRow(s) => req[s].user # u
                /\ req' = [req EXCEPT ![r].pc = "createIdentity", ![r].user = u]
    /\ UNCHANGED <<rows, cookies, history, bounds>>

\* INSERT INTO user_identities in the same transaction.
CreateIdentity(r) ==
    /\ req[r].pc = "createIdentity"
    /\ ~IdentityHeld(r, req[r].sub, req[r].user)
    /\ IF IdentityTaken(req[r].sub) THEN Lost(r, "failed") ELSE Goto(r, "commitNew")
    /\ UNCHANGED <<rows, cookies, history, bounds>>

\* INSERT INTO users: from the provider, so without a password.
UserRow(m) == [at |-> "active", mail |-> m, pw |-> FALSE]

\* INSERT INTO user_identities
InsertIdentity(g, u) == link' = [link EXCEPT ![g] = u]

\* The user and the link appear together.
StoreNew(r) ==
    /\ user' = [user EXCEPT ![req[r].user] = UserRow(req[r].mail)]
    /\ InsertIdentity(req[r].sub, req[r].user)
    /\ UNCHANGED handoff

CommitNew(r) ==
    /\ req[r].pc = "commitNew"
    /\ StoreNew(r)
    /\ Decide(r, "signed_in")
    /\ UNCHANGED <<cookies, history, bounds>>

-----------------------------------------------------------------------------
(* Linking, by statements of their own.                                     *)

LinkUser(r) ==
    /\ req[r].pc = "linkUser"
    /\ Connection
    /\ IF GetActiveUserByID(req[r].user) THEN Goto(r, "linkRead") ELSE Decide(r, "failed")
    /\ UNCHANGED <<rows, cookies, history, bounds>>

LinkRead(r) ==
    /\ req[r].pc = "linkRead"
    /\ Connection
    /\ \/ link[req[r].sub] = None /\ Goto(r, "linkInsert")
       \/ link[req[r].sub] = req[r].user /\ Decide(r, "linked")
       \/ link[req[r].sub] \notin {None, req[r].user} /\ Decide(r, "identity_taken")
    /\ UNCHANGED <<rows, cookies, history, bounds>>

LinkInsert(r) ==
    /\ req[r].pc = "linkInsert"
    /\ ~IdentityHeld(r, req[r].sub, req[r].user)
    /\ \/ /\ ~IdentityTaken(req[r].sub) /\ ~AlreadyLinked(req[r].user)
          /\ InsertIdentity(req[r].sub, req[r].user)
          /\ Decide(r, "linked")
       \/ IdentityTaken(req[r].sub) /\ Decide(r, "identity_taken") /\ UNCHANGED link
       \/ AlreadyLinked(req[r].user) /\ Decide(r, "already_linked") /\ UNCHANGED link
    /\ UNCHANGED <<user, handoff, cookies, history, bounds>>

-----------------------------------------------------------------------------
(* Handing the result to the browser.                                       *)

\* INSERT INTO login_handoffs
HandoffRow(q) == [at |-> "live", out |-> q.out, user |-> q.user, browser |-> q.b]

\* DELETE of rows past their time, a number of them and none that is locked.
DiscardExpired(r, swept) ==
    \A c \in swept : handoff[c].at = "stale" /\ ~HandoffHeld(r, c)

SetBinder(b, c) == binder' = [binder EXCEPT ![b] = @ \cup {c}]

\* The end of the callback: a code, its binder in this browser, and, as far as
\* it goes, the removal of old codes.
Issue(r, c, swept) ==
    LET q == req[r] IN
    /\ q.pc = "issue"
    /\ Connection
    /\ handoff[c].at = "free"
    /\ DiscardExpired(r, swept)
    /\ handoff' = [d \in Codes |-> IF d = c THEN HandoffRow(q)
                                   ELSE IF d \in swept THEN Deleted ELSE handoff[d]]
    /\ SetBinder(q.b, c)
    /\ flow' = [flow EXCEPT ![q.f] = Closed(@)]
    /\ proved' = [proved EXCEPT ![q.b] = IF q.out = "signed_in" THEN @ \cup {q.user} ELSE @]
    /\ Done(r)
    /\ UNCHANGED <<user, link, session, answered, bounds>>

\* A code is past its time: its row stays until it is swept.
CodeExpires(c) ==
    /\ handoff[c].at = "live"
    /\ handoff' = [handoff EXCEPT ![c].at = "stale"]
    /\ UNCHANGED <<user, link, cookies, req, history, bounds>>

-----------------------------------------------------------------------------
(* Redeeming a code.                                                        *)

\* The binder cookie of this code, in the browser that asks.
Binder(b, c) == c \in binder[b]

\* The code came in a URL, so any browser may send it; the binder is read from
\* the cookie of the browser that does.
HandleExchange(r, b, c) ==
    /\ handoff[c].at # "free"
    /\ Arrive(r, [NoRequest EXCEPT !.pc = "redeemBegin", !.b = b, !.code = c, !.flag = Binder(b, c)])
    /\ UNCHANGED <<rows, cookies, history, faults>>

\* The answer removes the binder.
ClearBinder(r) == binder' = [binder EXCEPT ![req[r].b] = @ \ {req[r].code}]

\* Mutant of Reject: a code that was tried with another binder is used up.
MutReject(r) ==
    /\ handoff' = [handoff EXCEPT ![req[r].code] = Deleted]
    /\ Done(r) /\ ClearBinder(r)
    /\ UNCHANGED <<user, link>>

\* Invalid, for whatever reason: all is rolled back and the code is kept.
Reject(r) == Done(r) /\ ClearBinder(r) /\ UNCHANGED rows

\* The transaction begins; what is past its time then is so to the end.
RedeemBegin(r) ==
    /\ req[r].pc = "redeemBegin"
    /\ Connection
    /\ IF handoff[req[r].code].at = "live"
       THEN Goto(r, "lock") /\ UNCHANGED <<rows, binder>>
       ELSE Reject(r)
    /\ UNCHANGED <<flow, session, history, bounds>>

\* Mutants of BoundTo and Locked: any browser may redeem; the row is read
\* without its lock.
MutBoundTo(r) == TRUE
MutLocked(r) == TRUE

\* The request carries the binder that was issued with the code.
BoundTo(r) == req[r].flag

\* SELECT ... FOR UPDATE has returned.
Locked(r) == ~HandoffHeld(r, req[r].code)

\* The row is there; it is in its time since the transaction began in it.
GetLoginHandoff(c) == handoff[c].at \in {"live", "stale"}

\* Lock and read: no row, or another binder, and all is rolled back.
Lock(r) ==
    LET h == handoff[req[r].code] IN
    /\ req[r].pc = "lock"
    /\ Locked(r)
    /\ IF GetLoginHandoff(req[r].code) /\ BoundTo(r)
       THEN /\ req' = [req EXCEPT ![r].pc = IF h.out = "signed_in" THEN "redeemUser" ELSE "redeemCommit",
                                  ![r].out = h.out, ![r].user = h.user]
            /\ UNCHANGED <<rows, binder>>
       ELSE Reject(r)
    /\ UNCHANGED <<flow, session, history, bounds>>

\* Mutant of ReadsThrough: the user is read over a second connection.
MutReadsThrough(r) == Connection

\* The user is read over the connection that the transaction has.
ReadsThrough(r) == Connected(r)

RedeemUser(r) ==
    /\ req[r].pc = "redeemUser"
    /\ ReadsThrough(r)
    /\ req' = [req EXCEPT ![r].pc = "redeemCommit",
                          ![r].out = IF GetActiveUserByID(req[r].user) THEN @ ELSE "failed"]
    /\ UNCHANGED <<rows, cookies, history, bounds>>

\* Mutant of Spend: the code is kept for a second try.
MutSpend(r) == UNCHANGED rows

\* DELETE FROM login_handoffs
Spend(r) == handoff' = [handoff EXCEPT ![req[r].code] = Deleted] /\ UNCHANGED <<user, link>>

RedeemCommit(r) ==
    LET q == req[r] IN
    /\ q.pc = "redeemCommit"
    /\ Spend(r)
    /\ ClearBinder(r)
    /\ IF q.out = "signed_in"
       THEN /\ IssueToken(q.b, q.user)
            /\ answered' = [answered EXCEPT ![q.code] = @ + 1]
       ELSE UNCHANGED <<session, answered>>
    /\ Done(r)
    /\ UNCHANGED <<flow, proved, bounds>>

-----------------------------------------------------------------------------
(* Users.                                                                   *)

\* Login with a password; a user without one is refused like a wrong password.
Login(u) == GetActiveUserByID(u) /\ user[u].pw

HandleLogin(b, u) ==
    /\ Login(u)
    /\ IssueToken(b, u)
    /\ proved' = [proved EXCEPT ![b] = @ \cup {u}]
    /\ UNCHANGED <<rows, flow, binder, req, answered, bounds>>

SetMail(row, m) == [row EXCEPT !.mail = m]
SetPassword(row, pw) == [row EXCEPT !.pw = @ \/ pw]

\* Columns of a row that is not discarded, in one transaction, which waits for
\* a withdrawal of this user and for a new user with this address.
UpdateUserProfile(u, m, pw) ==
    /\ \A r \in Requests : ~HoldsUser(r, u) /\ ~HoldsEmail(r, m)
    /\ user[u].mail = m \/ ~EmailTaken(m)
    /\ user' = [user EXCEPT ![u] = SetPassword(SetMail(@, m), pw)]

\* PUT /users/{id} by the user: of address and password those that are sent.
HandleUpdateUser(b, m, pw) ==
    /\ RequireAuth(b)
    /\ UpdateUserProfile(Viewer(b), m, pw)
    /\ UNCHANGED <<link, handoff, cookies, req, history, bounds>>

HandleDeleteUser(r, b) ==
    /\ RequireAuth(b)
    /\ Arrive(r, [NoRequest EXCEPT !.pc = "deleteBegin", !.user = Viewer(b)])
    /\ UNCHANGED <<rows, cookies, history, faults>>

DeleteBegin(r) ==
    /\ req[r].pc = "deleteBegin"
    /\ Connection
    /\ Goto(r, "discard")
    /\ UNCHANGED <<rows, cookies, history, bounds>>

\* UPDATE users SET discarded_at
Discarded(row) == [row EXCEPT !.at = "gone"]

\* The withdrawal's first statement: waits for another withdrawal of this user,
\* and then finds no row.
DiscardUser(r) ==
    /\ req[r].pc = "discard"
    /\ ~UserHeld(r, req[r].user)
    /\ IF GetActiveUserByID(req[r].user) THEN Goto(r, "discardLinks") ELSE Done(r)
    /\ UNCHANGED <<rows, cookies, history, bounds>>

\* All links of the user, of the rows that this statement sees.
DiscardAll(r) ==
    /\ req[r].pc = "discardLinks"
    /\ LET seen == ListIdentitiesByUser(req[r].user) IN
       req' = [req EXCEPT ![r].pc = "commitGone",
                          ![r].sub = IF seen = {} THEN None ELSE CHOOSE g \in seen : TRUE]
    /\ UNCHANGED <<rows, cookies, history, bounds>>

\* DELETE FROM user_identities
DeleteIdentities(S) == link' = [g \in Subjects |-> IF g \in S THEN None ELSE link[g]]

\* Mutant of StoreGone: the user goes and the links stay.
MutStoreGone(r) ==
    /\ user' = [user EXCEPT ![req[r].user] = Discarded(@)]
    /\ UNCHANGED <<link, handoff>>

StoreGone(r) ==
    /\ user' = [user EXCEPT ![req[r].user] = Discarded(@)]
    /\ DeleteIdentities({req[r].sub})
    /\ UNCHANGED handoff

CommitGone(r) ==
    /\ req[r].pc = "commitGone"
    /\ StoreGone(r)
    /\ Done(r)
    /\ UNCHANGED <<cookies, history, bounds>>

-----------------------------------------------------------------------------
(* Unlinking, by statements of their own.                                   *)

HandleUnlink(r, b) ==
    /\ RequireAuth(b)
    /\ Arrive(r, [NoRequest EXCEPT !.pc = "list", !.user = Viewer(b)])
    /\ UNCHANGED <<rows, cookies, history, faults>>

UnlinkList(r) ==
    /\ req[r].pc = "list"
    /\ Connection
    /\ IF AlreadyLinked(req[r].user) THEN Goto(r, "hasPassword") ELSE Done(r)
    /\ UNCHANGED <<rows, cookies, history, bounds>>

\* Mutant of CanUnlinkIdentity: the link that goes is counted.
MutCanUnlinkIdentity(hasPassword, count) == hasPassword \/ count > 0

CanUnlinkIdentity(hasPassword, count) == hasPassword \/ count > 1

\* One link was listed: there is one provider.
UnlinkCheck(r) ==
    /\ req[r].pc = "hasPassword"
    /\ Connection
    /\ IF GetActiveUserByID(req[r].user) /\ CanUnlinkIdentity(user[req[r].user].pw, 1)
       THEN Goto(r, "unlink")
       ELSE Done(r)
    /\ UNCHANGED <<rows, cookies, history, bounds>>

\* Waits for a withdrawal that deletes the same row.
Unlink(r) ==
    /\ req[r].pc = "unlink"
    /\ Connection
    /\ \A g \in ListIdentitiesByUser(req[r].user) : ~IdentityHeld(r, g, req[r].user)
    /\ DeleteIdentities(ListIdentitiesByUser(req[r].user))
    /\ Done(r)
    /\ UNCHANGED <<user, handoff, cookies, history, bounds>>

-----------------------------------------------------------------------------
(* What goes wrong.                                                         *)

Fault == faults < MaxFaults /\ faults' = faults + 1

\* A statement or a commit returns an error, or the process ends: what was not
\* committed is gone, and nobody gets an answer.
Crash(r) ==
    /\ req[r].pc # "idle"
    /\ Fault
    /\ Done(r)
    /\ UNCHANGED <<rows, cookies, history, started>>

\* A callback turns an error of a statement into a result of its own; the new
\* user may have been stored all the same.
CallbackFails(r) ==
    /\ req[r].f # None /\ req[r].pc # "issue"
    /\ Fault
    /\ Decide(r, "failed")
    /\ \/ UNCHANGED rows
       \/ req[r].pc = "commitNew" /\ StoreNew(r)
    /\ UNCHANGED <<cookies, history, started>>

\* The commit took effect and its answer is lost.
AnswerLost(r) ==
    /\ \/ req[r].pc = "commitGone" /\ StoreGone(r)
       \/ req[r].pc = "redeemCommit" /\ Spend(r)
    /\ Fault
    /\ Done(r)
    /\ UNCHANGED <<cookies, history, started>>

-----------------------------------------------------------------------------
Step(r) ==
    \/ Refuse(r)
    \/ \E g \in Subjects, m \in Mails : Exchange(r, g, m)
    \/ SignInLinked(r) \/ SignInUser(r)
    \/ BeginNew(r) \/ CreateUser(r) \/ CreateIdentity(r) \/ CommitNew(r)
    \/ LinkUser(r) \/ LinkRead(r) \/ LinkInsert(r)
    \/ \E c \in Codes, swept \in SUBSET Codes : Issue(r, c, swept)
    \/ RedeemBegin(r) \/ Lock(r) \/ RedeemUser(r) \/ RedeemCommit(r)
    \/ DeleteBegin(r) \/ DiscardUser(r) \/ DiscardAll(r) \/ CommitGone(r)
    \/ UnlinkList(r) \/ UnlinkCheck(r) \/ Unlink(r)

Next ==
    \/ \E b \in Browsers, f \in Flows : HandleStart(b, f) \/ HandleLinkStart(b, f)
    \/ \E f \in Flows : FlowExpires(f)
    \/ \E b \in Browsers, u \in Users : HandleLogin(b, u)
    \/ \E b \in Browsers, m \in Mails, pw \in BOOLEAN : HandleUpdateUser(b, m, pw)
    \/ \E c \in Codes : CodeExpires(c)
    \/ \E r \in Requests :
        \/ \E f \in Flows : HandleCallback(r, f)
        \/ \E b \in Browsers, c \in Codes : HandleExchange(r, b, c)
        \/ \E b \in Browsers : HandleDeleteUser(r, b) \/ HandleUnlink(r, b)
        \/ Step(r)
        \/ Crash(r) \/ CallbackFails(r) \/ AnswerLost(r)

Spec == Init /\ [][Next]_vars

-----------------------------------------------------------------------------
(* Properties.                                                              *)

Pcs == InTransaction \cup
       {"idle", "resolve", "lookup", "lookupAgain", "linkedUser", "beginNew", "linkUser", "linkRead",
        "issue", "redeemBegin", "deleteBegin", "list", "hasPassword", "unlink"}

RequestRow ==
    [pc : Pcs, b : Browsers \cup {None}, f : Flows \cup {None}, user : Users \cup {None},
     sub : Subjects \cup {None}, mail : Mails \cup {None}, code : Codes \cup {None},
     out : Outcomes \cup {"none"}, flag : BOOLEAN]

\* Rows, cookies and requests keep their kinds; a code has a user exactly when
\* its result names one; no more connections are in use than there are.
TypeOK ==
    /\ user \in [Users -> [at : {"none", "active", "gone"}, mail : Mails \cup {None}, pw : BOOLEAN]]
    /\ link \in [Subjects -> Users \cup {None}]
    /\ handoff \in [Codes -> [at : {"free", "live", "stale", "gone"}, out : Outcomes \cup {"none"},
                              user : Users \cup {None}, browser : Browsers \cup {None}]]
    /\ \A c \in Codes : NeedsUser(handoff[c].out) <=> handoff[c].user # None
    /\ flow \in [Flows -> [at : {"new", "open", "closed"}, browser : Browsers \cup {None},
                           linker : Users \cup {None}, spent : BOOLEAN]]
    /\ binder \in [Browsers -> SUBSET Codes]
    /\ session \in [Browsers -> Users \cup {None}]
    /\ req \in [Requests -> RequestRow]
    /\ Cardinality({r \in Requests : Connected(r)}) <= PoolSize
    /\ proved \in [Browsers -> SUBSET Users]
    /\ answered \in [Codes -> Nat]
    /\ started \in 0..MaxRequests /\ faults \in 0..MaxFaults

\* Every active user can sign in: with a password or with a linked subject,
\* whatever registrations, links, unlinks and errors came before.
WayIn ==
    \A u \in Users : user[u].at = "active" => user[u].pw \/ ListIdentitiesByUser(u) # {}

\* A browser holds the token of a user only after this browser showed the
\* password of that user or ended a flow as that user: a code that is carried
\* to another browser signs nobody in there.
SessionProved ==
    \A b \in Browsers : session[b] # None => session[b] \in proved[b]

\* A code is answered with a token at most once, whoever sends it how often.
RedeemedOnce == \A c \in Codes : answered[c] <= 1

\* While a request runs, one of them has a step to take.
NoDeadlock ==
    (\E r \in Requests : req[r].pc # "idle") => \E r \in Requests : ENABLED Step(r)

\* Request r is at a statement that needs a row which s has written or locked.
WaitsForRow(r, s) ==
    LET q == req[r] IN
    /\ r # s
    /\ \/ q.pc = "createUser" /\ HoldsEmail(s, q.mail)
       \/ q.pc \in {"createIdentity", "linkInsert"} /\ HoldsIdentity(s, q.sub, q.user)
       \/ q.pc = "unlink" /\ \E g \in ListIdentitiesByUser(q.user) : HoldsIdentity(s, g, q.user)
       \/ q.pc = "lock" /\ HoldsHandoff(s, q.code)
       \/ q.pc = "discard" /\ HoldsUser(s, q.user)

\* Request r is at a statement that needs a connection and has none: one of
\* its own, the first of a transaction, or one that goes around its transaction.
WaitsForConnection(r) ==
    /\ ~Connection
    /\ IF Connected(r) THEN req[r].pc = "redeemUser" /\ ~ReadsThrough(r)
                       ELSE req[r].pc \notin {"idle", "resolve"}

\* No group of requests waits in a circle, in which each needs a row that
\* another one of them holds, or a connection of a pool that they have used up:
\* who keeps a connection and waits, waits for somebody who needs no more than
\* what he has.
NoCircle ==
    \A S \in SUBSET Requests : S # {} =>
        \E r \in S :
            /\ \A s \in S : ~WaitsForRow(r, s)
            /\ ~(WaitsForConnection(r) /\ {s \in Requests : Connected(s)} \subseteq S)

\* Only its own browser uses up a code that is still valid: a try from another
\* one, an error or a crash leaves it for the next try.
CodeKept ==
    [][\A c \in Codes : handoff[c].at = "live" /\ handoff'[c].at = "gone" =>
          \E r \in Requests : req[r].code = c /\ req[r].b = handoff[c].browser]_vars

\* Nobody is told that another account has his address when the subject he
\* came with is linked by then: the loser of two first sign-ins of one person
\* is not sent away to a password that he does not have.
LoserSignsIn ==
    [][\A r \in Requests :
          req[r].pc # "issue" /\ req'[r].pc = "issue" /\ req'[r].out = "account_exists" =>
              ~IdentityTaken(req[r].sub)]_vars

\* The subject of a withdrawn user: it signs nobody in, and nobody can link it.
LeftBehind(g) == link[g] # None /\ user[link[g]].at = "gone"

\* A withdrawal takes the links with it, so that the subject of a withdrawn user
\* can be linked again (UserIdentities.DiscardAll says so).  LinkInsert of the
\* same user, begun before the withdrawal, breaks it.
GoneHaveNoLink == \A g \in Subjects : ~LeftBehind(g)

\* A withdrawal finds all links of its user and deletes them with him, whatever
\* signs in, links and unlinks meanwhile; nothing leaves one behind but a request
\* of this very user to link, whose last statement comes after the withdrawal
\* has looked and found none.
LinksGoAlong ==
    [][/\ \A r \in Requests :
             req[r].pc = "discardLinks" /\ req'[r].pc = "commitGone" =>
                 ListIdentitiesByUser(req[r].user) \subseteq {req'[r].sub}
       /\ \A g \in Subjects :
             LeftBehind(g)' /\ ~LeftBehind(g) =>
                 \E r \in Requests :
                     /\ req[r].user = link'[g]
                     /\ \/ req[r].pc = "linkInsert" /\ req[r].sub = g
                        \/ req[r].pc = "commitGone" /\ req[r].sub = None]_vars
=============================================================================
