--------------------------- MODULE Accounts_proofs ---------------------------
(***************************************************************************)
(* Accounts for any users, subjects, browsers, codes, requests and pool.    *)
(*                                                                          *)
(* Four inductive invariants, each with ones before it.  TypeInv: what a    *)
(* request has filled in where it stands.  CodesInv: whose code a request   *)
(* redeems, and that no other one redeems it.  RowsInv: what a transaction  *)
(* that has not committed counts on, and that no other one takes it away.   *)
(* LinksInv: a user has one link at most, and who links has been there.     *)
(***************************************************************************)
EXTENDS Accounts, FiniteSetTheorems, TLAPS

\* The exchange with the provider is behind the request: it has a subject.
AfterExchange ==
    {"lookup", "lookupAgain", "linkedUser", "beginNew", "createUser", "createIdentity",
     "commitNew", "linkUser", "linkRead", "linkInsert"}

\* The request works for a certain user.
WithUser ==
    {"linkedUser", "createIdentity", "commitNew", "linkUser", "linkRead", "linkInsert",
     "deleteBegin", "discard", "discardLinks", "commitGone", "list", "hasPassword", "unlink"}

\* The request redeems a code; the last two have its row.
Redeeming == {"redeemBegin", "lock", "redeemUser", "redeemCommit"}
HasRow(q) == q.pc \in {"redeemUser", "redeemCommit"}

\* The request has written rows it has not committed, or is about to write one.
Writing == {"createIdentity", "commitNew", "discardLinks", "commitGone", "unlink"}

\* What a request has filled in where it stands.
WellFormed(q) ==
    /\ q.f # None => q.pc \in AfterExchange \cup {"resolve", "issue"}
    /\ q.pc \in AfterExchange => q.sub # None /\ q.mail # None
    /\ q.pc \in WithUser => q.user # None
    /\ q.pc = "lookupAgain" => ~NeedsUser(q.out)
    /\ q.pc = "issue" => (NeedsUser(q.out) <=> q.user # None)
    /\ q.pc \in Redeeming => q.code # None /\ q.b # None

\* Kinds, and what requests have filled in.
TypeInv == TypeOK /\ \A r \in Requests : WellFormed(req[r])

\* What a request knows of the code that it redeems.
GoodRedeem(q) ==
    q.pc \in Redeeming =>
        /\ handoff[q.code].at # "free"
        /\ q.flag /\ GetLoginHandoff(q.code) => handoff[q.code].browser = q.b
        /\ HasRow(q) =>
              /\ q.flag /\ GetLoginHandoff(q.code)
              /\ q.out = "signed_in" => q.user \in proved[q.b]

\* A code is answered only as its row goes; a binder cookie is of the browser
\* the code is for; who signs in with a code has shown who he is there.
CodeRows ==
    /\ \A c \in Codes : handoff[c].at # "gone" => answered[c] = 0
    /\ \A b \in Browsers : \A c \in binder[b] :
          /\ handoff[c].at # "free"
          /\ GetLoginHandoff(c) => handoff[c].browser = b
    /\ \A c \in Codes :
          GetLoginHandoff(c) /\ handoff[c].out = "signed_in" /\ handoff[c].browser # None =>
              handoff[c].user \in proved[handoff[c].browser]

\* One request at a time has the row of a code.
RowsApart ==
    \A r, s \in Requests : HasRow(req[r]) /\ HasRow(req[s]) /\ r # s => req[r].code # req[s].code

\* Codes, their rows and binders, and who redeems them.
CodesInv ==
    /\ SessionProved
    /\ RedeemedOnce
    /\ CodeRows
    /\ RowsApart
    /\ \A r \in Requests : GoodRedeem(req[r])

\* What a transaction, or the last statement of an unlink, counts on.
Counts(r) ==
    /\ NewRow(r) => user[req[r].user].at = "none"
    /\ req[r].pc = "commitNew" => link[req[r].sub] = None
    /\ GoneRow(r) => user[req[r].user].at # "none"
    /\ req[r].pc = "commitGone" /\ req[r].sub # None => link[req[r].sub] = req[r].user
    /\ req[r].pc = "unlink" => user[req[r].user].at # "none" /\ user[req[r].user].pw

\* Two transactions never write the same row.
WritesApart ==
    \A r, s \in Requests : r # s =>
        /\ NewRow(r) /\ NewRow(s) => req[r].user # req[s].user
        /\ req[r].pc = "commitNew" /\ req[s].pc = "commitNew" => req[r].sub # req[s].sub
        /\ GoneRow(r) /\ GoneRow(s) => req[r].user # req[s].user

\* Ways in, and the rows that transactions count on.
RowsInv == WayIn /\ WritesApart /\ \A r \in Requests : Counts(r)

-----------------------------------------------------------------------------
(* Moves of one request.                                                    *)

\* Only request r moves, to a record of its kind.
Moves(r) ==
    /\ req' \in [Requests -> RequestRow]
    /\ \A x \in Requests : x # r => req'[x] = req[x]

\* The requests' part of TypeInv.
RequestsOK ==
    /\ req \in [Requests -> RequestRow]
    /\ Cardinality({r \in Requests : Connected(r)}) <= PoolSize
    /\ \A r \in Requests : WellFormed(req[r])

\* A transaction begins on a free connection, so the pool is not overdrawn.
LEMMA PoolKept ==
    ASSUME TypeInv, NEW r \in Requests, Moves(r),
           req'[r].pc \in InTransaction => Connected(r) \/ Connection
    PROVE  Cardinality({x \in Requests : Connected(x)})' <= PoolSize
<1> DEFINE C == {x \in Requests : Connected(x)}
           D == {x \in Requests : req'[x].pc \in InTransaction}
<1>1. IsFiniteSet(Requests) /\ PoolSize \in Nat
  BY AccountsAssumption
<1>2. C \subseteq Requests /\ D \subseteq Requests
  OBVIOUS
<1>3. /\ IsFiniteSet(C) /\ IsFiniteSet(D)
      /\ Cardinality(C) \in Nat /\ Cardinality(D) \in Nat
  BY <1>1, <1>2, FS_Subset, FS_CardinalityType
<1>4. Cardinality(C) <= PoolSize
  BY DEF TypeInv, TypeOK
<1>5. CASE D \subseteq C
  <2>1. Cardinality(D) <= Cardinality(C)
    BY <1>3, <1>5, FS_Subset
  <2>2. QED
    BY <1>1, <1>3, <1>4, <2>1 DEF Connected
<1>6. CASE ~(D \subseteq C)
  <2>1. req'[r].pc \in InTransaction /\ ~Connected(r)
    BY <1>6 DEF Moves, Connected
  <2>2. Cardinality(C) < PoolSize
    BY <2>1 DEF Connection
  <2>3. D \subseteq C \cup {r}
    BY DEF Moves, Connected
  <2>4. r \notin C
    BY <2>1
  <2>5. IsFiniteSet(C \cup {r}) /\ Cardinality(C \cup {r}) = Cardinality(C) + 1
    BY <1>3, <2>4, FS_AddElement
  <2>6. Cardinality(D) <= Cardinality(C \cup {r})
    BY <2>3, <2>5, FS_Subset
  <2>7. QED
    BY <1>1, <1>3, <2>2, <2>5, <2>6 DEF Connected
<1>7. QED
  BY <1>5, <1>6

\* The places a request can be at, one by one.
LEMMA PcsHave ==
    /\ "createUser" \in Pcs /\ "createIdentity" \in Pcs /\ "commitNew" \in Pcs /\ "linkInsert" \in Pcs
    /\ "lock" \in Pcs /\ "redeemUser" \in Pcs /\ "redeemCommit" \in Pcs /\ "discard" \in Pcs
    /\ "discardLinks" \in Pcs /\ "commitGone" \in Pcs /\ "idle" \in Pcs /\ "resolve" \in Pcs
    /\ "lookup" \in Pcs /\ "lookupAgain" \in Pcs /\ "linkedUser" \in Pcs /\ "beginNew" \in Pcs
    /\ "linkUser" \in Pcs /\ "linkRead" \in Pcs /\ "issue" \in Pcs /\ "redeemBegin" \in Pcs
    /\ "deleteBegin" \in Pcs /\ "list" \in Pcs /\ "hasPassword" \in Pcs /\ "unlink" \in Pcs
  BY DEF Pcs, InTransaction

\* One request moves to where it is well formed.
LEMMA MoveKeeps ==
    ASSUME TypeInv, NEW r \in Requests, Moves(r), WellFormed(req'[r]),
           req'[r].pc \in InTransaction => Connected(r) \/ Connection
    PROVE  RequestsOK'
<1>1. Cardinality({x \in Requests : Connected(x)})' <= PoolSize
  BY PoolKept
<1>2. \A x \in Requests : WellFormed(req'[x])
  BY DEF TypeInv, Moves
<1>3. QED
  BY <1>1, <1>2 DEF RequestsOK, Moves

\* What Goto, Done, Decide and Lost do to the request.
LEMMA GotoDoes ==
    ASSUME TypeInv, NEW r \in Requests, NEW pc \in Pcs, Goto(r, pc)
    PROVE  Moves(r) /\ req'[r] = [req[r] EXCEPT !.pc = pc]
<1> DEFINE q == [req[r] EXCEPT !.pc = pc]
<1>1. req \in [Requests -> RequestRow]
  BY DEF TypeInv, TypeOK
<1>2. q \in RequestRow
  BY <1>1 DEF RequestRow
<1>3. req' = [req EXCEPT ![r] = q]
  BY <1>1 DEF Goto, RequestRow
<1> HIDE DEF q
<1>4. Moves(r) /\ req'[r] = q
  BY <1>1, <1>2, <1>3 DEF Moves
<1>5. QED
  BY <1>4 DEF q

\* A request that is done waits for nothing and has nothing.
LEMMA NoRequestIs ==
    /\ NoRequest \in RequestRow /\ WellFormed(NoRequest)
    /\ NoRequest.pc = "idle" /\ "idle" \notin InTransaction
  BY DEF NoRequest, RequestRow, Pcs, InTransaction, WellFormed, AfterExchange, WithUser, Redeeming

\* The end of a request.
LEMMA DoneDoes ==
    ASSUME TypeInv, NEW r \in Requests, Done(r)
    PROVE  Moves(r) /\ req'[r] = NoRequest /\ RequestsOK'
<1>1. Moves(r) /\ req'[r] = NoRequest
  BY NoRequestIs DEF TypeInv, TypeOK, Done, Moves
<1>2. QED
  BY <1>1, NoRequestIs, MoveKeeps

\* A result, with the user it names.
LEMMA DecideDoes ==
    ASSUME TypeInv, NEW r \in Requests, NEW out \in Outcomes \cup {"none"}, Decide(r, out),
           NeedsUser(out) => req[r].user # None
    PROVE  /\ Moves(r)
           /\ req'[r] = [req[r] EXCEPT !.pc = "issue", !.out = out, !.sub = None, !.mail = None,
                                       !.user = IF NeedsUser(out) THEN req[r].user ELSE None]
           /\ req'[r].pc = "issue" /\ req'[r].out = out
           /\ RequestsOK'
<1> DEFINE u == IF NeedsUser(out) THEN req[r].user ELSE None
           q == [req[r] EXCEPT !.pc = "issue", !.out = out, !.sub = None, !.mail = None, !.user = u]
<1>1. req \in [Requests -> RequestRow] /\ WellFormed(req[r])
  BY DEF TypeInv, TypeOK
<1>2. u \in Users \cup {None} /\ (NeedsUser(out) <=> u # None)
  BY <1>1 DEF RequestRow
<1>3. req' = [req EXCEPT ![r] = q]
  BY <1>1 DEF Decide, RequestRow
<1> HIDE DEF u
<1>4. q \in RequestRow /\ q.pc = "issue" /\ q.out = out /\ q.user = u
  BY <1>1, <1>2, PcsHave DEF RequestRow
<1>5. WellFormed(q)
  BY <1>2, <1>4 DEF WellFormed, AfterExchange, WithUser, Redeeming
<1> HIDE DEF q
<1>6. Moves(r) /\ req'[r] = q
  BY <1>1, <1>3, <1>4 DEF Moves
<1>7. RequestsOK'
  BY <1>4, <1>5, <1>6, MoveKeeps DEF InTransaction
<1>8. req'[r].pc = "issue" /\ req'[r].out = out
  BY <1>4, <1>6
<1>9. QED
  BY <1>6, <1>7, <1>8 DEF q, u

-----------------------------------------------------------------------------
(* TypeInv.                                                                 *)

\* The parts of TypeOK, by what a step may leave alone.
RowsTyped ==
    /\ user \in [Users -> [at : {"none", "active", "gone"}, mail : Mails \cup {None}, pw : BOOLEAN]]
    /\ link \in [Subjects -> Users \cup {None}]
    /\ handoff \in [Codes -> [at : {"free", "live", "stale", "gone"}, out : Outcomes \cup {"none"},
                              user : Users \cup {None}, browser : Browsers \cup {None}]]
    /\ \A c \in Codes : NeedsUser(handoff[c].out) <=> handoff[c].user # None

FlowsTyped ==
    flow \in [Flows -> [at : {"new", "open", "closed"}, browser : Browsers \cup {None},
                        linker : Users \cup {None}, spent : BOOLEAN]]

CookiesTyped == binder \in [Browsers -> SUBSET Codes] /\ session \in [Browsers -> Users \cup {None}]

HistoryTyped == proved \in [Browsers -> SUBSET Users] /\ answered \in [Codes -> Nat]

BoundsTyped == started \in 0..MaxRequests /\ faults \in 0..MaxFaults

\* The parts of TypeInv.
LEMMA TypeParts ==
    TypeInv <=> RowsTyped /\ FlowsTyped /\ CookiesTyped /\ HistoryTyped /\ BoundsTyped /\ RequestsOK
  BY DEF TypeInv, TypeOK, RowsTyped, FlowsTyped, CookiesTyped, HistoryTyped, BoundsTyped, RequestsOK

\* The same after a step.
LEMMA TypePartsNext ==
    TypeInv' <=> /\ RowsTyped' /\ FlowsTyped' /\ CookiesTyped' /\ HistoryTyped' /\ BoundsTyped'
                 /\ RequestsOK'
  BY DEF TypeInv, TypeOK, RowsTyped, FlowsTyped, CookiesTyped, HistoryTyped, BoundsTyped, RequestsOK,
         Connected

\* What a step leaves alone keeps its kind.
LEMMA Unmoved ==
    ASSUME TypeInv
    PROVE  /\ UNCHANGED rows => RowsTyped'
           /\ UNCHANGED flow => FlowsTyped'
           /\ UNCHANGED <<binder, session>> => CookiesTyped'
           /\ UNCHANGED history => HistoryTyped'
           /\ UNCHANGED bounds => BoundsTyped'
           /\ UNCHANGED req => RequestsOK'
<1>1. RowsTyped /\ FlowsTyped /\ CookiesTyped /\ HistoryTyped /\ BoundsTyped /\ RequestsOK
  BY TypeParts
<1>2. UNCHANGED rows => RowsTyped'
  BY <1>1 DEF RowsTyped, rows
<1>3. UNCHANGED flow => FlowsTyped'
  BY <1>1 DEF FlowsTyped
<1>4. UNCHANGED <<binder, session>> => CookiesTyped'
  BY <1>1 DEF CookiesTyped
<1>5. UNCHANGED history => HistoryTyped'
  BY <1>1 DEF HistoryTyped, history
<1>6. UNCHANGED bounds => BoundsTyped'
  BY <1>1 DEF BoundsTyped, bounds
<1>7. UNCHANGED req => RequestsOK'
  BY <1>1 DEF RequestsOK, Connected
<1>8. QED
  BY <1>2, <1>3, <1>4, <1>5, <1>6, <1>7

\* At the start all is of its kind, and no connection is in use.
LEMMA InitTyped == Init => TypeInv
<1> SUFFICES ASSUME Init PROVE TypeInv
  OBVIOUS
<1>1. RowsTyped
  BY AccountsAssumption DEF Init, RowsTyped, Deleted, NeedsUser, Outcomes
<1>2. FlowsTyped /\ CookiesTyped /\ HistoryTyped
  BY DEF Init, FlowsTyped, CookiesTyped, HistoryTyped
<1>3. BoundsTyped
  BY AccountsAssumption DEF Init, BoundsTyped
<1>4. RequestsOK
  <2>1. req = [r \in Requests |-> NoRequest]
    BY DEF Init
  <2>2. {r \in Requests : Connected(r)} = {}
    BY <2>1, NoRequestIs DEF Connected
  <2>3. Cardinality({r \in Requests : Connected(r)}) = 0
    BY <2>2, FS_EmptySet
  <2>4. 0 <= PoolSize
    BY AccountsAssumption
  <2>5. QED
    BY <2>1, <2>3, <2>4, NoRequestIs DEF RequestsOK
<1>5. QED
  BY <1>1, <1>2, <1>3, <1>4, TypeParts

\* A user who is active, or asks with a token, is one of the users.
LEMMA ViewerIs ==
    ASSUME TypeInv, NEW b \in Browsers, RequireAuth(b)
    PROVE  Viewer(b) \in Users /\ user[Viewer(b)].at = "active"
  BY DEF TypeInv, TypeOK, RequireAuth, Viewer, GetActiveUserByID, Verify

\* Flows start and end.
LEMMA FlowsMove ==
    ASSUME TypeInv, NEW f \in Flows,
           (\E b \in Browsers : HandleStart(b, f) \/ HandleLinkStart(b, f)) \/ FlowExpires(f)
    PROVE  TypeInv'
<1>1. UNCHANGED <<rows, binder, session, req, history, bounds>>
  BY DEF HandleStart, HandleLinkStart, Begin, FlowExpires
<1>2. FlowsTyped
  BY TypeParts
<1>3. FlowsTyped'
  <2>1. CASE FlowExpires(f)
    BY <2>1, <1>2 DEF FlowExpires, FlowsTyped, Closed
  <2>2. ASSUME NEW b \in Browsers, HandleStart(b, f) PROVE FlowsTyped'
    BY <2>2, <1>2 DEF HandleStart, Begin, FlowsTyped, Sealed
  <2>3. ASSUME NEW b \in Browsers, HandleLinkStart(b, f) PROVE FlowsTyped'
    <3>1. Viewer(b) \in Users
      BY <2>3, ViewerIs DEF HandleLinkStart
    <3>2. QED
      BY <2>3, <3>1, <1>2 DEF HandleLinkStart, Begin, FlowsTyped, Sealed
  <2>4. QED
    BY <2>1, <2>2, <2>3
<1>4. QED
  BY <1>1, <1>3, Unmoved, TypePartsNext

\* Logins, profiles, and codes that grow old.
LEMMA OthersMove ==
    ASSUME TypeInv,
           \/ \E b \in Browsers, u \in Users : HandleLogin(b, u)
           \/ \E b \in Browsers, m \in Mails, pw \in BOOLEAN : HandleUpdateUser(b, m, pw)
           \/ \E c \in Codes : CodeExpires(c)
    PROVE  TypeInv'
<1>1. CASE \E b \in Browsers, u \in Users : HandleLogin(b, u)
  <2>1. PICK b \in Browsers, u \in Users : HandleLogin(b, u)
    BY <1>1
  <2>2. UNCHANGED <<rows, flow, req, bounds>>
    BY <2>1 DEF HandleLogin
  <2>3. CookiesTyped' /\ HistoryTyped'
    BY <2>1, TypeParts DEF HandleLogin, IssueToken, CookiesTyped, HistoryTyped
  <2>4. QED
    BY <2>2, <2>3, Unmoved, TypePartsNext
<1>2. CASE \E b \in Browsers, m \in Mails, pw \in BOOLEAN : HandleUpdateUser(b, m, pw)
  <2>1. PICK b \in Browsers, m \in Mails, pw \in BOOLEAN : HandleUpdateUser(b, m, pw)
    BY <1>2
  <2>2. UNCHANGED <<link, handoff, cookies, req, history, bounds>> /\ Viewer(b) \in Users
    BY <2>1, ViewerIs DEF HandleUpdateUser
  <2>3. user' = [user EXCEPT ![Viewer(b)] = SetPassword(SetMail(user[Viewer(b)], m), pw)]
    BY <2>1 DEF HandleUpdateUser, UpdateUserProfile
  <2> DEFINE old == user[Viewer(b)]
             pwNew == old.pw \/ pw
             new == [old EXCEPT !.mail = m, !.pw = pwNew]
  <2>4. pwNew \in BOOLEAN
    OBVIOUS
  <2> HIDE DEF pwNew
  <2>5. old \in [at : {"none", "active", "gone"}, mail : Mails \cup {None}, pw : BOOLEAN]
    BY <2>2, TypeParts DEF RowsTyped
  <2>6. SetPassword(SetMail(old, m), pw) = new
    BY <2>5 DEF SetPassword, SetMail, pwNew
  <2>7. new \in [at : {"none", "active", "gone"}, mail : Mails \cup {None}, pw : BOOLEAN]
    BY <2>4, <2>5
  <2>8. RowsTyped'
    BY <2>2, <2>3, <2>6, <2>7, TypeParts DEF RowsTyped
  <2>9. QED
    BY <2>2, <2>8, Unmoved, TypePartsNext DEF cookies
<1>3. CASE \E c \in Codes : CodeExpires(c)
  <2>1. PICK c \in Codes : CodeExpires(c)
    BY <1>3
  <2>2. UNCHANGED <<user, link, cookies, req, history, bounds>>
    BY <2>1 DEF CodeExpires
  <2>3. RowsTyped'
    BY <2>1, <2>2, TypeParts DEF RowsTyped, CodeExpires
  <2>4. QED
    BY <2>2, <2>3, Unmoved, TypePartsNext DEF cookies
<1>4. QED
  BY <1>1, <1>2, <1>3

\* A request arrives where it is well formed, before any transaction.
LEMMA ArriveKeeps ==
    ASSUME TypeInv, NEW r \in Requests, NEW q \in RequestRow, Arrive(r, q),
           WellFormed(q), q.pc \notin InTransaction,
           UNCHANGED <<rows, cookies, history, faults>>
    PROVE  Moves(r) /\ req'[r] = q /\ req[r].pc = "idle" /\ TypeInv'
<1>1. req \in [Requests -> RequestRow]
  BY DEF TypeInv, TypeOK
<1>2. Moves(r) /\ req'[r] = q /\ req[r].pc = "idle"
  BY <1>1 DEF Arrive, Moves
<1>3. RequestsOK'
  BY <1>2, MoveKeeps
<1>4. BoundsTyped'
  BY AccountsAssumption, TypeParts DEF Arrive, BoundsTyped
<1>5. QED
  BY <1>2, <1>3, <1>4, Unmoved, TypePartsNext DEF cookies

\* The records that requests arrive with.
LEMMA CallbackArrives ==
    ASSUME TypeInv, NEW r \in Requests, NEW f \in Flows, HandleCallback(r, f)
    PROVE  /\ Moves(r) /\ TypeInv'
           /\ req'[r].pc = "resolve" /\ req'[r].f = f
<1> DEFINE q == [NoRequest EXCEPT !.pc = "resolve", !.b = flow[f].browser, !.f = f, !.user = flow[f].linker]
<1>1. flow[f].browser \in Browsers \cup {None} /\ flow[f].linker \in Users \cup {None}
  BY DEF TypeInv, TypeOK
<1>2. q \in RequestRow /\ q.pc = "resolve" /\ q.f = f
  BY <1>1, PcsHave DEF NoRequest, RequestRow
<1>3. WellFormed(q) /\ q.pc \notin InTransaction
  BY <1>2 DEF WellFormed, AfterExchange, WithUser, Redeeming, InTransaction
<1>4. Arrive(r, q) /\ UNCHANGED <<rows, cookies, history, faults>>
  BY DEF HandleCallback
<1> HIDE DEF q
<1>5. QED
  BY <1>2, <1>3, <1>4, ArriveKeeps

\* A request to redeem knows whether the browser holds the binder.
LEMMA ExchangeArrives ==
    ASSUME TypeInv, NEW r \in Requests, NEW b \in Browsers, NEW c \in Codes, HandleExchange(r, b, c)
    PROVE  /\ Moves(r) /\ TypeInv'
           /\ req'[r].pc = "redeemBegin" /\ req'[r].b = b /\ req'[r].code = c
           /\ req'[r].flag <=> c \in binder[b]
<1> DEFINE held == Binder(b, c)
           q == [NoRequest EXCEPT !.pc = "redeemBegin", !.b = b, !.code = c, !.flag = held]
<1>1. held \in BOOLEAN /\ (held <=> c \in binder[b])
  BY DEF Binder
<1> HIDE DEF held
<1>2. /\ q \in RequestRow /\ q.pc = "redeemBegin" /\ q.b = b /\ q.code = c /\ q.f = None
      /\ q.flag = held
  BY <1>1, PcsHave DEF NoRequest, RequestRow
<1>3. WellFormed(q) /\ q.pc \notin InTransaction
  BY <1>2, AccountsAssumption DEF WellFormed, AfterExchange, WithUser, Redeeming, InTransaction
<1>4. Arrive(r, q) /\ UNCHANGED <<rows, cookies, history, faults>>
  BY DEF HandleExchange, held
<1> HIDE DEF q
<1>5. QED
  BY <1>1, <1>2, <1>3, <1>4, ArriveKeeps

\* A withdrawal or an unlink is of the user who asks.
LEMMA OwnerArrives ==
    ASSUME TypeInv, NEW r \in Requests, NEW b \in Browsers,
           HandleDeleteUser(r, b) \/ HandleUnlink(r, b)
    PROVE  Moves(r) /\ TypeInv' /\ req'[r].pc \in {"deleteBegin", "list"}
<1>1. Viewer(b) \in Users
  BY ViewerIs DEF HandleDeleteUser, HandleUnlink
<1>2. ASSUME NEW pc \in {"deleteBegin", "list"},
             Arrive(r, [NoRequest EXCEPT !.pc = pc, !.user = Viewer(b)]),
             UNCHANGED <<rows, cookies, history, faults>>
      PROVE  Moves(r) /\ TypeInv' /\ req'[r].pc = pc
  <2> DEFINE q == [NoRequest EXCEPT !.pc = pc, !.user = Viewer(b)]
  <2>1. q \in RequestRow /\ q.pc = pc /\ q.f = None /\ q.user = Viewer(b)
    BY <1>1, PcsHave DEF NoRequest, RequestRow
  <2>2. WellFormed(q) /\ q.pc \notin InTransaction
    BY <1>1, <2>1, AccountsAssumption DEF WellFormed, AfterExchange, WithUser, Redeeming, InTransaction
  <2>3. Arrive(r, q)
    BY <1>2
  <2> HIDE DEF q
  <2>4. QED
    BY <1>2, <2>1, <2>2, <2>3, ArriveKeeps
<1>3. QED
  BY <1>2 DEF HandleDeleteUser, HandleUnlink

\* A request goes on to a place that asks nothing new of it.
LEMMA GotoKeeps ==
    ASSUME TypeInv, NEW r \in Requests, NEW pc \in Pcs, Goto(r, pc),
           WellFormed([req[r] EXCEPT !.pc = pc]),
           pc \in InTransaction => Connected(r) \/ Connection
    PROVE  Moves(r) /\ req'[r] = [req[r] EXCEPT !.pc = pc] /\ req'[r].pc = pc /\ RequestsOK'
<1>1. Moves(r) /\ req'[r] = [req[r] EXCEPT !.pc = pc]
  BY GotoDoes
<1>2. req'[r].pc = pc
  BY <1>1 DEF TypeInv, TypeOK, RequestRow
<1>3. QED
  BY <1>1, <1>2, MoveKeeps

\* A loser has no user, and looks for the link again.
LEMMA LostDoes ==
    ASSUME TypeInv, NEW r \in Requests, NEW out \in Outcomes, Lost(r, out),
           ~NeedsUser(out), req[r].pc \in AfterExchange
    PROVE  /\ Moves(r)
           /\ req'[r] = [req[r] EXCEPT !.pc = "lookupAgain", !.out = out, !.user = None]
           /\ req'[r].pc = "lookupAgain"
           /\ RequestsOK'
<1> DEFINE q == [req[r] EXCEPT !.pc = "lookupAgain", !.out = out, !.user = None]
<1>1. req \in [Requests -> RequestRow] /\ WellFormed(req[r])
  BY DEF TypeInv, TypeOK
<1>2. /\ q \in RequestRow /\ q.pc = "lookupAgain" /\ q.out = out
      /\ q.sub = req[r].sub /\ q.mail = req[r].mail
  BY <1>1, PcsHave DEF RequestRow
<1>3. WellFormed(q)
  BY <1>1, <1>2 DEF WellFormed, AfterExchange, WithUser, Redeeming
<1>4. req' = [req EXCEPT ![r] = q]
  BY <1>1 DEF Lost, RequestRow
<1> HIDE DEF q
<1>5. Moves(r) /\ req'[r] = q
  BY <1>1, <1>2, <1>4 DEF Moves
<1>6. RequestsOK'
  BY <1>2, <1>3, <1>5, MoveKeeps DEF InTransaction
<1>7. req'[r].pc = "lookupAgain"
  BY <1>2, <1>5
<1>8. QED
  BY <1>5, <1>6, <1>7 DEF q

\* The exchange with the provider.
LEMMA ProviderMoves ==
    ASSUME TypeInv, NEW r \in Requests,
           Refuse(r) \/ \E g \in Subjects, m \in Mails : Exchange(r, g, m)
    PROVE  Moves(r) /\ TypeInv' /\ req'[r].pc \notin Redeeming \cup Writing
<1>1. CASE Refuse(r)
  <2>1. Decide(r, "failed") /\ "failed" \in Outcomes /\ ~NeedsUser("failed")
    BY <1>1 DEF Refuse, Outcomes, NeedsUser
  <2>2. UNCHANGED <<rows, cookies, history, bounds>>
    BY <1>1 DEF Refuse
  <2>3. Moves(r) /\ RequestsOK' /\ req'[r].pc \notin Redeeming \cup Writing
    BY <2>1, DecideDoes DEF Redeeming, Writing
  <2>4. QED
    BY <2>2, <2>3, Unmoved, TypePartsNext DEF cookies
<1>2. CASE \E g \in Subjects, m \in Mails : Exchange(r, g, m)
  <2>1. PICK g \in Subjects, m \in Mails : Exchange(r, g, m)
    BY <1>2
  <2>2. req \in [Requests -> RequestRow] /\ WellFormed(req[r]) /\ req[r].pc = "resolve"
    BY <2>1 DEF TypeInv, TypeOK, Exchange
  <2> DEFINE pc == IF req[r].user = None THEN "lookup" ELSE "linkUser"
             q == [req[r] EXCEPT !.pc = pc, !.sub = g, !.mail = m]
  <2>3. req' = [req EXCEPT ![r] = q]
    BY <2>1, <2>2 DEF Exchange, RequestRow
  <2>4. pc \in Pcs /\ pc \in AfterExchange /\ pc \notin InTransaction \cup Redeeming \cup Writing
        /\ pc \notin {"lookupAgain", "issue"} /\ (pc \in WithUser => req[r].user # None)
    BY DEF Pcs, AfterExchange, InTransaction, Redeeming, Writing, WithUser
  <2> HIDE DEF pc
  <2>5. q \in RequestRow /\ q.pc = pc /\ q.sub = g /\ q.mail = m /\ q.user = req[r].user
    BY <2>2, <2>4 DEF RequestRow
  <2>6. WellFormed(q)
    BY <2>4, <2>5, AccountsAssumption DEF WellFormed
  <2> HIDE DEF q
  <2>7. Moves(r) /\ req'[r] = q
    BY <2>2, <2>3, <2>5 DEF Moves
  <2>8. RequestsOK'
    BY <2>4, <2>5, <2>6, <2>7, MoveKeeps
  <2>9. FlowsTyped' /\ UNCHANGED <<rows, binder, session, history, bounds>>
    <3>1. /\ UNCHANGED <<rows, binder, session, history, bounds>>
          /\ flow' = [flow EXCEPT ![req[r].f].spent = TRUE]
      BY <2>1 DEF Exchange
    <3>2. FlowsTyped
      BY TypeParts
    <3>3. \A x \in Flows : flow'[x] = IF x = req[r].f THEN [flow[x] EXCEPT !.spent = TRUE] ELSE flow[x]
      BY <3>1, <3>2 DEF FlowsTyped
    <3>4. flow' = [x \in Flows |-> flow'[x]]
      BY <3>1, <3>2 DEF FlowsTyped
    <3>5. PICK K : /\ K = [at : {"new", "open", "closed"}, browser : Browsers \cup {None},
                             linker : Users \cup {None}, spent : BOOLEAN]
                   /\ \A x \in K : [x EXCEPT !.spent = TRUE] \in K
      OBVIOUS
    <3>6. ASSUME NEW x \in Flows PROVE flow'[x] \in K
      <4>1. flow[x] \in K
        BY <3>2, <3>5 DEF FlowsTyped
      <4>2. [flow[x] EXCEPT !.spent = TRUE] \in K
        BY <3>5, <4>1
      <4> QED
        BY <3>3, <4>1, <4>2
    <3>7. flow' \in [Flows -> K]
      BY <3>4, <3>6
    <3> QED
      BY <3>1, <3>5, <3>7 DEF FlowsTyped
  <2>10. QED
    BY <2>4, <2>5, <2>7, <2>8, <2>9, Unmoved, TypePartsNext
<1>3. QED
  BY <1>1, <1>2

\* The reads of a sign-in.
LEMMA SignInMoves ==
    ASSUME TypeInv, NEW r \in Requests, SignInLinked(r) \/ SignInUser(r) \/ BeginNew(r)
    PROVE  Moves(r) /\ TypeInv' /\ req'[r].pc \notin Redeeming \cup Writing
<1>1. req \in [Requests -> RequestRow] /\ WellFormed(req[r])
  BY DEF TypeInv, TypeOK
<1>2. UNCHANGED <<rows, cookies, history, bounds>>
  BY DEF SignInLinked, SignInUser, BeginNew
<1>3. SUFFICES Moves(r) /\ RequestsOK' /\ req'[r].pc \notin Redeeming \cup Writing
  BY <1>2, Unmoved, TypePartsNext DEF cookies
<1>4. CASE SignInLinked(r) /\ IdentityTaken(req[r].sub)
  <2>1. req[r].pc \in {"lookup", "lookupAgain"}
    BY <1>4 DEF SignInLinked
  <2> DEFINE q == [req[r] EXCEPT !.pc = "linkedUser", !.user = link[req[r].sub]]
  <2>2. req[r].sub \in Subjects /\ req[r].mail # None
    BY <1>1, <2>1 DEF WellFormed, AfterExchange, RequestRow
  <2>3. link[req[r].sub] \in Users \cup {None} /\ link[req[r].sub] # None
    BY <1>4, <2>2 DEF TypeInv, TypeOK, IdentityTaken
  <2>4. req' = [req EXCEPT ![r] = q]
    BY <1>1, <1>4 DEF SignInLinked, RequestRow
  <2>5. /\ q \in RequestRow /\ q.pc = "linkedUser" /\ q.user # None /\ q.sub = req[r].sub
        /\ q.mail = req[r].mail
    BY <1>1, <2>3, PcsHave DEF RequestRow
  <2>6. WellFormed(q)
    BY <2>2, <2>5, AccountsAssumption DEF WellFormed, AfterExchange, WithUser, Redeeming
  <2> HIDE DEF q
  <2>7. Moves(r) /\ req'[r] = q
    BY <1>1, <2>4, <2>5 DEF Moves
  <2>8. QED
    BY <2>5, <2>6, <2>7, MoveKeeps DEF InTransaction, Redeeming, Writing
<1>5. CASE SignInLinked(r) /\ ~IdentityTaken(req[r].sub) /\ req[r].pc = "lookup"
  <2>1. Goto(r, "beginNew") /\ "beginNew" \in Pcs
    BY <1>5 DEF SignInLinked, Pcs
  <2>2. WellFormed([req[r] EXCEPT !.pc = "beginNew"])
    BY <1>1, <1>5 DEF WellFormed, AfterExchange, WithUser, Redeeming, RequestRow
  <2>3. QED
    BY <2>1, <2>2, GotoKeeps DEF InTransaction, Redeeming, Writing
<1>6. CASE SignInLinked(r) /\ ~IdentityTaken(req[r].sub) /\ req[r].pc # "lookup"
  <2>1. Decide(r, req[r].out) /\ req[r].pc = "lookupAgain"
    BY <1>6 DEF SignInLinked
  <2>2. ~NeedsUser(req[r].out)
    BY <1>1, <2>1 DEF WellFormed
  <2>3. req[r].out \in Outcomes \cup {"none"}
    BY <1>1 DEF RequestRow
  <2>4. QED
    BY <2>1, <2>2, <2>3, DecideDoes DEF Redeeming, Writing
<1>7. CASE SignInUser(r)
  <2>1. req[r].user # None
    BY <1>1, <1>7 DEF SignInUser, WellFormed, WithUser
  <2>2. QED
    BY <1>7, <2>1, DecideDoes DEF SignInUser, Outcomes, Redeeming, Writing
<1>8. CASE BeginNew(r)
  <2>1. Goto(r, "createUser") /\ "createUser" \in Pcs /\ Connection /\ req[r].pc = "beginNew"
    BY <1>8 DEF BeginNew, Pcs, InTransaction
  <2>2. WellFormed([req[r] EXCEPT !.pc = "createUser"])
    BY <1>1, <2>1 DEF WellFormed, AfterExchange, WithUser, Redeeming, RequestRow
  <2>3. QED
    BY <2>1, <2>2, GotoKeeps DEF Redeeming, Writing
<1>9. QED
  BY <1>4, <1>5, <1>6, <1>7, <1>8

\* A new user with a link, up to the commit.
LEMMA RegistrationMoves ==
    ASSUME TypeInv, NEW r \in Requests, CreateUser(r) \/ CreateIdentity(r)
    PROVE  Moves(r) /\ TypeInv' /\ req'[r].pc \notin Redeeming
<1>1. req \in [Requests -> RequestRow] /\ WellFormed(req[r])
  BY DEF TypeInv, TypeOK
<1>2. UNCHANGED <<rows, cookies, history, bounds>> /\ req[r].pc \in {"createUser", "createIdentity"}
  BY DEF CreateUser, CreateIdentity
<1>3. SUFFICES Moves(r) /\ RequestsOK' /\ req'[r].pc \notin Redeeming
  BY <1>2, Unmoved, TypePartsNext DEF cookies
<1>4. CASE Lost(r, "account_exists") \/ Lost(r, "failed")
  BY <1>2, <1>4, LostDoes DEF Outcomes, NeedsUser, AfterExchange, Redeeming
<1>5. CASE CreateUser(r) /\ ~Lost(r, "account_exists")
  <2>1. PICK u \in Users : req' = [req EXCEPT ![r].pc = "createIdentity", ![r].user = u]
    BY <1>5 DEF CreateUser
  <2> DEFINE q == [req[r] EXCEPT !.pc = "createIdentity", !.user = u]
  <2>2. req' = [req EXCEPT ![r] = q]
    BY <1>1, <2>1 DEF RequestRow
  <2>3. /\ q \in RequestRow /\ q.pc = "createIdentity" /\ q.user = u /\ q.sub = req[r].sub
        /\ q.mail = req[r].mail
    BY <1>1, PcsHave DEF RequestRow
  <2>4. WellFormed(q)
    BY <1>1, <1>2, <2>3, AccountsAssumption DEF WellFormed, AfterExchange, WithUser, Redeeming
  <2> HIDE DEF q
  <2>5. Moves(r) /\ req'[r] = q
    BY <1>1, <2>2, <2>3 DEF Moves
  <2>6. Connected(r)
    BY <1>2 DEF Connected, InTransaction
  <2>7. QED
    BY <2>3, <2>4, <2>5, <2>6, MoveKeeps DEF Redeeming
<1>6. CASE CreateIdentity(r) /\ ~Lost(r, "failed")
  <2>1. Goto(r, "commitNew") /\ "commitNew" \in Pcs /\ Connected(r) /\ req[r].pc = "createIdentity"
    BY <1>6 DEF CreateIdentity, Pcs, InTransaction, Connected
  <2>2. WellFormed([req[r] EXCEPT !.pc = "commitNew"])
    BY <1>1, <2>1 DEF WellFormed, AfterExchange, WithUser, Redeeming, RequestRow
  <2>3. QED
    BY <2>1, <2>2, GotoKeeps DEF Redeeming
<1>7. QED
  BY <1>4, <1>5, <1>6

\* The new user and its link are stored.
LEMMA StoreNewTyped ==
    ASSUME TypeInv, NEW r \in Requests, req[r].pc = "commitNew", StoreNew(r)
    PROVE  RowsTyped'
<1>1. /\ req[r].user \in Users /\ req[r].sub \in Subjects /\ req[r].mail \in Mails
  BY DEF TypeInv, TypeOK, WellFormed, AfterExchange, WithUser, RequestRow
<1>2. QED
  BY <1>1, TypeParts DEF StoreNew, InsertIdentity, UserRow, RowsTyped

\* The commit of a registration.
LEMMA CommitNewMoves ==
    ASSUME TypeInv, NEW r \in Requests, CommitNew(r)
    PROVE  Moves(r) /\ TypeInv' /\ req'[r].pc = "issue"
<1>1. req[r].pc = "commitNew" /\ StoreNew(r) /\ Decide(r, "signed_in")
      /\ UNCHANGED <<cookies, history, bounds>>
  BY DEF CommitNew
<1>2. req[r].user # None /\ req[r] \in RequestRow
  BY <1>1 DEF TypeInv, TypeOK, WellFormed, WithUser
<1>3. Moves(r) /\ RequestsOK' /\ req'[r].pc = "issue"
  BY <1>1, <1>2, DecideDoes DEF Outcomes
<1>4. RowsTyped'
  BY <1>1, StoreNewTyped
<1>5. QED
  BY <1>1, <1>3, <1>4, Unmoved, TypePartsNext DEF cookies

\* The statements that link a subject to a user.
LEMMA LinkMoves ==
    ASSUME TypeInv, NEW r \in Requests, LinkUser(r) \/ LinkRead(r) \/ LinkInsert(r)
    PROVE  Moves(r) /\ TypeInv' /\ req'[r].pc \notin Redeeming \cup Writing
<1>1. req \in [Requests -> RequestRow] /\ WellFormed(req[r])
  BY DEF TypeInv, TypeOK
<1>2. req[r].pc \in {"linkUser", "linkRead", "linkInsert"} /\ UNCHANGED <<cookies, history, bounds>>
  BY DEF LinkUser, LinkRead, LinkInsert
<1>3. req[r].user \in Users /\ req[r].user # None /\ req[r].sub \in Subjects
  BY <1>1, <1>2 DEF WellFormed, WithUser, AfterExchange, RequestRow
<1>4. RowsTyped'
  <2>1. CASE UNCHANGED rows
    BY <2>1, Unmoved
  <2>2. CASE InsertIdentity(req[r].sub, req[r].user) /\ UNCHANGED <<user, handoff>>
    BY <1>3, <2>2, TypeParts DEF RowsTyped, InsertIdentity
  <2>3. QED
    BY <2>1, <2>2 DEF LinkUser, LinkRead, LinkInsert, rows
<1>5. ASSUME NEW pc \in {"linkRead", "linkInsert"}, Goto(r, pc), Connection
      PROVE  Moves(r) /\ RequestsOK' /\ req'[r].pc \notin Redeeming \cup Writing
  <2>1. pc \in Pcs
    BY DEF Pcs, InTransaction
  <2>2. WellFormed([req[r] EXCEPT !.pc = pc])
    BY <1>1, <1>2 DEF WellFormed, AfterExchange, WithUser, Redeeming, RequestRow
  <2>3. QED
    BY <1>5, <2>1, <2>2, GotoKeeps DEF Redeeming, Writing
<1>6. ASSUME NEW out \in {"failed", "linked", "identity_taken", "already_linked"}, Decide(r, out)
      PROVE  Moves(r) /\ RequestsOK' /\ req'[r].pc \notin Redeeming \cup Writing
  BY <1>3, <1>6, DecideDoes DEF Outcomes, Redeeming, Writing
<1>7. Moves(r) /\ RequestsOK' /\ req'[r].pc \notin Redeeming \cup Writing
  BY <1>5, <1>6 DEF LinkUser, LinkRead, LinkInsert
<1>8. QED
  BY <1>2, <1>4, <1>7, Unmoved, TypePartsNext DEF cookies

\* A result waits behind a code.
LEMMA IssueMoves ==
    ASSUME TypeInv, NEW r \in Requests, NEW c \in Codes, NEW swept \in SUBSET Codes, Issue(r, c, swept)
    PROVE  Moves(r) /\ TypeInv' /\ req'[r] = NoRequest
<1> DEFINE q == req[r]
<1>1. q \in RequestRow /\ WellFormed(q) /\ q.pc = "issue"
  BY DEF TypeInv, TypeOK, Issue
<1>2. Done(r) /\ UNCHANGED <<user, link, session, answered, bounds>>
  BY DEF Issue
<1>3. Moves(r) /\ RequestsOK' /\ req'[r] = NoRequest
  BY <1>2, DoneDoes
<1>4. NeedsUser(q.out) <=> q.user # None
  BY <1>1 DEF WellFormed
<1> DEFINE row == HandoffRow(q)
<1>5. row \in [at : {"free", "live", "stale", "gone"}, out : Outcomes \cup {"none"},
               user : Users \cup {None}, browser : Browsers \cup {None}]
      /\ (NeedsUser(row.out) <=> row.user # None)
  BY <1>1, <1>4 DEF HandoffRow, RequestRow
<1>6. handoff' = [d \in Codes |-> IF d = c THEN row ELSE IF d \in swept THEN Deleted ELSE handoff[d]]
  BY DEF Issue
<1> HIDE DEF row
<1>7. RowsTyped'
  BY <1>2, <1>5, <1>6, TypeParts DEF RowsTyped, Deleted, NeedsUser
<1>8. FlowsTyped'
  BY TypeParts DEF Issue, FlowsTyped, Closed
<1>9. CookiesTyped'
  BY <1>2, TypeParts DEF Issue, SetBinder, CookiesTyped
<1>10. HistoryTyped'
  <2>1. q.out = "signed_in" => q.user \in Users
    BY <1>1, <1>4 DEF NeedsUser, RequestRow
  <2>2. QED
    BY <1>2, <2>1, TypeParts DEF Issue, HistoryTyped
<1>11. QED
  BY <1>2, <1>3, <1>7, <1>8, <1>9, <1>10, Unmoved, TypePartsNext

\* The binder goes, or stays.
LEMMA BinderTyped ==
    ASSUME TypeInv, NEW r \in Requests, ClearBinder(r) \/ UNCHANGED binder, UNCHANGED session
    PROVE  CookiesTyped'
  BY TypeParts DEF CookiesTyped, ClearBinder

\* A code is redeemed, up to the commit.
LEMMA RedeemMoves ==
    ASSUME TypeInv, NEW r \in Requests, RedeemBegin(r) \/ Lock(r) \/ RedeemUser(r)
    PROVE  Moves(r) /\ TypeInv' /\ req'[r].pc \notin Writing
<1>1. req \in [Requests -> RequestRow] /\ WellFormed(req[r])
  BY DEF TypeInv, TypeOK
<1>2. req[r].pc \in {"redeemBegin", "lock", "redeemUser"} /\ UNCHANGED <<flow, session, rows, history, bounds>>
  BY DEF RedeemBegin, Lock, RedeemUser, Reject, cookies
<1>3. req[r].code \in Codes /\ req[r].code # None /\ req[r].b # None
  BY <1>1, <1>2 DEF WellFormed, Redeeming, RequestRow
<1>4. CookiesTyped'
  BY <1>2, BinderTyped, Unmoved DEF RedeemBegin, Lock, RedeemUser, Reject, cookies
<1>5. SUFFICES Moves(r) /\ RequestsOK' /\ req'[r].pc \notin Writing
  BY <1>2, <1>4, Unmoved, TypePartsNext
<1>6. CASE Done(r)
  BY <1>6, DoneDoes, NoRequestIs DEF Writing
<1>7. CASE RedeemBegin(r) /\ Goto(r, "lock")
  <2>1. "lock" \in Pcs /\ Connection /\ req[r].pc = "redeemBegin"
    BY <1>7 DEF RedeemBegin, Pcs, InTransaction
  <2>2. WellFormed([req[r] EXCEPT !.pc = "lock"])
    BY <1>1, <2>1 DEF WellFormed, AfterExchange, WithUser, Redeeming, RequestRow
  <2>3. QED
    BY <1>7, <2>1, <2>2, GotoKeeps DEF Writing
<1>8. CASE Lock(r) /\ ~Done(r)
  <2> DEFINE h == handoff[req[r].code]
             pc == IF h.out = "signed_in" THEN "redeemUser" ELSE "redeemCommit"
             q == [req[r] EXCEPT !.pc = pc, !.out = h.out, !.user = h.user]
  <2>1. req' = [req EXCEPT ![r].pc = pc, ![r].out = h.out, ![r].user = h.user] /\ req[r].pc = "lock"
    BY <1>8 DEF Lock, Reject
  <2>2. h.out \in Outcomes \cup {"none"} /\ h.user \in Users \cup {None}
    BY <1>3, TypeParts DEF RowsTyped
  <2> HIDE DEF h
  <2>3. pc \in {"redeemUser", "redeemCommit"} /\ pc \in Pcs
    BY DEF Pcs, InTransaction
  <2> HIDE DEF pc
  <2>4. req' = [req EXCEPT ![r] = q]
    BY <1>1, <2>1 DEF RequestRow
  <2>5. /\ q \in RequestRow /\ q.pc = pc /\ q.f = req[r].f /\ q.code = req[r].code
        /\ q.b = req[r].b
    BY <1>1, <2>2, <2>3 DEF RequestRow
  <2>6. WellFormed(q)
    BY <1>1, <1>3, <2>1, <2>3, <2>5 DEF WellFormed, AfterExchange, WithUser, Redeeming
  <2> HIDE DEF q
  <2>7. Moves(r) /\ req'[r] = q
    BY <1>1, <2>4, <2>5 DEF Moves
  <2>8. Connected(r)
    BY <2>1 DEF Connected, InTransaction
  <2>9. QED
    BY <2>3, <2>5, <2>6, <2>7, <2>8, MoveKeeps DEF Writing
<1>9. CASE RedeemUser(r)
  <2> DEFINE o == IF GetActiveUserByID(req[r].user) THEN req[r].out ELSE "failed"
             q == [req[r] EXCEPT !.pc = "redeemCommit", !.out = o]
  <2>1. req' = [req EXCEPT ![r].pc = "redeemCommit", ![r].out = o] /\ req[r].pc = "redeemUser"
    BY <1>1, <1>9 DEF RedeemUser, RequestRow
  <2>2. o \in Outcomes \cup {"none"}
    BY <1>1 DEF RequestRow, Outcomes
  <2> HIDE DEF o
  <2>3. req' = [req EXCEPT ![r] = q]
    BY <1>1, <2>1 DEF RequestRow
  <2>4. /\ q \in RequestRow /\ q.pc = "redeemCommit" /\ q.f = req[r].f /\ q.code = req[r].code
        /\ q.b = req[r].b
    BY <1>1, <2>2, PcsHave DEF RequestRow
  <2>5. WellFormed(q)
    BY <1>1, <1>3, <2>1, <2>4 DEF WellFormed, AfterExchange, WithUser, Redeeming
  <2> HIDE DEF q
  <2>6. Moves(r) /\ req'[r] = q
    BY <1>1, <2>3, <2>4 DEF Moves
  <2>7. Connected(r)
    BY <2>1 DEF Connected, InTransaction
  <2>8. QED
    BY <2>4, <2>5, <2>6, <2>7, MoveKeeps DEF Writing
<1>10. QED
  BY <1>6, <1>7, <1>8, <1>9 DEF RedeemBegin, Reject

\* The row of a redeemed code is deleted.
LEMMA SpendTyped ==
    ASSUME TypeInv, NEW r \in Requests, Spend(r)
    PROVE  RowsTyped'
  BY TypeParts DEF Spend, RowsTyped, Deleted, NeedsUser, Outcomes

\* The commit of a redeemed code.
LEMMA RedeemCommitMoves ==
    ASSUME TypeInv, NEW r \in Requests, RedeemCommit(r)
    PROVE  Moves(r) /\ TypeInv' /\ req'[r] = NoRequest
<1>1. Spend(r) /\ ClearBinder(r) /\ Done(r) /\ UNCHANGED <<flow, proved, bounds>>
  BY DEF RedeemCommit
<1>2. req[r] \in RequestRow
  BY DEF TypeInv, TypeOK
<1>3. session' \in [Browsers -> Users \cup {None}]
  BY <1>2, TypeParts DEF RedeemCommit, IssueToken, CookiesTyped, RequestRow
<1>4. CookiesTyped'
  BY <1>1, <1>3, TypeParts DEF CookiesTyped, ClearBinder
<1>5. HistoryTyped'
  BY <1>1, TypeParts DEF RedeemCommit, HistoryTyped
<1>6. QED
  BY <1>1, <1>4, <1>5, DoneDoes, SpendTyped, Unmoved, TypePartsNext

\* A withdrawal or an unlink, between its reads and its write.
LEMMA OwnerMoves ==
    ASSUME TypeInv, NEW r \in Requests,
           DeleteBegin(r) \/ DiscardUser(r) \/ DiscardAll(r) \/ UnlinkList(r) \/ UnlinkCheck(r)
    PROVE  Moves(r) /\ TypeInv' /\ req'[r].pc \notin Redeeming
<1>1. req \in [Requests -> RequestRow] /\ WellFormed(req[r])
  BY DEF TypeInv, TypeOK
<1>2. /\ req[r].pc \in {"deleteBegin", "discard", "discardLinks", "list", "hasPassword"}
      /\ UNCHANGED <<rows, cookies, history, bounds>>
  BY DEF DeleteBegin, DiscardUser, DiscardAll, UnlinkList, UnlinkCheck
<1>3. SUFFICES Moves(r) /\ RequestsOK' /\ req'[r].pc \notin Redeeming
  BY <1>2, Unmoved, TypePartsNext DEF cookies
<1>4. CASE Done(r)
  BY <1>4, DoneDoes, NoRequestIs DEF Redeeming
<1>5. ASSUME NEW pc \in {"discard", "discardLinks", "hasPassword", "unlink"}, Goto(r, pc),
             pc \in InTransaction => Connected(r) \/ Connection
      PROVE  Moves(r) /\ RequestsOK' /\ req'[r].pc \notin Redeeming
  <2>1. pc \in Pcs
    BY DEF Pcs, InTransaction
  <2>2. WellFormed([req[r] EXCEPT !.pc = pc])
    BY <1>1, <1>2 DEF WellFormed, AfterExchange, WithUser, Redeeming, RequestRow
  <2>3. QED
    BY <1>5, <2>1, <2>2, GotoKeeps DEF Redeeming
<1>6. CASE DiscardAll(r)
  <2> DEFINE seen == ListIdentitiesByUser(req[r].user)
             g == IF seen = {} THEN None ELSE CHOOSE x \in seen : TRUE
             q == [req[r] EXCEPT !.pc = "commitGone", !.sub = g]
  <2>1. g \in Subjects \cup {None}
    BY DEF ListIdentitiesByUser
  <2>2. req' = [req EXCEPT ![r].pc = "commitGone", ![r].sub = g] /\ req[r].pc = "discardLinks"
    BY <1>6 DEF DiscardAll
  <2> HIDE DEF g
  <2>3. req' = [req EXCEPT ![r] = q]
    BY <1>1, <2>2 DEF RequestRow
  <2>4. q \in RequestRow /\ q.pc = "commitGone" /\ q.user = req[r].user /\ q.f = req[r].f
    BY <1>1, <2>1, PcsHave DEF RequestRow
  <2>5. WellFormed(q)
    BY <1>1, <2>2, <2>4 DEF WellFormed, AfterExchange, WithUser, Redeeming
  <2> HIDE DEF q
  <2>6. Moves(r) /\ req'[r] = q
    BY <1>1, <2>3, <2>4 DEF Moves
  <2>7. Connected(r)
    BY <2>2 DEF Connected, InTransaction
  <2>8. QED
    BY <2>4, <2>5, <2>6, <2>7, MoveKeeps DEF Redeeming
<1>7. CASE DeleteBegin(r)
  BY <1>5, <1>7 DEF DeleteBegin
<1>8. CASE DiscardUser(r)
  <2>1. Connected(r)
    BY <1>8 DEF DiscardUser, Connected, InTransaction
  <2>2. QED
    BY <1>4, <1>5, <1>8, <2>1 DEF DiscardUser
<1>9. CASE UnlinkList(r) \/ UnlinkCheck(r)
  BY <1>4, <1>5, <1>9 DEF UnlinkList, UnlinkCheck
<1>10. QED
  BY <1>6, <1>7, <1>8, <1>9

\* The links in a set go, with nothing or with the user.
LEMMA GoneTyped ==
    ASSUME TypeInv, NEW r \in Requests, StoreGone(r)
    PROVE  RowsTyped'
<1>1. link' \in [Subjects -> Users \cup {None}]
  BY TypeParts DEF RowsTyped, StoreGone, DeleteIdentities
<1>2. user' \in [Users -> [at : {"none", "active", "gone"}, mail : Mails \cup {None}, pw : BOOLEAN]]
  <2>1. RowsTyped
    BY TypeParts
  <2>2. /\ user' = [x \in Users |-> user'[x]]
        /\ \A x \in Users : user'[x] = IF x = req[r].user THEN Discarded(user[x]) ELSE user[x]
    BY <2>1 DEF RowsTyped, StoreGone
  <2>3. \A x \in Users : Discarded(user[x]) \in [at : {"none", "active", "gone"},
                                             mail : Mails \cup {None}, pw : BOOLEAN]
    BY <2>1 DEF RowsTyped, Discarded
  <2>4. QED
    BY <2>1, <2>2, <2>3 DEF RowsTyped
<1>3. QED
  BY <1>1, <1>2, TypeParts DEF RowsTyped, StoreGone

\* The writes of a withdrawal and of an unlink.
LEMMA OwnerWrites ==
    ASSUME TypeInv, NEW r \in Requests, CommitGone(r) \/ Unlink(r)
    PROVE  Moves(r) /\ TypeInv' /\ req'[r] = NoRequest
<1>1. Done(r) /\ UNCHANGED <<cookies, history, bounds>>
  BY DEF CommitGone, Unlink
<1>2. RowsTyped'
  <2>1. CASE CommitGone(r)
    BY <2>1, GoneTyped DEF CommitGone
  <2>2. CASE Unlink(r)
    BY <2>2, TypeParts DEF RowsTyped, Unlink, DeleteIdentities
  <2>3. QED
    BY <2>1, <2>2
<1>3. QED
  BY <1>1, <1>2, DoneDoes, Unmoved, TypePartsNext DEF cookies

\* Errors, crashes and lost answers.
LEMMA FaultMoves ==
    ASSUME TypeInv, NEW r \in Requests, Crash(r) \/ CallbackFails(r) \/ AnswerLost(r)
    PROVE  Moves(r) /\ TypeInv' /\ req'[r].pc \in {"idle", "issue"}
<1>1. Fault /\ UNCHANGED <<cookies, history, started>>
  BY DEF Crash, CallbackFails, AnswerLost
<1>2. BoundsTyped'
  BY <1>1, AccountsAssumption, TypeParts DEF BoundsTyped, Fault
<1>3. RowsTyped'
  BY Unmoved, StoreNewTyped, GoneTyped, SpendTyped DEF Crash, CallbackFails, AnswerLost
<1>4. Moves(r) /\ RequestsOK' /\ req'[r].pc \in {"idle", "issue"}
  <2>1. CASE Done(r)
    BY <2>1, DoneDoes, NoRequestIs
  <2>2. CASE Decide(r, "failed")
    BY <2>2, DecideDoes DEF NeedsUser, Outcomes
  <2>3. QED
    BY <2>1, <2>2 DEF Crash, CallbackFails, AnswerLost
<1>5. QED
  BY <1>1, <1>2, <1>3, <1>4, Unmoved, TypePartsNext DEF cookies

\* Every step keeps TypeInv.
LEMMA NextTyped == TypeInv /\ [Next]_vars => TypeInv'
<1> SUFFICES ASSUME TypeInv, [Next]_vars PROVE TypeInv'
  OBVIOUS
<1>1. CASE UNCHANGED vars
  BY <1>1, Unmoved, TypePartsNext DEF vars, cookies
<1>2. CASE \E b \in Browsers, f \in Flows : HandleStart(b, f) \/ HandleLinkStart(b, f)
  BY <1>2, FlowsMove
<1>3. CASE \E f \in Flows : FlowExpires(f)
  BY <1>3, FlowsMove
<1>4. CASE \/ \E b \in Browsers, u \in Users : HandleLogin(b, u)
           \/ \E b \in Browsers, m \in Mails, pw \in BOOLEAN : HandleUpdateUser(b, m, pw)
           \/ \E c \in Codes : CodeExpires(c)
  BY <1>4, OthersMove
<1>5. ASSUME NEW r \in Requests,
             \/ \E f \in Flows : HandleCallback(r, f)
             \/ \E b \in Browsers, c \in Codes : HandleExchange(r, b, c)
             \/ \E b \in Browsers : HandleDeleteUser(r, b) \/ HandleUnlink(r, b)
      PROVE  TypeInv'
  BY <1>5, CallbackArrives, ExchangeArrives, OwnerArrives
<1>6. ASSUME NEW r \in Requests, Step(r) PROVE TypeInv'
  BY <1>6, ProviderMoves, SignInMoves, RegistrationMoves, CommitNewMoves, LinkMoves, IssueMoves,
     RedeemMoves, RedeemCommitMoves, OwnerMoves, OwnerWrites DEF Step
<1>7. ASSUME NEW r \in Requests, Crash(r) \/ CallbackFails(r) \/ AnswerLost(r) PROVE TypeInv'
  BY <1>7, FaultMoves
<1>8. QED
  BY <1>1, <1>2, <1>3, <1>4, <1>5, <1>6, <1>7 DEF Next

\* Requests have filled in what they need where they stand.
THEOREM TypeInvHolds == Spec => []TypeInv
  BY InitTyped, NextTyped, PTL DEF Spec

\* Rows, cookies and requests keep their kinds, a code names a user exactly
\* where its result does, and the pool is never overdrawn.
THEOREM TypeCorrect == Spec => []TypeOK
<1>1. TypeInv => TypeOK
  BY DEF TypeInv
<1>2. QED
  BY <1>1, TypeInvHolds, PTL

-----------------------------------------------------------------------------
(* CodesInv.                                                                *)

\* No code becomes free again, or valid again, or valid for someone else; who
\* has shown who he is has done so.
CodesAge ==
    /\ \A c \in Codes : handoff[c].at # "free" =>
          /\ handoff'[c].at # "free"
          /\ GetLoginHandoff(c)' => GetLoginHandoff(c) /\ handoff'[c].browser = handoff[c].browser
    /\ \A b \in Browsers : proved[b] \subseteq proved'[b]

\* Requests that redeem have a code and a browser.
LEMMA RedeemerHas ==
    ASSUME TypeInv, NEW r \in Requests, req[r].pc \in Redeeming
    PROVE  req[r].code \in Codes /\ req[r].b \in Browsers
  BY DEF TypeInv, TypeOK, WellFormed, RequestRow

\* What a request knows of its code stays true, if nobody takes the row.
LEMMA RedeemStill ==
    ASSUME TypeInv, CodesInv, CodesAge, NEW x \in Requests, req'[x] = req[x],
           HasRow(req[x]) => GetLoginHandoff(req[x].code)'
    PROVE  GoodRedeem(req[x])'
<1>1. SUFFICES ASSUME req[x].pc \in Redeeming PROVE GoodRedeem(req[x])'
  BY DEF GoodRedeem
<1>2. req[x].code \in Codes /\ req[x].b \in Browsers
  BY <1>1, RedeemerHas
<1>3. GoodRedeem(req[x])
  BY DEF CodesInv
<1>4. QED
  BY <1>1, <1>2, <1>3 DEF GoodRedeem, CodesAge, GetLoginHandoff, HasRow

\* Nothing of CodesInv changes, but a request that does not come to redeem.
LEMMA Aside ==
    ASSUME TypeInv, TypeInv', CodesInv,
           UNCHANGED <<handoff, binder, session, history>>,
           UNCHANGED req \/ \E r \in Requests : Moves(r) /\ req'[r].pc \notin Redeeming
    PROVE  CodesInv'
<1>1. CodesAge
  BY DEF CodesAge, history, GetLoginHandoff
<1>2. ASSUME NEW x \in Requests PROVE req'[x] = req[x] \/ req'[x].pc \notin Redeeming
  BY DEF Moves
<1>3. ASSUME NEW x \in Requests PROVE GoodRedeem(req[x])'
  <2>1. CASE req'[x] = req[x]
    <3>1. HasRow(req[x]) => GetLoginHandoff(req[x].code)'
      BY <2>1 DEF CodesInv, GoodRedeem, GetLoginHandoff, HasRow, Redeeming
    <3>2. QED
      BY <1>1, <2>1, <3>1, RedeemStill
  <2>2. CASE req'[x].pc \notin Redeeming
    BY <2>2 DEF GoodRedeem
  <2>3. QED
    BY <1>2, <2>1, <2>2
<1>4. RowsApart'
  BY <1>2 DEF CodesInv, RowsApart, HasRow, Redeeming
<1>5. SessionProved' /\ RedeemedOnce' /\ CodeRows'
  BY DEF CodesInv, SessionProved, RedeemedOnce, CodeRows, history, GetLoginHandoff
<1>6. QED
  BY <1>3, <1>4, <1>5 DEF CodesInv

\* At the start no code is issued and no browser signed in.
LEMMA InitCodes == Init => CodesInv
<1> SUFFICES ASSUME Init PROVE CodesInv
  OBVIOUS
<1>1. SessionProved /\ RedeemedOnce
  BY DEF Init, SessionProved, RedeemedOnce
<1>2. CodeRows
  BY DEF Init, CodeRows, GetLoginHandoff, Deleted
<1>3. \A r \in Requests : req[r].pc = "idle"
  BY NoRequestIs DEF Init
<1>4. RowsApart /\ \A r \in Requests : GoodRedeem(req[r])
  BY <1>3 DEF RowsApart, HasRow, GoodRedeem, Redeeming
<1>5. QED
  BY <1>1, <1>2, <1>4 DEF CodesInv

\* A login shows the user's password here.
LEMMA LoginCodes ==
    ASSUME TypeInv, TypeInv', CodesInv, NEW b \in Browsers, NEW u \in Users, HandleLogin(b, u)
    PROVE  CodesInv'
<1>1. /\ session' = [session EXCEPT ![b] = u] /\ proved' = [proved EXCEPT ![b] = @ \cup {u}]
      /\ UNCHANGED <<handoff, binder, req, answered>>
  BY DEF HandleLogin, IssueToken, rows
<1>2. /\ \A x \in Browsers : session'[x] = IF x = b THEN u ELSE session[x]
      /\ \A x \in Browsers : proved'[x] = IF x = b THEN proved[x] \cup {u} ELSE proved[x]
  BY <1>1, TypeParts DEF CookiesTyped, HistoryTyped
<1>3. CodesAge
  BY <1>1, <1>2 DEF CodesAge, GetLoginHandoff
<1>4. ASSUME NEW x \in Requests PROVE GoodRedeem(req[x])'
  <2>1. HasRow(req[x]) => GetLoginHandoff(req[x].code)'
    BY <1>1 DEF CodesInv, GoodRedeem, GetLoginHandoff, HasRow, Redeeming
  <2>2. QED
    BY <1>1, <1>3, <2>1, RedeemStill
<1>5. RowsApart' /\ RedeemedOnce'
  BY <1>1 DEF CodesInv, RowsApart, HasRow, RedeemedOnce
<1>6. SessionProved'
  BY <1>2 DEF CodesInv, SessionProved
<1>7. CodeRows'
  <2>1. \A c \in Codes : handoff[c].browser \in Browsers \cup {None}
    BY TypeParts DEF RowsTyped
  <2>2. QED
    BY <1>1, <1>2, <2>1 DEF CodesInv, CodeRows, GetLoginHandoff
<1>8. QED
  BY <1>4, <1>5, <1>6, <1>7 DEF CodesInv

\* A code that is past its time still has its row.
LEMMA ExpiryCodes ==
    ASSUME TypeInv, TypeInv', CodesInv, NEW d \in Codes, CodeExpires(d)
    PROVE  CodesInv'
<1>1. /\ handoff[d].at = "live" /\ handoff' = [handoff EXCEPT ![d].at = "stale"]
      /\ UNCHANGED <<binder, session, req, history>>
  BY DEF CodeExpires, cookies
<1>2. \A c \in Codes : /\ handoff'[c].at = IF c = d THEN "stale" ELSE handoff[c].at
                       /\ handoff'[c].out = handoff[c].out
                       /\ handoff'[c].user = handoff[c].user
                       /\ handoff'[c].browser = handoff[c].browser
  BY <1>1, TypeParts DEF RowsTyped
<1>3. CodesAge
  BY <1>1, <1>2 DEF CodesAge, GetLoginHandoff, history
<1>4. ASSUME NEW x \in Requests PROVE GoodRedeem(req[x])'
  <2>1. HasRow(req[x]) => GetLoginHandoff(req[x].code)'
    BY <1>1, <1>2, RedeemerHas DEF CodesInv, GoodRedeem, GetLoginHandoff, HasRow, Redeeming
  <2>2. QED
    BY <1>1, <1>3, <2>1, RedeemStill
<1>5. RowsApart' /\ RedeemedOnce' /\ SessionProved'
  BY <1>1 DEF CodesInv, RowsApart, HasRow, RedeemedOnce, SessionProved, history
<1>6. CodeRows'
  <2>1. \A b \in Browsers : binder[b] \subseteq Codes
    BY TypeParts DEF CookiesTyped
  <2>2. QED
    BY <1>1, <1>2, <2>1 DEF CodesInv, CodeRows, GetLoginHandoff, history
<1>7. QED
  BY <1>4, <1>5, <1>6 DEF CodesInv

\* The end of a callback: a new code for this browser, old rows swept.
LEMMA IssueCodes ==
    ASSUME TypeInv, TypeInv', CodesInv, NEW r \in Requests, NEW c \in Codes,
           NEW swept \in SUBSET Codes, Issue(r, c, swept)
    PROVE  CodesInv'
<1> DEFINE q == req[r]
<1>1. /\ q.pc = "issue" /\ handoff[c].at = "free"
      /\ \A d \in swept : handoff[d].at = "stale" /\ ~HandoffHeld(r, d)
      /\ handoff' = [d \in Codes |-> IF d = c THEN HandoffRow(q)
                                     ELSE IF d \in swept THEN Deleted ELSE handoff[d]]
      /\ binder' = [binder EXCEPT ![q.b] = @ \cup {c}]
      /\ proved' = [proved EXCEPT ![q.b] = IF q.out = "signed_in" THEN @ \cup {q.user} ELSE @]
      /\ UNCHANGED <<session, answered>>
  BY DEF Issue, SetBinder, DiscardExpired
<1>2. Moves(r) /\ req'[r] = NoRequest
  BY IssueMoves
<1>3. /\ handoff'[c] = HandoffRow(q)
      /\ \A d \in swept : d # c /\ handoff'[d] = Deleted
      /\ \A d \in Codes : (d # c /\ d \notin swept) => handoff'[d] = handoff[d]
  BY <1>1
<1>4. /\ \A x \in Browsers : proved[x] \subseteq proved'[x]
      /\ (q.b \in Browsers /\ q.out = "signed_in") => q.user \in proved'[q.b]
      /\ \A x \in Browsers : binder'[x] \subseteq binder[x] \cup (IF x = q.b THEN {c} ELSE {})
  BY <1>1, TypeParts DEF CookiesTyped, HistoryTyped
<1>5. HandoffRow(q).at = "live" /\ HandoffRow(q).browser = q.b /\ HandoffRow(q).out = q.out
      /\ HandoffRow(q).user = q.user /\ Deleted.at = "gone"
  BY DEF HandoffRow, Deleted
<1>6. CodesAge
  BY <1>1, <1>3, <1>4, <1>5 DEF CodesAge, GetLoginHandoff
<1>7. ASSUME NEW x \in Requests PROVE GoodRedeem(req[x])'
  <2>1. CASE x = r
    BY <1>2, <2>1, NoRequestIs DEF GoodRedeem, Redeeming
  <2>2. CASE x # r
    <3>1. req'[x] = req[x]
      BY <1>2, <2>2 DEF Moves
    <3>2. ASSUME HasRow(req[x]) PROVE GetLoginHandoff(req[x].code)'
      <4>1. req[x].code \in Codes /\ GetLoginHandoff(req[x].code)
        BY <3>2, RedeemerHas DEF CodesInv, GoodRedeem, HasRow, Redeeming
      <4>2. req[x].code \notin swept
        BY <1>1, <2>2, <3>2 DEF HandoffHeld, HoldsHandoff, HasRow
      <4>3. req[x].code # c
        BY <1>1, <4>1 DEF GetLoginHandoff
      <4>4. QED
        BY <1>3, <3>1, <4>1, <4>2, <4>3 DEF GetLoginHandoff
    <3>3. QED
      BY <1>6, <3>1, <3>2, RedeemStill
  <2>3. QED
    BY <2>1, <2>2
<1>8. RowsApart'
  BY <1>2, NoRequestIs DEF CodesInv, RowsApart, HasRow, Moves
<1>9. RedeemedOnce' /\ SessionProved'
  BY <1>1, <1>4 DEF CodesInv, RedeemedOnce, SessionProved
<1>10. CodeRows'
  <2>1. \A d \in Codes : handoff'[d].at # "gone" => answered'[d] = 0
    BY <1>1, <1>3, <1>5 DEF CodesInv, CodeRows
  <2>2. ASSUME NEW b \in Browsers, NEW d \in binder'[b]
        PROVE  handoff'[d].at # "free" /\ (GetLoginHandoff(d)' => handoff'[d].browser = b)
    <3>1. CASE d = c
      <4>1. handoff[c].at = "free" => c \notin binder[b]
        BY DEF CodesInv, CodeRows
      <4>2. b = q.b
        BY <1>1, <1>4, <2>2, <3>1, <4>1
      <4>3. QED
        BY <1>3, <1>5, <3>1, <4>2
    <3>2. CASE d # c
      <4>1. d \in binder[b] /\ d \in Codes
        BY <1>4, <2>2, <3>2, TypeParts DEF CookiesTyped
      <4>2. handoff[d].at # "free" /\ (GetLoginHandoff(d) => handoff[d].browser = b)
        BY <4>1 DEF CodesInv, CodeRows
      <4>3. QED
        BY <1>6, <4>1, <4>2 DEF CodesAge
    <3>3. QED
      BY <3>1, <3>2
  <2>3. ASSUME NEW d \in Codes, GetLoginHandoff(d)', handoff'[d].out = "signed_in",
               handoff'[d].browser # None
        PROVE  handoff'[d].user \in proved'[handoff'[d].browser]
    <3>1. handoff'[d].browser \in Browsers
      BY <2>3, TypePartsNext DEF RowsTyped
    <3>2. CASE d = c
      BY <1>3, <1>4, <1>5, <2>3, <3>1, <3>2
    <3>3. CASE d # c
      <4>1. d \notin swept
        BY <1>3, <1>5, <2>3 DEF GetLoginHandoff
      <4>2. handoff'[d] = handoff[d]
        BY <1>3, <3>3, <4>1
      <4>3. handoff[d].user \in proved[handoff[d].browser]
        BY <2>3, <4>2 DEF CodesInv, CodeRows, GetLoginHandoff
      <4>4. QED
        BY <1>4, <3>1, <4>2, <4>3
    <3>4. QED
      BY <3>2, <3>3
  <2>4. QED
    BY <2>1, <2>2, <2>3 DEF CodeRows
<1>11. QED
  BY <1>7, <1>8, <1>9, <1>10 DEF CodesInv

\* A request to redeem arrives with what the browser holds of the code.
LEMMA ExchangeCodes ==
    ASSUME TypeInv, TypeInv', CodesInv, NEW r \in Requests, NEW b \in Browsers, NEW c \in Codes,
           HandleExchange(r, b, c)
    PROVE  CodesInv'
<1>1. /\ Moves(r) /\ req'[r].pc = "redeemBegin" /\ req'[r].b = b /\ req'[r].code = c
      /\ req'[r].flag <=> c \in binder[b]
  BY ExchangeArrives
<1>2. handoff[c].at # "free" /\ UNCHANGED <<rows, cookies, history>>
  BY DEF HandleExchange
<1>3. CodesAge
  BY <1>2 DEF CodesAge, GetLoginHandoff, rows, history
<1>4. ASSUME NEW x \in Requests PROVE GoodRedeem(req[x])'
  <2>1. CASE x = r
    <3>1. c \in binder[b] /\ GetLoginHandoff(c) => handoff[c].browser = b
      BY DEF CodesInv, CodeRows
    <3>2. QED
      BY <1>1, <1>2, <2>1, <3>1 DEF GoodRedeem, HasRow, GetLoginHandoff, rows
  <2>2. CASE x # r
    <3>1. req'[x] = req[x]
      BY <1>1, <2>2 DEF Moves
    <3>2. HasRow(req[x]) => GetLoginHandoff(req[x].code)'
      BY <1>2, <3>1 DEF CodesInv, GoodRedeem, GetLoginHandoff, HasRow, Redeeming, rows
    <3>3. QED
      BY <1>3, <3>1, <3>2, RedeemStill
  <2>3. QED
    BY <2>1, <2>2
<1>5. RowsApart'
  BY <1>1 DEF CodesInv, RowsApart, HasRow, Moves
<1>6. RedeemedOnce' /\ SessionProved' /\ CodeRows'
  BY <1>2 DEF CodesInv, RedeemedOnce, SessionProved, CodeRows, GetLoginHandoff, rows, cookies, history
<1>7. QED
  BY <1>4, <1>5, <1>6 DEF CodesInv

\* A binder that goes takes nothing from CodeRows.
LEMMA BinderCodes ==
    ASSUME TypeInv, CodesInv, NEW r \in Requests, ClearBinder(r) \/ UNCHANGED binder,
           UNCHANGED <<handoff, history>>
    PROVE  CodeRows'
<1>1. \A b \in Browsers : binder'[b] \subseteq binder[b]
  BY TypeParts DEF CookiesTyped, ClearBinder
<1>2. QED
  BY <1>1 DEF CodesInv, CodeRows, GetLoginHandoff, history

\* One request goes on with its code; the codes stay as they are.
LEMMA OnlyRedeemer ==
    ASSUME TypeInv, CodesInv, NEW r \in Requests, Moves(r), GoodRedeem(req[r])',
           HasRow(req'[r]) =>
               HasRow(req[r]) \/ \A s \in Requests \ {r} : HasRow(req[s]) => req[s].code # req[r].code,
           HasRow(req'[r]) => req'[r].code = req[r].code,
           ClearBinder(r) \/ UNCHANGED binder,
           UNCHANGED <<handoff, session, history>>
    PROVE  CodesInv'
<1>1. CodesAge
  BY DEF CodesAge, GetLoginHandoff, history
<1>2. ASSUME NEW x \in Requests, x # r PROVE GoodRedeem(req[x])'
  <2>1. req'[x] = req[x]
    BY <1>2 DEF Moves
  <2>2. HasRow(req[x]) => GetLoginHandoff(req[x].code)'
    BY <2>1 DEF CodesInv, GoodRedeem, GetLoginHandoff, HasRow, Redeeming
  <2>3. QED
    BY <1>1, <2>1, <2>2, RedeemStill
<1>3. RowsApart'
  BY DEF CodesInv, RowsApart, HasRow, Moves
<1>4. RedeemedOnce' /\ SessionProved'
  BY DEF CodesInv, RedeemedOnce, SessionProved, history
<1>5. CodeRows'
  BY BinderCodes
<1>6. QED
  BY <1>2, <1>3, <1>4, <1>5 DEF CodesInv

\* Up to its commit, a redeemer reads the row and lets no other one have it.
LEMMA RedeemCodes ==
    ASSUME TypeInv, TypeInv', CodesInv, NEW r \in Requests, RedeemBegin(r) \/ Lock(r) \/ RedeemUser(r)
    PROVE  CodesInv'
<1>1. Moves(r) /\ req[r].pc \in {"redeemBegin", "lock", "redeemUser"}
  BY RedeemMoves DEF RedeemBegin, Lock, RedeemUser
<1>2. /\ ClearBinder(r) \/ UNCHANGED binder
      /\ UNCHANGED <<handoff, session, history>>
  BY DEF RedeemBegin, Lock, RedeemUser, Reject, rows, cookies
<1>3. /\ req \in [Requests -> RequestRow] /\ req[r].code \in Codes /\ req[r].b \in Browsers
      /\ GoodRedeem(req[r])
  BY <1>1, RedeemerHas DEF TypeInv, TypeOK, CodesInv, Redeeming
<1>4. CASE Done(r)
  <2>1. ~HasRow(req'[r]) /\ GoodRedeem(req[r])'
    BY <1>4, DoneDoes, NoRequestIs DEF HasRow, GoodRedeem, Redeeming
  <2>2. QED
    BY <1>1, <1>2, <2>1, OnlyRedeemer
<1>5. CASE RedeemBegin(r) /\ Goto(r, "lock")
  <2>1. req'[r] = [req[r] EXCEPT !.pc = "lock"] /\ req[r].pc = "redeemBegin"
    BY <1>5, GotoDoes DEF RedeemBegin, Pcs, InTransaction
  <2>2. /\ req'[r].pc = "lock" /\ req'[r].code = req[r].code /\ req'[r].b = req[r].b
        /\ req'[r].flag = req[r].flag
    BY <1>3, <2>1 DEF RequestRow
  <2>3. GoodRedeem(req[r])'
    BY <1>2, <1>3, <2>1, <2>2 DEF GoodRedeem, Redeeming, HasRow, GetLoginHandoff
  <2>4. QED
    BY <1>1, <1>2, <2>2, <2>3, OnlyRedeemer DEF HasRow
<1>6. CASE Lock(r) /\ ~Done(r)
  <2> DEFINE h == handoff[req[r].code]
             pc == IF h.out = "signed_in" THEN "redeemUser" ELSE "redeemCommit"
  <2>1. /\ req' = [req EXCEPT ![r].pc = pc, ![r].out = h.out, ![r].user = h.user]
        /\ req[r].pc = "lock" /\ ~HandoffHeld(r, req[r].code)
        /\ GetLoginHandoff(req[r].code) /\ req[r].flag
    BY <1>6 DEF Lock, Reject, Locked, BoundTo
  <2>2. pc \in {"redeemUser", "redeemCommit"}
    OBVIOUS
  <2> HIDE DEF pc
  <2>3. /\ req'[r].pc = pc /\ req'[r].out = h.out /\ req'[r].user = h.user
        /\ req'[r].code = req[r].code /\ req'[r].b = req[r].b /\ req'[r].flag = req[r].flag
    BY <1>3, <2>1 DEF RequestRow
  <2>4. h.browser = req[r].b
    BY <1>3, <2>1 DEF GoodRedeem, Redeeming
  <2>5. h.out = "signed_in" => h.user \in proved[req[r].b]
    BY <1>3, <2>1, <2>4, AccountsAssumption DEF CodesInv, CodeRows
  <2>6. GoodRedeem(req[r])'
    BY <1>2, <1>3, <2>1, <2>2, <2>3, <2>4, <2>5
       DEF GoodRedeem, Redeeming, HasRow, GetLoginHandoff, history
  <2>7. \A s \in Requests \ {r} : HasRow(req[s]) => req[s].code # req[r].code
    BY <2>1 DEF HandoffHeld, HoldsHandoff, HasRow
  <2>8. QED
    BY <1>1, <1>2, <2>3, <2>6, <2>7, OnlyRedeemer
<1>7. CASE RedeemUser(r)
  <2> DEFINE o == IF GetActiveUserByID(req[r].user) THEN req[r].out ELSE "failed"
  <2>1. req' = [req EXCEPT ![r].pc = "redeemCommit", ![r].out = o] /\ req[r].pc = "redeemUser"
    BY <1>3, <1>7 DEF RedeemUser, RequestRow
  <2>2. o = "signed_in" => req[r].out = "signed_in"
    OBVIOUS
  <2> HIDE DEF o
  <2>3. /\ req'[r].pc = "redeemCommit" /\ req'[r].out = o /\ req'[r].user = req[r].user
        /\ req'[r].code = req[r].code /\ req'[r].b = req[r].b /\ req'[r].flag = req[r].flag
    BY <1>3, <2>1 DEF RequestRow
  <2>4. HasRow(req[r])
    BY <2>1 DEF HasRow
  <2>5. GoodRedeem(req[r])'
    BY <1>2, <1>3, <2>1, <2>2, <2>3, <2>4 DEF GoodRedeem, Redeeming, HasRow, GetLoginHandoff, history
  <2>6. QED
    BY <1>1, <1>2, <2>3, <2>4, <2>5, OnlyRedeemer
<1>8. QED
  BY <1>4, <1>5, <1>6, <1>7 DEF RedeemBegin, Reject

\* The row of a code goes, with an answer or with one that is lost.
LEMMA SpendCodes ==
    ASSUME TypeInv, TypeInv', CodesInv, NEW r \in Requests,
           RedeemCommit(r) \/ (req[r].pc = "redeemCommit" /\ Spend(r) /\ AnswerLost(r))
    PROVE  CodesInv'
<1> DEFINE q == req[r]
<1>1. /\ q.pc = "redeemCommit" /\ Done(r) /\ UNCHANGED proved
      /\ handoff' = [handoff EXCEPT ![q.code] = Deleted]
  BY DEF RedeemCommit, AnswerLost, Spend, history
<1>2. /\ q.code \in Codes /\ q.b \in Browsers /\ GetLoginHandoff(q.code)
      /\ q.out = "signed_in" => q.user \in proved[q.b]
  BY <1>1, RedeemerHas DEF CodesInv, GoodRedeem, HasRow, Redeeming
<1>3. Moves(r) /\ req'[r] = NoRequest
  BY <1>1, DoneDoes
<1>4. /\ handoff'[q.code].at = "gone"
      /\ \A c \in Codes : c # q.code => handoff'[c] = handoff[c]
  BY <1>1, <1>2, TypeParts DEF RowsTyped, Deleted
<1>5. CodesAge
  BY <1>1, <1>4 DEF CodesAge, GetLoginHandoff
<1>6. ASSUME NEW x \in Requests PROVE GoodRedeem(req[x])'
  <2>1. CASE x = r
    BY <1>3, <2>1, NoRequestIs DEF GoodRedeem, Redeeming
  <2>2. CASE x # r
    <3>1. req'[x] = req[x]
      BY <1>3, <2>2 DEF Moves
    <3>2. ASSUME HasRow(req[x]) PROVE GetLoginHandoff(req[x].code)'
      <4>1. req[x].code \in Codes /\ GetLoginHandoff(req[x].code)
        BY <3>2, RedeemerHas DEF CodesInv, GoodRedeem, HasRow, Redeeming
      <4>2. req[x].code # q.code
        BY <1>1, <2>2, <3>2 DEF CodesInv, RowsApart, HasRow
      <4>3. QED
        BY <1>4, <3>1, <4>1, <4>2 DEF GetLoginHandoff
    <3>3. QED
      BY <1>5, <3>1, <3>2, RedeemStill
  <2>3. QED
    BY <2>1, <2>2
<1>7. RowsApart'
  BY <1>3, NoRequestIs DEF CodesInv, RowsApart, HasRow, Moves
<1>8. answered[q.code] = 0
  BY <1>2 DEF CodesInv, CodeRows, GetLoginHandoff
<1>9. \A c \in Codes : answered'[c] = answered[c] \/ (c = q.code /\ answered'[c] = 1)
  BY <1>2, <1>8, TypeParts DEF HistoryTyped, RedeemCommit, AnswerLost, history
<1>10. RedeemedOnce'
  BY <1>9 DEF CodesInv, RedeemedOnce
<1>11. SessionProved'
  BY <1>1, <1>2, TypeParts DEF CodesInv, SessionProved, CookiesTyped, RedeemCommit, IssueToken,
                            AnswerLost, cookies
<1>12. CodeRows'
  <2>1. \A b \in Browsers : binder'[b] \subseteq binder[b] /\ binder[b] \subseteq Codes
    BY TypeParts DEF CookiesTyped, RedeemCommit, ClearBinder, AnswerLost, cookies
  <2>2. \A c \in Codes : handoff'[c].at # "gone" => answered'[c] = 0
    BY <1>4, <1>9 DEF CodesInv, CodeRows
  <2>3. QED
    BY <1>1, <1>4, <1>5, <2>1, <2>2 DEF CodesInv, CodeRows, CodesAge, GetLoginHandoff
<1>13. QED
  BY <1>6, <1>7, <1>10, <1>11, <1>12 DEF CodesInv

\* Every step keeps CodesInv.
LEMMA NextCodes == TypeInv /\ TypeInv' /\ CodesInv /\ [Next]_vars => CodesInv'
<1> SUFFICES ASSUME TypeInv, TypeInv', CodesInv, [Next]_vars PROVE CodesInv'
  OBVIOUS
<1>1. CASE UNCHANGED vars
  BY <1>1, Aside DEF vars, rows, cookies
<1>2. CASE \/ \E b \in Browsers, f \in Flows : HandleStart(b, f) \/ HandleLinkStart(b, f)
           \/ \E f \in Flows : FlowExpires(f)
           \/ \E b \in Browsers, m \in Mails, pw \in BOOLEAN : HandleUpdateUser(b, m, pw)
  <2>1. UNCHANGED <<handoff, binder, session, history, req>>
    BY <1>2 DEF HandleStart, HandleLinkStart, Begin, FlowExpires, HandleUpdateUser, rows, cookies
  <2>2. QED
    BY <2>1, Aside
<1>3. CASE \E b \in Browsers, u \in Users : HandleLogin(b, u)
  BY <1>3, LoginCodes
<1>4. CASE \E c \in Codes : CodeExpires(c)
  BY <1>4, ExpiryCodes
<1>5. ASSUME NEW r \in Requests,
             \/ \E f \in Flows : HandleCallback(r, f)
             \/ \E b \in Browsers : HandleDeleteUser(r, b) \/ HandleUnlink(r, b)
      PROVE  CodesInv'
  <2>1. Moves(r) /\ req'[r].pc \notin Redeeming
    BY <1>5, CallbackArrives, OwnerArrives DEF Redeeming
  <2>2. UNCHANGED <<handoff, binder, session, history>>
    BY <1>5 DEF HandleCallback, HandleDeleteUser, HandleUnlink, rows, cookies
  <2>3. QED
    BY <2>1, <2>2, Aside
<1>6. ASSUME NEW r \in Requests, NEW b \in Browsers, NEW c \in Codes, HandleExchange(r, b, c)
      PROVE  CodesInv'
  BY <1>6, ExchangeCodes
<1>7. ASSUME NEW r \in Requests, Step(r) PROVE CodesInv'
  <2>1. CASE \/ Refuse(r) \/ \E g \in Subjects, m \in Mails : Exchange(r, g, m)
             \/ SignInLinked(r) \/ SignInUser(r) \/ BeginNew(r)
             \/ CreateUser(r) \/ CreateIdentity(r) \/ CommitNew(r)
             \/ LinkUser(r) \/ LinkRead(r) \/ LinkInsert(r)
             \/ DeleteBegin(r) \/ DiscardUser(r) \/ DiscardAll(r) \/ CommitGone(r)
             \/ UnlinkList(r) \/ UnlinkCheck(r) \/ Unlink(r)
    <3>1. Moves(r) /\ req'[r].pc \notin Redeeming
      BY <2>1, ProviderMoves, SignInMoves, RegistrationMoves, CommitNewMoves, LinkMoves, OwnerMoves,
         OwnerWrites, NoRequestIs DEF Redeeming
    <3>2. UNCHANGED <<handoff, binder, session, history>>
      BY <2>1 DEF Refuse, Exchange, SignInLinked, SignInUser, BeginNew, CreateUser, CreateIdentity,
                  CommitNew, StoreNew, LinkUser, LinkRead, LinkInsert, DeleteBegin, DiscardUser,
                  DiscardAll, CommitGone, StoreGone, UnlinkList, UnlinkCheck, Unlink, rows, cookies
    <3>3. QED
      BY <3>1, <3>2, Aside
  <2>2. CASE \E c \in Codes, swept \in SUBSET Codes : Issue(r, c, swept)
    BY <2>2, IssueCodes
  <2>3. CASE RedeemBegin(r) \/ Lock(r) \/ RedeemUser(r)
    BY <2>3, RedeemCodes
  <2>4. CASE RedeemCommit(r)
    BY <2>4, SpendCodes
  <2>5. QED
    BY <1>7, <2>1, <2>2, <2>3, <2>4 DEF Step
<1>8. ASSUME NEW r \in Requests, Crash(r) \/ CallbackFails(r) \/ AnswerLost(r) PROVE CodesInv'
  <2>1. CASE AnswerLost(r) /\ req[r].pc = "redeemCommit" /\ Spend(r)
    BY <2>1, SpendCodes
  <2>2. CASE ~(AnswerLost(r) /\ req[r].pc = "redeemCommit" /\ Spend(r))
    <3>1. Moves(r) /\ req'[r].pc \notin Redeeming
      BY <1>8, FaultMoves DEF Redeeming
    <3>2. UNCHANGED <<handoff, binder, session, history>>
      BY <1>8, <2>2 DEF Crash, CallbackFails, AnswerLost, StoreNew, StoreGone, rows, cookies
    <3>3. QED
      BY <3>1, <3>2, Aside
  <2>3. QED
    BY <2>1, <2>2
<1>9. QED
  BY <1>1, <1>2, <1>3, <1>4, <1>5, <1>6, <1>7, <1>8 DEF Next

\* The codes, their binders and the requests that redeem them agree.
THEOREM CodesInvHolds == Spec => []CodesInv
  BY InitCodes, NextCodes, TypeInvHolds, PTL DEF Spec

\* A browser holds the token of a user only after this browser showed the
\* password of that user or ended a flow as that user.
THEOREM SessionsProved == Spec => []SessionProved
<1>1. CodesInv => SessionProved
  BY DEF CodesInv
<1>2. QED
  BY <1>1, CodesInvHolds, PTL

\* A code is answered with a token at most once.
THEOREM CodesRedeemedOnce == Spec => []RedeemedOnce
<1>1. CodesInv => RedeemedOnce
  BY DEF CodesInv
<1>2. QED
  BY <1>1, CodesInvHolds, PTL

\* Who deletes the row of a code, by sweeping it or by redeeming it.
LEMMA RowGoes ==
    ASSUME TypeInv, [Next]_vars, NEW c \in Codes, handoff[c].at = "live", handoff'[c].at = "gone"
    PROVE  \E r \in Requests : req[r].pc = "redeemCommit" /\ req[r].code = c
<1>1. PICK r \in Requests :
          \/ \E d \in Codes, swept \in SUBSET Codes : Issue(r, d, swept)
          \/ RedeemCommit(r) /\ req[r].pc = "redeemCommit" /\ Spend(r)
          \/ AnswerLost(r) /\ req[r].pc = "redeemCommit" /\ Spend(r)
  <2>1. handoff' # handoff
    OBVIOUS
  <2>2. ~\E d \in Codes : CodeExpires(d)
    <3>1. SUFFICES ASSUME NEW d \in Codes, CodeExpires(d) PROVE FALSE
      OBVIOUS
    <3>2. handoff' = [handoff EXCEPT ![d].at = "stale"] /\ RowsTyped
      BY <3>1, TypeParts DEF CodeExpires
    <3>3. handoff'[c].at \in {"live", "stale"}
      BY <3>2 DEF RowsTyped
    <3>4. QED
      BY <3>3
  <2>3. ~UNCHANGED vars
    BY <2>1 DEF vars, rows
  <2>4. PICK r \in Requests : Step(r) \/ Crash(r) \/ CallbackFails(r) \/ AnswerLost(r)
    BY <2>1, <2>2, <2>3 DEF Next, HandleStart, HandleLinkStart, Begin, FlowExpires, HandleLogin,
       HandleUpdateUser, HandleCallback, HandleExchange, HandleDeleteUser, HandleUnlink, rows
  <2>5. CASE Step(r)
    BY <2>1, <2>5 DEF Step, Refuse, Exchange, SignInLinked, SignInUser, BeginNew, CreateUser,
       CreateIdentity, CommitNew, StoreNew, LinkUser, LinkRead, LinkInsert, DeleteBegin, DiscardUser,
       DiscardAll, CommitGone, StoreGone, UnlinkList, UnlinkCheck, Unlink, RedeemBegin, Lock, Reject,
       RedeemUser, RedeemCommit, rows
  <2>6. CASE Crash(r) \/ CallbackFails(r) \/ AnswerLost(r)
    BY <2>1, <2>6 DEF Crash, CallbackFails, AnswerLost, StoreNew, StoreGone, rows
  <2>7. QED
    BY <2>4, <2>5, <2>6
<1>2. ASSUME NEW d \in Codes, NEW swept \in SUBSET Codes, Issue(r, d, swept) PROVE FALSE
  <2>1. /\ handoff[d].at = "free" /\ \A e \in swept : handoff[e].at = "stale"
        /\ handoff' = [e \in Codes |-> IF e = d THEN HandoffRow(req[r])
                                       ELSE IF e \in swept THEN Deleted ELSE handoff[e]]
    BY <1>2 DEF Issue, DiscardExpired
  <2>2. c # d /\ c \notin swept
    BY <2>1
  <2>3. handoff'[c] = handoff[c]
    BY <2>1, <2>2
  <2>4. QED
    BY <2>3
<1>3. req[r].pc = "redeemCommit" /\ Spend(r)
  BY <1>1, <1>2
<1>4. req[r].code = c
  <2>1. handoff' = [handoff EXCEPT ![req[r].code] = Deleted]
    BY <1>3 DEF Spend
  <2>2. QED
    BY <2>1, TypeParts DEF RowsTyped
<1>5. QED
  BY <1>3, <1>4

\* Only its own browser uses up a code that is still valid.
THEOREM CodesKept == Spec => CodeKept
<1>1. ASSUME TypeInv, CodesInv, [Next]_vars, NEW c \in Codes,
             handoff[c].at = "live" /\ handoff'[c].at = "gone"
      PROVE  \E r \in Requests : req[r].code = c /\ req[r].b = handoff[c].browser
  <2>1. PICK r \in Requests : req[r].pc = "redeemCommit" /\ req[r].code = c
    BY <1>1, RowGoes
  <2>2. handoff[c].browser = req[r].b
    BY <1>1, <2>1 DEF CodesInv, GoodRedeem, Redeeming, HasRow
  <2>3. QED
    BY <2>1, <2>2
<1>2. TypeInv /\ CodesInv /\ [Next]_vars =>
          [\A c \in Codes : handoff[c].at = "live" /\ handoff'[c].at = "gone" =>
              \E r \in Requests : req[r].code = c /\ req[r].b = handoff[c].browser]_vars
  BY <1>1
<1>3. QED
  BY <1>2, TypeInvHolds, CodesInvHolds, PTL DEF Spec, CodeKept

-----------------------------------------------------------------------------
(* RowsInv.                                                                 *)

\* Users stay, and keep their passwords.
UsersStay ==
    \A u \in Users : user[u].at # "none" =>
        user'[u].at # "none" /\ (user[u].pw => user'[u].pw)

\* Request x still finds the rows that it counts on.
StillThere(x) ==
    /\ NewRow(x) => user'[req[x].user].at = "none"
    /\ req[x].pc = "commitNew" => link'[req[x].sub] = None
    /\ req[x].pc = "commitGone" /\ req[x].sub # None => link'[req[x].sub] = link[req[x].sub]

\* What a writing request has filled in.
LEMMA WriterHas ==
    ASSUME TypeInv, NEW r \in Requests
    PROVE  /\ req[r].pc \in Writing => req[r].user \in Users
           /\ req[r].pc = "commitNew" => req[r].sub \in Subjects
           /\ req[r].sub \in Subjects \cup {None}
  BY DEF TypeInv, TypeOK, WellFormed, AfterExchange, WithUser, Writing, RequestRow

\* A request that does not move and finds its rows counts on them.
LEMMA CountsStill ==
    ASSUME TypeInv, RowsInv, UsersStay, NEW x \in Requests, req'[x] = req[x], StillThere(x)
    PROVE  Counts(x)'
<1>1. Counts(x)
  BY DEF RowsInv
<1>2. req[x].pc \in Writing => req[x].user \in Users
  BY WriterHas
<1>3. NewRow(x)' => user'[req'[x].user].at = "none"
  BY DEF StillThere, NewRow
<1>4. GoneRow(x)' => user'[req'[x].user].at # "none"
  BY <1>1, <1>2 DEF Counts, UsersStay, GoneRow, Writing
<1>5. req'[x].pc = "unlink" => user'[req'[x].user].at # "none" /\ user'[req'[x].user].pw
  BY <1>1, <1>2 DEF Counts, UsersStay, Writing
<1>6. req'[x].pc = "commitGone" /\ req'[x].sub # None => link'[req'[x].sub] = req'[x].user
  BY <1>1 DEF Counts, StillThere
<1>7. req'[x].pc = "commitNew" => link'[req'[x].sub] = None
  BY DEF StillThere
<1>8. QED
  BY <1>3, <1>4, <1>5, <1>6, <1>7 DEF Counts

\* Requests r and s do not write the same row.
Apart(r, s) ==
    /\ NewRow(r) /\ NewRow(s) => req[r].user # req[s].user
    /\ req[r].pc = "commitNew" /\ req[s].pc = "commitNew" => req[r].sub # req[s].sub
    /\ GoneRow(r) /\ GoneRow(s) => req[r].user # req[s].user

\* Request r moves, and all the others find their rows.
LEMMA OneWrites ==
    ASSUME TypeInv, RowsInv, UsersStay, NEW r \in Requests, Moves(r), Counts(r)',
           \A x \in Requests : x # r => StillThere(x) /\ Apart(r, x)',
           WayIn'
    PROVE  RowsInv'
<1>1. ASSUME NEW x \in Requests PROVE Counts(x)'
  BY CountsStill DEF Moves
<1>2. ASSUME NEW x \in Requests, NEW y \in Requests, x # y PROVE Apart(x, y)'
  <2>1. CASE x = r
    BY <1>2, <2>1
  <2>2. CASE y = r
    BY <1>2, <2>2 DEF Apart
  <2>3. CASE x # r /\ y # r
    <3>1. req'[x] = req[x] /\ req'[y] = req[y]
      BY <2>3 DEF Moves
    <3>2. Apart(x, y)
      BY <1>2 DEF RowsInv, WritesApart, Apart
    <3>3. QED
      BY <3>1, <3>2 DEF Apart, NewRow, GoneRow
  <2>4. QED
    BY <2>1, <2>2, <2>3
<1>3. WritesApart'
  BY <1>2 DEF WritesApart, Apart
<1>4. QED
  BY <1>1, <1>3 DEF RowsInv

\* A request that does not write is apart from all, and counts on nothing.
LEMMA NotWriting ==
    ASSUME NEW r \in Requests, req'[r].pc \notin Writing
    PROVE  Counts(r)' /\ \A x \in Requests : Apart(r, x)'
  BY DEF Counts, Apart, NewRow, GoneRow, Writing

\* The rows stay as they are.
LEMMA SameRows ==
    ASSUME TypeInv, RowsInv, UNCHANGED <<user, link>>
    PROVE  UsersStay /\ (\A x \in Requests : StillThere(x)) /\ WayIn'
<1>1. UsersStay
  BY DEF UsersStay
<1>2. \A x \in Requests : StillThere(x)
  BY DEF RowsInv, Counts, StillThere
<1>3. WayIn'
  BY DEF RowsInv, WayIn, ListIdentitiesByUser
<1>4. QED
  BY <1>1, <1>2, <1>3

\* No row changes, and a request goes on that does not write.
LEMMA Beside ==
    ASSUME TypeInv, RowsInv, UNCHANGED <<user, link>>,
           UNCHANGED req \/ \E r \in Requests : Moves(r) /\ req'[r].pc \notin Writing
    PROVE  RowsInv'
<1>1. UsersStay /\ (\A x \in Requests : StillThere(x)) /\ WayIn'
  BY SameRows
<1>2. CASE UNCHANGED req
  <2>1. \A x \in Requests : Counts(x)'
    BY <1>1, <1>2, CountsStill
  <2>2. WritesApart'
    BY <1>2 DEF RowsInv, WritesApart, NewRow, GoneRow
  <2>3. QED
    BY <1>1, <2>1, <2>2 DEF RowsInv
<1>3. CASE \E r \in Requests : Moves(r) /\ req'[r].pc \notin Writing
  BY <1>1, <1>3, NotWriting, OneWrites
<1>4. QED
  BY <1>2, <1>3

\* At the start the registered users have passwords.
LEMMA InitRows == Init => RowsInv
<1> SUFFICES ASSUME Init PROVE RowsInv
  OBVIOUS
<1>1. WayIn
  BY DEF Init, WayIn
<1>2. \A r \in Requests : req[r].pc = "idle"
  BY NoRequestIs DEF Init
<1>3. WritesApart /\ \A r \in Requests : Counts(r)
  BY <1>2 DEF WritesApart, Counts, NewRow, GoneRow
<1>4. QED
  BY <1>1, <1>3 DEF RowsInv

\* A profile keeps its user and its password.
LEMMA ProfileRows ==
    ASSUME TypeInv, RowsInv, NEW b \in Browsers, NEW m \in Mails, NEW pw \in BOOLEAN,
           HandleUpdateUser(b, m, pw)
    PROVE  RowsInv'
<1> DEFINE v == Viewer(b)
<1>1. v \in Users /\ user[v].at = "active"
  BY ViewerIs DEF HandleUpdateUser
<1>2. user' = [user EXCEPT ![v] = SetPassword(SetMail(user[v], m), pw)] /\ UNCHANGED <<link, req>>
  BY DEF HandleUpdateUser, UpdateUserProfile
<1>3. user \in [Users -> [at : {"none", "active", "gone"}, mail : Mails \cup {None}, pw : BOOLEAN]]
  BY TypeParts DEF RowsTyped
<1>4. /\ SetPassword(SetMail(user[v], m), pw).at = "active"
      /\ user[v].pw => SetPassword(SetMail(user[v], m), pw).pw
  BY <1>1, <1>3 DEF SetPassword, SetMail
<1> HIDE DEF v
<1>5. /\ user'[v].at = "active" /\ (user[v].pw => user'[v].pw)
      /\ \A u \in Users : u # v => user'[u] = user[u]
  BY <1>1, <1>2, <1>3, <1>4
<1>6. UsersStay
  BY <1>1, <1>5 DEF UsersStay
<1>7. ASSUME NEW x \in Requests PROVE Counts(x)'
  <2>1. NewRow(x) => req[x].user \in Users /\ user[req[x].user].at = "none"
    BY WriterHas DEF RowsInv, Counts, NewRow, Writing
  <2>2. StillThere(x)
    BY <1>1, <1>2, <1>5, <2>1 DEF RowsInv, Counts, StillThere
  <2>3. QED
    BY <1>2, <1>6, <2>2, CountsStill
<1>8. WritesApart'
  BY <1>2 DEF RowsInv, WritesApart, NewRow, GoneRow
<1>9. WayIn'
  BY <1>1, <1>2, <1>5 DEF RowsInv, WayIn, ListIdentitiesByUser
<1>10. QED
  BY <1>7, <1>8, <1>9 DEF RowsInv

\* A transaction takes hold of a row that no other one has.
LEMMA TakesHold ==
    ASSUME TypeInv, TypeInv', RowsInv, NEW r \in Requests,
           CreateUser(r) \/ CreateIdentity(r) \/ DiscardUser(r) \/ DiscardAll(r) \/ UnlinkCheck(r)
    PROVE  RowsInv'
<1>1. UNCHANGED <<user, link>> /\ Moves(r)
  BY RegistrationMoves, OwnerMoves
     DEF CreateUser, CreateIdentity, DiscardUser, DiscardAll, UnlinkCheck, rows
<1>2. UsersStay /\ (\A x \in Requests : StillThere(x)) /\ WayIn'
  BY <1>1, SameRows
<1>3. req \in [Requests -> RequestRow] /\ WellFormed(req[r])
  BY DEF TypeInv, TypeOK
<1>4. SUFFICES Counts(r)' /\ \A x \in Requests : x # r => Apart(r, x)'
  BY <1>1, <1>2, OneWrites
<1>5. CASE req'[r].pc \notin Writing
  BY <1>5, NotWriting
<1>6. CASE CreateUser(r) /\ req'[r].pc \in Writing
  <2>1. PICK u \in Users :
            /\ user[u].at = "none" /\ \A s \in Requests : NewRow(s) => req[s].user # u
            /\ req' = [req EXCEPT ![r].pc = "createIdentity", ![r].user = u]
    <3>1. ~Lost(r, "account_exists")
      <4>1. req[r].pc \in AfterExchange
        BY <1>6 DEF CreateUser, AfterExchange
      <4>2. QED
        BY <1>6, <4>1, LostDoes DEF Writing, Outcomes, NeedsUser
    <3>2. QED
      BY <1>6, <3>1 DEF CreateUser
  <2>2. req'[r].pc = "createIdentity" /\ req'[r].user = u
    BY <1>3, <2>1 DEF RequestRow
  <2>3. Counts(r)'
    BY <1>1, <2>1, <2>2 DEF Counts, NewRow, GoneRow
  <2>4. \A x \in Requests : x # r => Apart(r, x)'
    BY <1>1, <2>1, <2>2 DEF Apart, NewRow, GoneRow, Moves
  <2>5. QED
    BY <2>3, <2>4
<1>7. CASE CreateIdentity(r) /\ req'[r].pc \in Writing
  <2>1. ~Lost(r, "failed")
    <3>1. req[r].pc \in AfterExchange
      BY <1>7 DEF CreateIdentity, AfterExchange
    <3>2. QED
      BY <1>7, <3>1, LostDoes DEF Writing, Outcomes, NeedsUser
  <2>2. /\ req[r].pc = "createIdentity" /\ ~IdentityHeld(r, req[r].sub, req[r].user)
        /\ link[req[r].sub] = None /\ Goto(r, "commitNew")
    BY <1>7, <2>1 DEF CreateIdentity, IdentityTaken
  <2>3. req'[r] = [req[r] EXCEPT !.pc = "commitNew"]
    BY <2>2, GotoDoes DEF Pcs, InTransaction
  <2>4. req'[r].pc = "commitNew" /\ req'[r].user = req[r].user /\ req'[r].sub = req[r].sub
    BY <1>3, <2>3 DEF RequestRow
  <2>5. Counts(r) /\ \A x \in Requests : x # r => Apart(r, x)
    BY DEF RowsInv, WritesApart, Apart
  <2>6. Counts(r)'
    BY <1>1, <2>2, <2>4, <2>5 DEF Counts, NewRow, GoneRow
  <2>7. ASSUME NEW x \in Requests, x # r PROVE Apart(r, x)'
    <3>1. req'[x] = req[x] /\ Apart(r, x)
      BY <1>1, <2>5, <2>7 DEF Moves
    <3>2. req[x].pc = "commitNew" => req[x].sub # req[r].sub
      BY <2>2, <2>7 DEF IdentityHeld, HoldsIdentity
    <3>3. QED
      BY <2>2, <2>4, <3>1, <3>2 DEF Apart, NewRow, GoneRow
  <2>8. QED
    BY <2>6, <2>7
<1>8. CASE DiscardUser(r) /\ req'[r].pc \in Writing
  <2>1. ~Done(r)
    BY <1>8, DoneDoes, NoRequestIs DEF Writing
  <2>2. /\ req[r].pc = "discard" /\ ~UserHeld(r, req[r].user) /\ Goto(r, "discardLinks")
        /\ user[req[r].user].at = "active"
    BY <1>8, <2>1 DEF DiscardUser, GetActiveUserByID
  <2>3. req'[r] = [req[r] EXCEPT !.pc = "discardLinks"]
    BY <2>2, GotoDoes DEF Pcs, InTransaction
  <2>4. req'[r].pc = "discardLinks" /\ req'[r].user = req[r].user
    BY <1>3, <2>3 DEF RequestRow
  <2>5. Counts(r)'
    BY <1>1, <2>2, <2>4 DEF Counts, NewRow, GoneRow
  <2>6. \A x \in Requests : x # r => Apart(r, x)'
    BY <1>1, <2>2, <2>4 DEF Apart, NewRow, GoneRow, UserHeld, HoldsUser, Moves
  <2>7. QED
    BY <2>5, <2>6
<1>9. CASE DiscardAll(r)
  <2> DEFINE seen == ListIdentitiesByUser(req[r].user)
             g == IF seen = {} THEN None ELSE CHOOSE x \in seen : TRUE
  <2>1. req' = [req EXCEPT ![r].pc = "commitGone", ![r].sub = g] /\ req[r].pc = "discardLinks"
    BY <1>9 DEF DiscardAll
  <2>2. g # None => link[g] = req[r].user
    BY DEF ListIdentitiesByUser
  <2> HIDE DEF g
  <2>3. req'[r].pc = "commitGone" /\ req'[r].user = req[r].user /\ req'[r].sub = g
    BY <1>3, <2>1 DEF RequestRow
  <2>4. Counts(r) /\ GoneRow(r) /\ \A x \in Requests : x # r => Apart(r, x)
    BY <2>1 DEF RowsInv, WritesApart, Apart, GoneRow
  <2>5. Counts(r)'
    BY <1>1, <2>2, <2>3, <2>4 DEF Counts, NewRow, GoneRow
  <2>6. \A x \in Requests : x # r => Apart(r, x)'
    BY <1>1, <2>3, <2>4 DEF Apart, NewRow, GoneRow, Moves
  <2>7. QED
    BY <2>5, <2>6
<1>10. CASE UnlinkCheck(r) /\ req'[r].pc \in Writing
  <2>1. ~Done(r)
    BY <1>10, DoneDoes, NoRequestIs DEF Writing
  <2>2. /\ Goto(r, "unlink") /\ user[req[r].user].at = "active" /\ user[req[r].user].pw
    BY <1>10, <2>1 DEF UnlinkCheck, GetActiveUserByID, CanUnlinkIdentity
  <2>3. req'[r] = [req[r] EXCEPT !.pc = "unlink"]
    BY <2>2, GotoDoes DEF Pcs
  <2>4. req'[r].pc = "unlink" /\ req'[r].user = req[r].user
    BY <1>3, <2>3 DEF RequestRow
  <2>5. Counts(r)'
    BY <1>1, <2>2, <2>4 DEF Counts, NewRow, GoneRow
  <2>6. \A x \in Requests : Apart(r, x)'
    BY <2>4 DEF Apart, NewRow, GoneRow
  <2>7. QED
    BY <2>5, <2>6
<1>11. QED
  BY <1>5, <1>6, <1>7, <1>8, <1>9, <1>10

\* A new user and its link: the subject was nobody's.
LEMMA StoreNewRows ==
    ASSUME TypeInv, RowsInv, NEW r \in Requests, req[r].pc = "commitNew", StoreNew(r),
           Moves(r), req'[r].pc \notin Writing
    PROVE  RowsInv'
<1> DEFINE u == req[r].user
           g == req[r].sub
<1>1. u \in Users /\ g \in Subjects /\ link[g] = None /\ user[u].at = "none"
  BY WriterHas DEF Writing, RowsInv, Counts, NewRow
<1>2. user' = [user EXCEPT ![u] = UserRow(req[r].mail)] /\ link' = [link EXCEPT ![g] = u]
  BY DEF StoreNew, InsertIdentity
<1> HIDE DEF u, g
<1>3. /\ link'[g] = u /\ \A x \in Subjects : x # g => link'[x] = link[x]
      /\ \A x \in Users : x # u => user'[x] = user[x]
      /\ user \in [Users -> [at : {"none", "active", "gone"}, mail : Mails \cup {None}, pw : BOOLEAN]]
  BY <1>1, <1>2, TypeParts DEF RowsTyped
<1>4. UsersStay
  BY <1>1, <1>3 DEF UsersStay
<1>5. ASSUME NEW x \in Requests, x # r PROVE StillThere(x)
  <2>1. Apart(r, x) /\ Counts(x)
    BY <1>5 DEF RowsInv, WritesApart, Apart
  <2>2. NewRow(r) /\ (NewRow(x) => req[x].user \in Users /\ req[x].user # u)
    BY <2>1, WriterHas DEF Apart, NewRow, Writing, u
  <2>3. NewRow(x) => user'[req[x].user].at = "none"
    BY <1>3, <2>1, <2>2 DEF Counts
  <2>4. req[x].pc = "commitNew" => link'[req[x].sub] = None
    BY <1>3, <2>1, WriterHas DEF Apart, Counts, g
  <2>5. req[x].pc = "commitGone" /\ req[x].sub # None => link'[req[x].sub] = link[req[x].sub]
    <3>1. SUFFICES ASSUME req[x].pc = "commitGone", req[x].sub # None
                   PROVE  link'[req[x].sub] = link[req[x].sub]
      OBVIOUS
    <3>2. link[req[x].sub] # None
      BY <2>1, <3>1, WriterHas, AccountsAssumption DEF Counts, Writing
    <3>3. QED
      BY <1>1, <1>3, <3>1, <3>2, WriterHas
  <2>6. QED
    BY <2>3, <2>4, <2>5 DEF StillThere
<1>6. WayIn'
  <2>1. ASSUME NEW x \in Users, user'[x].at = "active", ~user'[x].pw
        PROVE  ListIdentitiesByUser(x)' # {}
    <3>1. CASE x = u
      <4>1. g \in ListIdentitiesByUser(x)'
        BY <1>1, <1>3, <3>1 DEF ListIdentitiesByUser
      <4>2. QED
        BY <4>1
    <3>2. CASE x # u
      <4>1. PICK y \in Subjects : link[y] = x
        BY <1>3, <2>1, <3>2 DEF RowsInv, WayIn, ListIdentitiesByUser
      <4>2. y # g
        BY <1>1, <4>1, AccountsAssumption
      <4>3. y \in ListIdentitiesByUser(x)'
        BY <1>3, <4>1, <4>2 DEF ListIdentitiesByUser
      <4>4. QED
        BY <4>3
    <3>3. QED
      BY <3>1, <3>2
  <2>2. QED
    BY <2>1 DEF WayIn
<1>7. QED
  BY <1>4, <1>5, <1>6, NotWriting, OneWrites

\* A link is inserted for a subject that nobody has, and nobody is about to have.
LEMMA LinkInsertRows ==
    ASSUME TypeInv, TypeInv', RowsInv, NEW r \in Requests, LinkInsert(r), link' # link
    PROVE  RowsInv'
<1> DEFINE u == req[r].user
           g == req[r].sub
<1>1. /\ link[g] = None /\ ~IdentityHeld(r, g, u) /\ UNCHANGED user
      /\ link' = [link EXCEPT ![g] = u]
  BY DEF LinkInsert, IdentityTaken, InsertIdentity
<1>2. Moves(r) /\ req'[r].pc \notin Writing
  BY LinkMoves
<1> HIDE DEF u, g
<1>3. \A x \in Subjects : x # g => link'[x] = link[x]
  BY <1>1, TypeParts DEF RowsTyped
<1>4. UsersStay
  BY <1>1 DEF UsersStay
<1>5. ASSUME NEW x \in Requests, x # r PROVE StillThere(x)
  <2>1. Counts(x) /\ ~(req[x].pc \in {"commitNew", "commitGone"} /\ req[x].sub = g)
    BY <1>1, <1>5 DEF RowsInv, IdentityHeld, HoldsIdentity
  <2>2. QED
    BY <1>1, <1>3, <2>1, WriterHas DEF StillThere, Counts
<1>6. WayIn'
  <2>1. ASSUME NEW x \in Users, ListIdentitiesByUser(x) # {} PROVE ListIdentitiesByUser(x)' # {}
    <3>1. PICK y \in Subjects : link[y] = x
      BY <2>1 DEF ListIdentitiesByUser
    <3>2. y # g
      BY <1>1, <3>1, AccountsAssumption
    <3>3. y \in ListIdentitiesByUser(x)'
      BY <1>3, <3>1, <3>2 DEF ListIdentitiesByUser
    <3>4. QED
      BY <3>3
  <2>2. QED
    BY <1>1, <2>1 DEF RowsInv, WayIn
<1>7. QED
  BY <1>2, <1>4, <1>5, <1>6, NotWriting, OneWrites

\* A withdrawal deletes a link of its own user only.
LEMMA StoreGoneRows ==
    ASSUME TypeInv, RowsInv, NEW r \in Requests, req[r].pc = "commitGone", StoreGone(r),
           Moves(r), req'[r].pc \notin Writing
    PROVE  RowsInv'
<1> DEFINE u == req[r].user
           g == req[r].sub
<1>1. u \in Users /\ user[u].at # "none" /\ g \in Subjects \cup {None} /\ (g # None => link[g] = u)
  BY WriterHas DEF Writing, RowsInv, Counts, GoneRow
<1>2. /\ user' = [user EXCEPT ![u] = Discarded(user[u])]
      /\ link' = [x \in Subjects |-> IF x \in {g} THEN None ELSE link[x]]
  BY DEF StoreGone, DeleteIdentities
<1> HIDE DEF u, g
<1>3. user \in [Users -> [at : {"none", "active", "gone"}, mail : Mails \cup {None}, pw : BOOLEAN]]
  BY TypeParts DEF RowsTyped
<1>4. Discarded(user[u]).at = "gone" /\ Discarded(user[u]).pw = user[u].pw
  BY <1>1, <1>3 DEF Discarded
<1>5. /\ \A x \in Subjects : link'[x] = IF x = g THEN None ELSE link[x]
      /\ \A x \in Users : x # u => user'[x] = user[x]
      /\ user'[u].at = "gone" /\ user'[u].pw = user[u].pw
  BY <1>1, <1>2, <1>3, <1>4
<1>6. UsersStay
  BY <1>5 DEF UsersStay
<1>7. ASSUME NEW x \in Requests, x # r PROVE StillThere(x)
  <2>1. Apart(r, x) /\ Counts(x)
    BY <1>7 DEF RowsInv, WritesApart, Apart
  <2>2. NewRow(x) => user'[req[x].user].at = "none"
    BY <1>1, <1>5, <2>1, WriterHas DEF Counts, NewRow, Writing
  <2>3. req[x].pc = "commitNew" => link'[req[x].sub] = None
    BY <1>5, <2>1, WriterHas DEF Counts
  <2>4. req[x].pc = "commitGone" /\ req[x].sub # None => link'[req[x].sub] = link[req[x].sub]
    <3>1. SUFFICES ASSUME req[x].pc = "commitGone", req[x].sub # None
                   PROVE  link'[req[x].sub] = link[req[x].sub]
      OBVIOUS
    <3>2. req[x].user # u /\ link[req[x].sub] = req[x].user
      BY <2>1, <3>1 DEF Apart, Counts, GoneRow, u
    <3>3. QED
      BY <1>1, <1>5, <3>1, <3>2, WriterHas
  <2>5. QED
    BY <2>2, <2>3, <2>4 DEF StillThere
<1>8. WayIn'
  <2>1. ASSUME NEW x \in Users, user'[x].at = "active", ~user'[x].pw
        PROVE  ListIdentitiesByUser(x)' # {}
    <3>1. x # u /\ user'[x] = user[x]
      BY <1>5, <2>1
    <3>2. PICK y \in Subjects : link[y] = x
      BY <2>1, <3>1 DEF RowsInv, WayIn, ListIdentitiesByUser
    <3>3. y # g
      BY <1>1, <3>1, <3>2, AccountsAssumption
    <3>4. y \in ListIdentitiesByUser(x)'
      BY <1>5, <3>2, <3>3 DEF ListIdentitiesByUser
    <3>5. QED
      BY <3>4
  <2>2. QED
    BY <2>1 DEF WayIn
<1>9. QED
  BY <1>6, <1>7, <1>8, NotWriting, OneWrites

\* The links of a user who has a password go, and none that a withdrawal has.
LEMMA UnlinkRows ==
    ASSUME TypeInv, TypeInv', RowsInv, NEW r \in Requests, Unlink(r)
    PROVE  RowsInv'
<1> DEFINE u == req[r].user
           L == ListIdentitiesByUser(u)
<1>1. /\ req[r].pc = "unlink" /\ \A g \in L : ~IdentityHeld(r, g, u)
      /\ link' = [g \in Subjects |-> IF g \in L THEN None ELSE link[g]]
      /\ UNCHANGED user
  BY DEF Unlink, DeleteIdentities
<1>2. Moves(r) /\ req'[r].pc \notin Writing
  BY OwnerWrites, NoRequestIs DEF Writing
<1>3. u \in Users /\ user[u].pw
  BY <1>1, WriterHas DEF Writing, RowsInv, Counts
<1>4. L = {g \in Subjects : link[g] = u}
  BY DEF ListIdentitiesByUser
<1> HIDE DEF L
<1>5. UsersStay
  BY <1>1 DEF UsersStay
<1>6. ASSUME NEW x \in Requests, x # r PROVE StillThere(x)
  <2>1. Counts(x)
    BY DEF RowsInv
  <2>2. req[x].pc = "commitGone" => req[x].sub \notin L
    BY <1>1, <1>6 DEF IdentityHeld, HoldsIdentity
  <2>3. QED
    BY <1>1, <2>1, <2>2, WriterHas DEF StillThere, Counts
<1>7. WayIn'
  <2>1. ASSUME NEW x \in Users, user'[x].at = "active", ~user'[x].pw
        PROVE  ListIdentitiesByUser(x)' # {}
    <3>1. x # u
      BY <1>1, <1>3, <2>1
    <3>2. PICK y \in Subjects : link[y] = x
      BY <1>1, <2>1 DEF RowsInv, WayIn, ListIdentitiesByUser
    <3>3. y \in ListIdentitiesByUser(x)'
      BY <1>1, <1>4, <3>1, <3>2 DEF ListIdentitiesByUser
    <3>4. QED
      BY <3>3
  <2>2. QED
    BY <2>1 DEF WayIn
<1>8. QED
  BY <1>2, <1>5, <1>6, <1>7, NotWriting, OneWrites

\* Every step keeps RowsInv.
LEMMA NextRows == TypeInv /\ TypeInv' /\ RowsInv /\ [Next]_vars => RowsInv'
<1> SUFFICES ASSUME TypeInv, TypeInv', RowsInv, [Next]_vars PROVE RowsInv'
  OBVIOUS
<1>1. CASE UNCHANGED vars
  BY <1>1, Beside DEF vars, rows
<1>2. CASE \/ \E b \in Browsers, f \in Flows : HandleStart(b, f) \/ HandleLinkStart(b, f)
           \/ \E f \in Flows : FlowExpires(f)
           \/ \E b \in Browsers, u \in Users : HandleLogin(b, u)
           \/ \E c \in Codes : CodeExpires(c)
  <2>1. UNCHANGED <<user, link, req>>
    BY <1>2 DEF HandleStart, HandleLinkStart, Begin, FlowExpires, HandleLogin, CodeExpires, rows
  <2>2. QED
    BY <2>1, Beside
<1>3. CASE \E b \in Browsers, m \in Mails, pw \in BOOLEAN : HandleUpdateUser(b, m, pw)
  BY <1>3, ProfileRows
<1>4. ASSUME NEW r \in Requests,
             \/ \E f \in Flows : HandleCallback(r, f)
             \/ \E b \in Browsers, c \in Codes : HandleExchange(r, b, c)
             \/ \E b \in Browsers : HandleDeleteUser(r, b) \/ HandleUnlink(r, b)
      PROVE  RowsInv'
  <2>1. Moves(r) /\ req'[r].pc \notin Writing
    BY <1>4, CallbackArrives, ExchangeArrives, OwnerArrives DEF Writing
  <2>2. UNCHANGED <<user, link>>
    BY <1>4 DEF HandleCallback, HandleExchange, HandleDeleteUser, HandleUnlink, rows
  <2>3. QED
    BY <2>1, <2>2, Beside
<1>5. ASSUME NEW r \in Requests, Step(r) PROVE RowsInv'
  <2>1. CASE \/ Refuse(r) \/ \E g \in Subjects, m \in Mails : Exchange(r, g, m)
             \/ SignInLinked(r) \/ SignInUser(r) \/ BeginNew(r)
             \/ LinkUser(r) \/ LinkRead(r) \/ (LinkInsert(r) /\ link' = link)
             \/ \E c \in Codes, swept \in SUBSET Codes : Issue(r, c, swept)
             \/ RedeemBegin(r) \/ Lock(r) \/ RedeemUser(r) \/ RedeemCommit(r)
    <3>1. Moves(r) /\ req'[r].pc \notin Writing
      BY <2>1, ProviderMoves, SignInMoves, LinkMoves, IssueMoves, RedeemMoves, RedeemCommitMoves,
         NoRequestIs DEF Writing
    <3>2. UNCHANGED <<user, link>>
      BY <2>1 DEF Refuse, Exchange, SignInLinked, SignInUser, BeginNew, LinkUser, LinkRead, LinkInsert,
                  Issue, RedeemBegin, Lock, Reject, RedeemUser, RedeemCommit, Spend, rows
    <3>3. QED
      BY <3>1, <3>2, Beside
  <2>2. CASE CreateUser(r) \/ CreateIdentity(r) \/ DiscardUser(r) \/ DiscardAll(r) \/ UnlinkCheck(r)
    BY <2>2, TakesHold
  <2>3. CASE CommitNew(r)
    BY <2>3, CommitNewMoves, StoreNewRows DEF CommitNew, Writing
  <2>4. CASE LinkInsert(r) /\ link' # link
    BY <2>4, LinkInsertRows
  <2>5. CASE CommitGone(r)
    BY <2>5, OwnerWrites, NoRequestIs, StoreGoneRows DEF CommitGone, Writing
  <2>6. CASE Unlink(r)
    BY <2>6, UnlinkRows
  <2>7. CASE DeleteBegin(r) \/ UnlinkList(r)
    <3>1. req'[r].pc \in {"discard", "hasPassword", "idle"}
      BY <2>7, GotoDoes, DoneDoes, NoRequestIs
         DEF DeleteBegin, UnlinkList, Pcs, InTransaction, TypeInv, TypeOK, RequestRow
    <3>2. Moves(r) /\ UNCHANGED <<user, link>>
      BY <2>7, OwnerMoves DEF DeleteBegin, UnlinkList, rows
    <3>3. QED
      BY <3>1, <3>2, Beside DEF Writing
  <2>8. QED
    BY <1>5, <2>1, <2>2, <2>3, <2>4, <2>5, <2>6, <2>7 DEF Step
<1>6. ASSUME NEW r \in Requests, Crash(r) \/ CallbackFails(r) \/ AnswerLost(r) PROVE RowsInv'
  <2>1. Moves(r) /\ req'[r].pc \notin Writing
    BY <1>6, FaultMoves DEF Writing
  <2>2. \/ UNCHANGED <<user, link>>
        \/ req[r].pc = "commitNew" /\ StoreNew(r)
        \/ req[r].pc = "commitGone" /\ StoreGone(r)
    BY <1>6 DEF Crash, CallbackFails, AnswerLost, Spend, rows
  <2>3. QED
    BY <2>1, <2>2, Beside, StoreNewRows, StoreGoneRows
<1>7. QED
  BY <1>1, <1>2, <1>3, <1>4, <1>5, <1>6 DEF Next

\* Transactions that have not committed find the rows that they count on.
THEOREM RowsInvHolds == Spec => []RowsInv
  BY InitRows, NextRows, TypeInvHolds, PTL DEF Spec

\* Every active user can sign in, with a password or with a linked subject.
THEOREM EveryoneHasAWayIn == Spec => []WayIn
<1>1. RowsInv => WayIn
  BY DEF RowsInv
<1>2. QED
  BY <1>1, RowsInvHolds, PTL

-----------------------------------------------------------------------------
(* The loser of two first sign-ins.                                         *)

\* Every step moves at most one request.
LEMMA OneMovesAtMost ==
    ASSUME TypeInv, [Next]_vars
    PROVE  \/ UNCHANGED req
           \/ \E r \in Requests :
                 /\ Moves(r)
                 /\ \/ Step(r) \/ Crash(r) \/ CallbackFails(r)
                    \/ req'[r].pc # "issue"
<1>1. CASE UNCHANGED vars
  BY <1>1 DEF vars
<1>2. CASE \/ \E b \in Browsers, f \in Flows : HandleStart(b, f) \/ HandleLinkStart(b, f)
           \/ \E f \in Flows : FlowExpires(f)
           \/ \E b \in Browsers, u \in Users : HandleLogin(b, u)
           \/ \E b \in Browsers, m \in Mails, pw \in BOOLEAN : HandleUpdateUser(b, m, pw)
           \/ \E c \in Codes : CodeExpires(c)
  BY <1>2 DEF HandleStart, HandleLinkStart, Begin, FlowExpires, HandleLogin, HandleUpdateUser, CodeExpires
<1>3. ASSUME NEW r \in Requests,
             \/ \E f \in Flows : HandleCallback(r, f)
             \/ \E b \in Browsers, c \in Codes : HandleExchange(r, b, c)
             \/ \E b \in Browsers : HandleDeleteUser(r, b) \/ HandleUnlink(r, b)
      PROVE  Moves(r) /\ req'[r].pc # "issue"
  BY <1>3, CallbackArrives, ExchangeArrives, OwnerArrives
<1>4. ASSUME NEW r \in Requests, Step(r) PROVE Moves(r)
  BY <1>4, ProviderMoves, SignInMoves, RegistrationMoves, CommitNewMoves, LinkMoves, IssueMoves,
     RedeemMoves, RedeemCommitMoves, OwnerMoves, OwnerWrites DEF Step
<1>5. ASSUME NEW r \in Requests, Crash(r) \/ CallbackFails(r) PROVE Moves(r)
  BY <1>5, FaultMoves
<1>6. ASSUME NEW r \in Requests, AnswerLost(r) PROVE Moves(r) /\ req'[r].pc # "issue"
  BY <1>6, DoneDoes, NoRequestIs DEF AnswerLost
<1>7. QED
  BY <1>1, <1>2, <1>3, <1>4, <1>5, <1>6 DEF Next

\* Only one step tells a request that another account has the address, and it
\* has just looked for the link.
LEMMA WhoIsToldSo ==
    ASSUME TypeInv, NEW r \in Requests, Step(r) \/ Crash(r) \/ CallbackFails(r),
           req[r].pc # "issue", req'[r].pc = "issue", req'[r].out = "account_exists"
    PROVE  ~IdentityTaken(req[r].sub)
<1>1. req \in [Requests -> RequestRow] /\ WellFormed(req[r])
  BY DEF TypeInv, TypeOK
<1>2. ASSUME NEW out \in Outcomes \ {"account_exists"}, Decide(r, out),
             NeedsUser(out) => req[r].user # None
      PROVE  FALSE
  BY <1>2, DecideDoes
<1>3. ~Done(r)
  BY DoneDoes, NoRequestIs
<1>4. ASSUME NEW pc \in Pcs \ {"issue"}, Goto(r, pc) PROVE FALSE
  <2>1. req' = [req EXCEPT ![r].pc = pc]
    BY <1>4 DEF Goto
  <2>2. req'[r].pc = pc
    BY <1>1, <2>1 DEF RequestRow
  <2>3. QED
    BY <1>4, <2>2
<1>5. req[r].pc \in WithUser => req[r].user # None
  BY <1>1 DEF WellFormed
<1>6. ~Decide(r, "failed")
  BY <1>2 DEF Outcomes, NeedsUser
<1>7. ~(Refuse(r) \/ SignInUser(r) \/ CommitNew(r) \/ CallbackFails(r) \/ Crash(r))
  BY <1>2, <1>3, <1>5, <1>6
     DEF Refuse, SignInUser, CommitNew, CallbackFails, Crash, Outcomes, NeedsUser, WithUser
<1>8. ~(LinkUser(r) \/ LinkRead(r) \/ LinkInsert(r))
  BY <1>2, <1>4, <1>5, <1>6
     DEF LinkUser, LinkRead, LinkInsert, Outcomes, NeedsUser, WithUser, Pcs, InTransaction
<1>9. ~(BeginNew(r) \/ DeleteBegin(r) \/ DiscardUser(r) \/ UnlinkList(r) \/ UnlinkCheck(r))
  BY <1>3, <1>4 DEF BeginNew, DeleteBegin, DiscardUser, UnlinkList, UnlinkCheck, Pcs, InTransaction
<1>10. ~(CommitGone(r) \/ Unlink(r) \/ RedeemCommit(r)
         \/ \E c \in Codes, swept \in SUBSET Codes : Issue(r, c, swept))
  BY <1>3 DEF CommitGone, Unlink, RedeemCommit, Issue
<1>11. ~\E g \in Subjects, m \in Mails : Exchange(r, g, m)
  <2>1. SUFFICES ASSUME NEW g \in Subjects, NEW m \in Mails, Exchange(r, g, m) PROVE FALSE
    OBVIOUS
  <2> DEFINE pc == IF req[r].user = None THEN "lookup" ELSE "linkUser"
  <2>2. req' = [req EXCEPT ![r].pc = pc, ![r].sub = g, ![r].mail = m] /\ pc # "issue"
    BY <2>1 DEF Exchange
  <2> HIDE DEF pc
  <2>3. req'[r].pc = pc
    BY <1>1, <2>2 DEF RequestRow
  <2>4. QED
    BY <2>2, <2>3
<1>12. ~(CreateUser(r) \/ CreateIdentity(r))
  <2>1. ASSUME NEW out \in {"account_exists", "failed"}, Lost(r, out) PROVE FALSE
    BY <1>1, <2>1 DEF Lost, RequestRow
  <2>2. ~\E u \in Users : req' = [req EXCEPT ![r].pc = "createIdentity", ![r].user = u]
    BY <1>1 DEF RequestRow
  <2>3. QED
    BY <1>4, <2>1, <2>2 DEF CreateUser, CreateIdentity, Pcs, InTransaction
<1>13. ~(Lock(r) \/ RedeemUser(r) \/ RedeemBegin(r) \/ DiscardAll(r))
  BY <1>1, <1>3, <1>4 DEF Lock, Reject, RedeemUser, RedeemBegin, DiscardAll, RequestRow, Pcs, InTransaction
<1>14. SignInLinked(r)
  BY <1>7, <1>8, <1>9, <1>10, <1>11, <1>12, <1>13 DEF Step
<1>15. req' # [req EXCEPT ![r].pc = "linkedUser", ![r].user = link[req[r].sub]]
  BY <1>1 DEF RequestRow
<1>16. QED
  BY <1>14, <1>15 DEF SignInLinked

\* Nobody is told that another account has his address when the subject he
\* came with is linked by then.
THEOREM TheLoserSignsIn == Spec => LoserSignsIn
<1>1. ASSUME TypeInv, [Next]_vars, NEW r \in Requests,
             req[r].pc # "issue" /\ req'[r].pc = "issue" /\ req'[r].out = "account_exists"
      PROVE  ~IdentityTaken(req[r].sub)
  <2>1. PICK s \in Requests : /\ Moves(s)
                              /\ Step(s) \/ Crash(s) \/ CallbackFails(s) \/ req'[s].pc # "issue"
    BY <1>1, OneMovesAtMost
  <2>2. s = r
    BY <1>1, <2>1 DEF Moves
  <2>3. QED
    BY <1>1, <2>1, <2>2, WhoIsToldSo
<1>2. TypeInv /\ [Next]_vars =>
          [\A r \in Requests :
              req[r].pc # "issue" /\ req'[r].pc = "issue" /\ req'[r].out = "account_exists" =>
                  ~IdentityTaken(req[r].sub)]_vars
  BY <1>1
<1>3. QED
  BY <1>2, TypeInvHolds, PTL DEF Spec, LoserSignsIn
-----------------------------------------------------------------------------
(* Links and withdrawals.                                                     *)

\* A link is of a user who is or was registered, and each user has one at most.
OneLinkEach ==
    /\ \A g \in Subjects : link[g] # None => user[link[g]].at # "none"
    /\ \A g, h \in Subjects : link[g] # None /\ link[g] = link[h] => g = h

\* A request that is about to link found its user active.
LinkerFound(q) == q.pc \in {"linkRead", "linkInsert"} => user[q.user].at # "none"

\* Links, and who is about to add one.
LinksInv == OneLinkEach /\ \A r \in Requests : LinkerFound(req[r])

\* The last statement of a link goes through.
Links(r) ==
    /\ req[r].pc = "linkInsert"
    /\ link[req[r].sub] = None /\ ListIdentitiesByUser(req[r].user) = {}
    /\ InsertIdentity(req[r].sub, req[r].user)
    /\ UNCHANGED user

\* An active user's row changes, and the user stays active.
EditsActive(v) ==
    /\ user[v].at = "active" /\ user'[v].at = "active"
    /\ \A u \in Users : u # v => user'[u] = user[u]
    /\ UNCHANGED link

\* What a step does to users and links.
RowStep ==
    \/ UNCHANGED <<user, link>>
    \/ \E v \in Users : EditsActive(v)
    \/ \E r \in Requests : req[r].pc = "commitNew" /\ StoreNew(r)
    \/ \E r \in Requests : Links(r)
    \/ \E r \in Requests : req[r].pc = "commitGone" /\ StoreGone(r)
    \/ \E S \in SUBSET Subjects : DeleteIdentities(S) /\ UNCHANGED user

\* A change of the profile.
LEMMA ProfileEdits ==
    ASSUME TypeInv, NEW b \in Browsers, NEW m \in Mails, NEW pw \in BOOLEAN,
           HandleUpdateUser(b, m, pw)
    PROVE  EditsActive(Viewer(b)) /\ Viewer(b) \in Users
<1>1. PICK v \in Users : v = Viewer(b) /\ user[v].at = "active"
  BY ViewerIs DEF HandleUpdateUser
<1>2. user' = [user EXCEPT ![v] = SetPassword(SetMail(user[v], m), pw)] /\ UNCHANGED link
  BY <1>1 DEF HandleUpdateUser, UpdateUserProfile
<1>3. user \in [Users -> [at : {"none", "active", "gone"}, mail : Mails \cup {None}, pw : BOOLEAN]]
  BY TypeParts DEF RowsTyped
<1>4. SetPassword(SetMail(user[v], m), pw).at = "active"
  BY <1>1, <1>3 DEF SetPassword, SetMail
<1>5. user'[v].at = "active" /\ \A u \in Users : u # v => user'[u] = user[u]
  BY <1>1, <1>2, <1>3, <1>4
<1>6. QED
  BY <1>1, <1>2, <1>5 DEF EditsActive

\* Every step does one of these.
LEMMA RowSteps ==
    ASSUME TypeInv, [Next]_vars
    PROVE  RowStep
<1>1. CASE UNCHANGED vars
  BY <1>1 DEF RowStep, vars, rows
<1>2. CASE \/ \E b \in Browsers, f \in Flows : HandleStart(b, f) \/ HandleLinkStart(b, f)
           \/ \E f \in Flows : FlowExpires(f)
           \/ \E b \in Browsers, u \in Users : HandleLogin(b, u)
           \/ \E c \in Codes : CodeExpires(c)
  <2>1. UNCHANGED <<user, link>>
    BY <1>2 DEF HandleStart, HandleLinkStart, Begin, FlowExpires, HandleLogin, CodeExpires, rows
  <2>2. QED
    BY <2>1 DEF RowStep
<1>3. CASE \E b \in Browsers, m \in Mails, pw \in BOOLEAN : HandleUpdateUser(b, m, pw)
  BY <1>3, ProfileEdits DEF RowStep
<1>4. ASSUME NEW r \in Requests,
             \/ \E f \in Flows : HandleCallback(r, f)
             \/ \E b \in Browsers, c \in Codes : HandleExchange(r, b, c)
             \/ \E b \in Browsers : HandleDeleteUser(r, b) \/ HandleUnlink(r, b)
      PROVE  RowStep
  BY <1>4 DEF HandleCallback, HandleExchange, HandleDeleteUser, HandleUnlink, rows, RowStep
<1>5. ASSUME NEW r \in Requests, Step(r) PROVE RowStep
  <2>1. CASE \/ Refuse(r) \/ \E g \in Subjects, m \in Mails : Exchange(r, g, m)
             \/ SignInLinked(r) \/ SignInUser(r) \/ BeginNew(r) \/ CreateUser(r) \/ CreateIdentity(r)
             \/ LinkUser(r) \/ LinkRead(r)
             \/ \E c \in Codes, swept \in SUBSET Codes : Issue(r, c, swept)
             \/ RedeemBegin(r) \/ Lock(r) \/ RedeemUser(r) \/ RedeemCommit(r)
             \/ DeleteBegin(r) \/ DiscardUser(r) \/ DiscardAll(r) \/ UnlinkList(r) \/ UnlinkCheck(r)
    <3>1. UNCHANGED <<user, link>>
      BY <2>1 DEF Refuse, Exchange, SignInLinked, SignInUser, BeginNew, CreateUser, CreateIdentity,
                  LinkUser, LinkRead, Issue, RedeemBegin, Lock, Reject, RedeemUser, RedeemCommit, Spend,
                  DeleteBegin, DiscardUser, DiscardAll, UnlinkList, UnlinkCheck, rows
    <3>2. QED
      BY <3>1 DEF RowStep
  <2>2. CASE CommitNew(r)
    BY <2>2 DEF CommitNew, RowStep
  <2>3. CASE LinkInsert(r)
    <3>1. Links(r) \/ UNCHANGED <<user, link>>
      BY <2>3 DEF LinkInsert, Links, IdentityTaken, AlreadyLinked
    <3>2. QED
      BY <3>1 DEF RowStep
  <2>4. CASE CommitGone(r)
    BY <2>4 DEF CommitGone, RowStep
  <2>5. CASE Unlink(r)
    BY <2>5 DEF Unlink, RowStep, ListIdentitiesByUser
  <2>6. QED
    BY <1>5, <2>1, <2>2, <2>3, <2>4, <2>5 DEF Step
<1>6. ASSUME NEW r \in Requests, Crash(r) \/ CallbackFails(r) \/ AnswerLost(r) PROVE RowStep
  BY <1>6 DEF Crash, CallbackFails, AnswerLost, Spend, rows, RowStep
<1>7. QED
  BY <1>1, <1>2, <1>3, <1>4, <1>5, <1>6 DEF Next

\* The user and the subject of a request that writes them.
LEMMA LinkerHas ==
    ASSUME TypeInv, NEW r \in Requests
    PROVE  /\ req[r].pc \in {"linkRead", "linkInsert"} => req[r].user \in Users
           /\ req[r].pc = "linkInsert" => req[r].sub \in Subjects
  BY DEF TypeInv, TypeOK, WellFormed, AfterExchange, WithUser, RequestRow

\* A registration stores a user and a link.
LEMMA NewRowsAre ==
    ASSUME TypeInv, RowsInv, NEW r \in Requests, req[r].pc = "commitNew", StoreNew(r)
    PROVE  /\ req[r].user \in Users /\ req[r].sub \in Subjects
           /\ link[req[r].sub] = None /\ user[req[r].user].at = "none"
           /\ user'[req[r].user].at = "active" /\ link'[req[r].sub] = req[r].user
           /\ \A u \in Users : u # req[r].user => user'[u] = user[u]
           /\ \A g \in Subjects : g # req[r].sub => link'[g] = link[g]
<1>1. /\ req[r].user \in Users /\ req[r].sub \in Subjects
      /\ link[req[r].sub] = None /\ user[req[r].user].at = "none"
  BY WriterHas DEF Writing, RowsInv, Counts, NewRow
<1>2. PICK u \in Users, g \in Subjects : u = req[r].user /\ g = req[r].sub
  BY <1>1
<1>3. /\ user' = [user EXCEPT ![u] = UserRow(req[r].mail)] /\ link' = [link EXCEPT ![g] = u]
      /\ UserRow(req[r].mail).at = "active"
  BY <1>2 DEF StoreNew, InsertIdentity, UserRow
<1>4. /\ user'[u].at = "active" /\ link'[g] = u
      /\ \A x \in Users : x # u => user'[x] = user[x]
      /\ \A x \in Subjects : x # g => link'[x] = link[x]
  BY <1>3, TypeParts DEF RowsTyped
<1>5. QED
  BY <1>1, <1>2, <1>4

\* A withdrawal ends its user, and the link that it found.
LEMMA GoneRowsAre ==
    ASSUME TypeInv, RowsInv, NEW r \in Requests, req[r].pc = "commitGone", StoreGone(r)
    PROVE  /\ req[r].user \in Users /\ user[req[r].user].at # "none"
           /\ req[r].sub # None => link[req[r].sub] = req[r].user /\ req[r].sub \in Subjects
           /\ user'[req[r].user].at = "gone"
           /\ \A u \in Users : u # req[r].user => user'[u] = user[u]
           /\ \A g \in Subjects : link'[g] = IF g = req[r].sub THEN None ELSE link[g]
<1>1. /\ req[r].user \in Users /\ user[req[r].user].at # "none"
      /\ req[r].sub # None => link[req[r].sub] = req[r].user /\ req[r].sub \in Subjects
  BY WriterHas DEF Writing, RowsInv, Counts, GoneRow
<1>2. PICK u \in Users : u = req[r].user
  BY <1>1
<1>3. /\ user' = [user EXCEPT ![u] = Discarded(user[u])]
      /\ link' = [x \in Subjects |-> IF x \in {req[r].sub} THEN None ELSE link[x]]
  BY <1>2 DEF StoreGone, DeleteIdentities
<1>4. user \in [Users -> [at : {"none", "active", "gone"}, mail : Mails \cup {None}, pw : BOOLEAN]]
  BY TypeParts DEF RowsTyped
<1>5. Discarded(user[u]).at = "gone"
  BY <1>4 DEF Discarded
<1>6. user'[u].at = "gone" /\ \A x \in Users : x # u => user'[x] = user[x]
  BY <1>3, <1>4, <1>5
<1>7. \A g \in Subjects : link'[g] = IF g = req[r].sub THEN None ELSE link[g]
  BY <1>3
<1>8. QED
  BY <1>1, <1>2, <1>6, <1>7

\* A link is made.
LEMMA LinksAre ==
    ASSUME TypeInv, NEW r \in Requests, Links(r)
    PROVE  /\ req[r].user \in Users /\ req[r].sub \in Subjects
           /\ link[req[r].sub] = None /\ link'[req[r].sub] = req[r].user
           /\ \A g \in Subjects : link[g] # req[r].user
           /\ \A g \in Subjects : g # req[r].sub => link'[g] = link[g]
           /\ UNCHANGED user
<1>1. /\ req[r].user \in Users /\ req[r].sub \in Subjects
      /\ link[req[r].sub] = None /\ UNCHANGED user
  BY LinkerHas DEF Links
<1>2. \A g \in Subjects : link[g] # req[r].user
  BY DEF Links, ListIdentitiesByUser
<1>3. PICK u \in Users, g \in Subjects : u = req[r].user /\ g = req[r].sub
  BY <1>1
<1>4. link' = [link EXCEPT ![g] = u]
  BY <1>3 DEF Links, InsertIdentity
<1>5. link'[g] = u /\ \A x \in Subjects : x # g => link'[x] = link[x]
  BY <1>4, TypeParts DEF RowsTyped
<1>6. QED
  BY <1>1, <1>2, <1>3, <1>5

\* Who was registered stays so.
LEMMA UsersRemain ==
    ASSUME TypeInv, RowsInv, RowStep, NEW u \in Users, user[u].at # "none"
    PROVE  user'[u].at # "none"
<1>1. CASE UNCHANGED user
  BY <1>1
<1>2. ASSUME NEW v \in Users, EditsActive(v) PROVE user'[u].at # "none"
  BY <1>2 DEF EditsActive
<1>3. ASSUME NEW r \in Requests, req[r].pc = "commitNew", StoreNew(r) PROVE user'[u].at # "none"
  BY <1>3, NewRowsAre
<1>4. ASSUME NEW r \in Requests, req[r].pc = "commitGone", StoreGone(r) PROVE user'[u].at # "none"
  BY <1>4, GoneRowsAre
<1>5. QED
  BY <1>1, <1>2, <1>3, <1>4 DEF RowStep, Links

\* A step adds one link at most: of a new user to a subject that is free, or of
\* a user who has none.
LEMMA LinksKept ==
    ASSUME TypeInv, TypeInv', RowsInv, LinksInv, RowStep
    PROVE  OneLinkEach'
<1>1. ASSUME NEW g \in Subjects, link'[g] = link[g], link'[g] # None
      PROVE  user'[link'[g]].at # "none"
  <2>1. link[g] \in Users
    BY <1>1, TypeParts DEF RowsTyped
  <2>2. QED
    BY <1>1, <2>1, UsersRemain DEF LinksInv, OneLinkEach
<1>2. ASSUME \A g \in Subjects : link'[g] \in {None, link[g]}
      PROVE  OneLinkEach'
  BY <1>1, <1>2 DEF LinksInv, OneLinkEach
<1>3. ASSUME NEW x \in Subjects, NEW u \in Users, link'[x] = u, user'[u].at # "none",
             \A g \in Subjects : g # x => link'[g] = link[g] /\ link[g] # u
      PROVE  OneLinkEach'
  <2>1. ASSUME NEW g \in Subjects, link'[g] # None PROVE user'[link'[g]].at # "none"
    BY <1>1, <1>3, <2>1
  <2>2. ASSUME NEW g \in Subjects, NEW h \in Subjects, link'[g] # None, link'[g] = link'[h]
        PROVE  g = h
    BY <1>3, <2>2 DEF LinksInv, OneLinkEach
  <2>3. QED
    BY <2>1, <2>2 DEF OneLinkEach
<1>4. ASSUME NEW r \in Requests, req[r].pc = "commitNew", StoreNew(r) PROVE OneLinkEach'
  <2>1. PICK u \in Users, x \in Subjects :
            /\ u = req[r].user /\ x = req[r].sub
            /\ user[u].at = "none" /\ user'[u].at = "active" /\ link'[x] = u
            /\ \A g \in Subjects : g # x => link'[g] = link[g]
    BY <1>4, NewRowsAre
  <2>2. \A g \in Subjects : link[g] # u
    BY <2>1, AccountsAssumption DEF LinksInv, OneLinkEach
  <2>3. QED
    BY <1>3, <2>1, <2>2
<1>5. ASSUME NEW r \in Requests, Links(r) PROVE OneLinkEach'
  <2>1. PICK u \in Users, x \in Subjects :
            /\ u = req[r].user /\ x = req[r].sub /\ link'[x] = u /\ UNCHANGED user
            /\ \A g \in Subjects : link[g] # u
            /\ \A g \in Subjects : g # x => link'[g] = link[g]
    BY <1>5, LinksAre
  <2>2. user'[u].at # "none"
    BY <1>5, <2>1 DEF LinksInv, LinkerFound, Links
  <2>3. QED
    BY <1>3, <2>1, <2>2
<1>6. ASSUME NEW r \in Requests, req[r].pc = "commitGone", StoreGone(r) PROVE OneLinkEach'
  BY <1>2, <1>6, GoneRowsAre
<1>7. ASSUME NEW S \in SUBSET Subjects, DeleteIdentities(S) PROVE OneLinkEach'
  BY <1>2, <1>7 DEF DeleteIdentities
<1>8. CASE UNCHANGED link
  BY <1>2, <1>8
<1>9. QED
  BY <1>4, <1>5, <1>6, <1>7, <1>8 DEF RowStep, EditsActive

\* A request that is about to link has been so before, or found its user active.
LEMMA WhoLinks ==
    ASSUME TypeInv, NEW r \in Requests, Step(r), req'[r].pc \in {"linkRead", "linkInsert"}
    PROVE  \/ req[r].pc \in {"linkRead", "linkInsert"} /\ req'[r].user = req[r].user
           \/ user[req'[r].user].at = "active"
<1>1. req \in [Requests -> RequestRow] /\ WellFormed(req[r])
  BY DEF TypeInv, TypeOK
<1>2. ASSUME NEW out \in Outcomes \cup {"none"}, Decide(r, out), NeedsUser(out) => req[r].user # None
      PROVE  FALSE
  BY <1>2, DecideDoes
<1>3. ~Done(r)
  BY DoneDoes, NoRequestIs
<1>4. ASSUME NEW pc \in Pcs, Goto(r, pc) PROVE pc \in {"linkRead", "linkInsert"} /\ req'[r].user = req[r].user
  <2>1. req'[r] = [req[r] EXCEPT !.pc = pc]
    BY <1>4, GotoDoes
  <2>2. QED
    BY <1>1, <2>1 DEF RequestRow
<1>5. ~(Refuse(r) \/ SignInUser(r) \/ CommitNew(r))
  BY <1>1, <1>2 DEF Refuse, SignInUser, CommitNew, Outcomes, NeedsUser, WellFormed, WithUser
<1>6. ~(BeginNew(r) \/ DeleteBegin(r) \/ DiscardUser(r) \/ UnlinkList(r) \/ UnlinkCheck(r))
  BY <1>3, <1>4, PcsHave DEF BeginNew, DeleteBegin, DiscardUser, UnlinkList, UnlinkCheck
<1>7. ~(CommitGone(r) \/ Unlink(r) \/ RedeemCommit(r)
        \/ \E c \in Codes, swept \in SUBSET Codes : Issue(r, c, swept))
  BY <1>3 DEF CommitGone, Unlink, RedeemCommit, Issue
<1>8. ~\E g \in Subjects, m \in Mails : Exchange(r, g, m)
  <2>1. SUFFICES ASSUME NEW g \in Subjects, NEW m \in Mails, Exchange(r, g, m) PROVE FALSE
    OBVIOUS
  <2> DEFINE pc == IF req[r].user = None THEN "lookup" ELSE "linkUser"
  <2>2. /\ req' = [req EXCEPT ![r].pc = pc, ![r].sub = g, ![r].mail = m]
        /\ pc \notin {"linkRead", "linkInsert"}
    BY <2>1 DEF Exchange
  <2> HIDE DEF pc
  <2>3. req'[r].pc = pc
    BY <1>1, <2>2 DEF RequestRow
  <2>4. QED
    BY <2>2, <2>3
<1>9. ~(CreateUser(r) \/ CreateIdentity(r))
  <2>1. ASSUME NEW out \in {"account_exists", "failed"}, Lost(r, out) PROVE FALSE
    BY <1>1, <2>1 DEF Lost, RequestRow
  <2>2. ~\E u \in Users : req' = [req EXCEPT ![r].pc = "createIdentity", ![r].user = u]
    BY <1>1 DEF RequestRow
  <2>3. ~Goto(r, "commitNew")
    BY <1>4, PcsHave
  <2>4. QED
    BY <2>1, <2>2, <2>3 DEF CreateUser, CreateIdentity
<1>10. ~(RedeemUser(r) \/ DiscardAll(r))
  BY <1>1 DEF RedeemUser, DiscardAll, RequestRow
<1>11. ~(Lock(r) \/ RedeemBegin(r))
  <2>1. ~Lock(r)
    BY <1>1, <1>3 DEF Lock, Reject, RequestRow
  <2>2. ~RedeemBegin(r)
    BY <1>3, <1>4, PcsHave DEF RedeemBegin, Reject
  <2>3. QED
    BY <2>1, <2>2
<1>12. ~SignInLinked(r)
  <2>1. req' # [req EXCEPT ![r].pc = "linkedUser", ![r].user = link[req[r].sub]]
    BY <1>1 DEF RequestRow
  <2>2. ~Goto(r, "beginNew")
    BY <1>4, PcsHave
  <2>3. req[r].pc = "lookupAgain" => ~Decide(r, req[r].out)
    BY <1>1, <1>2 DEF WellFormed, RequestRow
  <2>4. QED
    BY <2>1, <2>2, <2>3 DEF SignInLinked
<1>13. LinkUser(r) \/ LinkRead(r) \/ LinkInsert(r)
  BY <1>5, <1>6, <1>7, <1>8, <1>9, <1>10, <1>11, <1>12 DEF Step
<1>14. CASE LinkUser(r)
  <2>1. user[req[r].user].at = "active" /\ Goto(r, "linkRead")
    BY <1>2, <1>14 DEF LinkUser, GetActiveUserByID, Outcomes, NeedsUser
  <2>2. QED
    BY <1>4, <2>1, PcsHave
<1>15. CASE LinkRead(r)
  <2>1. req[r].pc = "linkRead" /\ req[r].user # None
    BY <1>1, <1>15 DEF LinkRead, WellFormed, WithUser
  <2>2. Goto(r, "linkInsert")
    BY <1>2, <1>15, <2>1 DEF LinkRead, Outcomes, NeedsUser
  <2>3. QED
    BY <1>4, <2>1, <2>2, PcsHave
<1>16. CASE LinkInsert(r)
  <2>1. req[r].user # None
    BY <1>1, <1>16 DEF LinkInsert, WellFormed, WithUser
  <2>2. QED
    BY <1>2, <1>16, <2>1 DEF LinkInsert, Outcomes, NeedsUser
<1>17. QED
  BY <1>13, <1>14, <1>15, <1>16

\* Where a request arrives, and where an error leaves it.
Ends == {"resolve", "redeemBegin", "deleteBegin", "list", "idle", "issue"}

\* A request moves by a statement of its own, or it arrives or fails.
LEMMA HowOneMoves ==
    ASSUME TypeInv, [Next]_vars, NEW r \in Requests, req'[r] # req[r]
    PROVE  Step(r) \/ req'[r].pc \in Ends
<1>1. CASE UNCHANGED req
  BY <1>1
<1>2. ASSUME NEW s \in Requests,
             \/ \E f \in Flows : HandleCallback(s, f)
             \/ \E b \in Browsers, c \in Codes : HandleExchange(s, b, c)
             \/ \E b \in Browsers : HandleDeleteUser(s, b) \/ HandleUnlink(s, b)
             \/ Crash(s) \/ CallbackFails(s) \/ AnswerLost(s)
      PROVE  req'[r].pc \in Ends
  <2>1. Moves(s) /\ req'[s].pc \in Ends
    BY <1>2, CallbackArrives, ExchangeArrives, OwnerArrives, FaultMoves DEF Ends
  <2>2. s = r
    BY <2>1 DEF Moves
  <2>3. QED
    BY <2>1, <2>2
<1>3. ASSUME NEW s \in Requests, Step(s) PROVE s = r
  <2>1. Moves(s)
    BY <1>3, ProviderMoves, SignInMoves, RegistrationMoves, CommitNewMoves, LinkMoves, IssueMoves,
       RedeemMoves, RedeemCommitMoves, OwnerMoves, OwnerWrites DEF Step
  <2>2. QED
    BY <2>1 DEF Moves
<1>4. CASE \/ \E b \in Browsers, f \in Flows : HandleStart(b, f) \/ HandleLinkStart(b, f)
           \/ \E f \in Flows : FlowExpires(f)
           \/ \E b \in Browsers, u \in Users : HandleLogin(b, u)
           \/ \E b \in Browsers, m \in Mails, pw \in BOOLEAN : HandleUpdateUser(b, m, pw)
           \/ \E c \in Codes : CodeExpires(c)
           \/ UNCHANGED vars
  <2>1. UNCHANGED req
    BY <1>4 DEF HandleStart, HandleLinkStart, Begin, FlowExpires, HandleLogin, HandleUpdateUser,
                CodeExpires, vars
  <2>2. QED
    BY <1>1, <2>1
<1>5. QED
  BY <1>2, <1>3, <1>4 DEF Next

\* Every step keeps LinksInv.
LEMMA NextLinks == TypeInv /\ TypeInv' /\ RowsInv /\ LinksInv /\ [Next]_vars => LinksInv'
<1> SUFFICES ASSUME TypeInv, TypeInv', RowsInv, LinksInv, [Next]_vars PROVE LinksInv'
  OBVIOUS
<1>1. RowStep
  BY RowSteps
<1>2. OneLinkEach'
  BY <1>1, LinksKept
<1>3. ASSUME NEW r \in Requests, req'[r].pc \in {"linkRead", "linkInsert"}
      PROVE  user'[req'[r].user].at # "none"
  <2>1. req'[r].user \in Users
    BY <1>3 DEF TypeInv, TypeOK, WellFormed, WithUser, RequestRow
  <2>2. user[req'[r].user].at # "none"
    <3>1. CASE req'[r] = req[r]
      BY <1>3, <3>1 DEF LinksInv, LinkerFound
    <3>2. CASE req'[r] # req[r]
      <4>1. Step(r)
        BY <1>3, <3>2, HowOneMoves DEF Ends
      <4>2. QED
        BY <1>3, <4>1, WhoLinks DEF LinksInv, LinkerFound
    <3>3. QED
      BY <3>1, <3>2
  <2>3. PICK u \in Users : u = req'[r].user
    BY <2>1
  <2>4. QED
    BY <1>1, <2>2, <2>3, UsersRemain
<1>4. QED
  BY <1>2, <1>3 DEF LinksInv, LinkerFound

\* Every user has one link at most, and no link is of nobody.
THEOREM LinksInvHolds == Spec => []LinksInv
<1>1. Init => LinksInv
  <2> SUFFICES ASSUME Init PROVE LinksInv
    OBVIOUS
  <2>1. \A g \in Subjects : link[g] = None
    BY DEF Init
  <2>2. \A r \in Requests : req[r].pc = "idle"
    BY NoRequestIs DEF Init
  <2>3. QED
    BY <2>1, <2>2 DEF LinksInv, OneLinkEach, LinkerFound
<1>2. QED
  BY <1>1, NextLinks, TypeInvHolds, RowsInvHolds, PTL DEF Spec

\* A withdrawal finds all links of its user.
LEMMA FindsAll ==
    ASSUME TypeInv, LinksInv, [Next]_vars, NEW r \in Requests,
           req[r].pc = "discardLinks", req'[r].pc = "commitGone"
    PROVE  ListIdentitiesByUser(req[r].user) \subseteq {req'[r].sub}
<1> DEFINE seen == ListIdentitiesByUser(req[r].user)
           g == IF seen = {} THEN None ELSE CHOOSE x \in seen : TRUE
<1>1. req \in [Requests -> RequestRow]
  BY DEF TypeInv, TypeOK
<1>2. req'[r] # req[r]
  BY DEF RequestRow
<1>3. DiscardAll(r)
  <2>1. Step(r)
    BY <1>2, HowOneMoves DEF Ends
  <2>2. QED
    BY <2>1 DEF Step, Refuse, Exchange, SignInLinked, SignInUser, BeginNew, CreateUser, CreateIdentity,
                CommitNew, LinkUser, LinkRead, LinkInsert, Issue, RedeemBegin, Lock, RedeemUser,
                RedeemCommit, DeleteBegin, DiscardUser, CommitGone, UnlinkList, UnlinkCheck, Unlink
<1>4. req' = [req EXCEPT ![r].pc = "commitGone", ![r].sub = g]
  BY <1>3 DEF DiscardAll
<1>5. req[r].user \in Users
  BY WriterHas DEF Writing
<1>6. \A x, y \in seen : x = y
  BY <1>5, AccountsAssumption DEF LinksInv, OneLinkEach, ListIdentitiesByUser
<1>7. seen \subseteq {g}
  BY <1>6
<1> HIDE DEF g, seen
<1>8. req'[r].sub = g
  BY <1>1, <1>4 DEF RequestRow
<1>9. QED
  BY <1>7, <1>8 DEF seen

\* Who leaves a link of a withdrawn user behind: a request of the user's own.
LEMMA WhoLeavesBehind ==
    ASSUME TypeInv, RowsInv, LinksInv, RowStep, NEW g \in Subjects, LeftBehind(g)', ~LeftBehind(g)
    PROVE  \E r \in Requests :
               /\ req[r].user = link'[g]
               /\ \/ req[r].pc = "linkInsert" /\ req[r].sub = g
                  \/ req[r].pc = "commitGone" /\ req[r].sub = None
<1>1. link'[g] # None /\ user'[link'[g]].at = "gone"
  BY DEF LeftBehind
<1>2. link[g] = link'[g] => link[g] \in Users /\ user[link[g]].at # "gone"
  BY <1>1, TypeParts DEF RowsTyped, LeftBehind
<1>3. ASSUME UNCHANGED user, link'[g] \in {None, link[g]} PROVE FALSE
  BY <1>1, <1>2, <1>3
<1>4. ASSUME NEW v \in Users, EditsActive(v) PROVE FALSE
  BY <1>1, <1>2, <1>4 DEF EditsActive
<1>5. ASSUME NEW r \in Requests, req[r].pc = "commitNew", StoreNew(r) PROVE FALSE
  <2>1. CASE g = req[r].sub
    BY <1>1, <1>5, <2>1, NewRowsAre
  <2>2. CASE g # req[r].sub
    BY <1>1, <1>2, <1>5, <2>2, NewRowsAre
  <2>3. QED
    BY <2>1, <2>2
<1>6. ASSUME NEW r \in Requests, Links(r)
      PROVE  req[r].user = link'[g] /\ req[r].pc = "linkInsert" /\ req[r].sub = g
  <2>1. g = req[r].sub
    BY <1>3, <1>6, LinksAre
  <2>2. QED
    BY <1>6, <2>1, LinksAre DEF Links
<1>7. ASSUME NEW r \in Requests, req[r].pc = "commitGone", StoreGone(r)
      PROVE  req[r].user = link'[g] /\ req[r].sub = None
  <2>1. g # req[r].sub /\ link'[g] = link[g]
    BY <1>1, <1>7, GoneRowsAre
  <2>2. link[g] = req[r].user
    BY <1>1, <1>2, <1>7, <2>1, GoneRowsAre
  <2>3. req[r].sub = None
    BY <1>1, <1>7, <2>1, <2>2, GoneRowsAre DEF LinksInv, OneLinkEach
  <2>4. QED
    BY <2>1, <2>2, <2>3
<1>8. ASSUME NEW S \in SUBSET Subjects, DeleteIdentities(S) PROVE link'[g] \in {None, link[g]}
  BY <1>8 DEF DeleteIdentities
<1>9. QED
  BY <1>3, <1>4, <1>5, <1>6, <1>7, <1>8 DEF RowStep

\* A withdrawal takes all links of its user along, and nothing leaves one behind
\* but a request of the same user to link that runs meanwhile.
THEOREM WithdrawalTakesLinks == Spec => LinksGoAlong
<1>1. ASSUME TypeInv, RowsInv, LinksInv, [Next]_vars
      PROVE  /\ \A r \in Requests :
                    req[r].pc = "discardLinks" /\ req'[r].pc = "commitGone" =>
                        ListIdentitiesByUser(req[r].user) \subseteq {req'[r].sub}
             /\ \A g \in Subjects :
                    LeftBehind(g)' /\ ~LeftBehind(g) =>
                        \E r \in Requests :
                            /\ req[r].user = link'[g]
                            /\ \/ req[r].pc = "linkInsert" /\ req[r].sub = g
                               \/ req[r].pc = "commitGone" /\ req[r].sub = None
  BY <1>1, RowSteps, FindsAll, WhoLeavesBehind
<1>2. TypeInv /\ RowsInv /\ LinksInv /\ [Next]_vars =>
          [/\ \A r \in Requests :
                  req[r].pc = "discardLinks" /\ req'[r].pc = "commitGone" =>
                      ListIdentitiesByUser(req[r].user) \subseteq {req'[r].sub}
           /\ \A g \in Subjects :
                  LeftBehind(g)' /\ ~LeftBehind(g) =>
                      \E r \in Requests :
                          /\ req[r].user = link'[g]
                          /\ \/ req[r].pc = "linkInsert" /\ req[r].sub = g
                             \/ req[r].pc = "commitGone" /\ req[r].sub = None]_vars
  BY <1>1
<1>3. QED
  BY <1>2, TypeInvHolds, RowsInvHolds, LinksInvHolds, PTL DEF Spec, LinksGoAlong

-----------------------------------------------------------------------------
(* Waiting.  Three kinds of requests that wait, each only for one of the      *)
(* next: no connection; a connection, and one row to go; a link to go.        *)

\* Statements that wait for nobody: the transaction has what it needs.
Final == {"redeemUser", "redeemCommit", "commitNew", "discardLinks", "commitGone"}

\* Rows are kept only by transactions that have what they need, and by a new
\* user whose link is still to be stored.
LEMMA KeepersAreFarther ==
    ASSUME NEW r \in Requests, NEW s \in Requests, WaitsForRow(r, s)
    PROVE  /\ r # s
           /\ req[r].pc \in {"createUser", "createIdentity", "linkInsert", "unlink", "lock", "discard"}
           /\ req[s].pc \in Final \cup {"createIdentity"}
           /\ req[r].pc = "createIdentity" => req[s].pc \in Final
  BY DEF WaitsForRow, Final, HoldsEmail, HoldsIdentity, HoldsUser, HoldsHandoff, NewRow, GoneRow

\* In a transaction nobody asks for another connection.
LEMMA OneConnectionEach ==
    ASSUME NEW r \in Requests, WaitsForConnection(r)
    PROVE  ~Connected(r)
  BY DEF WaitsForConnection, ReadsThrough

\* A pool without a free connection has given one to somebody.
LEMMA SomebodyHasOne ==
    ASSUME ~Connection
    PROVE  \E s \in Requests : Connected(s)
<1> DEFINE C == {s \in Requests : Connected(s)}
<1>1. ASSUME C = {} PROVE FALSE
  <2>1. Cardinality(C) = 0
    BY <1>1, FS_EmptySet
  <2>2. QED
    BY <2>1, AccountsAssumption DEF Connection
<1>2. QED
  BY <1>1

\* In no set of requests does each wait for one of the set.
LEMMA OneGoesOn ==
    ASSUME NEW S \in SUBSET Requests, S # {},
           \A r \in S : \/ \E s \in S : WaitsForRow(r, s)
                        \/ WaitsForConnection(r) /\ {s \in Requests : Connected(s)} \subseteq S
    PROVE  FALSE
<1>1. ASSUME NEW r \in S, Connected(r) PROVE \E s \in S : WaitsForRow(r, s)
  BY <1>1, OneConnectionEach
<1>2. ASSUME NEW r \in S, req[r].pc \in Final PROVE FALSE
  <2>1. Connected(r)
    BY <1>2 DEF Connected, InTransaction, Final
  <2>2. PICK s \in S : WaitsForRow(r, s)
    BY <1>1, <2>1
  <2>3. QED
    BY <1>2, <2>2, KeepersAreFarther DEF Final
<1>3. ASSUME NEW r \in S, req[r].pc = "createIdentity" PROVE FALSE
  <2>1. Connected(r)
    BY <1>3 DEF Connected, InTransaction
  <2>2. PICK s \in S : WaitsForRow(r, s)
    BY <1>1, <2>1
  <2>3. QED
    BY <1>2, <1>3, <2>2, KeepersAreFarther
<1>4. ASSUME NEW r \in S, NEW s \in S, WaitsForRow(r, s) PROVE FALSE
  BY <1>2, <1>3, <1>4, KeepersAreFarther
<1>5. PICK r \in S : TRUE
  OBVIOUS
<1>6. WaitsForConnection(r) /\ {s \in Requests : Connected(s)} \subseteq S
  BY <1>4, <1>5
<1>7. PICK s \in S : Connected(s)
  BY <1>6, SomebodyHasOne DEF WaitsForConnection
<1>8. QED
  BY <1>1, <1>4, <1>7

\* No group of requests waits in a circle for rows and connections.
THEOREM NobodyWaitsInACircle == Spec => []NoCircle
<1>1. ASSUME NEW S \in SUBSET Requests, S # {}
      PROVE  \E r \in S :
                 /\ \A s \in S : ~WaitsForRow(r, s)
                 /\ ~(WaitsForConnection(r) /\ {s \in Requests : Connected(s)} \subseteq S)
  BY <1>1, OneGoesOn
<1>2. NoCircle
  BY <1>1 DEF NoCircle
<1>3. QED
  BY <1>2, PTL
=============================================================================
