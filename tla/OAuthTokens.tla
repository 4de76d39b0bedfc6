----------------------------- MODULE OAuthTokens -----------------------------
(***************************************************************************)
(* The tokens an app gets for a user.  A consent stores a grant and a code; *)
(* the code is exchanged once for a pair of an access and a refresh token,  *)
(* and a refresh token once for the next pair.  What comes from one code is *)
(* a family.  A code or refresh token that is shown a second time revokes   *)
(* the family; deleting the grant, or withdrawing, deletes its rows.        *)
(* A request is a sequence of statements.  What a transaction wrote becomes *)
(* visible when it commits; until then the rows it touched keep others      *)
(* waiting, and a statement that waited works on the rows that were there   *)
(* when it began.                                                           *)
(***************************************************************************)
EXTENDS Naturals, FiniteSets

CONSTANTS
    Users, Apps, Scopes,
    DefaultScopes,  \* what an app asks for that names no scope
    Tools,          \* tools of the MCP server
    ToolScopes,     \* [Tools -> Scopes]: the scope a tool needs
    Grants,         \* ids of rows of oauth_grants
    Families,       \* ids of authorization requests
    Requests,       \* requests that run at the same time
    MaxGen,         \* bound: pairs of tokens of a family
    MaxRequests,    \* bound: requests in a behaviour
    MaxFaults,      \* bound: errors, crashes and rows that expire
    None

ASSUME OAuthAssumption ==
    /\ DefaultScopes \in (SUBSET Scopes) \ {{}}
    /\ ToolScopes \in [Tools -> Scopes]
    /\ MaxGen \in Nat \ {0}
    /\ MaxRequests \in Nat /\ MaxFaults \in Nat
    /\ None \notin Users \cup Apps \cup Grants \cup Families

VARIABLES
    active,   \* users who have not withdrawn
    grant,    \* rows of oauth_grants
    family,   \* rows of oauth_token_sessions, by family
    req,      \* running requests
    uses,     \* history: pairs that came from a code (0) or refresh token
    revoked,  \* history: families whose revocation has ended
    started, faults

rows    == <<active, grant, family>>
history == <<uses, revoked>>
bounds  == <<started, faults>>
vars    == <<rows, req, history, bounds>>

\* Pairs of tokens, counted from the code: 0 is the code itself.
Gens == 1..MaxGen
Shown == 0..MaxGen

NoRequest == [pc |-> "idle", f |-> None, g |-> 0, u |-> None, a |-> None, sc |-> {}, gr |-> None,
              left |-> {}, held |-> {}, seen |-> {}, again |-> FALSE]

\* A family without a row in the table.
NoRows == [user |-> None, grant |-> None, scopes |-> {}, code |-> "none", pkce |-> FALSE,
           refresh |-> [g \in Gens |-> "none"], access |-> {}]

\* A grant that is not in the table.
NoGrant(at) == [at |-> at, user |-> None, app |-> None, scopes |-> {}]

Init ==
    /\ active = Users
    /\ grant = [i \in Grants |-> NoGrant("free")]
    /\ family = [f \in Families |-> NoRows]
    /\ req = [r \in Requests |-> NoRequest]
    /\ uses = [f \in Families |-> [g \in Shown |-> 0]]
    /\ revoked = {}
    /\ started = 0
    /\ faults = 0

\* Request r goes on at pc, everything else it keeps.
Goto(r, pc) == req' = [req EXCEPT ![r].pc = pc]

\* The request has its answer; what it had not committed is rolled back.
Done(r) == req' = [req EXCEPT ![r] = NoRequest]

Arrive(r, q) ==
    /\ req[r].pc = "idle"
    /\ started < MaxRequests
    /\ started' = started + 1
    /\ req' = [req EXCEPT ![r] = q]
    /\ UNCHANGED <<rows, history, faults>>

-----------------------------------------------------------------------------
(* Locks of transactions that have not committed.                           *)

InTokenTx == {"create", "commit"}

\* Mutant of TokenTx: the code is used and the tokens are stored outside a transaction.
MutTokenTx(q, f, g) == FALSE

\* q used the code or refresh token g and has not committed.
TokenTx(q, f, g) == req[q].pc \in InTokenTx /\ req[q].f = f /\ req[q].g = g

\* q deletes grant i and has not committed.
Deletes(q, i) == i \in req[q].held

\* A withdrawal has deleted the rows of f and has not committed.
GoneHeld(f) == \E q \in Requests : req[q].pc = "commitGone" /\ Deletes(q, family[f].grant)

\* Another request keeps the row of (f, g).
RowHeld(r, f, g) == GoneHeld(f) \/ \E q \in Requests \ {r} : TokenTx(q, f, g)

DeleteHeld(r, i) == \E q \in Requests \ {r} : Deletes(q, i)

\* A token that is not committed refers to grant i.
Shared(i) == \E q \in Requests : req[q].pc = "commit" /\ family[req[q].f].grant = i

-----------------------------------------------------------------------------
(* Consent.                                                                 *)

\* WHERE user_id = $1 AND client_id = $2
GrantsOf(u, a) == {i \in Grants : grant[i].at = "row" /\ grant[i].user = u /\ grant[i].app = a}

\* Whether something asked for has not been granted.
ConsentRequired(granted, requested) == ~(requested \subseteq granted)

\* Mutant of NormalizeScopes: no scope stays no scope.
MutNormalizeScopes(sc) == sc

\* At the authorization endpoint no scope means the default.
NormalizeScopes(sc) == IF sc = {} THEN DefaultScopes ELSE sc

\* What an authorization request asks for.
Asked == [sc : SUBSET Scopes, challenge : {"S256", "plain", "none"}, resource : SUBSET {"own", "other"}]

ValidatePKCE(ask) == ask.challenge = "S256"

\* A token is for this server only; no resource means this one.
ResolveResource(ask) == ask.resource \subseteq {"own"}

ParseAuthorize(ask) == ValidatePKCE(ask) /\ ResolveResource(ask)

\* An active user agrees; a refusal, or a request that does not parse, stores nothing.
HandleDecision(r, u, a, ask) ==
    /\ u \in active
    /\ ParseAuthorize(ask)
    /\ Arrive(r, [NoRequest EXCEPT !.pc = "approve", !.u = u, !.a = a, !.sc = NormalizeScopes(ask.sc)])

\* Mutant of MergeScopes: the new consent replaces the old one.
MutMergeScopes(old, new) == new

MergeScopes(old, new) == old \cup new

\* INSERT ... ON CONFLICT (user_id, client_id) DO UPDATE ... RETURNING id
UpsertGrant(u, a, sc, i) ==
    \/ /\ i \in GrantsOf(u, a)
       /\ grant' = [grant EXCEPT ![i].scopes = MergeScopes(@, sc)]
    \/ /\ GrantsOf(u, a) = {}
       /\ grant[i].at = "free"
       /\ grant' = [grant EXCEPT ![i] = [at |-> "row", user |-> u, app |-> a, scopes |-> sc]]

\* The first statement of a decision; it waits while the row is being deleted.
Approve(r) ==
    LET q == req[r] IN
    /\ q.pc = "approve"
    /\ \A i \in GrantsOf(q.u, q.a) : ~DeleteHeld(r, i)
    /\ \E i \in Grants :
         /\ UpsertGrant(q.u, q.a, q.sc, i)
         /\ req' = [req EXCEPT ![r].pc = "checkGrant", ![r].gr = i]
    /\ UNCHANGED <<active, family, history, bounds>>

Permits(i, sc) == ~ConsentRequired(grant[i].scopes, sc)

\* The grant is read again: it must still be this one and cover the scopes.
CheckGrant(r) ==
    LET q == req[r] IN
    /\ q.pc = "checkGrant"
    /\ IF q.gr \in GrantsOf(q.u, q.a) /\ Permits(q.gr, q.sc) THEN Goto(r, "saveCode") ELSE Done(r)
    /\ UNCHANGED <<rows, history, bounds>>

\* The request is parsed again before the code is issued: the document in
\* which the app describes itself may be out of reach by now.
Unresolved(r) ==
    /\ req[r].pc = "checkGrant"
    /\ Done(r)
    /\ UNCHANGED <<rows, history, bounds>>

\* Rows the sweep may delete: expired, and nobody keeps them (SKIP LOCKED).
\* A refresh token outlives its access token.
Sweepable(r) ==
    {x \in Families \X Shown :
        /\ ~RowHeld(r, x[1], x[2])
        /\ IF x[2] = 0 THEN family[x[1]].code # "none"
                       ELSE family[x[1]].refresh[x[2]] # "none" /\ x[2] \notin family[x[1]].access}

\* Forget the code and its challenge (0), or a refresh token.
Discard(row, g) ==
    IF g = 0 THEN [row EXCEPT !.code = "none", !.pkce = FALSE]
             ELSE [row EXCEPT !.refresh[g] = "none"]

\* CreateAuthorizeCodeSession: the code is stored for the grant, and rows
\* that expired meanwhile, here at most one, are swept.
SaveCode(r) ==
    LET q == req[r] IN
    /\ q.pc = "saveCode"
    /\ ~DeleteHeld(r, q.gr)
    /\ \/ /\ grant[q.gr].at = "row"
          /\ \E f \in Families :
               LET new == [family EXCEPT ![f] = [NoRows EXCEPT !.user = q.u, !.grant = q.gr,
                                                               !.scopes = q.sc, !.code = "active"]] IN
               /\ family[f].grant = None
               /\ req' = [req EXCEPT ![r].pc = "savePKCE", ![r].f = f]
               /\ \/ family' = new /\ UNCHANGED faults
                  \/ /\ faults < MaxFaults
                     /\ faults' = faults + 1
                     /\ \E x \in Sweepable(r) : family' = [new EXCEPT ![x[1]] = Discard(@, x[2])]
       \/ /\ grant[q.gr].at # "row"
          /\ Done(r)
          /\ UNCHANGED <<family, faults>>
    /\ UNCHANGED <<active, grant, history, started>>

\* CreatePKCERequestSession; then the code goes to the app.
SavePKCE(r) ==
    LET q == req[r] IN
    /\ q.pc = "savePKCE"
    /\ ~DeleteHeld(r, q.gr)
    /\ family' = [family EXCEPT ![q.f].pkce = grant[q.gr].at = "row"]
    /\ Done(r)
    /\ UNCHANGED <<active, grant, history, bounds>>

-----------------------------------------------------------------------------
(* Tokens.                                                                  *)

\* The row of a code or a refresh token.
RowState(f, g) == IF g = 0 THEN family[f].code ELSE family[f].refresh[g]

\* The app shows a code (0) or a refresh token; one that is not stored is refused.
HandleToken(r, f, g) ==
    /\ RowState(f, g) # "none"
    /\ g < MaxGen
    /\ Arrive(r, [NoRequest EXCEPT !.pc = "read", !.f = f, !.g = g])

\* What is read of a code or refresh token: one that was used before makes
\* the library revoke the family, with a call for each kind of token.
ReadShown(r, next) ==
    LET q == req[r] IN
    /\ \/ /\ RowState(q.f, q.g) = "none"
          /\ Done(r)
       \/ /\ RowState(q.f, q.g) = "used"
          /\ req' = [req EXCEPT ![r].pc = "revoke", ![r].again = TRUE]
       \/ /\ RowState(q.f, q.g) = "active"
          /\ Goto(r, next)
    /\ UNCHANGED <<rows, history, bounds>>

\* GetAuthorizeCodeSession
ReadCode(r) == req[r].pc = "read" /\ req[r].g = 0 /\ ReadShown(r, "readPKCE")

\* GetRefreshTokenSession
ReadRefresh(r) == req[r].pc = "read" /\ req[r].g # 0 /\ ReadShown(r, "owner")

\* The challenge of the code; without one the exchange is refused.
ReadPKCE(r) ==
    /\ req[r].pc = "readPKCE"
    /\ IF family[req[r].f].pkce THEN Goto(r, "forgetPKCE") ELSE Done(r)
    /\ UNCHANGED <<rows, history, bounds>>

\* The challenge is deleted before the verifier is compared with it.
ForgetPKCE(r) ==
    /\ req[r].pc = "forgetPKCE"
    /\ ~GoneHeld(req[r].f)
    /\ family' = [family EXCEPT ![req[r].f].pkce = FALSE]
    /\ \/ Goto(r, "owner")
       \/ Done(r)
    /\ UNCHANGED <<active, grant, history, bounds>>

OwnerActive(f) == family[f].user \in active

\* Nothing is issued for a user who has withdrawn.
EnsureOwnerActive(r) ==
    /\ req[r].pc = "owner"
    /\ IF OwnerActive(req[r].f) THEN Goto(r, "use") ELSE Done(r)
    /\ UNCHANGED <<rows, history, bounds>>

\* Mutant of Usable: a code or refresh token that was used is used again.
MutUsable(f, g) == RowState(f, g) # "none"

\* WHERE ... AND active
Usable(f, g) == RowState(f, g) = "active"

\* InvalidateAuthorizeCodeSession: the transaction begins and uses the code.
\* One that somebody else used meanwhile is rolled back, and the family
\* revoked, with one call.
UseCode(r) ==
    LET f == req[r].f IN
    /\ req[r].pc = "use" /\ req[r].g = 0
    /\ ~RowHeld(r, f, 0)
    /\ \/ Usable(f, 0) /\ Goto(r, "create")
       \/ ~Usable(f, 0) /\ IF RowState(f, 0) = "used" THEN Goto(r, "revoke") ELSE Done(r)
    /\ UNCHANGED <<rows, history, bounds>>

\* RotateRefreshToken: the same for a refresh token, which is just refused.
UseRefresh(r) ==
    LET q == req[r] IN
    /\ q.pc = "use" /\ q.g # 0
    /\ ~RowHeld(r, q.f, q.g)
    /\ IF Usable(q.f, q.g) THEN Goto(r, "create") ELSE Done(r)
    /\ UNCHANGED <<rows, history, bounds>>

\* The new pair is inserted; its rows need the grant, and keep it.
CreateTokens(r) ==
    LET i == family[req[r].f].grant IN
    /\ req[r].pc = "create"
    /\ ~DeleteHeld(r, i)
    /\ IF grant[i].at = "row" THEN Goto(r, "commit") ELSE Done(r)
    /\ UNCHANGED <<rows, history, bounds>>

\* The refresh token becomes inactive and the family's access tokens are
\* deleted, in one statement.
Rotated(row, g) == [row EXCEPT !.refresh[g] = "used", !.access = {}]

\* The code becomes inactive.
Exchanged(row) == [row EXCEPT !.code = "used"]

\* The next pair: an access token and a refresh token.
Paired(row, g) == [row EXCEPT !.access = @ \cup {g}, !.refresh[g] = "active"]

\* The transaction commits, the app is answered with the pair.
CommitTokens(r) ==
    LET q == req[r] IN
    /\ q.pc = "commit"
    /\ family' = [family EXCEPT ![q.f] = Paired(IF q.g = 0 THEN Exchanged(@) ELSE Rotated(@, q.g), q.g + 1)]
    /\ uses' = [uses EXCEPT ![q.f][q.g] = @ + 1]
    /\ Done(r)
    /\ UNCHANGED <<active, grant, revoked, bounds>>

\* The access token of pair g is stored.
IntrospectAccessToken(f, g) == g \in family[f].access

\* The scopes of a token suffice for what is required.
Check(f, required) == required \subseteq family[f].scopes

\* Whether a call with that token is accepted: the owner is asked for first.
Authenticate(f, g, required) == IntrospectAccessToken(f, g) /\ OwnerActive(f) /\ Check(f, required)

\* The scopes a message needs, by the tools it was read to call.
RequiredScopes(tools) == {ToolScopes[t] : t \in tools}

\* The message gets through to the tools.
HandleMCP(f, g, tools) == Authenticate(f, g, RequiredScopes(tools))

\* The tool that is run asks for its scope again, whatever the message was
\* read to call.
Guarded(f, t) == ToolScopes[t] \in family[f].scopes

\* A message with the access token (f, g), read to call the tools, runs t.
Runs(f, g, tools, t) == HandleMCP(f, g, tools) /\ Guarded(f, t)

-----------------------------------------------------------------------------
(* Revocation of a family.                                                  *)

\* The app gives back a token that is stored; the library calls for each kind.
HandleRevoke(r, f, g) ==
    /\ g \in family[f].access \/ RowState(f, g) = "active"
    /\ Arrive(r, [NoRequest EXCEPT !.pc = "revoke", !.f = f, !.again = TRUE])

\* The statement begins: it will work on the rows committed by now.
RevokeBegins(r) ==
    LET row == family[req[r].f] IN
    /\ req[r].pc = "revoke"
    /\ req' = [req EXCEPT ![r].pc = "revoking",
                          ![r].seen = {g \in Gens : row.refresh[g] = "active" \/ g \in row.access}]
    /\ UNCHANGED <<rows, history, bounds>>

\* Refresh tokens inactive, access tokens deleted.
RevokedRow(row, seen) ==
    [row EXCEPT !.refresh = [g \in Gens |-> IF g \in seen /\ @[g] = "active" THEN "used" ELSE @[g]],
                !.access = @ \ seen]

\* The statement ends, after it waited for the rows others keep.
RevokeRequest(r) ==
    LET q == req[r] IN
    /\ q.pc = "revoking"
    /\ \A g \in q.seen : ~RowHeld(r, q.f, g)
    /\ family' = [family EXCEPT ![q.f] = RevokedRow(@, q.seen)]
    /\ \/ /\ q.again
          /\ req' = [req EXCEPT ![r].pc = "revoke", ![r].again = FALSE, ![r].seen = {}]
          /\ UNCHANGED revoked
       \/ /\ ~q.again
          /\ Done(r)
          /\ revoked' = revoked \cup {q.f}
    /\ UNCHANGED <<active, grant, uses, bounds>>

-----------------------------------------------------------------------------
(* Deleting grants.                                                         *)

\* A user revokes a grant of the own list.
HandleRevokeGrant(r, i) ==
    /\ grant[i].at = "row"
    /\ grant[i].user \in active
    /\ Arrive(r, [NoRequest EXCEPT !.pc = "lockGrants", !.left = {i}])

\* A user withdraws.
HandleDeleteUser(r, u) ==
    /\ u \in active
    /\ Arrive(r, [NoRequest EXCEPT !.pc = "discardUser", !.u = u])

\* Another withdrawal of the user has not committed.
UserHeld(r, u) ==
    \E q \in Requests \ {r} : req[q].u = u /\ req[q].pc \in {"deleteGrants", "lockGrants", "cascade", "commitGone"}

\* The withdrawal's transaction begins and discards the user.
DiscardUser(r) ==
    /\ req[r].pc = "discardUser"
    /\ ~UserHeld(r, req[r].u)
    /\ IF req[r].u \in active THEN Goto(r, "deleteGrants") ELSE Done(r)
    /\ UNCHANGED <<rows, history, bounds>>

\* DELETE FROM oauth_grants WHERE user_id = $1 begins.
DeleteGrantsByUser(r) ==
    LET mine == {i \in Grants : grant[i].at = "row" /\ grant[i].user = req[r].u} IN
    /\ req[r].pc = "deleteGrants"
    /\ req' = [req EXCEPT ![r].pc = IF mine = {} THEN "cascade" ELSE "lockGrants", ![r].left = mine]
    /\ UNCHANGED <<rows, history, bounds>>

\* The deletion takes a grant, when no uncommitted token refers to it.
LockGrant(r) ==
    LET q == req[r] IN
    /\ q.pc = "lockGrants"
    /\ \E i \in q.left :
         /\ ~Shared(i) /\ ~DeleteHeld(r, i)
         /\ req' = [req EXCEPT ![r].left = @ \ {i},
                               ![r].held = IF grant[i].at = "row" THEN @ \cup {i} ELSE @,
                               ![r].pc = IF q.left = {i} THEN "cascade" ELSE @]
    /\ UNCHANGED <<rows, history, bounds>>

\* ON DELETE CASCADE
Cascaded(row) == [NoRows EXCEPT !.user = row.user, !.grant = row.grant, !.scopes = row.scopes]

DeleteGrants(held) ==
    /\ grant' = [i \in Grants |-> IF i \in held THEN NoGrant("gone") ELSE grant[i]]
    /\ family' = [f \in Families |-> IF family[f].grant \in held THEN Cascaded(family[f]) ELSE family[f]]

\* The rows of the tokens are deleted, when no transaction keeps one.
Cascade(r) ==
    LET q == req[r] IN
    /\ q.pc = "cascade"
    /\ \A p \in Requests : req[p].pc \in InTokenTx => family[req[p].f].grant \notin q.held
    /\ \/ /\ q.u = None
          /\ DeleteGrants(q.held)
          /\ Done(r)
       \/ /\ q.u # None
          /\ Goto(r, "commitGone")
          /\ UNCHANGED <<grant, family>>
    /\ UNCHANGED <<active, history, bounds>>

\* The withdrawal commits: the user, the grants and the tokens are gone.
CommitGone(r) ==
    /\ req[r].pc = "commitGone"
    /\ active' = active \ {req[r].u}
    /\ DeleteGrants(req[r].held)
    /\ Done(r)
    /\ UNCHANGED <<history, bounds>>

\* A token's transaction waits for the grant, its deletion for the token's row.
Circle(t, d) ==
    /\ req[t].pc = "create"
    /\ Deletes(d, family[req[t].f].grant)
    /\ req[d].pc = "cascade"

\* The database rolls back one of two requests that wait for each other.
DeadlockDetected(r) ==
    /\ \E q \in Requests : Circle(r, q) \/ Circle(q, r)
    /\ Done(r)
    /\ UNCHANGED <<rows, history, bounds>>

\* A statement fails, or the process ends: nothing uncommitted stays.
Fault(r) ==
    /\ req[r].pc # "idle"
    /\ faults < MaxFaults
    /\ faults' = faults + 1
    /\ Done(r)
    /\ UNCHANGED <<rows, history, started>>

-----------------------------------------------------------------------------

\* A statement of a running request.
Step(r) ==
    \/ Approve(r) \/ CheckGrant(r) \/ Unresolved(r) \/ SaveCode(r) \/ SavePKCE(r)
    \/ ReadCode(r) \/ ReadRefresh(r) \/ ReadPKCE(r) \/ ForgetPKCE(r) \/ EnsureOwnerActive(r)
    \/ UseCode(r) \/ UseRefresh(r) \/ CreateTokens(r) \/ CommitTokens(r)
    \/ RevokeBegins(r) \/ RevokeRequest(r)
    \/ DiscardUser(r) \/ DeleteGrantsByUser(r) \/ LockGrant(r) \/ Cascade(r) \/ CommitGone(r)
    \/ DeadlockDetected(r)

Start(r) ==
    \/ \E u \in Users, a \in Apps, ask \in Asked : HandleDecision(r, u, a, ask)
    \/ \E f \in Families, g \in Shown : HandleToken(r, f, g)
    \/ \E f \in Families, g \in Gens : HandleRevoke(r, f, g)
    \/ \E i \in Grants : HandleRevokeGrant(r, i)
    \/ \E u \in Users : HandleDeleteUser(r, u)

Next == \E r \in Requests : Step(r) \/ Start(r) \/ Fault(r)

Spec == Init /\ [][Next]_vars

-----------------------------------------------------------------------------
(* Properties.                                                              *)

Pcs == {"idle", "approve", "checkGrant", "saveCode", "savePKCE", "read", "readPKCE", "forgetPKCE",
        "owner", "use", "create", "commit", "revoke", "revoking", "discardUser", "deleteGrants",
        "lockGrants", "cascade", "commitGone"}

RequestType ==
    [pc : Pcs,
     f : Families \cup {None}, g : Shown, u : Users \cup {None}, a : Apps \cup {None},
     sc : SUBSET Scopes, gr : Grants \cup {None}, left : SUBSET Grants, held : SUBSET Grants,
     seen : SUBSET Gens, again : BOOLEAN]

\* Rows and requests have the shape the code gives them; a request that is
\* done keeps nothing.
TypeOK ==
    /\ active \subseteq Users
    /\ \A i \in Grants :
         /\ grant[i].at \in {"free", "row", "gone"}
         /\ grant[i].at = "row" => grant[i].user \in Users /\ grant[i].app \in Apps
                                   /\ grant[i].scopes \in (SUBSET Scopes) \ {{}}
         /\ grant[i].at # "row" => grant[i] = NoGrant(grant[i].at)
    /\ \A f \in Families :
         /\ family[f].code \in {"none", "active", "used"}
         /\ family[f].refresh \in [Gens -> {"none", "active", "used"}]
         /\ family[f].access \subseteq Gens
         /\ family[f].grant = None => family[f] = NoRows
    /\ req \in [Requests -> RequestType]
    /\ \A r \in Requests : req[r].pc = "idle" => req[r] = NoRequest
    /\ revoked \subseteq Families
    /\ started \in 0..MaxRequests
    /\ faults \in 0..MaxFaults

\* A code, and a refresh token, brings tokens once, however many requests
\* show it at the same time and whichever of them fail; and only the newest
\* pair of a family works, none while its code does.
UsedOnce ==
    /\ \A f \in Families, g \in Shown : uses[f][g] <= 1
    /\ \A f \in Families : \A g \in Gens :
         (family[f].refresh[g] = "active" \/ g \in family[f].access) =>
             /\ family[f].code # "active"
             /\ \A h \in Gens : h > g => family[f].refresh[h] = "none" /\ h \notin family[f].access

\* What is stored for a family stays within a grant that is there, is the
\* owner's, and covers the family's scopes; a tool runs only for an active
\* user who granted the scope it needs.
WithinGrant ==
    /\ \A f \in Families :
         LET row == family[f] IN
         (row.code # "none" \/ row.pkce \/ row.access # {} \/ \E g \in Gens : row.refresh[g] # "none") =>
             /\ grant[row.grant].at = "row"
             /\ grant[row.grant].user = row.user
             /\ row.scopes \subseteq grant[row.grant].scopes
    /\ \A f \in Families, g \in Gens, t \in Tools :
         (\E tools \in SUBSET Tools : Runs(f, g, tools, t)) =>
             /\ grant[family[f].grant].user \in active
             /\ ToolScopes[t] \in grant[family[f].grant].scopes

Alive(row) == row.code = "active" \/ row.access # {} \/ \E g \in Gens : row.refresh[g] = "active"

\* The promises of TokenFamily, for the rows as they are committed.
Promised == INSTANCE TokenFamily WITH
    life <- [f \in Families |-> IF family[f].grant = None THEN "none"
                                ELSE IF Alive(family[f]) THEN "live" ELSE "ended"],
    head <- [f \in Families |-> Cardinality({g \in Shown : uses[f][g] > 0})]

\* Every behaviour keeps them: what ended by a reuse, a revocation or a
\* withdrawal never lives again, and tokens come only from a live family.
FamilyKept == Promised!Spec

\* What server.go says of the token and revocation endpoints: after a reuse
\* was found, or a token given back, no access token of the family works.
RevokedStaysRevoked ==
    \A f \in revoked, g \in Gens : ~Authenticate(f, g, {})
=============================================================================
