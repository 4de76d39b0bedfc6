-------------------------- MODULE OAuthTokens_proofs --------------------------
(***************************************************************************)
(* OAuthTokens for any users, apps, scopes, grants, families and requests,  *)
(* and pairs of tokens up to any number.                                    *)
(*                                                                          *)
(* Three inductive invariants, each with the ones before it.  TypeInv: what *)
(* rows and requests look like.  GrantsInv: a family belongs to one grant   *)
(* for good, and no token is stored while its grant goes.  PairsInv: who    *)
(* uses a code or a refresh token has its row until the commit, so that one *)
(* pair of a family is the newest.  With them every step is one of          *)
(* TokenFamily, or none.                                                    *)
(***************************************************************************)
EXTENDS OAuthTokens, FiniteSetTheorems, TLAPS

\* What a code or a refresh token can be.
States == {"none", "active", "used"}

\* A row of oauth_grants, or its absence.
GrantRow == [at : {"free", "row", "gone"}, user : Users \cup {None}, app : Apps \cup {None},
             scopes : SUBSET Scopes]

\* The rows of a family.
FamilyRow == [user : Users \cup {None}, grant : Grants \cup {None}, scopes : SUBSET Scopes,
              code : States, pkce : BOOLEAN, refresh : [Gens -> States], access : SUBSET Gens]

\* The request shows a code or a refresh token.
Showing == {"read", "readPKCE", "forgetPKCE", "owner", "use", "create", "commit"}

\* What a request has filled in where it stands; its family has been opened.
WellFormed(q) ==
    /\ q.pc = "approve" => q.u \in Users /\ q.a \in Apps /\ q.sc # {}
    /\ q.pc \in {"checkGrant", "saveCode", "savePKCE"} => q.gr # None
    /\ q.pc \in Showing \cup {"savePKCE", "revoke", "revoking"} =>
          q.f # None /\ family[q.f].grant # None
    /\ q.pc \in Showing => q.g < MaxGen

\* Kinds, and what requests have filled in.
TypeInv ==
    /\ TypeOK
    /\ grant \in [Grants -> GrantRow]
    /\ family \in [Families -> FamilyRow]
    /\ uses \in [Families -> [Shown -> Nat]]
    /\ \A r \in Requests : WellFormed(req[r])

\* Something is stored for the family.
HasRows(row) ==
    row.code # "none" \/ row.pkce \/ row.access # {} \/ \E g \in Gens : row.refresh[g] # "none"

\* While grant i is there, it is u's and covers the scopes.
Covers(i, u, sc) ==
    /\ grant[i].at # "free"
    /\ grant[i].at = "row" => grant[i].user = u /\ sc \subseteq grant[i].scopes

\* The grant of a family, and of a consent that is about to be stored; a
\* family has rows only while its grant is there.
GrantsOK ==
    /\ \A f \in Families : family[f].grant # None =>
          Covers(family[f].grant, family[f].user, family[f].scopes)
    /\ \A f \in Families : HasRows(family[f]) => grant[family[f].grant].at = "row"
    /\ \A r \in Requests : req[r].pc \in {"saveCode", "savePKCE"} =>
          Covers(req[r].gr, req[r].u, req[r].sc)
    /\ \A r \in Requests : req[r].pc = "savePKCE" => family[req[r].f].grant = req[r].gr

\* Tokens about to be stored have their grant, and no withdrawal about to
\* commit takes it away.
TokensOfRows ==
    /\ \A r \in Requests : req[r].pc = "commit" => grant[family[req[r].f].grant].at = "row"
    /\ \A r, d \in Requests :
          req[r].pc \in InTokenTx /\ req[d].pc = "commitGone" => ~Deletes(d, family[req[r].f].grant)

\* Families, consents and transactions keep to grants that are there.
GrantsInv == GrantsOK /\ TokensOfRows

\* What is usable was not used, and nothing came after it; before its code is
\* used a family has no pair.
Unused ==
    /\ \A f \in Families, g \in Shown :
          RowState(f, g) = "active" => \A h \in Shown : h >= g => uses[f][h] = 0
    /\ \A f \in Families : family[f].grant = None => \A g \in Shown : uses[f][g] = 0
    /\ \A f \in Families : family[f].code = "active" =>
          family[f].access = {} /\ \A g \in Gens : family[f].refresh[g] = "none"

\* Who uses a code or a refresh token has its row, alone.
RowsOfTx ==
    /\ \A r \in Requests : req[r].pc \in InTokenTx => RowState(req[r].f, req[r].g) = "active"
    /\ \A r, s \in Requests :
          req[r].pc \in InTokenTx /\ req[s].pc \in InTokenTx /\ r # s => req[r].f # req[s].f

\* Pairs follow each other, one transaction at a time.
PairsInv == UsedOnce /\ Unused /\ RowsOfTx

-----------------------------------------------------------------------------
(* What the operators do to the row of a family.                            *)

\* A row of the same consent.
Keeps(row, new) ==
    new \in FamilyRow /\ new.user = row.user /\ new.grant = row.grant /\ new.scopes = row.scopes

\* Pairs are counted by naturals; the code is before all of them.
LEMMA Counting ==
    /\ Gens \subseteq Nat /\ Shown \subseteq Nat /\ Gens \subseteq Shown /\ 0 \in Shown /\ 0 \notin Gens
    /\ \A g \in Shown : g # 0 => g \in Gens
    /\ \A g \in Shown : g < MaxGen => g + 1 \in Gens
  BY OAuthAssumption DEF Gens, Shown

\* A code or a refresh token is forgotten.
LEMMA DiscardIs ==
    ASSUME NEW row \in FamilyRow, NEW g \in Shown
    PROVE  /\ Keeps(row, Discard(row, g))
           /\ Discard(row, g).access = row.access
           /\ Discard(row, g).code = IF g = 0 THEN "none" ELSE row.code
           /\ Discard(row, g).pkce => row.pkce
           /\ \A h \in Gens : Discard(row, g).refresh[h] = IF h = g THEN "none" ELSE row.refresh[h]
<1>1. CASE g = 0
  BY <1>1, Counting DEF Discard, Keeps, FamilyRow, States
<1>2. CASE g # 0
  <2>1. g \in Gens /\ row.refresh \in [Gens -> States]
    BY <1>2, Counting DEF FamilyRow
  <2> DEFINE rf == [row.refresh EXCEPT ![g] = "none"]
  <2>2. rf \in [Gens -> States] /\ \A h \in Gens : rf[h] = IF h = g THEN "none" ELSE row.refresh[h]
    BY <2>1 DEF States
  <2>3. Discard(row, g) = [row EXCEPT !.refresh = rf]
    BY <1>2 DEF Discard, FamilyRow
  <2> HIDE DEF rf
  <2>4. QED
    BY <1>2, <2>2, <2>3 DEF Keeps, FamilyRow
<1>3. QED
  BY <1>1, <1>2

\* Forgetting brings nothing.
LEMMA DiscardTakes ==
    ASSUME NEW row \in FamilyRow, NEW g \in Shown, HasRows(Discard(row, g)) PROVE HasRows(row)
  BY DiscardIs DEF HasRows

\* What the commit of a token request does to the row.
NextPair(row, g) == Paired(IF g = 0 THEN Exchanged(row) ELSE Rotated(row, g), g + 1)

\* The next pair takes the place of the code, or of the pair before it.
LEMMA PairIs ==
    ASSUME NEW row \in FamilyRow, NEW g \in Shown, g < MaxGen
    PROVE  /\ Keeps(row, NextPair(row, g))
           /\ NextPair(row, g).code = IF g = 0 THEN "used" ELSE row.code
           /\ NextPair(row, g).access = (IF g = 0 THEN row.access ELSE {}) \cup {g + 1}
           /\ \A h \in Gens : NextPair(row, g).refresh[h] =
                 IF h = g + 1 THEN "active" ELSE IF h = g THEN "used" ELSE row.refresh[h]
<1> DEFINE old == IF g = 0 THEN Exchanged(row) ELSE Rotated(row, g)
<1>1. /\ Keeps(row, old)
      /\ old.code = IF g = 0 THEN "used" ELSE row.code
      /\ old.access = IF g = 0 THEN row.access ELSE {}
      /\ \A h \in Gens : old.refresh[h] = IF h = g THEN "used" ELSE row.refresh[h]
  <2>1. CASE g = 0
    BY <2>1, Counting DEF Exchanged, Keeps, FamilyRow, States
  <2>2. CASE g # 0
    <3>1. g \in Gens /\ row.refresh \in [Gens -> States]
      BY <2>2, Counting DEF FamilyRow
    <3> DEFINE rf == [row.refresh EXCEPT ![g] = "used"]
    <3>2. rf \in [Gens -> States] /\ \A h \in Gens : rf[h] = IF h = g THEN "used" ELSE row.refresh[h]
      BY <3>1 DEF States
    <3>3. Rotated(row, g) = [row EXCEPT !.refresh = rf, !.access = {}]
      BY DEF Rotated, FamilyRow
    <3> HIDE DEF rf
    <3>4. QED
      BY <2>2, <3>2, <3>3 DEF Keeps, FamilyRow
  <2>3. QED
    BY <2>1, <2>2
<1> HIDE DEF old
<1>2. old \in FamilyRow /\ g + 1 \in Gens
  BY <1>1, Counting DEF Keeps
<1> DEFINE rf == [old.refresh EXCEPT ![g + 1] = "active"]
           acc == old.access \cup {g + 1}
<1>3. /\ rf \in [Gens -> States] /\ acc \in SUBSET Gens
      /\ \A h \in Gens : rf[h] = IF h = g + 1 THEN "active" ELSE old.refresh[h]
  BY <1>2 DEF States, FamilyRow
<1>4. Paired(old, g + 1) = [old EXCEPT !.access = acc, !.refresh = rf]
  BY <1>2 DEF Paired, FamilyRow
<1> HIDE DEF rf
<1>5. /\ Keeps(old, Paired(old, g + 1)) /\ Paired(old, g + 1).code = old.code
      /\ Paired(old, g + 1).access = acc /\ Paired(old, g + 1).refresh = rf
  BY <1>2, <1>3, <1>4 DEF Keeps, FamilyRow
<1>6. NextPair(row, g) = Paired(old, g + 1)
  BY DEF NextPair, old
<1>7. QED
  BY <1>1, <1>3, <1>5, <1>6 DEF Keeps

\* A revocation takes what it saw, and gives nothing back.
LEMMA RevokedIs ==
    ASSUME NEW row \in FamilyRow, NEW seen \in SUBSET Gens
    PROVE  /\ Keeps(row, RevokedRow(row, seen))
           /\ RevokedRow(row, seen).code = row.code /\ RevokedRow(row, seen).pkce = row.pkce
           /\ RevokedRow(row, seen).access = row.access \ seen
           /\ \A h \in Gens : RevokedRow(row, seen).refresh[h] =
                 IF h \in seen /\ row.refresh[h] = "active" THEN "used" ELSE row.refresh[h]
<1> DEFINE rf == [g \in Gens |-> IF g \in seen /\ row.refresh[g] = "active" THEN "used"
                                 ELSE row.refresh[g]]
<1>1. rf \in [Gens -> States]
  BY DEF FamilyRow, States
<1>2. \A h \in Gens : rf[h] = IF h \in seen /\ row.refresh[h] = "active" THEN "used" ELSE row.refresh[h]
  OBVIOUS
<1>3. RevokedRow(row, seen) = [row EXCEPT !.refresh = rf, !.access = row.access \ seen]
  BY DEF RevokedRow, FamilyRow
<1> HIDE DEF rf
<1>4. QED
  BY <1>1, <1>2, <1>3 DEF Keeps, FamilyRow

\* A family that is not open has nothing.
LEMMA NoRowsIs ==
    /\ NoRows \in FamilyRow /\ ~HasRows(NoRows) /\ NoRows.grant = None
    /\ NoRows.code = "none" /\ NoRows.access = {} /\ \A h \in Gens : NoRows.refresh[h] = "none"
<1> DEFINE rf == [g \in Gens |-> "none"]
<1>1. rf \in [Gens -> States] /\ \A h \in Gens : rf[h] = "none"
  BY DEF States
<1>2. NoRows = [user |-> None, grant |-> None, scopes |-> {}, code |-> "none", pkce |-> FALSE,
                refresh |-> rf, access |-> {}]
  BY DEF NoRows
<1> HIDE DEF rf
<1>3. QED
  BY <1>1, <1>2 DEF FamilyRow, States, HasRows

\* A cascade leaves nothing.
LEMMA CascadedIs ==
    ASSUME NEW row \in FamilyRow
    PROVE  /\ Keeps(row, Cascaded(row)) /\ ~HasRows(Cascaded(row))
           /\ Cascaded(row).code = "none" /\ Cascaded(row).access = {}
           /\ \A h \in Gens : Cascaded(row).refresh[h] = "none"
<1>1. /\ Cascaded(row) \in FamilyRow
      /\ Cascaded(row).user = row.user /\ Cascaded(row).grant = row.grant
      /\ Cascaded(row).scopes = row.scopes
      /\ Cascaded(row).code = NoRows.code /\ Cascaded(row).access = NoRows.access
      /\ Cascaded(row).refresh = NoRows.refresh /\ Cascaded(row).pkce = NoRows.pkce
  BY NoRowsIs DEF Cascaded, FamilyRow
<1>2. QED
  BY <1>1, NoRowsIs DEF Keeps, HasRows

\* The row of a family that is opened.
Opened(u, i, sc) == [NoRows EXCEPT !.user = u, !.grant = i, !.scopes = sc, !.code = "active"]

\* A family that is opened has its code, and nothing else.
LEMMA OpenedIs ==
    ASSUME NEW u \in Users \cup {None}, NEW i \in Grants, NEW sc \in SUBSET Scopes
    PROVE  /\ Opened(u, i, sc) \in FamilyRow /\ Opened(u, i, sc).user = u
           /\ Opened(u, i, sc).grant = i /\ Opened(u, i, sc).scopes = sc
           /\ Opened(u, i, sc).code = "active" /\ Opened(u, i, sc).access = {}
           /\ \A h \in Gens : Opened(u, i, sc).refresh[h] = "none"
  BY NoRowsIs DEF FamilyRow, States, Opened

-----------------------------------------------------------------------------
(* TypeInv.                                                                 *)

\* The parts of TypeInv, by what a step may leave alone: rows of grants,
GrantsTyped ==
    /\ grant \in [Grants -> GrantRow]
    /\ \A i \in Grants :
         /\ grant[i].at = "row" => grant[i].user \in Users /\ grant[i].app \in Apps
                                   /\ grant[i].scopes \in (SUBSET Scopes) \ {{}}
         /\ grant[i].at # "row" => grant[i] = NoGrant(grant[i].at)

\* rows of families,
FamiliesTyped ==
    /\ family \in [Families -> FamilyRow]
    /\ \A f \in Families : family[f].grant = None => family[f] = NoRows

\* requests,
RequestsOK ==
    /\ req \in [Requests -> RequestType]
    /\ \A r \in Requests : req[r].pc = "idle" => req[r] = NoRequest
    /\ \A r \in Requests : WellFormed(req[r])

\* the history,
HistoryTyped == uses \in [Families -> [Shown -> Nat]] /\ revoked \subseteq Families

\* and the bounds.
BoundsTyped == started \in 0..MaxRequests /\ faults \in 0..MaxFaults

\* Who withdrew does not come back, and a family stays with its consent.
Stay ==
    /\ active' \subseteq active
    /\ \A f \in Families : family[f].grant # None => Keeps(family[f], family'[f])

\* TypeInv by its parts.
LEMMA TypeParts ==
    TypeInv <=> /\ active \subseteq Users /\ GrantsTyped /\ FamiliesTyped /\ RequestsOK
                /\ HistoryTyped /\ BoundsTyped
  BY DEF TypeInv, TypeOK, GrantsTyped, FamiliesTyped, RequestsOK, HistoryTyped, BoundsTyped,
         GrantRow, FamilyRow, States

\* The same after a step.
LEMMA TypePartsNext ==
    TypeInv' <=> /\ active' \subseteq Users /\ GrantsTyped' /\ FamiliesTyped' /\ RequestsOK'
                 /\ HistoryTyped' /\ BoundsTyped'
  BY DEF TypeInv, TypeOK, GrantsTyped, FamiliesTyped, RequestsOK, HistoryTyped, BoundsTyped,
         GrantRow, FamilyRow, States, WellFormed

\* Rows that a step leaves alone.
LEMMA Unmoved ==
    ASSUME TypeInv
    PROVE  /\ UNCHANGED active => active' \subseteq Users
           /\ UNCHANGED grant => GrantsTyped'
           /\ UNCHANGED family => FamiliesTyped'
           /\ UNCHANGED history => HistoryTyped'
           /\ UNCHANGED bounds => BoundsTyped'
           /\ UNCHANGED <<active, family>> => Stay
<1>1. active \subseteq Users /\ GrantsTyped /\ FamiliesTyped /\ HistoryTyped /\ BoundsTyped
  BY TypeParts
<1>2. UNCHANGED grant => GrantsTyped'
  BY <1>1 DEF GrantsTyped
<1>3. UNCHANGED family => FamiliesTyped'
  BY <1>1 DEF FamiliesTyped
<1>4. UNCHANGED history => HistoryTyped'
  BY <1>1 DEF HistoryTyped, history
<1>5. UNCHANGED bounds => BoundsTyped'
  BY <1>1 DEF BoundsTyped, bounds
<1>6. UNCHANGED <<active, family>> => Stay
  BY <1>1 DEF Stay, Keeps, FamiliesTyped
<1>7. QED
  BY <1>1, <1>2, <1>3, <1>4, <1>5, <1>6

\* Only request r moves.
Moves(r) ==
    /\ req' \in [Requests -> RequestType]
    /\ \A x \in Requests : x # r => req'[x] = req[x]

\* One request moves to where it is well formed, and families stay.
LEMMA MoveKeeps ==
    ASSUME TypeInv, Stay, NEW r \in Requests, Moves(r), WellFormed(req[r])',
           req'[r].pc = "idle" => req'[r] = NoRequest
    PROVE  RequestsOK'
<1>1. ASSUME NEW x \in Requests, x # r PROVE WellFormed(req[x])'
  <2>1. req'[x] = req[x] /\ WellFormed(req[x]) /\ req[x] \in RequestType
    BY <1>1 DEF Moves, TypeInv, TypeOK
  <2>2. req[x].f \in Families \cup {None}
    BY <2>1 DEF RequestType
  <2>3. req[x].f # None /\ family[req[x].f].grant # None => family'[req[x].f].grant # None
    BY <2>2 DEF Stay, Keeps
  <2>4. QED
    BY <2>1, <2>3 DEF WellFormed
<1>2. \A x \in Requests : req'[x].pc = "idle" => req'[x] = NoRequest
  BY DEF TypeInv, TypeOK, Moves
<1>3. QED
  BY <1>1, <1>2 DEF RequestsOK, Moves

\* What Goto and Done do to the request.
LEMMA GotoDoes ==
    ASSUME TypeInv, Stay, NEW r \in Requests, NEW pc, Goto(r, pc), pc # "idle",
           NEW q \in RequestType, q = [req[r] EXCEPT !.pc = pc], WellFormed(q)'
    PROVE  Moves(r) /\ req'[r] = q /\ RequestsOK'
<1>1. req \in [Requests -> RequestType]
  BY DEF TypeInv, TypeOK
<1>2. req' = [req EXCEPT ![r] = q]
  BY <1>1 DEF Goto, RequestType
<1>3. q.pc = pc
  BY <1>1 DEF RequestType
<1>4. Moves(r) /\ req'[r] = q
  BY <1>1, <1>2 DEF Moves
<1>5. WellFormed(req[r])'
  BY <1>4 DEF WellFormed
<1>6. QED
  BY <1>3, <1>4, <1>5, MoveKeeps

\* The places a request can be at, one by one.
LEMMA PcsHave ==
    /\ "idle" \in Pcs /\ "approve" \in Pcs /\ "checkGrant" \in Pcs /\ "saveCode" \in Pcs
    /\ "savePKCE" \in Pcs /\ "read" \in Pcs /\ "readPKCE" \in Pcs /\ "forgetPKCE" \in Pcs
    /\ "owner" \in Pcs /\ "use" \in Pcs /\ "create" \in Pcs /\ "commit" \in Pcs
    /\ "revoke" \in Pcs /\ "revoking" \in Pcs /\ "discardUser" \in Pcs /\ "deleteGrants" \in Pcs
    /\ "lockGrants" \in Pcs /\ "cascade" \in Pcs /\ "commitGone" \in Pcs
  BY DEF Pcs

\* A request that is done has nothing.
LEMMA NoRequestIs ==
    NoRequest \in RequestType /\ NoRequest.pc = "idle" /\ NoRequest.held = {}
  BY Counting, PcsHave DEF NoRequest, RequestType

\* The end of a request.
LEMMA DoneDoes ==
    ASSUME TypeInv, Stay, NEW r \in Requests, Done(r)
    PROVE  Moves(r) /\ req'[r] = NoRequest /\ RequestsOK'
<1>1. Moves(r) /\ req'[r] = NoRequest
  BY NoRequestIs DEF TypeInv, TypeOK, Done, Moves
<1>2. WellFormed(req[r])'
  BY <1>1, NoRequestIs DEF WellFormed, Showing
<1>3. QED
  BY <1>1, <1>2, MoveKeeps

\* At the start nothing is stored.
LEMMA InitTyped == Init => TypeInv
<1> SUFFICES ASSUME Init PROVE TypeInv
  OBVIOUS
<1>1. GrantsTyped
  BY DEF Init, GrantsTyped, GrantRow, NoGrant
<1>2. FamiliesTyped
  BY NoRowsIs DEF Init, FamiliesTyped
<1>3. RequestsOK
  BY NoRequestIs DEF Init, RequestsOK, WellFormed, Showing
<1>4. HistoryTyped /\ BoundsTyped /\ active \subseteq Users
  BY OAuthAssumption DEF Init, HistoryTyped, BoundsTyped
<1>5. QED
  BY <1>1, <1>2, <1>3, <1>4, TypeParts

\* Only the row of one open family changes, and stays of its consent.
LEMMA FamilyMoves ==
    ASSUME TypeInv, NEW f \in Families, family[f].grant # None, NEW row, Keeps(family[f], row),
           family' = [family EXCEPT ![f] = row], UNCHANGED active
    PROVE  FamiliesTyped' /\ Stay
<1>1. FamiliesTyped
  BY TypeParts
<1>2. /\ family'[f] = row /\ \A x \in Families : x # f => family'[x] = family[x]
      /\ family' \in [Families -> FamilyRow]
  BY <1>1 DEF FamiliesTyped, Keeps
<1>3. FamiliesTyped'
  BY <1>1, <1>2 DEF FamiliesTyped, Keeps
<1>4. Stay
  BY <1>1, <1>2 DEF Stay, FamiliesTyped, Keeps
<1>5. QED
  BY <1>3, <1>4

\* A request arrives; the rows stay as they are.
LEMMA ArriveKeeps ==
    ASSUME TypeInv, NEW r \in Requests, NEW q \in RequestType, Arrive(r, q), WellFormed(q), q.pc # "idle"
    PROVE  Moves(r) /\ req'[r] = q /\ TypeInv' /\ UNCHANGED <<rows, history>>
<1>1. UNCHANGED <<rows, history, faults>>
  BY DEF Arrive
<1>2. Stay
  BY <1>1, Unmoved DEF rows
<1>3. Moves(r) /\ req'[r] = q
  BY DEF TypeInv, TypeOK, Arrive, Moves
<1>4. WellFormed(req[r])'
  BY <1>1, <1>3 DEF WellFormed, rows
<1>5. RequestsOK'
  BY <1>2, <1>3, <1>4, MoveKeeps
<1>6. BoundsTyped'
  BY OAuthAssumption, TypeParts DEF Arrive, BoundsTyped
<1>7. QED
  BY <1>1, <1>3, <1>5, <1>6, Unmoved, TypePartsNext DEF rows

\* Every request starts well formed, and outside all transactions.
LEMMA StartKeeps ==
    ASSUME TypeInv, NEW r \in Requests, Start(r)
    PROVE  /\ Moves(r) /\ TypeInv' /\ UNCHANGED <<rows, history>>
           /\ req'[r].pc \in {"approve", "read", "revoke", "lockGrants", "discardUser"}
           /\ req'[r].held = {}
<1>1. ASSUME NEW u \in Users, NEW a \in Apps, NEW ask \in Asked, HandleDecision(r, u, a, ask)
      PROVE  /\ Moves(r) /\ TypeInv' /\ UNCHANGED <<rows, history>>
             /\ req'[r].pc = "approve" /\ req'[r].held = {}
  <2> DEFINE sc == NormalizeScopes(ask.sc)
             q == [NoRequest EXCEPT !.pc = "approve", !.u = u, !.a = a, !.sc = sc]
  <2>1. sc \in (SUBSET Scopes) \ {{}}
    <3>1. ask.sc \in SUBSET Scopes
      BY DEF Asked
    <3>2. QED
      BY <3>1, OAuthAssumption DEF NormalizeScopes
  <2>2. Arrive(r, q)
    BY <1>1 DEF HandleDecision
  <2> HIDE DEF sc
  <2>3. /\ q \in RequestType /\ q.pc = "approve" /\ q.u = u /\ q.a = a /\ q.sc = sc /\ q.held = {}
    BY <2>1, NoRequestIs, PcsHave DEF RequestType
  <2> HIDE DEF q
  <2>4. WellFormed(q)
    BY <2>1, <2>3 DEF WellFormed, Showing
  <2>5. QED
    BY <2>2, <2>3, <2>4, ArriveKeeps
<1>2. ASSUME NEW f \in Families, NEW g \in Shown, HandleToken(r, f, g)
      PROVE  /\ Moves(r) /\ TypeInv' /\ UNCHANGED <<rows, history>>
             /\ req'[r].pc = "read" /\ req'[r].held = {}
  <2> DEFINE q == [NoRequest EXCEPT !.pc = "read", !.f = f, !.g = g]
  <2>1. family[f].grant # None
    BY <1>2, TypeParts, NoRowsIs, Counting DEF HandleToken, RowState, FamiliesTyped
  <2>2. Arrive(r, q) /\ g < MaxGen
    BY <1>2 DEF HandleToken
  <2>3. q \in RequestType /\ q.pc = "read" /\ q.f = f /\ q.g = g /\ q.held = {}
    BY NoRequestIs, PcsHave DEF RequestType
  <2> HIDE DEF q
  <2>4. WellFormed(q)
    BY <2>1, <2>2, <2>3, OAuthAssumption DEF WellFormed, Showing
  <2>5. QED
    BY <2>2, <2>3, <2>4, ArriveKeeps
<1>3. ASSUME NEW f \in Families, NEW g \in Gens, HandleRevoke(r, f, g)
      PROVE  /\ Moves(r) /\ TypeInv' /\ UNCHANGED <<rows, history>>
             /\ req'[r].pc = "revoke" /\ req'[r].held = {}
  <2> DEFINE q == [NoRequest EXCEPT !.pc = "revoke", !.f = f, !.again = TRUE]
  <2>1. family[f].grant # None
    BY <1>3, TypeParts, NoRowsIs, Counting DEF HandleRevoke, RowState, FamiliesTyped
  <2>2. Arrive(r, q)
    BY <1>3 DEF HandleRevoke
  <2>3. q \in RequestType /\ q.pc = "revoke" /\ q.f = f /\ q.held = {}
    BY NoRequestIs, PcsHave DEF RequestType
  <2> HIDE DEF q
  <2>4. WellFormed(q)
    BY <2>1, <2>3, OAuthAssumption DEF WellFormed, Showing
  <2>5. QED
    BY <2>2, <2>3, <2>4, ArriveKeeps
<1>4. ASSUME NEW i \in Grants, HandleRevokeGrant(r, i)
      PROVE  /\ Moves(r) /\ TypeInv' /\ UNCHANGED <<rows, history>>
             /\ req'[r].pc = "lockGrants" /\ req'[r].held = {}
  <2> DEFINE q == [NoRequest EXCEPT !.pc = "lockGrants", !.left = {i}]
  <2>1. Arrive(r, q)
    BY <1>4 DEF HandleRevokeGrant
  <2>2. q \in RequestType /\ q.pc = "lockGrants" /\ q.held = {}
    BY NoRequestIs, PcsHave DEF RequestType
  <2> HIDE DEF q
  <2>3. WellFormed(q)
    BY <2>2 DEF WellFormed, Showing
  <2>4. QED
    BY <2>1, <2>2, <2>3, ArriveKeeps
<1>5. ASSUME NEW u \in Users, HandleDeleteUser(r, u)
      PROVE  /\ Moves(r) /\ TypeInv' /\ UNCHANGED <<rows, history>>
             /\ req'[r].pc = "discardUser" /\ req'[r].held = {}
  <2> DEFINE q == [NoRequest EXCEPT !.pc = "discardUser", !.u = u]
  <2>1. Arrive(r, q)
    BY <1>5 DEF HandleDeleteUser
  <2>2. q \in RequestType /\ q.pc = "discardUser" /\ q.held = {}
    BY NoRequestIs, PcsHave DEF RequestType
  <2> HIDE DEF q
  <2>3. WellFormed(q)
    BY <2>2 DEF WellFormed, Showing
  <2>4. QED
    BY <2>1, <2>2, <2>3, ArriveKeeps
<1>6. QED
  BY <1>1, <1>2, <1>3, <1>4, <1>5 DEF Start

\* The rows stay as they are while a request goes on.
LEMMA RowsStay ==
    ASSUME TypeInv, UNCHANGED <<rows, history, started>>, faults' \in 0..MaxFaults, RequestsOK'
    PROVE  TypeInv'
<1>1. BoundsTyped'
  BY TypeParts DEF BoundsTyped
<1>2. QED
  BY <1>1, Unmoved, TypePartsNext DEF rows

\* A request goes on to pc and needs nothing new there.
LEMMA GoesOn ==
    ASSUME TypeInv, NEW r \in Requests, NEW pc, Goto(r, pc), UNCHANGED <<rows, history, bounds>>,
           pc \in Showing \cup {"saveCode", "revoke", "deleteGrants", "commitGone"},
           pc \in Showing => req[r].pc \in Showing,
           pc = "saveCode" => req[r].pc = "checkGrant",
           pc = "revoke" => req[r].pc \in Showing
    PROVE  Moves(r) /\ req'[r] = [req[r] EXCEPT !.pc = pc] /\ req'[r].pc = pc /\ TypeInv'
<1>1. req \in [Requests -> RequestType] /\ WellFormed(req[r])
  BY DEF TypeInv, TypeOK
<1>2. PICK q : q = [req[r] EXCEPT !.pc = pc]
  OBVIOUS
<1>3. /\ q \in RequestType /\ q.pc = pc /\ q.f = req[r].f /\ q.g = req[r].g /\ q.gr = req[r].gr
      /\ pc \notin {"idle", "approve", "checkGrant", "savePKCE", "revoking"}
  BY <1>1, <1>2, PcsHave DEF RequestType, Showing
<1>4. Stay
  BY Unmoved DEF rows
<1>5. WellFormed(q)'
  BY <1>1, <1>3 DEF WellFormed, rows, Showing
<1>6. Moves(r) /\ req'[r] = q /\ RequestsOK'
  BY <1>2, <1>3, <1>4, <1>5, GotoDoes
<1>7. QED
  BY <1>2, <1>3, <1>6, RowsStay, TypeParts DEF bounds, BoundsTyped

\* A request ends and changes no rows.
LEMMA EndsHere ==
    ASSUME TypeInv, NEW r \in Requests, Done(r), UNCHANGED <<rows, history, started>>,
           faults' \in 0..MaxFaults
    PROVE  Moves(r) /\ req'[r] = NoRequest /\ TypeInv'
<1>1. Stay
  BY Unmoved DEF rows
<1>2. QED
  BY <1>1, DoneDoes, RowsStay

\* The bounds, when they stay.
LEMMA FaultsStay == TypeInv /\ UNCHANGED bounds => faults' \in 0..MaxFaults /\ UNCHANGED started
  BY TypeParts DEF bounds, BoundsTyped

\* Steps that only look.
LEMMA LooksKeep ==
    ASSUME TypeInv, NEW r \in Requests,
           \/ CheckGrant(r) \/ Unresolved(r) \/ ReadCode(r) \/ ReadRefresh(r) \/ ReadPKCE(r)
           \/ EnsureOwnerActive(r) \/ UseCode(r) \/ UseRefresh(r) \/ CreateTokens(r)
           \/ DiscardUser(r) \/ DeadlockDetected(r) \/ Fault(r)
    PROVE  Moves(r) /\ TypeInv' /\ UNCHANGED <<rows, history>>
<1>1. CASE Fault(r)
  <2>1. faults' \in 0..MaxFaults
    BY <1>1, OAuthAssumption, TypeParts DEF Fault, BoundsTyped
  <2>2. QED
    BY <1>1, <2>1, EndsHere DEF Fault
<1>2. SUFFICES ASSUME ~Fault(r), UNCHANGED <<rows, history, bounds>>
               PROVE  Moves(r) /\ TypeInv' /\ UNCHANGED <<rows, history>>
  BY <1>1 DEF CheckGrant, Unresolved, ReadCode, ReadRefresh, ReadShown, ReadPKCE, EnsureOwnerActive,
     UseCode, UseRefresh, CreateTokens, DiscardUser, DeadlockDetected
<1>3. CASE Done(r)
  BY <1>2, <1>3, EndsHere, FaultsStay
<1>4. CASE ReadCode(r) \/ ReadRefresh(r)
  <2>1. req[r].pc = "read"
    BY <1>4 DEF ReadCode, ReadRefresh
  <2>2. CASE req' = [req EXCEPT ![r].pc = "revoke", ![r].again = TRUE]
    <3> DEFINE q == [req[r] EXCEPT !.pc = "revoke", !.again = TRUE]
    <3>1. req \in [Requests -> RequestType] /\ WellFormed(req[r])
      BY DEF TypeInv, TypeOK
    <3>2. req' = [req EXCEPT ![r] = q]
      BY <2>2, <3>1 DEF RequestType
    <3>3. q \in RequestType /\ q.pc = "revoke" /\ q.f = req[r].f
      BY <3>1, PcsHave DEF RequestType
    <3> HIDE DEF q
    <3>4. Moves(r) /\ req'[r] = q
      BY <3>1, <3>2, <3>3 DEF Moves
    <3>5. WellFormed(req[r])'
      BY <1>2, <2>1, <3>1, <3>3, <3>4 DEF WellFormed, Showing, rows
    <3>6. Stay
      BY <1>2, Unmoved DEF rows
    <3>7. RequestsOK'
      BY <3>3, <3>4, <3>5, <3>6, MoveKeeps
    <3>8. QED
      BY <1>2, <3>4, <3>7, RowsStay, FaultsStay
  <2>3. CASE Goto(r, "readPKCE") \/ Goto(r, "owner")
    BY <1>2, <2>1, <2>3, GoesOn DEF Showing
  <2>4. QED
    BY <1>3, <1>4, <2>2, <2>3 DEF ReadCode, ReadRefresh, ReadShown
<1>5. CASE CheckGrant(r)
  BY <1>2, <1>3, <1>5, GoesOn DEF CheckGrant, Showing
<1>6. CASE ReadPKCE(r) \/ EnsureOwnerActive(r) \/ UseRefresh(r) \/ CreateTokens(r)
  BY <1>2, <1>3, <1>6, GoesOn DEF ReadPKCE, EnsureOwnerActive, UseRefresh, CreateTokens, Showing
<1>7. CASE UseCode(r)
  BY <1>2, <1>3, <1>7, GoesOn DEF UseCode, Showing
<1>8. CASE DiscardUser(r)
  BY <1>2, <1>3, <1>8, GoesOn DEF DiscardUser, Showing
<1>9. QED
  BY <1>2, <1>3, <1>4, <1>5, <1>6, <1>7, <1>8 DEF Unresolved, DeadlockDetected

\* A revocation, or a deletion, takes note of what it will work on.
LEMMA NotesKeep ==
    ASSUME TypeInv, NEW r \in Requests, RevokeBegins(r) \/ DeleteGrantsByUser(r) \/ LockGrant(r)
    PROVE  /\ Moves(r) /\ TypeInv' /\ UNCHANGED <<rows, history>>
           /\ req'[r].pc \in {"revoking", "lockGrants", "cascade"}
<1>1. req \in [Requests -> RequestType] /\ WellFormed(req[r])
  BY DEF TypeInv, TypeOK
<1>2. UNCHANGED <<rows, history, bounds>>
  BY DEF RevokeBegins, DeleteGrantsByUser, LockGrant
<1>3. ASSUME NEW q \in RequestType, req' = [req EXCEPT ![r] = q],
             \/ q.pc = "revoking" /\ q.f = req[r].f /\ req[r].pc = "revoke"
             \/ q.pc \in {"lockGrants", "cascade"}
      PROVE  /\ Moves(r) /\ TypeInv'
             /\ req'[r].pc \in {"revoking", "lockGrants", "cascade"}
  <2>1. Moves(r) /\ req'[r] = q
    BY <1>1, <1>3 DEF Moves
  <2>2. WellFormed(req[r])'
    BY <1>1, <1>2, <1>3, <2>1 DEF WellFormed, Showing, rows
  <2>3. Stay
    BY <1>2, Unmoved DEF rows
  <2>4. RequestsOK'
    BY <1>3, <2>1, <2>2, <2>3, MoveKeeps
  <2>5. QED
    BY <1>2, <1>3, <2>1, <2>4, RowsStay, FaultsStay
<1>4. CASE RevokeBegins(r)
  <2> DEFINE row == family[req[r].f]
             seen == {g \in Gens : row.refresh[g] = "active" \/ g \in row.access}
             q == [req[r] EXCEPT !.pc = "revoking", !.seen = seen]
  <2>1. seen \in SUBSET Gens
    OBVIOUS
  <2>2. req' = [req EXCEPT ![r].pc = "revoking", ![r].seen = seen] /\ req[r].pc = "revoke"
    BY <1>4 DEF RevokeBegins
  <2> HIDE DEF seen
  <2>3. req' = [req EXCEPT ![r] = q]
    BY <1>1, <2>2 DEF RequestType
  <2>4. q \in RequestType /\ q.pc = "revoking" /\ q.f = req[r].f
    BY <1>1, <2>1, PcsHave DEF RequestType
  <2> HIDE DEF q
  <2>5. QED
    BY <1>2, <1>3, <2>2, <2>3, <2>4
<1>5. CASE DeleteGrantsByUser(r)
  <2> DEFINE mine == {i \in Grants : grant[i].at = "row" /\ grant[i].user = req[r].u}
             pc == IF mine = {} THEN "cascade" ELSE "lockGrants"
             q == [req[r] EXCEPT !.pc = pc, !.left = mine]
  <2>1. mine \in SUBSET Grants /\ pc \in {"lockGrants", "cascade"}
    OBVIOUS
  <2>2. req' = [req EXCEPT ![r].pc = pc, ![r].left = mine]
    BY <1>5 DEF DeleteGrantsByUser
  <2> HIDE DEF mine, pc
  <2>3. req' = [req EXCEPT ![r] = q]
    BY <1>1, <2>2 DEF RequestType
  <2>4. q \in RequestType /\ q.pc = pc
    BY <1>1, <2>1, PcsHave DEF RequestType
  <2> HIDE DEF q
  <2>5. QED
    BY <1>2, <1>3, <2>1, <2>3, <2>4
<1>6. CASE LockGrant(r)
  <2>1. PICK i \in req[r].left :
            req' = [req EXCEPT ![r].left = @ \ {i},
                               ![r].held = IF grant[i].at = "row" THEN @ \cup {i} ELSE @,
                               ![r].pc = IF req[r].left = {i} THEN "cascade" ELSE @]
    BY <1>6 DEF LockGrant
  <2> DEFINE left == req[r].left \ {i}
             held == IF grant[i].at = "row" THEN req[r].held \cup {i} ELSE req[r].held
             pc == IF req[r].left = {i} THEN "cascade" ELSE req[r].pc
             q == [req[r] EXCEPT !.left = left, !.held = held, !.pc = pc]
  <2>2. req[r].left \in SUBSET Grants /\ req[r].held \in SUBSET Grants /\ req[r].pc = "lockGrants"
    BY <1>1, <1>6 DEF RequestType, LockGrant
  <2>3. left \in SUBSET Grants /\ held \in SUBSET Grants /\ pc \in {"lockGrants", "cascade"}
    BY <2>1, <2>2
  <2>4. req' = [req EXCEPT ![r] = q]
    BY <1>1, <2>1 DEF RequestType
  <2> HIDE DEF left, held, pc
  <2>5. /\ q \in RequestType
        /\ q.pc = pc
    <3>1. q.pc = pc
      BY <1>1 DEF RequestType
    <3>2. ASSUME NEW x \in {"lockGrants", "cascade"}, NEW lf \in SUBSET Grants,
                 NEW hd \in SUBSET Grants
          PROVE  [req[r] EXCEPT !.left = lf, !.held = hd, !.pc = x] \in RequestType
      <4>1. PICK y \in RequestType : y = [req[r] EXCEPT !.left = lf]
        BY <1>1 DEF RequestType
      <4>2. PICK z \in RequestType : z = [y EXCEPT !.held = hd]
        BY <4>1 DEF RequestType
      <4>3. [z EXCEPT !.pc = x] \in RequestType
        BY <4>2, PcsHave DEF RequestType
      <4>4. z = [req[r] EXCEPT !.left = lf, !.held = hd]
        BY <1>1, <4>1, <4>2 DEF RequestType
      <4>5. [req[r] EXCEPT !.left = lf, !.held = hd, !.pc = x] = [z EXCEPT !.pc = x]
        BY <1>1, <4>2, <4>4 DEF RequestType
      <4>6. QED
        BY <4>3, <4>5
    <3>3. QED
      BY <2>3, <3>1, <3>2
  <2> HIDE DEF q
  <2>6. QED
    BY <1>2, <1>3, <2>3, <2>4, <2>5
<1>7. QED
  BY <1>2, <1>4, <1>5, <1>6

\* The grant of a consent is merged into a row of the user, or is a new one.
LEMMA ApproveKeeps ==
    ASSUME TypeInv, NEW r \in Requests, Approve(r)
    PROVE  /\ Moves(r) /\ TypeInv' /\ UNCHANGED <<active, family, history>>
           /\ req'[r].pc = "checkGrant" /\ req'[r].held = req[r].held
           /\ \A i \in Grants : grant[i].at = "row" =>
                 /\ grant'[i].at = "row" /\ grant'[i].user = grant[i].user
                 /\ grant[i].scopes \subseteq grant'[i].scopes
           /\ \A i \in Grants : grant[i].at = "gone" => grant'[i] = grant[i]
<1> DEFINE q == req[r]
<1>1. /\ req \in [Requests -> RequestType] /\ q.pc = "approve" /\ UNCHANGED <<active, family, history, bounds>>
      /\ q.u \in Users /\ q.a \in Apps /\ q.sc \in (SUBSET Scopes) \ {{}}
  BY DEF TypeInv, TypeOK, WellFormed, Approve, RequestType
<1>2. PICK i \in Grants : UpsertGrant(q.u, q.a, q.sc, i) /\ req' = [req EXCEPT ![r].pc = "checkGrant", ![r].gr = i]
  BY DEF Approve
<1> DEFINE n == [q EXCEPT !.pc = "checkGrant", !.gr = i]
<1>3. req' = [req EXCEPT ![r] = n]
  BY <1>1, <1>2 DEF RequestType
<1>4. n \in RequestType /\ n.pc = "checkGrant" /\ n.gr = i /\ n.held = q.held
  BY <1>1, PcsHave DEF RequestType
<1> HIDE DEF n
<1>5. Moves(r) /\ req'[r] = n
  BY <1>1, <1>3, <1>4 DEF Moves
<1>6. WellFormed(req[r])'
  BY <1>4, <1>5, OAuthAssumption DEF WellFormed, Showing
<1>7. RequestsOK'
  BY <1>1, <1>4, <1>5, <1>6, Unmoved, MoveKeeps
<1>8. GrantsTyped
  BY TypeParts
<1>9. PICK row : /\ grant' = [grant EXCEPT ![i] = row]
                 /\ \/ /\ grant[i].at = "row" /\ row = [grant[i] EXCEPT !.scopes = grant[i].scopes \cup q.sc]
                    \/ /\ grant[i].at = "free"
                       /\ row = [at |-> "row", user |-> q.u, app |-> q.a, scopes |-> q.sc]
  BY <1>2, <1>8 DEF UpsertGrant, GrantsOf, MergeScopes, GrantsTyped, GrantRow
<1>10. /\ row \in GrantRow /\ row.at = "row" /\ row.user \in Users /\ row.app \in Apps
       /\ row.scopes \in (SUBSET Scopes) \ {{}}
       /\ grant[i].at = "row" => row.user = grant[i].user /\ grant[i].scopes \subseteq row.scopes
  <2>1. CASE grant[i].at = "row"
    BY <1>1, <1>8, <1>9, <2>1 DEF GrantsTyped, GrantRow
  <2>2. CASE grant[i].at = "free"
    BY <1>1, <1>9, <2>2 DEF GrantRow
  <2>3. QED
    BY <1>9, <2>1, <2>2
<1>11. \A x \in Grants : grant'[x] = IF x = i THEN row ELSE grant[x]
  BY <1>8, <1>9 DEF GrantsTyped
<1>12. GrantsTyped'
  BY <1>8, <1>9, <1>10, <1>11 DEF GrantsTyped
<1>13. TypeInv'
  BY <1>1, <1>7, <1>12, Unmoved, TypePartsNext
<1>14. QED
  BY <1>1, <1>4, <1>5, <1>9, <1>10, <1>11, <1>13

\* What the sweep takes besides a new family: a row of another family.
Swept(r, f, row) ==
    \/ family' = [family EXCEPT ![f] = row]
    \/ \E e \in Families, g \in Shown :
          /\ <<e, g>> \in Sweepable(r)
          /\ family' = [[family EXCEPT ![f] = row] EXCEPT ![e] = Discard(@, g)]

\* A code is stored for a new family, or the consent ends.
LEMMA SaveCodeIs ==
    ASSUME TypeInv, NEW r \in Requests, SaveCode(r)
    PROVE  /\ Moves(r) /\ TypeInv' /\ Stay
           /\ UNCHANGED <<active, grant, history>>
           /\ \/ UNCHANGED family /\ req'[r] = NoRequest
              \/ \E f \in Families, row \in FamilyRow :
                    /\ family[f].grant = None /\ Swept(r, f, row)
                    /\ row.user = req[r].u /\ row.grant = req[r].gr /\ row.scopes = req[r].sc
                    /\ row.code = "active" /\ row.access = {} /\ \A h \in Gens : row.refresh[h] = "none"
                    /\ grant[req[r].gr].at = "row"
                    /\ req'[r] = [req[r] EXCEPT !.pc = "savePKCE", !.f = f]
<1> DEFINE q == req[r]
<1>1. /\ req \in [Requests -> RequestType] /\ WellFormed(q) /\ q.pc = "saveCode"
      /\ UNCHANGED <<active, grant, history, started>>
  BY DEF TypeInv, TypeOK, SaveCode
<1>2. q.gr \in Grants /\ q.gr # None /\ q.u \in Users \cup {None} /\ q.sc \in SUBSET Scopes
  BY <1>1 DEF WellFormed, RequestType
<1>3. FamiliesTyped
  BY TypeParts
<1>4. CASE Done(r) /\ UNCHANGED <<family, faults>>
  <2>1. UNCHANGED <<rows, history, bounds>>
    BY <1>1, <1>4 DEF rows, bounds
  <2>2. Moves(r) /\ req'[r] = NoRequest /\ TypeInv'
    BY <1>4, <2>1, FaultsStay, EndsHere
  <2>3. Stay
    BY <1>1, <1>4, Unmoved
  <2>4. QED
    BY <1>1, <1>4, <2>2, <2>3
<1>5. CASE ~(Done(r) /\ UNCHANGED <<family, faults>>)
  <2>1. PICK f \in Families :
            LET new == [family EXCEPT ![f] = [NoRows EXCEPT !.user = q.u, !.grant = q.gr,
                                                            !.scopes = q.sc, !.code = "active"]] IN
            /\ family[f].grant = None
            /\ req' = [req EXCEPT ![r].pc = "savePKCE", ![r].f = f]
            /\ \/ family' = new /\ UNCHANGED faults
               \/ /\ faults < MaxFaults
                  /\ faults' = faults + 1
                  /\ \E x \in Sweepable(r) : family' = [new EXCEPT ![x[1]] = Discard(@, x[2])]
    BY <1>5 DEF SaveCode
  <2>2. PICK row : row = Opened(q.u, q.gr, q.sc)
    OBVIOUS
  <2>3. /\ row \in FamilyRow /\ row.user = q.u /\ row.grant = q.gr /\ row.scopes = q.sc
        /\ row.code = "active" /\ row.access = {} /\ \A h \in Gens : row.refresh[h] = "none"
    BY <1>2, <2>2, OpenedIs
  <2> DEFINE new == [family EXCEPT ![f] = row]
  <2>4. /\ new \in [Families -> FamilyRow] /\ new[f] = row
        /\ \A x \in Families : x # f => new[x] = family[x]
    BY <1>3, <2>3 DEF FamiliesTyped
  <2>5. /\ \A x \in Families : new[x].grant = None => new[x] = NoRows
        /\ \A x \in Families : family[x].grant # None => new[x] = family[x]
    BY <1>2, <1>3, <2>1, <2>3, <2>4 DEF FamiliesTyped
  <2>6. Swept(r, f, row) /\ FamiliesTyped' /\ Stay
    <3>1. CASE family' = new
      BY <1>1, <1>3, <2>4, <2>5, <3>1 DEF Swept, FamiliesTyped, Stay, Keeps
    <3>2. CASE \E x \in Sweepable(r) : family' = [new EXCEPT ![x[1]] = Discard(@, x[2])]
      <4>1. PICK e \in Families, g \in Shown :
                <<e, g>> \in Sweepable(r) /\ family' = [new EXCEPT ![e] = Discard(@, g)]
        BY <3>2 DEF Sweepable
      <4>2. family' = [new EXCEPT ![e] = Discard(new[e], g)] /\ Keeps(new[e], Discard(new[e], g))
        BY <2>4, <4>1, DiscardIs
      <4>3. family[e] # NoRows /\ family[e].grant # None
        BY <1>3, <4>1, NoRowsIs, Counting DEF Sweepable, FamiliesTyped
      <4> HIDE DEF new
      <4>4. /\ family' \in [Families -> FamilyRow] /\ family'[e] = Discard(new[e], g)
            /\ \A x \in Families : x # e => family'[x] = new[x]
        BY <2>4, <4>2 DEF Keeps
      <4>5. FamiliesTyped'
        BY <2>5, <4>2, <4>3, <4>4 DEF FamiliesTyped, Keeps
      <4>6. Stay
        BY <1>1, <1>3, <2>5, <4>2, <4>4 DEF Stay, Keeps, FamiliesTyped
      <4>7. Swept(r, f, row)
        BY <4>1 DEF Swept, new
      <4>8. QED
        BY <4>5, <4>6, <4>7
    <3>3. QED
      BY <2>1, <2>2, <3>1, <3>2 DEF Opened
  <2> DEFINE n == [q EXCEPT !.pc = "savePKCE", !.f = f]
  <2>7. req' = [req EXCEPT ![r] = n]
    BY <1>1, <2>1 DEF RequestType
  <2>8. n \in RequestType /\ n.pc = "savePKCE" /\ n.gr = q.gr /\ n.f = f
    BY <1>1, PcsHave DEF RequestType
  <2> HIDE DEF n
  <2>9. Moves(r) /\ req'[r] = n
    BY <1>1, <2>7, <2>8 DEF Moves
  <2>10. family'[f].grant = q.gr
    <3>1. CASE family' = new
      BY <2>3, <2>4, <3>1
    <3>2. CASE family' # new
      <4>1. PICK e \in Families, g \in Shown :
                <<e, g>> \in Sweepable(r) /\ family' = [new EXCEPT ![e] = Discard(@, g)]
        BY <2>6, <3>2 DEF Swept
      <4>2. e # f
        BY <1>3, <2>1, <4>1, NoRowsIs, Counting DEF Sweepable, FamiliesTyped
      <4>3. QED
        BY <2>3, <2>4, <4>1, <4>2
    <3>3. QED
      BY <3>1, <3>2
  <2>11. WellFormed(req[r])'
    BY <1>2, <2>8, <2>9, <2>10, OAuthAssumption DEF WellFormed, Showing
  <2>12. RequestsOK'
    BY <2>6, <2>8, <2>9, <2>11, MoveKeeps
  <2>13. BoundsTyped'
    BY <1>1, <2>1, OAuthAssumption, TypeParts DEF BoundsTyped
  <2>14. TypeInv'
    BY <1>1, <2>6, <2>12, <2>13, Unmoved, TypePartsNext
  <2>15. grant[q.gr].at = "row"
    BY <1>5 DEF SaveCode
  <2>16. QED
    BY <1>1, <2>1, <2>3, <2>6, <2>9, <2>14, <2>15 DEF n
<1>6. QED
  BY <1>4, <1>5

\* A request ends, and one family of it has a new row of the same consent.
LEMMA RowAndDone ==
    ASSUME TypeInv, NEW r \in Requests, Done(r), NEW f \in Families, family[f].grant # None,
           NEW row, Keeps(family[f], row), family' = [family EXCEPT ![f] = row],
           UNCHANGED <<active, grant, bounds>>, HistoryTyped'
    PROVE  Moves(r) /\ req'[r] = NoRequest /\ TypeInv' /\ Stay
<1>1. FamiliesTyped' /\ Stay
  BY FamilyMoves
<1>2. Moves(r) /\ req'[r] = NoRequest /\ RequestsOK'
  BY <1>1, DoneDoes
<1>3. QED
  BY <1>1, <1>2, Unmoved, TypePartsNext

\* The challenge is stored when the grant is still there.
LEMMA SavePKCEIs ==
    ASSUME TypeInv, NEW r \in Requests, SavePKCE(r)
    PROVE  /\ Moves(r) /\ req'[r] = NoRequest /\ TypeInv' /\ Stay
           /\ UNCHANGED <<active, grant, history>>
           /\ req[r].pc = "savePKCE" /\ req[r].f \in Families /\ req[r].gr \in Grants
           /\ \E row \in FamilyRow :
                 /\ family' = [family EXCEPT ![req[r].f] = row] /\ Keeps(family[req[r].f], row)
                 /\ row.code = family[req[r].f].code /\ row.access = family[req[r].f].access
                 /\ row.refresh = family[req[r].f].refresh
                 /\ row.pkce => grant[req[r].gr].at = "row"
<1> DEFINE f == req[r].f
           b == grant[req[r].gr].at = "row"
<1>1. /\ FamiliesTyped /\ req[r] \in RequestType /\ WellFormed(req[r]) /\ b \in BOOLEAN
      /\ req[r].pc = "savePKCE" /\ Done(r) /\ UNCHANGED <<active, grant, history, bounds>>
  BY TypeParts DEF RequestsOK, SavePKCE
<1>2. f \in Families /\ family[f].grant # None /\ req[r].gr \in Grants
  BY <1>1 DEF WellFormed, RequestType
<1>3. family' = [family EXCEPT ![f].pkce = b]
  BY DEF SavePKCE
<1>4. b => grant[req[r].gr].at = "row"
  OBVIOUS
<1> HIDE DEF b
<1>5. PICK row : row = [family[f] EXCEPT !.pkce = b]
  OBVIOUS
<1>6. /\ Keeps(family[f], row) /\ row.code = family[f].code /\ row.access = family[f].access
      /\ row.refresh = family[f].refresh /\ row.pkce = b
  BY <1>1, <1>2, <1>5 DEF FamiliesTyped, FamilyRow, Keeps
<1>7. family' = [family EXCEPT ![f] = row]
  BY <1>1, <1>3, <1>5 DEF FamiliesTyped
<1>8. HistoryTyped'
  BY <1>1, Unmoved
<1>9. Moves(r) /\ req'[r] = NoRequest /\ TypeInv' /\ Stay
  BY <1>1, <1>2, <1>6, <1>7, <1>8, RowAndDone
<1>10. row \in FamilyRow
  BY <1>6 DEF Keeps
<1>11. QED
  BY <1>1, <1>2, <1>4, <1>6, <1>7, <1>9, <1>10

\* The challenge goes, the request goes on or ends.
LEMMA ForgetPKCEIs ==
    ASSUME TypeInv, NEW r \in Requests, ForgetPKCE(r)
    PROVE  /\ Moves(r) /\ req'[r].pc \in {"idle", "owner"} /\ TypeInv' /\ Stay
           /\ UNCHANGED <<active, grant, history>> /\ req[r].f \in Families
           /\ \E row \in FamilyRow :
                 /\ family' = [family EXCEPT ![req[r].f] = row] /\ Keeps(family[req[r].f], row)
                 /\ row.code = family[req[r].f].code /\ row.access = family[req[r].f].access
                 /\ row.refresh = family[req[r].f].refresh
                 /\ row.pkce => family[req[r].f].pkce
<1> DEFINE f == req[r].f
<1>1. /\ FamiliesTyped /\ req[r] \in RequestType /\ WellFormed(req[r])
      /\ req[r].pc = "forgetPKCE" /\ UNCHANGED <<active, grant, history, bounds>>
      /\ family' = [family EXCEPT ![f].pkce = FALSE] /\ (Goto(r, "owner") \/ Done(r))
  BY TypeParts DEF RequestsOK, ForgetPKCE
<1>2. f \in Families /\ family[f].grant # None
  BY <1>1 DEF WellFormed, RequestType, Showing
<1>3. PICK row : row = [family[f] EXCEPT !.pkce = FALSE]
  OBVIOUS
<1>4. /\ Keeps(family[f], row) /\ row.code = family[f].code /\ row.access = family[f].access
      /\ row.refresh = family[f].refresh /\ row.pkce = FALSE
  BY <1>1, <1>2, <1>3 DEF FamiliesTyped, FamilyRow, Keeps
<1>5. family' = [family EXCEPT ![f] = row]
  BY <1>1, <1>3 DEF FamiliesTyped
<1>6. FamiliesTyped' /\ Stay
  BY <1>1, <1>2, <1>4, <1>5, FamilyMoves
<1>7. ASSUME Goto(r, "owner")
      PROVE  Moves(r) /\ req'[r].pc = "owner" /\ TypeInv'
  <2>1. PICK q : q = [req[r] EXCEPT !.pc = "owner"]
    OBVIOUS
  <2>2. q \in RequestType /\ q.pc = "owner" /\ q.f = f /\ q.g = req[r].g /\ req[r].g < MaxGen
    BY <1>1, <2>1, PcsHave DEF RequestType, WellFormed, Showing
  <2>3. family'[f].grant # None
    BY <1>2, <1>6 DEF Stay, Keeps
  <2>4. WellFormed(q)'
    BY <1>2, <2>2, <2>3, OAuthAssumption DEF WellFormed, Showing
  <2>5. Moves(r) /\ req'[r] = q /\ RequestsOK'
    BY <1>6, <1>7, <2>1, <2>2, <2>4, GotoDoes
  <2>6. TypeInv'
    BY <1>1, <1>6, <2>5, Unmoved, TypePartsNext
  <2>7. QED
    BY <2>2, <2>5, <2>6
<1>8. ASSUME Done(r)
      PROVE  Moves(r) /\ req'[r].pc = "idle" /\ TypeInv'
  <2>1. Moves(r) /\ req'[r] = NoRequest /\ RequestsOK'
    BY <1>6, <1>8, DoneDoes
  <2>2. TypeInv'
    BY <1>1, <1>6, <2>1, Unmoved, TypePartsNext
  <2>3. QED
    BY <2>1, <2>2, NoRequestIs
<1>9. row \in FamilyRow
  BY <1>4 DEF Keeps
<1>10. QED
  BY <1>1, <1>2, <1>4, <1>5, <1>6, <1>7, <1>8, <1>9

\* The commit of a token request: the next pair, counted.
LEMMA CommitTokensIs ==
    ASSUME TypeInv, NEW r \in Requests, CommitTokens(r)
    PROVE  /\ Moves(r) /\ req'[r] = NoRequest /\ TypeInv' /\ Stay
           /\ UNCHANGED <<active, grant, revoked>>
           /\ req[r].pc = "commit" /\ req[r].f \in Families /\ req[r].g \in Shown
           /\ req[r].g < MaxGen /\ family[req[r].f].grant # None
           /\ family' = [family EXCEPT ![req[r].f] = NextPair(family[req[r].f], req[r].g)]
           /\ \A f \in Families, g \in Shown :
                 uses'[f][g] = IF f = req[r].f /\ g = req[r].g THEN uses[f][g] + 1 ELSE uses[f][g]
<1> DEFINE f == req[r].f
           g == req[r].g
<1>1. /\ FamiliesTyped /\ HistoryTyped /\ req[r] \in RequestType /\ WellFormed(req[r])
      /\ req[r].pc = "commit" /\ Done(r) /\ UNCHANGED <<active, grant, revoked, bounds>>
      /\ uses' = [uses EXCEPT ![f][g] = @ + 1]
  BY TypeParts DEF RequestsOK, CommitTokens
<1>2. f \in Families /\ family[f].grant # None /\ g \in Shown /\ g < MaxGen
  BY <1>1 DEF WellFormed, RequestType, Showing
<1>3. family' = [family EXCEPT ![f] = NextPair(family[f], g)]
  <2>1. family' = [family EXCEPT ![f] = Paired(IF g = 0 THEN Exchanged(@) ELSE Rotated(@, g), g + 1)]
    BY DEF CommitTokens
  <2>2. QED
    BY <1>1, <1>2, <2>1 DEF NextPair, FamiliesTyped
<1>4. Keeps(family[f], NextPair(family[f], g))
  BY <1>1, <1>2, PairIs DEF FamiliesTyped
<1>5. /\ uses' \in [Families -> [Shown -> Nat]]
      /\ \A x \in Families, h \in Shown :
            uses'[x][h] = IF x = f /\ h = g THEN uses[x][h] + 1 ELSE uses[x][h]
  BY <1>1, <1>2 DEF HistoryTyped
<1>6. HistoryTyped'
  BY <1>1, <1>5 DEF HistoryTyped
<1>7. PICK row : row = NextPair(family[f], g)
  OBVIOUS
<1>8. Moves(r) /\ req'[r] = NoRequest /\ TypeInv' /\ Stay
  BY <1>1, <1>2, <1>3, <1>4, <1>6, <1>7, RowAndDone
<1>9. QED
  BY <1>1, <1>2, <1>3, <1>5, <1>8

\* A revocation takes from one family, then starts again or ends.
LEMMA RevokeRequestIs ==
    ASSUME TypeInv, NEW r \in Requests, RevokeRequest(r)
    PROVE  /\ Moves(r) /\ req'[r].pc \in {"idle", "revoke"} /\ TypeInv' /\ Stay
           /\ UNCHANGED <<active, grant, uses>>
           /\ req[r].f \in Families /\ family[req[r].f].grant # None /\ req[r].seen \in SUBSET Gens
           /\ family' = [family EXCEPT ![req[r].f] = RevokedRow(family[req[r].f], req[r].seen)]
           /\ \A g \in req[r].seen : ~RowHeld(r, req[r].f, g)
<1> DEFINE f == req[r].f
<1>1. /\ FamiliesTyped /\ HistoryTyped /\ req \in [Requests -> RequestType] /\ WellFormed(req[r])
      /\ req[r].pc = "revoking" /\ UNCHANGED <<active, grant, uses, bounds>>
      /\ family' = [family EXCEPT ![f] = RevokedRow(@, req[r].seen)]
      /\ \A g \in req[r].seen : ~RowHeld(r, req[r].f, g)
  BY TypeParts DEF RequestsOK, RevokeRequest
<1>2. f \in Families /\ family[f].grant # None /\ req[r].seen \in SUBSET Gens
  BY <1>1 DEF WellFormed, RequestType
<1>3. PICK row : row = RevokedRow(family[f], req[r].seen)
  OBVIOUS
<1>4. family' = [family EXCEPT ![f] = row] /\ Keeps(family[f], row)
  BY <1>1, <1>2, <1>3, RevokedIs DEF FamiliesTyped
<1>5. FamiliesTyped' /\ Stay
  BY <1>1, <1>2, <1>4, FamilyMoves
<1>6. HistoryTyped'
  BY <1>1, <1>2 DEF RevokeRequest, HistoryTyped
<1>7. ASSUME req' = [req EXCEPT ![r].pc = "revoke", ![r].again = FALSE, ![r].seen = {}]
      PROVE  Moves(r) /\ req'[r].pc = "revoke" /\ TypeInv'
  <2> DEFINE q == [req[r] EXCEPT !.pc = "revoke", !.again = FALSE, !.seen = {}]
  <2>1. req' = [req EXCEPT ![r] = q]
    BY <1>1, <1>7 DEF RequestType
  <2>2. q \in RequestType /\ q.pc = "revoke" /\ q.f = f
    BY <1>1, PcsHave DEF RequestType
  <2> HIDE DEF q
  <2>3. Moves(r) /\ req'[r] = q
    BY <1>1, <2>1, <2>2 DEF Moves
  <2>4. family'[f].grant # None
    BY <1>2, <1>5 DEF Stay, Keeps
  <2>5. WellFormed(req[r])'
    BY <1>2, <2>2, <2>3, <2>4, OAuthAssumption DEF WellFormed, Showing
  <2>6. RequestsOK'
    BY <1>5, <2>2, <2>3, <2>5, MoveKeeps
  <2>7. TypeInv'
    BY <1>1, <1>5, <1>6, <2>6, Unmoved, TypePartsNext
  <2>8. QED
    BY <2>2, <2>3, <2>7
<1>8. ASSUME Done(r)
      PROVE  Moves(r) /\ req'[r].pc = "idle" /\ TypeInv'
  <2>1. Moves(r) /\ req'[r] = NoRequest /\ RequestsOK'
    BY <1>5, <1>8, DoneDoes
  <2>2. TypeInv'
    BY <1>1, <1>5, <1>6, <2>1, Unmoved, TypePartsNext
  <2>3. QED
    BY <2>1, <2>2, NoRequestIs
<1>9. QED
  BY <1>1, <1>2, <1>3, <1>4, <1>5, <1>7, <1>8 DEF RevokeRequest
\* What goes with grants that are deleted.
LEMMA DeleteGrantsIs ==
    ASSUME TypeInv, NEW held \in SUBSET Grants, DeleteGrants(held), active' \subseteq active
    PROVE  /\ GrantsTyped' /\ FamiliesTyped' /\ Stay
           /\ \A i \in Grants : grant'[i] = IF i \in held THEN NoGrant("gone") ELSE grant[i]
           /\ \A f \in Families :
                 family'[f] = IF family[f].grant \in held THEN Cascaded(family[f]) ELSE family[f]
<1>1. GrantsTyped /\ FamiliesTyped /\ None \notin Grants
  BY TypeParts, OAuthAssumption
<1>2. \A i \in Grants : grant'[i] = IF i \in held THEN NoGrant("gone") ELSE grant[i]
  BY DEF DeleteGrants
<1>3. \A f \in Families :
         family'[f] = IF family[f].grant \in held THEN Cascaded(family[f]) ELSE family[f]
  BY DEF DeleteGrants
<1>4. NoGrant("gone") \in GrantRow /\ NoGrant("gone").at = "gone"
  BY DEF NoGrant, GrantRow
<1>5. grant' = [i \in Grants |-> IF i \in held THEN NoGrant("gone") ELSE grant[i]]
  BY DEF DeleteGrants
<1>6. GrantsTyped'
  BY <1>1, <1>2, <1>4, <1>5 DEF GrantsTyped
<1>7. family' = [f \in Families |-> IF family[f].grant \in held THEN Cascaded(family[f]) ELSE family[f]]
  BY DEF DeleteGrants
<1>8. \A f \in Families : Keeps(family[f], Cascaded(family[f]))
  BY <1>1, CascadedIs DEF FamiliesTyped
<1>9. FamiliesTyped'
  BY <1>1, <1>3, <1>7, <1>8 DEF FamiliesTyped, Keeps
<1>10. Stay
  BY <1>1, <1>3, <1>8 DEF Stay, Keeps, FamiliesTyped
<1>11. QED
  BY <1>2, <1>3, <1>6, <1>9, <1>10

\* The rows of the grants go, or the withdrawal goes on with them in hand.
LEMMA CascadeIs ==
    ASSUME TypeInv, NEW r \in Requests, Cascade(r)
    PROVE  /\ Moves(r) /\ TypeInv' /\ UNCHANGED <<active, history>>
           /\ req[r].held \in SUBSET Grants
           /\ \A p \in Requests : req[p].pc \in InTokenTx => family[req[p].f].grant \notin req[r].held
           /\ \/ DeleteGrants(req[r].held) /\ req'[r] = NoRequest
              \/ /\ UNCHANGED <<grant, family>> /\ req'[r] = [req[r] EXCEPT !.pc = "commitGone"]
                 /\ req'[r].held = req[r].held /\ req'[r].pc = "commitGone"
<1>1. /\ req[r] \in RequestType /\ UNCHANGED <<active, history, bounds>> /\ req[r].pc = "cascade"
      /\ \A p \in Requests : req[p].pc \in InTokenTx => family[req[p].f].grant \notin req[r].held
  BY TypeParts DEF RequestsOK, Cascade
<1>2. req[r].held \in SUBSET Grants
  BY <1>1 DEF RequestType
<1>3. ASSUME DeleteGrants(req[r].held), Done(r)
      PROVE  Moves(r) /\ req'[r] = NoRequest /\ TypeInv'
  <2>1. GrantsTyped' /\ FamiliesTyped' /\ Stay
    BY <1>1, <1>2, <1>3, DeleteGrantsIs
  <2>2. Moves(r) /\ req'[r] = NoRequest /\ RequestsOK'
    BY <1>3, <2>1, DoneDoes
  <2>3. QED
    BY <1>1, <2>1, <2>2, Unmoved, TypePartsNext
<1>4. ASSUME Goto(r, "commitGone"), UNCHANGED <<grant, family>>
      PROVE  /\ Moves(r) /\ TypeInv' /\ req'[r] = [req[r] EXCEPT !.pc = "commitGone"]
             /\ req'[r].held = req[r].held /\ req'[r].pc = "commitGone"
  <2>1. Moves(r) /\ TypeInv' /\ req'[r] = [req[r] EXCEPT !.pc = "commitGone"]
    BY <1>1, <1>4, GoesOn DEF rows, Showing
  <2>2. QED
    BY <1>1, <2>1 DEF RequestType
<1>5. QED
  BY <1>1, <1>2, <1>3, <1>4 DEF Cascade

\* The user, the grants and their rows go together.
LEMMA CommitGoneIs ==
    ASSUME TypeInv, NEW r \in Requests, CommitGone(r)
    PROVE  /\ Moves(r) /\ TypeInv' /\ req'[r] = NoRequest /\ UNCHANGED history
           /\ req[r].pc = "commitGone" /\ req[r].held \in SUBSET Grants
           /\ active' = active \ {req[r].u} /\ DeleteGrants(req[r].held)
<1>1. /\ req[r] \in RequestType /\ UNCHANGED <<history, bounds>> /\ req[r].pc = "commitGone"
      /\ active \subseteq Users /\ active' = active \ {req[r].u} /\ DeleteGrants(req[r].held) /\ Done(r)
  BY TypeParts DEF RequestsOK, CommitGone
<1>2. req[r].held \in SUBSET Grants
  BY <1>1 DEF RequestType
<1>3. GrantsTyped' /\ FamiliesTyped' /\ Stay
  BY <1>1, <1>2, DeleteGrantsIs
<1>4. Moves(r) /\ req'[r] = NoRequest /\ RequestsOK'
  BY <1>1, <1>3, DoneDoes
<1>5. TypeInv'
  BY <1>1, <1>3, <1>4, Unmoved, TypePartsNext
<1>6. QED
  BY <1>1, <1>2, <1>4, <1>5

\* The steps that leave all rows as they are.
Looks(r) ==
    \/ CheckGrant(r) \/ Unresolved(r) \/ ReadCode(r) \/ ReadRefresh(r) \/ ReadPKCE(r)
    \/ EnsureOwnerActive(r) \/ UseCode(r) \/ UseRefresh(r) \/ CreateTokens(r)
    \/ DiscardUser(r) \/ DeadlockDetected(r) \/ Fault(r)

\* The steps that only note what a statement will work on.
Notes(r) == RevokeBegins(r) \/ DeleteGrantsByUser(r) \/ LockGrant(r)

\* The steps, by what they do to rows.
LEMMA NextIs ==
    Next <=> \E r \in Requests :
        \/ Looks(r) \/ Notes(r) \/ Start(r) \/ Approve(r) \/ SaveCode(r) \/ SavePKCE(r) \/ ForgetPKCE(r)
        \/ CommitTokens(r) \/ RevokeRequest(r) \/ Cascade(r) \/ CommitGone(r)
  BY DEF Next, Step, Looks, Notes

\* Every step keeps the kinds.
LEMMA NextTyped == TypeInv /\ [Next]_vars => TypeInv'
<1> SUFFICES ASSUME TypeInv, [Next]_vars PROVE TypeInv'
  OBVIOUS
<1>1. CASE UNCHANGED vars
  <2>1. UNCHANGED <<rows, history, started>> /\ faults' \in 0..MaxFaults /\ RequestsOK'
    BY <1>1, FaultsStay, TypeParts DEF vars, rows, bounds, RequestsOK, WellFormed
  <2>2. QED
    BY <2>1, RowsStay
<1>2. ASSUME NEW r \in Requests,
             \/ Looks(r) \/ Notes(r) \/ Start(r) \/ Approve(r) \/ SaveCode(r) \/ SavePKCE(r)
             \/ ForgetPKCE(r) \/ CommitTokens(r) \/ RevokeRequest(r) \/ Cascade(r) \/ CommitGone(r)
      PROVE  TypeInv'
  <2>1. CASE Looks(r)
    BY <2>1, LooksKeep DEF Looks
  <2>2. CASE Notes(r)
    BY <2>2, NotesKeep DEF Notes
  <2>3. CASE Start(r)
    BY <2>3, StartKeeps
  <2>4. CASE Approve(r)
    BY <2>4, ApproveKeeps
  <2>5. CASE SaveCode(r)
    BY <2>5, SaveCodeIs
  <2>6. CASE SavePKCE(r)
    BY <2>6, SavePKCEIs
  <2>7. CASE ForgetPKCE(r)
    BY <2>7, ForgetPKCEIs
  <2>8. CASE CommitTokens(r)
    BY <2>8, CommitTokensIs
  <2>9. CASE RevokeRequest(r)
    BY <2>9, RevokeRequestIs
  <2>10. CASE Cascade(r)
    BY <2>10, CascadeIs
  <2>11. CASE CommitGone(r)
    BY <2>11, CommitGoneIs
  <2>12. QED
    BY <1>2, <2>1, <2>2, <2>3, <2>4, <2>5, <2>6, <2>7, <2>8, <2>9, <2>10, <2>11
<1>3. QED
  BY <1>1, <1>2, NextIs

\* Rows and requests have their kinds, and a request has filled in what its
\* next statement uses.
THEOREM TypeInvHolds == Spec => []TypeInv
<1>1. QED
  BY InitTyped, NextTyped, PTL DEF Spec

\* Rows and requests have the shape the code gives them, in every state.
THEOREM TypeCorrect == Spec => []TypeOK
<1>1. TypeInv => TypeOK
  BY DEF TypeInv
<1>2. QED
  BY <1>1, TypeInvHolds, PTL

-----------------------------------------------------------------------------
(* GrantsInv.                                                               *)

\* Where a request has something to lose.
Committed == {"saveCode", "savePKCE", "create", "commit", "commitGone"}

\* Statements that only look bring a request there only with what it needs.
LEMMA LooksDo ==
    ASSUME TypeInv, NEW r \in Requests, Looks(r)
    PROVE  \/ req'[r].pc \notin Committed
           \/ /\ req'[r].pc = "saveCode" /\ req'[r].u = req[r].u /\ req'[r].sc = req[r].sc
              /\ req'[r].gr = req[r].gr /\ req[r].gr \in GrantsOf(req[r].u, req[r].a)
              /\ Permits(req[r].gr, req[r].sc)
           \/ /\ req'[r].pc = "create" /\ req'[r].f = req[r].f /\ req'[r].g = req[r].g
              /\ ~RowHeld(r, req[r].f, req[r].g) /\ Usable(req[r].f, req[r].g)
              /\ req[r].pc = "use"
           \/ /\ req'[r].pc = "commit" /\ req'[r].f = req[r].f /\ req'[r].g = req[r].g
              /\ req[r].pc = "create" /\ grant[family[req[r].f].grant].at = "row"
<1>1. /\ req \in [Requests -> RequestType]
      /\ UNCHANGED <<rows, history>>
  BY LooksKeep DEF TypeInv, TypeOK, Looks
<1>2. CASE Done(r)
  BY <1>1, <1>2, NoRequestIs DEF Done, Committed
<1>3. ASSUME NEW pc, Goto(r, pc)
      PROVE  req'[r].pc = pc /\ \A q : q = [req[r] EXCEPT !.pc = pc] => req'[r] = q
  BY <1>1, <1>3 DEF Goto, RequestType
<1>4. ASSUME NEW pc, Goto(r, pc)
      PROVE  /\ req'[r].f = req[r].f /\ req'[r].g = req[r].g /\ req'[r].u = req[r].u
             /\ req'[r].sc = req[r].sc /\ req'[r].gr = req[r].gr
  BY <1>1, <1>4 DEF Goto, RequestType
<1>5. CASE req' = [req EXCEPT ![r].pc = "revoke", ![r].again = TRUE]
  BY <1>1, <1>5 DEF Committed, RequestType
<1>6. CASE CheckGrant(r)
  BY <1>2, <1>3, <1>4, <1>6 DEF CheckGrant
<1>7. CASE ReadCode(r) \/ ReadRefresh(r) \/ ReadPKCE(r) \/ EnsureOwnerActive(r) \/ DiscardUser(r)
  BY <1>2, <1>3, <1>5, <1>7
     DEF ReadCode, ReadRefresh, ReadShown, ReadPKCE, EnsureOwnerActive, DiscardUser, Committed
<1>8. CASE UseCode(r)
  BY <1>2, <1>3, <1>4, <1>8 DEF UseCode, Committed
<1>9. CASE UseRefresh(r)
  BY <1>2, <1>3, <1>4, <1>9 DEF UseRefresh
<1>10. CASE CreateTokens(r)
  BY <1>2, <1>3, <1>4, <1>10 DEF CreateTokens
<1>11. QED
  BY <1>2, <1>6, <1>7, <1>8, <1>9, <1>10 DEF Looks, Unresolved, DeadlockDetected, Fault

\* What request r has to lose is still its own.
FitsGrants(r) ==
    /\ req[r].pc \in {"saveCode", "savePKCE"} => Covers(req[r].gr, req[r].u, req[r].sc)
    /\ req[r].pc = "savePKCE" => family[req[r].f].grant = req[r].gr
    /\ req[r].pc = "commit" => grant[family[req[r].f].grant].at = "row"
    /\ req[r].pc \in InTokenTx =>
          \A d \in Requests : req[d].pc = "commitGone" => ~Deletes(d, family[req[r].f].grant)
    /\ req[r].pc = "commitGone" =>
          \A p \in Requests : req[p].pc \in InTokenTx => ~Deletes(r, family[req[p].f].grant)

\* Who is not Committed has nothing to lose.
LEMMA NothingToLose ==
    ASSUME NEW r, req'[r].pc \notin Committed PROVE FitsGrants(r)'
  BY DEF FitsGrants, Committed, InTokenTx

\* The grant of a request's family stays its grant.
LEMMA SameGrant ==
    ASSUME TypeInv, Stay, NEW x \in Requests,
           req[x].pc \in Showing \cup {"savePKCE", "revoke", "revoking"}
    PROVE  /\ req[x].f \in Families /\ family[req[x].f].grant \in Grants
           /\ family'[req[x].f].grant = family[req[x].f].grant
<1>1. req[x] \in RequestType /\ WellFormed(req[x]) /\ family \in [Families -> FamilyRow]
  BY DEF TypeInv, TypeOK
<1>2. req[x].f \in Families /\ family[req[x].f].grant # None
  BY <1>1 DEF WellFormed, RequestType
<1>3. QED
  BY <1>1, <1>2 DEF Stay, Keeps, FamilyRow

\* Grants stay, families keep to theirs, and request r fits.
LEMMA GrantsFit ==
    ASSUME TypeInv, GrantsInv, Stay, UNCHANGED grant, NEW r \in Requests, Moves(r), FitsGrants(r)',
           \A f \in Families : family[f].grant = None /\ family'[f].grant # None =>
              Covers(family'[f].grant, family'[f].user, family'[f].scopes),
           \A f \in Families : HasRows(family'[f]) =>
              (HasRows(family[f]) /\ family[f].grant # None) \/ grant[family'[f].grant].at = "row"
    PROVE  GrantsInv'
<1>1. ASSUME NEW f \in Families
      PROVE  /\ family'[f].grant # None =>
                   Covers(family'[f].grant, family'[f].user, family'[f].scopes)
             /\ HasRows(family'[f]) => grant[family'[f].grant].at = "row"
  BY DEF GrantsInv, GrantsOK, Stay, Keeps
<1>2. ASSUME NEW x \in Requests, x # r PROVE FitsGrants(x)
  BY DEF GrantsInv, GrantsOK, TokensOfRows, FitsGrants
<1>3. ASSUME NEW x \in Requests, x # r
      PROVE  /\ req'[x] = req[x]
             /\ req[x].pc \in InTokenTx \cup {"savePKCE"} =>
                   family'[req[x].f].grant = family[req[x].f].grant
  BY <1>3, SameGrant DEF Moves, InTokenTx, Showing
<1>4. ASSUME NEW x \in Requests, x # r
      PROVE  /\ req'[x].pc \in {"saveCode", "savePKCE"} => Covers(req'[x].gr, req'[x].u, req'[x].sc)
             /\ req'[x].pc = "savePKCE" => family'[req'[x].f].grant = req'[x].gr
             /\ req'[x].pc = "commit" => grant[family'[req'[x].f].grant].at = "row"
  BY <1>2, <1>3, <1>4 DEF FitsGrants, InTokenTx
<1>5. GrantsOK'
  BY <1>1, <1>4 DEF GrantsOK, FitsGrants, Covers
<1>6. \A x \in Requests : req'[x].pc = "commit" => grant'[family'[req'[x].f].grant].at = "row"
  BY <1>4 DEF FitsGrants
<1>7. ASSUME NEW x \in Requests, NEW d \in Requests, req'[x].pc \in InTokenTx, req'[d].pc = "commitGone"
      PROVE  family'[req'[x].f].grant \notin req'[d].held
  <2>1. CASE x = r \/ d = r
    BY <1>7, <2>1 DEF FitsGrants, Deletes
  <2>2. CASE x # r /\ d # r
    BY <1>2, <1>3, <1>7, <2>2 DEF FitsGrants, Deletes
  <2>3. QED
    BY <2>1, <2>2
<1>8. QED
  BY <1>5, <1>6, <1>7 DEF GrantsInv, TokensOfRows, Deletes

\* Rows stay and request r fits.
LEMMA GrantsStay ==
    ASSUME TypeInv, GrantsInv, UNCHANGED <<rows, history>>, NEW r \in Requests, Moves(r),
           FitsGrants(r)'
    PROVE  GrantsInv'
<1>1. Stay
  BY Unmoved DEF rows
<1>2. \A f \in Families : HasRows(family[f]) => family[f].grant # None
  BY TypeParts, NoRowsIs DEF FamiliesTyped
<1>3. UNCHANGED grant /\ UNCHANGED family
  BY DEF rows
<1>4. QED
  BY <1>1, <1>2, <1>3, GrantsFit

\* At the start nothing is granted.
LEMMA InitGrants == Init => GrantsInv
  BY NoRequestIs, NoRowsIs DEF Init, GrantsInv, GrantsOK, TokensOfRows, InTokenTx

\* Reading, beginning a transaction, using a code or a refresh token.
LEMMA LooksKeepGrants ==
    ASSUME TypeInv, GrantsInv, NEW r \in Requests, Looks(r)
    PROVE  GrantsInv'
<1>1. Moves(r) /\ TypeInv' /\ UNCHANGED <<rows, history>> /\ UNCHANGED <<grant, family>>
  BY LooksKeep DEF Looks, rows
<1>2. FitsGrants(r)'
  <2>1. CASE req'[r].pc \notin Committed
    BY <2>1, NothingToLose
  <2>2. CASE /\ req'[r].pc = "saveCode" /\ req'[r].u = req[r].u /\ req'[r].sc = req[r].sc
             /\ req'[r].gr = req[r].gr /\ req[r].gr \in GrantsOf(req[r].u, req[r].a)
             /\ Permits(req[r].gr, req[r].sc)
    <3>1. Covers(req[r].gr, req[r].u, req[r].sc)'
      BY <1>1, <2>2 DEF Covers, GrantsOf, Permits, ConsentRequired
    <3>2. QED
      BY <2>2, <3>1 DEF FitsGrants, InTokenTx
  <2>3. CASE /\ req'[r].pc = "create" /\ req'[r].f = req[r].f /\ req'[r].g = req[r].g
             /\ ~RowHeld(r, req[r].f, req[r].g)
    <3>1. \A d \in Requests : d # r => req'[d] = req[d]
      BY <1>1 DEF Moves
    <3>2. \A d \in Requests : req[d].pc = "commitGone" => family[req[r].f].grant \notin req[d].held
      BY <2>3 DEF RowHeld, GoneHeld, Deletes
    <3>3. \A d \in Requests : req'[d].pc = "commitGone" => family'[req'[r].f].grant \notin req'[d].held
      BY <1>1, <2>3, <3>1, <3>2
    <3>4. QED
      BY <2>3, <3>3 DEF FitsGrants, Deletes
  <2>4. CASE /\ req'[r].pc = "commit" /\ req'[r].f = req[r].f /\ req'[r].g = req[r].g
             /\ req[r].pc = "create" /\ grant[family[req[r].f].grant].at = "row"
    <3>1. \A d \in Requests : d # r => req'[d] = req[d]
      BY <1>1 DEF Moves
    <3>2. \A d \in Requests : req[d].pc = "commitGone" => family[req[r].f].grant \notin req[d].held
      BY <2>4 DEF GrantsInv, TokensOfRows, InTokenTx, Deletes
    <3>3. \A d \in Requests : req'[d].pc = "commitGone" => family'[req'[r].f].grant \notin req'[d].held
      BY <1>1, <2>4, <3>1, <3>2
    <3>4. QED
      BY <1>1, <2>4, <3>3 DEF FitsGrants, Deletes
  <2>5. QED
    BY <2>1, <2>2, <2>3, <2>4, LooksDo
<1>3. QED
  BY <1>1, <1>2, GrantsStay

\* A consent adds scopes to a grant, or a grant.
LEMMA ApproveKeepsGrants ==
    ASSUME TypeInv, GrantsInv, NEW r \in Requests, Approve(r)
    PROVE  GrantsInv'
<1>1. /\ Moves(r) /\ TypeInv' /\ UNCHANGED family /\ req'[r].pc = "checkGrant"
      /\ \A i \in Grants : grant[i].at = "row" =>
            /\ grant'[i].at = "row" /\ grant'[i].user = grant[i].user
            /\ grant[i].scopes \subseteq grant'[i].scopes
      /\ \A i \in Grants : grant[i].at = "gone" => grant'[i] = grant[i]
  BY ApproveKeeps
<1>2. ASSUME NEW i \in Grants, NEW u, NEW sc, Covers(i, u, sc) PROVE Covers(i, u, sc)'
  <2>1. grant[i].at \in {"free", "row", "gone"}
    BY DEF TypeInv, TypeOK
  <2>2. QED
    BY <1>1, <1>2, <2>1 DEF Covers
<1>3. \A f \in Families : family[f].grant # None => family[f].grant \in Grants
  BY DEF TypeInv, FamilyRow
<1>4. \A f \in Families : HasRows(family[f]) => family[f].grant # None
  BY TypeParts, NoRowsIs DEF FamiliesTyped
<1>5. \A x \in Requests : x # r => req'[x] = req[x]
  BY <1>1 DEF Moves
<1>6. ASSUME NEW x \in Requests, req[x].pc \in {"saveCode", "savePKCE"} PROVE req[x].gr \in Grants
  BY <1>6 DEF TypeInv, TypeOK, RequestType, WellFormed
<1>7. \A x \in Requests : req[x].pc = "commit" =>
         req[x].f \in Families /\ family[req[x].f].grant \in Grants
  <2>1. ASSUME NEW x \in Requests, req[x].pc = "commit" PROVE req[x].f \in Families
    BY <2>1 DEF TypeInv, TypeOK, RequestType, WellFormed, Showing
  <2>2. QED
    BY <1>3, <2>1 DEF TypeInv, WellFormed, Showing
<1>8. GrantsOK'
  BY <1>1, <1>2, <1>3, <1>4, <1>5, <1>6 DEF GrantsInv, GrantsOK
<1>9. TokensOfRows'
  BY <1>1, <1>5, <1>7 DEF GrantsInv, TokensOfRows, InTokenTx, Deletes
<1>10. QED
  BY <1>8, <1>9 DEF GrantsInv

\* A new row, and what the sweep takes from the others.
LEMMA SweptIs ==
    ASSUME TypeInv, NEW r \in Requests, NEW f \in Families, NEW row \in FamilyRow,
           family[f].grant = None, Swept(r, f, row)
    PROVE  /\ family'[f] = row
           /\ \A x \in Families : x # f =>
                 /\ Keeps(family[x], family'[x])
                 /\ \/ family'[x] = family[x]
                    \/ \E g \in Shown : /\ <<x, g>> \in Sweepable(r)
                                        /\ family'[x] = Discard(family[x], g)
           /\ \A x, y \in Families : x # f /\ y # f /\ family'[x] # family[x] /\ family'[y] # family[y]
                                     => x = y
<1> DEFINE new == [family EXCEPT ![f] = row]
<1>1. FamiliesTyped
  BY TypeParts
<1>2. new[f] = row /\ (\A x \in Families : x # f => new[x] = family[x]) /\ new \in [Families -> FamilyRow]
  BY <1>1 DEF FamiliesTyped
<1>3. \A x \in Families : Keeps(family[x], family[x]) /\ \A g \in Shown : Keeps(family[x], Discard(family[x], g))
  BY <1>1, DiscardIs DEF FamiliesTyped, Keeps
<1>4. CASE family' = new
  BY <1>2, <1>3, <1>4
<1>5. CASE \E e \in Families, g \in Shown :
              <<e, g>> \in Sweepable(r) /\ family' = [new EXCEPT ![e] = Discard(@, g)]
  <2>1. PICK e \in Families, g \in Shown :
            <<e, g>> \in Sweepable(r) /\ family' = [new EXCEPT ![e] = Discard(@, g)]
    BY <1>5
  <2>2. e # f
    BY <1>1, <2>1, NoRowsIs, Counting DEF Sweepable, FamiliesTyped
  <2> HIDE DEF new
  <2>3. family'[e] = Discard(new[e], g) /\ \A x \in Families : x # e => family'[x] = new[x]
    BY <1>2, <2>1
  <2>4. QED
    BY <1>2, <1>3, <2>1, <2>2, <2>3
<1> HIDE DEF new
<1>6. QED
  BY <1>4, <1>5 DEF Swept, new

\* A code is stored for a grant that covers it.
LEMMA SaveCodeKeepsGrants ==
    ASSUME TypeInv, GrantsInv, NEW r \in Requests, SaveCode(r)
    PROVE  GrantsInv'
<1>1. Moves(r) /\ TypeInv' /\ Stay /\ UNCHANGED <<active, grant, history>> /\ req[r].pc = "saveCode"
  BY SaveCodeIs DEF SaveCode
<1>2. CASE UNCHANGED family /\ req'[r] = NoRequest
  <2>1. FitsGrants(r)'
    BY <1>2, NoRequestIs, NothingToLose DEF Committed
  <2>2. QED
    BY <1>1, <1>2, <2>1, GrantsStay DEF rows
<1>3. ASSUME NEW f \in Families, NEW row \in FamilyRow,
             family[f].grant = None, Swept(r, f, row),
             row.user = req[r].u, row.grant = req[r].gr, row.scopes = req[r].sc,
             grant[req[r].gr].at = "row", req'[r] = [req[r] EXCEPT !.pc = "savePKCE", !.f = f]
      PROVE  GrantsInv'
  <2>1. FamiliesTyped /\ Covers(req[r].gr, req[r].u, req[r].sc) /\ req[r] \in RequestType
    BY <1>1, TypeParts DEF GrantsInv, GrantsOK, RequestsOK
  <2>2. /\ family'[f] = row
        /\ \A x \in Families : x # f =>
              /\ Keeps(family[x], family'[x])
              /\ \/ family'[x] = family[x]
                 \/ \E g \in Shown : /\ <<x, g>> \in Sweepable(r)
                                     /\ family'[x] = Discard(family[x], g)
    BY <1>3, SweptIs
  <2>3. \A x \in Families : family[x].grant = None /\ family'[x].grant # None =>
           Covers(family'[x].grant, family'[x].user, family'[x].scopes)
    BY <1>3, <2>1, <2>2 DEF Keeps
  <2>4. ASSUME NEW x \in Families, HasRows(family'[x])
        PROVE  (HasRows(family[x]) /\ family[x].grant # None) \/ grant[family'[x].grant].at = "row"
    <3>1. CASE x = f
      BY <1>3, <2>2, <3>1
    <3>2. CASE x # f
      <4>1. HasRows(family[x])
        BY <2>1, <2>2, <2>4, <3>2, DiscardTakes DEF FamiliesTyped
      <4>2. QED
        BY <2>1, <4>1, NoRowsIs DEF FamiliesTyped
    <3>3. QED
      BY <3>1, <3>2
  <2>5. /\ req'[r].pc = "savePKCE" /\ req'[r].f = f /\ req'[r].gr = req[r].gr /\ req'[r].u = req[r].u
        /\ req'[r].sc = req[r].sc
    BY <1>3, <2>1 DEF RequestType
  <2>6. FitsGrants(r)'
    BY <1>1, <1>3, <2>1, <2>2, <2>5 DEF FitsGrants, Covers, InTokenTx
  <2>7. QED
    BY <1>1, <2>3, <2>4, <2>6, GrantsFit
<1>4. QED
  BY <1>2, <1>3, SaveCodeIs

\* One family has a new row, which stores nothing new or has its grant.
LEMMA RowKeepsGrants ==
    ASSUME TypeInv, GrantsInv, Stay, UNCHANGED grant, NEW r \in Requests, Moves(r),
           req'[r].pc \notin Committed, NEW f \in Families, family[f].grant # None,
           NEW row, Keeps(family[f], row), family' = [family EXCEPT ![f] = row],
           HasRows(row) => HasRows(family[f]) \/ grant[family[f].grant].at = "row"
    PROVE  GrantsInv'
<1>1. FamiliesTyped
  BY TypeParts
<1>2. family'[f] = row /\ \A x \in Families : x # f => family'[x] = family[x]
  BY <1>1 DEF FamiliesTyped
<1>3. \A x \in Families : HasRows(family[x]) => family[x].grant # None
  BY <1>1, NoRowsIs DEF FamiliesTyped
<1>4. ASSUME NEW x \in Families
      PROVE  /\ family[x].grant = None => family'[x].grant = None
             /\ HasRows(family'[x]) =>
                   (HasRows(family[x]) /\ family[x].grant # None) \/ grant[family'[x].grant].at = "row"
  BY <1>2, <1>3 DEF Keeps
<1>5. QED
  BY <1>4, NothingToLose, GrantsFit

\* The challenge is stored with the code's grant, and forgotten.
LEMMA PKCEKeepsGrants ==
    ASSUME TypeInv, GrantsInv, NEW r \in Requests, SavePKCE(r) \/ ForgetPKCE(r)
    PROVE  GrantsInv'
<1>1. CASE SavePKCE(r)
  <2>1. PICK row \in FamilyRow :
            /\ family' = [family EXCEPT ![req[r].f] = row] /\ Keeps(family[req[r].f], row)
            /\ row.code = family[req[r].f].code /\ row.access = family[req[r].f].access
            /\ row.refresh = family[req[r].f].refresh
            /\ row.pkce => grant[req[r].gr].at = "row"
    BY <1>1, SavePKCEIs
  <2>2. /\ Moves(r) /\ req'[r] = NoRequest /\ TypeInv' /\ Stay /\ UNCHANGED grant
        /\ req[r].pc = "savePKCE" /\ req[r].f \in Families /\ req[r].gr \in Grants
    BY <1>1, SavePKCEIs
  <2>3. family[req[r].f].grant = req[r].gr /\ req[r].gr # None
    BY <2>2, OAuthAssumption DEF GrantsInv, GrantsOK
  <2>4. HasRows(row) => HasRows(family[req[r].f]) \/ grant[family[req[r].f].grant].at = "row"
    BY <2>1, <2>3 DEF HasRows
  <2>5. req'[r].pc \notin Committed
    BY <2>2, NoRequestIs DEF Committed
  <2>6. QED
    BY <2>1, <2>2, <2>3, <2>4, <2>5, RowKeepsGrants
<1>2. CASE ForgetPKCE(r)
  <2>1. PICK row \in FamilyRow :
            /\ family' = [family EXCEPT ![req[r].f] = row] /\ Keeps(family[req[r].f], row)
            /\ row.code = family[req[r].f].code /\ row.access = family[req[r].f].access
            /\ row.refresh = family[req[r].f].refresh
            /\ row.pkce => family[req[r].f].pkce
    BY <1>2, ForgetPKCEIs
  <2>2. /\ Moves(r) /\ req'[r].pc \in {"idle", "owner"} /\ TypeInv' /\ Stay /\ UNCHANGED grant
        /\ req[r].f \in Families
    BY <1>2, ForgetPKCEIs
  <2>3. family[req[r].f].grant # None
    BY <1>2 DEF TypeInv, WellFormed, ForgetPKCE, Showing
  <2>4. HasRows(row) => HasRows(family[req[r].f])
    BY <2>1 DEF HasRows
  <2>5. req'[r].pc \notin Committed
    BY <2>2 DEF Committed
  <2>6. QED
    BY <2>1, <2>2, <2>3, <2>4, <2>5, RowKeepsGrants
<1>3. QED
  BY <1>1, <1>2

\* Tokens are stored with their grant, and taken by a revocation.
LEMMA TokensKeepGrants ==
    ASSUME TypeInv, GrantsInv, NEW r \in Requests, CommitTokens(r) \/ RevokeRequest(r)
    PROVE  GrantsInv'
<1>1. CASE CommitTokens(r)
  <2>1. /\ Moves(r) /\ req'[r] = NoRequest /\ TypeInv' /\ Stay /\ UNCHANGED grant
        /\ req[r].pc = "commit" /\ req[r].f \in Families /\ req[r].g \in Shown /\ req[r].g < MaxGen
        /\ family[req[r].f].grant # None
        /\ family' = [family EXCEPT ![req[r].f] = NextPair(family[req[r].f], req[r].g)]
    BY <1>1, CommitTokensIs
  <2>2. Keeps(family[req[r].f], NextPair(family[req[r].f], req[r].g))
    BY <2>1, PairIs, TypeParts DEF FamiliesTyped
  <2>3. grant[family[req[r].f].grant].at = "row"
    BY <2>1 DEF GrantsInv, TokensOfRows
  <2>4. req'[r].pc \notin Committed
    BY <2>1, NoRequestIs DEF Committed
  <2>5. QED
    BY <2>1, <2>2, <2>3, <2>4, RowKeepsGrants
<1>2. CASE RevokeRequest(r)
  <2>1. /\ Moves(r) /\ req'[r].pc \in {"idle", "revoke"} /\ TypeInv' /\ Stay /\ UNCHANGED grant
        /\ req[r].f \in Families /\ family[req[r].f].grant # None /\ req[r].seen \in SUBSET Gens
        /\ family' = [family EXCEPT ![req[r].f] = RevokedRow(family[req[r].f], req[r].seen)]
    BY <1>2, RevokeRequestIs
  <2>2. family[req[r].f] \in FamilyRow
    BY <2>1, TypeParts DEF FamiliesTyped
  <2>3. PICK row : row = RevokedRow(family[req[r].f], req[r].seen)
    OBVIOUS
  <2>4. Keeps(family[req[r].f], row) /\ (HasRows(row) => HasRows(family[req[r].f]))
    BY <2>1, <2>2, <2>3, RevokedIs DEF HasRows
  <2>5. req'[r].pc \notin Committed
    BY <2>1 DEF Committed
  <2>6. QED
    BY <2>1, <2>3, <2>4, <2>5, RowKeepsGrants
<1>3. QED
  BY <1>1, <1>2

\* Grants go with all that is stored for them.
LEMMA DeleteKeepsGrants ==
    ASSUME TypeInv, GrantsInv, NEW r \in Requests, Moves(r), req'[r] = NoRequest,
           DeleteGrants(req[r].held), active' \subseteq active, req[r].held \in SUBSET Grants,
           \A p \in Requests : req[p].pc \in InTokenTx => family[req[p].f].grant \notin req[r].held
    PROVE  GrantsInv'
<1> DEFINE held == req[r].held
<1>1. /\ Stay /\ FamiliesTyped
      /\ \A i \in Grants : grant'[i] = IF i \in held THEN NoGrant("gone") ELSE grant[i]
      /\ \A f \in Families :
            family'[f] = IF family[f].grant \in held THEN Cascaded(family[f]) ELSE family[f]
  BY DeleteGrantsIs, TypeParts
<1> HIDE DEF held
<1>2. ASSUME NEW i \in Grants, NEW u, NEW sc, Covers(i, u, sc) PROVE Covers(i, u, sc)'
  BY <1>1, <1>2 DEF Covers, NoGrant
<1>3. \A f \in Families : Keeps(family[f], family'[f]) /\
         (HasRows(family'[f]) => HasRows(family[f]) /\ family[f].grant \notin held)
  BY <1>1, CascadedIs DEF Keeps, FamiliesTyped
<1>4. \A f \in Families : family[f].grant # None => family[f].grant \in Grants
  BY <1>1 DEF FamiliesTyped, FamilyRow
<1>5. \A f \in Families : HasRows(family[f]) => family[f].grant # None
  BY <1>1, NoRowsIs DEF FamiliesTyped
<1>6. /\ req'[r].pc = "idle"
      /\ \A x \in Requests : x # r => req'[x] = req[x]
  BY NoRequestIs DEF Moves
<1>7. ASSUME NEW x \in Requests, req[x].pc \in {"saveCode", "savePKCE"} PROVE req[x].gr \in Grants
  BY <1>7 DEF TypeInv, TypeOK, RequestType, WellFormed
<1>8. ASSUME NEW x \in Requests, req[x].pc \in InTokenTx \cup {"savePKCE"}
      PROVE  /\ family'[req[x].f].grant = family[req[x].f].grant
             /\ family[req[x].f].grant \in Grants
  BY <1>1, <1>8, SameGrant DEF InTokenTx, Showing
<1>9. GrantsOK'
  <2>1. ASSUME NEW f \in Families, family'[f].grant # None
        PROVE  Covers(family[f].grant, family[f].user, family[f].scopes)'
    BY <1>2, <1>3, <1>4, <2>1 DEF GrantsInv, GrantsOK, Keeps
  <2>2. ASSUME NEW f \in Families, HasRows(family'[f])
        PROVE  grant'[family'[f].grant].at = "row"
    BY <1>1, <1>3, <1>4, <1>5, <2>2 DEF GrantsInv, GrantsOK, Keeps
  <2>3. ASSUME NEW x \in Requests, req'[x].pc \in {"saveCode", "savePKCE"}
        PROVE  Covers(req[x].gr, req[x].u, req[x].sc)'
    <3>1. x # r /\ req'[x] = req[x]
      BY <1>6, <2>3
    <3>2. Covers(req[x].gr, req[x].u, req[x].sc) /\ req[x].gr \in Grants
      BY <1>7, <2>3, <3>1 DEF GrantsInv, GrantsOK
    <3>3. PICK i \in Grants : i = req[x].gr
      BY <3>2
    <3>4. PICK u : u = req[x].u
      OBVIOUS
    <3>5. PICK sc : sc = req[x].sc
      OBVIOUS
    <3>6. Covers(i, u, sc)'
      BY <1>2, <3>2, <3>3, <3>4, <3>5
    <3>7. QED
      BY <3>1, <3>3, <3>4, <3>5, <3>6
  <2>4. ASSUME NEW x \in Requests, req'[x].pc = "savePKCE"
        PROVE  family'[req'[x].f].grant = req'[x].gr
    BY <1>6, <1>8, <2>4 DEF GrantsInv, GrantsOK
  <2>5. QED
    BY <2>1, <2>2, <2>3, <2>4 DEF GrantsOK
<1>10. TokensOfRows'
  <2>1. ASSUME NEW x \in Requests, req'[x].pc = "commit"
        PROVE  grant'[family'[req'[x].f].grant].at = "row"
    BY <1>1, <1>6, <1>8, <2>1 DEF GrantsInv, TokensOfRows, InTokenTx, held
  <2>2. ASSUME NEW x \in Requests, NEW d \in Requests,
               req'[x].pc \in InTokenTx, req'[d].pc = "commitGone"
        PROVE  family'[req'[x].f].grant \notin req'[d].held
    <3>1. req'[x] = req[x] /\ req'[d] = req[d]
      BY <1>6, <2>2 DEF InTokenTx
    <3>2. QED
      BY <1>8, <2>2, <3>1 DEF GrantsInv, TokensOfRows, Deletes
  <2>3. QED
    BY <2>1, <2>2 DEF TokensOfRows, Deletes
<1>11. QED
  BY <1>9, <1>10 DEF GrantsInv

\* A user's grants are deleted, or a grant of the own list.
LEMMA GoneKeepsGrants ==
    ASSUME TypeInv, GrantsInv, NEW r \in Requests, Cascade(r) \/ CommitGone(r)
    PROVE  GrantsInv'
<1>1. CASE Cascade(r)
  <2>1. /\ Moves(r) /\ TypeInv' /\ UNCHANGED <<active, history>> /\ req[r].held \in SUBSET Grants
        /\ \A p \in Requests : req[p].pc \in InTokenTx => family[req[p].f].grant \notin req[r].held
    BY <1>1, CascadeIs
  <2>2. CASE DeleteGrants(req[r].held) /\ req'[r] = NoRequest
    BY <2>1, <2>2, DeleteKeepsGrants
  <2>3. CASE UNCHANGED <<grant, family>> /\ req'[r].held = req[r].held /\ req'[r].pc = "commitGone"
    <3>1. \A p \in Requests : req'[p].pc \in InTokenTx => req'[p] = req[p]
      BY <2>1, <2>3 DEF Moves, InTokenTx
    <3>2. \A p \in Requests : req'[p].pc \in InTokenTx => family'[req'[p].f].grant \notin req'[r].held
      BY <2>1, <2>3, <3>1
    <3>3. FitsGrants(r)'
      BY <2>3, <3>2 DEF FitsGrants, InTokenTx, Deletes
    <3>4. QED
      BY <2>1, <2>3, <3>3, GrantsStay DEF rows
  <2>4. QED
    BY <1>1, <2>2, <2>3, CascadeIs
<1>2. CASE CommitGone(r)
  <2>1. /\ Moves(r) /\ TypeInv' /\ req'[r] = NoRequest /\ req[r].pc = "commitGone"
        /\ req[r].held \in SUBSET Grants /\ active' \subseteq active /\ DeleteGrants(req[r].held)
    BY <1>2, CommitGoneIs
  <2>2. \A p \in Requests : req[p].pc \in InTokenTx => family[req[p].f].grant \notin req[r].held
    BY <2>1 DEF GrantsInv, TokensOfRows, Deletes
  <2>3. QED
    BY <2>1, <2>2, DeleteKeepsGrants
<1>3. QED
  BY <1>1, <1>2

\* Every step keeps families within their grants.
LEMMA NextGrants == TypeInv /\ GrantsInv /\ [Next]_vars => GrantsInv'
<1> SUFFICES ASSUME TypeInv, GrantsInv, [Next]_vars PROVE GrantsInv'
  OBVIOUS
<1>1. CASE UNCHANGED vars
  BY <1>1 DEF vars, rows, GrantsInv, GrantsOK, TokensOfRows, Covers, Deletes
<1>2. ASSUME NEW r \in Requests,
             \/ Looks(r) \/ Notes(r) \/ Start(r) \/ Approve(r) \/ SaveCode(r) \/ SavePKCE(r)
             \/ ForgetPKCE(r) \/ CommitTokens(r) \/ RevokeRequest(r) \/ Cascade(r) \/ CommitGone(r)
      PROVE  GrantsInv'
  <2>1. CASE Looks(r)
    BY <2>1, LooksKeepGrants
  <2>2. CASE Notes(r)
    <3>1. Moves(r) /\ UNCHANGED <<rows, history>> /\ req'[r].pc \notin Committed
      BY <2>2, NotesKeep DEF Notes, Committed
    <3>2. QED
      BY <3>1, NothingToLose, GrantsStay
  <2>3. CASE Start(r)
    <3>1. Moves(r) /\ UNCHANGED <<rows, history>> /\ req'[r].pc \notin Committed
      BY <2>3, StartKeeps DEF Committed
    <3>2. QED
      BY <3>1, NothingToLose, GrantsStay
  <2>4. CASE Approve(r) \/ SaveCode(r)
    BY <2>4, ApproveKeepsGrants, SaveCodeKeepsGrants
  <2>5. CASE SavePKCE(r) \/ ForgetPKCE(r)
    BY <2>5, PKCEKeepsGrants
  <2>6. CASE CommitTokens(r) \/ RevokeRequest(r)
    BY <2>6, TokensKeepGrants
  <2>7. CASE Cascade(r) \/ CommitGone(r)
    BY <2>7, GoneKeepsGrants
  <2>8. QED
    BY <1>2, <2>1, <2>2, <2>3, <2>4, <2>5, <2>6, <2>7
<1>3. QED
  BY <1>1, <1>2, NextIs

\* A family belongs to a grant that covers it, and has rows while that is there.
THEOREM GrantsInvHolds == Spec => []GrantsInv
<1>1. QED
  BY InitGrants, NextGrants, TypeInvHolds, PTL DEF Spec

\* What is stored for a family stays within a grant of its owner, and a tool
\* runs only for an active user who granted the scope it needs: Authenticate
\* and Guarded, with the deletions of grants and users in between.
THEOREM TokensWithinGrant == Spec => []WithinGrant
<1>1. ASSUME TypeInv, GrantsInv PROVE WithinGrant
  <2>1. ASSUME NEW f \in Families, HasRows(family[f])
        PROVE  /\ grant[family[f].grant].at = "row"
               /\ grant[family[f].grant].user = family[f].user
               /\ family[f].scopes \subseteq grant[family[f].grant].scopes
    <3>1. family[f].grant # None
      BY <1>1, <2>1, TypeParts, NoRowsIs DEF FamiliesTyped
    <3>2. QED
      BY <1>1, <2>1, <3>1 DEF GrantsInv, GrantsOK, Covers
  <2>2. ASSUME NEW f \in Families, NEW g \in Gens, NEW t \in Tools, NEW tools \in SUBSET Tools,
               Runs(f, g, tools, t)
        PROVE  /\ grant[family[f].grant].user \in active
               /\ ToolScopes[t] \in grant[family[f].grant].scopes
    <3>1. g \in family[f].access /\ family[f].user \in active /\ ToolScopes[t] \in family[f].scopes
      BY <2>2 DEF Runs, HandleMCP, Authenticate, IntrospectAccessToken, OwnerActive, Guarded
    <3>2. HasRows(family[f])
      BY <3>1 DEF HasRows
    <3>3. QED
      BY <2>1, <3>1, <3>2
  <2>3. QED
    BY <2>1, <2>2 DEF WithinGrant, HasRows
<1>2. QED
  BY <1>1, TypeInvHolds, GrantsInvHolds, PTL

-----------------------------------------------------------------------------
(* PairsInv.                                                                *)

\* The state of a code (0) or refresh token in a row.
State(row, g) == IF g = 0 THEN row.code ELSE row.refresh[g]

\* What UsedOnce and Unused say of one family, and the uses n of its tokens.
PairsOf(row, n) ==
    /\ \A g \in Shown : n[g] <= 1
    /\ \A g \in Gens : (row.refresh[g] = "active" \/ g \in row.access) =>
          /\ row.code # "active"
          /\ \A h \in Gens : h > g => row.refresh[h] = "none" /\ h \notin row.access
    /\ \A g \in Shown : State(row, g) = "active" => \A h \in Shown : h >= g => n[h] = 0
    /\ row.grant = None => \A g \in Shown : n[g] = 0
    /\ row.code = "active" => row.access = {} /\ \A g \in Gens : row.refresh[g] = "none"

\* Both, family by family.
LEMMA PairsParts ==
    PairsInv <=> RowsOfTx /\ \A f \in Families : PairsOf(family[f], uses[f])
  BY DEF PairsInv, UsedOnce, Unused, PairsOf, RowState, State

\* The same after a step.
LEMMA PairsPartsNext ==
    PairsInv' <=> RowsOfTx' /\ \A f \in Families : PairsOf(family'[f], uses'[f])
  BY DEF PairsInv, UsedOnce, Unused, PairsOf, RowState, State

\* A row of the same consent in which nothing can be used that could not be
\* used before.
Shrinks(row, new) ==
    /\ Keeps(row, new) /\ new.access \subseteq row.access
    /\ new.code = "active" => row.code = "active"
    /\ \A h \in Gens : /\ new.refresh[h] = "active" => row.refresh[h] = "active"
                       /\ row.refresh[h] = "none" => new.refresh[h] = "none"

\* Expiry, revocation and cascades only take.
LEMMA TakersShrink ==
    ASSUME NEW row \in FamilyRow
    PROVE  /\ Shrinks(row, row)
           /\ \A g \in Shown : Shrinks(row, Discard(row, g))
           /\ \A seen \in SUBSET Gens : Shrinks(row, RevokedRow(row, seen))
           /\ Shrinks(row, Cascaded(row))
<1>1. Shrinks(row, row)
  BY DEF Shrinks, Keeps
<1>2. \A g \in Shown : Shrinks(row, Discard(row, g))
  BY DiscardIs DEF Shrinks
<1>3. \A seen \in SUBSET Gens : Shrinks(row, RevokedRow(row, seen))
  BY RevokedIs DEF Shrinks
<1>4. Shrinks(row, Cascaded(row))
  BY CascadedIs DEF Shrinks
<1>5. QED
  BY <1>1, <1>2, <1>3, <1>4

\* What only takes breaks nothing of a family.
LEMMA ShrinksKeep ==
    ASSUME NEW row, NEW new, NEW n, Shrinks(row, new), PairsOf(row, n)
    PROVE  PairsOf(new, n)
<1>1. \A g \in Shown : State(new, g) = "active" => State(row, g) = "active"
  BY Counting DEF Shrinks, State
<1>2. QED
  BY <1>1 DEF Shrinks, Keeps, PairsOf

\* At most one code or refresh token of a family can be used.
LEMMA OneActive ==
    ASSUME NEW row, NEW n, PairsOf(row, n), NEW g \in Shown, NEW h \in Shown,
           State(row, g) = "active", State(row, h) = "active"
    PROVE  g = h
<1>1. CASE g = 0 \/ h = 0
  BY <1>1, Counting DEF PairsOf, State
<1>2. CASE g # 0 /\ h # 0
  <2>1. g \in Gens /\ h \in Gens /\ row.refresh[g] = "active" /\ row.refresh[h] = "active"
    BY <1>2, Counting DEF State
  <2>2. ~(g > h) /\ ~(h > g)
    BY <2>1 DEF PairsOf
  <2>3. QED
    BY <2>1, <2>2, Counting
<1>3. QED
  BY <1>1, <1>2

\* A family that is opened has used nothing.
LEMMA OpenedPairs ==
    ASSUME NEW row \in FamilyRow, NEW n \in [Shown -> Nat], \A g \in Shown : n[g] = 0,
           row.access = {}, \A h \in Gens : row.refresh[h] = "none", row.grant # None
    PROVE  PairsOf(row, n)
<1>1. \A g \in Shown : n[g] <= 1
  OBVIOUS
<1>2. QED
  BY <1>1 DEF PairsOf

\* The next pair is the newest, and its refresh token is not used yet.
LEMMA NextPairKeeps ==
    ASSUME NEW row \in FamilyRow, NEW n \in [Shown -> Nat], NEW m \in [Shown -> Nat],
           NEW g \in Shown, g < MaxGen, row.grant # None, PairsOf(row, n), State(row, g) = "active",
           \A h \in Shown : m[h] = IF h = g THEN n[h] + 1 ELSE n[h]
    PROVE  PairsOf(NextPair(row, g), m)
<1> DEFINE new == NextPair(row, g)
<1>1. /\ Keeps(row, new) /\ g + 1 \in Gens
      /\ new.code = IF g = 0 THEN "used" ELSE row.code
      /\ new.access = (IF g = 0 THEN row.access ELSE {}) \cup {g + 1}
      /\ \A h \in Gens : new.refresh[h] =
            IF h = g + 1 THEN "active" ELSE IF h = g THEN "used" ELSE row.refresh[h]
  BY PairIs, Counting
<1> HIDE DEF new
<1>2. row.code = "active" <=> g = 0
  BY OneActive, Counting DEF State
<1>3. g = 0 => row.access = {} /\ \A h \in Gens : row.refresh[h] = "none"
  BY <1>2 DEF PairsOf
<1>4. g # 0 => \A h \in Gens : h > g => row.refresh[h] = "none"
  BY Counting DEF PairsOf, State
<1>5. \A h \in Gens : row.refresh[h] = "active" => h = g
  <2>1. ASSUME NEW h \in Gens, row.refresh[h] = "active" PROVE h = g
    BY <2>1, OneActive, Counting DEF State
  <2>2. QED
    BY <2>1
<1>6. new.code # "active" /\ new.access = {g + 1}
  BY <1>1, <1>2, <1>3
<1>7. \A h \in Gens : (new.refresh[h] = "active" \/ h \in new.access) => h = g + 1
  BY <1>1, <1>5, <1>6
<1>8. \A h \in Gens : h > g + 1 => new.refresh[h] = "none" /\ h \notin new.access
  BY <1>1, <1>3, <1>4, <1>6, Counting
<1>9. \A h \in Shown : h >= g => n[h] = 0
  BY DEF PairsOf
<1>10. \A h \in Shown : m[h] <= 1
  BY <1>9, Counting DEF PairsOf
<1>11. ASSUME NEW h \in Shown, State(new, h) = "active"
       PROVE  \A k \in Shown : k >= h => m[k] = 0
  <2>1. h = g + 1
    BY <1>6, <1>7, <1>11, Counting DEF State
  <2>2. QED
    BY <1>9, <2>1, Counting
<1>12. new.grant # None
  BY <1>1 DEF Keeps
<1>13. PairsOf(new, m)
  BY <1>6, <1>7, <1>8, <1>10, <1>11, <1>12 DEF PairsOf
<1>14. QED
  BY <1>13 DEF new

\* Request r is in no transaction, and no other one loses its row.
LEMMA TxStay ==
    ASSUME TypeInv, RowsOfTx, NEW r \in Requests, Moves(r), req'[r].pc \notin InTokenTx,
           \A s \in Requests : s # r /\ req[s].pc \in InTokenTx =>
              State(family'[req[s].f], req[s].g) = "active"
    PROVE  RowsOfTx'
  BY DEF RowsOfTx, Moves, RowState, State

\* Nothing was used at the start.
LEMMA InitPairs == Init => PairsInv
<1> SUFFICES ASSUME Init PROVE PairsInv
  OBVIOUS
<1>1. RowsOfTx
  BY NoRequestIs DEF Init, RowsOfTx, InTokenTx
<1>2. ASSUME NEW f \in Families PROVE PairsOf(family[f], uses[f])
  <2>1. family[f] = NoRows /\ \A g \in Shown : uses[f][g] = 0
    BY DEF Init
  <2>2. \A g \in Shown : State(NoRows, g) = "none"
    BY NoRowsIs, Counting DEF State
  <2>3. QED
    BY <2>1, <2>2, NoRowsIs DEF PairsOf
<1>3. QED
  BY <1>1, <1>2, PairsParts

\* Whose transaction it is: the family is open, and shows what it had.
LEMMA TxIs ==
    ASSUME TypeInv, PairsInv, NEW s \in Requests, req[s].pc \in InTokenTx
    PROVE  /\ req[s].f \in Families /\ req[s].g \in Shown /\ family[req[s].f].grant # None
           /\ State(family[req[s].f], req[s].g) = "active"
<1>1. req[s] \in RequestType /\ WellFormed(req[s])
  BY DEF TypeInv, TypeOK
<1>2. QED
  BY <1>1 DEF RequestType, WellFormed, InTokenTx, Showing, PairsInv, RowsOfTx, RowState, State

\* Who takes the row of a code or refresh token takes it alone.
LEMMA TxAlone ==
    ASSUME TypeInv, PairsInv, NEW r \in Requests, UNCHANGED <<rows, history>>, Moves(r),
           req'[r].pc \in InTokenTx => /\ req'[r].f = req[r].f /\ req'[r].g = req[r].g
                                       /\ req[r].pc \in InTokenTx \cup {"use"},
           req'[r].pc \in InTokenTx /\ req[r].pc = "use" =>
              ~RowHeld(r, req[r].f, req[r].g) /\ Usable(req[r].f, req[r].g)
    PROVE  PairsInv'
<1>1. UNCHANGED <<family, uses>>
  BY DEF rows, history
<1>2. \A f \in Families : PairsOf(family'[f], uses'[f])
  BY <1>1, PairsParts
<1>3. ASSUME NEW s \in Requests, s # r, req[s].pc \in InTokenTx, req'[r].pc \in InTokenTx
      PROVE  req[s].f # req[r].f
  <2>1. CASE req[r].pc \in InTokenTx
    BY <1>3, <2>1 DEF PairsInv, RowsOfTx
  <2>2. CASE req[r].pc = "use"
    <3>1. SUFFICES ASSUME req[s].f = req[r].f PROVE FALSE
      OBVIOUS
    <3>2. State(family[req[r].f], req[r].g) = "active" /\ req[r].g \in Shown
      BY <1>3, <2>2 DEF Usable, RowState, State, TypeInv, TypeOK, RequestType
    <3>3. /\ req[s].f \in Families /\ req[s].g \in Shown /\ State(family[req[s].f], req[s].g) = "active"
      BY <1>3, TxIs
    <3>4. PairsOf(family[req[s].f], uses[req[s].f])
      BY <3>3, PairsParts
    <3>5. req[s].g = req[r].g
      BY <3>1, <3>2, <3>3, <3>4, OneActive
    <3>6. QED
      BY <1>3, <2>2, <3>1, <3>5 DEF RowHeld, TokenTx
  <2>3. QED
    BY <1>3, <2>1, <2>2
<1>4. ASSUME req'[r].pc \in InTokenTx PROVE RowState(req[r].f, req[r].g) = "active"
  BY <1>4, TxIs DEF Usable, RowState, State
<1>5. \A s \in Requests : req'[s].pc \in InTokenTx =>
         req'[s].f = req[s].f /\ State(family[req[s].f], req[s].g) = "active"
         /\ req'[s].g = req[s].g
  BY <1>4, TxIs DEF Moves, RowState, State
<1>6. \A s \in Requests : s # r => req'[s] = req[s]
  BY DEF Moves
<1>7. RowsOfTx'
  <2>1. \A s \in Requests : req'[s].pc \in InTokenTx => RowState(req[s].f, req[s].g)' = "active"
    BY <1>1, <1>5 DEF RowState, State
  <2>2. ASSUME NEW x \in Requests, NEW y \in Requests, x # y,
               req'[x].pc \in InTokenTx, req'[y].pc \in InTokenTx
        PROVE  req'[x].f # req'[y].f
    <3>1. CASE x = r \/ y = r
      BY <1>3, <1>5, <1>6, <2>2, <3>1
    <3>2. CASE x # r /\ y # r
      BY <1>6, <2>2, <3>2 DEF PairsInv, RowsOfTx
    <3>3. QED
      BY <3>1, <3>2
  <2>3. QED
    BY <2>1, <2>2 DEF RowsOfTx
<1>8. QED
  BY <1>2, <1>7, PairsPartsNext

\* Rows only shrink, and none that a transaction keeps.
LEMMA ShrinkKeepsPairs ==
    ASSUME TypeInv, PairsInv, NEW r \in Requests, Moves(r), req'[r].pc \notin InTokenTx,
           UNCHANGED uses, \A f \in Families : Shrinks(family[f], family'[f]),
           \A s \in Requests : s # r /\ req[s].pc \in InTokenTx =>
              State(family'[req[s].f], req[s].g) = "active"
    PROVE  PairsInv'
<1>1. \A f \in Families : PairsOf(family'[f], uses'[f])
  BY ShrinksKeep, PairsParts
<1>2. RowsOfTx'
  BY TxStay DEF PairsInv
<1>3. QED
  BY <1>1, <1>2, PairsPartsNext

\* Forgetting one leaves the others.
LEMMA DiscardOther ==
    ASSUME NEW row \in FamilyRow, NEW g \in Shown, NEW h \in Shown, g # h
    PROVE  State(Discard(row, g), h) = State(row, h)
<1>1. CASE h = 0
  BY <1>1, DiscardIs DEF State
<1>2. CASE h # 0
  <2>1. h \in Gens
    BY <1>2, Counting
  <2>2. Discard(row, g).refresh[h] = row.refresh[h]
    BY <2>1, DiscardIs
  <2>3. QED
    BY <1>2, <2>2 DEF State
<1>3. QED
  BY <1>1, <1>2

\* A revocation leaves what it did not see.
LEMMA RevokedOther ==
    ASSUME NEW row \in FamilyRow, NEW seen \in SUBSET Gens, NEW h \in Shown, h \notin seen
    PROVE  State(RevokedRow(row, seen), h) = State(row, h)
<1>1. CASE h = 0
  BY <1>1, RevokedIs DEF State
<1>2. CASE h # 0
  <2>1. h \in Gens
    BY <1>2, Counting
  <2>2. RevokedRow(row, seen).refresh[h] = row.refresh[h]
    BY <2>1, RevokedIs
  <2>3. QED
    BY <1>2, <2>2 DEF State
<1>3. QED
  BY <1>1, <1>2

\* A new family, while the sweep skips what transactions keep.
LEMMA SaveCodeKeepsPairs ==
    ASSUME TypeInv, PairsInv, NEW r \in Requests, SaveCode(r)
    PROVE  PairsInv'
<1>1. Moves(r) /\ Stay /\ UNCHANGED <<active, grant, history>> /\ UNCHANGED uses
  BY SaveCodeIs DEF history
<1>2. CASE UNCHANGED family /\ req'[r] = NoRequest
  BY <1>1, <1>2, NoRequestIs, TxAlone DEF rows, InTokenTx
<1>3. ASSUME NEW f \in Families, NEW row \in FamilyRow, family[f].grant = None, Swept(r, f, row),
             row.grant = req[r].gr, row.access = {}, \A h \in Gens : row.refresh[h] = "none",
             req'[r] = [req[r] EXCEPT !.pc = "savePKCE", !.f = f]
      PROVE  PairsInv'
  <2>1. /\ FamiliesTyped /\ req[r] \in RequestType /\ req[r].gr # None /\ uses[f] \in [Shown -> Nat]
        /\ \A g \in Shown : uses[f][g] = 0
    BY <1>3, TypeParts
       DEF RequestsOK, WellFormed, SaveCode, HistoryTyped, PairsInv, Unused
  <2>2. req'[r].pc \notin InTokenTx
    BY <1>3, <2>1 DEF RequestType, InTokenTx
  <2>3. /\ family'[f] = row
        /\ \A x \in Families : x # f =>
              /\ Keeps(family[x], family'[x])
              /\ \/ family'[x] = family[x]
                 \/ \E g \in Shown : /\ <<x, g>> \in Sweepable(r)
                                     /\ family'[x] = Discard(family[x], g)
    BY <1>3, SweptIs
  <2>4. ASSUME NEW x \in Families PROVE PairsOf(family'[x], uses'[x])
    <3>1. CASE x = f
      BY <1>1, <1>3, <2>1, <2>3, <3>1, OpenedPairs
    <3>2. CASE x # f
      <4>1. Shrinks(family[x], family'[x])
        BY <2>1, <2>3, <3>2, TakersShrink DEF FamiliesTyped
      <4>2. QED
        BY <1>1, <4>1, ShrinksKeep, PairsParts
    <3>3. QED
      BY <3>1, <3>2
  <2>5. ASSUME NEW s \in Requests, s # r, req[s].pc \in InTokenTx
        PROVE  State(family'[req[s].f], req[s].g) = "active"
    <3>1. /\ req[s].f \in Families /\ req[s].g \in Shown /\ req[s].f # f
          /\ State(family[req[s].f], req[s].g) = "active"
      BY <1>3, <2>5, TxIs
    <3>2. CASE family'[req[s].f] = family[req[s].f]
      BY <3>1, <3>2
    <3>3. ASSUME NEW g \in Shown, <<req[s].f, g>> \in Sweepable(r),
                 family'[req[s].f] = Discard(family[req[s].f], g)
          PROVE  State(family'[req[s].f], req[s].g) = "active"
      <4>1. g # req[s].g
        BY <2>5, <3>3 DEF Sweepable, RowHeld, TokenTx
      <4>2. family[req[s].f] \in FamilyRow
        BY <2>1, <3>1 DEF FamiliesTyped
      <4>3. QED
        BY <3>1, <3>3, <4>1, <4>2, DiscardOther
    <3>4. QED
      BY <2>3, <3>1, <3>2, <3>3
  <2>6. RowsOfTx'
    BY <1>1, <2>2, <2>5, TxStay DEF PairsInv
  <2>7. QED
    BY <2>4, <2>6, PairsPartsNext
<1>4. QED
  BY <1>2, <1>3, SaveCodeIs

\* No transaction of another request loses its row when f has the new one.
Spares(r, f, row) ==
    \A s \in Requests : s # r /\ req[s].pc \in InTokenTx /\ req[s].f = f =>
        State(row, req[s].g) = State(family[f], req[s].g)

\* One row shrinks, and no transaction loses its own.
LEMMA RowShrinks ==
    ASSUME TypeInv, PairsInv, NEW r \in Requests, Moves(r), req'[r].pc \notin InTokenTx,
           UNCHANGED uses, NEW f \in Families, NEW row, Shrinks(family[f], row),
           family' = [family EXCEPT ![f] = row], Spares(r, f, row)
    PROVE  PairsInv'
<1>1. FamiliesTyped
  BY TypeParts
<1>2. family'[f] = row /\ \A x \in Families : x # f => family'[x] = family[x]
  BY <1>1 DEF FamiliesTyped
<1>3. \A x \in Families : Shrinks(family[x], family'[x])
  BY <1>1, <1>2, TakersShrink DEF FamiliesTyped
<1>4. ASSUME NEW s \in Requests, s # r, req[s].pc \in InTokenTx
      PROVE  State(family'[req[s].f], req[s].g) = "active"
  BY <1>2, <1>4, TxIs DEF Spares
<1>5. QED
  BY <1>3, <1>4, ShrinkKeepsPairs

\* The challenge has no part in this.
LEMMA PKCEKeepsPairs ==
    ASSUME TypeInv, PairsInv, NEW r \in Requests, SavePKCE(r) \/ ForgetPKCE(r)
    PROVE  PairsInv'
<1>1. /\ Moves(r) /\ req'[r].pc \in {"idle", "owner"} /\ req[r].f \in Families /\ UNCHANGED uses
      /\ \E row \in FamilyRow :
            /\ family' = [family EXCEPT ![req[r].f] = row] /\ Keeps(family[req[r].f], row)
            /\ row.code = family[req[r].f].code /\ row.access = family[req[r].f].access
            /\ row.refresh = family[req[r].f].refresh
  BY SavePKCEIs, ForgetPKCEIs, NoRequestIs DEF history
<1>2. PICK row \in FamilyRow :
          /\ family' = [family EXCEPT ![req[r].f] = row] /\ Keeps(family[req[r].f], row)
          /\ row.code = family[req[r].f].code /\ row.access = family[req[r].f].access
          /\ row.refresh = family[req[r].f].refresh
  BY <1>1
<1>3. Shrinks(family[req[r].f], row) /\ \A g : State(row, g) = State(family[req[r].f], g)
  BY <1>2 DEF Shrinks, State
<1>4. req'[r].pc \notin InTokenTx
  BY <1>1 DEF InTokenTx
<1>5. PICK f \in Families : f = req[r].f
  BY <1>1
<1>6. /\ Shrinks(family[f], row) /\ family' = [family EXCEPT ![f] = row]
      /\ Spares(r, f, row)
  BY <1>2, <1>3, <1>5 DEF Spares
<1>7. QED
  BY <1>1, <1>4, <1>6, RowShrinks

\* A revocation waits for the rows that transactions keep.
LEMMA RevokeKeepsPairs ==
    ASSUME TypeInv, PairsInv, NEW r \in Requests, RevokeRequest(r)
    PROVE  PairsInv'
<1> DEFINE f == req[r].f
<1>1. /\ Moves(r) /\ req'[r].pc \in {"idle", "revoke"} /\ UNCHANGED uses
      /\ f \in Families /\ req[r].seen \in SUBSET Gens
      /\ family' = [family EXCEPT ![f] = RevokedRow(family[f], req[r].seen)]
      /\ \A g \in req[r].seen : ~RowHeld(r, f, g)
  BY RevokeRequestIs
<1>2. family[f] \in FamilyRow
  BY <1>1, TypeParts DEF FamiliesTyped
<1>3. PICK row : row = RevokedRow(family[f], req[r].seen)
  OBVIOUS
<1>4. Shrinks(family[f], row)
  BY <1>1, <1>2, <1>3, TakersShrink
<1>5. ASSUME NEW s \in Requests, s # r, req[s].pc \in InTokenTx, req[s].f = f
      PROVE  State(row, req[s].g) = State(family[f], req[s].g)
  <2>1. req[s].g \in Shown
    BY <1>5, TxIs
  <2>2. req[s].g \notin req[r].seen
    BY <1>1, <1>5 DEF RowHeld, TokenTx
  <2>3. QED
    BY <1>1, <1>2, <1>3, <2>1, <2>2, RevokedOther
<1>6. req'[r].pc \notin InTokenTx
  BY <1>1 DEF InTokenTx
<1>7. family' = [family EXCEPT ![f] = row]
  BY <1>1, <1>3
<1>8. Spares(r, f, row)
  BY <1>5 DEF Spares
<1> HIDE DEF f
<1>9. QED
  BY <1>1, <1>4, <1>6, <1>7, <1>8, RowShrinks

\* The newest pair takes the place of what was used.
LEMMA CommitKeepsPairs ==
    ASSUME TypeInv, PairsInv, NEW r \in Requests, CommitTokens(r)
    PROVE  PairsInv'
<1> DEFINE f == req[r].f
           g == req[r].g
<1>1. /\ Moves(r) /\ req'[r] = NoRequest /\ TypeInv'
      /\ req[r].pc = "commit" /\ f \in Families /\ g \in Shown
      /\ g < MaxGen /\ family[f].grant # None
      /\ family' = [family EXCEPT ![f] = NextPair(family[f], g)]
      /\ \A x \in Families, h \in Shown :
            uses'[x][h] = IF x = f /\ h = g THEN uses[x][h] + 1 ELSE uses[x][h]
  BY CommitTokensIs
<1>2. /\ FamiliesTyped /\ uses \in [Families -> [Shown -> Nat]]
      /\ uses' \in [Families -> [Shown -> Nat]]
  BY <1>1, TypeParts DEF TypeInv
<1>3. State(family[f], g) = "active"
  BY <1>1, TxIs DEF InTokenTx
<1>4. family'[f] = NextPair(family[f], g) /\ \A x \in Families : x # f => family'[x] = family[x]
  BY <1>1, <1>2 DEF FamiliesTyped
<1>5. PairsOf(family'[f], uses'[f])
  <2>1. family[f] \in FamilyRow /\ uses[f] \in [Shown -> Nat] /\ uses'[f] \in [Shown -> Nat]
    BY <1>1, <1>2 DEF FamiliesTyped
  <2>2. PairsOf(family[f], uses[f])
    BY <1>1, PairsParts
  <2>3. \A h \in Shown : uses'[f][h] = IF h = g THEN uses[f][h] + 1 ELSE uses[f][h]
    BY <1>1
  <2> HIDE DEF f, g
  <2>4. PairsOf(NextPair(family[f], g), uses'[f])
    BY <1>1, <1>3, <2>1, <2>2, <2>3, NextPairKeeps
  <2>5. QED
    BY <1>4, <2>4
<1>6. ASSUME NEW x \in Families, x # f PROVE uses'[x] = uses[x]
  BY <1>1, <1>2, <1>6
<1>7. \A x \in Families : PairsOf(family'[x], uses'[x])
  BY <1>4, <1>5, <1>6, PairsParts
<1>8. ASSUME NEW s \in Requests, s # r, req[s].pc \in InTokenTx
      PROVE  State(family'[req[s].f], req[s].g) = "active"
  <2>1. req[s].f # f
    BY <1>1, <1>8 DEF PairsInv, RowsOfTx, InTokenTx
  <2>2. QED
    BY <1>4, <1>8, <2>1, TxIs
<1>9. RowsOfTx'
  BY <1>1, <1>8, NoRequestIs, TxStay DEF PairsInv, InTokenTx
<1>10. QED
  BY <1>7, <1>9, PairsPartsNext

\* A deletion waits for the rows that transactions keep.
LEMMA GoneKeepsPairs ==
    ASSUME TypeInv, GrantsInv, PairsInv, NEW r \in Requests, Cascade(r) \/ CommitGone(r)
    PROVE  PairsInv'
<1>1. /\ Moves(r) /\ req'[r].pc \notin InTokenTx /\ UNCHANGED history /\ active' \subseteq active
      /\ req[r].held \in SUBSET Grants
      /\ \A p \in Requests : req[p].pc \in InTokenTx => family[req[p].f].grant \notin req[r].held
      /\ DeleteGrants(req[r].held) \/ UNCHANGED <<active, grant, family>>
  <2>1. CASE Cascade(r)
    BY <2>1, CascadeIs, NoRequestIs DEF InTokenTx
  <2>2. CASE CommitGone(r)
    BY <2>2, CommitGoneIs, NoRequestIs DEF InTokenTx, GrantsInv, TokensOfRows, Deletes
  <2>3. QED
    BY <2>1, <2>2
<1>2. CASE DeleteGrants(req[r].held)
  <2>1. \A f \in Families :
           family'[f] = IF family[f].grant \in req[r].held THEN Cascaded(family[f]) ELSE family[f]
    BY <1>1, <1>2, DeleteGrantsIs
  <2>2. \A f \in Families : Shrinks(family[f], family'[f])
    BY <2>1, TakersShrink, TypeParts DEF FamiliesTyped
  <2>3. \A s \in Requests : req[s].pc \in InTokenTx => State(family'[req[s].f], req[s].g) = "active"
    BY <1>1, <2>1, TxIs
  <2>4. QED
    BY <1>1, <2>2, <2>3, ShrinkKeepsPairs DEF history
<1>3. CASE UNCHANGED <<active, grant, family>>
  BY <1>1, <1>3, TxAlone DEF rows
<1>4. QED
  BY <1>1, <1>2, <1>3

\* Every step keeps pairs in their order.
LEMMA NextPairs == TypeInv /\ GrantsInv /\ PairsInv /\ [Next]_vars => PairsInv'
<1> SUFFICES ASSUME TypeInv, GrantsInv, PairsInv, [Next]_vars PROVE PairsInv'
  OBVIOUS
<1>1. CASE UNCHANGED vars
  <2>1. RowsOfTx'
    BY <1>1 DEF vars, rows, PairsInv, RowsOfTx, RowState
  <2>2. \A f \in Families : PairsOf(family'[f], uses'[f])
    BY <1>1, PairsParts DEF vars, rows, history
  <2>3. QED
    BY <2>1, <2>2, PairsPartsNext
<1>2. ASSUME NEW r \in Requests,
             \/ Looks(r) \/ Notes(r) \/ Start(r) \/ Approve(r) \/ SaveCode(r) \/ SavePKCE(r)
             \/ ForgetPKCE(r) \/ CommitTokens(r) \/ RevokeRequest(r) \/ Cascade(r) \/ CommitGone(r)
      PROVE  PairsInv'
  <2>1. CASE Looks(r)
    <3>1. Moves(r) /\ UNCHANGED <<rows, history>>
      BY <2>1, LooksKeep DEF Looks
    <3>2. req'[r].pc \in InTokenTx =>
             /\ req'[r].f = req[r].f /\ req'[r].g = req[r].g /\ req[r].pc \in InTokenTx \cup {"use"}
             /\ req[r].pc = "use" => ~RowHeld(r, req[r].f, req[r].g) /\ Usable(req[r].f, req[r].g)
      BY <2>1, LooksDo DEF InTokenTx, Committed
    <3>3. QED
      BY <3>1, <3>2, TxAlone
  <2>2. CASE Notes(r)
    <3>1. Moves(r) /\ UNCHANGED <<rows, history>> /\ req'[r].pc \notin InTokenTx
      BY <2>2, NotesKeep DEF Notes, InTokenTx
    <3>2. QED
      BY <3>1, TxAlone
  <2>3. CASE Start(r)
    <3>1. Moves(r) /\ UNCHANGED <<rows, history>> /\ req'[r].pc \notin InTokenTx
      BY <2>3, StartKeeps DEF InTokenTx
    <3>2. QED
      BY <3>1, TxAlone
  <2>4. CASE Approve(r)
    <3>1. /\ Moves(r) /\ UNCHANGED family /\ UNCHANGED uses /\ req'[r].pc \notin InTokenTx
      BY <2>4, ApproveKeeps DEF InTokenTx, history
    <3>2. \A f \in Families : Shrinks(family[f], family'[f])
      BY <3>1, TakersShrink, TypeParts DEF FamiliesTyped
    <3>3. \A s \in Requests : s # r /\ req[s].pc \in InTokenTx =>
             State(family'[req[s].f], req[s].g) = "active"
      BY <3>1, TxIs
    <3>4. QED
      BY <3>1, <3>2, <3>3, ShrinkKeepsPairs
  <2>5. CASE SaveCode(r)
    BY <2>5, SaveCodeKeepsPairs
  <2>6. CASE SavePKCE(r) \/ ForgetPKCE(r)
    BY <2>6, PKCEKeepsPairs
  <2>7. CASE CommitTokens(r)
    BY <2>7, CommitKeepsPairs
  <2>8. CASE RevokeRequest(r)
    BY <2>8, RevokeKeepsPairs
  <2>9. CASE Cascade(r) \/ CommitGone(r)
    BY <2>9, GoneKeepsPairs
  <2>10. QED
    BY <1>2, <2>1, <2>2, <2>3, <2>4, <2>5, <2>6, <2>7, <2>8, <2>9
<1>3. QED
  BY <1>1, <1>2, NextIs

\* One pair of a family is the newest, and who makes the next one has it alone.
THEOREM PairsInvHolds == Spec => []PairsInv
<1>1. QED
  BY InitPairs, NextPairs, TypeInvHolds, GrantsInvHolds, PTL DEF Spec

\* A code, and a refresh token, brings tokens once, however many requests
\* show it at the same time and whichever of them fail, and only the newest
\* pair works: InvalidateAuthorizeCodeSession and RotateRefreshToken.
THEOREM CodesUsedOnce == Spec => []UsedOnce
<1>1. PairsInv => UsedOnce
  BY DEF PairsInv
<1>2. QED
  BY <1>1, PairsInvHolds, PTL

-----------------------------------------------------------------------------
(* Every step is one of TokenFamily, or none.                               *)

\* Whether something of a family can be used, by its row.
LifeOf(row) == IF row.grant = None THEN "none" ELSE IF Alive(row) THEN "live" ELSE "ended"

\* How many pairs came from a family, by its uses.
HeadOf(n) == Cardinality({g \in Shown : n[g] > 0})

\* What TokenFamily sees: life
Lives == [f \in Families |-> LifeOf(family[f])]
\* and head.
Heads == [f \in Families |-> HeadOf(uses[f])]

\* What can still be used after a row shrank could be used before.
LEMMA ShrinksLife ==
    ASSUME NEW row, NEW new, Shrinks(row, new)
    PROVE  LifeOf(new) = LifeOf(row) \/ (LifeOf(row) = "live" /\ LifeOf(new) = "ended")
<1>1. Alive(new) => Alive(row)
  BY DEF Shrinks, Alive
<1>2. new.grant = row.grant
  BY DEF Shrinks, Keeps
<1>3. QED
  BY <1>1, <1>2 DEF LifeOf

\* One more use of a code or refresh token that was not used.
LEMMA HeadGrows ==
    ASSUME NEW n \in [Shown -> Nat], NEW m \in [Shown -> Nat], NEW g \in Shown, n[g] = 0,
           \A h \in Shown : m[h] = IF h = g THEN n[h] + 1 ELSE n[h]
    PROVE  HeadOf(m) = HeadOf(n) + 1
<1> DEFINE used == {h \in Shown : n[h] > 0}
<1>1. IsFiniteSet(Shown)
  BY OAuthAssumption, FS_Interval DEF Shown
<1>2. used \in SUBSET Shown /\ g \notin used
  OBVIOUS
<1>3. {h \in Shown : m[h] > 0} = used \cup {g}
  OBVIOUS
<1>4. IsFiniteSet(used)
  BY <1>1, <1>2, FS_Subset
<1> HIDE DEF used
<1>5. Cardinality(used \cup {g}) = Cardinality(used) + 1
  BY <1>2, <1>4, FS_AddElement
<1>6. QED
  BY <1>3, <1>5 DEF HeadOf, used

\* Rows only shrink: what could be used in some families ends together.
LEMMA ShrinkStep ==
    ASSUME \A f \in Families : Shrinks(family[f], family'[f]), UNCHANGED uses
    PROVE  [Promised!Next]_<<Lives, Heads>>
<1> DEFINE S == {f \in Families : LifeOf(family'[f]) # LifeOf(family[f])}
<1>1. \A f \in Families : f \in S => LifeOf(family[f]) = "live" /\ LifeOf(family'[f]) = "ended"
  BY ShrinksLife
<1>2. Heads' = Heads
  BY DEF Heads
<1>3. CASE S = {}
  BY <1>2, <1>3 DEF Lives
<1>4. CASE S # {}
  <2>1. PICK T \in SUBSET Families : T = S
    OBVIOUS
  <2>2. Lives' = [f \in Families |-> IF f \in T THEN "ended" ELSE Lives[f]]
    BY <1>1, <2>1 DEF Lives
  <2>3. \A f \in T : Lives[f] = "live"
    BY <1>1, <2>1 DEF Lives
  <2>4. Promised!End(T)
    BY <1>2, <1>4, <2>1, <2>2, <2>3 DEF Promised!End, Lives, Heads, LifeOf, HeadOf
  <2>5. QED
    BY <2>4 DEF Promised!Next
<1>5. QED
  BY <1>3, <1>4

\* A code is stored: a family opens, and the sweep may end another one.
LEMMA SaveCodeStep ==
    ASSUME TypeInv, NEW r \in Requests, SaveCode(r)
    PROVE  [Promised!Next]_<<Lives, Heads>>
<1>1. UNCHANGED uses /\ Heads' = Heads /\ FamiliesTyped
  BY SaveCodeIs, TypeParts DEF history, Heads
<1>2. CASE UNCHANGED family
  BY <1>1, <1>2 DEF Lives
<1>3. ASSUME NEW f \in Families, NEW row \in FamilyRow, family[f].grant = None, Swept(r, f, row),
             row.grant = req[r].gr, row.code = "active"
      PROVE  [Promised!Next]_<<Lives, Heads>>
  <2>1. row.grant # None
    BY <1>3 DEF SaveCode, TypeInv, WellFormed
  <2>2. LifeOf(family[f]) = "none" /\ LifeOf(row) = "live"
    BY <1>3, <2>1 DEF LifeOf, Alive
  <2>3. /\ family'[f] = row
        /\ \A x \in Families : x # f =>
              /\ Keeps(family[x], family'[x])
              /\ \/ family'[x] = family[x]
                 \/ \E g \in Shown : /\ <<x, g>> \in Sweepable(r)
                                     /\ family'[x] = Discard(family[x], g)
        /\ \A x, y \in Families : x # f /\ y # f /\ family'[x] # family[x] /\ family'[y] # family[y]
                                  => x = y
    BY <1>3, SweptIs
  <2>4. \A x \in Families : x # f => Shrinks(family[x], family'[x])
    BY <1>1, <2>3, TakersShrink DEF FamiliesTyped
  <2>5. CASE \A x \in Families : x # f => LifeOf(family'[x]) = LifeOf(family[x])
    <3>1. Lives' = [Lives EXCEPT ![f] = "live"]
      BY <2>2, <2>3, <2>5 DEF Lives
    <3>2. Lives[f] = "none"
      BY <2>2 DEF Lives
    <3>3. Promised!Open(f)
      BY <1>1, <3>1, <3>2 DEF Promised!Open, Lives, Heads, LifeOf, HeadOf
    <3>4. QED
      BY <3>3 DEF Promised!Next
  <2>6. ASSUME NEW e \in Families, e # f, LifeOf(family'[e]) # LifeOf(family[e])
        PROVE  [Promised!Next]_<<Lives, Heads>>
    <3>1. LifeOf(family[e]) = "live" /\ LifeOf(family'[e]) = "ended"
      BY <2>4, <2>6, ShrinksLife
    <3>2. \A x \in Families : x # f /\ x # e => family'[x] = family[x]
      BY <2>3, <2>6
    <3>3. Lives' = [Lives EXCEPT ![f] = "live", ![e] = "ended"]
      BY <2>2, <2>3, <2>6, <3>1, <3>2 DEF Lives
    <3>4. Lives[f] = "none" /\ Lives[e] = "live"
      BY <2>2, <3>1 DEF Lives
    <3>5. Promised!OpenAndEnd(f, e)
      BY <1>1, <2>6, <3>3, <3>4 DEF Promised!OpenAndEnd, Lives, Heads, LifeOf, HeadOf
    <3>6. QED
      BY <3>5 DEF Promised!Next
  <2>7. QED
    BY <2>5, <2>6
<1>4. QED
  BY <1>2, <1>3, SaveCodeIs

\* The next pair of a family that is live, and stays so.
LEMMA CommitTokensStep ==
    ASSUME TypeInv, PairsInv, NEW r \in Requests, CommitTokens(r)
    PROVE  [Promised!Next]_<<Lives, Heads>>
<1>1. PICK f \in Families, g \in Shown :
          /\ f = req[r].f /\ g = req[r].g /\ g < MaxGen
          /\ family[f].grant # None /\ req[r].pc = "commit" /\ TypeInv'
          /\ family' = [family EXCEPT ![f] = NextPair(family[f], g)]
          /\ \A x \in Families, h \in Shown :
                uses'[x][h] = IF x = f /\ h = g THEN uses[x][h] + 1 ELSE uses[x][h]
  BY CommitTokensIs
<1>2. /\ FamiliesTyped /\ uses \in [Families -> [Shown -> Nat]]
      /\ uses' \in [Families -> [Shown -> Nat]]
  BY <1>1, TypeParts DEF TypeInv
<1>3. State(family[f], g) = "active"
  BY <1>1, TxIs DEF InTokenTx
<1>4. /\ family'[f] = NextPair(family[f], g)
      /\ \A x \in Families : x # f => family'[x] = family[x] /\ uses'[x] = uses[x]
  BY <1>1, <1>2 DEF FamiliesTyped
<1>5. LifeOf(family[f]) = "live"
  BY <1>1, <1>3, Counting DEF State, LifeOf, Alive
<1>6. LifeOf(family'[f]) = "live"
  <2>1. family[f] \in FamilyRow
    BY <1>2 DEF FamiliesTyped
  <2>2. /\ Keeps(family[f], NextPair(family[f], g))
        /\ NextPair(family[f], g).access = (IF g = 0 THEN family[f].access ELSE {}) \cup {g + 1}
    BY <1>1, <2>1, PairIs
  <2>3. NextPair(family[f], g).access # {} /\ NextPair(family[f], g).grant # None
    BY <1>1, <2>2 DEF Keeps
  <2>4. QED
    BY <1>4, <2>3 DEF LifeOf, Alive
<1>7. uses[f][g] = 0
  BY <1>1, <1>3, PairsParts, Counting DEF PairsOf
<1>8. HeadOf(uses'[f]) = HeadOf(uses[f]) + 1
  <2>1. uses[f] \in [Shown -> Nat] /\ uses'[f] \in [Shown -> Nat]
    BY <1>2
  <2>2. \A h \in Shown : uses'[f][h] = IF h = g THEN uses[f][h] + 1 ELSE uses[f][h]
    BY <1>1
  <2>3. QED
    BY <1>7, <2>1, <2>2, HeadGrows
<1>9. Lives' = Lives
  BY <1>4, <1>5, <1>6 DEF Lives
<1>10. Heads' = [Heads EXCEPT ![f] = Heads[f] + 1]
  BY <1>4, <1>8 DEF Heads
<1>11. Lives[f] = "live"
  BY <1>5 DEF Lives
<1>12. Promised!Renew(f)
  BY <1>9, <1>10, <1>11 DEF Promised!Renew, Lives, Heads, LifeOf, HeadOf
<1>13. QED
  BY <1>12 DEF Promised!Next

\* One family has a row that only takes.
LEMMA RowStep ==
    ASSUME TypeInv, NEW f \in Families, NEW row, Shrinks(family[f], row), UNCHANGED uses,
           family' = [family EXCEPT ![f] = row]
    PROVE  [Promised!Next]_<<Lives, Heads>>
<1>1. FamiliesTyped
  BY TypeParts
<1>2. \A x \in Families : Shrinks(family[x], family'[x])
  BY <1>1, TakersShrink DEF FamiliesTyped
<1>3. QED
  BY <1>2, ShrinkStep

\* Every step is one of TokenFamily, or none.
LEMMA NextPromised ==
    TypeInv /\ PairsInv /\ [Next]_vars => [Promised!Next]_<<Lives, Heads>>
<1> SUFFICES ASSUME TypeInv, PairsInv, [Next]_vars PROVE [Promised!Next]_<<Lives, Heads>>
  OBVIOUS
<1>1. ASSUME UNCHANGED <<family, uses>> PROVE [Promised!Next]_<<Lives, Heads>>
  BY <1>1 DEF Lives, Heads
<1>2. CASE UNCHANGED vars
  BY <1>1, <1>2 DEF vars, rows, history
<1>3. ASSUME NEW r \in Requests,
             \/ Looks(r) \/ Notes(r) \/ Start(r) \/ Approve(r) \/ SaveCode(r) \/ SavePKCE(r)
             \/ ForgetPKCE(r) \/ CommitTokens(r) \/ RevokeRequest(r) \/ Cascade(r) \/ CommitGone(r)
      PROVE  [Promised!Next]_<<Lives, Heads>>
  <2>1. CASE Looks(r) \/ Notes(r) \/ Start(r) \/ Approve(r)
    BY <1>1, <2>1, LooksKeep, NotesKeep, StartKeeps, ApproveKeeps DEF Looks, Notes, rows, history
  <2>2. CASE SaveCode(r)
    BY <2>2, SaveCodeStep
  <2>3. CASE SavePKCE(r) \/ ForgetPKCE(r)
    <3>1. /\ req[r].f \in Families /\ UNCHANGED uses
          /\ \E row \in FamilyRow :
                /\ family' = [family EXCEPT ![req[r].f] = row] /\ Keeps(family[req[r].f], row)
                /\ row.code = family[req[r].f].code /\ row.access = family[req[r].f].access
                /\ row.refresh = family[req[r].f].refresh
      BY <2>3, SavePKCEIs, ForgetPKCEIs DEF history
    <3>2. PICK f \in Families, row \in FamilyRow :
              /\ family' = [family EXCEPT ![f] = row] /\ Keeps(family[f], row)
              /\ row.code = family[f].code /\ row.access = family[f].access
              /\ row.refresh = family[f].refresh
      BY <3>1
    <3>3. Shrinks(family[f], row)
      BY <3>2 DEF Shrinks
    <3>4. QED
      BY <3>1, <3>2, <3>3, RowStep
  <2>4. CASE CommitTokens(r)
    BY <2>4, CommitTokensStep
  <2>5. CASE RevokeRequest(r)
    <3>1. PICK f \in Families, seen \in SUBSET Gens :
              family' = [family EXCEPT ![f] = RevokedRow(family[f], seen)] /\ UNCHANGED uses
      BY <2>5, RevokeRequestIs
    <3>2. Shrinks(family[f], RevokedRow(family[f], seen))
      BY TypeParts, TakersShrink DEF FamiliesTyped
    <3>3. QED
      BY <3>1, <3>2, RowStep
  <2>6. CASE Cascade(r) \/ CommitGone(r)
    <3>1. /\ UNCHANGED uses /\ active' \subseteq active /\ req[r].held \in SUBSET Grants
          /\ DeleteGrants(req[r].held) \/ UNCHANGED family
      BY <2>6, CascadeIs, CommitGoneIs DEF history
    <3>2. CASE DeleteGrants(req[r].held)
      <4>1. \A f \in Families :
               family'[f] = IF family[f].grant \in req[r].held THEN Cascaded(family[f]) ELSE family[f]
        BY <3>1, <3>2, DeleteGrantsIs
      <4>2. \A f \in Families : Shrinks(family[f], family'[f])
        BY <4>1, TakersShrink, TypeParts DEF FamiliesTyped
      <4>3. QED
        BY <3>1, <4>2, ShrinkStep
    <3>3. QED
      BY <1>1, <3>1, <3>2
  <2>7. QED
    BY <1>3, <2>1, <2>2, <2>3, <2>4, <2>5, <2>6
<1>4. QED
  BY <1>2, <1>3, NextIs

\* What ended by a reuse, a revocation or a withdrawal never lives again, and
\* tokens come only from a live family, one pair at a time: the statements of
\* the token endpoint, the revocations and the deletions implement TokenFamily.
THEOREM TokenFamiliesKept == Spec => FamilyKept
<1>1. Init => Promised!Init
  <2> SUFFICES ASSUME Init PROVE Promised!Init
    OBVIOUS
  <2>1. \A f \in Families : family[f].grant = None
    BY NoRowsIs DEF Init
  <2>2. ASSUME NEW f \in Families PROVE Cardinality({g \in Shown : uses[f][g] > 0}) = 0
    <3>1. {g \in Shown : uses[f][g] > 0} = {}
      BY DEF Init
    <3>2. QED
      BY <3>1, FS_EmptySet
  <2>3. QED
    BY <2>1, <2>2 DEF Promised!Init
<1>2. TypeInv /\ PairsInv /\ [Next]_vars =>
         [Promised!Next]_<<[f \in Families |-> IF family[f].grant = None THEN "none"
                                               ELSE IF Alive(family[f]) THEN "live" ELSE "ended"],
                           [f \in Families |-> Cardinality({g \in Shown : uses[f][g] > 0})]>>
  BY NextPromised DEF Lives, Heads, LifeOf, HeadOf
<1>3. QED
  BY <1>1, <1>2, TypeInvHolds, PairsInvHolds, PTL DEF Spec, FamilyKept, Promised!Spec

=============================================================================
